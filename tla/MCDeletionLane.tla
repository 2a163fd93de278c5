-------------------------- MODULE MCDeletionLane --------------------------
(***************************************************************************)
(* Instances of DeletionLane for TLC.                                      *)
(***************************************************************************)
EXTENDS DeletionLane

\* A folder, an entry of it, and an entry beside it: two of the three overlap.
FolderEntryAndSibling == {<<1>>, <<1, 1>>, <<2>>}

\* Two targets that do not overlap.
TwoTargets == {<<1>>, <<2>>}

\* The behaviours in which nobody asks to leave: three deletions can follow one
\* another, and rebuilds of the map come between them.
NobodyLeaves ==
    /\ Init
    /\ [][\/ OwnerStep \/ DepartureEnds \/ EventArrives \/ ScanFinished
          \/ ScanPathGone \/ StoreMoves \/ PlannerRuns \/ ExecutorRuns
          \/ CancelRebuild
          \/ \E target \in Targets : RequestDeletion(target)]_vars
=============================================================================
