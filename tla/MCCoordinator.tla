--------------------------- MODULE MCCoordinator ---------------------------
(***************************************************************************)
(* Small instances of the session coordinator for TLC.                     *)
(***************************************************************************)
EXTENDS Coordinator

\* A directory, a child of it, and the root.
MCPaths == {<<>>, <<1>>, <<1, 1>>}

\* Traversal at two priorities, a reducer, and both deletion lanes.
MCWorkInputs ==
    {[kind |-> "EnumerateDirectory", path |-> <<1>>, priority |-> "Background"],
     [kind |-> "EnumerateDirectory", path |-> <<1>>, priority |-> "Foreground"],
     [kind |-> "EnumerateDirectory", path |-> <<1, 1>>, priority |-> "Foreground"],
     [kind |-> "PlanDeletion", path |-> <<1>>, priority |-> "Foreground"],
     [kind |-> "ExecuteDeletion", path |-> <<1>>, priority |-> "Safety"],
     [kind |-> "ExecuteDeletion", path |-> <<1, 1>>, priority |-> "Foreground"]}

=============================================================================
