---------------------------- MODULE StoreThread ----------------------------
(***************************************************************************)
(* The thread that owns a session's scan store                             *)
(* (scan_store/store_thread.rs, scan_store/session.rs): it takes the       *)
(* owner's commands in the order they were sent, and answers over a second *)
(* bounded queue, waiting for room there.                                  *)
(*                                                                         *)
(* The entries of one folder stand for the tree.  A map says which of them *)
(* it lists, which of them it knows could not be read, its generation and  *)
(* the generation of the scan it goes back to.  How a scan is reduced to a *)
(* map is left out: a publication succeeds, succeeds with a summary only   *)
(* (no room for the pages), or fails.                                      *)
(***************************************************************************)
EXTENDS Integers, Sequences, FiniteSets

CONSTANTS
    Entries,           \* entries of the folder deletions take their targets from
    FolderIsRoot,      \* whether that folder is the scan root
    CommandCapacity,   \* STORE_COMMAND_CAPACITY
    ResultCapacity,    \* STORE_RESULT_CAPACITY
    MaxFaults          \* bound on the failures of store, thread and scan

ASSUME StoreAssumption ==
    /\ FolderIsRoot \in BOOLEAN
    /\ CommandCapacity \in Nat \ {0} /\ ResultCapacity \in Nat \ {0}
    /\ MaxFaults \in Nat

NoGeneration == -1
NoMap == [gen |-> NoGeneration, scan |-> NoGeneration, listed |-> {}, unread |-> {}]
NoActive == [gen |-> NoGeneration, scan |-> NoGeneration, listed |-> {}, unread |-> {},
             open |-> FALSE]

VARIABLES
    disk,       \* the entries that exist
    commands,   \* owner to store thread
    results,    \* store thread to owner
    store,      \* the store thread
    faults      \* failures so far

storeVars == <<commands, results, store, faults>>

(***************************************************************************)
(* store.active is the generation that takes input; `open` while its       *)
(* manifest is Scanning.  store.newest is the largest generation retired   *)
(* or handed over, store.held the result there is no room for.             *)
(***************************************************************************)
Fresh(generation) ==
    [gen |-> generation, scan |-> generation, listed |-> {}, unread |-> {}, open |-> TRUE]

StoreInit ==
    /\ disk = Entries
    /\ commands = <<>> /\ results = <<>> /\ faults = 0
    /\ store = [active |-> Fresh(0), newest |-> NoGeneration, admissionFailed |-> FALSE,
                held |-> <<>>, running |-> TRUE]

\* What the owner sends.
Command(kind) == [kind |-> kind]
Notes(paths) == [kind |-> "Notes", paths |-> paths]
Admit(generation, entry) == [kind |-> "Admit", gen |-> generation, entry |-> entry]
BeginGeneration(generation) == [kind |-> "BeginGeneration", gen |-> generation]
Overlay(generation, prefix, later, verifyRoot, base) ==
    [kind |-> "Overlay", gen |-> generation, prefix |-> prefix, later |-> later,
     verifyRoot |-> verifyRoot, base |-> base]

\* What the thread answers.  A publication ends with a map, with a summary
\* that has no pages, or with an error.
Answer(kind, outcome, map) == [kind |-> kind, outcome |-> outcome, map |-> map]
Failed(kind) == <<Answer(kind, "error", NoMap)>>

-----------------------------------------------------------------------------
(***************************************************************************)
(* The store: every operator is given the store and returns the set of     *)
(* what may become of it, with the answer and the failures it took.        *)
(***************************************************************************)
Outcome(s, answer, cost) == [store |-> s, answer |-> answer, cost |-> cost]
Quietly(s) == {Outcome(s, <<>>, 0)}

Newer(left, right) == IF left > right THEN left ELSE right
LatestGeneration(s) == Newer(s.active.gen, s.newest)

RecordNotes(s, paths) ==
    IF s.active = NoActive THEN Quietly(s)
    ELSE Quietly([s EXCEPT !.active.unread = @ \union paths])

\* A batch for a generation that is not open fails like one there is no room for.
AdmissionFailure(s, cost) ==
    Outcome([s EXCEPT !.admissionFailed = TRUE], Failed("AdmissionFailed"), cost)
AdmitBatch(s, c) ==
    IF s.admissionFailed THEN Quietly(s)
    ELSE IF ~s.active.open \/ s.active.gen # c.gen THEN {AdmissionFailure(s, 0)}
    ELSE {Outcome([s EXCEPT !.active.listed = @ \union {c.entry}], <<>>, 0),
          AdmissionFailure(s, 1)}

\* Incomplete and cancelled are both final: an incomplete generation cannot be
\* cancelled, and is gone without having been retired.
Retire(s) == Quietly([s EXCEPT !.active = NoActive, !.newest = s.active.gen])
DiscardActive(s) == IF s.active = NoActive THEN Quietly(s) ELSE Retire(s)
CancelActive(s) ==
    IF s.active = NoActive THEN Quietly(s)
    ELSE IF s.active.open THEN Retire(s)
    ELSE {Outcome([s EXCEPT !.active = NoActive], Failed("Failure"), 0)}

Begin(s, generation) == [s EXCEPT !.active = Fresh(generation)]
BeginNewer(s, generation) ==
    LET ready == [s EXCEPT !.admissionFailed = FALSE]
    IN IF generation =< LatestGeneration(s) THEN {Outcome(ready, Failed("Failure"), 0)}
       ELSE Quietly(Begin(ready, generation))

\* publish_reporting and take_publication: the generation leaves the store, or
\* stays in it closed.
MapOf(active) ==
    [gen |-> active.gen, scan |-> active.scan, listed |-> active.listed,
     unread |-> active.unread]
HandOver(s, outcome, cost) ==
    Outcome([s EXCEPT !.active = NoActive, !.newest = Newer(@, s.active.gen)],
            <<Answer("Publication", outcome, MapOf(s.active))>>, cost)
PublishReporting(s) ==
    IF ~s.active.open THEN {Outcome(s, Failed("Publication"), 0)}
    ELSE {HandOver(s, "map", 0), HandOver(s, "summary", 1),
          Outcome([s EXCEPT !.active.open = FALSE], Failed("Publication"), 1)}

Publish(s) ==
    IF s.admissionFailed THEN {Outcome(s, Failed("Publication"), 0)}
    ELSE PublishReporting(s)

\* The folder that held the removed entry is listed, unless it is the root, and
\* must hold what the base lists of it, less the removals already made.
ListsFolder(c) == FolderIsRoot => c.verifyRoot
FolderAgrees(c) == disk = c.base.listed \ ({c.prefix} \union c.later)
OverlayFrom(s, c) ==
    LET ready == [s EXCEPT !.admissionFailed = FALSE]
        begun == [Begin(ready, c.gen) EXCEPT !.active.scan = c.base.scan,
                                             !.active.unread = c.base.unread]
        copied == [begun EXCEPT !.active.listed = c.base.listed \ {c.prefix}]
        refused == [begun EXCEPT !.active.open = FALSE]
        error == Failed("Publication")
    IN (IF ListsFolder(c) THEN {Outcome(ready, error, 1)} ELSE {}) \union
       IF c.gen =< LatestGeneration(s) THEN {Outcome(ready, error, 0)}
       ELSE IF ListsFolder(c) /\ ~FolderAgrees(c) THEN {Outcome(refused, error, 0)}
       ELSE {Outcome(refused, error, 1)} \union PublishReporting(copied)

\* StoreEngine::apply.
Outcomes(s, c) ==
    CASE c.kind = "Notes" -> RecordNotes(s, c.paths)
      [] c.kind = "Admit" -> AdmitBatch(s, c)
      [] c.kind = "ProvisionalPage" ->
            {Outcome(s, <<Answer("ProvisionalPage",
                                 IF s.active.open THEN "page" ELSE "error", NoMap)>>, 0)}
      [] c.kind = "Publish" -> Publish(s)
      [] c.kind = "BeginGeneration" -> BeginNewer(s, c.gen)
      [] c.kind = "Overlay" -> OverlayFrom(s, c)
      [] c.kind = "DiscardActive" -> DiscardActive(s)
      [] c.kind = "CancelActive" -> CancelActive(s)

-----------------------------------------------------------------------------
(***************************************************************************)
(* The thread.                                                             *)
(***************************************************************************)
RoomForResult == Len(results) < ResultCapacity

\* One command is applied and answered; an answer without room is held.
Apply ==
    /\ store.running /\ store.held = <<>> /\ commands # <<>>
    /\ \E o \in Outcomes(store, Head(commands)) :
         /\ faults + o.cost =< MaxFaults
         /\ faults' = faults + o.cost
         /\ IF RoomForResult
            THEN results' = results \o o.answer /\ store' = o.store
            ELSE results' = results /\ store' = [o.store EXCEPT !.held = o.answer]
    /\ commands' = Tail(commands)
    /\ UNCHANGED disk

\* send_result found room.
SendHeld ==
    /\ store.running /\ store.held # <<>> /\ RoomForResult
    /\ results' = results \o store.held
    /\ store' = [store EXCEPT !.held = <<>>]
    /\ UNCHANGED <<disk, commands, faults>>

\* The thread is lost: what it has sent can still be read.
ThreadStops ==
    /\ store.running /\ faults < MaxFaults
    /\ store' = [store EXCEPT !.running = FALSE, !.held = <<>>]
    /\ faults' = faults + 1
    /\ UNCHANGED <<disk, commands, results>>

=============================================================================
