------------------------------ MODULE Scanner ------------------------------
(***************************************************************************)
(* One generation of a scan: the scheduler thread                          *)
(* (runtime/scanner/scheduler.rs), the worker threads                      *)
(* (runtime/scanner.rs), the bounded channels between them and to the      *)
(* owner, and the three flags they share.                                  *)
(*                                                                         *)
(* A folder is read in parts; each part that was sealed is one event, and  *)
(* names the subfolders to be scanned next.  Which ready folder the        *)
(* coordinator grants next (module Coordinator) and where the waiting      *)
(* folders are kept (module TaskQueue) is left open here.  Folders that    *)
(* cannot be read or were replaced, refused capacity, a root that changed, *)
(* a cancellation, and an owner that moves the coordinator on to a newer   *)
(* generation while a rebuild is scanning can happen at any step.          *)
(***************************************************************************)
EXTENDS Integers, Sequences, FiniteSets

CONSTANTS
    Workers,            \* scanner threads
    Folders, Root,      \* the tree: its folders and the scan root
    Parts(_),           \* for a folder, the sequence of its parts: sets of subfolders
    None,               \* no folder
    CommandCapacity,    \* bound of the scheduler's command channel
    InboxCapacity,      \* bound of the owner's event channel
    MaxCauses           \* bound on the kinds of faults in one scan

ASSUME ScannerConstants ==
    /\ Workers # {}
    /\ Root \in Folders /\ None \notin Folders
    /\ \A f \in Folders : Parts(f) \in Seq(SUBSET Folders)
    /\ CommandCapacity \in Nat \ {0} /\ InboxCapacity \in Nat \ {0}
    /\ MaxCauses \in Nat

VARIABLES
    cancelled, failed, rootInvalid,   \* the shared flags
    at, hand, event, then,            \* the scheduler: where it is, what it holds
    active,                           \* the lease the scheduler has out with each worker
    invalidated,                      \* root_invalidated
    ready, leases,                    \* the coordinator's pending and leased folders
    waiting, pending,                 \* the journal, and its count
    commands,                         \* the command channel
    assigned,                         \* each worker's assignment channel, of one
    results,                          \* each worker's event channel, of one
    worker,                           \* each worker's place in scan_worker
    inbox,                            \* the owner's event channel
    delivered,                        \* parts the owner has received
    told,                             \* folders the owner was told are not (all) scanned
    failureHeard,                     \* the owner was told the scan as a whole failed
    result,                           \* "none", "sent", then what ScanFinished said
    rootChanged, causes               \* the world: a replaced root, faults so far

flags == <<cancelled, failed, rootInvalid>>
scheduler == <<at, hand, event, then, active, invalidated>>
coordinator == <<ready, leases>>
queue == <<waiting, pending>>
owner == <<inbox, delivered, told, failureHeard, result>>
vars == <<flags, scheduler, coordinator, queue, commands, assigned, results, worker,
          owner, rootChanged, causes>>

Event(kind, folder, part) == [kind |-> kind, folder |-> folder, part |-> part]
ScanFailure == Event("failure", None, 0)
NoHand == [w |-> None, folder |-> None]
IdleWorker == [at |-> "idle", folder |-> None, part |-> 0, dirs |-> {},
               event |-> ScanFailure, then |-> "idle", continue |-> TRUE]

Init ==
    /\ cancelled = FALSE /\ failed = FALSE /\ rootInvalid = FALSE
    /\ at = "admit" /\ hand = NoHand /\ event = ScanFailure /\ then = "top"
    /\ active = [w \in Workers |-> None] /\ invalidated = FALSE
    /\ ready = {} /\ leases = {}
    /\ waiting = {Root} /\ pending = 1
    /\ commands = <<>>
    /\ assigned = [w \in Workers |-> None]
    /\ results = [w \in Workers |-> <<>>]
    /\ worker = [w \in Workers |-> IdleWorker]
    /\ inbox = <<>> /\ delivered = {} /\ told = {} /\ failureHeard = FALSE
    /\ result = "none"
    /\ rootChanged = FALSE /\ causes = {}

\* A fault of each kind happens once at most; the bound is on the kinds.
Fault(kind) ==
    /\ kind \notin causes /\ Cardinality(causes) < MaxCauses
    /\ causes' = causes \union {kind}

\* The coordinator has moved on to a newer generation, of which this scan is not.
Overtaken == "advance" \in causes

Stopping == cancelled \/ failed \/ rootInvalid
NoneActive == \A w \in Workers : active[w] = None
SchedulerIsGone == at = "gone"
IsGone(w) == worker[w].at = "gone"
HasRoom == Len(inbox) < InboxCapacity

-----------------------------------------------------------------------------
(* The scheduler *)

\* fail: the coordinator's scan work ends, the flag is raised, then the owner
\* is told.
Fail ==
    /\ at' = "failing" /\ event' = ScanFailure
    /\ ready' = {} /\ leases' = {}
    /\ failed' = TRUE
    /\ UNCHANGED <<cancelled, rootInvalid>>

Goes(place) ==
    /\ at' = place /\ event' = ScanFailure
    /\ UNCHANGED flags

\* The root, which the journal holds from the start, is admitted by the
\* coordinator, unless that belongs to a newer generation by now.
AdmitRoot ==
    /\ at = "admit"
    /\ IF Overtaken
         THEN Fail
         ELSE Goes("top") /\ ready' = {Root} /\ UNCHANGED leases
    /\ UNCHANGED <<hand, then, active, invalidated, queue, commands, assigned, results, worker,
                   owner, rootChanged, causes>>

\* The top of the loop looks at the flags.
Top ==
    /\ at = "top"
    /\ invalidated' = (invalidated \/ rootInvalid)
    /\ IF cancelled \/ failed \/ (rootInvalid /\ ~invalidated)
         THEN ready' = {} /\ leases' = {}
         ELSE UNCHANGED coordinator
    /\ Goes(IF (rootInvalid /\ NoneActive) \/ cancelled \/ failed THEN "gone"
            ELSE IF rootInvalid THEN "select"
            ELSE "dispatch")
    /\ UNCHANGED <<hand, then, active, queue, commands, assigned, results, worker, owner,
                   rootChanged, causes>>

\* lease_task: the coordinator grants a folder; the journal gives nothing up
\* once a flag is raised.
Lease(w, f) ==
    /\ at = "dispatch" /\ active[w] = None /\ f \in ready
    /\ IF Stopping
         THEN Fail /\ UNCHANGED <<hand, waiting>>
         ELSE /\ Goes("assign")
              /\ hand' = [w |-> w, folder |-> f]
              /\ ready' = ready \ {f} /\ leases' = leases \union {f}
              /\ waiting' = waiting \ {f}
    /\ UNCHANGED <<then, active, invalidated, pending, commands, assigned, results, worker,
                   owner, rootChanged, causes>>

\* try_send to the worker, which may have left in the meantime.
Assign ==
    /\ at = "assign"
    /\ hand' = NoHand
    /\ IF IsGone(hand.w)
         THEN Fail /\ UNCHANGED <<active, assigned>>
         ELSE /\ Goes("dispatch")
              /\ active' = [active EXCEPT ![hand.w] = hand.folder]
              /\ assigned' = [assigned EXCEPT ![hand.w] = hand.folder]
              /\ UNCHANGED coordinator
    /\ UNCHANGED <<then, invalidated, queue, commands, results, worker, owner, rootChanged, causes>>

\* Mutant: the journal's count is taken for the number of folders in it.
ScanIsOverWhenEmpty == waiting = {}

ScanIsOver == pending = 0 /\ NoneActive

DispatchEnds ==
    /\ at = "dispatch"
    /\ ready = {} \/ \A w \in Workers : active[w] # None
    /\ Goes(IF ScanIsOver THEN "gone" ELSE "select")
    /\ UNCHANGED <<hand, then, active, invalidated, coordinator, queue, commands, assigned,
                   results, worker, owner, rootChanged, causes>>

\* Enqueue: a folder the coordinator admits is put into the journal, which may
\* be refused the capacity; one of an older generation it does not admit
\* (StaleGeneration).
TakeEnqueue ==
    /\ at = "select" /\ commands # <<>> /\ Head(commands).kind = "enqueue"
    /\ commands' = Tail(commands)
    /\ LET f == Head(commands).folder IN
       \/ /\ Overtaken
          /\ Fail
          /\ UNCHANGED <<queue, causes>>
       \/ /\ ~Overtaken /\ f \in ready \union leases
          /\ Goes("top")
          /\ UNCHANGED <<coordinator, queue, causes>>
       \/ /\ ~Overtaken /\ f \notin ready \union leases
          /\ Goes("top")
          /\ ready' = ready \union {f}
          /\ waiting' = waiting \union {f} /\ pending' = pending + 1
          /\ UNCHANGED <<leases, causes>>
       \/ /\ ~Overtaken /\ f \notin ready \union leases
          /\ Fault("queue")
          /\ Fail
          /\ UNCHANGED queue
    /\ UNCHANGED <<hand, then, active, invalidated, assigned, results, worker, owner, rootChanged>>

TakeComplete ==
    /\ at = "select" /\ commands # <<>> /\ Head(commands).kind = "complete"
    /\ commands' = Tail(commands)
    /\ hand' = [w |-> Head(commands).w, folder |-> Head(commands).folder]
    /\ Goes("completing")
    /\ UNCHANGED <<then, active, invalidated, coordinator, queue, assigned, results, worker,
                   owner, rootChanged, causes>>

\* Mutant: a result of the worker is left for the next round.
ForwardsNothing(w) == FALSE

\* forward_pending_events: the results of a worker come before its completion.
ForwardsFirst(w) == results[w] # <<>>

TakesResult(w, next) ==
    /\ event' = Head(results[w])
    /\ results' = [results EXCEPT ![w] = <<>>]
    /\ at' = "forward" /\ then' = next
    /\ UNCHANGED flags

\* complete_lease: the lease must be the worker's, and the coordinator must
\* still have it.
CompleteLease ==
    /\ at = "completing"
    /\ LET w == hand.w
           f == hand.folder
       IN IF ForwardsFirst(w)
            THEN /\ TakesResult(w, "completing")
                 /\ UNCHANGED <<hand, active, coordinator, pending>>
          ELSE IF active[w] # f \/ f \notin leases
            THEN Fail /\ hand' = NoHand /\ UNCHANGED <<then, active, results, pending>>
          ELSE /\ Goes("top")
               /\ hand' = NoHand
               /\ active' = [active EXCEPT ![w] = None]
               /\ leases' = leases \ {f}
               /\ pending' = pending - 1
               /\ UNCHANGED <<then, ready, results>>
    /\ UNCHANGED <<invalidated, waiting, commands, assigned, worker, owner, rootChanged, causes>>

\* Mutant: results are looked at when their worker completes.
SelectsNoResults(w) == FALSE

SelectsResults(w) == results[w] # <<>>

TakeResult(w) ==
    /\ at = "select" /\ SelectsResults(w)
    /\ hand' = [w |-> w, folder |-> None]
    /\ TakesResult(w, "top")
    /\ UNCHANGED <<active, invalidated, coordinator, queue, commands, assigned, worker, owner,
                   rootChanged, causes>>

\* A worker that has left closes its channel; with a lease out that is a
\* failure, without one the scan is taken to be over.
ResultsClosed(w) == IsGone(w) /\ results[w] = <<>>

NoticeClosed(w) ==
    /\ at = "select" /\ ResultsClosed(w)
    /\ IF active[w] # None THEN Fail ELSE Goes("gone") /\ UNCHANGED coordinator
    /\ UNCHANGED <<hand, then, active, invalidated, queue, commands, assigned, results, worker,
                   owner, rootChanged, causes>>

\* The command channel closes with the last worker.
NoticeCommandsClosed ==
    /\ at = "select" /\ commands = <<>> /\ \A w \in Workers : IsGone(w)
    /\ IF NoneActive THEN Goes("gone") /\ UNCHANGED coordinator ELSE Fail
    /\ UNCHANGED <<hand, then, active, invalidated, queue, commands, assigned, results, worker,
                   owner, rootChanged, causes>>

SelectTimesOut ==
    /\ at = "select" /\ commands = <<>>
    /\ \A w \in Workers : ~SelectsResults(w) /\ ~ResultsClosed(w)
    /\ Goes("top")
    /\ UNCHANGED <<hand, then, active, invalidated, coordinator, queue, commands, assigned,
                   results, worker, owner, rootChanged, causes>>

\* send_event to the owner waits for room, unless the scan is cancelled.
SendsToOwner(e) ==
    \/ HasRoom /\ inbox' = Append(inbox, e)
    \/ ~HasRoom /\ cancelled /\ UNCHANGED inbox

\* forward_worker_event: a result counts only under the worker's own lease.
Forward ==
    /\ at = "forward"
    /\ LET lease == active[hand.w]
           rejected == lease = None \/ (event.kind # "failure" /\ event.folder # lease)
       IN IF rejected
            THEN Fail /\ UNCHANGED inbox
            ELSE SendsToOwner(event) /\ Goes(then) /\ UNCHANGED coordinator
    /\ hand' = IF at' = "completing" THEN hand ELSE NoHand
    /\ UNCHANGED <<then, active, invalidated, queue, commands, assigned, results, worker,
                   delivered, told, failureHeard, result, rootChanged, causes>>

ReportFailure ==
    /\ at = "failing"
    /\ SendsToOwner(ScanFailure)
    /\ Goes("gone")
    /\ UNCHANGED <<hand, then, active, invalidated, coordinator, queue, commands, assigned,
                   results, worker, delivered, told, failureHeard, result, rootChanged, causes>>

Schedules ==
    \/ AdmitRoot
    \/ Top
    \/ \E w \in Workers, f \in Folders : Lease(w, f)
    \/ Assign
    \/ DispatchEnds
    \/ TakeEnqueue
    \/ TakeComplete
    \/ CompleteLease
    \/ \E w \in Workers : TakeResult(w)
    \/ \E w \in Workers : NoticeClosed(w)
    \/ NoticeCommandsClosed
    \/ SelectTimesOut
    \/ Forward
    \/ ReportFailure

-----------------------------------------------------------------------------
(* The workers *)

\* A worker's local step; each action says what else changes.
Moves(w, next) == worker' = [worker EXCEPT ![w] = next]
OthersKeep == UNCHANGED <<scheduler, coordinator, queue, owner, rootChanged>>

GoesTo(w, place) == [worker[w] EXCEPT !.at = place]
Ends(w, continue) == [GoesTo(w, "finish") EXCEPT !.continue = continue]
Reports(w, e, next) == [GoesTo(w, "report") EXCEPT !.event = e, !.then = next]
Sent(w, next) == [GoesTo(w, next) EXCEPT !.event = ScanFailure, !.then = "idle"]
Left == [IdleWorker EXCEPT !.at = "gone"]

Looks(w) ==
    /\ worker[w].at = "idle"
    /\ Moves(w, GoesTo(w, IF Stopping THEN "gone" ELSE "receive"))
    /\ OthersKeep /\ UNCHANGED <<flags, commands, assigned, results, causes>>

\* An assignment, a timeout, or a scheduler that is gone.
Receives(w) ==
    /\ worker[w].at = "receive"
    /\ assigned' = [assigned EXCEPT ![w] = None]
    /\ Moves(w, IF assigned[w] # None
                THEN [GoesTo(w, "start") EXCEPT !.folder = assigned[w], !.part = 1]
                ELSE GoesTo(w, IF SchedulerIsGone THEN "gone" ELSE "idle"))
    /\ OthersKeep /\ UNCHANGED <<flags, commands, results, causes>>

\* validate_root_for_traversal: the first worker to see that the root changed
\* raises the flag, and then tells the owner.
RootIsGood == ~rootInvalid /\ ~rootChanged

LeavesRoot(w) ==
    /\ rootInvalid' = TRUE
    /\ Moves(w, IF rootInvalid THEN Ends(w, FALSE)
                ELSE [Reports(w, ScanFailure, "finish") EXCEPT !.continue = FALSE])
    /\ UNCHANGED <<cancelled, failed>>

\* The folder cannot be opened or read, or was replaced: the owner is told and
\* the worker goes on with the next one.
LosesFolder(w) ==
    /\ Fault("read")
    /\ \E kind \in {"failure", "unscanned"} :
        Moves(w, [Reports(w, Event(kind, worker[w].folder, 0), "finish")
                    EXCEPT !.continue = TRUE])

Starts(w) ==
    /\ worker[w].at = "start"
    /\ \/ /\ cancelled \/ failed \/ rootInvalid
          /\ Moves(w, Ends(w, FALSE))
          /\ UNCHANGED <<flags, causes>>
       \/ /\ ~Stopping /\ ~RootIsGood
          /\ LeavesRoot(w)
          /\ UNCHANGED causes
       \/ /\ ~Stopping /\ RootIsGood
          /\ Moves(w, GoesTo(w, "read"))
          /\ UNCHANGED <<flags, causes>>
       \/ /\ ~Stopping /\ RootIsGood
          /\ LosesFolder(w)
          /\ UNCHANGED flags
    /\ OthersKeep /\ UNCHANGED <<commands, assigned, results>>

IsLastPart(w) == worker[w].part = Len(Parts(worker[w].folder))
IsPastEnd(w) == worker[w].part > Len(Parts(worker[w].folder))

\* The entries of a part, up to a full batch or the end of the folder, where
\* the root is looked at once more.
Reads(w) ==
    /\ worker[w].at = "read"
    /\ \/ /\ Stopping
          /\ Moves(w, Ends(w, FALSE))
          /\ UNCHANGED flags
       \/ /\ ~Stopping /\ IsLastPart(w) /\ ~RootIsGood
          /\ LeavesRoot(w)
       \/ /\ ~Stopping /\ (IsLastPart(w) => RootIsGood)
          /\ Moves(w, GoesTo(w, IF IsPastEnd(w) THEN "check" ELSE "seal"))
          /\ UNCHANGED flags
    /\ OthersKeep /\ UNCHANGED <<commands, assigned, results, causes>>

\* process_entry on an entry of its own: it cannot be read, or it is recorded
\* as unscanned, for which capacity may be refused.
ReportsEntry(w) ==
    /\ worker[w].at = "read" /\ ~Stopping /\ ~IsPastEnd(w)
    /\ \/ /\ Fault("entry")
          /\ \E kind \in {"failure", "unscanned"} :
                Moves(w, Reports(w, Event(kind, worker[w].folder, worker[w].part), "read"))
          /\ UNCHANGED failed
       \/ /\ Fault("seal")
          /\ failed' = TRUE
          /\ Moves(w, Reports(w, ScanFailure, "read"))
    /\ OthersKeep /\ UNCHANGED <<cancelled, rootInvalid, commands, assigned, results>>

\* flush_frame: the batch is sealed, or refused capacity; the flag is raised
\* before the owner is told.
Seals(w) ==
    /\ worker[w].at = "seal"
    /\ LET f == worker[w].folder
           i == worker[w].part
       IN \/ /\ Moves(w, [Reports(w, Event("part", f, i), "enqueue") EXCEPT !.dirs = Parts(f)[i]])
             /\ UNCHANGED <<failed, causes>>
          \/ /\ Fault("seal")
             /\ failed' = TRUE
             /\ Moves(w, [Reports(w, ScanFailure, "finish") EXCEPT !.continue = FALSE])
    /\ OthersKeep /\ UNCHANGED <<cancelled, rootInvalid, commands, assigned, results>>

\* send_event to the scheduler: into the channel of one, or not at all.  Only
\* a batch that was not taken ends the folder.
Reported(w) ==
    /\ worker[w].at = "report"
    /\ \/ /\ ~SchedulerIsGone /\ results[w] = <<>>
          /\ results' = [results EXCEPT ![w] = <<worker[w].event>>]
          /\ Moves(w, Sent(w, worker[w].then))
       \/ /\ SchedulerIsGone \/ (results[w] # <<>> /\ cancelled)
          /\ UNCHANGED results
          /\ Moves(w, IF worker[w].event.kind = "part"
                      THEN [Sent(w, "finish") EXCEPT !.continue = FALSE, !.dirs = {}]
                      ELSE Sent(w, worker[w].then))
    /\ OthersKeep /\ UNCHANGED <<flags, commands, assigned, causes>>

CommandsHaveRoom == ~SchedulerIsGone /\ Len(commands) < CommandCapacity
CommandIsLost == SchedulerIsGone \/ (Len(commands) = CommandCapacity /\ cancelled)

Enqueues(w) ==
    /\ worker[w].at = "enqueue"
    /\ \/ /\ worker[w].dirs = {}
          /\ Moves(w, GoesTo(w, "check"))
          /\ UNCHANGED <<commands, failed>>
       \/ /\ CommandsHaveRoom
          /\ \E f \in worker[w].dirs :
                /\ commands' = Append(commands, [kind |-> "enqueue", w |-> w, folder |-> f])
                /\ Moves(w, [worker[w] EXCEPT !.dirs = @ \ {f}])
          /\ UNCHANGED failed
       \/ /\ worker[w].dirs # {} /\ CommandIsLost
          /\ failed' = TRUE
          /\ Moves(w, [Reports(w, ScanFailure, "finish")
                        EXCEPT !.dirs = {}, !.continue = FALSE])
          /\ UNCHANGED commands
    /\ OthersKeep /\ UNCHANGED <<cancelled, rootInvalid, assigned, results, causes>>

\* After each part the root and the folder are looked at again.
Checks(w) ==
    /\ worker[w].at = "check"
    /\ \/ /\ ~RootIsGood
          /\ LeavesRoot(w)
          /\ UNCHANGED causes
       \/ /\ RootIsGood
          /\ LosesFolder(w)
          /\ UNCHANGED flags
       \/ /\ RootIsGood
          /\ Moves(w, IF worker[w].part < Len(Parts(worker[w].folder))
                      THEN [GoesTo(w, "read") EXCEPT !.part = @ + 1]
                      ELSE Ends(w, TRUE))
          /\ UNCHANGED <<flags, causes>>
    /\ OthersKeep /\ UNCHANGED <<commands, assigned, results>>

\* The end of a folder: the completion follows everything else the worker sent.
Finishes(w) ==
    /\ worker[w].at = "finish"
    /\ \/ /\ CommandsHaveRoom
          /\ commands' = Append(commands,
                [kind |-> "complete", w |-> w, folder |-> worker[w].folder])
          /\ Moves(w, IF worker[w].continue THEN IdleWorker ELSE GoesTo(w, "leave"))
          /\ UNCHANGED failed
       \/ /\ CommandIsLost
          /\ failed' = TRUE
          /\ Moves(w, Left)
          /\ UNCHANGED commands
    /\ OthersKeep /\ UNCHANGED <<cancelled, rootInvalid, assigned, results, causes>>

LeavesScan(w) ==
    /\ worker[w].at = "leave"
    /\ cancelled' = (cancelled \/ ~Stopping)
    /\ Moves(w, Left)
    /\ OthersKeep /\ UNCHANGED <<failed, rootInvalid, commands, assigned, results, causes>>

Works(w) ==
    \/ Looks(w) \/ Receives(w) \/ Starts(w) \/ Reads(w) \/ ReportsEntry(w) \/ Seals(w)
    \/ Reported(w) \/ Enqueues(w) \/ Checks(w) \/ Finishes(w) \/ LeavesScan(w)

-----------------------------------------------------------------------------
(* The scanner thread, the owner and the world *)

\* run_with_scheduler: everybody has left, and the end is told whatever the
\* flags say.
FinishScan ==
    /\ SchedulerIsGone /\ \A w \in Workers : IsGone(w)
    /\ result = "none" /\ HasRoom
    /\ inbox' = Append(inbox, Event(IF cancelled /\ ~failed /\ ~rootInvalid
                                    THEN "cancelled" ELSE "done", None, 0))
    /\ result' = "sent"
    /\ UNCHANGED <<flags, scheduler, coordinator, queue, commands, assigned, results, worker,
                   delivered, told, failureHeard, rootChanged, causes>>

OwnerReceives ==
    /\ inbox # <<>>
    /\ inbox' = Tail(inbox)
    /\ LET e == Head(inbox) IN
        /\ delivered' = IF e.kind = "part" THEN delivered \union {<<e.folder, e.part>>} ELSE delivered
        /\ told' = IF e.kind \in {"failure", "unscanned"} /\ e.part = 0
                   THEN told \union ({e.folder} \ {None}) ELSE told
        /\ failureHeard' = (failureHeard \/ e = ScanFailure)
        /\ result' = IF e.kind \in {"cancelled", "done"} THEN e.kind ELSE result
    /\ UNCHANGED <<flags, scheduler, coordinator, queue, commands, assigned, results, worker,
                   rootChanged, causes>>

\* cancel_rebuild, or the end of the session.
Cancel ==
    /\ ~cancelled /\ result = "none"
    /\ cancelled' = TRUE
    /\ UNCHANGED <<failed, rootInvalid, scheduler, coordinator, queue, commands, assigned,
                   results, worker, owner, rootChanged, causes>>

\* Another process replaces the scan root.
RootChanges ==
    /\ result = "none"
    /\ Fault("root")
    /\ rootChanged' = TRUE
    /\ UNCHANGED <<flags, scheduler, coordinator, queue, commands, assigned, results, worker, owner>>

\* start_next_removal_overlay: the owner asks for the overlay of a finished
\* deletion and moves the coordinator on, which ends the leases and the pending
\* work of the rebuild that is scanning (advance_to).
OwnerAdvances ==
    /\ result = "none"
    /\ Fault("advance")
    /\ ready' = {} /\ leases' = {}
    /\ UNCHANGED <<flags, scheduler, queue, commands, assigned, results, worker, owner,
                   rootChanged>>

Next ==
    \/ Schedules
    \/ \E w \in Workers : Works(w)
    \/ FinishScan
    \/ OwnerReceives
    \/ Cancel
    \/ RootChanges
    \/ OwnerAdvances

Spec == Init /\ [][Next]_vars

\* Every thread runs, and the owner takes what it is sent.
FairSpec ==
    /\ Spec
    /\ WF_vars(Schedules)
    /\ \A w \in Workers : WF_vars(Works(w))
    /\ WF_vars(FinishScan) /\ WF_vars(OwnerReceives)

-----------------------------------------------------------------------------
(* Properties *)

\* The folders the owner has heard of.
Known ==
    {Root} \union UNION {Parts(d[1])[d[2]] : d \in delivered}

\* Each of them was delivered in full, or the owner was told that it was not.
Accounted ==
    \A f \in Known :
        f \in told \/ \A i \in 1..Len(Parts(f)) : <<f, i>> \in delivered

\* A scan that ends by itself has delivered every folder it named or told the
\* owner which one it could not read, whatever order results, completions and
\* new folders were taken in; and one whose journal was refused capacity, or
\* that failed because the coordinator had moved on, has said so.
FinishIsComplete ==
    result = "done" /\ ~cancelled /\ causes \intersect {"seal", "root"} = {} =>
        IF "queue" \in causes \/ (Overtaken /\ failed) THEN failureHeard ELSE Accounted

\* The scheduler never takes its own bookkeeping for a failure: no result
\* without a lease, no completion the coordinator rejects, no folder it does not
\* admit or that is missing from the journal, no worker that left, unless the
\* scan was cancelled, the root changed, capacity was refused or the owner moved
\* the coordinator on to a newer generation.
FailureHasCause ==
    failed => cancelled \/ causes \intersect {"seal", "root", "queue", "advance"} # {}

\* An advance of the generation has taken the folders the journal still holds
\* from the coordinator, no worker has one to complete, and nobody raises a flag:
\* the scheduler polls (queue.is_idle() stays false).
Forsaken ==
    /\ Overtaken /\ ~Stopping
    /\ at \in {"top", "dispatch", "select"} /\ NoneActive /\ commands = <<>>
    /\ ready = {} /\ pending > 0

\* The scan ends and the owner hears of it, whatever is full, gone, refused,
\* replaced or cancelled; the one exception is a rebuild that an advance of the
\* generation catches with folders in the journal and none leased, and that one
\* ends too as soon as the reader cancels it.
ScanEnds == <>(result \in {"done", "cancelled"}) \/ <>[]Forsaken

\* "If scanner journal work cannot reserve scan-store capacity, the scanner
\* reports an actionable failure and does not call the partial scan exact"
\* (docs/safety/accounting.md), and the same for a root that changed.
PartialScanIsReported ==
    result = "done" /\ ~cancelled /\ ~Accounted => failureHeard

=============================================================================
