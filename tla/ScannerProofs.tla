--------------------------- MODULE ScannerProofs ---------------------------
(***************************************************************************)
(* Proofs about Scanner.  One inductive invariant, ScanIInv, carries both  *)
(* invariants of the module.  What it says of a scan that nobody cancelled *)
(* and no fault stopped has two parts: the books of the scheduler, the     *)
(* workers, the coordinator and the journal agree (BookInv), so that none  *)
(* of the scheduler's failures can happen; and every folder the owner has  *)
(* heard named is done, waiting, out with a worker or on its way           *)
(* (Progress), so that nothing is missing once nothing is left.  A scan    *)
(* the coordinator has moved on from counts as one nothing stopped for as  *)
(* long as it has not failed: the journal and the scheduler still agree.   *)
(***************************************************************************)
EXTENDS Scanner, FiniteSetTheorems, TLAPS

USE DEF flags, scheduler, coordinator, queue, owner

(***************************************************************************)
(* Types.                                                                  *)
(***************************************************************************)
Reportable == [kind : {"part", "failure", "unscanned"}, folder : Folders \cup {None},
               part : Nat]
Endings == [kind : {"cancelled", "done"}, folder : {None}, part : {0}]
Commands == [kind : {"enqueue", "complete"}, w : Workers, folder : Folders]
WorkerPlaces == {"idle", "receive", "start", "read", "report", "seal", "enqueue",
                 "check", "finish", "leave", "gone"}
WorkerStates ==
    [at : WorkerPlaces, folder : Folders \cup {None}, part : Nat,
     dirs : SUBSET Folders, event : Reportable,
     then : {"idle", "read", "enqueue", "finish"}, continue : BOOLEAN]

WorkerTypes == worker \in [Workers -> WorkerStates]
LeaseTypes ==
    /\ active \in [Workers -> Folders \cup {None}]
    /\ assigned \in [Workers -> Folders \cup {None}]
    /\ hand \in [w : Workers \cup {None}, folder : Folders \cup {None}]
    /\ ready \subseteq Folders
SentTypes ==
    /\ event \in Reportable
    /\ results \in [Workers -> Seq(Reportable)]
    /\ \A w \in Workers : Len(results[w]) =< 1
    /\ inbox \in Seq(Reportable \cup Endings)
CommandTypes == commands \in Seq(Commands)

\* What the scheduler holds is what its place says.
PlaceTypes ==
    /\ then \in {"top", "completing"}
    /\ at \in {"assign", "completing", "forward"} => hand.w \in Workers
    /\ at \in {"assign", "completing"} \/ (at = "forward" /\ then = "completing") =>
         hand.folder \in Folders
    /\ at = "forward" => then \in {"top", "completing"}
    /\ at \in {"admit", "top", "dispatch", "assign", "select", "completing", "forward",
               "failing", "gone"}
    /\ \A w \in Workers :
         worker[w].at \notin {"idle", "receive", "leave", "gone"} =>
             worker[w].folder \in Folders /\ worker[w].part >= 1
    /\ \A w \in Workers :
         worker[w].at = "seal" => worker[w].part =< Len(Parts(worker[w].folder))

Types == WorkerTypes /\ LeaseTypes /\ SentTypes /\ CommandTypes /\ PlaceTypes

\* The assumption on the constants, for citing.
LEMMA Constants ==
    /\ Workers # {} /\ Root \in Folders /\ None \notin Folders
    /\ \A f \in Folders : Parts(f) \in Seq(SUBSET Folders)
    BY ScannerConstants DEF ScannerConstants

\* What Event makes can be reported.
LEMMA Failures ==
    /\ ScanFailure \in Reportable
    /\ \A kind \in {"part", "failure", "unscanned"}, f \in Folders \cup {None}, i \in Nat :
         Event(kind, f, i) \in Reportable
    BY DEF ScanFailure, Event, Reportable

\* A worker's next place is a worker state.
LEMMA WorkerFields ==
    ASSUME WorkerTypes, NEW w \in Workers
    PROVE  /\ worker[w] \in WorkerStates
           /\ \A place \in WorkerPlaces : GoesTo(w, place) \in WorkerStates
           /\ IdleWorker \in WorkerStates /\ Left \in WorkerStates
           /\ \A b \in BOOLEAN : Ends(w, b) \in WorkerStates
           /\ \A e \in Reportable, next \in {"read", "enqueue", "finish"} :
                Reports(w, e, next) \in WorkerStates
           /\ \A next \in WorkerPlaces : Sent(w, next) \in WorkerStates
    BY Failures DEF WorkerTypes, WorkerStates, GoesTo, IdleWorker, Left, Ends, Reports, Sent,
        WorkerPlaces

(***************************************************************************)
(* The steps of a worker.                                                  *)
(***************************************************************************)
\* A worker that moves leaves the others where they are.
LEMMA MovesTypes ==
    ASSUME WorkerTypes, NEW w \in Workers, NEW next \in WorkerStates, Moves(w, next)
    PROVE  /\ WorkerTypes' /\ worker'[w] = next
           /\ \A v \in Workers : v # w => worker'[v] = worker[v]
    BY DEF Moves, WorkerTypes

\* The places in which a worker has no folder of its own.
Apart == {"idle", "receive", "leave", "gone"}

\* A worker's step moves that worker alone, and it has a folder, and a part to seal,
\* wherever it needs one.
LEMMA WorkTypes ==
    ASSUME Types, NEW w \in Workers, Works(w)
    PROVE  /\ WorkerTypes'
           /\ \A v \in Workers : v # w => worker'[v] = worker[v]
           /\ worker'[w].at \notin Apart =>
                worker'[w].folder \in Folders /\ worker'[w].part >= 1
           /\ worker'[w].at = "seal" =>
                worker'[w].part =< Len(Parts(worker'[w].folder))
<1> USE DEF Apart
<1>0. WorkerTypes /\ LeaseTypes /\ CommandTypes
    BY DEF Types
<1>1. /\ worker[w] \in WorkerStates
      /\ worker[w].at \notin Apart =>
           worker[w].folder \in Folders /\ worker[w].part >= 1
      /\ worker[w].at = "seal" => worker[w].part =< Len(Parts(worker[w].folder))
      /\ worker[w].at \notin Apart => Parts(worker[w].folder) \in Seq(SUBSET Folders)
    BY <1>0, Constants, WorkerFields DEF Types, PlaceTypes
<1> DEFINE Good(next) == /\ next \in WorkerStates
                         /\ next.at \notin Apart => next.folder \in Folders /\ next.part >= 1
                         /\ next.at = "seal" => next.part =< Len(Parts(next.folder))
<1>2. SUFFICES \E next : Good(next) /\ Moves(w, next)
    <2>1. PICK next : Good(next) /\ Moves(w, next)
        BY <1>2
    <2>2. QED
        BY <1>0, <2>1, MovesTypes
<1>3. /\ \A place \in WorkerPlaces \ {"seal"} :
           worker[w].at \notin Apart \/ place \in Apart => Good(GoesTo(w, place))
      /\ Good(IdleWorker) /\ Good(Left)
      /\ worker[w].at \notin Apart =>
           /\ \A b \in BOOLEAN : Good(Ends(w, b))
           /\ \A e \in Reportable, next \in {"read", "enqueue", "finish"} :
                /\ Good(Reports(w, e, next))
                /\ \A b \in BOOLEAN : Good([Reports(w, e, next) EXCEPT !.continue = b])
                /\ \A d \in SUBSET Folders : Good([Reports(w, e, next) EXCEPT !.dirs = d])
                /\ \A b \in BOOLEAN, d \in SUBSET Folders :
                     Good([Reports(w, e, next) EXCEPT !.dirs = d, !.continue = b])
           /\ \A place \in WorkerPlaces \ {"seal"} :
                /\ Good(Sent(w, place))
                /\ \A b \in BOOLEAN, d \in SUBSET Folders :
                     Good([Sent(w, place) EXCEPT !.continue = b, !.dirs = d])
           /\ \A d \in SUBSET Folders : Good([worker[w] EXCEPT !.dirs = d])
  <2>1. \A place \in WorkerPlaces \ {"seal"} :
           worker[w].at \notin Apart \/ place \in Apart => Good(GoesTo(w, place))
    BY <1>1 DEF WorkerStates, GoesTo
  <2>2. Good(IdleWorker) /\ Good(Left)
    BY <1>0, WorkerFields DEF IdleWorker, Left
  <2>3. ASSUME worker[w].at \notin Apart
        PROVE  /\ \A b \in BOOLEAN : Good(Ends(w, b))
               /\ \A d \in SUBSET Folders : Good([worker[w] EXCEPT !.dirs = d])
    BY <1>1, <2>3 DEF WorkerStates, WorkerPlaces, GoesTo, Ends
  <2>4. ASSUME worker[w].at \notin Apart,
               NEW e \in Reportable, NEW next \in {"read", "enqueue", "finish"}
        PROVE  /\ Good(Reports(w, e, next))
               /\ \A b \in BOOLEAN : Good([Reports(w, e, next) EXCEPT !.continue = b])
               /\ \A d \in SUBSET Folders : Good([Reports(w, e, next) EXCEPT !.dirs = d])
               /\ \A b \in BOOLEAN, d \in SUBSET Folders :
                    Good([Reports(w, e, next) EXCEPT !.dirs = d, !.continue = b])
    BY <1>1, <2>4 DEF WorkerStates, WorkerPlaces, GoesTo, Reports
  <2>5. ASSUME worker[w].at \notin Apart, NEW place \in WorkerPlaces \ {"seal"}
        PROVE  /\ Good(Sent(w, place))
               /\ \A b \in BOOLEAN, d \in SUBSET Folders :
                    Good([Sent(w, place) EXCEPT !.continue = b, !.dirs = d])
    BY <1>1, <2>5, Failures DEF WorkerStates, WorkerPlaces, GoesTo, Sent
  <2>6. QED
    BY <2>1, <2>2, <2>3, <2>4, <2>5
<1>4. /\ worker[w].folder \in Folders \cup {None} /\ worker[w].part \in Nat
      /\ worker[w].then \in WorkerPlaces \ {"seal"}
      /\ worker[w].dirs \in SUBSET Folders
      /\ \A f : worker[w].dirs \ {f} \in SUBSET Folders
      /\ \A kind \in {"part", "failure", "unscanned"} :
           Event(kind, worker[w].folder, 0) \in Reportable
             /\ Event(kind, worker[w].folder, worker[w].part) \in Reportable
    BY <1>1, Failures DEF WorkerStates, WorkerPlaces
<1> HIDE DEF Good
<1>5. CASE Looks(w)
    BY <1>3, <1>5 DEF Looks, WorkerPlaces
<1>6. CASE Receives(w)
  <2>1. CASE assigned[w] # None
    <3>1. assigned[w] \in Folders
        BY <1>0, <2>1 DEF LeaseTypes
    <3> DEFINE next == [GoesTo(w, "start") EXCEPT !.folder = assigned[w], !.part = 1]
    <3>a. next \in WorkerStates /\ next.at = "start" /\ next.folder \in Folders /\ next.part = 1
        BY <1>1, <3>1 DEF GoesTo, WorkerStates, WorkerPlaces
    <3>2. Good(next)
        BY <3>a DEF Good
    <3>3. QED
        BY <1>6, <2>1, <3>2 DEF Receives
  <2>2. CASE assigned[w] = None
    BY <1>3, <1>6, <2>2 DEF Receives, WorkerPlaces
  <2>3. QED
    BY <2>1, <2>2
<1>7. ASSUME LosesFolder(w), worker[w].at \notin Apart
      PROVE  \E next : Good(next) /\ Moves(w, next)
    BY <1>3, <1>4, <1>7 DEF LosesFolder
<1>8. ASSUME LeavesRoot(w), worker[w].at \notin Apart
      PROVE  \E next : Good(next) /\ Moves(w, next)
    BY <1>3, <1>8, Failures DEF LeavesRoot
<1>9. CASE Starts(w)
    BY <1>3, <1>7, <1>8, <1>9 DEF Starts, WorkerPlaces
<1>10. CASE Reads(w)
  <2>1. worker[w].at \notin Apart
    BY <1>10 DEF Reads
  <2>2. CASE Moves(w, GoesTo(w, IF IsPastEnd(w) THEN "check" ELSE "seal"))
    <3>1. CASE IsPastEnd(w)
        BY <1>3, <2>1, <2>2, <3>1 DEF WorkerPlaces
    <3>2. CASE ~IsPastEnd(w)
      <4>1. Good(GoesTo(w, "seal"))
        BY <1>1, <2>1, <3>2 DEF Good, GoesTo, IsPastEnd, WorkerStates, WorkerPlaces
      <4>2. QED
        BY <2>2, <3>2, <4>1
    <3>3. QED
        BY <3>1, <3>2
  <2>3. QED
    BY <1>3, <1>8, <1>10, <2>1, <2>2 DEF Reads
<1>11. CASE ReportsEntry(w)
    BY <1>3, <1>4, <1>11, Failures DEF ReportsEntry
<1>12. CASE Seals(w)
  <2>1. worker[w].at \notin Apart
    BY <1>12 DEF Seals
  <2>2. CASE Fault("seal") /\ Moves(w, [Reports(w, ScanFailure, "finish") EXCEPT !.continue = FALSE])
    BY <1>3, <2>1, <2>2, Failures
  <2>3. CASE Moves(w, [Reports(w, Event("part", worker[w].folder, worker[w].part), "enqueue")
                         EXCEPT !.dirs = Parts(worker[w].folder)[worker[w].part]])
    <3>1. Parts(worker[w].folder)[worker[w].part] \in SUBSET Folders
        BY <1>1, <1>4, <1>12, <2>1 DEF Seals
    <3>2. QED
        BY <1>3, <1>4, <2>1, <2>3, <3>1
  <2>4. QED
    BY <1>12, <2>2, <2>3 DEF Seals
<1>13. CASE Reported(w)
    BY <1>3, <1>4, <1>13 DEF Reported, WorkerPlaces
<1>14. CASE Enqueues(w)
    BY <1>3, <1>4, <1>14, Failures DEF Enqueues, WorkerPlaces
<1>15. CASE Checks(w)
  <2>1. ASSUME worker[w].at = "check"
        PROVE  Good([GoesTo(w, "read") EXCEPT !.part = @ + 1])
    <3> DEFINE next == [GoesTo(w, "read") EXCEPT !.part = @ + 1]
    <3>0. /\ GoesTo(w, "read") \in WorkerStates /\ GoesTo(w, "read").at = "read"
          /\ GoesTo(w, "read").folder \in Folders
          /\ GoesTo(w, "read").part \in Nat
        BY <1>1, <2>1 DEF GoesTo, WorkerStates, WorkerPlaces
    <3>1. /\ next \in WorkerStates /\ next.at = "read" /\ next.folder \in Folders
          /\ next.part = GoesTo(w, "read").part + 1
        BY <3>0 DEF WorkerStates
    <3>2. next.part >= 1
        BY <3>0, <3>1
    <3>3. QED
        BY <3>1, <3>2 DEF Good
  <2>2. QED
    BY <1>3, <1>7, <1>8, <1>15, <2>1 DEF Checks
<1>16. CASE Finishes(w)
    BY <1>3, <1>16 DEF Finishes, WorkerPlaces
<1>17. CASE LeavesScan(w)
    BY <1>3, <1>17 DEF LeavesScan
<1>18. QED
    BY <1>5, <1>6, <1>9, <1>10, <1>11, <1>12, <1>13, <1>14, <1>15, <1>16, <1>17 DEF Works

(***************************************************************************)
(* The steps of the scheduler.                                             *)
(***************************************************************************)
\* The scan starts in a state of its types.
LEMMA InitTypes == Init => Types
<1> SUFFICES ASSUME Init PROVE Types
    OBVIOUS
<1>1. IdleWorker \in WorkerStates /\ IdleWorker.at = "idle"
    BY Failures DEF IdleWorker, WorkerStates, WorkerPlaces
<1>2. WorkerTypes /\ \A w \in Workers : worker[w].at = "idle"
    BY <1>1 DEF Init, WorkerTypes
<1>3. LeaseTypes
    BY Constants DEF Init, LeaseTypes, NoHand
<1>4. SentTypes /\ CommandTypes
    BY Failures DEF Init, SentTypes, CommandTypes
<1>5. PlaceTypes
    BY <1>2 DEF Init, PlaceTypes
<1>6. QED
    BY <1>2, <1>3, <1>4, <1>5 DEF Types

\* The scheduler leaves the workers alone.
LEMMA SchedulerFrame ==
    ASSUME Schedules
    PROVE  /\ UNCHANGED <<worker, delivered, told, failureHeard, result, rootChanged>>
           /\ cancelled' = cancelled /\ rootInvalid' = rootInvalid
           /\ at # "gone"
    BY DEF Schedules, AdmitRoot, Top, Lease, Assign, DispatchEnds, TakeEnqueue, TakeComplete,
        CompleteLease, TakeResult, NoticeClosed, NoticeCommandsClosed, SelectTimesOut,
        Forward, ReportFailure, Fail, Goes, TakesResult

\* The scheduler's steps keep the types of what it holds and sends.
LEMMA ScheduleTypes ==
    ASSUME Types, Schedules
    PROVE  LeaseTypes' /\ SentTypes' /\ CommandTypes' /\ PlaceTypes'
<1> USE DEF LeaseTypes, CommandTypes
<1>0. WorkerTypes /\ LeaseTypes /\ SentTypes /\ CommandTypes /\ PlaceTypes
    BY DEF Types
<1>1. worker' = worker
    BY SchedulerFrame
<1> DEFINE Rest == /\ then \in {"top", "completing"}
                   /\ \A w \in Workers :
                        worker[w].at \notin {"idle", "receive", "leave", "gone"} =>
                            worker[w].folder \in Folders /\ worker[w].part >= 1
                   /\ \A w \in Workers :
                        worker[w].at = "seal" =>
                            worker[w].part =< Len(Parts(worker[w].folder))
<1>2. Rest
    BY <1>0 DEF PlaceTypes
<1>3. ASSUME then' \in {"top", "completing"},
             at' \in {"top", "dispatch", "select", "failing", "gone"}
      PROVE  PlaceTypes'
    BY <1>1, <1>2, <1>3 DEF PlaceTypes
<1>4. ASSUME event' \in Reportable, UNCHANGED <<results, inbox>>
      PROVE  SentTypes'
    BY <1>0, <1>4 DEF SentTypes
<1>5. NoHand \in [w : Workers \cup {None}, folder : Folders \cup {None}]
    BY DEF NoHand
<1>a. CASE AdmitRoot
    BY <1>0, <1>2, <1>3, <1>4, <1>a, Constants, Failures DEF AdmitRoot, Goes, Fail
<1>6. CASE Top
    BY <1>0, <1>2, <1>3, <1>4, <1>6, Failures DEF Top, Goes
<1>7. CASE \E w \in Workers, f \in Folders : Lease(w, f)
  <2>1. PICK w \in Workers, f \in Folders : Lease(w, f)
    BY <1>7
  <2>2. SentTypes' /\ CommandTypes' /\ then' = then
    BY <1>0, <1>4, <2>1, Failures DEF Lease, Goes, Fail
  <2>3. CASE Stopping
    BY <1>0, <1>2, <1>3, <2>1, <2>2, <2>3 DEF Lease, Fail
  <2>4. CASE ~Stopping
    <3>1. /\ at' = "assign" /\ hand' = [w |-> w, folder |-> f]
          /\ ready' = ready \ {f} /\ UNCHANGED <<active, assigned>>
        BY <2>1, <2>4 DEF Lease, Goes
    <3>2. LeaseTypes'
        BY <1>0, <3>1
    <3>3. PlaceTypes'
        BY <1>1, <1>2, <2>2, <3>1 DEF PlaceTypes
    <3>4. QED
        BY <2>2, <3>2, <3>3
  <2>5. QED
    BY <2>3, <2>4
<1>8. CASE Assign
  <2>1. hand.w \in Workers /\ hand.folder \in Folders
    BY <1>0, <1>8 DEF Assign, PlaceTypes
  <2>2. at' \in {"dispatch", "failing"} /\ then' = then /\ event' = ScanFailure
        /\ UNCHANGED <<results, inbox, commands>>
    BY <1>8 DEF Assign, Goes, Fail
  <2>3. LeaseTypes'
    BY <1>0, <1>5, <1>8, <2>1 DEF Assign, Goes, Fail
  <2>4. QED
    BY <1>0, <1>2, <1>3, <1>4, <2>2, <2>3, Failures
<1>9. CASE DispatchEnds
    BY <1>0, <1>2, <1>3, <1>4, <1>9, Failures DEF DispatchEnds, Goes
<1>10. CASE TakeEnqueue
  <2>1. Head(commands) \in Commands /\ Tail(commands) \in Seq(Commands)
    BY <1>0, <1>10 DEF TakeEnqueue
  <2>2. Head(commands).folder \in Folders
    BY <2>1 DEF Commands
  <2>3. LeaseTypes' /\ CommandTypes'
    BY <1>0, <1>10, <2>1, <2>2 DEF TakeEnqueue, Fail
  <2>4. /\ at' \in {"top", "failing"} /\ then' = then /\ event' = ScanFailure
        /\ UNCHANGED <<results, inbox>>
    BY <1>10 DEF TakeEnqueue, Goes, Fail
  <2>5. QED
    BY <1>2, <1>3, <1>4, <2>3, <2>4, Failures
<1>11. CASE TakeComplete
  <2>1. Head(commands) \in Commands /\ Tail(commands) \in Seq(Commands)
    BY <1>0, <1>11 DEF TakeComplete
  <2>2. /\ hand' \in [w : Workers \cup {None}, folder : Folders \cup {None}]
        /\ hand'.w \in Workers /\ hand'.folder \in Folders
    BY <1>11, <2>1 DEF TakeComplete, Commands
  <2>3. /\ at' = "completing" /\ then' = then /\ event' = ScanFailure
        /\ UNCHANGED <<results, inbox, active, assigned, ready>> /\ commands' = Tail(commands)
    BY <1>11 DEF TakeComplete, Goes
  <2>4. PlaceTypes'
    BY <1>1, <1>2, <2>2, <2>3 DEF PlaceTypes
  <2>5. QED
    BY <1>0, <1>4, <2>1, <2>2, <2>3, <2>4, Failures
<1>12. ASSUME NEW w \in Workers, results[w] # <<>>
       PROVE  /\ Head(results[w]) \in Reportable
              /\ \A f : f = [results EXCEPT ![w] = <<>>] =>
                   /\ f \in [Workers -> Seq(Reportable)]
                   /\ \A v \in Workers : Len(f[v]) =< 1
  <2>1. results[w] \in Seq(Reportable) /\ Head(results[w]) \in Reportable
    BY <1>0, <1>12 DEF SentTypes
  <2>2. <<>> \in Seq(Reportable) /\ Len(<<>>) =< 1
    OBVIOUS
  <2> DEFINE f == [results EXCEPT ![w] = <<>>]
  <2>3. f \in [Workers -> Seq(Reportable)]
    BY <1>0, <2>2 DEF SentTypes
  <2>4. \A v \in Workers : f[v] = IF v = w THEN <<>> ELSE results[v]
    BY <1>0 DEF SentTypes
  <2>5. \A v \in Workers : Len(f[v]) =< 1
    BY <1>0, <2>2, <2>4 DEF SentTypes
  <2>6. QED
    BY <2>1, <2>3, <2>5
<1>13. CASE CompleteLease
  <2>1. hand.w \in Workers /\ hand.folder \in Folders
    BY <1>0, <1>13 DEF CompleteLease, PlaceTypes
  <2>2. CASE ForwardsFirst(hand.w)
    <3>1. /\ at' = "forward" /\ then' = "completing" /\ event' = Head(results[hand.w])
          /\ results' = [results EXCEPT ![hand.w] = <<>>]
          /\ UNCHANGED <<hand, active, assigned, ready, commands, inbox>>
        BY <1>13, <2>2 DEF CompleteLease, TakesResult
    <3>2. PlaceTypes'
        BY <1>1, <1>2, <2>1, <3>1 DEF PlaceTypes
    <3>3. SentTypes'
        BY <1>0, <1>12, <2>1, <2>2, <3>1 DEF SentTypes, ForwardsFirst
    <3>4. QED
        BY <1>0, <3>1, <3>2, <3>3
  <2>3. CASE ~ForwardsFirst(hand.w)
    <3>1. /\ at' \in {"top", "failing"} /\ then' = then /\ event' = ScanFailure
          /\ hand' = NoHand
          /\ active' = active \/ active' = [active EXCEPT ![hand.w] = None]
          /\ ready' = ready \/ ready' = {}
          /\ UNCHANGED <<assigned, commands, inbox, results>>
        BY <1>13, <2>3 DEF CompleteLease, Goes, Fail
    <3>2. QED
        BY <1>0, <1>2, <1>3, <1>4, <1>5, <2>1, <3>1, Failures
  <2>4. QED
    BY <2>2, <2>3
<1>14. CASE \E w \in Workers : TakeResult(w)
  <2>1. PICK w \in Workers : TakeResult(w)
    BY <1>14
  <2>2. /\ at' = "forward" /\ then' = "top" /\ event' = Head(results[w])
        /\ results' = [results EXCEPT ![w] = <<>>] /\ results[w] # <<>>
        /\ hand' = [w |-> w, folder |-> None]
        /\ UNCHANGED <<active, assigned, ready, commands, inbox>>
    BY <2>1 DEF TakeResult, TakesResult, SelectsResults
  <2>3. PlaceTypes'
    BY <1>1, <1>2, <2>2 DEF PlaceTypes
  <2>4. SentTypes'
    BY <1>0, <1>12, <2>2 DEF SentTypes
  <2>5. QED
    BY <1>0, <2>2, <2>3, <2>4
<1>15. CASE \E w \in Workers : NoticeClosed(w)
    BY <1>0, <1>2, <1>3, <1>4, <1>15, Failures DEF NoticeClosed, Goes, Fail
<1>16. CASE NoticeCommandsClosed
    BY <1>0, <1>2, <1>3, <1>4, <1>16, Failures DEF NoticeCommandsClosed, Goes, Fail
<1>17. CASE SelectTimesOut
    BY <1>0, <1>2, <1>3, <1>4, <1>17, Failures DEF SelectTimesOut, Goes
<1>18. ASSUME NEW e \in Reportable, SendsToOwner(e) PROVE inbox' \in Seq(Reportable \cup Endings)
  <2>1. inbox \in Seq(Reportable \cup Endings) /\ e \in Reportable \cup Endings
    BY <1>0, <1>18 DEF SentTypes
  <2>2. Append(inbox, e) \in Seq(Reportable \cup Endings)
    BY <2>1
  <2>3. QED
    BY <1>18, <2>1, <2>2 DEF SendsToOwner
<1>19. CASE Forward
  <2>1. /\ at' \in {"failing", "top", "completing"} /\ then' = then /\ event' = ScanFailure
        /\ at' = "completing" => then = "completing" /\ hand' = hand
        /\ hand' = hand \/ hand' = NoHand
        /\ ready' = ready \/ ready' = {}
        /\ UNCHANGED <<active, assigned, commands, results>>
        /\ inbox' = inbox \/ SendsToOwner(event)
    BY <1>2, <1>19 DEF Forward, Goes, Fail
  <2>2. PlaceTypes'
    BY <1>0, <1>1, <1>2, <1>19, <2>1 DEF PlaceTypes, Forward
  <2>3. SentTypes'
    BY <1>0, <1>18, <2>1, Failures DEF SentTypes
  <2>4. QED
    BY <1>0, <1>5, <2>1, <2>2, <2>3
<1>20. CASE ReportFailure
  <2>1. /\ at' = "gone" /\ then' = then /\ event' = ScanFailure
        /\ UNCHANGED <<hand, active, assigned, ready, commands, results>>
        /\ SendsToOwner(ScanFailure)
    BY <1>20 DEF ReportFailure, Goes
  <2>2. SentTypes'
    BY <1>0, <1>18, <2>1, Failures DEF SentTypes
  <2>3. QED
    BY <1>0, <1>2, <1>3, <2>1, <2>2
<1>21. QED
    BY <1>a, <1>6, <1>7, <1>8, <1>9, <1>10, <1>11, <1>13, <1>14, <1>15, <1>16, <1>17, <1>19,
       <1>20 DEF Schedules

(***************************************************************************)
(* Types, all steps.                                                       *)
(***************************************************************************)
\* A worker leaves the scheduler, the coordinator, the journal and the owner
\* alone.
LEMMA WorkerFrame ==
    ASSUME NEW w \in Workers, Works(w)
    PROVE  UNCHANGED <<at, hand, event, then, active, invalidated, ready, leases, waiting,
                       pending, inbox, delivered, told, failureHeard, result, rootChanged>>
    BY DEF Works, Looks, Receives, Starts, Reads, ReportsEntry, Seals, Reported, Enqueues,
        Checks, Finishes, LeavesScan, OthersKeep

\* A worker puts at most one event or one command into its channels.
LEMMA WorkerSends ==
    ASSUME Types, NEW w \in Workers, Works(w)
    PROVE  /\ \/ UNCHANGED results
              \/ /\ Reported(w) /\ results[w] = <<>>
                 /\ results' = [results EXCEPT ![w] = <<worker[w].event>>]
           /\ \/ UNCHANGED commands
              \/ /\ Enqueues(w) /\ ~SchedulerIsGone
                 /\ \E f \in worker[w].dirs :
                      /\ f \in Folders
                      /\ commands' = Append(commands, [kind |-> "enqueue", w |-> w, folder |-> f])
              \/ /\ Finishes(w) /\ ~SchedulerIsGone
                 /\ commands' = Append(commands,
                        [kind |-> "complete", w |-> w, folder |-> worker[w].folder])
           /\ \/ UNCHANGED assigned
              \/ Receives(w) /\ assigned' = [assigned EXCEPT ![w] = None]
<1>1. worker[w].dirs \subseteq Folders
    BY DEF Types, WorkerTypes, WorkerStates
<1>2. CASE Looks(w) \/ Receives(w) \/ Starts(w) \/ Reads(w) \/ ReportsEntry(w) \/ Seals(w)
    BY <1>2 DEF Looks, Receives, Starts, Reads, ReportsEntry, Seals
<1>3. CASE Reported(w) \/ Enqueues(w)
    BY <1>1, <1>3 DEF Reported, Enqueues, CommandsHaveRoom
<1>4. CASE Checks(w) \/ Finishes(w) \/ LeavesScan(w)
    BY <1>4 DEF Checks, Finishes, LeavesScan, CommandsHaveRoom
<1>5. QED
    BY <1>2, <1>3, <1>4 DEF Works

\* A worker's steps keep the types.
LEMMA WorkerStepTypes ==
    ASSUME Types, NEW w \in Workers, Works(w)
    PROVE  Types'
<1>0. WorkerTypes /\ LeaseTypes /\ SentTypes /\ CommandTypes /\ PlaceTypes
    BY DEF Types
<1>1. /\ WorkerTypes'
      /\ \A v \in Workers : v # w => worker'[v] = worker[v]
      /\ worker'[w].at \notin Apart => worker'[w].folder \in Folders /\ worker'[w].part >= 1
      /\ worker'[w].at = "seal" => worker'[w].part =< Len(Parts(worker'[w].folder))
    BY WorkTypes
<1>2. LeaseTypes'
  <2>1. assigned' \in [Workers -> Folders \cup {None}]
    BY <1>0, WorkerSends DEF LeaseTypes
  <2>2. QED
    BY <1>0, <2>1, WorkerFrame DEF LeaseTypes
<1>3. SentTypes'
  <2>1. worker[w].event \in Reportable
    BY <1>0 DEF WorkerTypes, WorkerStates
  <2>2. <<worker[w].event>> \in Seq(Reportable) /\ Len(<<worker[w].event>>) =< 1
    BY <2>1
  <2>3. CASE UNCHANGED results
    BY <1>0, <2>3, WorkerFrame DEF SentTypes
  <2>4. CASE results' = [results EXCEPT ![w] = <<worker[w].event>>]
    <3>1. results' \in [Workers -> Seq(Reportable)]
        BY <1>0, <2>2, <2>4 DEF SentTypes
    <3>2. \A v \in Workers : results'[v] = IF v = w THEN <<worker[w].event>> ELSE results[v]
        BY <1>0, <2>4 DEF SentTypes
    <3>3. \A v \in Workers : Len(results'[v]) =< 1
        BY <1>0, <2>2, <3>2 DEF SentTypes
    <3>4. QED
        BY <1>0, <3>1, <3>3, WorkerFrame DEF SentTypes
  <2>5. QED
    BY <2>3, <2>4, WorkerSends
<1>4. CommandTypes'
  <2>1. \A c \in Commands : Append(commands, c) \in Seq(Commands)
    BY <1>0 DEF CommandTypes
  <2>2. \A f \in Folders : /\ [kind |-> "enqueue", w |-> w, folder |-> f] \in Commands
                           /\ [kind |-> "complete", w |-> w, folder |-> f] \in Commands
    BY DEF Commands
  <2>3. Finishes(w) => worker[w].folder \in Folders
    BY <1>0 DEF Finishes, PlaceTypes
  <2>4. QED
    BY <1>0, <2>1, <2>2, <2>3, WorkerSends DEF CommandTypes
<1>5. PlaceTypes'
    BY <1>0, <1>1, WorkerFrame DEF PlaceTypes, Apart
<1>6. QED
    BY <1>1, <1>2, <1>3, <1>4, <1>5 DEF Types

\* Every variable holds what its field in the code can hold, and the scheduler
\* and each worker have a folder where they need one.
LEMMA TypeStep ==
    ASSUME Types, [Next]_vars
    PROVE  Types'
<1>0. WorkerTypes /\ LeaseTypes /\ SentTypes /\ CommandTypes /\ PlaceTypes
    BY DEF Types
<1>1. CASE Schedules
    BY <1>0, <1>1, SchedulerFrame, ScheduleTypes DEF Types, WorkerTypes
<1>2. CASE \E w \in Workers : Works(w)
    BY <1>2, WorkerStepTypes
<1>3. ASSUME UNCHANGED <<worker, active, assigned, hand, event, results, commands,
                         then, at>>,
             ready' = ready \/ ready' = {}, inbox' \in Seq(Reportable \cup Endings)
      PROVE  Types'
    BY <1>0, <1>3 DEF Types, WorkerTypes, LeaseTypes, SentTypes, CommandTypes, PlaceTypes
<1>4. inbox \in Seq(Reportable \cup Endings)
    BY <1>0 DEF SentTypes
<1>5. CASE FinishScan
  <2>1. \A kind \in {"cancelled", "done"} : Event(kind, None, 0) \in Endings
    BY DEF Event, Endings
  <2>2. inbox' \in Seq(Reportable \cup Endings)
    BY <1>4, <1>5, <2>1 DEF FinishScan
  <2>3. QED
    BY <1>3, <1>5, <2>2 DEF FinishScan
<1>6. CASE OwnerReceives
    BY <1>3, <1>4, <1>6 DEF OwnerReceives
<1>7. CASE Cancel \/ RootChanges \/ OwnerAdvances \/ UNCHANGED vars
    BY <1>3, <1>4, <1>7 DEF Cancel, RootChanges, OwnerAdvances, vars
<1>8. QED
    BY <1>1, <1>2, <1>5, <1>6, <1>7 DEF Next

(***************************************************************************)
(* Causes, and the end the owner is told.                                  *)
(***************************************************************************)
RootInv == rootInvalid \/ rootChanged => "root" \in causes

\* Faults stay on record and the flags are not taken back; only a changed root
\* raises root_invalid, and only a refused enqueue is a fault of the queue.
LEMMA CausesGrow ==
    ASSUME RootInv, [Next]_vars
    PROVE  /\ causes \subseteq causes' /\ (cancelled => cancelled') /\ (failed => failed') /\ RootInv'
           /\ "queue" \in causes' => "queue" \in causes \/ at' = "failing"
<1>1. CASE Schedules
    BY <1>1 DEF Schedules, AdmitRoot, Top, Lease, Assign, DispatchEnds, TakeEnqueue, TakeComplete,
        CompleteLease, TakeResult, NoticeClosed, NoticeCommandsClosed, SelectTimesOut,
        Forward, ReportFailure, Fail, Goes, TakesResult, Fault, RootInv
<1>2. ASSUME NEW w \in Workers, Works(w)
      PROVE  /\ causes \subseteq causes' /\ (cancelled => cancelled') /\ (failed => failed') /\ RootInv'
             /\ "queue" \in causes' => "queue" \in causes
  <2>1. CASE UNCHANGED <<cancelled, rootInvalid, rootChanged, causes>> /\ (failed => failed')
    BY <2>1 DEF RootInv
  <2>2. CASE Looks(w) \/ Receives(w) \/ Reported(w) \/ Enqueues(w) \/ Finishes(w)
    BY <2>1, <2>2 DEF Looks, Receives, Reported, Enqueues, Finishes, OthersKeep
  <2>3. CASE ReportsEntry(w) \/ Seals(w)
    BY <2>3 DEF ReportsEntry, Seals, OthersKeep, Fault, RootInv
  <2>4. CASE LeavesScan(w)
    BY <2>4 DEF LeavesScan, OthersKeep, RootInv
  <2>5. ASSUME LeavesRoot(w), ~RootIsGood, OthersKeep, UNCHANGED causes
        PROVE  causes \subseteq causes' /\ (cancelled => cancelled') /\ (failed => failed') /\ RootInv'
    BY <2>5 DEF LeavesRoot, RootIsGood, OthersKeep, RootInv
  <2>6. ASSUME LosesFolder(w), OthersKeep, UNCHANGED flags
        PROVE  /\ causes \subseteq causes' /\ (cancelled => cancelled') /\ (failed => failed') /\ RootInv'
               /\ "queue" \in causes' => "queue" \in causes
    BY <2>6 DEF LosesFolder, Fault, OthersKeep, RootInv
  <2>7. CASE Starts(w) \/ Reads(w) \/ Checks(w)
    BY <2>1, <2>5, <2>6, <2>7 DEF Starts, Reads, Checks, OthersKeep
  <2>8. QED
    BY <1>2, <2>2, <2>7, <2>3, <2>4 DEF Works
<1>3. CASE FinishScan \/ OwnerReceives \/ Cancel \/ RootChanges \/ OwnerAdvances \/ UNCHANGED vars
    BY <1>3 DEF FinishScan, OwnerReceives, Cancel, RootChanges, OwnerAdvances, Fault, RootInv, vars
<1>4. QED
    BY <1>1, <1>2, <1>3 DEF Next

IsEnd(e) == e.kind \in {"done", "cancelled"}

\* The end is told once, by the last to leave, after everything else.
EndInv ==
    /\ result \in {"none", "sent", "done", "cancelled"}
    /\ result # "none" => at = "gone" /\ \A w \in Workers : IsGone(w)
    /\ result = "none" => \A i \in DOMAIN inbox : ~IsEnd(inbox[i])
    /\ result = "sent" =>
         inbox # <<>> /\ \A i \in DOMAIN inbox : IsEnd(inbox[i]) <=> i = Len(inbox)
    /\ result \in {"done", "cancelled"} => inbox = <<>>

\* Who has left stays away.
LEMMA GoneStays ==
    ASSUME Types, [Next]_vars
    PROVE  /\ at = "gone" => at' = "gone"
           /\ \A w \in Workers : IsGone(w) => IsGone(w)'
<1>1. CASE Schedules
    BY <1>1, SchedulerFrame DEF IsGone
<1>2. ASSUME NEW w \in Workers, Works(w), NEW v \in Workers, IsGone(v)
      PROVE  IsGone(v)'
  <2>1. worker[w].at # "gone"
    BY <1>2 DEF Works, Looks, Receives, Starts, Reads, ReportsEntry, Seals, Reported, Enqueues,
        Checks, Finishes, LeavesScan
  <2>2. QED
    BY <1>2, <2>1, WorkTypes DEF IsGone
<1>3. (\E w \in Workers : Works(w)) => at' = at
    BY WorkerFrame
<1>4. CASE FinishScan \/ OwnerReceives \/ Cancel \/ RootChanges \/ OwnerAdvances \/ UNCHANGED vars
    BY <1>4 DEF FinishScan, OwnerReceives, Cancel, RootChanges, OwnerAdvances, IsGone, vars
<1>5. QED
    BY <1>1, <1>2, <1>3, <1>4 DEF Next

\* The owner's channel after an event is sent.
LEMMA InboxGrows ==
    ASSUME Types, NEW e, inbox' = Append(inbox, e)
    PROVE  /\ DOMAIN inbox = 1 .. Len(inbox) /\ Len(inbox) \in Nat
           /\ DOMAIN inbox' = 1 .. Len(inbox) + 1
           /\ Len(inbox') = Len(inbox) + 1
           /\ \A i \in DOMAIN inbox : inbox'[i] = inbox[i]
           /\ inbox'[Len(inbox) + 1] = e
    BY DEF Types, SentTypes

\* The owner's channel after an event is received.
LEMMA InboxShrinks ==
    ASSUME Types, OwnerReceives
    PROVE  /\ DOMAIN inbox = 1 .. Len(inbox) /\ Len(inbox) \in Nat /\ Len(inbox) > 0
           /\ Len(inbox') = Len(inbox) - 1
           /\ DOMAIN inbox' = 1 .. Len(inbox) - 1
           /\ Head(inbox) = inbox[1]
           /\ \A i \in DOMAIN inbox' : i + 1 \in DOMAIN inbox /\ inbox'[i] = inbox[i + 1]
           /\ \A i \in DOMAIN inbox : i # 1 => i - 1 \in DOMAIN inbox' /\ inbox'[i - 1] = inbox[i]
           /\ Head(inbox) \in Reportable \cup Endings
<1>1. inbox \in Seq(Reportable \cup Endings) /\ inbox # <<>> /\ inbox' = Tail(inbox)
    BY DEF Types, SentTypes, OwnerReceives
<1>2. QED
    BY <1>1

\* ScanFinished is sent last, and once, over every step.
LEMMA EndStep ==
    ASSUME Types, EndInv, [Next]_vars
    PROVE  EndInv'
<1> USE DEF EndInv
<1>0. \A w \in Workers : Works(w) => UNCHANGED <<inbox, result, at>>
    BY WorkerFrame
<1>1. CASE UNCHANGED <<inbox, result>>
    BY <1>1, GoneStays
<1>2. CASE Schedules
  <2>1. result = "none" /\ result' = "none"
    BY <1>2, SchedulerFrame
  <2>2. inbox' = inbox \/ \E e \in Reportable : inbox' = Append(inbox, e)
    BY <1>2, Failures DEF Schedules, AdmitRoot, Top, Lease, Assign, DispatchEnds, TakeEnqueue, TakeComplete,
        CompleteLease, TakeResult, NoticeClosed, NoticeCommandsClosed, SelectTimesOut,
        Forward, ReportFailure, Fail, Goes, TakesResult, SendsToOwner, Types, SentTypes
  <2>3. CASE \E e \in Reportable : inbox' = Append(inbox, e)
    <3>1. PICK e \in Reportable : inbox' = Append(inbox, e)
        BY <2>3
    <3>2. ~IsEnd(e)
        BY DEF IsEnd, Reportable
    <3>3. \A i \in DOMAIN inbox' : ~IsEnd(inbox'[i])
        BY <2>1, <3>1, <3>2, InboxGrows
    <3>4. QED
        BY <2>1, <3>3
  <2>4. QED
    BY <1>1, <2>1, <2>2, <2>3
<1>3. CASE FinishScan
  <2>1. PICK kind \in {"done", "cancelled"} : inbox' = Append(inbox, Event(kind, None, 0))
    BY <1>3 DEF FinishScan
  <2>2. result = "none" /\ result' = "sent" /\ at' = "gone" /\ \A w \in Workers : IsGone(w)'
    BY <1>3 DEF FinishScan, SchedulerIsGone, IsGone
  <2>3. IsEnd(Event(kind, None, 0))
    BY DEF IsEnd, Event
  <2>4. \A i \in DOMAIN inbox' : IsEnd(inbox'[i]) <=> i = Len(inbox')
    BY <2>1, <2>2, <2>3, InboxGrows
  <2>5. inbox' # <<>>
    BY <2>1, InboxGrows
  <2>6. QED
    BY <2>2, <2>4, <2>5
<1>4. CASE OwnerReceives
  <2>1. /\ result' = IF IsEnd(Head(inbox)) THEN Head(inbox).kind ELSE result
        /\ UNCHANGED <<at, worker>>
    BY <1>4 DEF OwnerReceives, IsEnd
  <2>2. result \in {"none", "sent"}
    BY <1>4 DEF OwnerReceives
  <2>3. CASE result = "none"
    <3>1. ~IsEnd(Head(inbox)) /\ \A i \in DOMAIN inbox' : ~IsEnd(inbox'[i])
        BY <1>4, <2>3, InboxShrinks
    <3>2. result' = "none"
        BY <2>1, <2>3, <3>1
    <3>3. QED
        BY <3>1, <3>2
  <2>4. CASE result = "sent" /\ IsEnd(Head(inbox))
    <3>1. Len(inbox) = 1
        BY <1>4, <2>4, InboxShrinks
    <3>2. inbox' = <<>>
      <4>1. inbox \in Seq(Reportable \cup Endings) /\ inbox' = Tail(inbox)
        BY <1>4 DEF OwnerReceives, Types, SentTypes
      <4>2. QED
        BY <3>1, <4>1
    <3>3. result' \in {"done", "cancelled"} /\ at' = "gone"
        BY <2>1, <2>4 DEF IsEnd
    <3>4. \A w \in Workers : IsGone(w)'
        BY <2>1, <2>4 DEF IsGone
    <3>5. QED
        BY <3>2, <3>3, <3>4
  <2>5. CASE result = "sent" /\ ~IsEnd(Head(inbox))
    <3>1. Len(inbox) # 1
        BY <1>4, <2>5, InboxShrinks
    <3>2. \A i \in DOMAIN inbox' : IsEnd(inbox'[i]) <=> i = Len(inbox')
        BY <1>4, <2>5, InboxShrinks
    <3>3. inbox' # <<>>
        BY <1>4, <3>1, InboxShrinks
    <3>4. QED
        BY <2>1, <2>5, <3>2, <3>3 DEF IsGone
  <2>6. QED
    BY <2>2, <2>3, <2>4, <2>5
<1>5. CASE Cancel \/ RootChanges \/ OwnerAdvances \/ UNCHANGED vars
    BY <1>1, <1>5 DEF Cancel, RootChanges, OwnerAdvances, vars
<1>6. QED
    BY <1>0, <1>1, <1>2, <1>3, <1>4, <1>5 DEF Next

(***************************************************************************)
(* The books of a scan nothing stopped.                                    *)
(***************************************************************************)
\* Nobody cancelled, and no fault happened that ends a scan; a coordinator that
\* moved on ends it when the scheduler meets it.
Sound ==
    /\ ~cancelled /\ causes \cap {"seal", "root", "queue"} = {}
    /\ Overtaken => ~failed

Busy(w) == worker[w].at \in {"start", "read", "report", "seal", "enqueue", "check", "finish"}
Resting(w) == worker[w].at \in {"idle", "receive", "gone"}

\* The completions of a worker on their way, and the one the scheduler handles.
Completions(w) == {i \in DOMAIN commands : commands[i].kind = "complete" /\ commands[i].w = w}
Completed(w) == (at = "completing" \/ (at = "forward" /\ then = "completing")) /\ hand.w = w

\* Nobody has a reason to leave before the scan is over.
FlagInv ==
    /\ ~failed /\ at # "failing"
    /\ at = "gone" => NoneActive /\ waiting = {}
    /\ \A w \in Workers : worker[w].continue /\ (IsGone(w) => at = "gone")

\* The folder the scheduler has out with a worker is the one it was assigned,
\* works on, or has completed, and every result of it is about that folder.
TaskInv(w) ==
    /\ Busy(w) \/ Resting(w)
    /\ active[w] = None =>
         /\ assigned[w] = None /\ Resting(w) /\ Completions(w) = {} /\ ~Completed(w)
         /\ results[w] = <<>>
    /\ assigned[w] # None =>
         /\ assigned[w] = active[w] /\ Resting(w)
         /\ Completions(w) = {} /\ ~Completed(w)
    /\ Busy(w) => worker[w].folder = active[w] /\ Completions(w) = {} /\ ~Completed(w)
    /\ \A i, j \in Completions(w) :
         i = j /\ commands[i].folder = active[w] /\ ~Completed(w)
    /\ Completed(w) => hand.folder = active[w]
    /\ \A i \in DOMAIN results[w] : results[w][i].folder = active[w]

EventInv ==
    /\ at = "forward" => active[hand.w] # None /\ event.folder = active[hand.w]
    /\ \A w \in Workers :
         worker[w].at = "report" =>
             /\ worker[w].event.folder = worker[w].folder
             /\ worker[w].then \in {"read", "enqueue", "finish"}

\* A completion is the last command of its folder.
CommandInv ==
    /\ \A i \in DOMAIN commands :
         active[commands[i].w] # None /\ ~Completed(commands[i].w)
    /\ \A i, j \in DOMAIN commands :
         commands[j].kind = "complete" /\ commands[i].w = commands[j].w => i =< j

\* The folders the scheduler has out with a worker, or in its hand for one.
Lent ==
    {f \in Folders : (\E w \in Workers : active[w] = f) \/ (at = "assign" /\ hand.folder = f)}

\* The journal counts what waits in it and what is out.
LedgerInv ==
    /\ waiting \subseteq Folders
    /\ \A w, v \in Workers : active[w] = active[v] /\ active[w] # None => w = v
    /\ at = "assign" =>
         active[hand.w] = None /\ \A w \in Workers : active[w] # hand.folder
    /\ waiting \cap Lent = {}
    /\ IsFiniteSet(waiting \cup Lent) /\ pending = Cardinality(waiting \cup Lent)
    /\ at = "admit" => waiting = {Root} /\ NoneActive

\* The coordinator knows the same folders, from the admission of the root until
\* it moves on.
GrantInv ==
    IF Overtaken \/ at = "admit"
      THEN ready = {} /\ leases = {}
      ELSE ready = waiting /\ leases = Lent

BookInv ==
    /\ FlagInv /\ (\A w \in Workers : TaskInv(w)) /\ EventInv /\ CommandInv
    /\ LedgerInv /\ GrantInv

\* A scan nothing has stopped was not stopped before, and its root is good.
LEMMA SoundGrows ==
    ASSUME RootInv, [Next]_vars, Sound'
    PROVE  Sound /\ ~cancelled /\ ~rootInvalid /\ ~rootChanged
    BY CausesGrow DEF Sound, RootInv, Overtaken

\* Only the owner moves the coordinator on.
LEMMA OvertakenKept ==
    /\ Schedules => (Overtaken' <=> Overtaken)
    /\ \A w \in Workers : Works(w) => (Overtaken' <=> Overtaken)
<1>1. ASSUME Schedules
      PROVE  causes' = causes \/ causes' = causes \cup {"queue"}
    BY <1>1 DEF Schedules, AdmitRoot, Top, Lease, Assign, DispatchEnds, TakeEnqueue, TakeComplete,
        CompleteLease, TakeResult, NoticeClosed, NoticeCommandsClosed, SelectTimesOut,
        Forward, ReportFailure, Fault
<1>2. ASSUME NEW w \in Workers, Works(w)
      PROVE  \/ causes' = causes \/ causes' = causes \cup {"read"}
             \/ causes' = causes \cup {"entry"} \/ causes' = causes \cup {"seal"}
    BY <1>2 DEF Works, Looks, Receives, Starts, Reads, ReportsEntry, Seals, Reported, Enqueues,
        Checks, Finishes, LeavesScan, OthersKeep, LosesFolder, Fault
<1>3. QED
    BY <1>1, <1>2 DEF Overtaken

\* What a worker can do while nothing has stopped the scan.
Rests(w) ==
    /\ worker[w].at \in {"idle", "receive"} /\ Resting(w)'
    /\ worker'[w].at = "gone" => at = "gone"
    /\ worker'[w].folder = worker[w].folder
    /\ UNCHANGED <<commands, assigned, results>>
Accepts(w) ==
    /\ worker[w].at = "receive" /\ assigned[w] # None
    /\ worker'[w].at = "start" /\ worker'[w].folder = assigned[w] /\ worker'[w].part = 1
    /\ assigned' = [assigned EXCEPT ![w] = None]
    /\ UNCHANGED <<commands, results>>
GoesOn(w) ==
    /\ Busy(w) /\ Busy(w)' /\ worker'[w].folder = worker[w].folder
    /\ UNCHANGED assigned
Says(w) ==
    /\ GoesOn(w)
    /\ worker[w].at = "report" /\ worker'[w].at = worker[w].then
    /\ worker'[w].dirs = worker[w].dirs /\ worker'[w].part = worker[w].part
    /\ results[w] = <<>>
    /\ results' = [results EXCEPT ![w] = <<worker[w].event>>]
    /\ UNCHANGED commands
Names(w, f) ==
    /\ GoesOn(w)
    /\ worker[w].at = "enqueue" /\ worker'[w].at = "enqueue"
    /\ f \in worker[w].dirs /\ worker'[w].dirs = worker[w].dirs \ {f}
    /\ worker'[w].part = worker[w].part
    /\ commands' = Append(commands, [kind |-> "enqueue", w |-> w, folder |-> f])
    /\ UNCHANGED results
Completes(w) ==
    /\ worker[w].at = "finish" /\ worker'[w].at = "idle"
    /\ commands' = Append(commands,
            [kind |-> "complete", w |-> w, folder |-> worker[w].folder])
    /\ UNCHANGED <<assigned, results>>

Losses == {"failure", "unscanned"}
WillSay(w, e, next) ==
    worker'[w].at = "report" /\ worker'[w].event = e /\ worker'[w].then = next
Loses(w) ==
    /\ worker[w].at \in {"start", "check"}
    /\ \E kind \in Losses : WillSay(w, Event(kind, worker[w].folder, 0), "finish")
Notes(w) ==
    /\ worker[w].at = "read" /\ worker'[w].part = worker[w].part
    /\ \E kind \in Losses : WillSay(w, Event(kind, worker[w].folder, worker[w].part), "read")
Delivers(w) ==
    /\ worker[w].at = "seal" /\ worker'[w].part = worker[w].part
    /\ WillSay(w, Event("part", worker[w].folder, worker[w].part), "enqueue")
    /\ worker'[w].dirs = Parts(worker[w].folder)[worker[w].part]
Advances(w) ==
    LET from == worker[w].at
        to == worker'[w].at
        n == Len(Parts(worker[w].folder))
        p == worker[w].part
    IN \/ from = "check" /\ to = "read" /\ worker'[w].part = p + 1
       \/ /\ worker'[w].part = p
          /\ \/ from = "start" /\ to = "read"
             \/ from = "read" /\ to = "seal"
             \/ from = "read" /\ to = "check" /\ p > n
             \/ from = "enqueue" /\ to = "check" /\ worker[w].dirs = {}
             \/ from = "check" /\ to = "finish" /\ p >= n
Thinks(w) ==
    /\ GoesOn(w)
    /\ UNCHANGED <<commands, results>>
    /\ Loses(w) \/ Notes(w) \/ Delivers(w) \/ Advances(w)

SoundWorks(w) ==
    \/ Rests(w) \/ Accepts(w) \/ Thinks(w) \/ Says(w) \/ Completes(w)
    \/ \E f \in Folders : Names(w, f)

\* In a scan nothing has stopped a worker does one of six things, and raises no
\* flag.
LEMMA SoundWork ==
    ASSUME Types, RootInv, BookInv, Sound, Sound', NEW w \in Workers, Works(w)
    PROVE  SoundWorks(w) /\ worker'[w].continue /\ ~failed'
<1> DEFINE r == worker[w]
           Goal == SoundWorks(w) /\ worker'[w].continue /\ ~failed'
<1>0. WorkerTypes /\ LeaseTypes /\ PlaceTypes
    BY DEF Types
<1>1. /\ r \in WorkerStates /\ r.continue = TRUE /\ r.part \in Nat
      /\ ~failed /\ ~cancelled /\ ~rootInvalid /\ ~rootChanged /\ ~Stopping /\ RootIsGood
    BY <1>0, WorkerFields DEF BookInv, FlagInv, Sound, RootInv, Stopping, RootIsGood, WorkerStates
<1>2. /\ Busy(w) => r.folder \in Folders /\ active[w] = r.folder
      /\ Busy(w) \/ Resting(w)
    BY <1>0 DEF BookInv, TaskInv, Busy, PlaceTypes
<1>3. Busy(w) => ~SchedulerIsGone
    BY <1>2, Constants DEF BookInv, FlagInv, NoneActive, SchedulerIsGone
<1>4. ~CommandIsLost \/ ~Busy(w)
    BY <1>1, <1>3 DEF CommandIsLost
<1>5. \A next : Moves(w, next) => worker'[w] = next
    BY <1>0 DEF Moves, WorkerTypes
<1> DEFINE Same(next, place) ==
             /\ next.at = place /\ next.folder = r.folder /\ next.part = r.part
             /\ next.dirs = r.dirs /\ next.continue = r.continue
             /\ next.event = r.event /\ next.then = r.then
<1>6. \A place : Same(GoesTo(w, place), place)
    BY <1>1 DEF GoesTo, WorkerStates
<1>7. CASE Looks(w)
  <2>1. worker'[w] = GoesTo(w, "receive") /\ r.at = "idle"
        /\ UNCHANGED <<commands, assigned, results, failed>>
    BY <1>1, <1>5, <1>7 DEF Looks
  <2>2. Rests(w)
    BY <1>6, <2>1 DEF Rests, Resting
  <2>3. QED
    BY <1>1, <1>6, <2>1, <2>2 DEF SoundWorks
<1>8. CASE Receives(w)
  <2>1. CASE assigned[w] # None
    <3> DEFINE next == [GoesTo(w, "start") EXCEPT !.folder = assigned[w], !.part = 1]
    <3>1. worker'[w] = next /\ r.at = "receive"
          /\ assigned' = [assigned EXCEPT ![w] = None]
          /\ UNCHANGED <<commands, results, failed>>
        BY <1>5, <1>8, <2>1 DEF Receives
    <3>2. /\ next.at = "start" /\ next.folder = assigned[w] /\ next.part = 1
          /\ next.continue = r.continue
        BY <1>1 DEF GoesTo, WorkerStates
    <3>3. Accepts(w)
        BY <2>1, <3>1, <3>2 DEF Accepts
    <3>4. QED
        BY <1>1, <3>1, <3>2, <3>3 DEF SoundWorks
  <2>2. CASE assigned[w] = None
    <3>1. /\ \/ worker'[w] = GoesTo(w, "gone") /\ at = "gone"
             \/ worker'[w] = GoesTo(w, "idle")
          /\ r.at = "receive" /\ UNCHANGED <<commands, results, failed>>
          /\ assigned' = [assigned EXCEPT ![w] = None]
        BY <1>5, <1>8, <2>2 DEF Receives, SchedulerIsGone
    <3>2. assigned' = assigned
        BY <1>0, <2>2, <3>1 DEF LeaseTypes
    <3>3. Same(GoesTo(w, "gone"), "gone") /\ Same(GoesTo(w, "idle"), "idle")
        BY <1>6
    <3>4. Rests(w) /\ worker'[w].continue = r.continue
        BY <3>1, <3>2, <3>3 DEF Rests, Resting
    <3>5. QED
        BY <1>1, <3>1, <3>4 DEF SoundWorks
  <2>3. QED
    BY <2>1, <2>2
<1> DEFINE Silent == UNCHANGED <<commands, assigned, results, failed>>
<1>9. ASSUME r.at \in {"start", "check"}, LosesFolder(w), Silent
      PROVE  Goal
  <2>1. PICK kind \in Losses :
          worker'[w] = [Reports(w, Event(kind, r.folder, 0), "finish") EXCEPT !.continue = TRUE]
    BY <1>5, <1>9 DEF LosesFolder, Losses
  <2>2. /\ worker'[w].at = "report" /\ worker'[w].folder = r.folder
        /\ worker'[w].event = Event(kind, r.folder, 0) /\ worker'[w].then = "finish"
        /\ worker'[w].continue = TRUE
    BY <1>1, <2>1 DEF Reports, GoesTo, WorkerStates
  <2>3. GoesOn(w) /\ Loses(w)
    BY <1>9, <2>2 DEF GoesOn, Busy, Loses, WillSay
  <2>4. QED
    BY <1>1, <1>9, <2>2, <2>3 DEF SoundWorks, Thinks
<1>10. ASSUME NEW place, worker'[w] = GoesTo(w, place), Silent, Busy(w),
              place \in {"read", "seal", "check", "finish"},
              Same(worker'[w], place) => Advances(w)
       PROVE  Goal
    BY <1>1, <1>6, <1>10 DEF SoundWorks, Thinks, GoesOn, Busy
<1>11. CASE Starts(w)
  <2>1. r.at = "start" /\ Silent /\ (LosesFolder(w) \/ worker'[w] = GoesTo(w, "read"))
    BY <1>1, <1>5, <1>11 DEF Starts
  <2>2. QED
    BY <1>9, <1>10, <2>1 DEF Advances, Busy
<1>12. CASE Reads(w)
  <2>1. r.at = "read" /\ Silent
        /\ worker'[w] = GoesTo(w, IF IsPastEnd(w) THEN "check" ELSE "seal")
    BY <1>1, <1>5, <1>12 DEF Reads
  <2>2. QED
    BY <1>10, <2>1 DEF Advances, Busy, IsPastEnd
<1>13. CASE ReportsEntry(w)
  <2>1. PICK kind \in Losses :
          /\ worker'[w] = Reports(w, Event(kind, r.folder, r.part), "read")
          /\ r.at = "read" /\ Silent
    BY <1>5, <1>13 DEF ReportsEntry, Sound, Fault, Losses
  <2>2. /\ worker'[w].at = "report" /\ worker'[w].folder = r.folder
        /\ worker'[w].event = Event(kind, r.folder, r.part) /\ worker'[w].then = "read"
        /\ worker'[w].part = r.part /\ worker'[w].continue = r.continue
    BY <1>1, <2>1 DEF Reports, GoesTo, WorkerStates
  <2>3. GoesOn(w) /\ Notes(w)
    BY <2>1, <2>2 DEF GoesOn, Busy, Notes, WillSay
  <2>4. QED
    BY <1>1, <2>1, <2>2, <2>3 DEF SoundWorks, Thinks
<1>14. CASE Seals(w)
  <2>1. /\ worker'[w] = [Reports(w, Event("part", r.folder, r.part), "enqueue")
                           EXCEPT !.dirs = Parts(r.folder)[r.part]]
        /\ r.at = "seal" /\ Silent
    BY <1>5, <1>14 DEF Seals, Sound, Fault
  <2>2. /\ worker'[w].at = "report" /\ worker'[w].folder = r.folder
        /\ worker'[w].event = Event("part", r.folder, r.part) /\ worker'[w].then = "enqueue"
        /\ worker'[w].part = r.part /\ worker'[w].continue = r.continue
        /\ worker'[w].dirs = Parts(r.folder)[r.part]
    BY <1>1, <2>1 DEF Reports, GoesTo, WorkerStates
  <2>3. GoesOn(w) /\ Delivers(w)
    BY <2>1, <2>2 DEF GoesOn, Busy, Delivers, WillSay
  <2>4. QED
    BY <1>1, <2>1, <2>2, <2>3 DEF SoundWorks, Thinks
<1>15. CASE Reported(w)
  <2>1. /\ r.at = "report" /\ results[w] = <<>>
        /\ results' = [results EXCEPT ![w] = <<r.event>>]
        /\ worker'[w] = Sent(w, r.then)
        /\ UNCHANGED <<commands, assigned, failed>>
    BY <1>1, <1>3, <1>5, <1>15 DEF Reported, Busy
  <2>2. /\ worker'[w].at = r.then /\ worker'[w].folder = r.folder
        /\ worker'[w].part = r.part /\ worker'[w].continue = r.continue
        /\ worker'[w].dirs = r.dirs
    BY <1>1, <2>1 DEF Sent, GoesTo, WorkerStates
  <2>3. r.then \in {"read", "enqueue", "finish"}
    BY <2>1 DEF BookInv, EventInv
  <2>4. Says(w)
    BY <2>1, <2>2, <2>3 DEF GoesOn, Busy, Says
  <2>5. QED
    BY <1>1, <2>1, <2>2, <2>4 DEF SoundWorks
<1>16. CASE Enqueues(w)
  <2>1. r.at = "enqueue" /\ UNCHANGED <<assigned, results, failed>>
    BY <1>4, <1>16 DEF Enqueues, Busy
  <2>2. CASE r.dirs = {} /\ worker'[w] = GoesTo(w, "check") /\ UNCHANGED commands
    BY <1>10, <2>1, <2>2 DEF Advances, Busy
  <2>3. ASSUME NEW f \in r.dirs, worker'[w] = [r EXCEPT !.dirs = @ \ {f}],
               commands' = Append(commands, [kind |-> "enqueue", w |-> w, folder |-> f])
        PROVE  Goal
    <3>1. /\ worker'[w].at = r.at /\ worker'[w].folder = r.folder
          /\ worker'[w].part = r.part /\ worker'[w].continue = r.continue
          /\ worker'[w].dirs = r.dirs \ {f} /\ f \in Folders
        BY <1>1, <2>3 DEF WorkerStates
    <3>2. Names(w, f)
        BY <2>1, <2>3, <3>1 DEF GoesOn, Busy, Names
    <3>3. QED
        BY <1>1, <2>1, <3>1, <3>2 DEF SoundWorks
  <2>4. QED
    BY <1>4, <1>5, <1>16, <2>1, <2>2, <2>3 DEF Enqueues, Busy
<1>17. CASE Checks(w)
  <2>1. r.at = "check" /\ Silent
    BY <1>1, <1>17 DEF Checks
  <2>2. CASE LosesFolder(w)
    BY <1>9, <2>1, <2>2
  <2>3. CASE r.part < Len(Parts(r.folder)) /\ worker'[w] = [GoesTo(w, "read") EXCEPT !.part = @ + 1]
    <3>1. /\ worker'[w].at = "read" /\ worker'[w].folder = r.folder
          /\ worker'[w].continue = r.continue
          /\ worker'[w].part = r.part + 1
        <4>1. GoesTo(w, "read") \in WorkerStates
            BY <1>0, WorkerFields DEF WorkerPlaces
        <4>2. worker'[w].part = GoesTo(w, "read").part + 1
            BY <2>3, <4>1 DEF WorkerStates
        <4>3. /\ worker'[w].at = GoesTo(w, "read").at
              /\ worker'[w].folder = GoesTo(w, "read").folder
              /\ worker'[w].continue = GoesTo(w, "read").continue
            BY <2>3, <4>1 DEF WorkerStates
        <4>4. QED
            BY <1>6, <4>2, <4>3
    <3>2. GoesOn(w) /\ Advances(w)
        BY <2>1, <3>1 DEF GoesOn, Busy, Advances
    <3>3. QED
        BY <1>1, <2>1, <3>1, <3>2 DEF SoundWorks, Thinks
  <2>4. CASE ~(r.part < Len(Parts(r.folder))) /\ worker'[w] = Ends(w, TRUE)
    <3>1. /\ worker'[w].at = "finish" /\ worker'[w].folder = r.folder
          /\ worker'[w].continue = TRUE /\ worker'[w].part = r.part
        BY <1>1, <2>4 DEF Ends, GoesTo, WorkerStates
    <3>2. r.part >= Len(Parts(r.folder))
        BY <1>1, <1>2, <2>1, <2>4, Constants DEF Busy
    <3>3. GoesOn(w) /\ Advances(w)
        BY <2>1, <3>1, <3>2 DEF GoesOn, Busy, Advances
    <3>4. QED
        BY <1>1, <2>1, <3>1, <3>3 DEF SoundWorks, Thinks
  <2>5. QED
    BY <1>1, <1>5, <1>17, <2>2, <2>3, <2>4 DEF Checks
<1>18. CASE Finishes(w)
  <2>1. /\ r.at = "finish" /\ worker'[w] = IdleWorker
        /\ commands' = Append(commands, [kind |-> "complete", w |-> w, folder |-> r.folder])
        /\ UNCHANGED <<assigned, results, failed>>
    BY <1>1, <1>4, <1>5, <1>18 DEF Finishes, Busy
  <2>2. IdleWorker.at = "idle" /\ IdleWorker.continue = TRUE
    BY DEF IdleWorker
  <2>3. QED
    BY <1>1, <2>1, <2>2 DEF SoundWorks, Completes
<1>19. CASE LeavesScan(w)
    BY <1>2, <1>19 DEF LeavesScan, Busy, Resting
<1>20. QED
    BY <1>7, <1>8, <1>11, <1>12, <1>13, <1>14, <1>15, <1>16, <1>17, <1>18, <1>19 DEF Works

(***************************************************************************)
(* Worker steps and the books.                                             *)
(***************************************************************************)
\* The command channel after a send.
LEMMA CommandSent ==
    ASSUME Types, NEW c \in Commands, commands' = Append(commands, c)
    PROVE  /\ DOMAIN commands = 1 .. Len(commands) /\ Len(commands) \in Nat
           /\ DOMAIN commands' = 1 .. Len(commands) + 1
           /\ \A i \in DOMAIN commands : commands'[i] = commands[i]
           /\ commands'[Len(commands) + 1] = c
           /\ \A v : Completions(v)' = IF c.kind = "complete" /\ c.w = v
                                       THEN Completions(v) \cup {Len(commands) + 1}
                                       ELSE Completions(v)
<1>1. /\ DOMAIN commands = 1 .. Len(commands) /\ Len(commands) \in Nat
      /\ DOMAIN commands' = 1 .. Len(commands) + 1
      /\ \A i \in DOMAIN commands : commands'[i] = commands[i]
      /\ commands'[Len(commands) + 1] = c
    BY DEF Types, CommandTypes
<1>2. QED
    BY <1>1 DEF Completions

\* The command channel after a receive.
LEMMA CommandTaken ==
    ASSUME Types, commands # <<>>, commands' = Tail(commands)
    PROVE  /\ DOMAIN commands = 1 .. Len(commands) /\ Len(commands) \in Nat \ {0}
           /\ DOMAIN commands' = 1 .. Len(commands) - 1
           /\ Head(commands) = commands[1] /\ commands[1] \in Commands
           /\ \A i \in DOMAIN commands' :
                i + 1 \in DOMAIN commands /\ commands'[i] = commands[i + 1]
           /\ \A i \in DOMAIN commands :
                i # 1 => i - 1 \in DOMAIN commands' /\ commands'[i - 1] = commands[i]
           /\ \A v : \A i \in Completions(v)' :
                i + 1 \in Completions(v) /\ commands'[i] = commands[i + 1]
           /\ \A v : Completions(v) = {} => Completions(v)' = {}
<1>1. /\ DOMAIN commands = 1 .. Len(commands) /\ Len(commands) \in Nat \ {0}
      /\ DOMAIN commands' = 1 .. Len(commands) - 1
      /\ Head(commands) = commands[1] /\ commands[1] \in Commands
      /\ \A i \in DOMAIN commands' :
           i + 1 \in DOMAIN commands /\ commands'[i] = commands[i + 1]
      /\ \A i \in DOMAIN commands :
           i # 1 => i - 1 \in DOMAIN commands' /\ commands'[i - 1] = commands[i]
    BY DEF Types, CommandTypes
<1>2. \A v : \A i \in Completions(v)' :
        i + 1 \in Completions(v) /\ commands'[i] = commands[i + 1]
    BY <1>1 DEF Completions
<1>3. QED
    BY <1>1, <1>2

\* The books of a worker nothing happens to.
LEMMA TaskKept ==
    ASSUME NEW v \in Workers, TaskInv(v),
           worker'[v] = worker[v], active'[v] = active[v], assigned'[v] = assigned[v],
           results'[v] = results[v], Completions(v)' = Completions(v),
           \A i \in Completions(v) : commands'[i] = commands[i],
           Completed(v)' <=> Completed(v), Completed(v) => hand'.folder = hand.folder
    PROVE  TaskInv(v)'
<1>1. (Busy(v)' <=> Busy(v)) /\ (Resting(v)' <=> Resting(v))
    BY DEF Busy, Resting
<1>2. QED
    BY <1>1 DEF TaskInv

\* A worker keeps its own books, and disturbs nobody else's.
LEMMA BookWork ==
    ASSUME Types, RootInv, BookInv, Sound, Sound', NEW w \in Workers, Works(w)
    PROVE  BookInv'
<1>0. /\ WorkerTypes /\ LeaseTypes /\ SentTypes /\ CommandTypes /\ PlaceTypes
      /\ FlagInv /\ EventInv /\ CommandInv /\ LedgerInv /\ GrantInv /\ \A v \in Workers : TaskInv(v)
    BY DEF Types, BookInv
<1>1. SoundWorks(w) /\ worker'[w].continue /\ ~failed'
    BY SoundWork
<1>2. /\ WorkerTypes' /\ \A v \in Workers : v # w => worker'[v] = worker[v]
    BY WorkTypes
<1>3. UNCHANGED <<at, hand, event, then, active, invalidated, ready, leases, waiting, pending>>
    BY WorkerFrame
<1>4. \A v : Completed(v)' <=> Completed(v)
    BY <1>3 DEF Completed
<1>5. LedgerInv' /\ GrantInv'
  <2>1. Lent' = Lent /\ (NoneActive => NoneActive')
    BY <1>3 DEF Lent, NoneActive
  <2>2. QED
    BY <1>0, <1>3, <2>1, OvertakenKept DEF LedgerInv, GrantInv
<1>6. FlagInv'
    BY <1>0, <1>1, <1>2, <1>3 DEF FlagInv, SoundWorks, Rests, Accepts, Thinks, Says, Completes,
        Names, GoesOn, Busy, IsGone, NoneActive
<1>7. /\ Busy(w) => worker[w].folder \in Folders /\ active[w] # None
      /\ [kind |-> "complete", w |-> w, folder |-> worker[w].folder] \in Commands \/ ~Busy(w)
      /\ \A f \in Folders : [kind |-> "enqueue", w |-> w, folder |-> f] \in Commands
    BY <1>0, Constants DEF PlaceTypes, Busy, TaskInv, Commands
<1>8. EventInv'
  <2>1. worker'[w].at = "report" =>
          /\ worker'[w].event.folder = worker'[w].folder
          /\ worker'[w].then \in {"read", "enqueue", "finish"}
    <3>1. CASE Rests(w) \/ Accepts(w) \/ Completes(w)
        BY <3>1 DEF Rests, Resting, Accepts, Completes
    <3>2. CASE Says(w) \/ \E f \in Folders : Names(w, f)
        BY <1>0, <3>2 DEF Says, Names, EventInv
    <3>3. CASE Thinks(w)
      <4>1. \A k, g, i : Event(k, g, i).folder = g
        BY DEF Event
      <4>2. worker'[w].folder = worker[w].folder
        BY <3>3 DEF Thinks, GoesOn
      <4>3. CASE Loses(w) \/ Notes(w) \/ Delivers(w)
        BY <4>1, <4>2, <4>3 DEF Loses, Notes, Delivers, WillSay
      <4>4. CASE Advances(w)
        BY <4>4 DEF Advances
      <4>5. QED
        BY <3>3, <4>3, <4>4 DEF Thinks
    <3>4. QED
        BY <1>1, <3>1, <3>2, <3>3 DEF SoundWorks
  <2>2. QED
    BY <1>0, <1>2, <1>3, <2>1 DEF EventInv
<1>9. CASE Rests(w)
  <2>1. UNCHANGED <<commands, assigned, results>> /\ Resting(w) /\ Resting(w)' /\ ~Busy(w)'
    BY <1>9 DEF Rests, Resting, Busy
  <2>2. \A v : Completions(v)' = Completions(v)
    BY <2>1 DEF Completions
  <2>3. ASSUME NEW v \in Workers PROVE TaskInv(v)'
    <3>1. CASE v = w
        BY <1>0, <1>3, <1>4, <2>1, <2>2, <3>1 DEF TaskInv
    <3>2. CASE v # w
        BY <1>0, <1>2, <1>3, <1>4, <2>1, <2>2, <3>2, TaskKept DEF Completions
    <3>3. QED
        BY <3>1, <3>2
  <2>4. CommandInv'
    BY <1>0, <1>3, <1>4, <2>1 DEF CommandInv
  <2>5. QED
    BY <1>5, <1>6, <1>8, <2>3, <2>4 DEF BookInv
<1>10. CASE Accepts(w)
  <2>1. /\ UNCHANGED <<commands, results>> /\ assigned[w] # None
        /\ assigned'[w] = None /\ \A v \in Workers : v # w => assigned'[v] = assigned[v]
        /\ worker'[w].folder = assigned[w] /\ Busy(w)' /\ ~Resting(w)'
    BY <1>0, <1>10 DEF Accepts, LeaseTypes, Resting, Busy
  <2>2. \A v : Completions(v)' = Completions(v)
    BY <2>1 DEF Completions
  <2>3. ASSUME NEW v \in Workers PROVE TaskInv(v)'
    <3>1. CASE v = w
        BY <1>0, <1>3, <1>4, <2>1, <2>2, <3>1 DEF TaskInv
    <3>2. CASE v # w
        BY <1>0, <1>2, <1>3, <1>4, <2>1, <2>2, <3>2, TaskKept DEF Completions
    <3>3. QED
        BY <3>1, <3>2
  <2>4. CommandInv'
    BY <1>0, <1>3, <1>4, <2>1 DEF CommandInv
  <2>5. QED
    BY <1>5, <1>6, <1>8, <2>3, <2>4 DEF BookInv
<1>11. CASE Thinks(w)
  <2>1. /\ UNCHANGED <<commands, results, assigned>>
        /\ worker'[w].folder = worker[w].folder /\ Busy(w) /\ Busy(w)'
    BY <1>11 DEF Thinks, GoesOn
  <2>2. \A v : Completions(v)' = Completions(v)
    BY <2>1 DEF Completions
  <2>3. ASSUME NEW v \in Workers PROVE TaskInv(v)'
    <3>1. CASE v = w
        BY <1>0, <1>3, <1>4, <1>7, <2>1, <2>2, <3>1 DEF TaskInv, Busy, Resting
    <3>2. CASE v # w
        BY <1>0, <1>2, <1>3, <1>4, <2>1, <2>2, <3>2, TaskKept DEF Completions
    <3>3. QED
        BY <3>1, <3>2
  <2>4. CommandInv'
    BY <1>0, <1>3, <1>4, <2>1 DEF CommandInv
  <2>5. QED
    BY <1>5, <1>6, <1>8, <2>3, <2>4 DEF BookInv
<1>12. CASE Says(w)
  <2>1. /\ UNCHANGED <<commands, assigned>>
        /\ worker'[w].folder = worker[w].folder /\ Busy(w) /\ Busy(w)'
        /\ results'[w] = <<worker[w].event>>
        /\ \A v \in Workers : v # w => results'[v] = results[v]
    BY <1>0, <1>12 DEF Says, GoesOn, SentTypes
  <2>2. \A v : Completions(v)' = Completions(v)
    BY <2>1 DEF Completions
  <2>3. \A i \in DOMAIN results'[w] : results'[w][i].folder = active[w]
    <3>1. worker[w].event.folder = active[w]
        BY <1>0, <1>12, <2>1 DEF Says, EventInv, TaskInv
    <3>2. QED
        BY <2>1, <3>1
  <2>4. ASSUME NEW v \in Workers PROVE TaskInv(v)'
    <3>1. CASE v = w
        BY <1>0, <1>3, <1>4, <1>7, <2>1, <2>2, <2>3, <3>1 DEF TaskInv, Busy, Resting
    <3>2. CASE v # w
        BY <1>0, <1>2, <1>3, <1>4, <2>1, <2>2, <3>2, TaskKept DEF Completions
    <3>3. QED
        BY <3>1, <3>2
  <2>5. CommandInv'
    BY <1>0, <1>3, <1>4, <2>1 DEF CommandInv
  <2>6. QED
    BY <1>5, <1>6, <1>8, <2>4, <2>5 DEF BookInv
<1>13. CASE \E f \in Folders : Names(w, f)
  <2>1. PICK f \in Folders : Names(w, f)
    BY <1>13
  <2> DEFINE c == [kind |-> "enqueue", w |-> w, folder |-> f]
  <2>2. /\ UNCHANGED <<results, assigned>> /\ commands' = Append(commands, c)
        /\ worker'[w].folder = worker[w].folder /\ Busy(w) /\ Busy(w)'
    BY <2>1 DEF Names, GoesOn
  <2>3. c \in Commands /\ c.kind = "enqueue" /\ c.w = w
    BY <1>7
  <2> HIDE DEF c
  <2>4. /\ \A v : Completions(v)' = Completions(v)
        /\ \A v : \A i \in Completions(v) : commands'[i] = commands[i]
    BY <2>2, <2>3, CommandSent DEF Completions
  <2>5. ASSUME NEW v \in Workers PROVE TaskInv(v)'
    <3>1. CASE v = w
        BY <1>0, <1>3, <1>4, <1>7, <2>2, <2>4, <3>1 DEF TaskInv, Busy, Resting
    <3>2. CASE v # w
        BY <1>0, <1>2, <1>3, <1>4, <2>2, <2>4, <3>2, TaskKept DEF Completions
    <3>3. QED
        BY <3>1, <3>2
  <2>6. Completions(w) = {} /\ ~Completed(w) /\ active[w] # None
    BY <1>0, <1>7, <2>2 DEF TaskInv
  <2>7. CommandInv'
    <3> DEFINE n == Len(commands) + 1
    <3>1. /\ n \in Nat /\ DOMAIN commands' = 1 .. n /\ DOMAIN commands = 1 .. n - 1
          /\ \A i \in DOMAIN commands : commands'[i] = commands[i]
          /\ commands'[n] = c
        BY <2>2, <2>3, CommandSent
    <3> HIDE DEF n
    <3>2. \A i \in DOMAIN commands' : i = n \/ i \in DOMAIN commands
        BY <3>1
    <3>3. \A i \in DOMAIN commands' :
            active'[commands'[i].w] # None /\ ~Completed(commands[i].w)'
        BY <1>0, <1>3, <2>3, <2>6, <3>1, <3>2 DEF CommandInv, Completed
    <3>4. \A i, j \in DOMAIN commands' :
            commands'[j].kind = "complete" /\ commands'[i].w = commands'[j].w => i =< j
      <4> SUFFICES ASSUME NEW i \in DOMAIN commands', NEW j \in DOMAIN commands',
                          commands'[j].kind = "complete", commands'[i].w = commands'[j].w
                   PROVE  i =< j
        OBVIOUS
      <4>1. j \in DOMAIN commands
        BY <2>3, <3>1, <3>2
      <4>2. i # n
        BY <2>3, <2>6, <3>1, <4>1 DEF Completions
      <4>3. QED
        BY <1>0, <3>1, <3>2, <4>1, <4>2 DEF CommandInv
    <3>5. QED
        BY <3>3, <3>4 DEF CommandInv
  <2>8. QED
    BY <1>5, <1>6, <1>8, <2>5, <2>7 DEF BookInv
<1>14. CASE Completes(w)
  <2> DEFINE c == [kind |-> "complete", w |-> w, folder |-> worker[w].folder]
  <2>1. /\ UNCHANGED <<results, assigned>> /\ commands' = Append(commands, c)
        /\ Busy(w) /\ Resting(w)' /\ ~Busy(w)'
    BY <1>14 DEF Completes, Busy, Resting
  <2>2. c \in Commands /\ c.kind = "complete" /\ c.w = w /\ c.folder = active[w]
    BY <1>0, <1>7, <2>1 DEF TaskInv
  <2> HIDE DEF c
  <2>3. Completions(w) = {} /\ ~Completed(w) /\ active[w] # None /\ assigned[w] = None
    BY <1>0, <1>7, <2>1 DEF TaskInv, Busy, Resting
  <2>4. /\ Completions(w)' = {Len(commands) + 1} /\ commands'[Len(commands) + 1] = c
        /\ \A v : v # w => Completions(v)' = Completions(v)
        /\ \A v : \A i \in Completions(v) : commands'[i] = commands[i]
    BY <2>1, <2>2, <2>3, CommandSent DEF Completions
  <2>5. ASSUME NEW v \in Workers PROVE TaskInv(v)'
    <3>1. CASE v = w
        BY <1>0, <1>3, <1>4, <2>1, <2>2, <2>3, <2>4, <3>1 DEF TaskInv
    <3>2. CASE v # w
        BY <1>0, <1>2, <1>3, <1>4, <2>1, <2>4, <3>2, TaskKept DEF Completions
    <3>3. QED
        BY <3>1, <3>2
  <2>6. CommandInv'
    <3> DEFINE n == Len(commands) + 1
    <3>1. /\ n \in Nat /\ DOMAIN commands' = 1 .. n /\ DOMAIN commands = 1 .. n - 1
          /\ \A i \in DOMAIN commands : commands'[i] = commands[i]
          /\ commands'[n] = c
        BY <2>1, <2>2, CommandSent
    <3> HIDE DEF n
    <3>2. \A i \in DOMAIN commands' : i = n \/ i \in DOMAIN commands
        BY <3>1
    <3>3. \A i \in DOMAIN commands' :
            active'[commands'[i].w] # None /\ ~Completed(commands[i].w)'
        BY <1>0, <1>3, <2>2, <2>3, <3>1, <3>2 DEF CommandInv, Completed
    <3>4. \A i, j \in DOMAIN commands' :
            commands'[j].kind = "complete" /\ commands'[i].w = commands'[j].w => i =< j
      <4> SUFFICES ASSUME NEW i \in DOMAIN commands', NEW j \in DOMAIN commands',
                          commands'[j].kind = "complete", commands'[i].w = commands'[j].w
                   PROVE  i =< j
        OBVIOUS
      <4>1. CASE j = n
        BY <3>1, <4>1
      <4>2. CASE j # n
        <5>1. j \in DOMAIN commands /\ i # n
            BY <2>2, <2>3, <3>1, <3>2, <4>2 DEF Completions
        <5>2. QED
            BY <1>0, <3>1, <3>2, <5>1 DEF CommandInv
      <4>3. QED
        BY <4>1, <4>2
    <3>5. QED
        BY <3>3, <3>4 DEF CommandInv
  <2>7. QED
    BY <1>5, <1>6, <1>8, <2>5, <2>6 DEF BookInv
<1>15. QED
    BY <1>1, <1>9, <1>10, <1>11, <1>12, <1>13, <1>14 DEF SoundWorks

(***************************************************************************)
(* Scheduler steps and the books.                                          *)
(***************************************************************************)
\* What the scheduler can do while nothing has stopped the scan.
Waits ==
    /\ at \in {"top", "dispatch", "select"} /\ at' \in {"top", "dispatch", "select", "gone"}
    /\ at' = "gone" => NoneActive /\ waiting = {}
    /\ UNCHANGED <<hand, then, active, ready, leases, waiting, pending, commands, assigned,
                   results, inbox>>
Admits ==
    /\ at = "admit" /\ at' = "top" /\ ~Overtaken /\ ready' = {Root}
    /\ UNCHANGED <<hand, then, active, leases, waiting, pending, commands, assigned,
                   results, inbox>>
Grants(w, f) ==
    /\ at = "dispatch" /\ at' = "assign" /\ active[w] = None /\ f \in ready
    /\ hand' = [w |-> w, folder |-> f]
    /\ ready' = ready \ {f} /\ leases' = leases \union {f} /\ waiting' = waiting \ {f}
    /\ UNCHANGED <<then, active, pending, commands, assigned, results, inbox>>
Assigns ==
    /\ at = "assign" /\ at' = "dispatch" /\ ~IsGone(hand.w)
    /\ active' = [active EXCEPT ![hand.w] = hand.folder]
    /\ assigned' = [assigned EXCEPT ![hand.w] = hand.folder]
    /\ UNCHANGED <<then, ready, leases, waiting, pending, commands, results, inbox>>
Enlists(f) ==
    /\ at = "select" /\ at' = "top" /\ ~Overtaken
    /\ commands # <<>> /\ Head(commands).kind = "enqueue" /\ Head(commands).folder = f
    /\ commands' = Tail(commands)
    /\ \/ f \in ready \union leases /\ UNCHANGED <<ready, waiting, pending>>
       \/ /\ f \notin ready \union leases
          /\ ready' = ready \union {f} /\ waiting' = waiting \union {f}
          /\ pending' = pending + 1
    /\ UNCHANGED <<hand, then, active, leases, assigned, results, inbox>>
Handles ==
    /\ at = "select" /\ at' = "completing"
    /\ commands # <<>> /\ Head(commands).kind = "complete"
    /\ commands' = Tail(commands)
    /\ hand' = [w |-> Head(commands).w, folder |-> Head(commands).folder]
    /\ UNCHANGED <<then, active, ready, leases, waiting, pending, assigned, results, inbox>>
Collects(w) ==
    /\ \/ at = "completing" /\ hand.w = w /\ then' = "completing" /\ UNCHANGED hand
       \/ at = "select" /\ then' = "top" /\ hand' = [w |-> w, folder |-> None]
    /\ at' = "forward" /\ results[w] # <<>>
    /\ event' = Head(results[w]) /\ results' = [results EXCEPT ![w] = <<>>]
    /\ UNCHANGED <<active, ready, leases, waiting, pending, commands, assigned, inbox>>
Releases ==
    /\ at = "completing" /\ at' = "top" /\ hand' = NoHand
    /\ results[hand.w] = <<>> /\ active[hand.w] = hand.folder /\ hand.folder \in leases
    /\ active' = [active EXCEPT ![hand.w] = None]
    /\ leases' = leases \ {hand.folder} /\ pending' = pending - 1
    /\ UNCHANGED <<then, ready, waiting, commands, assigned, results, inbox>>
PassesOn ==
    /\ at = "forward" /\ at' = then
    /\ hand' = IF then = "completing" THEN hand ELSE NoHand
    /\ inbox' = Append(inbox, event)
    /\ UNCHANGED <<then, active, ready, leases, waiting, pending, commands, assigned, results>>

SoundSchedules ==
    \/ Waits \/ Admits \/ Assigns \/ Handles \/ Releases \/ PassesOn
    \/ \E w \in Workers, f \in Folders : Grants(w, f)
    \/ \E f \in Folders : Enlists(f)
    \/ \E w \in Workers : Collects(w)

\* In a scan nothing has stopped the scheduler does one of nine things, and none
\* of its failures: no grant without a journal entry, no rejected completion, no
\* result without a lease, no worker that left.
LEMMA SoundSchedule ==
    ASSUME Types, RootInv, BookInv, Sound, Sound', Schedules
    PROVE  SoundSchedules /\ ~failed'
<1> DEFINE Goal == SoundSchedules /\ ~failed'
<1>0. /\ LeaseTypes /\ SentTypes /\ CommandTypes /\ PlaceTypes
      /\ FlagInv /\ EventInv /\ CommandInv /\ LedgerInv /\ GrantInv /\ \A v \in Workers : TaskInv(v)
    BY DEF Types, BookInv
<1>1. /\ ~failed /\ ~cancelled /\ ~rootInvalid /\ ~Stopping
      /\ at \notin {"failing", "gone"} /\ \A w \in Workers : ~IsGone(w)
    BY <1>0, SchedulerFrame DEF FlagInv, Sound, RootInv, Stopping
<1>a. Overtaken => ~failed'
    BY SchedulerFrame, OvertakenKept DEF Sound
<1>b. CASE AdmitRoot
  <2>1. Admits /\ ~failed'
    BY <1>0, <1>1, <1>a, <1>b DEF AdmitRoot, Goes, Fail, Admits
  <2>2. QED
    BY <2>1 DEF SoundSchedules
<1>2. CASE Top
    BY <1>1, <1>2 DEF Top, Goes, Waits, SoundSchedules
<1>3. ASSUME NEW w \in Workers, NEW f \in Folders, Lease(w, f) PROVE Goal
  <2>1. Grants(w, f) /\ ~failed'
    BY <1>1, <1>3 DEF Lease, Goes, Grants
  <2>2. QED
    BY <2>1 DEF SoundSchedules
<1>4. CASE Assign
  <2>1. hand.w \in Workers
    BY <1>0, <1>4 DEF Assign, PlaceTypes
  <2>2. Assigns /\ ~failed'
    BY <1>1, <1>4, <2>1 DEF Assign, Goes, Assigns
  <2>3. QED
    BY <2>2 DEF SoundSchedules
<1>5. CASE DispatchEnds
  <2>1. ScanIsOver => NoneActive /\ waiting = {}
    <3>1. pending = 0 => waiting \cup Lent = {}
        BY <1>0, FS_EmptySet DEF LedgerInv
    <3>2. QED
        BY <3>1 DEF ScanIsOver
  <2>2. Waits /\ ~failed'
    BY <1>1, <1>5, <2>1 DEF DispatchEnds, Goes, Waits
  <2>3. QED
    BY <2>2 DEF SoundSchedules
<1>6. CASE TakeEnqueue
  <2>1. Head(commands).folder \in Folders
    BY <1>6, CommandTaken DEF TakeEnqueue, Commands
  <2>2. causes' \cap {"queue"} = {}
    BY DEF Sound
  <2>3. Enlists(Head(commands).folder) /\ ~failed'
    BY <1>1, <1>a, <1>6, <2>2 DEF TakeEnqueue, Goes, Fail, Enlists, Fault
  <2>4. QED
    BY <2>1, <2>3 DEF SoundSchedules
<1>7. CASE TakeComplete
  <2>1. Handles /\ ~failed'
    BY <1>1, <1>7 DEF TakeComplete, Goes, Handles
  <2>2. QED
    BY <2>1 DEF SoundSchedules
<1>8. CASE CompleteLease
  <2>1. at = "completing" /\ hand.w \in Workers /\ hand.folder \in Folders
    BY <1>0, <1>8 DEF CompleteLease, PlaceTypes
  <2>2. active[hand.w] = hand.folder
    BY <1>0, <2>1 DEF TaskInv, Completed
  <2>3. CASE ForwardsFirst(hand.w)
    <3>1. Collects(hand.w) /\ ~failed'
        BY <1>1, <1>8, <2>3 DEF CompleteLease, TakesResult, ForwardsFirst, Collects
    <3>2. QED
        BY <2>1, <3>1 DEF SoundSchedules
  <2>4. CASE ~ForwardsFirst(hand.w)
    <3>1. hand.folder \in leases
      <4>1. CASE Overtaken
        BY <1>a, <1>8, <2>4, <4>1 DEF CompleteLease, Fail
      <4>2. CASE ~Overtaken
        BY <1>0, <2>1, <2>2, <4>2 DEF GrantInv, Lent
      <4>3. QED
        BY <4>1, <4>2
    <3>2. Releases /\ ~failed'
        BY <1>1, <1>8, <2>2, <2>4, <3>1 DEF CompleteLease, Goes, ForwardsFirst, Releases
    <3>3. QED
        BY <3>2 DEF SoundSchedules
  <2>5. QED
    BY <2>3, <2>4
<1>9. ASSUME NEW w \in Workers, TakeResult(w) PROVE Goal
  <2>1. Collects(w) /\ ~failed'
    BY <1>1, <1>9 DEF TakeResult, TakesResult, SelectsResults, Collects
  <2>2. QED
    BY <2>1 DEF SoundSchedules
<1>10. ASSUME NEW w \in Workers, NoticeClosed(w) PROVE Goal
    BY <1>1, <1>10 DEF NoticeClosed, ResultsClosed
<1>11. CASE NoticeCommandsClosed
    BY <1>1, <1>11, Constants DEF NoticeCommandsClosed
<1>12. CASE SelectTimesOut
  <2>1. Waits /\ ~failed'
    BY <1>1, <1>12 DEF SelectTimesOut, Goes, Waits
  <2>2. QED
    BY <2>1 DEF SoundSchedules
<1>13. CASE Forward
  <2>1. active[hand.w] # None /\ event.folder = active[hand.w]
    BY <1>0, <1>13 DEF Forward, EventInv
  <2>2. SendsToOwner(event) /\ Goes(then) /\ UNCHANGED coordinator
    BY <1>13, <2>1 DEF Forward
  <2>3. PassesOn /\ ~failed'
    BY <1>1, <1>13, <2>2 DEF Forward, SendsToOwner, Goes, PassesOn
  <2>4. QED
    BY <2>3 DEF SoundSchedules
<1>14. CASE ReportFailure
    BY <1>1, <1>14 DEF ReportFailure
<1>15. QED
    BY <1>b, <1>2, <1>3, <1>4, <1>5, <1>6, <1>7, <1>8, <1>9, <1>10, <1>11, <1>12, <1>13, <1>14
        DEF Schedules

\* What the coordinator, the journal and the scheduler agree on, step by step.
LEMMA LedgerSchedule ==
    ASSUME Types, BookInv, SoundSchedules, Types', Overtaken' <=> Overtaken
    PROVE  LedgerInv' /\ GrantInv'
<1>0. LeaseTypes /\ PlaceTypes /\ LedgerInv /\ GrantInv /\ LeaseTypes' /\ None \notin Folders
      /\ \A v \in Workers : TaskInv(v)
    BY Constants DEF Types, BookInv
<1> DEFINE all == waiting \cup Lent
<1>1. IsFiniteSet(all) /\ pending = Cardinality(all) /\ Lent \subseteq Folders
    BY <1>0 DEF LedgerInv, Lent
<1>2. ASSUME UNCHANGED <<active, waiting, pending>>, at # "assign", at' # "assign",
             at' # "admit"
      PROVE  LedgerInv' /\ Lent' = Lent
  <2>1. Lent' = Lent
    BY <1>2 DEF Lent
  <2>2. QED
    BY <1>0, <1>2, <2>1 DEF LedgerInv
<1>3. CASE Waits \/ Handles \/ PassesOn \/ \E w \in Workers : Collects(w)
  <2>1. /\ UNCHANGED <<active, waiting, pending, ready, leases>>
        /\ at \notin {"assign", "admit"} /\ at' \notin {"assign", "admit"}
    BY <1>0, <1>3 DEF Waits, Handles, PassesOn, Collects, PlaceTypes
  <2>2. QED
    BY <1>0, <1>2, <2>1 DEF GrantInv
<1>a. CASE Admits
  <2>1. /\ UNCHANGED <<active, waiting, pending, leases>> /\ at = "admit" /\ at' = "top"
        /\ ~Overtaken /\ ready' = {Root}
    BY <1>a DEF Admits
  <2>2. LedgerInv' /\ Lent' = Lent /\ waiting = {Root} /\ leases = {}
    BY <1>0, <1>2, <2>1 DEF LedgerInv, GrantInv
  <2>3. Lent = {}
    BY <1>0, <2>1 DEF LedgerInv, Lent, NoneActive
  <2>4. QED
    BY <2>1, <2>2, <2>3 DEF GrantInv
<1>4. ASSUME NEW w \in Workers, NEW f \in Folders, Grants(w, f)
      PROVE  LedgerInv' /\ GrantInv'
  <2>1. /\ ready' = ready \ {f} /\ leases' = leases \cup {f} /\ f \in ready
        /\ waiting' = waiting \ {f}
        /\ at = "dispatch" /\ at' = "assign" /\ hand'.w = w /\ hand'.folder = f
        /\ active[w] = None /\ UNCHANGED <<active, pending>>
    BY <1>0, <1>4 DEF Grants
  <2>2. ~Overtaken /\ ready = waiting /\ leases = Lent /\ f \in waiting
    BY <1>0, <2>1 DEF GrantInv
  <2>3. Lent' = Lent \cup {f}
    BY <2>1 DEF Lent
  <2>4. waiting' \cup Lent' = all /\ waiting' \cap Lent' = {} /\ waiting' \subseteq Folders
    BY <1>0, <2>1, <2>2, <2>3 DEF LedgerInv
  <2>5. \A v \in Workers : active[v] # f
    BY <1>0, <2>2 DEF LedgerInv, Lent
  <2>6. LedgerInv'
    BY <1>0, <1>1, <2>1, <2>4, <2>5 DEF LedgerInv
  <2>7. QED
    BY <2>1, <2>2, <2>3, <2>6 DEF GrantInv
<1>5. CASE Assigns
  <2> DEFINE w == hand.w
             f == hand.folder
  <2>1. /\ w \in Workers /\ f \in Folders /\ at = "assign" /\ at' = "dispatch"
        /\ active'[w] = f /\ \A v \in Workers : v # w => active'[v] = active[v]
        /\ UNCHANGED <<ready, leases, waiting, pending>>
        /\ active[w] = None /\ \A v \in Workers : active[v] # f
    BY <1>0, <1>5 DEF Assigns, PlaceTypes, LeaseTypes, LedgerInv
  <2>2. \A g \in Folders : g \in Lent <=> (\E v \in Workers : active[v] = g) \/ g = f
    BY <2>1 DEF Lent
  <2> HIDE DEF w, f
  <2>3. ASSUME NEW g \in Folders
        PROVE  g \in Lent <=> \E v \in Workers : active'[v] = g
    <3>1. CASE g = f
        BY <2>1, <2>2, <3>1
    <3>2. CASE g # f
        BY <1>0, <2>1, <2>2, <3>2
    <3>3. QED
        BY <3>1, <3>2
  <2>4. Lent' = Lent
    BY <1>1, <2>1, <2>3 DEF Lent
  <2>5. \A u, v \in Workers : active'[u] = active'[v] /\ active'[u] # None => u = v
    BY <1>0, <2>1 DEF LedgerInv
  <2>6. LedgerInv'
    BY <1>0, <2>1, <2>4, <2>5 DEF LedgerInv
  <2>7. QED
    BY <1>0, <2>1, <2>4, <2>6 DEF GrantInv
<1>6. ASSUME NEW f \in Folders, Enlists(f)
      PROVE  LedgerInv' /\ GrantInv'
  <2>0. /\ at = "select" /\ at' = "top" /\ UNCHANGED <<active, leases>>
        /\ ~Overtaken /\ ready = waiting /\ leases = Lent
    BY <1>0, <1>6 DEF Enlists, GrantInv
  <2>1. CASE UNCHANGED <<ready, waiting, pending>>
    BY <1>2, <2>0, <2>1 DEF GrantInv
  <2>2. CASE f \notin all /\ ready' = ready \cup {f} /\ waiting' = waiting \cup {f}
             /\ pending' = pending + 1
    <3>1. Lent' = Lent
        BY <2>0 DEF Lent
    <3>2. waiting' \cup Lent' = all \cup {f}
        BY <2>2, <3>1
    <3>3. IsFiniteSet(waiting' \cup Lent') /\ Cardinality(waiting' \cup Lent') = pending'
        BY <1>1, <2>2, <3>2, FS_AddElement
    <3>4. waiting' \cap Lent' = {} /\ waiting' \subseteq Folders
        BY <1>0, <2>2, <3>1 DEF LedgerInv
    <3>5. LedgerInv'
        BY <1>0, <2>0, <3>3, <3>4 DEF LedgerInv
    <3>6. QED
        BY <2>0, <2>2, <3>1, <3>5 DEF GrantInv
  <2>3. QED
    BY <1>6, <2>0, <2>1, <2>2 DEF Enlists
<1>7. CASE Releases
  <2> DEFINE w == hand.w
             f == hand.folder
  <2>1. /\ w \in Workers /\ f \in Folders /\ at = "completing" /\ at' = "top"
        /\ active[w] = f /\ f \in leases
        /\ active'[w] = None /\ \A v \in Workers : v # w => active'[v] = active[v]
        /\ leases' = leases \ {f} /\ pending' = pending - 1
        /\ UNCHANGED <<ready, waiting>>
    BY <1>0, <1>7 DEF Releases, PlaceTypes, LeaseTypes
  <2> HIDE DEF w, f
  <2>2. ~Overtaken /\ ready = waiting /\ leases = Lent
    BY <1>0, <2>1 DEF GrantInv
  <2>3. \A v \in Workers : active[v] = f => v = w
    BY <1>0, <2>1 DEF LedgerInv
  <2>4. \A g \in Folders : g \in Lent <=> \E v \in Workers : active[v] = g
    BY <2>1 DEF Lent
  <2>5. \A g \in Folders : g \in Lent \ {f} <=> \E v \in Workers : active'[v] = g
    BY <1>0, <2>1, <2>3, <2>4
  <2>6. Lent' = Lent \ {f}
    BY <1>1, <2>1, <2>5 DEF Lent
  <2>7. waiting' \cup Lent' = all \ {f} /\ waiting' \cap Lent' = {}
    BY <1>0, <2>1, <2>2, <2>6 DEF LedgerInv
  <2>8. IsFiniteSet(waiting' \cup Lent') /\ Cardinality(waiting' \cup Lent') = pending'
    <3>1. f \in all
        BY <2>1, <2>2
    <3>2. IsFiniteSet(all \ {f}) /\ Cardinality(all \ {f}) = Cardinality(all) - 1
        BY <1>1, <3>1, FS_RemoveElement
    <3>3. QED
        BY <1>1, <2>1, <2>7, <3>2
  <2>9. \A u, v \in Workers : active'[u] = active'[v] /\ active'[u] # None => u = v
    BY <1>0, <2>1 DEF LedgerInv
  <2>10. LedgerInv'
    BY <1>0, <2>1, <2>7, <2>8, <2>9 DEF LedgerInv
  <2>11. QED
    BY <2>1, <2>2, <2>6, <2>10 DEF GrantInv
<1>8. QED
    BY <1>3, <1>a, <1>4, <1>5, <1>6, <1>7 DEF SoundSchedules

\* The scheduler keeps the books of every worker.
LEMMA BookSchedule ==
    ASSUME Types, RootInv, BookInv, Sound, Sound', Schedules, Types'
    PROVE  BookInv'
<1>0. /\ WorkerTypes /\ LeaseTypes /\ SentTypes /\ CommandTypes /\ PlaceTypes
      /\ FlagInv /\ EventInv /\ CommandInv /\ LedgerInv /\ GrantInv /\ \A v \in Workers : TaskInv(v)
    BY DEF Types, BookInv
<1>1. SoundSchedules /\ ~failed'
    BY SoundSchedule
<1>2. LedgerInv' /\ GrantInv'
    BY <1>1, LedgerSchedule, OvertakenKept
<1>3. worker' = worker /\ at # "gone"
    BY SchedulerFrame
<1>4. /\ \A w \in Workers : ~IsGone(w) /\ ~IsGone(w)'
      /\ \A v : (Busy(v)' <=> Busy(v)) /\ (Resting(v)' <=> Resting(v))
      /\ None \notin Folders
    BY <1>0, <1>3, Constants DEF FlagInv, IsGone, Busy, Resting
<1> DEFINE Owned == \A i \in DOMAIN commands : commands[i].w \in Workers
<1>5. Owned
  <2>1. \A i \in DOMAIN commands : commands[i] \in Commands
    BY <1>0 DEF CommandTypes
  <2>2. QED
    BY <2>1 DEF Commands
<1>6. ASSUME at' = "gone" => NoneActive /\ waiting = {} /\ UNCHANGED <<active, waiting>>,
             at' # "failing"
      PROVE  FlagInv'
    BY <1>0, <1>1, <1>3, <1>4, <1>6 DEF FlagInv, NoneActive
<1>7. ASSUME at' = "forward" => active'[hand'.w] # None /\ event'.folder = active'[hand'.w]
      PROVE  EventInv'
    BY <1>0, <1>3, <1>7 DEF EventInv
<1>8. ASSUME commands' = commands, NEW v
      PROVE  Completions(v)' = Completions(v)
    BY <1>8 DEF Completions
<1>9. ASSUME commands' = commands, active' = active,
             \A v \in Workers : Completed(v)' => Completed(v)
      PROVE  CommandInv'
  <2>1. \A i \in DOMAIN commands' : ~Completed(commands[i].w)'
    BY <1>0, <1>5, <1>9 DEF CommandInv, Completed
  <2>2. QED
    BY <1>0, <1>9, <2>1 DEF CommandInv
<1>10. CASE Waits \/ Admits
  <2>1. /\ UNCHANGED <<hand, then, active, commands, assigned, results>>
        /\ at' # "failing" /\ at' # "forward"
        /\ \A v : ~Completed(v) /\ ~Completed(v)'
    BY <1>10 DEF Waits, Admits, Completed
  <2>2. \A v \in Workers : TaskInv(v)'
    BY <1>0, <1>3, <1>8, <2>1, TaskKept
  <2>3. FlagInv'
    BY <1>6, <1>10 DEF Waits, Admits
  <2>4. QED
    BY <1>2, <1>7, <1>9, <2>1, <2>2, <2>3 DEF BookInv
<1>11. ASSUME NEW w \in Workers, NEW f \in Folders, Grants(w, f)
       PROVE  BookInv'
  <2>1. /\ UNCHANGED <<active, commands, assigned, results>>
        /\ at' = "assign" /\ \A v : ~Completed(v) /\ ~Completed(v)'
    BY <1>11 DEF Grants, Completed
  <2>2. \A v \in Workers : TaskInv(v)'
    BY <1>0, <1>3, <1>8, <2>1, TaskKept
  <2>3. QED
    BY <1>2, <1>6, <1>7, <1>9, <2>1, <2>2 DEF BookInv
<1>12. CASE Assigns
  <2>0. PICK w \in Workers, f \in Folders : w = hand.w /\ f = hand.folder
    BY <1>0, <1>12 DEF Assigns, PlaceTypes
  <2>1. /\ w \in Workers /\ f \in Folders /\ f # None /\ at' = "dispatch"
        /\ active'[w] = f /\ \A v \in Workers : v # w => active'[v] = active[v]
        /\ assigned'[w] = f /\ \A v \in Workers : v # w => assigned'[v] = assigned[v]
        /\ active[w] = None
        /\ UNCHANGED <<commands, results>>
        /\ \A v : ~Completed(v) /\ ~Completed(v)'
    BY <1>0, <1>4, <1>12, <2>0 DEF Assigns, Completed, PlaceTypes, LeaseTypes, LedgerInv
  <2>2. assigned[w] = None /\ Resting(w) /\ ~Busy(w) /\ Completions(w) = {} /\ results[w] = <<>>
    BY <1>0, <2>1 DEF TaskInv, Resting, Busy
  <2>3. TaskInv(w)'
    BY <1>0, <1>3, <1>4, <1>8, <2>1, <2>2 DEF TaskInv
  <2>4. \A v \in Workers : v # w => TaskInv(v)'
    BY <1>0, <1>3, <1>8, <2>1, TaskKept
  <2>5. CommandInv'
    <3>1. Owned
        BY <1>5
    <3>2. \A i \in DOMAIN commands' : ~Completed(commands[i].w)'
        BY <2>1
    <3>3. \A i \in DOMAIN commands' : active'[commands'[i].w] # None
        BY <1>0, <2>1, <3>1 DEF CommandInv
    <3>4. QED
        BY <1>0, <2>1, <3>2, <3>3 DEF CommandInv
  <2>6. QED
    BY <1>2, <1>6, <1>7, <2>1, <2>3, <2>4, <2>5 DEF BookInv
<1>13. ASSUME commands # <<>>, commands' = Tail(commands), UNCHANGED <<active, assigned, results>>,
              at = "select", NEW w \in Workers, Head(commands).w = w,
              \A v \in Workers : v # w => ~Completed(v)',
              Completed(w)' => /\ Head(commands).kind = "complete"
                               /\ hand'.folder = Head(commands).folder
       PROVE  (\A v \in Workers : TaskInv(v)') /\ CommandInv'
  <2>1. /\ DOMAIN commands = 1 .. Len(commands) /\ Len(commands) \in Nat \ {0}
        /\ DOMAIN commands' = 1 .. Len(commands) - 1
        /\ Head(commands) = commands[1] /\ commands[1] \in Commands
        /\ \A i \in DOMAIN commands' :
             i + 1 \in DOMAIN commands /\ commands'[i] = commands[i + 1]
    BY <1>13, CommandTaken
  <2>2. /\ \A v : \A i \in Completions(v)' :
                i + 1 \in Completions(v) /\ commands'[i] = commands[i + 1]
        /\ \A v : Completions(v) = {} => Completions(v)' = {}
    BY <1>13, CommandTaken
  <2>3. \A v : ~Completed(v)
    BY <1>13 DEF Completed
  <2>4. \A v : \A i \in Completions(v)' : i \in Nat
    BY <2>1 DEF Completions
  <2>5. 1 \in DOMAIN commands
    BY <2>1
  <2>6. ASSUME NEW v \in Workers, v # w
        PROVE  TaskInv(v)'
    <3>1. \A i, j \in Completions(v)' :
            i = j /\ commands'[i].folder = active[v] /\ ~Completed(v)'
      <4> SUFFICES ASSUME NEW i \in Completions(v)', NEW j \in Completions(v)'
                   PROVE  i = j /\ commands'[i].folder = active[v]
        BY <1>13, <2>6
      <4>1. i + 1 = j + 1 /\ commands[i + 1].folder = active[v]
        BY <1>0, <2>2 DEF TaskInv
      <4>2. QED
        BY <2>2, <2>4, <4>1
    <3>2. QED
        BY <1>0, <1>3, <1>4, <1>13, <2>2, <2>3, <2>6, <3>1 DEF TaskInv
  <2>7. CASE Head(commands).kind = "complete"
    <3>1. 1 \in Completions(w) /\ commands[1].folder = active[w]
        BY <1>0, <1>13, <2>1, <2>5, <2>7 DEF Completions, TaskInv
    <3>2. \A i \in DOMAIN commands' : commands'[i].w # w
        BY <1>0, <1>13, <2>1, <2>5, <2>7 DEF CommandInv
    <3>3. Completions(w)' = {}
        BY <3>2 DEF Completions
    <3>4. active[w] # None /\ assigned[w] = None /\ ~Busy(w) /\ Resting(w)
        BY <1>0, <1>13, <2>1, <2>5, <3>1 DEF CommandInv, TaskInv
    <3>5. TaskInv(w)'
        BY <1>0, <1>3, <1>4, <1>13, <2>1, <3>1, <3>3, <3>4 DEF TaskInv
    <3>6. Owned
        BY <1>5
    <3>7. \A i \in DOMAIN commands' : active'[commands'[i].w] # None /\ ~Completed(commands[i].w)'
        BY <1>0, <1>13, <2>1, <3>2, <3>6 DEF CommandInv, Completed
    <3>8. \A i, j \in DOMAIN commands' :
            commands'[j].kind = "complete" /\ commands'[i].w = commands'[j].w => i =< j
        BY <1>0, <2>1 DEF CommandInv
    <3>9. QED
        BY <2>6, <3>5, <3>7, <3>8 DEF CommandInv
  <2>8. CASE Head(commands).kind # "complete"
    <3>1. \A v \in Workers : ~Completed(v)'
        BY <1>13, <2>8
    <3>2. \A i, j \in Completions(w)' :
            i = j /\ commands'[i].folder = active[w] /\ ~Completed(w)'
      <4> SUFFICES ASSUME NEW i \in Completions(w)', NEW j \in Completions(w)'
                   PROVE  i = j /\ commands'[i].folder = active[w]
        BY <3>1
      <4>1. i + 1 = j + 1 /\ commands[i + 1].folder = active[w]
        BY <1>0, <1>13, <2>2 DEF TaskInv
      <4>2. QED
        BY <2>2, <2>4, <4>1
    <3>3. TaskInv(w)'
        BY <1>0, <1>3, <1>4, <1>13, <2>2, <2>3, <3>1, <3>2 DEF TaskInv
    <3>4. Owned
        BY <1>5
    <3>5. \A i \in DOMAIN commands' : active'[commands'[i].w] # None /\ ~Completed(commands[i].w)'
        BY <1>0, <1>13, <2>1, <3>1, <3>4 DEF CommandInv, Completed
    <3>6. \A i, j \in DOMAIN commands' :
            commands'[j].kind = "complete" /\ commands'[i].w = commands'[j].w => i =< j
        BY <1>0, <2>1 DEF CommandInv
    <3>7. QED
        BY <2>6, <3>3, <3>5, <3>6 DEF CommandInv
  <2>9. QED
    BY <2>7, <2>8
<1>14. ASSUME NEW f \in Folders, Enlists(f)
       PROVE  BookInv'
  <2>1. Head(commands).w \in Workers
    BY <1>14, CommandTaken DEF Enlists, Commands
  <2>2. \A v : ~Completed(v)'
    BY <1>14 DEF Enlists, Completed
  <2>3. (\A v \in Workers : TaskInv(v)') /\ CommandInv'
    BY <1>13, <1>14, <2>1, <2>2 DEF Enlists
  <2>4. at' = "top"
    BY <1>14 DEF Enlists
  <2>5. QED
    BY <1>2, <1>6, <1>7, <2>3, <2>4 DEF BookInv
<1>15. CASE Handles
  <2>1. Head(commands).w \in Workers
    BY <1>15, CommandTaken DEF Handles, Commands
  <2>2. /\ at' = "completing" /\ hand'.w = Head(commands).w
        /\ hand'.folder = Head(commands).folder /\ Head(commands).kind = "complete"
    BY <1>15 DEF Handles
  <2>3. \A v \in Workers : v # Head(commands).w => ~Completed(v)'
    BY <2>2 DEF Completed
  <2>4. (\A v \in Workers : TaskInv(v)') /\ CommandInv'
    BY <1>13, <1>15, <2>1, <2>2, <2>3 DEF Handles
  <2>5. QED
    BY <1>2, <1>6, <1>7, <2>2, <2>4 DEF BookInv
<1>16. ASSUME NEW w \in Workers, Collects(w)
       PROVE  BookInv'
  <2>1. /\ UNCHANGED <<active, commands, assigned>>
        /\ results'[w] = <<>> /\ \A v \in Workers : v # w => results'[v] = results[v]
        /\ results[w] # <<>> /\ at' = "forward" /\ event' = Head(results[w]) /\ hand'.w = w
    BY <1>0, <1>16 DEF Collects, SentTypes
  <2>2. \A v : Completed(v)' <=> Completed(v)
    BY <1>16 DEF Collects, Completed
  <2>3. \A v : Completed(v) => hand'.folder = hand.folder
    BY <1>16 DEF Collects, Completed
  <2>4. active[w] # None /\ event'.folder = active[w]
    <3>1. results[w] \in Seq(Reportable) /\ Head(results[w]) = results[w][1]
          /\ 1 \in DOMAIN results[w]
        BY <1>0, <2>1 DEF SentTypes
    <3>2. QED
        BY <1>0, <2>1, <3>1 DEF TaskInv
  <2>5. TaskInv(w)'
    BY <1>0, <1>3, <1>4, <1>8, <2>1, <2>2, <2>3, <2>4 DEF TaskInv
  <2>6. \A v \in Workers : v # w => TaskInv(v)'
    BY <1>0, <1>3, <1>8, <2>1, <2>2, <2>3, TaskKept
  <2>7. QED
    BY <1>2, <1>6, <1>7, <1>9, <2>1, <2>2, <2>4, <2>5, <2>6 DEF BookInv
<1>17. CASE Releases
  <2>0. PICK w \in Workers : w = hand.w
    BY <1>0, <1>17 DEF Releases, PlaceTypes
  <2>1. /\ w \in Workers /\ Completed(w) /\ at' = "top" /\ results[w] = <<>>
        /\ active'[w] = None /\ \A v \in Workers : v # w => active'[v] = active[v]
        /\ UNCHANGED <<commands, assigned, results>>
        /\ \A v : ~Completed(v)' /\ (v # w => ~Completed(v))
    BY <1>0, <1>17, <2>0 DEF Releases, Completed, PlaceTypes, LeaseTypes
  <2>2. assigned[w] = None /\ Resting(w) /\ ~Busy(w) /\ Completions(w) = {}
    BY <1>0, <2>1 DEF TaskInv
  <2>3. TaskInv(w)'
    BY <1>0, <1>3, <1>4, <1>8, <2>1, <2>2 DEF TaskInv
  <2>4. \A v \in Workers : v # w => TaskInv(v)'
    BY <1>0, <1>3, <1>8, <2>1, TaskKept
  <2>5. CommandInv'
    <3>1. \A i \in DOMAIN commands : commands[i].w \in Workers /\ commands[i].w # w
        BY <1>0, <1>5, <2>1 DEF CommandInv
    <3>2. \A i \in DOMAIN commands' : ~Completed(commands[i].w)'
        BY <2>1
    <3>3. \A i \in DOMAIN commands' : active'[commands'[i].w] # None
        BY <1>0, <2>1, <3>1 DEF CommandInv
    <3>4. QED
        BY <1>0, <2>1, <3>2, <3>3 DEF CommandInv
  <2>6. QED
    BY <1>2, <1>6, <1>7, <2>1, <2>3, <2>4, <2>5 DEF BookInv
<1>18. CASE PassesOn
  <2>1. /\ UNCHANGED <<active, commands, assigned, results>> /\ at' \in {"top", "completing"}
        /\ then \in {"top", "completing"}
    BY <1>0, <1>18 DEF PassesOn, PlaceTypes
  <2>2. \A v : Completed(v)' <=> Completed(v)
    BY <1>18, <2>1 DEF PassesOn, Completed
  <2>3. \A v : Completed(v) => hand'.folder = hand.folder
    BY <1>18 DEF PassesOn, Completed
  <2>4. \A v \in Workers : TaskInv(v)'
    BY <1>0, <1>3, <1>8, <2>1, <2>2, <2>3, TaskKept
  <2>5. QED
    BY <1>2, <1>6, <1>7, <1>9, <2>1, <2>2, <2>4 DEF BookInv
<1>19. QED
    BY <1>1, <1>10, <1>11, <1>12, <1>14, <1>15, <1>16, <1>17, <1>18 DEF SoundSchedules

(***************************************************************************)
(* The books, all steps.                                                   *)
(***************************************************************************)
\* The books are right when the scan starts.
LEMMA InitBook == Init => RootInv /\ BookInv /\ EndInv
<1> SUFFICES ASSUME Init PROVE RootInv /\ BookInv /\ EndInv
    OBVIOUS
<1>1. RootInv /\ EndInv
    BY DEF Init, RootInv, EndInv
<1>2. \A w \in Workers : worker[w].at = "idle" /\ worker[w].continue = TRUE
    BY DEF Init, IdleWorker
<1>3. FlagInv /\ EventInv /\ CommandInv
    BY <1>2 DEF Init, FlagInv, EventInv, CommandInv, IsGone
<1>4. ASSUME NEW w \in Workers
      PROVE  TaskInv(w)
  <2>1. Resting(w) /\ ~Busy(w) /\ Completions(w) = {} /\ ~Completed(w)
    BY <1>2 DEF Resting, Busy, Completions, Completed, Init
  <2>2. active[w] = None /\ assigned[w] = None /\ results[w] = <<>>
    BY DEF Init
  <2>3. QED
    BY <2>1, <2>2 DEF TaskInv
<1>5. LedgerInv /\ GrantInv
  <2>0. Lent = {}
    BY Constants DEF Init, Lent
  <2>1. waiting \cup Lent = {Root} /\ pending = 1
    BY <2>0 DEF Init
  <2>2. IsFiniteSet(waiting \cup Lent) /\ pending = Cardinality(waiting \cup Lent)
    BY <2>1, FS_Singleton
  <2>3. QED
    BY <2>0, <2>2, Constants DEF Init, LedgerInv, GrantInv, NoneActive
<1>6. QED
    BY <1>1, <1>3, <1>4, <1>5 DEF BookInv

\* Nobody's books are touched by the owner, a cancellation or the world, and an
\* advance takes from the coordinator alone.
LEMMA BookKept ==
    ASSUME BookInv, UNCHANGED <<failed, at, hand, event, then, active, waiting,
                                pending, commands, assigned, results, worker>>,
           \/ (Overtaken' <=> Overtaken) /\ UNCHANGED <<ready, leases>>
           \/ Overtaken' /\ ready' = {} /\ leases' = {}
    PROVE  BookInv'
<1>1. \A w : /\ Busy(w)' = Busy(w) /\ Resting(w)' = Resting(w)
             /\ Completions(w)' = Completions(w) /\ Completed(w)' = Completed(w)
    BY DEF Busy, Resting, Completions, Completed
<1>2. FlagInv' /\ EventInv'
    BY DEF BookInv, FlagInv, EventInv, NoneActive, IsGone
<1>a. Lent' = Lent /\ NoneActive' = NoneActive
    BY DEF Lent, NoneActive
<1>b. LedgerInv' /\ GrantInv'
    BY <1>a DEF BookInv, LedgerInv, GrantInv
<1>3. CommandInv'
    BY DEF BookInv, CommandInv, Completed
<1>4. \A w \in Workers : TaskInv(w)'
    BY <1>1 DEF BookInv, TaskInv
<1>5. QED
    BY <1>2, <1>b, <1>3, <1>4 DEF BookInv

\* Every step of a scan nothing has stopped keeps the books.
LEMMA BookStep ==
    ASSUME Types, RootInv, Sound => BookInv, [Next]_vars
    PROVE  Sound' => BookInv'
<1> SUFFICES ASSUME Sound' PROVE BookInv'
    OBVIOUS
<1>1. Sound /\ BookInv /\ Types'
    BY SoundGrows, TypeStep
<1>2. CASE Schedules
    BY <1>1, <1>2, BookSchedule
<1>3. CASE \E w \in Workers : Works(w)
    BY <1>1, <1>3, BookWork
<1>4. CASE FinishScan \/ OwnerReceives \/ Cancel \/ RootChanges \/ OwnerAdvances \/ UNCHANGED vars
  <2>1. UNCHANGED <<failed, at, hand, event, then, active, waiting,
                    pending, commands, assigned, results, worker>>
    BY <1>4 DEF FinishScan, OwnerReceives, Cancel, RootChanges, OwnerAdvances, vars
  <2>2. \/ (Overtaken' <=> Overtaken) /\ UNCHANGED <<ready, leases>>
        \/ Overtaken' /\ ready' = {} /\ leases' = {}
    BY <1>4 DEF FinishScan, OwnerReceives, Cancel, RootChanges, OwnerAdvances, vars, Fault,
        Overtaken
  <2>3. QED
    BY <1>1, <2>1, <2>2, BookKept
<1>5. QED
    BY <1>2, <1>3, <1>4 DEF Next

(***************************************************************************)
(* Failures that must be told.                                             *)
(***************************************************************************)
\* A refused enqueue, or a failure nothing but the advance of the generation can
\* have caused.
MustTell ==
    /\ ~cancelled
    /\ \/ "queue" \in causes
       \/ Overtaken /\ failed /\ causes \cap {"seal", "root"} = {}

\* Such a failure is told, unless the scan is cancelled.
FailureTold ==
    MustTell =>
        \/ at = "failing"
        \/ at = "gone" /\ (failureHeard \/ \E i \in DOMAIN inbox : inbox[i] = ScanFailure)

\* It comes about in the scheduler, which then goes on to tell it.
LEMMA MustTellStarts ==
    ASSUME Types, RootInv, Sound => BookInv, [Next]_vars, MustTell', ~MustTell
    PROVE  at' = "failing"
<1>1. ~cancelled /\ "queue" \notin causes
    BY CausesGrow DEF MustTell
<1>2. CASE "queue" \in causes'
    BY <1>1, <1>2, CausesGrow
<1>3. CASE "queue" \notin causes'
  <2>1. Overtaken' /\ failed' /\ causes' \cap {"seal", "root", "queue"} = {}
    BY <1>3 DEF MustTell
  <2>2. causes \cap {"seal", "root", "queue"} = {}
    BY <2>1, CausesGrow
  <2>3. ~failed
    BY <1>1, <2>2 DEF Sound, BookInv, FlagInv, MustTell
  <2>4. BookInv
    BY <1>1, <2>2, <2>3 DEF Sound
  <2>5. CASE Schedules
    BY <2>1, <2>3, <2>5 DEF Schedules, AdmitRoot, Top, Lease, Assign, DispatchEnds, TakeEnqueue,
        TakeComplete, CompleteLease, TakeResult, NoticeClosed, NoticeCommandsClosed,
        SelectTimesOut, Forward, ReportFailure, Fail, Goes, TakesResult
  <2>6. ASSUME NEW w \in Workers, Works(w) PROVE FALSE
    <3>1. "seal" \notin causes' /\ failed' /\ ~failed
        BY <2>1, <2>3
    <3>2. CASE Enqueues(w) \/ Finishes(w)
      <4>1. SchedulerIsGone
        BY <1>1, <3>1, <3>2 DEF Enqueues, Finishes, CommandIsLost
      <4>2. active[w] = None
        BY <2>4, <4>1 DEF BookInv, FlagInv, SchedulerIsGone, NoneActive
      <4>3. Resting(w)
        BY <2>4, <4>2 DEF BookInv, TaskInv
      <4>4. QED
        BY <3>2, <4>3 DEF Enqueues, Finishes, Resting
    <3>3. CASE ReportsEntry(w) \/ Seals(w)
        BY <3>1, <3>3 DEF ReportsEntry, Seals, Fault
    <3>4. CASE Looks(w) \/ Receives(w) \/ Reported(w) \/ LeavesScan(w)
        BY <3>1, <3>4 DEF Looks, Receives, Reported, LeavesScan
    <3>5. CASE Starts(w) \/ Reads(w) \/ Checks(w)
        BY <3>1, <3>5 DEF Starts, Reads, Checks, LeavesRoot
    <3>6. QED
        BY <2>6, <3>2, <3>3, <3>4, <3>5 DEF Works
  <2>7. CASE FinishScan \/ OwnerReceives \/ Cancel \/ RootChanges \/ OwnerAdvances \/ UNCHANGED vars
    BY <2>1, <2>3, <2>7 DEF FinishScan, OwnerReceives, Cancel, RootChanges, OwnerAdvances, vars
  <2>8. QED
    BY <2>5, <2>6, <2>7 DEF Next
<1>4. QED
    BY <1>2, <1>3

\* No step loses its report.
LEMMA ToldStep ==
    ASSUME Types, RootInv, Sound => BookInv, FailureTold, [Next]_vars
    PROVE  FailureTold'
<1> SUFFICES ASSUME MustTell', at' # "failing"
             PROVE  /\ at' = "gone"
                    /\ failureHeard' \/ \E i \in DOMAIN inbox' : inbox'[i] = ScanFailure
    BY DEF FailureTold
<1>1. MustTell /\ ~cancelled
    BY MustTellStarts DEF MustTell
<1>2. CASE at = "failing"
  <2>1. CASE Schedules
    <3>1. ReportFailure
        BY <1>2, <2>1 DEF Schedules, AdmitRoot, Top, Lease, Assign, DispatchEnds, TakeEnqueue, TakeComplete,
            CompleteLease, TakeResult, NoticeClosed, NoticeCommandsClosed, SelectTimesOut,
            Forward
    <3>2. at' = "gone" /\ inbox' = Append(inbox, ScanFailure)
        BY <1>1, <3>1 DEF ReportFailure, Goes, SendsToOwner
    <3>3. QED
        BY <3>2, InboxGrows
  <2>2. CASE ~Schedules
    <3>1. at' = at
        BY <2>2, WorkerFrame DEF Next, FinishScan, OwnerReceives, Cancel, RootChanges, OwnerAdvances, vars
    <3>2. QED
        BY <1>2, <3>1
  <2>3. QED
    BY <2>1, <2>2
<1>3. CASE at = "gone" /\ (failureHeard \/ \E i \in DOMAIN inbox : inbox[i] = ScanFailure)
  <2>1. ~Schedules /\ at' = "gone"
    BY <1>3, SchedulerFrame, GoneStays
  <2>2. CASE UNCHANGED <<failureHeard, inbox>>
    BY <1>3, <2>1, <2>2
  <2>3. CASE FinishScan
    BY <1>3, <2>1, <2>3, InboxGrows DEF FinishScan
  <2>4. CASE OwnerReceives
    <3>1. failureHeard' = (failureHeard \/ Head(inbox) = ScanFailure)
        BY <2>4 DEF OwnerReceives
    <3>2. QED
        BY <1>3, <2>1, <2>4, <3>1, InboxShrinks
  <2>5. QED
    BY <2>1, <2>2, <2>3, <2>4, WorkerFrame DEF Next, Cancel, RootChanges, OwnerAdvances, vars
<1>4. QED
    BY <1>1, <1>2, <1>3 DEF FailureTold

(***************************************************************************)
(* What the owner has heard, or is about to hear.                          *)
(***************************************************************************)
\* An event on its way from a worker to the owner.
InFlight(e) ==
    \/ \E i \in DOMAIN inbox : inbox[i] = e
    \/ at = "forward" /\ event = e
    \/ \E w \in Workers : \E i \in DOMAIN results[w] : results[w][i] = e

Heard(f, i) == <<f, i>> \in delivered \/ InFlight(Event("part", f, i))
ToldOf(f) == f \in told \/ \E kind \in Losses : InFlight(Event(kind, f, 0))

\* An event is its three fields.
LEMMA EventFields ==
    /\ \A k, f, i : Event(k, f, i).kind = k /\ Event(k, f, i).folder = f /\ Event(k, f, i).part = i
    /\ \A e \in Reportable : e = Event(e.kind, e.folder, e.part)
    BY DEF Event, Reportable

\* A worker's result channel holds one event at most.
LEMMA ResultIsOne ==
    ASSUME Types, NEW w \in Workers
    PROVE  /\ results[w] = <<>> => DOMAIN results[w] = {}
           /\ results[w] # <<>> =>
                DOMAIN results[w] = {1} /\ results[w][1] = Head(results[w])
<1>1. results[w] \in Seq(Reportable) /\ Len(results[w]) =< 1
    BY DEF Types, SentTypes
<1>2. ASSUME NEW s \in Seq(Reportable), s # <<>>, Len(s) =< 1
      PROVE  DOMAIN s = {1} /\ s[1] = Head(s)
  <2>1. Len(s) = 1 /\ DOMAIN s = 1 .. Len(s) /\ s[1] = Head(s)
    BY <1>2
  <2>2. QED
    BY <2>1
<1>3. QED
    BY <1>1, <1>2

\* The scheduler carries events on, and loses none.
LEMMA FlightSchedules ==
    ASSUME Types, SoundSchedules, NEW e
    PROVE  InFlight(e)' <=> InFlight(e)
<1>0. SentTypes /\ PlaceTypes
    BY DEF Types
<1>1. CASE at # "forward" /\ at' # "forward" /\ UNCHANGED <<inbox, results>>
    BY <1>1 DEF InFlight
<1>2. CASE Waits \/ Admits \/ Assigns \/ Handles \/ Releases
    BY <1>1, <1>2 DEF Waits, Admits, Assigns, Handles, Releases
<1>3. CASE \/ \E w \in Workers, f \in Folders : Grants(w, f)
           \/ \E f \in Folders : Enlists(f)
    BY <1>1, <1>3 DEF Grants, Enlists
<1>4. ASSUME NEW w \in Workers, Collects(w)
      PROVE  InFlight(e)' <=> InFlight(e)
  <2>1. /\ results'[w] = <<>> /\ \A v \in Workers : v # w => results'[v] = results[v]
        /\ results[w] # <<>> /\ at' = "forward" /\ at # "forward"
        /\ event' = Head(results[w]) /\ inbox' = inbox
    BY <1>0, <1>4 DEF Collects, SentTypes
  <2>2. DOMAIN results'[w] = {} /\ DOMAIN results[w] = {1} /\ results[w][1] = event'
    BY <2>1, ResultIsOne
  <2>3. QED
    BY <2>1, <2>2 DEF InFlight
<1>5. CASE PassesOn
  <2>1. /\ at = "forward" /\ at' # "forward" /\ inbox' = Append(inbox, event)
        /\ results' = results
    BY <1>0, <1>5 DEF PassesOn, PlaceTypes
  <2>2. /\ DOMAIN inbox' = 1 .. Len(inbox) + 1 /\ DOMAIN inbox = 1 .. Len(inbox)
        /\ Len(inbox) \in Nat
        /\ \A i \in DOMAIN inbox : inbox'[i] = inbox[i]
        /\ inbox'[Len(inbox) + 1] = event
    BY <2>1, InboxGrows
  <2>3. (\E i \in DOMAIN inbox' : inbox'[i] = e) <=> (\E i \in DOMAIN inbox : inbox[i] = e) \/ event = e
    BY <2>2
  <2>4. QED
    BY <2>1, <2>3 DEF InFlight
<1>6. QED
    BY <1>2, <1>3, <1>4, <1>5 DEF SoundSchedules

\* Only a worker sends a new event.
LEMMA FlightWorks ==
    ASSUME Types, NEW w \in Workers, Works(w), SoundWorks(w), NEW e
    PROVE  IF Says(w) THEN InFlight(e)' <=> InFlight(e) \/ e = worker[w].event
                      ELSE InFlight(e)' <=> InFlight(e)
<1>1. UNCHANGED <<inbox, at, event>>
    BY WorkerFrame
<1>2. CASE UNCHANGED results
  <2>1. ~Says(w)
    <3>1. SUFFICES ASSUME Says(w) PROVE FALSE
        OBVIOUS
    <3>2. results'[w] = <<worker[w].event>> /\ results[w] = <<>>
        BY <3>1 DEF Says, Types, SentTypes
    <3>3. Len(results'[w]) = 1 /\ Len(results[w]) = 0
        BY <3>2
    <3>4. QED
        BY <1>2, <3>3
  <2>2. QED
    BY <1>1, <1>2, <2>1 DEF InFlight
<1>3. CASE Says(w)
  <2>1. /\ results'[w] = <<worker[w].event>> /\ results[w] = <<>>
        /\ \A v \in Workers : v # w => results'[v] = results[v]
    BY <1>3 DEF Says, Types, SentTypes
  <2>2. DOMAIN results'[w] = {1} /\ results'[w][1] = worker[w].event /\ DOMAIN results[w] = {}
    BY <2>1
  <2>3. (\E v \in Workers : \E i \in DOMAIN results'[v] : results'[v][i] = e)
         <=> (\E v \in Workers : \E i \in DOMAIN results[v] : results[v][i] = e)
             \/ e = worker[w].event
    BY <2>1, <2>2
  <2>4. QED
    BY <1>1, <1>3, <2>3 DEF InFlight
<1>4. QED
    BY <1>2, <1>3 DEF SoundWorks, Rests, Accepts, Thinks, Completes, Names

\* The owner takes one event, and the end of the scan adds nothing but itself.
LEMMA FlightOwner ==
    ASSUME Types, NEW e
    PROVE  /\ OwnerReceives => /\ InFlight(e) => InFlight(e)' \/ e = Head(inbox)
                               /\ InFlight(e)' \/ e = Head(inbox) => InFlight(e)
           /\ FinishScan => /\ InFlight(e) => InFlight(e)'
                            /\ InFlight(e)' => InFlight(e) \/ IsEnd(e)
<1>1. ASSUME OwnerReceives
      PROVE  /\ InFlight(e) => InFlight(e)' \/ e = Head(inbox)
             /\ InFlight(e)' \/ e = Head(inbox) => InFlight(e)
  <2>1. UNCHANGED <<at, event, results>>
    BY <1>1 DEF OwnerReceives
  <2>2. (\E i \in DOMAIN inbox' : inbox'[i] = e) \/ e = Head(inbox)
         <=> \E i \in DOMAIN inbox : inbox[i] = e
    <3>1. /\ DOMAIN inbox = 1 .. Len(inbox) /\ Len(inbox) \in Nat /\ Len(inbox) > 0
          /\ Head(inbox) = inbox[1]
          /\ \A i \in DOMAIN inbox' : i + 1 \in DOMAIN inbox /\ inbox'[i] = inbox[i + 1]
          /\ \A i \in DOMAIN inbox : i # 1 => i - 1 \in DOMAIN inbox' /\ inbox'[i - 1] = inbox[i]
        BY <1>1, InboxShrinks
    <3>2. 1 \in DOMAIN inbox
        BY <3>1
    <3>3. QED
        BY <3>1, <3>2
  <2>3. QED
    BY <2>1, <2>2 DEF InFlight
<1>2. ASSUME FinishScan
      PROVE  /\ InFlight(e) => InFlight(e)'
             /\ InFlight(e)' => InFlight(e) \/ IsEnd(e)
  <2>1. UNCHANGED <<at, event, results>>
    BY <1>2 DEF FinishScan
  <2>2. PICK kind \in {"done", "cancelled"} : inbox' = Append(inbox, Event(kind, None, 0))
    BY <1>2 DEF FinishScan
  <2>3. IsEnd(Event(kind, None, 0))
    BY DEF IsEnd, Event
  <2>4. /\ (\E i \in DOMAIN inbox : inbox[i] = e) => \E i \in DOMAIN inbox' : inbox'[i] = e
        /\ (\E i \in DOMAIN inbox' : inbox'[i] = e) =>
             (\E i \in DOMAIN inbox : inbox[i] = e) \/ IsEnd(e)
    BY <2>2, <2>3, InboxGrows
  <2>5. QED
    BY <2>1, <2>4 DEF InFlight
<1>3. QED
    BY <1>1, <1>2

\* What the owner has heard of stays so, and news comes from a worker's report.
LEMMA HearingGrows ==
    ASSUME Types, RootInv, BookInv, Sound, Sound', [Next]_vars
    PROVE  /\ \A f, i : Heard(f, i) => Heard(f, i)'
           /\ \A f \in Folders : ToldOf(f) => ToldOf(f)'
           /\ \A f, i : Heard(f, i)' =>
                \/ Heard(f, i)
                \/ \E w \in Workers : Works(w) /\ Says(w) /\ worker[w].event = Event("part", f, i)
<1> DEFINE Goal == /\ \A f, i : Heard(f, i) => Heard(f, i)'
                   /\ \A f \in Folders : ToldOf(f) => ToldOf(f)'
                   /\ \A f, i : Heard(f, i)' =>
                        \/ Heard(f, i)
                        \/ \E w \in Workers :
                              Works(w) /\ Says(w) /\ worker[w].event = Event("part", f, i)
<1>1. ASSUME UNCHANGED <<delivered, told>>, \A e : InFlight(e)' <=> InFlight(e)
      PROVE  Goal
    BY <1>1 DEF Heard, ToldOf, Event
<1>2. CASE Schedules
  <2>1. SoundSchedules
    BY <1>2, SoundSchedule
  <2>2. \A e : InFlight(e)' <=> InFlight(e)
    BY <2>1, FlightSchedules
  <2>3. UNCHANGED <<delivered, told>>
    BY <1>2, SchedulerFrame
  <2>4. QED
    BY <1>1, <2>2, <2>3
<1>3. ASSUME NEW w \in Workers, Works(w) PROVE Goal
  <2>1. SoundWorks(w) /\ UNCHANGED <<delivered, told>>
    BY <1>3, SoundWork, WorkerFrame
  <2>2. CASE Says(w)
    <3>1. \A e : InFlight(e)' <=> InFlight(e) \/ e = worker[w].event
        BY <1>3, <2>1, <2>2, FlightWorks
    <3>2. QED
        BY <1>3, <2>1, <2>2, <3>1 DEF Heard, ToldOf, Event
  <2>3. CASE ~Says(w)
    <3>1. \A e : InFlight(e)' <=> InFlight(e)
        BY <1>3, <2>1, <2>3, FlightWorks
    <3>2. QED
        BY <1>1, <2>1, <3>1
  <2>4. QED
    BY <2>2, <2>3
<1>4. CASE FinishScan
  <2>1. UNCHANGED <<delivered, told>>
    BY <1>4 DEF FinishScan
  <2>2. \A f, i : ~IsEnd(Event("part", f, i))
    BY EventFields DEF IsEnd
  <2>3. \A e : InFlight(e) => InFlight(e)'
    BY <1>4, FlightOwner
  <2>4. \A f, i : InFlight(Event("part", f, i))' => InFlight(Event("part", f, i))
    <3>1. ASSUME NEW f, NEW i, NEW e, e = Event("part", f, i), InFlight(e)'
          PROVE  InFlight(e)
        BY <1>4, <2>2, <3>1, FlightOwner
    <3>2. QED
        BY <3>1 DEF Event
  <2>5. QED
    BY <2>1, <2>3, <2>4 DEF Heard, ToldOf, Event
<1>5. CASE OwnerReceives
  <2> DEFINE h == Head(inbox)
  <2>1. /\ h.kind = "part" => delivered' = delivered \cup {<<h.folder, h.part>>}
        /\ h.kind # "part" => delivered' = delivered
        /\ h.kind \in Losses /\ h.part = 0 => told' = told \cup ({h.folder} \ {None})
        /\ ~(h.kind \in Losses /\ h.part = 0) => told' = told
    BY <1>5 DEF OwnerReceives, Losses
  <2>2. h.kind = "part" => h = Event("part", h.folder, h.part)
    <3>1. h \in Reportable \cup Endings
        BY <1>5, InboxShrinks
    <3>2. \A e \in Endings : e.kind # "part"
        BY DEF Endings
    <3>3. QED
        BY <3>1, <3>2, EventFields
  <2>3. PICK head : head = h
    OBVIOUS
  <2>4. \A e : InFlight(e) => InFlight(e)' \/ e = head
    BY <1>5, <2>3, FlightOwner
  <2>5. \A e : InFlight(e)' \/ e = head => InFlight(e)
    BY <1>5, <2>3, FlightOwner
  <2> HIDE DEF h
  <2>6. ASSUME NEW f, NEW i, Heard(f, i) PROVE Heard(f, i)'
    <3>1. CASE Event("part", f, i) = head
      <4>1. head.kind = "part" /\ head.folder = f /\ head.part = i
        BY <3>1, EventFields
      <4>2. <<f, i>> \in delivered'
        BY <2>1, <2>3, <4>1
      <4>3. QED
        BY <4>2 DEF Heard
    <3>2. CASE Event("part", f, i) # head
        BY <2>1, <2>4, <2>6, <3>2 DEF Heard, Event
    <3>3. QED
        BY <3>1, <3>2
  <2>7. ASSUME NEW f, NEW i, Heard(f, i)' PROVE Heard(f, i)
    <3>1. InFlight(Event("part", f, i))' => InFlight(Event("part", f, i))
        BY <2>5 DEF Event
    <3>2. CASE <<f, i>> \in delivered' /\ <<f, i>> \notin delivered
      <4>1. head = Event("part", f, i)
        BY <2>1, <2>2, <2>3, <3>2
      <4>2. QED
        BY <2>5, <4>1 DEF Heard
    <3>3. QED
        BY <2>7, <3>1, <3>2 DEF Heard
  <2>8. ASSUME NEW f \in Folders, ToldOf(f) PROVE ToldOf(f)'
    <3>1. told \subseteq told'
        BY <2>1
    <3>2. ASSUME NEW kind \in Losses, InFlight(Event(kind, f, 0)) PROVE ToldOf(f)'
      <4>1. CASE Event(kind, f, 0) = head
        <5>1. head.kind = kind /\ head.folder = f /\ head.part = 0 /\ f # None
            BY <4>1, EventFields, Constants
        <5>2. f \in told'
            BY <2>1, <2>3, <5>1
        <5>3. QED
            BY <5>2 DEF ToldOf
      <4>2. CASE Event(kind, f, 0) # head
        <5>1. InFlight(Event(kind, f, 0))'
            BY <2>4, <3>2, <4>2 DEF Event
        <5>2. QED
            BY <3>2, <5>1 DEF ToldOf
      <4>3. QED
        BY <4>1, <4>2
    <3>3. QED
        BY <2>8, <3>1, <3>2 DEF ToldOf
  <2>9. QED
    BY <2>6, <2>7, <2>8
<1>6. CASE Cancel \/ RootChanges \/ OwnerAdvances \/ UNCHANGED vars
  <2>1. UNCHANGED <<delivered, told, inbox, at, event, results>>
    BY <1>6 DEF Cancel, RootChanges, OwnerAdvances, vars
  <2>2. \A e : InFlight(e)' <=> InFlight(e)
    BY <2>1 DEF InFlight
  <2>3. QED
    BY <1>1, <2>1, <2>2
<1>7. QED
    BY <1>2, <1>3, <1>4, <1>5, <1>6 DEF Next

(***************************************************************************)
(* How far a folder has got.                                               *)
(***************************************************************************)
\* A folder all of whose parts, or whose loss, the owner has heard of.
HeardTo(f, n) == \A i \in 1 .. Len(Parts(f)) : i =< n => Heard(f, i)
Done(f) == ToldOf(f) \/ \A i \in 1 .. Len(Parts(f)) : Heard(f, i)

\* A worker has told of every part before the one it is at, and leaves a folder
\* only when it is done.
ProgressInv(w) ==
    LET r == worker[w]
        f == r.folder
    IN /\ r.at \in {"start", "read", "seal"} => HeardTo(f, r.part - 1)
       /\ r.at \in {"enqueue", "check"} => HeardTo(f, r.part)
       /\ r.at = "finish" => Done(f)
       /\ r.at = "report" =>
            \/ /\ r.then = "enqueue" /\ r.part \in 1 .. Len(Parts(f)) /\ HeardTo(f, r.part - 1)
               /\ r.event = Event("part", f, r.part) /\ r.dirs = Parts(f)[r.part]
            \/ r.then = "read" /\ HeardTo(f, r.part - 1) /\ r.event.kind # "part"
            \/ r.then = "finish" /\ \E kind \in Losses : r.event = Event(kind, f, 0)

\* A completion is sent, and taken, for a folder that is done.
DoneInv ==
    /\ \A i \in DOMAIN commands :
         commands[i].kind = "complete" => Done(commands[i].folder)
    /\ \A w \in Workers : Completed(w) => Done(hand.folder)

\* The owner hears of parts there are.
PartInv ==
    /\ delivered \subseteq Folders \X Nat
    /\ \A f, i : Heard(f, i) => f \in Folders /\ i \in 1 .. Len(Parts(f))

\* A folder that is done stays so, and so does what was heard of one that is not.
LEMMA DoneGrows ==
    ASSUME Types, RootInv, BookInv, Sound, Sound', [Next]_vars, NEW f \in Folders
    PROVE  /\ Done(f) => Done(f)'
           /\ \A n : HeardTo(f, n) => HeardTo(f, n)'
    BY HearingGrows DEF Done, HeardTo

\* A worker that does not move has told what it had.
LEMMA ProgressKept ==
    ASSUME Types, RootInv, BookInv, Sound, Sound', [Next]_vars, NEW w \in Workers,
           ProgressInv(w), worker'[w] = worker[w]
    PROVE  ProgressInv(w)'
<1> DEFINE r == worker[w]
<1>1. CASE r.at \in {"idle", "receive", "leave", "gone"}
    BY <1>1 DEF ProgressInv
<1>2. CASE r.at \notin {"idle", "receive", "leave", "gone"}
  <2>1. r.folder \in Folders
    BY <1>2 DEF Types, PlaceTypes
  <2>2. PICK f \in Folders : f = r.folder
    BY <2>1
  <2>3. /\ Done(f) => Done(f)'
        /\ \A n : HeardTo(f, n) => HeardTo(f, n)'
    BY DoneGrows
  <2>4. PICK state : state = r
    OBVIOUS
  <2>5. worker'[w] = state /\ worker[w] = state /\ state.folder = f
    BY <2>2, <2>4
  <2>6. QED
    BY <2>3, <2>5 DEF ProgressInv
<1>3. QED
    BY <1>1, <1>2

\* A worker that moves has told what it must have.
LEMMA ProgressStep ==
    ASSUME Types, RootInv, BookInv, Sound, Sound', NEW w \in Workers, Works(w), ProgressInv(w)
    PROVE  ProgressInv(w)'
<1> DEFINE r == worker[w]
           next == worker'[w]
<1>0. [Next]_vars /\ SoundWorks(w) /\ Types'
    BY SoundWork, TypeStep DEF Next
<1>1. CASE Rests(w) \/ Completes(w)
    BY <1>1 DEF Rests, Resting, Completes, ProgressInv
<1>2. CASE Accepts(w)
  <2>1. next.at = "start" /\ next.part = 1
    BY <1>2 DEF Accepts
  <2>2. HeardTo(worker[w].folder, worker[w].part - 1)'
    BY <2>1 DEF HeardTo
  <2>3. QED
    BY <2>1, <2>2 DEF ProgressInv
<1>3. ASSUME Busy(w), next.folder = r.folder
      PROVE  /\ r.folder \in Folders /\ r.part \in Nat /\ r.part >= 1
             /\ Len(Parts(r.folder)) \in Nat
    BY <1>3, Constants DEF Types, PlaceTypes, Busy, WorkerTypes, WorkerStates
<1>4. CASE GoesOn(w)
  <2>1. Busy(w) /\ next.folder = r.folder
    BY <1>4 DEF GoesOn
  <2>2. PICK f \in Folders, p \in Nat : f = r.folder /\ p = r.part
    BY <1>3, <2>1
  <2>3. p >= 1 /\ Len(Parts(f)) \in Nat
    BY <1>3, <2>1, <2>2
  <2>4. /\ Done(f) => Done(f)'
        /\ \A n : HeardTo(f, n) => HeardTo(f, n)'
    BY <1>0, DoneGrows
  <2>5. CASE Loses(w)
    <3>1. next.at = "report" /\ next.then = "finish" /\ \E kind \in Losses : next.event = Event(kind, f, 0)
        BY <2>2, <2>5 DEF Loses, WillSay
    <3>2. QED
        BY <2>1, <2>2, <3>1 DEF ProgressInv
  <2>6. CASE Notes(w)
    <3>1. /\ next.at = "report" /\ next.then = "read" /\ r.at = "read" /\ next.part = p
          /\ next.event.kind \in Losses
        BY <2>2, <2>6, EventFields DEF Notes, WillSay
    <3>2. HeardTo(f, p - 1)'
        BY <2>2, <2>4, <3>1 DEF ProgressInv
    <3>3. QED
        BY <2>1, <2>2, <3>1, <3>2 DEF ProgressInv, Losses
  <2>7. CASE Delivers(w)
    <3>1. /\ next.at = "report" /\ next.then = "enqueue" /\ r.at = "seal" /\ next.part = p
          /\ next.event = Event("part", f, p) /\ next.dirs = Parts(f)[p]
        BY <2>2, <2>7 DEF Delivers, WillSay
    <3>2. HeardTo(f, p - 1)' /\ p \in 1 .. Len(Parts(f))
        BY <2>2, <2>3, <2>4, <3>1 DEF ProgressInv, Types, PlaceTypes
    <3>3. QED
        BY <2>1, <2>2, <3>1, <3>2 DEF ProgressInv
  <2>8. CASE Advances(w)
    <3>1. CASE r.at = "check" /\ next.at = "read" /\ next.part = p + 1
      <4>1. HeardTo(f, p)' /\ (p + 1) - 1 = p
        BY <2>2, <2>4, <3>1 DEF ProgressInv
      <4>2. QED
        BY <2>1, <2>2, <3>1, <4>1 DEF ProgressInv
    <3>2. CASE r.at = "start" /\ next.at = "read" /\ next.part = p
      <4>1. HeardTo(f, p - 1)'
        BY <2>2, <2>4, <3>2 DEF ProgressInv
      <4>2. QED
        BY <2>1, <2>2, <3>2, <4>1 DEF ProgressInv
    <3>3. CASE r.at = "read" /\ next.at = "seal" /\ next.part = p
      <4>1. HeardTo(f, p - 1)'
        BY <2>2, <2>4, <3>3 DEF ProgressInv
      <4>2. QED
        BY <2>1, <2>2, <3>3, <4>1 DEF ProgressInv
    <3>4. CASE r.at = "read" /\ next.at = "check" /\ next.part = p /\ p > Len(Parts(f))
      <4>1. HeardTo(f, p - 1)'
        BY <2>2, <2>4, <3>4 DEF ProgressInv
      <4>2. HeardTo(f, p)'
        BY <2>3, <3>4, <4>1 DEF HeardTo
      <4>3. QED
        BY <2>1, <2>2, <3>4, <4>2 DEF ProgressInv
    <3>5. CASE r.at = "enqueue" /\ next.at = "check" /\ next.part = p
      <4>1. HeardTo(f, p)'
        BY <2>2, <2>4, <3>5 DEF ProgressInv
      <4>2. QED
        BY <2>1, <2>2, <3>5, <4>1 DEF ProgressInv
    <3>6. CASE r.at = "check" /\ next.at = "finish" /\ p >= Len(Parts(f))
      <4>1. HeardTo(f, p)
        BY <2>2, <3>6 DEF ProgressInv
      <4>2. Done(f)'
        BY <2>3, <2>4, <3>6, <4>1 DEF HeardTo, Done
      <4>3. QED
        BY <2>1, <2>2, <3>6, <4>2 DEF ProgressInv
    <3>7. QED
        BY <2>2, <2>8, <3>1, <3>2, <3>3, <3>4, <3>5, <3>6 DEF Advances
  <2>9. CASE Says(w)
    <3>1. /\ r.at = "report" /\ next.at = r.then /\ next.part = p /\ next.dirs = r.dirs
        BY <2>2, <2>9 DEF Says
    <3>2. PICK e : e = r.event
        OBVIOUS
    <3>3. InFlight(e)'
        BY <1>0, <2>9, <3>2, FlightWorks
    <3>4. CASE r.then = "enqueue" /\ HeardTo(f, p - 1) /\ e = Event("part", f, p)
      <4>1. Heard(f, p)'
        BY <3>3, <3>4 DEF Heard, Event
      <4>2. HeardTo(f, p - 1)'
        BY <2>4, <3>4
      <4>3. \A i \in 1 .. Len(Parts(f)) : i =< p => i =< p - 1 \/ i = p
        BY <2>2, <2>3
      <4>4. HeardTo(f, p)'
        BY <4>1, <4>2, <4>3 DEF HeardTo
      <4>5. QED
        BY <2>1, <2>2, <3>1, <3>4, <4>4 DEF ProgressInv
    <3>5. CASE r.then = "read" /\ HeardTo(f, p - 1)
        BY <2>1, <2>2, <2>4, <3>1, <3>5 DEF ProgressInv
    <3>6. ASSUME r.then = "finish", NEW kind \in Losses, e = Event(kind, f, 0)
          PROVE  ProgressInv(w)'
      <4>1. Done(f)'
        BY <3>3, <3>6 DEF Done, ToldOf, Event
      <4>2. QED
        BY <2>1, <2>2, <3>1, <3>6, <4>1 DEF ProgressInv
    <3>7. QED
        BY <2>2, <3>1, <3>2, <3>4, <3>5, <3>6 DEF ProgressInv
  <2>10. CASE \E g \in Folders : Names(w, g)
    <3>1. r.at = "enqueue" /\ next.at = "enqueue" /\ next.part = p
        BY <2>2, <2>10 DEF Names
    <3>2. HeardTo(f, p)'
        BY <2>2, <2>4, <3>1 DEF ProgressInv
    <3>3. QED
        BY <2>1, <2>2, <3>1, <3>2 DEF ProgressInv
  <2>11. CASE Thinks(w)
    BY <2>5, <2>6, <2>7, <2>8, <2>11 DEF Thinks
  <2>12. CASE ~Thinks(w) /\ ~Says(w) /\ ~\E g \in Folders : Names(w, g)
    BY <1>0, <1>1, <1>2, <2>12 DEF SoundWorks
  <2>13. QED
    BY <2>9, <2>10, <2>11, <2>12
<1>5. QED
    BY <1>0, <1>1, <1>2, <1>4 DEF SoundWorks, Thinks, Says, Names

(***************************************************************************)
(* Nothing named is forgotten.                                             *)
(***************************************************************************)
\* A folder the owner has heard named.
Named(f) ==
    \/ f = Root
    \/ \E g \in Folders : \E i \in 1 .. Len(Parts(g)) : Heard(g, i) /\ f \in Parts(g)[i]
Enqueued(f) == \E i \in DOMAIN commands : commands[i].kind = "enqueue" /\ commands[i].folder = f
Covered(f) ==
    \/ Done(f) \/ f \in waiting \/ f \in Lent \/ Enqueued(f)
    \/ \E w \in Workers : worker[w].at = "enqueue" /\ f \in worker[w].dirs

\* It is done, or somebody still has it.
CoverInv == \A f \in Folders : Named(f) => Covered(f)

Progress == DoneInv /\ PartInv /\ CoverInv /\ \A w \in Workers : ProgressInv(w)

\* Completions stay completions of folders that are done.
LEMMA DoneStep ==
    ASSUME Types, RootInv, BookInv, Sound, Sound', [Next]_vars, Progress
    PROVE  DoneInv'
<1>0. \A f \in Folders : Done(f) => Done(f)'
    BY DoneGrows
<1>1. /\ \A i \in DOMAIN commands : commands[i] \in Commands /\ commands[i].folder \in Folders
      /\ \A w : Completed(w) => hand.folder \in Folders
      /\ DoneInv /\ \A w \in Workers : ProgressInv(w)
  <2>1. \A i \in DOMAIN commands : commands[i] \in Commands
    BY DEF Types, CommandTypes
  <2>2. \A c \in Commands : c.folder \in Folders
    BY DEF Commands
  <2>3. QED
    BY <2>1, <2>2 DEF Types, PlaceTypes, Completed, Progress
<1>2. ASSUME NEW w \in Workers, Completed(w), Completed(w)', hand'.folder = hand.folder
      PROVE  Done(hand.folder)'
  <2>1. PICK f \in Folders : f = hand.folder
    BY <1>1, <1>2
  <2>2. Done(f)'
    BY <1>0, <1>1, <1>2, <2>1 DEF DoneInv
  <2>3. QED
    BY <1>2, <2>1, <2>2
<1>3. ASSUME commands' = commands, NEW i \in DOMAIN commands', commands'[i].kind = "complete"
      PROVE  Done(commands[i].folder)'
  <2>1. PICK f \in Folders : f = commands[i].folder
    BY <1>1, <1>3
  <2>2. Done(f)'
    BY <1>0, <1>1, <1>3, <2>1 DEF DoneInv
  <2>3. QED
    BY <1>3, <2>1, <2>2
<1>4. ASSUME commands # <<>>, commands' = Tail(commands), NEW i \in DOMAIN commands',
             commands'[i].kind = "complete"
      PROVE  Done(commands[i].folder)'
  <2>1. i + 1 \in DOMAIN commands /\ commands'[i] = commands[i + 1]
    BY <1>4, CommandTaken
  <2>2. PICK f \in Folders : f = commands[i + 1].folder
    BY <1>1, <2>1
  <2>3. Done(f)'
    BY <1>0, <1>1, <1>4, <2>1, <2>2 DEF DoneInv
  <2>4. QED
    BY <2>1, <2>2, <2>3
<1>5. CASE Schedules
  <2>1. SoundSchedules
    BY <1>5, SoundSchedule
  <2>2. ASSUME commands' = commands \/ (commands # <<>> /\ commands' = Tail(commands)),
               \A w \in Workers : Completed(w)' => Completed(w) /\ hand'.folder = hand.folder
        PROVE  DoneInv'
    BY <1>2, <1>3, <1>4, <2>2 DEF DoneInv
  <2>3. CASE Waits \/ Admits \/ Assigns \/ Releases
             \/ \E w \in Workers, f \in Folders : Grants(w, f)
    BY <2>2, <2>3 DEF Waits, Admits, Assigns, Releases, Grants, Completed
  <2>4. CASE \E f \in Folders : Enlists(f)
    BY <2>2, <2>4 DEF Enlists, Completed
  <2>5. CASE PassesOn \/ \E w \in Workers : Collects(w)
    BY <2>2, <2>5 DEF PassesOn, Collects, Completed, Types, PlaceTypes
  <2>6. CASE Handles
    <3>1. commands # <<>> /\ commands' = Tail(commands) /\ Head(commands).kind = "complete"
          /\ hand'.folder = Head(commands).folder
        BY <2>6 DEF Handles
    <3>2. Head(commands) = commands[1] /\ 1 \in DOMAIN commands
        BY <3>1, CommandTaken
    <3>3. PICK f \in Folders : f = commands[1].folder
        BY <1>1, <3>2
    <3>4. Done(f)'
        BY <1>0, <1>1, <3>1, <3>2, <3>3 DEF DoneInv
    <3>5. Done(hand.folder)'
        BY <3>1, <3>2, <3>3, <3>4
    <3>6. QED
        BY <1>4, <3>1, <3>5 DEF DoneInv
  <2>7. QED
    BY <2>1, <2>3, <2>4, <2>5, <2>6 DEF SoundSchedules
<1>6. ASSUME NEW w \in Workers, Works(w) PROVE DoneInv'
  <2>1. SoundWorks(w) /\ UNCHANGED <<at, hand, then>>
    BY <1>6, SoundWork, WorkerFrame
  <2>2. \A v \in Workers : Completed(v)' => Done(hand.folder)'
    BY <1>2, <2>1 DEF Completed
  <2>3. CASE commands' = commands
    BY <1>3, <2>2, <2>3 DEF DoneInv
  <2>4. ASSUME NEW c \in Commands, commands' = Append(commands, c),
               c.kind = "complete" => Done(c.folder)
        PROVE  DoneInv'
    <3>1. c.folder \in Folders
        BY DEF Commands
    <3>2. c.kind = "complete" => Done(c.folder)'
        BY <1>0, <2>4, <3>1
    <3>3. ASSUME NEW i \in DOMAIN commands', commands'[i].kind = "complete"
          PROVE  Done(commands[i].folder)'
      <4>1. CASE i \in DOMAIN commands
        <5>1. commands'[i] = commands[i]
            BY <2>4, <4>1, CommandSent
        <5>2. PICK f \in Folders : f = commands[i].folder
            BY <1>1, <4>1
        <5>3. Done(f)'
            BY <1>0, <1>1, <3>3, <4>1, <5>1, <5>2 DEF DoneInv
        <5>4. QED
            BY <5>1, <5>2, <5>3
      <4>2. CASE i \notin DOMAIN commands
        <5>1. commands'[i] = c
            BY <2>4, <4>2, CommandSent
        <5>2. QED
            BY <3>2, <3>3, <5>1
      <4>3. QED
        BY <4>1, <4>2
    <3>4. QED
        BY <2>2, <3>3 DEF DoneInv
  <2>5. ASSUME NEW f \in Folders, Names(w, f) PROVE DoneInv'
    <3> DEFINE c == [kind |-> "enqueue", w |-> w, folder |-> f]
    <3>1. c \in Commands /\ c.kind = "enqueue" /\ commands' = Append(commands, c)
        BY <2>5 DEF Names, Commands
    <3> HIDE DEF c
    <3>2. QED
        BY <2>4, <3>1
  <2>6. CASE Completes(w)
    <3>1. worker[w].at = "finish" /\ worker[w].folder \in Folders
        BY <2>6 DEF Completes, Types, PlaceTypes
    <3>2. PICK f \in Folders : f = worker[w].folder
        BY <3>1
    <3> DEFINE c == [kind |-> "complete", w |-> w, folder |-> f]
    <3>3. c \in Commands /\ c.folder = f /\ commands' = Append(commands, c)
        BY <2>6, <3>2 DEF Completes, Commands
    <3>4. Done(f)
        BY <1>1, <3>1, <3>2 DEF ProgressInv
    <3> HIDE DEF c
    <3>5. Done(c.folder)
        BY <3>3, <3>4
    <3>6. QED
        BY <2>4, <3>3, <3>5
  <2>7. QED
    BY <2>1, <2>3, <2>5, <2>6 DEF SoundWorks, Rests, Accepts, Thinks, Says
<1>7. CASE FinishScan \/ OwnerReceives \/ Cancel \/ RootChanges \/ OwnerAdvances \/ UNCHANGED vars
  <2>1. UNCHANGED <<at, hand, then, commands>>
    BY <1>7 DEF FinishScan, OwnerReceives, Cancel, RootChanges, OwnerAdvances, vars
  <2>2. QED
    BY <1>2, <1>3, <2>1 DEF DoneInv, Completed
<1>8. QED
    BY <1>5, <1>6, <1>7 DEF Next

\* A worker that tells of a part is at that part.
LEMMA PartSaid ==
    ASSUME Types, NEW w \in Workers, Says(w), ProgressInv(w), NEW f, NEW i,
           worker[w].event = Event("part", f, i)
    PROVE  /\ f \in Folders /\ i \in 1 .. Len(Parts(f))
           /\ worker'[w].at = "enqueue" /\ worker'[w].dirs = Parts(f)[i]
<1>1. worker[w].at = "report" /\ worker'[w].at = worker[w].then /\ worker'[w].dirs = worker[w].dirs
      /\ worker[w].folder \in Folders
    BY DEF Says, Types, PlaceTypes
<1>2. worker[w].event.kind = "part" /\ worker[w].event.folder = f /\ worker[w].event.part = i
    BY EventFields
<1>3. /\ worker[w].then = "enqueue" /\ worker[w].part \in 1 .. Len(Parts(worker[w].folder))
      /\ worker[w].event = Event("part", worker[w].folder, worker[w].part)
      /\ worker[w].dirs = Parts(worker[w].folder)[worker[w].part]
    BY <1>1, <1>2, EventFields DEF ProgressInv, Losses
<1>4. worker[w].folder = f /\ worker[w].part = i
    BY <1>2, <1>3, EventFields
<1>5. QED
    BY <1>1, <1>3, <1>4

\* The owner goes on hearing of parts there are.
LEMMA PartStep ==
    ASSUME Types, RootInv, BookInv, Sound, Sound', [Next]_vars, Progress
    PROVE  PartInv'
<1>1. \A f, i : Heard(f, i)' => f \in Folders /\ i \in 1 .. Len(Parts(f))
    BY HearingGrows, PartSaid DEF Progress, PartInv
<1>2. \A f \in Folders : \A i \in 1 .. Len(Parts(f)) : i \in Nat
    BY Constants
<1>3. ASSUME NEW d \in delivered' PROVE d \in Folders \X Nat
  <2>1. CASE d \in delivered
    BY <2>1 DEF Progress, PartInv
  <2>2. CASE d \notin delivered
    <3>1. OwnerReceives
      <4>1. Schedules => delivered' = delivered
        BY SchedulerFrame
      <4>2. (\E w \in Workers : Works(w)) => delivered' = delivered
        BY WorkerFrame
      <4>3. QED
        BY <1>3, <2>2, <4>1, <4>2 DEF Next, FinishScan, Cancel, RootChanges, OwnerAdvances, vars
    <3>2. PICK f, i : d = <<f, i>>
        BY <1>3, <2>2, <3>1 DEF OwnerReceives
    <3>3. Heard(f, i)'
        BY <1>3, <3>2 DEF Heard
    <3>4. QED
        BY <1>1, <1>2, <3>2, <3>3
  <2>3. QED
    BY <2>1, <2>2
<1>4. QED
    BY <1>1, <1>3 DEF PartInv

\* No step loses a folder the owner has heard named.
LEMMA CoverStep ==
    ASSUME Types, RootInv, BookInv, Sound, Sound', [Next]_vars, Progress
    PROVE  CoverInv'
<1> SUFFICES ASSUME NEW f \in Folders, Named(f)'
             PROVE  Covered(f)'
    BY DEF CoverInv
<1>0. /\ DoneInv /\ CoverInv /\ \A w \in Workers : ProgressInv(w)
      /\ Done(f) => Done(f)'
    BY DoneGrows DEF Progress
<1>1. CASE ~Named(f)
  <2>0. PICK g \in Folders : \E i \in 1 .. Len(Parts(g)) :
          Heard(g, i)' /\ ~Heard(g, i) /\ f \in Parts(g)[i]
    BY <1>1 DEF Named
  <2>1. PICK i \in 1 .. Len(Parts(g)) : Heard(g, i)' /\ ~Heard(g, i) /\ f \in Parts(g)[i]
    BY <2>0
  <2>2. PICK w \in Workers : Says(w) /\ worker[w].event = Event("part", g, i)
    BY <2>1, HearingGrows
  <2>3. worker'[w].at = "enqueue" /\ worker'[w].dirs = Parts(g)[i]
    BY <1>0, <2>2, PartSaid
  <2>4. QED
    BY <2>1, <2>3 DEF Covered
<1>2. CASE Named(f)
  <2>1. Covered(f)
    BY <1>0, <1>2 DEF CoverInv
  <2>2. CASE Done(f)
    BY <1>0, <2>2 DEF Covered
  <2>3. CASE Schedules
    <3>1. SoundSchedules /\ worker' = worker
        BY <2>3, SoundSchedule, SchedulerFrame
    <3>2. CASE \E w \in Workers : worker[w].at = "enqueue" /\ f \in worker[w].dirs
        BY <3>1, <3>2 DEF Covered
    <3>3. CASE Enqueued(f)
      <4>1. CASE commands' = commands
        BY <3>3, <4>1 DEF Covered, Enqueued
      <4>2. CASE commands # <<>> /\ commands' = Tail(commands)
        <5>1. PICK i \in DOMAIN commands : commands[i].kind = "enqueue" /\ commands[i].folder = f
            BY <3>3 DEF Enqueued
        <5>2. CASE i # 1
            BY <4>2, <5>1, <5>2, CommandTaken DEF Covered, Enqueued
        <5>3. CASE i = 1
          <6>1. Head(commands).kind = "enqueue" /\ Head(commands).folder = f
            BY <4>2, <5>1, <5>3, CommandTaken
          <6>2. ~Handles
            BY <6>1 DEF Handles
          <6>3. CASE \E h \in Folders : Enlists(h)
            <7>1. Enlists(f)
                BY <6>1, <6>3 DEF Enlists
            <7>2. ready = waiting /\ leases = Lent
                BY <7>1 DEF Enlists, BookInv, GrantInv
            <7>3. Lent' = Lent
                BY <7>1 DEF Enlists, Lent
            <7>4. f \in waiting' \/ f \in Lent'
                BY <7>1, <7>2, <7>3 DEF Enlists
            <7>5. QED
                BY <7>4 DEF Covered
          <6>4. CASE commands' = commands
            BY <4>1, <6>4
          <6>5. QED
            BY <3>1, <6>2, <6>3, <6>4 DEF SoundSchedules, Waits, Admits, Assigns, Releases, PassesOn,
                Grants, Collects
        <5>4. QED
            BY <5>2, <5>3
      <4>3. QED
        BY <3>1, <4>1, <4>2 DEF SoundSchedules, Waits, Admits, Assigns, Handles, Releases, PassesOn,
            Grants, Enlists, Collects
    <3>4. CASE f \in waiting
      <4>1. CASE \E w \in Workers : Grants(w, f)
        <5>1. f \in Lent'
            BY <4>1 DEF Grants, Lent
        <5>2. QED
            BY <5>1 DEF Covered
      <4>2. CASE ~\E w \in Workers : Grants(w, f)
        <5>1. f \in waiting'
            BY <3>1, <3>4, <4>2 DEF SoundSchedules, Waits, Admits, Assigns, Handles, Releases,
                PassesOn, Grants, Enlists, Collects
        <5>2. QED
            BY <5>1 DEF Covered
      <4>3. QED
        BY <4>1, <4>2
    <3>5. CASE f \in Lent
      <4>1. CASE Releases /\ f = hand.folder
        <5>1. at = "completing" /\ hand.w \in Workers
            BY <4>1 DEF Releases, Types, PlaceTypes
        <5>2. Done(hand.folder)
            BY <1>0, <5>1 DEF DoneInv, Completed
        <5>3. QED
            BY <2>2, <4>1, <5>2
      <4>2. CASE ~(Releases /\ f = hand.folder)
        <5>1. f \in Lent'
          <6>1. LeaseTypes /\ PlaceTypes /\ LedgerInv
            BY DEF Types, BookInv
          <6>2. CASE UNCHANGED active /\ at # "assign"
            BY <3>5, <6>2 DEF Lent
          <6>3. CASE Assigns
            <7>1. /\ at = "assign" /\ hand.w \in Workers /\ active[hand.w] = None
                  /\ active'[hand.w] = hand.folder
                  /\ \A v \in Workers : v # hand.w => active'[v] = active[v]
                BY <6>1, <6>3 DEF Assigns, PlaceTypes, LeaseTypes, LedgerInv
            <7>2. CASE f = hand.folder
                BY <7>1, <7>2 DEF Lent
            <7>3. CASE f # hand.folder
              <8>1. PICK v \in Workers : active[v] = f
                BY <3>5, <7>3 DEF Lent
              <8>2. v # hand.w
                BY <7>1, <8>1, Constants
              <8>3. QED
                BY <7>1, <8>1, <8>2 DEF Lent
            <7>4. QED
                BY <7>2, <7>3
          <6>4. CASE Releases
            <7>1. f # hand.folder /\ at = "completing" /\ hand.w \in Workers
                  /\ active[hand.w] = hand.folder
                  /\ \A v \in Workers : v # hand.w => active'[v] = active[v]
                BY <4>2, <6>1, <6>4 DEF Releases, PlaceTypes, LeaseTypes
            <7>2. PICK v \in Workers : active[v] = f
                BY <3>5, <7>1 DEF Lent
            <7>3. QED
                BY <7>1, <7>2 DEF Lent
          <6>5. QED
            BY <3>1, <6>1, <6>2, <6>3, <6>4 DEF SoundSchedules, Waits, Admits, Handles, PassesOn,
                Grants, Enlists, Collects
        <5>2. QED
            BY <5>1 DEF Covered
      <4>3. QED
        BY <4>1, <4>2
    <3>6. QED
        BY <2>1, <2>2, <3>2, <3>3, <3>4, <3>5 DEF Covered
  <2>4. ASSUME NEW w \in Workers, Works(w) PROVE Covered(f)'
    <3>1. SoundWorks(w) /\ waiting' = waiting /\ Lent' = Lent
          /\ \A v \in Workers : v # w => worker'[v] = worker[v]
        BY <2>4, SoundWork, WorkerFrame, WorkTypes DEF Lent
    <3>2. CASE f \in waiting \/ f \in Lent
        BY <3>1, <3>2 DEF Covered
    <3>3. commands' = commands \/ \E c \in Commands : commands' = Append(commands, c)
      <4>1. CASE Completes(w)
        <5>1. worker[w].folder \in Folders
            BY <4>1 DEF Completes, Types, PlaceTypes
        <5>2. QED
            BY <4>1, <5>1 DEF Completes, Commands
      <4>2. CASE \E g \in Folders : Names(w, g)
        BY <4>2 DEF Names, Commands
      <4>3. QED
        BY <3>1, <4>1, <4>2 DEF SoundWorks, Rests, Accepts, Thinks, Says
    <3>4. CASE Enqueued(f)
      <4>1. CASE commands' = commands
        BY <3>4, <4>1 DEF Covered, Enqueued
      <4>2. ASSUME NEW c \in Commands, commands' = Append(commands, c) PROVE Covered(f)'
        <5>1. DOMAIN commands \subseteq DOMAIN commands'
              /\ \A i \in DOMAIN commands : commands'[i] = commands[i]
            BY <4>2, CommandSent
        <5>2. QED
            BY <3>4, <5>1 DEF Covered, Enqueued
      <4>3. QED
        BY <3>3, <4>1, <4>2
    <3>5. ASSUME NEW v \in Workers, worker[v].at = "enqueue", f \in worker[v].dirs
          PROVE  Covered(f)'
      <4>1. CASE v # w
        BY <3>1, <3>5, <4>1 DEF Covered
      <4>2. CASE v = w
        <5>1. PICK g \in Folders : Names(w, g)
          <6>1. ~Rests(w) /\ ~Accepts(w) /\ ~Says(w) /\ ~Completes(w)
            BY <3>5, <4>2 DEF Rests, Accepts, Says, Completes
          <6>2. ~Thinks(w)
            BY <3>5, <4>2 DEF Thinks, Loses, Notes, Delivers, Advances
          <6>3. QED
            BY <3>1, <6>1, <6>2 DEF SoundWorks
        <5>2. CASE g # f
            BY <3>5, <4>2, <5>1, <5>2 DEF Names, Covered
        <5>3. CASE g = f
          <6> DEFINE c == [kind |-> "enqueue", w |-> w, folder |-> f]
          <6>1. c \in Commands /\ c.kind = "enqueue" /\ c.folder = f
                /\ commands' = Append(commands, c)
            BY <5>1, <5>3 DEF Names, Commands
          <6> HIDE DEF c
          <6>2. Enqueued(f)'
            BY <6>1, CommandSent DEF Enqueued
          <6>3. QED
            BY <6>2 DEF Covered
        <5>4. QED
            BY <5>2, <5>3
      <4>3. QED
        BY <4>1, <4>2
    <3>6. QED
        BY <2>1, <2>2, <3>2, <3>4, <3>5 DEF Covered
  <2>5. CASE FinishScan \/ OwnerReceives \/ Cancel \/ RootChanges \/ OwnerAdvances \/ UNCHANGED vars
    <3>1. UNCHANGED <<waiting, commands, worker>> /\ Lent' = Lent
        BY <2>5 DEF FinishScan, OwnerReceives, Cancel, RootChanges, OwnerAdvances, vars, Lent
    <3>2. QED
        BY <1>0, <2>1, <3>1 DEF Covered, Enqueued
  <2>6. QED
    BY <2>3, <2>4, <2>5 DEF Next
<1>3. QED
    BY <1>1, <1>2

(***************************************************************************)
(* The theorems.                                                           *)
(***************************************************************************)
\* When the scan starts the root is waiting, and nothing has been heard.
LEMMA InitProgress == Init => Progress
<1> SUFFICES ASSUME Init PROVE Progress
    OBVIOUS
<1>1. \A w \in Workers : worker[w].at = "idle"
    BY DEF Init, IdleWorker
<1>2. \A w \in Workers : ProgressInv(w)
    BY <1>1 DEF ProgressInv
<1>3. DoneInv
    BY DEF Init, DoneInv, Completed
<1>4. \A e : ~InFlight(e)
    BY DEF Init, InFlight
<1>5. \A f, i : ~Heard(f, i)
    BY <1>4 DEF Init, Heard
<1>6. PartInv
    BY <1>5 DEF Init, PartInv
<1>7. CoverInv
    BY <1>5 DEF Init, CoverInv, Named, Covered
<1>8. QED
    BY <1>2, <1>3, <1>6, <1>7 DEF Progress

\* Every step of a scan nothing has stopped keeps its progress.
LEMMA ProgressSteps ==
    ASSUME Types, RootInv, Sound => BookInv /\ Progress, [Next]_vars
    PROVE  Sound' => Progress'
<1> SUFFICES ASSUME Sound' PROVE Progress'
    OBVIOUS
<1>1. Sound /\ BookInv /\ Progress
    BY SoundGrows
<1>2. DoneInv' /\ PartInv' /\ CoverInv'
    BY <1>1, DoneStep, PartStep, CoverStep
<1>3. ASSUME NEW v \in Workers PROVE ProgressInv(v)'
  <2>1. ProgressInv(v)
    BY <1>1 DEF Progress
  <2>2. CASE worker'[v] = worker[v]
    BY <1>1, <2>1, <2>2, ProgressKept
  <2>3. CASE Works(v)
    BY <1>1, <2>1, <2>3, ProgressStep
  <2>4. CASE \E w \in Workers : Works(w) /\ w # v
    BY <2>2, <2>4, WorkTypes
  <2>5. CASE Schedules
    BY <2>2, <2>5, SchedulerFrame
  <2>6. CASE FinishScan \/ OwnerReceives \/ Cancel \/ RootChanges \/ OwnerAdvances \/ UNCHANGED vars
    BY <2>2, <2>6 DEF FinishScan, OwnerReceives, Cancel, RootChanges, OwnerAdvances, vars
  <2>7. QED
    BY <2>3, <2>4, <2>5, <2>6 DEF Next
<1>4. QED
    BY <1>2, <1>3 DEF Progress

\* Once the end is told, nothing is left on its way.
LEMMA NothingIsLeft ==
    ASSUME Types, BookInv, Progress, EndInv, result = "done"
    PROVE  Accounted
<1>1. at = "gone" /\ inbox = <<>> /\ None \notin Folders
    BY Constants DEF EndInv
<1>2. /\ waiting = {} /\ \A w \in Workers : active[w] = None /\ IsGone(w) /\ results[w] = <<>>
    BY <1>1 DEF EndInv, BookInv, FlagInv, NoneActive, TaskInv
<1>3. \A e : ~InFlight(e)
    BY <1>1, <1>2, ResultIsOne DEF InFlight
<1>4. \A f \in Folders : f \notin Lent
    BY <1>1, <1>2 DEF Lent
<1>5. DOMAIN commands = {}
  <2>1. \A i \in DOMAIN commands : commands[i] \in Commands
    BY DEF Types, CommandTypes
  <2>2. \A i \in DOMAIN commands : commands[i].w \in Workers
    BY <2>1 DEF Commands
  <2>3. QED
    BY <1>2, <2>2 DEF BookInv, CommandInv
<1>6. \A f \in Folders : Named(f) => Done(f)
    BY <1>2, <1>4, <1>5 DEF Progress, CoverInv, Covered, Enqueued, IsGone
<1>7. \A f \in Folders : Done(f) =>
        f \in told \/ \A i \in 1 .. Len(Parts(f)) : <<f, i>> \in delivered
    BY <1>3 DEF Done, ToldOf, Heard, Event
<1>8. ASSUME NEW f \in Known
      PROVE  f \in Folders /\ Named(f)
  <2>1. CASE f = Root
    BY <2>1, Constants DEF Named
  <2>2. ASSUME NEW d \in delivered, f \in Parts(d[1])[d[2]]
        PROVE  f \in Folders /\ Named(f)
    <3>1. PICK g \in Folders, i \in Nat : d = <<g, i>>
        BY <2>2 DEF Progress, PartInv
    <3>2. Heard(g, i) /\ f \in Parts(g)[i]
        BY <2>2, <3>1 DEF Heard
    <3>3. i \in 1 .. Len(Parts(g))
        BY <3>2 DEF Progress, PartInv
    <3>4. f \in Folders
        BY <3>2, <3>3, Constants
    <3>5. QED
        BY <3>2, <3>3, <3>4 DEF Named
  <2>3. QED
    BY <1>8, <2>1, <2>2 DEF Known
<1>9. QED
    BY <1>6, <1>7, <1>8 DEF Accounted

\* The inductive invariant.
ScanIInv ==
    /\ Types /\ RootInv /\ EndInv /\ FailureTold
    /\ Sound => BookInv /\ Progress

\* Types, the end that is told last and the failures that must be told hold of
\* every scan; the books of scheduler, workers, coordinator and journal agree, and
\* no folder is forgotten, in every scan nothing has stopped, the coordinator's
\* move to a newer generation included until the scheduler meets it.
THEOREM ScanInvariant == Spec => []ScanIInv
<1>1. Init => ScanIInv
    BY InitTypes, InitBook, InitProgress DEF ScanIInv, Init, FailureTold, MustTell, Overtaken
<1>2. ScanIInv /\ [Next]_vars => ScanIInv'
    BY TypeStep, CausesGrow, EndStep, ToldStep, BookStep, ProgressSteps DEF ScanIInv
<1>3. QED
    BY <1>1, <1>2, PTL DEF Spec

\* The scheduler never takes its own bookkeeping for a failure (fail,
\* complete_lease, forward_worker_event, lease_task of scanner/scheduler.rs):
\* the flag is raised only in a scan that was cancelled, whose root changed, that
\* was refused capacity or that the owner's advance of the generation overtook.
THEOREM FailuresCaused == Spec => []FailureHasCause
<1>1. ScanIInv => FailureHasCause
    BY DEF ScanIInv, Sound, BookInv, FlagInv, FailureHasCause, Overtaken
<1>2. QED
    BY <1>1, ScanInvariant, PTL

\* A scan that ends by itself has delivered every folder it named or told the
\* owner which one it could not read, and one whose journal was refused capacity
\* or that failed because the generation was advanced has said so, for any tree,
\* any number of workers and any channel capacities.
THEOREM CompleteScans == Spec => []FinishIsComplete
<1>1. ScanIInv => FinishIsComplete
  <2> SUFFICES ASSUME ScanIInv, result = "done", ~cancelled, causes \cap {"seal", "root"} = {}
               PROVE  IF "queue" \in causes \/ (Overtaken /\ failed) THEN failureHeard
                                                                     ELSE Accounted
    BY DEF FinishIsComplete
  <2>1. CASE "queue" \in causes \/ (Overtaken /\ failed)
    BY <2>1 DEF ScanIInv, EndInv, FailureTold, MustTell
  <2>2. CASE ~("queue" \in causes \/ (Overtaken /\ failed))
    BY <2>2, NothingIsLeft DEF ScanIInv, Sound
  <2>3. QED
    BY <2>1, <2>2
<1>2. QED
    BY <1>1, ScanInvariant, PTL

=============================================================================
