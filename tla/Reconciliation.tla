--------------------------- MODULE Reconciliation ---------------------------
(***************************************************************************)
(* How the map follows the deletions: the owner's half of the scan store   *)
(* (StoreHandle in scan_store/store_thread.rs), the decisions about        *)
(* overlays and rebuilds (app.rs), the handlers of the owner loop that     *)
(* make them (runtime/mod.rs), composed with the store thread, a scan and  *)
(* an executor.                                                            *)
(*                                                                         *)
(* A handler is one step: all it shares with the store thread are the two  *)
(* queues, and the room it finds there can only grow while it runs.  The   *)
(* handlers call each other, so they are operators on the owner's record   *)
(* `own`; own.sent collects the commands a step sends.                     *)
(*                                                                         *)
(* The scan reads every entry once and tells the owner what module Scanner *)
(* shows it tells.  A deletion, which module DeletionLane takes from its   *)
(* request to its report, is here one that starts, removes and reports.    *)
(* Entries do not return once they are removed.                            *)
(***************************************************************************)
EXTENDS StoreThread, SequencesExt

CONSTANTS
    BatchRoom,     \* commands queued when the owner still takes a scan event
    MaxRemovals,   \* MAX_REMOVALS_BEFORE_FIRST_MAP
    EventCapacity, \* bound of the workers' event channel
    MaxGeneration  \* bound: no deletion starts once this generation has begun

NoEntry == "none"

ASSUME ReconciliationAssumption ==
    /\ BatchRoom \in Nat /\ MaxRemovals \in Nat /\ EventCapacity \in Nat \ {0}
    /\ MaxGeneration \in Nat /\ NoEntry \notin Entries

VARIABLES
    own,        \* the owner: App, StoreHandle and the loop's flags
    events,     \* the workers' event channel
    scan,       \* the scan under way
    executing,  \* the target of the execution under way, or NoEntry
    reported,   \* entries whose complete removal the owner was told of
    unreadable, \* failures the owner was told of: <<generation of the scan, entry>>
    excusals    \* failures of the first scan it took for the work of a deletion

vars == <<disk, storeVars, own, events, scan, executing, reported, unreadable, excusals>>
history == <<reported, unreadable, excusals>>

NoScan == [gen |-> NoGeneration, seen |-> [e \in Entries |-> "told"], cancelled |-> FALSE]
NewScan(generation) ==
    [gen |-> generation, seen |-> [e \in Entries |-> "unread"], cancelled |-> FALSE]

\* loaded, live: the first map was shown; the page on screen is a live one.
\* required, active, invalidated, suppressed: the rebuild's four flags.
\* prefixes, rebuild, beforeMap, excused: RemovalsBeforeFirstMap.
\* page: a live page is asked for, and again.  lease: that of the rebuild's scan.
\* epoch: the coordinator's generation.  full: a command met a full queue.
Init ==
    /\ StoreInit
    /\ own = [available |-> TRUE, loaded |-> FALSE, live |-> TRUE,
              required |-> FALSE, active |-> FALSE, invalidated |-> FALSE,
              suppressed |-> FALSE,
              prefixes |-> <<>>, rebuild |-> FALSE, beforeMap |-> 0, excused |-> FALSE,
              publications |-> <<>>, finished |-> <<>>,
              hidden |-> {}, refreshOwed |-> FALSE,
              installed |-> NoMap, accepting |-> 0, latest |-> 0, notes |-> {},
              page |-> "none", stopReported |-> FALSE,
              primaryScan |-> TRUE, lease |-> NoGeneration, epoch |-> 0,
              sent |-> <<>>, full |-> FALSE, ended |-> FALSE]
    /\ events = <<>> /\ scan = NewScan(0)
    /\ executing = NoEntry
    /\ reported = {} /\ unreadable = {} /\ excusals = {}

-----------------------------------------------------------------------------
(***************************************************************************)
(* The handle.                                                             *)
(***************************************************************************)
Room(s) == CommandCapacity - Len(commands) - Len(s.sent)
NotesOf(s) == IF s.notes = {} THEN <<>> ELSE <<Notes(s.notes)>>
Reaches(s) == store.running /\ Len(NotesOf(s)) < Room(s)

\* Mutant: a decision overtakes the notes it bears on.
NotesLast(s, c) == <<c>> \o NotesOf(s)
NotesFirst(s, c) == NotesOf(s) \o <<c>>

\* What does not fit is lost, and the caller is told (~Reaches).
Send(s, c) ==
    LET out == NotesFirst(s, c)
        fits == IF Len(out) =< Room(s) THEN Len(out) ELSE Room(s)
    IN IF store.running
       THEN [s EXCEPT !.notes = {}, !.sent = @ \o SubSeq(out, 1, fits),
                      !.full = @ \/ fits < Len(out)]
       ELSE [s EXCEPT !.notes = {}]

Fatal(s) == [s EXCEPT !.ended = TRUE]
HandleDiscard(s) == Send([s EXCEPT !.accepting = NoGeneration], Command("DiscardActive"))
HandleCancel(s) == Send([s EXCEPT !.accepting = NoGeneration], Command("CancelActive"))
RequestPage(s) ==
    IF s.page # "none" THEN [s EXCEPT !.page = "again"]
    ELSE IF Reaches(s) THEN Send([s EXCEPT !.page = "asked"], Command("ProvisionalPage"))
    ELSE Send(s, Command("ProvisionalPage"))
NextGeneration(s) == s.latest + 1

\* Mutant: every batch is taken.
AlwaysRoom == TRUE
HasRoomForBatch == Len(commands) =< BatchRoom

-----------------------------------------------------------------------------
(***************************************************************************)
(* Giving a map up.                                                        *)
(***************************************************************************)
ClearRemovals(s) ==
    [s EXCEPT !.prefixes = <<>>, !.rebuild = FALSE, !.excused = FALSE, !.beforeMap = 0]
NoRemovals(s) == s.prefixes = <<>> /\ ~s.rebuild

Abandon(s) == ClearRemovals([HandleDiscard(s) EXCEPT !.available = FALSE])
FailStore(s) == IF s.available THEN Abandon(s) ELSE s

CanRetainSnapshot(s) == ~s.live /\ s.installed # NoMap

\* invalidate_snapshot_view_for_live_mutation: the map is scanned again.
Invalidate(s) ==
    LET kept == CanRetainSnapshot(s)
    IN ClearRemovals([HandleDiscard(s) EXCEPT
         !.available = kept, !.live = @ \/ ~kept,
         !.invalidated = @ \/ s.active, !.suppressed = FALSE, !.required = TRUE])

Busy(s) ==
    \/ s.publications # <<>> \/ s.finished # <<>>
    \/ s.available /\ s.prefixes # <<>> /\ s.installed # NoMap

UsesLivePage(s) ==
    /\ s.live /\ s.available /\ s.accepting # NoGeneration
    /\ ~s.loaded \/ s.active

-----------------------------------------------------------------------------
(***************************************************************************)
(* Removals and overlays.                                                  *)
(***************************************************************************)
FirstMapIsOwed(s) ==
    /\ s.available /\ ~s.loaded /\ s.installed = NoMap
    /\ ~s.required /\ ~s.active

RecordRemoval(s, e, described) ==
    IF Len(s.prefixes) < MaxRemovals
    THEN [s EXCEPT !.rebuild = @ \/ ~described, !.prefixes = Append(@, e),
                   !.beforeMap = @ + 1]
    ELSE [s EXCEPT !.rebuild = TRUE]

SettleRemovals(s) ==
    IF NoRemovals(s) THEN s
    ELSE IF ~s.available \/ s.installed = NoMap THEN ClearRemovals(s)
    ELSE IF s.rebuild THEN Invalidate(s) ELSE s

\* Mutant: an overlay is asked for while another is under way.
OverlayMayStartEarly(s) == s.available /\ s.installed # NoMap /\ s.prefixes # <<>>
OverlayMayStart(s) ==
    /\ s.available /\ s.publications = <<>> /\ s.installed # NoMap
    /\ s.prefixes # <<>>

StartNextOverlay(s) ==
    IF ~OverlayMayStart(s) THEN s
    ELSE LET prefix == Head(s.prefixes)
             rest == Tail(s.prefixes)
             next == NextGeneration(s)
             popped == [s EXCEPT !.prefixes = rest,
                                 !.beforeMap = IF @ > 0 THEN @ - 1 ELSE 0]
             sent == Send(popped, Overlay(next, prefix, ToSet(rest), s.beforeMap > 0,
                                          s.installed))
         IN IF ~Reaches(popped) THEN Invalidate(sent)
            ELSE [sent EXCEPT !.accepting = NoGeneration, !.latest = next,
                              !.publications = Append(@, "Overlay"), !.epoch = next]

\* reconcile_generation_after_deletion, for a report that deleted something.
Reconcile(s, e, described) ==
    IF FirstMapIsOwed(s) THEN RecordRemoval(s, e, described)
    ELSE IF \/ ~described \/ s.installed = NoMap
            \/ \E i \in DOMAIN s.publications : s.publications[i] # "Overlay"
            \/ Len(s.prefixes) >= MaxRemovals
         THEN Invalidate(s)
    ELSE StartNextOverlay([s EXCEPT !.prefixes = Append(@, e)])

\* Mutant: an excused failure is forgotten, however the execution ended.
ExcuseForgotten(s, described) == [s EXCEPT !.excused = FALSE]
ExcusedExecutionEnded(s, described) ==
    LET taken == [s EXCEPT !.excused = FALSE]
    IN IF ~s.excused \/ described THEN taken
       ELSE IF FirstMapIsOwed(s) THEN [taken EXCEPT !.rebuild = TRUE]
       ELSE IF s.available /\ s.installed # NoMap THEN Invalidate(taken)
       ELSE taken

-----------------------------------------------------------------------------
(***************************************************************************)
(* Publications and rebuilds.                                              *)
(***************************************************************************)
Finish(s, what) == [s EXCEPT !.finished = Append(@, what)]

BeginsPublication(s) == s.available /\ Reaches(s)
BeginPublication(s, kind) ==
    LET sent == Send(s, Command("Publish"))
    IN IF ~s.available THEN s
       ELSE IF ~Reaches(s) THEN Abandon(sent)
       ELSE [sent EXCEPT !.accepting = NoGeneration,
                         !.publications = Append(@, kind)]

BeginPrimaryPublication(s) ==
    IF BeginsPublication(s) THEN BeginPublication(s, "Primary")
    ELSE Finish(SettleRemovals(BeginPublication(s, "Primary")), "Primary")

BeginRebuildPublication(s) ==
    IF s.invalidated THEN Finish(s, "Rebuild")
    ELSE IF s.suppressed THEN Finish(s, "RebuildCancelled")
    ELSE IF BeginsPublication(s) THEN BeginPublication(s, "Rebuild")
    ELSE Finish(BeginPublication(s, "Rebuild"), "RebuildFailed")

\* start_pending_generation_rebuild.  A store that cannot be reached ends the run.
StartPendingRebuild(s) ==
    LET next == NextGeneration(s)
        sent == Send(s, BeginGeneration(next))
    IN IF \/ s.primaryScan \/ s.lease # NoGeneration
          \/ ~s.required \/ s.active \/ s.suppressed \/ Busy(s) \/ s.ended
       THEN s
       ELSE IF ~Reaches(s) THEN Fatal(sent)
       ELSE [sent EXCEPT !.accepting = next, !.latest = next, !.epoch = next,
                         !.available = TRUE, !.active = TRUE, !.invalidated = FALSE,
                         !.required = FALSE, !.lease = next]

Install(s, a) == IF a.outcome = "map" THEN [s EXCEPT !.installed = a.map] ELSE s

\* settle_publication.
CompletePrimary(s, a) ==
    LET settled == IF ~s.available THEN s
                   ELSE IF a.outcome = "error" THEN Abandon(s)
                   ELSE IF a.outcome = "summary" THEN [s EXCEPT !.available = FALSE]
                   ELSE [Install(s, a) EXCEPT !.live = FALSE]
    IN Finish(SettleRemovals(settled), "Primary")

CompleteRebuildPublication(s, a) ==
    IF s.suppressed THEN Finish(s, "RebuildCancelled")
    ELSE IF ~s.available \/ a.outcome # "map" THEN Finish(s, "RebuildFailed")
    ELSE Finish(Install(s, a), "Rebuild")

CompleteOverlay(s, a) ==
    IF ~s.available THEN s
    ELSE IF a.outcome # "map" THEN Invalidate(s)
    ELSE StartNextOverlay(Install(s, a))

Settle(s, a) ==
    LET rest == [s EXCEPT !.publications = Tail(@)]
    IN CASE s.publications = <<>> -> s
         [] s.publications # <<>> /\ Head(s.publications) = "Primary" ->
              CompletePrimary(rest, a)
         [] s.publications # <<>> /\ Head(s.publications) = "Rebuild" ->
              CompleteRebuildPublication(rest, a)
         [] s.publications # <<>> /\ Head(s.publications) = "Overlay" ->
              CompleteOverlay(rest, a)

\* scan_store_stopped: what is outstanding ends as failed.
StoreStopped(s) ==
    LET Loop[k \in 0..Len(s.publications)] ==
          IF k = 0 THEN FailStore(s)
          ELSE Settle(Loop[k - 1], Answer("Publication", "error", NoMap))
    IN  Loop[Len(s.publications)]

PageArrives(s, a) ==
    LET answered == [s EXCEPT !.page = "none"]
        next == IF s.page = "again" THEN RequestPage(answered) ELSE answered
    IN IF UsesLivePage(next) /\ a.outcome = "error" THEN FailStore(next) ELSE next

ApplyAnswer(s, a) ==
    CASE a.kind = "AdmissionFailed" -> FailStore(s)
      [] a.kind = "ProvisionalPage" -> PageArrives(s, a)
      [] a.kind = "Publication" -> Settle(s, a)
      [] a.kind = "Failure" -> StoreStopped(s)

\* complete_primary_scan: the reduction lease is of the first generation.
CompletePrimaryScan(s) ==
    IF s.epoch # 0 THEN Fatal(s)
    ELSE StartPendingRebuild(StartNextOverlay([s EXCEPT !.loaded = TRUE]))

\* cancel_generation_rebuild and finish_generation_rebuild, behind the lease.
CancelRebuild(s) ==
    LET kept == s.available /\ CanRetainSnapshot(s)
        closed == [HandleCancel(s) EXCEPT
                     !.active = FALSE, !.invalidated = FALSE, !.required = TRUE,
                     !.available = kept, !.live = @ \/ ~kept]
    IN IF ~s.active THEN s ELSE IF Reaches(s) THEN closed ELSE Fatal(closed)
FinishRebuild(s, failed) ==
    LET over == [s EXCEPT !.invalidated = FALSE, !.active = FALSE,
                          !.required = s.invalidated]
    IN IF s.invalidated THEN over
       ELSE IF failed THEN Abandon(over)
       ELSE [over EXCEPT !.suppressed = FALSE, !.live = FALSE,
                         !.available = @ /\ s.installed # NoMap]
CompleteRebuild(s, how) ==
    LET released == [s EXCEPT !.lease = NoGeneration]
    IN IF s.lease # s.epoch THEN Fatal(s)
       ELSE StartPendingRebuild(
              IF how = "RebuildCancelled" THEN CancelRebuild(released)
              ELSE FinishRebuild(released, how = "RebuildFailed"))

Complete(s, what) ==
    IF s.ended THEN s
    ELSE IF what = "Primary" THEN CompletePrimaryScan(s) ELSE CompleteRebuild(s, what)

\* Mutant: a refresh is reported while removals wait for their overlay.
LandsEarly(s) == s.refreshOwed /\ ~s.required /\ ~s.active /\ s.publications = <<>>
RefreshLanded(s) ==
    /\ s.refreshOwed /\ ~s.required /\ ~s.active
    /\ ~Busy(s) /\ NoRemovals(s)
TakeLandedRefresh(s) ==
    IF ~RefreshLanded(s) THEN s
    ELSE [s EXCEPT !.refreshOwed = FALSE, !.hidden = IF s.available THEN {} ELSE @]

-----------------------------------------------------------------------------
(***************************************************************************)
(* The owner loop.                                                         *)
(***************************************************************************)
\* The owner becomes s, and what s sent is on its way; a rebuild that began
\* has its scan.
Become(s) ==
    /\ own' = [s EXCEPT !.sent = <<>>]
    /\ commands' = commands \o s.sent
    /\ scan' = IF s.lease \in {own.lease, NoGeneration} THEN scan ELSE NewScan(s.lease)

Stopped ==
    /\ ~store.running /\ ~own.stopReported /\ Len(results) < ResultCapacity
Answers == results \o (IF Stopped THEN Failed("Failure") ELSE <<>>)

\* Mutant: the end of a publication starts nothing.
StartsNothing(s) == s
StartWorkThatWaited(s) == StartPendingRebuild(s)

ApplyAnswers(s, answers) ==
    LET Loop[k \in 0..Len(answers)] ==
          IF k = 0 THEN s ELSE ApplyAnswer(Loop[k - 1], answers[k])
    IN  Loop[Len(answers)]
CompleteAll(s, ended) ==
    LET Loop[k \in 0..Len(ended)] ==
          IF k = 0 THEN s ELSE Complete(Loop[k - 1], ended[k])
    IN  Loop[Len(ended)]

\* process_scan_store_events: the answers, the publications they ended, what
\* waited for them, and the refresh that has landed.
ProcessStoreEvents ==
    /\ ~own.ended
    /\ Answers # <<>> \/ own.finished # <<>> \/ RefreshLanded(own)
    /\ LET applied == ApplyAnswers([own EXCEPT !.stopReported = @ \/ Stopped], Answers)
           over == CompleteAll([applied EXCEPT !.finished = <<>>], applied.finished)
           started == IF Answers # <<>> \/ applied.finished # <<>>
                      THEN StartWorkThatWaited(over) ELSE over
       IN Become(IF started.ended THEN started ELSE TakeLandedRefresh(started))
    /\ results' = <<>>
    /\ UNCHANGED <<disk, store, faults, events, executing, history>>

\* admit_scan_input_runs.
AdmitRuns(s, event) ==
    IF ~s.available THEN s
    ELSE LET sent == Send(s, Admit(event.gen, event.entry))
         IN IF Reaches(s) THEN sent ELSE Abandon(sent)

\* handle_scan_failure, and a capacity failure of a worker.
NoteFailure(s, e) == IF s.available THEN [s EXCEPT !.notes = @ \union {e}] ELSE s

\* path_removed_by_a_deletion: with a removal recorded, or one under way.
RemovedByDeletion(s, e) ==
    FirstMapIsOwed(s) /\ (e \in ToSet(s.prefixes) \/ executing = e)
Excuse(s, e) ==
    IF e \in ToSet(s.prefixes) THEN s ELSE [s EXCEPT !.excused = TRUE]

\* finish_primary_scan and finish_generation_rebuild.
ScanFinished(s, cancelled) ==
    IF s.lease = NoGeneration
    THEN BeginPrimaryPublication([s EXCEPT !.primaryScan = FALSE])
    ELSE IF cancelled THEN CompleteRebuild(s, "RebuildCancelled")
    ELSE BeginRebuildPublication(s)

\* complete_deletion and what the loop does behind it.
Gone(outcome) == outcome \in {"whole", "links"}
DeletionFinished(s, e, outcome) ==
    LET deleted == outcome # "nothing"
        told == [s EXCEPT !.refreshOwed = @ \/ deleted,
                          !.hidden = IF Gone(outcome) THEN @ \union {e} ELSE @]
        described == outcome = "whole" /\ s.available
        reconciled == IF deleted THEN Reconcile(told, e, described) ELSE told
    IN StartPendingRebuild(ExcusedExecutionEnded(reconciled, described))

\* handle_worker_event.
Handle(s, event) ==
    CASE event.kind = "batch" -> AdmitRuns(s, event)
      [] event.kind = "failed" -> NoteFailure(s, event.entry)
      [] event.kind = "gone" ->
            IF RemovedByDeletion(s, event.entry) THEN Excuse(s, event.entry)
            ELSE NoteFailure(s, event.entry)
      [] event.kind = "capacity" -> FailStore(s)
      [] event.kind = "finished" -> ScanFinished(s, event.cancelled)
      [] event.kind = "report" -> DeletionFinished(s, event.entry, event.outcome)
      [] event.kind = "rejected" -> ExcusedExecutionEnded(s, FALSE)

\* process_worker_batch: one event, while the store thread keeps up.
EndsExecution(event) == event.kind \in {"report", "rejected"}
TakeEvent ==
    /\ ~own.ended /\ HasRoomForBatch /\ events # <<>>
    /\ LET event == Head(events)
           excused == event.kind = "gone" /\ RemovedByDeletion(own, event.entry)
       IN /\ Become(Handle(own, event))
          /\ executing' = IF EndsExecution(event) THEN NoEntry ELSE executing
          /\ reported' = IF event.kind = "report" /\ Gone(event.outcome)
                         THEN reported \union {event.entry} ELSE reported
          /\ unreadable' = IF \/ event.kind = "failed"
                              \/ event.kind = "gone" /\ ~excused
                           THEN unreadable \union {<<event.gen, event.entry>>}
                           ELSE unreadable
          /\ excusals' = IF excused THEN excusals \union {event.entry} ELSE excusals
    /\ events' = Tail(events)
    /\ UNCHANGED <<disk, results, store, faults>>

\* The reader gives the rebuild up.
PressCancelRebuild ==
    /\ ~own.ended /\ own.lease # NoGeneration /\ ~own.suppressed
    /\ own' = [own EXCEPT !.suppressed = TRUE]
    /\ scan' = [scan EXCEPT !.cancelled = TRUE]
    /\ UNCHANGED <<disk, storeVars, events, executing, history>>

\* refresh_board_from_scan: a loading frame asks for the live view.
AskLivePage ==
    /\ ~own.ended /\ UsesLivePage(own) /\ own.page # "again"
    /\ Become(IF own.page # "none" \/ Reaches(own) THEN RequestPage(own)
              ELSE FailStore(RequestPage(own)))
    /\ UNCHANGED <<disk, results, store, faults, events, executing, history>>

-----------------------------------------------------------------------------
(***************************************************************************)
(* The scan and the executor.                                              *)
(***************************************************************************)
Tell(event) ==
    /\ Len(events) < EventCapacity
    /\ events' = Append(events, event)
Scanning == scan.gen # NoGeneration /\ ~own.ended
ScanTells(kind, e) == Tell([kind |-> kind, gen |-> scan.gen, entry |-> e])
See(e, how) == scan' = [scan EXCEPT !.seen[e] = how]

\* The folder is listed: an entry of it is told of, one already removed is not.
List(e) ==
    /\ Scanning /\ scan.seen[e] = "unread"
    /\ IF e \in disk THEN ScanTells("batch", e) /\ See(e, "listed")
       ELSE See(e, "told") /\ UNCHANGED events
    /\ UNCHANGED <<disk, storeVars, own, executing, history>>

\* An entry listed is opened, is gone by now, or cannot be read.  Below the target
\* of an execution under way anything may be gone.
Open(e) ==
    /\ Scanning /\ scan.seen[e] = "listed" /\ See(e, "told")
    /\ \/ UNCHANGED <<events, faults>>
       \/ (e \notin disk \/ executing = e) /\ ScanTells("gone", e) /\ UNCHANGED faults
       \/ faults < MaxFaults /\ faults' = faults + 1 /\ ScanTells("failed", e)
    /\ UNCHANGED <<disk, commands, results, store, own, executing, history>>

\* A worker has no room to seal a batch.
RunOutOfRoom ==
    /\ Scanning /\ faults < MaxFaults /\ faults' = faults + 1
    /\ Tell([kind |-> "capacity"])
    /\ UNCHANGED <<disk, commands, results, store, own, scan, executing, history>>

\* The scan is over: it has told everything, it was cancelled, or the coordinator
\* moved on and withdrew its leases.
FinishScan ==
    /\ Scanning
    /\ \/ scan.cancelled \/ scan.gen # own.epoch
       \/ \A e \in Entries : scan.seen[e] = "told"
    /\ Tell([kind |-> "finished", cancelled |-> scan.cancelled])
    /\ scan' = NoScan
    /\ UNCHANGED <<disk, storeVars, own, executing, history>>

\* Confirmed and planned: the work is handed to the executor.
OnScreen == IF own.live THEN {e \in Entries : scan.seen[e] # "unread"}
            ELSE own.installed.listed \ own.hidden
OwedToDeletion ==
    \/ \E i \in DOMAIN own.publications : own.publications[i] # "Rebuild"
    \/ own.available /\ own.prefixes # <<>> /\ own.installed # NoMap
StartDeletion(e) ==
    /\ ~own.ended /\ executing = NoEntry /\ own.latest < MaxGeneration
    /\ own.available /\ ~own.required /\ ~own.active /\ ~OwedToDeletion
    /\ e \in OnScreen /\ e \in disk
    /\ executing' = e
    /\ UNCHANGED <<disk, storeVars, own, events, scan, history>>

Executing(e) ==
    executing = e /\ ~\E i \in DOMAIN events : EndsExecution(events[i])
RemoveTarget(e) ==
    /\ Executing(e) /\ e \in disk
    /\ disk' = disk \ {e}
    /\ UNCHANGED <<storeVars, own, events, scan, executing, history>>

EndExecution(e) ==
    /\ Executing(e) /\ ~own.ended
    /\ \/ \E outcome \in {"part"} \union IF e \in disk THEN {"nothing"}
                                              ELSE {"whole", "links"} :
            Tell([kind |-> "report", entry |-> e, outcome |-> outcome])
       \/ e \in disk /\ Tell([kind |-> "rejected"])
    /\ UNCHANGED <<disk, storeVars, own, scan, executing, history>>

-----------------------------------------------------------------------------
StoreStep ==
    /\ Apply \/ SendHeld \/ ThreadStops
    /\ UNCHANGED <<own, events, scan, executing, history>>

Next ==
    \/ StoreStep \/ ProcessStoreEvents \/ TakeEvent
    \/ PressCancelRebuild \/ AskLivePage
    \/ RunOutOfRoom \/ FinishScan
    \/ \E e \in Entries : \/ List(e) \/ Open(e) \/ StartDeletion(e)
                          \/ RemoveTarget(e) \/ EndExecution(e)

Spec == Init /\ [][Next]_vars

-----------------------------------------------------------------------------
(***************************************************************************)
(* Properties.                                                             *)
(***************************************************************************)
\* As long as the run goes on, what the reader was told is removed is on no map
\* shown: it is not listed, or left out, from its report until a map without it is
\* installed, whatever overlays, rebuilds and failures come between
\* (removed_but_listed, app.rs).
RemovedStaysHidden ==
    ~own.ended /\ ~own.live => own.installed.listed \intersect reported \subseteq own.hidden

\* As long as the run goes on, a map that is installed lists every entry there is,
\* and every failure of the scan it goes back to that the owner was told of (notes
\* sent before decisions, admissions that failed never published).
MapIsWhole ==
    ~own.ended /\ own.installed # NoMap =>
        /\ disk \subseteq own.installed.listed
        /\ {f[2] : f \in {u \in unreadable : u[1] = own.installed.scan}}
             \subseteq own.installed.unread

\* A map is never replaced, in a step that does not end the run, by one that goes
\* back to an older scan, or by one that lists again what it had left out: overlays
\* and rebuilds are published one at a time, each from the map then installed
\* (start_next_removal_overlay).
MapNeverGoesBack ==
    [][~own'.ended /\ own'.installed # own.installed /\ own.installed # NoMap =>
         /\ own'.installed.scan >= own.installed.scan
         /\ own'.installed.gen > own.installed.gen
         /\ own'.installed.listed \subseteq own.installed.listed]_vars

\* No command of the owner meets a full queue, which would cost it the map: the
\* gate on batches and CONTROL_RESERVE leave room for every decision.
ControlFits == ~own.full

\* A failure below a deletion's target that was not counted because the deletion
\* was at work is made good when the deletion leaves the target there: the map is
\* to be scanned again, or is lost (excused_execution_ended).
ExcusedIsRepaired ==
    own.installed.scan = 0 /\ own.available /\ executing = NoEntry =>
        \A e \in excusals : e \in disk =>
            own.required \/ own.active \/ own.rebuild

\* The refresh a deletion owes the reader is never stranded: as long as it has not
\* landed, something the owner will hear of is under way, unless the reader gave
\* the rebuild up (the owner loop sleeps when scan_store_busy says nothing is).
SomethingIsUnderWay ==
    \/ commands # <<>> \/ results # <<>> \/ store.held # <<>> \/ events # <<>>
    \/ scan.gen # NoGeneration \/ executing # NoEntry
    \/ own.finished # <<>> \/ RefreshLanded(own)
    \/ ~store.running /\ ~own.stopReported
RefreshIsPursued ==
    own.refreshOwed => own.suppressed \/ own.ended \/ SomethingIsUnderWay

\* The owner never ends the run on an error of its own: the coordinator accepts
\* the work it hands back ("session coordinator rejected completed work",
\* runtime/worker.rs:430), and the store takes what it asks.
OwnerEndsOnlyOnFault == own.ended => faults > 0

=============================================================================
