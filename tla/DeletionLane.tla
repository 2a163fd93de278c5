---------------------------- MODULE DeletionLane ----------------------------
(***************************************************************************)
(* One deletion from the reader's request to its report: the bounded rail  *)
(* of deletion work (src/src/state/deletion_work.rs), the owner loop that  *)
(* is its only writer (src/src/runtime/mod.rs, src/src/app.rs), the        *)
(* planner and executor threads it talks to through channels and atomics   *)
(* (src/src/runtime/worker.rs), and the ways of leaving the program.       *)
(*                                                                         *)
(* The owner runs one handler at a time.  A handler is an action that      *)
(* performs its first effects and leaves the rest of its body in `todo`;   *)
(* the owner takes no other handler until `todo` is empty, but the worker  *)
(* threads run between two of its steps, as they do in the program.        *)
(***************************************************************************)
EXTENDS Integers, Sequences, FiniteSets

CONSTANTS
    Targets,     \* paths the reader may ask to delete: sequences of names
    MaxItems,    \* MAX_DELETION_WORK_ITEMS
    MaxEntries,  \* bound on the entries of one plan
    MaxId,       \* bound on the work identifiers handed out
    ReducedGuardrails  \* whether deletions need no confirmation

ASSUME LaneAssumption ==
    /\ Targets \subseteq Seq(Nat)
    /\ MaxItems \in Nat \ {0}
    /\ MaxEntries \in Nat \ {0}
    /\ MaxId \in Nat
    /\ ReducedGuardrails \in BOOLEAN

Ids == 1 .. MaxId
NoId == 0

Stages == {"AwaitingConfirmation", "Confirming", "QueuedPlanning", "Planning",
           "QueuedExecution", "Executing", "CancellingPlanning"}

\* Stages of work that holds a coordinator lease.
PlannerStages == {"Planning", "CancellingPlanning"}
LeasedStages == PlannerStages \cup {"Executing"}

WorkItem == [target : Targets, stage : Stages]

LeaseKinds == {"PlanDeletion", "ExecuteDeletion"}

(***************************************************************************)
(* What the owner knows of the map.  "loading" is the first scan, still    *)
(* running; "finishing" its publication; "overlay" a map without the last  *)
(* deletion's target still owed; "scanning" and "publishing" a rebuild;    *)
(* "required" a rebuild required that has not begun; "lost" a lost store.  *)
(***************************************************************************)
MapStates == {"loading", "finishing", "ready", "overlay", "scanning",
              "publishing", "required", "lost"}
Debts == {"nothing", "overlay", "rebuild"}

\* "tooSmall" stands for every mode that can show no confirmation.
Modes == {"navigation", "DeleteConfirm", "Exiting", "tooSmall"}
ExitWorks == {"None", "Pending", "Cancelling", "Active", "Stopping"}
MutationStates == {"PREPARING", "CLAIMED", "STARTED", "STOP_REQUESTED"}
PlanResults == {"Planned", "Cancelled", "Stale", "Failed"}
Phases == {"idle", "revalidate", "entry", "claim", "begin", "isolated"}

OwnerSteps == {"show", "startPlanning", "startExecution", "confirmedPlanning",
               "cancelPending", "flush", "quit", "stopAndQuit", "requestStop",
               "prompt", "promptCancelling", "promptStopping", "refreshPrompt",
               "finishExit"}

VARIABLES
    rail,             \* items of DeletionWork, by identifier: oldest is least
    leases,           \* its coordinator leases: identifier -> kind
    nextId,           \* the last identifier handed out
    mode,             \* ui_mode, reduced to what deletion depends on
    modal,            \* deletion_modal_work_id
    exitWork,         \* what the exit dialog says
    map,              \* availability of the map
    owes,             \* what deletions left the map under way owing
    suppressed,       \* generation_rebuild_restart_suppressed
    excused,          \* removals.excused_under_execution
    departure,        \* a removed tile is still dissolving
    cancelRequested,  \* deletion_plan_cancellation_requested
    exitAfterWork,    \* exit_after_work
    running,          \* is_running
    lastPass,         \* once it is false: how far the last pass has come
    signals,          \* confirmed-quit requests handled: 0, 1, 2
    todo,             \* rest of the handler the owner is in
    planCancelled,    \* deletion_plan_cancelled
    softCancelled,    \* deletion_soft_cancelled
    cancelled,        \* the pool's shutdown flag
    activeProgress,   \* whether active_deletion_progress is set
    mutation,         \* mutation_state of the newest execution
    plans,            \* planner command channel
    executions,       \* executor command channel
    events,           \* worker event channel
    planner,          \* what the planner thread works on, or NoId
    executor          \* what the executor thread does

work     == <<rail, leases, nextId>>
screen   == <<mode, modal, exitWork>>
mapVars  == <<map, owes, suppressed, excused, departure>>
ending   == <<exitAfterWork, running, signals>>
loop     == <<exitAfterWork, running, signals, lastPass>>
flags    == <<planCancelled, softCancelled, cancelled>>
progress == <<activeProgress, mutation>>
channels == <<plans, executions, events>>
threads  == <<planner, executor>>
vars == <<work, screen, mapVars, cancelRequested, loop, todo, flags, progress,
          channels, threads>>

-----------------------------------------------------------------------------
(***************************************************************************)
(* The rail.                                                               *)
(***************************************************************************)
StartsWith(path, prefix) ==
    /\ Len(prefix) =< Len(path)
    /\ SubSeq(path, 1, Len(prefix)) = prefix

\* Mutant: a target around one on the rail is not seen to overlap it.
OverlapsInside(left, right) == StartsWith(right, left)

TargetsOverlap(left, right) ==
    StartsWith(left, right) \/ StartsWith(right, left)

InStage(stages) == {id \in DOMAIN rail : rail[id].stage \in stages}

\* Items keep the order they were asked for in, so the first is the oldest.
Oldest(ids) == {id \in ids : \A other \in ids : id =< other}

SetStage(id, stage) == [rail EXCEPT ![id].stage = stage]
Remove(f, ids) == [id \in (DOMAIN f) \ ids |-> f[id]]
Add(f, id, value) ==
    [i \in (DOMAIN f) \cup {id} |-> IF i = id THEN value ELSE f[i]]

\* The executor runs with a fresh record; `late` counts the entries it began
\* to isolate after a stop was asked for.
IdleExecutor == [id |-> NoId, phase |-> "idle", left |-> 0, deleted |-> FALSE,
                 whole |-> FALSE, stopped |-> FALSE, late |-> 0]

-----------------------------------------------------------------------------
(***************************************************************************)
(* Availability (app.rs).                                                  *)
(***************************************************************************)
DeletionIsUnavailable ==
    \/ map \in {"scanning", "publishing", "required", "lost"}
    \/ map = "overlay" /\ owes = "rebuild"
DeletionIsBlocked == DeletionIsUnavailable \/ map = "finishing"
DeletionWaitsForStore == map \in {"finishing", "overlay"}

Init ==
    /\ rail = <<>> /\ leases = <<>> /\ nextId = 0
    /\ mode = "navigation" /\ modal = NoId /\ exitWork = "None"
    /\ map = "loading" /\ owes = "nothing" /\ suppressed = FALSE
    /\ excused = FALSE /\ departure = FALSE
    /\ cancelRequested = FALSE
    /\ exitAfterWork = FALSE /\ running = TRUE /\ lastPass = 0 /\ signals = 0
    /\ todo = <<>>
    /\ planCancelled = FALSE /\ softCancelled = FALSE /\ cancelled = FALSE
    /\ activeProgress = FALSE /\ mutation = "PREPARING"
    /\ plans = <<>> /\ executions = <<>> /\ events = <<>>
    /\ planner = NoId /\ executor = IdleExecutor

OwnerIsFree == todo = <<>> /\ ~cancelled

\* One pass of run_loop serves its sources in this order.  Once is_running is
\* false the pass goes on to its end, each later source once more, and no
\* other begins.
Sources ==
    [signal |-> 1, input |-> 2, store |-> 3, worker |-> 4, departure |-> 5]

Serves(source) ==
    /\ OwnerIsFree
    /\ running \/ lastPass < Sources[source]
    /\ lastPass' = IF running THEN 0 ELSE Sources[source]

\* What every key ends with, and what every worker event ends with.
AfterInput == <<"startPlanning", "startExecution", "finishExit", "flush">>
AfterEvent == <<"startPlanning", "startExecution", "refreshPrompt",
                "finishExit", "flush">>

\* process_deletion_departure, once the departure is over or forced to be.
AfterDeparture == <<"startPlanning", "startExecution", "finishExit">>
ForcedDeparture == IF departure THEN AfterDeparture ELSE <<>>

-----------------------------------------------------------------------------
(***************************************************************************)
(* Effects shared by several handlers.                                     *)
(***************************************************************************)
\* Mutant: a plan that is cancelled leaves the rail at once.
RetainedExecutions(items) ==
    [id \in {i \in DOMAIN items : items[i].stage = "Executing"} |-> items[id]]

\* cancel_pending: what mutates stays, an in-flight plan stays until its
\* planner answers, everything else leaves the rail.
Retained(items) ==
    [id \in {i \in DOMAIN items : items[i].stage \in LeasedStages} |->
        IF items[id].stage = "Planning"
        THEN [items[id] EXCEPT !.stage = "CancellingPlanning"]
        ELSE items[id]]

\* Mutant: the plans to cancel are looked for once they were relabelled.
LeasedAfterRelabelling(items) ==
    \E id \in DOMAIN items \cap DOMAIN leases :
        items[id].stage \in LeasedStages /\ Retained(items)[id].stage = "Planning"

PlannerLeased(items) ==
    \E id \in DOMAIN items \cap DOMAIN leases : items[id].stage = "Planning"

CancelPending(items) ==
    /\ rail' = Retained(items)
    /\ cancelRequested' = (cancelRequested \/ PlannerLeased(items))
    /\ modal' = NoId

DismissedMode == IF mode = "DeleteConfirm" THEN "navigation" ELSE mode

\* begin_generation_rebuild replaces whatever dialog is open.
BeginRebuild ==
    /\ map' = "scanning"
    /\ owes' = "nothing"
    /\ mode' = "navigation"

\* invalidate_snapshot_view_for_live_mutation.  The rebuild it requires waits
\* for the overlay or the rebuild under way, and for a caller that starts it.
Invalidate(items, starts) ==
    /\ CancelPending(items)
    /\ suppressed' = FALSE
    /\ \/ /\ map \in {"overlay", "scanning", "publishing"}
          /\ owes' = "rebuild"
          /\ mode' = DismissedMode
          /\ UNCHANGED map
       \/ /\ map \in {"ready", "required", "lost"}
          /\ starts
          /\ BeginRebuild
       \/ /\ map \in {"ready", "required", "lost"}
          /\ ~starts
          /\ map' = "required"
          /\ owes' = "nothing"
          /\ mode' = DismissedMode

CurrentExitWork ==
    IF InStage({"Executing"}) # {} THEN "Active"
    ELSE IF rail # <<>> THEN "Pending" ELSE "None"

\* Mutant: the exit dialog replaces a confirmation and forgets its item.
PromptOverConfirmation(says) ==
    /\ mode' = "Exiting"
    /\ exitWork' = says
    /\ modal' = NoId
    /\ UNCHANGED rail

\* prompt_exit: a visible confirmation goes back to the rail first.
PromptExit(says) ==
    /\ mode' = "Exiting"
    /\ exitWork' = says
    /\ modal' = NoId
    /\ rail' = IF mode = "DeleteConfirm" /\ modal \in InStage({"Confirming"})
               THEN SetStage(modal, "AwaitingConfirmation")
               ELSE rail

-----------------------------------------------------------------------------
(***************************************************************************)
(* The steps a handler leaves behind.                                      *)
(***************************************************************************)
Step(name) == todo # <<>> /\ Head(todo) = name /\ todo' = Tail(todo)

\* show_next_deletion_confirmation.
CanShow(id) ==
    /\ ~DeletionIsBlocked
    /\ mode = "navigation"
    /\ id \in Oldest(InStage({"AwaitingConfirmation"}))

ShowNextConfirmation ==
    /\ Step("show")
    /\ \/ \E id \in DOMAIN rail :
            /\ CanShow(id)
            /\ rail' = SetStage(id, "Confirming")
            /\ modal' = id
            /\ mode' = "DeleteConfirm"
       \/ /\ \A id \in DOMAIN rail : ~CanShow(id)
          /\ UNCHANGED <<rail, modal, mode>>
    /\ UNCHANGED <<leases, nextId, exitWork, mapVars, cancelRequested, loop,
                   flags, progress, channels, threads>>

\* Nothing may be planned or executed for a map that is lost or being
\* replaced: pending work is cancelled and its dialog dismissed.
GiveUpPending ==
    /\ CancelPending(rail)
    /\ mode' = DismissedMode
    /\ UNCHANGED <<leases, flags, progress, plans, executions>>

\* next_planning_command: one plan at a time.
CanPlan(id) ==
    /\ ~DeletionWaitsForStore
    /\ InStage(PlannerStages) = {}
    /\ id \in Oldest(InStage({"QueuedPlanning"}))

\* submit_deletion_work: the flag is cleared for the plan about to be sent.
SubmitPlan(id) ==
    /\ rail' = SetStage(id, "Planning")
    /\ leases' = Add(leases, id, "PlanDeletion")
    /\ planCancelled' = FALSE
    /\ plans' = Append(plans, id)
    /\ UNCHANGED <<mode, modal, cancelRequested, softCancelled, cancelled,
                   progress, executions>>

StartPlanning ==
    /\ \/ Step("startPlanning") /\ ~exitAfterWork
       \/ Step("confirmedPlanning")
    /\ \/ DeletionIsUnavailable /\ GiveUpPending
       \/ \E id \in DOMAIN rail :
            ~DeletionIsUnavailable /\ CanPlan(id) /\ SubmitPlan(id)
       \/ /\ ~DeletionIsUnavailable
          /\ \A id \in DOMAIN rail : ~CanPlan(id)
          /\ UNCHANGED <<rail, leases, mode, modal, cancelRequested, flags,
                         progress, plans, executions>>
    /\ UNCHANGED <<nextId, exitWork, mapVars, loop, events, threads>>

\* next_execution_command: one execution at a time, which the coordinator
\* enforces too.
CanExecute(id) ==
    /\ ~DeletionWaitsForStore
    /\ InStage({"Executing"}) = {}
    /\ \A i \in DOMAIN leases : leases[i] # "ExecuteDeletion"
    /\ id \in Oldest(InStage({"QueuedExecution"}))

SubmitExecution(id) ==
    /\ rail' = SetStage(id, "Executing")
    /\ leases' = Add(leases, id, "ExecuteDeletion")
    /\ activeProgress' = TRUE
    /\ mutation' = "PREPARING"
    /\ softCancelled' = FALSE
    /\ executions' = Append(executions, id)
    /\ UNCHANGED <<mode, modal, cancelRequested, planCancelled, cancelled,
                   plans>>

\* A departure that is still dissolving holds the next execution back.
StartExecution ==
    /\ Step("startExecution")
    /\ ~exitAfterWork
    /\ \/ ~departure /\ DeletionIsUnavailable /\ GiveUpPending
       \/ \E id \in DOMAIN rail :
            /\ ~departure
            /\ ~DeletionIsUnavailable
            /\ CanExecute(id)
            /\ SubmitExecution(id)
       \/ /\ departure \/ (/\ ~DeletionIsUnavailable
                           /\ \A id \in DOMAIN rail : ~CanExecute(id))
          /\ UNCHANGED <<rail, leases, mode, modal, cancelRequested, flags,
                         progress, plans, executions>>
    /\ UNCHANGED <<nextId, exitWork, mapVars, loop, events, threads>>

\* A confirmed quit starts nothing new.
StartNothing ==
    /\ Step("startPlanning") \/ Step("startExecution")
    /\ exitAfterWork
    /\ UNCHANGED <<work, screen, mapVars, cancelRequested, loop, flags,
                   progress, channels, threads>>

CancelPendingWork ==
    /\ Step("cancelPending")
    /\ CancelPending(rail)
    /\ UNCHANGED <<leases, nextId, mode, exitWork, mapVars, loop, flags,
                   progress, channels, threads>>

\* Mutant: the request is read and not taken.
FlushWithoutTaking ==
    /\ Step("flush")
    /\ planCancelled' = (planCancelled \/ cancelRequested)
    /\ UNCHANGED <<work, screen, mapVars, cancelRequested, loop,
                   softCancelled, cancelled, progress, channels, threads>>

FlushPlanCancellation ==
    /\ Step("flush")
    /\ planCancelled' = (planCancelled \/ cancelRequested)
    /\ cancelRequested' = FALSE
    /\ UNCHANGED <<work, screen, mapVars, loop, softCancelled, cancelled,
                   progress, channels, threads>>

\* The second half of cancel_pending_work_and_exit.
Quit ==
    /\ todo # <<>>
    /\ exitAfterWork' = TRUE
    /\ \/ /\ Head(todo) = "stopAndQuit"
          /\ InStage({"Executing"}) # {}
          /\ softCancelled' = TRUE
          /\ todo' = <<"requestStop", "promptStopping">> \o Tail(todo)
       \/ /\ \/ Head(todo) = "quit"
             \/ Head(todo) = "stopAndQuit" /\ InStage({"Executing"}) = {}
          /\ todo' = <<"promptCancelling">> \o Tail(todo)
          /\ UNCHANGED softCancelled
    /\ UNCHANGED <<work, screen, mapVars, cancelRequested, running, signals,
                   lastPass, planCancelled, cancelled, progress, channels,
                   threads>>

\* Mutant: the stop is stored over whatever state the mutation is in.
StoreStop ==
    /\ Step("requestStop")
    /\ mutation' = IF activeProgress THEN "STOP_REQUESTED" ELSE mutation
    /\ UNCHANGED <<work, screen, mapVars, cancelRequested, loop, flags,
                   activeProgress, channels, threads>>

\* DeletionExecutionProgress::request_stop, of the execution registered.
RequestStop ==
    /\ Step("requestStop")
    /\ mutation' = IF activeProgress /\ mutation \in {"PREPARING", "CLAIMED"}
                   THEN "STOP_REQUESTED" ELSE mutation
    /\ UNCHANGED <<work, screen, mapVars, cancelRequested, loop, flags,
                   activeProgress, channels, threads>>

Prompt ==
    /\ \/ Step("prompt") /\ PromptExit(CurrentExitWork)
       \/ Step("promptCancelling") /\ PromptExit("Cancelling")
       \/ Step("promptStopping") /\ PromptExit("Stopping")
    /\ UNCHANGED <<leases, nextId, mapVars, cancelRequested, loop, flags,
                   progress, channels, threads>>

\* The exit dialog follows the work behind it, after a worker event only.
RefreshPrompt ==
    /\ Step("refreshPrompt")
    /\ exitWork' = IF ~exitAfterWork /\ mode = "Exiting"
                   THEN CurrentExitWork ELSE exitWork
    /\ UNCHANGED <<work, mode, modal, mapVars, cancelRequested, loop, flags,
                   progress, channels, threads>>

\* Mutant: only the map is waited for.
MapIsSettled == map \notin {"scanning", "publishing"} /\ ~departure

WorkIsOver ==
    map \notin {"scanning", "publishing"} /\ rail = <<>> /\ ~departure

FinishExitAfterWork ==
    /\ Step("finishExit")
    /\ IF exitAfterWork /\ WorkIsOver
       THEN /\ exitAfterWork' = FALSE
            /\ running' = FALSE
            /\ lastPass' = Sources.input
       ELSE UNCHANGED <<exitAfterWork, running, lastPass>>
    /\ UNCHANGED <<work, screen, mapVars, cancelRequested, signals, flags,
                   progress, channels, threads>>

OwnerStep ==
    \/ ShowNextConfirmation \/ StartPlanning \/ StartExecution
    \/ StartNothing \/ CancelPendingWork \/ FlushPlanCancellation \/ Quit
    \/ RequestStop \/ Prompt \/ RefreshPrompt \/ FinishExitAfterWork

-----------------------------------------------------------------------------
(***************************************************************************)
(* What the reader does.                                                   *)
(***************************************************************************)
Reader == Serves("input")

Fits(target) ==
    /\ Cardinality(DOMAIN rail) < MaxItems
    /\ \A id \in DOMAIN rail : ~TargetsOverlap(rail[id].target, target)

RequestDeletion(target) ==
    /\ Reader
    /\ mode = "navigation"
    /\ ~DeletionIsBlocked
    /\ Fits(target)
    /\ nextId < MaxId
    /\ nextId' = nextId + 1
    /\ rail' = Add(rail, nextId + 1,
                   [target |-> target,
                    stage  |-> IF ReducedGuardrails THEN "QueuedPlanning"
                               ELSE "AwaitingConfirmation"])
    /\ todo' = <<"show">> \o AfterInput
    /\ UNCHANGED <<leases, screen, mapVars, cancelRequested, ending, flags,
                   progress, channels, threads>>

ConfirmDeletion ==
    /\ Reader
    /\ mode = "DeleteConfirm"
    /\ mode' = "navigation"
    /\ \/ /\ DeletionIsUnavailable
          /\ CancelPending(rail)
          /\ todo' = AfterInput
       \/ /\ ~DeletionIsUnavailable
          /\ modal \in InStage({"Confirming"})
          /\ rail' = SetStage(modal, "QueuedPlanning")
          /\ modal' = NoId
          /\ todo' = <<"confirmedPlanning">> \o AfterInput
          /\ UNCHANGED cancelRequested
    /\ UNCHANGED <<leases, nextId, exitWork, mapVars, ending, flags, progress,
                   channels, threads>>

\* cancel_foreground_deletion_modal of a confirmation: its item leaves.
DropModal == rail' = Remove(rail, {modal}) /\ modal' = NoId

CancelConfirmation ==
    /\ Reader
    /\ mode = "DeleteConfirm"
    /\ DropModal
    /\ mode' = "navigation"
    /\ todo' = AfterInput
    /\ UNCHANGED <<leases, nextId, exitWork, mapVars, cancelRequested, ending,
                   flags, progress, channels, threads>>

\* A frame finds the screen too small.
ScreenTooSmall ==
    /\ OwnerIsFree /\ running
    /\ mode \in {"navigation", "DeleteConfirm"}
    /\ DropModal
    /\ mode' = "tooSmall"
    /\ UNCHANGED <<leases, nextId, exitWork, mapVars, cancelRequested, loop,
                   todo, flags, progress, channels, threads>>

Resize ==
    /\ Reader
    /\ mode = "tooSmall"
    /\ mode' = "navigation"
    /\ todo' = <<"show", "flush">>
    /\ UNCHANGED <<work, modal, exitWork, mapVars, cancelRequested, ending,
                   flags, progress, channels, threads>>

CanExitImmediately == rail = <<>> /\ ~departure
QuitsAtOnce == mode = "tooSmall" \/ (mode = "navigation" /\ map = "lost")

PromptExitKey ==
    /\ Reader
    /\ mode # "Exiting"
    /\ ~(QuitsAtOnce /\ CanExitImmediately)
    /\ departure' = FALSE
    /\ todo' = ForcedDeparture \o <<"prompt">> \o AfterInput
    /\ UNCHANGED <<work, screen, map, owes, suppressed, excused,
                   cancelRequested, ending, flags, progress, channels, threads>>

\* The keys that end the run at once: from a screen that shows no map, and
\* the exit dialog's answer when no work is left.
ExitKey ==
    /\ OwnerIsFree
    /\ running \/ lastPass < Sources.input
    /\ \/ QuitsAtOnce /\ CanExitImmediately
       \/ mode = "Exiting" /\ exitWork = "None"
    /\ running' = FALSE
    /\ lastPass' = Sources.input
    /\ todo' = AfterInput
    /\ UNCHANGED <<work, screen, mapVars, cancelRequested, exitAfterWork,
                   signals, flags, progress, channels, threads>>

DismissExit ==
    /\ Reader
    /\ mode = "Exiting"
    /\ exitWork \in {"None", "Pending", "Active"}
    /\ mode' \in {"navigation", "tooSmall"}
    /\ todo' = <<"show">> \o AfterInput
    /\ UNCHANGED <<work, modal, exitWork, mapVars, cancelRequested, ending,
                   flags, progress, channels, threads>>

\* cancel_pending_work_and_exit, up to the steps it leaves behind.
CancelAndExit(how, then) ==
    /\ departure' = FALSE
    /\ todo' = ForcedDeparture \o <<"cancelPending", "flush", how>> \o then
    /\ UNCHANGED <<work, screen, map, owes, suppressed, excused,
                   cancelRequested, exitAfterWork, running, flags, progress,
                   channels, threads>>

CancelPendingWorkAndExit ==
    /\ Reader
    /\ mode = "Exiting" /\ exitWork = "Pending"
    /\ CancelAndExit("quit", AfterInput)
    /\ UNCHANGED signals

StopDeletionAndExit ==
    /\ Reader
    /\ mode = "Exiting" /\ exitWork = "Active"
    /\ CancelAndExit("stopAndQuit", AfterInput)
    /\ UNCHANGED signals

CancelRebuild ==
    /\ Reader
    /\ mode = "navigation"
    /\ map \in {"scanning", "publishing"}
    /\ suppressed' = TRUE
    /\ todo' = AfterInput
    /\ UNCHANGED <<work, screen, map, owes, excused, departure,
                   cancelRequested, ending, flags, progress, channels, threads>>

\* begin_signal_quit and force_signal_exit.
SignalQuit ==
    /\ Serves("signal")
    /\ signals = 0
    /\ signals' = 1
    /\ CancelAndExit("stopAndQuit", <<"finishExit">>)

\* Mutant: the second request stops the work and leaves the loop running.
ForceWithoutLeaving ==
    /\ OwnerIsFree /\ running
    /\ signals = 1
    /\ signals' = 2
    /\ softCancelled' = TRUE
    /\ exitAfterWork' = FALSE
    /\ todo' = <<"requestStop">>
    /\ UNCHANGED <<work, screen, mapVars, cancelRequested, running, lastPass,
                   planCancelled, cancelled, progress, channels, threads>>

SignalForce ==
    /\ OwnerIsFree /\ running
    /\ signals = 1
    /\ signals' = 2
    /\ softCancelled' = TRUE
    /\ exitAfterWork' = FALSE
    /\ running' = FALSE
    /\ lastPass' = Sources.signal
    /\ todo' = <<"requestStop">>
    /\ UNCHANGED <<work, screen, mapVars, cancelRequested, planCancelled,
                   cancelled, progress, channels, threads>>

\* The dissolve has ended.
DepartureEnds ==
    /\ Serves("departure")
    /\ departure
    /\ departure' = FALSE
    /\ todo' = AfterDeparture
    /\ UNCHANGED <<work, screen, map, owes, suppressed, excused,
                   cancelRequested, ending, flags, progress, channels, threads>>

-----------------------------------------------------------------------------
(***************************************************************************)
(* Worker events: handle_worker_event, one at a time.                      *)
(***************************************************************************)
Handles(kind) ==
    /\ Serves("worker")
    /\ events # <<>>
    /\ Head(events).kind = kind
    /\ events' = Tail(events)
    /\ todo' = AfterEvent

\* An item that was settled leaves with its lease.
Settled(id) == Remove(rail, {id})

\* Mutant: the answer to a cancelled plan is ignored.
PlannedIfWanted ==
    /\ Handles("planned")
    /\ LET id == Head(events).id IN
         /\ leases' = Remove(leases, {id})
         /\ rail' = IF id \notin InStage({"Planning"}) THEN rail
                    ELSE IF Head(events).result = "Planned"
                    THEN SetStage(id, "QueuedExecution")
                    ELSE Settled(id)
    /\ UNCHANGED <<nextId, screen, mapVars, cancelRequested, ending, flags,
                   progress, plans, executions, threads>>

\* planning_succeeded; a plan the reader cancelled meanwhile is dropped.
DeletionPlanned ==
    /\ Handles("planned")
    /\ LET id == Head(events).id IN
         /\ leases' = Remove(leases, {id})
         /\ rail' = IF Head(events).result = "Planned"
                       /\ id \in InStage({"Planning"})
                    THEN SetStage(id, "QueuedExecution")
                    ELSE Settled(id)
    /\ UNCHANGED <<nextId, screen, mapVars, cancelRequested, ending, flags,
                   progress, plans, executions, threads>>

FirstMapIsOwed == map \in {"loading", "finishing"}

\* excused_execution_ended after a rejection: nothing on this path starts the
\* rebuild it may require.
ExecutionRejected ==
    /\ Handles("rejected")
    /\ LET id == Head(events).id IN
         /\ leases' = Remove(leases, {id})
         /\ \/ /\ excused /\ FirstMapIsOwed
               /\ owes' = "rebuild"
               /\ rail' = Settled(id)
               /\ UNCHANGED <<map, suppressed, mode, modal, cancelRequested>>
            \/ /\ excused /\ ~FirstMapIsOwed /\ map # "lost"
               /\ Invalidate(Settled(id), FALSE)
            \/ /\ ~excused \/ map = "lost"
               /\ rail' = Settled(id)
               /\ UNCHANGED <<map, owes, suppressed, mode, modal,
                              cancelRequested>>
    /\ excused' = FALSE
    /\ UNCHANGED <<nextId, exitWork, departure, ending, flags, progress, plans,
                   executions, threads>>

\* record_removal_before_first_map: a rebuild, once owed, stays owed.
OwedAfter(described) ==
    IF described /\ owes # "rebuild" THEN "overlay" ELSE "rebuild"

\* complete_deletion and reconcile_generation_after_deletion, for a report
\* that says what was deleted and whether an overlay can describe it.
Reconcile(items, deleted, described) ==
    \/ /\ ~deleted /\ (~excused \/ map = "lost")
       /\ rail' = items
       /\ UNCHANGED <<map, owes, suppressed, mode, modal, cancelRequested>>
    \/ /\ deleted \/ excused
       /\ FirstMapIsOwed
       /\ owes' = OwedAfter(described)
       /\ rail' = items
       /\ UNCHANGED <<map, suppressed, mode, modal, cancelRequested>>
    \/ /\ described
       /\ map = "ready"
       /\ map' = "overlay"
       /\ rail' = items
       /\ UNCHANGED <<owes, suppressed, mode, modal, cancelRequested>>
    \/ /\ described
       /\ map \in {"overlay", "scanning", "required"}
       /\ rail' = items
       /\ UNCHANGED <<map, owes, suppressed, mode, modal, cancelRequested>>
    \/ /\ \/ deleted /\ ~described
          \/ ~deleted /\ excused /\ map # "lost"
          \/ described /\ map \in {"publishing", "lost"}
       /\ ~FirstMapIsOwed
       /\ Invalidate(items, TRUE)

\* A whole removal may still be one the map cannot describe (other links, too
\* many removals owed).  A tile that goes while the map is in view dissolves.
DeletionFinished ==
    /\ Handles("finished")
    /\ LET report == Head(events) IN
         /\ leases' = Remove(leases, {report.id})
         /\ \E described \in {FALSE, report.whole} :
              Reconcile(Settled(report.id), report.deleted, described)
         /\ \/ UNCHANGED departure
            \/ report.whole /\ mode = "navigation" /\ departure' = TRUE
    /\ excused' = FALSE
    /\ UNCHANGED <<nextId, exitWork, ending, flags, progress, plans, executions,
                   threads>>

-----------------------------------------------------------------------------
(***************************************************************************)
(* The scanner and the scan store, as far as deletion sees them.           *)
(***************************************************************************)
\* The scanner shares the event channel, so its event is the next one only
\* when no deletion event was sent before it.
ScanReports == Serves("worker") /\ events = <<>>

\* A scan reports entries; a rebuild's report may come with the exit dialog
\* open, which then follows the work behind it.
ScanProgress ==
    /\ ScanReports
    /\ map \in {"loading", "scanning"}
    /\ todo' = AfterEvent
    /\ UNCHANGED <<work, screen, mapVars, cancelRequested, ending, flags,
                   progress, channels, threads>>

\* path_removed_by_a_deletion excuses what the running execution may explain.
ScanPathGone ==
    /\ ScanReports
    /\ map = "loading"
    /\ InStage({"Executing"}) # {}
    /\ excused' = TRUE
    /\ todo' = AfterInput
    /\ UNCHANGED <<work, screen, map, owes, suppressed, departure,
                   cancelRequested, ending, flags, progress, channels, threads>>

\* cancel_generation_rebuild keeps the map the reader had, as a stale one.
ScanFinished ==
    /\ ScanReports
    /\ todo' = AfterEvent
    /\ \/ map = "loading" /\ map' = "finishing" /\ UNCHANGED <<owes, mode>>
       \/ /\ map = "scanning" /\ owes = "nothing" /\ ~suppressed
          /\ map' = "publishing"
          /\ UNCHANGED <<owes, mode>>
       \/ /\ map = "scanning" /\ suppressed
          /\ map' = "required"
          /\ owes' = "nothing"
          /\ UNCHANGED mode
       \/ /\ map = "scanning" /\ owes = "rebuild" /\ ~suppressed
          /\ BeginRebuild
    /\ UNCHANGED <<work, modal, exitWork, suppressed, excused, departure,
                   cancelRequested, ending, flags, progress, channels, threads>>

\* start_work_that_waited_for_the_store: no flush, and no look at the dialog.
AfterStore == <<"startPlanning", "startExecution", "finishExit">>

StoreSettles(outcome) == outcome /\ UNCHANGED <<rail, modal, cancelRequested>>

PublicationEnds ==
    /\ Serves("store")
    /\ todo' = AfterStore
    /\ \/ /\ map \in {"finishing", "overlay"} /\ owes = "nothing"
          /\ StoreSettles(map' = "ready"
                          /\ UNCHANGED <<owes, suppressed, mode>>)
       \/ /\ map = "finishing" /\ owes = "overlay"
          /\ StoreSettles(map' = "overlay" /\ owes' = "nothing"
                          /\ UNCHANGED <<suppressed, mode>>)
       \/ /\ map \in {"finishing", "overlay"} /\ owes = "rebuild"
          /\ CancelPending(rail)
          /\ suppressed' = FALSE
          /\ BeginRebuild
       \/ /\ map = "publishing" /\ suppressed
          /\ StoreSettles(map' = "required" /\ owes' = "nothing"
                          /\ UNCHANGED <<suppressed, mode>>)
       \/ /\ map = "publishing" /\ ~suppressed /\ owes = "rebuild"
          /\ StoreSettles(BeginRebuild /\ UNCHANGED suppressed)
       \/ /\ map = "publishing" /\ ~suppressed /\ owes = "nothing"
          /\ StoreSettles(map' = "ready"
                          /\ UNCHANGED <<owes, suppressed, mode>>)
    /\ UNCHANGED <<leases, nextId, exitWork, excused, departure, ending, flags,
                   progress, channels, threads>>

\* An overlay the store could not describe sends the map back to a scan.
OverlayFails ==
    /\ Serves("store")
    /\ map = "overlay"
    /\ todo' = AfterStore
    /\ CancelPending(rail)
    /\ suppressed' = FALSE
    /\ BeginRebuild
    /\ UNCHANGED <<leases, nextId, exitWork, excused, departure, ending, flags,
                   progress, channels, threads>>

\* The map cannot be published, or the store thread stopped: a dialog other
\* than the exit dialog gives way to the message that says so.
StoreIsLost ==
    /\ Serves("store")
    /\ map \in {"finishing", "overlay", "publishing"}
    /\ map' = "lost"
    /\ owes' = "nothing"
    /\ IF mode = "DeleteConfirm"
       THEN DropModal /\ mode' = "navigation"
       ELSE UNCHANGED <<rail, modal, mode>>
    /\ todo' = AfterStore
    /\ UNCHANGED <<leases, nextId, exitWork, suppressed, excused, departure,
                   cancelRequested, ending, flags, progress, channels, threads>>

-----------------------------------------------------------------------------
(***************************************************************************)
(* The end of the run, and the two worker threads.                         *)
(***************************************************************************)
Shutdown ==
    /\ ~running
    /\ OwnerIsFree
    /\ cancelled' = TRUE /\ planCancelled' = TRUE /\ softCancelled' = TRUE
    /\ UNCHANGED <<work, screen, mapVars, cancelRequested, loop, todo,
                   progress, channels, threads>>

\* Mutant: a worker that was told to stop reports nothing.
SendUnlessStopped(event) ==
    events' = IF cancelled \/ softCancelled THEN events
              ELSE Append(events, event)

\* The owner's end of the event channel is dropped at shutdown.
Send(event) == events' = IF cancelled THEN events ELSE Append(events, event)

PlannerReceives ==
    /\ planner = NoId
    /\ plans # <<>>
    /\ planner' = Head(plans)
    /\ plans' = Tail(plans)
    /\ UNCHANGED <<work, screen, mapVars, cancelRequested, loop, todo, flags,
                   progress, executions, events, executor>>

\* build_plan_cancellable looks at the flag as it goes.
PlannerAnswers ==
    /\ planner # NoId
    /\ \E result \in PlanResults :
         /\ result = "Planned" => ~planCancelled
         /\ result = "Cancelled" => planCancelled
         /\ Send([kind |-> "planned", id |-> planner, result |-> result])
    /\ planner' = NoId
    /\ UNCHANGED <<work, screen, mapVars, cancelRequested, loop, todo, flags,
                   progress, plans, executions, executor>>

ExecutorReceives ==
    /\ executor.phase = "idle"
    /\ executions # <<>>
    /\ executor' = [IdleExecutor EXCEPT !.id = Head(executions),
                                        !.phase = "revalidate"]
    /\ executions' = Tail(executions)
    /\ UNCHANGED <<work, screen, mapVars, cancelRequested, loop, todo, flags,
                   progress, plans, events, planner>>

\* An execution ends: its progress is deregistered, then its event is sent.
Ends(event) ==
    /\ Send(event)
    /\ executor' = IdleExecutor
    /\ activeProgress' = FALSE
    /\ UNCHANGED mutation

Revalidates ==
    /\ executor.phase = "revalidate"
    /\ \/ /\ ~softCancelled
          /\ \E n \in 1 .. MaxEntries :
               executor' = [executor EXCEPT !.phase = "entry", !.left = n]
          /\ UNCHANGED <<events, progress>>
       \/ Ends([kind |-> "rejected", id |-> executor.id])
    /\ UNCHANGED <<work, screen, mapVars, cancelRequested, loop, todo, flags,
                   plans, executions, planner>>

\* Mutant: a skipped entry is counted twice.
SkippedTwice(stops) ==
    [executor EXCEPT !.phase = "entry", !.left = @ - 2,
                     !.stopped = @ \/ stops]

\* An entry ends without being deleted.
Skipped(stops) ==
    [executor EXCEPT !.phase = "entry", !.left = @ - 1,
                     !.stopped = @ \/ stops]

\* Mutant: the loop does not look at the soft flag.
MustStopAtShutdown == executor.stopped \/ cancelled

MustStop == executor.stopped \/ softCancelled \/ cancelled

\* The loop over the entries: the stop is looked at before each of them.
NextEntry ==
    /\ executor.phase = "entry"
    /\ executor.left > 0
    /\ \/ /\ MustStop
          /\ executor' = [executor EXCEPT !.left = 0, !.stopped = TRUE]
       \/ /\ ~MustStop
          /\ \/ executor' = [executor EXCEPT !.phase = "claim"]
             \/ executor' = Skipped(FALSE)
    /\ UNCHANGED <<work, screen, mapVars, cancelRequested, loop, todo, flags,
                   progress, channels, planner>>

Refused == cancelled \/ mutation = "STOP_REQUESTED"

\* try_claim_mutation, then the placeholder.
Claims ==
    /\ executor.phase = "claim"
    /\ \/ /\ Refused
          /\ softCancelled' = TRUE
          /\ executor' = Skipped(TRUE)
          /\ UNCHANGED mutation
       \/ /\ ~Refused
          /\ mutation' = IF mutation = "PREPARING" THEN "CLAIMED" ELSE mutation
          /\ \/ executor' = [executor EXCEPT !.phase = "begin"]
             \/ executor' = Skipped(FALSE)
          /\ UNCHANGED softCancelled
    /\ UNCHANGED <<work, screen, mapVars, cancelRequested, loop, todo,
                   planCancelled, cancelled, activeProgress, channels, planner>>

\* try_begin_mutation, then the rename that isolates the entry.
Begins ==
    /\ executor.phase = "begin"
    /\ \/ /\ Refused
          /\ softCancelled' = TRUE
          /\ \E stops \in BOOLEAN : executor' = Skipped(stops)
          /\ UNCHANGED mutation
       \/ /\ ~Refused
          /\ mutation' = "STARTED"
          /\ executor' = [executor EXCEPT !.phase = "isolated",
                            !.late = IF softCancelled THEN @ + 1 ELSE @]
          /\ UNCHANGED softCancelled
    /\ UNCHANGED <<work, screen, mapVars, cancelRequested, loop, todo,
                   planCancelled, cancelled, activeProgress, channels, planner>>

\* The isolated entry is removed, or not: missing, changed, refused, restored.
\* The target's own entry comes last.
Removes ==
    /\ executor.phase = "isolated"
    /\ \/ executor' = [executor EXCEPT !.phase = "entry", !.left = @ - 1,
                                       !.deleted = TRUE,
                                       !.whole = (executor.left = 1)]
       \/ \E stops \in BOOLEAN : executor' = Skipped(stops)
    /\ UNCHANGED <<work, screen, mapVars, cancelRequested, loop, todo, flags,
                   progress, channels, planner>>

\* finish_report; a run that was stopped has not removed its target whole.
Reports ==
    /\ executor.phase = "entry"
    /\ executor.left = 0
    /\ Ends([kind |-> "finished", id |-> executor.id,
             deleted |-> executor.deleted,
             whole |-> executor.whole /\ ~softCancelled])
    /\ UNCHANGED <<work, screen, mapVars, cancelRequested, loop, todo, flags,
                   plans, executions, planner>>

-----------------------------------------------------------------------------
ReaderActs ==
    \/ \E target \in Targets : RequestDeletion(target)
    \/ ConfirmDeletion \/ CancelConfirmation \/ ScreenTooSmall \/ Resize
    \/ PromptExitKey \/ ExitKey \/ DismissExit \/ CancelPendingWorkAndExit
    \/ StopDeletionAndExit \/ CancelRebuild \/ SignalQuit \/ SignalForce

EventArrives == DeletionPlanned \/ ExecutionRejected \/ DeletionFinished
StoreMoves == PublicationEnds \/ OverlayFails \/ StoreIsLost
PlannerRuns == PlannerReceives \/ PlannerAnswers
ExecutorRuns ==
    \/ ExecutorReceives \/ Revalidates \/ NextEntry \/ Claims \/ Begins
    \/ Removes \/ Reports

Next ==
    \/ OwnerStep \/ ReaderActs \/ DepartureEnds \/ EventArrives
    \/ ScanProgress \/ ScanPathGone \/ ScanFinished \/ StoreMoves
    \/ Shutdown \/ PlannerRuns \/ ExecutorRuns

Spec == Init /\ [][Next]_vars

\* The threads run on their own.  The owner finishes the handler it is in, and
\* a pass of its loop polls every source, so that none waits for ever behind
\* the others; nothing is assumed of the reader.
Fairness ==
    /\ WF_vars(OwnerStep) /\ WF_vars(PlannerRuns) /\ WF_vars(ExecutorRuns)
    /\ SF_vars(EventArrives) /\ SF_vars(ScanFinished)
    /\ SF_vars(StoreMoves) /\ SF_vars(DepartureEnds) /\ SF_vars(Shutdown)

FairSpec == Spec /\ Fairness

-----------------------------------------------------------------------------
(***************************************************************************)
(* Properties.                                                             *)
(***************************************************************************)
Events ==
    [kind : {"planned"}, id : Ids, result : PlanResults]
      \cup [kind : {"rejected"}, id : Ids]
      \cup [kind : {"finished"}, id : Ids, deleted : BOOLEAN, whole : BOOLEAN]

Executors ==
    [id : Ids \cup {NoId}, phase : Phases, left : 0 .. MaxEntries,
     deleted : BOOLEAN, whole : BOOLEAN, stopped : BOOLEAN, late : Nat]

\* Every variable holds what its field in the code can hold.
TypeOK ==
    /\ DOMAIN rail \subseteq Ids /\ rail \in [DOMAIN rail -> WorkItem]
    /\ DOMAIN leases \subseteq Ids /\ leases \in [DOMAIN leases -> LeaseKinds]
    /\ nextId \in 0 .. MaxId
    /\ mode \in Modes /\ modal \in Ids \cup {NoId} /\ exitWork \in ExitWorks
    /\ map \in MapStates /\ owes \in Debts
    /\ suppressed \in BOOLEAN /\ excused \in BOOLEAN /\ departure \in BOOLEAN
    /\ cancelRequested \in BOOLEAN /\ exitAfterWork \in BOOLEAN
    /\ running \in BOOLEAN /\ signals \in 0 .. 2 /\ lastPass \in 0 .. 5
    /\ todo \in Seq(OwnerSteps)
    /\ planCancelled \in BOOLEAN /\ softCancelled \in BOOLEAN
    /\ cancelled \in BOOLEAN
    /\ activeProgress \in BOOLEAN /\ mutation \in MutationStates
    /\ plans \in Seq(Ids) /\ executions \in Seq(Ids) /\ events \in Seq(Events)
    /\ planner \in Ids \cup {NoId}
    /\ executor \in Executors

InChannel(channel) == {channel[i] : i \in DOMAIN channel}
Answers(kinds) == {i \in DOMAIN events : events[i].kind \in kinds}
Reported(kinds) == {events[i].id : i \in Answers(kinds)}

\* A lane's channel, its unread answers and its thread hold one piece of work
\* between them at most.
HoldsOne(channel, answers, id) ==
    /\ Len(channel) =< 1
    /\ \A i, j \in answers : i = j
    /\ channel # <<>> => answers = {} /\ id = NoId
    /\ answers # {} => id = NoId

\* Every plan and execution handed to a worker is where the rail says it is:
\* queued for its thread, on it, or on its way back, once, under its own
\* lease.  A lane never holds more than one, so a submission never finds its
\* channel full ("deletion worker lane was unexpectedly occupied").
LanesMatchRail ==
    ~cancelled =>
      /\ InStage(PlannerStages) =
           InChannel(plans) \cup Reported({"planned"}) \cup ({planner} \ {NoId})
      /\ InStage({"Executing"}) =
           InChannel(executions) \cup Reported({"rejected", "finished"})
             \cup ({executor.id} \ {NoId})
      /\ HoldsOne(plans, Answers({"planned"}), planner)
      /\ HoldsOne(executions, Answers({"rejected", "finished"}), executor.id)
      /\ DOMAIN leases = InStage(LeasedStages)
      /\ \A id \in DOMAIN leases :
           leases[id] = IF rail[id].stage = "Executing" THEN "ExecuteDeletion"
                        ELSE "PlanDeletion"

Unanswered == InChannel(plans) \cup ({planner} \ {NoId})

\* deletion_plan_cancelled is one flag for every plan there will ever be: it
\* is never up for a plan the reader still wants.
NoStrayPlanCancellation ==
    ~cancelled /\ planCancelled => Unanswered \cap InStage({"Planning"}) = {}

\* A cancellation the reader asked for is never lost: as long as its planner
\* has not answered, the flag is up or about to be put up.
CancellationReachesPlanner ==
    Unanswered \cap InStage({"CancellingPlanning"}) # {} =>
        planCancelled \/ cancelRequested

\* The planner never walks a tree the executor is changing, a plan the reader
\* cancelled included: its reservation lasts until its planner answers.
PlannerAndExecutorApart ==
    ~cancelled /\ planner # NoId /\ executor.id # NoId =>
        LET planned == rail[planner].target
            changing == rail[executor.id].target
        IN  ~StartsWith(planned, changing) /\ ~StartsWith(changing, planned)

\* A stop that came before the first mutation keeps the target intact: with
\* mutation_state at STOP_REQUESTED nothing was isolated, and nothing will be.
StopKeepsTargetIntact ==
    mutation = "STOP_REQUESTED" /\ executor.id # NoId =>
        ~executor.deleted /\ executor.phase # "isolated"

\* "Stops at a claim or entry boundary": after a stop was asked for at most
\* the one entry that had passed its boundary is still begun.
StopsAtEntryBoundary == executor.late =< 1

\* Unless it was forced, the run ends only when the rail is empty and the
\* executor has reported.
QuitLeavesNothingRunning ==
    ~running /\ signals < 2 => rail = <<>> /\ executor.phase = "idle"

\* What a dialog lets the reader do fits the rail.  The confirmation's item is
\* the one being confirmed.  An exit dialog that offers to quit at once has no
\* work behind it; one that offers to stop a removal has a removal to stop; and
\* the two that no key answers are shown only while the program is leaving.
\* Nothing is said of the dialog that offers to cancel checks: the end of a
\* publication starts the next execution without asking an open dialog again, so
\* it may be up, with its "No filesystem mutation has started.", over a removal.
DialogMatchesRail ==
    todo = <<>> /\ ~cancelled =>
      /\ mode = "DeleteConfirm" <=> modal # NoId
      /\ InStage({"Confirming"}) = {modal} \ {NoId}
      /\ mode = "Exiting" /\ exitWork = "None" => rail = <<>>
      /\ mode = "Exiting" /\ exitWork = "Active" /\ running /\ ~exitAfterWork =>
            InStage({"Executing"}) # {}
      /\ mode = "Exiting" /\ exitWork \in {"Cancelling", "Stopping"} =>
            exitAfterWork \/ ~running

\* A plan the reader cancelled is acknowledged, so that its reservation on the
\* rail ends.
CancelledPlanIsReleased ==
    \A id \in Ids :
        (id \in InStage({"CancellingPlanning"}))
            ~> (id \notin DOMAIN rail \/ cancelled)

\* An execution handed to the executor leaves the rail, whatever stops it.
ExecutionEnds ==
    \A id \in Ids :
        (id \in InStage({"Executing"})) ~> (id \notin DOMAIN rail \/ cancelled)

\* A forced exit reaches the shutdown, and the executor the shutdown joins
\* comes to rest.
ForcedExitEnds == (signals = 2) ~> (cancelled /\ executor.phase = "idle")
=============================================================================
