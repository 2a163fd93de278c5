------------------------ MODULE DeletionLaneProofs ------------------------
(***************************************************************************)
(* Proofs about DeletionLane.  One inductive invariant, LaneIInv, carries  *)
(* every invariant of the module.  Its parts are proved one after another: *)
(* each section states a part and shows that every step keeps it, from the *)
(* parts before it; LaneInductive puts them together.                      *)
(***************************************************************************)
EXTENDS DeletionLane, SequenceTheorems, TLAPS

USE DEF work, screen, mapVars, ending, loop, flags, progress, channels, threads

\* Between the rail and g only item id loses its lease, and none gains one: g
\* holds no other items than the rail, with the targets they had.
Keeps(id, g) ==
    /\ DOMAIN g \subseteq DOMAIN rail
    /\ g \in [DOMAIN g -> WorkItem]
    /\ \A i \in DOMAIN g : g[i].target = rail[i].target
    /\ \A i \in DOMAIN rail :
         i # id /\ rail[i].stage \in LeasedStages => i \in DOMAIN g
    /\ \A i \in DOMAIN g :
         /\ i # id =>
              /\ g[i].stage \in PlannerStages <=> rail[i].stage \in PlannerStages
              /\ g[i].stage = "Executing" <=> rail[i].stage = "Executing"
         /\ i = id => g[i].stage \notin LeasedStages

RailTypes ==
    /\ DOMAIN rail \subseteq Ids /\ rail \in [DOMAIN rail -> WorkItem]
    /\ DOMAIN leases \subseteq Ids /\ leases \in [DOMAIN leases -> LeaseKinds]
    /\ nextId \in 0 .. MaxId

\* Cancelling what is pending takes no lease away.
LEMMA RetainedKeeps ==
    ASSUME RailTypes, NEW id, NEW g, Keeps(id, g)
    PROVE  Keeps(id, Retained(g))
<1> DEFINE r == Retained(g)
<1>1. DOMAIN r = {i \in DOMAIN g : g[i].stage \in LeasedStages}
    BY DEF Retained
<1>2. \A i \in DOMAIN r :
        r[i] = IF g[i].stage = "Planning"
               THEN [g[i] EXCEPT !.stage = "CancellingPlanning"] ELSE g[i]
    BY DEF Retained
<1>3. \A i \in DOMAIN g : g[i] \in WorkItem
    BY DEF Keeps
<1>4. \A i \in DOMAIN r :
        /\ r[i] \in WorkItem
        /\ r[i].target = g[i].target
        /\ r[i].stage = IF g[i].stage = "Planning" THEN "CancellingPlanning"
                        ELSE g[i].stage
    BY <1>1, <1>2, <1>3 DEF WorkItem, Stages
<1>5. r \in [DOMAIN r -> WorkItem]
    BY <1>4 DEF Retained
<1> HIDE DEF r
<1>6. QED
    BY <1>1, <1>4, <1>5 DEF Keeps, LeasedStages, PlannerStages, r

\* What leaves the rail takes no lease but its own.
LEMMA RemoveKeeps ==
    ASSUME RailTypes, NEW id
    PROVE  /\ Keeps(id, Remove(rail, {id}))
           /\ id \notin InStage(LeasedStages) => Keeps(NoId, Remove(rail, {id}))
<1> DEFINE r == Remove(rail, {id})
<1>1. /\ DOMAIN r = DOMAIN rail \ {id}
      /\ \A i \in DOMAIN r : r[i] = rail[i]
      /\ r \in [DOMAIN r -> WorkItem]
    BY DEF Remove, RailTypes
<1>2. NoId \notin DOMAIN rail
    BY DEF RailTypes, Ids, NoId
<1> HIDE DEF r
<1>3. QED
    BY <1>1, <1>2 DEF Keeps, InStage, LeasedStages, PlannerStages, r

\* A change of stage that neither gives a lease nor keeps one.
LEMMA SetStageKeeps ==
    ASSUME RailTypes, NEW id \in DOMAIN rail, NEW stage \in Stages \ LeasedStages
    PROVE  /\ Keeps(id, SetStage(id, stage))
           /\ id \notin InStage(LeasedStages) => Keeps(NoId, SetStage(id, stage))
<1> DEFINE r == SetStage(id, stage)
<1>1. /\ DOMAIN r = DOMAIN rail
      /\ \A i \in DOMAIN r :
            r[i] = IF i = id THEN [rail[id] EXCEPT !.stage = stage] ELSE rail[i]
    BY DEF SetStage
<1>2. \A i \in DOMAIN r : rail[i] \in WorkItem
    BY <1>1 DEF RailTypes
<1>3. \A i \in DOMAIN r :
        /\ r[i] \in WorkItem
        /\ r[i].target = rail[i].target
        /\ r[i].stage = IF i = id THEN stage ELSE rail[i].stage
    BY <1>1, <1>2 DEF WorkItem
<1>4. r \in [DOMAIN r -> WorkItem]
    BY <1>3 DEF SetStage
<1>5. NoId \notin DOMAIN rail
    BY DEF RailTypes, Ids, NoId
<1> HIDE DEF r
<1>6. QED
    BY <1>1, <1>3, <1>4, <1>5 DEF Keeps, InStage, LeasedStages, PlannerStages, r

\* A rail left alone keeps its leases.
LEMMA UnchangedKeeps ==
    ASSUME RailTypes
    PROVE  Keeps(NoId, rail)
<1>1. NoId \notin DOMAIN rail
    BY DEF RailTypes, Ids, NoId
<1>2. QED
    BY <1>1 DEF Keeps, RailTypes, LeasedStages, PlannerStages

(***************************************************************************)
(* Types of the variables the threads do not touch.                        *)
(***************************************************************************)
ScreenTypes ==
    mode \in Modes /\ modal \in Ids \cup {NoId} /\ exitWork \in ExitWorks
MapTypes ==
    /\ map \in MapStates /\ owes \in Debts
    /\ suppressed \in BOOLEAN /\ excused \in BOOLEAN /\ departure \in BOOLEAN
LoopTypes == exitAfterWork \in BOOLEAN /\ running \in BOOLEAN
PassTypes == signals \in 0 .. 2 /\ lastPass \in 0 .. 5
FlagTypes ==
    /\ planCancelled \in BOOLEAN /\ softCancelled \in BOOLEAN
    /\ cancelled \in BOOLEAN
    /\ activeProgress \in BOOLEAN /\ mutation \in MutationStates

\* Every step leaves a mode, a modal and an exit prompt of their types.
LEMMA ScreenStep ==
    ASSUME RailTypes, ScreenTypes, [Next]_vars
    PROVE  ScreenTypes'
<1> USE DEF RailTypes, ScreenTypes, Modes, ExitWorks, NoId
<1>1. CASE OwnerStep
    BY <1>1 DEF OwnerStep, ShowNextConfirmation, StartPlanning, StartExecution,
        StartNothing, CancelPendingWork, FlushPlanCancellation, Quit,
        RequestStop, Prompt, RefreshPrompt, FinishExitAfterWork, CancelPending,
        GiveUpPending, SubmitPlan, SubmitExecution, PromptExit, CurrentExitWork,
        DismissedMode
<1>2. CASE ReaderActs \/ DepartureEnds
    BY <1>2 DEF ReaderActs, RequestDeletion, ConfirmDeletion, CancelConfirmation,
        ScreenTooSmall, Resize, PromptExitKey, ExitKey, DismissExit,
        CancelPendingWorkAndExit, StopDeletionAndExit, CancelRebuild,
        SignalQuit, SignalForce, CancelAndExit, CancelPending, DropModal,
        DepartureEnds
<1>3. CASE EventArrives \/ ScanProgress \/ ScanPathGone \/ ScanFinished
    BY <1>3 DEF EventArrives, DeletionPlanned, ExecutionRejected,
        DeletionFinished, Reconcile, Invalidate, CancelPending, BeginRebuild,
        DismissedMode, ScanProgress, ScanPathGone, ScanFinished
<1>4. CASE StoreMoves \/ Shutdown
    BY <1>4 DEF StoreMoves, PublicationEnds, OverlayFails, StoreIsLost,
        StoreSettles, CancelPending, BeginRebuild, DropModal, Shutdown
<1>5. CASE PlannerRuns \/ ExecutorRuns
    BY <1>5 DEF PlannerRuns, PlannerReceives, PlannerAnswers, ExecutorRuns,
        ExecutorReceives, Revalidates, NextEntry, Claims, Begins, Removes,
        Reports, Ends
<1>6. CASE UNCHANGED vars
    BY <1>6 DEF vars
<1>7. QED
    BY <1>1, <1>2, <1>3, <1>4, <1>5, <1>6 DEF Next

\* Every step leaves a map state and its debts of their types.
LEMMA MapStep ==
    ASSUME MapTypes, [Next]_vars
    PROVE  MapTypes'
<1> USE DEF MapTypes, MapStates, Debts
<1>1. CASE OwnerStep
    BY <1>1 DEF OwnerStep, ShowNextConfirmation, StartPlanning, StartExecution,
        StartNothing, CancelPendingWork, FlushPlanCancellation, Quit,
        RequestStop, Prompt, RefreshPrompt, FinishExitAfterWork
<1>2. CASE ReaderActs \/ DepartureEnds
    BY <1>2 DEF ReaderActs, RequestDeletion, ConfirmDeletion, CancelConfirmation,
        ScreenTooSmall, Resize, PromptExitKey, ExitKey, DismissExit,
        CancelPendingWorkAndExit, StopDeletionAndExit, CancelRebuild,
        SignalQuit, SignalForce, CancelAndExit, DepartureEnds
<1>3. CASE EventArrives \/ ScanProgress \/ ScanPathGone \/ ScanFinished
    BY <1>3 DEF EventArrives, DeletionPlanned, ExecutionRejected,
        DeletionFinished, Reconcile, Invalidate, BeginRebuild, OwedAfter,
        ScanProgress, ScanPathGone, ScanFinished
<1>4. CASE StoreMoves \/ Shutdown
    BY <1>4 DEF StoreMoves, PublicationEnds, OverlayFails, StoreIsLost,
        StoreSettles, BeginRebuild, Shutdown
<1>5. CASE PlannerRuns \/ ExecutorRuns
    BY <1>5 DEF PlannerRuns, PlannerReceives, PlannerAnswers, ExecutorRuns,
        ExecutorReceives, Revalidates, NextEntry, Claims, Begins, Removes,
        Reports, Ends
<1>6. CASE UNCHANGED vars
    BY <1>6 DEF vars
<1>7. QED
    BY <1>1, <1>2, <1>3, <1>4, <1>5, <1>6 DEF Next

\* exit_after_work and running stay flags.
LEMMA LoopStep ==
    ASSUME LoopTypes, [Next]_vars
    PROVE  LoopTypes'
<1> USE DEF LoopTypes
<1>1. CASE OwnerStep
    BY <1>1 DEF OwnerStep, ShowNextConfirmation, StartPlanning,
        StartExecution, StartNothing, CancelPendingWork, FlushPlanCancellation,
        Quit, RequestStop, Prompt, RefreshPrompt, FinishExitAfterWork
<1>2. CASE ReaderActs \/ DepartureEnds
    BY <1>2 DEF ReaderActs, RequestDeletion, ConfirmDeletion,
        CancelConfirmation, ScreenTooSmall, Resize, PromptExitKey, ExitKey,
        DismissExit, CancelPendingWorkAndExit, StopDeletionAndExit,
        CancelRebuild, SignalQuit, SignalForce, CancelAndExit, DepartureEnds,
        Reader, Serves
<1>3. CASE EventArrives \/ ScanProgress \/ ScanPathGone \/ ScanFinished
    BY <1>3 DEF EventArrives, DeletionPlanned, ExecutionRejected,
        DeletionFinished, ScanProgress, ScanPathGone,
        ScanFinished, ScanReports, Handles, Serves
<1>4. CASE StoreMoves \/ Shutdown
    BY <1>4 DEF StoreMoves, PublicationEnds, OverlayFails, StoreIsLost,
        Shutdown, Serves
<1>5. CASE PlannerRuns \/ ExecutorRuns
    BY <1>5 DEF PlannerRuns, PlannerReceives, PlannerAnswers, ExecutorRuns,
        ExecutorReceives, Revalidates, NextEntry, Claims, Begins, Removes,
        Reports, Ends
<1>6. CASE UNCHANGED vars
    BY <1>6 DEF vars
<1>7. QED
    BY <1>1, <1>2, <1>3, <1>4, <1>5, <1>6 DEF Next

\* The signal count and the last pass stay in their bounds.
LEMMA PassStep ==
    ASSUME PassTypes, [Next]_vars
    PROVE  PassTypes'
<1> USE DEF PassTypes, Sources
<1>0. \A source \in {"signal", "input", "store", "worker", "departure"} :
        Serves(source) => lastPass' \in 0 .. 5
    BY DEF Serves
<1>1. CASE OwnerStep
    BY <1>1 DEF OwnerStep, ShowNextConfirmation, StartPlanning,
        StartExecution, StartNothing, CancelPendingWork, FlushPlanCancellation,
        Quit, RequestStop, Prompt, RefreshPrompt, FinishExitAfterWork
<1>2. CASE ReaderActs \/ DepartureEnds
  <2>1. CASE ExitKey \/ SignalQuit \/ SignalForce
    BY <1>0, <2>1 DEF ExitKey, SignalQuit, SignalForce, CancelAndExit
  <2>2. CASE \/ \E target \in Targets : RequestDeletion(target)
             \/ ConfirmDeletion \/ CancelConfirmation \/ ScreenTooSmall
             \/ Resize \/ PromptExitKey \/ DismissExit
             \/ CancelPendingWorkAndExit \/ StopDeletionAndExit
             \/ CancelRebuild \/ DepartureEnds
    BY <1>0, <2>2 DEF RequestDeletion, ConfirmDeletion, CancelConfirmation,
        ScreenTooSmall, Resize, PromptExitKey, DismissExit,
        CancelPendingWorkAndExit, StopDeletionAndExit, CancelRebuild,
        CancelAndExit, DepartureEnds, Reader
  <2>3. QED
    BY <1>2, <2>1, <2>2 DEF ReaderActs
<1>3. CASE EventArrives \/ ScanProgress \/ ScanPathGone \/ ScanFinished
    BY <1>0, <1>3 DEF EventArrives, DeletionPlanned, ExecutionRejected,
        DeletionFinished, ScanProgress, ScanPathGone,
        ScanFinished, ScanReports, Handles
<1>4. CASE StoreMoves \/ Shutdown
    BY <1>0, <1>4 DEF StoreMoves, PublicationEnds, OverlayFails, StoreIsLost,
        Shutdown
<1>5. CASE PlannerRuns \/ ExecutorRuns
    BY <1>5 DEF PlannerRuns, PlannerReceives, PlannerAnswers, ExecutorRuns,
        ExecutorReceives, Revalidates, NextEntry, Claims, Begins, Removes,
        Reports, Ends
<1>6. CASE UNCHANGED vars
    BY <1>6 DEF vars
<1>7. QED
    BY <1>1, <1>2, <1>3, <1>4, <1>5, <1>6 DEF Next

\* plan_cancellation_requested stays a flag.
LEMMA RequestStep ==
    ASSUME cancelRequested \in BOOLEAN, [Next]_vars
    PROVE  cancelRequested' \in BOOLEAN
<1>0. ASSUME NEW items, CancelPending(items)
      PROVE  cancelRequested' \in BOOLEAN
    BY <1>0, Zenon DEF CancelPending, PlannerLeased
<1>1. CASE OwnerStep
    BY <1>0, <1>1 DEF OwnerStep, ShowNextConfirmation, StartPlanning,
        StartExecution, StartNothing, CancelPendingWork, FlushPlanCancellation,
        Quit, RequestStop, Prompt, RefreshPrompt, FinishExitAfterWork,
        GiveUpPending, SubmitPlan, SubmitExecution
<1>2. CASE ReaderActs \/ DepartureEnds
    BY <1>0, <1>2 DEF ReaderActs, RequestDeletion, ConfirmDeletion,
        CancelConfirmation, ScreenTooSmall, Resize, PromptExitKey, ExitKey,
        DismissExit, CancelPendingWorkAndExit, StopDeletionAndExit,
        CancelRebuild, SignalQuit, SignalForce, CancelAndExit, DepartureEnds
<1>3. CASE EventArrives \/ ScanProgress \/ ScanPathGone \/ ScanFinished
    BY <1>0, <1>3 DEF EventArrives, DeletionPlanned, ExecutionRejected,
        DeletionFinished, Reconcile, Invalidate, ScanProgress, ScanPathGone,
        ScanFinished
<1>4. CASE StoreMoves \/ Shutdown
    BY <1>0, <1>4 DEF StoreMoves, PublicationEnds, OverlayFails, StoreIsLost,
        StoreSettles, Shutdown
<1>5. CASE PlannerRuns \/ ExecutorRuns
    BY <1>5 DEF PlannerRuns, PlannerReceives, PlannerAnswers, ExecutorRuns,
        ExecutorReceives, Revalidates, NextEntry, Claims, Begins, Removes,
        Reports, Ends
<1>6. CASE UNCHANGED vars
    BY <1>6 DEF vars
<1>7. QED
    BY <1>1, <1>2, <1>3, <1>4, <1>5, <1>6 DEF Next

\* The flags the threads share stay flags.
LEMMA FlagStep ==
    ASSUME FlagTypes, cancelRequested \in BOOLEAN, [Next]_vars
    PROVE  FlagTypes'
<1> USE DEF FlagTypes, MutationStates
<1>1. CASE OwnerStep
    BY <1>1 DEF OwnerStep, ShowNextConfirmation, StartPlanning, StartExecution,
        StartNothing, CancelPendingWork, FlushPlanCancellation, Quit,
        RequestStop, Prompt, RefreshPrompt, FinishExitAfterWork,
        GiveUpPending, SubmitPlan, SubmitExecution
<1>2. CASE ReaderActs \/ DepartureEnds
    BY <1>2 DEF ReaderActs, RequestDeletion, ConfirmDeletion, CancelConfirmation,
        ScreenTooSmall, Resize, PromptExitKey, ExitKey, DismissExit,
        CancelPendingWorkAndExit, StopDeletionAndExit, CancelRebuild,
        SignalQuit, SignalForce, CancelAndExit, DepartureEnds
<1>3. CASE EventArrives \/ ScanProgress \/ ScanPathGone \/ ScanFinished
    BY <1>3 DEF EventArrives, DeletionPlanned, ExecutionRejected,
        DeletionFinished, ScanProgress, ScanPathGone, ScanFinished
<1>4. CASE StoreMoves \/ Shutdown
    BY <1>4 DEF StoreMoves, PublicationEnds, OverlayFails, StoreIsLost, Shutdown
<1>5. CASE PlannerRuns \/ ExecutorRuns
    BY <1>5 DEF PlannerRuns, PlannerReceives, PlannerAnswers, ExecutorRuns,
        ExecutorReceives, Revalidates, NextEntry, Claims, Begins, Removes,
        Reports, Ends
<1>6. CASE UNCHANGED vars
    BY <1>6 DEF vars
<1>7. QED
    BY <1>1, <1>2, <1>3, <1>4, <1>5, <1>6 DEF Next

(***************************************************************************)
(* The owner's list of steps.                                              *)
(***************************************************************************)
\* A cancellation in a handler is followed by its flush and its quit.
Orderly(steps) ==
    \A i \in DOMAIN steps :
        steps[i] = "cancelPending" =>
            /\ i + 2 \in DOMAIN steps
            /\ steps[i + 1] = "flush"
            /\ steps[i + 2] \in {"quit", "stopAndQuit"}

\* A handler put in front of the rest of another stays in order.
LEMMA OrderlyConcat ==
    ASSUME NEW s \in Seq(OwnerSteps), NEW t \in Seq(OwnerSteps), Orderly(s), Orderly(t)
    PROVE  s \o t \in Seq(OwnerSteps) /\ Orderly(s \o t)
<1>1. /\ DOMAIN (s \o t) = 1 .. Len(s) + Len(t)
      /\ \A i \in 1 .. Len(s) : (s \o t)[i] = s[i]
      /\ \A i \in 1 .. Len(t) : (s \o t)[i + Len(s)] = t[i]
      /\ Len(s) \in Nat /\ Len(t) \in Nat
      /\ DOMAIN s = 1 .. Len(s) /\ DOMAIN t = 1 .. Len(t)
    OBVIOUS
<1>2. ASSUME NEW i \in DOMAIN (s \o t), (s \o t)[i] = "cancelPending"
      PROVE  /\ i + 2 \in DOMAIN (s \o t) /\ (s \o t)[i + 1] = "flush"
             /\ (s \o t)[i + 2] \in {"quit", "stopAndQuit"}
  <2>1. CASE i =< Len(s)
    BY <1>1, <1>2, <2>1 DEF Orderly
  <2>2. CASE i > Len(s)
    <3> DEFINE j == i - Len(s)
    <3>1. j \in DOMAIN t /\ i = j + Len(s)
        BY <1>1, <2>2
    <3>2. t[j] = "cancelPending"
        BY <1>1, <1>2, <3>1
    <3>3. j + 2 \in DOMAIN t /\ t[j + 1] = "flush" /\ t[j + 2] \in {"quit", "stopAndQuit"}
        BY <3>1, <3>2 DEF Orderly
    <3> HIDE DEF j
    <3>4. /\ (j + 1) + Len(s) = i + 1 /\ (j + 2) + Len(s) = i + 2
          /\ j + 1 \in 1 .. Len(t) /\ j + 2 \in 1 .. Len(t)
        <4>1. j \in 1 .. Len(t) /\ j + 2 \in 1 .. Len(t)
            BY <1>1, <3>1, <3>3
        <4>2. Len(s) \in Nat /\ Len(t) \in Nat /\ j \in Int /\ i = j + Len(s)
            BY <1>1, <3>1, <4>1
        <4>3. j + 1 \in 1 .. Len(t)
            BY <4>1, <4>2
        <4>4. (j + 1) + Len(s) = i + 1 /\ (j + 2) + Len(s) = i + 2
            BY <4>2
        <4>5. QED
            BY <4>1, <4>3, <4>4
    <3>5. (s \o t)[i + 1] = t[j + 1] /\ (s \o t)[i + 2] = t[j + 2]
        BY <1>1, <3>3, <3>4
    <3>6. QED
        BY <1>1, <3>3, <3>4, <3>5
  <2>3. QED
    BY <1>1, <2>1, <2>2
<1>3. QED
    BY <1>2 DEF Orderly

\* Taking the first step leaves the rest in order.
LEMMA OrderlyTail ==
    ASSUME NEW s \in Seq(OwnerSteps), s # <<>>, Orderly(s)
    PROVE  Tail(s) \in Seq(OwnerSteps) /\ Orderly(Tail(s))
<1>1. /\ DOMAIN s = 1 .. Len(s) /\ Len(s) \in Nat \ {0}
      /\ DOMAIN Tail(s) = 1 .. Len(s) - 1
      /\ \A i \in 1 .. Len(s) - 1 : Tail(s)[i] = s[i + 1]
      /\ Tail(s) \in Seq(OwnerSteps)
    OBVIOUS
<1>2. ASSUME NEW i \in DOMAIN Tail(s), Tail(s)[i] = "cancelPending"
      PROVE  /\ i + 2 \in DOMAIN Tail(s) /\ Tail(s)[i + 1] = "flush"
             /\ Tail(s)[i + 2] \in {"quit", "stopAndQuit"}
    BY <1>1, <1>2 DEF Orderly
<1>3. QED
    BY <1>1, <1>2 DEF Orderly

Tidy == {steps \in Seq(OwnerSteps) : Orderly(steps)}

\* OrderlyConcat for the owner's list of steps.
LEMMA TidyConcat ==
    ASSUME NEW s \in Tidy, NEW t \in Tidy
    PROVE  s \o t \in Tidy
    BY OrderlyConcat DEF Tidy

\* OrderlyTail for the owner's list of steps.
LEMMA TidyTail ==
    ASSUME NEW s \in Tidy, s # <<>>
    PROVE  Tail(s) \in Tidy
    BY OrderlyTail DEF Tidy

\* The lists of steps that handlers leave behind.
LEMMA StepLists ==
    /\ AfterInput \in Tidy /\ AfterEvent \in Tidy
    /\ AfterDeparture \in Tidy /\ AfterStore \in Tidy
    /\ ForcedDeparture \in Tidy
<1>1. AfterInput \in Tidy
    BY DEF AfterInput, OwnerSteps, Tidy, Orderly
<1>2. AfterEvent \in Tidy
    BY DEF AfterEvent, OwnerSteps, Tidy, Orderly
<1>3. AfterDeparture \in Tidy /\ AfterStore \in Tidy
    BY DEF AfterDeparture, AfterStore, OwnerSteps, Tidy, Orderly
<1>4. ForcedDeparture \in Tidy
    BY <1>3 DEF ForcedDeparture, Tidy, Orderly
<1>5. QED
    BY <1>1, <1>2, <1>3, <1>4

\* Lists that cancel nothing are tidy, and so is the one that does.
LEMMA TidyLists ==
    /\ <<"show">> \in Tidy /\ <<"confirmedPlanning">> \in Tidy
    /\ <<"show", "flush">> \in Tidy /\ <<"prompt">> \in Tidy
    /\ <<"requestStop">> \in Tidy /\ <<"finishExit">> \in Tidy
    /\ <<"requestStop", "promptStopping">> \in Tidy
    /\ <<"promptCancelling">> \in Tidy
    /\ \A how \in {"quit", "stopAndQuit"} :
         <<"cancelPending", "flush", how>> \in Tidy
<1>1. /\ <<"show">> \in Tidy /\ <<"confirmedPlanning">> \in Tidy
      /\ <<"show", "flush">> \in Tidy /\ <<"prompt">> \in Tidy
    BY DEF Tidy, Orderly, OwnerSteps
<1>2. /\ <<"requestStop">> \in Tidy /\ <<"finishExit">> \in Tidy
      /\ <<"requestStop", "promptStopping">> \in Tidy
      /\ <<"promptCancelling">> \in Tidy
    BY DEF Tidy, Orderly, OwnerSteps
<1>3. \A how \in {"quit", "stopAndQuit"} :
         <<"cancelPending", "flush", how>> \in Tidy
    BY DEF Tidy, Orderly, OwnerSteps
<1>4. QED
    BY <1>1, <1>2, <1>3

\* What the owner still has to do is always in order.
LEMMA TodoStep ==
    ASSUME todo \in Tidy, [Next]_vars
    PROVE  todo' \in Tidy
<1>0. \A how \in {"quit", "stopAndQuit"}, then \in Tidy :
        CancelAndExit(how, then) => todo' \in Tidy
  <2> SUFFICES ASSUME NEW how \in {"quit", "stopAndQuit"},
                      NEW then \in Tidy, CancelAndExit(how, then)
               PROVE  todo' \in Tidy
    OBVIOUS
  <2>1. ForcedDeparture \o <<"cancelPending", "flush", how>> \in Tidy
    BY StepLists, TidyLists, TidyConcat
  <2>2. (ForcedDeparture \o <<"cancelPending", "flush", how>>) \o then \in Tidy
    BY <2>1, TidyConcat
  <2>3. QED
    BY <2>2 DEF CancelAndExit
<1>1. CASE OwnerStep
  <2>1. \A name : Step(name) => todo' \in Tidy
    BY TidyTail DEF Step
  <2>2. CASE Quit
    <3>1. Tail(todo) \in Tidy
        BY <2>2, TidyTail DEF Quit
    <3>2. /\ <<"requestStop", "promptStopping">> \o Tail(todo) \in Tidy
          /\ <<"promptCancelling">> \o Tail(todo) \in Tidy
        BY <3>1, TidyLists, TidyConcat
    <3>3. QED
        BY <2>2, <3>2 DEF Quit
  <2>3. QED
    BY <1>1, <2>1, <2>2 DEF OwnerStep, ShowNextConfirmation, StartPlanning,
        StartExecution, StartNothing, CancelPendingWork, FlushPlanCancellation,
        RequestStop, Prompt, RefreshPrompt, FinishExitAfterWork
<1>2. CASE ReaderActs \/ DepartureEnds
  <2>1. /\ <<"show">> \o AfterInput \in Tidy
        /\ <<"confirmedPlanning">> \o AfterInput \in Tidy
    BY StepLists, TidyLists, TidyConcat
  <2>2. ForcedDeparture \o <<"prompt">> \in Tidy
    BY StepLists, TidyLists, TidyConcat
  <2>3. (ForcedDeparture \o <<"prompt">>) \o AfterInput \in Tidy
    BY <2>2, StepLists, TidyConcat
  <2>4. CASE CancelPendingWorkAndExit \/ StopDeletionAndExit \/ SignalQuit
    BY <1>0, <2>4, StepLists, TidyLists
    DEF CancelPendingWorkAndExit, StopDeletionAndExit, SignalQuit
  <2>5. CASE PromptExitKey
    BY <2>3, <2>5 DEF PromptExitKey
  <2>6. CASE \/ \E target \in Targets : RequestDeletion(target)
             \/ ConfirmDeletion \/ CancelConfirmation \/ ScreenTooSmall
             \/ Resize \/ DismissExit \/ ExitKey
             \/ CancelRebuild \/ DepartureEnds \/ SignalForce
    BY <2>1, <2>6, StepLists, TidyLists DEF RequestDeletion, ConfirmDeletion,
        CancelConfirmation, ScreenTooSmall, Resize, ExitKey, DismissExit,
        CancelRebuild, SignalForce, DepartureEnds
  <2>7. QED
    BY <1>2, <2>4, <2>5, <2>6 DEF ReaderActs
<1>3. CASE EventArrives \/ ScanProgress \/ ScanPathGone \/ ScanFinished
    BY <1>3, StepLists DEF EventArrives, DeletionPlanned, ExecutionRejected,
        DeletionFinished, ScanProgress, ScanPathGone, ScanFinished, Handles
<1>4. CASE StoreMoves \/ Shutdown
    BY <1>4, StepLists DEF StoreMoves, PublicationEnds, OverlayFails, StoreIsLost, Shutdown
<1>5. CASE PlannerRuns \/ ExecutorRuns
    BY <1>5 DEF PlannerRuns, PlannerReceives, PlannerAnswers, ExecutorRuns,
        ExecutorReceives, Revalidates, NextEntry, Claims, Begins, Removes,
        Reports, Ends
<1>6. CASE UNCHANGED vars
    BY <1>6 DEF vars
<1>7. QED
    BY <1>1, <1>2, <1>3, <1>4, <1>5, <1>6 DEF Next

(***************************************************************************)
(* Who touches the lanes: the owner's submissions, the threads' own steps. *)
(***************************************************************************)
OwnerActs ==
    \/ OwnerStep \/ ReaderActs \/ DepartureEnds \/ EventArrives
    \/ ScanProgress \/ ScanPathGone \/ ScanFinished \/ StoreMoves \/ Shutdown

\* The owner leaves the worker threads alone.
LEMMA OwnerFrame ==
    ASSUME OwnerActs
    PROVE  UNCHANGED threads
<1>1. CASE OwnerStep
    BY <1>1 DEF OwnerStep, ShowNextConfirmation, StartPlanning, StartExecution,
        StartNothing, CancelPendingWork, FlushPlanCancellation, Quit,
        RequestStop, Prompt, RefreshPrompt, FinishExitAfterWork
<1>2. CASE ReaderActs \/ DepartureEnds
    BY <1>2 DEF ReaderActs, RequestDeletion, ConfirmDeletion, CancelConfirmation,
        ScreenTooSmall, Resize, PromptExitKey, ExitKey, DismissExit,
        CancelPendingWorkAndExit, StopDeletionAndExit, CancelRebuild,
        SignalQuit, SignalForce, CancelAndExit, DepartureEnds
<1>3. CASE EventArrives \/ ScanProgress \/ ScanPathGone \/ ScanFinished
    BY <1>3 DEF EventArrives, DeletionPlanned, ExecutionRejected,
        DeletionFinished, ScanProgress, ScanPathGone, ScanFinished
<1>4. CASE StoreMoves \/ Shutdown
    BY <1>4 DEF StoreMoves, PublicationEnds, OverlayFails, StoreIsLost, Shutdown
<1>5. QED
    BY <1>1, <1>2, <1>3, <1>4 DEF OwnerActs

\* What a submission does; the rest of the two steps leaves the lanes alone.
SendsPlan(id) ==
    /\ id \in DOMAIN rail
    /\ ~DeletionIsUnavailable
    /\ CanPlan(id)
    /\ SubmitPlan(id)
    /\ UNCHANGED <<nextId, exitWork, mapVars, loop, events, threads>>

SendsExecution(id) ==
    /\ id \in DOMAIN rail
    /\ ~DeletionIsUnavailable
    /\ CanExecute(id)
    /\ SubmitExecution(id)
    /\ UNCHANGED <<nextId, exitWork, mapVars, loop, events, threads>>

LaneIsQuiet == UNCHANGED <<leases, channels, threads, activeProgress>>

\* Only a submission or an event of a worker touches the lanes.
LEMMA OwnerLanes ==
    ASSUME OwnerActs
    PROVE  \/ \E id : StartPlanning /\ SendsPlan(id)
           \/ \E id : StartExecution /\ SendsExecution(id)
           \/ EventArrives
           \/ LaneIsQuiet
<1> USE DEF LaneIsQuiet
<1>1. CASE OwnerStep
  <2>1. CASE StartPlanning \/ StartExecution
    BY <2>1 DEF StartPlanning, StartExecution, SendsPlan, SendsExecution, GiveUpPending
  <2>2. QED
    BY <1>1, <2>1 DEF OwnerStep, ShowNextConfirmation, 
        StartNothing, CancelPendingWork, FlushPlanCancellation, Quit,
        RequestStop, Prompt, RefreshPrompt, FinishExitAfterWork
<1>2. CASE ReaderActs \/ DepartureEnds
    BY <1>2 DEF ReaderActs, RequestDeletion, ConfirmDeletion, CancelConfirmation,
        ScreenTooSmall, Resize, PromptExitKey, ExitKey, DismissExit,
        CancelPendingWorkAndExit, StopDeletionAndExit, CancelRebuild,
        SignalQuit, SignalForce, CancelAndExit, DepartureEnds
<1>3. CASE EventArrives \/ ScanProgress \/ ScanPathGone \/ ScanFinished
    BY <1>3 DEF ScanProgress, ScanPathGone, ScanFinished
<1>4. CASE StoreMoves \/ Shutdown
    BY <1>4 DEF StoreMoves, PublicationEnds, OverlayFails, StoreIsLost, Shutdown
<1>5. QED
    BY <1>1, <1>2, <1>3, <1>4 DEF OwnerActs

ChannelTypes ==
    /\ plans \in Seq(Ids) /\ executions \in Seq(Ids) /\ events \in Seq(Events)
    /\ planner \in Ids \cup {NoId}

\* The executor is idle or works on an item, and in the middle of an entry
\* there is an entry left.
ExecutorShape ==
    /\ executor.phase = "idle" <=> executor.id = NoId
    /\ executor.id = NoId => ~executor.deleted /\ executor.late = 0
    /\ executor.phase \in {"claim", "begin", "isolated"} => executor.left > 0

\* The fields of the executor after each of its steps.
Works(phase, left) ==
    /\ executor'.id = executor.id
    /\ executor'.phase = phase
    /\ executor'.left = left

\* An entry that is skipped leaves one fewer and begins nothing.
LEMMA SkippedFields ==
    ASSUME executor \in Executors, executor.left > 0, NEW stops \in BOOLEAN,
           executor' = Skipped(stops)
    PROVE  /\ executor' \in Executors
           /\ Works("entry", executor.left - 1)
           /\ executor'.deleted = executor.deleted
           /\ executor'.late = executor.late
<1>1. executor.left - 1 \in 0 .. MaxEntries
    BY LaneAssumption DEF Executors, LaneAssumption
<1>2. QED
    BY <1>1 DEF Executors, Skipped, Works, Phases

\* The executor between two executions.
LEMMA IdleFields ==
    /\ IdleExecutor \in Executors
    /\ IdleExecutor.id = NoId /\ IdleExecutor.phase = "idle"
    /\ ~IdleExecutor.deleted /\ IdleExecutor.late = 0
    BY LaneAssumption DEF LaneAssumption, IdleExecutor, Executors, Phases

\* The executor takes the head of its channel and has begun nothing of it.
LEMMA ReceivesFields ==
    ASSUME ChannelTypes, ExecutorReceives
    PROVE  /\ executor' \in Executors
           /\ executor'.id = Head(executions) /\ executor'.id \in Ids
           /\ executor'.phase = "revalidate"
           /\ ~executor'.deleted /\ executor'.late = 0
<1>1. Head(executions) \in Ids
    BY DEF ExecutorReceives, ChannelTypes
<1>2. QED
    BY <1>1, IdleFields DEF ExecutorReceives, Executors, Phases

\* Revalidation rejects the plan or starts on its entries.
LEMMA RevalidatesFields ==
    ASSUME executor \in Executors, Revalidates
    PROVE  /\ executor' \in Executors
           /\ \/ executor' = IdleExecutor
              \/ \E n \in 1 .. MaxEntries :
                   /\ Works("entry", n)
                   /\ executor'.deleted = executor.deleted
                   /\ executor'.late = executor.late
<1>1. CASE \E n \in 1 .. MaxEntries :
               executor' = [executor EXCEPT !.phase = "entry", !.left = n]
  <2>1. PICK n \in 1 .. MaxEntries :
               executor' = [executor EXCEPT !.phase = "entry", !.left = n]
    BY <1>1
  <2>2. n \in 0 .. MaxEntries
    BY LaneAssumption DEF LaneAssumption
  <2>3. QED
    BY <2>1, <2>2 DEF Executors, Works, Phases
<1>2. QED
    BY <1>1, IdleFields DEF Revalidates, Ends

\* At an entry boundary the executor stops, skips the entry or claims it.
LEMMA NextEntryFields ==
    ASSUME executor \in Executors, NextEntry
    PROVE  /\ executor' \in Executors
           /\ executor'.deleted = executor.deleted
           /\ executor'.late = executor.late
           /\ executor.phase = "entry" /\ executor.left > 0
           /\ \/ MustStop /\ Works("entry", 0)
              \/ ~MustStop /\ Works("entry", executor.left - 1)
              \/ ~MustStop /\ Works("claim", executor.left)
<1>0. executor.phase = "entry" /\ executor.left > 0
    BY DEF NextEntry
<1>1. CASE MustStop /\ executor' = [executor EXCEPT !.left = 0, !.stopped = TRUE]
  <2>1. 0 \in 0 .. MaxEntries
    BY LaneAssumption DEF LaneAssumption
  <2>2. QED
    BY <1>0, <1>1, <2>1 DEF Executors, Works
<1>2. CASE ~MustStop /\ executor' = [executor EXCEPT !.phase = "claim"]
    BY <1>0, <1>2 DEF Executors, Works, Phases
<1>3. CASE ~MustStop /\ executor' = Skipped(FALSE)
    BY <1>0, <1>3, SkippedFields
<1>4. QED
    BY <1>1, <1>2, <1>3 DEF NextEntry

\* A claim is refused, and the entry skipped, or leads to begin_mutation.
LEMMA ClaimsFields ==
    ASSUME executor \in Executors, ExecutorShape, Claims
    PROVE  /\ executor' \in Executors
           /\ executor'.deleted = executor.deleted
           /\ executor'.late = executor.late
           /\ executor.phase = "claim" /\ executor.left > 0
           /\ \/ Works("entry", executor.left - 1)
              \/ Works("begin", executor.left)
<1>0. executor.phase = "claim" /\ executor.left > 0
    BY DEF Claims, ExecutorShape
<1>1. CASE executor' = [executor EXCEPT !.phase = "begin"]
    BY <1>0, <1>1 DEF Executors, Works, Phases
<1>2. CASE executor' = Skipped(FALSE) \/ executor' = Skipped(TRUE)
    BY <1>0, <1>2, SkippedFields
<1>3. QED
    BY <1>1, <1>2 DEF Claims

\* begin_mutation isolates the entry unless a stop has won; an entry begun after
\* a stop was asked for is counted as late.
LEMMA BeginsFields ==
    ASSUME executor \in Executors, ExecutorShape, Begins
    PROVE  /\ executor' \in Executors
           /\ executor'.deleted = executor.deleted
           /\ executor.phase = "begin" /\ executor.left > 0
           /\ \/ /\ Works("entry", executor.left - 1)
                 /\ executor'.late = executor.late
                 /\ softCancelled'
              \/ /\ Works("isolated", executor.left)
                 /\ executor'.late = IF softCancelled THEN executor.late + 1
                                     ELSE executor.late
                 /\ mutation' = "STARTED" /\ mutation # "STOP_REQUESTED"
                 /\ UNCHANGED softCancelled
<1>0. executor.phase = "begin" /\ executor.left > 0
    BY DEF Begins, ExecutorShape
<1>1. CASE ~Refused /\ executor' = [executor EXCEPT !.phase = "isolated",
                            !.late = IF softCancelled THEN @ + 1 ELSE @]
                    /\ mutation' = "STARTED" /\ UNCHANGED softCancelled
  <2> DEFINE late == IF softCancelled THEN executor.late + 1 ELSE executor.late
  <2>1. late \in Nat
    BY DEF Executors
  <2>2. executor' = [executor EXCEPT !.phase = "isolated", !.late = late]
    BY <1>1
  <2> HIDE DEF late
  <2>3. /\ executor' \in Executors /\ executor'.deleted = executor.deleted
        /\ Works("isolated", executor.left) /\ executor'.late = late
    BY <2>1, <2>2 DEF Executors, Works, Phases
  <2>4. QED
    BY <1>0, <1>1, <2>3 DEF Refused, late
<1>2. CASE softCancelled' = TRUE /\ \E stops \in BOOLEAN : executor' = Skipped(stops)
    BY <1>0, <1>2, SkippedFields
<1>3. QED
    BY <1>1, <1>2 DEF Begins

\* An isolated entry is removed, or fails to be, and the next one is looked at.
LEMMA RemovesFields ==
    ASSUME executor \in Executors, ExecutorShape, Removes
    PROVE  /\ executor' \in Executors
           /\ executor'.late = executor.late
           /\ executor.phase = "isolated" /\ executor.left > 0
           /\ Works("entry", executor.left - 1)
<1>0. executor.phase = "isolated" /\ executor.left > 0
    BY DEF Removes, ExecutorShape
<1>1. CASE executor' = [executor EXCEPT !.phase = "entry", !.left = @ - 1,
                                       !.deleted = TRUE,
                                       !.whole = (executor.left = 1)]
  <2>1. executor.left - 1 \in 0 .. MaxEntries /\ (executor.left = 1) \in BOOLEAN
    BY <1>0, LaneAssumption DEF Executors, LaneAssumption
  <2>2. ASSUME NEW whole \in BOOLEAN,
               executor' = [executor EXCEPT !.phase = "entry", !.left = @ - 1,
                                            !.deleted = TRUE, !.whole = whole]
        PROVE  /\ executor' \in Executors
               /\ executor'.late = executor.late
               /\ Works("entry", executor.left - 1)
    BY <2>1, <2>2 DEF Executors, Works, Phases
  <2>3. QED
    BY <1>0, <1>1, <2>1, <2>2
<1>2. CASE \E stops \in BOOLEAN : executor' = Skipped(stops)
    BY <1>0, <1>2, SkippedFields
<1>3. QED
    BY <1>0, <1>1, <1>2 DEF Removes

\* The executor's phase says whether it has an execution, and a phase inside an
\* entry has an entry left.
LEMMA ExecutorStep ==
    ASSUME ChannelTypes, executor \in Executors, ExecutorShape, [Next]_vars
    PROVE  executor' \in Executors /\ ExecutorShape'
<1>0. NoId \notin Ids
    BY DEF NoId, Ids
<1>1. CASE OwnerActs \/ PlannerRuns \/ UNCHANGED vars
    BY <1>1, OwnerFrame
    DEF PlannerRuns, PlannerReceives, PlannerAnswers, vars, ExecutorShape
<1>2. CASE ExecutorReceives
    BY <1>0, <1>2, ReceivesFields DEF ExecutorShape
<1>3. CASE Revalidates
    BY <1>3, RevalidatesFields, IdleFields DEF ExecutorShape, Works, Revalidates
<1>4. CASE NextEntry
    BY <1>4, NextEntryFields DEF ExecutorShape, Works
<1>5. CASE Claims
    BY <1>5, ClaimsFields DEF ExecutorShape, Works
<1>6. CASE Begins
    BY <1>6, BeginsFields DEF ExecutorShape, Works
<1>7. CASE Removes
    BY <1>7, RemovesFields DEF ExecutorShape, Works
<1>8. CASE Reports
    BY <1>8, IdleFields DEF Reports, Ends, ExecutorShape
<1>9. QED
    BY <1>1, <1>2, <1>3, <1>4, <1>5, <1>6, <1>7, <1>8
    DEF Next, OwnerActs, ExecutorRuns

\* The channels carry identifiers of requests and events about them.
LEMMA ChannelStep ==
    ASSUME RailTypes, ChannelTypes, executor \in Executors, ExecutorShape, [Next]_vars
    PROVE  ChannelTypes'
<1> USE DEF ChannelTypes
<1>1. CASE OwnerActs
  <2>1. CASE EventArrives
    <3>1. \A kind : Handles(kind) => events' \in Seq(Events)
        BY DEF Handles
    <3>2. QED
        BY <2>1, <3>1 DEF EventArrives, DeletionPlanned, ExecutionRejected,
            DeletionFinished
  <2>2. ASSUME NEW id, SendsPlan(id) \/ SendsExecution(id) PROVE ChannelTypes'
    <3>1. id \in Ids
        BY <2>2 DEF SendsPlan, SendsExecution, RailTypes
    <3>2. Append(plans, id) \in Seq(Ids) /\ Append(executions, id) \in Seq(Ids)
        BY <3>1
    <3>3. QED
        BY <2>2, <3>2
        DEF SendsPlan, SendsExecution, SubmitPlan, SubmitExecution
  <2>3. QED
    BY <1>1, <2>1, <2>2, OwnerLanes DEF LaneIsQuiet
<1>2. CASE PlannerReceives
    BY <1>2 DEF PlannerReceives
<1>3. \A event \in Events : Send(event) => events' \in Seq(Events)
    BY DEF Send
<1>4. CASE PlannerAnswers
  <2>1. PICK result \in PlanResults :
          Send([kind |-> "planned", id |-> planner, result |-> result])
    BY <1>4 DEF PlannerAnswers
  <2>2. [kind |-> "planned", id |-> planner, result |-> result] \in Events
    BY <1>4 DEF PlannerAnswers, Events
  <2>3. QED
    BY <1>3, <1>4, <2>1, <2>2 DEF PlannerAnswers
<1>5. CASE Revalidates \/ Reports
  <2>1. executor.id \in Ids
    BY <1>5 DEF Revalidates, Reports, Executors, ExecutorShape
  <2>2. [kind |-> "rejected", id |-> executor.id] \in Events
    BY <2>1 DEF Events
  <2>3. [kind |-> "finished", id |-> executor.id,
             deleted |-> executor.deleted,
             whole |-> executor.whole /\ ~softCancelled] \in Events
    BY <2>1 DEF Events, Executors
  <2>4. QED
    BY <1>3, <1>5, <2>2, <2>3 DEF Revalidates, Reports, Ends
<1>6. CASE ExecutorReceives
    BY <1>6 DEF ExecutorReceives
<1>7. CASE NextEntry \/ Claims \/ Begins \/ Removes \/ UNCHANGED vars
    BY <1>7 DEF NextEntry, Claims, Begins, Removes, vars
<1>8. QED
    BY <1>1, <1>2, <1>4, <1>5, <1>6, <1>7 DEF Next, OwnerActs, ExecutorRuns, PlannerRuns

(***************************************************************************)
(* What the owner's handlers do to the rail.                               *)
(***************************************************************************)
\* A handler that hands nothing to a worker and settles nothing.
Quiet == LaneIsQuiet /\ UNCHANGED nextId /\ Keeps(NoId, rail')

\* A handler that takes an event and settles its item.
Settles(id) ==
    /\ events # <<>> /\ id = Head(events).id /\ events' = Tail(events)
    /\ OwnerIsFree
    /\ leases' = Remove(leases, {id})
    /\ Keeps(id, rail')
    /\ UNCHANGED <<nextId, plans, executions, threads, activeProgress>>

\* The three handlers of an event settle the item the event is about.
LEMMA EventSettles ==
    ASSUME RailTypes, EventArrives
    PROVE  Settles(Head(events).id)
<1> DEFINE id == Head(events).id
<1>1. Keeps(id, Settled(id)) /\ Keeps(id, Retained(Settled(id)))
    BY RemoveKeeps, RetainedKeeps DEF Settled
<1>2. id \in InStage({"Planning"}) => Keeps(id, SetStage(id, "QueuedExecution"))
    BY SetStageKeeps DEF InStage, Stages, LeasedStages, PlannerStages
<1> HIDE DEF id
<1>3. CASE DeletionPlanned
    BY <1>1, <1>2, <1>3 DEF DeletionPlanned, Handles, Serves, Settles, id
<1>4. CASE ExecutionRejected
    BY <1>1, <1>4 DEF ExecutionRejected, Invalidate, CancelPending, Handles,
        Serves, Settles, id
<1>5. CASE DeletionFinished
  <2>1. rail' \in {Settled(id), Retained(Settled(id))}
    BY <1>5 DEF DeletionFinished, Reconcile, Invalidate, CancelPending, id
  <2>2. QED
    BY <1>1, <1>5, <2>1 DEF DeletionFinished, Handles, Serves, Settles, id
<1>6. QED
    BY <1>3, <1>4, <1>5 DEF EventArrives

\* What the owner's handlers do to the rail and the lanes, in five kinds.
LEMMA OwnerRail ==
    ASSUME RailTypes, modal \notin InStage(LeasedStages), OwnerActs
    PROVE  \/ \E id : StartPlanning /\ SendsPlan(id)
           \/ \E id : StartExecution /\ SendsExecution(id)
           \/ EventArrives /\ Settles(Head(events).id)
           \/ LaneIsQuiet /\ \E target \in Targets : RequestDeletion(target)
           \/ Quiet
<1>1. /\ Keeps(NoId, rail) /\ Keeps(NoId, Retained(rail))
      /\ Keeps(NoId, Remove(rail, {modal}))
    BY UnchangedKeeps, RetainedKeeps, RemoveKeeps
<1>2. \A id \in DOMAIN rail, stage \in {"AwaitingConfirmation", "Confirming",
                                        "QueuedPlanning"} :
        rail[id].stage \in {"AwaitingConfirmation", "Confirming"}
            => Keeps(NoId, SetStage(id, stage))
    BY SetStageKeeps DEF InStage, Stages, LeasedStages, PlannerStages
<1>3. CASE \/ \E id : StartPlanning /\ SendsPlan(id)
           \/ \E id : StartExecution /\ SendsExecution(id)
           \/ EventArrives
    BY <1>3, EventSettles
<1>4. CASE \E target \in Targets : RequestDeletion(target)
    BY <1>4 DEF RequestDeletion, LaneIsQuiet
<1>5. CASE LaneIsQuiet /\ UNCHANGED <<rail, nextId>>
    BY <1>1, <1>5 DEF Quiet
<1>6. CASE LaneIsQuiet /\ UNCHANGED nextId /\ rail' = Retained(rail)
    BY <1>1, <1>6 DEF Quiet
<1>7. CASE LaneIsQuiet /\ UNCHANGED nextId /\ rail' = Remove(rail, {modal})
    BY <1>1, <1>7 DEF Quiet
<1>8. CASE OwnerStep /\ LaneIsQuiet
  <2>1. CASE StartPlanning
    BY <1>3, <1>5, <1>6, <1>8, <2>1
    DEF StartPlanning, GiveUpPending, CancelPending, SendsPlan
  <2>2. CASE StartExecution
    BY <1>3, <1>5, <1>6, <1>8, <2>2
    DEF StartExecution, GiveUpPending, CancelPending, SendsExecution
  <2>3. CASE ShowNextConfirmation
    <3>1. CASE UNCHANGED rail
        BY <1>5, <1>8, <2>3, <3>1 DEF ShowNextConfirmation
    <3>2. CASE \E id \in DOMAIN rail : CanShow(id) /\ rail' = SetStage(id, "Confirming")
        BY <1>2, <1>8, <2>3, <3>2 DEF ShowNextConfirmation, CanShow, Oldest,
            InStage, Quiet
    <3>3. QED
        BY <2>3, <3>1, <3>2 DEF ShowNextConfirmation
  <2>4. CASE Prompt
    <3>1. rail' = rail \/ (modal \in InStage({"Confirming"})
                           /\ rail' = SetStage(modal, "AwaitingConfirmation"))
        BY <2>4 DEF Prompt, PromptExit
    <3>2. UNCHANGED nextId
        BY <2>4 DEF Prompt
    <3>3. QED
        BY <1>2, <1>5, <1>8, <3>1, <3>2 DEF InStage, Quiet
  <2>5. QED
    BY <1>5, <1>6, <1>8, <2>1, <2>2, <2>3, <2>4 DEF OwnerStep, StartNothing,
        CancelPendingWork, FlushPlanCancellation, Quit, RequestStop,
        RefreshPrompt, FinishExitAfterWork, CancelPending
<1>9. CASE (ReaderActs \/ DepartureEnds) /\ LaneIsQuiet
  <2>1. CASE ConfirmDeletion
    <3>1. rail' = Retained(rail) \/ (modal \in InStage({"Confirming"})
                           /\ rail' = SetStage(modal, "QueuedPlanning"))
        BY <2>1 DEF ConfirmDeletion, CancelPending
    <3>2. UNCHANGED nextId
        BY <2>1 DEF ConfirmDeletion
    <3>3. QED
        BY <1>2, <1>6, <1>9, <3>1, <3>2 DEF InStage, Quiet
  <2>2. QED
    BY <1>4, <1>5, <1>7, <1>9, <2>1 DEF ReaderActs, CancelConfirmation,
        ScreenTooSmall, Resize, PromptExitKey, ExitKey, DismissExit,
        CancelPendingWorkAndExit, StopDeletionAndExit, CancelRebuild,
        SignalQuit, SignalForce, CancelAndExit, DropModal, DepartureEnds
<1>10. CASE (ScanProgress \/ ScanPathGone \/ ScanFinished) /\ LaneIsQuiet
    BY <1>5, <1>10 DEF ScanProgress, ScanPathGone, ScanFinished
<1>11. CASE (StoreMoves \/ Shutdown) /\ LaneIsQuiet
  <2>1. UNCHANGED nextId /\ rail' \in {rail, Retained(rail), Remove(rail, {modal})}
    BY <1>11 DEF StoreMoves, PublicationEnds, OverlayFails, StoreIsLost,
        StoreSettles, CancelPending, DropModal, Shutdown
  <2>2. QED
    BY <1>5, <1>6, <1>7, <1>11, <2>1
<1>12. QED
    BY <1>3, <1>8, <1>9, <1>10, <1>11, OwnerLanes DEF OwnerActs

(***************************************************************************)
(* The rail and its leases.                                                *)
(***************************************************************************)
\* Identifiers grow, and no two items on the rail overlap.
RailInv ==
    /\ \A id \in DOMAIN rail : id =< nextId
    /\ \A i, j \in DOMAIN rail :
         i # j => ~TargetsOverlap(rail[i].target, rail[j].target)

\* The items with a lease are the ones a worker has, each with its kind.
LeaseInv ==
    /\ DOMAIN leases = InStage(LeasedStages)
    /\ \A id \in DOMAIN leases :
         leases[id] = IF rail[id].stage = "Executing" THEN "ExecuteDeletion"
                      ELSE "PlanDeletion"

\* Of the items with a worker, a settled one goes and the others stay.
LEMMA KeepsStages ==
    ASSUME RailTypes, NEW id, Keeps(id, rail')
    PROVE  /\ InStage(PlannerStages)' = InStage(PlannerStages) \ {id}
           /\ InStage({"Executing"})' = InStage({"Executing"}) \ {id}
           /\ InStage(LeasedStages)' = InStage(LeasedStages) \ {id}
    BY DEF Keeps, InStage, LeasedStages, PlannerStages

\* set_stage changes the stage of one item and nothing else.
LEMMA SetStageRail ==
    ASSUME RailTypes, NEW id \in DOMAIN rail, NEW stage \in Stages,
           rail' = SetStage(id, stage)
    PROVE  /\ DOMAIN rail' = DOMAIN rail
           /\ rail' \in [DOMAIN rail' -> WorkItem]
           /\ \A i \in DOMAIN rail :
                /\ rail'[i].target = rail[i].target
                /\ rail'[i].stage = IF i = id THEN stage ELSE rail[i].stage
<1>1. /\ DOMAIN rail' = DOMAIN rail
      /\ \A i \in DOMAIN rail :
            rail'[i] = IF i = id THEN [rail[id] EXCEPT !.stage = stage] ELSE rail[i]
    BY DEF SetStage
<1>2. \A i \in DOMAIN rail : rail[i] \in WorkItem
    BY DEF RailTypes
<1>3. \A i \in DOMAIN rail :
        /\ rail'[i] \in WorkItem
        /\ rail'[i].target = rail[i].target
        /\ rail'[i].stage = IF i = id THEN stage ELSE rail[i].stage
    BY <1>1, <1>2 DEF WorkItem
<1>4. rail' \in [DOMAIN rail' -> WorkItem]
    BY <1>1, <1>3 DEF SetStage
<1>5. QED
    BY <1>1, <1>3, <1>4

\* A submission gives one item its stage and its lease.
LEMMA AddLease ==
    ASSUME RailTypes, LeaseInv, NEW id \in DOMAIN rail, NEW kind \in LeaseKinds,
           NEW stage \in LeasedStages, rail' = SetStage(id, stage),
           leases' = Add(leases, id, kind),
           kind = IF stage = "Executing" THEN "ExecuteDeletion" ELSE "PlanDeletion",
           UNCHANGED nextId
    PROVE  RailTypes' /\ LeaseInv' /\ (RailInv => RailInv')
<1>1. stage \in Stages
    BY DEF Stages, LeasedStages, PlannerStages
<1>2. /\ DOMAIN rail' = DOMAIN rail
      /\ rail' \in [DOMAIN rail' -> WorkItem]
      /\ \A i \in DOMAIN rail :
           /\ rail'[i].target = rail[i].target
           /\ rail'[i].stage = IF i = id THEN stage ELSE rail[i].stage
    BY <1>1, SetStageRail
<1>3. /\ DOMAIN leases' = DOMAIN leases \cup {id}
      /\ \A i \in DOMAIN leases' : leases'[i] = IF i = id THEN kind ELSE leases[i]
      /\ leases' \in [DOMAIN leases' -> LeaseKinds]
    BY DEF Add, RailTypes
<1>4. RailTypes'
    BY <1>2, <1>3 DEF RailTypes
<1>5. LeaseInv'
  <2>1. DOMAIN leases' = InStage(LeasedStages)'
    <3>1. InStage(LeasedStages)' =
            {i \in DOMAIN rail : rail'[i].stage \in LeasedStages}
        BY <1>2 DEF InStage
    <3>2. \A i \in DOMAIN rail : rail'[i].stage \in LeasedStages
                                <=> i = id \/ rail[i].stage \in LeasedStages
        BY <1>2
    <3>3. QED
        BY <1>3, <3>1, <3>2 DEF LeaseInv, InStage
  <2>2. \A i \in DOMAIN leases' :
          leases'[i] = IF rail'[i].stage = "Executing" THEN "ExecuteDeletion"
                       ELSE "PlanDeletion"
    <3> TAKE i \in DOMAIN leases'
    <3>1. CASE i = id
        BY <1>2, <1>3, <3>1
    <3>2. CASE i # id
        BY <1>2, <1>3, <3>2 DEF LeaseInv, InStage
    <3>3. QED
        BY <3>1, <3>2
  <2>3. QED
    BY <2>1, <2>2 DEF LeaseInv
<1>6. RailInv => RailInv'
    BY <1>2 DEF RailInv
<1>7. QED
    BY <1>4, <1>5, <1>6

\* An item that is settled takes its lease with it.
LEMMA DropLease ==
    ASSUME RailTypes, LeaseInv, NEW id, Keeps(id, rail'), UNCHANGED nextId,
           leases' = Remove(leases, {id})
    PROVE  RailTypes' /\ LeaseInv' /\ (RailInv => RailInv')
<1>1. /\ DOMAIN leases' = DOMAIN leases \ {id}
      /\ \A i \in DOMAIN leases' : leases'[i] = leases[i]
      /\ leases' \in [DOMAIN leases' -> LeaseKinds]
    BY DEF Remove, RailTypes
<1>2. RailTypes'
    BY <1>1 DEF RailTypes, Keeps
<1>3. LeaseInv'
  <2>1. DOMAIN leases' = InStage(LeasedStages)'
    BY <1>1, KeepsStages DEF LeaseInv
  <2>2. \A i \in DOMAIN leases' : i \in DOMAIN rail' /\ i # id
    BY <1>1, <2>1 DEF InStage
  <2>3. QED
    BY <1>1, <2>1, <2>2 DEF LeaseInv, Keeps
<1>4. RailInv => RailInv'
    BY DEF RailInv, Keeps
<1>5. QED
    BY <1>2, <1>3, <1>4

\* A handler that moves no item into or out of a worker's hands keeps the leases
\* true.
LEMMA KeepLeases ==
    ASSUME RailTypes, LeaseInv, Keeps(NoId, rail'), UNCHANGED <<nextId, leases>>
    PROVE  RailTypes' /\ LeaseInv' /\ (RailInv => RailInv')
<1>0. NoId \notin DOMAIN rail
    BY DEF RailTypes, Ids, NoId
<1>1. RailTypes'
    BY DEF RailTypes, Keeps
<1>2. LeaseInv'
  <2>1. DOMAIN leases' = InStage(LeasedStages)'
    BY <1>0, KeepsStages DEF LeaseInv, InStage
  <2>2. \A i \in DOMAIN leases' : i \in DOMAIN rail' /\ i # NoId
    BY <1>0, <2>1 DEF InStage, Keeps
  <2>3. QED
    BY <2>1, <2>2 DEF LeaseInv, Keeps
<1>3. RailInv => RailInv'
    BY DEF RailInv, Keeps
<1>4. QED
    BY <1>1, <1>2, <1>3

\* A request adds an item behind the others, apart from all of them.
LEMMA RequestRail ==
    ASSUME RailTypes, RailInv, LeaseInv, NEW target \in Targets, RequestDeletion(target)
    PROVE  /\ RailTypes' /\ LeaseInv' /\ RailInv'
           /\ DOMAIN rail' = DOMAIN rail \cup {nextId + 1}
           /\ nextId + 1 \notin DOMAIN rail /\ nextId + 1 \in Ids
           /\ \A id \in DOMAIN rail : rail'[id] = rail[id]
           /\ rail'[nextId + 1].stage \in {"QueuedPlanning", "AwaitingConfirmation"}
<1> DEFINE new == nextId + 1
           item == [target |-> target,
                    stage  |-> IF ReducedGuardrails THEN "QueuedPlanning"
                               ELSE "AwaitingConfirmation"]
<1>1. item \in WorkItem /\ item.stage \in {"QueuedPlanning", "AwaitingConfirmation"}
      /\ item.target = target
    BY DEF WorkItem, Stages
<1>2. new \in Ids /\ nextId' = new /\ new \in 0 .. MaxId
    BY LaneAssumption DEF RequestDeletion, RailTypes, Ids, LaneAssumption
<1>3. new \notin DOMAIN rail
    BY DEF RailInv, RailTypes, Ids
<1>4. rail' = Add(rail, new, item) /\ UNCHANGED leases
    BY DEF RequestDeletion
<1> HIDE DEF item, new
<1>5. /\ DOMAIN rail' = DOMAIN rail \cup {new}
      /\ \A id \in DOMAIN rail' : rail'[id] = IF id = new THEN item ELSE rail[id]
    BY <1>4 DEF Add
<1>6. rail' \in [DOMAIN rail' -> WorkItem]
    BY <1>1, <1>4 DEF Add, RailTypes
<1>7. RailTypes'
    BY <1>2, <1>4, <1>5, <1>6 DEF RailTypes
<1>8. LeaseInv'
    BY <1>1, <1>3, <1>4, <1>5 DEF LeaseInv, InStage, LeasedStages, PlannerStages
<1>9. RailInv'
  <2>1. \A id \in DOMAIN rail' : id =< nextId'
    BY <1>2, <1>5 DEF RailInv, RailTypes, Ids, new
  <2>2. \A id \in DOMAIN rail : ~TargetsOverlap(rail[id].target, target)
    BY DEF RequestDeletion, Fits
  <2>3. \A id \in DOMAIN rail : ~TargetsOverlap(target, rail[id].target)
    BY <2>2 DEF TargetsOverlap
  <2>4. ASSUME NEW i \in DOMAIN rail', NEW j \in DOMAIN rail', i # j
        PROVE  ~TargetsOverlap(rail'[i].target, rail'[j].target)
    BY <1>1, <1>5, <2>2, <2>3, <2>4 DEF RailInv
  <2>5. QED
    BY <2>1, <2>4 DEF RailInv
<1>10. QED
    BY <1>1, <1>2, <1>3, <1>5, <1>7, <1>8, <1>9 DEF new

\* Every step keeps the items apart from each other and their leases true.
LEMMA RailStep ==
    ASSUME RailTypes, RailInv, LeaseInv, modal \notin InStage(LeasedStages), [Next]_vars
    PROVE  RailTypes' /\ RailInv' /\ LeaseInv'
<1>1. CASE PlannerRuns \/ ExecutorRuns \/ UNCHANGED vars
    BY <1>1 DEF PlannerRuns, PlannerReceives, PlannerAnswers, ExecutorRuns,
        ExecutorReceives, Revalidates, NextEntry, Claims, Begins, Removes,
        Reports, Ends, vars, RailTypes, RailInv, LeaseInv, InStage
<1>2. CASE OwnerActs
  <2>1. ASSUME NEW id, SendsPlan(id) PROVE RailTypes' /\ RailInv' /\ LeaseInv'
    BY <2>1, AddLease DEF SendsPlan, SubmitPlan, LeaseKinds, LeasedStages, PlannerStages
  <2>2. ASSUME NEW id, SendsExecution(id) PROVE RailTypes' /\ RailInv' /\ LeaseInv'
    BY <2>2, AddLease DEF SendsExecution, SubmitExecution, LeaseKinds, LeasedStages
  <2>3. CASE Settles(Head(events).id)
    BY <2>3, DropLease DEF Settles
  <2>4. CASE Quiet
    BY <2>4, KeepLeases DEF Quiet, LaneIsQuiet
  <2>5. QED
    BY <1>2, <2>1, <2>2, <2>3, <2>4, RequestRail, OwnerRail
<1>3. QED
    BY <1>1, <1>2 DEF Next, OwnerActs

(***************************************************************************)
(* A lane: a channel, a thread and the events that answer it.              *)
(***************************************************************************)
AnswersIn(evs, kinds) == {i \in DOMAIN evs : evs[i].kind \in kinds}

\* The lane has at most one piece of work, and it is the one item the rail
\* has in the lane's stages: in the channel, on the thread, or answered.
Lane(channel, evs, kinds, id, items) ==
    /\ channel # <<>> =>
         /\ Len(channel) = 1 /\ id = NoId /\ AnswersIn(evs, kinds) = {}
         /\ items = {Head(channel)}
    /\ id # NoId => AnswersIn(evs, kinds) = {} /\ items = {id}
    /\ \A i \in AnswersIn(evs, kinds) :
         AnswersIn(evs, kinds) = {i} /\ items = {evs[i].id}
    /\ channel = <<>> /\ id = NoId /\ AnswersIn(evs, kinds) = {} => items = {}

\* The answers among the events after the first is taken.
LEMMA TailAnswers ==
    ASSUME NEW evs \in Seq(Events), evs # <<>>, NEW kinds
    PROVE  /\ \A i \in AnswersIn(Tail(evs), kinds) :
                i + 1 \in AnswersIn(evs, kinds) /\ Tail(evs)[i] = evs[i + 1]
           /\ \A i \in AnswersIn(evs, kinds) :
                i # 1 => i - 1 \in AnswersIn(Tail(evs), kinds)
           /\ Head(evs).kind \in kinds <=> 1 \in AnswersIn(evs, kinds)
           /\ Head(evs) = evs[1]
<1>1. /\ Tail(evs) \in Seq(Events) /\ Len(Tail(evs)) = Len(evs) - 1
      /\ \A i \in 1 .. Len(evs) - 1 : Tail(evs)[i] = evs[i + 1]
      /\ Len(evs) \in Nat \ {0} /\ DOMAIN evs = 1 .. Len(evs)
      /\ DOMAIN Tail(evs) = 1 .. Len(evs) - 1 /\ Head(evs) = evs[1]
    OBVIOUS
<1>2. QED
    BY <1>1 DEF AnswersIn

\* The answers among the events after one is sent.
LEMMA AppendAnswers ==
    ASSUME NEW evs \in Seq(Events), NEW event \in Events, NEW kinds
    PROVE  /\ \A i \in AnswersIn(evs, kinds) : Append(evs, event)[i] = evs[i]
           /\ event.kind \in kinds =>
                AnswersIn(Append(evs, event), kinds)
                    = AnswersIn(evs, kinds) \cup {Len(evs) + 1}
           /\ event.kind \notin kinds =>
                AnswersIn(Append(evs, event), kinds) = AnswersIn(evs, kinds)
           /\ Append(evs, event)[Len(evs) + 1] = event
<1>1. /\ DOMAIN evs = 1 .. Len(evs) /\ Len(evs) \in Nat
      /\ DOMAIN Append(evs, event) = 1 .. Len(evs) + 1
      /\ \A i \in 1 .. Len(evs) : Append(evs, event)[i] = evs[i]
      /\ Append(evs, event)[Len(evs) + 1] = event
    OBVIOUS
<1>2. QED
    BY <1>1 DEF AnswersIn

\* The owner takes an event: the lane it answers is empty after it.
LEMMA LaneAnswered ==
    ASSUME NEW channel, NEW evs \in Seq(Events), evs # <<>>, NEW kinds, NEW id,
           NEW items, Lane(channel, evs, kinds, id, items)
    PROVE  /\ Head(evs).kind \in kinds =>
                /\ Lane(channel, Tail(evs), kinds, id, items \ {Head(evs).id})
                /\ Head(evs).id \in items
           /\ Head(evs).kind \notin kinds =>
                Lane(channel, Tail(evs), kinds, id, items)
<1>0. Len(evs) \in Nat \ {0} /\ DOMAIN evs = 1 .. Len(evs)
    OBVIOUS
<1>1. ASSUME Head(evs).kind \in kinds
      PROVE  /\ Lane(channel, Tail(evs), kinds, id, items \ {Head(evs).id})
             /\ Head(evs).id \in items
  <2>1. AnswersIn(evs, kinds) = {1} /\ items = {Head(evs).id}
    BY <1>1, TailAnswers DEF Lane
  <2>2. channel = <<>> /\ id = NoId
    BY <2>1 DEF Lane
  <2>3. AnswersIn(Tail(evs), kinds) = {}
    <3>1. \A i \in AnswersIn(Tail(evs), kinds) : i \in Nat \ {0} /\ i + 1 = 1
        BY <2>1, TailAnswers DEF AnswersIn
    <3>2. QED
        BY <3>1
  <2>4. QED
    BY <2>1, <2>2, <2>3 DEF Lane
<1>2. ASSUME Head(evs).kind \notin kinds
      PROVE  Lane(channel, Tail(evs), kinds, id, items)
  <2>1. 1 \notin AnswersIn(evs, kinds)
    BY <1>2, TailAnswers
  <2>2. AnswersIn(evs, kinds) = {} <=> AnswersIn(Tail(evs), kinds) = {}
    BY <2>1, TailAnswers
  <2>3. ASSUME NEW i \in AnswersIn(Tail(evs), kinds)
        PROVE  AnswersIn(Tail(evs), kinds) = {i} /\ items = {Tail(evs)[i].id}
    <3>1. i \in Nat /\ i + 1 \in AnswersIn(evs, kinds) /\ Tail(evs)[i] = evs[i + 1]
        BY TailAnswers DEF AnswersIn
    <3>2. \A j \in AnswersIn(Tail(evs), kinds) :
            j \in Nat /\ j + 1 \in AnswersIn(evs, kinds)
        BY TailAnswers DEF AnswersIn
    <3>3. AnswersIn(evs, kinds) = {i + 1} /\ items = {evs[i + 1].id}
        BY <3>1 DEF Lane
    <3>4. \A j \in AnswersIn(Tail(evs), kinds) : j = i
        BY <3>1, <3>2, <3>3
    <3>5. QED
        BY <3>1, <3>3, <3>4
  <2>4. QED
    BY <2>2, <2>3 DEF Lane
<1>3. QED
    BY <1>1, <1>2

\* A thread answers: its work moves from the thread to the events.
LEMMA LaneReports ==
    ASSUME NEW channel, NEW evs \in Seq(Events), NEW event \in Events, NEW kinds,
           NEW id, NEW items, Lane(channel, evs, kinds, id, items)
    PROVE  /\ event.kind \notin kinds =>
                Lane(channel, Append(evs, event), kinds, id, items)
           /\ event.kind \in kinds /\ id # NoId /\ event.id = id =>
                Lane(channel, Append(evs, event), kinds, NoId, items)
<1>1. ASSUME event.kind \notin kinds
      PROVE  Lane(channel, Append(evs, event), kinds, id, items)
  <2>1. AnswersIn(Append(evs, event), kinds) = AnswersIn(evs, kinds)
    BY <1>1, AppendAnswers
  <2>2. \A i \in AnswersIn(evs, kinds) : Append(evs, event)[i] = evs[i]
    BY DEF AnswersIn
  <2>3. QED
    BY <2>1, <2>2, Zenon DEF Lane
<1>2. ASSUME event.kind \in kinds, id # NoId, event.id = id
      PROVE  Lane(channel, Append(evs, event), kinds, NoId, items)
  <2>1. AnswersIn(evs, kinds) = {} /\ items = {id} /\ channel = <<>>
    BY <1>2 DEF Lane
  <2>2. AnswersIn(Append(evs, event), kinds) = {Len(evs) + 1}
    BY <1>2, <2>1, AppendAnswers
  <2>3. QED
    BY <1>2, <2>1, <2>2, AppendAnswers DEF Lane
<1>3. QED
    BY <1>1, <1>2

\* The owner submits to an empty lane: the lane has that work alone.
LEMMA LaneSends ==
    ASSUME NEW channel \in Seq(Ids), NEW evs, NEW kinds, NEW id, NEW new \in Ids,
           Lane(channel, evs, kinds, id, {})
    PROVE  Lane(Append(channel, new), evs, kinds, id, {new}) /\ id = NoId
<1>1. channel = <<>> /\ id = NoId /\ AnswersIn(evs, kinds) = {}
    BY DEF Lane
<1>2. Append(channel, new) # <<>> /\ Len(Append(channel, new)) = 1
      /\ Head(Append(channel, new)) = new
    BY <1>1
<1>3. QED
    BY <1>1, <1>2 DEF Lane

\* A thread takes its work out of the channel.
LEMMA LaneReceives ==
    ASSUME NEW channel \in Seq(Ids), channel # <<>>, NEW evs, NEW kinds, NEW items,
           Lane(channel, evs, kinds, NoId, items)
    PROVE  Lane(Tail(channel), evs, kinds, Head(channel), items)
<1>1. Len(channel) = 1 /\ items = {Head(channel)} /\ AnswersIn(evs, kinds) = {}
    BY DEF Lane
<1>2. Tail(channel) \in Seq(Ids) /\ Len(Tail(channel)) = 0 /\ Head(channel) \in Ids
    BY <1>1
<1>3. Head(channel) # NoId
    BY <1>2 DEF Ids, NoId
<1>4. Tail(channel) = <<>>
    BY <1>2, EmptySeq
<1>5. QED
    BY <1>1, <1>3, <1>4 DEF Lane

(***************************************************************************)
(* The planner's lane and the executor's lane.                             *)
(***************************************************************************)
PlanKinds == {"planned"}
RunKinds == {"rejected", "finished"}

PlanLane == Lane(plans, events, PlanKinds, planner, InStage(PlannerStages))
RunLane == Lane(executions, events, RunKinds, executor.id, InStage({"Executing"}))

\* Once the workers are told to shut down the owner does nothing more.
EndInv == cancelled => todo = <<>> /\ planCancelled

\* The owner acts only before the shutdown, and nobody else calls it.
LEMMA EndStep ==
    ASSUME EndInv, [Next]_vars
    PROVE  /\ EndInv'
           /\ OwnerActs => ~cancelled
           /\ ~OwnerActs => UNCHANGED cancelled
           /\ cancelled => cancelled'
<1>1. OwnerActs => ~cancelled
  <2>1. OwnerStep => todo # <<>>
    BY DEF OwnerStep, ShowNextConfirmation, StartPlanning, StartExecution,
        StartNothing, CancelPendingWork, FlushPlanCancellation, Quit,
        RequestStop, Prompt, RefreshPrompt, FinishExitAfterWork, Step
  <2>2. OwnerActs /\ ~OwnerStep => OwnerIsFree
    BY DEF OwnerActs, ReaderActs, RequestDeletion, ConfirmDeletion,
        CancelConfirmation, ScreenTooSmall, Resize, PromptExitKey, ExitKey,
        DismissExit, CancelPendingWorkAndExit, StopDeletionAndExit,
        CancelRebuild, SignalQuit, SignalForce, DepartureEnds, Reader, Serves,
        EventArrives, DeletionPlanned, ExecutionRejected, DeletionFinished,
        ScanProgress, ScanPathGone, ScanFinished, ScanReports, Handles,
        StoreMoves, PublicationEnds, OverlayFails, StoreIsLost, Shutdown
  <2>3. QED
    BY <2>1, <2>2 DEF EndInv, OwnerIsFree
<1>2. OwnerActs => UNCHANGED cancelled \/ Shutdown
  <2>1. CASE OwnerStep
    BY <2>1 DEF OwnerStep, ShowNextConfirmation, StartPlanning, StartExecution,
        StartNothing, CancelPendingWork, FlushPlanCancellation, Quit,
        RequestStop, Prompt, RefreshPrompt, FinishExitAfterWork,
        GiveUpPending, SubmitPlan, SubmitExecution
  <2>2. CASE ReaderActs \/ DepartureEnds
    BY <2>2 DEF ReaderActs, RequestDeletion, ConfirmDeletion, CancelConfirmation,
        ScreenTooSmall, Resize, PromptExitKey, ExitKey, DismissExit,
        CancelPendingWorkAndExit, StopDeletionAndExit, CancelRebuild,
        SignalQuit, SignalForce, CancelAndExit, DepartureEnds
  <2>3. CASE EventArrives \/ ScanProgress \/ ScanPathGone \/ ScanFinished
    BY <2>3 DEF EventArrives, DeletionPlanned, ExecutionRejected,
        DeletionFinished, ScanProgress, ScanPathGone, ScanFinished
  <2>4. CASE StoreMoves
    BY <2>4 DEF StoreMoves, PublicationEnds, OverlayFails, StoreIsLost
  <2>5. QED
    BY <2>1, <2>2, <2>3, <2>4 DEF OwnerActs
<1>3. ~OwnerActs => UNCHANGED <<cancelled, todo, planCancelled>>
    BY DEF OwnerActs, Next, PlannerRuns, PlannerReceives, PlannerAnswers,
        ExecutorRuns, ExecutorReceives, Revalidates, NextEntry, Claims, Begins,
        Removes, Reports, Ends, vars
<1>4. Shutdown => todo' = <<>> /\ planCancelled' /\ cancelled'
    BY DEF Shutdown, OwnerIsFree
<1>5. QED
    BY <1>1, <1>2, <1>3, <1>4 DEF EndInv

\* Both lanes stay in order over every step of the owner.
LEMMA LaneOwnerStep ==
    ASSUME RailTypes, ChannelTypes, LeaseInv, RailInv,
           modal \notin InStage(LeasedStages), PlanLane, RunLane, OwnerActs
    PROVE  PlanLane' /\ RunLane'
<1>0. NoId \notin DOMAIN rail
    BY DEF RailTypes, Ids, NoId
<1>1. ASSUME NEW id, SendsPlan(id)
      PROVE  PlanLane' /\ RunLane'
  <2>1. /\ id \in DOMAIN rail /\ id \in Ids /\ rail[id].stage = "QueuedPlanning"
        /\ InStage(PlannerStages) = {}
    BY <1>1 DEF SendsPlan, CanPlan, Oldest, InStage, RailTypes
  <2>2. /\ DOMAIN rail' = DOMAIN rail
        /\ \A i \in DOMAIN rail :
             rail'[i].stage = IF i = id THEN "Planning" ELSE rail[i].stage
    BY <1>1, <2>1, SetStageRail DEF SendsPlan, SubmitPlan, Stages
  <2>3. /\ InStage(PlannerStages)' = {id}
        /\ InStage({"Executing"})' = InStage({"Executing"})
    BY <2>1, <2>2 DEF InStage, PlannerStages
  <2>4. Lane(Append(plans, id), events, PlanKinds, planner, {id})
    BY <2>1, LaneSends DEF PlanLane, ChannelTypes
  <2>5. /\ plans' = Append(plans, id)
        /\ UNCHANGED <<executions, events, planner, executor>>
    BY <1>1 DEF SendsPlan, SubmitPlan
  <2>6. QED
    BY <2>3, <2>4, <2>5 DEF PlanLane, RunLane
<1>2. ASSUME NEW id, SendsExecution(id)
      PROVE  PlanLane' /\ RunLane'
  <2>1. /\ id \in DOMAIN rail /\ id \in Ids /\ rail[id].stage = "QueuedExecution"
        /\ InStage({"Executing"}) = {}
    BY <1>2 DEF SendsExecution, CanExecute, Oldest, InStage, RailTypes
  <2>2. /\ DOMAIN rail' = DOMAIN rail
        /\ \A i \in DOMAIN rail :
             rail'[i].stage = IF i = id THEN "Executing" ELSE rail[i].stage
    BY <1>2, <2>1, SetStageRail DEF SendsExecution, SubmitExecution, Stages
  <2>3. /\ InStage({"Executing"})' = {id}
        /\ InStage(PlannerStages)' = InStage(PlannerStages)
    BY <2>1, <2>2 DEF InStage, PlannerStages
  <2>4. Lane(Append(executions, id), events, RunKinds, executor.id, {id})
    BY <2>1, LaneSends DEF RunLane, ChannelTypes
  <2>5. /\ executions' = Append(executions, id)
        /\ UNCHANGED <<plans, events, planner, executor>>
    BY <1>2 DEF SendsExecution, SubmitExecution
  <2>6. QED
    BY <2>3, <2>4, <2>5 DEF PlanLane, RunLane
<1>3. CASE Settles(Head(events).id)
  <2> DEFINE id == Head(events).id
  <2>1. /\ InStage(PlannerStages)' = InStage(PlannerStages) \ {id}
        /\ InStage({"Executing"})' = InStage({"Executing"}) \ {id}
    BY <1>3, KeepsStages DEF Settles
  <2>2. InStage(PlannerStages) \cap InStage({"Executing"}) = {}
    BY DEF InStage, PlannerStages
  <2>3. events \in Seq(Events) /\ events # <<>> /\ Head(events) \in Events
    BY <1>3 DEF Settles, ChannelTypes
  <2>4. Head(events).kind \in PlanKinds <=> Head(events).kind \notin RunKinds
    BY <2>3 DEF Events, PlanKinds, RunKinds
  <2>5. UNCHANGED <<plans, executions, planner, executor>> /\ events' = Tail(events)
    BY <1>3 DEF Settles
  <2>6. CASE Head(events).kind \in PlanKinds
    <3>1. /\ Lane(plans, Tail(events), PlanKinds, planner, InStage(PlannerStages) \ {id})
          /\ id \in InStage(PlannerStages)
          /\ Lane(executions, Tail(events), RunKinds, executor.id, InStage({"Executing"}))
        BY <2>3, <2>4, <2>6, LaneAnswered DEF PlanLane, RunLane
    <3>2. InStage({"Executing"}) \ {id} = InStage({"Executing"})
        BY <3>1, <2>2
    <3>3. QED
        BY <2>1, <2>5, <3>1, <3>2 DEF PlanLane, RunLane
  <2>7. CASE Head(events).kind \in RunKinds
    <3>1. /\ Lane(executions, Tail(events), RunKinds, executor.id,
                  InStage({"Executing"}) \ {id})
          /\ id \in InStage({"Executing"})
          /\ Lane(plans, Tail(events), PlanKinds, planner, InStage(PlannerStages))
        BY <2>3, <2>4, <2>7, LaneAnswered DEF PlanLane, RunLane
    <3>2. InStage(PlannerStages) \ {id} = InStage(PlannerStages)
        BY <3>1, <2>2
    <3>3. QED
        BY <2>1, <2>5, <3>1, <3>2 DEF PlanLane, RunLane
  <2>8. QED
    BY <2>4, <2>6, <2>7
<1>4. CASE Quiet
  <2>1. /\ InStage(PlannerStages)' = InStage(PlannerStages)
        /\ InStage({"Executing"})' = InStage({"Executing"})
    BY <1>0, <1>4, KeepsStages DEF Quiet, InStage
  <2>2. QED
    BY <1>4, <2>1 DEF Quiet, LaneIsQuiet, PlanLane, RunLane
<1>5. ASSUME NEW target \in Targets, RequestDeletion(target), LaneIsQuiet
      PROVE  PlanLane' /\ RunLane'
  <2>1. /\ InStage(PlannerStages)' = InStage(PlannerStages)
        /\ InStage({"Executing"})' = InStage({"Executing"})
    BY <1>5, RequestRail DEF InStage, PlannerStages
  <2>2. QED
    BY <1>5, <2>1 DEF LaneIsQuiet, PlanLane, RunLane
<1>6. QED
    BY <1>1, <1>2, <1>3, <1>4, <1>5, OwnerRail

\* Both lanes stay in order over every step.
LEMMA LaneStep ==
    ASSUME RailTypes, ChannelTypes, executor \in Executors, ExecutorShape,
           LeaseInv, RailInv, modal \notin InStage(LeasedStages),
           ~cancelled, PlanLane, RunLane, [Next]_vars
    PROVE  PlanLane' /\ RunLane'
<1>1. CASE OwnerActs
    BY <1>1, LaneOwnerStep
<1>2. CASE PlannerReceives
  <2>1. Lane(Tail(plans), events, PlanKinds, Head(plans), InStage(PlannerStages))
    BY <1>2, LaneReceives DEF PlannerReceives, PlanLane, ChannelTypes
  <2>2. QED
    BY <1>2, <2>1 DEF PlannerReceives, PlanLane, RunLane, InStage
<1>3. CASE PlannerAnswers
  <2>1. PICK result \in PlanResults :
          events' = Append(events, [kind |-> "planned", id |-> planner, result |-> result])
    BY <1>3 DEF PlannerAnswers, Send
  <2> DEFINE event == [kind |-> "planned", id |-> planner, result |-> result]
  <2>2. event \in Events /\ event.kind = "planned" /\ event.id = planner
    BY <1>3 DEF PlannerAnswers, Events, ChannelTypes
  <2> HIDE DEF event
  <2>3. /\ Lane(plans, Append(events, event), PlanKinds, NoId, InStage(PlannerStages))
        /\ Lane(executions, Append(events, event), RunKinds, executor.id, InStage({"Executing"}))
    BY <1>3, <2>2, LaneReports
    DEF PlannerAnswers, PlanLane, RunLane, ChannelTypes, PlanKinds, RunKinds
  <2>4. /\ events' = Append(events, event) /\ planner' = NoId
        /\ UNCHANGED <<plans, executions, executor, rail>>
    BY <1>3, <2>1 DEF PlannerAnswers, event
  <2>5. QED
    BY <2>3, <2>4 DEF PlanLane, RunLane, InStage
<1>4. CASE ExecutorReceives
  <2>1. executor.id = NoId
    BY <1>4 DEF ExecutorReceives, ExecutorShape
  <2>2. Lane(Tail(executions), events, RunKinds, Head(executions), InStage({"Executing"}))
    BY <1>4, <2>1, LaneReceives DEF ExecutorReceives, RunLane, ChannelTypes
  <2>3. executor'.id = Head(executions)
    BY <1>4, ReceivesFields
  <2>4. QED
    BY <1>4, <2>2, <2>3 DEF ExecutorReceives, PlanLane, RunLane, InStage
<1>5. ASSUME NEW event \in Events, event.kind \in RunKinds, event.id = executor.id,
             executor.id # NoId, Ends(event), UNCHANGED <<rail, plans, executions, planner>>
      PROVE  PlanLane' /\ RunLane'
  <2>1. /\ Lane(executions, Append(events, event), RunKinds, NoId, InStage({"Executing"}))
        /\ Lane(plans, Append(events, event), PlanKinds, planner, InStage(PlannerStages))
    BY <1>5, LaneReports DEF PlanLane, RunLane, ChannelTypes, PlanKinds, RunKinds
  <2>2. events' = Append(events, event) /\ executor'.id = NoId
    BY <1>5, IdleFields DEF Ends, Send
  <2>3. QED
    BY <1>5, <2>1, <2>2 DEF PlanLane, RunLane, InStage
<1>6. CASE Reports
  <2>1. executor.id \in Ids /\ executor.id # NoId
    BY <1>6 DEF Reports, Executors, ExecutorShape
  <2> DEFINE event == [kind |-> "finished", id |-> executor.id,
                       deleted |-> executor.deleted,
                       whole |-> executor.whole /\ ~softCancelled]
  <2>2. event \in Events /\ event.kind = "finished" /\ event.id = executor.id
    BY <2>1 DEF Events, Executors
  <2>3. Ends(event) /\ UNCHANGED <<rail, plans, executions, planner>>
    BY <1>6 DEF Reports
  <2> HIDE DEF event
  <2>4. QED
    BY <1>5, <2>1, <2>2, <2>3 DEF RunKinds
<1>7. CASE Revalidates
  <2>1. executor.id \in Ids /\ executor.id # NoId
    BY <1>7 DEF Revalidates, Executors, ExecutorShape
  <2> DEFINE event == [kind |-> "rejected", id |-> executor.id]
  <2>2. event \in Events /\ event.kind = "rejected" /\ event.id = executor.id
    BY <2>1 DEF Events
  <2>3. UNCHANGED <<rail, plans, executions, planner>>
    BY <1>7 DEF Revalidates
  <2>4. CASE Ends(event)
    <3> HIDE DEF event
    <3>1. QED
        BY <1>5, <2>1, <2>2, <2>3, <2>4 DEF RunKinds
  <2>5. CASE ~Ends(event)
    <3>1. events' = events /\ executor'.id = executor.id
        BY <1>7, <2>1, <2>5 DEF Revalidates, Executors
    <3>2. QED
        BY <2>3, <3>1 DEF PlanLane, RunLane, InStage
  <2>6. QED
    BY <2>4, <2>5
<1>8. CASE NextEntry \/ Claims \/ Begins \/ Removes
  <2>1. executor'.id = executor.id
    BY <1>8, NextEntryFields, ClaimsFields, BeginsFields, RemovesFields DEF Works
  <2>2. UNCHANGED <<rail, plans, executions, events, planner>>
    BY <1>8 DEF NextEntry, Claims, Begins, Removes
  <2>3. QED
    BY <2>1, <2>2 DEF PlanLane, RunLane, InStage
<1>9. CASE UNCHANGED vars
    BY <1>9 DEF vars, PlanLane, RunLane, InStage
<1>10. QED
    BY <1>1, <1>2, <1>3, <1>4, <1>6, <1>7, <1>8, <1>9
    DEF Next, OwnerActs, PlannerRuns, ExecutorRuns

(***************************************************************************)
(* Stops and mutations.                                                    *)
(***************************************************************************)
\* What the executor has begun shows in mutation_state, and what it began
\* after a stop was asked for is the one entry that had passed its boundary.
MutationInv ==
    /\ executor.deleted \/ executor.phase = "isolated" => mutation = "STARTED"
    /\ executor.late # 0 =>
         /\ executor.late = 1 /\ softCancelled
         /\ executor.phase \in {"isolated", "entry"}

\* The owner takes a stop back only for a new execution.
LEMMA OwnerStops ==
    ASSUME OwnerActs
    PROVE  \/ \E id : SendsExecution(id)
           \/ /\ \/ UNCHANGED mutation
                 \/ mutation \in {"PREPARING", "CLAIMED"}
              /\ softCancelled => softCancelled'
<1>1. CASE OwnerStep
  <2>1. CASE StartPlanning \/ StartExecution
    BY <2>1 DEF StartPlanning, StartExecution, SubmitPlan, SendsExecution, GiveUpPending
  <2>2. QED
    BY <1>1, <2>1 DEF OwnerStep, ShowNextConfirmation, 
        StartNothing, CancelPendingWork, FlushPlanCancellation, Quit,
        RequestStop, Prompt, RefreshPrompt, FinishExitAfterWork
<1>2. CASE ReaderActs \/ DepartureEnds
    BY <1>2 DEF ReaderActs, RequestDeletion, ConfirmDeletion, CancelConfirmation,
        ScreenTooSmall, Resize, PromptExitKey, ExitKey, DismissExit,
        CancelPendingWorkAndExit, StopDeletionAndExit, CancelRebuild,
        SignalQuit, SignalForce, CancelAndExit, DepartureEnds
<1>3. CASE EventArrives \/ ScanProgress \/ ScanPathGone \/ ScanFinished
    BY <1>3 DEF EventArrives, DeletionPlanned, ExecutionRejected,
        DeletionFinished, ScanProgress, ScanPathGone, ScanFinished
<1>4. CASE StoreMoves \/ Shutdown
    BY <1>4 DEF StoreMoves, PublicationEnds, OverlayFails, StoreIsLost, Shutdown
<1>5. QED
    BY <1>1, <1>2, <1>3, <1>4 DEF OwnerActs

\* mutation_state and the late entry stay what MutationInv says, the owner's stop
\* and the executor's claim in any order.
LEMMA MutationStep ==
    ASSUME ChannelTypes, executor \in Executors, ExecutorShape, MutationInv, EndInv,
           ~cancelled => RunLane, [Next]_vars
    PROVE  MutationInv'
<1>1. CASE OwnerActs
  <2>1. ~cancelled /\ UNCHANGED executor
    BY <1>1, EndStep, OwnerFrame
  <2>2. ASSUME NEW id, SendsExecution(id)
        PROVE  MutationInv'
    <3>1. InStage({"Executing"}) = {}
        BY <2>2 DEF SendsExecution, CanExecute
    <3>2. executor.id = NoId
        BY <2>1, <3>1 DEF RunLane, Lane
    <3>3. QED
        BY <2>1, <3>2 DEF ExecutorShape, MutationInv
  <2>3. QED
    BY <1>1, <2>1, <2>2, OwnerStops DEF MutationInv
<1>2. CASE PlannerRuns \/ UNCHANGED vars
    BY <1>2 DEF PlannerRuns, PlannerReceives, PlannerAnswers, vars, MutationInv
<1>3. CASE ExecutorReceives
    BY <1>3, ReceivesFields DEF MutationInv
<1>4. CASE Revalidates
  <2>1. UNCHANGED mutation /\ UNCHANGED softCancelled
    BY <1>4 DEF Revalidates, Ends
  <2>2. CASE executor' = IdleExecutor
    BY <2>2, IdleFields DEF MutationInv
  <2>3. QED
    BY <1>4, <2>1, <2>2, RevalidatesFields DEF MutationInv, Works
<1>5. CASE NextEntry
    BY <1>5, NextEntryFields DEF MutationInv, Works, NextEntry, MustStop
<1>6. CASE Claims
    BY <1>6, ClaimsFields DEF MutationInv, Works, Claims
<1>7. CASE Begins
  <2>1. executor.late = 0
    BY <1>7, BeginsFields DEF MutationInv
  <2>2. CASE Works("isolated", executor.left) /\ mutation' = "STARTED"
             /\ UNCHANGED softCancelled
             /\ executor'.late = IF softCancelled THEN executor.late + 1 ELSE executor.late
    BY <2>1, <2>2 DEF MutationInv, Works
  <2>3. CASE Works("entry", executor.left - 1) /\ executor'.late = executor.late
    <3>1. executor.deleted => mutation' = "STARTED"
        BY <1>7 DEF Begins, MutationInv
    <3>2. QED
        BY <1>7, <2>1, <2>3, <3>1, BeginsFields DEF MutationInv, Works
  <2>4. QED
    BY <1>7, <2>2, <2>3, BeginsFields
<1>8. CASE Removes
    BY <1>8, RemovesFields DEF MutationInv, Works, Removes
<1>9. CASE Reports
    BY <1>9, IdleFields DEF MutationInv, Reports, Ends
<1>10. QED
    BY <1>1, <1>2, <1>3, <1>4, <1>5, <1>6, <1>7, <1>8, <1>9
    DEF Next, OwnerActs, ExecutorRuns

(***************************************************************************)
(* The dialogs and the rail.                                               *)
(***************************************************************************)
\* A confirmation is only open over a map that is not being replaced, and the
\* modal names an item only while one is open.
ShownInv ==
    /\ map \in {"scanning", "publishing"} => mode # "DeleteConfirm"
    /\ modal # NoId => mode = "DeleteConfirm"

\* A confirmation never stays open over a map that is being replaced.
LEMMA ShownStep ==
    ASSUME ShownInv, [Next]_vars
    PROVE  ShownInv'
<1> USE DEF ShownInv
<1>1. CASE OwnerStep
    BY <1>1 DEF OwnerStep, ShowNextConfirmation, StartPlanning, StartExecution,
        StartNothing, CancelPendingWork, FlushPlanCancellation, Quit,
        RequestStop, Prompt, RefreshPrompt, FinishExitAfterWork, CancelPending,
        GiveUpPending, SubmitPlan, SubmitExecution, PromptExit, DismissedMode,
        CanShow, DeletionIsBlocked, DeletionIsUnavailable
<1>2. CASE ReaderActs \/ DepartureEnds
    BY <1>2 DEF ReaderActs, RequestDeletion, ConfirmDeletion, CancelConfirmation,
        ScreenTooSmall, Resize, PromptExitKey, ExitKey, DismissExit,
        CancelPendingWorkAndExit, StopDeletionAndExit, CancelRebuild,
        SignalQuit, SignalForce, CancelAndExit, CancelPending, DropModal,
        DepartureEnds
<1>3. CASE EventArrives \/ ScanProgress \/ ScanPathGone \/ ScanFinished
    BY <1>3 DEF EventArrives, DeletionPlanned, ExecutionRejected,
        DeletionFinished, Reconcile, Invalidate, CancelPending, BeginRebuild,
        DismissedMode, FirstMapIsOwed, ScanProgress, ScanPathGone, ScanFinished
<1>4. CASE StoreMoves \/ Shutdown
    BY <1>4 DEF StoreMoves, PublicationEnds, OverlayFails, StoreIsLost,
        StoreSettles, CancelPending, BeginRebuild, DropModal, Shutdown
<1>5. CASE PlannerRuns \/ ExecutorRuns
    BY <1>5 DEF PlannerRuns, PlannerReceives, PlannerAnswers, ExecutorRuns,
        ExecutorReceives, Revalidates, NextEntry, Claims, Begins, Removes,
        Reports, Ends
<1>6. CASE UNCHANGED vars
    BY <1>6 DEF vars
<1>7. QED
    BY <1>1, <1>2, <1>3, <1>4, <1>5, <1>6 DEF Next

\* The modal names the item being confirmed, and no other is.
ConfirmInv == InStage({"Confirming"}) = {modal} \ {NoId}

\* What each edit of the rail does to the items being confirmed.
LEMMA ConfirmingAfter ==
    ASSUME RailTypes
    PROVE  /\ UNCHANGED rail => UNCHANGED InStage({"Confirming"})
           /\ \A items : items \in [DOMAIN items -> WorkItem] /\ rail' = Retained(items)
                        => InStage({"Confirming"})' = {}
           /\ \A id : rail' = Remove(rail, {id}) =>
                        InStage({"Confirming"})' = InStage({"Confirming"}) \ {id}
           /\ \A id \in DOMAIN rail, stage \in Stages :
                rail' = SetStage(id, stage) =>
                    InStage({"Confirming"})' =
                        IF stage = "Confirming" THEN InStage({"Confirming"}) \cup {id}
                        ELSE InStage({"Confirming"}) \ {id}
<1>1. UNCHANGED rail => UNCHANGED InStage({"Confirming"})
    BY DEF InStage
<1>2. ASSUME NEW items, items \in [DOMAIN items -> WorkItem], rail' = Retained(items)
      PROVE  InStage({"Confirming"})' = {}
  <2>1. \A i \in DOMAIN rail' :
          /\ items[i] \in WorkItem
          /\ items[i].stage \in LeasedStages
          /\ rail'[i] = IF items[i].stage = "Planning"
                        THEN [items[i] EXCEPT !.stage = "CancellingPlanning"]
                        ELSE items[i]
    BY <1>2 DEF Retained
  <2>2. \A i \in DOMAIN rail' : rail'[i].stage # "Confirming"
    BY <2>1 DEF LeasedStages, PlannerStages, WorkItem
  <2>3. QED
    BY <2>2 DEF InStage
<1>3. ASSUME NEW id, rail' = Remove(rail, {id})
      PROVE  InStage({"Confirming"})' = InStage({"Confirming"}) \ {id}
    BY <1>3 DEF Remove, InStage
<1>4. ASSUME NEW id \in DOMAIN rail, NEW stage \in Stages, rail' = SetStage(id, stage)
      PROVE  InStage({"Confirming"})' =
                IF stage = "Confirming" THEN InStage({"Confirming"}) \cup {id}
                ELSE InStage({"Confirming"}) \ {id}
    BY <1>4, SetStageRail DEF InStage
<1>5. QED
    BY <1>1, <1>2, <1>3, <1>4

\* An event that arrives is about an item that is with a worker.
LEMMA EventItem ==
    ASSUME ChannelTypes, PlanLane, RunLane, events # <<>>
    PROVE  /\ Head(events) \in Events
           /\ Head(events).kind = "planned" =>
                Head(events).id \in InStage(PlannerStages)
           /\ Head(events).kind # "planned" =>
                Head(events).id \in InStage({"Executing"})
<1>1. events \in Seq(Events) /\ Head(events) \in Events
    BY DEF ChannelTypes
<1>2. Head(events).kind \in PlanKinds \/ Head(events).kind \in RunKinds
    BY <1>1 DEF Events, PlanKinds, RunKinds
<1>3. QED
    BY <1>1, <1>2, LaneAnswered DEF PlanLane, RunLane, PlanKinds, RunKinds

\* The item being confirmed is the modal's, over every step.
LEMMA ConfirmStep ==
    ASSUME RailTypes, RailInv, LeaseInv, ChannelTypes, ShownInv, ConfirmInv, EndInv,
           ~cancelled => PlanLane /\ RunLane, [Next]_vars
    PROVE  ConfirmInv'
<1> DEFINE C == InStage({"Confirming"})
<1>0. rail \in [DOMAIN rail -> WorkItem] /\ NoId \notin DOMAIN rail
    BY DEF RailTypes, Ids, NoId
<1>1. CASE UNCHANGED rail /\ UNCHANGED modal
    BY <1>1, ConfirmingAfter DEF ConfirmInv
<1>2. ASSUME NEW items, items \in [DOMAIN items -> WorkItem], CancelPending(items)
      PROVE  ConfirmInv'
    BY <1>2, ConfirmingAfter DEF CancelPending, ConfirmInv
<1>3. CASE DropModal
    BY <1>3, ConfirmingAfter DEF DropModal, ConfirmInv
<1>4. ASSUME NEW id \in DOMAIN rail, rail[id].stage # "Confirming",
             NEW stage \in Stages \ {"Confirming"}, rail' = SetStage(id, stage),
             UNCHANGED modal
      PROVE  ConfirmInv'
  <2>1. C' = C \ {id} /\ id \notin C
    BY <1>4, ConfirmingAfter DEF InStage
  <2>2. QED
    BY <1>4, <2>1 DEF ConfirmInv
<1>5. CASE PlannerRuns \/ ExecutorRuns \/ UNCHANGED vars
    BY <1>1, <1>5 DEF PlannerRuns, PlannerReceives, PlannerAnswers, ExecutorRuns,
        ExecutorReceives, Revalidates, NextEntry, Claims, Begins, Removes,
        Reports, Ends, vars
<1>6. CASE OwnerStep
  <2>1. CASE ShowNextConfirmation
    <3>1. ASSUME NEW id \in DOMAIN rail, CanShow(id), rail' = SetStage(id, "Confirming"),
                 modal' = id
          PROVE  ConfirmInv'
      <4>1. C = {} /\ id # NoId
        BY <1>0, <3>1 DEF CanShow, ShownInv, ConfirmInv
      <4>2. C' = C \cup {id}
        BY <3>1, ConfirmingAfter DEF Stages
      <4>3. QED
        BY <3>1, <4>1, <4>2 DEF ConfirmInv
    <3>2. QED
        BY <1>1, <2>1, <3>1 DEF ShowNextConfirmation
  <2>2. CASE StartPlanning
    <3>1. ASSUME NEW id \in DOMAIN rail, CanPlan(id), SubmitPlan(id)
          PROVE  ConfirmInv'
        BY <1>4, <3>1 DEF CanPlan, Oldest, InStage, SubmitPlan, Stages
    <3>2. QED
        BY <1>0, <1>1, <1>2, <2>2, <3>1 DEF StartPlanning, GiveUpPending
  <2>3. CASE StartExecution
    <3>1. ASSUME NEW id \in DOMAIN rail, CanExecute(id), SubmitExecution(id)
          PROVE  ConfirmInv'
        BY <1>4, <3>1 DEF CanExecute, Oldest, InStage, SubmitExecution, Stages
    <3>2. QED
        BY <1>0, <1>1, <1>2, <2>3, <3>1 DEF StartExecution, GiveUpPending
  <2>4. CASE Prompt
    <3>1. modal' = NoId
        BY <2>4 DEF Prompt, PromptExit
    <3>2. CASE mode = "DeleteConfirm" /\ modal \in C
      <4>1. rail' = SetStage(modal, "AwaitingConfirmation")
        BY <2>4, <3>2 DEF Prompt, PromptExit
      <4>2. C' = C \ {modal}
        BY <3>2, <4>1, ConfirmingAfter DEF InStage, Stages
      <4>3. QED
        BY <3>1, <4>2 DEF ConfirmInv
    <3>3. CASE ~(mode = "DeleteConfirm" /\ modal \in C)
      <4>1. UNCHANGED rail
        BY <2>4, <3>3 DEF Prompt, PromptExit
      <4>2. modal = NoId
        BY <3>3 DEF ShownInv, ConfirmInv
      <4>3. QED
        BY <1>1, <3>1, <4>1, <4>2
    <3>4. QED
        BY <3>2, <3>3
  <2>5. CASE CancelPendingWork
    BY <1>0, <1>2, <2>5 DEF CancelPendingWork
  <2>6. QED
    BY <1>1, <1>6, <2>1, <2>2, <2>3, <2>4, <2>5 DEF OwnerStep, StartNothing,
        FlushPlanCancellation, Quit, RequestStop, RefreshPrompt,
        FinishExitAfterWork
<1>7. CASE ReaderActs \/ DepartureEnds
  <2>1. ASSUME NEW target \in Targets, RequestDeletion(target)
        PROVE  ConfirmInv'
    <3>1. C' = C /\ UNCHANGED modal
        BY <2>1, RequestRail DEF InStage, RequestDeletion
    <3>2. QED
        BY <3>1 DEF ConfirmInv
  <2>2. CASE ConfirmDeletion
    <3>1. CASE modal \in C /\ rail' = SetStage(modal, "QueuedPlanning") /\ modal' = NoId
      <4>1. C' = C \ {modal}
        BY <3>1, ConfirmingAfter DEF InStage, Stages
      <4>2. QED
        BY <3>1, <4>1 DEF ConfirmInv
    <3>2. QED
        BY <1>0, <1>2, <2>2, <3>1 DEF ConfirmDeletion
  <2>3. QED
    BY <1>1, <1>3, <1>7, <2>1, <2>2 DEF ReaderActs, CancelConfirmation,
        ScreenTooSmall, Resize, PromptExitKey, ExitKey, DismissExit,
        CancelPendingWorkAndExit, StopDeletionAndExit, CancelRebuild,
        SignalQuit, SignalForce, CancelAndExit, DepartureEnds
<1>8. CASE ScanProgress \/ ScanPathGone \/ ScanFinished
    BY <1>1, <1>8 DEF ScanProgress, ScanPathGone, ScanFinished
<1>9. CASE StoreMoves \/ Shutdown
    BY <1>0, <1>1, <1>2, <1>3, <1>9 DEF StoreMoves, PublicationEnds, OverlayFails,
        StoreIsLost, StoreSettles, Shutdown
<1>10. CASE EventArrives
  <2> DEFINE id == Head(events).id
  <2>0. ~cancelled /\ events # <<>>
    BY <1>10, EndStep DEF OwnerActs, EventArrives, DeletionPlanned,
        ExecutionRejected, DeletionFinished, Handles
  <2>1. id \in DOMAIN rail /\ id \notin C
    BY <2>0, EventItem DEF InStage, PlannerStages
  <2>2. Settled(id) \in [DOMAIN Settled(id) -> WorkItem]
    BY <1>0 DEF Settled, Remove
  <2>3. CASE rail' = Settled(id) /\ UNCHANGED modal
    <3>1. C' = C \ {id}
        BY <2>3, ConfirmingAfter DEF Settled
    <3>2. QED
        BY <2>1, <2>3, <3>1 DEF ConfirmInv
  <2>4. CASE DeletionPlanned
    <3>1. UNCHANGED modal
        BY <2>4 DEF DeletionPlanned
    <3>2. \/ rail' = SetStage(id, "QueuedExecution")
          \/ rail' = Settled(id)
        BY <2>4 DEF DeletionPlanned
    <3>3. rail[id].stage # "Confirming"
        BY <2>1 DEF InStage
    <3>4. QED
        BY <1>4, <2>1, <2>3, <3>1, <3>2, <3>3 DEF Stages
  <2>5. CASE ExecutionRejected
    BY <1>2, <2>2, <2>3, <2>5 DEF ExecutionRejected, Invalidate
  <2>6. CASE DeletionFinished
    BY <1>2, <2>2, <2>3, <2>6 DEF DeletionFinished, Reconcile, Invalidate
  <2>7. QED
    BY <1>10, <2>4, <2>5, <2>6 DEF EventArrives
<1>11. QED
    BY <1>5, <1>6, <1>7, <1>8, <1>9, <1>10 DEF Next, OwnerActs

\* The item the modal shows is with no worker.
LEMMA ModalApart ==
    ASSUME RailTypes, ConfirmInv
    PROVE  modal \notin InStage(LeasedStages)
<1>1. NoId \notin DOMAIN rail
    BY DEF RailTypes, Ids, NoId
<1>2. QED
    BY <1>1 DEF ConfirmInv, InStage, LeasedStages, PlannerStages

(***************************************************************************)
(* The end of the run.                                                     *)
(***************************************************************************)
\* The empty rail is the one without identifiers.
LEMMA EmptyRail ==
    ASSUME NEW f, f \in [DOMAIN f -> WorkItem]
    PROVE  DOMAIN f = {} <=> f = <<>>
<1>1. ASSUME DOMAIN f = {} PROVE f = <<>>
  <2>1. DOMAIN f = 1 .. 0
    BY <1>1
  <2>2. f \in [1 .. 0 -> WorkItem]
    BY <2>1
  <2>3. f \in Seq(WorkItem) /\ Len(f) = 0
    BY <2>2
  <2>4. QED
    BY <2>3, EmptySeq
<1>2. ASSUME f = <<>> PROVE DOMAIN f = {}
    BY <1>2
<1>3. QED
    BY <1>1, <1>2

\* Only a request puts an item on the rail.
LEMMA RailShrinks ==
    ASSUME RailTypes, modal \notin InStage(LeasedStages), [Next]_vars
    PROVE  \/ DOMAIN rail' \subseteq DOMAIN rail
           \/ \E target \in Targets : RequestDeletion(target)
<1>1. CASE OwnerActs
  <2>1. ASSUME NEW id, SendsPlan(id) \/ SendsExecution(id)
        PROVE  DOMAIN rail' \subseteq DOMAIN rail
    BY <2>1 DEF SendsPlan, SendsExecution, SubmitPlan, SubmitExecution, SetStage
  <2>2. QED
    BY <1>1, <2>1, OwnerRail DEF Quiet, Settles, Keeps
<1>2. CASE PlannerRuns \/ ExecutorRuns \/ UNCHANGED vars
    BY <1>2 DEF PlannerRuns, PlannerReceives, PlannerAnswers, ExecutorRuns,
        ExecutorReceives, Revalidates, NextEntry, Claims, Begins, Removes,
        Reports, Ends, vars
<1>3. QED
    BY <1>1, <1>2 DEF Next, OwnerActs

\* Only a request fills an empty rail.
LEMMA EmptyStays ==
    ASSUME RailTypes, RailTypes', modal \notin InStage(LeasedStages), [Next]_vars,
           rail = <<>>
    PROVE  rail' = <<>> \/ \E target \in Targets : RequestDeletion(target)
<1>1. DOMAIN rail = {}
    BY EmptyRail DEF RailTypes
<1>2. CASE DOMAIN rail' \subseteq DOMAIN rail
    BY <1>1, <1>2, EmptyRail DEF RailTypes
<1>3. QED
    BY <1>2, RailShrinks

\* A dialog that offers to quit at once has no work behind it.
ExitInv == mode = "Exiting" /\ exitWork = "None" => rail = <<>>

\* The exit dialog is opened by a prompt, and changes with the work behind it.
LEMMA ExitScreen ==
    ASSUME [Next]_vars
    PROVE  \/ mode' # "Exiting"
           \/ Prompt \/ RefreshPrompt
           \/ mode = "Exiting" /\ UNCHANGED exitWork
<1>1. CASE OwnerStep
    BY <1>1 DEF OwnerStep, ShowNextConfirmation, StartPlanning, StartExecution,
        StartNothing, CancelPendingWork, FlushPlanCancellation, Quit,
        RequestStop, FinishExitAfterWork, GiveUpPending, SubmitPlan,
        SubmitExecution, DismissedMode
<1>2. CASE ReaderActs \/ DepartureEnds
    BY <1>2 DEF ReaderActs, RequestDeletion, ConfirmDeletion, CancelConfirmation,
        ScreenTooSmall, Resize, PromptExitKey, ExitKey, DismissExit,
        CancelPendingWorkAndExit, StopDeletionAndExit, CancelRebuild,
        SignalQuit, SignalForce, CancelAndExit, DepartureEnds
<1>3. CASE EventArrives \/ ScanProgress \/ ScanPathGone \/ ScanFinished
    BY <1>3 DEF EventArrives, DeletionPlanned, ExecutionRejected,
        DeletionFinished, Reconcile, Invalidate, BeginRebuild,
        DismissedMode, ScanProgress, ScanPathGone, ScanFinished
<1>4. CASE StoreMoves \/ Shutdown
    BY <1>4 DEF StoreMoves, PublicationEnds, OverlayFails, StoreIsLost,
        StoreSettles, BeginRebuild, Shutdown
<1>5. CASE PlannerRuns \/ ExecutorRuns
    BY <1>5 DEF PlannerRuns, PlannerReceives, PlannerAnswers, ExecutorRuns,
        ExecutorReceives, Revalidates, NextEntry, Claims, Begins, Removes,
        Reports, Ends
<1>6. CASE UNCHANGED vars
    BY <1>6 DEF vars
<1>7. QED
    BY <1>1, <1>2, <1>3, <1>4, <1>5, <1>6 DEF Next

\* An exit prompt that speaks of no work stays true.
LEMMA ExitStep ==
    ASSUME RailTypes, RailTypes', modal \notin InStage(LeasedStages), ExitInv, [Next]_vars
    PROVE  ExitInv'
<1>1. CASE Prompt
  <2>1. CASE rail = <<>>
    <3>1. \A target : ~RequestDeletion(target)
        BY <1>1 DEF Prompt, Step, RequestDeletion, Reader, Serves, OwnerIsFree
    <3>2. QED
        BY <2>1, <3>1, EmptyStays DEF ExitInv
  <2>2. CASE rail # <<>>
    BY <1>1, <2>2 DEF Prompt, PromptExit, CurrentExitWork, ExitInv
  <2>3. QED
    BY <2>1, <2>2
<1>2. CASE RefreshPrompt
    BY <1>2 DEF RefreshPrompt, CurrentExitWork, ExitInv
<1>3. CASE mode = "Exiting" /\ UNCHANGED exitWork
  <2>1. \A target : ~RequestDeletion(target)
    BY <1>3 DEF RequestDeletion
  <2>2. QED
    BY <1>3, <2>1, EmptyStays DEF ExitInv
<1>4. QED
    BY <1>1, <1>2, <1>3, ExitScreen DEF ExitInv

\* Unless it was forced, a run that ends has nothing on the rail, nothing with
\* the executor, and has served its reader for the last time.
QuitInv ==
    ~running =>
        /\ lastPass >= 1
        /\ signals < 2 =>
             /\ rail = <<>> /\ executor.id = NoId /\ executions = <<>>
             /\ lastPass >= 2

\* What each step does to the loop that ends.
LEMMA LoopEnds ==
    ASSUME LoopTypes, PassTypes, [Next]_vars, ~running'
    PROVE  \/ ~running /\ UNCHANGED <<signals, lastPass>>
           \/ /\ ~running /\ lastPass' > lastPass
              /\ signals' = signals \/ lastPass = 0
           \/ lastPass' = 2 /\ UNCHANGED signals /\ ~running
           \/ running /\ (FinishExitAfterWork \/ ExitKey) /\ lastPass' = 2 /\ UNCHANGED signals
           \/ signals' = 2 /\ lastPass' >= 1
<1> USE DEF LoopTypes, PassTypes
<1>0. \A source \in {"signal", "input", "store", "worker", "departure"} :
        Serves(source) => running \/ lastPass' > lastPass
    BY DEF Serves, Sources
<1>1. CASE OwnerStep
    BY <1>1 DEF OwnerStep, ShowNextConfirmation, StartPlanning, StartExecution,
        StartNothing, CancelPendingWork, FlushPlanCancellation, Quit,
        RequestStop, Prompt, RefreshPrompt, FinishExitAfterWork, Sources
<1>2. CASE ReaderActs \/ DepartureEnds
  <2>1. CASE ExitKey
    BY <2>1 DEF ExitKey, Sources
  <2>2. CASE SignalForce
    BY <2>2 DEF SignalForce, Sources
  <2>3. CASE SignalQuit
    BY <2>3, <1>0 DEF SignalQuit, CancelAndExit, Serves, Sources
  <2>4. CASE \/ \E target \in Targets : RequestDeletion(target)
             \/ ConfirmDeletion \/ CancelConfirmation \/ ScreenTooSmall
             \/ Resize \/ PromptExitKey \/ DismissExit
             \/ CancelPendingWorkAndExit \/ StopDeletionAndExit
             \/ CancelRebuild \/ DepartureEnds
    BY <1>0, <2>4 DEF RequestDeletion, ConfirmDeletion, CancelConfirmation,
        ScreenTooSmall, Resize, PromptExitKey, DismissExit,
        CancelPendingWorkAndExit, StopDeletionAndExit, CancelRebuild,
        CancelAndExit, DepartureEnds, Reader
  <2>5. QED
    BY <1>2, <2>1, <2>2, <2>3, <2>4 DEF ReaderActs
<1>3. CASE EventArrives \/ ScanProgress \/ ScanPathGone \/ ScanFinished
    BY <1>0, <1>3 DEF EventArrives, DeletionPlanned, ExecutionRejected,
        DeletionFinished, ScanProgress, ScanPathGone, ScanFinished, ScanReports,
        Handles
<1>4. CASE StoreMoves \/ Shutdown
    BY <1>0, <1>4 DEF StoreMoves, PublicationEnds, OverlayFails, StoreIsLost, Shutdown
<1>5. CASE PlannerRuns \/ ExecutorRuns
    BY <1>5 DEF PlannerRuns, PlannerReceives, PlannerAnswers, ExecutorRuns,
        ExecutorReceives, Revalidates, NextEntry, Claims, Begins, Removes,
        Reports, Ends
<1>6. CASE UNCHANGED vars
    BY <1>6 DEF vars
<1>7. QED
    BY <1>1, <1>2, <1>3, <1>4, <1>5, <1>6 DEF Next

\* Every step keeps what a run that has ended says of the rail and the executor.
LEMMA QuitStep ==
    ASSUME RailTypes, RailTypes', LoopTypes, PassTypes, PassTypes', ChannelTypes,
           executor \in Executors, ExecutorShape, modal \notin InStage(LeasedStages),
           EndInv, ExitInv, ~cancelled => RunLane, QuitInv, [Next]_vars
    PROVE  QuitInv'
<1> SUFFICES ASSUME ~running'
             PROVE  /\ lastPass' >= 1
                    /\ signals' < 2 =>
                         /\ rail' = <<>> /\ executor'.id = NoId
                         /\ executions' = <<>> /\ lastPass' >= 2
    BY DEF QuitInv
<1>1. lastPass' >= 1
    BY LoopEnds DEF QuitInv, PassTypes
<1>2. ASSUME signals' < 2
      PROVE  /\ rail' = <<>> /\ executor'.id = NoId
             /\ executions' = <<>> /\ lastPass' >= 2
  <2>1. CASE ~running
    <3>1. signals < 2
        BY <1>2, <2>1, LoopEnds DEF QuitInv, PassTypes
    <3>2. rail = <<>> /\ executor.id = NoId /\ executions = <<>> /\ lastPass >= 2
        BY <2>1, <3>1 DEF QuitInv
    <3>3. lastPass' >= 2
        BY <1>2, <2>1, <3>1, <3>2, LoopEnds DEF PassTypes
    <3>4. \A target : ~RequestDeletion(target)
        BY <2>1, <3>2 DEF RequestDeletion, Reader, Serves, Sources, PassTypes
    <3>5. rail' = <<>>
        BY <3>2, <3>4, EmptyStays
    <3>6. DOMAIN rail = {}
        BY <3>2
    <3>7. executor.phase = "idle"
        BY <3>2 DEF ExecutorShape
    <3>8. UNCHANGED <<executor, executions>>
      <4>1. CASE OwnerActs
        <5>1. UNCHANGED executor
            BY <4>1, OwnerFrame
        <5>2. ASSUME NEW id PROVE ~SendsPlan(id) /\ ~SendsExecution(id)
            BY <3>6 DEF SendsPlan, SendsExecution
        <5>3. EventArrives => UNCHANGED executions
            BY DEF EventArrives, DeletionPlanned, ExecutionRejected, DeletionFinished
        <5>4. QED
            BY <4>1, <5>1, <5>2, <5>3, OwnerLanes DEF LaneIsQuiet
      <4>2. CASE ~OwnerActs
        BY <3>2, <3>7, <4>2 DEF OwnerActs, Next, vars, PlannerRuns,
            PlannerReceives, PlannerAnswers, ExecutorRuns, ExecutorReceives,
            Revalidates, NextEntry, Claims, Begins, Removes, Reports
      <4>3. QED
        BY <4>1, <4>2
    <3>9. QED
        BY <3>2, <3>3, <3>5, <3>8
  <2>2. CASE running
    <3>1. (FinishExitAfterWork \/ ExitKey) /\ lastPass' = 2
        BY <1>2, <2>2, LoopEnds DEF PassTypes
    <3>2. rail = <<>>
      <4>1. CASE FinishExitAfterWork
        BY <2>2, <4>1 DEF FinishExitAfterWork, WorkIsOver
      <4>2. CASE ExitKey
        BY <4>2 DEF ExitKey, CanExitImmediately, ExitInv
      <4>3. QED
        BY <3>1, <4>1, <4>2
    <3>3. OwnerActs
        BY <3>1 DEF OwnerActs, OwnerStep, ReaderActs
    <3>4. RunLane
        BY <3>3, EndStep
    <3>5. InStage({"Executing"}) = {}
        BY <3>2 DEF InStage
    <3>6. executor.id = NoId /\ executions = <<>>
        BY <3>4, <3>5 DEF RunLane, Lane
    <3>7. UNCHANGED <<rail, executor, executions>>
        BY <3>1 DEF FinishExitAfterWork, ExitKey
    <3>8. QED
        BY <3>1, <3>2, <3>6, <3>7
  <2>3. QED
    BY <2>1, <2>2
<1>3. QED
    BY <1>1, <1>2

Has(steps) == \E i \in DOMAIN todo : todo[i] \in steps

\* What is still to be done stays to be done until its turn comes.
LEMMA HasTail ==
    ASSUME NEW steps, todo \in Tidy, todo # <<>>, Has(steps)
    PROVE  /\ Head(todo) \in steps \/ (todo' = Tail(todo) => Has(steps)')
           /\ \A first \in Tidy : Head(todo) \in steps \/ (todo' = first \o Tail(todo) => Has(steps)')
<1>0. /\ todo \in Seq(OwnerSteps) /\ DOMAIN todo = 1 .. Len(todo) /\ Len(todo) \in Nat \ {0}
      /\ Head(todo) = todo[1] /\ Tail(todo) \in Seq(OwnerSteps)
      /\ DOMAIN Tail(todo) = 1 .. Len(todo) - 1
      /\ \A i \in 1 .. Len(todo) - 1 : Tail(todo)[i] = todo[i + 1]
    BY DEF Tidy
<1>1. CASE Head(todo) \in steps
    BY <1>1
<1>2. CASE Head(todo) \notin steps
  <2>1. PICK i \in DOMAIN todo : todo[i] \in steps
    BY DEF Has
  <2>2. i - 1 \in 1 .. Len(todo) - 1 /\ Tail(todo)[i - 1] = todo[i]
    BY <1>0, <1>2, <2>1
  <2>3. todo' = Tail(todo) => Has(steps)'
    BY <1>0, <2>1, <2>2 DEF Has
  <2>4. ASSUME NEW first \in Tidy, todo' = first \o Tail(todo)
        PROVE  Has(steps)'
    <3>1. first \in Seq(OwnerSteps)
        BY DEF Tidy
    <3>2. /\ Len(first) \in Nat
          /\ DOMAIN (first \o Tail(todo)) = 1 .. Len(first) + (Len(todo) - 1)
          /\ \A k \in 1 .. Len(todo) - 1 :
               (first \o Tail(todo))[k + Len(first)] = Tail(todo)[k]
        BY <1>0, <3>1
    <3>3. (i - 1) + Len(first) \in DOMAIN (first \o Tail(todo))
        BY <1>0, <2>2, <3>2
    <3>4. (first \o Tail(todo))[(i - 1) + Len(first)] = todo[i]
        BY <2>2, <3>2
    <3>5. QED
        BY <2>1, <2>4, <3>3, <3>4 DEF Has
  <2>5. QED
    BY <2>3, <2>4
<1>3. QED
    BY <1>1, <1>2

(***************************************************************************)
(* Prompts that replace a confirmation.                                    *)
(***************************************************************************)
Prompting == {"quit", "stopAndQuit", "promptCancelling", "promptStopping"}

\* A step takes the first name of the list; only two of them open a prompt.
LEMMA OwnerPops ==
    ASSUME OwnerStep
    PROVE  /\ todo # <<>>
           /\ \/ Prompt /\ mode' = "Exiting"
              \/ Quit
              \/ todo' = Tail(todo) /\ Head(todo) \notin Prompting
    BY DEF OwnerStep, ShowNextConfirmation, StartPlanning, StartExecution,
        StartNothing, CancelPendingWork, FlushPlanCancellation,
        RequestStop, Prompt, PromptExit, RefreshPrompt, FinishExitAfterWork, Step,
        Quit, Prompting

\* The handlers, which find the list empty.
LEMMA HandlersAreFree ==
    ASSUME OwnerActs, ~OwnerStep
    PROVE  todo = <<>>
    BY DEF OwnerIsFree, OwnerActs, ReaderActs, RequestDeletion, ConfirmDeletion,
        CancelConfirmation, ScreenTooSmall, Resize, PromptExitKey, ExitKey,
        DismissExit, CancelPendingWorkAndExit, StopDeletionAndExit,
        CancelRebuild, SignalQuit, SignalForce, DepartureEnds, Reader, Serves,
        EventArrives, DeletionPlanned, ExecutionRejected, DeletionFinished,
        ScanProgress, ScanPathGone, ScanFinished, ScanReports, Handles,
        StoreMoves, PublicationEnds, OverlayFails, StoreIsLost, Shutdown

\* A confirmation that lost its item is about to give way to the exit dialog.
PromptedInv == mode = "DeleteConfirm" /\ modal = NoId => Has(Prompting)

\* Who can leave a confirmation without its item.
LEMMA OrphanScreen ==
    ASSUME ShownInv, RailTypes, [Next]_vars, mode' = "DeleteConfirm", modal' = NoId
    PROVE  CancelPendingWork \/ (mode = "DeleteConfirm" /\ modal = NoId)
<1>0. NoId \notin DOMAIN rail
    BY DEF RailTypes, Ids, NoId
<1>1. CASE OwnerStep
    BY <1>0, <1>1 DEF OwnerStep, ShowNextConfirmation, StartPlanning, StartExecution,
        StartNothing, FlushPlanCancellation, Quit, RequestStop, Prompt,
        PromptExit, RefreshPrompt, FinishExitAfterWork, GiveUpPending, SubmitPlan,
        SubmitExecution, DismissedMode
<1>2. CASE ReaderActs \/ DepartureEnds
    BY <1>2 DEF ReaderActs, RequestDeletion, ConfirmDeletion, CancelConfirmation,
        ScreenTooSmall, Resize, PromptExitKey, ExitKey, DismissExit,
        CancelPendingWorkAndExit, StopDeletionAndExit, CancelRebuild,
        SignalQuit, SignalForce, CancelAndExit, DepartureEnds
<1>3. CASE EventArrives \/ ScanProgress \/ ScanPathGone \/ ScanFinished
    BY <1>3 DEF EventArrives, DeletionPlanned, ExecutionRejected,
        DeletionFinished, Reconcile, Invalidate, BeginRebuild,
        DismissedMode, ScanProgress, ScanPathGone, ScanFinished
<1>4. CASE StoreMoves \/ Shutdown
    BY <1>4 DEF StoreMoves, PublicationEnds, OverlayFails, StoreIsLost,
        StoreSettles, BeginRebuild, Shutdown
<1>5. CASE PlannerRuns \/ ExecutorRuns
    BY <1>5 DEF PlannerRuns, PlannerReceives, PlannerAnswers, ExecutorRuns,
        ExecutorReceives, Revalidates, NextEntry, Claims, Begins, Removes,
        Reports, Ends
<1>6. CASE UNCHANGED vars
    BY <1>6 DEF vars
<1>7. QED
    BY <1>1, <1>2, <1>3, <1>4, <1>5, <1>6 DEF Next

\* The threads leave the owner's list alone.
LEMMA ThreadsFrame ==
    ASSUME [Next]_vars, ~OwnerActs
    PROVE  UNCHANGED <<work, screen, mapVars, cancelRequested, loop, todo,
                       planCancelled, cancelled>>
    BY DEF OwnerActs, Next, PlannerRuns, PlannerReceives, PlannerAnswers,
        ExecutorRuns, ExecutorReceives, Revalidates, NextEntry, Claims, Begins,
        Removes, Reports, Ends, vars

\* A confirmation whose item is gone is replaced by a prompt before the owner is
\* free again.
LEMMA PromptedStep ==
    ASSUME RailTypes, todo \in Tidy, ShownInv, PromptedInv, [Next]_vars
    PROVE  PromptedInv'
<1> SUFFICES ASSUME mode' = "DeleteConfirm", modal' = NoId
             PROVE  Has(Prompting)'
    BY DEF PromptedInv
<1>1. CASE CancelPendingWork
  <2>1. /\ todo \in Seq(OwnerSteps) /\ todo # <<>> /\ Head(todo) = "cancelPending"
        /\ todo' = Tail(todo) /\ Orderly(todo)
    BY <1>1 DEF CancelPendingWork, Step, Tidy
  <2>2. /\ 1 \in DOMAIN todo /\ todo[1] = "cancelPending"
    BY <2>1
  <2>3. 1 + 2 \in DOMAIN todo /\ todo[1 + 2] \in {"quit", "stopAndQuit"}
    BY <2>1, <2>2 DEF Orderly
  <2>4. 2 \in DOMAIN todo' /\ todo'[2] = todo[3]
    BY <2>1, <2>3
  <2>5. todo'[2] \in Prompting
    BY <2>3, <2>4 DEF Prompting
  <2>6. QED
    BY <2>4, <2>5 DEF Has
<1>2. CASE mode = "DeleteConfirm" /\ modal = NoId
  <2>1. Has(Prompting) /\ todo # <<>>
    BY <1>2 DEF PromptedInv, Has
  <2>2. CASE ~OwnerActs
    BY <2>1, <2>2, ThreadsFrame DEF Has
  <2>3. CASE Quit
    <3>1. \/ todo' = <<"requestStop", "promptStopping">> \o Tail(todo)
          \/ todo' = <<"promptCancelling">> \o Tail(todo)
        BY <2>3 DEF Quit
    <3>2. Tail(todo) \in Seq(OwnerSteps)
        BY <2>1 DEF Tidy
    <3>3. CASE todo' = <<"requestStop", "promptStopping">> \o Tail(todo)
      <4>1. 2 \in DOMAIN todo' /\ todo'[2] = "promptStopping"
        BY <3>2, <3>3
      <4>2. QED
        BY <4>1 DEF Has, Prompting
    <3>4. CASE todo' = <<"promptCancelling">> \o Tail(todo)
      <4>1. 1 \in DOMAIN todo' /\ todo'[1] = "promptCancelling"
        BY <3>2, <3>4
      <4>2. QED
        BY <4>1 DEF Has, Prompting
    <3>5. QED
        BY <3>1, <3>3, <3>4
  <2>4. CASE OwnerStep /\ ~Quit
    BY <2>1, <2>4, OwnerPops, HasTail
  <2>5. QED
    BY <2>1, <2>2, <2>3, <2>4, HandlersAreFree
<1>3. QED
    BY <1>1, <1>2, OrphanScreen

(***************************************************************************)
(* What the exit dialog says of an exit and of a removal under way.        *)
(***************************************************************************)
Leaving == exitAfterWork \/ ~running
PlainSteps == OwnerSteps \ {"promptCancelling", "promptStopping"}
SaysLeaving == mode = "Exiting" /\ exitWork \in {"Cancelling", "Stopping"}

\* Unless the program is leaving, no dialog says so and no step is about to.
LeavingInv == Leaving \/ (todo \in Seq(PlainSteps) /\ ~SaysLeaving)

\* A removal the dialog speaks of is under way, or the dialog is about to be
\* drawn again.
ActiveInv ==
    mode = "Exiting" /\ exitWork = "Active" /\ ~Leaving =>
        InStage({"Executing"}) # {} \/ Has({"refreshPrompt"})

\* An exit that was confirmed stays confirmed until the program leaves.
LEMMA LeavingStays ==
    ASSUME LoopTypes, [Next]_vars, Leaving
    PROVE  Leaving'
<1> USE DEF Leaving, LoopTypes
<1>1. CASE OwnerStep
    BY <1>1 DEF OwnerStep, ShowNextConfirmation, StartPlanning, StartExecution,
        StartNothing, CancelPendingWork, FlushPlanCancellation, Quit,
        RequestStop, Prompt, RefreshPrompt, FinishExitAfterWork, loop
<1>2. CASE ReaderActs \/ DepartureEnds
    BY <1>2 DEF ReaderActs, RequestDeletion, ConfirmDeletion, CancelConfirmation,
        ScreenTooSmall, Resize, PromptExitKey, ExitKey, DismissExit,
        CancelPendingWorkAndExit, StopDeletionAndExit, CancelRebuild,
        SignalQuit, SignalForce, CancelAndExit, DepartureEnds, ending, loop
<1>3. CASE EventArrives \/ ScanProgress \/ ScanPathGone \/ ScanFinished
    BY <1>3 DEF EventArrives, DeletionPlanned, ExecutionRejected,
        DeletionFinished, ScanProgress, ScanPathGone, ScanFinished, ending
<1>4. CASE StoreMoves \/ Shutdown
    BY <1>4 DEF StoreMoves, PublicationEnds, OverlayFails, StoreIsLost, Shutdown,
        ending, loop
<1>5. CASE PlannerRuns \/ ExecutorRuns
    BY <1>5 DEF PlannerRuns, PlannerReceives, PlannerAnswers, ExecutorRuns,
        ExecutorReceives, Revalidates, NextEntry, Claims, Begins, Removes,
        Reports, Ends, loop
<1>6. CASE UNCHANGED vars
    BY <1>6 DEF vars, loop, ending
<1>7. QED
    BY <1>1, <1>2, <1>3, <1>4, <1>5, <1>6 DEF Next

\* The lists handlers leave behind hold plain steps only.
LEMMA PlainLists ==
    /\ AfterInput \in Seq(PlainSteps) /\ AfterEvent \in Seq(PlainSteps)
    /\ AfterDeparture \in Seq(PlainSteps) /\ AfterStore \in Seq(PlainSteps)
    /\ ForcedDeparture \in Seq(PlainSteps)
    /\ <<"show">> \in Seq(PlainSteps) /\ <<"confirmedPlanning">> \in Seq(PlainSteps)
    /\ <<"show", "flush">> \in Seq(PlainSteps) /\ <<"prompt">> \in Seq(PlainSteps)
    /\ <<"requestStop">> \in Seq(PlainSteps) /\ <<"finishExit">> \in Seq(PlainSteps)
    /\ \A how \in {"quit", "stopAndQuit"} :
         <<"cancelPending", "flush", how>> \in Seq(PlainSteps)
<1> USE DEF PlainSteps, OwnerSteps
<1>1. AfterInput \in Seq(PlainSteps) /\ AfterEvent \in Seq(PlainSteps)
    BY DEF AfterInput, AfterEvent
<1>2. AfterDeparture \in Seq(PlainSteps) /\ AfterStore \in Seq(PlainSteps)
    BY DEF AfterDeparture, AfterStore
<1>3. ForcedDeparture \in Seq(PlainSteps)
    BY <1>2 DEF ForcedDeparture
<1>4. /\ <<"show">> \in Seq(PlainSteps) /\ <<"confirmedPlanning">> \in Seq(PlainSteps)
      /\ <<"show", "flush">> \in Seq(PlainSteps) /\ <<"prompt">> \in Seq(PlainSteps)
      /\ <<"requestStop">> \in Seq(PlainSteps) /\ <<"finishExit">> \in Seq(PlainSteps)
    OBVIOUS
<1>5. \A how \in {"quit", "stopAndQuit"} :
         <<"cancelPending", "flush", how>> \in Seq(PlainSteps)
    OBVIOUS
<1>6. QED
    BY <1>1, <1>2, <1>3, <1>4, <1>5

\* Only a confirmed quit puts the announcement of an exit on the list.
LEMMA PlainStep ==
    ASSUME todo \in Seq(PlainSteps), [Next]_vars, ~Quit
    PROVE  todo' \in Seq(PlainSteps)
<1>0. \A s, t \in Seq(PlainSteps) : s \o t \in Seq(PlainSteps)
    OBVIOUS
<1>1. CASE OwnerStep
  <2>1. \A name : Step(name) => todo' \in Seq(PlainSteps)
    BY DEF Step
  <2>2. QED
    BY <1>1, <2>1 DEF OwnerStep, ShowNextConfirmation, StartPlanning,
        StartExecution, StartNothing, CancelPendingWork, FlushPlanCancellation,
        RequestStop, Prompt, RefreshPrompt, FinishExitAfterWork
<1>2. CASE ReaderActs \/ DepartureEnds
  <2>1. /\ <<"show">> \o AfterInput \in Seq(PlainSteps)
        /\ <<"confirmedPlanning">> \o AfterInput \in Seq(PlainSteps)
        /\ ForcedDeparture \o <<"prompt">> \o AfterInput \in Seq(PlainSteps)
    BY <1>0, PlainLists
  <2>2. \A how \in {"quit", "stopAndQuit"}, then \in Seq(PlainSteps) :
          CancelAndExit(how, then) => todo' \in Seq(PlainSteps)
    BY <1>0, PlainLists DEF CancelAndExit
  <2>3. CASE CancelPendingWorkAndExit \/ StopDeletionAndExit \/ SignalQuit
    BY <2>2, <2>3, PlainLists
    DEF CancelPendingWorkAndExit, StopDeletionAndExit, SignalQuit
  <2>4. CASE \/ \E target \in Targets : RequestDeletion(target)
             \/ ConfirmDeletion \/ CancelConfirmation \/ ScreenTooSmall
             \/ Resize \/ PromptExitKey \/ DismissExit \/ ExitKey
             \/ CancelRebuild \/ DepartureEnds \/ SignalForce
    BY <2>1, <2>4, PlainLists DEF RequestDeletion, ConfirmDeletion,
        CancelConfirmation, ScreenTooSmall, Resize, PromptExitKey, ExitKey,
        DismissExit, CancelRebuild, SignalForce, DepartureEnds
  <2>5. QED
    BY <1>2, <2>3, <2>4 DEF ReaderActs
<1>3. CASE EventArrives \/ ScanProgress \/ ScanPathGone \/ ScanFinished
    BY <1>3, PlainLists DEF EventArrives, DeletionPlanned, ExecutionRejected,
        DeletionFinished, ScanProgress, ScanPathGone, ScanFinished, Handles
<1>4. CASE StoreMoves \/ Shutdown
    BY <1>4, PlainLists DEF StoreMoves, PublicationEnds, OverlayFails, StoreIsLost, Shutdown
<1>5. CASE PlannerRuns \/ ExecutorRuns
    BY <1>5 DEF PlannerRuns, PlannerReceives, PlannerAnswers, ExecutorRuns,
        ExecutorReceives, Revalidates, NextEntry, Claims, Begins, Removes,
        Reports, Ends
<1>6. CASE UNCHANGED vars
    BY <1>6 DEF vars
<1>7. QED
    BY <1>1, <1>2, <1>3, <1>4, <1>5, <1>6 DEF Next

\* No dialog announces an exit before it is confirmed.
LEMMA LeavingStep ==
    ASSUME LoopTypes, ScreenTypes, LeavingInv, [Next]_vars
    PROVE  LeavingInv'
<1>1. CASE Leaving
    BY <1>1, LeavingStays DEF LeavingInv
<1>2. CASE Quit
    BY <1>2 DEF Quit, LeavingInv, Leaving
<1>3. CASE ~Leaving /\ ~Quit
  <2>1. todo \in Seq(PlainSteps) /\ ~SaysLeaving
    BY <1>3 DEF LeavingInv
  <2>2. todo' \in Seq(PlainSteps)
    BY <1>3, <2>1, PlainStep
  <2>3. CurrentExitWork \notin {"Cancelling", "Stopping"}
    BY DEF CurrentExitWork
  <2>4. CASE Prompt
    <3>1. todo # <<>> => Head(todo) \notin {"promptCancelling", "promptStopping"}
        BY <2>1 DEF PlainSteps
    <3>2. exitWork' = CurrentExitWork
        BY <2>4, <3>1 DEF Prompt, PromptExit, Step
    <3>3. QED
        BY <2>2, <2>3, <3>2 DEF LeavingInv, SaysLeaving
  <2>5. CASE RefreshPrompt
    BY <2>1, <2>2, <2>3, <2>5 DEF RefreshPrompt, LeavingInv, SaysLeaving
  <2>6. CASE mode' # "Exiting" \/ (mode = "Exiting" /\ UNCHANGED exitWork)
    BY <2>1, <2>2, <2>6 DEF LeavingInv, SaysLeaving
  <2>7. QED
    BY <2>4, <2>5, <2>6, ExitScreen
<1>4. QED
    BY <1>1, <1>2, <1>3

\* A removal the exit dialog speaks of stays under way until its report has the
\* dialog drawn again.
LEMMA ActiveStep ==
    ASSUME RailTypes, LoopTypes, todo \in Tidy, modal \notin InStage(LeasedStages),
           ActiveInv, [Next]_vars
    PROVE  ActiveInv'
<1> SUFFICES ASSUME mode' = "Exiting", exitWork' = "Active", ~Leaving'
             PROVE  InStage({"Executing"})' # {} \/ Has({"refreshPrompt"})'
    BY DEF ActiveInv
<1>1. ~Leaving
    BY LeavingStays
<1>2. CASE ~OwnerActs
  <2>1. UNCHANGED <<mode, exitWork, rail, todo>>
    BY <1>2, ThreadsFrame DEF screen, work
  <2>2. QED
    BY <1>1, <2>1 DEF ActiveInv, InStage, Has
<1>3. CASE OwnerActs /\ InStage({"Executing"}) # {} /\ ~EventArrives
  <2>1. NoId \notin DOMAIN rail
    BY DEF RailTypes, Ids, NoId
  <2>2. ASSUME NEW id, SendsPlan(id)
        PROVE  InStage({"Executing"})' # {}
    <3>1. /\ id \in DOMAIN rail /\ rail[id].stage = "QueuedPlanning"
        BY <2>2 DEF SendsPlan, CanPlan, Oldest, InStage
    <3>2. /\ DOMAIN rail' = DOMAIN rail
          /\ \A i \in DOMAIN rail :
               rail'[i].stage = IF i = id THEN "Planning" ELSE rail[i].stage
        BY <2>2, <3>1, SetStageRail DEF SendsPlan, SubmitPlan, Stages
    <3>3. QED
        BY <1>3, <3>1, <3>2 DEF InStage
  <2>3. ASSUME NEW id, SendsExecution(id) PROVE FALSE
    BY <1>3, <2>3 DEF SendsExecution, CanExecute
  <2>4. CASE Quiet
    BY <1>3, <2>1, <2>4, KeepsStages DEF Quiet, InStage
  <2>5. ASSUME NEW target \in Targets, RequestDeletion(target) PROVE FALSE
    BY <2>5 DEF RequestDeletion
  <2>6. QED
    BY <1>3, <2>2, <2>3, <2>4, <2>5, OwnerRail
<1>4. CASE EventArrives
  <2>1. todo' = AfterEvent
    BY <1>4 DEF EventArrives, DeletionPlanned, ExecutionRejected, DeletionFinished,
        Handles
  <2>2. 3 \in DOMAIN AfterEvent /\ AfterEvent[3] = "refreshPrompt"
    BY DEF AfterEvent
  <2>3. QED
    BY <2>1, <2>2 DEF Has
<1>5. CASE OwnerActs /\ InStage({"Executing"}) = {} /\ ~EventArrives
  <2>1. CASE Prompt \/ RefreshPrompt
    <3>1. exitWork' = CurrentExitWork \/ (exitWork' = exitWork /\ mode # "Exiting")
        BY <1>1, <2>1 DEF Prompt, PromptExit, RefreshPrompt, Leaving, screen
    <3>2. CurrentExitWork # "Active"
        BY <1>5 DEF CurrentExitWork
    <3>3. QED
        BY <2>1, <3>1, <3>2 DEF Prompt, PromptExit, RefreshPrompt
  <2>2. CASE mode = "Exiting" /\ UNCHANGED exitWork /\ ~Prompt /\ ~RefreshPrompt
    <3>1. Has({"refreshPrompt"}) /\ todo # <<>>
        BY <1>1, <1>5, <2>2 DEF ActiveInv, Has
    <3>2. OwnerStep
        BY <1>5, <3>1, HandlersAreFree
    <3>3. ~Quit
        BY DEF Quit, Leaving
    <3>4. todo' = Tail(todo)
        BY <2>2, <3>2, <3>3, OwnerPops
    <3>5. Head(todo) # "refreshPrompt"
        BY <2>2, <3>2, <3>3 DEF OwnerStep, ShowNextConfirmation, StartPlanning,
            StartExecution, StartNothing, CancelPendingWork,
            FlushPlanCancellation, RequestStop, FinishExitAfterWork, Step
    <3>6. QED
        BY <3>1, <3>4, <3>5, HasTail
  <2>3. QED
    BY <2>1, <2>2, ExitScreen
<1>6. QED
    BY <1>2, <1>3, <1>4, <1>5

(***************************************************************************)
(* Cancellation of plans.                                                  *)
(***************************************************************************)
\* No plan is begun and none is cancelled.
Shrinks ==
    /\ InStage({"Planning"})' \subseteq InStage({"Planning"})
    /\ InStage({"CancellingPlanning"})' \subseteq InStage({"CancellingPlanning"})

\* The edits of the rail that begin and cancel no plan.
LEMMA EditShrinks ==
    ASSUME RailTypes
    PROVE  /\ UNCHANGED rail => Shrinks
           /\ \A id : rail' = Remove(rail, {id}) => Shrinks
           /\ \A id \in DOMAIN rail, stage \in Stages \ PlannerStages :
                rail' = SetStage(id, stage) => Shrinks
<1>1. UNCHANGED rail => Shrinks
    BY DEF InStage, Shrinks
<1>2. ASSUME NEW id, rail' = Remove(rail, {id})
      PROVE  Shrinks
    BY <1>2 DEF Remove, InStage, Shrinks
<1>3. ASSUME NEW id \in DOMAIN rail, NEW stage \in Stages \ PlannerStages,
             rail' = SetStage(id, stage)
      PROVE  Shrinks
  <2>1. /\ DOMAIN rail' = DOMAIN rail
        /\ \A i \in DOMAIN rail :
             rail'[i].stage = IF i = id THEN stage ELSE rail[i].stage
    BY <1>3, SetStageRail
  <2>2. QED
    BY <2>1 DEF InStage, Shrinks, PlannerStages
<1>4. QED
    BY <1>1, <1>2, <1>3

\* The items a cancellation is about: the rail's, or what an event left.
CancelsRail ==
    \/ CancelPending(rail)
    \/ CancelPending(Settled(Head(events).id))

\* After a cancellation no plan is wanted, and the plans it took back are
\* asked for.
LEMMA CancelPlans ==
    ASSUME RailTypes, LeaseInv, CancelsRail
    PROVE  /\ InStage({"Planning"})' = {}
           /\ \A id \in InStage({"CancellingPlanning"})' :
                id \in InStage({"CancellingPlanning"}) \/ cancelRequested'
           /\ cancelRequested => cancelRequested'
           /\ InStage({"Planning"}) = {} /\ cancelRequested' => cancelRequested
<1>1. PICK items : /\ CancelPending(items)
                   /\ DOMAIN items \subseteq DOMAIN rail
                   /\ \A i \in DOMAIN items : items[i] = rail[i]
    BY DEF CancelsRail, Settled, Remove
<1>2. \A i \in DOMAIN items : items[i] \in WorkItem
    BY <1>1 DEF RailTypes
<1>3. rail' = Retained(items) /\ cancelRequested' = (cancelRequested \/ PlannerLeased(items))
    BY <1>1 DEF CancelPending
<1>4. /\ DOMAIN rail' = {i \in DOMAIN items : items[i].stage \in LeasedStages}
      /\ \A i \in DOMAIN rail' :
           rail'[i] = IF items[i].stage = "Planning"
                      THEN [items[i] EXCEPT !.stage = "CancellingPlanning"]
                      ELSE items[i]
    BY <1>3 DEF Retained
<1>5. \A i \in DOMAIN rail' :
        /\ i \in DOMAIN items
        /\ rail'[i].stage = IF items[i].stage = "Planning" THEN "CancellingPlanning"
                            ELSE items[i].stage
    BY <1>2, <1>4 DEF WorkItem
<1>6. InStage({"Planning"})' = {}
    BY <1>5 DEF InStage
<1>7. ASSUME NEW id \in InStage({"CancellingPlanning"})'
      PROVE  id \in InStage({"CancellingPlanning"}) \/ cancelRequested'
  <2>1. /\ id \in DOMAIN items /\ id \in DOMAIN rail
        /\ rail[id].stage \in {"Planning", "CancellingPlanning"}
    BY <1>1, <1>5 DEF InStage
  <2>2. CASE rail[id].stage = "Planning"
    <3>1. id \in DOMAIN leases
        BY <2>1, <2>2 DEF LeaseInv, InStage, LeasedStages, PlannerStages
    <3>2. items[id].stage = "Planning"
        BY <1>1, <2>1, <2>2
    <3>3. PlannerLeased(items)
        BY <2>1, <3>1, <3>2 DEF PlannerLeased
    <3>4. QED
        BY <1>3, <3>3
  <2>3. QED
    BY <2>1, <2>2 DEF InStage
<1>8. InStage({"Planning"}) = {} => ~PlannerLeased(items)
    BY <1>1 DEF PlannerLeased, InStage
<1>9. QED
    BY <1>3, <1>6, <1>7, <1>8

\* What the owner's steps do to plans and to their cancellation.
LEMMA OwnerCancels ==
    ASSUME RailTypes, RailInv, LeaseInv, OwnerActs
    PROVE  \/ CancelsRail /\ UNCHANGED <<planCancelled, plans, planner>>
           \/ \E id : StartPlanning /\ SendsPlan(id)
           \/ FlushPlanCancellation
           \/ /\ Shrinks /\ UNCHANGED <<cancelRequested, plans, planner>>
              /\ UNCHANGED planCancelled \/ Shutdown
<1>1. CASE OwnerStep
  <2>1. CASE StartPlanning
    BY <2>1, EditShrinks
    DEF StartPlanning, GiveUpPending, SendsPlan, CancelsRail
  <2>2. CASE StartExecution
    <3>1. ASSUME NEW id \in DOMAIN rail, rail' = SetStage(id, "Executing")
          PROVE  Shrinks
        BY <3>1, EditShrinks DEF Stages, PlannerStages
    <3>2. QED
        BY <2>2, <3>1, EditShrinks
        DEF StartExecution, GiveUpPending, SubmitExecution, CancelsRail
  <2>3. CASE ShowNextConfirmation
    <3>1. ASSUME NEW id \in DOMAIN rail, rail' = SetStage(id, "Confirming")
          PROVE  Shrinks
        BY <3>1, EditShrinks DEF Stages, PlannerStages
    <3>2. QED
        BY <2>3, <3>1, EditShrinks DEF ShowNextConfirmation
  <2>4. CASE Prompt
    <3>1. Shrinks
      <4>1. UNCHANGED rail \/ (modal \in DOMAIN rail
                               /\ rail' = SetStage(modal, "AwaitingConfirmation"))
        BY <2>4 DEF Prompt, PromptExit, InStage
      <4>2. QED
        BY <4>1, EditShrinks DEF Stages, PlannerStages
    <3>2. QED
        BY <2>4, <3>1 DEF Prompt
  <2>5. QED
    BY <1>1, <2>1, <2>2, <2>3, <2>4, EditShrinks DEF OwnerStep, StartNothing,
        CancelPendingWork, Quit, RequestStop, RefreshPrompt,
        FinishExitAfterWork, CancelsRail
<1>2. CASE ReaderActs \/ DepartureEnds
  <2>1. ASSUME NEW target \in Targets, RequestDeletion(target)
        PROVE  Shrinks
    BY <2>1, RequestRail DEF InStage, Shrinks
  <2>2. CASE ConfirmDeletion
    <3>1. ASSUME modal \in InStage({"Confirming"}), rail' = SetStage(modal, "QueuedPlanning")
          PROVE  Shrinks
        BY <3>1, EditShrinks DEF InStage, Stages, PlannerStages
    <3>2. QED
        BY <2>2, <3>1 DEF ConfirmDeletion, CancelsRail
  <2>3. QED
    BY <1>2, <2>1, <2>2, EditShrinks DEF ReaderActs, RequestDeletion,
        CancelConfirmation, ScreenTooSmall, Resize, PromptExitKey, ExitKey,
        DismissExit, CancelPendingWorkAndExit, StopDeletionAndExit,
        CancelRebuild, SignalQuit, SignalForce, CancelAndExit, DropModal,
        DepartureEnds
<1>3. CASE ScanProgress \/ ScanPathGone \/ ScanFinished
    BY <1>3, EditShrinks DEF ScanProgress, ScanPathGone, ScanFinished
<1>4. CASE StoreMoves \/ Shutdown
    BY <1>4, EditShrinks DEF StoreMoves, PublicationEnds, OverlayFails, StoreIsLost,
        StoreSettles, DropModal, Shutdown, CancelsRail
<1>5. CASE EventArrives
  <2> DEFINE id == Head(events).id
  <2>1. UNCHANGED <<planCancelled, plans, planner>>
    BY <1>5 DEF EventArrives, DeletionPlanned, ExecutionRejected, DeletionFinished
  <2>2. rail' = Settled(id) => Shrinks
    BY EditShrinks DEF Settled
  <2>3. CASE DeletionPlanned
    <3>1. \/ id \in InStage({"Planning"}) /\ rail' = SetStage(id, "QueuedExecution")
          \/ rail' = Settled(id)
        BY <2>3 DEF DeletionPlanned
    <3>2. Shrinks
        BY <2>2, <3>1, EditShrinks DEF InStage, Stages, PlannerStages
    <3>3. QED
        BY <2>1, <2>3, <3>2 DEF DeletionPlanned
  <2>4. CASE ExecutionRejected
    BY <2>1, <2>2, <2>4 DEF ExecutionRejected, Invalidate, CancelsRail
  <2>5. CASE DeletionFinished
    BY <2>1, <2>2, <2>5 DEF DeletionFinished, Reconcile, Invalidate, CancelsRail
  <2>6. QED
    BY <1>5, <2>3, <2>4, <2>5 DEF EventArrives
<1>6. QED
    BY <1>1, <1>2, <1>3, <1>4, <1>5 DEF OwnerActs

\* Nothing is planned for a map that is being replaced.  A cancellation that
\* was asked for and not passed on yet belongs to a map nothing can be planned
\* for, or is passed on next; and no plan the reader wants waits meanwhile.
CancelInv ==
    /\ map \in {"scanning", "publishing"} => InStage({"Planning"}) = {}
    /\ cancelRequested /\ ~cancelled =>
         /\ map = "publishing" => Has({"flush"})
         /\ DeletionIsUnavailable \/ (todo # <<>> /\ Head(todo) = "flush")
         /\ Unanswered \cap InStage({"Planning"}) = {}

\* A step takes its name off the list and may put a handler in front of the rest.
LEMMA StepPops ==
    ASSUME OwnerStep
    PROVE  /\ \/ todo' = Tail(todo)
              \/ \E first \in Tidy : todo' = first \o Tail(todo)
           /\ Head(todo) = "flush" => FlushPlanCancellation
<1>1. CASE Quit
    BY <1>1, TidyLists DEF Quit
<1>2. CASE ~Quit
    BY <1>2 DEF OwnerStep, ShowNextConfirmation, StartPlanning, StartExecution,
        StartNothing, CancelPendingWork, FlushPlanCancellation,
        RequestStop, Prompt, RefreshPrompt, FinishExitAfterWork, Step
<1>3. QED
    BY <1>1, <1>2

\* A map is replaced only with what was planned for it cancelled; a rebuild
\* reaches its publication with a worker event.
LEMMA MapEnters ==
    ASSUME OwnerActs
    PROVE  /\ map' \in {"scanning", "publishing"} =>
                map \in {"scanning", "publishing"} \/ CancelsRail
           /\ map' = "publishing" => map = "publishing" \/ todo' = AfterEvent
<1>1. CASE OwnerStep
    BY <1>1 DEF OwnerStep, ShowNextConfirmation, StartPlanning, StartExecution,
        StartNothing, CancelPendingWork, FlushPlanCancellation, Quit,
        RequestStop, Prompt, RefreshPrompt, FinishExitAfterWork
<1>2. CASE ReaderActs \/ DepartureEnds
    BY <1>2 DEF ReaderActs, RequestDeletion, ConfirmDeletion, CancelConfirmation,
        ScreenTooSmall, Resize, PromptExitKey, ExitKey, DismissExit,
        CancelPendingWorkAndExit, StopDeletionAndExit, CancelRebuild,
        SignalQuit, SignalForce, CancelAndExit, DepartureEnds
<1>3. CASE EventArrives \/ ScanProgress \/ ScanPathGone \/ ScanFinished
    BY <1>3 DEF EventArrives, DeletionPlanned, ExecutionRejected,
        DeletionFinished, Reconcile, Invalidate, BeginRebuild,
        ScanProgress, ScanPathGone, ScanFinished, CancelsRail
<1>4. CASE StoreMoves \/ Shutdown
    BY <1>4 DEF StoreMoves, PublicationEnds, OverlayFails, StoreIsLost,
        StoreSettles, BeginRebuild, Shutdown, CancelsRail
<1>5. QED
    BY <1>1, <1>2, <1>3, <1>4 DEF OwnerActs

\* A handler that asks for a cancellation leaves a map nothing can be planned
\* for, and only a publication that ends makes such a map available again.
LEMMA CancelMap ==
    ASSUME OwnerActs, cancelRequested'
    PROVE  \/ DeletionIsUnavailable'
           \/ CancelPendingWork
           \/ /\ UNCHANGED cancelRequested
              /\ DeletionIsUnavailable => map = "publishing" /\ ~OwnerStep
<1> USE DEF DeletionIsUnavailable
<1>1. CASE OwnerStep
    BY <1>1 DEF OwnerStep, ShowNextConfirmation, StartPlanning, StartExecution,
        StartNothing, FlushPlanCancellation, Quit, RequestStop, Prompt,
        RefreshPrompt, FinishExitAfterWork, GiveUpPending, SubmitPlan,
        SubmitExecution
<1>2. CASE (ReaderActs \/ DepartureEnds) /\ ~OwnerStep
    BY <1>2 DEF ReaderActs, RequestDeletion, ConfirmDeletion, CancelConfirmation,
        ScreenTooSmall, Resize, PromptExitKey, ExitKey, DismissExit,
        CancelPendingWorkAndExit, StopDeletionAndExit, CancelRebuild,
        SignalQuit, SignalForce, CancelAndExit, DepartureEnds
<1>3. CASE (EventArrives \/ ScanProgress \/ ScanPathGone \/ ScanFinished) /\ ~OwnerStep
    BY <1>3 DEF EventArrives, DeletionPlanned, ExecutionRejected,
        DeletionFinished, Reconcile, Invalidate, BeginRebuild, FirstMapIsOwed,
        ScanProgress, ScanPathGone, ScanFinished
<1>4. CASE (StoreMoves \/ Shutdown) /\ ~OwnerStep
    BY <1>4 DEF StoreMoves, PublicationEnds, OverlayFails, StoreIsLost,
        StoreSettles, BeginRebuild, Shutdown
<1>5. QED
    BY <1>1, <1>2, <1>3, <1>4 DEF OwnerActs

\* A plan is submitted only when no cancellation is under way.
LEMMA SentPlan ==
    ASSUME CancelInv, EndInv, StartPlanning, NEW id, SendsPlan(id)
    PROVE  ~cancelRequested /\ ~cancelRequested' /\ ~planCancelled' /\ ~cancelled
<1>1. todo # <<>> /\ Head(todo) \in {"startPlanning", "confirmedPlanning"}
    BY DEF StartPlanning, Step
<1>2. ~cancelled
    BY <1>1 DEF EndInv
<1>3. ~DeletionIsUnavailable
    BY DEF SendsPlan
<1>4. QED
    BY <1>1, <1>2, <1>3 DEF CancelInv, SendsPlan, SubmitPlan

\* Without the owner a plan only goes from the channel to the planner and on.
LEMMA PlannerAnswersOnly ==
    ASSUME ChannelTypes, [Next]_vars, ~OwnerActs
    PROVE  Unanswered' \subseteq Unanswered
<1>1. CASE PlannerReceives
  <2>1. /\ plans \in Seq(Ids) /\ plans # <<>> /\ planner' = Head(plans)
        /\ plans' = Tail(plans)
    BY <1>1 DEF PlannerReceives, ChannelTypes
  <2>2. \A i \in DOMAIN plans' : i + 1 \in DOMAIN plans /\ plans'[i] = plans[i + 1]
    BY <2>1
  <2>3. 1 \in DOMAIN plans /\ planner' = plans[1]
    BY <2>1
  <2>4. QED
    BY <2>2, <2>3 DEF Unanswered, InChannel
<1>2. CASE ~PlannerReceives
  <2>1. UNCHANGED plans /\ (UNCHANGED planner \/ planner' = NoId)
    BY <1>2 DEF OwnerActs, Next, PlannerRuns, PlannerAnswers, ExecutorRuns,
        ExecutorReceives, Revalidates, NextEntry, Claims, Begins, Removes,
        Reports, Ends, vars
  <2>2. QED
    BY <2>1 DEF Unanswered, InChannel
<1>3. QED
    BY <1>1, <1>2

\* Every step keeps what CancelInv says of a cancellation not passed on yet.
LEMMA CancelStep ==
    ASSUME RailTypes, RailInv, LeaseInv, ChannelTypes, todo \in Tidy,
           EndInv, CancelInv, [Next]_vars
    PROVE  CancelInv'
<1>1. CASE OwnerActs
  <2>0. ~cancelled
    BY <1>1, EndStep
  <2>1. ASSUME map' \in {"scanning", "publishing"}
        PROVE  InStage({"Planning"})' = {}
    <3>1. ASSUME NEW id, StartPlanning, SendsPlan(id) PROVE FALSE
        BY <2>1, <3>1 DEF SendsPlan, DeletionIsUnavailable
    <3>2. FlushPlanCancellation => Shrinks
        BY EditShrinks DEF FlushPlanCancellation
    <3>3. CASE CancelsRail
        BY <3>3, CancelPlans
    <3>4. CASE Shrinks /\ ~CancelsRail
        BY <1>1, <2>1, <3>4, MapEnters DEF Shrinks, CancelInv
    <3>5. QED
        BY <1>1, <3>1, <3>2, <3>3, <3>4, OwnerCancels
  <2>2. ASSUME cancelRequested', map' = "publishing"
        PROVE  Has({"flush"})'
    <3>1. CASE todo' = AfterEvent
      <4>1. 5 \in DOMAIN todo' /\ todo'[5] = "flush"
        BY <3>1 DEF AfterEvent
      <4>2. QED
        BY <4>1 DEF Has
    <3>2. CASE map = "publishing"
      <4>1. cancelRequested
        <5>1. InStage({"Planning"}) = {}
            BY <3>2 DEF CancelInv
        <5>2. CancelsRail => cancelRequested
            BY <2>2, <5>1, CancelPlans
        <5>3. FlushPlanCancellation => ~cancelRequested'
            BY DEF FlushPlanCancellation
        <5>4. ASSUME NEW id, StartPlanning, SendsPlan(id) PROVE FALSE
            BY <2>2, <5>4, SentPlan
        <5>5. QED
            BY <1>1, <2>2, <5>2, <5>3, <5>4, OwnerCancels
      <4>2. Has({"flush"}) /\ todo # <<>>
        BY <2>0, <3>2, <4>1 DEF CancelInv, Has
      <4>3. OwnerStep
        BY <1>1, <4>2, HandlersAreFree
      <4>4. Head(todo) \notin {"flush"}
        BY <2>2, <4>3, StepPops DEF FlushPlanCancellation
      <4>5. QED
        BY <4>2, <4>3, <4>4, StepPops, HasTail
    <3>3. QED
        BY <1>1, <2>2, <3>1, <3>2, MapEnters
  <2>3. ASSUME cancelRequested'
        PROVE  DeletionIsUnavailable' \/ (todo' # <<>> /\ Head(todo') = "flush")
    <3>1. CASE CancelPendingWork
      <4>1. /\ todo \in Seq(OwnerSteps) /\ todo # <<>> /\ Head(todo) = "cancelPending"
            /\ todo' = Tail(todo) /\ Orderly(todo)
        BY <3>1 DEF CancelPendingWork, Step, Tidy
      <4>2. 1 \in DOMAIN todo /\ todo[1] = "cancelPending"
        BY <4>1
      <4>3. 1 + 2 \in DOMAIN todo /\ todo[1 + 1] = "flush"
        BY <4>1, <4>2 DEF Orderly
      <4>4. QED
        BY <4>1, <4>3
    <3>2. CASE UNCHANGED cancelRequested
               /\ (DeletionIsUnavailable => map = "publishing" /\ ~OwnerStep)
      <4>1. /\ map = "publishing" => Has({"flush"})
            /\ DeletionIsUnavailable \/ (todo # <<>> /\ Head(todo) = "flush")
        BY <2>0, <2>3, <3>2 DEF CancelInv
      <4>2. ~OwnerStep => ~Has({"flush"}) /\ todo = <<>>
        BY <1>1, HandlersAreFree DEF Has
      <4>3. OwnerStep /\ Head(todo) = "flush"
        BY <3>2, <4>1, <4>2
      <4>4. QED
        BY <2>3, <4>3, StepPops DEF FlushPlanCancellation
    <3>3. QED
        BY <1>1, <2>3, <3>1, <3>2, CancelMap
  <2>4. ASSUME cancelRequested'
        PROVE  (Unanswered \cap InStage({"Planning"}))' = {}
    <3>1. CASE CancelsRail
        BY <3>1, CancelPlans
    <3>2. CASE Shrinks /\ UNCHANGED <<cancelRequested, plans, planner>>
        BY <2>0, <2>4, <3>2 DEF CancelInv, Shrinks, Unanswered, InChannel
    <3>3. ASSUME NEW id, StartPlanning, SendsPlan(id) PROVE FALSE
        BY <2>4, <3>3, SentPlan
    <3>4. QED
        BY <1>1, <2>4, <3>1, <3>2, <3>3, OwnerCancels DEF FlushPlanCancellation
  <2>5. QED
    BY <2>1, <2>2, <2>3, <2>4 DEF CancelInv
<1>2. CASE ~OwnerActs
  <2>1. Unanswered' \subseteq Unanswered
    BY <1>2, PlannerAnswersOnly
  <2>2. UNCHANGED <<rail, map, owes, cancelRequested, cancelled, todo>>
    BY <1>2, ThreadsFrame
  <2>3. QED
    BY <2>1, <2>2 DEF CancelInv, InStage, Has, DeletionIsUnavailable
<1>3. QED
    BY <1>1, <1>2

(***************************************************************************)
(* The inductive invariant.                                                *)
(***************************************************************************)
\* No step loses a cancellation on its way to the planner.
LEMMA ReachStep ==
    ASSUME RailTypes, RailInv, LeaseInv, ChannelTypes, EndInv, CancelInv,
           CancellationReachesPlanner, [Next]_vars
    PROVE  CancellationReachesPlanner'
<1> SUFFICES ASSUME NEW id \in Unanswered', id \in InStage({"CancellingPlanning"})'
             PROVE  planCancelled' \/ cancelRequested'
    BY DEF CancellationReachesPlanner
<1>1. CASE OwnerActs
  <2>1. CASE CancelsRail /\ UNCHANGED <<planCancelled, plans, planner>>
    BY <2>1, CancelPlans DEF CancellationReachesPlanner, Unanswered, InChannel
  <2>2. ASSUME NEW i, StartPlanning, SendsPlan(i)
        PROVE  FALSE
    <3>1. /\ i \in DOMAIN rail /\ InStage(PlannerStages) = {}
          /\ rail' = SetStage(i, "Planning")
        BY <2>2 DEF SendsPlan, CanPlan, SubmitPlan
    <3>2. /\ DOMAIN rail' = DOMAIN rail
          /\ \A j \in DOMAIN rail :
               rail'[j].stage = IF j = i THEN "Planning" ELSE rail[j].stage
        BY <3>1, SetStageRail DEF Stages
    <3>3. QED
        BY <3>1, <3>2 DEF InStage, PlannerStages
  <2>3. CASE FlushPlanCancellation
    BY <2>3 DEF FlushPlanCancellation, CancellationReachesPlanner, Unanswered,
        InChannel, InStage
  <2>4. CASE /\ Shrinks /\ UNCHANGED <<cancelRequested, plans, planner>>
             /\ UNCHANGED planCancelled \/ Shutdown
    <3>1. Shutdown => planCancelled'
        BY DEF Shutdown
    <3>2. QED
        BY <2>4, <3>1 DEF Shrinks, CancellationReachesPlanner, Unanswered, InChannel
  <2>5. QED
    BY <1>1, <2>1, <2>2, <2>3, <2>4, OwnerCancels
<1>2. CASE ~OwnerActs
    BY <1>2, PlannerAnswersOnly, ThreadsFrame DEF CancellationReachesPlanner, InStage
<1>3. QED
    BY <1>1, <1>2

\* No step leaves the flag up for a plan the reader wants.
LEMMA StrayStep ==
    ASSUME RailTypes, RailInv, LeaseInv, ChannelTypes, EndInv, CancelInv,
           NoStrayPlanCancellation, [Next]_vars
    PROVE  NoStrayPlanCancellation'
<1> SUFFICES ASSUME ~cancelled', planCancelled'
             PROVE  (Unanswered \cap InStage({"Planning"}))' = {}
    BY DEF NoStrayPlanCancellation
<1>0. ~cancelled
    BY EndStep
<1>1. CASE OwnerActs
  <2>1. CASE CancelsRail
    BY <2>1, CancelPlans
  <2>2. ASSUME NEW i, StartPlanning, SendsPlan(i)
        PROVE  FALSE
    BY <2>2, SentPlan
  <2>3. CASE FlushPlanCancellation
    BY <1>0, <2>3 DEF FlushPlanCancellation, NoStrayPlanCancellation, CancelInv,
        Unanswered, InChannel, InStage
  <2>4. CASE /\ Shrinks /\ UNCHANGED <<cancelRequested, plans, planner>>
             /\ UNCHANGED planCancelled \/ Shutdown
    <3>1. ~Shutdown
        BY DEF Shutdown
    <3>2. QED
        BY <1>0, <2>4, <3>1 DEF Shrinks, NoStrayPlanCancellation, Unanswered, InChannel
  <2>5. QED
    BY <1>1, <2>1, <2>2, <2>3, <2>4, OwnerCancels
<1>2. CASE ~OwnerActs
    BY <1>0, <1>2, PlannerAnswersOnly, ThreadsFrame DEF NoStrayPlanCancellation, InStage
<1>3. QED
    BY <1>1, <1>2

Types ==
    /\ RailTypes /\ ScreenTypes /\ MapTypes /\ LoopTypes /\ PassTypes
    /\ FlagTypes /\ cancelRequested \in BOOLEAN /\ todo \in Tidy
    /\ ChannelTypes /\ executor \in Executors

\* The inductive invariant.
LaneIInv ==
    /\ Types /\ ExecutorShape /\ MutationInv
    /\ RailInv /\ LeaseInv /\ EndInv
    /\ ~cancelled => PlanLane /\ RunLane
    /\ ShownInv /\ ConfirmInv /\ ExitInv /\ PromptedInv /\ QuitInv
    /\ LeavingInv /\ ActiveInv
    /\ CancelInv /\ CancellationReachesPlanner /\ NoStrayPlanCancellation

\* The state the session starts in meets the inductive invariant.
LEMMA InitLane == Init => LaneIInv
<1> SUFFICES ASSUME Init PROVE LaneIInv
    OBVIOUS
<1>0. rail = <<>> /\ leases = <<>> /\ DOMAIN rail = {} /\ DOMAIN leases = {}
    BY DEF Init
<1>1. Types
  <2>1. RailTypes
    BY <1>0, LaneAssumption DEF Init, RailTypes, LaneAssumption
  <2>2. ScreenTypes /\ MapTypes
    BY DEF Init, ScreenTypes, MapTypes, Modes, ExitWorks, MapStates, Debts
  <2>3. LoopTypes /\ FlagTypes /\ cancelRequested \in BOOLEAN
    BY DEF Init, LoopTypes, FlagTypes, MutationStates
  <2>4. PassTypes
    BY DEF Init, PassTypes
  <2>5. todo \in Tidy
    BY DEF Init, Tidy, Orderly
  <2>6. ChannelTypes /\ executor \in Executors
    BY IdleFields DEF Init, ChannelTypes
  <2>7. QED
    BY <2>1, <2>2, <2>3, <2>4, <2>5, <2>6 DEF Types
<1>2. ExecutorShape /\ MutationInv
    BY IdleFields DEF Init, ExecutorShape, MutationInv, IdleExecutor
<1>3. \A stages : InStage(stages) = {}
    BY <1>0 DEF InStage
<1>4. RailInv /\ LeaseInv /\ EndInv
    BY <1>0, <1>3 DEF Init, RailInv, LeaseInv, EndInv
<1>5. PlanLane /\ RunLane
  <2>1. \A kinds : AnswersIn(events, kinds) = {}
    BY DEF Init, AnswersIn
  <2>2. executor.id = NoId
    BY IdleFields DEF Init
  <2>3. QED
    BY <1>3, <2>1, <2>2 DEF Init, PlanLane, RunLane, Lane
<1>6. ShownInv /\ ConfirmInv /\ ExitInv /\ PromptedInv /\ QuitInv
    BY <1>3 DEF Init, ShownInv, ConfirmInv, ExitInv, PromptedInv, QuitInv
<1>7. CancelInv /\ CancellationReachesPlanner /\ NoStrayPlanCancellation
    BY <1>3 DEF Init, CancelInv, CancellationReachesPlanner, NoStrayPlanCancellation
<1>8. LeavingInv /\ ActiveInv
    BY DEF Init, LeavingInv, ActiveInv, SaysLeaving, PlainSteps
<1>9. QED
    BY <1>1, <1>2, <1>4, <1>5, <1>6, <1>7, <1>8 DEF LaneIInv

\* Every step keeps the inductive invariant.
LEMMA LaneInductive == LaneIInv /\ [Next]_vars => LaneIInv'
<1> SUFFICES ASSUME LaneIInv, [Next]_vars PROVE LaneIInv'
    OBVIOUS
<1> USE DEF LaneIInv, Types
<1>0. modal \notin InStage(LeasedStages)
    BY ModalApart
<1>1. RailTypes' /\ RailInv' /\ LeaseInv'
    BY <1>0, RailStep
<1>2. ScreenTypes' /\ MapTypes'
    BY ScreenStep, MapStep
<1>3. LoopTypes' /\ FlagTypes' /\ cancelRequested' \in BOOLEAN
    BY LoopStep, FlagStep, RequestStep
<1>4. PassTypes' /\ todo' \in Tidy
    BY PassStep, TodoStep
<1>5. ChannelTypes' /\ executor' \in Executors /\ ExecutorShape'
    BY ChannelStep, ExecutorStep
<1>6. MutationInv' /\ EndInv'
    BY MutationStep, EndStep
<1>7. ~cancelled' => PlanLane' /\ RunLane'
  <2>1. ~cancelled' => ~cancelled
    BY EndStep
  <2>2. QED
    BY <1>0, <2>1, LaneStep
<1>8. ShownInv' /\ ConfirmInv'
    BY ShownStep, ConfirmStep
<1>9. ExitInv' /\ PromptedInv'
    BY <1>0, <1>1, ExitStep, PromptedStep
<1>10. QuitInv'
    BY <1>0, <1>1, <1>4, QuitStep
<1>11. CancelInv' /\ CancellationReachesPlanner' /\ NoStrayPlanCancellation'
    BY CancelStep, ReachStep, StrayStep
<1>12. LeavingInv' /\ ActiveInv'
    BY <1>0, LeavingStep, ActiveStep
<1>13. QED
    BY <1>1, <1>2, <1>3, <1>4, <1>5, <1>6, <1>7, <1>8, <1>9, <1>10, <1>11, <1>12

(***************************************************************************)
(* The theorems.                                                           *)
(***************************************************************************)
\* What a lane in order says in the terms of the properties: the rail's items
\* are the ones in the channel, on the thread or answered, and there is one
\* of them at most.
LEMMA LaneSays ==
    ASSUME NEW channel \in Seq(Ids), NEW id, NEW items, NEW kinds,
           Lane(channel, events, kinds, id, items)
    PROVE  /\ items = InChannel(channel) \cup Reported(kinds) \cup ({id} \ {NoId})
           /\ HoldsOne(channel, Answers(kinds), id)
<1>1. AnswersIn(events, kinds) = Answers(kinds)
    BY DEF AnswersIn, Answers
<1>2. channel # <<>> /\ Len(channel) = 1 => InChannel(channel) = {Head(channel)}
    BY DEF InChannel
<1>3. channel = <<>> => InChannel(channel) = {} /\ Len(channel) = 0
    BY DEF InChannel
<1>4. Answers(kinds) = {} => Reported(kinds) = {}
    BY DEF Reported
<1>5. \A i \in Answers(kinds) :
        Answers(kinds) = {i} => Reported(kinds) = {events[i].id}
    BY DEF Reported
<1>6. items = InChannel(channel) \cup Reported(kinds) \cup ({id} \ {NoId})
  <2>1. CASE channel # <<>>
    BY <1>1, <1>2, <1>4, <2>1 DEF Lane
  <2>2. CASE channel = <<>> /\ id # NoId
    BY <1>1, <1>3, <1>4, <2>2 DEF Lane
  <2>3. CASE channel = <<>> /\ id = NoId /\ Answers(kinds) = {}
    BY <1>1, <1>3, <1>4, <2>3 DEF Lane
  <2>4. CASE channel = <<>> /\ id = NoId /\ Answers(kinds) # {}
    BY <1>1, <1>3, <1>5, <2>4 DEF Lane
  <2>5. QED
    BY <2>1, <2>2, <2>3, <2>4
<1>7. HoldsOne(channel, Answers(kinds), id)
  <2>1. Len(channel) =< 1
    <3>1. Len(channel) = 0 \/ Len(channel) = 1
        BY <1>3 DEF Lane
    <3>2. \A n : n = 0 \/ n = 1 => n =< 1
        OBVIOUS
    <3>3. QED
        BY <3>1, <3>2, Zenon
  <2>2. \A i, j \in Answers(kinds) : i = j
    <3>1. \A i \in Answers(kinds) : Answers(kinds) = {i}
        BY <1>1 DEF Lane
    <3>2. QED
        BY <3>1
  <2>3. /\ channel # <<>> => Answers(kinds) = {} /\ id = NoId
        /\ Answers(kinds) # {} => id = NoId
    BY <1>1 DEF Lane
  <2>4. QED
    BY <2>1, <2>2, <2>3 DEF HoldsOne
<1>8. QED
    BY <1>6, <1>7

\* Every state of the lane meets the inductive invariant: the owner's steps
\* (src/app.rs, runtime/mod.rs) interleaved with the planner and the executor.
THEOREM LaneInvariant == Spec => []LaneIInv
<1>1. Init => LaneIInv
    BY InitLane
<1>2. LaneIInv /\ [Next]_vars => LaneIInv'
    BY LaneInductive
<1>3. QED
    BY <1>1, <1>2, PTL DEF Spec

\* Every variable holds what its field in the code can hold, for any number
\* of targets, requests and entries.
THEOREM TypesHold == Spec => []TypeOK
<1>1. LaneIInv => TypeOK
  <2> SUFFICES ASSUME LaneIInv PROVE TypeOK
    OBVIOUS
  <2>1. todo \in Seq(OwnerSteps)
    BY DEF LaneIInv, Types, Tidy
  <2>2. QED
    BY <2>1 DEF LaneIInv, Types, TypeOK, RailTypes, ScreenTypes, MapTypes,
        LoopTypes, PassTypes, FlagTypes, ChannelTypes
<1>2. QED
    BY <1>1, LaneInvariant, PTL

\* Each plan and each execution handed over with try_send is in one place, once
\* and under its own lease, and neither lane ever holds two: the expect
\* "deletion worker lane was unexpectedly occupied" is never reached.
THEOREM LanesMatch == Spec => []LanesMatchRail
<1>1. LaneIInv => LanesMatchRail
  <2> SUFFICES ASSUME LaneIInv, ~cancelled PROVE LanesMatchRail
    BY DEF LanesMatchRail
  <2>1. plans \in Seq(Ids) /\ executions \in Seq(Ids)
    BY DEF LaneIInv, Types, ChannelTypes
  <2>2. /\ InStage(PlannerStages) =
             InChannel(plans) \cup Reported({"planned"}) \cup ({planner} \ {NoId})
        /\ HoldsOne(plans, Answers({"planned"}), planner)
    BY <2>1, LaneSays DEF LaneIInv, PlanLane, PlanKinds
  <2>3. /\ InStage({"Executing"}) =
             InChannel(executions) \cup Reported({"rejected", "finished"})
               \cup ({executor.id} \ {NoId})
        /\ HoldsOne(executions, Answers({"rejected", "finished"}), executor.id)
    BY <2>1, LaneSays DEF LaneIInv, RunLane, RunKinds
  <2>4. QED
    BY <2>2, <2>3 DEF LaneIInv, LeaseInv, LanesMatchRail
<1>2. QED
    BY <1>1, LaneInvariant, PTL

\* The planner never walks a tree the executor is changing: their items are
\* two items of the rail, and no two items of the rail overlap.
THEOREM ThreadsApart == Spec => []PlannerAndExecutorApart
<1>1. LaneIInv => PlannerAndExecutorApart
  <2> SUFFICES ASSUME LaneIInv, ~cancelled, planner # NoId, executor.id # NoId
               PROVE  /\ ~StartsWith(rail[planner].target, rail[executor.id].target)
                      /\ ~StartsWith(rail[executor.id].target, rail[planner].target)
    BY DEF PlannerAndExecutorApart
  <2>1. planner \in InStage(PlannerStages) /\ executor.id \in InStage({"Executing"})
    BY DEF LaneIInv, PlanLane, RunLane, Lane
  <2>2. planner # executor.id /\ planner \in DOMAIN rail /\ executor.id \in DOMAIN rail
    BY <2>1 DEF InStage, PlannerStages
  <2>3. ~TargetsOverlap(rail[planner].target, rail[executor.id].target)
    BY <2>2 DEF LaneIInv, RailInv
  <2>4. QED
    BY <2>3 DEF TargetsOverlap
<1>2. QED
    BY <1>1, LaneInvariant, PTL

\* A stop that wins against claim_mutation keeps the target intact: with
\* mutation_state at STOP_REQUESTED nothing was isolated, however the stop and
\* the executor's claim interleave.
THEOREM StopKeepsTarget == Spec => []StopKeepsTargetIntact
<1>1. LaneIInv => StopKeepsTargetIntact
    BY DEF LaneIInv, MutationInv, StopKeepsTargetIntact
<1>2. QED
    BY <1>1, LaneInvariant, PTL

\* After a stop was asked for the executor begins at most the one entry that had
\* passed its boundary, whatever the number of entries of the target.
THEOREM StopsAtBoundary == Spec => []StopsAtEntryBoundary
<1>1. LaneIInv => StopsAtEntryBoundary
  <2> SUFFICES ASSUME LaneIInv PROVE executor.late =< 1
    BY DEF StopsAtEntryBoundary
  <2>1. executor.late = 0 \/ executor.late = 1
    BY DEF LaneIInv, MutationInv
  <2>2. QED
    BY <2>1
<1>2. QED
    BY <1>1, LaneInvariant, PTL

\* A cancellation the reader asked for is never lost on the way from
\* plan_cancellation_requested to deletion_plan_cancelled.
THEOREM CancellationReaches == Spec => []CancellationReachesPlanner
<1>1. LaneIInv => CancellationReachesPlanner
    BY DEF LaneIInv
<1>2. QED
    BY <1>1, LaneInvariant, PTL

\* deletion_plan_cancelled, the one flag of every plan, is never up for a plan
\* the reader still wants.
THEOREM NoStrayCancellation == Spec => []NoStrayPlanCancellation
<1>1. LaneIInv => NoStrayPlanCancellation
    BY DEF LaneIInv
<1>2. QED
    BY <1>1, LaneInvariant, PTL

\* A run that was not forced ends only when the rail is empty and the executor
\* has reported.
THEOREM QuitIsClean == Spec => []QuitLeavesNothingRunning
<1>1. LaneIInv => QuitLeavesNothingRunning
    BY DEF LaneIInv, QuitInv, ExecutorShape, QuitLeavesNothingRunning
<1>2. QED
    BY <1>1, LaneInvariant, PTL

\* Between two handlers of the owner what a dialog lets the reader do fits the
\* rail: the item it confirms is the one being confirmed, an exit dialog that
\* speaks of no work has none behind it, one that speaks of a removal has one,
\* and one that no key answers is shown while the program leaves.
THEOREM DialogTrue == Spec => []DialogMatchesRail
<1>1. LaneIInv => DialogMatchesRail
  <2> SUFFICES ASSUME LaneIInv, todo = <<>>, ~cancelled PROVE DialogMatchesRail
    BY DEF DialogMatchesRail
  <2>1. ~Has(Prompting)
    BY DEF Has
  <2>2. mode = "DeleteConfirm" <=> modal # NoId
    BY <2>1 DEF LaneIInv, ShownInv, PromptedInv
  <2>3. mode = "Exiting" /\ exitWork = "Active" /\ ~Leaving => InStage({"Executing"}) # {}
    BY DEF LaneIInv, ActiveInv, Has
  <2>4. SaysLeaving => Leaving
    BY DEF LaneIInv, LeavingInv
  <2>5. QED
    BY <2>2, <2>3, <2>4
    DEF LaneIInv, ConfirmInv, ExitInv, Leaving, SaysLeaving, DialogMatchesRail
<1>2. QED
    BY <1>1, LaneInvariant, PTL
=============================================================================
