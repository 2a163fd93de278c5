---------------------------- MODULE Coordinator ----------------------------
(***************************************************************************)
(* The session coordinator: the one actor that owns every work record of a *)
(* scan session (src/src/scan_coordinator_core.rs), behind the bounded     *)
(* command queue of src/src/scan_coordinator.rs.  The actor handles one    *)
(* command at a time, so each command is one action here.                  *)
(*                                                                         *)
(* A work key is pending, leased, or unknown.  The code keeps two indexes  *)
(* of each: `pending` and the ready queues, `active` and `active_by_key`.  *)
(* All four are state of this module, because that they agree is the first *)
(* thing every operation relies on.                                        *)
(***************************************************************************)
EXTENDS Integers, Sequences, FiniteSets

CONSTANTS
    Sessions,       \* session identifiers that keys may carry
    OwnSession,     \* the session this coordinator was started for
    Paths,          \* relative paths: sequences of component ranks
    WorkInputs,     \* the [kind, path, priority] a client may ask for
    FocusCapacity,  \* MAX_FOCUS_PATHS
    LeaseBurst,     \* FOREGROUND_LEASE_BURST
    MaxGeneration,  \* bound on the generation number
    MaxSequence,    \* bound on next_sequence
    MaxLease        \* bound on next_lease

(***************************************************************************)
(* WorkKind and its scan-work subset; WorkPriority, most urgent first.     *)
(***************************************************************************)
ScanKinds == {"EnumerateDirectory", "ReduceRun", "RefreshSubtree"}
WorkKinds == ScanKinds \cup {"PlanDeletion", "ExecuteDeletion"}
Priorities == {"Safety", "Foreground", "Reducer", "Background", "Prefetch"}
Completions == {"Succeeded", "Failed", "Cancelled", "Invalidated"}

Urgency == [Safety |-> 0, Foreground |-> 1, Reducer |-> 2, Background |-> 3,
            Prefetch |-> 4]

Generations == 0 .. MaxGeneration

WorkKey == [session : Sessions, generation : Generations,
            kind : WorkKinds, path : Paths]

NoLease == -1
MaxU8 == 255

ASSUME CoordinatorAssumption ==
    /\ OwnSession \in Sessions
    /\ Paths \subseteq Seq(Nat)
    /\ WorkInputs \subseteq
         [kind : WorkKinds, path : Paths, priority : Priorities]
    /\ FocusCapacity \in Nat \ {0}
    /\ LeaseBurst \in 0 .. MaxU8
    /\ MaxGeneration \in Nat
    /\ MaxSequence \in Nat
    /\ MaxLease \in Nat

VARIABLES
    generation,          \* current scan generation
    nextSequence,        \* next queue sequence number
    nextLease,           \* next lease identifier
    pending,             \* WorkKey -> [priority, sequence], a partial map
    queues,              \* ready entries [priority, sequence, key]
    active,              \* leases that are live
    activeByKey,         \* WorkKey -> lease identifier, a partial map
    activeExecution,     \* identifier of the executing deletion, or NoLease
    focusPaths,          \* focused paths, the latest last
    nonBackgroundLeases, \* grants since the last unfocused Background grant
    terminal,            \* terminal counts of the current generation
    held,                \* leases in workers' hands, reported or not yet
    admitted,            \* history: items this generation has to account for
    bypassed             \* history: scan grants that passed over ready
                         \* Background work since its last unfocused grant

vars == <<generation, nextSequence, nextLease, pending, queues, active,
          activeByKey, activeExecution, focusPaths, nonBackgroundLeases,
          terminal, held, admitted, bypassed>>

(***************************************************************************)
(* Records.                                                                *)
(***************************************************************************)
PendingWork == [priority : Priorities, sequence : Nat]
QueuedWork == [priority : Priorities, sequence : Nat, key : WorkKey]
WorkLease == [id : Nat, key : WorkKey, priority : Priorities,
              focused : BOOLEAN]

StartsWith(path, prefix) ==
    /\ Len(prefix) <= Len(path)
    /\ SubSeq(path, 1, Len(prefix)) = prefix

\* RelativePath::cmp: component by component, the shorter path first.
PathBefore(left, right) ==
    \/ left # right /\ StartsWith(right, left)
    \/ \E i \in 1 .. Len(left) :
          /\ i <= Len(right)
          /\ SubSeq(left, 1, i - 1) = SubSeq(right, 1, i - 1)
          /\ left[i] < right[i]

Entry(key, work) ==
    [priority |-> work.priority, sequence |-> work.sequence, key |-> key]

Without(map, keys) == [k \in DOMAIN map \ keys |-> map[k]]
With(map, key, value) ==
    [k \in DOMAIN map \cup {key} |-> IF k = key THEN value ELSE map[k]]

\* Mutant: the entries are looked up under one fixed priority.
EntriesAtForeground(keys) ==
    {Entry(k, [pending[k] EXCEPT !.priority = "Foreground"]) :
        k \in keys \cap DOMAIN pending}

\* The ready entries ReadyQueues::remove drops when `keys` stop being pending.
EntriesOf(keys) == {Entry(k, pending[k]) : k \in keys \cap DOMAIN pending}

ActiveOf(keys) == {l \in active : l.key \in keys}

NormalizedPriority(kind, priority) ==
    IF kind = "ExecuteDeletion" THEN "Safety" ELSE priority

MoreUrgent(left, right) == Urgency[left] < Urgency[right]

Init ==
    /\ generation = 0
    /\ nextSequence = 0
    /\ nextLease = 0
    /\ pending = [k \in {} |-> {}]
    /\ queues = {}
    /\ active = {}
    /\ activeByKey = [k \in {} |-> {}]
    /\ activeExecution = NoLease
    /\ focusPaths = <<>>
    /\ nonBackgroundLeases = 0
    /\ terminal = [c \in Completions |-> 0]
    /\ held = {}
    /\ admitted = 0
    /\ bypassed = 0

-----------------------------------------------------------------------------
(***************************************************************************)
(* Admission.  A key that is leased, or carries a foreign session or       *)
(* another generation, is refused; a pending key keeps its place in the    *)
(* queue and only ever becomes more urgent.                                *)
(***************************************************************************)
Admissible(key) ==
    /\ key.session = OwnSession
    /\ key.generation = generation
    /\ key \notin DOMAIN activeByKey

\* The pending record of `key` after schedule() admitted it.
Scheduled(key, priority) ==
    LET normalized == NormalizedPriority(key.kind, priority) IN
    IF key \notin DOMAIN pending
    THEN [priority |-> normalized, sequence |-> nextSequence]
    ELSE IF MoreUrgent(normalized, pending[key].priority)
         THEN [pending[key] EXCEPT !.priority = normalized]
         ELSE pending[key]

CountAdmission(key) ==
    IF key \in DOMAIN pending
    THEN UNCHANGED <<nextSequence, admitted>>
    ELSE /\ nextSequence < MaxSequence
         /\ nextSequence' = nextSequence + 1
         /\ admitted' = admitted + 1

Schedule(key, priority) ==
    LET work == Scheduled(key, priority) IN
    /\ Admissible(key)
    /\ CountAdmission(key)
    /\ pending' = With(pending, key, work)
    /\ queues' = (queues \ EntriesOf({key})) \cup {Entry(key, work)}
    /\ UNCHANGED <<generation, nextLease, active, activeByKey, activeExecution,
                   focusPaths, nonBackgroundLeases, terminal, held, bypassed>>

(***************************************************************************)
(* Selection.  Candidate sets are given by the predicates on kinds that    *)
(* first_eligible and first_scan_eligible filter with.                     *)
(***************************************************************************)
Eligible ==
    {q \in queues : q.key.kind = "ExecuteDeletion" => activeExecution = NoLease}

ScanEligible == {q \in queues : q.key.kind \in ScanKinds}

OfPriority(entries, priority) == {q \in entries : q.priority = priority}

\* `q` is the oldest of the entries of `priority`.
IsOldest(q, entries, priority) ==
    /\ q \in OfPriority(entries, priority)
    /\ \A r \in OfPriority(entries, priority) : q.sequence <= r.sequence

Under(entries, priority, prefix) ==
    {q \in OfPriority(entries, priority) : StartsWith(q.key.path, prefix)}

\* first_under: the first path in order, and its oldest entry.
IsFirstUnder(q, entries, priority, prefix) ==
    /\ q \in Under(entries, priority, prefix)
    /\ \A r \in Under(entries, priority, prefix) \ {q} :
          \/ PathBefore(q.key.path, r.key.path)
          \/ q.key.path = r.key.path /\ q.sequence <= r.sequence

\* next_focused_queued: the latest focus first, Background before Prefetch.
HasFocused(entries) ==
    \E i \in DOMAIN focusPaths, p \in {"Background", "Prefetch"} :
        Under(entries, p, focusPaths[i]) # {}

IsNextFocused(q, entries) ==
    \E i \in DOMAIN focusPaths :
        /\ \A j \in DOMAIN focusPaths : j > i =>
              \A p \in {"Background", "Prefetch"} :
                  Under(entries, p, focusPaths[j]) = {}
        /\ \/ IsFirstUnder(q, entries, "Background", focusPaths[i])
           \/ /\ Under(entries, "Background", focusPaths[i]) = {}
              /\ IsFirstUnder(q, entries, "Prefetch", focusPaths[i])

\* Mutant: one more grant than the burst before Background work is due.
BackgroundDueLate(entries) ==
    /\ nonBackgroundLeases > LeaseBurst
    /\ OfPriority(entries, "Background") # {}

BackgroundIsDue(entries) ==
    /\ nonBackgroundLeases >= LeaseBurst
    /\ OfPriority(entries, "Background") # {}

\* The choice below Safety that next_queued and next_scan_queued share.
IsFairChoice(q, focused, entries) ==
    IF BackgroundIsDue(entries)
    THEN IsOldest(q, entries, "Background") /\ ~focused
    ELSE IF OfPriority(entries, "Foreground") # {}
    THEN IsOldest(q, entries, "Foreground") /\ ~focused
    ELSE IF HasFocused(entries)
    THEN IsNextFocused(q, entries) /\ focused
    ELSE /\ ~focused
         /\ \E p \in {"Reducer", "Background", "Prefetch"} :
               /\ IsOldest(q, entries, p)
               /\ \A r \in {"Reducer", "Background", "Prefetch"} :
                     MoreUrgent(r, p) => OfPriority(entries, r) = {}

IsNextQueued(q, focused) ==
    IF OfPriority(Eligible, "Safety") # {}
    THEN IsOldest(q, Eligible, "Safety") /\ ~focused
    ELSE IsFairChoice(q, focused, Eligible)

IsNextScan(q, focused) == IsFairChoice(q, focused, ScanEligible)

(***************************************************************************)
(* Leases.                                                                 *)
(***************************************************************************)
\* lease_queued() on a key whose pending record is `work`.
Grant(key, work, focused) ==
    LET lease == [id |-> nextLease, key |-> key, priority |-> work.priority,
                  focused |-> focused]
    IN
    /\ nextLease < MaxLease
    /\ nextLease' = nextLease + 1
    /\ pending' = Without(pending, {key})
    /\ queues' = queues \ EntriesOf({key})
    /\ active' = active \cup {lease}
    /\ activeByKey' = With(activeByKey, key, nextLease)
    /\ activeExecution' = IF key.kind = "ExecuteDeletion" THEN nextLease
                          ELSE activeExecution
    /\ nonBackgroundLeases' =
          IF work.priority = "Background" /\ ~focused THEN 0
          ELSE IF work.priority # "Safety" /\ nonBackgroundLeases < MaxU8
          THEN nonBackgroundLeases + 1
          ELSE nonBackgroundLeases
    /\ held' = held \cup {lease}
    /\ UNCHANGED <<generation, focusPaths, terminal>>

\* History: a scan grant that leaves ready Background work behind.
CountBypass(q, focused) ==
    bypassed' =
        IF q.priority = "Background" /\ ~focused THEN 0
        ELSE IF /\ q.priority # "Safety"
                /\ OfPriority(ScanEligible, "Background") # {}
        THEN bypassed + 1
        ELSE bypassed

NoBypass(work) ==
    bypassed' = IF work.priority = "Background" THEN 0 ELSE bypassed

ExecutionBlocked(key) ==
    key.kind = "ExecuteDeletion" /\ activeExecution # NoLease

LeaseNextScan ==
    \E q \in queues, focused \in BOOLEAN :
        /\ IsNextScan(q, focused)
        /\ Grant(q.key, pending[q.key], focused)
        /\ CountBypass(q, focused)
        /\ UNCHANGED <<nextSequence, admitted>>

LeaseNext ==
    \E q \in queues, focused \in BOOLEAN :
        /\ IsNextQueued(q, focused)
        /\ Grant(q.key, pending[q.key], focused)
        /\ CountBypass(q, focused)
        /\ UNCHANGED <<nextSequence, admitted>>

LeaseExact(key) ==
    /\ key \in DOMAIN pending
    /\ ~ExecutionBlocked(key)
    /\ Grant(key, pending[key], FALSE)
    /\ NoBypass(pending[key])
    /\ UNCHANGED <<nextSequence, admitted>>

\* Mutant: the lease is granted without asking whether a deletion executes.
AcquireUnchecked(key, priority) ==
    LET work == Scheduled(key, priority) IN
    /\ Admissible(key)
    /\ CountAdmission(key)
    /\ Grant(key, work, FALSE)
    /\ NoBypass(work)

\* schedule() and lease_exact() of one key in one command.  A deletion that
\* may not execute yet is scheduled, and left pending.
Acquire(key, priority) ==
    LET work == Scheduled(key, priority) IN
    /\ Admissible(key)
    /\ IF ExecutionBlocked(key)
       THEN Schedule(key, priority)
       ELSE /\ CountAdmission(key)
            /\ Grant(key, work, FALSE)
            /\ NoBypass(work)

-----------------------------------------------------------------------------
(***************************************************************************)
(* Settlement.  A worker reports with the lease it holds; a report whose   *)
(* lease is no longer active is stale and only leaves the worker's hands.  *)
(***************************************************************************)
RemoveActive(leases) ==
    /\ active' = active \ leases
    /\ activeByKey' = Without(activeByKey, {l.key : l \in leases})
    /\ activeExecution' = IF \E l \in leases : l.id = activeExecution
                          THEN NoLease ELSE activeExecution

RecordTerminal(completion, count) ==
    terminal' = [terminal EXCEPT ![completion] = @ + count]

\* Mutant: every report is taken at its word.
NeverStale(lease) == FALSE

IsStale(lease) == lease \notin active

Finish(lease, completion) ==
    /\ lease \in held
    /\ held' = held \ {lease}
    /\ IF IsStale(lease)
       THEN UNCHANGED <<active, activeByKey, activeExecution, terminal>>
       ELSE RemoveActive({lease}) /\ RecordTerminal(completion, 1)
    /\ UNCHANGED <<generation, nextSequence, nextLease, pending, queues,
                   focusPaths, nonBackgroundLeases, admitted, bypassed>>

Requeue(lease) ==
    LET work == [priority |-> lease.priority, sequence |-> nextSequence] IN
    /\ lease \in held
    /\ held' = held \ {lease}
    /\ IF IsStale(lease)
       THEN UNCHANGED <<nextSequence, pending, queues, active, activeByKey,
                        activeExecution>>
       ELSE /\ nextSequence < MaxSequence
            /\ nextSequence' = nextSequence + 1
            /\ RemoveActive({lease})
            /\ pending' = With(pending, lease.key, work)
            /\ queues' = queues \cup {Entry(lease.key, work)}
    /\ UNCHANGED <<generation, nextLease, focusPaths, nonBackgroundLeases,
                   terminal, admitted, bypassed>>

(***************************************************************************)
(* Terminating many items at once, pending and leased alike.               *)
(***************************************************************************)
KnownKeys == DOMAIN pending \cup {l.key : l \in active}
Matching(kinds) == {k \in KnownKeys : k.kind \in kinds}

Drop(keys) ==
    /\ pending' = Without(pending, keys)
    /\ queues' = queues \ EntriesOf(keys)
    /\ RemoveActive(ActiveOf(keys))

CountOf(keys) ==
    Cardinality(keys \cap DOMAIN pending) + Cardinality(ActiveOf(keys))

Terminate(completion, keys) ==
    /\ Drop(keys)
    /\ RecordTerminal(completion, CountOf(keys))
    /\ UNCHANGED <<generation, nextSequence, nextLease, focusPaths,
                   nonBackgroundLeases, held, admitted, bypassed>>

\* cancel_scan_work, fail_scan_work and invalidate_scan_work.
TerminateScanWork(completion) ==
    /\ completion # "Succeeded"
    /\ Terminate(completion, Matching({"EnumerateDirectory"}))

InvalidatePrefix(gen, prefix) ==
    Terminate("Invalidated",
              {k \in KnownKeys : k.generation = gen /\ StartsWith(k.path, prefix)})

\* cancel_all, fail_all and invalidate_all clear every index outright.
TerminateAll(completion) ==
    /\ completion # "Succeeded"
    /\ RecordTerminal(completion, Cardinality(DOMAIN pending) + Cardinality(active))
    /\ pending' = [k \in {} |-> {}]
    /\ queues' = {}
    /\ active' = {}
    /\ activeByKey' = [k \in {} |-> {}]
    /\ activeExecution' = NoLease
    /\ UNCHANGED <<generation, nextSequence, nextLease, focusPaths,
                   nonBackgroundLeases, held, admitted, bypassed>>

\* advance_to(): scan work of the old generation is invalidated, deletion
\* work is kept until its own lane settles it, and the counts start afresh.
AdvanceTo(gen) ==
    /\ gen > generation
    /\ generation' = gen
    /\ Drop(Matching(ScanKinds))
    /\ focusPaths' = <<>>
    /\ nonBackgroundLeases' = 0
    /\ terminal' = [c \in Completions |-> 0]
    /\ admitted' = Cardinality(DOMAIN pending') + Cardinality(active')
    /\ bypassed' = 0
    /\ UNCHANGED <<nextSequence, nextLease, held>>

\* The focus paths without `path`, which occurs at most once.
Unfocused(path) ==
    IF \A i \in DOMAIN focusPaths : focusPaths[i] # path THEN focusPaths
    ELSE LET at == CHOOSE i \in DOMAIN focusPaths : focusPaths[i] = path
         IN SubSeq(focusPaths, 1, at - 1)
            \o SubSeq(focusPaths, at + 1, Len(focusPaths))

Focus(path) ==
    LET others == Unfocused(path) IN
    /\ focusPaths' = Append(IF Len(others) = FocusCapacity THEN Tail(others)
                            ELSE others, path)
    /\ UNCHANGED <<generation, nextSequence, nextLease, pending, queues, active,
                   activeByKey, activeExecution, nonBackgroundLeases, terminal,
                   held, admitted, bypassed>>

-----------------------------------------------------------------------------
ScheduleAny ==
    \E s \in Sessions, g \in Generations, w \in WorkInputs :
        Schedule([session |-> s, generation |-> g, kind |-> w.kind,
                  path |-> w.path], w.priority)

AcquireAny ==
    \E w \in WorkInputs :
        Acquire([session |-> OwnSession, generation |-> generation,
                 kind |-> w.kind, path |-> w.path], w.priority)

Next ==
    \/ ScheduleAny
    \/ AcquireAny
    \/ LeaseNextScan
    \/ LeaseNext
    \/ \E key \in DOMAIN pending : LeaseExact(key)
    \/ \E lease \in held, c \in Completions : Finish(lease, c)
    \/ \E lease \in held : Requeue(lease)
    \/ \E path \in Paths : Focus(path)
    \/ \E gen \in Generations : AdvanceTo(gen)
    \/ \E c \in Completions : TerminateScanWork(c)
    \/ \E c \in Completions : TerminateAll(c)
    \/ \E gen \in Generations, path \in Paths : InvalidatePrefix(gen, path)

Spec == Init /\ [][Next]_vars

-----------------------------------------------------------------------------
(***************************************************************************)
(* Properties.                                                             *)
(***************************************************************************)
\* Every variable keeps the type its Rust declaration gives it.
TypeOK ==
    /\ generation \in Generations
    /\ nextSequence \in Nat
    /\ nextLease \in Nat
    /\ DOMAIN pending \subseteq WorkKey
    /\ \A k \in DOMAIN pending : pending[k] \in PendingWork
    /\ queues \subseteq QueuedWork
    /\ active \subseteq WorkLease
    /\ DOMAIN activeByKey \subseteq WorkKey
    /\ \A k \in DOMAIN activeByKey : activeByKey[k] \in Nat
    /\ activeExecution \in Nat \cup {NoLease}
    /\ focusPaths \in Seq(Paths) /\ Len(focusPaths) <= FocusCapacity
    /\ nonBackgroundLeases \in 0 .. MaxU8
    /\ terminal \in [Completions -> Nat]
    /\ held \subseteq WorkLease
    /\ admitted \in Nat
    /\ bypassed \in Nat

\* The ready queues hold exactly the pending records: an entry that lingered
\* after its record went, or the reverse, would be granted twice or never.
QueuesMirrorPending ==
    queues = {Entry(k, pending[k]) : k \in DOMAIN pending}

\* `active_by_key` finds exactly the active leases.
ActiveByKeyMirrorsActive ==
    /\ DOMAIN activeByKey = {l.key : l \in active}
    /\ \A l \in active : activeByKey[l.key] = l.id

\* The two indexes of pending and of leased work agree after any sequence of
\* commands, and no key is both pending and leased, so no item is run twice.
IndexesAgree ==
    /\ QueuesMirrorPending
    /\ ActiveByKeyMirrorsActive
    /\ \A l \in active : l.key \notin DOMAIN pending

\* At most one deletion executes, whatever mix of exact leases, acquisitions,
\* requeues and generation changes led here, and the coordinator knows which.
SingleExecutor ==
    /\ \A l \in active : l.key.kind = "ExecuteDeletion" <=> l.id = activeExecution
    /\ activeExecution # NoLease => \E l \in active : l.id = activeExecution

\* Scan work that is pending or leased belongs to the current generation: a
\* worker of an older scan result can only ever report a stale lease.
ScanWorkIsCurrent ==
    \A k \in KnownKeys :
        /\ k.session = OwnSession
        /\ k.generation <= generation
        /\ k.kind \in ScanKinds => k.generation = generation

\* Every item admitted in this generation, or carried into it, is pending,
\* leased or counted under exactly one terminal outcome.
WorkConserved ==
    admitted = Cardinality(DOMAIN pending) + Cardinality(active)
               + terminal["Succeeded"] + terminal["Failed"]
               + terminal["Cancelled"] + terminal["Invalidated"]

\* Identifiers are handed out once, in increasing order.
LeaseIdsDistinct ==
    /\ \A l \in active \cup held : l.id < nextLease
    /\ \A l, m \in active \cup held : l.id = m.id => l = m

\* Ready Background traversal is passed over by at most LeaseBurst scan grants
\* in a row, however foreground work and focus changes keep arriving.
BackgroundBypassBounded == bypassed <= LeaseBurst

(***************************************************************************)
(* The abstract ledger this coordinator implements.                        *)
(***************************************************************************)
IsScanKey(key) == key.kind \in ScanKinds
IsExecution(key) == key.kind = "ExecuteDeletion"
GenerationOf(key) == key.generation

Ledger == INSTANCE WorkLedger WITH
    Keys <- WorkKey,
    IsScan <- IsScanKey,
    IsExclusive <- IsExecution,
    EpochOf <- GenerationOf,
    Epochs <- Generations,
    waiting <- DOMAIN pending,
    out <- DOMAIN activeByKey,
    epoch <- generation

\* Every command of the actor is a step of the ledger, or leaves it alone.
ImplementsLedger == Ledger!Spec

=============================================================================
