------------------------- MODULE CoordinatorProofs -------------------------
(***************************************************************************)
(* Proofs about the session coordinator, for any number of sessions, paths,*)
(* generations and commands.                                               *)
(***************************************************************************)
EXTENDS Coordinator, FiniteSetTheorems, TLAPS

(***************************************************************************)
(* The indexes are finite maps and sets, which their sizes rely on.        *)
(***************************************************************************)
IndexesFinite ==
    /\ IsFiniteSet(DOMAIN pending)
    /\ IsFiniteSet(active)

\* The inductive invariant.
IInv ==
    /\ TypeOK
    /\ IndexesFinite
    /\ IndexesAgree
    /\ SingleExecutor
    /\ ScanWorkIsCurrent
    /\ LeaseIdsDistinct

-----------------------------------------------------------------------------
\* What the partial-map helpers return.
LEMMA MapLemma ==
    ASSUME NEW f, NEW K, NEW key, NEW value
    PROVE  /\ DOMAIN Without(f, K) = DOMAIN f \ K
           /\ \A k \in DOMAIN f \ K : Without(f, K)[k] = f[k]
           /\ DOMAIN With(f, key, value) = DOMAIN f \cup {key}
           /\ With(f, key, value)[key] = value
           /\ \A k \in DOMAIN f \ {key} : With(f, key, value)[k] = f[k]
BY DEF Without, With

\* A normalized priority is a priority, and Safety for an executing deletion.
LEMMA NormalizedLemma ==
    ASSUME NEW kind, NEW p \in Priorities
    PROVE  NormalizedPriority(kind, p) \in Priorities
BY DEF NormalizedPriority, Priorities

\* The record schedule() leaves pending is well formed.
LEMMA ScheduledLemma ==
    ASSUME TypeOK, NEW key \in WorkKey, NEW p \in Priorities
    PROVE  Scheduled(key, p) \in PendingWork
<1>1. NormalizedPriority(key.kind, p) \in Priorities
  BY NormalizedLemma
<1>2. CASE key \notin DOMAIN pending
  BY <1>1, <1>2 DEF Scheduled, PendingWork, TypeOK
<1>3. CASE key \in DOMAIN pending
  <2>1. pending[key] \in PendingWork
    BY <1>3 DEF TypeOK
  <2> QED
    BY <1>1, <1>3, <2>1 DEF Scheduled, PendingWork
<1> QED
  BY <1>2, <1>3

\* The initial state satisfies the invariant.
LEMMA InitIInv ==
    ASSUME Init PROVE IInv
<1> USE CoordinatorAssumption
<1>1. TypeOK
  BY DEF Init, TypeOK, Generations, MaxU8, NoLease, Completions
<1>2. IndexesFinite
  BY FS_EmptySet DEF Init, IndexesFinite
<1>3. IndexesAgree /\ SingleExecutor /\ ScanWorkIsCurrent /\ LeaseIdsDistinct
  BY DEF Init, IndexesAgree, QueuesMirrorPending, ActiveByKeyMirrorsActive,
         SingleExecutor, ScanWorkIsCurrent, LeaseIdsDistinct, KnownKeys
<1> QED
  BY <1>1, <1>2, <1>3 DEF IInv

(***************************************************************************)
(* Steps that only touch the queues.                                       *)
(***************************************************************************)
\* Admitting a key, or raising its priority, preserves the invariant.
LEMMA ScheduleStep ==
    ASSUME IInv, NEW key \in WorkKey, NEW p \in Priorities, Schedule(key, p)
    PROVE  IInv'
<1> DEFINE work == Scheduled(key, p)
<1> USE CoordinatorAssumption
<1>1. work \in PendingWork
  BY ScheduledLemma DEF IInv
<1> HIDE DEF work
<1>2. /\ pending' = With(pending, key, work)
      /\ queues' = (queues \ EntriesOf({key})) \cup {Entry(key, work)}
      /\ UNCHANGED <<generation, nextLease, active, activeByKey, activeExecution,
                     focusPaths, nonBackgroundLeases, terminal, held, bypassed>>
      /\ Admissible(key)
      /\ CountAdmission(key)
  BY DEF Schedule, work
<1>3. /\ DOMAIN pending' = DOMAIN pending \cup {key}
      /\ pending'[key] = work
      /\ \A k \in DOMAIN pending \ {key} : pending'[k] = pending[k]
  BY <1>2 DEF With
<1>4. Entry(key, work) \in QueuedWork
  BY <1>1 DEF Entry, QueuedWork, PendingWork
<1>5. nextSequence' \in Nat /\ admitted' \in Nat
  BY <1>2 DEF CountAdmission, IInv, TypeOK
<1>6. TypeOK'
  BY <1>1, <1>2, <1>3, <1>4, <1>5 DEF IInv, TypeOK
<1>7. IndexesFinite'
  <2>1. IsFiniteSet(DOMAIN pending \cup {key})
    BY FS_AddElement DEF IInv, IndexesFinite
  <2> QED
    BY <1>2, <1>3, <2>1 DEF IInv, IndexesFinite
<1>8. IndexesAgree'
  <2>1. QueuesMirrorPending'
    <3>1. queues = {Entry(k, pending[k]) : k \in DOMAIN pending}
      BY DEF IInv, IndexesAgree, QueuesMirrorPending
    <3>2. \A k \in DOMAIN pending : \A v, w : k # key => Entry(k, v) # Entry(key, w)
      BY DEF Entry
    <3>3. queues' = {Entry(k, pending'[k]) : k \in DOMAIN pending \cup {key}}
      BY <1>2, <1>3, <3>1, <3>2 DEF EntriesOf
    <3> QED
      BY <1>3, <3>3 DEF QueuesMirrorPending, Entry
  <2>2. ActiveByKeyMirrorsActive'
    BY <1>2 DEF IInv, IndexesAgree, ActiveByKeyMirrorsActive
  <2>3. \A l \in active' : l.key \notin DOMAIN pending'
    BY <1>2, <1>3 DEF IInv, IndexesAgree, ActiveByKeyMirrorsActive, Admissible
  <2> QED
    BY <2>1, <2>2, <2>3 DEF IndexesAgree
<1>9. SingleExecutor' /\ LeaseIdsDistinct'
  BY <1>2 DEF IInv, SingleExecutor, LeaseIdsDistinct
<1>10. ScanWorkIsCurrent'
  BY <1>2, <1>3 DEF IInv, TypeOK, ScanWorkIsCurrent, KnownKeys, Admissible, WorkKey,
     Generations
<1> QED
  BY <1>6, <1>7, <1>8, <1>9, <1>10 DEF IInv

(***************************************************************************)
(* Steps that grant a lease.                                               *)
(***************************************************************************)
\* What a key must satisfy for lease_queued() to be called on it.
Grantable(key) ==
    /\ key \notin DOMAIN activeByKey
    /\ ~ExecutionBlocked(key)
    /\ key.session = OwnSession
    /\ key.generation <= generation
    /\ key.kind \in ScanKinds => key.generation = generation

CountersTyped == nextSequence \in Nat /\ admitted \in Nat /\ bypassed \in Nat

\* Granting a key that is not leased yet preserves the invariant.
LEMMA GrantStep ==
    ASSUME IInv, NEW key \in WorkKey, NEW work \in PendingWork,
           NEW focused \in BOOLEAN, Grant(key, work, focused),
           Grantable(key), CountersTyped'
    PROVE  IInv'
<1> DEFINE lease == [id |-> nextLease, key |-> key, priority |-> work.priority,
                     focused |-> focused]
<1>1. /\ lease \in WorkLease
      /\ lease.id = nextLease
      /\ lease.key = key
  BY DEF WorkLease, PendingWork, IInv, TypeOK
<1>2. /\ nextLease' = nextLease + 1
      /\ pending' = Without(pending, {key})
      /\ queues' = queues \ EntriesOf({key})
      /\ active' = active \cup {lease}
      /\ activeByKey' = With(activeByKey, key, nextLease)
      /\ activeExecution' = IF key.kind = "ExecuteDeletion" THEN nextLease
                            ELSE activeExecution
      /\ held' = held \cup {lease}
      /\ UNCHANGED <<generation, focusPaths, terminal>>
  BY DEF Grant
<1>3. nonBackgroundLeases' \in 0 .. MaxU8
  BY DEF Grant, IInv, TypeOK, MaxU8
<1> HIDE DEF lease
<1>4. /\ DOMAIN pending' = DOMAIN pending \ {key}
      /\ \A k \in DOMAIN pending' : pending'[k] = pending[k]
      /\ DOMAIN activeByKey' = DOMAIN activeByKey \cup {key}
      /\ activeByKey'[key] = nextLease
      /\ \A k \in DOMAIN activeByKey \ {key} : activeByKey'[k] = activeByKey[k]
  BY <1>2 DEF With, Without
<1>5. TypeOK'
  <2>1. nextLease' \in Nat /\ generation' \in Generations /\ CountersTyped'
    BY <1>2 DEF IInv, TypeOK
  <2>2. /\ DOMAIN pending' \subseteq WorkKey
        /\ \A k \in DOMAIN pending' : pending'[k] \in PendingWork
        /\ queues' \subseteq QueuedWork
    BY <1>2, <1>4 DEF IInv, TypeOK
  <2>3. active' \subseteq WorkLease /\ held' \subseteq WorkLease
    BY <1>1, <1>2 DEF IInv, TypeOK
  <2>4. /\ DOMAIN activeByKey' \subseteq WorkKey
        /\ \A k \in DOMAIN activeByKey' : activeByKey'[k] \in Nat
        /\ activeExecution' \in Nat \cup {NoLease}
    BY <1>2, <1>4 DEF IInv, TypeOK
  <2> QED
    BY <1>2, <1>3, <2>1, <2>2, <2>3, <2>4 DEF IInv, TypeOK, CountersTyped
<1>6. IndexesFinite'
  <2>1. IsFiniteSet(DOMAIN pending \ {key})
    BY FS_RemoveElement DEF IInv, IndexesFinite
  <2>2. IsFiniteSet(active \cup {lease})
    BY FS_AddElement DEF IInv, IndexesFinite
  <2> QED
    BY <1>2, <1>4, <2>1, <2>2 DEF IndexesFinite
<1>7. QueuesMirrorPending'
  <2>1. queues = {Entry(k, pending[k]) : k \in DOMAIN pending}
    BY DEF IInv, IndexesAgree, QueuesMirrorPending
  <2>2. \A k \in DOMAIN pending : \A v, w : k # key => Entry(k, v) # Entry(key, w)
    BY DEF Entry
  <2>3. queues' = {Entry(k, pending[k]) : k \in DOMAIN pending \ {key}}
    BY <1>2, <2>1, <2>2 DEF EntriesOf
  <2> QED
    BY <1>4, <2>3 DEF QueuesMirrorPending, Entry
<1>8. ActiveByKeyMirrorsActive'
  BY <1>1, <1>2, <1>4
     DEF IInv, IndexesAgree, ActiveByKeyMirrorsActive, Grantable
<1>9. \A l \in active' : l.key \notin DOMAIN pending'
  BY <1>1, <1>2, <1>4 DEF IInv, IndexesAgree
<1>10. SingleExecutor'
  <2>1. \A l \in active : l.id < nextLease /\ l.id \in Nat
    BY DEF IInv, TypeOK, WorkLease, LeaseIdsDistinct
  <2>2. nextLease \in Nat
    BY DEF IInv, TypeOK
  <2>3. CASE key.kind = "ExecuteDeletion"
    <3>1. activeExecution = NoLease
      BY <2>3 DEF Grantable, ExecutionBlocked
    <3>2. \A l \in active : l.key.kind # "ExecuteDeletion"
      BY <3>1, <2>1 DEF IInv, SingleExecutor, NoLease
    <3> QED
      BY <1>1, <1>2, <2>1, <2>2, <2>3, <3>2 DEF SingleExecutor, NoLease
  <2>4. CASE key.kind # "ExecuteDeletion"
    <3>1. activeExecution # nextLease
      BY <2>1, <2>2 DEF IInv, SingleExecutor, NoLease
    <3> QED
      BY <1>1, <1>2, <2>4, <3>1 DEF IInv, SingleExecutor
  <2> QED
    BY <2>3, <2>4
<1>11. ScanWorkIsCurrent'
  BY <1>1, <1>2, <1>4 DEF IInv, ScanWorkIsCurrent, KnownKeys, Grantable
<1>12. LeaseIdsDistinct'
  <2>1. \A l \in active \cup held : l.id < nextLease /\ l.id \in Nat
    BY DEF IInv, TypeOK, WorkLease, LeaseIdsDistinct
  <2>2. nextLease \in Nat
    BY DEF IInv, TypeOK
  <2> QED
    BY <1>1, <1>2, <2>1, <2>2 DEF IInv, LeaseIdsDistinct
<1> QED
  BY <1>5, <1>6, <1>7, <1>8, <1>9, <1>10, <1>11, <1>12 DEF IInv, IndexesAgree

(***************************************************************************)
(* Steps that end leases.                                                  *)
(***************************************************************************)
\* Two active leases never share a key.
LEMMA KeysDistinct ==
    ASSUME IInv, NEW l \in active, NEW m \in active, l.key = m.key
    PROVE  l = m
BY DEF IInv, IndexesAgree, ActiveByKeyMirrorsActive, LeaseIdsDistinct

\* Ending any set of active leases keeps the two indexes of leases in step.
LEMMA RemoveActiveLemma ==
    ASSUME IInv, NEW L \in SUBSET active, RemoveActive(L)
    PROVE  /\ active' = active \ L
           /\ DOMAIN activeByKey' \subseteq WorkKey
           /\ \A k \in DOMAIN activeByKey' : activeByKey'[k] \in Nat
           /\ activeExecution' \in Nat \cup {NoLease}
           /\ IsFiniteSet(active')
           /\ ActiveByKeyMirrorsActive'
           /\ SingleExecutor'
           /\ DOMAIN activeByKey' = {l.key : l \in active \ L}
<1>1. /\ active' = active \ L
      /\ DOMAIN activeByKey' = DOMAIN activeByKey \ {l.key : l \in L}
      /\ \A k \in DOMAIN activeByKey' : activeByKey'[k] = activeByKey[k]
      /\ activeExecution' = IF \E l \in L : l.id = activeExecution
                            THEN NoLease ELSE activeExecution
  BY DEF RemoveActive, Without
<1>2. DOMAIN activeByKey' = {l.key : l \in active \ L}
  BY <1>1, KeysDistinct DEF IInv, IndexesAgree, ActiveByKeyMirrorsActive
<1>3. IsFiniteSet(active')
  BY <1>1, FS_Subset DEF IInv, IndexesFinite
<1>4. ActiveByKeyMirrorsActive'
  BY <1>1, <1>2 DEF IInv, IndexesAgree, ActiveByKeyMirrorsActive
<1>5. SingleExecutor'
  <2>1. \A l \in active : l.id \in Nat
    BY DEF IInv, TypeOK, WorkLease
  <2>2. \A l, m \in active : l.id = m.id => l = m
    BY DEF IInv, LeaseIdsDistinct
  <2> QED
    BY <1>1, <2>1, <2>2 DEF IInv, SingleExecutor, NoLease
<1> QED
  BY <1>1, <1>2, <1>3, <1>4, <1>5 DEF IInv, TypeOK

\* A worker's report, stale or not, preserves the invariant.
LEMMA FinishStep ==
    ASSUME IInv, NEW lease \in held, NEW c \in Completions, Finish(lease, c)
    PROVE  IInv'
<1>1. /\ held' = held \ {lease}
      /\ UNCHANGED <<generation, nextSequence, nextLease, pending, queues,
                     focusPaths, nonBackgroundLeases, admitted, bypassed>>
  BY DEF Finish
<1>2. CASE IsStale(lease)
  <2>1. UNCHANGED <<active, activeByKey, activeExecution, terminal>>
    BY <1>2 DEF Finish
  <2>2. TypeOK' /\ IndexesFinite' /\ SingleExecutor' /\ ScanWorkIsCurrent'
    BY <1>1, <2>1 DEF IInv, TypeOK, IndexesFinite, SingleExecutor,
       ScanWorkIsCurrent, KnownKeys
  <2>3. IndexesAgree' /\ LeaseIdsDistinct'
    BY <1>1, <2>1 DEF IInv, IndexesAgree, QueuesMirrorPending, Entry,
       ActiveByKeyMirrorsActive, LeaseIdsDistinct
  <2> QED
    BY <2>2, <2>3 DEF IInv
<1>3. CASE ~IsStale(lease)
  <2>1. lease \in active /\ RemoveActive({lease}) /\ RecordTerminal(c, 1)
    BY <1>3 DEF Finish, IsStale
  <2>2. terminal' \in [Completions -> Nat]
    BY <2>1 DEF RecordTerminal, IInv, TypeOK
  <2>3. /\ active' = active \ {lease}
        /\ DOMAIN activeByKey' \subseteq WorkKey
        /\ \A k \in DOMAIN activeByKey' : activeByKey'[k] \in Nat
        /\ activeExecution' \in Nat \cup {NoLease}
        /\ IsFiniteSet(active')
        /\ ActiveByKeyMirrorsActive'
        /\ SingleExecutor'
    BY <2>1, RemoveActiveLemma
  <2>4. TypeOK' /\ IndexesFinite' /\ ScanWorkIsCurrent' /\ LeaseIdsDistinct'
    BY <1>1, <2>2, <2>3 DEF IInv, TypeOK, IndexesFinite, ScanWorkIsCurrent,
       KnownKeys, LeaseIdsDistinct
  <2>5. IndexesAgree'
    BY <1>1, <2>3 DEF IInv, IndexesAgree, QueuesMirrorPending, Entry
  <2> QED
    BY <2>3, <2>4, <2>5 DEF IInv
<1> QED
  BY <1>2, <1>3

\* Handing a lease back makes its key pending again, and nothing else.
LEMMA RequeueStep ==
    ASSUME IInv, NEW lease \in held, Requeue(lease)
    PROVE  IInv'
<1> DEFINE work == [priority |-> lease.priority, sequence |-> nextSequence]
<1>1. /\ held' = held \ {lease}
      /\ UNCHANGED <<generation, nextLease, focusPaths, nonBackgroundLeases,
                     terminal, admitted, bypassed>>
  BY DEF Requeue
<1>2. CASE IsStale(lease)
  <2>1. UNCHANGED <<nextSequence, pending, queues, active, activeByKey,
                    activeExecution>>
    BY <1>2 DEF Requeue
  <2>2. TypeOK' /\ IndexesFinite' /\ SingleExecutor' /\ ScanWorkIsCurrent'
    BY <1>1, <2>1 DEF IInv, TypeOK, IndexesFinite, SingleExecutor,
       ScanWorkIsCurrent, KnownKeys
  <2>3. IndexesAgree' /\ LeaseIdsDistinct'
    BY <1>1, <2>1 DEF IInv, IndexesAgree, QueuesMirrorPending, Entry,
       ActiveByKeyMirrorsActive, LeaseIdsDistinct
  <2> QED
    BY <2>2, <2>3 DEF IInv
<1>3. CASE ~IsStale(lease)
  <2>1. /\ lease \in active
        /\ lease \in WorkLease
        /\ RemoveActive({lease})
        /\ nextSequence' = nextSequence + 1
        /\ pending' = With(pending, lease.key, work)
        /\ queues' = queues \cup {Entry(lease.key, work)}
    BY <1>3 DEF Requeue, IsStale, IInv, TypeOK
  <2>2. work \in PendingWork /\ Entry(lease.key, work) \in QueuedWork
    BY <2>1 DEF WorkLease, PendingWork, QueuedWork, Entry, IInv, TypeOK
  <2>3. lease.key \in WorkKey /\ lease.key \notin DOMAIN pending
    BY <2>1 DEF WorkLease, IInv, IndexesAgree
  <2> HIDE DEF work
  <2>4. /\ DOMAIN pending' = DOMAIN pending \cup {lease.key}
        /\ pending'[lease.key] = work
        /\ \A k \in DOMAIN pending : pending'[k] = pending[k]
    BY <2>1, <2>3 DEF With
  <2>5. /\ active' = active \ {lease}
        /\ DOMAIN activeByKey' \subseteq WorkKey
        /\ \A k \in DOMAIN activeByKey' : activeByKey'[k] \in Nat
        /\ activeExecution' \in Nat \cup {NoLease}
        /\ IsFiniteSet(active')
        /\ ActiveByKeyMirrorsActive'
        /\ SingleExecutor'
    BY <2>1, RemoveActiveLemma
  <2>6. TypeOK'
    BY <1>1, <2>1, <2>2, <2>3, <2>4, <2>5 DEF IInv, TypeOK
  <2>7. IndexesFinite'
    <3>1. IsFiniteSet(DOMAIN pending \cup {lease.key})
      BY FS_AddElement DEF IInv, IndexesFinite
    <3> QED
      BY <2>4, <2>5, <3>1 DEF IndexesFinite
  <2>8. QueuesMirrorPending'
    <3>1. queues = {Entry(k, pending[k]) : k \in DOMAIN pending}
      BY DEF IInv, IndexesAgree, QueuesMirrorPending
    <3>2. queues' = {Entry(k, pending'[k]) : k \in DOMAIN pending \cup {lease.key}}
      BY <2>1, <2>3, <2>4, <3>1
    <3> QED
      BY <2>4, <3>2 DEF QueuesMirrorPending, Entry
  <2>9. \A l \in active' : l.key \notin DOMAIN pending'
    BY <2>1, <2>4, <2>5, KeysDistinct DEF IInv, IndexesAgree
  <2>10. ScanWorkIsCurrent' /\ LeaseIdsDistinct'
    BY <1>1, <2>1, <2>4, <2>5
       DEF IInv, ScanWorkIsCurrent, KnownKeys, LeaseIdsDistinct
  <2> QED
    BY <2>5, <2>6, <2>7, <2>8, <2>9, <2>10 DEF IInv, IndexesAgree
<1> QED
  BY <1>2, <1>3

\* Dropping any set of keys removes them from all four indexes.
LEMMA DropLemma ==
    ASSUME IInv, NEW K, Drop(K)
    PROVE  /\ DOMAIN pending' = DOMAIN pending \ K
           /\ \A k \in DOMAIN pending' : pending'[k] = pending[k]
           /\ queues' \subseteq queues
           /\ active' = {l \in active : l.key \notin K}
           /\ DOMAIN activeByKey' = DOMAIN activeByKey \ K
           /\ \A k \in DOMAIN activeByKey' : activeByKey'[k] \in Nat
           /\ activeExecution' \in Nat \cup {NoLease}
           /\ IndexesFinite'
           /\ IndexesAgree'
           /\ SingleExecutor'
<1>1. /\ DOMAIN pending' = DOMAIN pending \ K
      /\ \A k \in DOMAIN pending' : pending'[k] = pending[k]
      /\ queues' = queues \ EntriesOf(K)
      /\ RemoveActive(ActiveOf(K))
  BY DEF Drop, Without
<1>2. ActiveOf(K) \in SUBSET active
  BY DEF ActiveOf
<1>3. /\ active' = active \ ActiveOf(K)
      /\ \A k \in DOMAIN activeByKey' : activeByKey'[k] \in Nat
      /\ activeExecution' \in Nat \cup {NoLease}
      /\ IsFiniteSet(active')
      /\ ActiveByKeyMirrorsActive'
      /\ SingleExecutor'
      /\ DOMAIN activeByKey' = {l.key : l \in active \ ActiveOf(K)}
  BY <1>1, <1>2, RemoveActiveLemma
<1>4. active' = {l \in active : l.key \notin K}
  BY <1>3 DEF ActiveOf
<1>5. DOMAIN activeByKey' = DOMAIN activeByKey \ K
  BY <1>3, <1>4 DEF IInv, IndexesAgree, ActiveByKeyMirrorsActive, ActiveOf
<1>6. IsFiniteSet(DOMAIN pending')
  BY <1>1, FS_Subset DEF IInv, IndexesFinite
<1>7. QueuesMirrorPending'
  <2>1. queues = {Entry(k, pending[k]) : k \in DOMAIN pending}
    BY DEF IInv, IndexesAgree, QueuesMirrorPending
  <2>2. \A k, m : \A v, w : k # m => Entry(k, v) # Entry(m, w)
    BY DEF Entry
  <2>3. queues' = {Entry(k, pending[k]) : k \in DOMAIN pending \ K}
    BY <1>1, <2>1, <2>2 DEF EntriesOf
  <2> QED
    BY <1>1, <2>3 DEF QueuesMirrorPending, Entry
<1>8. \A l \in active' : l.key \notin DOMAIN pending'
  BY <1>1, <1>4 DEF IInv, IndexesAgree
<1> QED
  BY <1>1, <1>3, <1>4, <1>5, <1>6, <1>7, <1>8 DEF IndexesFinite, IndexesAgree

\* The number of dropped items is a number.
LEMMA CountLemma ==
    ASSUME IInv, NEW K PROVE CountOf(K) \in Nat
<1>1. IsFiniteSet(K \cap DOMAIN pending)
  BY FS_Subset DEF IInv, IndexesFinite
<1>2. IsFiniteSet(ActiveOf(K))
  BY FS_Subset DEF IInv, IndexesFinite, ActiveOf
<1> QED
  BY <1>1, <1>2, FS_CardinalityType DEF CountOf

\* Ending many items at once preserves the invariant.
LEMMA TerminateStep ==
    ASSUME IInv, NEW c \in Completions, NEW K, Terminate(c, K)
    PROVE  IInv'
<1>1. /\ Drop(K)
      /\ terminal' = [terminal EXCEPT ![c] = @ + CountOf(K)]
      /\ UNCHANGED <<generation, nextSequence, nextLease, focusPaths,
                     nonBackgroundLeases, held, admitted, bypassed>>
  BY DEF Terminate, RecordTerminal
<1>2. terminal' \in [Completions -> Nat]
  BY <1>1, CountLemma DEF IInv, TypeOK
<1>3. /\ DOMAIN pending' = DOMAIN pending \ K
      /\ \A k \in DOMAIN pending' : pending'[k] = pending[k]
      /\ queues' \subseteq queues
      /\ active' = {l \in active : l.key \notin K}
      /\ DOMAIN activeByKey' = DOMAIN activeByKey \ K
      /\ \A k \in DOMAIN activeByKey' : activeByKey'[k] \in Nat
      /\ activeExecution' \in Nat \cup {NoLease}
      /\ IndexesFinite' /\ IndexesAgree' /\ SingleExecutor'
  BY <1>1, DropLemma
<1>4. TypeOK'
  BY <1>1, <1>2, <1>3 DEF IInv, TypeOK
<1>5. ScanWorkIsCurrent' /\ LeaseIdsDistinct'
  BY <1>1, <1>3 DEF IInv, ScanWorkIsCurrent, KnownKeys, LeaseIdsDistinct
<1> QED
  BY <1>3, <1>4, <1>5 DEF IInv

\* Clearing every index outright preserves the invariant.
LEMMA TerminateAllStep ==
    ASSUME IInv, NEW c \in Completions, TerminateAll(c)
    PROVE  IInv'
<1>1. /\ DOMAIN pending' = {} /\ queues' = {} /\ active' = {}
      /\ DOMAIN activeByKey' = {} /\ activeExecution' = NoLease
      /\ UNCHANGED <<generation, nextSequence, nextLease, focusPaths,
                     nonBackgroundLeases, held, admitted, bypassed>>
      /\ terminal' = [terminal EXCEPT
                        ![c] = @ + (Cardinality(DOMAIN pending) + Cardinality(active))]
  BY DEF TerminateAll, RecordTerminal
<1>2. Cardinality(DOMAIN pending) \in Nat /\ Cardinality(active) \in Nat
  BY FS_CardinalityType DEF IInv, IndexesFinite
<1>3. terminal' \in [Completions -> Nat]
  BY <1>1, <1>2 DEF IInv, TypeOK
<1>4. TypeOK'
  BY <1>1, <1>3 DEF IInv, TypeOK
<1>5. IndexesFinite'
  BY <1>1, FS_EmptySet DEF IndexesFinite
<1>6. IndexesAgree' /\ SingleExecutor' /\ ScanWorkIsCurrent' /\ LeaseIdsDistinct'
  BY <1>1 DEF IInv, IndexesAgree, QueuesMirrorPending, ActiveByKeyMirrorsActive,
     SingleExecutor, ScanWorkIsCurrent, KnownKeys, LeaseIdsDistinct
<1> QED
  BY <1>4, <1>5, <1>6 DEF IInv

\* A new generation drops all scan work, so what stays may be older.
LEMMA AdvanceStep ==
    ASSUME IInv, NEW gen \in Generations, AdvanceTo(gen)
    PROVE  IInv'
<1> DEFINE K == Matching(ScanKinds)
<1> USE CoordinatorAssumption
<1>1. /\ Drop(K)
      /\ gen > generation /\ generation' = gen /\ focusPaths' = <<>>
      /\ nonBackgroundLeases' = 0 /\ bypassed' = 0
      /\ terminal' = [x \in Completions |-> 0]
      /\ admitted' = Cardinality(DOMAIN pending') + Cardinality(active')
      /\ UNCHANGED <<nextSequence, nextLease, held>>
  BY DEF AdvanceTo
<1>2. K = {k \in KnownKeys : k.kind \in ScanKinds}
  BY DEF Matching
<1> HIDE DEF K
<1>3. /\ DOMAIN pending' = DOMAIN pending \ K
      /\ \A k \in DOMAIN pending' : pending'[k] = pending[k]
      /\ queues' \subseteq queues
      /\ active' = {l \in active : l.key \notin K}
      /\ DOMAIN activeByKey' = DOMAIN activeByKey \ K
      /\ \A k \in DOMAIN activeByKey' : activeByKey'[k] \in Nat
      /\ activeExecution' \in Nat \cup {NoLease}
      /\ IndexesFinite' /\ IndexesAgree' /\ SingleExecutor'
  BY <1>1, DropLemma
<1>4. admitted' \in Nat
  BY <1>1, <1>3, FS_CardinalityType DEF IndexesFinite
<1>5. TypeOK'
  BY <1>1, <1>3, <1>4 DEF IInv, TypeOK, MaxU8
<1>6. ScanWorkIsCurrent'
  <2>1. \A k \in KnownKeys' : k \in KnownKeys /\ k \notin K
    BY <1>3 DEF KnownKeys
  <2>2. \A k \in KnownKeys : k.generation \in Nat
    BY DEF IInv, TypeOK, KnownKeys, WorkKey, WorkLease, Generations
  <2>3. generation \in Nat /\ gen \in Nat
    BY DEF IInv, TypeOK, Generations
  <2> QED
    BY <1>1, <1>2, <2>1, <2>2, <2>3 DEF IInv, ScanWorkIsCurrent
<1>7. LeaseIdsDistinct'
  BY <1>1, <1>3 DEF IInv, LeaseIdsDistinct
<1> QED
  BY <1>3, <1>5, <1>6, <1>7 DEF IInv

\* Following the user's focus touches no work record.
LEMMA FocusStep ==
    ASSUME IInv, NEW path \in Paths, Focus(path)
    PROVE  IInv'
<1> DEFINE others == Unfocused(path)
<1> USE CoordinatorAssumption
<1>1. others \in Seq(Paths) /\ Len(others) <= FocusCapacity
  <2>1. focusPaths \in Seq(Paths) /\ Len(focusPaths) <= FocusCapacity
    BY DEF IInv, TypeOK
  <2>2. ASSUME NEW a \in Nat, NEW b \in Nat, a >= 1, b <= Len(focusPaths)
        PROVE  SubSeq(focusPaths, a, b) \in Seq(Paths)
    BY <2>1, <2>2
  <2>3. CASE \A i \in DOMAIN focusPaths : focusPaths[i] # path
    BY <2>1, <2>3 DEF Unfocused
  <2>4. CASE \E i \in DOMAIN focusPaths : focusPaths[i] = path
    <3> DEFINE at == CHOOSE i \in DOMAIN focusPaths : focusPaths[i] = path
    <3>1. others = SubSeq(focusPaths, 1, at - 1)
                   \o SubSeq(focusPaths, at + 1, Len(focusPaths))
      BY <2>4 DEF Unfocused
    <3>2. at \in 1 .. Len(focusPaths)
      BY <2>1, <2>4
    <3> HIDE DEF at
    <3>3. /\ SubSeq(focusPaths, 1, at - 1) \in Seq(Paths)
          /\ SubSeq(focusPaths, at + 1, Len(focusPaths)) \in Seq(Paths)
      BY <2>1, <2>2, <3>2
    <3>4. /\ Len(SubSeq(focusPaths, 1, at - 1)) = at - 1
          /\ Len(SubSeq(focusPaths, at + 1, Len(focusPaths))) = Len(focusPaths) - at
      BY <2>1, <3>2
    <3>5. Len(others) = Len(SubSeq(focusPaths, 1, at - 1))
                        + Len(SubSeq(focusPaths, at + 1, Len(focusPaths)))
      BY <3>1, <3>3
    <3>6. others \in Seq(Paths)
      BY <3>1, <3>3
    <3> HIDE DEF others
    <3>7. Len(focusPaths) \in Nat /\ FocusCapacity \in Nat
      BY <2>1
    <3>8. Len(others) = (at - 1) + (Len(focusPaths) - at)
      BY <3>4, <3>5
    <3>9. Len(others) <= Len(focusPaths)
      BY <3>2, <3>7, <3>8
    <3>10. Len(focusPaths) <= FocusCapacity /\ Len(others) \in Nat
      BY <2>1, <3>6
    <3> QED
      BY <3>6, <3>7, <3>9, <3>10
  <2> QED
    BY <2>3, <2>4
<1>2. /\ focusPaths' = Append(IF Len(others) = FocusCapacity THEN Tail(others)
                              ELSE others, path)
      /\ UNCHANGED <<generation, nextSequence, nextLease, pending, queues, active,
                     activeByKey, activeExecution, nonBackgroundLeases, terminal,
                     held, admitted, bypassed>>
  BY DEF Focus
<1> HIDE DEF others
<1>3. focusPaths' \in Seq(Paths) /\ Len(focusPaths') <= FocusCapacity
  BY <1>1, <1>2
<1>4. TypeOK' /\ IndexesFinite' /\ SingleExecutor' /\ ScanWorkIsCurrent'
  BY <1>2, <1>3 DEF IInv, TypeOK, IndexesFinite, SingleExecutor,
     ScanWorkIsCurrent, KnownKeys
<1>5. IndexesAgree' /\ LeaseIdsDistinct'
  BY <1>2 DEF IInv, IndexesAgree, QueuesMirrorPending, Entry,
     ActiveByKeyMirrorsActive, LeaseIdsDistinct
<1> QED
  BY <1>4, <1>5 DEF IInv

-----------------------------------------------------------------------------
\* A pending key that may be leased satisfies what GrantStep asks of it.
LEMMA PendingGrantable ==
    ASSUME IInv, NEW key \in DOMAIN pending, ~ExecutionBlocked(key)
    PROVE  Grantable(key) /\ key \in WorkKey /\ pending[key] \in PendingWork
BY DEF IInv, TypeOK, IndexesAgree, ActiveByKeyMirrorsActive, ScanWorkIsCurrent,
       KnownKeys, Grantable

\* Every ready entry stands for a pending record.
LEMMA QueuedIsPending ==
    ASSUME IInv, NEW q \in queues
    PROVE  q.key \in DOMAIN pending /\ q.priority = pending[q.key].priority
BY DEF IInv, IndexesAgree, QueuesMirrorPending, Entry

\* Whatever the selection picks is ready, and is not a second executor.
LEMMA FairChoiceEligible ==
    ASSUME NEW q, NEW f, NEW E, IsFairChoice(q, f, E)
    PROVE  q \in E
<1>1. ASSUME NEW e, NEW p, NEW F, IsOldest(e, F, p) PROVE e \in F
  BY <1>1 DEF IsOldest, OfPriority
<1>2. ASSUME NEW e, NEW F, IsNextFocused(e, F) PROVE e \in F
  BY <1>2 DEF IsNextFocused, IsFirstUnder, Under, OfPriority
<1> QED
  BY <1>1, <1>2 DEF IsFairChoice

\* The inductive step.
LEMMA NextIInv ==
    ASSUME IInv, [Next]_vars PROVE IInv'
<1> USE CoordinatorAssumption
<1>1. CASE ScheduleAny
  <2>1. PICK s \in Sessions, g \in Generations, w \in WorkInputs :
          Schedule([session |-> s, generation |-> g, kind |-> w.kind,
                    path |-> w.path], w.priority)
    BY <1>1 DEF ScheduleAny
  <2> QED
    BY <2>1, ScheduleStep DEF WorkKey
<1>2. CASE AcquireAny
  <2>1. PICK w \in WorkInputs :
          Acquire([session |-> OwnSession, generation |-> generation,
                   kind |-> w.kind, path |-> w.path], w.priority)
    BY <1>2 DEF AcquireAny
  <2> DEFINE key == [session |-> OwnSession, generation |-> generation,
                     kind |-> w.kind, path |-> w.path]
             work == Scheduled(key, w.priority)
  <2>2. key \in WorkKey /\ w.priority \in Priorities
    BY DEF WorkKey, IInv, TypeOK
  <2>3. CASE ExecutionBlocked(key)
    BY <2>1, <2>2, <2>3, ScheduleStep DEF Acquire
  <2>4. CASE ~ExecutionBlocked(key)
    <3>1. Admissible(key) /\ CountAdmission(key) /\ NoBypass(work)
          /\ Grant(key, work, FALSE)
      BY <2>1, <2>4 DEF Acquire
    <3>2. work \in PendingWork
      BY <2>2, ScheduledLemma DEF IInv
    <3>3. Grantable(key)
      BY <2>2, <2>4, <3>1 DEF Admissible, Grantable, IInv, TypeOK, Generations
    <3>4. CountersTyped'
      BY <3>1 DEF CountAdmission, NoBypass, CountersTyped, IInv, TypeOK
    <3> HIDE DEF key, work
    <3> QED
      BY <2>2, <3>1, <3>2, <3>3, <3>4, GrantStep
  <2> QED
    BY <2>3, <2>4
<1>3. CASE LeaseNextScan
  <2>1. PICK q \in queues, f \in BOOLEAN :
          /\ IsNextScan(q, f)
          /\ Grant(q.key, pending[q.key], f)
          /\ CountBypass(q, f)
          /\ UNCHANGED <<nextSequence, admitted>>
    BY <1>3 DEF LeaseNextScan
  <2>2. q \in ScanEligible
    BY <2>1, FairChoiceEligible DEF IsNextScan
  <2>3. ~ExecutionBlocked(q.key)
    BY <2>2 DEF ScanEligible, ScanKinds, ExecutionBlocked
  <2>4. CountersTyped'
    BY <2>1 DEF CountBypass, CountersTyped, IInv, TypeOK
  <2> QED
    BY <2>1, <2>3, <2>4, QueuedIsPending, PendingGrantable, GrantStep
<1>4. CASE LeaseNext
  <2>1. PICK q \in queues, f \in BOOLEAN :
          /\ IsNextQueued(q, f)
          /\ Grant(q.key, pending[q.key], f)
          /\ CountBypass(q, f)
          /\ UNCHANGED <<nextSequence, admitted>>
    BY <1>4 DEF LeaseNext
  <2>2. q \in Eligible
    BY <2>1, FairChoiceEligible DEF IsNextQueued, IsOldest, OfPriority
  <2>3. ~ExecutionBlocked(q.key)
    BY <2>2 DEF Eligible, ExecutionBlocked
  <2>4. CountersTyped'
    BY <2>1 DEF CountBypass, CountersTyped, IInv, TypeOK
  <2> QED
    BY <2>1, <2>3, <2>4, QueuedIsPending, PendingGrantable, GrantStep
<1>5. ASSUME NEW key \in DOMAIN pending, LeaseExact(key) PROVE IInv'
  <2>1. /\ ~ExecutionBlocked(key)
        /\ Grant(key, pending[key], FALSE)
        /\ NoBypass(pending[key])
        /\ UNCHANGED <<nextSequence, admitted>>
    BY <1>5 DEF LeaseExact
  <2>2. CountersTyped'
    BY <2>1 DEF NoBypass, CountersTyped, IInv, TypeOK
  <2> QED
    BY <2>1, <2>2, PendingGrantable, GrantStep
<1>6. ASSUME NEW lease \in held, NEW c \in Completions, Finish(lease, c) PROVE IInv'
  BY <1>6, FinishStep
<1>7. ASSUME NEW lease \in held, Requeue(lease) PROVE IInv'
  BY <1>7, RequeueStep
<1>8. ASSUME NEW path \in Paths, Focus(path) PROVE IInv'
  BY <1>8, FocusStep
<1>9. ASSUME NEW gen \in Generations, AdvanceTo(gen) PROVE IInv'
  BY <1>9, AdvanceStep
<1>10. ASSUME NEW c \in Completions, TerminateScanWork(c) PROVE IInv'
  BY <1>10, TerminateStep DEF TerminateScanWork
<1>11. ASSUME NEW c \in Completions, TerminateAll(c) PROVE IInv'
  BY <1>11, TerminateAllStep
<1>12. ASSUME NEW gen \in Generations, NEW path \in Paths, InvalidatePrefix(gen, path)
       PROVE IInv'
  BY <1>12, TerminateStep DEF InvalidatePrefix, Completions
<1>13. CASE UNCHANGED vars
  <2>1. TypeOK' /\ IndexesFinite' /\ SingleExecutor' /\ ScanWorkIsCurrent'
    BY <1>13 DEF vars, IInv, TypeOK, IndexesFinite, SingleExecutor,
       ScanWorkIsCurrent, KnownKeys
  <2>2. IndexesAgree' /\ LeaseIdsDistinct'
    BY <1>13 DEF vars, IInv, IndexesAgree, QueuesMirrorPending, Entry,
       ActiveByKeyMirrorsActive, LeaseIdsDistinct
  <2> QED
    BY <2>1, <2>2 DEF IInv
<1> QED
  BY <1>1, <1>2, <1>3, <1>4, <1>5, <1>6, <1>7, <1>8, <1>9, <1>10, <1>11, <1>12,
     <1>13 DEF Next

\* The invariant holds in every reachable state.
THEOREM CoordinatorInvariant == Spec => []IInv
<1>1. Init => IInv
  BY InitIInv
<1>2. IInv /\ [Next]_vars => IInv'
  BY NextIInv
<1> QED
  BY <1>1, <1>2, PTL DEF Spec

\* run_actor() keeps every field of ScanCoordinator well typed, whatever
\* sequence of commands it receives.
THEOREM TypeCorrect == Spec => []TypeOK
<1>1. IInv => TypeOK
  BY DEF IInv
<1> QED
  BY <1>1, CoordinatorInvariant, PTL

\* The pending map, the ready queues and the two lease indexes of
\* ScanCoordinator agree, and no key is pending and leased at once.
THEOREM IndexAgreement == Spec => []IndexesAgree
<1>1. IInv => IndexesAgree
  BY DEF IInv
<1> QED
  BY <1>1, CoordinatorInvariant, PTL

\* lease_queued() never lets two deletions execute at once.
THEOREM ExecutorExclusion == Spec => []SingleExecutor
<1>1. IInv => SingleExecutor
  BY DEF IInv
<1> QED
  BY <1>1, CoordinatorInvariant, PTL

\* advance_to() leaves no scan work of an older generation behind.
THEOREM ScanCurrency == Spec => []ScanWorkIsCurrent
<1>1. IInv => ScanWorkIsCurrent
  BY DEF IInv
<1> QED
  BY <1>1, CoordinatorInvariant, PTL

-----------------------------------------------------------------------------
(***************************************************************************)
(* Every command is a step of the ledger, and accounts for its items.      *)
(***************************************************************************)
Total(counts) ==
    counts["Succeeded"] + counts["Failed"] + counts["Cancelled"] + counts["Invalidated"]

\* The items that are pending, leased or ended.
Items == Cardinality(DOMAIN pending) + Cardinality(active) + Total(terminal)

LedgerVars == <<DOMAIN pending, DOMAIN activeByKey, generation>>

\* A step of the ledger that admits as many items as it adds, or counts afresh.
Accounts ==
    /\ [Ledger!Next]_LedgerVars
    /\ admitted' - admitted = Items' - Items \/ admitted' = Items'

\* Adding to one terminal class adds to their sum.
LEMMA TotalLemma ==
    ASSUME NEW counts \in [Completions -> Nat], NEW c \in Completions, NEW n \in Nat
    PROVE  /\ Total(counts) \in Nat
           /\ Total([counts EXCEPT ![c] = @ + n]) = Total(counts) + n
BY DEF Total, Completions

\* The sizes of the indexes and the sums of the counts are numbers.
LEMMA SizesLemma ==
    ASSUME IInv
    PROVE  /\ Cardinality(DOMAIN pending) \in Nat /\ Cardinality(active) \in Nat
           /\ Total(terminal) \in Nat /\ admitted \in Nat
<1>1. Cardinality(DOMAIN pending) \in Nat /\ Cardinality(active) \in Nat
  BY FS_CardinalityType DEF IInv, IndexesFinite
<1>2. Total(terminal) \in Nat /\ admitted \in Nat
  BY DEF IInv, TypeOK, Total, Completions
<1> QED
  BY <1>1, <1>2

\* Admitting a key, or raising its priority, is accounted for.
LEMMA ScheduleAccounts ==
    ASSUME IInv, NEW key \in WorkKey, NEW p \in Priorities, Schedule(key, p)
    PROVE  Accounts
<1>1. /\ DOMAIN pending' = DOMAIN pending \cup {key}
      /\ UNCHANGED <<generation, active, activeByKey, terminal>>
      /\ Admissible(key) /\ CountAdmission(key)
  BY DEF Schedule, With
<1>2. Total(terminal') = Total(terminal)
  BY <1>1
<1>3. CASE key \in DOMAIN pending
  <2>1. DOMAIN pending' = DOMAIN pending /\ admitted' = admitted
    BY <1>1, <1>3 DEF CountAdmission
  <2> QED
    BY <1>1, <1>2, <2>1, SizesLemma DEF Accounts, Items, LedgerVars
<1>4. CASE key \notin DOMAIN pending
  <2>1. admitted' = admitted + 1
    BY <1>1, <1>4 DEF CountAdmission
  <2>2. Ledger!Admit(key)
    BY <1>1, <1>4
    DEF Admissible, Ledger!Admit, Ledger!MayAdmit, Ledger!Idle, GenerationOf
  <2>3. Ledger!Next
    BY <1>1, <2>2 DEF Ledger!Next
  <2>4. Cardinality(DOMAIN pending') = Cardinality(DOMAIN pending) + 1
    BY <1>1, <1>4, FS_AddElement DEF IInv, IndexesFinite
  <2>5. Items' = Items + 1
    BY <1>1, <1>2, <2>4, SizesLemma DEF Items
  <2>6. Items \in Nat
    BY SizesLemma DEF Items
  <2> QED
    BY <2>1, <2>3, <2>5, <2>6, SizesLemma DEF Accounts
<1> QED
  BY <1>3, <1>4

\* Granting a key moves one item from the pending to the leased, or admits it
\* and leases it at once.
LEMMA GrantAccounts ==
    ASSUME IInv, NEW key \in WorkKey, NEW work, NEW focused,
           Grant(key, work, focused), Grantable(key),
           \/ key \in DOMAIN pending /\ admitted' = admitted
           \/ /\ key \notin DOMAIN pending /\ admitted' = admitted + 1
              /\ key.generation = generation
    PROVE  Accounts
<1> DEFINE lease == [id |-> nextLease, key |-> key, priority |-> work.priority,
                     focused |-> focused]
<1>1. /\ DOMAIN pending' = DOMAIN pending \ {key}
      /\ active' = active \cup {lease}
      /\ DOMAIN activeByKey' = DOMAIN activeByKey \cup {key}
      /\ UNCHANGED <<generation, terminal>>
  BY DEF Grant, With, Without
<1>2. lease \notin active
  <2>1. \A l \in active : l.id \in Nat /\ l.id < nextLease
    BY DEF IInv, TypeOK, WorkLease, LeaseIdsDistinct
  <2>2. lease.id = nextLease /\ nextLease \in Nat
    BY DEF IInv, TypeOK
  <2> QED
    BY <2>1, <2>2
<1>3. Cardinality(active') = Cardinality(active) + 1
  <2> HIDE DEF lease
  <2> QED
    BY <1>1, <1>2, FS_AddElement DEF IInv, IndexesFinite
<1>4. Ledger!MayGrant(key)
  <2> SUFFICES ASSUME key.kind = "ExecuteDeletion", NEW other \in DOMAIN activeByKey
               PROVE  other.kind # "ExecuteDeletion"
    BY DEF Ledger!MayGrant, IsExecution
  <2>1. activeExecution = NoLease
    BY DEF Grantable, ExecutionBlocked
  <2>2. PICK l \in active : l.key = other
    BY DEF IInv, IndexesAgree, ActiveByKeyMirrorsActive
  <2>3. l.id # NoLease
    BY DEF IInv, TypeOK, WorkLease, NoLease
  <2> QED
    BY <2>1, <2>2, <2>3 DEF IInv, SingleExecutor
<1>5. Total(terminal') = Total(terminal)
  BY <1>1
<1>6. key \notin DOMAIN activeByKey
  BY DEF Grantable
<1> HIDE DEF lease
<1>7. CASE key \in DOMAIN pending
  <2>1. Ledger!Grant(key)
    BY <1>1, <1>4, <1>7 DEF Ledger!Grant
  <2>2. Ledger!Next
    BY <1>1, <2>1 DEF Ledger!Next
  <2>3. Cardinality(DOMAIN pending') = Cardinality(DOMAIN pending) - 1
    BY <1>1, <1>7, FS_RemoveElement DEF IInv, IndexesFinite
  <2>4. Items' = Items
    BY <1>3, <1>5, <2>3, SizesLemma DEF Items
  <2>5. Items \in Nat
    BY SizesLemma DEF Items
  <2> QED
    BY <1>7, <2>2, <2>4, <2>5, SizesLemma DEF Accounts
<1>8. CASE key \notin DOMAIN pending
  <2>1. DOMAIN pending' = DOMAIN pending
    BY <1>1, <1>8
  <2>2. Ledger!AdmitAndGrant(key)
    BY <1>1, <1>4, <1>6, <1>8, <2>1
    DEF Ledger!AdmitAndGrant, Ledger!MayAdmit, Ledger!Idle, GenerationOf
  <2>3. Ledger!Next
    BY <1>1, <2>2 DEF Ledger!Next
  <2>4. Items' = Items + 1
    BY <1>3, <1>5, <2>1, SizesLemma DEF Items
  <2>5. Items \in Nat
    BY SizesLemma DEF Items
  <2> QED
    BY <1>8, <2>3, <2>4, <2>5, SizesLemma DEF Accounts
<1> QED
  BY <1>7, <1>8

\* A report ends one leased item, or none when it is stale.
LEMMA FinishAccounts ==
    ASSUME IInv, NEW lease \in held, NEW c \in Completions, Finish(lease, c)
    PROVE  Accounts
<1>1. UNCHANGED <<generation, pending, admitted>>
  BY DEF Finish
<1>2. CASE IsStale(lease)
  <2>1. UNCHANGED <<active, activeByKey, terminal>>
    BY <1>2 DEF Finish
  <2>2. Total(terminal') = Total(terminal)
    BY <2>1
  <2> QED
    BY <1>1, <2>1, <2>2, SizesLemma DEF Accounts, Items, LedgerVars
<1>3. CASE ~IsStale(lease)
  <2>1. lease \in active /\ RemoveActive({lease}) /\ RecordTerminal(c, 1)
    BY <1>3 DEF Finish, IsStale
  <2>2. active' = active \ {lease} /\ DOMAIN activeByKey' \subseteq DOMAIN activeByKey
    BY <2>1 DEF RemoveActive, Without
  <2>3. Ledger!Next
    BY <1>1, <2>2 DEF Ledger!Next, Ledger!Settle
  <2>4. Cardinality(active') = Cardinality(active) - 1
    BY <2>1, <2>2, FS_RemoveElement DEF IInv, IndexesFinite
  <2>5. Total(terminal') = Total(terminal) + 1
    BY <2>1, TotalLemma DEF RecordTerminal, IInv, TypeOK
  <2>6. Items' = Items /\ Items \in Nat
    BY <1>1, <2>4, <2>5, SizesLemma DEF Items
  <2> QED
    BY <1>1, <2>3, <2>6, SizesLemma DEF Accounts
<1> QED
  BY <1>2, <1>3

\* Handing a lease back returns its item to the pending.
LEMMA RequeueAccounts ==
    ASSUME IInv, NEW lease \in held, Requeue(lease)
    PROVE  Accounts
<1>1. UNCHANGED <<generation, terminal, admitted>>
  BY DEF Requeue
<1>2. Total(terminal') = Total(terminal)
  BY <1>1
<1>3. CASE IsStale(lease)
  <2>1. UNCHANGED <<pending, active, activeByKey>>
    BY <1>3 DEF Requeue
  <2> QED
    BY <1>1, <1>2, <2>1, SizesLemma DEF Accounts, Items, LedgerVars
<1>4. CASE ~IsStale(lease)
  <2>1. /\ lease \in active /\ RemoveActive({lease})
        /\ DOMAIN pending' = DOMAIN pending \cup {lease.key}
    BY <1>4 DEF Requeue, IsStale, With
  <2>2. /\ active' = active \ {lease}
        /\ DOMAIN activeByKey' = DOMAIN activeByKey \ {lease.key}
    BY <2>1 DEF RemoveActive, Without
  <2>3. /\ lease.key \notin DOMAIN pending /\ lease.key \in DOMAIN activeByKey
        /\ lease.key \in WorkKey
    BY <2>1 DEF IInv, TypeOK, WorkLease, IndexesAgree, ActiveByKeyMirrorsActive
  <2>4. Ledger!Return(lease.key)
    BY <1>1, <2>1, <2>2, <2>3 DEF Ledger!Return
  <2>5. Ledger!Next
    BY <2>1, <2>3, <2>4 DEF Ledger!Next
  <2>6. /\ Cardinality(active') = Cardinality(active) - 1
        /\ Cardinality(DOMAIN pending') = Cardinality(DOMAIN pending) + 1
    BY <2>1, <2>2, <2>3, FS_RemoveElement, FS_AddElement DEF IInv, IndexesFinite
  <2>7. Items' = Items /\ Items \in Nat
    BY <1>2, <2>6, SizesLemma DEF Items
  <2> QED
    BY <1>1, <2>5, <2>7, SizesLemma DEF Accounts
<1> QED
  BY <1>3, <1>4

\* Dropped items are as many as they are counted for.
LEMMA DropCounts ==
    ASSUME IInv, NEW K, Drop(K)
    PROVE  /\ Cardinality(DOMAIN pending') + Cardinality(active') + CountOf(K)
              = Cardinality(DOMAIN pending) + Cardinality(active)
           /\ Cardinality(DOMAIN pending') \in Nat /\ Cardinality(active') \in Nat
<1>1. DOMAIN pending' = DOMAIN pending \ K /\ active' = active \ ActiveOf(K)
  BY DropLemma DEF ActiveOf
<1>2. IsFiniteSet(DOMAIN pending) /\ IsFiniteSet(active)
  BY DEF IInv, IndexesFinite
<1>3. /\ IsFiniteSet(DOMAIN pending \ K)
      /\ Cardinality(DOMAIN pending \ K)
           = Cardinality(DOMAIN pending) - Cardinality(DOMAIN pending \cap K)
  BY <1>2, FS_Difference
<1>4. /\ IsFiniteSet(active \ ActiveOf(K))
      /\ Cardinality(active \ ActiveOf(K))
           = Cardinality(active) - Cardinality(active \cap ActiveOf(K))
  BY <1>2, FS_Difference
<1>5. DOMAIN pending \cap K = K \cap DOMAIN pending /\ active \cap ActiveOf(K) = ActiveOf(K)
  BY DEF ActiveOf
<1>6. /\ Cardinality(K \cap DOMAIN pending) \in Nat
      /\ Cardinality(ActiveOf(K)) \in Nat
  <2>1. IsFiniteSet(K \cap DOMAIN pending) /\ IsFiniteSet(ActiveOf(K))
    BY <1>2, FS_Subset DEF ActiveOf
  <2> QED
    BY <2>1, FS_CardinalityType
<1>7. /\ Cardinality(DOMAIN pending \ K) \in Nat
      /\ Cardinality(active \ ActiveOf(K)) \in Nat
  BY <1>3, <1>4, FS_CardinalityType
<1>8. CountOf(K) = Cardinality(K \cap DOMAIN pending) + Cardinality(ActiveOf(K))
  BY DEF CountOf
<1>9. Cardinality(DOMAIN pending) \in Nat /\ Cardinality(active) \in Nat
  BY SizesLemma
<1>10. /\ Cardinality(DOMAIN pending') =
            Cardinality(DOMAIN pending) - Cardinality(K \cap DOMAIN pending)
       /\ Cardinality(active') = Cardinality(active) - Cardinality(ActiveOf(K))
  BY <1>1, <1>3, <1>4, <1>5
<1> QED
  BY <1>1, <1>6, <1>7, <1>8, <1>9, <1>10

\* Ending many items at once counts each of them.
LEMMA TerminateAccounts ==
    ASSUME IInv, NEW c \in Completions, NEW K, Terminate(c, K)
    PROVE  Accounts
<1>1. /\ Drop(K)
      /\ terminal' = [terminal EXCEPT ![c] = @ + CountOf(K)]
      /\ UNCHANGED <<generation, admitted>>
  BY DEF Terminate, RecordTerminal
<1>2. /\ DOMAIN pending' \subseteq DOMAIN pending
      /\ DOMAIN activeByKey' \subseteq DOMAIN activeByKey
  BY <1>1, DropLemma
<1>3. Ledger!Next
  BY <1>1, <1>2 DEF Ledger!Next, Ledger!Settle
<1>4. Total(terminal') = Total(terminal) + CountOf(K) /\ CountOf(K) \in Nat
  BY <1>1, CountLemma, TotalLemma DEF IInv, TypeOK
<1>5. Items' = Items /\ Items \in Nat
  BY <1>1, <1>4, DropCounts, SizesLemma DEF Items
<1> QED
  BY <1>1, <1>3, <1>5, SizesLemma DEF Accounts

\* So does ending all of them.
LEMMA TerminateAllAccounts ==
    ASSUME IInv, NEW c \in Completions, TerminateAll(c)
    PROVE  Accounts
<1>1. /\ DOMAIN pending' = {} /\ active' = {} /\ DOMAIN activeByKey' = {}
      /\ terminal' = [terminal EXCEPT
                        ![c] = @ + (Cardinality(DOMAIN pending) + Cardinality(active))]
      /\ UNCHANGED <<generation, admitted>>
  BY DEF TerminateAll, RecordTerminal
<1>2. Ledger!Next
  BY <1>1 DEF Ledger!Next, Ledger!Settle
<1>3. Total(terminal') =
        Total(terminal) + (Cardinality(DOMAIN pending) + Cardinality(active))
  <2>1. Cardinality(DOMAIN pending) + Cardinality(active) \in Nat
    BY SizesLemma
  <2>2. terminal \in [Completions -> Nat]
    BY DEF IInv, TypeOK
  <2> QED
    BY <1>1, <2>1, <2>2, TotalLemma
<1>4. Cardinality(DOMAIN pending') = 0 /\ Cardinality(active') = 0
  BY <1>1, FS_EmptySet
<1>5. Items' = Items /\ Items \in Nat
  BY <1>3, <1>4, SizesLemma DEF Items
<1> QED
  BY <1>1, <1>2, <1>5, SizesLemma DEF Accounts

\* A new generation forgets the scan work and counts what is left.
LEMMA AdvanceAccounts ==
    ASSUME IInv, NEW gen \in Generations, AdvanceTo(gen)
    PROVE  Accounts
<1> DEFINE K == Matching(ScanKinds)
<1>1. /\ Drop(K) /\ gen > generation /\ generation' = gen
      /\ terminal' = [x \in Completions |-> 0]
      /\ admitted' = Cardinality(DOMAIN pending') + Cardinality(active')
  BY DEF AdvanceTo
<1> HIDE DEF K
<1>2. /\ DOMAIN pending' = DOMAIN pending \ K
      /\ DOMAIN activeByKey' = DOMAIN activeByKey \ K
  BY <1>1, DropLemma
<1>3. /\ DOMAIN pending' = {k \in DOMAIN pending : ~IsScanKey(k)}
      /\ DOMAIN activeByKey' = {k \in DOMAIN activeByKey : ~IsScanKey(k)}
  BY <1>2
  DEF K, Matching, KnownKeys, IsScanKey, IInv, IndexesAgree, ActiveByKeyMirrorsActive
<1>4. Ledger!Advance(gen)
  BY <1>1, <1>3 DEF Ledger!Advance
<1>5. Ledger!Next
  BY <1>4 DEF Ledger!Next
<1>6. Total(terminal') = 0
  BY <1>1 DEF Total, Completions
<1>7. admitted' = Items'
  BY <1>1, <1>6, DropCounts DEF Items
<1> QED
  BY <1>5, <1>7 DEF Accounts

\* A step that leaves the records, the counts and the generation alone.
LEMMA IdleAccounts ==
    ASSUME IInv, UNCHANGED <<generation, pending, active, activeByKey, terminal, admitted>>
    PROVE  Accounts
<1>1. Items' = Items
  BY DEF Items, Total
<1>2. Items \in Nat
  BY SizesLemma DEF Items
<1> QED
  BY <1>1, <1>2, SizesLemma DEF Accounts, LedgerVars

\* Every command is accounted for.
LEMMA NextAccounts ==
    ASSUME IInv, [Next]_vars PROVE Accounts
<1> USE CoordinatorAssumption
<1>1. CASE ScheduleAny
  <2>1. PICK s \in Sessions, g \in Generations, w \in WorkInputs :
          Schedule([session |-> s, generation |-> g, kind |-> w.kind,
                    path |-> w.path], w.priority)
    BY <1>1 DEF ScheduleAny
  <2> QED
    BY <2>1, ScheduleAccounts DEF WorkKey
<1>2. CASE AcquireAny
  <2>1. PICK w \in WorkInputs :
          Acquire([session |-> OwnSession, generation |-> generation,
                   kind |-> w.kind, path |-> w.path], w.priority)
    BY <1>2 DEF AcquireAny
  <2> DEFINE key == [session |-> OwnSession, generation |-> generation,
                     kind |-> w.kind, path |-> w.path]
             work == Scheduled(key, w.priority)
  <2>2. key \in WorkKey /\ w.priority \in Priorities
    BY DEF WorkKey, IInv, TypeOK
  <2>3. CASE ExecutionBlocked(key)
    BY <2>1, <2>2, <2>3, ScheduleAccounts DEF Acquire
  <2>4. CASE ~ExecutionBlocked(key)
    <3>1. Admissible(key) /\ CountAdmission(key) /\ Grant(key, work, FALSE)
      BY <2>1, <2>4 DEF Acquire
    <3>2. Grantable(key) /\ key.generation = generation
      BY <2>2, <2>4, <3>1 DEF Admissible, Grantable, IInv, TypeOK, Generations
    <3>3. \/ key \in DOMAIN pending /\ admitted' = admitted
          \/ key \notin DOMAIN pending /\ admitted' = admitted + 1
      BY <3>1 DEF CountAdmission
    <3> HIDE DEF key, work
    <3> QED
      BY <2>2, <3>1, <3>2, <3>3, GrantAccounts
  <2> QED
    BY <2>3, <2>4
<1>3. CASE LeaseNextScan \/ LeaseNext
  <2>1. PICK q \in queues, f \in BOOLEAN :
          /\ IsNextScan(q, f) \/ IsNextQueued(q, f)
          /\ Grant(q.key, pending[q.key], f)
          /\ admitted' = admitted
    BY <1>3 DEF LeaseNextScan, LeaseNext
  <2>2. q \in ScanEligible \cup Eligible
    BY <2>1, FairChoiceEligible DEF IsNextScan, IsNextQueued, IsOldest, OfPriority
  <2>3. ~ExecutionBlocked(q.key)
    BY <2>2 DEF ScanEligible, ScanKinds, Eligible, ExecutionBlocked
  <2> QED
    BY <2>1, <2>3, QueuedIsPending, PendingGrantable, GrantAccounts
<1>4. ASSUME NEW key \in DOMAIN pending, LeaseExact(key) PROVE Accounts
  <2>1. /\ ~ExecutionBlocked(key) /\ Grant(key, pending[key], FALSE)
        /\ admitted' = admitted
    BY <1>4 DEF LeaseExact
  <2> QED
    BY <2>1, PendingGrantable, GrantAccounts
<1>5. ASSUME NEW lease \in held, NEW c \in Completions, Finish(lease, c)
      PROVE  Accounts
  BY <1>5, FinishAccounts
<1>6. ASSUME NEW lease \in held, Requeue(lease) PROVE Accounts
  BY <1>6, RequeueAccounts
<1>7. ASSUME NEW path \in Paths, Focus(path) PROVE Accounts
  BY <1>7, IdleAccounts DEF Focus
<1>8. ASSUME NEW gen \in Generations, AdvanceTo(gen) PROVE Accounts
  BY <1>8, AdvanceAccounts
<1>9. ASSUME NEW c \in Completions, TerminateScanWork(c) PROVE Accounts
  BY <1>9, TerminateAccounts DEF TerminateScanWork
<1>10. ASSUME NEW c \in Completions, TerminateAll(c) PROVE Accounts
  BY <1>10, TerminateAllAccounts
<1>11. ASSUME NEW gen \in Generations, NEW path \in Paths, InvalidatePrefix(gen, path)
       PROVE  Accounts
  BY <1>11, TerminateAccounts DEF InvalidatePrefix, Completions
<1>12. CASE UNCHANGED vars
  BY <1>12, IdleAccounts DEF vars
<1> QED
  BY <1>1, <1>2, <1>3, <1>4, <1>5, <1>6, <1>7, <1>8, <1>9, <1>10, <1>11, <1>12
  DEF Next

(***************************************************************************)
(* Background work is passed over a bounded number of times.               *)
(***************************************************************************)
\* Every grant that passes over Background work counts towards its burst.
BypassIsCounted == bypassed <= nonBackgroundLeases /\ bypassed <= LeaseBurst

\* A grant by priority or focus passes Background work over only within the burst.
LEMMA ChoiceBypass ==
    ASSUME IInv, BypassIsCounted, NEW q \in queues, NEW f \in BOOLEAN,
           IsNextScan(q, f) \/ IsNextQueued(q, f),
           Grant(q.key, pending[q.key], f), CountBypass(q, f)
    PROVE  BypassIsCounted'
<1> USE CoordinatorAssumption DEF MaxU8
<1>1. q.priority = pending[q.key].priority
  BY QueuedIsPending
<1>2. /\ bypassed \in Nat /\ nonBackgroundLeases \in 0 .. 255
      /\ LeaseBurst \in 0 .. 255
  BY DEF IInv, TypeOK
<1>3. nonBackgroundLeases' =
        IF q.priority = "Background" /\ ~f THEN 0
        ELSE IF q.priority # "Safety" /\ nonBackgroundLeases < 255
        THEN nonBackgroundLeases + 1
        ELSE nonBackgroundLeases
  BY <1>1 DEF Grant
<1>4. CASE q.priority = "Background" /\ ~f
  BY <1>2, <1>3, <1>4 DEF CountBypass, BypassIsCounted
<1>5. CASE q.priority = "Safety" \/ OfPriority(ScanEligible, "Background") = {}
  <2>1. q.priority = "Safety" => q.priority # "Background"
    OBVIOUS
  <2>2. CASE ~(q.priority = "Background" /\ ~f)
    <3>1. bypassed' = bypassed
      BY <1>5, <2>2 DEF CountBypass
    <3> QED
      BY <1>2, <1>3, <2>2, <3>1 DEF BypassIsCounted
  <2> QED
    BY <1>4, <2>2
<1>6. CASE /\ ~(q.priority = "Background" /\ ~f) /\ q.priority # "Safety"
           /\ OfPriority(ScanEligible, "Background") # {}
  <2>1. nonBackgroundLeases < LeaseBurst
    <3> SUFFICES ASSUME nonBackgroundLeases >= LeaseBurst PROVE FALSE
      BY <1>2
    <3>1. OfPriority(Eligible, "Background") # {}
      BY <1>6 DEF OfPriority, Eligible, ScanEligible, ScanKinds
    <3>2. ASSUME NEW E, OfPriority(E, "Background") # {}, IsFairChoice(q, f, E)
          PROVE  FALSE
      <4>1. BackgroundIsDue(E)
        BY <3>2 DEF BackgroundIsDue
      <4>2. IsOldest(q, E, "Background") /\ ~f
        BY <3>2, <4>1 DEF IsFairChoice
      <4> QED
        BY <1>6, <4>2 DEF IsOldest, OfPriority
    <3>3. CASE IsNextScan(q, f)
      BY <1>6, <3>2, <3>3 DEF IsNextScan
    <3>4. CASE IsNextQueued(q, f)
      <4>1. ~IsOldest(q, Eligible, "Safety")
        BY <1>6 DEF IsOldest, OfPriority
      <4>2. IsFairChoice(q, f, Eligible)
        BY <3>4, <4>1 DEF IsNextQueued
      <4> QED
        BY <3>1, <3>2, <4>2
    <3> QED
      BY <3>3, <3>4
  <2>2. bypassed' = bypassed + 1
    BY <1>6 DEF CountBypass
  <2>3. nonBackgroundLeases' = nonBackgroundLeases + 1
    BY <1>2, <1>3, <1>6, <2>1
  <2> QED
    BY <1>2, <2>1, <2>2, <2>3 DEF BypassIsCounted
<1> QED
  BY <1>4, <1>5, <1>6

\* A grant asked for by key chooses nothing, and still ends a row of bypasses.
LEMMA ExactBypass ==
    ASSUME IInv, BypassIsCounted, NEW key, NEW work, Grant(key, work, FALSE), NoBypass(work)
    PROVE  BypassIsCounted'
<1>1. /\ bypassed \in Nat /\ nonBackgroundLeases \in 0 .. 255
      /\ LeaseBurst \in 0 .. 255
  BY CoordinatorAssumption DEF IInv, TypeOK, MaxU8
<1> QED
  BY <1>1 DEF Grant, NoBypass, BypassIsCounted, MaxU8

\* Every command keeps the row of bypasses within the burst.
LEMMA NextBypass ==
    ASSUME IInv, BypassIsCounted, [Next]_vars
    PROVE  BypassIsCounted'
<1>1. CASE UNCHANGED <<bypassed, nonBackgroundLeases>>
  BY <1>1 DEF BypassIsCounted
<1>2. CASE LeaseNextScan \/ LeaseNext
  BY <1>2, ChoiceBypass DEF LeaseNextScan, LeaseNext
<1>3. ASSUME NEW key \in DOMAIN pending, LeaseExact(key) PROVE BypassIsCounted'
  BY <1>3, ExactBypass DEF LeaseExact
<1>4. CASE AcquireAny
  <2>1. PICK w \in WorkInputs :
          Acquire([session |-> OwnSession, generation |-> generation,
                   kind |-> w.kind, path |-> w.path], w.priority)
    BY <1>4 DEF AcquireAny
  <2> DEFINE key == [session |-> OwnSession, generation |-> generation,
                     kind |-> w.kind, path |-> w.path]
  <2>2. \/ UNCHANGED <<bypassed, nonBackgroundLeases>>
        \/ /\ Grant(key, Scheduled(key, w.priority), FALSE)
           /\ NoBypass(Scheduled(key, w.priority))
    BY <2>1 DEF Acquire, Schedule
  <2> QED
    BY <1>1, <2>2, ExactBypass
<1>5. ASSUME NEW gen \in Generations, AdvanceTo(gen) PROVE BypassIsCounted'
  BY <1>5, CoordinatorAssumption DEF AdvanceTo, BypassIsCounted, MaxU8
<1>6. CASE ScheduleAny
  BY <1>1, <1>6 DEF ScheduleAny, Schedule
<1>7. ASSUME NEW c \in Completions, TerminateScanWork(c) \/ TerminateAll(c)
      PROVE  BypassIsCounted'
  BY <1>1, <1>7 DEF TerminateScanWork, Terminate, TerminateAll
<1> QED
  BY <1>1, <1>2, <1>3, <1>4, <1>5, <1>6, <1>7
  DEF Next, Finish, Requeue, Focus, InvalidatePrefix, Terminate, vars

\* Every command of run_actor() does to the work keys what the ledger of
\* waiting and out keys allows: one deletion executes at a time, nothing is out
\* twice, and advance_to() leaves no scan work of the old generation.
THEOREM LedgerRefinement == Spec => ImplementsLedger
<1>1. Init => Ledger!Init
  BY DEF Init, Ledger!Init
<1>2. IInv /\ [Next]_vars =>
        [Ledger!Next]_<<DOMAIN pending, DOMAIN activeByKey, generation>>
  BY NextAccounts DEF Accounts, LedgerVars
<1> QED
  BY <1>1, <1>2, CoordinatorInvariant, PTL DEF Spec, ImplementsLedger, Ledger!Spec

\* schedule(), finish(), requeue() and the terminations lose no item and count
\* none twice: what a generation admitted is pending, leased or ended.
THEOREM Conservation == Spec => []WorkConserved
<1>1. Init => WorkConserved
  <2>1. ASSUME Init
        PROVE  /\ Cardinality(DOMAIN pending) = 0 /\ Cardinality(active) = 0
               /\ admitted = 0 /\ Total(terminal) = 0
    BY <2>1, FS_EmptySet DEF Init, Total, Completions
  <2>2. Init => \A c \in Completions : terminal[c] = 0
    BY DEF Init
  <2> QED
    BY <2>1, <2>2 DEF WorkConserved, Completions
<1>2. IInv /\ WorkConserved /\ [Next]_vars => WorkConserved'
  <2> SUFFICES ASSUME IInv, WorkConserved, [Next]_vars PROVE WorkConserved'
    OBVIOUS
  <2>1. IInv'
    BY NextIInv
  <2>2. /\ Cardinality(DOMAIN pending)' \in Nat /\ Cardinality(active)' \in Nat
        /\ admitted' \in Nat /\ terminal' \in [Completions -> Nat]
    BY <2>1, FS_CardinalityType DEF IInv, TypeOK, IndexesFinite
  <2>3. Items' \in Nat /\ Items \in Nat /\ admitted \in Nat
    BY <2>2, SizesLemma, TotalLemma DEF Items, Total, Completions
  <2>4. admitted = Items
    <3>1. terminal \in [Completions -> Nat]
      BY DEF IInv, TypeOK
    <3> QED
      BY <3>1, SizesLemma DEF WorkConserved, Items, Total, Completions
  <2>5. admitted' = Items'
    BY <2>2, <2>3, <2>4, NextAccounts DEF Accounts
  <2> QED
    BY <2>2, <2>5 DEF WorkConserved, Items, Total, Completions
<1> QED
  BY <1>1, <1>2, CoordinatorInvariant, PTL DEF Spec

\* next_queued() and next_scan_queued() pass ready Background traversal over at
\* most FOREGROUND_LEASE_BURST times in a row.
THEOREM BypassBounded == Spec => []BackgroundBypassBounded
<1>1. Init => BypassIsCounted
  BY CoordinatorAssumption DEF Init, BypassIsCounted, MaxU8
<1>2. IInv /\ BypassIsCounted /\ [Next]_vars => BypassIsCounted'
  BY NextBypass
<1>3. BypassIsCounted => BackgroundBypassBounded
  BY DEF BypassIsCounted, BackgroundBypassBounded
<1> QED
  BY <1>1, <1>2, <1>3, CoordinatorInvariant, PTL DEF Spec

=============================================================================
