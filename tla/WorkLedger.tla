----------------------------- MODULE WorkLedger -----------------------------
(***************************************************************************)
(* What the session coordinator promises its clients, without queues,      *)
(* priorities, leases or indexes: each work key is idle, waiting or out,   *)
(* work is admitted only in the current epoch, exclusive work is out with  *)
(* one worker at a time, and a new epoch forgets the scan work of the old. *)
(***************************************************************************)
EXTENDS Integers

CONSTANTS
    Keys,             \* work keys
    IsScan(_),        \* keys of scan work
    IsExclusive(_),   \* keys that exclude each other while out
    EpochOf(_),       \* the epoch a key belongs to
    Epochs            \* epoch numbers

VARIABLES waiting, out, epoch

Init == waiting = {} /\ out = {} /\ epoch = 0

Idle(k) == k \notin waiting /\ k \notin out
MayAdmit(k) == EpochOf(k) = epoch /\ Idle(k)
MayGrant(k) == IsExclusive(k) => \A other \in out : ~IsExclusive(other)

Admit(k) ==
    /\ MayAdmit(k)
    /\ waiting' = waiting \union {k}
    /\ UNCHANGED <<out, epoch>>

Grant(k) ==
    /\ k \in waiting /\ MayGrant(k)
    /\ waiting' = waiting \ {k}
    /\ out' = out \union {k}
    /\ UNCHANGED epoch

AdmitAndGrant(k) ==
    /\ MayAdmit(k) /\ MayGrant(k)
    /\ out' = out \union {k}
    /\ UNCHANGED <<waiting, epoch>>

Return(k) ==
    /\ k \in out
    /\ out' = out \ {k}
    /\ waiting' = waiting \union {k}
    /\ UNCHANGED epoch

\* Any number of keys end at once; the others stay where they are.
Settle ==
    /\ waiting' \subseteq waiting
    /\ out' \subseteq out
    /\ UNCHANGED epoch

Advance(e) ==
    /\ e > epoch
    /\ epoch' = e
    /\ waiting' = {k \in waiting : ~IsScan(k)}
    /\ out' = {k \in out : ~IsScan(k)}

\* A key that is admitted, granted or returned is waiting or out afterwards.
Next ==
    \/ Settle
    \/ \E k \in (waiting' \union out') \intersect Keys :
           Admit(k) \/ Grant(k) \/ AdmitAndGrant(k) \/ Return(k)
    \/ \E e \in Epochs : Advance(e)

Spec == Init /\ [][Next]_<<waiting, out, epoch>>

=============================================================================
