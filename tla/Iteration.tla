----------------------------- MODULE Iteration -----------------------------
(***************************************************************************)
(* What a loop does.                                                       *)
(*                                                                         *)
(* A loop of the code that runs over a queue, a file or a list is written  *)
(* in the modules as a recursive function of the number of its rounds,     *)
(*                                                                         *)
(*     Loop[k \in 0..n] == IF k = 0 THEN base ELSE Round(Loop[k - 1], k)   *)
(*                                                                         *)
(* which TLA+ defines by CHOOSE: it has the value its equation says only   *)
(* if some function satisfies the equation.  The proofs about such loops   *)
(* show that one does (LoopExists), and a loop invariant (LoopInvariant),  *)
(* T[k] being the set of what the loop may be at after k rounds.  These    *)
(* lemmas have no operators as parameters: what is proved of every number  *)
(* is the membership of a set.                                             *)
(***************************************************************************)
EXTENDS Integers, TLAPS, WellFoundedInduction

\* The rounds of a loop lead from T[k - 1] to T[k].
Leads(T, n, round) == \A k \in 1..n : \A t \in T[k - 1] : round[<<t, k>>] \in T[k]

\* The loop is at h[k] after k rounds.
IsLoop(h, T, n, base, round) ==
    /\ DOMAIN h = 0..n
    /\ h = [k \in 0..n |-> h[k]]
    /\ h[0] = base
    /\ \A k \in 0..n : h[k] \in T[k]
    /\ \A k \in 1..n : h[k] = round[<<h[k - 1], k>>]

=============================================================================
