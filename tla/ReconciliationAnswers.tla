----------------------- MODULE ReconciliationAnswers ------------------------
(***************************************************************************)
(* The first half of the proof that the invariant is kept: what becomes of *)
(* it by messages in flight, the store thread, the operators of the owner, *)
(* their decisions and the answers of the store, up to the handler that    *)
(* applies the answers (process_scan_store_events).                        *)
(***************************************************************************)
EXTENDS ReconciliationInvariant, Iteration, SequenceTheorems

-----------------------------------------------------------------------------
(***************************************************************************)
(* Loops.                                                                  *)
(***************************************************************************)
\* Every number is in a set that 0 is in and that is closed under n + 1.
LEMMA Induction ==
    ASSUME NEW S, 0 \in S, \A n \in Nat : n \in S => n + 1 \in S
    PROVE  \A n \in Nat : n \in S
<1> DEFINE T == {n \in Nat : n \notin S}
<1>1. SUFFICES ASSUME T # {} PROVE FALSE
    OBVIOUS
<1>2. IsWellFoundedOn(OpToRel(<, Nat), Nat)
    BY NatLessThanWellFounded
<1>3. PICK x \in T : \A y \in T : ~(<<y, x>> \in OpToRel(<, Nat))
    BY <1>1, <1>2, WFMin
<1>4. \A y \in T : ~(y < x)
    BY <1>3 DEF OpToRel
<1>5. x # 0 /\ x - 1 \in Nat
    OBVIOUS
<1>6. x - 1 \notin T
    BY <1>4, <1>5
<1>7. QED
    BY <1>5, <1>6

\* A loop whose rounds lead from each set to the next runs to its end.
LEMMA LoopExists ==
    ASSUME NEW T, NEW n \in Nat, NEW base \in T[0], NEW round, Leads(T, n, round)
    PROVE  \E h : IsLoop(h, T, n, base, round)
<1> DEFINE S == {m \in Nat : m <= n => \E h : IsLoop(h, T, m, base, round)}
<1>1. 0 \in S
  <2> DEFINE h == [k \in 0..0 |-> base]
  <2>1. IsLoop(h, T, 0, base, round)
    BY DEF IsLoop
  <2>2. QED
    BY <2>1
<1>2. ASSUME NEW m \in Nat, m \in S
      PROVE  m + 1 \in S
  <2>1. SUFFICES ASSUME m + 1 <= n
                 PROVE  \E h : IsLoop(h, T, m + 1, base, round)
    OBVIOUS
  <2>2. PICK g : IsLoop(g, T, m, base, round)
    BY <1>2, <2>1
  <2> DEFINE next == round[<<g[m], m + 1>>]
             h == [k \in 0..m + 1 |-> IF k = m + 1 THEN next ELSE g[k]]
  <2>3. g[m] \in T[m]
    BY <2>2 DEF IsLoop
  <2>4. m + 1 \in 1..n /\ (m + 1) - 1 = m
    BY <2>1
  <2>5. next \in T[m + 1]
    BY <2>3, <2>4 DEF Leads
  <2> HIDE DEF next
  <2>6. /\ h[m + 1] = next
        /\ \A k \in 0..m : h[k] = g[k] /\ k \in 0..m + 1
    OBVIOUS
  <2>7. DOMAIN h = 0..m + 1 /\ h = [k \in 0..m + 1 |-> h[k]]
    OBVIOUS
  <2> HIDE DEF h
  <2>8. \A k \in 0..m + 1 : k = m + 1 \/ k \in 0..m
    OBVIOUS
  <2>9. h[0] = base /\ \A k \in 0..m + 1 : h[k] \in T[k]
    BY <2>2, <2>5, <2>6, <2>8 DEF IsLoop
  <2>10. ASSUME NEW k \in 1..m + 1
         PROVE  h[k] = round[<<h[k - 1], k>>]
    <3>1. CASE k = m + 1
      <4>1. k - 1 = m /\ m \in 0..m
        BY <3>1
      <4>2. QED
        BY <2>6, <3>1, <4>1 DEF next
    <3>2. CASE k # m + 1
      <4>1. k \in 1..m /\ k \in 0..m /\ k - 1 \in 0..m
        BY <3>2
      <4>2. QED
        BY <2>2, <2>6, <4>1 DEF IsLoop
    <3>3. QED
        BY <3>1, <3>2
  <2>11. QED
    BY <2>7, <2>9, <2>10 DEF IsLoop
<1> HIDE DEF S
<1>3. n \in S
    BY <1>1, <1>2, Induction
<1>4. QED
    BY <1>3 DEF S

\* What holds before the first round and is kept by every round holds throughout.
LEMMA LoopInvariant ==
    ASSUME NEW T, NEW n \in Nat, NEW h,
           h[0] \in T[0],
           \A k \in 1..n : h[k - 1] \in T[k - 1] => h[k] \in T[k]
    PROVE  \A k \in 0..n : h[k] \in T[k]
<1> DEFINE S == {m \in Nat : m <= n => h[m] \in T[m]}
<1>1. 0 \in S
    OBVIOUS
<1>2. ASSUME NEW m \in Nat, m \in S
      PROVE  m + 1 \in S
  <2>1. CASE m + 1 <= n
    <3>1. m + 1 \in 1..n /\ (m + 1) - 1 = m /\ m <= n
        BY <2>1
    <3>2. QED
        BY <1>2, <3>1
  <2>2. CASE ~(m + 1 <= n)
    BY <2>2
  <2>3. QED
    BY <2>1, <2>2
<1> HIDE DEF S
<1>3. \A m \in Nat : m \in S
    BY <1>1, <1>2, Induction
<1>4. QED
    BY <1>3 DEF S

-----------------------------------------------------------------------------
Typed == commands \in Seq(Commands) /\ store \in Store

\* Concatenation of commands is associative.
LEMMA CommandAssoc ==
    \A x, y, z \in Seq(Commands) : (x \o y) \o z = x \o (y \o z)
    BY ConcatAssociative

\* So is that of messages.
LEMMA Assoc ==
    \A x, y, z \in Seq(Messages) : (x \o y) \o z = x \o (y \o z)
    BY ConcatAssociative

\* Commands and answers are messages.
LEMMA Subsequences ==
    /\ \A x \in Seq(Commands) : x \in Seq(Messages)
    /\ \A x \in Seq(AnswerSet) : x \in Seq(Messages)
<1>1. Commands \subseteq Messages /\ AnswerSet \subseteq Messages
    BY DEF Messages
<1> HIDE DEF Commands, AnswerSet, Messages
<1>2. QED
    BY <1>1

\* send: the pending notes and the command are sent as far as they fit, and
\* nothing else changes.
LEMMA SendEffect ==
    ASSUME NEW s \in Own, NEW c \in Commands, Typed
    PROVE  LET t == Send(s, c)
           IN  /\ t \in Own /\ Same(s, t) /\ t.notes = {}
               /\ t.live = s.live /\ t.excused = s.excused
               /\ Sends(s, t, c, Reaches(s))
<1> DEFINE t == Send(s, c)
           N == NotesOf(s)
           out == N \o <<c>>
           fits == IF Len(out) =< Room(s) THEN Len(out) ELSE Room(s)
           new == SubSeq(out, 1, fits)
<1>1. N \in Seq(Commands) /\ Len(N) \in {0, 1} /\ \A i \in 1..Len(N) : N[i].kind = "Notes"
  <2>1. s.notes \in SUBSET Entries
    BY DEF Own
  <2>2. Notes(s.notes) \in Commands /\ Notes(s.notes).kind = "Notes"
    BY <2>1 DEF Notes, Commands
  <2> HIDE DEF Commands
  <2>3. QED
    BY <2>2 DEF NotesOf
<1>2. c \in Commands /\ s.sent \in Seq(Commands) /\ Room(s) \in Int
  <2>1. c \in Commands
    OBVIOUS
  <2>2. s.sent \in Seq(Commands) /\ s.notes \in SUBSET Entries
    BY DEF Own
  <2>3. CommandCapacity \in Nat
    BY StoreAssumption
  <2> HIDE DEF Commands
  <2>4. QED
    BY <2>1, <2>2, <2>3 DEF Room, Typed
<1> USE DEF NotesFirst
<1> HIDE DEF N
<1>3. CASE ~store.running
  <2>1. t = [s EXCEPT !.notes = {}]
    BY <1>3 DEF Send
  <2>2. t = [s EXCEPT !.notes = {}, !.sent = s.sent, !.full = s.full]
    BY <2>1 DEF Own
  <2> HIDE DEF t
  <2>3. ~Reaches(s)
    BY <1>3 DEF Reaches
  <2>4. s.sent = s.sent \o <<>> \o <<>>
    BY <1>2
  <2>5. s.full \in BOOLEAN
    BY DEF Own
  <2>6. /\ t \in Own /\ Same(s, t) /\ t.notes = {} /\ t.live = s.live
        /\ t.excused = s.excused /\ t.sent = s.sent
    BY <2>2, <2>5, <1>2, ZenonT(60) DEF Own, Same, SameJob, SamePublications, SameFlags, SameMap
  <2>7. Sends(s, t, c, Reaches(s))
    <3>1. <<>> \in Seq(Commands) /\ \A i \in 1..Len(<<>>) : <<>>[i].kind = "Notes"
        OBVIOUS
    <3>2. QED
        BY <3>1, <2>3, <2>4, <2>6 DEF Sends
  <2>8. QED
    BY <2>6, <2>7 DEF t
<1>4. CASE store.running
  <2> DEFINE f == s.full \/ fits < Len(out)
  <2>1. t = [s EXCEPT !.notes = {}, !.sent = s.sent \o new, !.full = f]
    BY <1>4 DEF Send, N
  <2> HIDE DEF t
  <2>2. out \in Seq(Commands) /\ Len(out) = Len(N) + 1
    BY <1>1, <1>2
  <2>3. PICK n \in Seq(Commands) :
            /\ \A i \in 1..Len(n) : n[i].kind = "Notes"
            /\ new = n \o (IF Reaches(s) THEN <<c>> ELSE <<>>)
    <3>0. Reaches(s) <=> Len(N) < Room(s)
        BY <1>4 DEF Reaches, N
    <3>1. CASE Reaches(s)
      <4>1. fits = Len(out)
        BY <3>0, <3>1, <2>2, <1>1, <1>2
      <4>2. new = out
        BY <2>2, <4>1
      <4>3. QED
        BY <4>2, <3>1, <1>1
    <3>2. CASE ~Reaches(s)
      <4>1. fits = Room(s) /\ Room(s) <= Len(N)
        BY <3>0, <3>2, <2>2, <1>1, <1>2
      <4>2. new \in Seq(Commands) /\ Len(new) <= Len(N)
                /\ \A i \in 1..Len(new) : new[i] = N[i]
        BY <4>1, <2>2, <1>1, <1>2
      <4>3. new = new \o <<>>
        BY <4>2
      <4>4. \A i \in 1..Len(new) : new[i].kind = "Notes"
        BY <4>2, <1>1
      <4> HIDE DEF new
      <4>5. QED
        BY <3>2, <4>2, <4>3, <4>4
    <3>3. QED
        BY <3>1, <3>2
  <2>4. s.sent \o new \in Seq(Commands) /\ f \in BOOLEAN
    <3> HIDE DEF new
    <3>1. new \in Seq(Commands)
      <4>1. CASE Reaches(s)
        BY <4>1, <2>3, <1>2
      <4>2. CASE ~Reaches(s)
        BY <4>2, <2>3
      <4>3. QED
        BY <4>1, <4>2
    <3>2. s.full \in BOOLEAN
        BY DEF Own
    <3>3. QED
        BY <3>1, <3>2, <1>2
  <2> HIDE DEF new, f
  <2>5. /\ t \in Own /\ Same(s, t) /\ t.notes = {} /\ t.live = s.live
        /\ t.excused = s.excused /\ t.sent = s.sent \o new
    BY <2>1, <2>4, ZenonT(60) DEF Own, Same, SameJob, SamePublications, SameFlags, SameMap
  <2>6. s.sent \o new = s.sent \o n \o (IF Reaches(s) THEN <<c>> ELSE <<>>)
    <3>1. CASE Reaches(s)
      <4> DEFINE tail == <<c>>
      <4>1. tail \in Seq(Commands)
        BY <1>2
      <4> HIDE DEF tail
      <4>2. s.sent \in Seq(Commands) /\ n \in Seq(Commands)
        BY <1>2, <2>3
      <4>3. (s.sent \o n) \o tail = s.sent \o (n \o tail)
        BY <4>1, <4>2, CommandAssoc
      <4>4. QED
        BY <3>1, <2>3, <4>3 DEF tail
    <3>2. CASE ~Reaches(s)
      <4>1. (s.sent \o n) \o <<>> = s.sent \o (n \o <<>>)
        BY <1>2, <2>3, CommandAssoc
      <4>2. QED
        BY <3>2, <2>3, <4>1
    <3>3. QED
        BY <3>1, <3>2
  <2>7. QED
    BY <2>3, <2>5, <2>6 DEF Sends, t
<1>5. QED
    BY <1>3, <1>4

-----------------------------------------------------------------------------
Neutral(x) == x.kind \in {"Notes", "DiscardActive", "ProvisionalPage", "AdmissionFailed"}
Quiet(q, p) ==
    /\ q \in Seq(Messages) /\ p \in Seq(Messages) /\ Len(q) <= Len(p)
    /\ \A i \in 1..Len(q) : p[i] = q[i]
    /\ \A i \in (Len(q) + 1)..Len(p) : Neutral(p[i])

\* Messages that decide nothing may be added or dropped.
LEMMA NearlyQuiet ==
    ASSUME NEW s, NEW q, NEW p, NEW st, NEW ev, NEW ex, NEW sc, NEW rep, NEW dk,
           Nearly(s, q, st, ev, ex, sc, rep, dk), Quiet(q, p)
    PROVE  Nearly(s, p, st, ev, ex, sc, rep, dk)
<1>0. \A i \in 1..Len(p) :
        \/ i \in 1..Len(q) /\ p[i] = q[i]
        \/ /\ ~IsPub(p[i]) /\ ~IsMap(p[i]) /\ ~Begins(p[i]) /\ ~Cancels(p[i])
           /\ p[i].kind \notin {"Admit", "Overlay", "Publish", "BeginGeneration"}
    BY DEF Quiet, Neutral, IsPub, IsMap, Begins, Cancels
<1>r. \A i \in 1..Len(q) : i \in 1..Len(p) /\ p[i] = q[i]
    BY DEF Quiet
<1>1. Gens(s, p, st, ev)
  <2>1. \A i \in 1..Len(p) : Dated(s, st, p[i])
    BY <1>0 DEF Nearly, Gens, Dated
  <2>2. Ascending(p)
    BY <1>0 DEF Nearly, Gens, Ascending
  <2>3. QED
    BY <2>1, <2>2 DEF Nearly, Gens
<1>2. Cancellation(s, p, ev, ex, sc)
    BY <1>0 DEF Nearly, Cancellation
<1>3. ASSUME DoomedOrder(s, q, st, dk)
      PROVE  DoomedOrder(s, p, st, dk)
  <2>1. SUFFICES ASSUME OverlayIsHead(s)
                 PROVE  /\ st.running => ~NoPub(p)
                        /\ \A i \in 1..Len(p) : DoomedItem(s, p, i, dk)
    BY DEF DoomedOrder
  <2>2. st.running => ~NoPub(p)
    BY <1>3, <2>1, <1>r DEF DoomedOrder, NoPub
  <2>3. ASSUME NEW i \in 1..Len(p)
        PROVE  DoomedItem(s, p, i, dk)
    <3>1. CASE i \in 1..Len(q) /\ p[i] = q[i]
      <4>1. First(p, i) <=> First(q, i)
        BY <3>1, <1>r DEF First, Quiet
      <4>2. QED
        BY <3>1, <4>1, <1>3, <2>1 DEF DoomedOrder, DoomedItem
    <3>2. QED
        BY <3>1, <1>0 DEF DoomedItem
  <2>4. QED
    BY <2>2, <2>3
<1>4. ASSUME Order(s, q, st, dk)
      PROVE  Order(s, p, st, dk)
  <2>1. s.publications = <<>> => NoPub(p)
    BY <1>0, <1>4 DEF Order, NoPub
  <2>2. AtMostOne(p)
    BY <1>0, <1>4 DEF Order, AtMostOne
  <2>3. PubsLast(p)
    BY <1>0, <1>4 DEF Order, PubsLast
  <2>4. Begun(s, p, st)
    BY <1>0, <1>r, <1>4 DEF Order, Begun
  <2>5. \A i \in 1..Len(p) : Carries(s, p[i], dk)
    BY <1>0, <1>4 DEF Order, Carries
  <2>6. QED
    BY <2>1, <2>2, <2>3, <2>4, <2>5 DEF Order
<1>5. \A g, e : Lists(g, p, st, ev, e) => Lists(g, q, st, ev, e)
    BY <1>0 DEF Lists, IsAdmit
<1>6. ASSUME Pipeline(s, q, st, ev, sc, dk)
      PROVE  Pipeline(s, p, st, ev, sc, dk)
  <2>1. \A x : InPipe(s, q, st, x) => InPipe(s, p, st, x)
    <3>1. StoreLost(s, q, st) => StoreLost(s, p, st)
        BY <1>0 DEF StoreLost
    <3>2. QED
        BY <1>r, <3>1 DEF InPipe
  <2>2. Working(s) => Admits(s, p)
    BY <1>0, <1>6 DEF Pipeline, Admits, IsAdmit
  <2>3. (\E i \in 1..Len(p) : p[i].kind = "Publish")
            => \E i \in 1..Len(q) : q[i].kind = "Publish"
    BY <1>0
  <2>4. QED
    BY <1>6, <2>1, <2>2, <2>3 DEF Pipeline, Delivered
<1>7. ASSUME Regular(s, q, st, ev, sc, rep, dk)
      PROVE  Regular(s, p, st, ev, sc, rep, dk)
  <2>1. HiddenFirst(s, p, st, ev, rep)
    BY <1>5, <1>7 DEF Regular, HiddenFirst
  <2>2. HiddenRebuild(s, p, st, ev, rep)
    BY <1>5, <1>7 DEF Regular, HiddenRebuild
  <2>3. RebuildShrinks(s, p, st, ev)
    BY <1>5, <1>7 DEF Regular, RebuildShrinks
  <2>4. QED
    BY <2>1, <2>2, <2>3, <1>4, <1>6, <1>7 DEF Regular
<1>8. QED
    BY <1>1, <1>2, <1>3, <1>7 DEF Nearly, Mode

\* The same of the whole invariant.
LEMMA CoreQuiet ==
    ASSUME NEW s, NEW q, NEW p, NEW st, NEW ev, NEW ex, NEW sc, NEW rep, NEW dk,
           Core(s, q, st, ev, ex, sc, rep, dk), Quiet(q, p)
    PROVE  Core(s, p, st, ev, ex, sc, rep, dk)
<1>1. HiddenOverlay(s, p, rep)
  <2>1. \A i \in 1..Len(p) :
        \/ i \in 1..Len(q) /\ p[i] = q[i]
        \/ p[i].kind # "Overlay" /\ ~IsMap(p[i])
    BY DEF Quiet, Neutral, IsMap
  <2>2. QED
    BY <2>1 DEF Core, HiddenOverlay, LeavesOut
<1>2. QED
    BY <1>1, NearlyQuiet DEF Core

-----------------------------------------------------------------------------
\* The map is lost, or nothing happened.
Fails(s, t) ==
    /\ SameJob(s, t) /\ SamePublications(s, t) /\ SameMap(s, t)
    /\ t.required = s.required /\ t.invalidated = s.invalidated
    /\ t.suppressed = s.suppressed
    /\ \/ t.available = s.available /\ t.prefixes = s.prefixes /\ t.rebuild = s.rebuild
       \/ ~t.available /\ t.prefixes = <<>> /\ ~t.rebuild

\* Sequences of one and of two elements.
LEMMA Distinct ==
    /\ \A x : <<>> # <<x>> /\ Head(<<x>>) = x /\ Len(<<x>>) = 1 /\ Tail(<<x>>) = <<>>
    /\ \A x, y : x # y => <<x>> # <<y>>
    /\ \A x, y, z : <<x, y>> # <<>> /\ <<x, y>> # <<z>> /\ Head(<<x, y>>) = x
                    /\ Len(<<x, y>>) = 2 /\ Tail(<<x, y>>) = <<y>>
    OBVIOUS

\* Nothing is in the empty sequence.
LEMMA EmptySet == ToSet(<<>>) = {}
    BY DEF ToSet

\* The store is given up, or nothing changes.
LEMMA CoreFails ==
    ASSUME NEW s, NEW t, NEW q, NEW st, NEW ev, NEW ex, NEW sc, NEW rep, NEW dk,
           Core(s, q, st, ev, ex, sc, rep, dk), Fails(s, t)
    PROVE  Core(t, q, st, ev, ex, sc, rep, dk)
<1> USE DEF Fails, SameJob, SamePublications, SameMap
<1>1. Gens(t, q, st, ev)
    BY DEF Core, Nearly, Gens, Dated, StoreGens, EventGens
<1>p. /\ OverlayIsHead(t) <=> OverlayIsHead(s)
      /\ Sound(t) <=> Sound(s)
      /\ Doomed(t) <=> Doomed(s)
      /\ Period(t) <=> Period(s)
      /\ Scanned(t) <=> Scanned(s)
      /\ Working(t) <=> Working(s)
      /\ JobGen(t) = JobGen(s)
      /\ CancelledJob(t, ev, sc) <=> CancelledJob(s, ev, sc)
    BY DEF OverlayIsHead, Sound, Doomed, Period, Scanned, Working, JobGen, CancelledJob
<1>2. Phase(t)
    BY <1>p DEF Core, Nearly, Phase
<1>3. Job(t, ev, sc)
    BY <1>p DEF Core, Nearly, Job
<1>4. Flags(t, ex, dk) /\ Cleared(t)
    BY <1>p, EmptySet DEF Core, Nearly, Flags, Cleared
<1>5. Cancelled(t, ev, ex, sc)
    BY <1>p DEF Core, Nearly, Cancelled
<1>6. GivenUp(s, ev, ex, sc) => GivenUp(t, ev, ex, sc)
    BY <1>p DEF GivenUp
<1>7. Cancellation(t, q, ev, ex, sc)
    BY <1>p, <1>6 DEF Core, Nearly, Cancellation, CancelSent
<1>8. Shown(t, rep, dk)
    BY DEF Core, Nearly, Shown
<1>9. ASSUME DoomedOrder(s, q, st, dk)
      PROVE  DoomedOrder(t, q, st, dk)
    BY <1>p, <1>9 DEF DoomedOrder, DoomedItem, Follows, Based
<1>10. ASSUME Regular(s, q, st, ev, sc, rep, dk)
       PROVE  Regular(t, q, st, ev, sc, rep, dk)
  <2>1. Order(t, q, st, dk)
    BY <1>p, <1>10 DEF Regular, Order, Carries, Begun, Follows, Based
  <2>2. Pipeline(t, q, st, ev, sc, dk)
    <3>1. \A x : InPipe(s, q, st, x) => InPipe(t, q, st, x)
        BY <1>p DEF InPipe, StoreLost
    <3>2. \A x : ToBeTold(s, ev, sc, x) => ToBeTold(t, ev, sc, x)
        BY <1>p DEF ToBeTold
    <3>3. Working(t) => Admits(t, q)
        BY <1>p, <1>10 DEF Regular, Pipeline, Admits
    <3>4. QED
        BY <1>p, <1>10, <3>1, <3>2, <3>3 DEF Regular, Pipeline, Delivered
  <2>3. HiddenFirst(t, q, st, ev, rep) /\ HiddenRebuild(t, q, st, ev, rep)
    BY <1>p, <1>10 DEF Regular, HiddenFirst, HiddenRebuild
  <2>4. Rebuilt(t, rep) /\ RebuildShrinks(t, q, st, ev)
    BY <1>p, <1>10 DEF Regular, Rebuilt, RebuildShrinks
  <2>5. QED
    BY <1>p, <1>10, <2>1, <2>2, <2>3, <2>4 DEF Regular
<1>11. HiddenOverlay(t, q, rep)
    BY <1>p DEF Core, HiddenOverlay, LeavesOut
<1>12. Mode(t, q, st, ev, ex, sc, rep, dk)
    BY <1>p, <1>6, <1>9, <1>10 DEF Core, Nearly, Mode
<1>13. QED
    BY <1>1, <1>2, <1>3, <1>4, <1>5, <1>7, <1>8, <1>11, <1>12 DEF Core, Nearly

\* The map is to be scanned again.
Invalidates(s, t) ==
    /\ SameJob(s, t) /\ SamePublications(s, t) /\ SameMap(s, t)
    /\ t.required /\ ~t.suppressed /\ t.prefixes = <<>> /\ ~t.rebuild
    /\ t.invalidated = (s.invalidated \/ s.active)
    /\ t.available => s.installed # NoMap
NoCancel(q) == \A i \in 1..Len(q) : ~Cancels(q[i])

\* The map is to be scanned again.
LEMMA CoreInvalidates ==
    ASSUME NEW s, NEW t, NEW q, NEW st, NEW ev, NEW ex, NEW sc, NEW rep, NEW dk,
           Nearly(s, q, st, ev, ex, sc, rep, dk), Invalidates(s, t),
           Regular(s, q, st, ev, sc, rep, dk) \/ ~GivenUp(s, ev, ex, sc),
           s.active \/ OverlayIsHead(s) => ex = NoEntry,
           \/ NoCancel(q)
           \/ /\ ~s.active /\ s.loaded /\ s.finished = <<>> /\ s.publications = <<>>
              /\ ex = NoEntry
    PROVE  Core(t, q, st, ev, ex, sc, rep, dk)
<1> USE DEF Invalidates, SameJob, SamePublications, SameMap
<1>1. Gens(t, q, st, ev)
    BY DEF Nearly, Gens, Dated, StoreGens, EventGens
<1>p. /\ OverlayIsHead(t) <=> OverlayIsHead(s)
      /\ Sound(t) <=> Sound(s)
      /\ Doomed(t) <=> Doomed(s)
      /\ Period(t)
      /\ Scanned(t) <=> Scanned(s)
      /\ Working(t) <=> Working(s)
      /\ JobGen(t) = JobGen(s)
      /\ CancelledJob(t, ev, sc) <=> CancelledJob(s, ev, sc)
    BY DEF OverlayIsHead, Sound, Doomed, Period, Scanned, Working, JobGen, CancelledJob
<1>n. ~s.loaded /\ s.finished = <<>> => ~t.available
    BY Distinct DEF Nearly, Phase
<1>2. Phase(t)
    BY <1>p DEF Nearly, Phase
<1>3. Job(t, ev, sc)
    BY <1>p DEF Nearly, Job
<1>4. Flags(t, ex, dk) /\ Cleared(t)
    BY <1>p, <1>n, EmptySet DEF Nearly, Flags, Cleared
<1>5. Cancelled(t, ev, ex, sc)
    BY <1>p DEF Nearly, Cancelled
<1>7. Cancellation(t, q, ev, ex, sc)
    BY <1>p DEF Nearly, Cancellation, CancelSent, NoCancel
<1>8. Shown(t, rep, dk)
    BY DEF Nearly, Shown
<1>9. ASSUME DoomedOrder(s, q, st, dk)
      PROVE  DoomedOrder(t, q, st, dk)
    BY <1>p, <1>9 DEF DoomedOrder, DoomedItem, Follows, Based
<1>10. ASSUME Regular(s, q, st, ev, sc, rep, dk)
       PROVE  Regular(t, q, st, ev, sc, rep, dk)
  <2>1. Order(t, q, st, dk)
    BY <1>p, <1>10 DEF Regular, Order, Carries, Begun, Follows, Based
  <2>2. Pipeline(t, q, st, ev, sc, dk)
    <3>1. \A x : InPipe(s, q, st, x) => InPipe(t, q, st, x)
        BY <1>p DEF InPipe, StoreLost
    <3>3. Working(t) => Admits(t, q)
        BY <1>p, <1>10 DEF Regular, Pipeline, Admits
    <3>4. Working(t) /\ Scanned(t) /\ t.available => t.loaded /\ t.invalidated
        BY <1>p, <1>n DEF Working, Sound, Scanned
    <3>5. QED
        BY <1>p, <1>10, <3>1, <3>3, <3>4 DEF Regular, Pipeline, Delivered
  <2>3. HiddenFirst(t, q, st, ev, rep) /\ HiddenRebuild(t, q, st, ev, rep)
    BY <1>p, <1>n, <1>10 DEF Regular, HiddenFirst, HiddenRebuild, Sound
  <2>4. Rebuilt(t, rep) /\ RebuildShrinks(t, q, st, ev)
    BY <1>p, <1>10 DEF Regular, Rebuilt, RebuildShrinks, Sound
  <2>5. QED
    BY <1>p, <1>10, <2>1, <2>2, <2>3, <2>4 DEF Regular
<1>11. HiddenOverlay(t, q, rep)
    BY <1>p DEF HiddenOverlay
<1>12. Mode(t, q, st, ev, ex, sc, rep, dk)
    BY <1>p, <1>9, <1>10 DEF Nearly, Mode
<1>13. QED
    BY <1>1, <1>2, <1>3, <1>4, <1>5, <1>7, <1>8, <1>11, <1>12 DEF Core, Nearly

-----------------------------------------------------------------------------
\* What is in flight with what s has sent; a thread that is lost takes nothing.
Fly(r, s) == IF store.running THEN r \o s.sent ELSE r

\* q has grown to p by notes, and by c if it was reached.
Grows(q, p, c, reached) ==
    /\ q \in Seq(Messages) /\ p \in Seq(Messages) /\ Len(q) <= Len(p)
    /\ \A i \in 1..Len(q) : p[i] = q[i]
    /\ IF reached
       THEN /\ Len(q) < Len(p) /\ p[Len(p)] = c
            /\ \A i \in (Len(q) + 1)..(Len(p) - 1) : p[i].kind = "Notes"
       ELSE \A i \in (Len(q) + 1)..Len(p) : p[i].kind = "Notes"

\* The elements of a concatenation.
LEMMA Cat ==
    \A x, y \in Seq(Messages) :
        /\ x \o y \in Seq(Messages) /\ Len(x \o y) = Len(x) + Len(y)
        /\ \A i \in 1..Len(x) : (x \o y)[i] = x[i]
        /\ \A i \in (Len(x) + 1)..(Len(x) + Len(y)) : (x \o y)[i] = y[i - Len(x)]
    OBVIOUS

\* What a send puts in flight while the store thread runs.
LEMMA SendGrowsRunning ==
    ASSUME NEW s \in Own, NEW c \in Commands, NEW r \in Seq(Messages), Typed, store.running
    PROVE  Grows(Fly(r, s), Fly(r, Send(s, c)), c, Reaches(s))
<1> DEFINE t == Send(s, c)
<1>1. t \in Own /\ Sends(s, t, c, Reaches(s))
    BY SendEffect
<1> HIDE DEF t
<1>2. s.sent \in Seq(Messages) /\ t.sent \in Seq(Messages) /\ c \in Messages
  <2>1. s.sent \in Seq(Commands) /\ t.sent \in Seq(Commands)
    BY <1>1 DEF Own
  <2>2. QED
    BY <2>1, Subsequences DEF Messages
<1>3. PICK n \in Seq(Messages) :
        /\ \A i \in 1..Len(n) : n[i].kind = "Notes"
        /\ t.sent = s.sent \o n \o (IF Reaches(s) THEN <<c>> ELSE <<>>)
    BY <1>1, Subsequences DEF Sends
<1> DEFINE e == IF Reaches(s) THEN <<c>> ELSE <<>>
           m == n \o e
           ss == s.sent
           ts == t.sent
           q == r \o ss
           p == r \o ts
<1>e. e \in Seq(Messages)
    BY <1>2
<1>s. ss \in Seq(Messages) /\ ts = ss \o n \o e
    BY <1>2, <1>3
<1> HIDE DEF e, ss, ts
<1>4. q \in Seq(Messages) /\ m \in Seq(Messages)
    BY <1>e, <1>s, Cat
<1>5. p = q \o m
  <2>1. ts = ss \o m
    BY <1>s, <1>e, Assoc
  <2> HIDE DEF m
  <2>2. (r \o ss) \o m = r \o (ss \o m)
    BY <1>s, <1>4, Assoc, ZenonT(60)
  <2>3. QED
    BY <2>1, <2>2
<1>m. IF Reaches(s)
      THEN /\ Len(m) = Len(n) + 1 /\ m[Len(m)] = c
           /\ \A i \in 1..(Len(m) - 1) : m[i].kind = "Notes"
      ELSE \A i \in 1..Len(m) : m[i].kind = "Notes"
  <2>1. CASE Reaches(s)
    <3>1. e = <<c>>
        BY <2>1 DEF e
    <3>2. Len(m) = Len(n) + 1 /\ m[Len(m)] = c /\ \A i \in 1..Len(n) : m[i] = n[i]
        BY <3>1, <1>2
    <3>3. QED
        BY <2>1, <3>2, <1>3
  <2>2. CASE ~Reaches(s)
    <3>1. m = n
        BY <2>2 DEF e
    <3>2. QED
        BY <2>2, <3>1, <1>3
  <2>3. QED
    BY <2>1, <2>2
<1> HIDE DEF m, q, p
<1>6. /\ p \in Seq(Messages) /\ Len(p) = Len(q) + Len(m)
      /\ \A i \in 1..Len(q) : p[i] = q[i]
      /\ \A i \in (Len(q) + 1)..Len(p) : p[i] = m[i - Len(q)]
    BY <1>4, <1>5, Cat
<1>7. Len(q) \in Nat /\ Len(m) \in Nat
    BY <1>4
<1>8. CASE Reaches(s)
  <2>1. Len(n) \in Nat
    OBVIOUS
  <2>2. Len(q) < Len(p) /\ Len(p) - Len(q) = Len(m) /\ Len(p) \in (Len(q) + 1)..Len(p)
    BY <1>6, <1>7, <1>8, <1>m, <2>1
  <2>3. p[Len(p)] = c
    BY <1>6, <1>m, <1>8, <2>2
  <2>4. \A i \in (Len(q) + 1)..(Len(p) - 1) :
            i - Len(q) \in 1..(Len(m) - 1) /\ i \in (Len(q) + 1)..Len(p)
    BY <1>6, <1>7
  <2>5. \A i \in (Len(q) + 1)..(Len(p) - 1) : p[i].kind = "Notes"
    BY <1>6, <1>m, <1>8, <2>4
  <2>6. Grows(q, p, c, Reaches(s))
    BY <1>8, <1>4, <1>6, <1>7, <2>2, <2>3, <2>5 DEF Grows
  <2>7. QED
    BY <2>6 DEF p, q, Fly, t, ss, ts
<1>9. CASE ~Reaches(s)
  <2>1. \A i \in (Len(q) + 1)..Len(p) : i - Len(q) \in 1..Len(m)
    BY <1>6, <1>7
  <2>2. \A i \in (Len(q) + 1)..Len(p) : p[i].kind = "Notes"
    BY <1>6, <1>m, <1>9, <2>1
  <2>3. Grows(q, p, c, Reaches(s))
    BY <1>9, <1>4, <1>6, <1>7, <2>2 DEF Grows
  <2>4. QED
    BY <2>3 DEF p, q, Fly, t, ss, ts
<1>10. QED
    BY <1>8, <1>9

\* What a send puts in flight: notes first, then the command if it fits.
LEMMA SendGrows ==
    ASSUME NEW s \in Own, NEW c \in Commands, NEW r \in Seq(Messages), Typed
    PROVE  Grows(Fly(r, s), Fly(r, Send(s, c)), c, Reaches(s))
<1>1. CASE store.running
    BY <1>1, SendGrowsRunning
<1>2. CASE ~store.running
  <2>1. Fly(r, s) = r /\ Fly(r, Send(s, c)) = r
    BY <1>2 DEF Fly
  <2>2. ~Reaches(s)
    BY <1>2 DEF Reaches
  <2>3. Len(r) <= Len(r) /\ \A i \in (Len(r) + 1)..Len(r) : r[i].kind = "Notes"
    OBVIOUS
  <2>4. QED
    BY <2>1, <2>2, <2>3 DEF Grows
<1>3. QED
    BY <1>1, <1>2

\* A command that decides nothing leaves the flight as it was.
LEMMA GrowsQuiet ==
    ASSUME NEW q, NEW p, NEW c, NEW reached, Grows(q, p, c, reached),
           ~reached \/ Neutral(c)
    PROVE  Quiet(q, p)
    BY DEF Grows, Quiet, Neutral

\* Two such changes are one.
LEMMA QuietChain ==
    ASSUME NEW q, NEW p, NEW o, Quiet(q, p), Quiet(p, o)
    PROVE  Quiet(q, o)
    BY DEF Quiet

\* Nothing sent, nothing in flight.
LEMMA QuietSame ==
    ASSUME NEW s \in Own, NEW t \in Own, NEW r \in Seq(Messages), t.sent = s.sent
    PROVE  Quiet(Fly(r, s), Fly(r, t))
<1>1. s.sent \in Seq(Messages)
    BY Subsequences DEF Own
<1>2. QED
    BY <1>1 DEF Quiet, Fly

\* The commands without a payload.
LEMMA PlainTyped ==
    \A k \in {"DiscardActive", "CancelActive", "ProvisionalPage", "Publish"} :
        Command(k) \in Commands /\ Command(k).kind = k
    BY DEF Commands, PlainCommands, Command

\* RemovalsBeforeFirstMap::clear.
LEMMA ClearRemovalsEffect ==
    ASSUME NEW s \in Own
    PROVE  LET t == ClearRemovals(s)
           IN  /\ t \in Own /\ SameJob(s, t) /\ SamePublications(s, t) /\ SameMap(s, t)
               /\ t.required = s.required /\ t.invalidated = s.invalidated
               /\ t.suppressed = s.suppressed /\ t.available = s.available
               /\ t.prefixes = <<>> /\ ~t.rebuild /\ t.live = s.live /\ t.sent = s.sent
<1> DEFINE t == ClearRemovals(s)
<1>1. <<>> \in Seq(Entries) /\ 0 \in Nat
    OBVIOUS
<1>2. t = [s EXCEPT !.prefixes = <<>>, !.rebuild = FALSE, !.excused = FALSE, !.beforeMap = 0]
    BY DEF ClearRemovals
<1> HIDE DEF t
<1>3. t \in Own
    BY <1>1, <1>2, ZenonT(60) DEF Own
<1>4. /\ t.prefixes = <<>> /\ ~t.rebuild
    BY <1>2 DEF Own
<1>5. SameJob(s, t) /\ SamePublications(s, t) /\ SameMap(s, t)
    BY <1>2 DEF Own, SameJob, SamePublications, SameMap
<1>6. /\ t.required = s.required /\ t.invalidated = s.invalidated
      /\ t.suppressed = s.suppressed /\ t.available = s.available
      /\ t.live = s.live /\ t.sent = s.sent
    BY <1>2 DEF Own
<1>7. QED
    BY <1>3, <1>4, <1>5, <1>6 DEF t

\* abandon_scan_store_generation.
LEMMA AbandonEffect ==
    ASSUME NEW s \in Own, NEW r \in Seq(Messages), Typed
    PROVE  LET t == Abandon(s)
           IN  /\ t \in Own /\ Fails(s, t) /\ Quiet(Fly(r, s), Fly(r, t))
               /\ ~t.available /\ t.live = s.live
<1> DEFINE c == Command("DiscardActive")
           u == [s EXCEPT !.accepting = NoGeneration]
           v == Send(u, c)
           t == Abandon(s)
<1>1. u \in Own /\ Same(s, u) /\ u.sent = s.sent /\ u.live = s.live
    BY DEF Own, Same, SameJob, SamePublications, SameFlags, SameMap, Generation
<1>2. c \in Commands /\ Neutral(c)
    BY PlainTyped DEF Neutral
<1> HIDE DEF u, c
<1>3. v \in Own /\ Same(u, v) /\ v.live = u.live /\ Quiet(Fly(r, u), Fly(r, v))
  <2>1. v \in Own /\ Same(u, v) /\ v.live = u.live
    BY <1>1, <1>2, SendEffect
  <2>2. Grows(Fly(r, u), Fly(r, v), c, Reaches(u))
    BY <1>1, <1>2, SendGrows
  <2>3. QED
    BY <2>1, <2>2, <1>2, GrowsQuiet
<1> DEFINE w == [v EXCEPT !.available = FALSE]
<1>4. t = ClearRemovals(w)
    BY DEF Abandon, HandleDiscard, v, u, c
<1> HIDE DEF v, t
<1>w. /\ w \in Own /\ SameJob(v, w) /\ SamePublications(v, w) /\ SameMap(v, w)
      /\ w.required = v.required /\ w.invalidated = v.invalidated
      /\ w.suppressed = v.suppressed /\ ~w.available /\ w.live = v.live
      /\ w.sent = v.sent
    BY <1>3, ZenonT(60) DEF Own, SameJob, SamePublications, SameMap
<1> HIDE DEF w
<1>5. /\ t \in Own /\ SameJob(v, t) /\ SamePublications(v, t) /\ SameMap(v, t)
      /\ t.required = v.required /\ t.invalidated = v.invalidated
      /\ t.suppressed = v.suppressed
      /\ ~t.available /\ t.prefixes = <<>> /\ ~t.rebuild /\ t.live = v.live
      /\ t.sent = v.sent
  <2>1. /\ t \in Own /\ SameJob(w, t) /\ SamePublications(w, t) /\ SameMap(w, t)
        /\ t.required = w.required /\ t.invalidated = w.invalidated
        /\ t.suppressed = w.suppressed /\ t.available = w.available
        /\ t.prefixes = <<>> /\ ~t.rebuild /\ t.live = w.live /\ t.sent = w.sent
    BY <1>w, <1>4, ClearRemovalsEffect
  <2>2. QED
    BY <1>w, <2>1 DEF SameJob, SamePublications, SameMap
<1>6. Fails(s, t)
    BY <1>1, <1>3, <1>5 DEF Fails, Same, SameJob, SamePublications, SameFlags, SameMap
<1>7. Fly(r, u) = Fly(r, s) /\ Fly(r, t) = Fly(r, v)
    BY <1>1, <1>5 DEF Fly
<1>8. QED
    BY <1>1, <1>3, <1>5, <1>6, <1>7 DEF t

\* fail_scan_store.
LEMMA FailStoreEffect ==
    ASSUME NEW s \in Own, NEW r \in Seq(Messages), Typed
    PROVE  LET t == FailStore(s)
           IN  /\ t \in Own /\ Fails(s, t) /\ Quiet(Fly(r, s), Fly(r, t))
               /\ ~t.available /\ t.live = s.live
<1>1. CASE s.available
    BY <1>1, AbandonEffect DEF FailStore
<1>2. CASE ~s.available
  <2>1. Quiet(Fly(r, s), Fly(r, s))
    BY QuietSame
  <2>2. QED
    BY <1>2, <2>1 DEF FailStore, Fails, SameJob, SamePublications, SameMap
<1>3. QED
    BY <1>1, <1>2 DEF Own

-----------------------------------------------------------------------------
\* q without its k-th message.
Dropped(q, p, k) ==
    /\ q \in Seq(Messages) /\ p \in Seq(Messages) /\ k \in 1..Len(q) /\ Len(q) = Len(p) + 1
    /\ \A i \in 1..Len(p) : p[i] = IF i < k THEN q[i] ELSE q[i + 1]

\* A message that was taken is out of flight.
LEMMA CoreDrops ==
    ASSUME NEW s, NEW q, NEW p, NEW k, NEW st, NEW ev, NEW ex, NEW sc, NEW rep, NEW dk,
           Core(s, q, st, ev, ex, sc, rep, dk), Dropped(q, p, k),
           Neutral(q[k]) \/ q[k].kind = "Failure"
    PROVE  Core(s, p, st, ev, ex, sc, rep, dk)
<1>l. Len(p) \in Nat /\ Len(q) = Len(p) + 1 /\ k \in 1..Len(q)
    BY DEF Dropped
<1>0. \A i \in 1..Len(p) :
        \/ i < k /\ i \in 1..Len(q) /\ p[i] = q[i]
        \/ i >= k /\ i + 1 \in 1..Len(q) /\ p[i] = q[i + 1]
    BY <1>l DEF Dropped
<1>n. /\ ~IsPub(q[k]) /\ ~IsMap(q[k]) /\ ~Begins(q[k])
      /\ q[k].kind \notin {"Admit", "Overlay", "Publish", "BeginGeneration"}
    BY DEF Neutral, IsPub, IsMap, Begins
<1>r. \A i \in 1..Len(q) : i # k =>
        \/ i < k /\ i \in 1..Len(p) /\ p[i] = q[i]
        \/ i > k /\ i - 1 \in 1..Len(p) /\ p[i - 1] = q[i]
  <2>1. \A i \in 1..Len(p) : (i < k => p[i] = q[i]) /\ (i >= k => p[i] = q[i + 1])
    BY <1>l DEF Dropped
  <2>2. SUFFICES ASSUME NEW i \in 1..Len(q), i # k
                 PROVE  \/ i < k /\ i \in 1..Len(p) /\ p[i] = q[i]
                        \/ i > k /\ i - 1 \in 1..Len(p) /\ p[i - 1] = q[i]
    OBVIOUS
  <2>3. CASE i < k
    BY <2>1, <2>3, <1>l
  <2>4. CASE i > k
    <3>1. i - 1 \in 1..Len(p) /\ i - 1 >= k /\ (i - 1) + 1 = i
        BY <2>4, <1>l
    <3>2. QED
        BY <2>4, <2>1, <3>1
  <2>5. QED
    BY <2>2, <2>3, <2>4, <1>l
<1>m. \A i \in 1..Len(p) : \E j \in 1..Len(q) : p[i] = q[j]
    BY <1>0
<1>v. \A i \in 1..Len(q) : i = k \/ \E j \in 1..Len(p) : q[i] = p[j]
    BY <1>r
<1>t. \A i, j \in 1..Len(p) : i < j =>
        \E a, b \in 1..Len(q) : a < b /\ p[i] = q[a] /\ p[j] = q[b]
  <2>1. TAKE i, j \in 1..Len(p)
  <2>2. CASE j < k
    BY <2>2, <1>0, <1>l
  <2>3. CASE i < k /\ j >= k
    BY <2>3, <1>0, <1>l
  <2>4. CASE i >= k /\ j >= k
    BY <2>4, <1>0, <1>l, SMTT(40)
  <2>5. QED
    BY <2>2, <2>3, <2>4, <1>l
<1>d. \A i, j \in 1..Len(p) : i # j =>
        \E a, b \in 1..Len(q) : a # b /\ p[i] = q[a] /\ p[j] = q[b]
    BY <1>0, <1>l, SMTT(40)
<1>1. Gens(s, p, st, ev)
  <2>1. \A i \in 1..Len(p) : Dated(s, st, p[i])
    BY <1>m DEF Core, Nearly, Gens
  <2>2. Ascending(p)
    BY <1>t DEF Core, Nearly, Gens, Ascending
  <2>3. QED
    BY <2>1, <2>2 DEF Core, Nearly, Gens
<1>2. Cancellation(s, p, ev, ex, sc)
    BY <1>m DEF Core, Nearly, Cancellation
<1>3. ASSUME DoomedOrder(s, q, st, dk)
      PROVE  DoomedOrder(s, p, st, dk)
  <2>1. SUFFICES ASSUME OverlayIsHead(s)
                 PROVE  /\ st.running => ~NoPub(p)
                        /\ \A i \in 1..Len(p) : DoomedItem(s, p, i, dk)
    BY DEF DoomedOrder
  <2>2. st.running => ~NoPub(p)
    BY <1>3, <2>1, <1>v, <1>n DEF DoomedOrder, NoPub
  <2>3. ASSUME NEW i \in 1..Len(p)
        PROVE  DoomedItem(s, p, i, dk)
    <3> DEFINE j == IF i < k THEN i ELSE i + 1
    <3>1. j \in 1..Len(q) /\ p[i] = q[j]
        BY <1>0, <1>l
    <3>2. First(p, i) <=> First(q, j)
      <4>1. CASE i < k
        <5>1. \A a \in 1..(i - 1) : p[a] = q[a]
            BY <4>1, <1>l DEF Dropped
        <5>2. QED
            BY <4>1, <5>1 DEF First
      <4>2. CASE i >= k
        <5>1. j - 1 = i
            BY <4>2, <1>l
        <5>2. ASSUME First(p, i) PROVE First(q, j)
          <6>1. ASSUME NEW a \in 1..(j - 1) PROVE ~IsPub(q[a])
            <7>1. CASE a = k
                BY <7>1, <1>n
            <7>2. CASE a < k
              <8>1. a \in 1..(i - 1) /\ p[a] = q[a]
                BY <7>2, <4>2, <5>1, <1>l DEF Dropped
              <8>2. QED
                BY <8>1, <5>2 DEF First
            <7>3. CASE a > k
              <8>1. a - 1 \in 1..(i - 1) /\ p[a - 1] = q[a]
                BY <7>3, <4>2, <5>1, <1>l DEF Dropped
              <8>2. QED
                BY <8>1, <5>2 DEF First
            <7>4. QED
                BY <7>1, <7>2, <7>3, <1>l
          <6>2. QED
            BY <6>1 DEF First
        <5>3. ASSUME First(q, j) PROVE First(p, i)
          <6>1. ASSUME NEW a \in 1..(i - 1) PROVE ~IsPub(p[a])
            <7>1. CASE a < k
              <8>1. a \in 1..(j - 1) /\ p[a] = q[a]
                BY <7>1, <5>1, <1>l DEF Dropped
              <8>2. QED
                BY <8>1, <5>3 DEF First
            <7>2. CASE a >= k
              <8>1. a + 1 \in 1..(j - 1) /\ p[a] = q[a + 1]
                BY <7>2, <5>1, <1>l DEF Dropped
              <8>2. QED
                BY <8>1, <5>3 DEF First
            <7>3. QED
                BY <7>1, <7>2, <1>l
          <6>2. QED
            BY <6>1 DEF First
        <5>4. QED
            BY <5>2, <5>3
      <4>3. QED
        BY <4>1, <4>2, <1>l
    <3>3. DoomedItem(s, q, j, dk)
        BY <3>1, <1>3, <2>1 DEF DoomedOrder
    <3> HIDE DEF j
    <3>4. QED
        BY <3>1, <3>2, <3>3 DEF DoomedItem
  <2>4. QED
    BY <2>2, <2>3
<1>4. ASSUME Order(s, q, st, dk)
      PROVE  Order(s, p, st, dk)
  <2>1. s.publications = <<>> => NoPub(p)
    BY <1>m, <1>4 DEF Order, NoPub
  <2>2. AtMostOne(p)
    BY <1>d, <1>4 DEF Order, AtMostOne
  <2>3. PubsLast(p)
    BY <1>t, <1>4 DEF Order, PubsLast
  <2>4. Begun(s, p, st)
    BY <1>m, <1>v, <1>n, <1>4 DEF Order, Begun
  <2>5. \A i \in 1..Len(p) : Carries(s, p[i], dk)
    BY <1>m, <1>4 DEF Order
  <2>6. QED
    BY <2>1, <2>2, <2>3, <2>4, <2>5 DEF Order
<1>5. \A g, e : Lists(g, p, st, ev, e) => Lists(g, q, st, ev, e)
    BY <1>m DEF Lists
<1>6. ASSUME Pipeline(s, q, st, ev, sc, dk)
      PROVE  Pipeline(s, p, st, ev, sc, dk)
  <2>1. \A x : InPipe(s, q, st, x) => InPipe(s, p, st, x)
    <3>1. StoreLost(s, q, st) => StoreLost(s, p, st)
        BY <1>m DEF StoreLost
    <3>2. QED
        BY <1>v, <1>n, <3>1 DEF InPipe, IsAdmit
  <2>2. Working(s) => Admits(s, p)
    BY <1>t, <1>6 DEF Pipeline, Admits
  <2>3. (\E i \in 1..Len(p) : p[i].kind = "Publish")
            => \E i \in 1..Len(q) : q[i].kind = "Publish"
    BY <1>m
  <2>4. QED
    BY <1>6, <2>1, <2>2, <2>3 DEF Pipeline, Delivered
<1>7. ASSUME Regular(s, q, st, ev, sc, rep, dk)
      PROVE  Regular(s, p, st, ev, sc, rep, dk)
  <2>1. HiddenFirst(s, p, st, ev, rep) /\ HiddenRebuild(s, p, st, ev, rep)
    BY <1>5, <1>7 DEF Regular, HiddenFirst, HiddenRebuild
  <2>3. RebuildShrinks(s, p, st, ev)
    BY <1>5, <1>7 DEF Regular, RebuildShrinks
  <2>4. QED
    BY <2>1, <2>3, <1>4, <1>6, <1>7 DEF Regular
<1>8. HiddenOverlay(s, p, rep)
    BY <1>m DEF Core, HiddenOverlay
<1>9. QED
    BY <1>1, <1>2, <1>3, <1>7, <1>8 DEF Core, Nearly, Mode

-----------------------------------------------------------------------------
\* The thread takes q[k], which is no publication, and nothing comes of it but an
\* answer about itself.
Thins(q, p, k) ==
    /\ q \in Seq(Messages) /\ p \in Seq(Messages) /\ Len(q) = Len(p) /\ k \in 1..Len(q)
    /\ \A i \in 1..Len(q) : i # k => p[i] = q[i]
    /\ ~IsPub(q[k])
    /\ Neutral(p[k]) \/ (p[k].kind = "Failure" /\ Cancels(q[k]))

\* The store loses its generation, or some of what it lists.
LEMMA CoreThins ==
    ASSUME NEW s, NEW q, NEW p, NEW k, NEW st, NEW su, NEW ev, NEW ex, NEW sc, NEW rep,
           NEW dk, Core(s, q, st, ev, ex, sc, rep, dk), Thins(q, p, k),
           su.running => st.running,
           StoreGens(s, su), \A i \in 1..Len(p) : Dated(s, su, p[i]),
           Order(s, q, st, dk) => Begun(s, p, su),
           \A g, e : Lists(g, p, su, ev, e) => Lists(g, q, st, ev, e),
           Working(s) /\ Admits(s, q) => \A x : InPipe(s, q, st, x) => InPipe(s, p, su, x)
    PROVE  Core(s, p, su, ev, ex, sc, rep, dk)
<1>0. \A i \in 1..Len(p) :
        \/ i \in 1..Len(q) /\ p[i] = q[i]
        \/ /\ ~IsPub(p[i]) /\ ~IsMap(p[i]) /\ ~Begins(p[i]) /\ (Cancels(p[i]) => Cancels(q[i]))
           /\ p[i].kind \notin {"Admit", "Overlay", "Publish", "BeginGeneration"}
    BY DEF Thins, Neutral, IsPub, IsMap, Begins, Cancels
<1>r. \A i \in 1..Len(q) : i \in 1..Len(p) /\ (IsPub(p[i]) <=> IsPub(q[i]))
    BY <1>0 DEF Thins
<1>l. Len(p) = Len(q) /\ Len(q) \in Nat
    BY DEF Thins
<1>1. Gens(s, p, su, ev)
  <2>2. Ascending(p)
    BY <1>0, <1>l DEF Core, Nearly, Gens, Ascending
  <2>3. QED
    BY <2>2 DEF Core, Nearly, Gens
<1>2. Cancellation(s, p, ev, ex, sc)
    BY <1>0, <1>l DEF Core, Nearly, Cancellation
<1>3. ASSUME DoomedOrder(s, q, st, dk)
      PROVE  DoomedOrder(s, p, su, dk)
  <2>1. SUFFICES ASSUME OverlayIsHead(s)
                 PROVE  /\ su.running => ~NoPub(p)
                        /\ \A i \in 1..Len(p) : DoomedItem(s, p, i, dk)
    BY DEF DoomedOrder
  <2>2. su.running => ~NoPub(p)
    BY <1>3, <2>1, <1>r DEF DoomedOrder, NoPub
  <2>3. ASSUME NEW i \in 1..Len(p)
        PROVE  DoomedItem(s, p, i, dk)
    <3>1. First(p, i) <=> First(q, i)
        BY <1>r, <1>l DEF First
    <3>2. QED
        BY <3>1, <1>0, <1>l, <1>3, <2>1 DEF DoomedOrder, DoomedItem
  <2>4. QED
    BY <2>2, <2>3
<1>4. ASSUME Order(s, q, st, dk)
      PROVE  Order(s, p, su, dk)
  <2>1. s.publications = <<>> => NoPub(p)
    BY <1>r, <1>l, <1>4 DEF Order, NoPub
  <2>2. AtMostOne(p)
    BY <1>r, <1>l, <1>4 DEF Order, AtMostOne
  <2>3. PubsLast(p)
    BY <1>0, <1>l, <1>r, <1>4 DEF Order, PubsLast
  <2>5. \A i \in 1..Len(p) : Carries(s, p[i], dk)
    BY <1>0, <1>4 DEF Order, Carries
  <2>6. QED
    BY <2>1, <2>2, <2>3, <2>5, <1>4 DEF Order
<1>6. ASSUME Pipeline(s, q, st, ev, sc, dk)
      PROVE  Pipeline(s, p, su, ev, sc, dk)
  <2>2. Working(s) => Admits(s, p)
    BY <1>0, <1>r, <1>l, <1>6 DEF Pipeline, Admits, IsAdmit
  <2>3. (\E i \in 1..Len(p) : p[i].kind = "Publish")
            => \E i \in 1..Len(q) : q[i].kind = "Publish"
    BY <1>0, <1>l
  <2>4. QED
    BY <1>6, <2>2, <2>3 DEF Pipeline, Delivered
<1>7. ASSUME Regular(s, q, st, ev, sc, rep, dk)
      PROVE  Regular(s, p, su, ev, sc, rep, dk)
  <2>1. HiddenFirst(s, p, su, ev, rep) /\ HiddenRebuild(s, p, su, ev, rep)
    BY <1>7 DEF Regular, HiddenFirst, HiddenRebuild
  <2>3. RebuildShrinks(s, p, su, ev)
    BY <1>7 DEF Regular, RebuildShrinks
  <2>4. QED
    BY <2>1, <2>3, <1>4, <1>6, <1>7 DEF Regular
<1>8. HiddenOverlay(s, p, rep)
    BY <1>0 DEF Core, HiddenOverlay, LeavesOut
<1>9. QED
    BY <1>1, <1>2, <1>3, <1>7, <1>8 DEF Core, Nearly, Mode

-----------------------------------------------------------------------------
\* The thread answers the publication q[k].
Answered(q, p, k) ==
    /\ q \in Seq(Messages) /\ p \in Seq(Messages) /\ Len(q) = Len(p) /\ k \in 1..Len(q)
    /\ \A i \in 1..Len(q) : i # k => p[i] = q[i]
    /\ q[k].kind \in {"Publish", "Overlay"} /\ p[k].kind = "Publication"
AnswersFirst(q, k) ==
    \A i \in 1..(k - 1) : q[i].kind \in AnswerKinds

\* What a publication may hand over.
Handed(s, q, p, k, st, dk) ==
    IsMap(p[k]) =>
      IF q[k].kind = "Publish"
      THEN /\ st.active.open /\ ~st.admissionFailed
           /\ p[k].map.gen = st.active.gen /\ p[k].map.scan = st.active.scan
           /\ p[k].map.listed = st.active.listed
      ELSE /\ p[k].map.gen = q[k].gen /\ p[k].map.scan = q[k].base.scan
           /\ p[k].map.listed = q[k].base.listed \ {q[k].prefix}

\* A publication is answered in its place.
LEMMA CoreAnswers ==
    ASSUME NEW s, NEW q, NEW p, NEW k, NEW st, NEW su, NEW ev, NEW ex, NEW sc, NEW rep,
           NEW dk, Core(s, q, st, ev, ex, sc, rep, dk), Answered(q, p, k),
           AnswersFirst(q, k), st.running, su.running, Handed(s, q, p, k, st, dk),
           s \in Own, st \in Store,
           StoreGens(s, su), \A i \in 1..Len(p) : Dated(s, su, p[i]),
           su.active.open =>
                /\ st.active.open /\ su.active.gen = st.active.gen
                /\ su.active.listed = st.active.listed
    PROVE  Core(s, p, su, ev, ex, sc, rep, dk)
<1>l. Len(p) = Len(q) /\ Len(q) \in Nat /\ k \in 1..Len(q)
    BY DEF Answered
<1>0. /\ \A i \in 1..Len(q) : i # k => p[i] = q[i]
      /\ IsPub(q[k]) /\ IsPub(p[k]) /\ ~Begins(p[k]) /\ ~Cancels(p[k])
      /\ p[k].kind = "Publication" /\ ~IsMap(q[k]) /\ ~Cancels(q[k])
      /\ q[k].kind # "Admit" /\ q[k].kind # "BeginGeneration"
    BY DEF Answered, IsPub, IsMap, Begins, Cancels
<1>r. \A i \in 1..Len(q) : IsPub(p[i]) <=> IsPub(q[i])
    BY <1>0
<1>1. Gens(s, p, su, ev)
  <2>2. Ascending(p)
    BY <1>0, <1>l DEF Core, Nearly, Gens, Ascending
  <2>3. QED
    BY <2>2 DEF Core, Nearly, Gens
<1>2. Cancellation(s, p, ev, ex, sc)
    BY <1>0, <1>l DEF Core, Nearly, Cancellation
<1>f. ASSUME Based(s, q[k], dk), q[k].kind = "Overlay", IsMap(p[k])
      PROVE  Follows(s, p[k].map, dk)
  <2>1. q[k].gen > st.newest
    BY <1>f, <1>l DEF Core, Nearly, Gens, Dated, Begins
  <2>2. s.installed.gen <= st.newest /\ s.installed # NoMap /\ dk \subseteq s.installed.listed
    BY <1>f DEF Core, Nearly, Gens, StoreGens, Based, Shown
  <2>3. p[k].map.gen = q[k].gen /\ p[k].map.scan = s.installed.scan
        /\ p[k].map.listed = s.installed.listed \ {q[k].prefix} /\ q[k].prefix \notin dk
    BY <1>f DEF Handed, Based
  <2>4. s.installed.gen \in Int /\ s.installed.scan \in Int /\ st.newest \in Int
    BY DEF Own, Map, Generation, Store, NoGeneration
  <2>5. q[k].gen \in Nat
    <3>1. q[k] \in Messages
        BY <1>l DEF Answered
    <3>2. QED
        BY <3>1, <1>f DEF Messages, Commands, PlainCommands, Command, AnswerSet, AnswerKinds
  <2>6. QED
    BY <2>1, <2>2, <2>3, <2>4, <2>5 DEF Follows
<1>3. ASSUME DoomedOrder(s, q, st, dk)
      PROVE  DoomedOrder(s, p, su, dk)
  <2>1. SUFFICES ASSUME OverlayIsHead(s)
                 PROVE  /\ su.running => ~NoPub(p)
                        /\ \A i \in 1..Len(p) : DoomedItem(s, p, i, dk)
    BY DEF DoomedOrder
  <2>2. su.running => ~NoPub(p)
    BY <1>3, <2>1, <1>r, <1>l DEF DoomedOrder, NoPub
  <2>3. ASSUME NEW i \in 1..Len(p)
        PROVE  DoomedItem(s, p, i, dk)
    <3>1. First(p, i) <=> First(q, i)
        BY <1>r, <1>l DEF First
    <3>2. DoomedItem(s, q, i, dk)
        BY <1>l, <1>3, <2>1 DEF DoomedOrder
    <3>3. CASE i # k
        BY <3>1, <3>2, <3>3, <1>0, <1>l DEF DoomedItem
    <3>4. CASE i = k
      <4>1. p[i].kind = "Publication"
        BY <3>4, <1>0
      <4>2. CASE q[k].kind = "Overlay"
        BY <3>1, <3>2, <3>4, <4>1, <4>2, <1>f DEF DoomedItem
      <4>3. CASE q[k].kind = "Publish"
        BY <3>1, <3>2, <3>4, <4>1, <4>3 DEF DoomedItem
      <4>4. QED
        BY <4>2, <4>3 DEF Answered
    <3>5. QED
        BY <3>3, <3>4
  <2>4. QED
    BY <2>2, <2>3
<1>7. ASSUME Regular(s, q, st, ev, sc, rep, dk)
      PROVE  Regular(s, p, su, ev, sc, rep, dk) /\ HiddenOverlay(s, p, rep)
  <2> USE DEF Regular
  <2>o. Order(s, q, st, dk)
    BY <1>7
  <2>b. \A i \in 1..Len(q) : ~Begins(q[i]) \/ i = k
    <3>1. SUFFICES ASSUME NEW i \in 1..Len(q), i # k PROVE ~Begins(q[i])
        OBVIOUS
    <3>2. CASE i < k
      <4>1. i \in 1..(k - 1)
        BY <3>2, <1>l
      <4>2. QED
        BY <4>1 DEF AnswersFirst, AnswerKinds, Begins
    <3>3. CASE i > k
        BY <3>3, <2>o, <1>0, <1>l DEF Order, PubsLast
    <3>4. QED
        BY <3>1, <3>2, <3>3, <1>l
  <2>p. s.publications # <<>>
    BY <2>o, <1>0, <1>l DEF Order, NoPub
  <2>q. Carries(s, q[k], dk)
    BY <2>o, <1>l DEF Order
  <2>d. q[k].kind = "Overlay" => s.publications = <<"Overlay">> /\ s.loaded /\ ~Sound(s)
    BY <2>q, Distinct DEF Carries, Core, Nearly, Phase, Begins
  <2>e. q[k].kind = "Publish" => Working(s) /\ ~Scanned(s)
                                    /\ s.publications # <<"Overlay">>
    BY <2>q, <2>p, <1>7 DEF Carries, Core, Nearly, Phase, Scanned, Working, Sound, Doomed
  <2>g. q[k].kind = "Publish" /\ IsMap(p[k]) =>
            p[k].map.gen = JobGen(s) /\ p[k].map.scan = JobGen(s) /\ st.active.gen = JobGen(s)
    <3>0. StoreGens(s, st)
        BY DEF Core, Nearly, Gens
    <3>1. SUFFICES ASSUME q[k].kind = "Publish", IsMap(p[k])
                   PROVE  st.active.gen = JobGen(s)
        BY <3>0 DEF Handed, StoreGens
    <3>2. st.active.open /\ st.active # NoActive /\ st.active.gen > st.newest
          /\ st.active.gen <= s.latest
        BY <3>1 DEF Handed, NoActive, Core, Nearly, Gens, StoreGens
    <3>3. CASE s.loaded
      <4>1. Sound(s)
        BY <3>1, <3>3, <2>e DEF Working
      <4>2. st.active.gen = s.lease
        BY <4>1, <3>1, <3>2, <2>o, <2>b DEF Order, Begun, Begins
      <4>3. QED
        BY <3>3, <4>2 DEF JobGen
    <3>4. CASE ~s.loaded
      <4>1. s.latest = 0
        BY <3>4 DEF Core, Nearly, Phase
      <4>2. st.newest \in Int /\ st.newest >= -1 /\ st.active.gen \in Int
        BY DEF Store, Generation, NoGeneration
      <4>3. QED
        BY <3>2, <3>4, <4>1, <4>2 DEF JobGen
    <3>5. QED
        BY <3>3, <3>4
  <2>h. q[k].kind = "Publish" /\ IsMap(p[k]) => dk \subseteq p[k].map.listed
    <3>1. SUFFICES ASSUME q[k].kind = "Publish", IsMap(p[k]), NEW x \in dk
                   PROVE  x \in p[k].map.listed
        OBVIOUS
    <3>2. InPipe(s, q, st, x) /\ Admits(s, q)
        BY <3>1, <2>e, <1>l, <1>7 DEF Pipeline, Delivered
    <3>3. ~StoreLost(s, q, st)
        BY <3>1, <2>g DEF StoreLost, Handed
    <3>4. \A i \in 1..Len(q) : ~IsAdmit(q[i], JobGen(s))
      <4>1. SUFFICES ASSUME NEW i \in 1..Len(q) PROVE ~IsAdmit(q[i], JobGen(s))
        OBVIOUS
      <4>2. CASE i = k
        BY <4>2, <1>0 DEF IsAdmit
      <4>3. CASE i < k
        <5>1. i \in 1..(k - 1)
            BY <4>3, <1>l
        <5>2. QED
            BY <5>1 DEF AnswersFirst, AnswerKinds, IsAdmit
      <4>4. CASE i > k
        BY <4>4, <3>2, <1>0, <1>l DEF Admits
      <4>5. QED
        BY <4>2, <4>3, <4>4, <1>l
    <3>5. QED
        BY <3>1, <3>2, <3>3, <3>4 DEF InPipe, Handed
  <2>j. (Sound(s) => JobGen(s) = s.lease) /\ (~s.loaded => JobGen(s) = 0)
    BY DEF JobGen, Sound, Core, Nearly, Phase
  <2>4. Order(s, p, su, dk)
    <3>1. s.publications = <<>> => NoPub(p)
        BY <2>p
    <3>2. AtMostOne(p)
        BY <1>r, <1>l, <2>o DEF Order, AtMostOne
    <3>3. PubsLast(p)
        BY <1>0, <1>l, <1>r, <2>o DEF Order, PubsLast
    <3>5. \A i \in 1..Len(p) : Carries(s, p[i], dk)
      <4>1. SUFFICES ASSUME NEW i \in 1..Len(p) PROVE Carries(s, p[i], dk)
        OBVIOUS
      <4>2. CASE i # k
        BY <4>2, <2>o, <1>0, <1>l DEF Order
      <4>3. CASE i = k /\ ~IsMap(p[k])
        BY <4>3, <1>0 DEF Carries
      <4>4. CASE i = k /\ IsMap(p[k]) /\ q[k].kind = "Publish"
        BY <4>4, <1>0, <2>e, <2>g, <2>h, <2>j DEF Carries
      <4>5. CASE i = k /\ IsMap(p[k]) /\ q[k].kind = "Overlay"
        <5>1. Follows(s, p[k].map, dk)
            BY <4>5, <2>q, <1>f DEF Carries
        <5>2. QED
            BY <4>5, <5>1, <1>0, <2>d DEF Carries, Follows
      <4>6. QED
        BY <4>2, <4>3, <4>4, <4>5 DEF Answered
    <3>6. Begun(s, p, su)
      <4>1. \A i \in 1..Len(p) : ~Begins(p[i])
        BY <2>b, <1>0, <1>l
      <4>2. SUFFICES ASSUME Sound(s), su.active.open, su.active.gen # s.lease
                     PROVE  FALSE
        BY <4>1 DEF Begun
      <4>3. q[k].kind = "Publish" /\ su.active.gen = st.active.gen /\ st.active.open
        BY <4>2, <2>d DEF Answered
      <4>4. QED
        BY <4>2, <4>3, <2>o, <2>b DEF Order, Begun, Begins
    <3>7. QED
        BY <3>1, <3>2, <3>3, <3>5, <3>6 DEF Order
  <2>5. \A g, e : Lists(g, p, su, ev, e) =>
            Lists(g, q, st, ev, e) \/ (q[k].kind = "Overlay" /\ IsMap(p[k]))
    <3>1. \A i \in 1..Len(p) : p[i] = q[i] \/ i = k
        BY <1>0, <1>l
    <3>2. p[k].kind # "Admit"
        BY <1>0
    <3>3. SUFFICES ASSUME NEW g, NEW e, Lists(g, p, su, ev, e),
                          ~(q[k].kind = "Overlay" /\ IsMap(p[k]))
                   PROVE  Lists(g, q, st, ev, e)
        OBVIOUS
    <3>4. CASE \E i \in 1..Len(p) : IsAdmit(p[i], g) /\ p[i].entry = e
        BY <3>4, <3>1, <3>2, <1>l DEF Lists, IsAdmit
    <3>5. CASE \E i \in 1..Len(p) : IsMap(p[i]) /\ p[i].map.gen = g /\ e \in p[i].map.listed
      <4>1. PICK i \in 1..Len(p) : IsMap(p[i]) /\ p[i].map.gen = g /\ e \in p[i].map.listed
        BY <3>5
      <4>2. CASE i = k
        <5>1. q[k].kind = "Publish"
            BY <4>1, <4>2, <3>3 DEF Answered
        <5>2. QED
            BY <5>1, <4>1, <4>2 DEF Handed, Lists
      <4>3. QED
        BY <4>1, <4>2, <3>1, <1>l DEF Lists
    <3>6. QED
        BY <3>3, <3>4, <3>5 DEF Lists
  <2>6. Pipeline(s, p, su, ev, sc, dk)
    <3>1. SUFFICES ASSUME Working(s) PROVE Admits(s, p) /\ Delivered(s, p, su, ev, sc, dk)
        BY DEF Pipeline
    <3>2. q[k].kind = "Publish"
        BY <3>1, <2>d DEF Answered, Working
    <3>3. Admits(s, p)
        BY <3>1, <1>7, <1>0, <1>r, <1>l DEF Pipeline, Admits, IsAdmit
    <3>4. \A i \in 1..Len(p) : p[i].kind # "Publish"
        BY <1>0, <1>l, <3>2, <2>o DEF Order, AtMostOne, IsPub
    <3>5. QED
        BY <3>2, <3>3, <3>4, <2>e DEF Delivered
  <2>7. HiddenFirst(s, p, su, ev, rep) /\ HiddenRebuild(s, p, su, ev, rep)
    BY <2>5, <2>d, <1>7 DEF HiddenFirst, HiddenRebuild
  <2>8. RebuildShrinks(s, p, su, ev)
    BY <2>5, <2>d, <1>7 DEF RebuildShrinks
  <2>9. HiddenOverlay(s, p, rep)
    <3>1. SUFFICES ASSUME s.available, ~Period(s), s.loaded \/ s.finished = <<"Primary">>
                   PROVE  \A i \in 1..Len(p) : LeavesOut(s, p[i], rep)
        BY <2>p DEF HiddenOverlay
    <3>2. \A i \in 1..Len(q) : LeavesOut(s, q[i], rep)
        BY <3>1 DEF Core, HiddenOverlay
    <3>3. q[k].kind = "Overlay"
      <4>1. SUFFICES ASSUME q[k].kind = "Publish" PROVE FALSE
        BY DEF Answered
      <4>2. ~s.loaded
        BY <4>1, <3>1, <2>e DEF Working, Sound, Period
      <4>3. QED
        BY <4>2, <3>1, <2>p, Distinct DEF Core, Nearly, Phase
    <3>4. LeavesOut(s, p[k], rep)
        BY <3>2, <3>3, <1>0, <1>l, <2>q DEF LeavesOut, Handed, Carries, Based
    <3>5. QED
        BY <3>2, <3>4, <1>0, <1>l
  <2>10. QED
    BY <2>4, <2>6, <2>7, <2>8, <2>9, <1>7
<1>8. HiddenOverlay(s, p, rep)
    BY <1>7 DEF Core, Nearly, Mode, GivenUp, HiddenOverlay, Doomed, Period
<1>9. QED
    BY <1>1, <1>2, <1>3, <1>7, <1>8 DEF Core, Nearly, Mode

-----------------------------------------------------------------------------
\* The store takes q[k]; su is what it becomes, p what is in flight then.
Takes(s, q, k, st) ==
    /\ s \in Own /\ st \in Store /\ st.running
    /\ q \in Seq(Messages) /\ k \in 1..Len(q) /\ q[k] \in Commands /\ AnswersFirst(q, k)
SameStore(st, su) ==
    /\ su.active.gen = st.active.gen /\ su.active.open = st.active.open
    /\ su.active.scan = st.active.scan /\ su.active.listed = st.active.listed
    /\ su.newest = st.newest /\ su.running = st.running
    /\ su.admissionFailed = st.admissionFailed
    /\ su.active # NoActive => st.active # NoActive
Clears(st, su) ==
    /\ su.active = NoActive /\ su.running = st.running
    /\ su.admissionFailed = st.admissionFailed
    /\ su.newest = st.newest \/ (st.active # NoActive /\ su.newest = st.active.gen)

\* The types of the store's fields.
LEMMA StoreTyped ==
    ASSUME NEW st \in Store
    PROVE  /\ st.newest \in Int /\ st.newest >= -1 /\ st.active.gen \in Int
           /\ st.active.gen >= -1 /\ st.running \in BOOLEAN /\ st.active.open \in BOOLEAN
           /\ NoActive.gen = -1 /\ ~NoActive.open /\ NoActive.listed = {}
    BY DEF Store, Generation, NoGeneration, NoActive

\* The types of a message's fields.
LEMMA MessageTyped ==
    ASSUME NEW c \in Messages
    PROVE  /\ Begins(c) => c.gen \in Nat
           /\ IsMap(c) => c.map.gen \in Int
           /\ c.kind = "Admit" => c.gen \in Nat /\ c.entry \in Entries
    BY DEF Messages, Commands, PlainCommands, Command, AnswerSet, AnswerKinds, Begins,
           IsMap, Map, Generation, NoGeneration

\* The same with nothing taken from the flight.
LEMMA CoreThinsSame ==
    ASSUME NEW s, NEW q, NEW p, NEW k, NEW st, NEW su, NEW ev, NEW ex, NEW sc, NEW rep,
           NEW dk, Core(s, q, st, ev, ex, sc, rep, dk), Thins(q, p, k),
           SameStore(st, su), q[k].kind # "Admit", ~Begins(q[k])
    PROVE  Core(s, p, su, ev, ex, sc, rep, dk)
<1> USE DEF SameStore
<1>0. /\ \A i \in 1..Len(q) : i # k => p[i] = q[i]
      /\ Len(p) = Len(q) /\ k \in 1..Len(q)
      /\ ~IsMap(p[k]) /\ ~Begins(p[k]) /\ p[k].kind # "Admit"
    BY DEF Thins, Neutral, IsMap, Begins
<1>1. StoreGens(s, su) /\ \A i \in 1..Len(p) : Dated(s, su, p[i])
    BY <1>0 DEF Core, Nearly, Gens, StoreGens, Dated
<1>2. Order(s, q, st, dk) => Begun(s, p, su)
    BY <1>0 DEF Order, Begun, Begins
<1>3. \A g, e : Lists(g, p, su, ev, e) => Lists(g, q, st, ev, e)
    BY <1>0 DEF Lists, IsAdmit
<1>4. \A x : InPipe(s, q, st, x) => InPipe(s, p, su, x)
    BY <1>0 DEF InPipe, StoreLost, IsAdmit
<1>5. QED
    BY <1>1, <1>2, <1>3, <1>4, CoreThins

\* A job whose generation the store has: no generation is to begin.
LEMMA NoneBegins ==
    ASSUME NEW s, NEW q, NEW st, NEW ev, NEW ex, NEW sc, NEW rep, NEW dk,
           Core(s, q, st, ev, ex, sc, rep, dk), q \in Seq(Messages), s \in Own, st \in Store,
           Working(s), st.active.gen = JobGen(s)
    PROVE  \A i \in 1..Len(q) : ~Begins(q[i])
<1>1. SUFFICES ASSUME NEW i \in 1..Len(q), Begins(q[i]) PROVE FALSE
    OBVIOUS
<1>2. q[i].gen <= s.latest /\ q[i].gen > st.active.gen
    BY <1>1 DEF Core, Nearly, Gens, Dated
<1>3. st.active.gen = s.latest
    BY DEF Working, Sound, JobGen, Core, Nearly, Gens, StoreGens, Phase
<1>4. q[i].gen \in Nat /\ s.latest \in Nat
    BY <1>1, MessageTyped DEF Own
<1>5. QED
    BY <1>2, <1>3, <1>4

\* The store's generation is discarded or cancelled.
LEMMA CoreClears ==
    ASSUME NEW s, NEW q, NEW p, NEW k, NEW st, NEW su, NEW ev, NEW ex, NEW sc, NEW rep,
           NEW dk, Core(s, q, st, ev, ex, sc, rep, dk), Thins(q, p, k), Takes(s, q, k, st),
           Clears(st, su), q[k].kind # "Admit", ~Begins(q[k])
    PROVE  Core(s, p, su, ev, ex, sc, rep, dk)
<1> USE DEF Clears, Takes
<1>0. /\ \A i \in 1..Len(q) : i # k => p[i] = q[i]
      /\ Len(p) = Len(q) /\ k \in 1..Len(q)
      /\ ~IsMap(p[k]) /\ ~Begins(p[k]) /\ p[k].kind # "Admit"
    BY DEF Thins, Neutral, IsMap, Begins
<1>t. s.latest \in Nat /\ s.installed.gen \in Int
    BY DEF Own, Map, Generation, NoGeneration
<1>g. StoreGens(s, st) /\ \A i \in 1..Len(q) : Dated(s, st, q[i])
    BY DEF Core, Nearly, Gens
<1>n. su.newest \in Int /\ su.newest >= st.newest /\ su.active.gen = -1 /\ ~su.active.open
      /\ su.newest <= s.latest
    BY <1>g, <1>t, StoreTyped DEF StoreGens
<1>1. StoreGens(s, su)
    BY <1>g, <1>t, <1>n, StoreTyped DEF StoreGens
<1>2. \A i \in 1..Len(p) : Dated(s, su, p[i])
  <2>1. SUFFICES ASSUME NEW i \in 1..Len(p) PROVE Dated(s, su, p[i])
    OBVIOUS
  <2>2. CASE i = k
    BY <2>2, <1>0 DEF Dated
  <2>3. CASE i # k
    <3>1. p[i] = q[i] /\ Dated(s, st, q[i]) /\ q[i] \in Messages
        BY <2>3, <1>0, <1>g
    <3>2. Begins(q[i]) => q[i].gen \in Nat /\ q[i].gen > su.active.gen /\ q[i].gen > su.newest
        BY <3>1, <1>n, MessageTyped, StoreTyped DEF Dated
    <3>3. IsMap(q[i]) => q[i].map.gen <= su.newest
        BY <3>1, <1>n, MessageTyped, StoreTyped DEF Dated
    <3>4. QED
        BY <3>1, <3>2, <3>3 DEF Dated
  <2>4. QED
    BY <2>2, <2>3
<1>3. Order(s, q, st, dk) => Begun(s, p, su)
    BY <1>0, <1>n DEF Order, Begun, Begins
<1>4. \A g, e : Lists(g, p, su, ev, e) => Lists(g, q, st, ev, e)
    BY <1>0, <1>n DEF Lists, IsAdmit
<1>5. Working(s) => \A x : InPipe(s, q, st, x) => InPipe(s, p, su, x)
  <2>1. SUFFICES ASSUME Working(s), NEW x, InPipe(s, q, st, x) PROVE InPipe(s, p, su, x)
    OBVIOUS
  <2>2. CASE \E i \in 1..Len(q) : IsAdmit(q[i], JobGen(s)) /\ q[i].entry = x
    BY <2>2, <1>0 DEF InPipe, IsAdmit
  <2>3. CASE st.active.gen = JobGen(s)
    <3>1. \A i \in 1..Len(q) : ~Begins(q[i])
        BY <2>1, <2>3, NoneBegins
    <3>2. QED
        BY <3>1, <1>0, <1>n DEF InPipe, StoreLost
  <2>4. CASE StoreLost(s, q, st)
    BY <2>4, <1>0, <1>n DEF InPipe, StoreLost
  <2>5. QED
    BY <2>1, <2>2, <2>3, <2>4 DEF InPipe
<1>6. QED
    BY <1>1, <1>2, <1>3, <1>4, <1>5, CoreThins

\* A batch is admitted, fails, or comes after one that failed.
AdmitFails(st, su) ==
    /\ su.active = st.active /\ su.newest = st.newest /\ su.running = st.running
    /\ su.admissionFailed
AdmitLists(c, st, su) ==
    /\ st.active.open /\ st.active.gen = c.gen
    /\ su.active.gen = st.active.gen /\ su.active.open /\ su.active.scan = st.active.scan
    /\ su.active.listed = st.active.listed \union {c.entry}
    /\ su.newest = st.newest /\ su.running = st.running
    /\ su.admissionFailed = st.admissionFailed

\* A batch is admitted.
LEMMA CoreAdmits ==
    ASSUME NEW s, NEW q, NEW p, NEW k, NEW st, NEW su, NEW ev, NEW ex, NEW sc, NEW rep,
           NEW dk, Core(s, q, st, ev, ex, sc, rep, dk), Thins(q, p, k), Takes(s, q, k, st),
           q[k].kind = "Admit", AdmitFails(st, su) \/ AdmitLists(q[k], st, su)
    PROVE  Core(s, p, su, ev, ex, sc, rep, dk)
<1> USE DEF Takes
<1>0. /\ \A i \in 1..Len(q) : i # k => p[i] = q[i]
      /\ Len(p) = Len(q) /\ k \in 1..Len(q) /\ ~Begins(q[k])
      /\ ~IsMap(p[k]) /\ ~Begins(p[k]) /\ p[k].kind # "Admit"
    BY DEF Thins, Neutral, IsMap, Begins
<1>g. StoreGens(s, st) /\ \A i \in 1..Len(q) : Dated(s, st, q[i])
    BY DEF Core, Nearly, Gens
<1>n. /\ su.active.gen = st.active.gen /\ su.active.open = st.active.open
      /\ su.active.scan = st.active.scan /\ su.newest = st.newest /\ su.running = st.running
      /\ su.active # NoActive => st.active # NoActive
    BY StoreTyped DEF AdmitFails, AdmitLists
<1>1. StoreGens(s, su) /\ \A i \in 1..Len(p) : Dated(s, su, p[i])
    BY <1>0, <1>g, <1>n DEF StoreGens, Dated
<1>3. Order(s, q, st, dk) => Begun(s, p, su)
    BY <1>0, <1>n, ZenonT(60) DEF Order, Begun, Begins
<1>4. ASSUME NEW g, NEW e, Lists(g, p, su, ev, e) PROVE Lists(g, q, st, ev, e)
  <2>1. CASE \E i \in 1..Len(p) : IsAdmit(p[i], g) /\ p[i].entry = e
    BY <2>1, <1>0 DEF Lists, IsAdmit
  <2>2. CASE \E i \in 1..Len(p) : IsMap(p[i]) /\ p[i].map.gen = g /\ e \in p[i].map.listed
    BY <2>2, <1>0 DEF Lists
  <2>3. CASE su.active.gen = g /\ su.active.open /\ e \in su.active.listed
    <3>1. CASE e \in st.active.listed
        BY <3>1, <2>3, <1>n DEF Lists
    <3>2. CASE e \notin st.active.listed
      <4>1. IsAdmit(q[k], g) /\ q[k].entry = e
        BY <3>2, <2>3 DEF AdmitFails, AdmitLists, IsAdmit
      <4>2. QED
        BY <4>1, <1>0 DEF Lists
    <3>3. QED
        BY <3>1, <3>2
  <2>4. QED
    BY <1>4, <2>1, <2>2, <2>3 DEF Lists
<1>5. Working(s) /\ Admits(s, q) => \A x : InPipe(s, q, st, x) => InPipe(s, p, su, x)
  <2>1. SUFFICES ASSUME Working(s), Admits(s, q), NEW x, InPipe(s, q, st, x)
                 PROVE  InPipe(s, p, su, x)
    OBVIOUS
  <2>2. CASE \E i \in 1..Len(q) : i # k /\ IsAdmit(q[i], JobGen(s)) /\ q[i].entry = x
    BY <2>2, <1>0 DEF InPipe
  <2>3. CASE IsAdmit(q[k], JobGen(s)) /\ q[k].entry = x
    <3>1. CASE AdmitLists(q[k], st, su)
        BY <3>1, <2>3 DEF AdmitLists, InPipe, IsAdmit
    <3>2. CASE AdmitFails(st, su)
      <4>1. \A i \in 1..Len(q) : ~Begins(q[i])
        <5>1. SUFFICES ASSUME NEW i \in 1..Len(q), Begins(q[i]) PROVE FALSE
            OBVIOUS
        <5>2. CASE i < k
          <6>1. i \in 1..(k - 1)
            BY <5>2, <1>0
          <6>2. QED
            BY <6>1, <5>1 DEF AnswersFirst, AnswerKinds, Begins
        <5>3. CASE i > k
            BY <5>1, <5>3, <2>1, <2>3, <1>0 DEF Admits
        <5>4. QED
            BY <5>1, <5>2, <5>3, <1>0
      <4>2. QED
        BY <4>1, <3>2, <1>0 DEF AdmitFails, InPipe, StoreLost
    <3>3. QED
        BY <3>1, <3>2
  <2>4. CASE st.active.gen = JobGen(s) /\ x \in st.active.listed
    BY <2>4, <1>n DEF InPipe, AdmitFails, AdmitLists
  <2>5. CASE StoreLost(s, q, st)
    <3>1. \A i \in 1..Len(p) : Begins(p[i]) => Begins(q[i])
        BY <1>0
    <3>2. st.admissionFailed => su.admissionFailed
        BY DEF AdmitFails, AdmitLists
    <3>3. QED
        BY <3>1, <3>2, <2>5, <1>n, <1>0 DEF InPipe, StoreLost
  <2>6. QED
    BY <2>1, <2>2, <2>3, <2>4, <2>5, <1>0 DEF InPipe
<1>6. QED
    BY <1>1, <1>3, <1>4, <1>5, CoreThins

\* A generation begins.
Begun1(c, st, su) ==
    /\ su.active = Fresh(c.gen) /\ su.newest = st.newest /\ su.running = st.running

\* A generation is begun.
LEMMA CoreBegins ==
    ASSUME NEW s, NEW q, NEW p, NEW k, NEW st, NEW su, NEW ev, NEW ex, NEW sc, NEW rep,
           NEW dk, Core(s, q, st, ev, ex, sc, rep, dk), Thins(q, p, k), Takes(s, q, k, st),
           q[k].kind = "BeginGeneration", Begun1(q[k], st, su)
    PROVE  Core(s, p, su, ev, ex, sc, rep, dk)
<1> USE DEF Takes
<1>0. /\ \A i \in 1..Len(q) : i # k => p[i] = q[i]
      /\ Len(p) = Len(q) /\ k \in 1..Len(q) /\ Begins(q[k])
      /\ ~IsMap(p[k]) /\ ~Begins(p[k]) /\ p[k].kind # "Admit"
    BY DEF Thins, Neutral, IsMap, Begins
<1>g. StoreGens(s, st) /\ \A i \in 1..Len(q) : Dated(s, st, q[i])
    BY DEF Core, Nearly, Gens
<1>a. \A i \in 1..Len(p) : Begins(p[i]) => p[i] = q[i] /\ p[i].gen > q[k].gen
  <2>1. SUFFICES ASSUME NEW i \in 1..Len(p), Begins(p[i])
                 PROVE  p[i] = q[i] /\ p[i].gen > q[k].gen
    OBVIOUS
  <2>2. i # k /\ p[i] = q[i]
    BY <2>1, <1>0
  <2>3. CASE i < k
    <3>1. i \in 1..(k - 1)
        BY <2>3, <1>0
    <3>2. QED
        BY <3>1, <2>1, <2>2 DEF AnswersFirst, AnswerKinds, Begins
  <2>4. CASE i > k
    <3>1. q[k].gen < q[i].gen
        BY <2>4, <2>1, <2>2, <1>0 DEF Core, Nearly, Gens, Ascending
    <3>2. QED
        BY <3>1, <2>2, <2>1, <1>0, MessageTyped
  <2>5. QED
    BY <2>2, <2>3, <2>4, <1>0
<1>n. /\ su.active.gen = q[k].gen /\ su.active.open /\ su.active.scan = q[k].gen
      /\ su.active.listed = {} /\ q[k].gen \in Nat /\ su.newest = st.newest
      /\ q[k].gen <= s.latest /\ q[k].gen > st.newest /\ q[k].gen > st.active.gen
    BY <1>0, <1>g, MessageTyped DEF Begun1, Fresh, Dated
<1>1. StoreGens(s, su) /\ \A i \in 1..Len(p) : Dated(s, su, p[i])
    BY <1>0, <1>g, <1>n, <1>a DEF StoreGens, Dated
<1>3. Order(s, q, st, dk) => Begun(s, p, su)
  <2>1. SUFFICES ASSUME Order(s, q, st, dk), Sound(s), su.running,
                        \/ su.active.open /\ su.active.gen # s.lease
                        \/ \E j \in 1..Len(p) : Begins(p[j])
                 PROVE  \E i \in 1..Len(p) : p[i].kind = "BeginGeneration" /\ p[i].gen = s.lease
    BY DEF Begun
  <2>2. PICK i \in 1..Len(q) : q[i].kind = "BeginGeneration" /\ q[i].gen = s.lease
    BY <2>1, <1>0 DEF Order, Begun
  <2>3. CASE i # k
    BY <2>2, <2>3, <1>0
  <2>4. CASE i = k
    <3>1. PICK j \in 1..Len(p) : Begins(p[j])
        BY <2>1, <2>2, <2>4, <1>n
    <3>2. p[j].gen > q[k].gen /\ p[j].gen <= s.latest /\ q[k].gen = s.lease /\ p[j].gen \in Nat
        BY <3>1, <2>2, <2>4, <1>a, <1>0, <1>1, MessageTyped DEF Dated
    <3>3. s.lease = s.latest
        BY <2>1, <1>g DEF Sound, StoreGens
    <3>4. QED
        BY <3>2, <3>3, <1>n
  <2>5. QED
    BY <2>3, <2>4
<1>4. \A g, e : Lists(g, p, su, ev, e) => Lists(g, q, st, ev, e)
    BY <1>0, <1>n DEF Lists, IsAdmit
<1>5. Working(s) /\ Admits(s, q) => \A x : InPipe(s, q, st, x) => InPipe(s, p, su, x)
  <2>1. SUFFICES ASSUME Working(s), NEW x, InPipe(s, q, st, x) PROVE InPipe(s, p, su, x)
    OBVIOUS
  <2>2. CASE \E i \in 1..Len(q) : IsAdmit(q[i], JobGen(s)) /\ q[i].entry = x
    BY <2>2, <1>0 DEF InPipe, IsAdmit, Begins
  <2>3. CASE st.active.gen = JobGen(s)
    BY <2>1, <2>3, <1>0, NoneBegins
  <2>4. CASE StoreLost(s, q, st)
    BY <2>4, <1>0 DEF StoreLost
  <2>5. QED
    BY <2>1, <2>2, <2>3, <2>4 DEF InPipe
<1>6. QED
    BY <1>1, <1>3, <1>4, <1>5, CoreThins

-----------------------------------------------------------------------------
Matches(su, o) ==
    /\ su.active = o.store.active /\ su.newest = o.store.newest
    /\ su.running = o.store.running /\ su.admissionFailed = o.store.admissionFailed
Silence == Answer("ProvisionalPage", "page", NoMap)
AnswerOf(o) == IF o.answer = <<>> THEN Silence ELSE o.answer[1]

OutcomeTyped(st, o) ==
    /\ o.store \in Store /\ o.store.held = st.held /\ o.store.running = st.running
    /\ o.answer = <<>> \/ \E a \in AnswerSet : o.answer = <<a>>

\* The answers that report an error.
LEMMA AnswersTyped ==
    /\ NoMap \in Map /\ Silence \in AnswerSet /\ Neutral(Silence)
    /\ \A k \in AnswerKinds :
         Failed(k) = <<Answer(k, "error", NoMap)>> /\ Answer(k, "error", NoMap) \in AnswerSet
    /\ Answer("ProvisionalPage", "error", NoMap) \in AnswerSet
    BY DEF NoMap, Map, Silence, AnswerSet, AnswerKinds, Answer, Failed, Generation, Neutral

Actives ==
    [gen : Generation, scan : Generation, listed : SUBSET Entries,
     unread : SUBSET Entries, open : BOOLEAN]
Put(st, active, newest, failed) ==
    [active |-> active, newest |-> newest, admissionFailed |-> failed, held |-> st.held,
     running |-> st.running]
Made(st, o, active, newest, failed, answer) ==
    o.store = Put(st, active, newest, failed) /\ o.answer = answer

No == FALSE
Yes == TRUE

\* The two truth values, under names.
LEMMA YesNo == No \in BOOLEAN /\ No = FALSE /\ Yes \in BOOLEAN /\ Yes = TRUE
    BY DEF No, Yes

\* What a command does to the store is a change of three fields.
LEMMA StoreForms ==
    ASSUME NEW st \in Store
    PROVE  /\ st = Put(st, st.active, st.newest, st.admissionFailed)
           /\ \A f : [st EXCEPT !.admissionFailed = f] = Put(st, st.active, st.newest, f)
           /\ \A a : [st EXCEPT !.active = a] = Put(st, a, st.newest, st.admissionFailed)
           /\ \A a, n : [st EXCEPT !.active = a, !.newest = n] =
                          Put(st, a, n, st.admissionFailed)
<1>0. st = [active |-> st.active, newest |-> st.newest,
            admissionFailed |-> st.admissionFailed, held |-> st.held, running |-> st.running]
    BY DEF Store
<1>1. st = Put(st, st.active, st.newest, st.admissionFailed)
    BY <1>0 DEF Put
<1>2. ASSUME NEW f
      PROVE  [st EXCEPT !.admissionFailed = f] = Put(st, st.active, st.newest, f)
    BY <1>0 DEF Put
<1>3. ASSUME NEW a
      PROVE  [st EXCEPT !.active = a] = Put(st, a, st.newest, st.admissionFailed)
    BY <1>0 DEF Put
<1>4. ASSUME NEW a, NEW n
      PROVE  [st EXCEPT !.active = a, !.newest = n] = Put(st, a, n, st.admissionFailed)
  <2> DEFINE t == [st EXCEPT !.active = a, !.newest = n]
  <2>1. /\ t \in [active : {a}, newest : {n}, admissionFailed : BOOLEAN,
                   held : Seq(AnswerSet), running : BOOLEAN]
        /\ t.admissionFailed = st.admissionFailed /\ t.held = st.held
        /\ t.running = st.running
    BY DEF Store
  <2> HIDE DEF t
  <2>2. t = [active |-> a, newest |-> n, admissionFailed |-> st.admissionFailed,
             held |-> st.held, running |-> st.running]
    BY <2>1
  <2>3. QED
    BY <2>2 DEF Put, t
<1>5. QED
    BY <1>1, <1>2, <1>3, <1>4

\* The store after such a change.
LEMMA PutTyped ==
    ASSUME NEW st \in Store, NEW a \in Actives, NEW n \in Generation, NEW f \in BOOLEAN
    PROVE  /\ Put(st, a, n, f) \in Store
           /\ Put(st, a, n, f).active = a /\ Put(st, a, n, f).newest = n
           /\ Put(st, a, n, f).admissionFailed = f /\ Put(st, a, n, f).held = st.held
           /\ Put(st, a, n, f).running = st.running
    BY DEF Store, Put, Actives

\* The generations a store may take input for.
LEMMA ActivesTyped ==
    /\ NoActive \in Actives
    /\ \A g \in Nat : Fresh(g) \in Actives
    /\ \A st \in Store : st.active \in Actives /\ st.newest \in Generation
                          /\ st.admissionFailed \in BOOLEAN
    BY DEF NoActive, Fresh, Generation, Actives, Store

\* What recording failures does.
LEMMA NotesOutcome ==
    ASSUME NEW st \in Store, NEW c \in Commands, c.kind = "Notes", NEW o \in Outcomes(st, c)
    PROVE  \E a \in Actives :
             /\ Made(st, o, a, st.newest, st.admissionFailed, <<>>)
             /\ a.gen = st.active.gen /\ a.scan = st.active.scan
             /\ a.listed = st.active.listed /\ a.open = st.active.open
             /\ st.active = NoActive => a = NoActive
<1>1. c.paths \in SUBSET Entries
    BY DEF Commands, PlainCommands, Command
<1>2. o \in RecordNotes(st, c.paths)
    BY DEF Outcomes
<1>3. CASE st.active = NoActive
  <2>1. o.store = st /\ o.answer = <<>>
    BY <1>2, <1>3 DEF RecordNotes, Quietly, Outcome
  <2>2. QED
    BY <2>1, <1>3, StoreForms, ActivesTyped DEF Made
<1>4. CASE st.active # NoActive
  <2> DEFINE a == [st.active EXCEPT !.unread = @ \union c.paths]
  <2>1. o.store = [st EXCEPT !.active = a] /\ o.answer = <<>>
    BY <1>2, <1>4 DEF RecordNotes, Quietly, Outcome, Store
  <2>2. /\ a \in Actives /\ a.gen = st.active.gen /\ a.scan = st.active.scan
        /\ a.listed = st.active.listed /\ a.open = st.active.open
    BY <1>1, ActivesTyped DEF Actives
  <2> HIDE DEF a
  <2>3. QED
    BY <2>1, <2>2, <1>4, StoreForms DEF Made
<1>5. QED
    BY <1>3, <1>4

\* What admitting a batch does.
LEMMA AdmitOutcome ==
    ASSUME NEW st \in Store, NEW c \in Commands, c.kind = "Admit", NEW o \in Outcomes(st, c)
    PROVE  \/ st.admissionFailed /\ Made(st, o, st.active, st.newest, Yes, <<>>)
           \/ Made(st, o, st.active, st.newest, Yes, Failed("AdmissionFailed"))
           \/ /\ st.active.open /\ st.active.gen = c.gen
              /\ \E a \in Actives :
                   /\ Made(st, o, a, st.newest, st.admissionFailed, <<>>)
                   /\ a.gen = st.active.gen /\ a.scan = st.active.scan
                   /\ a.listed = st.active.listed \union {c.entry} /\ a.open = st.active.open
<1>1. c.entry \in Entries
    BY MessageTyped DEF Messages
<1>2. o \in AdmitBatch(st, c)
    BY DEF Outcomes
<1>3. CASE st.admissionFailed
  <2>1. o.store = st /\ o.answer = <<>> /\ st.admissionFailed = TRUE
    BY <1>2, <1>3, ActivesTyped DEF AdmitBatch, Quietly, Outcome
  <2>2. QED
    BY <2>1, <1>3, StoreForms DEF Made, Yes
<1>4. CASE o.store = [st EXCEPT !.admissionFailed = TRUE] /\ o.answer = Failed("AdmissionFailed")
    BY <1>4, StoreForms DEF Made, Yes
<1>5. CASE /\ st.active.open /\ st.active.gen = c.gen
           /\ o = Outcome([st EXCEPT !.active.listed = @ \union {c.entry}], <<>>, 0)
  <2> DEFINE a == [st.active EXCEPT !.listed = @ \union {c.entry}]
  <2>1. o.store = [st EXCEPT !.active = a] /\ o.answer = <<>>
    BY <1>5 DEF Outcome, Store
  <2>2. /\ a \in Actives /\ a.gen = st.active.gen /\ a.scan = st.active.scan
        /\ a.listed = st.active.listed \union {c.entry} /\ a.open = st.active.open
    BY <1>1, ActivesTyped DEF Actives
  <2> HIDE DEF a
  <2>3. QED
    BY <2>1, <2>2, <1>5, StoreForms DEF Made
<1>6. QED
  <2>1. \/ st.admissionFailed
        \/ \E n : o = Outcome([st EXCEPT !.admissionFailed = TRUE], Failed("AdmissionFailed"), n)
        \/ /\ st.active.open /\ st.active.gen = c.gen
           /\ o = Outcome([st EXCEPT !.active.listed = @ \union {c.entry}], <<>>, 0)
    BY <1>2 DEF AdmitBatch, AdmissionFailure
  <2>2. CASE \E n : o = Outcome([st EXCEPT !.admissionFailed = TRUE],
                               Failed("AdmissionFailed"), n)
    <3>1. o.store = [st EXCEPT !.admissionFailed = TRUE] /\ o.answer = Failed("AdmissionFailed")
        BY <2>2 DEF Outcome
    <3>2. QED
        BY <3>1, <1>4
  <2>3. QED
    BY <2>1, <2>2, <1>3, <1>5

\* What beginning a generation does.
LEMMA BeginOutcome ==
    ASSUME NEW st \in Store, NEW c \in Commands, c.kind = "BeginGeneration",
           NEW o \in Outcomes(st, c)
    PROVE  \/ Made(st, o, Fresh(c.gen), st.newest, No, <<>>)
           \/ /\ c.gen <= st.active.gen \/ c.gen <= st.newest
              /\ Made(st, o, st.active, st.newest, No, Failed("Failure"))
<1>1. o \in BeginNewer(st, c.gen)
    BY DEF Outcomes
<1> DEFINE ready == [st EXCEPT !.admissionFailed = FALSE]
<1>2. ready = Put(st, st.active, st.newest, FALSE)
    BY StoreForms
<1>3. [ready EXCEPT !.active = Fresh(c.gen)] = Put(st, Fresh(c.gen), st.newest, FALSE)
  <2>1. ready \in Store /\ ready.newest = st.newest /\ ready.admissionFailed = FALSE
        /\ ready.held = st.held /\ ready.running = st.running
    BY DEF Store
  <2> HIDE DEF ready
  <2>2. [ready EXCEPT !.active = Fresh(c.gen)]
            = Put(ready, Fresh(c.gen), ready.newest, ready.admissionFailed)
    BY <2>1, StoreForms
  <2>3. QED
    BY <2>1, <2>2 DEF Put
<1>4. CASE c.gen <= LatestGeneration(st)
  <2>1. o = Outcome(ready, Failed("Failure"), 0)
    BY <1>1, <1>4 DEF BeginNewer
  <2>2. QED
    BY <2>1, <1>2, <1>4 DEF Outcome, Made, LatestGeneration, Newer, No
<1>5. CASE ~(c.gen <= LatestGeneration(st))
  <2>1. o = Outcome([ready EXCEPT !.active = Fresh(c.gen)], <<>>, 0)
    BY <1>1, <1>5 DEF BeginNewer, Quietly, Begin
  <2>2. QED
    BY <2>1, <1>3 DEF Outcome, Made, No
<1>6. QED
    BY <1>4, <1>5

\* What discarding the active generation does.
LEMMA RetireOutcome ==
    ASSUME NEW st \in Store, NEW c \in Commands, c.kind \in {"DiscardActive", "CancelActive"},
           NEW o \in Outcomes(st, c)
    PROVE  \/ st.active = NoActive /\ Made(st, o, NoActive, st.newest, st.admissionFailed, <<>>)
           \/ /\ st.active # NoActive
              /\ Made(st, o, NoActive, st.active.gen, st.admissionFailed, <<>>)
           \/ /\ c.kind = "CancelActive"
              /\ Made(st, o, NoActive, st.newest, st.admissionFailed, Failed("Failure"))
<1>1. o \in DiscardActive(st) \/ (c.kind = "CancelActive" /\ o \in CancelActive(st))
    BY DEF Outcomes
<1>2. \/ st.active = NoActive /\ o = Outcome(st, <<>>, 0)
      \/ /\ st.active # NoActive
         /\ o = Outcome([st EXCEPT !.active = NoActive, !.newest = st.active.gen], <<>>, 0)
      \/ /\ c.kind = "CancelActive"
         /\ o = Outcome([st EXCEPT !.active = NoActive], Failed("Failure"), 0)
    BY <1>1 DEF DiscardActive, CancelActive, Retire, Quietly
<1>3. CASE st.active = NoActive /\ o = Outcome(st, <<>>, 0)
  <2>1. o.store = st /\ o.answer = <<>>
    BY <1>3 DEF Outcome
  <2>2. QED
    BY <2>1, <1>3, StoreForms DEF Made
<1>4. CASE /\ st.active # NoActive
           /\ o = Outcome([st EXCEPT !.active = NoActive, !.newest = st.active.gen], <<>>, 0)
  <2>1. o.store = [st EXCEPT !.active = NoActive, !.newest = st.active.gen] /\ o.answer = <<>>
    BY <1>4 DEF Outcome
  <2>2. QED
    BY <2>1, <1>4, StoreForms, ZenonT(60) DEF Made
<1>5. CASE /\ c.kind = "CancelActive"
           /\ o = Outcome([st EXCEPT !.active = NoActive], Failed("Failure"), 0)
  <2>1. o.store = [st EXCEPT !.active = NoActive] /\ o.answer = Failed("Failure")
    BY <1>5 DEF Outcome
  <2>2. QED
    BY <2>1, <1>5, StoreForms DEF Made
<1>6. QED
    BY <1>2, <1>3, <1>4, <1>5

\* publish_reporting, of a store u whose active generation is a.
LEMMA PublishOutcome ==
    ASSUME NEW st \in Store, NEW a \in Actives, NEW f \in BOOLEAN,
           NEW o \in PublishReporting(Put(st, a, st.newest, f)), a.open
    PROVE  \/ \E outcome \in {"map", "summary"} :
                Made(st, o, NoActive, Newer(st.newest, a.gen), f,
                     <<Answer("Publication", outcome, MapOf(a))>>)
           \/ \E b \in Actives :
                /\ Made(st, o, b, st.newest, f, Failed("Publication"))
                /\ b.gen = a.gen /\ ~b.open
<1> DEFINE u == Put(st, a, st.newest, f)
<1>1. u \in Store /\ u.active = a /\ u.newest = st.newest /\ u.admissionFailed = f
      /\ u.held = st.held /\ u.running = st.running
  <2>1. st.newest \in Generation
    BY ActivesTyped
  <2>2. QED
    BY <2>1, PutTyped
<1>2. o \in PublishReporting(u)
    OBVIOUS
<1> HIDE DEF u
<1>3. \/ o = HandOver(u, "map", 0) \/ o = HandOver(u, "summary", 1)
      \/ o = Outcome([u EXCEPT !.active.open = FALSE], Failed("Publication"), 1)
    BY <1>1, <1>2 DEF PublishReporting
<1>4. ASSUME NEW outcome \in {"map", "summary"}, NEW cost, o = HandOver(u, outcome, cost)
      PROVE  Made(st, o, NoActive, Newer(st.newest, a.gen), f,
                  <<Answer("Publication", outcome, MapOf(a))>>)
  <2> DEFINE n == Newer(u.newest, u.active.gen)
  <2>1. o.store = [u EXCEPT !.active = NoActive, !.newest = n]
        /\ o.answer = <<Answer("Publication", outcome, MapOf(u.active))>>
    BY <1>4 DEF HandOver, Outcome
  <2> HIDE DEF n
  <2>2. o.store = Put(u, NoActive, n, u.admissionFailed)
    BY <2>1, <1>1, StoreForms, ZenonT(60)
  <2>3. QED
    BY <2>1, <2>2, <1>1 DEF Made, Put, n
<1>5. ASSUME o = Outcome([u EXCEPT !.active.open = FALSE], Failed("Publication"), 1)
      PROVE  \E b \in Actives :
                /\ Made(st, o, b, st.newest, f, Failed("Publication"))
                /\ b.gen = a.gen /\ ~b.open
  <2> DEFINE b == [a EXCEPT !.open = FALSE]
  <2>1. b \in Actives /\ b.gen = a.gen /\ ~b.open
    BY DEF Actives
  <2>2. o.store = [u EXCEPT !.active = b] /\ o.answer = Failed("Publication")
    BY <1>1, <1>5 DEF Outcome, Store
  <2> HIDE DEF b
  <2>3. o.store = Put(u, b, u.newest, u.admissionFailed)
    BY <2>2, <1>1, StoreForms
  <2>4. QED
    BY <2>1, <2>2, <2>3, <1>1 DEF Made, Put
<1>6. QED
    BY <1>3, <1>4, <1>5

\* What publishing does.
LEMMA PublishCommandOutcome ==
    ASSUME NEW st \in Store, NEW c \in Commands, c.kind = "Publish", NEW o \in Outcomes(st, c)
    PROVE  \/ Made(st, o, st.active, st.newest, st.admissionFailed, Failed("Publication"))
           \/ /\ st.active.open /\ ~st.admissionFailed
              /\ \E outcome \in {"map", "summary"} :
                   Made(st, o, NoActive, Newer(st.newest, st.active.gen), st.admissionFailed,
                        <<Answer("Publication", outcome, MapOf(st.active))>>)
           \/ /\ st.active.open
              /\ \E b \in Actives :
                   /\ Made(st, o, b, st.newest, st.admissionFailed, Failed("Publication"))
                   /\ b.gen = st.active.gen /\ ~b.open
<1>1. o \in Publish(st)
    BY DEF Outcomes
<1>2. CASE st.admissionFailed \/ ~st.active.open
  <2>1. o = Outcome(st, Failed("Publication"), 0)
    BY <1>1, <1>2 DEF Publish, PublishReporting
  <2>2. o.store = st /\ o.answer = Failed("Publication")
    BY <2>1 DEF Outcome
  <2>3. QED
    BY <2>2, StoreForms DEF Made
<1>3. CASE ~st.admissionFailed /\ st.active.open
  <2>1. o \in PublishReporting(st)
    BY <1>1, <1>3 DEF Publish
  <2>2. st = Put(st, st.active, st.newest, st.admissionFailed)
    BY StoreForms
  <2>3. st.active \in Actives /\ st.admissionFailed \in BOOLEAN
    BY ActivesTyped
  <2>4. o \in PublishReporting(Put(st, st.active, st.newest, st.admissionFailed))
    BY <2>1, <2>2
  <2>5. QED
    BY <2>3, <2>4, <1>3, PublishOutcome
<1>4. QED
    BY <1>2, <1>3

\* What an overlay does, at each point it can fail.
LEMMA OverlayOutcome ==
    ASSUME NEW st \in Store, NEW c \in Commands, c.kind = "Overlay", NEW o \in Outcomes(st, c)
    PROVE  \/ Made(st, o, st.active, st.newest, No, Failed("Publication"))
           \/ \E b \in Actives :
                /\ Made(st, o, b, st.newest, No, Failed("Publication"))
                /\ b.gen = c.gen /\ ~b.open
           \/ \E a \in Actives, outcome \in {"map", "summary"} :
                /\ a.gen = c.gen /\ a.scan = c.base.scan
                /\ a.listed = c.base.listed \ {c.prefix}
                /\ Made(st, o, NoActive, Newer(st.newest, c.gen), No,
                        <<Answer("Publication", outcome, MapOf(a))>>)
<1>1. o \in OverlayFrom(st, c)
    BY DEF Outcomes
<1>t. c.gen \in Nat /\ c.prefix \in Entries /\ c.base \in Map
    BY DEF Commands, PlainCommands, Command
<1> DEFINE ready == [st EXCEPT !.admissionFailed = FALSE]
           begun == [Begin(ready, c.gen) EXCEPT !.active.scan = c.base.scan,
                                                !.active.unread = c.base.unread]
           copied == [begun EXCEPT !.active.listed = c.base.listed \ {c.prefix}]
           refused == [begun EXCEPT !.active.open = FALSE]
           fa == [Fresh(c.gen) EXCEPT !.scan = c.base.scan, !.unread = c.base.unread]
           ca == [fa EXCEPT !.listed = c.base.listed \ {c.prefix}]
           ra == [fa EXCEPT !.open = FALSE]
<1>f. /\ fa \in Actives /\ fa.gen = c.gen /\ fa.scan = c.base.scan /\ fa.open
  <2>1. Fresh(c.gen) \in Actives /\ Fresh(c.gen).gen = c.gen /\ Fresh(c.gen).open
        /\ c.base.scan \in Generation /\ c.base.unread \in SUBSET Entries
    BY <1>t, ActivesTyped DEF Fresh, Map
  <2>2. QED
    BY <2>1 DEF Actives
<1> HIDE DEF fa
<1>a. /\ ca \in Actives /\ ca.gen = c.gen /\ ca.scan = c.base.scan /\ ca.open
      /\ ca.listed = c.base.listed \ {c.prefix}
      /\ ra \in Actives /\ ra.gen = c.gen /\ ~ra.open
  <2>1. c.base.listed \ {c.prefix} \in SUBSET Entries
    BY <1>t DEF Map
  <2>2. QED
    BY <2>1, <1>f DEF Actives
<1>s. st.newest \in Generation /\ FALSE \in BOOLEAN /\ Fresh(c.gen) \in Actives
    BY <1>t, ActivesTyped
<1>2. ready = Put(st, st.active, st.newest, FALSE)
    BY StoreForms
<1>3. begun = Put(st, fa, st.newest, FALSE)
  <2>1. Begin(ready, c.gen) = Put(st, Fresh(c.gen), st.newest, FALSE)
    <3>1. ready \in Store /\ ready.newest = st.newest /\ ready.admissionFailed = FALSE
          /\ ready.held = st.held /\ ready.running = st.running
        BY DEF Store
    <3> HIDE DEF ready
    <3>2. [ready EXCEPT !.active = Fresh(c.gen)]
            = Put(ready, Fresh(c.gen), ready.newest, ready.admissionFailed)
        BY <3>1, StoreForms
    <3>3. QED
        BY <3>1, <3>2 DEF Put, Begin
  <2> DEFINE w == Put(st, Fresh(c.gen), st.newest, FALSE)
             x == c.base.scan
             y == c.base.unread
             a == [w.active EXCEPT !.scan = x, !.unread = y]
  <2>2. w \in Store /\ w.active = Fresh(c.gen) /\ w.newest = st.newest
        /\ w.admissionFailed = FALSE /\ w.held = st.held /\ w.running = st.running
    <3> DEFINE g == Fresh(c.gen)
    <3>1. g \in Actives
        BY <1>s
    <3> HIDE DEF g
    <3>2. w = Put(st, g, st.newest, FALSE)
        BY DEF g
    <3> HIDE DEF w
    <3>3. QED
        BY <1>s, <3>1, <3>2 DEF Put, Store, Actives, g
  <2>3. x \in Generation /\ y \in SUBSET Entries
    BY <1>t DEF Map
  <2>4. begun = [w EXCEPT !.active.scan = x, !.active.unread = y]
    BY <2>1
  <2> HIDE DEF w, x, y
  <2>5. begun = [w EXCEPT !.active = a]
    BY <2>2, <2>4 DEF Store
  <2>6. a = fa
    BY <2>2 DEF fa, x, y
  <2>7. begun = Put(w, a, w.newest, w.admissionFailed)
    <3> HIDE DEF a, begun
    <3>1. QED
        BY <2>2, <2>5, StoreForms
  <2>8. QED
    BY <2>2, <2>6, <2>7 DEF Put
<1>b. begun \in Store /\ begun.active = fa /\ begun.newest = st.newest
      /\ begun.admissionFailed = FALSE /\ begun.held = st.held /\ begun.running = st.running
    <2> HIDE DEF begun
    <2>1. QED
        BY <1>3, <1>f, <1>s DEF Put, Store, Actives
<1>4. copied = Put(st, ca, st.newest, FALSE)
  <2> DEFINE z == c.base.listed \ {c.prefix}
             a == [begun.active EXCEPT !.listed = z]
  <2> HIDE DEF begun, z
  <2>1. copied = [begun EXCEPT !.active = a]
    BY <1>b DEF Store, z
  <2>2. a = ca
    BY <1>b DEF z
  <2> HIDE DEF a, copied
  <2>3. copied = Put(begun, a, begun.newest, begun.admissionFailed)
    BY <1>b, <2>1, StoreForms
  <2>4. QED
    BY <1>b, <2>2, <2>3 DEF Put
<1>5. refused = Put(st, ra, st.newest, FALSE)
  <2> DEFINE a == [begun.active EXCEPT !.open = FALSE]
  <2> HIDE DEF begun
  <2>1. refused = [begun EXCEPT !.active = a]
    BY <1>b DEF Store
  <2>2. a = ra
    BY <1>b
  <2> HIDE DEF a, refused
  <2>3. refused = Put(begun, a, begun.newest, begun.admissionFailed)
    BY <1>b, <2>1, StoreForms
  <2>4. QED
    BY <1>b, <2>2, <2>3 DEF Put
<1>6. \/ \E n : o = Outcome(ready, Failed("Publication"), n)
      \/ \E n : o = Outcome(refused, Failed("Publication"), n)
      \/ o \in PublishReporting(copied)
    BY <1>1 DEF OverlayFrom
<1> HIDE DEF ready, begun, copied, refused
<1>7. CASE \E n : o = Outcome(ready, Failed("Publication"), n)
    BY <1>2, <1>7 DEF Outcome, Made, No
<1>8. CASE \E n : o = Outcome(refused, Failed("Publication"), n)
  <2>1. Made(st, o, ra, st.newest, No, Failed("Publication"))
    BY <1>5, <1>8 DEF Outcome, Made, No
  <2> HIDE DEF ra
  <2>3. QED
    BY <2>1, <1>a
<1>9. CASE o \in PublishReporting(copied)
  <2> HIDE DEF ca
  <2>2. o \in PublishReporting(Put(st, ca, st.newest, No))
    BY <1>4, <1>9 DEF No
  <2>3. \/ \E outcome \in {"map", "summary"} :
                Made(st, o, NoActive, Newer(st.newest, ca.gen), No,
                     <<Answer("Publication", outcome, MapOf(ca))>>)
        \/ \E b \in Actives :
                /\ Made(st, o, b, st.newest, No, Failed("Publication"))
                /\ b.gen = ca.gen /\ ~b.open
    BY <2>2, <1>a, YesNo, PublishOutcome
  <2>4. QED
    BY <2>3, <1>a
<1>10. QED
    BY <1>6, <1>7, <1>8, <1>9

-----------------------------------------------------------------------------
\* The parts of an outcome.
LEMMA MadeMatches ==
    ASSUME NEW st, NEW su, NEW o, NEW a, NEW n, NEW f, NEW answer, Matches(su, o),
           Made(st, o, a, n, f, answer)
    PROVE  /\ su.active = a /\ su.newest = n /\ su.admissionFailed = f
           /\ su.running = st.running /\ o.answer = answer
    BY DEF Matches, Made, Put

\* p is q with the answer to q[k] in its place.
InPlace(q, p, k, x) ==
    /\ q \in Seq(Messages) /\ p \in Seq(Messages) /\ Len(q) = Len(p) /\ k \in 1..Len(q)
    /\ \A i \in 1..Len(q) : i # k => p[i] = q[i]
    /\ p[k] = x

\* The parts of an answer.
LEMMA Answers1 ==
    /\ \A x : <<x>> # <<>> /\ <<x>>[1] = x
    /\ \A kind, outcome, map : /\ Answer(kind, outcome, map).kind = kind
                               /\ Answer(kind, outcome, map).outcome = outcome
                               /\ Answer(kind, outcome, map).map = map
    BY DEF Answer

\* The store thread applies a command.
LEMMA CoreApplies ==
    ASSUME NEW s, NEW q, NEW p, NEW k, NEW st, NEW su, NEW ev, NEW ex, NEW sc, NEW rep,
           NEW dk, Core(s, q, st, ev, ex, sc, rep, dk), Takes(s, q, k, st),
           NEW o \in Outcomes(st, q[k]), Matches(su, o), InPlace(q, p, k, AnswerOf(o))
    PROVE  Core(s, p, su, ev, ex, sc, rep, dk)
<1> DEFINE c == q[k]
<1>t. c \in Commands /\ st \in Store /\ o \in Outcomes(st, c) /\ s \in Own
    BY DEF Takes
<1>g. StoreGens(s, st) /\ \A i \in 1..Len(q) : Dated(s, st, q[i])
    BY DEF Core, Nearly, Gens
<1>k. k \in 1..Len(q) /\ Len(p) = Len(q) /\ q \in Seq(Messages)
    BY DEF InPlace
<1>q. o.answer = <<>> => p[k] = Silence /\ Neutral(p[k])
    BY AnswersTyped DEF InPlace, AnswerOf
<1>f. \A kind : o.answer = Failed(kind) => p[k].kind = kind /\ p[k].outcome = "error"
    BY Answers1 DEF InPlace, AnswerOf, Failed
<1>th. ASSUME ~IsPub(c), Neutral(p[k]) \/ (p[k].kind = "Failure" /\ Cancels(c))
       PROVE  Thins(q, p, k)
    BY <1>th DEF Thins, InPlace
<1>1. CASE c.kind = "Notes"
  <2>1. PICK a \in Actives :
             /\ Made(st, o, a, st.newest, st.admissionFailed, <<>>)
             /\ a.gen = st.active.gen /\ a.scan = st.active.scan
             /\ a.listed = st.active.listed /\ a.open = st.active.open
             /\ st.active = NoActive => a = NoActive
    BY <1>t, <1>1, NotesOutcome
  <2>2. SameStore(st, su) /\ o.answer = <<>>
    BY <2>1, MadeMatches DEF SameStore
  <2>3. Thins(q, p, k) /\ ~Begins(c)
    BY <2>2, <1>q, <1>th, <1>1 DEF IsPub, Begins
  <2>4. QED
    BY <2>2, <2>3, <1>1, CoreThinsSame
<1>2. CASE c.kind = "Admit"
  <2>1. AdmitFails(st, su) \/ AdmitLists(c, st, su)
    <3>1. \/ st.admissionFailed /\ Made(st, o, st.active, st.newest, Yes, <<>>)
          \/ Made(st, o, st.active, st.newest, Yes, Failed("AdmissionFailed"))
          \/ /\ st.active.open /\ st.active.gen = c.gen
             /\ \E a \in Actives :
                   /\ Made(st, o, a, st.newest, st.admissionFailed, <<>>)
                   /\ a.gen = st.active.gen /\ a.scan = st.active.scan
                   /\ a.listed = st.active.listed \union {c.entry} /\ a.open = st.active.open
        BY <1>t, <1>2, AdmitOutcome
    <3>2. ASSUME NEW answer, Made(st, o, st.active, st.newest, Yes, answer)
          PROVE  AdmitFails(st, su)
      <4>1. /\ su.active = st.active /\ su.newest = st.newest /\ su.admissionFailed = Yes
            /\ su.running = st.running
        BY <3>2, MadeMatches
      <4>2. su.admissionFailed = TRUE
        BY <4>1, YesNo
      <4>3. QED
        BY <4>1, <4>2 DEF AdmitFails
    <3>3. ASSUME NEW a \in Actives, st.active.open, st.active.gen = c.gen,
                 Made(st, o, a, st.newest, st.admissionFailed, <<>>),
                 a.gen = st.active.gen, a.scan = st.active.scan,
                 a.listed = st.active.listed \union {c.entry}, a.open = st.active.open
          PROVE  AdmitLists(c, st, su)
      <4>1. /\ su.active = a /\ su.newest = st.newest
            /\ su.admissionFailed = st.admissionFailed /\ su.running = st.running
        BY <3>3, MadeMatches
      <4>2. a.open
        BY <3>3
      <4>3. QED
        BY <4>1, <4>2, <3>3 DEF AdmitLists
    <3>4. QED
        BY <3>1, <3>2, <3>3
  <2>2. o.answer = <<>> \/ o.answer = Failed("AdmissionFailed")
    BY <1>t, <1>2, AdmitOutcome DEF Made
  <2>3. Thins(q, p, k)
    BY <2>2, <1>q, <1>f, <1>th, <1>2 DEF IsPub, Neutral
  <2>4. QED
    BY <2>1, <2>3, <1>2, CoreAdmits
<1>3. CASE c.kind = "ProvisionalPage"
  <2>1. \E x : o = Outcome(st, <<Answer("ProvisionalPage", x, NoMap)>>, 0)
    BY <1>t, <1>3 DEF Outcomes
  <2>2. PICK x : o.store = st /\ o.answer = <<Answer("ProvisionalPage", x, NoMap)>>
    BY <2>1 DEF Outcome
  <2>3. SameStore(st, su)
    BY <2>2 DEF Matches, SameStore
  <2>4. p[k].kind = "ProvisionalPage"
    BY <2>2, Answers1 DEF InPlace, AnswerOf
  <2>5. Thins(q, p, k) /\ ~Begins(c)
    BY <2>4, <1>th, <1>3 DEF IsPub, Begins, Neutral
  <2>6. QED
    BY <2>3, <2>5, <1>3, CoreThinsSame
<1>4. CASE c.kind = "BeginGeneration"
  <2>1. c.gen > st.active.gen /\ c.gen > st.newest
    BY <1>4, <1>g, <1>k DEF Dated, Begins
  <2>2. c.gen \in Nat
    BY <1>4, <1>t, MessageTyped DEF Messages, Begins
  <2>3. Made(st, o, Fresh(c.gen), st.newest, No, <<>>)
    BY <1>t, <1>4, <2>1, <2>2, BeginOutcome, StoreTyped
  <2>4. Begun1(c, st, su) /\ o.answer = <<>>
    BY <2>3, MadeMatches DEF Begun1
  <2>5. Thins(q, p, k)
    BY <2>4, <1>q, <1>th, <1>4 DEF IsPub
  <2>6. QED
    BY <2>4, <2>5, <1>4, CoreBegins
<1>5. CASE c.kind \in {"DiscardActive", "CancelActive"}
  <2>1. \/ st.active = NoActive /\ Made(st, o, NoActive, st.newest, st.admissionFailed, <<>>)
        \/ /\ st.active # NoActive
           /\ Made(st, o, NoActive, st.active.gen, st.admissionFailed, <<>>)
        \/ /\ c.kind = "CancelActive"
           /\ Made(st, o, NoActive, st.newest, st.admissionFailed, Failed("Failure"))
    BY <1>t, <1>5, RetireOutcome
  <2>2. Clears(st, su)
    BY <2>1, MadeMatches DEF Clears
  <2>3. o.answer = <<>> \/ (c.kind = "CancelActive" /\ o.answer = Failed("Failure"))
    BY <2>1 DEF Made
  <2>4. Thins(q, p, k) /\ ~Begins(c)
    BY <2>3, <1>q, <1>f, <1>th, <1>5 DEF IsPub, Cancels, Begins
  <2>5. QED
    BY <2>2, <2>4, <1>5, CoreClears
<1>p. /\ AnswersFirst(q, k) /\ st.running
      /\ st.active.gen \in Int /\ st.newest \in Int /\ s.latest \in Nat
      /\ s.installed.gen \in Int
    BY <1>t, StoreTyped DEF Takes, Own, Map, Generation, NoGeneration
<1>d. ASSUME su.newest \in Int, su.newest >= st.newest, p[k].kind = "Publication",
             IsMap(p[k]) => p[k].map.gen <= su.newest,
             \A i \in 1..Len(q) : i # k /\ Begins(q[i]) =>
                q[i].gen > su.active.gen /\ q[i].gen > su.newest
      PROVE  \A i \in 1..Len(p) : Dated(s, su, p[i])
  <2>1. SUFFICES ASSUME NEW i \in 1..Len(p) PROVE Dated(s, su, p[i])
    OBVIOUS
  <2>2. CASE i = k
    BY <2>2, <1>d DEF Dated, Begins
  <2>3. CASE i # k
    <3>1. p[i] = q[i] /\ Dated(s, st, q[i]) /\ q[i] \in Messages
        BY <2>3, <1>k, <1>g DEF InPlace
    <3>2. IsMap(q[i]) => q[i].map.gen <= su.newest
        BY <3>1, <1>d, <1>p, MessageTyped DEF Dated
    <3>3. QED
        BY <2>3, <3>1, <3>2, <1>d, <1>k DEF Dated
  <2>4. QED
    BY <2>2, <2>3
<1>6. CASE c.kind = "Publish"
  <2>0. Answered(q, p, k) <=> p[k].kind = "Publication"
    BY <1>6 DEF Answered, InPlace
  <2>b. \A i \in 1..Len(q) : Begins(q[i]) =>
            q[i].gen \in Nat /\ q[i].gen > st.active.gen /\ q[i].gen > st.newest
    BY <1>g, <1>k, MessageTyped DEF Dated
  <2>1. CASE Made(st, o, st.active, st.newest, st.admissionFailed, Failed("Publication"))
    <3>1. /\ su.active = st.active /\ su.newest = st.newest /\ su.running
          /\ p[k].kind = "Publication" /\ ~IsMap(p[k])
        BY <2>1, MadeMatches, <1>f, <1>p DEF IsMap
    <3>2. StoreGens(s, su) /\ \A i \in 1..Len(p) : Dated(s, su, p[i])
        BY <3>1, <1>g, <1>p, <1>d, <2>b DEF StoreGens
    <3>3. QED
        BY <3>1, <3>2, <2>0, <1>t, <1>p, CoreAnswers DEF Handed
  <2>2. ASSUME st.active.open, ~st.admissionFailed, NEW outcome \in {"map", "summary"},
               Made(st, o, NoActive, Newer(st.newest, st.active.gen), st.admissionFailed,
                    <<Answer("Publication", outcome, MapOf(st.active))>>)
        PROVE  Core(s, p, su, ev, ex, sc, rep, dk)
    <3>0. st.active # NoActive /\ st.active.gen > st.newest
        BY <2>2, <1>t, <1>g, StoreTyped DEF StoreGens
    <3>1. su.active = NoActive /\ su.newest = Newer(st.newest, st.active.gen) /\ su.running
        BY <2>2, MadeMatches, <1>p
    <3>2. su.newest = st.active.gen
        BY <3>0, <3>1, <1>p DEF Newer
    <3>3. /\ p[k].kind = "Publication" /\ p[k].map.gen = st.active.gen
          /\ p[k].map.scan = st.active.scan /\ p[k].map.listed = st.active.listed
      <4>1. o.answer = <<Answer("Publication", outcome, MapOf(st.active))>>
        BY <2>2 DEF Made
      <4>2. p[k] = Answer("Publication", outcome, MapOf(st.active))
        BY <4>1, Answers1 DEF InPlace, AnswerOf
      <4>3. QED
        BY <4>2, Answers1 DEF MapOf
    <3>4. su.active.gen = -1 /\ ~su.active.open
        BY <3>1, <1>t, StoreTyped
    <3>5. StoreGens(s, su)
        BY <3>0, <3>1, <3>2, <3>4, <1>g, <1>p DEF StoreGens
    <3>6. \A i \in 1..Len(p) : Dated(s, su, p[i])
        BY <3>0, <3>2, <3>3, <3>4, <1>p, <1>d, <2>b, SMTT(40)
    <3>7. Handed(s, q, p, k, st, dk)
        BY <3>3, <2>2, <1>6 DEF Handed
    <3>8. QED
        BY <3>1, <3>3, <3>4, <3>5, <3>6, <3>7, <2>0, <1>t, <1>p, CoreAnswers
  <2>3. ASSUME NEW b \in Actives, b.gen = st.active.gen, ~b.open, st.active.open,
               Made(st, o, b, st.newest, st.admissionFailed, Failed("Publication"))
        PROVE  Core(s, p, su, ev, ex, sc, rep, dk)
    <3>1. /\ su.active = b /\ su.newest = st.newest /\ su.running
          /\ p[k].kind = "Publication" /\ ~IsMap(p[k])
        BY <2>3, MadeMatches, <1>f, <1>p DEF IsMap
    <3>0. st.active # NoActive
        BY <2>3, <1>t, StoreTyped
    <3>2. StoreGens(s, su) /\ \A i \in 1..Len(p) : Dated(s, su, p[i])
        BY <3>0, <3>1, <2>3, <1>g, <1>p, <1>d, <2>b, SMTT(40) DEF StoreGens
    <3>3. QED
        BY <3>1, <3>2, <2>3, <2>0, <1>t, <1>p, CoreAnswers DEF Handed
  <2>4. QED
    BY <2>1, <2>2, <2>3, <1>t, <1>6, PublishCommandOutcome
<1>7. CASE c.kind = "Overlay"
  <2>0. Answered(q, p, k) <=> p[k].kind = "Publication"
    BY <1>7 DEF Answered, InPlace
  <2>c. c.gen \in Nat /\ c.gen > st.active.gen /\ c.gen > st.newest /\ c.gen <= s.latest
    BY <1>7, <1>t, <1>g, <1>k, MessageTyped DEF Dated, Begins, Messages
  <2>b. \A i \in 1..Len(q) : Begins(q[i]) =>
            q[i].gen \in Nat /\ q[i].gen > st.active.gen /\ q[i].gen > st.newest
    BY <1>g, <1>k, MessageTyped DEF Dated
  <2>a. \A i \in 1..Len(q) : i # k /\ Begins(q[i]) => q[i].gen > c.gen
    <3>1. SUFFICES ASSUME NEW i \in 1..Len(q), i # k, Begins(q[i]) PROVE q[i].gen > c.gen
        OBVIOUS
    <3>2. CASE i < k
      <4>1. i \in 1..(k - 1)
        BY <3>2, <1>k
      <4>2. QED
        BY <4>1, <3>1, <1>p DEF AnswersFirst, AnswerKinds, Begins
    <3>3. CASE i > k
      <4>1. c.gen < q[i].gen
        BY <3>3, <3>1, <1>k, <1>7 DEF Core, Nearly, Gens, Ascending, Begins
      <4>2. QED
        BY <4>1, <3>1, <2>b, <2>c
    <3>4. QED
        BY <3>1, <3>2, <3>3, <1>k
  <2>1. CASE Made(st, o, st.active, st.newest, No, Failed("Publication"))
    <3>1. /\ su.active = st.active /\ su.newest = st.newest /\ su.running
          /\ p[k].kind = "Publication" /\ ~IsMap(p[k])
        BY <2>1, MadeMatches, <1>f, <1>p DEF IsMap
    <3>2. StoreGens(s, su) /\ \A i \in 1..Len(p) : Dated(s, su, p[i])
        BY <3>1, <1>g, <1>p, <1>d, <2>b DEF StoreGens
    <3>3. QED
        BY <3>1, <3>2, <2>0, <1>t, <1>p, CoreAnswers DEF Handed
  <2>2. ASSUME NEW a \in Actives, NEW outcome \in {"map", "summary"},
               a.gen = c.gen, a.scan = c.base.scan, a.listed = c.base.listed \ {c.prefix},
               Made(st, o, NoActive, Newer(st.newest, c.gen), No,
                        <<Answer("Publication", outcome, MapOf(a))>>)
        PROVE  Core(s, p, su, ev, ex, sc, rep, dk)
    <3>1. su.active = NoActive /\ su.newest = Newer(st.newest, c.gen) /\ su.running
        BY <2>2, MadeMatches, <1>p
    <3>2. su.newest = c.gen
        BY <2>c, <3>1, <1>p DEF Newer
    <3>3. /\ p[k].kind = "Publication" /\ p[k].map.gen = c.gen
          /\ p[k].map.scan = c.base.scan /\ p[k].map.listed = c.base.listed \ {c.prefix}
      <4>1. o.answer = <<Answer("Publication", outcome, MapOf(a))>>
        BY <2>2 DEF Made
      <4>2. p[k] = Answer("Publication", outcome, MapOf(a))
        BY <4>1, Answers1 DEF InPlace, AnswerOf
      <4>3. QED
        BY <4>2, <2>2, Answers1 DEF MapOf
    <3>4. su.active.gen = -1 /\ ~su.active.open
        BY <3>1, <1>t, StoreTyped
    <3>5. StoreGens(s, su)
        BY <2>c, <3>1, <3>2, <3>4, <1>g, <1>p DEF StoreGens
    <3>6. \A i \in 1..Len(p) : Dated(s, su, p[i])
        BY <2>c, <3>2, <3>3, <3>4, <1>p, <1>d, <2>a, <2>b
    <3>7. Handed(s, q, p, k, st, dk)
        BY <3>3, <1>7 DEF Handed
    <3>8. QED
        BY <3>1, <3>3, <3>4, <3>5, <3>6, <3>7, <2>0, <1>t, <1>p, CoreAnswers
  <2>3. ASSUME NEW b \in Actives, b.gen = c.gen, ~b.open,
               Made(st, o, b, st.newest, No, Failed("Publication"))
        PROVE  Core(s, p, su, ev, ex, sc, rep, dk)
    <3>1. /\ su.active = b /\ su.newest = st.newest /\ su.running
          /\ p[k].kind = "Publication" /\ ~IsMap(p[k])
        BY <2>3, MadeMatches, <1>f, <1>p DEF IsMap
    <3>2. StoreGens(s, su) /\ \A i \in 1..Len(p) : Dated(s, su, p[i])
        BY <2>c, <3>1, <2>3, <1>g, <1>p, <1>d, <2>a, <2>b DEF StoreGens
    <3>3. QED
        BY <3>1, <3>2, <2>3, <2>0, <1>t, <1>p, CoreAnswers DEF Handed
  <2>4. \/ Made(st, o, st.active, st.newest, No, Failed("Publication"))
        \/ \E b \in Actives :
                /\ Made(st, o, b, st.newest, No, Failed("Publication"))
                /\ b.gen = c.gen /\ ~b.open
        \/ \E a \in Actives, outcome \in {"map", "summary"} :
                /\ a.gen = c.gen /\ a.scan = c.base.scan
                /\ a.listed = c.base.listed \ {c.prefix}
                /\ Made(st, o, NoActive, Newer(st.newest, c.gen), No,
                        <<Answer("Publication", outcome, MapOf(a))>>)
    BY <1>t, <1>7, OverlayOutcome
  <2>5. QED
    BY <2>1, <2>2, <2>3, <2>4
<1>8. c.kind \in {"Notes", "Admit", "ProvisionalPage", "Publish", "BeginGeneration",
                  "DiscardActive", "CancelActive", "Overlay"}
    BY <1>t DEF Commands, PlainCommands, Command
<1>9. QED
    BY <1>1, <1>2, <1>3, <1>4, <1>5, <1>6, <1>7, <1>8

\* The type of an outcome.
LEMMA MadeTyped ==
    ASSUME NEW st \in Store, NEW o, NEW a \in Actives, NEW n \in Generation, NEW f \in BOOLEAN,
           NEW answer, answer = <<>> \/ \E x \in AnswerSet : answer = <<x>>,
           Made(st, o, a, n, f, answer)
    PROVE  OutcomeTyped(st, o)
    BY PutTyped DEF Made, OutcomeTyped

\* The same for every command.
LEMMA OutcomesTyped ==
    ASSUME NEW st \in Store, NEW c \in Commands, NEW o \in Outcomes(st, c)
    PROVE  OutcomeTyped(st, o)
<1>a. /\ st.active \in Actives /\ st.newest \in Generation /\ st.active.gen \in Generation
      /\ st.admissionFailed \in BOOLEAN /\ NoActive \in Actives
      /\ No \in BOOLEAN /\ Yes \in BOOLEAN
    BY ActivesTyped, YesNo DEF Actives
<1>f. \A k \in AnswerKinds : \E x \in AnswerSet : Failed(k) = <<x>>
    BY AnswersTyped
<1>m. \A a \in Actives, outcome \in {"map", "summary"} :
        \E x \in AnswerSet : <<Answer("Publication", outcome, MapOf(a))>> = <<x>>
    BY DEF AnswerSet, AnswerKinds, Answer, MapOf, Actives, Map
<1>n. \A g, h \in Generation : Newer(g, h) \in Generation
    BY DEF Newer
<1>1. CASE c.kind = "Notes"
    BY <1>a, <1>1, NotesOutcome, MadeTyped
<1>2. CASE c.kind = "Admit"
  <2>1. \/ Made(st, o, st.active, st.newest, Yes, <<>>)
        \/ Made(st, o, st.active, st.newest, Yes, Failed("AdmissionFailed"))
        \/ \E a \in Actives : Made(st, o, a, st.newest, st.admissionFailed, <<>>)
    BY <1>2, AdmitOutcome
  <2>2. QED
    BY <2>1, <1>a, <1>f, MadeTyped DEF AnswerKinds
<1>3. CASE c.kind = "ProvisionalPage"
  <2>1. o.store = st /\ \E x \in AnswerSet : o.answer = <<x>>
    BY <1>3, AnswersTyped DEF Outcomes, Outcome, Silence
  <2>2. QED
    BY <2>1 DEF OutcomeTyped
<1>4. CASE c.kind = "Publish"
  <2>1. \/ Made(st, o, st.active, st.newest, st.admissionFailed, Failed("Publication"))
        \/ \E outcome \in {"map", "summary"} :
             Made(st, o, NoActive, Newer(st.newest, st.active.gen), st.admissionFailed,
                  <<Answer("Publication", outcome, MapOf(st.active))>>)
        \/ \E b \in Actives :
             Made(st, o, b, st.newest, st.admissionFailed, Failed("Publication"))
    BY <1>4, PublishCommandOutcome
  <2>2. ASSUME NEW outcome \in {"map", "summary"},
             Made(st, o, NoActive, Newer(st.newest, st.active.gen), st.admissionFailed,
                  <<Answer("Publication", outcome, MapOf(st.active))>>)
        PROVE  OutcomeTyped(st, o)
    <3>1. Newer(st.newest, st.active.gen) \in Generation
        BY <1>a, <1>n
    <3>2. \E x \in AnswerSet : <<Answer("Publication", outcome, MapOf(st.active))>> = <<x>>
        BY <1>a, <1>m
    <3>3. QED
        BY <2>2, <3>1, <3>2, <1>a, MadeTyped
  <2>3. QED
    BY <2>1, <2>2, <1>a, <1>f, MadeTyped DEF AnswerKinds
<1>5. CASE c.kind = "BeginGeneration"
  <2>0. Fresh(c.gen) \in Actives
    BY <1>5, ActivesTyped, MessageTyped DEF Messages, Begins
  <2>1. \/ Made(st, o, Fresh(c.gen), st.newest, No, <<>>)
        \/ Made(st, o, st.active, st.newest, No, Failed("Failure"))
    BY <1>5, BeginOutcome
  <2>2. QED
    BY <2>0, <2>1, <1>a, <1>f, MadeTyped DEF AnswerKinds
<1>6. CASE c.kind \in {"DiscardActive", "CancelActive"}
  <2>1. \/ Made(st, o, NoActive, st.newest, st.admissionFailed, <<>>)
        \/ Made(st, o, NoActive, st.active.gen, st.admissionFailed, <<>>)
        \/ Made(st, o, NoActive, st.newest, st.admissionFailed, Failed("Failure"))
    BY <1>6, RetireOutcome
  <2>2. QED
    BY <2>1, <1>a, <1>f, MadeTyped DEF AnswerKinds
<1>7. CASE c.kind = "Overlay"
  <2>1. \/ Made(st, o, st.active, st.newest, No, Failed("Publication"))
        \/ \E b \in Actives : Made(st, o, b, st.newest, No, Failed("Publication"))
        \/ \E a \in Actives, outcome \in {"map", "summary"} :
                Made(st, o, NoActive, Newer(st.newest, c.gen), No,
                        <<Answer("Publication", outcome, MapOf(a))>>)
    BY <1>7, OverlayOutcome
  <2>2. ASSUME NEW a \in Actives, NEW outcome \in {"map", "summary"},
               Made(st, o, NoActive, Newer(st.newest, c.gen), No,
                        <<Answer("Publication", outcome, MapOf(a))>>)
        PROVE  OutcomeTyped(st, o)
    <3>1. Newer(st.newest, c.gen) \in Generation
      <4>1. c.gen \in Generation
        BY <1>7, MessageTyped DEF Messages, Begins, Generation
      <4>2. QED
        BY <4>1, <1>a, <1>n
    <3>2. \E x \in AnswerSet : <<Answer("Publication", outcome, MapOf(a))>> = <<x>>
        BY <1>m
    <3>3. QED
        BY <2>2, <3>1, <3>2, <1>a, MadeTyped
  <2>3. QED
    BY <2>1, <2>2, <1>a, <1>f, MadeTyped DEF AnswerKinds
<1>8. c.kind \in {"Notes", "Admit", "ProvisionalPage", "Publish", "BeginGeneration",
                  "DiscardActive", "CancelActive", "Overlay"}
    BY DEF Commands, PlainCommands, Command
<1>9. QED
    BY <1>1, <1>2, <1>3, <1>4, <1>5, <1>6, <1>7, <1>8

-----------------------------------------------------------------------------
Prefix(q, p) ==
    q \in Seq(Messages) /\ p \in Seq(Messages) /\ Len(p) <= Len(q)
        /\ \A i \in 1..Len(p) : p[i] = q[i]

\* The thread is lost, and with it what it had not answered.
LEMMA CoreLosesThread ==
    ASSUME NEW s, NEW q, NEW p, NEW st, NEW su, NEW ev, NEW ex, NEW sc, NEW rep, NEW dk,
           Core(s, q, st, ev, ex, sc, rep, dk), Prefix(q, p), ~su.running,
           su.active = st.active, su.newest = st.newest
    PROVE  Core(s, p, su, ev, ex, sc, rep, dk)
<1>0. \A i \in 1..Len(p) : i \in 1..Len(q) /\ p[i] = q[i]
    BY DEF Prefix
<1>1. Gens(s, p, su, ev)
  <2>1. \A i \in 1..Len(p) : Dated(s, su, p[i])
    BY <1>0 DEF Core, Nearly, Gens, Dated
  <2>2. Ascending(p)
    BY <1>0 DEF Core, Nearly, Gens, Ascending
  <2>3. QED
    BY <2>1, <2>2 DEF Core, Nearly, Gens, StoreGens
<1>2. Cancellation(s, p, ev, ex, sc)
    BY <1>0 DEF Core, Nearly, Cancellation
<1>3. ASSUME DoomedOrder(s, q, st, dk)
      PROVE  DoomedOrder(s, p, su, dk)
  <2>1. SUFFICES ASSUME OverlayIsHead(s), NEW i \in 1..Len(p)
                 PROVE  DoomedItem(s, p, i, dk)
    BY DEF DoomedOrder
  <2>2. First(p, i) <=> First(q, i)
    BY <1>0 DEF First, Prefix
  <2>3. QED
    BY <2>1, <2>2, <1>0, <1>3 DEF DoomedOrder, DoomedItem
<1>4. ASSUME Order(s, q, st, dk)
      PROVE  Order(s, p, su, dk)
  <2>1. s.publications = <<>> => NoPub(p)
    BY <1>0, <1>4 DEF Order, NoPub
  <2>2. AtMostOne(p)
    BY <1>0, <1>4 DEF Order, AtMostOne
  <2>3. PubsLast(p)
    BY <1>0, <1>4 DEF Order, PubsLast
  <2>5. \A i \in 1..Len(p) : Carries(s, p[i], dk)
    BY <1>0, <1>4 DEF Order
  <2>6. QED
    BY <2>1, <2>2, <2>3, <2>5 DEF Order, Begun
<1>5. \A g, e : Lists(g, p, su, ev, e) => Lists(g, q, st, ev, e)
    BY <1>0 DEF Lists
<1>6. ASSUME Pipeline(s, q, st, ev, sc, dk)
      PROVE  Pipeline(s, p, su, ev, sc, dk)
  <2>1. \A x : InPipe(s, p, su, x)
    BY DEF InPipe, StoreLost
  <2>2. Working(s) => Admits(s, p)
    BY <1>0, <1>6 DEF Pipeline, Admits
  <2>3. QED
    BY <2>1, <2>2 DEF Pipeline, Delivered
<1>7. ASSUME Regular(s, q, st, ev, sc, rep, dk)
      PROVE  Regular(s, p, su, ev, sc, rep, dk)
  <2>1. HiddenFirst(s, p, su, ev, rep) /\ HiddenRebuild(s, p, su, ev, rep)
    BY <1>5, <1>7 DEF Regular, HiddenFirst, HiddenRebuild
  <2>2. RebuildShrinks(s, p, su, ev)
    BY <1>5, <1>7 DEF Regular, RebuildShrinks
  <2>3. QED
    BY <2>1, <2>2, <1>4, <1>6, <1>7 DEF Regular
<1>8. HiddenOverlay(s, p, rep)
    BY <1>0 DEF Core, HiddenOverlay
<1>9. QED
    BY <1>1, <1>2, <1>3, <1>7, <1>8 DEF Core, Nearly, Mode

\* The answer held back, and whether the thread runs, are no part of the map.
LEMMA CoreSameStore ==
    ASSUME NEW s, NEW q, NEW st, NEW su, NEW ev, NEW ex, NEW sc, NEW rep, NEW dk,
           Core(s, q, st, ev, ex, sc, rep, dk), SameStore(st, su)
    PROVE  Core(s, q, su, ev, ex, sc, rep, dk)
<1> USE DEF SameStore
<1>1. Gens(s, q, su, ev)
    BY DEF Core, Nearly, Gens, StoreGens, Dated
<1>2. DoomedOrder(s, q, st, dk) => DoomedOrder(s, q, su, dk)
    BY DEF DoomedOrder
<1>3. Order(s, q, st, dk) => Order(s, q, su, dk)
    BY DEF Order, Begun
<1>4. \A g, e : Lists(g, q, su, ev, e) => Lists(g, q, st, ev, e)
    BY DEF Lists
<1>5. \A x : InPipe(s, q, st, x) => InPipe(s, q, su, x)
    BY DEF InPipe, StoreLost
<1>6. Pipeline(s, q, st, ev, sc, dk) => Pipeline(s, q, su, ev, sc, dk)
    BY <1>5 DEF Pipeline, Delivered
<1>7. Regular(s, q, st, ev, sc, rep, dk) => Regular(s, q, su, ev, sc, rep, dk)
    BY <1>3, <1>4, <1>6 DEF Regular, HiddenFirst, HiddenRebuild, RebuildShrinks
<1>8. QED
    BY <1>1, <1>2, <1>7 DEF Core, Nearly, Mode

-----------------------------------------------------------------------------
\* The first command is answered in its place, or is gone.
LEMMA Splice ==
    ASSUME NEW x \in Seq(Messages), NEW y \in Seq(Messages), y # <<>>, NEW a \in Messages
    PROVE  /\ InPlace(x \o y, x \o <<a>> \o Tail(y), Len(x) + 1, a)
           /\ Dropped(x \o <<a>> \o Tail(y), x \o Tail(y), Len(x) + 1)
           /\ (x \o y)[Len(x) + 1] = Head(y) /\ Len(x) + 1 \in 1..Len(x \o y)
           /\ \A i \in 1..Len(x) : (x \o y)[i] = x[i]
<1> DEFINE z == Tail(y)
           u == x \o <<a>>
<1>1. z \in Seq(Messages) /\ Len(y) = Len(z) + 1 /\ \A i \in 1..Len(z) : z[i] = y[i + 1]
    OBVIOUS
<1>2. u \in Seq(Messages) /\ Len(u) = Len(x) + 1 /\ u[Len(u)] = a
      /\ \A i \in 1..Len(x) : u[i] = x[i]
    OBVIOUS
<1> HIDE DEF z, u
<1> DEFINE q == x \o y
           p == u \o z
           d == x \o z
<1>3. q \in Seq(Messages) /\ Len(q) = Len(x) + Len(y) /\ (\A i \in 1..Len(x) : q[i] = x[i])
      /\ \A i \in (Len(x) + 1)..(Len(x) + Len(y)) : q[i] = y[i - Len(x)]
    BY Cat
<1>4. p \in Seq(Messages) /\ Len(p) = Len(u) + Len(z) /\ (\A i \in 1..Len(u) : p[i] = u[i])
      /\ \A i \in (Len(u) + 1)..(Len(u) + Len(z)) : p[i] = z[i - Len(u)]
    BY <1>1, <1>2, Cat
<1>5. d \in Seq(Messages) /\ Len(d) = Len(x) + Len(z) /\ (\A i \in 1..Len(x) : d[i] = x[i])
      /\ \A i \in (Len(x) + 1)..(Len(x) + Len(z)) : d[i] = z[i - Len(x)]
    BY <1>1, Cat
<1> HIDE DEF p, q, d
<1>l. Len(x) \in Nat /\ Len(z) \in Nat /\ Len(y) \in Nat /\ Len(u) \in Nat
    BY <1>1, <1>2
<1>6. p[Len(x) + 1] = a /\ Len(q) = Len(p) /\ Len(p) = Len(d) + 1
      /\ Len(x) + 1 \in 1..Len(q)
    BY <1>1, <1>2, <1>3, <1>4, <1>5, <1>l
<1>7. \A i \in 1..Len(q) : i # Len(x) + 1 => p[i] = q[i]
  <2>1. SUFFICES ASSUME NEW i \in 1..Len(q), i # Len(x) + 1 PROVE p[i] = q[i]
    OBVIOUS
  <2>2. CASE i \in 1..Len(x)
    BY <2>2, <1>2, <1>3, <1>4, <1>l
  <2>3. CASE i \in (Len(x) + 2)..Len(q)
    <3>1. i - Len(u) \in 1..Len(z) /\ (i - Len(u)) + 1 = i - Len(x)
        BY <2>3, <1>1, <1>2, <1>3, <1>l
    <3>2. p[i] = z[i - Len(u)] /\ q[i] = y[i - Len(x)]
        BY <2>3, <1>1, <1>2, <1>3, <1>4, <1>l
    <3>3. QED
        BY <3>1, <3>2, <1>1
  <2>4. QED
    BY <2>1, <2>2, <2>3, <1>3, <1>l
<1>8. \A i \in 1..Len(d) : d[i] = IF i < Len(x) + 1 THEN p[i] ELSE p[i + 1]
  <2>1. SUFFICES ASSUME NEW i \in 1..Len(d)
                 PROVE  d[i] = IF i < Len(x) + 1 THEN p[i] ELSE p[i + 1]
    OBVIOUS
  <2>2. CASE i \in 1..Len(x)
    BY <2>2, <1>2, <1>4, <1>5, <1>l
  <2>3. CASE i \in (Len(x) + 1)..Len(d)
    <3>1. /\ i \in (Len(x) + 1)..(Len(x) + Len(z)) /\ i + 1 \in (Len(u) + 1)..(Len(u) + Len(z))
          /\ (i + 1) - Len(u) = i - Len(x) /\ ~(i < Len(x) + 1)
        BY <2>3, <1>2, <1>5, <1>l
    <3>2. d[i] = z[i - Len(x)]
        BY <3>1, <1>5
    <3>3. p[i + 1] = z[(i + 1) - Len(u)]
        BY <3>1, <1>4
    <3>4. QED
        BY <3>1, <3>2, <3>3
  <2>4. QED
    BY <2>1, <2>2, <2>3, <1>5, <1>l
<1>9. InPlace(q, p, Len(x) + 1, a)
    BY <1>3, <1>4, <1>6, <1>7 DEF InPlace
<1>10. Dropped(p, d, Len(x) + 1)
    BY <1>4, <1>5, <1>6, <1>8 DEF Dropped
<1>11. q[Len(x) + 1] = Head(y)
  <2>1. q[Len(x) + 1] = y[1]
    BY <1>1, <1>3, <1>l
  <2>2. QED
    BY <2>1
<1>12. QED
    BY <1>3, <1>6, <1>9, <1>10, <1>11 DEF p, q, d, u, z

\* Sequences of answers.
LEMMA AnswerSequences ==
    /\ <<>> \in Seq(AnswerSet)
    /\ \A a \in AnswerSet : <<a>> \in Seq(AnswerSet) /\ a.kind \in AnswerKinds
    /\ \A x, y \in Seq(AnswerSet) : x \o y \in Seq(AnswerSet) /\ x \o <<>> = x
    /\ \A x \in Seq(AnswerSet) : \A i \in 1..Len(x) : x[i].kind \in AnswerKinds
<1>1. \A a \in AnswerSet : a.kind \in AnswerKinds
    BY DEF AnswerSet
<1> HIDE DEF AnswerSet, AnswerKinds
<1>2. \A x \in Seq(AnswerSet) : \A i \in 1..Len(x) : x[i] \in AnswerSet
    OBVIOUS
<1>3. QED
    BY <1>1, <1>2

Holding(st, h) == [st EXCEPT !.held = h]
Lost(st) == [st EXCEPT !.running = FALSE, !.held = <<>>]

\* The store with an answer held back, and the store that stopped.
LEMMA StoreFields ==
    \A st \in Store : \A h \in Seq(AnswerSet) :
        LET t == Holding(st, h)
            u == Lost(st)
        IN  /\ t \in Store /\ SameStore(st, t) /\ t.held = h /\ t.running = st.running
            /\ t.active = st.active /\ t.newest = st.newest
            /\ t.admissionFailed = st.admissionFailed
            /\ u \in Store /\ u.active = st.active /\ u.newest = st.newest
            /\ u.held = <<>> /\ ~u.running
<1> DEFINE A == Seq(AnswerSet)
           G == [gen : Generation, scan : Generation, listed : SUBSET Entries,
               unread : SUBSET Entries, open : BOOLEAN]
<1>1. Store = [active : G, newest : Generation, admissionFailed : BOOLEAN, held : A,
             running : BOOLEAN] /\ <<>> \in A
    BY AnswerSequences DEF Store
<1> HIDE DEF A, G
<1>2. SUFFICES ASSUME NEW st \in Store, NEW h \in A
               PROVE  LET t == Holding(st, h)
                          u == Lost(st)
                      IN  /\ t \in Store /\ SameStore(st, t) /\ t.held = h
                          /\ t.running = st.running
                          /\ t.active = st.active /\ t.newest = st.newest
                          /\ t.admissionFailed = st.admissionFailed
                          /\ u \in Store /\ u.active = st.active /\ u.newest = st.newest
                          /\ u.held = <<>> /\ ~u.running
    BY DEF A
<1> DEFINE t == Holding(st, h)
           u == Lost(st)
<1>3. t \in Store /\ t.held = h /\ t.running = st.running /\ SameStore(st, t)
      /\ t.active = st.active /\ t.newest = st.newest
      /\ t.admissionFailed = st.admissionFailed
    BY <1>1 DEF SameStore, Holding
<1>4. u \in Store
    BY <1>1 DEF Lost
<1>5. u.active = st.active /\ u.newest = st.newest /\ u.held = <<>> /\ ~u.running
    BY <1>1 DEF Lost
<1>6. QED
    BY <1>3, <1>4, <1>5

\* A step of the store thread.
LEMMA StoreStepCore ==
    ASSUME TypeOK, NEW s \in Own, NEW ev, NEW ex, NEW sc, NEW rep, NEW dk,
           Core(s, Flight, store, ev, ex, sc, rep, dk),
           Apply \/ SendHeld \/ ThreadStops
    PROVE  /\ Core(s, Flight', store', ev, ex, sc, rep, dk)
           /\ store' \in Store /\ commands' \in Seq(Commands) /\ results' \in Seq(AnswerSet)
<1>t. /\ store \in Store /\ store.held \in Seq(AnswerSet) /\ commands \in Seq(Commands)
      /\ results \in Seq(AnswerSet) /\ results \in Seq(Messages)
      /\ commands \in Seq(Messages) /\ store.held \in Seq(Messages)
    BY Subsequences DEF TypeOK, Store
<1>1. CASE Apply
  <2>0. store.running /\ store.held = <<>> /\ commands # <<>> /\ commands' = Tail(commands)
    BY <1>1 DEF Apply
  <2>1. PICK o \in Outcomes(store, Head(commands)) :
            IF RoomForResult
            THEN results' = results \o o.answer /\ store' = o.store
            ELSE results' = results /\ store' = [o.store EXCEPT !.held = o.answer]
    BY <1>1 DEF Apply
  <2> DEFINE k == Len(results) + 1
             a == AnswerOf(o)
             q == results \o commands
             tail == Tail(commands)
             p == results \o <<a>> \o tail
             d == results \o tail
  <2>c. Head(commands) \in Commands /\ tail \in Seq(Commands) /\ tail \in Seq(Messages)
    BY <2>0, <1>t, Subsequences
  <2>2. OutcomeTyped(store, o)
    BY <2>c, <1>t, OutcomesTyped
  <2>3. a \in AnswerSet /\ a \in Messages
    BY <2>2, AnswersTyped, Answers1 DEF OutcomeTyped, AnswerOf, Messages
  <2>4. /\ InPlace(q, p, k, a) /\ Dropped(p, d, k) /\ q[k] = Head(commands)
        /\ k \in 1..Len(q) /\ \A i \in 1..Len(results) : q[i] = results[i]
    <3> HIDE DEF a
    <3>1. QED
        BY <2>0, <2>3, <1>t, Splice
  <2>5. Flight = q
    BY <2>0, <1>t DEF Flight
  <2>6. Takes(s, q, k, store)
    <3>1. q \in Seq(Messages)
        BY <1>t, Cat
    <3>2. AnswersFirst(q, k)
      <4>1. \A i \in 1..Len(results) : results[i].kind \in AnswerKinds
        BY <1>t, AnswerSequences
      <4>2. k - 1 = Len(results)
        BY <1>t
      <4>3. QED
        BY <4>1, <4>2, <2>4 DEF AnswersFirst
    <3>3. QED
        BY <3>1, <3>2, <2>0, <2>c, <2>4, <1>t DEF Takes
  <2>7. Matches(store', o) /\ store' \in Store /\ store'.running
        /\ store'.held = IF RoomForResult THEN <<>> ELSE o.answer
    <3>1. o.store \in Store /\ o.store.held = <<>> /\ o.store.running /\ o.answer \in Seq(AnswerSet)
        BY <2>0, <2>2, AnswerSequences DEF OutcomeTyped
    <3>2. CASE RoomForResult
        BY <2>1, <3>1, <3>2 DEF Matches
    <3>3. CASE ~RoomForResult
      <4>1. store' = Holding(o.store, o.answer)
        BY <2>1, <3>3 DEF Holding
      <4>2. QED
        BY <4>1, <3>1, <3>3, StoreFields DEF Matches
    <3>4. QED
        BY <3>2, <3>3
  <2>8. Core(s, p, store', ev, ex, sc, rep, dk)
    BY <2>1, <2>4, <2>5, <2>6, <2>7, CoreApplies
  <2>r. results' \o store'.held = results \o o.answer /\ results' \in Seq(AnswerSet)
    <3>1. o.answer \in Seq(AnswerSet)
        BY <2>2, AnswerSequences DEF OutcomeTyped
    <3>2. CASE RoomForResult
      <4>1. results' = results \o o.answer /\ store'.held = <<>>
        BY <2>1, <2>7, <3>2
      <4>2. results' \in Seq(AnswerSet)
        BY <4>1, <3>1, <1>t, AnswerSequences
      <4>3. QED
        BY <4>1, <4>2
    <3>3. CASE ~RoomForResult
        BY <2>1, <2>7, <3>3, <1>t
    <3>4. QED
        BY <3>2, <3>3
  <2>f. Flight' = (results \o o.answer) \o tail
    BY <2>r, <2>7, <2>0 DEF Flight
  <2>9. CASE o.answer = <<>>
    <3>1. Flight' = d
        BY <2>9, <2>f, <1>t
    <3>2. p[k] = Silence
        BY <2>9, <2>4 DEF InPlace, AnswerOf
    <3>3. Core(s, d, store', ev, ex, sc, rep, dk)
      <4> HIDE DEF p, d, k
      <4>1. QED
        BY <2>8, <2>4, <3>2, AnswersTyped, CoreDrops
    <3>4. QED
        BY <3>1, <3>3, <2>0, <2>c, <2>7, <2>r
  <2>10. CASE o.answer # <<>>
    <3>1. o.answer = <<a>>
        BY <2>2, <2>10, Answers1 DEF OutcomeTyped, AnswerOf
    <3>2. Flight' = p
        BY <3>1, <2>f
    <3>3. QED
        BY <3>2, <2>8, <2>0, <2>c, <2>7, <2>r
  <2>11. QED
    BY <2>9, <2>10
<1>2. CASE SendHeld
  <2>1. /\ store.running /\ results' = results \o store.held /\ commands' = commands
        /\ store' = [store EXCEPT !.held = <<>>]
    BY <1>2 DEF SendHeld
  <2>2. store' \in Store /\ store'.held = <<>> /\ SameStore(store, store') /\ store'.running
    <3>1. store' = Holding(store, <<>>)
        BY <2>1 DEF Holding
    <3>2. QED
      <4> DEFINE h == <<>>
      <4>1. h \in Seq(AnswerSet) /\ store' = Holding(store, h)
        BY <3>1, AnswerSequences
      <4> HIDE DEF h
      <4>2. store' \in Store /\ store'.held = h /\ SameStore(store, store')
            /\ store'.running = store.running
        BY <4>1, <1>t, StoreFields
      <4>3. QED
        BY <4>2, <2>1 DEF h
  <2>3. results' \in Seq(AnswerSet)
    BY <2>1, <1>t
  <2>4. Flight' = Flight
    <3>1. results \o store.held \o <<>> = results \o store.held
        BY <1>t
    <3>2. QED
        BY <2>1, <2>2, <3>1 DEF Flight
  <2>5. QED
    BY <2>1, <2>2, <2>3, <2>4, <1>t, CoreSameStore
<1>3. CASE ThreadStops
  <2>1. /\ store.running /\ results' = results /\ commands' = commands
        /\ store' = [store EXCEPT !.running = FALSE, !.held = <<>>]
    BY <1>3 DEF ThreadStops
  <2>2. store' \in Store /\ ~store'.running /\ store'.active = store.active
        /\ store'.newest = store.newest
    <3>1. store' = Lost(store)
        BY <2>1 DEF Lost
    <3>2. QED
        BY <3>1, <1>t, AnswerSequences, StoreFields
  <2>3. Flight' = results
    BY <2>1, <2>2 DEF Flight
  <2>4. Prefix(Flight, results)
    <3> DEFINE x == results \o store.held
    <3>1. x \in Seq(Messages) /\ Len(x) = Len(results) + Len(store.held)
          /\ \A i \in 1..Len(results) : x[i] = results[i]
        BY <1>t, Cat
    <3> HIDE DEF x
    <3> DEFINE f == x \o commands
    <3>2. f \in Seq(Messages) /\ Len(f) = Len(x) + Len(commands)
          /\ \A i \in 1..Len(x) : f[i] = x[i]
        BY <3>1, <1>t, Cat
    <3>3. Flight = f
        BY <2>1 DEF Flight, x
    <3> HIDE DEF f
    <3>4. Len(results) \in Nat /\ Len(store.held) \in Nat /\ Len(commands) \in Nat
        BY <1>t
    <3>5. QED
        BY <3>1, <3>2, <3>3, <3>4, <1>t, SMTT(40) DEF Prefix
  <2>5. QED
    BY <2>1, <2>2, <2>3, <2>4, <1>t, CoreLosesThread
<1>4. QED
    BY <1>1, <1>2, <1>3

-----------------------------------------------------------------------------
(***************************************************************************)
(* What the owner's operators do.                                          *)
(***************************************************************************)
LEMMA DiscardEffect ==
    ASSUME NEW s \in Own, NEW r \in Seq(Messages), Typed
    PROVE  LET t == HandleDiscard(s)
           IN  t \in Own /\ Same(s, t) /\ t.live = s.live /\ t.excused = s.excused
               /\ Quiet(Fly(r, s), Fly(r, t))
<1> DEFINE c == Command("DiscardActive")
           u == [s EXCEPT !.accepting = NoGeneration]
           v == Send(u, c)
<1>1. u \in Own /\ Same(s, u) /\ u.sent = s.sent /\ u.live = s.live /\ u.excused = s.excused
    BY DEF Own, Same, SameJob, SamePublications, SameFlags, SameMap, Generation
<1>2. c \in Commands /\ Neutral(c)
    BY PlainTyped DEF Neutral
<1>3. HandleDiscard(s) = v
    BY DEF HandleDiscard
<1> HIDE DEF u, c
<1>4. v \in Own /\ Same(u, v) /\ v.live = u.live /\ v.excused = u.excused
    BY <1>1, <1>2, SendEffect
<1>5. Grows(Fly(r, u), Fly(r, v), c, Reaches(u))
    BY <1>1, <1>2, SendGrows
<1>6. Quiet(Fly(r, u), Fly(r, v))
    BY <1>2, <1>5, GrowsQuiet
<1>7. Fly(r, u) = Fly(r, s)
    BY <1>1 DEF Fly
<1> HIDE DEF v
<1>8. QED
    BY <1>1, <1>3, <1>4, <1>6, <1>7 DEF Same, SameJob, SamePublications, SameFlags, SameMap

\* abandon_scan_store_generation clears the removals.
LEMMA AbandonClears ==
    ASSUME NEW s \in Own, Typed
    PROVE  Abandon(s).prefixes = <<>> /\ ~Abandon(s).rebuild
<1> DEFINE v == HandleDiscard(s)
           w == [v EXCEPT !.available = FALSE]
<1>1. v \in Own
  <2>1. <<>> \in Seq(Messages)
    OBVIOUS
  <2>2. QED
    BY <2>1, DiscardEffect
<1>2. Abandon(s) = ClearRemovals(w)
    BY DEF Abandon
<1> HIDE DEF v
<1>3. w \in Own
    BY <1>1 DEF Own
<1> HIDE DEF w
<1>4. QED
    BY <1>2, <1>3, ClearRemovalsEffect

\* invalidate_snapshot_view_for_live_mutation.
LEMMA InvalidateEffect ==
    ASSUME NEW s \in Own, NEW r \in Seq(Messages), Typed
    PROVE  LET t == Invalidate(s)
           IN  t \in Own /\ Invalidates(s, t) /\ Quiet(Fly(r, s), Fly(r, t)) /\ ~t.excused
<1> DEFINE v == HandleDiscard(s)
           kept == CanRetainSnapshot(s)
           live == v.live \/ ~kept
           inv == v.invalidated \/ s.active
           w == [v EXCEPT !.available = kept, !.live = live, !.invalidated = inv,
                          !.suppressed = No, !.required = Yes]
           t == Invalidate(s)
<1>1. v \in Own /\ Same(s, v) /\ Quiet(Fly(r, s), Fly(r, v))
    BY DiscardEffect
<1>2. t = ClearRemovals(w)
    BY DEF Invalidate, No, Yes
<1>3. kept \in BOOLEAN /\ (kept => s.installed # NoMap)
    BY DEF CanRetainSnapshot
<1>4. live \in BOOLEAN /\ inv \in BOOLEAN /\ inv = (s.invalidated \/ s.active)
    BY <1>1, <1>3 DEF Own, Same, SameFlags
<1> HIDE DEF v, kept, live, inv, t
<1>5. w \in Own
  <2> DEFINE w1 == [v EXCEPT !.available = kept, !.live = live]
             w2 == [w1 EXCEPT !.invalidated = inv]
             w3 == [w2 EXCEPT !.suppressed = No, !.required = Yes]
  <2>0. inv \in BOOLEAN /\ No \in BOOLEAN /\ Yes \in BOOLEAN
    BY <1>4, YesNo
  <2>1. w1 \in Own
    BY <1>1, <1>3, <1>4 DEF Own
  <2>2. w = w3
    BY <1>1 DEF Own
  <2> HIDE DEF w1, w
  <2>3. w2 \in Own
    BY <2>0, <2>1 DEF Own
  <2> HIDE DEF w2
  <2>4. w3 \in Own
    BY <2>0, <2>3, ZenonT(60) DEF Own
  <2>5. QED
    BY <2>2, <2>4
<1>6. /\ SameJob(v, w) /\ SamePublications(v, w) /\ SameMap(v, w) /\ w.sent = v.sent
      /\ w.required /\ ~w.suppressed /\ w.invalidated = inv /\ w.available = kept
    BY <1>1, YesNo DEF Own, SameJob, SamePublications, SameMap
<1> HIDE DEF w
<1>7. /\ t \in Own /\ SameJob(w, t) /\ SamePublications(w, t) /\ SameMap(w, t)
      /\ t.required = w.required /\ t.invalidated = w.invalidated
      /\ t.suppressed = w.suppressed /\ t.available = w.available
      /\ t.prefixes = <<>> /\ ~t.rebuild /\ t.sent = w.sent
    BY <1>5, <1>2, ClearRemovalsEffect
<1>8. ~t.excused
    BY <1>2, <1>5 DEF ClearRemovals, Own
<1>9. Invalidates(s, t)
    BY <1>1, <1>3, <1>4, <1>6, <1>7
       DEF Invalidates, Same, SameJob, SamePublications, SameFlags, SameMap
<1>10. Fly(r, t) = Fly(r, v)
    BY <1>6, <1>7 DEF Fly
<1>11. QED
    BY <1>1, <1>7, <1>8, <1>9, <1>10 DEF t

\* The map is lost, or nothing happened that the invariant speaks of.
Keeps(s, t) == Fails(s, t) /\ (t.available => t.excused = s.excused)

\* An owner that is the same keeps its map.
LEMMA SameKeeps ==
    ASSUME NEW s, NEW t, Same(s, t), t.excused = s.excused
    PROVE  Keeps(s, t)
    BY DEF Keeps, Fails, Same, SameJob, SamePublications, SameFlags, SameMap

\* Keeping the map twice is keeping it.
LEMMA KeepsChain ==
    ASSUME NEW s, NEW t, NEW u, Keeps(s, t), Keeps(t, u)
    PROVE  Keeps(s, u)
    BY DEF Keeps, Fails, SameJob, SamePublications, SameMap

\* request_provisional_page.
LEMMA RequestPageEffect ==
    ASSUME NEW s \in Own, NEW r \in Seq(Messages), Typed
    PROVE  LET t == RequestPage(s)
           IN  t \in Own /\ Keeps(s, t) /\ Quiet(Fly(r, s), Fly(r, t))
<1> DEFINE c == Command("ProvisionalPage")
           ask(p) == [s EXCEPT !.page = p]
           t == RequestPage(s)
<1>1. c \in Commands /\ Neutral(c)
    BY PlainTyped DEF Neutral
<1>2. \A p \in {"asked", "again"} :
        ask(p) \in Own /\ Same(s, ask(p)) /\ ask(p).sent = s.sent /\ ask(p).excused = s.excused
    BY ZenonT(60) DEF Own, Same, SameJob, SamePublications, SameFlags, SameMap
<1>3. \A u \in Own :
        /\ Send(u, c) \in Own /\ Keeps(u, Send(u, c))
        /\ Quiet(Fly(r, u), Fly(r, Send(u, c)))
  <2> SUFFICES ASSUME NEW u \in Own
               PROVE  /\ Send(u, c) \in Own /\ Keeps(u, Send(u, c))
                      /\ Quiet(Fly(r, u), Fly(r, Send(u, c)))
    OBVIOUS
  <2> HIDE DEF c
  <2>1. Send(u, c) \in Own /\ Keeps(u, Send(u, c))
    BY <1>1, SendEffect, SameKeeps
  <2>2. Grows(Fly(r, u), Fly(r, Send(u, c)), c, Reaches(u))
    BY <1>1, SendGrows
  <2>3. QED
    BY <1>1, <2>1, <2>2, GrowsQuiet
<1>4. \A p \in {"asked", "again"} :
        Keeps(s, ask(p)) /\ Quiet(Fly(r, s), Fly(r, ask(p)))
    BY <1>2, SameKeeps, QuietSame
<1>5. \/ t = ask("again") \/ t = Send(ask("asked"), c) \/ t = Send(s, c)
    BY DEF RequestPage
<1> HIDE DEF ask, c, t
<1>6. CASE t = ask("again")
    BY <1>6, <1>2, <1>4 DEF t
<1>7. CASE t = Send(ask("asked"), c)
    BY <1>7, <1>2, <1>3, <1>4, KeepsChain, QuietChain DEF t
<1>8. CASE t = Send(s, c)
    BY <1>8, <1>3 DEF t
<1>9. QED
    BY <1>5, <1>6, <1>7, <1>8

\* fail_scan_store keeps the map on screen.
LEMMA FailStoreKeeps ==
    ASSUME NEW s \in Own, NEW r \in Seq(Messages), Typed
    PROVE  LET t == FailStore(s)
           IN  t \in Own /\ Keeps(s, t) /\ Quiet(Fly(r, s), Fly(r, t)) /\ ~t.available
    BY FailStoreEffect DEF Keeps

\* A live page arrives.
LEMMA PageArrivesEffect ==
    ASSUME NEW s \in Own, NEW a, NEW r \in Seq(Messages), Typed
    PROVE  LET t == PageArrives(s, a)
           IN  t \in Own /\ Keeps(s, t) /\ Quiet(Fly(r, s), Fly(r, t))
<1> DEFINE u == [s EXCEPT !.page = "none"]
           v == IF s.page = "again" THEN RequestPage(u) ELSE u
           t == PageArrives(s, a)
<1>1. u \in Own /\ Same(s, u) /\ u.sent = s.sent /\ u.excused = s.excused
    BY DEF Own, Same, SameJob, SamePublications, SameFlags, SameMap
<1>2. t = v \/ t = FailStore(v)
    BY DEF PageArrives
<1> HIDE DEF u, t
<1>3. Keeps(s, u) /\ Quiet(Fly(r, s), Fly(r, u))
    BY <1>1, SameKeeps, QuietSame
<1>4. v \in Own /\ Keeps(s, v) /\ Quiet(Fly(r, s), Fly(r, v))
  <2>1. CASE s.page = "again"
    <3>1. v = RequestPage(u)
        BY <2>1
    <3> HIDE DEF v
    <3>2. v \in Own /\ Keeps(u, v) /\ Quiet(Fly(r, u), Fly(r, v))
        BY <1>1, <3>1, RequestPageEffect
    <3>3. QED
        BY <1>3, <3>2, KeepsChain, QuietChain
  <2>2. CASE s.page # "again"
    BY <1>1, <1>3, <2>2
  <2>3. QED
    BY <2>1, <2>2
<1> HIDE DEF v
<1>5. CASE t = v
    BY <1>5, <1>4 DEF t
<1>6. CASE t = FailStore(v)
  <2>1. t \in Own /\ Keeps(v, t) /\ Quiet(Fly(r, v), Fly(r, t))
    BY <1>6, <1>4, FailStoreKeeps
  <2>2. QED
    BY <1>4, <2>1, KeepsChain, QuietChain DEF t
<1>7. QED
    BY <1>2, <1>5, <1>6

-----------------------------------------------------------------------------
\* q has grown to p by notes, and by c behind them.
Gains(q, p, c) ==
    /\ q \in Seq(Messages) /\ p \in Seq(Messages) /\ Len(q) < Len(p)
    /\ \A i \in 1..Len(q) : p[i] = q[i]
    /\ p[Len(p)] = c
    /\ \A i \in (Len(q) + 1)..(Len(p) - 1) : p[i].kind = "Notes"

\* A command that fits is the last in flight.
LEMMA GrowsGains ==
    ASSUME NEW q, NEW p, NEW c, NEW reached, Grows(q, p, c, reached), reached
    PROVE  Gains(q, p, c)
    BY DEF Grows, Gains

\* An overlay of the first prefix is asked for.
Overlays(s, t) ==
    /\ t.primaryScan = s.primaryScan /\ t.lease = s.lease /\ t.loaded = s.loaded
    /\ t.active = s.active /\ t.latest = s.latest + 1 /\ t.epoch = s.latest + 1
    /\ t.finished = s.finished /\ t.publications = <<"Overlay">>
    /\ t.available = s.available /\ t.required = s.required
    /\ t.invalidated = s.invalidated /\ t.suppressed = s.suppressed
    /\ t.prefixes = Tail(s.prefixes) /\ t.rebuild = s.rebuild
    /\ t.excused = s.excused /\ SameMap(s, t)
OverlayOf(s, c) ==
    /\ c \in Commands /\ c.kind = "Overlay" /\ c.gen = s.latest + 1
    /\ c.prefix = Head(s.prefixes) /\ c.base = s.installed

\* What becomes of the removal that waits longest.
OverlayStarts(s, t, q, p) ==
    \/ ~OverlayMayStart(s) /\ t = s /\ p = q
    \/ OverlayMayStart(s) /\ Invalidates(s, t) /\ Quiet(q, p) /\ ~t.excused
    \/ OverlayMayStart(s) /\ Overlays(s, t) /\ \E c : OverlayOf(s, c) /\ Gains(q, p, c)

\* The head and the tail of the removals recorded.
LEMMA PrefixesTyped ==
    \A x \in Seq(Entries) : x # <<>> =>
        /\ Head(x) \in Entries /\ Tail(x) \in Seq(Entries)
        /\ ToSet(Tail(x)) \subseteq Entries
    BY DEF ToSet

\* start_next_removal_overlay.
LEMMA StartNextOverlayEffect ==
    ASSUME NEW s \in Own, NEW r \in Seq(Messages), Typed
    PROVE  LET t == StartNextOverlay(s)
           IN  t \in Own /\ OverlayStarts(s, t, Fly(r, s), Fly(r, t))
<1> DEFINE t == StartNextOverlay(s)
<1>1. CASE ~OverlayMayStart(s)
    BY <1>1 DEF StartNextOverlay, OverlayStarts
<1>2. CASE OverlayMayStart(s)
  <2> DEFINE prefix == Head(s.prefixes)
             rest == Tail(s.prefixes)
             next == NextGeneration(s)
             fewer == IF s.beforeMap > 0 THEN s.beforeMap - 1 ELSE 0
             verify == s.beforeMap > 0
             u == [s EXCEPT !.prefixes = rest, !.beforeMap = fewer]
             c == Overlay(next, prefix, ToSet(rest), verify, s.installed)
             v == Send(u, c)
             pubs == Append(v.publications, "Overlay")
             w == [v EXCEPT !.accepting = NoGeneration, !.latest = next,
                            !.publications = pubs, !.epoch = next]
  <2>1. t = IF ~Reaches(u) THEN Invalidate(v) ELSE w
    BY <1>2 DEF StartNextOverlay
  <2>2. prefix \in Entries /\ rest \in Seq(Entries) /\ ToSet(rest) \subseteq Entries
    BY <1>2, PrefixesTyped DEF OverlayMayStart, Own
  <2>3. next \in Nat /\ next = s.latest + 1 /\ fewer \in Nat /\ s.installed \in Map
    BY DEF NextGeneration, Own
  <2>4. verify \in BOOLEAN
    BY DEF Own
  <2>5. c \in Commands /\ OverlayOf(s, c)
    <3> HIDE DEF next, verify
    <3>1. c \in Commands
      <4> HIDE DEF prefix, rest
      <4>1. s.installed \in Map
        BY <2>3
      <4>2. ToSet(rest) \in SUBSET Entries
        BY <2>2
      <4>3. QED
        BY <2>2, <2>3, <2>4, <4>1, <4>2 DEF Commands, Overlay
    <3>2. QED
        BY <3>1, <2>3 DEF OverlayOf, Overlay
  <2> HIDE DEF rest, fewer, c, next
  <2>6. u \in Own
    BY <2>2, <2>3 DEF Own
  <2>7. /\ SameJob(s, u) /\ SamePublications(s, u) /\ SameMap(s, u) /\ u.sent = s.sent
        /\ u.available = s.available /\ u.required = s.required
        /\ u.invalidated = s.invalidated /\ u.suppressed = s.suppressed
        /\ u.prefixes = rest /\ u.rebuild = s.rebuild /\ u.excused = s.excused
    BY DEF Own, SameJob, SamePublications, SameMap
  <2> HIDE DEF u
  <2>8. v \in Own /\ Same(u, v) /\ v.excused = u.excused
    BY <2>5, <2>6, SendEffect
  <2>9. Grows(Fly(r, u), Fly(r, v), c, Reaches(u))
    BY <2>5, <2>6, SendGrows
  <2>10. Fly(r, u) = Fly(r, s)
    BY <2>7 DEF Fly
  <2> HIDE DEF v, t
  <2>11. CASE ~Reaches(u)
    <3>1. t = Invalidate(v)
        BY <2>1, <2>11
    <3>2. t \in Own /\ Invalidates(v, t) /\ Quiet(Fly(r, v), Fly(r, t)) /\ ~t.excused
        BY <3>1, <2>8, InvalidateEffect
    <3>3. Quiet(Fly(r, u), Fly(r, v))
        BY <2>9, <2>11, GrowsQuiet
    <3>4. Quiet(Fly(r, s), Fly(r, t))
        BY <3>2, <3>3, <2>10, QuietChain
    <3>5. Invalidates(s, t)
        BY <3>2, <2>7, <2>8 DEF Invalidates, Same, SameJob, SamePublications, SameFlags, SameMap
    <3>6. QED
        BY <1>2, <3>2, <3>4, <3>5 DEF OverlayStarts, t
  <2>12. CASE Reaches(u)
    <3>1. t = w
        BY <2>1, <2>12
    <3>2. pubs = <<"Overlay">> /\ pubs \in Seq(Kinds)
      <4>1. v.publications = <<>>
        BY <1>2, <2>7, <2>8 DEF OverlayMayStart, Same, SamePublications
      <4>2. QED
        BY <4>1 DEF Kinds
    <3> HIDE DEF pubs
    <3>3. w \in Own
        BY <2>3, <2>8, <3>2, ZenonT(60) DEF Own, Generation
    <3>4. /\ w.primaryScan = v.primaryScan /\ w.lease = v.lease /\ w.loaded = v.loaded
          /\ w.active = v.active /\ w.latest = next /\ w.epoch = next
          /\ w.finished = v.finished /\ w.publications = pubs
          /\ w.available = v.available /\ w.required = v.required
          /\ w.invalidated = v.invalidated /\ w.suppressed = v.suppressed
          /\ w.prefixes = v.prefixes /\ w.rebuild = v.rebuild
          /\ w.excused = v.excused /\ SameMap(v, w) /\ w.sent = v.sent
        BY <2>8 DEF Own, SameMap
    <3> HIDE DEF w
    <3>5. Overlays(s, w)
        BY <3>2, <3>4, <2>3, <2>7, <2>8
           DEF Overlays, Same, SameJob, SamePublications, SameFlags, SameMap, rest
    <3>6. Gains(Fly(r, s), Fly(r, w), c)
      <4>1. Fly(r, w) = Fly(r, v)
        BY <3>4 DEF Fly
      <4>2. QED
        BY <4>1, <2>9, <2>10, <2>12, GrowsGains
    <3>7. QED
        BY <1>2, <2>5, <3>1, <3>3, <3>5, <3>6 DEF OverlayStarts, t
  <2>13. QED
    BY <2>11, <2>12
<1>3. QED
    BY <1>1, <1>2

-----------------------------------------------------------------------------
Publishes(s, t, kind) ==
    /\ SameJob(s, t) /\ SameFlags(s, t) /\ SameMap(s, t) /\ t.excused = s.excused
    /\ t.finished = s.finished /\ t.publications = Append(s.publications, kind)
PublicationBegins(s, t, kind, q, p) ==
    \/ ~BeginsPublication(s) /\ Keeps(s, t) /\ ~t.available /\ Quiet(q, p)
    \/ BeginsPublication(s) /\ Publishes(s, t, kind) /\ Gains(q, p, Command("Publish"))

\* begin_publication.
LEMMA BeginPublicationEffect ==
    ASSUME NEW s \in Own, NEW r \in Seq(Messages), Typed, NEW kind \in Kinds
    PROVE  LET t == BeginPublication(s, kind)
           IN  t \in Own /\ PublicationBegins(s, t, kind, Fly(r, s), Fly(r, t))
<1> DEFINE t == BeginPublication(s, kind)
           c == Command("Publish")
           v == Send(s, c)
           pubs == Append(v.publications, kind)
           w == [v EXCEPT !.accepting = NoGeneration, !.publications = pubs]
<1>1. c \in Commands
    BY PlainTyped
<1>2. t = IF ~s.available THEN s ELSE IF ~Reaches(s) THEN Abandon(v) ELSE w
    BY DEF BeginPublication
<1> HIDE DEF c
<1>3. v \in Own /\ Same(s, v) /\ v.excused = s.excused
    BY <1>1, SendEffect
<1>4. Grows(Fly(r, s), Fly(r, v), c, Reaches(s))
    BY <1>1, SendGrows
<1> HIDE DEF v, t
<1>5. CASE ~s.available
  <2>1. t = s
    BY <1>2, <1>5
  <2>2. Same(s, t) /\ t.excused = s.excused /\ t.sent = s.sent
    BY <2>1 DEF Same, SameJob, SamePublications, SameFlags, SameMap
  <2>3. Keeps(s, t) /\ Quiet(Fly(r, s), Fly(r, t))
    BY <2>1, <2>2, SameKeeps, QuietSame
  <2>4. QED
    BY <2>1, <2>3, <1>5 DEF PublicationBegins, BeginsPublication, t
<1>6. CASE s.available /\ ~Reaches(s)
  <2>1. t = Abandon(v)
    BY <1>2, <1>6
  <2>2. t \in Own /\ Fails(v, t) /\ Quiet(Fly(r, v), Fly(r, t)) /\ ~t.available
    BY <2>1, <1>3, AbandonEffect
  <2>3. Keeps(s, v) /\ Keeps(v, t)
    BY <2>2, <1>3, SameKeeps DEF Keeps
  <2>4. Quiet(Fly(r, s), Fly(r, v))
    BY <1>4, <1>6, GrowsQuiet
  <2>5. Keeps(s, t) /\ Quiet(Fly(r, s), Fly(r, t))
    BY <2>2, <2>3, <2>4, KeepsChain, QuietChain
  <2>6. QED
    BY <2>2, <2>5, <1>6 DEF PublicationBegins, BeginsPublication, t
<1>7. CASE s.available /\ Reaches(s)
  <2>1. t = w
    BY <1>2, <1>7
  <2>2. pubs \in Seq(Kinds) /\ pubs = Append(s.publications, kind)
    BY <1>3 DEF Own, Same, SamePublications
  <2> HIDE DEF pubs
  <2>3. w \in Own
    BY <1>3, <2>2, ZenonT(60) DEF Own, Generation
  <2>4. /\ SameJob(v, w) /\ SameFlags(v, w) /\ SameMap(v, w) /\ w.excused = v.excused
        /\ w.finished = v.finished /\ w.publications = pubs /\ w.sent = v.sent
    BY <1>3 DEF Own, SameJob, SameFlags, SameMap
  <2> HIDE DEF w
  <2>5. Publishes(s, w, kind)
    BY <1>3, <2>2, <2>4
       DEF Publishes, Same, SameJob, SamePublications, SameFlags, SameMap
  <2>6. Gains(Fly(r, s), Fly(r, w), c)
    <3>1. Fly(r, w) = Fly(r, v)
        BY <2>4 DEF Fly
    <3>2. QED
        BY <3>1, <1>4, <1>7, GrowsGains
  <2>7. QED
    BY <2>1, <2>3, <2>5, <2>6, <1>7 DEF PublicationBegins, BeginsPublication, t, c
<1>8. QED
    BY <1>5, <1>6, <1>7

\* A rebuild begins.
RebuildMayStart(s) ==
    /\ ~s.primaryScan /\ s.lease = NoGeneration /\ s.required /\ ~s.active
    /\ ~s.suppressed /\ ~Busy(s) /\ ~s.ended
Starts(s, t) ==
    /\ t.primaryScan = s.primaryScan /\ t.loaded = s.loaded /\ SamePublications(s, t)
    /\ t.lease = s.latest + 1 /\ t.latest = s.latest + 1 /\ t.epoch = s.latest + 1
    /\ t.active /\ ~t.invalidated /\ ~t.required /\ t.available
    /\ t.suppressed = s.suppressed /\ t.prefixes = s.prefixes /\ t.rebuild = s.rebuild
    /\ SameMap(s, t)
BeginOf(s, c) ==
    c \in Commands /\ c.kind = "BeginGeneration" /\ c.gen = s.latest + 1
RebuildStarts(s, t, q, p) ==
    \/ ~RebuildMayStart(s) /\ t = s /\ p = q
    \/ RebuildMayStart(s) /\ t.ended /\ t.required
    \/ RebuildMayStart(s) /\ Starts(s, t) /\ \E c : BeginOf(s, c) /\ Gains(q, p, c)

\* start_pending_generation_rebuild.
LEMMA StartPendingRebuildEffect ==
    ASSUME NEW s \in Own, NEW r \in Seq(Messages), Typed
    PROVE  LET t == StartPendingRebuild(s)
           IN  t \in Own /\ RebuildStarts(s, t, Fly(r, s), Fly(r, t))
<1> DEFINE t == StartPendingRebuild(s)
           next == NextGeneration(s)
           c == BeginGeneration(next)
           v == Send(s, c)
           u == [v EXCEPT !.accepting = next, !.latest = next, !.epoch = next,
                          !.lease = next]
           x == [u EXCEPT !.available = Yes, !.active = Yes]
           w == [x EXCEPT !.invalidated = No, !.required = No]
<1>1. next \in Nat /\ next = s.latest + 1
    BY DEF NextGeneration, Own
<1>2. c \in Commands /\ BeginOf(s, c)
  <2> HIDE DEF next
  <2>1. QED
    BY <1>1 DEF BeginOf, BeginGeneration, Commands
<1>3. v \in Own /\ Same(s, v)
    BY <1>2, SendEffect
<1>4. Grows(Fly(r, s), Fly(r, v), c, Reaches(s))
    BY <1>2, SendGrows
<1> HIDE DEF c, next
<1>5. CASE ~RebuildMayStart(s)
    BY <1>5 DEF RebuildMayStart, RebuildStarts, StartPendingRebuild
<1>6. CASE RebuildMayStart(s) /\ ~Reaches(s)
  <2>1. t = Fatal(v)
    BY <1>6 DEF RebuildMayStart, StartPendingRebuild, v, c, next
  <2> HIDE DEF v, t
  <2>2. t \in Own /\ t.ended /\ t.required = v.required
    BY <2>1, <1>3, ZenonT(60) DEF Fatal, Own
  <2>3. t.required
    BY <2>2, <1>3, <1>6 DEF RebuildMayStart, Same, SameFlags
  <2>4. QED
    BY <2>2, <2>3, <1>6 DEF RebuildStarts, t
<1>7. CASE RebuildMayStart(s) /\ Reaches(s)
  <2>1. t = [v EXCEPT !.accepting = next, !.latest = next, !.epoch = next,
                      !.available = TRUE, !.active = TRUE, !.invalidated = FALSE,
                      !.required = FALSE, !.lease = next]
    BY <1>7 DEF RebuildMayStart, StartPendingRebuild, v, c, next
  <2> HIDE DEF v, t
  <2>2. t = w
    BY <2>1, <1>3 DEF Own, Yes, No
  <2>3. Yes \in BOOLEAN /\ No \in BOOLEAN
    BY YesNo
  <2>4. u \in Own
    BY <1>1, <1>3, ZenonT(60) DEF Own, Generation
  <2> HIDE DEF u
  <2>5. x \in Own
    BY <2>3, <2>4, ZenonT(60) DEF Own
  <2> HIDE DEF x
  <2>6. w \in Own
    BY <2>3, <2>5, ZenonT(60) DEF Own
  <2>7. /\ t.primaryScan = v.primaryScan /\ t.loaded = v.loaded /\ SamePublications(v, t)
        /\ t.lease = next /\ t.latest = next /\ t.epoch = next
        /\ t.active /\ ~t.invalidated /\ ~t.required /\ t.available
        /\ t.suppressed = v.suppressed /\ t.prefixes = v.prefixes
        /\ t.rebuild = v.rebuild /\ SameMap(v, t) /\ t.sent = v.sent
    BY <2>1, <1>3 DEF Own, SamePublications, SameMap
  <2>8. Starts(s, t)
    BY <2>7, <1>1, <1>3 DEF Starts, Same, SameJob, SamePublications, SameFlags, SameMap
  <2>9. Gains(Fly(r, s), Fly(r, t), c)
    <3>1. Fly(r, t) = Fly(r, v)
        BY <2>7 DEF Fly
    <3>2. QED
        BY <3>1, <1>4, <1>7, GrowsGains
  <2>10. QED
    BY <1>2, <1>7, <2>2, <2>6, <2>8, <2>9 DEF RebuildStarts, t
<1>8. QED
    BY <1>5, <1>6, <1>7

-----------------------------------------------------------------------------
\* A rebuild is over: given up, or finished.
SameRest(s, t) ==
    /\ t.primaryScan = s.primaryScan /\ t.lease = s.lease /\ t.loaded = s.loaded
    /\ t.latest = s.latest /\ t.epoch = s.epoch
    /\ SamePublications(s, t) /\ SameMap(s, t) /\ ~t.active /\ ~t.invalidated
GivesUp(s, t) ==
    /\ SameRest(s, t) /\ t.required /\ t.suppressed = s.suppressed
    /\ t.prefixes = s.prefixes /\ t.rebuild = s.rebuild
    /\ t.available => s.available
Concludes(s, t, failed) ==
    /\ SameRest(s, t) /\ t.required = s.invalidated
    /\ \/ /\ s.invalidated /\ t.available = s.available /\ t.suppressed = s.suppressed
          /\ t.prefixes = s.prefixes /\ t.rebuild = s.rebuild
       \/ /\ ~s.invalidated /\ failed /\ ~t.available /\ t.suppressed = s.suppressed
          /\ t.prefixes = <<>> /\ ~t.rebuild
       \/ /\ ~s.invalidated /\ ~failed /\ ~t.suppressed
          /\ t.available => s.available
          /\ t.prefixes = s.prefixes /\ t.rebuild = s.rebuild

\* cancel_generation_rebuild.
LEMMA CancelRebuildEffect ==
    ASSUME NEW s \in Own, NEW r \in Seq(Messages), Typed, s.active
    PROVE  LET t == CancelRebuild(s)
           IN  /\ t \in Own
               /\ \/ GivesUp(s, t) /\ Gains(Fly(r, s), Fly(r, t), Command("CancelActive"))
                  \/ t.ended /\ t.required
<1> DEFINE c == Command("CancelActive")
           u == [s EXCEPT !.accepting = NoGeneration]
           v == Send(u, c)
           kept == s.available /\ CanRetainSnapshot(s)
           live == v.live \/ ~kept
           w1 == [v EXCEPT !.available = kept, !.live = live]
           w == [w1 EXCEPT !.active = No, !.invalidated = No, !.required = Yes]
           closed == [HandleCancel(s) EXCEPT
                     !.active = FALSE, !.invalidated = FALSE, !.required = TRUE,
                     !.available = kept, !.live = @ \/ ~kept]
           t == CancelRebuild(s)
<1>1. u \in Own /\ Same(s, u) /\ u.sent = s.sent
    BY DEF Own, Same, SameJob, SamePublications, SameFlags, SameMap, Generation
<1>2. c \in Commands
    BY PlainTyped
<1>3. HandleCancel(s) = v
    BY DEF HandleCancel
<1>r. Reaches(u) = Reaches(s)
    BY DEF Reaches, NotesOf, Room, Own
<1>k. kept \in BOOLEAN /\ (kept => s.available)
    BY DEF CanRetainSnapshot, Own
<1>t. t = IF Reaches(s) THEN closed ELSE Fatal(closed)
    BY DEF CancelRebuild
<1> HIDE DEF u, c, t, kept
<1>4. v \in Own /\ Same(u, v)
    BY <1>1, <1>2, SendEffect
<1>5. Grows(Fly(r, u), Fly(r, v), c, Reaches(u))
    BY <1>1, <1>2, SendGrows
<1>6. Fly(r, u) = Fly(r, s)
    BY <1>1 DEF Fly
<1> HIDE DEF v
<1>7. closed = w
    BY <1>3, <1>4 DEF Own, Yes, No
<1>8. live \in BOOLEAN /\ Yes \in BOOLEAN /\ No \in BOOLEAN
    BY <1>4, <1>k, YesNo DEF Own
<1> HIDE DEF live, closed
<1>9. w1 \in Own
    BY <1>4, <1>8, <1>k DEF Own
<1>10. /\ w1.primaryScan = v.primaryScan /\ w1.lease = v.lease /\ w1.loaded = v.loaded
       /\ w1.latest = v.latest /\ w1.epoch = v.epoch
       /\ SamePublications(v, w1) /\ SameMap(v, w1)
       /\ w1.suppressed = v.suppressed /\ w1.available = kept
       /\ w1.prefixes = v.prefixes /\ w1.rebuild = v.rebuild /\ w1.sent = v.sent
    BY <1>4 DEF Own, SamePublications, SameMap
<1> HIDE DEF w1
<1>11. w \in Own
    BY <1>8, <1>9, ZenonT(60) DEF Own
<1>12. /\ w.primaryScan = w1.primaryScan /\ w.lease = w1.lease /\ w.loaded = w1.loaded
       /\ w.latest = w1.latest /\ w.epoch = w1.epoch
       /\ SamePublications(w1, w) /\ SameMap(w1, w) /\ ~w.active /\ ~w.invalidated
       /\ w.required /\ w.suppressed = w1.suppressed /\ w.available = w1.available
       /\ w.prefixes = w1.prefixes /\ w.rebuild = w1.rebuild /\ w.sent = w1.sent
    BY <1>9, YesNo DEF Own, SamePublications, SameMap
<1> HIDE DEF w
<1>13. GivesUp(s, w)
    BY <1>1, <1>4, <1>10, <1>12, <1>k
       DEF GivesUp, SameRest, Same, SameJob, SamePublications, SameFlags, SameMap
<1>14. CASE Reaches(s)
  <2>1. t = w
    BY <1>14, <1>t, <1>7
  <2>2. Fly(r, w) = Fly(r, v)
    BY <1>10, <1>12 DEF Fly
  <2>3. Gains(Fly(r, u), Fly(r, v), c)
    BY <1>14, <1>r, <1>5, GrowsGains
  <2>4. QED
    BY <2>1, <2>2, <2>3, <1>6, <1>11, <1>13 DEF t, c
<1>15. CASE ~Reaches(s)
  <2>1. t = Fatal(w)
    BY <1>15, <1>t, <1>7
  <2>2. t \in Own /\ t.ended /\ t.required
    BY <2>1, <1>11, <1>12, ZenonT(60) DEF Fatal, Own
  <2>3. QED
    BY <2>2 DEF t
<1>16. QED
    BY <1>14, <1>15

\* finish_generation_rebuild.
LEMMA FinishRebuildEffect ==
    ASSUME NEW s \in Own, NEW r \in Seq(Messages), Typed, NEW failed \in BOOLEAN
    PROVE  LET t == FinishRebuild(s, failed)
           IN  t \in Own /\ Concludes(s, t, failed) /\ Quiet(Fly(r, s), Fly(r, t))
<1> DEFINE inv == s.invalidated
           o == [s EXCEPT !.invalidated = FALSE, !.active = FALSE, !.required = inv]
           o1 == [s EXCEPT !.required = inv]
           o2 == [o1 EXCEPT !.invalidated = No, !.active = No]
           avail == o.available /\ s.installed # NoMap
           w1 == [o EXCEPT !.available = avail]
           w2 == [w1 EXCEPT !.suppressed = No, !.live = No]
           w == [o EXCEPT !.suppressed = FALSE, !.live = FALSE, !.available = avail]
           t == FinishRebuild(s, failed)
<1>1. t = IF s.invalidated THEN o ELSE IF failed THEN Abandon(o) ELSE w
    BY DEF FinishRebuild
<1>2. inv \in BOOLEAN /\ Yes \in BOOLEAN /\ No \in BOOLEAN
    BY YesNo DEF Own
<1>b. inv = s.invalidated
    OBVIOUS
<1>3. o = o2
    BY DEF Own, No
<1> HIDE DEF inv, t
<1>4. o1 \in Own
    BY <1>2 DEF Own
<1>5. /\ SameJob(s, o1) /\ SamePublications(s, o1) /\ SameMap(s, o1) /\ o1.required = inv
      /\ o1.available = s.available /\ o1.suppressed = s.suppressed
      /\ o1.prefixes = s.prefixes /\ o1.rebuild = s.rebuild /\ o1.sent = s.sent
    BY DEF Own, SameJob, SamePublications, SameMap
<1> HIDE DEF o1, o
<1>6. o \in Own
    BY <1>2, <1>3, <1>4, ZenonT(60) DEF Own
<1>7. /\ o.primaryScan = o1.primaryScan /\ o.lease = o1.lease /\ o.loaded = o1.loaded
      /\ o.latest = o1.latest /\ o.epoch = o1.epoch /\ o.required = o1.required
      /\ SamePublications(o1, o) /\ SameMap(o1, o) /\ ~o.active /\ ~o.invalidated
      /\ o.available = o1.available /\ o.suppressed = o1.suppressed
      /\ o.prefixes = o1.prefixes /\ o.rebuild = o1.rebuild /\ o.sent = o1.sent
    BY <1>3, <1>4, YesNo DEF Own, SamePublications, SameMap
<1>8. /\ SameRest(s, o) /\ o.required = s.invalidated
      /\ o.available = s.available /\ o.suppressed = s.suppressed
      /\ o.prefixes = s.prefixes /\ o.rebuild = s.rebuild /\ o.sent = s.sent
    BY <1>5, <1>7, <1>b DEF SameRest, SameJob, SamePublications, SameMap
<1>9. Quiet(Fly(r, s), Fly(r, o))
    BY <1>6, <1>8, QuietSame
<1>10. CASE s.invalidated
  <2>1. t = o
    BY <1>1, <1>10
  <2>2. QED
    BY <2>1, <1>6, <1>8, <1>9, <1>10 DEF Concludes, t
<1>11. CASE ~s.invalidated /\ failed
  <2>1. t = Abandon(o)
    BY <1>1, <1>11
  <2>2. t \in Own /\ Fails(o, t) /\ Quiet(Fly(r, o), Fly(r, t)) /\ ~t.available
    BY <2>1, <1>6, AbandonEffect
  <2>3. t.prefixes = <<>> /\ ~t.rebuild
    BY <2>1, <1>6, AbandonClears
  <2>4. Quiet(Fly(r, s), Fly(r, t))
    BY <2>2, <1>9, QuietChain
  <2>5. Concludes(s, t, failed)
    BY <2>2, <2>3, <1>8, <1>11 DEF Concludes, Fails, SameRest, SameJob, SamePublications, SameMap
  <2>6. QED
    BY <2>2, <2>4, <2>5 DEF t
<1>12. CASE ~s.invalidated /\ ~failed
  <2>1. t = w
    BY <1>1, <1>12
  <2>2. w = w2
    BY <1>6 DEF Own, No
  <2>3. avail \in BOOLEAN /\ (avail => s.available)
    BY <1>6, <1>8 DEF Own
  <2> HIDE DEF avail, w
  <2>4. w1 \in Own
    BY <2>3, <1>6 DEF Own
  <2>5. /\ w1.primaryScan = o.primaryScan /\ w1.lease = o.lease /\ w1.loaded = o.loaded
        /\ w1.latest = o.latest /\ w1.epoch = o.epoch /\ w1.required = o.required
        /\ SamePublications(o, w1) /\ SameMap(o, w1) /\ w1.active = o.active
        /\ w1.invalidated = o.invalidated /\ w1.available = avail
        /\ w1.prefixes = o.prefixes /\ w1.rebuild = o.rebuild /\ w1.sent = o.sent
    BY <1>6 DEF Own, SamePublications, SameMap
  <2> HIDE DEF w1
  <2>6. w2 \in Own
    BY <2>4, <1>2, ZenonT(60) DEF Own
  <2>7. /\ w2.primaryScan = w1.primaryScan /\ w2.lease = w1.lease /\ w2.loaded = w1.loaded
        /\ w2.latest = w1.latest /\ w2.epoch = w1.epoch /\ w2.required = w1.required
        /\ SamePublications(w1, w2) /\ SameMap(w1, w2) /\ w2.active = w1.active
        /\ w2.invalidated = w1.invalidated /\ w2.available = w1.available
        /\ w2.prefixes = w1.prefixes /\ w2.rebuild = w1.rebuild /\ w2.sent = w1.sent
        /\ ~w2.suppressed
    BY <2>4, YesNo DEF Own, SamePublications, SameMap
  <2> HIDE DEF w2
  <2>8. Concludes(s, t, failed)
    BY <2>1, <2>2, <2>3, <2>5, <2>7, <1>8, <1>12
       DEF Concludes, SameRest, SamePublications, SameMap
  <2>9. Quiet(Fly(r, s), Fly(r, t))
    <3>1. Fly(r, t) = Fly(r, o)
        BY <2>1, <2>2, <2>5, <2>7 DEF Fly
    <3>2. QED
        BY <3>1, <1>9
  <2>10. QED
    BY <2>1, <2>2, <2>6, <2>8, <2>9 DEF t
<1>13. QED
    BY <1>10, <1>11, <1>12

\* The types of an event's fields.
LEMMA EventTyped ==
    \A x \in Events :
        /\ x.kind \in {"batch", "failed", "gone"} => x.gen \in Nat /\ x.entry \in Entries
        /\ x.kind = "report" => x.entry \in Entries
        /\ x.kind = "finished" => x.cancelled \in BOOLEAN
        /\ x.kind \in {"batch", "failed", "gone", "capacity", "rejected", "finished", "report"}
    BY DEF Events

\* The types of a map that arrives.
LEMMA AnswerTyped ==
    \A x \in Messages : IsMap(x) => /\ x.map \in Map /\ x.map.listed \subseteq Entries
                                     /\ x.map.gen \in Int /\ x.map.scan \in Int
    BY DEF Messages, Commands, PlainCommands, Command, AnswerSet, AnswerKinds, IsMap, Map,
           Generation, NoGeneration

-----------------------------------------------------------------------------
(***************************************************************************)
(* The owner's decisions keep the invariant.                               *)
(***************************************************************************)
LEMMA CoreIdle ==
    ASSUME NEW s, NEW q, NEW st, NEW ev, NEW ex, NEW sc, NEW rep, NEW dk,
           Core(s, q, st, ev, ex, sc, rep, dk)
    PROVE  Core(s, q, st, ev, NoEntry, sc, rep, dk)
<1>1. Flags(s, NoEntry, dk) /\ Cancelled(s, ev, NoEntry, sc)
    BY DEF Core, Nearly, Flags, Cancelled
<1>2. GivenUp(s, ev, ex, sc) => GivenUp(s, ev, NoEntry, sc)
    BY DEF GivenUp
<1>3. Cancellation(s, q, ev, NoEntry, sc)
    BY <1>2 DEF Core, Nearly, Cancellation, CancelSent
<1>4. Mode(s, q, st, ev, NoEntry, sc, rep, dk)
    BY <1>2 DEF Core, Nearly, Mode
<1>5. QED
    BY <1>1, <1>3, <1>4 DEF Core, Nearly

\* The generations are integers.
LEMMA GenerationsTyped ==
    ASSUME NEW s \in Own, NEW st \in Store
    PROVE  /\ s.latest \in Nat /\ s.epoch \in Nat /\ s.lease \in Int /\ s.lease >= -1
           /\ s.installed.gen \in Int /\ s.installed.scan \in Int
           /\ st.newest \in Int /\ st.active.gen \in Int
           /\ s.installed.gen >= -1 /\ s.installed.scan >= -1
    BY SMTT(40) DEF Own, Store, Map, Generation, NoGeneration

\* A rebuild begins, with its scan.
LEMMA CoreStarts ==
    ASSUME NEW s \in Own, NEW t, NEW c, NEW q, NEW p, NEW st \in Store, NEW ev, NEW ex,
           NEW sc, NEW rep, NEW dk,
           Core(s, q, st, ev, ex, sc, rep, dk),
           RebuildMayStart(s), Starts(s, t), BeginOf(s, c), Gains(q, p, c),
           ev \in Seq(Events), dk \subseteq Entries
    PROVE  Core(t, p, st, ev, ex, NewScan(t.lease), rep, dk)
<1> DEFINE n == NewScan(t.lease)
<1>s. /\ t.primaryScan = s.primaryScan /\ t.loaded = s.loaded
      /\ t.publications = s.publications /\ t.finished = s.finished
      /\ t.lease = s.latest + 1 /\ t.latest = s.latest + 1 /\ t.epoch = s.latest + 1
      /\ t.active /\ ~t.invalidated /\ ~t.required /\ t.available
      /\ t.suppressed = s.suppressed /\ t.prefixes = s.prefixes /\ t.rebuild = s.rebuild
      /\ t.installed = s.installed /\ t.hidden = s.hidden
    BY DEF Starts, SamePublications, SameMap
<1>m. /\ ~s.primaryScan /\ s.lease = NoGeneration /\ s.required /\ ~s.active
      /\ ~s.suppressed /\ s.publications = <<>> /\ s.finished = <<>>
    BY DEF RebuildMayStart, Busy
<1>g. /\ s.latest \in Nat /\ s.epoch \in Nat /\ s.installed.gen \in Int
      /\ st.newest \in Int /\ st.active.gen \in Int /\ s.installed.scan \in Int
      /\ s.lease \in Int
    BY GenerationsTyped
<1>l. s.loaded
    BY <1>m, Distinct DEF Core, Nearly, Phase
<1>n. n.gen = t.lease /\ n.gen # NoGeneration /\ ~n.cancelled
      /\ \A x \in Entries : n.seen[x] = "unread"
    BY <1>s, <1>g DEF NewScan, NoGeneration
<1>R. Regular(s, q, st, ev, sc, rep, dk)
    BY <1>m DEF Core, Nearly, Mode, GivenUp, Doomed
<1>0. \A i \in 1..Len(p) :
        \/ i \in 1..Len(q) /\ p[i] = q[i]
        \/ i = Len(p) /\ p[i] = c
        \/ p[i].kind = "Notes"
    BY DEF Gains
<1>c. c.kind = "BeginGeneration" /\ c.gen = s.latest + 1 /\ Len(p) \in 1..Len(p)
      /\ p[Len(p)] = c
    BY DEF BeginOf, Gains
<1>q. \A i \in 1..Len(q) : ~IsPub(q[i]) /\ ~IsMap(q[i]) /\ q[i].kind \notin {"Overlay", "Publish"}
    BY <1>R, <1>m DEF Regular, Order, NoPub, IsPub, IsMap
<1>P. NoPub(p)
    BY <1>0, <1>c, <1>q DEF NoPub, IsPub
<1>p. \A i \in 1..Len(p) : ~IsMap(p[i]) /\ p[i].kind \notin {"Overlay", "Publish"}
    BY <1>P DEF NoPub, IsPub, IsMap
<1>S. StoreGens(s, st)
    BY DEF Core, Nearly, Gens
<1>N. st.newest < c.gen /\ st.active.gen < c.gen /\ s.installed.gen < c.gen
    BY <1>S, <1>c, <1>g DEF StoreGens
<1>1. Gens(t, p, st, ev)
  <2>1. StoreGens(t, st)
    BY <1>S, <1>s, <1>g DEF StoreGens
  <2>2. EventGens(t, ev)
    <3>1. EventGens(s, ev)
        BY DEF Core, Nearly, Gens
    <3>2. \A i \in 1..Len(ev) : ev[i].kind = "batch" => ev[i].gen \in Int
      <4>1. \A i \in 1..Len(ev) : ev[i] \in Events
        OBVIOUS
      <4>2. QED
        BY <4>1, EventTyped
    <3>3. QED
        BY <3>1, <3>2, <1>s, <1>g, SMTT(40) DEF EventGens
  <2>d. \A i \in 1..Len(q) : Dated(s, st, q[i])
    BY DEF Core, Nearly, Gens
  <2>t. \A i \in 1..Len(q) : Begins(q[i]) \/ q[i].kind = "Admit" => q[i].gen \in Int
    <3>1. \A i \in 1..Len(q) : q[i] \in Messages
        BY DEF Gains
    <3>2. QED
        BY <3>1, MessageTyped DEF Begins
  <2>3. \A i \in 1..Len(p) : Dated(t, st, p[i])
    <3>1. \A i \in 1..Len(q) : Dated(t, st, q[i])
        BY <2>d, <2>t, <1>s, <1>g, SMTT(40) DEF Dated
    <3>2. Dated(t, st, c)
        BY <1>c, <1>s, <1>g, <1>N DEF Dated, Begins, IsMap
    <3>3. \A i \in 1..Len(p) : p[i].kind = "Notes" => Dated(t, st, p[i])
        BY DEF Dated, Begins, IsMap
    <3>4. QED
        BY <1>0, <3>1, <3>2, <3>3
  <2>4. Ascending(p)
    <3>1. SUFFICES ASSUME NEW i \in 1..Len(p), NEW j \in 1..Len(p), i < j,
                          Begins(p[i]), Begins(p[j])
                   PROVE  p[i].gen < p[j].gen
        BY DEF Ascending
    <3>2. i \in 1..Len(q) /\ p[i] = q[i]
        BY <1>0, <3>1 DEF Begins
    <3>3. CASE j \in 1..Len(q) /\ p[j] = q[j]
        BY <3>1, <3>2, <3>3 DEF Core, Nearly, Gens, Ascending
    <3>4. CASE p[j] = c
        BY <3>1, <3>2, <3>4, <2>d, <2>t, <1>c, <1>g, SMTT(40) DEF Dated
    <3>5. QED
        BY <1>0, <3>1, <3>3, <3>4 DEF Begins
  <2>5. QED
    BY <2>1, <2>2, <2>3, <2>4 DEF Gens
<1>o. Sound(t) /\ Working(t) /\ JobGen(t) = t.lease /\ ~Doomed(t) /\ Period(t) /\ Scanned(t)
      /\ ~OverlayIsHead(t)
    BY <1>s, <1>m, <1>l DEF Sound, Working, JobGen, Doomed, Period, Scanned, OverlayIsHead
<1>2. Phase(t)
    BY <1>s, <1>m, <1>l, <1>g, <1>o DEF Core, Nearly, Phase, NoGeneration, Sound
<1>f. \A i \in 1..Len(ev) : ev[i].kind # "finished" /\ ~IsBatch(ev[i], t.lease)
  <2>1. ~Scanned(s)
    BY <1>m DEF Scanned
  <2>2. QED
    BY <2>1, <1>s, <1>g DEF Core, Nearly, Job, Gens, EventGens, IsBatch
<1>3. Job(t, ev, n)
    BY <1>f, <1>n, <1>o, <1>s, <1>m DEF Job
<1>4. Flags(t, ex, dk) /\ Cleared(t)
    BY <1>s, <1>m, <1>l, <1>o DEF Core, Nearly, Flags, Cleared, Period
<1>x. ~CancelledJob(t, ev, n)
  <2>1. t.finished # <<"RebuildCancelled">>
    BY <1>s, <1>m, Distinct
  <2>2. QED
    BY <2>1, <1>n, <1>f DEF CancelledJob
<1>5. Cancelled(t, ev, ex, n)
    BY <1>x DEF Cancelled
<1>6. Cancellation(t, p, ev, ex, n)
  <2>1. SUFFICES ASSUME NEW i \in 1..Len(p), Cancels(p[i])
                 PROVE  CancelSent(t, ev, ex, n)
    BY DEF Cancellation
  <2>2. i \in 1..Len(q) /\ Cancels(q[i])
    BY <2>1, <1>0, <1>c DEF Cancels
  <2>3. CancelSent(s, ev, ex, sc)
    BY <2>2 DEF Core, Nearly, Cancellation
  <2>4. ex = NoEntry
    BY <2>3, <1>m DEF CancelSent, GivenUp
  <2>5. t.finished # <<"Rebuild">>
    BY <1>s, <1>m, Distinct
  <2>6. QED
    BY <2>4, <2>5, <1>x, <1>s, <1>m DEF CancelSent
<1>7. Shown(t, rep, dk)
    BY <1>s DEF Core, Nearly, Shown
<1>8. Order(t, p, st, dk)
  <2>1. AtMostOne(p) /\ PubsLast(p)
    BY <1>P DEF NoPub, AtMostOne, PubsLast
  <2>2. Begun(t, p, st)
    BY <1>c, <1>s DEF Begun
  <2>3. \A i \in 1..Len(p) : Carries(t, p[i], dk)
    BY <1>p, <1>s, <1>l DEF Carries
  <2>4. QED
    BY <1>P, <2>1, <2>2, <2>3 DEF Order
<1>9. \A e : ~Lists(t.lease, p, st, ev, e)
  <2>1. \A i \in 1..Len(p) : ~IsAdmit(p[i], t.lease)
    <3>1. \A i \in 1..Len(q) : ~IsAdmit(q[i], t.lease)
        BY <1>s, <1>g DEF Core, Nearly, Gens, Dated, IsAdmit
    <3>2. QED
        BY <3>1, <1>0, <1>c DEF IsAdmit
  <2>2. st.active.gen # t.lease
    BY <1>N, <1>c, <1>s, <1>g
  <2>3. QED
    BY <2>1, <2>2, <1>f, <1>p DEF Lists
<1>10. Pipeline(t, p, st, ev, n, dk)
  <2>1. Admits(t, p)
    <3>1. \A i \in 1..Len(p) : ~IsAdmit(p[i], t.lease)
      <4>1. \A i \in 1..Len(q) : ~IsAdmit(q[i], t.lease)
        BY <1>s, <1>g DEF Core, Nearly, Gens, Dated, IsAdmit
      <4>2. QED
        BY <4>1, <1>0, <1>c DEF IsAdmit
    <3>2. QED
        BY <3>1, <1>o DEF Admits
  <2>2. \A x \in dk : ToBeTold(t, ev, n, x)
    BY <1>n DEF ToBeTold
  <2>3. QED
    BY <2>1, <2>2, <1>p DEF Pipeline, Delivered
<1>11. /\ HiddenFirst(t, p, st, ev, rep) /\ HiddenRebuild(t, p, st, ev, rep)
       /\ RebuildShrinks(t, p, st, ev)
    BY <1>9, <1>s, <1>l DEF HiddenFirst, HiddenRebuild, RebuildShrinks
<1>12. Rebuilt(t, rep)
    BY <1>s, <1>m, <1>N, <1>c DEF Rebuilt
<1>13. Mode(t, p, st, ev, ex, n, rep, dk)
    BY <1>o, <1>8, <1>10, <1>11, <1>12 DEF Mode, Regular
<1>14. HiddenOverlay(t, p, rep)
    BY <1>o DEF HiddenOverlay
<1>15. QED
    BY <1>1, <1>2, <1>3, <1>4, <1>5, <1>6, <1>7, <1>13, <1>14 DEF Core, Nearly

\* A removal recorded is the head or in the tail.
LEMMA PrefixSets ==
    \A x \in Seq(Entries) : x # <<>> => ToSet(x) = {Head(x)} \union ToSet(Tail(x))
<1> SUFFICES ASSUME NEW x \in Seq(Entries), x # <<>>
             PROVE  ToSet(x) = {Head(x)} \union ToSet(Tail(x))
    OBVIOUS
<1>1. /\ ToSet(x) = {x[i] : i \in 1..Len(x)}
      /\ ToSet(Tail(x)) = {Tail(x)[i] : i \in 1..Len(Tail(x))}
  <2>1. \A y \in Seq(Entries) : ToSet(y) = {y[i] : i \in 1..Len(y)}
    <3>1. \A y \in Seq(Entries) : DOMAIN y = 1..Len(y)
        OBVIOUS
    <3>2. QED
        BY <3>1 DEF ToSet
  <2>2. Tail(x) \in Seq(Entries)
    OBVIOUS
  <2>3. QED
    BY <2>1, <2>2
<1>2. Len(Tail(x)) = Len(x) - 1 /\ Head(x) = x[1] /\ Len(x) \in Nat /\ Len(x) > 0
    OBVIOUS
<1>3. \A i \in 1..(Len(x) - 1) : Tail(x)[i] = x[i + 1]
    OBVIOUS
<1>4. ASSUME NEW i \in 1..Len(x)
      PROVE  x[i] \in {Head(x)} \union ToSet(Tail(x))
  <2>1. CASE i = 1
    BY <2>1, <1>2
  <2>2. CASE i # 1
    <3>1. i - 1 \in 1..(Len(x) - 1) /\ (i - 1) + 1 = i
        BY <2>2, <1>2
    <3>2. QED
        BY <3>1, <1>1, <1>2, <1>3
  <2>3. QED
    BY <2>1, <2>2
<1>5. \A i \in 1..(Len(x) - 1) : i + 1 \in 1..Len(x)
    BY <1>2
<1>6. QED
    BY <1>1, <1>2, <1>3, <1>4, <1>5

\* An overlay is on its way.
LEMMA CoreOverlay ==
    ASSUME NEW s \in Own, NEW t, NEW c, NEW q, NEW p, NEW st \in Store, NEW ev, NEW ex,
           NEW sc, NEW rep, NEW dk,
           Nearly(s, q, st, ev, ex, sc, rep, dk), HiddenOverlay(s, q, rep),
           OverlayMayStart(s), Overlays(s, t), OverlayOf(s, c), Gains(q, p, c),
           ev \in Seq(Events),
           s.loaded, ~s.rebuild, NoPub(q),
           Period(s) => ex = NoEntry /\ Tail(s.prefixes) = <<>>,
           NoCancel(q) \/ (~s.active /\ s.required /\ s.suppressed /\ s.finished = <<>>)
    PROVE  Core(t, p, st, ev, ex, sc, rep, dk)
<1>s. /\ t.primaryScan = s.primaryScan /\ t.lease = s.lease /\ t.loaded = s.loaded
      /\ t.active = s.active /\ t.latest = s.latest + 1 /\ t.epoch = s.latest + 1
      /\ t.finished = s.finished /\ t.publications = <<"Overlay">>
      /\ t.available = s.available /\ t.required = s.required
      /\ t.invalidated = s.invalidated /\ t.suppressed = s.suppressed
      /\ t.prefixes = Tail(s.prefixes) /\ t.rebuild = s.rebuild
      /\ t.installed = s.installed /\ t.hidden = s.hidden
    BY DEF Overlays, SameMap
<1>m. s.available /\ s.publications = <<>> /\ s.installed # NoMap /\ s.prefixes # <<>>
    BY DEF OverlayMayStart
<1>g. /\ s.latest \in Nat /\ s.epoch \in Nat /\ s.installed.gen \in Int
      /\ st.newest \in Int /\ st.active.gen \in Int /\ s.installed.scan \in Int
      /\ s.lease \in Int
    BY GenerationsTyped
<1>0. \A i \in 1..Len(p) :
        \/ i \in 1..Len(q) /\ p[i] = q[i]
        \/ i = Len(p) /\ p[i] = c
        \/ p[i].kind = "Notes"
    BY DEF Gains
<1>c. c.kind = "Overlay" /\ c.gen = s.latest + 1 /\ Len(p) \in 1..Len(p)
      /\ c.prefix = Head(s.prefixes) /\ c.base = s.installed /\ p[Len(p)] = c
    BY DEF OverlayOf, Gains
<1>q. \A i \in 1..Len(q) : ~IsPub(q[i]) /\ ~IsMap(q[i]) /\ q[i].kind \notin {"Overlay", "Publish"}
    BY DEF NoPub, IsPub, IsMap
<1>p. \A i \in 1..Len(p) :
        \/ i = Len(p) /\ p[i] = c
        \/ ~IsPub(p[i]) /\ ~IsMap(p[i]) /\ p[i].kind \notin {"Overlay", "Publish"}
    BY <1>0, <1>q DEF IsPub, IsMap
<1>i. IsPub(c) /\ Begins(c) /\ ~Cancels(c) /\ ~IsMap(c)
    BY <1>c DEF IsPub, Begins, Cancels, IsMap
<1>S. StoreGens(s, st)
    BY DEF Nearly, Gens
<1>N. st.newest < c.gen /\ st.active.gen < c.gen /\ s.installed.gen < c.gen
    BY <1>S, <1>c, <1>g DEF StoreGens
<1>x. c.prefix \notin dk /\ ToSet(s.prefixes) = {c.prefix} \union ToSet(t.prefixes)
  <2>1. s.prefixes \in Seq(Entries)
    BY DEF Own
  <2>2. ToSet(s.prefixes) = {Head(s.prefixes)} \union ToSet(Tail(s.prefixes))
    BY <2>1, <1>m, PrefixSets
  <2>3. QED
    BY <2>2, <1>c, <1>s DEF Nearly, Flags
<1>1. Gens(t, p, st, ev)
  <2>1. StoreGens(t, st)
    BY <1>S, <1>s, <1>g DEF StoreGens
  <2>2. EventGens(t, ev)
    <3>1. EventGens(s, ev)
        BY DEF Nearly, Gens
    <3>2. \A i \in 1..Len(ev) : ev[i].kind = "batch" => ev[i].gen \in Int
      <4>1. \A i \in 1..Len(ev) : ev[i] \in Events
        OBVIOUS
      <4>2. QED
        BY <4>1, EventTyped
    <3>3. QED
        BY <3>1, <3>2, <1>s, <1>g DEF EventGens
  <2>d. \A i \in 1..Len(q) : Dated(s, st, q[i])
    BY DEF Nearly, Gens
  <2>t. \A i \in 1..Len(q) : Begins(q[i]) \/ q[i].kind = "Admit" => q[i].gen \in Int
    <3>1. \A i \in 1..Len(q) : q[i] \in Messages
        BY DEF Gains
    <3>2. QED
        BY <3>1, MessageTyped DEF Begins
  <2>3. \A i \in 1..Len(p) : Dated(t, st, p[i])
    <3>1. \A i \in 1..Len(q) : Dated(t, st, q[i])
        BY <2>d, <2>t, <1>s, <1>g DEF Dated
    <3>2. Dated(t, st, c)
        BY <1>c, <1>s, <1>g, <1>N DEF Dated, Begins, IsMap
    <3>3. \A i \in 1..Len(p) : p[i].kind = "Notes" => Dated(t, st, p[i])
        BY DEF Dated, Begins, IsMap
    <3>4. QED
        BY <1>0, <3>1, <3>2, <3>3
  <2>4. Ascending(p)
    <3>1. SUFFICES ASSUME NEW i \in 1..Len(p), NEW j \in 1..Len(p), i < j,
                          Begins(p[i]), Begins(p[j])
                   PROVE  p[i].gen < p[j].gen
        BY DEF Ascending
    <3>2. i \in 1..Len(q) /\ p[i] = q[i]
        BY <1>0, <3>1 DEF Begins
    <3>3. CASE j \in 1..Len(q) /\ p[j] = q[j]
        BY <3>1, <3>2, <3>3 DEF Nearly, Gens, Ascending
    <3>4. CASE p[j] = c
        BY <3>1, <3>2, <3>4, <2>d, <2>t, <1>c, <1>g, SMTT(40) DEF Dated
    <3>5. QED
        BY <1>0, <3>1, <3>3, <3>4 DEF Begins
  <2>5. QED
    BY <2>1, <2>2, <2>3, <2>4 DEF Gens
<1>o. /\ ~Sound(t) /\ ~Working(t) /\ (Doomed(t) <=> s.active) /\ (Period(t) <=> Period(s))
      /\ (Scanned(t) <=> Scanned(s)) /\ OverlayIsHead(t)
      /\ (CancelledJob(t, ev, sc) <=> CancelledJob(s, ev, sc))
  <2>1. s.lease < t.epoch
    BY <1>S, <1>s, <1>g DEF StoreGens
  <2>2. ~Sound(t) /\ (Doomed(t) <=> s.active) /\ (Period(t) <=> Period(s))
    BY <2>1, <1>s, <1>g DEF Sound, Doomed, Period
  <2>3. OverlayIsHead(t)
    BY <1>s, Distinct DEF OverlayIsHead
  <2>4. QED
    BY <2>2, <2>3, <1>s, <1>m DEF Working, Scanned, CancelledJob
<1>2. Phase(t)
  <2>1. s.finished # <<"Primary">>
    BY Distinct DEF Nearly, Phase
  <2>2. QED
    BY <1>s, <1>m, <1>o, <2>1, Distinct DEF Nearly, Phase, OverlayIsHead
<1>3. Job(t, ev, sc)
    BY <1>o, <1>s DEF Nearly, Job
<1>4. Flags(t, ex, dk) /\ Cleared(t)
    BY <1>s, <1>m, <1>o, <1>x DEF Nearly, Flags, Cleared
<1>5. Cancelled(t, ev, ex, sc)
    BY <1>o, <1>s DEF Nearly, Cancelled
<1>6. Cancellation(t, p, ev, ex, sc)
  <2>1. SUFFICES ASSUME NEW i \in 1..Len(p), Cancels(p[i])
                 PROVE  CancelSent(t, ev, ex, sc)
    BY DEF Cancellation
  <2>2. i \in 1..Len(q) /\ Cancels(q[i])
    BY <2>1, <1>0, <1>i DEF Cancels
  <2>3. ~s.active /\ s.required /\ s.suppressed /\ s.finished = <<>> /\ ex = NoEntry
    BY <2>2 DEF NoCancel, Period
  <2>4. QED
    BY <2>3, <1>s DEF CancelSent
<1>7. Shown(t, rep, dk)
    BY <1>s DEF Nearly, Shown
<1>8. CASE s.active
  <2>1. DoomedOrder(t, p, st, dk)
    <3>1. ~NoPub(p)
        BY <1>c, <1>i DEF NoPub
    <3>2. ASSUME NEW i \in 1..Len(p)
          PROVE  DoomedItem(t, p, i, dk)
        BY <1>p, <1>c, <1>i, <1>s, <1>m, <1>x DEF DoomedItem, Based
    <3>3. QED
        BY <3>1, <3>2 DEF DoomedOrder
  <2>2. ex = NoEntry
    BY <1>8 DEF Period
  <2>3. Mode(t, p, st, ev, ex, sc, rep, dk)
    BY <2>1, <2>2, <1>8, <1>o DEF Mode
  <2>4. HiddenOverlay(t, p, rep)
    BY <1>8, <1>s DEF HiddenOverlay, Period
  <2>5. QED
    BY <1>1, <1>2, <1>3, <1>4, <1>5, <1>6, <1>7, <2>3, <2>4 DEF Core, Nearly
<1>9. CASE ~s.active
  <2>1. Order(t, p, st, dk)
    <3>1. t.publications # <<>>
        BY <1>s, Distinct
    <3>2. AtMostOne(p) /\ PubsLast(p)
      <4>1. \A i \in 1..Len(p) : i <= Len(p)
        BY DEF Gains
      <4>2. \A i, j \in 1..Len(p) : i < j => i # Len(p)
        BY DEF Gains
      <4>3. QED
        BY <1>p, <4>2 DEF AtMostOne, PubsLast
    <3>3. Begun(t, p, st)
        BY <1>o DEF Begun
    <3>4. Carries(t, c, dk)
      <4>1. c.kind = "Overlay" /\ t.publications = <<"Overlay">> /\ Based(t, c, dk)
        BY <1>c, <1>s, <1>m, <1>x DEF Based
      <4>2. QED
        BY <4>1, <1>i, <1>s DEF Carries
    <3>5. \A i \in 1..Len(p) : Carries(t, p[i], dk)
        BY <3>4, <1>p, <1>s DEF Carries
    <3>6. QED
        BY <3>1, <3>2, <3>3, <3>5 DEF Order
  <2>2. /\ HiddenFirst(t, p, st, ev, rep) /\ HiddenRebuild(t, p, st, ev, rep)
        /\ RebuildShrinks(t, p, st, ev) /\ Rebuilt(t, rep) /\ Pipeline(t, p, st, ev, sc, dk)
    BY <1>o, <1>s DEF HiddenFirst, HiddenRebuild, RebuildShrinks, Rebuilt, Pipeline
  <2>3. Mode(t, p, st, ev, ex, sc, rep, dk)
    BY <1>9, <1>o, <2>1, <2>2 DEF Mode, Regular
  <2>4. HiddenOverlay(t, p, rep)
    <3>1. SUFFICES ASSUME t.available, ~Period(t)
                   PROVE  \A i \in 1..Len(p) : LeavesOut(t, p[i], rep)
      <4>1. t.publications # <<>>
        BY <1>s, Distinct
      <4>2. QED
        BY <4>1 DEF HiddenOverlay
    <3>2. s.installed.listed \intersect rep \subseteq ToSet(s.prefixes)
        BY <3>1, <1>s, <1>m, <1>o DEF HiddenOverlay
    <3>3. LeavesOut(t, c, rep)
        BY <3>2, <1>x, <1>s, <1>i DEF LeavesOut
    <3>4. QED
        BY <3>3, <1>p DEF LeavesOut
  <2>5. QED
    BY <1>1, <1>2, <1>3, <1>4, <1>5, <1>6, <1>7, <2>3, <2>4 DEF Core, Nearly
<1>10. QED
    BY <1>8, <1>9

-----------------------------------------------------------------------------
\* The lease of the rebuild is handed back.
Releases(s, v) ==
    /\ v.primaryScan = s.primaryScan /\ v.loaded = s.loaded /\ v.latest = s.latest
    /\ v.epoch = s.epoch /\ v.active = s.active /\ v.publications = s.publications
    /\ v.finished = <<>> /\ v.lease = NoGeneration /\ SameFlags(s, v) /\ SameMap(s, v)
RebuildEnds == {"Rebuild", "RebuildFailed", "RebuildCancelled"}

\* Where the owner is when its rebuild has ended.
LEMMA EndedRebuild ==
    ASSUME NEW s, NEW q, NEW st, NEW ev, NEW ex, NEW sc, NEW rep, NEW dk,
           Core(s, q, st, ev, ex, sc, rep, dk), s.lease = s.epoch,
           NEW how \in RebuildEnds, s.finished = <<how>>
    PROVE  /\ s.active /\ Sound(s) /\ s.publications = <<>> /\ s.loaded /\ ~s.primaryScan
           /\ ~Scanned(s) /\ sc.gen = NoGeneration
           /\ \A i \in 1..Len(ev) : ev[i].kind # "finished" /\ ~IsBatch(ev[i], s.lease)
           /\ \/ GivenUp(s, ev, ex, sc)
              \/ Regular(s, q, st, ev, sc, rep, dk) /\ NoPub(q)
<1>1. s.finished # <<>> /\ s.finished # <<"Primary">>
    BY Distinct DEF RebuildEnds
<1>2. s.active /\ s.publications \in {<<>>, <<"Overlay">>}
    BY <1>1 DEF Core, Nearly, Phase
<1>3. Sound(s) /\ s.loaded /\ ~s.primaryScan /\ ~Scanned(s)
    BY <1>1, <1>2 DEF Core, Nearly, Phase, Sound, Scanned
<1>4. s.publications = <<>>
    BY <1>2, <1>3, Distinct DEF Core, Nearly, Phase
<1>5. Working(s) /\ JobGen(s) = s.lease /\ ~Doomed(s)
    BY <1>3 DEF Working, JobGen, Sound, Doomed
<1>6. /\ sc.gen = NoGeneration
      /\ \A i \in 1..Len(ev) : ev[i].kind # "finished" /\ ~IsBatch(ev[i], s.lease)
    BY <1>3, <1>5 DEF Core, Nearly, Job
<1>7. QED
    BY <1>2, <1>3, <1>4, <1>5, <1>6 DEF Core, Nearly, Mode, Regular, Order

\* What every end of a rebuild has in common.
LEMMA EndedCore ==
    ASSUME NEW s, NEW v, NEW t, NEW q, NEW st, NEW ev, NEW ex, NEW sc, NEW rep, NEW dk,
           Core(s, q, st, ev, ex, sc, rep, dk), s.lease = s.epoch, s \in Own,
           NEW how \in RebuildEnds, s.finished = <<how>>,
           Releases(s, v), SameRest(v, t)
    PROVE  /\ Gens(t, q, st, ev) /\ Phase(t) /\ Job(t, ev, sc) /\ Shown(t, rep, dk)
           /\ ~Sound(t) /\ ~Working(t) /\ ~Doomed(t) /\ ~OverlayIsHead(t)
           /\ ~CancelledJob(t, ev, sc) /\ Cancelled(t, ev, ex, sc)
           /\ Regular(s, q, st, ev, sc, rep, dk) => Regular(t, q, st, ev, sc, rep, dk)
<1>s. /\ t.primaryScan = s.primaryScan /\ t.loaded = s.loaded /\ t.latest = s.latest
      /\ t.epoch = s.epoch /\ t.lease = NoGeneration /\ ~t.active /\ ~t.invalidated
      /\ t.publications = s.publications /\ t.finished = <<>>
      /\ t.installed = s.installed /\ t.hidden = s.hidden
    BY DEF Releases, SameRest, SamePublications, SameMap
<1>e. /\ s.active /\ Sound(s) /\ s.publications = <<>> /\ s.loaded /\ ~s.primaryScan
      /\ sc.gen = NoGeneration
      /\ \A i \in 1..Len(ev) : ev[i].kind # "finished"
    BY EndedRebuild
<1>1. Gens(t, q, st, ev)
  <2>1. t.lease <= t.latest
    BY <1>s DEF NoGeneration, Own
  <2>2. QED
    BY <2>1, <1>s DEF Core, Nearly, Gens, StoreGens, EventGens, Dated
<1>2. ~Sound(t) /\ ~Working(t) /\ ~Doomed(t) /\ ~OverlayIsHead(t) /\ ~Scanned(t)
    BY <1>s, <1>e DEF Sound, Working, Doomed, OverlayIsHead, Scanned
<1>3. Phase(t)
    BY <1>s, <1>e, <1>2 DEF Phase
<1>4. Job(t, ev, sc)
    BY <1>e, <1>2 DEF Job
<1>5. ~CancelledJob(t, ev, sc)
  <2>1. t.finished # <<"RebuildCancelled">>
    BY <1>s, Distinct
  <2>2. QED
    BY <2>1, <1>e DEF CancelledJob
<1>6. ASSUME Regular(s, q, st, ev, sc, rep, dk)
      PROVE  Regular(t, q, st, ev, sc, rep, dk)
  <2>1. NoPub(q) /\ Order(s, q, st, dk)
    BY <1>6, <1>e DEF Regular, Order
  <2>2. \A i \in 1..Len(q) : ~IsMap(q[i]) /\ q[i].kind \notin {"Overlay", "Publish"}
    BY <2>1 DEF NoPub, IsPub, IsMap
  <2>3. Order(t, q, st, dk)
    BY <2>1, <2>2, <1>2, <1>s, <1>e DEF Order, Carries, Begun
  <2>4. QED
    BY <2>3, <1>2, <1>s, <1>e
       DEF Regular, Pipeline, HiddenFirst, HiddenRebuild, Rebuilt, RebuildShrinks
<1>7. QED
    BY <1>1, <1>2, <1>3, <1>4, <1>5, <1>6, <1>s DEF Core, Nearly, Shown, Cancelled

\* A rebuild is cancelled.
LEMMA CoreGivesUp ==
    ASSUME NEW s \in Own, NEW v, NEW t, NEW q, NEW p, NEW st, NEW ev, NEW ex, NEW sc,
           NEW rep, NEW dk,
           Core(s, q, st, ev, ex, sc, rep, dk), s.lease = s.epoch,
           s.finished = <<"RebuildCancelled">>, Releases(s, v), GivesUp(v, t),
           Gains(q, p, Command("CancelActive"))
    PROVE  Core(t, p, st, ev, ex, sc, rep, dk)
<1> DEFINE how == "RebuildCancelled"
           c == Command("CancelActive")
<1>h. how \in RebuildEnds /\ s.finished = <<how>> /\ SameRest(v, t)
    BY DEF RebuildEnds, GivesUp
<1> HIDE DEF how
<1>s. /\ t.required /\ t.suppressed = s.suppressed /\ t.prefixes = s.prefixes
      /\ t.rebuild = s.rebuild /\ (t.available => s.available) /\ t.finished = <<>>
      /\ t.loaded = s.loaded /\ t.publications = s.publications /\ ~t.active
      /\ t.installed = s.installed /\ t.hidden = s.hidden
    BY DEF GivesUp, Releases, SameRest, SameFlags, SamePublications, SameMap
<1>e. /\ s.active /\ Sound(s) /\ s.publications = <<>> /\ s.loaded
      /\ \/ GivenUp(s, ev, ex, sc)
         \/ Regular(s, q, st, ev, sc, rep, dk) /\ NoPub(q)
    BY <1>h, EndedRebuild
<1>c. /\ Gens(t, q, st, ev) /\ Phase(t) /\ Job(t, ev, sc) /\ Shown(t, rep, dk)
      /\ ~Sound(t) /\ ~Working(t) /\ ~Doomed(t) /\ ~OverlayIsHead(t)
      /\ ~CancelledJob(t, ev, sc) /\ Cancelled(t, ev, ex, sc)
      /\ Regular(s, q, st, ev, sc, rep, dk) => Regular(t, q, st, ev, sc, rep, dk)
    BY <1>h, EndedCore
<1>k. c.kind = "CancelActive"
    BY DEF Command
<1> HIDE DEF c
<1>0. \A i \in 1..Len(p) :
        \/ i \in 1..Len(q) /\ p[i] = q[i]
        \/ p[i].kind \in {"Notes", "CancelActive"}
    BY <1>k DEF Gains, c
<1>r. \A i \in 1..Len(q) : i \in 1..Len(p) /\ p[i] = q[i]
    BY DEF Gains
<1>P. \/ GivenUp(s, ev, ex, sc)
      \/ Regular(s, q, st, ev, sc, rep, dk) /\ NoPub(p)
    BY <1>e, <1>0 DEF NoPub, IsPub
<1>1. Gens(t, p, st, ev)
  <2>1. \A i \in 1..Len(p) : Dated(t, st, p[i])
    BY <1>0, <1>c DEF Gens, Dated, Begins, IsMap
  <2>2. Ascending(p)
    BY <1>0, <1>c DEF Gens, Ascending, Begins
  <2>3. QED
    BY <2>1, <2>2, <1>c DEF Gens
<1>2. Flags(t, ex, dk) /\ Cleared(t)
    BY <1>s, <1>e, <1>c DEF Core, Nearly, Flags, Cleared, Period
<1>3. s.suppressed \/ ex = NoEntry
  <2>1. CancelledJob(s, ev, sc)
    BY DEF CancelledJob
  <2>2. QED
    BY <2>1 DEF Core, Nearly, Cancelled
<1>4. CancelSent(t, ev, ex, sc)
    BY <1>3, <1>s, <1>e DEF CancelSent
<1>5. Cancellation(t, p, ev, ex, sc)
    BY <1>4 DEF Cancellation
<1>6. Mode(t, p, st, ev, ex, sc, rep, dk)
  <2>1. CASE GivenUp(s, ev, ex, sc)
    <3>1. CancelledJob(s, ev, sc)
        BY DEF CancelledJob
    <3>2. GivenUp(t, ev, ex, sc)
        BY <2>1, <3>1, <1>s, <1>e, <1>c DEF GivenUp
    <3>3. QED
        BY <3>2 DEF Mode
  <2>2. CASE Regular(s, q, st, ev, sc, rep, dk) /\ NoPub(p)
    <3>1. Regular(t, q, st, ev, sc, rep, dk)
        BY <2>2, <1>c
    <3>2. \A i \in 1..Len(p) : ~IsMap(p[i]) /\ p[i].kind \notin {"Overlay", "Publish"}
        BY <2>2 DEF NoPub, IsPub, IsMap
    <3>3. Order(t, p, st, dk)
      <4>1. AtMostOne(p) /\ PubsLast(p)
        BY <2>2 DEF NoPub, AtMostOne, PubsLast
      <4>2. Begun(t, p, st)
        BY <1>c DEF Begun
      <4>3. QED
        BY <2>2, <3>2, <4>1, <4>2, <1>s, <1>e DEF Order, Carries
    <3>4. Regular(t, p, st, ev, sc, rep, dk)
        BY <3>1, <3>3, <1>c, <1>s, <1>e
           DEF Regular, Pipeline, HiddenFirst, HiddenRebuild, Rebuilt, RebuildShrinks
    <3>5. QED
        BY <3>4 DEF Mode
  <2>3. QED
    BY <1>P, <2>1, <2>2
<1>7. HiddenOverlay(t, p, rep)
    BY <1>s DEF HiddenOverlay, Period
<1>8. QED
    BY <1>1, <1>2, <1>5, <1>6, <1>7, <1>c DEF Core, Nearly

\* A rebuild is over: its map is shown, or another is owed.
LEMMA CoreConcludes ==
    ASSUME NEW s \in Own, NEW v, NEW t, NEW q, NEW st, NEW ev, NEW ex, NEW sc,
           NEW rep, NEW dk, NEW failed,
           Core(s, q, st, ev, ex, sc, rep, dk), s.lease = s.epoch,
           NEW how \in {"Rebuild", "RebuildFailed"}, s.finished = <<how>>,
           ~failed => how = "Rebuild", failed => how = "RebuildFailed",
           Releases(s, v), Concludes(v, t, failed)
    PROVE  Core(t, q, st, ev, ex, sc, rep, dk)
<1>h. how \in RebuildEnds /\ SameRest(v, t)
    BY DEF RebuildEnds, Concludes
<1>s. /\ t.required = s.invalidated /\ t.finished = <<>>
      /\ t.loaded = s.loaded /\ t.publications = s.publications /\ ~t.active
      /\ t.installed = s.installed /\ t.hidden = s.hidden
      /\ v.invalidated = s.invalidated /\ v.available = s.available
      /\ v.suppressed = s.suppressed /\ v.prefixes = s.prefixes /\ v.rebuild = s.rebuild
    BY DEF Concludes, Releases, SameRest, SameFlags, SamePublications, SameMap
<1>e. /\ s.active /\ Sound(s) /\ s.publications = <<>> /\ s.loaded
      /\ \/ GivenUp(s, ev, ex, sc)
         \/ Regular(s, q, st, ev, sc, rep, dk) /\ NoPub(q)
    BY <1>h, EndedRebuild
<1>c. /\ Gens(t, q, st, ev) /\ Phase(t) /\ Job(t, ev, sc) /\ Shown(t, rep, dk)
      /\ ~Sound(t) /\ ~Working(t) /\ ~Doomed(t) /\ ~OverlayIsHead(t)
      /\ ~CancelledJob(t, ev, sc) /\ Cancelled(t, ev, ex, sc)
      /\ Regular(s, q, st, ev, sc, rep, dk) => Regular(t, q, st, ev, sc, rep, dk)
    BY <1>h, EndedCore
<1>p. s.prefixes = <<>> /\ ~s.rebuild
    BY <1>e DEF Core, Cleared, Period
<1>f. t.prefixes = <<>> /\ ~t.rebuild
    BY <1>p, <1>s DEF Concludes
<1>2. Flags(t, ex, dk) /\ Cleared(t)
    BY <1>f, <1>s, <1>e, <1>c, EmptySet DEF Flags, Cleared
<1>g. GivenUp(s, ev, ex, sc) => GivenUp(t, ev, ex, sc)
  <2>1. SUFFICES ASSUME GivenUp(s, ev, ex, sc) PROVE GivenUp(t, ev, ex, sc)
    OBVIOUS
  <2>2. ~s.available /\ ex = NoEntry /\ ~s.invalidated
    BY <2>1, <1>e DEF GivenUp
  <2>3. ~t.available /\ ~t.required
    BY <2>2, <1>s DEF Concludes
  <2>4. QED
    BY <2>2, <2>3, <1>s, <1>e, <1>c DEF GivenUp
<1>6. Mode(t, q, st, ev, ex, sc, rep, dk)
    BY <1>e, <1>g, <1>c DEF Mode
<1>3. Cancellation(t, q, ev, ex, sc)
  <2>1. SUFFICES ASSUME NEW i \in 1..Len(q), Cancels(q[i])
                 PROVE  CancelSent(t, ev, ex, sc)
    BY DEF Cancellation
  <2>2. CancelSent(s, ev, ex, sc)
    BY <2>1 DEF Core, Nearly, Cancellation
  <2>3. CASE GivenUp(s, ev, ex, sc)
    BY <2>3, <1>g DEF CancelSent
  <2>4. CASE ~GivenUp(s, ev, ex, sc)
    <3>1. ex = NoEntry /\ ~s.invalidated /\ s.finished # <<"Rebuild">>
        BY <2>2, <2>4, <1>e DEF CancelSent
    <3>2. failed /\ ~t.available /\ ~t.required
        BY <3>1, <1>s DEF Concludes
    <3>3. GivenUp(t, ev, ex, sc)
        BY <3>1, <3>2, <1>s, <1>e, <1>c DEF GivenUp
    <3>4. QED
        BY <3>3 DEF CancelSent
  <2>5. QED
    BY <2>3, <2>4
<1>7. HiddenOverlay(t, q, rep)
  <2>1. SUFFICES ASSUME t.available, ~t.required
                 PROVE  HiddenOverlay(t, q, rep)
    BY DEF HiddenOverlay, Period
  <2>2. ~failed /\ s.available /\ ~s.invalidated
    BY <2>1, <1>s DEF Concludes
  <2>3. Regular(s, q, st, ev, sc, rep, dk) /\ NoPub(q)
    BY <2>2, <1>e DEF GivenUp
  <2>4. s.installed.listed \intersect rep = {}
    BY <2>2, <2>3, <1>e, Distinct DEF Regular, Rebuilt
  <2>5. QED
    BY <2>3, <2>4, <1>s DEF HiddenOverlay, LeavesOut, NoPub, IsPub, IsMap
<1>8. QED
    BY <1>2, <1>3, <1>6, <1>7, <1>c DEF Core, Nearly

\* The first scan is complete.
Loads(s, t) ==
    /\ t.primaryScan = s.primaryScan /\ t.loaded /\ t.latest = s.latest
    /\ t.epoch = s.epoch /\ t.active = s.active /\ t.publications = s.publications
    /\ t.finished = <<>> /\ t.lease = s.lease /\ SameFlags(s, t) /\ SameMap(s, t)

\* The first map is shown.
LEMMA CoreLoads ==
    ASSUME NEW s, NEW t, NEW q, NEW st, NEW ev, NEW ex, NEW sc,
           NEW rep, NEW dk,
           Core(s, q, st, ev, ex, sc, rep, dk), s.finished = <<"Primary">>, Loads(s, t)
    PROVE  /\ Core(t, q, st, ev, ex, sc, rep, dk)
           /\ s.epoch = 0 /\ NoCancel(q) /\ NoPub(q) /\ ~s.active /\ ~t.rebuild
           /\ s.publications = <<>> /\ ~s.primaryScan /\ s.lease = NoGeneration
<1>s. /\ t.primaryScan = s.primaryScan /\ t.loaded /\ t.latest = s.latest
      /\ t.epoch = s.epoch /\ t.active = s.active /\ t.publications = s.publications
      /\ t.finished = <<>> /\ t.lease = s.lease
      /\ t.available = s.available /\ t.required = s.required
      /\ t.invalidated = s.invalidated /\ t.suppressed = s.suppressed
      /\ t.prefixes = s.prefixes /\ t.rebuild = s.rebuild
      /\ t.installed = s.installed /\ t.hidden = s.hidden
    BY DEF Loads, SameFlags, SameMap
<1>1. s.finished # <<>> /\ ~s.loaded /\ s.publications = <<>> /\ ~s.primaryScan /\ ~s.active
      /\ s.epoch = 0 /\ s.lease = NoGeneration
    BY Distinct DEF Core, Nearly, Phase, Gens, StoreGens
<1>2. ~Sound(t) /\ ~Working(t) /\ ~Doomed(t) /\ ~OverlayIsHead(t) /\ ~Scanned(t) /\ ~Scanned(s)
      /\ (Period(t) <=> Period(s)) /\ ~Sound(s)
    BY <1>s, <1>1 DEF Sound, Working, Doomed, OverlayIsHead, Scanned, Period
<1>3. Regular(s, q, st, ev, sc, rep, dk)
    BY <1>1 DEF Core, Nearly, Mode, GivenUp, Doomed
<1>4. NoPub(q)
    BY <1>1, <1>3 DEF Regular, Order
<1>5. NoCancel(q)
    BY <1>1 DEF Core, Nearly, Cancellation, CancelSent, GivenUp, NoCancel
<1>6. Gens(t, q, st, ev)
    BY <1>s DEF Core, Nearly, Gens, StoreGens, EventGens, Dated
<1>7. Phase(t)
    BY <1>s, <1>1, <1>2 DEF Core, Nearly, Phase
<1>8. Job(t, ev, sc)
    BY <1>s, <1>2 DEF Core, Nearly, Job
<1>9. Flags(t, ex, dk) /\ Cleared(t) /\ ~t.rebuild
    BY <1>s, <1>1, <1>2 DEF Core, Nearly, Flags, Cleared
<1>10. Cancelled(t, ev, ex, sc) /\ Cancellation(t, q, ev, ex, sc)
  <2>1. ~CancelledJob(s, ev, sc)
    BY <1>1 DEF Core, Nearly, Cancelled
  <2>2. ~CancelledJob(t, ev, sc)
    BY <2>1, <1>s, <1>1, Distinct DEF CancelledJob
  <2>3. QED
    BY <2>2, <1>5 DEF Cancelled, Cancellation, NoCancel
<1>11. Shown(t, rep, dk)
    BY <1>s DEF Core, Nearly, Shown
<1>12. \A i \in 1..Len(q) : ~IsMap(q[i]) /\ q[i].kind \notin {"Overlay", "Publish"}
    BY <1>4 DEF NoPub, IsPub, IsMap
<1>13. Order(t, q, st, dk)
    BY <1>3, <1>4, <1>12, <1>2, <1>s DEF Regular, Order, Carries, Begun
<1>14. Mode(t, q, st, ev, ex, sc, rep, dk)
    BY <1>13, <1>2, <1>s
       DEF Mode, Regular, Pipeline, HiddenFirst, HiddenRebuild, Rebuilt, RebuildShrinks
<1>15. HiddenOverlay(t, q, rep)
    BY <1>s, <1>2, <1>12 DEF Core, HiddenOverlay, LeavesOut
<1>16. QED
    BY <1>1, <1>4, <1>5, <1>6, <1>7, <1>8, <1>9, <1>10, <1>11, <1>14, <1>15 DEF Core, Nearly

-----------------------------------------------------------------------------
(***************************************************************************)
(* A publication is answered: its answer is the first in flight.           *)
(***************************************************************************)
LEMMA PoppedFacts ==
    ASSUME NEW q, NEW p, Dropped(q, p, 1)
    PROVE  /\ 1 \in 1..Len(q) /\ Len(p) \in Nat
           /\ \A i \in 1..Len(p) : i + 1 \in 1..Len(q) /\ 1 < i + 1 /\ p[i] = q[i + 1]
<1>1. Len(p) \in Nat /\ Len(q) = Len(p) + 1
    BY DEF Dropped
<1>2. \A i \in 1..Len(p) : ~(i < 1) /\ i + 1 \in 1..Len(q) /\ 1 < i + 1
    BY <1>1
<1>3. QED
    BY <1>1, <1>2 DEF Dropped

\* Behind a publication that is answered nothing begins, ends or publishes.
LEMMA AnsweredFirst ==
    ASSUME NEW s, NEW q, NEW p, NEW st, NEW dk, Order(s, q, st, dk), Dropped(q, p, 1),
           IsPub(q[1])
    PROVE  /\ NoPub(p) /\ NoCancel(p)
           /\ \A i \in 1..Len(p) : /\ ~Begins(p[i]) /\ ~IsMap(p[i]) /\ ~IsPub(p[i])
                                   /\ p[i].kind \notin {"Overlay", "Publish"}
           /\ \A i \in 1..Len(q) : ~Begins(q[i]) \/ i = 1
<1>1. /\ 1 \in 1..Len(q) /\ Len(p) \in Nat
      /\ \A i \in 1..Len(p) : i + 1 \in 1..Len(q) /\ 1 < i + 1 /\ p[i] = q[i + 1]
    BY PoppedFacts
<1>2. \A i \in 1..Len(q) : i = 1 \/ 1 < i
    BY <1>1 DEF Dropped
<1>3. \A i \in 1..Len(q) : i = 1 \/ (~Begins(q[i]) /\ ~Cancels(q[i]))
    BY <1>1, <1>2 DEF Order, PubsLast
<1>4. \A i \in 1..Len(p) : ~IsPub(p[i])
  <2>1. ASSUME NEW i \in 1..Len(p) PROVE ~IsPub(p[i])
    <3>1. i + 1 \in 1..Len(q) /\ 1 \in 1..Len(q) /\ i + 1 # 1 /\ p[i] = q[i + 1]
        BY <1>1
    <3>2. QED
        BY <3>1 DEF Order, AtMostOne
  <2>2. QED
    BY <2>1
<1>5. \A i \in 1..Len(p) : ~Begins(p[i]) /\ ~Cancels(p[i])
  <2>1. ASSUME NEW i \in 1..Len(p) PROVE ~Begins(p[i]) /\ ~Cancels(p[i])
    <3>1. i + 1 \in 1..Len(q) /\ i + 1 # 1 /\ p[i] = q[i + 1]
        BY <1>1
    <3>2. QED
        BY <3>1, <1>3
  <2>2. QED
    BY <2>1
<1>6. QED
    BY <1>3, <1>4, <1>5 DEF NoPub, NoCancel, IsPub, IsMap

\* The answer that was applied is out of flight: generations.
LEMMA PoppedGens ==
    ASSUME NEW s, NEW t, NEW q, NEW p, NEW st, NEW ev, Gens(s, q, st, ev), Dropped(q, p, 1),
           t.latest = s.latest, t.epoch = s.epoch, t.lease = s.lease,
           t.installed.gen <= st.newest, t.installed.scan <= t.installed.gen
    PROVE  Gens(t, p, st, ev)
<1>1. \A i \in 1..Len(p) : i + 1 \in 1..Len(q) /\ 1 < i + 1 /\ p[i] = q[i + 1]
    BY PoppedFacts
<1>2. \A i \in 1..Len(p) : Dated(t, st, p[i])
    BY <1>1 DEF Gens, Dated
<1>3. Ascending(p)
  <2>1. SUFFICES ASSUME NEW i \in 1..Len(p), NEW j \in 1..Len(p), i < j,
                        Begins(p[i]), Begins(p[j])
                 PROVE  p[i].gen < p[j].gen
    BY DEF Ascending
  <2>2. i + 1 < j + 1
    BY <2>1
  <2>3. QED
    BY <2>1, <2>2, <1>1 DEF Gens, Ascending
<1>4. QED
    BY <1>2, <1>3 DEF Gens, StoreGens, EventGens

\* The answer that was applied is out of flight: what is listed.
LEMMA PoppedLists ==
    ASSUME NEW q, NEW p, NEW st, NEW ev, Dropped(q, p, 1)
    PROVE  \A g, e : Lists(g, p, st, ev, e) => Lists(g, q, st, ev, e)
<1>1. \A i \in 1..Len(p) : \E j \in 1..Len(q) : p[i] = q[j]
    BY PoppedFacts
<1>2. QED
    BY <1>1 DEF Lists

\* The first publication is settled.
PrimarySettles(s, t, a) ==
    /\ SameJob(s, t) /\ t.publications = <<>> /\ t.finished = <<"Primary">>
    /\ t.hidden = s.hidden /\ ~t.rebuild
    /\ \/ t.installed = s.installed /\ t.prefixes = <<>>
       \/ /\ IsMap(a) /\ t.installed = a.map /\ s.available /\ t.available /\ ~s.rebuild
          /\ t.required = s.required /\ t.prefixes = s.prefixes /\ t.excused = s.excused
       \/ IsMap(a) /\ t.installed = a.map /\ t.required /\ t.prefixes = <<>>

\* The first scan's publication is answered.
LEMMA CorePrimary ==
    ASSUME NEW s \in Own, NEW t, NEW q, NEW p, NEW st \in Store, NEW ev, NEW ex, NEW sc,
           NEW rep, NEW dk,
           Core(s, q, st, ev, ex, sc, rep, dk), Dropped(q, p, 1), IsPub(q[1]),
           s.publications = <<"Primary">>, PrimarySettles(s, t, q[1])
    PROVE  Core(t, p, st, ev, ex, sc, rep, dk)
<1> USE DEF SameJob
<1>f. t.finished = <<"Primary">> /\ t.finished # <<>> /\ s.publications # <<>>
      /\ t.finished # <<"RebuildCancelled">> /\ t.finished # <<"Rebuild">>
    BY Distinct DEF PrimarySettles
<1>1. ~s.loaded /\ ~s.active /\ s.finished = <<>> /\ ~s.primaryScan
      /\ s.lease = NoGeneration /\ s.installed = NoMap /\ s.latest = 0
    BY <1>f, Distinct DEF Core, Nearly, Phase
<1>s. /\ t.primaryScan = s.primaryScan /\ t.lease = s.lease /\ t.loaded = s.loaded
      /\ t.latest = s.latest /\ t.epoch = s.epoch /\ t.active = s.active
      /\ t.publications = <<>> /\ t.hidden = s.hidden /\ ~t.rebuild
    BY DEF PrimarySettles
<1>R. Regular(s, q, st, ev, sc, rep, dk)
    BY <1>1 DEF Core, Nearly, Mode, GivenUp, Doomed
<1>a. /\ NoPub(p) /\ NoCancel(p)
      /\ \A i \in 1..Len(p) : /\ ~Begins(p[i]) /\ ~IsMap(p[i]) /\ ~IsPub(p[i])
                              /\ p[i].kind \notin {"Overlay", "Publish"}
    BY <1>R, AnsweredFirst DEF Regular
<1>q. 1 \in 1..Len(q) /\ \A i \in 1..Len(p) : i + 1 \in 1..Len(q) /\ p[i] = q[i + 1]
    BY PoppedFacts
<1>m. IsMap(q[1]) =>
        /\ q[1].map.gen = 0 /\ q[1].map.scan = 0 /\ q[1].map.gen <= st.newest
        /\ dk \subseteq q[1].map.listed
        /\ \A e \in q[1].map.listed \intersect rep :
             e \in s.hidden /\ (s.available /\ ~s.rebuild => e \in ToSet(s.prefixes))
  <2>1. SUFFICES ASSUME IsMap(q[1])
                 PROVE  /\ q[1].map.gen = 0 /\ q[1].map.scan = 0 /\ q[1].map.gen <= st.newest
                        /\ dk \subseteq q[1].map.listed
                        /\ \A e \in q[1].map.listed \intersect rep :
                             e \in s.hidden
                               /\ (s.available /\ ~s.rebuild => e \in ToSet(s.prefixes))
    OBVIOUS
  <2>2. Carries(s, q[1], dk) /\ Dated(s, st, q[1])
    BY <1>q, <1>R DEF Regular, Order, Core, Nearly, Gens
  <2>3. /\ q[1].map.gen = 0 /\ q[1].map.scan = 0 /\ q[1].map.gen <= st.newest
        /\ dk \subseteq q[1].map.listed
    BY <2>1, <2>2, <1>1 DEF Carries, Dated
  <2>4. \A e \in q[1].map.listed : Lists(0, q, st, ev, e)
    BY <2>1, <2>3, <1>q DEF Lists
  <2>5. QED
    BY <2>3, <2>4, <1>R, <1>1 DEF Regular, HiddenFirst
<1>2. Gens(t, p, st, ev)
  <2>1. Gens(s, q, st, ev)
    BY DEF Core, Nearly
  <2>2. t.installed.gen <= st.newest /\ t.installed.scan <= t.installed.gen
    <3>1. CASE t.installed = s.installed
        BY <3>1, <2>1 DEF Gens, StoreGens
    <3>2. CASE IsMap(q[1]) /\ t.installed = q[1].map
        BY <3>2, <1>m
    <3>3. QED
        BY <3>1, <3>2 DEF PrimarySettles
  <2>3. QED
    BY <2>1, <2>2, <1>s, PoppedGens
<1>o. ~Sound(t) /\ ~Doomed(t) /\ ~OverlayIsHead(t) /\ ~Scanned(t) /\ ~Scanned(s)
      /\ JobGen(t) = JobGen(s) /\ Working(s)
    BY <1>s, <1>1, <1>f, Distinct DEF Sound, Doomed, OverlayIsHead, Scanned, JobGen, Working
<1>3. Phase(t)
    BY <1>s, <1>1, <1>f, <1>o DEF Core, Nearly, Phase
<1>4. Job(t, ev, sc)
    BY <1>o DEF Core, Nearly, Job
<1>p. ~s.required \/ ~s.available
    BY <1>1 DEF Core, Nearly, Flags
<1>5. Flags(t, ex, dk) /\ Cleared(t)
  <2>1. ToSet(t.prefixes) \intersect dk = {}
    <3>1. CASE t.prefixes = <<>>
        BY <3>1, EmptySet
    <3>2. CASE t.prefixes = s.prefixes /\ ~s.rebuild
        BY <3>2 DEF Core, Nearly, Flags
    <3>3. QED
        BY <3>1, <3>2 DEF PrimarySettles
  <2>2. Cleared(t)
    BY <1>p, <1>s, <1>1 DEF PrimarySettles, Cleared, Period
  <2>3. QED
    BY <2>1, <2>2, <1>o, <1>f, <1>s DEF Flags
<1>6. Cancelled(t, ev, ex, sc) /\ Cancellation(t, p, ev, ex, sc)
  <2>1. ~CancelledJob(s, ev, sc)
    BY <1>1 DEF Core, Nearly, Cancelled
  <2>2. ~CancelledJob(t, ev, sc)
    BY <2>1, <1>f DEF CancelledJob
  <2>3. QED
    BY <2>2, <1>a DEF Cancelled, Cancellation, NoCancel
<1>7. Shown(t, rep, dk)
    BY <1>m, <1>s DEF PrimarySettles, Core, Nearly, Shown
<1>8. Order(t, p, st, dk)
  <2>1. AtMostOne(p) /\ PubsLast(p)
    BY <1>a DEF AtMostOne, PubsLast
  <2>2. QED
    BY <2>1, <1>a, <1>o DEF Order, Begun, Carries
<1>9. Pipeline(t, p, st, ev, sc, dk)
  <2>1. Admits(t, p)
    BY <1>a, <1>o DEF Admits
  <2>2. QED
    BY <2>1, <1>a, <1>o DEF Pipeline, Delivered
<1>10. Mode(t, p, st, ev, ex, sc, rep, dk)
    BY <1>8, <1>9, <1>o, <1>f
       DEF Mode, Regular, HiddenFirst, HiddenRebuild, Rebuilt, RebuildShrinks
<1>11. HiddenOverlay(t, p, rep)
  <2>1. SUFFICES ASSUME t.available, ~Period(t)
                 PROVE  t.installed.listed \intersect rep \subseteq ToSet(t.prefixes)
    BY <1>a DEF HiddenOverlay, LeavesOut
  <2>2. NoMap.listed = {}
    BY DEF NoMap
  <2>3. CASE t.installed = s.installed
    BY <2>2, <2>3, <1>1
  <2>4. CASE t.installed # s.installed
    BY <2>1, <2>4, <1>m DEF PrimarySettles, Period
  <2>5. QED
    BY <2>3, <2>4
<1>12. QED
    BY <1>2, <1>3, <1>4, <1>5, <1>6, <1>7, <1>10, <1>11 DEF Core, Nearly

\* The publication of a rebuild is settled.
RebuildSettles(s, t, a) ==
    /\ SameJob(s, t) /\ SameFlags(s, t) /\ t.publications = <<>> /\ t.hidden = s.hidden
    /\ \/ t.finished = <<"RebuildCancelled">> /\ s.suppressed /\ t.installed = s.installed
       \/ t.finished = <<"RebuildFailed">> /\ t.installed = s.installed
       \/ t.finished = <<"Rebuild">> /\ IsMap(a) /\ t.installed = a.map

\* A rebuild's publication is answered.
LEMMA CoreRebuild ==
    ASSUME NEW s \in Own, NEW t, NEW q, NEW p, NEW st \in Store, NEW ev, NEW ex, NEW sc,
           NEW rep, NEW dk,
           Core(s, q, st, ev, ex, sc, rep, dk), Dropped(q, p, 1), IsPub(q[1]),
           s.publications = <<"Rebuild">>, ~Doomed(s), RebuildSettles(s, t, q[1])
    PROVE  /\ Core(t, p, st, ev, ex, sc, rep, dk)
           /\ IsMap(q[1]) /\ s.installed # NoMap =>
                /\ q[1].map.gen > s.installed.gen /\ q[1].map.scan >= s.installed.scan
                /\ q[1].map.listed \subseteq s.installed.listed
<1> USE DEF SameJob
<1>f. /\ s.publications # <<>> /\ t.finished # <<>> /\ t.finished # <<"Primary">>
      /\ t.finished \in {<<"Rebuild">>, <<"RebuildFailed">>, <<"RebuildCancelled">>}
      /\ t.finished = <<"RebuildCancelled">> => s.suppressed
      /\ t.finished = <<"Rebuild">> => IsMap(q[1]) /\ t.installed = q[1].map
      /\ s.publications \notin {<<"Overlay">>, <<"Primary">>, <<"Overlay", "Rebuild">>}
    BY Distinct, ZenonT(60) DEF RebuildSettles
<1>1. s.active /\ s.loaded /\ s.finished = <<>> /\ ~s.primaryScan /\ Sound(s)
    BY <1>f, Distinct DEF Core, Nearly, Phase, Sound, Doomed
<1>s. /\ t.primaryScan = s.primaryScan /\ t.lease = s.lease /\ t.loaded = s.loaded
      /\ t.latest = s.latest /\ t.epoch = s.epoch /\ t.active = s.active
      /\ t.publications = <<>> /\ t.hidden = s.hidden
      /\ t.available = s.available /\ t.required = s.required
      /\ t.invalidated = s.invalidated /\ t.suppressed = s.suppressed
      /\ t.prefixes = s.prefixes /\ t.rebuild = s.rebuild
    BY DEF RebuildSettles, SameFlags
<1>R. Regular(s, q, st, ev, sc, rep, dk)
    BY <1>1, <1>f DEF Core, Nearly, Mode, GivenUp
<1>a. /\ NoPub(p) /\ NoCancel(p)
      /\ \A i \in 1..Len(p) : /\ ~Begins(p[i]) /\ ~IsMap(p[i]) /\ ~IsPub(p[i])
                              /\ p[i].kind \notin {"Overlay", "Publish"}
      /\ \A i \in 1..Len(q) : ~Begins(q[i]) \/ i = 1
    BY <1>R, AnsweredFirst DEF Regular
<1>q. 1 \in 1..Len(q) /\ \A i \in 1..Len(p) : i + 1 \in 1..Len(q) /\ p[i] = q[i + 1]
    BY PoppedFacts
<1>g. /\ s.installed.gen \in Int /\ s.installed.scan \in Int /\ s.lease \in Int
      /\ st.newest \in Int
    BY GenerationsTyped
<1>m. IsMap(q[1]) =>
        /\ q[1].map.gen = s.lease /\ q[1].map.scan = s.lease /\ q[1].map.gen <= st.newest
        /\ dk \subseteq q[1].map.listed
        /\ \A e \in q[1].map.listed \intersect rep : e \in s.hidden /\ s.invalidated
        /\ s.installed.gen < s.lease /\ s.installed.scan < s.lease
        /\ s.installed # NoMap => \A e \in Entries : e \in q[1].map.listed => e \in s.installed.listed
  <2>1. SUFFICES ASSUME IsMap(q[1])
                 PROVE  /\ q[1].map.gen = s.lease /\ q[1].map.scan = s.lease
                        /\ q[1].map.gen <= st.newest
                        /\ dk \subseteq q[1].map.listed
                        /\ \A e \in q[1].map.listed \intersect rep : e \in s.hidden /\ s.invalidated
                        /\ s.installed.gen < s.lease /\ s.installed.scan < s.lease
                        /\ s.installed # NoMap =>
                             \A e \in Entries : e \in q[1].map.listed => e \in s.installed.listed
    OBVIOUS
  <2>2. Carries(s, q[1], dk) /\ Dated(s, st, q[1])
    BY <1>q, <1>R DEF Regular, Order, Core, Nearly, Gens
  <2>3. /\ q[1].map.gen = s.lease /\ q[1].map.scan = s.lease /\ q[1].map.gen <= st.newest
        /\ dk \subseteq q[1].map.listed
    BY <2>1, <2>2, <1>1 DEF Carries, Dated
  <2>4. \A e \in q[1].map.listed : Lists(s.lease, q, st, ev, e)
    BY <2>1, <2>3, <1>q DEF Lists
  <2>5. s.installed.gen < s.lease
    BY <1>R, <1>1 DEF Regular, Rebuilt
  <2>6. s.installed.scan <= s.installed.gen
    BY DEF Core, Nearly, Gens, StoreGens
  <2>7. \A e \in q[1].map.listed \intersect rep : e \in s.hidden /\ s.invalidated
    BY <2>4, <1>R, <1>1 DEF Regular, HiddenRebuild
  <2>8. s.installed # NoMap =>
           \A e \in Entries : e \in q[1].map.listed => e \in s.installed.listed
    BY <2>4, <1>R, <1>1 DEF Regular, RebuildShrinks
  <2>9. QED
    BY <2>3, <2>5, <2>6, <2>7, <2>8, <1>g
<1>2. Gens(t, p, st, ev)
  <2>1. Gens(s, q, st, ev)
    BY DEF Core, Nearly
  <2>2. t.installed.gen <= st.newest /\ t.installed.scan <= t.installed.gen
    <3>1. CASE t.installed = s.installed
        BY <3>1, <2>1 DEF Gens, StoreGens
    <3>2. CASE IsMap(q[1]) /\ t.installed = q[1].map
        BY <3>2, <1>m, <1>g
    <3>3. QED
        BY <3>1, <3>2 DEF RebuildSettles
  <2>3. QED
    BY <2>1, <2>2, <1>s, PoppedGens
<1>o. Sound(t) /\ ~Doomed(t) /\ ~OverlayIsHead(t) /\ ~Scanned(t) /\ ~Scanned(s)
      /\ JobGen(t) = JobGen(s) /\ Working(s) /\ Period(t) /\ Working(t)
    BY <1>s, <1>1, <1>f, Distinct
       DEF Sound, Doomed, OverlayIsHead, Scanned, JobGen, Working, Period
<1>3. Phase(t)
    BY <1>s, <1>1, <1>f, <1>o DEF Core, Nearly, Phase
<1>4. Job(t, ev, sc)
    BY <1>o DEF Core, Nearly, Job
<1>5. Flags(t, ex, dk) /\ Cleared(t)
    BY <1>o, <1>s, <1>1 DEF Core, Nearly, Flags, Cleared, Period
<1>6. Cancelled(t, ev, ex, sc) /\ Cancellation(t, p, ev, ex, sc)
  <2>1. CancelledJob(t, ev, sc) => CancelledJob(s, ev, sc) \/ s.suppressed
    BY <1>f DEF CancelledJob
  <2>2. QED
    BY <2>1, <1>a, <1>s, <1>1 DEF Cancelled, Cancellation, NoCancel, Core, Nearly
<1>7. Shown(t, rep, dk)
    BY <1>m, <1>s DEF RebuildSettles, Core, Nearly, Shown
<1>8. Order(t, p, st, dk)
  <2>1. AtMostOne(p) /\ PubsLast(p)
    BY <1>a DEF AtMostOne, PubsLast
  <2>2. Begun(t, p, st)
    <3>1. \A i \in 1..Len(q) : q[i].kind # "BeginGeneration"
        BY <1>a DEF Begins, IsPub
    <3>2. QED
        BY <3>1, <1>a, <1>R, <1>1, <1>s DEF Regular, Order, Begun
  <2>3. QED
    BY <2>1, <2>2, <1>a, <1>s, <1>1 DEF Order, Carries
<1>9. Pipeline(t, p, st, ev, sc, dk)
  <2>1. Admits(t, p)
    BY <1>a, <1>o DEF Admits
  <2>2. QED
    BY <2>1, <1>a, <1>o DEF Pipeline, Delivered
<1>10. HiddenFirst(t, p, st, ev, rep) /\ HiddenRebuild(t, p, st, ev, rep)
  <2>1. \A g, e : Lists(g, p, st, ev, e) => Lists(g, q, st, ev, e)
    BY PoppedLists
  <2>2. QED
    BY <2>1, <1>R, <1>1, <1>s, <1>o DEF Regular, HiddenFirst, HiddenRebuild
<1>11. Rebuilt(t, rep) /\ RebuildShrinks(t, p, st, ev)
  <2>1. t.finished = <<"Rebuild">> /\ ~t.invalidated =>
            t.installed.listed \intersect rep = {} /\ t.installed.scan = t.lease
    BY <1>f, <1>m, <1>s
  <2>2. QED
    BY <2>1, <1>f DEF Rebuilt, RebuildShrinks
<1>12. Mode(t, p, st, ev, ex, sc, rep, dk)
    BY <1>8, <1>9, <1>10, <1>11, <1>o DEF Mode, Regular
<1>13. HiddenOverlay(t, p, rep)
    BY <1>o DEF HiddenOverlay
<1>14. IsMap(q[1]) /\ s.installed # NoMap =>
                /\ q[1].map.gen > s.installed.gen /\ q[1].map.scan >= s.installed.scan
                /\ q[1].map.listed \subseteq s.installed.listed
  <2>1. 1 \in 1..Len(q) /\ q[1] \in Messages
    BY <1>q DEF Dropped
  <2>2. IsMap(q[1]) => q[1].map.listed \subseteq Entries
    BY <2>1, AnswerTyped
  <2>3. QED
    BY <2>2, <1>m, <1>g
<1>15. QED
    BY <1>2, <1>3, <1>4, <1>5, <1>6, <1>7, <1>12, <1>13, <1>14 DEF Core, Nearly

\* The overlay is answered.
OverlayPops(s, u, a) ==
    /\ SameJob(s, u) /\ SameFlags(s, u) /\ u.finished = s.finished /\ u.hidden = s.hidden
    /\ u.publications = Tail(s.publications)
    /\ \/ u.installed = s.installed
       \/ IsMap(a) /\ u.installed = a.map

AfterOverlay(s, u, a, p, st, ev, ex, sc, rep, dk) ==
    /\ Nearly(u, p, st, ev, ex, sc, rep, dk) /\ Cleared(u)
    /\ u.loaded /\ ~u.rebuild /\ NoCancel(p) /\ ~OverlayIsHead(u)
    /\ u.publications = <<>> \/ Period(u)
    /\ GivenUp(u, ev, ex, sc) => ~u.available
    /\ u.active => ex = NoEntry
    /\ ~Period(u) => NoPub(p)
    /\ u.installed = s.installed \/ Follows(s, u.installed, dk)
    /\ (IsMap(a) /\ u.installed = a.map) \/ ~u.available => HiddenOverlay(u, p, rep)

\* An overlay's publication is answered.
LEMMA CorePops ==
    ASSUME NEW s \in Own, NEW u, NEW q, NEW p, NEW st \in Store, NEW ev, NEW ex, NEW sc,
           NEW rep, NEW dk,
           Core(s, q, st, ev, ex, sc, rep, dk), Dropped(q, p, 1), IsPub(q[1]),
           OverlayIsHead(s), OverlayPops(s, u, q[1])
    PROVE  AfterOverlay(s, u, q[1], p, st, ev, ex, sc, rep, dk)
<1> USE DEF SameJob
<1>s. /\ u.primaryScan = s.primaryScan /\ u.lease = s.lease /\ u.loaded = s.loaded
      /\ u.latest = s.latest /\ u.epoch = s.epoch /\ u.active = s.active
      /\ u.hidden = s.hidden /\ u.finished = s.finished
      /\ u.available = s.available /\ u.required = s.required
      /\ u.invalidated = s.invalidated /\ u.suppressed = s.suppressed
      /\ u.prefixes = s.prefixes /\ u.rebuild = s.rebuild
    BY DEF OverlayPops, SameFlags
<1>h. s.publications # <<>> /\ Head(s.publications) = "Overlay"
    BY DEF OverlayIsHead
<1>1. /\ s.loaded
      /\ \/ s.publications = <<"Overlay">> /\ u.publications = <<>>
         \/ /\ s.publications = <<"Overlay", "Rebuild">> /\ u.publications = <<"Rebuild">>
            /\ s.active
  <2>1. s.publications \notin {<<>>, <<"Primary">>, <<"Rebuild">>}
    BY <1>h, Distinct
  <2>2. /\ s.loaded
        /\ \/ s.publications = <<"Overlay">>
           \/ s.publications = <<"Overlay", "Rebuild">> /\ s.active
    BY <2>1 DEF Core, Nearly, Phase
  <2>3. u.publications = Tail(s.publications)
    BY DEF OverlayPops
  <2>4. QED
    BY <2>2, <2>3, Distinct, ZenonT(60)
<1>o. /\ ~Sound(s) /\ ~Sound(u) /\ (Doomed(u) <=> Doomed(s)) /\ (Doomed(s) <=> s.active)
      /\ ~OverlayIsHead(u) /\ (Period(u) <=> Period(s)) /\ (Scanned(u) <=> Scanned(s))
      /\ ~Working(u) /\ (CancelledJob(u, ev, sc) <=> CancelledJob(s, ev, sc))
  <2>1. ~Sound(s)
    BY <1>1, Distinct, SMTT(40) DEF Core, Nearly, Phase
  <2>2. ~OverlayIsHead(u)
    BY <1>1, Distinct DEF OverlayIsHead
  <2>3. Scanned(u) <=> Scanned(s)
    <3>1. CASE s.publications = <<"Overlay">> /\ u.publications = <<>>
        BY <3>1, <1>s DEF Scanned
    <3>2. CASE s.publications = <<"Overlay", "Rebuild">> /\ u.publications = <<"Rebuild">>
      <4>1. s.publications \notin {<<>>, <<"Overlay">>} /\ u.publications \notin {<<>>, <<"Overlay">>}
        BY <3>2, Distinct
      <4>2. QED
        BY <4>1 DEF Scanned
    <3>3. QED
        BY <3>1, <3>2, <1>1
  <2>4. QED
    BY <2>1, <2>2, <2>3, <1>s, <1>1 DEF Sound, Doomed, Period, Working, CancelledJob
<1>M. \/ Doomed(s) /\ ex = NoEntry /\ DoomedOrder(s, q, st, dk)
      \/ Regular(s, q, st, ev, sc, rep, dk) /\ ~s.active
    BY <1>h, <1>o DEF Core, Nearly, Mode, GivenUp, Regular
<1>q. 1 \in 1..Len(q) /\ \A i \in 1..Len(p) : i + 1 \in 1..Len(q) /\ p[i] = q[i + 1]
    BY PoppedFacts
<1>g. /\ s.installed.gen \in Int /\ s.installed.scan \in Int /\ st.newest \in Int
    BY GenerationsTyped
<1>m. IsMap(q[1]) => Follows(s, q[1].map, dk) /\ q[1].map.gen <= st.newest
                     /\ q[1].map.gen \in Int
  <2>1. SUFFICES ASSUME IsMap(q[1])
                 PROVE  Follows(s, q[1].map, dk) /\ q[1].map.gen <= st.newest
                        /\ q[1].map.gen \in Int
    OBVIOUS
  <2>2. q[1].map.gen <= st.newest
    BY <2>1, <1>q DEF Core, Nearly, Gens, Dated
  <2>3. Follows(s, q[1].map, dk)
    <3>1. CASE Doomed(s) /\ DoomedOrder(s, q, st, dk)
      <4>1. First(q, 1)
        BY DEF First
      <4>2. QED
        BY <4>1, <3>1, <2>1, <1>q DEF DoomedOrder, DoomedItem
    <3>2. CASE Regular(s, q, st, ev, sc, rep, dk) /\ ~s.active
      <4>1. s.publications = <<"Overlay">>
        BY <3>2, <1>1
      <4>2. QED
        BY <4>1, <3>2, <2>1, <1>q DEF Regular, Order, Carries
    <3>3. QED
        BY <1>M, <3>1, <3>2
  <2>4. q[1] \in Messages
    BY <1>q DEF Dropped
  <2>5. q[1].map.gen \in Int
    BY <2>1, <2>4, MessageTyped DEF IsMap
  <2>6. QED
    BY <2>2, <2>3, <2>5
<1>F. u.installed = s.installed \/ (IsMap(q[1]) /\ u.installed = q[1].map)
    BY DEF OverlayPops
<1>c. NoCancel(p)
  <2>1. CASE Regular(s, q, st, ev, sc, rep, dk)
    BY <2>1, AnsweredFirst DEF Regular
  <2>2. CASE Doomed(s)
    <3>1. s.active /\ s.publications \notin {<<>>, <<"Rebuild">>}
        BY <2>2, <1>1, Distinct, ZenonT(60) DEF Doomed
    <3>2. NoCancel(q)
        BY <3>1 DEF Core, Nearly, Cancellation, CancelSent, GivenUp, NoCancel
    <3>3. QED
        BY <3>2, <1>q DEF NoCancel
  <2>3. QED
    BY <1>M, <2>1, <2>2
<1>2. Gens(u, p, st, ev)
  <2>1. Gens(s, q, st, ev)
    BY DEF Core, Nearly
  <2>2. u.installed.gen <= st.newest /\ u.installed.scan <= u.installed.gen
    <3>0. s.installed.gen <= st.newest /\ s.installed.scan <= s.installed.gen
        BY <2>1 DEF Gens, StoreGens
    <3>1. CASE u.installed = s.installed
        BY <3>1, <3>0
    <3>2. CASE IsMap(q[1]) /\ u.installed = q[1].map
        BY <3>2, <3>0, <1>m, <1>g DEF Follows
    <3>3. QED
        BY <3>1, <3>2, <1>F
  <2>3. QED
    BY <2>1, <2>2, <1>s, PoppedGens
<1>3. Phase(u)
  <2>1. s.finished # <<"Primary">>
    BY <1>1, Distinct DEF Core, Nearly, Phase
  <2>2. s.finished # <<>> => s.publications = <<"Overlay">>
    BY <1>h, <2>1, Distinct DEF Core, Nearly, Phase
  <2>3. /\ ~s.primaryScan /\ (s.lease # NoGeneration <=> s.active) /\ (s.active => s.lease > 0)
        /\ \/ s.finished = <<>>
           \/ s.finished \in {<<"Rebuild">>, <<"RebuildFailed">>, <<"RebuildCancelled">>} /\ s.active
    BY <1>h, <2>1, <1>1 DEF Core, Nearly, Phase
  <2>4. CASE s.publications = <<"Overlay">> /\ u.publications = <<>>
    BY <2>4, <2>3, <1>s, <1>1, <1>o DEF Phase
  <2>5. CASE s.publications = <<"Overlay", "Rebuild">> /\ u.publications = <<"Rebuild">> /\ s.active
    <3>1. s.finished = <<>>
      BY <2>5, <2>2, Distinct
    <3>2. QED
      BY <3>1, <2>5, <2>3, <1>s, <1>1, <1>o DEF Phase
  <2>6. QED
    BY <1>1, <2>4, <2>5
<1>4. Job(u, ev, sc)
    BY <1>o, <1>s DEF Core, Nearly, Job
<1>5. Flags(u, ex, dk) /\ Cleared(u) /\ ~u.rebuild
    BY <1>o, <1>s, <1>1 DEF Core, Nearly, Flags, Cleared
<1>6. Cancelled(u, ev, ex, sc) /\ Cancellation(u, p, ev, ex, sc)
    BY <1>o, <1>s, <1>c DEF Core, Nearly, Cancelled, Cancellation, NoCancel
<1>7. Shown(u, rep, dk)
    BY <1>F, <1>m, <1>s DEF Core, Nearly, Shown, Follows
<1>8. Mode(u, p, st, ev, ex, sc, rep, dk)
  <2>1. CASE Doomed(s) /\ ex = NoEntry
    BY <2>1, <1>o DEF Mode, DoomedOrder
  <2>2. CASE Regular(s, q, st, ev, sc, rep, dk) /\ ~s.active
    <3>1. NoPub(p) /\ \A i \in 1..Len(p) : /\ ~Begins(p[i]) /\ ~IsMap(p[i]) /\ ~IsPub(p[i])
                              /\ p[i].kind \notin {"Overlay", "Publish"}
        BY <2>2, AnsweredFirst DEF Regular
    <3>2. AtMostOne(p) /\ PubsLast(p)
        BY <3>1 DEF AtMostOne, PubsLast
    <3>3. Order(u, p, st, dk)
        BY <3>1, <3>2, <1>o, <1>s, <1>1 DEF Order, Begun, Carries
    <3>4. QED
        BY <3>3, <2>2, <1>o, <1>s, <1>1
           DEF Mode, Regular, Pipeline, HiddenFirst, HiddenRebuild, Rebuilt, RebuildShrinks
  <2>3. QED
    BY <1>M, <2>1, <2>2
<1>9. ~Period(u) => NoPub(p)
    BY <1>M, <1>o, <1>s, AnsweredFirst DEF Regular, Period
<1>10. GivenUp(u, ev, ex, sc) => ~u.available
    BY DEF GivenUp
<1>11. (IsMap(q[1]) /\ u.installed = q[1].map) \/ ~u.available => HiddenOverlay(u, p, rep)
  <2>1. SUFFICES ASSUME IsMap(q[1]), u.installed = q[1].map, u.available, ~Period(u)
                 PROVE  HiddenOverlay(u, p, rep)
    BY DEF HiddenOverlay
  <2>2. LeavesOut(s, q[1], rep)
    BY <2>1, <1>q, <1>s, <1>o, <1>1 DEF Core, HiddenOverlay
  <2>3. u.installed.listed \intersect rep \subseteq ToSet(u.prefixes)
    BY <2>1, <2>2, <1>s DEF LeavesOut
  <2>4. QED
    BY <2>1, <2>3, <1>9 DEF HiddenOverlay, LeavesOut, NoPub, IsPub, IsMap
<1>12. /\ u.publications = <<>> \/ Period(u)
       /\ u.active => ex = NoEntry
       /\ u.installed = s.installed \/ Follows(s, u.installed, dk)
    BY <1>1, <1>s, <1>o, <1>F, <1>m, <1>M DEF Period
<1>13. QED
    BY <1>12, <1>10, <1>2, <1>3, <1>4, <1>5, <1>6, <1>7, <1>8, <1>9, <1>11, <1>c, <1>s, <1>1, <1>o, <1>F,
       <1>m, <1>M DEF Nearly, AfterOverlay

-----------------------------------------------------------------------------
(***************************************************************************)
(* The owner applies the answers.                                          *)
(***************************************************************************)
\* The failures that were excused and are not made good yet.
Owes(s) ==
    /\ s.available /\ ~Period(s) /\ ~s.rebuild
    /\ s.installed.scan = 0 \/ (~s.loaded /\ s.finished = <<>>)
OwesNoMore(s, t) == Owes(t) => Owes(s) /\ t.excused = s.excused

\* The map that is installed is kept, or one that goes no further back takes its place.
Advances(s, t) ==
    \/ t.installed = s.installed \/ s.installed = NoMap
    \/ /\ t.installed.gen > s.installed.gen /\ t.installed.scan >= s.installed.scan
       /\ t.installed.listed \subseteq s.installed.listed
Stays(s, t) == t.lease = s.lease /\ t.ended = s.ended /\ t.latest >= s.latest

\* A rebuild that was doomed has been published: the owner will end the run.
Bad(s) ==
    /\ s.active /\ s.lease # s.epoch /\ s.publications = <<>>
    /\ \E how \in RebuildEnds : s.finished = <<how>>

\* What two steps do not add, both together do not add.
LEMMA OwesChain ==
    ASSUME NEW s, NEW t, NEW u, OwesNoMore(s, t), OwesNoMore(t, u)
    PROVE  OwesNoMore(s, u)
    BY DEF OwesNoMore

\* The same lease and run.
LEMMA StaysChain ==
    ASSUME NEW s \in Own, NEW t \in Own, NEW u \in Own, Stays(s, t), Stays(t, u)
    PROVE  Stays(s, u)
<1>1. s.latest \in Nat /\ t.latest \in Nat /\ u.latest \in Nat
    BY DEF Own
<1>2. QED
    BY <1>1 DEF Stays

\* Maps that go forward twice go forward.
LEMMA AdvancesChain ==
    ASSUME NEW s \in Own, NEW t \in Own, NEW u \in Own, Advances(s, t), Advances(t, u)
    PROVE  Advances(s, u)
<1>1. \A x \in Own : /\ x.installed.gen \in Int /\ x.installed.scan \in Int
                     /\ x.installed.gen >= -1
  <2>1. \A x \in Own : x.installed \in Map
    BY DEF Own
  <2>2. \A m \in Map : m.gen \in Int /\ m.scan \in Int /\ m.gen >= -1
    BY DEF Map, Generation, NoGeneration
  <2>3. QED
    BY <2>1, <2>2
<1>2. NoMap.gen = -1
    BY DEF NoMap, NoGeneration
<1>3. CASE t.installed = s.installed \/ s.installed = NoMap
    BY <1>3 DEF Advances
<1>4. CASE /\ t.installed.gen > s.installed.gen /\ t.installed.scan >= s.installed.scan
           /\ t.installed.listed \subseteq s.installed.listed
  <2>1. t.installed # NoMap
    BY <1>1, <1>2, <1>4
  <2>2. QED
    BY <1>1, <1>4, <2>1 DEF Advances
<1>5. QED
    BY <1>3, <1>4 DEF Advances

\* What leaves the job and the map alone.
LEMMA KeepsMoves ==
    ASSUME NEW s \in Own, NEW t, Keeps(s, t)
    PROVE  OwesNoMore(s, t) /\ Advances(s, t) /\ Stays(s, t)
<1>1. s.latest \in Nat
    BY DEF Own
<1>2. QED
    BY <1>1 DEF Keeps, Fails, SameJob, SamePublications, SameMap, OwesNoMore, Owes, Advances,
                Stays, Period

\* To have the map scanned again replaces no map.
LEMMA InvalidatesMoves ==
    ASSUME NEW s \in Own, NEW t, Invalidates(s, t)
    PROVE  OwesNoMore(s, t) /\ Advances(s, t) /\ Stays(s, t)
<1>1. s.latest \in Nat
    BY DEF Own
<1>2. QED
    BY <1>1 DEF Invalidates, SameJob, SamePublications, SameMap, OwesNoMore, Owes, Advances,
                Stays, Period

\* To start an overlay replaces no map.
LEMMA OverlaysMoves ==
    ASSUME NEW s \in Own, NEW t, Overlays(s, t)
    PROVE  OwesNoMore(s, t) /\ Advances(s, t) /\ Stays(s, t)
<1>1. s.latest \in Nat
    BY DEF Own
<1>2. QED
    BY <1>1 DEF Overlays, SameMap, OwesNoMore, Owes, Advances, Stays, Period

\* A published doomed rebuild stays one.
LEMMA BadKeeps ==
    ASSUME NEW s, NEW t, Bad(s), Keeps(s, t)
    PROVE  Bad(t)
    BY DEF Bad, Keeps, Fails, SameJob, SamePublications

\* An answer that nothing waits for.
LEMMA CoreIgnores ==
    ASSUME NEW s, NEW q, NEW p, NEW st, NEW ev, NEW ex, NEW sc, NEW rep, NEW dk,
           Core(s, q, st, ev, ex, sc, rep, dk), Dropped(q, p, 1), IsPub(q[1]),
           s.publications = <<>>
    PROVE  Core(s, p, st, ev, ex, sc, rep, dk)
<1>q. 1 \in 1..Len(q) /\ \A i \in 1..Len(p) : i + 1 \in 1..Len(q) /\ p[i] = q[i + 1]
    BY PoppedFacts
<1>1. GivenUp(s, ev, ex, sc) \/ (Doomed(s) /\ ex = NoEntry)
    BY <1>q DEF Core, Nearly, Mode, Regular, Order, NoPub
<1>2. Gens(s, p, st, ev)
  <2>1. Gens(s, q, st, ev)
    BY DEF Core, Nearly
  <2>2. s.installed.gen <= st.newest /\ s.installed.scan <= s.installed.gen
    BY <2>1 DEF Gens, StoreGens
  <2>3. QED
    BY <2>1, <2>2, PoppedGens
<1>3. Cancellation(s, p, ev, ex, sc)
    BY <1>q DEF Core, Nearly, Cancellation
<1>4. Mode(s, p, st, ev, ex, sc, rep, dk)
    BY <1>1 DEF Mode, DoomedOrder, OverlayIsHead
<1>5. HiddenOverlay(s, p, rep)
    BY <1>1 DEF HiddenOverlay, GivenUp, Doomed, Period
<1>6. QED
    BY <1>2, <1>3, <1>4, <1>5 DEF Core, Nearly

\* A thread that is lost answers what is outstanding with an error.
Error == Answer("Publication", "error", NoMap)

\* The error of a store thread that stopped may be put in flight.
LEMMA CoreSummons ==
    ASSUME NEW s, NEW st, NEW ev, NEW ex, NEW sc, NEW rep, NEW dk,
           Core(s, <<>>, st, ev, ex, sc, rep, dk), s.publications # <<>>, ~st.running
    PROVE  Core(s, <<Error>>, st, ev, ex, sc, rep, dk)
<1> DEFINE q == <<Error>>
<1>1. /\ Len(q) = 1 /\ \A i \in 1..Len(q) : i = 1
      /\ \A i \in 1..Len(q) : q[i] = Error
      /\ Error.kind = "Publication" /\ Error.outcome = "error"
    BY DEF Error, Answer
<1>2. ~IsMap(Error) /\ ~Begins(Error) /\ ~Cancels(Error) /\ IsPub(Error)
      /\ \A g : ~IsAdmit(Error, g)
    BY <1>1 DEF IsMap, Begins, Cancels, IsPub, IsAdmit
<1> HIDE DEF q
<1>3. Gens(s, q, st, ev)
    BY <1>1, <1>2 DEF Core, Nearly, Gens, Ascending, Dated
<1>4. Cancellation(s, q, ev, ex, sc)
    BY <1>1, <1>2 DEF Cancellation
<1>5. \A g, e : Lists(g, q, st, ev, e) => Lists(g, <<>>, st, ev, e)
    BY <1>1, <1>2 DEF Lists
<1>6. DoomedOrder(s, q, st, dk)
    BY <1>1, <1>2 DEF DoomedOrder, DoomedItem
<1>7. Order(s, q, st, dk)
  <2>1. AtMostOne(q) /\ PubsLast(q)
    BY <1>1 DEF AtMostOne, PubsLast
  <2>2. QED
    BY <2>1, <1>1, <1>2 DEF Order, Begun, Carries
<1>8. Pipeline(s, q, st, ev, sc, dk)
    BY <1>1, <1>2 DEF Pipeline, Admits, Delivered, InPipe, StoreLost
<1>9. Mode(s, q, st, ev, ex, sc, rep, dk)
    BY <1>5, <1>6, <1>7, <1>8
       DEF Core, Nearly, Mode, Regular, HiddenFirst, HiddenRebuild, Rebuilt, RebuildShrinks
<1>10. HiddenOverlay(s, q, rep)
    BY <1>1, <1>2 DEF Core, HiddenOverlay, LeavesOut
<1>11. QED
    BY <1>3, <1>4, <1>9, <1>10 DEF Core, Nearly, q

-----------------------------------------------------------------------------
\* The parts of settling a publication.
Popped(s) == [s EXCEPT !.publications = Tail(@)]
Showing(s, m) == [s EXCEPT !.installed = m]

\* A publication is no longer waited for.
LEMMA PoppedEffect ==
    ASSUME NEW s \in Own, s.publications # <<>>
    PROVE  LET u == Popped(s)
           IN  /\ u \in Own /\ SameJob(s, u) /\ SameFlags(s, u) /\ SameMap(s, u)
               /\ u.finished = s.finished /\ u.publications = Tail(s.publications)
               /\ u.excused = s.excused /\ u.sent = s.sent /\ u.live = s.live
<1>1. Tail(s.publications) \in Seq(Kinds)
    BY DEF Own
<1>2. QED
    BY <1>1 DEF Popped, Own, SameJob, SameFlags, SameMap

\* A map is installed.
LEMMA ShowingEffect ==
    ASSUME NEW s \in Own, NEW m \in Map
    PROVE  LET u == Showing(s, m)
           IN  /\ u \in Own /\ SameJob(s, u) /\ SameFlags(s, u) /\ SamePublications(s, u)
               /\ u.hidden = s.hidden /\ u.ended = s.ended /\ u.installed = m
               /\ u.excused = s.excused /\ u.sent = s.sent /\ u.live = s.live
    BY DEF Showing, Own, SameJob, SameFlags, SamePublications

\* The end of a publication is noted.
LEMMA FinishEffect ==
    ASSUME NEW s \in Own, NEW what \in Ends
    PROVE  LET u == Finish(s, what)
           IN  /\ u \in Own /\ SameJob(s, u) /\ SameFlags(s, u) /\ SameMap(s, u)
               /\ u.publications = s.publications /\ u.finished = Append(s.finished, what)
               /\ u.excused = s.excused /\ u.sent = s.sent
<1>1. Append(s.finished, what) \in Seq(Ends)
    BY DEF Own
<1>2. QED
    BY <1>1 DEF Finish, Own, SameJob, SameFlags, SameMap

\* settle_removals_before_first_map.
RemovalsSettle(s, t) ==
    \/ t = s /\ NoRemovals(s)
    \/ t = s /\ s.available /\ s.installed # NoMap /\ ~s.rebuild
    \/ /\ ~s.available \/ s.installed = NoMap
       /\ SameJob(s, t) /\ SamePublications(s, t) /\ SameMap(s, t)
       /\ t.available = s.available /\ t.required = s.required
       /\ t.prefixes = <<>> /\ ~t.rebuild
    \/ s.available /\ s.installed # NoMap /\ Invalidates(s, t)

\* What the removals before the first map ask for when it arrives.
LEMMA SettleRemovalsEffect ==
    ASSUME NEW s \in Own, NEW r \in Seq(Messages), Typed
    PROVE  LET t == SettleRemovals(s)
           IN  t \in Own /\ RemovalsSettle(s, t) /\ Quiet(Fly(r, s), Fly(r, t))
<1> DEFINE t == SettleRemovals(s)
<1>1. CASE NoRemovals(s)
    BY <1>1, QuietSame DEF SettleRemovals, RemovalsSettle
<1>2. CASE ~NoRemovals(s) /\ (~s.available \/ s.installed = NoMap)
  <2>1. t = ClearRemovals(s)
    BY <1>2 DEF SettleRemovals
  <2>2. t \in Own /\ t.sent = s.sent /\ RemovalsSettle(s, t)
    BY <1>2, <2>1, ClearRemovalsEffect DEF RemovalsSettle
  <2>3. QED
    BY <2>2, QuietSame
<1>3. CASE ~NoRemovals(s) /\ ~(~s.available \/ s.installed = NoMap) /\ s.rebuild
  <2>1. t = Invalidate(s)
    BY <1>3 DEF SettleRemovals
  <2>2. QED
    BY <1>3, <2>1, InvalidateEffect DEF RemovalsSettle
<1>4. CASE ~NoRemovals(s) /\ ~(~s.available \/ s.installed = NoMap) /\ ~s.rebuild
  <2>1. t = s
    BY <1>4 DEF SettleRemovals
  <2>2. QED
    BY <1>4, <2>1, QuietSame DEF RemovalsSettle
<1>5. QED
    BY <1>1, <1>2, <1>3, <1>4

\* complete_primary_publication, up to the removals.
PrimaryAnswered(s, t, a) ==
    /\ SameJob(s, t) /\ SamePublications(s, t) /\ t.hidden = s.hidden /\ t.ended = s.ended
    /\ \/ ~t.available /\ t.installed = s.installed
       \/ SameFlags(s, t) /\ t.installed = s.installed
       \/ /\ SameFlags(s, t) /\ s.available /\ IsMap(a) /\ t.installed = a.map
          /\ t.excused = s.excused

PrimaryAnswer(s, a) ==
    IF ~s.available THEN s
    ELSE IF a.outcome = "error" THEN Abandon(s)
    ELSE IF a.outcome = "summary" THEN [s EXCEPT !.available = FALSE]
    ELSE [Install(s, a) EXCEPT !.live = FALSE]

\* The first scan's publication is answered: the owner.
LEMMA PrimaryAnswerEffect ==
    ASSUME NEW s \in Own, NEW a \in AnswerSet, a.kind = "Publication",
           NEW r \in Seq(Messages), Typed
    PROVE  LET t == PrimaryAnswer(s, a)
           IN  t \in Own /\ PrimaryAnswered(s, t, a) /\ Quiet(Fly(r, s), Fly(r, t))
<1> DEFINE t == PrimaryAnswer(s, a)
<1>1. CASE ~s.available
    BY <1>1, QuietSame DEF PrimaryAnswer, PrimaryAnswered, SameJob, SamePublications
<1>2. CASE s.available /\ a.outcome = "error"
  <2>1. t = Abandon(s)
    BY <1>2 DEF PrimaryAnswer
  <2>2. QED
    BY <2>1, AbandonEffect DEF PrimaryAnswered, Fails, SameMap
<1>3. CASE s.available /\ a.outcome = "summary"
  <2>1. t = [s EXCEPT !.available = FALSE]
    BY <1>3 DEF PrimaryAnswer
  <2>2. t \in Own /\ t.sent = s.sent /\ PrimaryAnswered(s, t, a)
    BY <2>1, ZenonT(60) DEF PrimaryAnswered, Own, SameJob, SamePublications
  <2>3. QED
    BY <2>2, QuietSame
<1>4. CASE s.available /\ a.outcome \notin {"error", "summary"}
  <2> DEFINE u == Install(s, a)
  <2>1. t = [u EXCEPT !.live = FALSE]
    BY <1>4 DEF PrimaryAnswer
  <2>2. a.map \in Map
    BY DEF AnswerSet
  <2>3. /\ u \in Own /\ SameJob(s, u) /\ SameFlags(s, u) /\ SamePublications(s, u)
        /\ u.hidden = s.hidden /\ u.ended = s.ended /\ u.excused = s.excused
        /\ u.sent = s.sent
        /\ u.installed = s.installed \/ (IsMap(a) /\ u.installed = a.map)
    <3>1. CASE a.outcome = "map"
      <4>1. u = Showing(s, a.map)
        BY <3>1 DEF Install, Showing
      <4>2. QED
        BY <3>1, <4>1, <2>2, ShowingEffect DEF IsMap
    <3>2. CASE a.outcome # "map"
        BY <3>2 DEF Install, SameJob, SameFlags, SamePublications
    <3>3. QED
        BY <3>1, <3>2
  <2> HIDE DEF u
  <2>4. /\ t \in Own /\ SameJob(u, t) /\ SameFlags(u, t) /\ SamePublications(u, t)
        /\ t.hidden = u.hidden /\ t.ended = u.ended /\ t.excused = u.excused
        /\ t.sent = u.sent /\ t.installed = u.installed
    BY <2>1, <2>3, ZenonT(60) DEF Own, SameJob, SameFlags, SamePublications
  <2> HIDE DEF t
  <2>5. Quiet(Fly(r, s), Fly(r, t))
    BY <2>3, <2>4, QuietSame
  <2>6. PrimaryAnswered(s, t, a)
    BY <2>3, <2>4, <1>4 DEF PrimaryAnswered, SameJob, SameFlags, SamePublications
  <2>7. QED
    BY <2>4, <2>5, <2>6 DEF t
<1>5. QED
    BY <1>1, <1>2, <1>3, <1>4

\* The same with the publication no longer waited for.
LEMMA SettlePrimaryEffect ==
    ASSUME NEW s \in Own, NEW a \in AnswerSet, a.kind = "Publication",
           NEW r \in Seq(Messages), Typed,
           s.publications = <<"Primary">>, s.finished = <<>>, s.installed = NoMap
    PROVE  LET t == Settle(s, a)
           IN  /\ t \in Own /\ PrimarySettles(s, t, a) /\ Quiet(Fly(r, s), Fly(r, t))
               /\ Stays(s, t)
<1> DEFINE u == Popped(s)
           v == PrimaryAnswer(u, a)
           w == SettleRemovals(v)
           t == Settle(s, a)
<1>1. s.publications # <<>> /\ Head(s.publications) = "Primary" /\ Tail(s.publications) = <<>>
    BY Distinct
<1>2. t = CompletePrimary(u, a)
    BY <1>1 DEF Settle, Popped
<1>3. t = Finish(w, "Primary")
    BY <1>2 DEF CompletePrimary, PrimaryAnswer
<1> HIDE DEF t, u, v, w
<1>4. /\ u \in Own /\ SameJob(s, u) /\ SameFlags(s, u) /\ SameMap(s, u)
      /\ u.finished = <<>> /\ u.publications = <<>> /\ u.excused = s.excused
      /\ u.sent = s.sent
    BY <1>1, PoppedEffect DEF u
<1>5. v \in Own /\ PrimaryAnswered(u, v, a) /\ Quiet(Fly(r, u), Fly(r, v))
    BY <1>4, PrimaryAnswerEffect DEF v
<1>6. w \in Own /\ RemovalsSettle(v, w) /\ Quiet(Fly(r, v), Fly(r, w))
    BY <1>5, SettleRemovalsEffect DEF w
<1>7. /\ t \in Own /\ SameJob(w, t) /\ SameFlags(w, t) /\ SameMap(w, t)
      /\ t.publications = w.publications /\ t.finished = Append(w.finished, "Primary")
      /\ t.excused = w.excused /\ t.sent = w.sent
  <2>1. "Primary" \in Ends
    BY DEF Ends
  <2>2. QED
    BY <1>3, <1>6, <2>1, FinishEffect
<1>8. Quiet(Fly(r, s), Fly(r, t))
    BY <1>4, <1>5, <1>6, <1>7, QuietSame, QuietChain
<1>9. /\ SameJob(v, w) /\ SamePublications(v, w) /\ SameMap(v, w) /\ ~w.rebuild
      /\ \/ w.prefixes = <<>> /\ (~v.available \/ v.installed = NoMap)
         \/ SameFlags(v, w) /\ w.excused = v.excused
         \/ w.required /\ w.prefixes = <<>> /\ v.available /\ v.installed # NoMap
    BY <1>6 DEF RemovalsSettle, NoRemovals, Invalidates, SameJob, SamePublications, SameMap,
                SameFlags
<1>10. /\ SameJob(s, t) /\ t.publications = <<>> /\ t.hidden = s.hidden /\ ~t.rebuild
       /\ t.ended = s.ended
    BY <1>4, <1>5, <1>7, <1>9
       DEF PrimaryAnswered, SameJob, SamePublications, SameMap, SameFlags
<1>11. t.finished = <<"Primary">>
  <2>1. w.finished = <<>>
    BY <1>4, <1>5, <1>9 DEF PrimaryAnswered, SamePublications
  <2>2. QED
    BY <2>1, <1>7
<1>12. \/ t.installed = s.installed /\ t.prefixes = <<>>
       \/ /\ IsMap(a) /\ t.installed = a.map /\ s.available /\ t.available /\ ~s.rebuild
          /\ t.required = s.required /\ t.prefixes = s.prefixes /\ t.excused = s.excused
       \/ IsMap(a) /\ t.installed = a.map /\ t.required /\ t.prefixes = <<>>
  <2>n. RemovalsSettle(v, w)
    BY <1>6
  <2>0. /\ t.installed = w.installed /\ t.prefixes = w.prefixes /\ t.available = w.available
        /\ t.required = w.required /\ t.excused = w.excused /\ w.installed = v.installed
    BY <1>7, <1>9 DEF SameFlags, SameMap
  <2>u. /\ u.installed = s.installed /\ u.prefixes = s.prefixes /\ u.available = s.available
        /\ u.required = s.required /\ u.excused = s.excused /\ u.rebuild = s.rebuild
    BY <1>4 DEF SameFlags, SameMap
  <2>1. CASE v.installed = u.installed
    <3>1. v.installed = NoMap
        BY <2>1, <2>u
    <3>2. w.prefixes = <<>>
        BY <2>n, <3>1 DEF RemovalsSettle, NoRemovals
    <3>3. QED
        BY <3>1, <3>2, <2>0
  <2>2. CASE SameFlags(u, v) /\ u.available /\ IsMap(a) /\ v.installed = a.map
             /\ v.excused = u.excused
    <3>1. CASE w.prefixes = <<>> /\ (~v.available \/ v.installed = NoMap)
        BY <3>1, <2>2, <2>0 DEF SameFlags
    <3>2. CASE SameFlags(v, w) /\ w.excused = v.excused
        BY <3>2, <2>2, <2>0, <2>u, <1>9 DEF SameFlags
    <3>3. CASE w.required /\ w.prefixes = <<>>
        BY <3>3, <2>2, <2>0
    <3>4. QED
        BY <1>9, <3>1, <3>2, <3>3
  <2>3. QED
    BY <1>5, <2>1, <2>2 DEF PrimaryAnswered
<1>13. s.latest \in Nat
    BY DEF Own
<1>14. Stays(s, t)
    BY <1>10, <1>13 DEF Stays, SameJob
<1>15. PrimarySettles(s, t, a)
    BY <1>10, <1>11, <1>12 DEF PrimarySettles
<1>16. QED
    BY <1>7, <1>8, <1>14, <1>15 DEF t

\* A rebuild's publication is answered: the owner.
LEMMA SettleRebuildEffect ==
    ASSUME NEW s \in Own, NEW a \in AnswerSet, a.kind = "Publication",
           NEW r \in Seq(Messages), Typed,
           s.publications = <<"Rebuild">>, s.finished = <<>>
    PROVE  LET t == Settle(s, a)
           IN  /\ t \in Own /\ RebuildSettles(s, t, a) /\ Fly(r, t) = Fly(r, s)
               /\ Stays(s, t) /\ t.excused = s.excused
               /\ \E how \in RebuildEnds : t.finished = <<how>>
<1> DEFINE u == Popped(s)
           t == Settle(s, a)
<1>1. s.publications # <<>> /\ Head(s.publications) = "Rebuild" /\ Tail(s.publications) = <<>>
    BY Distinct
<1>2. t = CompleteRebuildPublication(u, a)
    BY <1>1 DEF Settle, Popped
<1> HIDE DEF u
<1>3. /\ u \in Own /\ SameJob(s, u) /\ SameFlags(s, u) /\ SameMap(s, u)
      /\ u.finished = <<>> /\ u.publications = <<>> /\ u.excused = s.excused
      /\ u.sent = s.sent
    BY <1>1, PoppedEffect DEF u
<1>4. "Rebuild" \in Ends /\ "RebuildFailed" \in Ends /\ "RebuildCancelled" \in Ends
    BY DEF Ends
<1>5. \A x : Append(<<>>, x) = <<x>>
    OBVIOUS
<1>n. s.latest \in Nat /\ a.map \in Map
    BY DEF Own, AnswerSet
<1>6. CASE u.suppressed
  <2>1. t = Finish(u, "RebuildCancelled")
    BY <1>2, <1>6 DEF CompleteRebuildPublication
  <2> HIDE DEF t
  <2>0. /\ t \in Own /\ SameJob(u, t) /\ SameFlags(u, t) /\ SameMap(u, t)
        /\ t.publications = u.publications /\ t.finished = Append(u.finished, "RebuildCancelled")
        /\ t.excused = u.excused /\ t.sent = u.sent
    BY <2>1, <1>3, <1>4, FinishEffect
  <2>2. /\ t \in Own /\ SameJob(u, t) /\ SameFlags(u, t) /\ SameMap(u, t)
        /\ t.publications = <<>> /\ t.finished = <<"RebuildCancelled">>
        /\ t.excused = u.excused /\ t.sent = u.sent
    BY <2>0, <1>3, <1>5
  <2>3. QED
    BY <2>2, <1>3, <1>6, <1>n
       DEF RebuildSettles, SameJob, SameFlags, SameMap, Fly, Stays, RebuildEnds, t
<1>7. CASE ~u.suppressed /\ (~u.available \/ a.outcome # "map")
  <2>1. t = Finish(u, "RebuildFailed")
    BY <1>2, <1>7 DEF CompleteRebuildPublication
  <2> HIDE DEF t
  <2>0. /\ t \in Own /\ SameJob(u, t) /\ SameFlags(u, t) /\ SameMap(u, t)
        /\ t.publications = u.publications /\ t.finished = Append(u.finished, "RebuildFailed")
        /\ t.excused = u.excused /\ t.sent = u.sent
    BY <2>1, <1>3, <1>4, FinishEffect
  <2>2. /\ t \in Own /\ SameJob(u, t) /\ SameFlags(u, t) /\ SameMap(u, t)
        /\ t.publications = <<>> /\ t.finished = <<"RebuildFailed">>
        /\ t.excused = u.excused /\ t.sent = u.sent
    BY <2>0, <1>3, <1>5
  <2>3. QED
    BY <2>2, <1>3, <1>n
       DEF RebuildSettles, SameJob, SameFlags, SameMap, Fly, Stays, RebuildEnds, t
<1>8. CASE ~u.suppressed /\ u.available /\ a.outcome = "map"
  <2> DEFINE v == Showing(u, a.map)
  <2>1. t = Finish(v, "Rebuild")
    BY <1>2, <1>8 DEF CompleteRebuildPublication, Install, Showing
  <2> HIDE DEF t, v
  <2>2. /\ v \in Own /\ SameJob(u, v) /\ SameFlags(u, v) /\ SamePublications(u, v)
        /\ v.hidden = u.hidden /\ v.ended = u.ended /\ v.installed = a.map
        /\ v.excused = u.excused /\ v.sent = u.sent
    BY <1>3, <1>n, ShowingEffect DEF v
  <2>3. /\ t \in Own /\ SameJob(v, t) /\ SameFlags(v, t) /\ SameMap(v, t)
        /\ t.publications = v.publications /\ t.finished = Append(v.finished, "Rebuild")
        /\ t.excused = v.excused /\ t.sent = v.sent
    BY <2>1, <2>2, <1>4, FinishEffect
  <2>4. t.publications = <<>> /\ t.finished = <<"Rebuild">>
    BY <2>2, <2>3, <1>3, <1>5 DEF SamePublications
  <2>5. SameJob(s, t) /\ SameFlags(s, t) /\ t.hidden = s.hidden /\ t.installed = a.map
        /\ t.sent = s.sent /\ t.ended = s.ended /\ t.excused = s.excused
    BY <2>2, <2>3, <1>3 DEF SameJob, SameFlags, SameMap
  <2>6. RebuildSettles(s, t, a)
    BY <2>4, <2>5, <1>8 DEF RebuildSettles, IsMap
  <2>7. Fly(r, t) = Fly(r, s) /\ Stays(s, t)
    BY <2>5, <1>n DEF Fly, Stays, SameJob
  <2>8. QED
    BY <2>3, <2>4, <2>5, <2>6, <2>7 DEF RebuildEnds, t
<1>9. QED
    BY <1>6, <1>7, <1>8

\* What an answer leaves in flight.
LEMMA FlyPops ==
    ASSUME NEW s \in Own, NEW a \in Messages, NEW r \in Seq(Messages)
    PROVE  /\ Dropped(Fly(<<a>> \o r, s), Fly(r, s), 1) /\ Fly(<<a>> \o r, s)[1] = a
           /\ Fly(r, s) \in Seq(Messages)
<1>1. s.sent \in Seq(Messages)
  <2>1. s.sent \in Seq(Commands)
    BY DEF Own
  <2>2. QED
    BY <2>1, Subsequences
<1> DEFINE n == s.sent
<1>2. n \in Seq(Messages)
    BY <1>1
<1> HIDE DEF n
<1>3. ASSUME NEW x \in Seq(Messages)
      PROVE  Dropped(<<a>> \o x, x, 1) /\ (<<a>> \o x)[1] = a
  <2>1. <<a>> \in Seq(Messages) /\ Len(<<a>>) = 1 /\ <<a>>[1] = a
    OBVIOUS
  <2>2. /\ <<a>> \o x \in Seq(Messages) /\ Len(<<a>> \o x) = 1 + Len(x)
        /\ \A i \in 2..(1 + Len(x)) : (<<a>> \o x)[i] = x[i - 1]
        /\ (<<a>> \o x)[1] = a
    BY <2>1
  <2>3. Len(x) \in Nat
    OBVIOUS
  <2>4. \A i \in 1..Len(x) : i + 1 \in 2..(1 + Len(x)) /\ (i + 1) - 1 = i /\ ~(i < 1)
    BY <2>3
  <2>5. QED
    BY <2>2, <2>3, <2>4 DEF Dropped
<1>4. (<<a>> \o r) \o n = <<a>> \o (r \o n)
  <2>1. <<a>> \in Seq(Messages)
    OBVIOUS
  <2>2. QED
    BY <2>1, <1>2, Assoc
<1>5. r \o n \in Seq(Messages)
    BY <1>2, Cat
<1>6. CASE store.running
  <2>1. Fly(<<a>> \o r, s) = <<a>> \o (r \o n) /\ Fly(r, s) = r \o n
    BY <1>4, <1>6 DEF Fly, n
  <2>2. QED
    BY <2>1, <1>3, <1>5
<1>7. CASE ~store.running
  <2>1. Fly(<<a>> \o r, s) = <<a>> \o r /\ Fly(r, s) = r
    BY <1>7 DEF Fly
  <2>2. QED
    BY <2>1, <1>3
<1>8. QED
    BY <1>6, <1>7

\* From s the owner has come to t, with q in flight.
Comes(s, t, q, ev, ex, sc, rep, dk) ==
    /\ t \in Own /\ Stays(s, t)
    /\ \/ Bad(t)
       \/ /\ Core(t, q, store, ev, ex, sc, rep, dk)
          /\ OwesNoMore(s, t) /\ Advances(s, t)

\* The first scan's publication is answered: the invariant.
LEMMA SettlePrimaryStep ==
    ASSUME NEW s \in Own, NEW a \in AnswerSet, a.kind = "Publication",
           NEW r \in Seq(Messages), Typed, NEW ev, NEW ex, NEW sc, NEW rep, NEW dk,
           Core(s, Fly(<<a>> \o r, s), store, ev, ex, sc, rep, dk),
           s.publications # <<>>, Head(s.publications) = "Primary"
    PROVE  Comes(s, Settle(s, a), Fly(r, Settle(s, a)), ev, ex, sc, rep, dk)
<1> DEFINE t == Settle(s, a)
           q == Fly(<<a>> \o r, s)
           p == Fly(r, s)
           o == Fly(r, t)
<1>1. s.publications \notin {<<>>, <<"Rebuild">>, <<"Overlay">>, <<"Overlay", "Rebuild">>}
    BY Distinct
<1>2. s.publications = <<"Primary">> /\ ~s.loaded
    BY <1>1 DEF Core, Nearly, Phase
<1>3. s.finished = <<>>
    BY <1>1, <1>2, Distinct DEF Core, Nearly, Phase
<1>4. s.installed = NoMap
    BY <1>2, <1>3, Distinct DEF Core, Nearly, Phase
<1>5. /\ t \in Own /\ PrimarySettles(s, t, a) /\ Quiet(p, o) /\ Stays(s, t)
    BY <1>2, <1>3, <1>4, SettlePrimaryEffect
<1>6. Dropped(q, p, 1) /\ q[1] = a
    BY FlyPops DEF Messages
<1>7. IsPub(a)
    BY DEF IsPub
<1>8. store \in Store
    BY DEF Typed
<1> HIDE DEF q, p, t, o
<1>9. Core(s, q, store, ev, ex, sc, rep, dk)
    BY DEF q
<1>10. Core(t, p, store, ev, ex, sc, rep, dk)
    BY <1>2, <1>5, <1>6, <1>7, <1>8, <1>9, CorePrimary
<1>11. Core(t, o, store, ev, ex, sc, rep, dk)
    BY <1>5, <1>10, CoreQuiet
<1>12. OwesNoMore(s, t)
  <2>1. t.finished # <<>> /\ NoMap.scan = -1
    BY <1>5, Distinct DEF PrimarySettles, NoMap, NoGeneration
  <2>2. QED
    BY <2>1, <1>2, <1>3, <1>4, <1>5 DEF OwesNoMore, Owes, PrimarySettles, SameJob, Period
<1>13. Advances(s, t)
    BY <1>4 DEF Advances
<1>14. QED
    BY <1>5, <1>11, <1>12, <1>13 DEF Comes, t, o

\* A rebuild's publication is answered: the invariant.
LEMMA SettleRebuildStep ==
    ASSUME NEW s \in Own, NEW a \in AnswerSet, a.kind = "Publication",
           NEW r \in Seq(Messages), Typed, NEW ev, NEW ex, NEW sc, NEW rep, NEW dk,
           Core(s, Fly(<<a>> \o r, s), store, ev, ex, sc, rep, dk),
           s.publications # <<>>, Head(s.publications) = "Rebuild"
    PROVE  Comes(s, Settle(s, a), Fly(r, Settle(s, a)), ev, ex, sc, rep, dk)
<1> DEFINE t == Settle(s, a)
           q == Fly(<<a>> \o r, s)
           p == Fly(r, s)
           o == Fly(r, t)
<1>1. s.publications \notin {<<>>, <<"Primary">>, <<"Overlay">>, <<"Overlay", "Rebuild">>}
    BY Distinct
<1>2. s.publications = <<"Rebuild">> /\ s.active
    BY <1>1 DEF Core, Nearly, Phase
<1>3. s.finished = <<>>
    BY <1>1, <1>2 DEF Core, Nearly, Phase
<1>5. /\ t \in Own /\ RebuildSettles(s, t, a) /\ o = p /\ Stays(s, t)
      /\ \E how \in RebuildEnds : t.finished = <<how>>
    BY <1>2, <1>3, SettleRebuildEffect
<1>6. Dropped(q, p, 1) /\ q[1] = a
    BY FlyPops DEF Messages
<1>7. IsPub(a)
    BY DEF IsPub
<1>8. store \in Store
    BY DEF Typed
<1> HIDE DEF q, p, t, o
<1>9. Core(s, q, store, ev, ex, sc, rep, dk)
    BY DEF q
<1>10. CASE Doomed(s)
  <2>1. Bad(t)
    BY <1>10, <1>5 DEF Bad, Doomed, RebuildSettles, SameJob
  <2>2. QED
    BY <2>1, <1>5 DEF Comes, t, o
<1>11. CASE ~Doomed(s)
  <2>1. /\ Core(t, p, store, ev, ex, sc, rep, dk)
        /\ IsMap(a) /\ s.installed # NoMap =>
                /\ a.map.gen > s.installed.gen /\ a.map.scan >= s.installed.scan
                /\ a.map.listed \subseteq s.installed.listed
    BY <1>11, <1>2, <1>5, <1>6, <1>7, <1>8, <1>9, CoreRebuild
  <2>2. Advances(s, t)
    BY <2>1, <1>5 DEF Advances, RebuildSettles
  <2>3. OwesNoMore(s, t)
    BY <1>2, <1>5 DEF OwesNoMore, Owes, RebuildSettles, SameJob, Period
  <2>4. QED
    BY <2>1, <2>2, <2>3, <1>5 DEF Comes, t, o
<1>12. QED
    BY <1>10, <1>11

\* An overlay's publication is answered: the invariant.
LEMMA SettleOverlayStep ==
    ASSUME NEW s \in Own, NEW a \in AnswerSet, a.kind = "Publication",
           NEW r \in Seq(Messages), Typed, NEW ev \in Seq(Events), NEW ex, NEW sc, NEW rep,
           NEW dk,
           Core(s, Fly(<<a>> \o r, s), store, ev, ex, sc, rep, dk),
           s.publications # <<>>, Head(s.publications) = "Overlay"
    PROVE  Comes(s, Settle(s, a), Fly(r, Settle(s, a)), ev, ex, sc, rep, dk)
<1> DEFINE t == Settle(s, a)
           u == Popped(s)
           v == Showing(u, a.map)
           q == Fly(<<a>> \o r, s)
           p == Fly(r, s)
           o == Fly(r, t)
<1>1. t = CompleteOverlay(u, a)
    BY DEF Settle, Popped
<1>2. OverlayIsHead(s)
    BY DEF OverlayIsHead
<1>6. Dropped(q, p, 1) /\ q[1] = a
    BY FlyPops DEF Messages
<1>7. IsPub(a) /\ a.map \in Map
    BY DEF IsPub, AnswerSet
<1>8. store \in Store
    BY DEF Typed
<1> HIDE DEF q, p, t, o, u, v
<1>9. Core(s, q, store, ev, ex, sc, rep, dk)
    BY DEF q
<1>3. /\ u \in Own /\ SameJob(s, u) /\ SameFlags(s, u) /\ SameMap(s, u)
      /\ u.finished = s.finished /\ u.publications = Tail(s.publications)
      /\ u.excused = s.excused /\ u.sent = s.sent
    BY PoppedEffect DEF u
<1>4. /\ v \in Own /\ SameJob(u, v) /\ SameFlags(u, v) /\ SamePublications(u, v)
      /\ v.hidden = u.hidden /\ v.ended = u.ended /\ v.installed = a.map
      /\ v.excused = u.excused /\ v.sent = u.sent
    BY <1>3, <1>7, ShowingEffect DEF v
<1>5. Fly(r, u) = p /\ Fly(r, v) = p
    BY <1>3, <1>4 DEF Fly, p
<1>n. s.latest \in Nat
    BY DEF Own
<1>u. OverlayPops(s, u, a)
    BY <1>3 DEF OverlayPops, SameMap
<1>v. a.outcome = "map" => OverlayPops(s, v, a)
    BY <1>3, <1>4 DEF OverlayPops, SameMap, SameJob, SameFlags, SamePublications, IsMap
<1>10. ASSUME NEW w, OverlayPops(s, w, a)
       PROVE  /\ Nearly(w, p, store, ev, ex, sc, rep, dk) /\ Cleared(w)
              /\ w.loaded /\ ~w.rebuild /\ NoCancel(p) /\ ~OverlayIsHead(w)
              /\ GivenUp(w, ev, ex, sc) => ~w.available
              /\ w.active => ex = NoEntry
              /\ ~Period(w) => NoPub(p)
              /\ w.installed = s.installed \/ Follows(s, w.installed, dk)
              /\ (IsMap(a) /\ w.installed = a.map) \/ ~w.available => HiddenOverlay(w, p, rep)
  <2>1. OverlayPops(s, w, q[1]) /\ IsPub(q[1]) /\ Dropped(q, p, 1)
    BY <1>10, <1>6, <1>7
  <2>2. AfterOverlay(s, w, q[1], p, store, ev, ex, sc, rep, dk)
    BY <2>1, <1>2, <1>8, <1>9, CorePops
  <2>3. QED
    BY <2>2, <1>6 DEF AfterOverlay
<1>11. ASSUME NEW w \in Own, OverlayPops(s, w, a), w.ended = s.ended, w.excused = s.excused
       PROVE  OwesNoMore(s, w) /\ Advances(s, w) /\ Stays(s, w)
  <2>1. w.installed = s.installed \/ Follows(s, w.installed, dk)
    BY <1>10, <1>11
  <2>2. w.installed.scan = s.installed.scan
    BY <2>1 DEF Follows
  <2>3. w.loaded /\ s.loaded
    BY <1>10, <1>11 DEF OverlayPops, SameJob
  <2>4. OwesNoMore(s, w)
    BY <2>2, <2>3, <1>11 DEF OwesNoMore, Owes, OverlayPops, SameJob, SameFlags, Period
  <2>5. s.installed.scan \in Int
    BY <1>8, GenerationsTyped
  <2>6. Advances(s, w)
    BY <2>1, <2>5 DEF Advances, Follows
  <2>7. Stays(s, w)
    BY <1>11, <1>n DEF Stays, OverlayPops, SameJob
  <2>8. QED
    BY <2>4, <2>6, <2>7
<1>12. ASSUME NEW w \in Own, OverlayPops(s, w, a), w.ended = s.ended, w.excused = s.excused,
              w.available, Invalidates(w, t), Quiet(p, o), t \in Own
       PROVE  Comes(s, t, o, ev, ex, sc, rep, dk)
  <2>1. Core(t, p, store, ev, ex, sc, rep, dk)
    BY <1>10, <1>12, CoreInvalidates
  <2>2. Core(t, o, store, ev, ex, sc, rep, dk)
    BY <2>1, <1>12, CoreQuiet
  <2>3. OwesNoMore(w, t) /\ Advances(w, t) /\ Stays(w, t)
    BY <1>12, InvalidatesMoves
  <2>4. OwesNoMore(s, w) /\ Advances(s, w) /\ Stays(s, w)
    BY <1>11, <1>12
  <2>5. OwesNoMore(s, t) /\ Advances(s, t) /\ Stays(s, t)
    BY <2>3, <2>4, <1>12, OwesChain, AdvancesChain, StaysChain
  <2>6. QED
    BY <2>2, <2>5, <1>12 DEF Comes
<1>s. u.available = s.available /\ v.available = s.available
    BY <1>3, <1>4 DEF SameFlags
<1>e. u.ended = s.ended /\ v.ended = s.ended /\ v.excused = s.excused
    BY <1>3, <1>4 DEF SameMap
<1>13. CASE ~u.available
  <2>1. t = u /\ o = p
    BY <1>1, <1>5, <1>13 DEF CompleteOverlay, o
  <2>2. HiddenOverlay(u, p, rep) /\ Nearly(u, p, store, ev, ex, sc, rep, dk) /\ Cleared(u)
    BY <1>10, <1>u, <1>13
  <2>3. Core(t, o, store, ev, ex, sc, rep, dk)
    BY <2>1, <2>2 DEF Core
  <2>4. OwesNoMore(s, u) /\ Advances(s, u) /\ Stays(s, u)
    BY <1>11, <1>u, <1>3, <1>e
  <2>5. QED
    BY <2>1, <2>3, <2>4, <1>3 DEF Comes, t, o
<1>14. CASE u.available /\ a.outcome # "map"
  <2>1. t = Invalidate(u)
    BY <1>1, <1>14 DEF CompleteOverlay
  <2>2. t \in Own /\ Invalidates(u, t) /\ Quiet(p, o)
    BY <2>1, <1>3, <1>5, InvalidateEffect DEF o
  <2>3. Comes(s, t, o, ev, ex, sc, rep, dk)
    BY <2>2, <1>12, <1>u, <1>3, <1>e, <1>14
  <2>4. QED
    BY <2>3 DEF t, o
<1>15. CASE u.available /\ a.outcome = "map"
  <2>1. t = StartNextOverlay(v)
    BY <1>1, <1>15 DEF CompleteOverlay, Install, Showing, v
  <2>2. t \in Own /\ OverlayStarts(v, t, p, o)
    BY <2>1, <1>4, <1>5, StartNextOverlayEffect DEF o
  <2>3. OverlayPops(s, v, a) /\ IsMap(a)
    BY <1>v, <1>15 DEF IsMap
  <2>4. HiddenOverlay(v, p, rep) /\ Nearly(v, p, store, ev, ex, sc, rep, dk) /\ Cleared(v)
    BY <1>10, <2>3, <1>4
  <2>5. OwesNoMore(s, v) /\ Advances(s, v) /\ Stays(s, v)
    BY <1>11, <2>3, <1>4, <1>e
  <2>6. CASE t = v /\ o = p
    <3>1. Core(t, o, store, ev, ex, sc, rep, dk)
        BY <2>4, <2>6 DEF Core
    <3>2. QED
        BY <2>5, <2>6, <3>1, <1>4 DEF Comes, t, o
  <2>7. CASE Invalidates(v, t) /\ Quiet(p, o)
    <3>1. Comes(s, t, o, ev, ex, sc, rep, dk)
        BY <2>7, <2>2, <2>3, <1>12, <1>4, <1>e, <1>s, <1>15
    <3>2. QED
        BY <3>1 DEF t, o
  <2>8. ASSUME NEW c, OverlayMayStart(v), Overlays(v, t), OverlayOf(v, c), Gains(p, o, c)
        PROVE  Comes(s, Settle(s, a), Fly(r, Settle(s, a)), ev, ex, sc, rep, dk)
    <3>1. v.prefixes # <<>> /\ ~Period(v)
        BY <2>4, <2>8 DEF OverlayMayStart, Cleared
    <3>2. v.loaded /\ ~v.rebuild /\ NoCancel(p) /\ NoPub(p)
        BY <1>10, <2>3, <3>1
    <3>3. Core(t, o, store, ev, ex, sc, rep, dk)
        BY <2>4, <2>8, <3>1, <3>2, <1>4, <1>8, CoreOverlay
    <3>4. OwesNoMore(v, t) /\ Advances(v, t) /\ Stays(v, t)
        BY <2>8, <1>4, OverlaysMoves
    <3>5. OwesNoMore(s, t) /\ Advances(s, t) /\ Stays(s, t)
        BY <2>2, <2>5, <3>4, <1>4, OwesChain, AdvancesChain, StaysChain
    <3>6. QED
        BY <2>2, <3>3, <3>5 DEF Comes, t, o
  <2>9. QED
    BY <2>2, <2>6, <2>7, <2>8 DEF OverlayStarts
<1>16. QED
    BY <1>13, <1>14, <1>15

\* An answer to any publication.
LEMMA SettleStep ==
    ASSUME NEW s \in Own, NEW a \in AnswerSet, a.kind = "Publication",
           NEW r \in Seq(Messages), Typed, NEW ev \in Seq(Events), NEW ex, NEW sc, NEW rep,
           NEW dk,
           Core(s, Fly(<<a>> \o r, s), store, ev, ex, sc, rep, dk)
    PROVE  Comes(s, Settle(s, a), Fly(r, Settle(s, a)), ev, ex, sc, rep, dk)
<1>1. CASE s.publications = <<>>
  <2> DEFINE q == Fly(<<a>> \o r, s)
             p == Fly(r, s)
  <2>1. Settle(s, a) = s
    BY <1>1 DEF Settle
  <2>2. Dropped(q, p, 1) /\ q[1] = a /\ IsPub(a)
    BY FlyPops DEF Messages, IsPub
  <2> HIDE DEF q, p
  <2>3. Core(s, q, store, ev, ex, sc, rep, dk)
    BY DEF q
  <2>4. Core(s, p, store, ev, ex, sc, rep, dk)
    BY <1>1, <2>2, <2>3, CoreIgnores
  <2>5. s.latest \in Nat
    BY DEF Own
  <2>6. QED
    BY <2>1, <2>4, <2>5 DEF Comes, Stays, OwesNoMore, Advances, p
<1>2. CASE s.publications # <<>>
  <2>1. Head(s.publications) \in Kinds
    BY <1>2 DEF Own
  <2>2. QED
    BY <1>2, <2>1, SettlePrimaryStep, SettleRebuildStep, SettleOverlayStep DEF Kinds
<1>3. QED
    BY <1>1, <1>2

-----------------------------------------------------------------------------
\* Two parts of a handler are one.
LEMMA ComesChain ==
    ASSUME NEW s \in Own, NEW t \in Own, NEW u, NEW q, NEW ev, NEW ex, NEW sc, NEW rep,
           NEW dk, Stays(s, t), OwesNoMore(s, t), Advances(s, t),
           Comes(t, u, q, ev, ex, sc, rep, dk)
    PROVE  Comes(s, u, q, ev, ex, sc, rep, dk)
<1>1. u \in Own /\ Stays(s, u)
    BY StaysChain DEF Comes
<1>2. CASE Bad(u)
    BY <1>1, <1>2 DEF Comes
<1>3. CASE /\ Core(u, q, store, ev, ex, sc, rep, dk)
           /\ OwesNoMore(t, u) /\ Advances(t, u)
  <2>1. OwesNoMore(s, u) /\ Advances(s, u)
    BY <1>1, <1>3, OwesChain, AdvancesChain
  <2>2. QED
    BY <1>1, <1>3, <2>1 DEF Comes
<1>4. QED
    BY <1>2, <1>3 DEF Comes

\* scan_store_stopped, round by round.
LEMMA StoppedRounds ==
    ASSUME NEW s \in Own, Len(s.publications) \in 0..2
    PROVE  /\ Len(s.publications) = 0 => StoreStopped(s) = FailStore(s)
           /\ Len(s.publications) = 1 => StoreStopped(s) = Settle(FailStore(s), Error)
           /\ Len(s.publications) = 2 =>
                StoreStopped(s) = Settle(Settle(FailStore(s), Error), Error)
<1> DEFINE n == Len(s.publications)
           v0 == FailStore(s)
           v1 == Settle(v0, Error)
           v2 == Settle(v1, Error)
           Body(g) == [k \in 0..n |-> IF k = 0 THEN v0 ELSE Settle(g[k - 1], Error)]
           Loop[k \in 0..n] == IF k = 0 THEN v0 ELSE Settle(Loop[k - 1], Error)
           h == [k \in 0..n |-> IF k = 0 THEN v0 ELSE IF k = 1 THEN v1 ELSE v2]
<1>1. StoreStopped(s) = Loop[n]
    BY DEF StoreStopped, Error
<1>2. Loop = CHOOSE g : g = Body(g)
    OBVIOUS
<1>3. v1 = Settle(v0, Error) /\ v2 = Settle(v1, Error) /\ n \in 0..2
    OBVIOUS
<1> HIDE DEF v0, v1, v2, n, Loop
<1>4. h = Body(h)
  <2>1. ASSUME NEW k \in 0..n
        PROVE  h[k] = IF k = 0 THEN v0 ELSE Settle(h[k - 1], Error)
    <3>1. k \in {0, 1, 2}
        BY <1>3
    <3>2. k # 0 => k - 1 \in 0..n
        BY <1>3
    <3>3. CASE k = 0
        BY <3>3
    <3>4. CASE k = 1
        BY <1>3, <3>2, <3>4
    <3>5. CASE k = 2
        BY <1>3, <3>2, <3>5
    <3>6. QED
        BY <3>1, <3>3, <3>4, <3>5
  <2>2. QED
    BY <2>1
<1> HIDE DEF Body, h
<1>5. Loop = Body(Loop)
    BY <1>2, <1>4
<1>6. \A k \in 0..n : Loop[k] = IF k = 0 THEN v0 ELSE Settle(Loop[k - 1], Error)
    BY <1>5 DEF Body
<1>7. Loop[0] = v0
    BY <1>3, <1>6
<1>8. n >= 1 => Loop[1] = v1
    BY <1>3, <1>6, <1>7
<1>9. n = 2 => Loop[2] = v2
    BY <1>3, <1>6, <1>8
<1>10. /\ n = 0 => StoreStopped(s) = v0
       /\ n = 1 => StoreStopped(s) = v1
       /\ n = 2 => StoreStopped(s) = v2
    BY <1>1, <1>3, <1>7, <1>8, <1>9
<1>11. QED
    BY <1>10 DEF v0, v1, v2, n

\* The last publication is given up, and nothing else will be published.
Forfeits(s, t) ==
    /\ SameJob(s, t) /\ SameFlags(s, t) /\ SameMap(s, t) /\ t.publications = <<>>
    /\ \/ s.publications = <<"Overlay">> /\ t.finished = s.finished
       \/ /\ s.publications = <<"Rebuild">>
          /\ t.finished \in {<<"RebuildFailed">>, <<"RebuildCancelled">>}

\* The store thread is gone: what was in flight never arrives.
LEMMA CoreForfeits ==
    ASSUME NEW s, NEW t, NEW q, NEW st, NEW ev, NEW ex, NEW sc, NEW rep, NEW dk,
           Core(s, q, st, ev, ex, sc, rep, dk), ~s.available, Forfeits(s, t),
           GivenUp(t, ev, ex, sc)
    PROVE  Core(t, q, st, ev, ex, sc, rep, dk)
<1> USE DEF SameJob
<1>s. /\ t.primaryScan = s.primaryScan /\ t.lease = s.lease /\ t.loaded = s.loaded
      /\ t.latest = s.latest /\ t.epoch = s.epoch /\ t.active = s.active
      /\ t.available = s.available /\ t.required = s.required
      /\ t.invalidated = s.invalidated /\ t.suppressed = s.suppressed
      /\ t.prefixes = s.prefixes /\ t.rebuild = s.rebuild
      /\ t.installed = s.installed /\ t.hidden = s.hidden /\ t.publications = <<>>
    BY DEF Forfeits, SameFlags, SameMap
<1>1. Gens(t, q, st, ev)
    BY <1>s DEF Core, Nearly, Gens, StoreGens, EventGens, Dated
<1>o. /\ ~OverlayIsHead(t) /\ (Sound(t) <=> Sound(s)) /\ (Working(t) <=> Working(s))
      /\ JobGen(t) = JobGen(s) /\ t.loaded
    BY <1>s DEF OverlayIsHead, Sound, Working, JobGen, GivenUp
<1>2. CASE s.publications = <<"Overlay">> /\ t.finished = s.finished
  <2>1. Scanned(t) <=> Scanned(s)
    BY <1>2, <1>s DEF Scanned
  <2>2. CancelledJob(t, ev, sc) <=> CancelledJob(s, ev, sc)
    BY <1>2 DEF CancelledJob
  <2>3. s.finished # <<"Primary">>
    BY <1>2, Distinct DEF Core, Nearly, Phase
  <2>4. Phase(t)
    <3>1. /\ ~s.primaryScan /\ (s.lease # NoGeneration <=> s.active) /\ (s.active => s.lease > 0)
          /\ \/ s.finished = <<>>
             \/ s.finished \in {<<"Rebuild">>, <<"RebuildFailed">>, <<"RebuildCancelled">>} /\ s.active
        BY <1>2, <2>3, Distinct DEF Core, Nearly, Phase
    <3>2. QED
        BY <3>1, <1>2, <1>s, <1>o DEF Phase
  <2>5. Job(t, ev, sc)
    BY <2>1, <1>o, <1>s DEF Core, Nearly, Job
  <2>6. Flags(t, ex, dk)
    BY <1>o, <1>s, <1>2 DEF Core, Nearly, Flags
  <2>7. Cancelled(t, ev, ex, sc)
    BY <2>2, <1>s DEF Core, Nearly, Cancelled
  <2>8. QED
    BY <2>4, <2>5, <2>6, <2>7, <1>1, <1>s
       DEF Core, Nearly, Cancellation, CancelSent, Shown, Mode, Cleared, Period, HiddenOverlay
<1>3. CASE /\ s.publications = <<"Rebuild">>
           /\ t.finished \in {<<"RebuildFailed">>, <<"RebuildCancelled">>}
  <2>0. s.publications \notin {<<>>, <<"Overlay">>, <<"Primary">>, <<"Overlay", "Rebuild">>}
    BY <1>3, Distinct
  <2>1. ~Scanned(s)
    BY <2>0 DEF Scanned
  <2>2. s.active /\ ~s.primaryScan /\ (s.lease # NoGeneration) /\ s.lease > 0
    BY <2>0 DEF Core, Nearly, Phase
  <2>3. t.finished # <<>> /\ ~Scanned(t)
    BY <1>3, Distinct DEF Scanned
  <2>4. Phase(t)
    BY <2>2, <1>3, <1>s, <1>o DEF Phase
  <2>5. Job(t, ev, sc)
    BY <2>1, <1>o, <1>s DEF Core, Nearly, Job
  <2>6. Flags(t, ex, dk)
    BY <1>o, <1>s, <2>2 DEF Core, Nearly, Flags, Cleared
  <2>7. Cancelled(t, ev, ex, sc)
    BY <2>2, <1>s DEF Cancelled, GivenUp
  <2>8. QED
    BY <2>4, <2>5, <2>6, <2>7, <1>1, <1>s
       DEF Core, Nearly, Cancellation, CancelSent, Shown, Mode, Cleared, Period, HiddenOverlay
<1>4. QED
    BY <1>2, <1>3 DEF Forfeits

\* The error a lost publication is settled with.
LEMMA ErrorTyped ==
    /\ Error \in AnswerSet /\ Error.kind = "Publication" /\ ~IsMap(Error)
    /\ Error.outcome = "error" /\ Error \in Messages
    BY AnswersTyped DEF Error, Answer, IsMap, Messages, AnswerKinds

\* A failure the thread has answered, to a cancellation.
LEMMA StoppedStep ==
    ASSUME NEW s \in Own, NEW a \in AnswerSet, a.kind = "Failure",
           NEW r \in Seq(Messages), Typed, NEW ev \in Seq(Events), NEW ex, NEW sc, NEW rep,
           NEW dk,
           Core(s, Fly(<<a>> \o r, s), store, ev, ex, sc, rep, dk)
    PROVE  Comes(s, StoreStopped(s), Fly(r, StoreStopped(s)), ev, ex, sc, rep, dk)
<1> DEFINE q == Fly(<<a>> \o r, s)
           p == Fly(r, s)
           f == FailStore(s)
           o == Fly(r, f)
<1>1. Dropped(q, p, 1) /\ q[1] = a /\ 1 \in 1..Len(q)
    BY FlyPops DEF Messages, Dropped
<1>2. f \in Own /\ Keeps(s, f) /\ Quiet(p, o) /\ ~f.available
    BY FailStoreKeeps
<1> HIDE DEF q, p, f, o
<1>3. Core(s, q, store, ev, ex, sc, rep, dk)
    BY DEF q
<1>4. Core(s, p, store, ev, ex, sc, rep, dk)
    BY <1>1, <1>3, CoreDrops
<1>5. Core(f, p, store, ev, ex, sc, rep, dk)
    BY <1>2, <1>4, CoreFails DEF Keeps
<1>6. Core(f, o, store, ev, ex, sc, rep, dk)
    BY <1>2, <1>5, CoreQuiet
<1>7. CancelSent(s, ev, ex, sc)
    BY <1>1, <1>3 DEF Core, Nearly, Cancellation, Cancels
<1>8. Stays(s, f) /\ OwesNoMore(s, f) /\ Advances(s, f)
    BY <1>2, KeepsMoves
<1>f. /\ f.publications = s.publications /\ f.finished = s.finished /\ f.active = s.active
      /\ f.required = s.required /\ f.suppressed = s.suppressed /\ f.loaded = s.loaded
      /\ f.invalidated = s.invalidated
    BY <1>2 DEF Keeps, Fails, SamePublications, SameJob
<1>9. CASE s.publications = <<>>
  <2>1. Len(s.publications) = 0
    BY <1>9
  <2>2. StoreStopped(s) = f
    BY <2>1, StoppedRounds DEF f
  <2>3. QED
    BY <2>2, <1>2, <1>6, <1>8 DEF Comes, o
<1>10. CASE s.publications # <<>>
  <2> DEFINE t == Settle(f, Error)
  <2>1. ~GivenUp(s, ev, ex, sc)
    BY <1>10 DEF GivenUp
  <2>2. \/ /\ s.publications = <<"Overlay">> /\ ex = NoEntry /\ ~s.active /\ s.suppressed
        \/ /\ s.publications = <<"Rebuild">> /\ ex = NoEntry /\ s.active /\ ~s.invalidated
           /\ CancelledJob(s, ev, sc) => s.suppressed
    BY <1>7, <1>10, <2>1 DEF CancelSent
  <2>3. Len(s.publications) = 1
    BY <2>2, Distinct
  <2>4. StoreStopped(s) = t
    BY <2>3, StoppedRounds DEF f
  <2>5. t \in Own /\ Forfeits(f, t) /\ GivenUp(t, ev, ex, sc) /\ Fly(r, t) = o
    <3>1. CASE s.publications = <<"Overlay">> /\ ex = NoEntry /\ ~s.active /\ s.suppressed
      <4>1. /\ f.publications # <<>> /\ Head(f.publications) = "Overlay"
            /\ Tail(f.publications) = <<>>
        BY <3>1, <1>f, Distinct
      <4>2. t = CompleteOverlay(Popped(f), Error)
        BY <4>1 DEF Settle, Popped
      <4> DEFINE u == Popped(f)
      <4>3. /\ u \in Own /\ SameJob(f, u) /\ SameFlags(f, u) /\ SameMap(f, u)
            /\ u.finished = f.finished /\ u.publications = <<>> /\ u.sent = f.sent
        BY <4>1, <1>2, PoppedEffect
      <4> HIDE DEF u, t
      <4>4. t = u
        BY <4>2, <4>3, <1>2 DEF CompleteOverlay, SameFlags, u
      <4>5. Forfeits(f, t)
        BY <4>3, <4>4, <3>1, <1>f DEF Forfeits
      <4>6. f.loaded
        BY <4>1, <1>5 DEF Core, Nearly, Phase, OverlayIsHead
      <4>7. GivenUp(t, ev, ex, sc)
        BY <4>3, <4>4, <4>6, <3>1, <1>f, <1>2 DEF GivenUp, SameJob, SameFlags
      <4>8. Fly(r, t) = o
        BY <4>3, <4>4 DEF Fly, o
      <4>9. QED
        BY <4>3, <4>4, <4>5, <4>7, <4>8
    <3>2. CASE /\ s.publications = <<"Rebuild">> /\ ex = NoEntry /\ s.active /\ ~s.invalidated
               /\ CancelledJob(s, ev, sc) => s.suppressed
      <4>0. f.publications \notin {<<>>, <<"Overlay">>, <<"Primary">>}
        BY <3>2, <1>f, Distinct
      <4>1. f.publications = <<"Rebuild">> /\ f.finished = <<>> /\ f.loaded
        BY <4>0, <3>2, <1>f, <1>5 DEF Core, Nearly, Phase
      <4>2. t \in Own /\ RebuildSettles(f, t, Error) /\ Fly(r, t) = Fly(r, f)
            /\ Stays(f, t)
        BY <4>1, <1>2, ErrorTyped, SettleRebuildEffect
      <4> HIDE DEF t
      <4>3. \/ t.finished = <<"RebuildCancelled">> /\ f.suppressed
            \/ t.finished = <<"RebuildFailed">>
        BY <4>2, ErrorTyped DEF RebuildSettles
      <4>4. t.installed = f.installed /\ t.hidden = f.hidden /\ t.ended = f.ended
        BY <4>2, ErrorTyped DEF RebuildSettles, Stays
      <4>5. Forfeits(f, t)
        BY <4>1, <4>2, <4>3, <4>4 DEF Forfeits, RebuildSettles, SameMap
      <4>6. CancelledJob(t, ev, sc) => t.suppressed
        <5>1. t.suppressed = s.suppressed
          BY <4>2, <1>f DEF RebuildSettles, SameFlags
        <5>2. t.finished = <<"RebuildCancelled">> => s.suppressed
          BY <4>3, <1>f, Distinct
        <5>3. QED
          BY <5>1, <5>2, <3>2 DEF CancelledJob
      <4>7. GivenUp(t, ev, ex, sc)
        BY <4>1, <4>2, <4>6, <3>2, <1>f, <1>2 DEF GivenUp, SameJob, SameFlags, RebuildSettles
      <4>8. QED
        BY <4>2, <4>5, <4>7 DEF o
    <3>3. QED
        BY <2>2, <3>1, <3>2
  <2> HIDE DEF t
  <2>6. Core(t, o, store, ev, ex, sc, rep, dk)
    BY <2>5, <1>2, <1>6, CoreForfeits
  <2>n. f.latest \in Nat
    BY <1>2 DEF Own
  <2>7. OwesNoMore(f, t) /\ Advances(f, t) /\ Stays(f, t)
    BY <2>5, <2>n, <1>2
       DEF OwesNoMore, Owes, Advances, Stays, Forfeits, SameJob, SameFlags, SameMap
  <2>8. Comes(f, t, o, ev, ex, sc, rep, dk)
    BY <2>5, <2>6, <2>7 DEF Comes
  <2>9. Comes(s, t, o, ev, ex, sc, rep, dk)
    BY <2>8, <1>2, <1>8, ComesChain
  <2>10. QED
    BY <2>4, <2>5, <2>9
<1>11. QED
    BY <1>9, <1>10

\* The owner finds the thread gone.
LEMMA ErrorStep ==
    ASSUME NEW s \in Own, Typed, ~store.running, NEW ev \in Seq(Events), NEW ex, NEW sc,
           NEW rep, NEW dk, Core(s, <<>>, store, ev, ex, sc, rep, dk)
    PROVE  Comes(s, Settle(s, Error), <<>>, ev, ex, sc, rep, dk)
<1>1. CASE s.publications = <<>>
  <2>1. Settle(s, Error) = s /\ s.latest \in Nat
    BY <1>1 DEF Settle, Own
  <2>2. QED
    BY <2>1 DEF Comes, Stays, OwesNoMore, Advances
<1>2. CASE s.publications # <<>>
  <2>1. Core(s, <<Error>>, store, ev, ex, sc, rep, dk)
    BY <1>2, CoreSummons
  <2>2. <<>> \in Seq(Messages) /\ <<Error>> \o <<>> = <<Error>>
    BY ErrorTyped
  <2>3. Fly(<<Error>> \o <<>>, s) = <<Error>> /\ Fly(<<>>, Settle(s, Error)) = <<>>
    BY <2>2 DEF Fly
  <2>4. Comes(s, Settle(s, Error), Fly(<<>>, Settle(s, Error)), ev, ex, sc, rep, dk)
    BY <2>1, <2>2, <2>3, ErrorTyped, SettleStep
  <2>5. QED
    BY <2>3, <2>4
<1>3. QED
    BY <1>1, <1>2

\* A doomed rebuild that was published waits for no answer.
LEMMA BadIgnores ==
    ASSUME NEW s, Bad(s), NEW a
    PROVE  Settle(s, a) = s
    BY DEF Bad, Settle

\* The owner hears that the store thread stopped.
LEMMA LostStep ==
    ASSUME NEW s \in Own, Typed, ~store.running, NEW ev \in Seq(Events), NEW ex, NEW sc,
           NEW rep, NEW dk, Core(s, <<>>, store, ev, ex, sc, rep, dk)
    PROVE  Comes(s, StoreStopped(s), <<>>, ev, ex, sc, rep, dk)
<1> DEFINE f == FailStore(s)
           t == Settle(f, Error)
           u == Settle(t, Error)
<1>0. <<>> \in Seq(Messages)
    OBVIOUS
<1>1. f \in Own /\ Keeps(s, f)
    BY <1>0, FailStoreKeeps
<1>2. Len(s.publications) \in 0..2
  <2>1. Len(<<>>) = 0
    OBVIOUS
  <2>2. s.publications \in {<<>>, <<"Overlay">>, <<"Primary">>, <<"Rebuild">>,
                            <<"Overlay", "Rebuild">>}
    BY DEF Core, Nearly, Phase
  <2>3. QED
    BY <2>1, <2>2, Distinct
<1>3. /\ Len(s.publications) = 0 => StoreStopped(s) = f
      /\ Len(s.publications) = 1 => StoreStopped(s) = t
      /\ Len(s.publications) = 2 => StoreStopped(s) = u
    BY <1>2, StoppedRounds
<1> HIDE DEF f
<1>4. Core(f, <<>>, store, ev, ex, sc, rep, dk)
    BY <1>1, CoreFails DEF Keeps
<1>5. Stays(s, f) /\ OwesNoMore(s, f) /\ Advances(s, f)
    BY <1>1, KeepsMoves
<1>6. Comes(s, f, <<>>, ev, ex, sc, rep, dk)
    BY <1>1, <1>4, <1>5 DEF Comes
<1>7. Comes(f, t, <<>>, ev, ex, sc, rep, dk)
    BY <1>1, <1>4, ErrorStep
<1> HIDE DEF t
<1>8. Comes(s, t, <<>>, ev, ex, sc, rep, dk)
    BY <1>1, <1>5, <1>7, ComesChain
<1>9. Comes(s, u, <<>>, ev, ex, sc, rep, dk)
  <2>1. CASE Bad(t)
    <3>1. u = t
        BY <2>1, BadIgnores
    <3>2. QED
        BY <3>1, <1>8
  <2>2. CASE /\ Core(t, <<>>, store, ev, ex, sc, rep, dk)
             /\ OwesNoMore(s, t) /\ Advances(s, t)
    <3>1. t \in Own /\ Stays(s, t)
        BY <1>8 DEF Comes
    <3>2. Comes(t, u, <<>>, ev, ex, sc, rep, dk)
        BY <2>2, <3>1, ErrorStep
    <3>3. QED
        BY <2>2, <3>1, <3>2, ComesChain
  <2>3. QED
    BY <1>8, <2>1, <2>2 DEF Comes
<1> HIDE DEF u
<1>10. Len(s.publications) = 0 \/ Len(s.publications) = 1 \/ Len(s.publications) = 2
    BY <1>2
<1>11. QED
    BY <1>3, <1>6, <1>8, <1>9, <1>10

\* A part of a handler that keeps the map.
LEMMA KeepsStep ==
    ASSUME NEW s \in Own, NEW t \in Own, NEW a \in AnswerSet, Neutral(a),
           NEW r \in Seq(Messages), NEW ev, NEW ex, NEW sc, NEW rep, NEW dk,
           Core(s, Fly(<<a>> \o r, s), store, ev, ex, sc, rep, dk),
           Keeps(s, t), Quiet(Fly(r, s), Fly(r, t))
    PROVE  Comes(s, t, Fly(r, t), ev, ex, sc, rep, dk)
<1> DEFINE q == Fly(<<a>> \o r, s)
           p == Fly(r, s)
           o == Fly(r, t)
<1>1. Dropped(q, p, 1) /\ q[1] = a
    BY FlyPops DEF Messages
<1>2. Core(s, q, store, ev, ex, sc, rep, dk) /\ Quiet(p, o)
    OBVIOUS
<1> HIDE DEF q, p, o
<1>3. Core(s, p, store, ev, ex, sc, rep, dk)
    BY <1>1, <1>2, CoreDrops
<1>4. Core(t, p, store, ev, ex, sc, rep, dk)
    BY <1>3, CoreFails DEF Keeps
<1>5. Core(t, o, store, ev, ex, sc, rep, dk)
    BY <1>2, <1>4, CoreQuiet
<1>6. QED
    BY <1>5, KeepsMoves DEF Comes, o

\* One answer is applied.
LEMMA AnswerStep ==
    ASSUME NEW s \in Own, NEW a \in AnswerSet,
           NEW r \in Seq(Messages), Typed, NEW ev \in Seq(Events), NEW ex, NEW sc, NEW rep,
           NEW dk,
           Core(s, Fly(<<a>> \o r, s), store, ev, ex, sc, rep, dk)
    PROVE  Comes(s, ApplyAnswer(s, a), Fly(r, ApplyAnswer(s, a)), ev, ex, sc, rep, dk)
<1> DEFINE t == ApplyAnswer(s, a)
<1>1. CASE a.kind = "AdmissionFailed"
  <2>1. t = FailStore(s)
    BY <1>1 DEF ApplyAnswer
  <2> HIDE DEF t
  <2>2. t \in Own /\ Keeps(s, t) /\ Quiet(Fly(r, s), Fly(r, t)) /\ Neutral(a)
    BY <1>1, <2>1, FailStoreKeeps DEF Neutral
  <2>3. Comes(s, t, Fly(r, t), ev, ex, sc, rep, dk)
    BY <2>2, KeepsStep
  <2>4. QED
    BY <2>3 DEF t
<1>2. CASE a.kind = "ProvisionalPage"
  <2>1. t = PageArrives(s, a)
    BY <1>2 DEF ApplyAnswer
  <2> HIDE DEF t
  <2>2. t \in Own /\ Keeps(s, t) /\ Quiet(Fly(r, s), Fly(r, t)) /\ Neutral(a)
    BY <1>2, <2>1, PageArrivesEffect DEF Neutral
  <2>3. Comes(s, t, Fly(r, t), ev, ex, sc, rep, dk)
    BY <2>2, KeepsStep
  <2>4. QED
    BY <2>3 DEF t
<1>3. CASE a.kind = "Publication"
  <2>1. t = Settle(s, a)
    BY <1>3 DEF ApplyAnswer
  <2>2. Comes(s, Settle(s, a), Fly(r, Settle(s, a)), ev, ex, sc, rep, dk)
    BY <1>3, SettleStep
  <2>3. QED
    BY <2>1, <2>2
<1>4. CASE a.kind = "Failure"
  <2>1. t = StoreStopped(s)
    BY <1>4 DEF ApplyAnswer
  <2>2. Comes(s, StoreStopped(s), Fly(r, StoreStopped(s)), ev, ex, sc, rep, dk)
    BY <1>4, StoppedStep
  <2>3. QED
    BY <2>1, <2>2
<1>5. a.kind \in AnswerKinds
    BY DEF AnswerSet
<1>6. QED
    BY <1>1, <1>2, <1>3, <1>4, <1>5 DEF AnswerKinds

\* The same behind a doomed rebuild that was published.
LEMMA BadStep ==
    ASSUME NEW s \in Own, NEW a \in AnswerSet, Typed, Bad(s)
    PROVE  ApplyAnswer(s, a) \in Own /\ Stays(s, ApplyAnswer(s, a)) /\ Bad(ApplyAnswer(s, a))
<1> DEFINE t == ApplyAnswer(s, a)
<1>0. <<>> \in Seq(Messages) /\ s.latest \in Nat
    BY DEF Own
<1>1. ASSUME NEW u \in Own, Keeps(s, u)
      PROVE  Stays(s, u) /\ Bad(u)
    BY <1>1, KeepsMoves, BadKeeps
<1>2. CASE a.kind = "AdmissionFailed"
  <2>1. t = FailStore(s)
    BY <1>2 DEF ApplyAnswer
  <2>2. QED
    BY <2>1, <1>0, <1>1, FailStoreKeeps
<1>3. CASE a.kind = "ProvisionalPage"
  <2>1. t = PageArrives(s, a)
    BY <1>3 DEF ApplyAnswer
  <2>2. QED
    BY <2>1, <1>0, <1>1, PageArrivesEffect
<1>4. CASE a.kind = "Publication"
  <2>1. t = s
    BY <1>4, BadIgnores DEF ApplyAnswer
  <2>2. QED
    BY <2>1, <1>0 DEF Stays
<1>5. CASE a.kind = "Failure"
  <2>1. Len(s.publications) = 0
    BY DEF Bad
  <2>2. t = FailStore(s)
    BY <1>5, <2>1, StoppedRounds DEF ApplyAnswer
  <2>3. QED
    BY <2>2, <1>0, <1>1, FailStoreKeeps
<1>6. a.kind \in AnswerKinds
    BY DEF AnswerSet
<1>7. QED
    BY <1>2, <1>3, <1>4, <1>5, <1>6 DEF AnswerKinds

-----------------------------------------------------------------------------
\* The answers, one after the other.
LEMMA SubSeqHead ==
    ASSUME NEW x \in Seq(AnswerSet), NEW k \in 1..Len(x)
    PROVE  /\ SubSeq(x, k, Len(x)) = <<x[k]>> \o SubSeq(x, k + 1, Len(x))
           /\ SubSeq(x, k + 1, Len(x)) \in Seq(AnswerSet) /\ x[k] \in AnswerSet
<1>1. Len(x) \in Nat /\ Len(x) \in k..Len(x)
    OBVIOUS
<1>2. SubSeq(x, k, Len(x)) = <<x[k]>> \o SubSeq(x, k + 1, Len(x))
    BY <1>1, SubSeqRecursiveFirst
<1>3. x[k] \in AnswerSet
    OBVIOUS
<1>4. SubSeq(x, k + 1, Len(x)) \in Seq(AnswerSet)
  <2>1. \A i \in (k + 1)..Len(x) : x[i] \in AnswerSet
    BY <1>1
  <2>2. k + 1 \in Int /\ Len(x) \in Int
    BY <1>1
  <2>3. QED
    BY <2>1, <2>2, SubSeqProperties
<1>5. QED
    BY <1>2, <1>3, <1>4

\* What the answers leave in flight.
Behind == IF store.running THEN store.held \o commands ELSE <<>>
Rest(k) == SubSeq(results, k + 1, Len(results)) \o Behind

\* The answers not applied yet.
LEMMA RestFacts ==
    ASSUME TypeOK
    PROVE  /\ Behind \in Seq(Messages)
           /\ \A k \in 1..Len(results) :
                /\ results[k] \in AnswerSet /\ Rest(k) \in Seq(Messages)
                /\ Rest(k - 1) = <<results[k]>> \o Rest(k)
           /\ Rest(0) = Flight
           /\ \A k \in Nat : k >= Len(results) => Rest(k) = Behind
<1>0. results \in Seq(AnswerSet) /\ store.held \in Seq(AnswerSet) /\ commands \in Seq(Commands)
    BY DEF TypeOK, Store
<1>1. Behind \in Seq(Messages)
  <2>1. store.held \in Seq(Messages) /\ commands \in Seq(Messages) /\ <<>> \in Seq(Messages)
    BY <1>0, Subsequences
  <2>2. QED
    BY <2>1, Cat DEF Behind
<1> HIDE DEF Behind
<1>2. ASSUME NEW k \in 1..Len(results)
      PROVE  /\ results[k] \in AnswerSet /\ Rest(k) \in Seq(Messages)
             /\ Rest(k - 1) = <<results[k]>> \o Rest(k)
  <2> DEFINE y == SubSeq(results, k + 1, Len(results))
             a == results[k]
  <2>1. /\ SubSeq(results, k, Len(results)) = <<a>> \o y
        /\ y \in Seq(AnswerSet) /\ a \in AnswerSet
    BY <1>0, SubSeqHead
  <2> HIDE DEF y, a
  <2>2. y \in Seq(Messages) /\ a \in Messages /\ <<a>> \in Seq(Messages)
    BY <2>1, Subsequences DEF Messages
  <2>3. (k - 1) + 1 = k
    OBVIOUS
  <2>4. Rest(k - 1) = (<<a>> \o y) \o Behind /\ Rest(k) = y \o Behind
    BY <2>1, <2>3 DEF Rest, y
  <2>5. (<<a>> \o y) \o Behind = <<a>> \o (y \o Behind)
    BY <2>2, <1>1, Assoc
  <2>6. y \o Behind \in Seq(Messages)
    BY <2>2, <1>1, Cat
  <2>7. QED
    BY <2>1, <2>4, <2>5, <2>6 DEF a
<1>3. Rest(0) = Flight
  <2>1. SubSeq(results, 0 + 1, Len(results)) = results
    BY <1>0, SubSeqFull
  <2>2. Rest(0) = results \o Behind
    BY <2>1 DEF Rest
  <2>3. CASE store.running
    <3>1. results \in Seq(Messages) /\ store.held \in Seq(Messages) /\ commands \in Seq(Messages)
        BY <1>0, Subsequences
    <3> DEFINE h == store.held
    <3>2. (results \o h) \o commands = results \o (h \o commands)
        BY <3>1, Assoc
    <3>3. QED
        BY <2>2, <2>3, <3>2 DEF Behind, Flight
  <2>4. CASE ~store.running
    BY <2>2, <2>4, <1>0 DEF Behind, Flight
  <2>5. QED
    BY <2>3, <2>4
<1>4. ASSUME NEW k \in Nat, k >= Len(results)
      PROVE  Rest(k) = Behind
  <2>1. Len(results) \in Nat
    BY <1>0
  <2>2. SubSeq(results, k + 1, Len(results)) = <<>>
    BY <1>4, <2>1, SubSeqEmpty
  <2>3. <<>> \o Behind = Behind
    BY <1>1
  <2>4. QED
    BY <2>2, <2>3 DEF Rest
<1>5. QED
    BY <1>1, <1>2, <1>3, <1>4

\* The answer of a thread that is gone.
Gone1 == Answer("Failure", "error", NoMap)

\* Every round of the loop over the answers.
LEMMA AnswersRound ==
    ASSUME TypeOK, NEW s \in Own, NEW ev \in Seq(Events), NEW ex, NEW sc, NEW rep, NEW dk,
           NEW k \in 1..Len(Answers), NEW t,
           Comes(s, t, Fly(Rest(k - 1), t), ev, ex, sc, rep, dk)
    PROVE  LET u == ApplyAnswer(t, Answers[k])
           IN  Comes(s, u, Fly(Rest(k), u), ev, ex, sc, rep, dk)
<1> DEFINE a == Answers[k]
           u == ApplyAnswer(t, a)
           n == Len(results)
<1>0. results \in Seq(AnswerSet) /\ n \in Nat /\ Typed
    BY DEF TypeOK, Typed
<1>1. Gone1 \in AnswerSet /\ Gone1.kind = "Failure" /\ Failed("Failure") = <<Gone1>>
    BY AnswersTyped DEF Gone1, Answer, AnswerKinds
<1>2. \/ k \in 1..n /\ a = results[k]
      \/ k = n + 1 /\ Stopped /\ a = Gone1
  <2>1. CASE Stopped
    <3>1. Answers = results \o <<Gone1>>
        BY <1>1, <2>1 DEF Answers
    <3>2. QED
        BY <3>1, <2>1, <1>0, <1>1
  <2>2. CASE ~Stopped
    <3>1. Answers = results
        BY <2>2, <1>0 DEF Answers
    <3>2. QED
        BY <3>1, <1>0
  <2>3. QED
    BY <2>1, <2>2
<1>3. a \in AnswerSet
    BY <1>0, <1>1, <1>2
<1>4. t \in Own /\ Stays(s, t)
    BY DEF Comes
<1> HIDE DEF a, u, n
<1>5. CASE Bad(t)
  <2>1. u \in Own /\ Stays(t, u) /\ Bad(u)
    BY <1>0, <1>3, <1>4, <1>5, BadStep DEF u
  <2>2. Stays(s, u)
    BY <2>1, <1>4, StaysChain
  <2>3. QED
    BY <2>1, <2>2 DEF Comes, u, a
<1>6. CASE /\ Core(t, Fly(Rest(k - 1), t), store, ev, ex, sc, rep, dk)
           /\ OwesNoMore(s, t) /\ Advances(s, t)
  <2>1. Comes(t, u, Fly(Rest(k), u), ev, ex, sc, rep, dk)
    <3>1. CASE k \in 1..n /\ a = results[k]
      <4>1. Rest(k) \in Seq(Messages) /\ Rest(k - 1) = <<a>> \o Rest(k)
        BY <3>1, RestFacts DEF n
      <4>2. Core(t, Fly(<<a>> \o Rest(k), t), store, ev, ex, sc, rep, dk)
        BY <4>1, <1>6
      <4>3. QED
        BY <4>1, <4>2, <1>0, <1>3, <1>4, AnswerStep DEF u
    <3>2. CASE k = n + 1 /\ Stopped /\ a = Gone1
      <4>1. ~store.running
        BY <3>2 DEF Stopped
      <4>2. k - 1 \in Nat /\ k \in Nat /\ k - 1 >= n /\ k >= n
        BY <3>2, <1>0
      <4>3. Rest(k - 1) = Behind /\ Rest(k) = Behind /\ Behind = <<>>
        BY <4>1, <4>2, RestFacts DEF n, Behind
      <4>4. \A x : Fly(Rest(k - 1), x) = <<>> /\ Fly(Rest(k), x) = <<>>
        BY <4>1, <4>3 DEF Fly
      <4>5. u = StoreStopped(t)
        BY <3>2, <1>1 DEF u, ApplyAnswer
      <4>6. Comes(t, u, <<>>, ev, ex, sc, rep, dk)
        BY <4>1, <4>4, <4>5, <1>0, <1>4, <1>6, LostStep
      <4>7. QED
        BY <4>4, <4>6
    <3>3. QED
        BY <1>2, <3>1, <3>2
  <2>2. QED
    BY <2>1, <1>4, <1>6, ComesChain DEF u, a
<1>7. QED
    BY <1>5, <1>6 DEF Comes

\* process_scan_store_events applies what the thread has answered.
LEMMA AppliedStep ==
    ASSUME TypeOK, NEW s \in Own, NEW ev \in Seq(Events), NEW ex, NEW sc, NEW rep, NEW dk,
           Core(s, Fly(Flight, s), store, ev, ex, sc, rep, dk)
    PROVE  LET t == ApplyAnswers(s, Answers)
           IN  Comes(s, t, Fly(Behind, t), ev, ex, sc, rep, dk)
<1> DEFINE n == Len(Answers)
           At(k) == {t \in Own : Comes(s, t, Fly(Rest(k), t), ev, ex, sc, rep, dk)}
           T == [k \in 0..n |-> At(k)]
           round == [p \in Own \X (1..n) |-> ApplyAnswer(p[1], Answers[p[2]])]
           Body(g) == [k \in 0..n |-> IF k = 0 THEN s ELSE ApplyAnswer(g[k - 1], Answers[k])]
           Loop[k \in 0..n] == IF k = 0 THEN s ELSE ApplyAnswer(Loop[k - 1], Answers[k])
<1>1. ApplyAnswers(s, Answers) = Loop[n]
    BY DEF ApplyAnswers
<1>2. Loop = CHOOSE g : g = Body(g)
    OBVIOUS
<1>3. n \in Nat /\ n >= Len(results)
  <2>1. results \in Seq(AnswerSet) /\ Failed("Failure") = <<Gone1>>
    BY DEF TypeOK, Failed, Gone1
  <2>2. Answers = results \/ Answers = results \o <<Gone1>>
    BY <2>1, AnswerSequences DEF Answers
  <2>3. QED
    BY <2>1, <2>2
<1>4. s \in At(0)
  <2>1. Rest(0) = Flight /\ s.latest \in Nat
    BY RestFacts DEF Own
  <2>2. QED
    BY <2>1 DEF Comes, Stays, OwesNoMore, Advances
<1>5. \A k \in 1..n : \A t \in At(k - 1) : ApplyAnswer(t, Answers[k]) \in At(k)
  <2>1. SUFFICES ASSUME NEW k \in 1..n, NEW t,
                        Comes(s, t, Fly(Rest(k - 1), t), ev, ex, sc, rep, dk)
                 PROVE  ApplyAnswer(t, Answers[k]) \in At(k)
    OBVIOUS
  <2> DEFINE u == ApplyAnswer(t, Answers[k])
  <2>2. Comes(s, u, Fly(Rest(k), u), ev, ex, sc, rep, dk)
    BY <2>1, AnswersRound
  <2>3. u \in Own
    BY <2>2 DEF Comes
  <2> HIDE DEF u
  <2>4. u \in At(k)
    BY <2>2, <2>3
  <2>5. QED
    BY <2>4 DEF u
<1>6. \A k \in 0..n : At(k) \subseteq Own
    OBVIOUS
<1> HIDE DEF At, n, Loop
<1>7. \A k \in 1..n : k - 1 \in 0..n /\ k \in 0..n /\ T[k - 1] = At(k - 1) /\ T[k] = At(k)
    BY <1>3
<1>8. \A k \in 1..n : \A t \in T[k - 1] : round[<<t, k>>] = ApplyAnswer(t, Answers[k])
    BY <1>6, <1>7
<1>9. s \in T[0]
    BY <1>3, <1>4
<1>10. T[n] = At(n)
    BY <1>3
<1> HIDE DEF T, round
<1>11. Leads(T, n, round)
    BY <1>5, <1>7, <1>8 DEF Leads
<1>12. PICK g : IsLoop(g, T, n, s, round)
    BY <1>3, <1>9, <1>11, LoopExists
<1>13. g = Body(g)
  <2>1. \A k \in 1..n : g[k] = ApplyAnswer(g[k - 1], Answers[k])
    BY <1>7, <1>8, <1>12 DEF IsLoop
  <2>2. ASSUME NEW k \in 0..n
        PROVE  g[k] = IF k = 0 THEN s ELSE ApplyAnswer(g[k - 1], Answers[k])
    <3>1. CASE k = 0
        BY <1>12, <3>1 DEF IsLoop
    <3>2. CASE k # 0
      <4>1. k \in 1..n
        BY <1>3, <3>2
      <4>2. QED
        BY <2>1, <3>2, <4>1
    <3>3. QED
        BY <3>1, <3>2
  <2>3. DOMAIN g = 0..n /\ g = [k \in 0..n |-> g[k]]
    BY <1>12 DEF IsLoop
  <2>4. QED
    BY <2>2, <2>3
<1> HIDE DEF Body
<1>14. Loop = Body(Loop)
    BY <1>2, <1>13
<1>15. /\ Loop[0] = s
       /\ \A k \in 1..n : Loop[k] = ApplyAnswer(Loop[k - 1], Answers[k])
  <2>1. \A k \in 0..n : Loop[k] = IF k = 0 THEN s ELSE ApplyAnswer(Loop[k - 1], Answers[k])
    BY <1>14 DEF Body
  <2>2. QED
    BY <2>1, <1>3
<1>16. \A k \in 0..n : Loop[k] \in T[k]
  <2>1. Loop[0] \in T[0]
    BY <1>9, <1>15
  <2>2. \A k \in 1..n : Loop[k - 1] \in T[k - 1] => Loop[k] \in T[k]
    BY <1>5, <1>7, <1>15
  <2>3. QED
    BY <1>3, <2>1, <2>2, LoopInvariant
<1>17. Loop[n] \in At(n) /\ Rest(n) = Behind
    BY <1>3, <1>10, <1>16, RestFacts
<1> DEFINE t == Loop[n]
<1>18. Comes(s, t, Fly(Rest(n), t), ev, ex, sc, rep, dk)
    BY <1>17 DEF At
<1> HIDE DEF t
<1>19. QED
    BY <1>1, <1>17, <1>18 DEF t

-----------------------------------------------------------------------------
(***************************************************************************)
(* A step of the owner, from o to t.                                       *)
(***************************************************************************)
\* The scan that t has: a rebuild that began has its own.
ScanOf(o, t, sc) == IF t.lease \in {o.lease, NoGeneration} THEN sc ELSE NewScan(t.lease)

\* The ends of jobs that wait between two steps.
AtEase(t) ==
    /\ t.finished = <<"Primary">> => ~t.available /\ t.installed = NoMap
    /\ t.finished = <<"Rebuild">> => t.invalidated

Arrives(o, t, q, ev, ex, sc, rep, dk) ==
    /\ t \in Own
    /\ t.ended => t.required \/ t.active
    /\ ~t.ended =>
         /\ t.latest >= o.latest
         /\ Core(t, q, store, ev, ex, ScanOf(o, t, sc), rep, dk)
         /\ OwesNoMore(o, t) /\ Advances(o, t) /\ AtEase(t)

\* start_pending_generation_rebuild, at the end of a handler.
LEMMA RebuildStep ==
    ASSUME NEW o \in Own, NEW s, NEW r \in Seq(Messages), Typed, NEW ev \in Seq(Events),
           NEW ex, NEW sc, NEW rep, NEW dk, dk \subseteq Entries, o.lease <= o.latest,
           Arrives(o, s, Fly(r, s), ev, ex, sc, rep, dk)
    PROVE  LET t == StartPendingRebuild(s)
           IN  Arrives(o, t, Fly(r, t), ev, ex, sc, rep, dk)
<1> DEFINE t == StartPendingRebuild(s)
           q == Fly(r, s)
           p == Fly(r, t)
<1>1. s \in Own
    BY DEF Arrives
<1>2. t \in Own /\ RebuildStarts(s, t, q, p)
    BY <1>1, StartPendingRebuildEffect
<1>a. Arrives(o, s, q, ev, ex, sc, rep, dk)
    OBVIOUS
<1> HIDE DEF t, q, p
<1>3. CASE t = s /\ p = q
  <2>1. Arrives(o, t, p, ev, ex, sc, rep, dk)
    BY <1>3, <1>a
  <2>2. QED
    BY <2>1 DEF t, p
<1>n. o.latest \in Nat /\ s.latest \in Nat /\ t.latest \in Nat /\ o.lease \in Int
      /\ t.ended \in BOOLEAN
  <2>1. \A x \in Own : x.latest \in Nat /\ x.ended \in BOOLEAN /\ x.lease \in Generation
    BY DEF Own
  <2>2. \A g \in Generation : g \in Int
    BY DEF Generation, NoGeneration
  <2>3. QED
    BY <2>1, <2>2, <1>1, <1>2
<1>4. CASE RebuildMayStart(s) /\ t.ended /\ t.required
    BY <1>2, <1>4 DEF Arrives, t, p
<1>5. ASSUME NEW c, RebuildMayStart(s), Starts(s, t), BeginOf(s, c), Gains(q, p, c)
      PROVE  Arrives(o, t, p, ev, ex, sc, rep, dk)
  <2>1. ~s.ended /\ s.finished = <<>>
    BY <1>5 DEF RebuildMayStart, Busy
  <2>2. /\ s.latest >= o.latest /\ Core(s, q, store, ev, ex, ScanOf(o, s, sc), rep, dk)
        /\ OwesNoMore(o, s) /\ Advances(o, s)
    BY <2>1, <1>a DEF Arrives
  <2>3. Core(t, p, store, ev, ex, NewScan(t.lease), rep, dk)
    BY <2>2, <1>1, <1>5, CoreStarts DEF Typed
  <2>4. t.lease = s.latest + 1 /\ t.latest = s.latest + 1 /\ t.active /\ t.ended = s.ended
        /\ t.installed = s.installed /\ t.finished = <<>>
    BY <1>5, <2>1 DEF Starts, SameMap, SamePublications
  <2>5. ScanOf(o, t, sc) = NewScan(t.lease)
    BY <2>4, <2>2, <1>n DEF ScanOf, NoGeneration
  <2>6. OwesNoMore(o, t) /\ Advances(o, t)
    BY <2>2, <2>4 DEF OwesNoMore, Owes, Period, Advances
  <2>7. AtEase(t)
    BY <2>4, Distinct DEF AtEase
  <2>8. t.latest >= o.latest
    BY <2>4, <2>2, <1>n
  <2>9. QED
    BY <2>1, <2>3, <2>4, <2>5, <2>6, <2>7, <2>8, <1>2 DEF Arrives
<1>6. QED
    BY <1>2, <1>3, <1>4, <1>5 DEF RebuildStarts, t, p

\* The loop over the jobs that are over, of which there is one at most.
LEMMA CompleteRounds ==
    ASSUME NEW s, NEW x
    PROVE  CompleteAll(s, <<>>) = s /\ CompleteAll(s, <<x>>) = Complete(s, x)
<1>1. CompleteAll(s, <<>>) = s
  <2> DEFINE Body(g) == [k \in 0..Len(<<>>) |-> IF k = 0 THEN s ELSE Complete(g[k - 1], <<>>[k])]
             Loop[k \in 0..Len(<<>>)] == IF k = 0 THEN s ELSE Complete(Loop[k - 1], <<>>[k])
             h == [k \in 0..Len(<<>>) |-> s]
  <2>1. CompleteAll(s, <<>>) = Loop[Len(<<>>)]
    BY DEF CompleteAll
  <2>2. Loop = CHOOSE g : g = Body(g)
    OBVIOUS
  <2>3. \A k \in 0..Len(<<>>) : k = 0
    OBVIOUS
  <2>4. h = Body(h)
    BY <2>3
  <2> HIDE DEF Loop, Body
  <2>5. Loop = Body(Loop)
    BY <2>2, <2>4
  <2>6. Loop[0] = s
    BY <2>5 DEF Body
  <2>7. QED
    BY <2>1, <2>6
<1>2. CompleteAll(s, <<x>>) = Complete(s, x)
  <2> DEFINE y == <<x>>
             Body(g) == [k \in 0..Len(y) |-> IF k = 0 THEN s ELSE Complete(g[k - 1], y[k])]
             Loop[k \in 0..Len(y)] == IF k = 0 THEN s ELSE Complete(Loop[k - 1], y[k])
             h == [k \in 0..Len(y) |-> IF k = 0 THEN s ELSE Complete(s, x)]
  <2>1. CompleteAll(s, y) = Loop[Len(y)]
    BY DEF CompleteAll
  <2>2. Loop = CHOOSE g : g = Body(g)
    OBVIOUS
  <2>3. Len(y) = 1 /\ y[1] = x
    OBVIOUS
  <2> HIDE DEF y, Loop
  <2>4. h = Body(h)
    <3>1. ASSUME NEW k \in 0..Len(y)
          PROVE  h[k] = IF k = 0 THEN s ELSE Complete(h[k - 1], y[k])
      <4>1. k = 0 \/ k = 1
        BY <2>3
      <4>2. h[0] = s
        BY <2>3
      <4>3. QED
        BY <4>1, <4>2, <2>3
    <3>2. QED
        BY <3>1
  <2> HIDE DEF Body, h
  <2>5. Loop = Body(Loop)
    BY <2>2, <2>4
  <2>6. \A k \in 0..Len(y) : Loop[k] = IF k = 0 THEN s ELSE Complete(Loop[k - 1], y[k])
    BY <2>5 DEF Body
  <2>7. Loop[0] = s /\ Loop[1] = Complete(Loop[0], y[1])
    BY <2>3, <2>6
  <2>8. QED
    BY <2>1, <2>3, <2>7 DEF y
<1>3. QED
    BY <1>1, <1>2

-----------------------------------------------------------------------------
\* The parts of completing a job.
Emptied(s) == [s EXCEPT !.finished = <<>>]
Loaded(s) == [s EXCEPT !.loaded = Yes]
Released(s) == [s EXCEPT !.lease = NoGeneration]

\* The ends of publications are taken.
LEMMA EmptiedEffect ==
    ASSUME NEW s \in Own
    PROVE  LET u == Emptied(s)
           IN  /\ u \in Own /\ SameJob(s, u) /\ SameFlags(s, u) /\ SameMap(s, u)
               /\ u.publications = s.publications /\ u.finished = <<>>
               /\ u.excused = s.excused /\ u.sent = s.sent
               /\ s.finished = <<>> => u = s
<1>1. <<>> \in Seq(Ends)
    OBVIOUS
<1>2. QED
    BY <1>1, ZenonT(60) DEF Emptied, Own, SameJob, SameFlags, SameMap

\* The first map counts as loaded.
LEMMA LoadedEffect ==
    ASSUME NEW s \in Own
    PROVE  LET u == Loaded(s)
           IN  /\ u \in Own /\ SamePublications(s, u) /\ SameFlags(s, u) /\ SameMap(s, u)
               /\ u.primaryScan = s.primaryScan /\ u.lease = s.lease /\ u.loaded
               /\ u.latest = s.latest /\ u.epoch = s.epoch /\ u.active = s.active
               /\ u.excused = s.excused /\ u.sent = s.sent
<1>1. Loaded(s) \in Own /\ Loaded(s).loaded = Yes
    BY YesNo, ZenonT(60) DEF Loaded, Own
<1>2. Loaded(s).loaded
    BY <1>1, YesNo
<1>3. LET u == Loaded(s)
      IN  /\ SamePublications(s, u) /\ SameFlags(s, u) /\ SameMap(s, u)
          /\ u.primaryScan = s.primaryScan /\ u.lease = s.lease
          /\ u.latest = s.latest /\ u.epoch = s.epoch /\ u.active = s.active
          /\ u.excused = s.excused /\ u.sent = s.sent
    BY DEF Loaded, Own, SamePublications, SameFlags, SameMap
<1>4. QED
    BY <1>1, <1>2, <1>3

\* The rebuild's lease is handed back.
LEMMA ReleasedEffect ==
    ASSUME NEW s \in Own
    PROVE  LET u == Released(s)
           IN  /\ u \in Own /\ SamePublications(s, u) /\ SameFlags(s, u) /\ SameMap(s, u)
               /\ u.primaryScan = s.primaryScan /\ u.lease = NoGeneration
               /\ u.loaded = s.loaded
               /\ u.latest = s.latest /\ u.epoch = s.epoch /\ u.active = s.active
               /\ u.excused = s.excused /\ u.sent = s.sent
<1>1. NoGeneration \in Generation
    BY DEF Generation
<1>2. QED
    BY <1>1 DEF Released, Own, SamePublications, SameFlags, SameMap

\* A run that has ended starts nothing.
LEMMA EndedIsLast ==
    ASSUME NEW s, s.ended
    PROVE  StartPendingRebuild(s) = s
    BY DEF StartPendingRebuild

\* complete_primary_scan.
LEMMA CompletePrimaryStep ==
    ASSUME NEW o \in Own, NEW s \in Own, NEW r \in Seq(Messages), Typed, NEW ev \in Seq(Events),
           NEW ex, NEW sc, NEW rep, NEW dk, dk \subseteq Entries, o.lease <= o.latest, ~o.ended,
           Stays(o, s), OwesNoMore(o, s), Advances(o, s),
           Core(s, Fly(r, s), store, ev, ex, sc, rep, dk), s.finished = <<"Primary">>
    PROVE  LET t == CompletePrimaryScan(Emptied(s))
           IN  Arrives(o, t, Fly(r, t), ev, ex, sc, rep, dk)
<1> DEFINE e == Emptied(s)
           l == Loaded(e)
           u == StartNextOverlay(l)
           q == Fly(r, s)
           p == Fly(r, u)
<1>1. /\ e \in Own /\ SameJob(s, e) /\ SameFlags(s, e) /\ SameMap(s, e)
      /\ e.publications = s.publications /\ e.finished = <<>>
      /\ e.excused = s.excused /\ e.sent = s.sent
    BY EmptiedEffect
<1> HIDE DEF e
<1>2. /\ l \in Own /\ SamePublications(e, l) /\ SameFlags(e, l) /\ SameMap(e, l)
      /\ l.primaryScan = e.primaryScan /\ l.lease = e.lease /\ l.loaded
      /\ l.latest = e.latest /\ l.epoch = e.epoch /\ l.active = e.active
      /\ l.excused = e.excused /\ l.sent = e.sent
    BY <1>1, LoadedEffect
<1> HIDE DEF l
<1>3. Loads(s, l) /\ l.excused = s.excused /\ Fly(r, l) = q
    BY <1>1, <1>2 DEF Loads, SameJob, SameFlags, SameMap, SamePublications, Fly
<1> HIDE DEF q
<1>4. /\ Core(l, q, store, ev, ex, sc, rep, dk)
      /\ s.epoch = 0 /\ NoCancel(q) /\ NoPub(q) /\ ~s.active /\ ~l.rebuild
      /\ s.publications = <<>> /\ ~s.primaryScan /\ s.lease = NoGeneration
    <2>1. Core(s, q, store, ev, ex, sc, rep, dk)
        BY DEF q
    <2>2. QED
        BY <2>1, <1>3, CoreLoads
<1>5. u \in Own /\ OverlayStarts(l, u, q, p)
    BY <1>2, <1>3, StartNextOverlayEffect
<1> HIDE DEF u, p
<1>6. OwesNoMore(s, l) /\ Advances(s, l) /\ Stays(s, l)
  <2>1. s.latest \in Nat
    BY DEF Own
  <2>2. QED
    BY <2>1, <1>1, <1>3 DEF OwesNoMore, Owes, Period, Advances, Stays, Loads, SameFlags, SameMap
<1>7. /\ Core(u, p, store, ev, ex, sc, rep, dk) /\ OwesNoMore(l, u) /\ Advances(l, u)
      /\ Stays(l, u) /\ u.finished = <<>>
  <2>0. l.finished = <<>> /\ l.publications = <<>> /\ ~l.active
    BY <1>1, <1>2, <1>4 DEF SamePublications, SameJob
  <2>1. CASE u = l /\ p = q
    <3>1. l.latest \in Nat
        BY <1>2 DEF Own
    <3>2. QED
        BY <2>0, <2>1, <3>1, <1>4 DEF OwesNoMore, Advances, Stays
  <2>2. CASE OverlayMayStart(l) /\ Invalidates(l, u) /\ Quiet(q, p)
    <3>1. ~GivenUp(l, ev, ex, sc)
        BY <2>2 DEF GivenUp, OverlayMayStart
    <3>2. Nearly(l, q, store, ev, ex, sc, rep, dk) /\ ~OverlayIsHead(l)
        BY <1>4, <2>0 DEF Core, OverlayIsHead
    <3>3. Core(u, q, store, ev, ex, sc, rep, dk)
        BY <3>1, <3>2, <2>0, <2>2, <1>4, CoreInvalidates
    <3>4. Core(u, p, store, ev, ex, sc, rep, dk)
        BY <3>3, <2>2, CoreQuiet
    <3>5. u.finished = <<>>
        BY <2>0, <2>2 DEF Invalidates, SamePublications
    <3>6. QED
        BY <3>4, <3>5, <2>2, <1>2, InvalidatesMoves
  <2>3. ASSUME NEW c, OverlayMayStart(l), Overlays(l, u), OverlayOf(l, c), Gains(q, p, c)
        PROVE  /\ Core(u, p, store, ev, ex, sc, rep, dk) /\ OwesNoMore(l, u) /\ Advances(l, u)
               /\ Stays(l, u) /\ u.finished = <<>>
    <3>1. Nearly(l, q, store, ev, ex, sc, rep, dk) /\ HiddenOverlay(l, q, rep) /\ ~Period(l)
        BY <1>4, <2>3 DEF Core, Cleared, OverlayMayStart
    <3>2. Core(u, p, store, ev, ex, sc, rep, dk)
        BY <3>1, <2>3, <1>2, <1>4, CoreOverlay DEF Typed
    <3>3. u.finished = <<>>
        BY <2>0, <2>3 DEF Overlays
    <3>4. QED
        BY <3>2, <3>3, <2>3, <1>2, OverlaysMoves
  <2>4. QED
    BY <2>1, <2>2, <2>3, <1>5 DEF OverlayStarts
<1>8. Arrives(o, u, p, ev, ex, sc, rep, dk)
  <2>1. OwesNoMore(o, u) /\ Advances(o, u) /\ Stays(o, u)
    BY <1>2, <1>5, <1>6, <1>7, OwesChain, AdvancesChain, StaysChain
  <2>2. ScanOf(o, u, sc) = sc
    BY <2>1 DEF ScanOf, Stays
  <2>3. AtEase(u)
    BY <1>7, Distinct DEF AtEase
  <2>4. QED
    BY <2>1, <2>2, <2>3, <1>5, <1>7 DEF Arrives, Stays
<1>9. CompletePrimaryScan(e) = StartPendingRebuild(u)
  <2>1. e.epoch = 0
    BY <1>1, <1>4 DEF SameJob
  <2>2. QED
    BY <2>1 DEF CompletePrimaryScan, u, l, Loaded, Yes
<1>10. QED
  <2>1. LET t == StartPendingRebuild(u) IN Arrives(o, t, Fly(r, t), ev, ex, sc, rep, dk)
    BY <1>8, RebuildStep DEF p
  <2>2. QED
    BY <2>1, <1>9 DEF e

\* finish_generation_rebuild and cancel_generation_rebuild, with the lease in hand.
LEMMA ConcludeStep ==
    ASSUME NEW s \in Own, NEW r \in Seq(Messages), Typed, NEW ev \in Seq(Events),
           NEW ex, NEW sc, NEW rep, NEW dk,
           Core(s, Fly(r, s), store, ev, ex, sc, rep, dk), s.lease = s.epoch,
           NEW how \in RebuildEnds, s.finished = <<how>>
    PROVE  LET v == Released(Emptied(s))
               t == IF how = "RebuildCancelled" THEN CancelRebuild(v)
                    ELSE FinishRebuild(v, how = "RebuildFailed")
           IN  /\ t \in Own
               /\ \/ t.ended /\ t.required
                  \/ /\ Core(t, Fly(r, t), store, ev, ex, sc, rep, dk)
                     /\ OwesNoMore(s, t) /\ Advances(s, t) /\ t.ended = s.ended
                     /\ t.latest = s.latest /\ t.lease = NoGeneration /\ t.finished = <<>>
<1> DEFINE e == Emptied(s)
           v == Released(e)
           t == IF how = "RebuildCancelled" THEN CancelRebuild(v)
                ELSE FinishRebuild(v, how = "RebuildFailed")
           q == Fly(r, s)
           p == Fly(r, t)
<1>1. /\ e \in Own /\ SameJob(s, e) /\ SameFlags(s, e) /\ SameMap(s, e)
      /\ e.publications = s.publications /\ e.finished = <<>>
      /\ e.excused = s.excused /\ e.sent = s.sent
    BY EmptiedEffect
<1> HIDE DEF e
<1>2. /\ v \in Own /\ SamePublications(e, v) /\ SameFlags(e, v) /\ SameMap(e, v)
      /\ v.primaryScan = e.primaryScan /\ v.lease = NoGeneration /\ v.loaded = e.loaded
      /\ v.latest = e.latest /\ v.epoch = e.epoch /\ v.active = e.active
      /\ v.sent = e.sent
    BY <1>1, ReleasedEffect
<1> HIDE DEF v
<1>3. Releases(s, v) /\ Fly(r, v) = q
    BY <1>1, <1>2 DEF Releases, SameJob, SameFlags, SameMap, SamePublications, Fly
<1>c. Core(s, q, store, ev, ex, sc, rep, dk)
    OBVIOUS
<1> HIDE DEF q
<1>4. /\ s.active /\ Sound(s) /\ s.loaded
      /\ GivenUp(s, ev, ex, sc) \/ Regular(s, q, store, ev, sc, rep, dk)
    BY <1>c, EndedRebuild
<1>5. CASE how = "RebuildCancelled"
  <2>1. t = CancelRebuild(v)
    BY <1>5
  <2>2. v.active
    BY <1>3, <1>4 DEF Releases
  <2>3. /\ t \in Own
        /\ \/ GivesUp(v, t) /\ Gains(q, p, Command("CancelActive"))
           \/ t.ended /\ t.required
    BY <2>1, <2>2, <1>2, <1>3, CancelRebuildEffect
  <2> HIDE DEF t, p
  <2>4. CASE GivesUp(v, t) /\ Gains(q, p, Command("CancelActive"))
    <3>1. Core(t, p, store, ev, ex, sc, rep, dk)
        BY <2>4, <1>3, <1>5, <1>c, CoreGivesUp
    <3>2. OwesNoMore(s, t)
        BY <2>4 DEF OwesNoMore, Owes, Period, GivesUp
    <3>3. /\ t.installed = s.installed /\ t.ended = s.ended /\ t.latest = s.latest
          /\ t.lease = NoGeneration /\ t.finished = <<>>
        BY <2>4, <1>3 DEF GivesUp, SameRest, SameMap, SamePublications, Releases
    <3>4. QED
        BY <2>3, <3>1, <3>2, <3>3 DEF Advances, t, p, v, e
  <2>5. QED
    BY <2>3, <2>4 DEF t, p, v, e
<1>6. CASE how # "RebuildCancelled"
  <2> DEFINE failed == how = "RebuildFailed"
  <2>1. t = FinishRebuild(v, failed)
    BY <1>6
  <2>2. failed \in BOOLEAN /\ how \in {"Rebuild", "RebuildFailed"}
    BY <1>6 DEF RebuildEnds
  <2>f. ~failed => how = "Rebuild"
    BY <2>2
  <2>g. failed => how = "RebuildFailed"
    OBVIOUS
  <2> HIDE DEF failed
  <2>3. t \in Own /\ Concludes(v, t, failed) /\ Quiet(q, p)
    BY <2>1, <2>2, <1>2, <1>3, FinishRebuildEffect
  <2> HIDE DEF t, p
  <2>4. Core(t, q, store, ev, ex, sc, rep, dk)
    BY <2>2, <2>f, <2>g, <2>3, <1>3, <1>c, CoreConcludes
  <2>5. Core(t, p, store, ev, ex, sc, rep, dk)
    BY <2>4, <2>3, CoreQuiet
  <2>6. /\ t.installed = s.installed /\ t.ended = s.ended /\ t.latest = s.latest
        /\ t.lease = NoGeneration /\ t.finished = <<>> /\ t.loaded
    BY <2>3, <1>3, <1>4 DEF Concludes, SameRest, SameMap, SamePublications, Releases
  <2>7. ~Owes(t)
    <3>1. SUFFICES ASSUME Owes(t) PROVE FALSE
        OBVIOUS
    <3>2. ~s.invalidated /\ s.available /\ ~failed
        BY <3>1, <2>3, <1>3 DEF Owes, Period, Concludes, Releases, SameFlags
    <3>3. Rebuilt(s, rep)
        BY <3>2, <1>4 DEF GivenUp, Regular
    <3>4. s.finished = <<"Rebuild">> /\ s.finished # <<>>
        BY <3>2, <2>f, Distinct
    <3>5. s.installed.scan = s.lease
        BY <3>2, <3>3, <3>4, <1>4 DEF Rebuilt
    <3>6. s.lease > 0 /\ s.lease \in Int
        <4>1. Phase(s)
            BY <1>c DEF Core, Nearly
        <4>2. QED
            BY <4>1, <1>4, GenerationsTyped DEF Phase, Typed
    <3>7. t.installed.scan = 0
        BY <3>1, <2>6 DEF Owes
    <3>8. QED
        BY <3>5, <3>6, <3>7, <2>6
  <2>8. QED
    BY <2>3, <2>5, <2>6, <2>7 DEF Advances, OwesNoMore, t, p, v, e
<1>7. QED
    BY <1>5, <1>6

\* CompleteRebuild: the lease is that of the coordinator's generation, or the run ends.
LEMMA CompleteRebuildStep ==
    ASSUME NEW o \in Own, NEW s \in Own, NEW r \in Seq(Messages), Typed, NEW ev \in Seq(Events),
           NEW ex, NEW sc, NEW rep, NEW dk, dk \subseteq Entries, o.lease <= o.latest, ~o.ended,
           NEW how \in RebuildEnds, s.finished = <<how>>,
           Comes(o, s, Fly(r, s), ev, ex, sc, rep, dk)
    PROVE  LET t == CompleteRebuild(Emptied(s), how)
           IN  Arrives(o, t, Fly(r, t), ev, ex, sc, rep, dk)
<1> DEFINE e == Emptied(s)
           v == Released(e)
           x == IF how = "RebuildCancelled" THEN CancelRebuild(v)
                ELSE FinishRebuild(v, how = "RebuildFailed")
<1>1. /\ e \in Own /\ SameJob(s, e) /\ e.ended = s.ended
    BY EmptiedEffect DEF SameMap
<1>a. s.active
  <2>1. CASE Bad(s)
    BY <2>1 DEF Bad
  <2>2. CASE Core(s, Fly(r, s), store, ev, ex, sc, rep, dk)
    <3>1. Phase(s)
        BY <2>2 DEF Core, Nearly
    <3>2. s.finished # <<>> /\ s.finished # <<"Primary">>
        BY Distinct DEF RebuildEnds
    <3>3. QED
        BY <3>1, <3>2 DEF Phase
  <2>3. QED
    BY <2>1, <2>2 DEF Comes
<1>2. CASE s.lease # s.epoch
  <2>1. CompleteRebuild(e, how) = Fatal(e)
    BY <1>1, <1>2 DEF CompleteRebuild, SameJob
  <2>2. Fatal(e) \in Own /\ Fatal(e).ended /\ Fatal(e).active = e.active
    BY <1>1 DEF Fatal, Own
  <2>3. QED
    BY <2>1, <2>2, <1>1, <1>a DEF Arrives, SameJob
<1>3. CASE s.lease = s.epoch
  <2>1. /\ Core(s, Fly(r, s), store, ev, ex, sc, rep, dk)
        /\ OwesNoMore(o, s) /\ Advances(o, s) /\ Stays(o, s)
    BY <1>3 DEF Comes, Bad
  <2>2. CompleteRebuild(e, how) = StartPendingRebuild(x)
    BY <1>1, <1>3 DEF CompleteRebuild, SameJob, Released
  <2>3. /\ x \in Own
        /\ \/ x.ended /\ x.required
           \/ /\ Core(x, Fly(r, x), store, ev, ex, sc, rep, dk)
              /\ OwesNoMore(s, x) /\ Advances(s, x) /\ x.ended = s.ended
              /\ x.latest = s.latest /\ x.lease = NoGeneration /\ x.finished = <<>>
    BY <2>1, <1>3, ConcludeStep
  <2> HIDE DEF x
  <2>4. Arrives(o, x, Fly(r, x), ev, ex, sc, rep, dk)
    <3>1. CASE x.ended /\ x.required
        BY <3>1, <2>3 DEF Arrives
    <3>2. CASE /\ Core(x, Fly(r, x), store, ev, ex, sc, rep, dk)
               /\ OwesNoMore(s, x) /\ Advances(s, x) /\ x.ended = s.ended
               /\ x.latest = s.latest /\ x.lease = NoGeneration /\ x.finished = <<>>
        <4>1. OwesNoMore(o, x) /\ Advances(o, x)
            BY <3>2, <2>1, <2>3, OwesChain, AdvancesChain
        <4>2. ScanOf(o, x, sc) = sc
            BY <3>2 DEF ScanOf
        <4>3. AtEase(x)
            BY <3>2, Distinct DEF AtEase
        <4>4. x.latest >= o.latest /\ ~x.ended
            BY <3>2, <2>1 DEF Stays
        <4>5. QED
            BY <3>2, <4>1, <4>2, <4>3, <4>4, <2>3 DEF Arrives
    <3>3. QED
        BY <3>1, <3>2, <2>3
  <2>5. LET t == StartPendingRebuild(x) IN Arrives(o, t, Fly(r, t), ev, ex, sc, rep, dk)
    BY <2>4, RebuildStep
  <2>6. QED
    BY <2>2, <2>5 DEF e
<1>4. QED
    BY <1>2, <1>3

\* The jobs the answers have ended are completed.
LEMMA CompletedStep ==
    ASSUME NEW o \in Own, NEW s, NEW r \in Seq(Messages), Typed, NEW ev \in Seq(Events),
           NEW ex, NEW sc, NEW rep, NEW dk, dk \subseteq Entries, o.lease <= o.latest, ~o.ended,
           Comes(o, s, Fly(r, s), ev, ex, sc, rep, dk)
    PROVE  LET t == CompleteAll(Emptied(s), s.finished)
           IN  Arrives(o, t, Fly(r, t), ev, ex, sc, rep, dk)
<1>1. s \in Own /\ Stays(o, s) /\ ~s.ended
    BY DEF Comes, Stays
<1> DEFINE e == Emptied(s)
<1>2. e \in Own /\ SameJob(s, e) /\ ~e.ended
    BY <1>1, EmptiedEffect DEF SameMap
<1>3. \/ s.finished = <<>> \/ s.finished = <<"Primary">>
      \/ \E how \in RebuildEnds : s.finished = <<how>>
  <2>1. CASE Bad(s)
    BY <2>1 DEF Bad
  <2>2. CASE Core(s, Fly(r, s), store, ev, ex, sc, rep, dk)
    <3>1. Phase(s)
        BY <2>2 DEF Core, Nearly
    <3>2. QED
        BY <3>1 DEF Phase, RebuildEnds
  <2>3. QED
    BY <2>1, <2>2 DEF Comes
<1>4. Bad(s) => s.finished # <<>> /\ s.finished # <<"Primary">>
    BY Distinct DEF Bad, RebuildEnds
<1>5. CASE s.finished = <<>>
  <2>1. /\ Core(s, Fly(r, s), store, ev, ex, sc, rep, dk)
        /\ OwesNoMore(o, s) /\ Advances(o, s)
    BY <1>4, <1>5 DEF Comes
  <2>2. e = s
    BY <1>1, <1>5, EmptiedEffect
  <2>3. CompleteAll(e, s.finished) = s
    BY <2>2, <1>5, CompleteRounds
  <2>4. ScanOf(o, s, sc) = sc
    BY <1>1 DEF ScanOf, Stays
  <2>5. AtEase(s)
    BY <1>5, Distinct DEF AtEase
  <2>6. Arrives(o, s, Fly(r, s), ev, ex, sc, rep, dk)
    BY <2>1, <2>4, <2>5, <1>1 DEF Arrives, Stays
  <2>7. QED
    BY <2>3, <2>6 DEF e
<1>6. CASE s.finished = <<"Primary">>
  <2>1. /\ Core(s, Fly(r, s), store, ev, ex, sc, rep, dk)
        /\ OwesNoMore(o, s) /\ Advances(o, s)
    BY <1>4, <1>6 DEF Comes
  <2>2. CompleteAll(e, s.finished) = Complete(e, "Primary")
    BY <1>6, CompleteRounds
  <2>3. Complete(e, "Primary") = CompletePrimaryScan(e)
    BY <1>2 DEF Complete
  <2>4. LET t == CompletePrimaryScan(e) IN Arrives(o, t, Fly(r, t), ev, ex, sc, rep, dk)
    BY <2>1, <1>1, <1>6, CompletePrimaryStep
  <2>5. QED
    BY <2>2, <2>3, <2>4 DEF e
<1>7. ASSUME NEW how \in RebuildEnds, s.finished = <<how>>
      PROVE  LET t == CompleteAll(e, s.finished)
             IN  Arrives(o, t, Fly(r, t), ev, ex, sc, rep, dk)
  <2>2. CompleteAll(e, s.finished) = Complete(e, how)
    BY <1>7, CompleteRounds
  <2>3. Complete(e, how) = CompleteRebuild(e, how)
    BY <1>2 DEF Complete, RebuildEnds
  <2>4. LET t == CompleteRebuild(e, how) IN Arrives(o, t, Fly(r, t), ev, ex, sc, rep, dk)
    BY <1>1, <1>7, CompleteRebuildStep
  <2>5. QED
    BY <2>2, <2>3, <2>4
<1>8. QED
    BY <1>3, <1>5, <1>6, <1>7

-----------------------------------------------------------------------------
\* take_landed_refresh: nothing that was reported is listed any more.
SameButHidden(s, t) ==
    /\ SameJob(s, t) /\ SamePublications(s, t) /\ SameFlags(s, t)
    /\ t.installed = s.installed /\ t.ended = s.ended

\* Only what is said of the entries that are hidden can change.
LEMMA CoreHidden ==
    ASSUME NEW s, NEW t, NEW q, NEW st, NEW ev, NEW ex, NEW sc, NEW rep, NEW dk,
           Core(s, q, st, ev, ex, sc, rep, dk), SameButHidden(s, t), Shown(t, rep, dk),
           Regular(s, q, st, ev, sc, rep, dk) =>
             HiddenFirst(t, q, st, ev, rep) /\ HiddenRebuild(t, q, st, ev, rep)
    PROVE  Core(t, q, st, ev, ex, sc, rep, dk)
<1> USE DEF SameButHidden, SameJob, SamePublications, SameFlags
<1>2. /\ Gens(s, q, st, ev) /\ Phase(s) /\ Job(s, ev, sc) /\ Flags(s, ex, dk)
      /\ Cancelled(s, ev, ex, sc) /\ Cancellation(s, q, ev, ex, sc)
      /\ Mode(s, q, st, ev, ex, sc, rep, dk) /\ Cleared(s) /\ HiddenOverlay(s, q, rep)
    BY DEF Core, Nearly
<1>5. Gens(t, q, st, ev) /\ Phase(t) /\ Job(t, ev, sc) /\ Flags(t, ex, dk) /\ Cleared(t)
  <2>1. Gens(t, q, st, ev)
    BY <1>2 DEF Gens, StoreGens, EventGens, Dated
  <2>2. Phase(t)
    BY <1>2 DEF Phase, OverlayIsHead, Sound
  <2>3. Job(t, ev, sc)
    BY <1>2 DEF Job, Scanned, Working, Sound, JobGen
  <2>4. Flags(t, ex, dk) /\ Cleared(t)
    BY <1>2 DEF Flags, Cleared, Period, OverlayIsHead
  <2>5. QED
    BY <2>1, <2>2, <2>3, <2>4
<1>6. Cancelled(t, ev, ex, sc) /\ Cancellation(t, q, ev, ex, sc)
    BY <1>2 DEF Cancelled, Cancellation, CancelSent, CancelledJob, GivenUp
<1>8. HiddenOverlay(t, q, rep)
    BY <1>2 DEF HiddenOverlay, LeavesOut, Period
<1>9. ASSUME Regular(s, q, st, ev, sc, rep, dk) PROVE Regular(t, q, st, ev, sc, rep, dk)
  <2>1. ~Doomed(t) /\ Order(t, q, st, dk)
    BY <1>9 DEF Regular, Doomed, Sound, Order, Begun, Carries, Based, Follows
  <2>2. Pipeline(t, q, st, ev, sc, dk)
    BY <1>9 DEF Regular, Pipeline, Working, Sound, Admits, Delivered, JobGen, Scanned, ToBeTold,
                InPipe, StoreLost
  <2>3. Rebuilt(t, rep) /\ RebuildShrinks(t, q, st, ev)
    BY <1>9 DEF Regular, Rebuilt, RebuildShrinks, Sound
  <2>4. QED
    BY <2>1, <2>2, <2>3, <1>9 DEF Regular
<1>10. Mode(t, q, st, ev, ex, sc, rep, dk)
    BY <1>2, <1>9 DEF Mode, GivenUp, CancelledJob, Doomed, DoomedOrder, DoomedItem, OverlayIsHead,
                      Based, Follows
<1>11. QED
    BY <1>5, <1>6, <1>8, <1>10 DEF Core, Nearly

\* A refresh lands: hidden removals the map left out are forgotten.
LEMMA CoreLands ==
    ASSUME NEW s, NEW t, NEW q, NEW st, NEW ev, NEW ex, NEW sc, NEW rep, NEW dk,
           Core(s, q, st, ev, ex, sc, rep, dk), SameButHidden(s, t),
           RefreshLanded(s), s.available
    PROVE  Core(t, q, st, ev, ex, sc, rep, dk)
<1> USE DEF SameButHidden, SameJob, SamePublications, SameFlags
<1>1. /\ ~s.required /\ ~s.active /\ s.publications = <<>> /\ s.finished = <<>>
      /\ s.prefixes = <<>> /\ ~s.rebuild /\ ~Period(s)
    BY DEF RefreshLanded, Busy, NoRemovals, Period
<1>2. Phase(s) /\ Shown(s, rep, dk) /\ HiddenOverlay(s, q, rep)
    BY DEF Core, Nearly
<1>4. s.installed.listed \intersect rep = {}
  <2>1. CASE s.loaded
    BY <2>1, <1>1, <1>2, EmptySet DEF HiddenOverlay
  <2>2. CASE ~s.loaded
    <3>1. s.installed = NoMap
        BY <2>2, <1>1, <1>2, Distinct DEF Phase
    <3>2. NoMap.listed = {}
        BY DEF NoMap
    <3>3. QED
        BY <3>1, <3>2
  <2>3. QED
    BY <2>1, <2>2
<1>7. Shown(t, rep, dk)
    BY <1>2, <1>4 DEF Shown
<1>8. ASSUME Regular(s, q, st, ev, sc, rep, dk)
      PROVE  HiddenFirst(t, q, st, ev, rep) /\ HiddenRebuild(t, q, st, ev, rep)
  <2>1. HiddenFirst(t, q, st, ev, rep)
    BY <1>1, <1>8, EmptySet DEF Regular, HiddenFirst
  <2>2. QED
    BY <2>1, <1>1 DEF HiddenRebuild, Sound
<1>9. QED
    BY <1>7, <1>8, CoreHidden

\* take_landed_refresh: the owner.
LEMMA TakeLandedEffect ==
    ASSUME NEW s \in Own
    PROVE  LET t == TakeLandedRefresh(s)
           IN  /\ t \in Own /\ SameButHidden(s, t) /\ t.excused = s.excused /\ t.sent = s.sent
               /\ \/ t.hidden = s.hidden \/ (RefreshLanded(s) /\ s.available)
<1> DEFINE h == IF s.available THEN {} ELSE s.hidden
           u == [s EXCEPT !.refreshOwed = No, !.hidden = h]
<1>1. s.hidden \in SUBSET Entries /\ s.available \in BOOLEAN
    BY DEF Own
<1>2. h \in SUBSET Entries /\ (~s.available => h = s.hidden)
    BY <1>1
<1> HIDE DEF h
<1>3. u \in Own
    BY <1>2, YesNo, ZenonT(60) DEF Own
<1>4. SameButHidden(s, u) /\ u.excused = s.excused /\ u.sent = s.sent /\ u.hidden = h
    BY DEF Own, SameButHidden, SameJob, SamePublications, SameFlags
<1>5. TakeLandedRefresh(s) = IF ~RefreshLanded(s) THEN s ELSE u
    BY DEF TakeLandedRefresh, h, No
<1> HIDE DEF u
<1>6. CASE ~RefreshLanded(s)
    BY <1>5, <1>6 DEF SameButHidden, SameJob, SamePublications, SameFlags
<1>7. CASE RefreshLanded(s)
    BY <1>2, <1>3, <1>4, <1>5, <1>7
<1>8. QED
    BY <1>6, <1>7

\* take_landed_refresh: the invariant.
LEMMA LandedStep ==
    ASSUME NEW o \in Own, NEW s, NEW r \in Seq(Messages), NEW ev,
           NEW ex, NEW sc, NEW rep, NEW dk, ~s.ended,
           Arrives(o, s, Fly(r, s), ev, ex, sc, rep, dk)
    PROVE  LET t == TakeLandedRefresh(s)
           IN  Arrives(o, t, Fly(r, t), ev, ex, sc, rep, dk)
<1> DEFINE t == TakeLandedRefresh(s)
           z == ScanOf(o, s, sc)
<1>1. /\ s \in Own /\ s.latest >= o.latest /\ Core(s, Fly(r, s), store, ev, ex, z, rep, dk)
      /\ OwesNoMore(o, s) /\ Advances(o, s) /\ AtEase(s)
    BY DEF Arrives
<1>2. /\ t \in Own /\ SameButHidden(s, t) /\ t.excused = s.excused /\ t.sent = s.sent
      /\ t.hidden = s.hidden \/ (RefreshLanded(s) /\ s.available)
    BY <1>1, TakeLandedEffect
<1> HIDE DEF t, z
<1>3. Core(t, Fly(r, s), store, ev, ex, z, rep, dk)
  <2>1. CASE t.hidden = s.hidden
    <3>1. Fails(s, t)
        BY <2>1, <1>2 DEF Fails, SameButHidden, SameFlags, SameMap
    <3>2. QED
        BY <3>1, <1>1, CoreFails
  <2>2. CASE RefreshLanded(s) /\ s.available
    BY <2>2, <1>1, <1>2, CoreLands
  <2>3. QED
    BY <2>1, <2>2, <1>2
<1>4. Fly(r, t) = Fly(r, s) /\ ScanOf(o, t, sc) = z
    BY <1>2 DEF Fly, ScanOf, z, SameButHidden, SameJob
<1>5. OwesNoMore(s, t) /\ AtEase(t) /\ t.latest = s.latest /\ t.installed = s.installed
      /\ ~t.ended
    BY <1>1, <1>2 DEF SameButHidden, SameJob, SameFlags, SamePublications, OwesNoMore, Owes,
                      Period, AtEase
<1>6. OwesNoMore(o, t) /\ Advances(o, t)
    BY <1>1, <1>2, <1>5, OwesChain DEF Advances
<1>7. QED
    BY <1>1, <1>2, <1>3, <1>4, <1>5, <1>6 DEF Arrives, t

-----------------------------------------------------------------------------
(***************************************************************************)
(* The end of a handler.                                                   *)
(***************************************************************************)
\* What a handler leaves behind that began at o.
Left(o, q, ev, ex, rep, dk) ==
    /\ own' \in Own /\ commands' \in Seq(Commands) /\ scan' \in Scans
    /\ own'.ended => own'.required \/ own'.active
    /\ ~own'.ended =>
         /\ Core(own', q, store, ev, ex, scan', rep, dk) /\ AtRest(own')
         /\ OwesNoMore(o, own') /\ Advances(o, own')

Sentless(s) == [s EXCEPT !.sent = <<>>]

\* The commands of a step are handed to the queue.
LEMMA SentlessEffect ==
    ASSUME NEW s \in Own
    PROVE  LET u == Sentless(s)
           IN  u \in Own /\ Same(s, u) /\ u.excused = s.excused /\ u.sent = <<>>
<1>1. <<>> \in Seq(Commands)
    OBVIOUS
<1>2. QED
    BY <1>1 DEF Sentless, Own, Same, SameJob, SamePublications, SameFlags, SameMap

\* The type of a new scan.
LEMMA NewScanTyped ==
    \A g \in Generation : NewScan(g) \in Scans
<1>1. SUFFICES ASSUME NEW g \in Generation PROVE NewScan(g) \in Scans
    OBVIOUS
<1>2. NewScan(g) = [gen |-> g, seen |-> [x \in Entries |-> "unread"], cancelled |-> No]
    BY DEF NewScan, No
<1> DEFINE f == [x \in Entries |-> "unread"]
<1>3. f \in [Entries -> {"unread", "listed", "told"}]
    OBVIOUS
<1> HIDE DEF f
<1>4. [gen |-> g, seen |-> f, cancelled |-> No] \in Scans
    BY <1>3, YesNo DEF Scans
<1>5. QED
    BY <1>2, <1>4 DEF f

\* The end of a handler.
LEMMA BecomeStep ==
    ASSUME TypeOK, NEW o \in Own, o.lease = own.lease, NEW s, NEW q, NEW ev, NEW ex, NEW rep, NEW dk,
           Arrives(o, s, q, ev, ex, scan, rep, dk), Become(s)
    PROVE  Left(o, q, ev, ex, rep, dk)
<1>1. s \in Own
    BY DEF Arrives
<1>2. own' = Sentless(s)
    BY DEF Become, Sentless
<1>3. own' \in Own /\ Same(s, own') /\ own'.excused = s.excused /\ own'.sent = <<>>
    BY <1>1, <1>2, SentlessEffect
<1>4. commands' \in Seq(Commands)
  <2>1. s.sent \in Seq(Commands)
    BY <1>1 DEF Own
  <2>2. commands \in Seq(Commands) /\ commands' = commands \o s.sent
    BY DEF TypeOK, Become
  <2>3. QED
    BY <2>1, <2>2
<1>5. scan' = ScanOf(o, s, scan) /\ scan' \in Scans
  <2>1. scan' = ScanOf(o, s, scan)
    BY DEF Become, ScanOf
  <2>2. s.lease \in Generation
    BY <1>1 DEF Own
  <2>3. QED
    BY <2>1, <2>2, NewScanTyped DEF ScanOf, TypeOK
<1>6. own'.ended => own'.required \/ own'.active
    BY <1>3 DEF Arrives, Same, SameJob, SameFlags, SameMap
<1>7. ASSUME ~own'.ended
      PROVE  /\ Core(own', q, store, ev, ex, scan', rep, dk) /\ AtRest(own')
             /\ OwesNoMore(o, own') /\ Advances(o, own')
  <2>1. ~s.ended
    BY <1>3, <1>7 DEF Same, SameMap
  <2>2. /\ Core(s, q, store, ev, ex, scan', rep, dk)
        /\ OwesNoMore(o, s) /\ Advances(o, s) /\ AtEase(s)
    BY <2>1, <1>5 DEF Arrives
  <2>3. Keeps(s, own')
    BY <1>3, SameKeeps
  <2>4. Core(own', q, store, ev, ex, scan', rep, dk)
    BY <2>2, <2>3, CoreFails DEF Keeps
  <2>5. AtRest(own')
    BY <1>3, <2>2 DEF AtRest, AtEase, Same, SameFlags, SameMap, SamePublications
  <2>6. OwesNoMore(o, own')
    BY <2>2, <2>3, <1>1, KeepsMoves, OwesChain
  <2>7. Advances(o, own')
    BY <2>2, <1>3 DEF Advances, Same, SameMap
  <2>8. QED
    BY <2>4, <2>5, <2>6, <2>7
<1>8. QED
    BY <1>3, <1>4, <1>5, <1>6, <1>7 DEF Left

\* Excused failures stay accounted for while the execution goes on.
LEMMA ExcusesKept ==
    ASSUME NEW s, NEW t, NEW ex, NEW exc, NEW dk, Excuses(s, ex, exc, dk), OwesNoMore(s, t)
    PROVE  Excuses(t, ex, exc, dk)
    BY DEF Excuses, OwesNoMore, Owes

-----------------------------------------------------------------------------
Noting(s, x) == [s EXCEPT !.stopReported = x]

\* The end of the store thread was reported.
LEMMA NotingEffect ==
    ASSUME NEW s \in Own, NEW x \in BOOLEAN
    PROVE  LET u == Noting(s, x)
           IN  u \in Own /\ Same(s, u) /\ u.excused = s.excused /\ u.sent = s.sent
    BY ZenonT(60) DEF Noting, Own, Same, SameJob, SamePublications, SameFlags, SameMap

\* The type of what is in flight.
LEMMA FlightTyped ==
    ASSUME TypeOK
    PROVE  Flight \in Seq(Messages) /\ Behind \in Seq(Messages) /\ Typed
           /\ events \in Seq(Events) /\ disk \subseteq Entries /\ own \in Own
           /\ (own.sent = <<>> => Fly(Flight, own) = Flight)
<1>1. Behind \in Seq(Messages) /\ Rest(0) = Flight
    BY RestFacts
<1>2. results \in Seq(Messages)
    BY Subsequences DEF TypeOK
<1>3. Flight \in Seq(Messages)
  <2>1. store.held \in Seq(AnswerSet)
    BY DEF TypeOK, Store
  <2>2. store.held \in Seq(Messages) /\ commands \in Seq(Messages)
    BY <2>1, Subsequences DEF TypeOK
  <2>3. QED
    BY <1>2, <2>2, Cat DEF Flight
<1>4. \A x \in Seq(Messages) : x \o <<>> = x
    OBVIOUS
<1>5. QED
    BY <1>1, <1>3, <1>4 DEF Typed, TypeOK, Fly

\* process_scan_store_events.
LEMMA ProcessStep ==
    ASSUME Inv, ProcessStoreEvents
    PROVE  Inv' /\ (~own'.ended => Advances(own, own'))
<1>0. /\ TypeOK /\ ~own.ended /\ own \in Own /\ own.sent = <<>>
      /\ Core(own, Flight, store, events, executing, scan, reported, disk)
    BY DEF Inv, ProcessStoreEvents, AtRest, TypeOK
<1>t. /\ Flight \in Seq(Messages) /\ Behind \in Seq(Messages) /\ Typed
      /\ events \in Seq(Events) /\ disk \subseteq Entries /\ Fly(Flight, own) = Flight
    BY <1>0, FlightTyped
<1> DEFINE x == own.stopReported \/ Stopped
           a == Noting(own, x)
           applied == ApplyAnswers(a, Answers)
           over == CompleteAll(Emptied(applied), applied.finished)
           started == IF Answers # <<>> \/ applied.finished # <<>>
                      THEN StartWorkThatWaited(over) ELSE over
           done == IF started.ended THEN started ELSE TakeLandedRefresh(started)
<1>1. /\ Become(done) /\ results' = <<>>
      /\ disk' = disk /\ store' = store /\ events' = events /\ executing' = executing
      /\ reported' = reported /\ excusals' = excusals
    BY DEF ProcessStoreEvents, history, Noting, Emptied
<1>2. x \in BOOLEAN
    <2>1. own.stopReported \in BOOLEAN /\ Stopped \in BOOLEAN
        BY <1>0 DEF Own, Stopped
    <2>2. QED
        BY <2>1
<1> HIDE DEF x
<1>3. a \in Own /\ Same(own, a) /\ a.excused = own.excused /\ a.sent = own.sent
    BY <1>0, <1>2, NotingEffect
<1> HIDE DEF a
<1>4. Keeps(own, a) /\ OwesNoMore(own, a) /\ Advances(own, a) /\ Stays(own, a)
    BY <1>3, <1>0, SameKeeps, KeepsMoves
<1>5. Core(a, Fly(Flight, a), store, events, executing, scan, reported, disk)
    <2>1. Fly(Flight, a) = Flight
        BY <1>3, <1>t DEF Fly
    <2>2. QED
        BY <2>1, <1>0, <1>4, CoreFails DEF Keeps
<1>6. Comes(own, applied, Fly(Behind, applied), events, executing, scan, reported, disk)
    <2>1. Comes(a, applied, Fly(Behind, applied), events, executing, scan, reported, disk)
        BY <1>0, <1>3, <1>5, <1>t, AppliedStep
    <2>2. QED
        BY <2>1, <1>0, <1>3, <1>4, ComesChain
<1> HIDE DEF applied
<1>7. own.lease <= own.latest
    BY <1>0 DEF Core, Nearly, Gens, StoreGens
<1>8. Arrives(own, over, Fly(Behind, over), events, executing, scan, reported, disk)
    BY <1>0, <1>6, <1>7, <1>t, CompletedStep
<1> HIDE DEF over
<1>9. Arrives(own, started, Fly(Behind, started), events, executing, scan, reported, disk)
    <2>1. LET u == StartPendingRebuild(over)
          IN  Arrives(own, u, Fly(Behind, u), events, executing, scan, reported, disk)
        BY <1>0, <1>7, <1>8, <1>t, RebuildStep
    <2>2. QED
        BY <1>8, <2>1 DEF StartWorkThatWaited
<1> HIDE DEF started
<1>10. Arrives(own, done, Fly(Behind, done), events, executing, scan, reported, disk)
    <2>1. CASE started.ended
        BY <2>1, <1>9
    <2>2. CASE ~started.ended
        BY <2>2, <1>0, <1>9, <1>t, LandedStep
    <2>3. QED
        BY <2>1, <2>2
<1> HIDE DEF done
<1>11. Left(own, Fly(Behind, done), events, executing, reported, disk)
    BY <1>0, <1>1, <1>10, BecomeStep
<1>12. Flight' = Fly(Behind, done)
    <2>1. done.sent \in Seq(Messages) /\ commands' = commands \o done.sent
        <3>1. done.sent \in Seq(Commands)
            BY <1>10 DEF Arrives, Own
        <3>2. QED
            BY <3>1, <1>1, Subsequences DEF Become
    <2>2. store.held \in Seq(Messages) /\ commands \in Seq(Messages)
        <3>1. store.held \in Seq(AnswerSet) /\ commands \in Seq(Commands)
            BY <1>0 DEF TypeOK, Store
        <3>2. QED
            BY <3>1, Subsequences
    <2>3. CASE store.running
        <3>1. Fly(Behind, done) = (store.held \o commands) \o done.sent
            BY <2>3 DEF Fly, Behind
        <3>2. Flight' = (<<>> \o store.held) \o (commands \o done.sent)
            BY <2>1, <2>3, <1>1 DEF Flight
        <3>3. <<>> \o store.held = store.held
            BY <2>2
        <3>4. (store.held \o commands) \o done.sent = store.held \o (commands \o done.sent)
            BY <2>1, <2>2, Assoc
        <3> HIDE DEF Flight, Fly
        <3>5. QED
            BY <3>1, <3>2, <3>3, <3>4
    <2>4. CASE ~store.running
        BY <2>4, <1>1 DEF Fly, Behind, Flight
    <2>5. QED
        BY <2>3, <2>4
<1>13. TypeOK'
    <2>1. <<>> \in Seq(AnswerSet)
        OBVIOUS
    <2>2. QED
        BY <2>1, <1>0, <1>1, <1>11 DEF TypeOK, Left
<1>14. Executions(events, executing, reported, disk)'
    BY <1>1 DEF Inv, Executions
<1>15. ASSUME ~own'.ended
       PROVE  /\ Core(own, Flight, store, events, executing, scan, reported, disk)'
              /\ AtRest(own') /\ Excuses(own, executing, excusals, disk)'
              /\ Advances(own, own')
    <2>1. /\ Core(own', Flight', store', events', executing', scan', reported', disk')
          /\ AtRest(own') /\ OwesNoMore(own, own') /\ Advances(own, own')
        BY <1>1, <1>11, <1>12, <1>15 DEF Left
    <2>2. Excuses(own', executing', excusals', disk')
        BY <2>1, <1>0, <1>1, ExcusesKept DEF Inv
    <2>3. QED
        BY <2>1, <2>2
<1>16. QED
    BY <1>11, <1>13, <1>14, <1>15 DEF Inv, Left

=============================================================================
