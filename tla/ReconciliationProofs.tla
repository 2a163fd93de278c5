------------------------ MODULE ReconciliationProofs ------------------------
(***************************************************************************)
(* The second half of the proof that the invariant is kept: the events of  *)
(* the workers, the steps of the store thread, the scan and the executor;  *)
(* and the theorems, for any entries, queues, generations and faults.      *)
(***************************************************************************)
EXTENDS ReconciliationAnswers

-----------------------------------------------------------------------------
(***************************************************************************)
(* The owner takes an event.                                               *)
(***************************************************************************)
\* ew is ev without its first event.
Later(ev, ew) ==
    /\ ev \in Seq(Events) /\ ew \in Seq(Events) /\ Len(ev) = Len(ew) + 1
    /\ \A i \in 1..Len(ew) : ew[i] = ev[i + 1]

\* The events behind the first.
LEMMA LaterFacts ==
    ASSUME NEW ev, NEW ew, Later(ev, ew)
    PROVE  /\ 1 \in 1..Len(ev) /\ ev[1] \in Events
           /\ \A i \in 1..Len(ew) : i + 1 \in 1..Len(ev) /\ 1 < i + 1 /\ ew[i] = ev[i + 1]
           /\ \A i \in 1..Len(ev) : i = 1 \/ \E j \in 1..Len(ew) : i = j + 1
<1>1. Len(ev) \in Nat /\ Len(ew) \in Nat /\ Len(ev) = Len(ew) + 1
    BY DEF Later
<1>2. 1 \in 1..Len(ev)
    BY <1>1
<1>3. ev[1] \in Events
    BY <1>2 DEF Later
<1>4. \A i \in 1..Len(ew) : i + 1 \in 1..Len(ev) /\ 1 < i + 1 /\ ew[i] = ev[i + 1]
    BY <1>1 DEF Later
<1>5. \A i \in 1..Len(ev) : i = 1 \/ (i - 1 \in 1..Len(ew) /\ i = (i - 1) + 1)
    BY <1>1
<1>6. QED
    BY <1>2, <1>3, <1>4, <1>5

\* They are the tail.
LEMMA TailLater ==
    ASSUME NEW ev \in Seq(Events), ev # <<>>
    PROVE  Later(ev, Tail(ev)) /\ Head(ev) = ev[1]
    BY DEF Later

\* An event that was taken lists nothing more.
LEMMA LaterLists ==
    ASSUME NEW q, NEW st, NEW ev, NEW ew, Later(ev, ew)
    PROVE  \A g, e : Lists(g, q, st, ew, e) => Lists(g, q, st, ev, e)
<1>1. SUFFICES ASSUME NEW g, NEW e, Lists(g, q, st, ew, e) PROVE Lists(g, q, st, ev, e)
    OBVIOUS
<1>2. ASSUME NEW i \in 1..Len(ew), IsBatch(ew[i], g), ew[i].entry = e
      PROVE  Lists(g, q, st, ev, e)
  <2>1. i + 1 \in 1..Len(ev) /\ IsBatch(ev[i + 1], g) /\ ev[i + 1].entry = e
    BY <1>2, LaterFacts
  <2>2. QED
    BY <2>1 DEF Lists
<1>3. QED
    BY <1>1, <1>2 DEF Lists

\* An event that was taken cancels nothing more.
LEMMA LaterCancelled ==
    ASSUME NEW s, NEW sc, NEW ev, NEW ew, Later(ev, ew), CancelledJob(s, ew, sc)
    PROVE  CancelledJob(s, ev, sc)
<1>1. ASSUME NEW i \in 1..Len(ew), ew[i].kind = "finished", ew[i].cancelled
      PROVE  CancelledJob(s, ev, sc)
  <2>1. i + 1 \in 1..Len(ev) /\ ev[i + 1].kind = "finished" /\ ev[i + 1].cancelled
    BY <1>1, LaterFacts
  <2>2. QED
    BY <2>1 DEF CancelledJob
<1>2. QED
    BY <1>1 DEF CancelledJob

\* The event bears on nothing, or is a batch for a map that is lost.
LEMMA CoreSkips ==
    ASSUME NEW s, NEW q, NEW st, NEW ev, NEW ew, NEW ex, NEW sc, NEW rep, NEW dk,
           Core(s, q, st, ev, ex, sc, rep, dk), Later(ev, ew),
           ev[1].kind # "batch" \/ ~s.available
    PROVE  Core(s, q, st, ew, ex, sc, rep, dk)
<1>0. \A i \in 1..Len(ew) : i + 1 \in 1..Len(ev) /\ 1 < i + 1 /\ ew[i] = ev[i + 1]
    BY LaterFacts
<1>1. Gens(s, q, st, ew)
    BY <1>0 DEF Core, Nearly, Gens, EventGens
<1>2. Job(s, ew, sc)
  <2>1. Job(s, ev, sc)
    BY DEF Core, Nearly
  <2>2. ASSUME NEW i \in 1..Len(ew), ew[i].kind = "finished"
        PROVE  /\ Scanned(s) /\ sc.gen = NoGeneration
               /\ \A j \in 1..Len(ew) : ew[j].kind = "finished" => i = j
               /\ \A j \in 1..Len(ew) : ew[j].kind = "batch" => j < i
    <3>1. i + 1 \in 1..Len(ev) /\ ev[i + 1].kind = "finished"
        BY <2>2, <1>0
    <3>2. /\ Scanned(s) /\ sc.gen = NoGeneration
          /\ \A j \in 1..Len(ev) : ev[j].kind = "finished" => i + 1 = j
          /\ \A j \in 1..Len(ev) : ev[j].kind = "batch" => j < i + 1
        BY <2>1, <3>1 DEF Job
    <3>3. ASSUME NEW j \in 1..Len(ew)
          PROVE  (ew[j].kind = "finished" => i = j) /\ (ew[j].kind = "batch" => j < i)
        <4>1. j + 1 \in 1..Len(ev) /\ ew[j] = ev[j + 1]
            BY <1>0
        <4>2. ew[j].kind = "finished" => i + 1 = j + 1
            BY <4>1, <3>2
        <4>3. ew[j].kind = "batch" => j + 1 < i + 1
            BY <4>1, <3>2
        <4>4. QED
            BY <4>2, <4>3
    <3>4. QED
        BY <3>2, <3>3
  <2>3. QED
    BY <2>1, <2>2, <1>0 DEF Job
<1>3. Cancelled(s, ew, ex, sc)
    BY LaterCancelled DEF Core, Nearly, Cancelled
<1>4. GivenUp(s, ev, ex, sc) => GivenUp(s, ew, ex, sc)
    BY LaterCancelled DEF GivenUp
<1>5. Cancellation(s, q, ew, ex, sc)
    BY <1>4, LaterCancelled DEF Core, Nearly, Cancellation, CancelSent
<1>6. Regular(s, q, st, ev, sc, rep, dk) => Regular(s, q, st, ew, sc, rep, dk)
  <2>1. SUFFICES ASSUME Regular(s, q, st, ev, sc, rep, dk)
                 PROVE  Regular(s, q, st, ew, sc, rep, dk)
    OBVIOUS
  <2>2. Pipeline(s, q, st, ew, sc, dk)
    <3>1. SUFFICES ASSUME Working(s) PROVE Admits(s, q) /\ Delivered(s, q, st, ew, sc, dk)
        BY DEF Pipeline
    <3>2. Admits(s, q) /\ Delivered(s, q, st, ev, sc, dk)
        BY <2>1, <3>1 DEF Regular, Pipeline
    <3>3. ASSUME NEW x, s.available, ToBeTold(s, ev, sc, x)
          PROVE  ToBeTold(s, ew, sc, x)
        <4>1. ASSUME NEW i \in 1..Len(ev), IsBatch(ev[i], JobGen(s)), ev[i].entry = x
              PROVE  ToBeTold(s, ew, sc, x)
            <5>1. i # 1
                BY <3>3, <4>1 DEF IsBatch
            <5>2. PICK j \in 1..Len(ew) : i = j + 1
                BY <5>1, LaterFacts
            <5>3. ew[j] = ev[i]
                BY <5>2, <1>0
            <5>4. QED
                BY <4>1, <5>3 DEF ToBeTold
        <4>2. QED
            BY <3>3, <4>1 DEF ToBeTold
    <3>4. QED
        BY <3>2, <3>3 DEF Delivered
  <2>3. HiddenFirst(s, q, st, ew, rep) /\ HiddenRebuild(s, q, st, ew, rep)
        /\ RebuildShrinks(s, q, st, ew)
    BY <2>1, LaterLists DEF Regular, HiddenFirst, HiddenRebuild, RebuildShrinks
  <2>4. QED
    BY <2>1, <2>2, <2>3 DEF Regular
<1>7. Mode(s, q, st, ew, ex, sc, rep, dk)
    BY <1>4, <1>6 DEF Core, Nearly, Mode
<1>8. QED
    BY <1>1, <1>2, <1>3, <1>5, <1>7 DEF Core, Nearly

\* The elements of a flight that has gained one.
LEMMA GainsFacts ==
    ASSUME NEW q, NEW p, NEW c, Gains(q, p, c)
    PROVE  /\ Len(q) \in Nat /\ Len(p) \in Nat /\ Len(q) < Len(p)
           /\ Len(p) \in 1..Len(p) /\ p[Len(p)] = c
           /\ \A i \in 1..Len(q) : i \in 1..Len(p) /\ p[i] = q[i] /\ i < Len(p)
           /\ \A i \in 1..Len(p) :
                \/ i \in 1..Len(q) /\ p[i] = q[i]
                \/ i = Len(p) /\ p[i] = c
                \/ p[i].kind = "Notes"
<1>1. Len(q) \in Nat /\ Len(p) \in Nat /\ Len(q) < Len(p) /\ p[Len(p)] = c
    BY DEF Gains
<1>2. \A i \in 1..Len(q) : i \in 1..Len(p) /\ p[i] = q[i] /\ i < Len(p)
    BY <1>1 DEF Gains
<1>3. \A i \in 1..Len(p) :
        \/ i \in 1..Len(q) /\ p[i] = q[i]
        \/ i = Len(p) /\ p[i] = c
        \/ p[i].kind = "Notes"
    BY DEF Gains
<1>4. QED
    BY <1>1, <1>2, <1>3

\* A batch is on its way to the store.
LEMMA CoreAdmitted ==
    ASSUME NEW s, NEW q, NEW p, NEW c, NEW st, NEW ev, NEW ew, NEW ex, NEW sc, NEW rep, NEW dk,
           Core(s, q, st, ev, ex, sc, rep, dk), Later(ev, ew), Gains(q, p, c),
           ev[1].kind = "batch", c.kind = "Admit", c.gen = ev[1].gen, c.entry = ev[1].entry
    PROVE  Core(s, p, st, ew, ex, sc, rep, dk)
<1>0. \A i \in 1..Len(ew) : i + 1 \in 1..Len(ev) /\ 1 < i + 1 /\ ew[i] = ev[i + 1]
    BY LaterFacts
<1>e. 1 \in 1..Len(ev) /\ \A i \in 1..Len(ev) : i = 1 \/ \E j \in 1..Len(ew) : i = j + 1
    BY LaterFacts
<1>p. /\ Len(p) \in 1..Len(p) /\ p[Len(p)] = c
      /\ \A i \in 1..Len(q) : i \in 1..Len(p) /\ p[i] = q[i] /\ i < Len(p)
      /\ \A i \in 1..Len(p) :
            \/ i \in 1..Len(q) /\ p[i] = q[i]
            \/ i = Len(p) /\ p[i] = c
            \/ p[i].kind = "Notes"
    BY GainsFacts
<1>c. ~IsPub(c) /\ ~IsMap(c) /\ ~Begins(c) /\ ~Cancels(c) /\ c.kind \notin {"Overlay", "Publish"}
    BY DEF IsPub, IsMap, Begins, Cancels
<1>n. \A x : x.kind = "Notes" =>
         ~IsPub(x) /\ ~IsMap(x) /\ ~Begins(x) /\ ~Cancels(x) /\ x.kind \notin {"Overlay", "Publish", "Admit"}
    BY DEF IsPub, IsMap, Begins, Cancels
<1>q. \A i \in 1..Len(p) :
         IsPub(p[i]) \/ IsMap(p[i]) \/ Begins(p[i]) \/ Cancels(p[i])
           \/ p[i].kind \in {"Overlay", "Publish"} => i \in 1..Len(q) /\ p[i] = q[i]
    BY <1>p, <1>c, <1>n
<1>d. Len(p) \in Nat /\ Len(q) \in Nat
    BY GainsFacts
<1>1. Gens(s, p, st, ew)
  <2>0. Gens(s, q, st, ev)
    BY DEF Core, Nearly
  <2>1. EventGens(s, ew)
    BY <2>0, <1>0 DEF Gens, EventGens
  <2>2. Ascending(p)
    BY <2>0, <1>q DEF Gens, Ascending
  <2>3. Dated(s, st, c)
    BY <2>0, <1>e, <1>c DEF Gens, EventGens, Dated
  <2>4. \A i \in 1..Len(p) : Dated(s, st, p[i])
    BY <2>0, <2>3, <1>p, <1>n DEF Gens, Dated
  <2>5. QED
    BY <2>0, <2>1, <2>2, <2>4 DEF Gens
<1>2. Job(s, ew, sc) /\ Cancelled(s, ew, ex, sc) /\ Phase(s) /\ Flags(s, ex, dk) /\ Shown(s, rep, dk)
  <2>1. Job(s, ev, sc)
    BY DEF Core, Nearly
  <2>2. \A i \in 1..Len(ew) : ew[i].kind = "finished" =>
               /\ Scanned(s) /\ sc.gen = NoGeneration
               /\ \A j \in 1..Len(ew) : ew[j].kind = "finished" => i = j
               /\ \A j \in 1..Len(ew) : ew[j].kind = "batch" => j < i
    <3>0. SUFFICES ASSUME NEW i \in 1..Len(ew), ew[i].kind = "finished"
                   PROVE  /\ Scanned(s) /\ sc.gen = NoGeneration
                          /\ \A j \in 1..Len(ew) : ew[j].kind = "finished" => i = j
                          /\ \A j \in 1..Len(ew) : ew[j].kind = "batch" => j < i
        OBVIOUS
    <3>1. i + 1 \in 1..Len(ev) /\ ev[i + 1].kind = "finished"
        BY <3>0, <1>0
    <3>2. /\ Scanned(s) /\ sc.gen = NoGeneration
          /\ \A j \in 1..Len(ev) : ev[j].kind = "finished" => i + 1 = j
          /\ \A j \in 1..Len(ev) : ev[j].kind = "batch" => j < i + 1
        BY <2>1, <3>1 DEF Job
    <3>3. ASSUME NEW j \in 1..Len(ew)
          PROVE  (ew[j].kind = "finished" => i = j) /\ (ew[j].kind = "batch" => j < i)
        <4>1. j + 1 \in 1..Len(ev) /\ ew[j] = ev[j + 1]
            BY <1>0
        <4>2. ew[j].kind = "finished" => i + 1 = j + 1
            BY <4>1, <3>2
        <4>3. ew[j].kind = "batch" => j + 1 < i + 1
            BY <4>1, <3>2
        <4>4. QED
            BY <4>2, <4>3
    <3>4. QED
        BY <3>2, <3>3
  <2>3. Job(s, ew, sc)
    BY <2>1, <2>2, <1>0 DEF Job
  <2>4. QED
    BY <2>3, LaterCancelled DEF Core, Nearly, Cancelled
<1>4. GivenUp(s, ev, ex, sc) => GivenUp(s, ew, ex, sc)
    BY LaterCancelled DEF GivenUp
<1>5. Cancellation(s, p, ew, ex, sc)
  <2>1. (\E i \in 1..Len(p) : Cancels(p[i])) => \E i \in 1..Len(q) : Cancels(q[i])
    BY <1>q
  <2>2. CancelSent(s, ev, ex, sc) => CancelSent(s, ew, ex, sc)
    BY <1>4, LaterCancelled DEF CancelSent
  <2>3. QED
    BY <2>1, <2>2 DEF Core, Nearly, Cancellation
<1>f. \A i \in 1..Len(q) : First(p, i) => First(q, i)
  <2>1. SUFFICES ASSUME NEW i \in 1..Len(q), First(p, i), NEW j \in 1..(i - 1) PROVE ~IsPub(q[j])
    BY DEF First
  <2>2. j \in 1..Len(q)
    BY <1>d
  <2>3. p[j] = q[j]
    BY <2>2, <1>p
  <2>4. QED
    BY <2>1, <2>3 DEF First
<1>g. \A i \in 1..Len(q) : First(q, i) => First(p, i)
  <2>1. SUFFICES ASSUME NEW i \in 1..Len(q), First(q, i), NEW j \in 1..(i - 1) PROVE ~IsPub(p[j])
    BY DEF First
  <2>2. j \in 1..Len(q)
    BY <1>d
  <2>3. p[j] = q[j]
    BY <2>2, <1>p
  <2>4. QED
    BY <2>1, <2>3 DEF First
<1>6. DoomedOrder(s, q, st, dk) => DoomedOrder(s, p, st, dk)
  <2>1. NoPub(p) => NoPub(q)
    BY <1>p DEF NoPub
  <2>2. \A i \in 1..Len(q) : DoomedItem(s, q, i, dk) => DoomedItem(s, p, i, dk)
    BY <1>p, <1>f, <1>g DEF DoomedItem
  <2>3. \A i \in 1..Len(p) : i \in 1..Len(q) \/ DoomedItem(s, p, i, dk)
    BY <1>p, <1>c, <1>n DEF DoomedItem
  <2>4. QED
    BY <2>1, <2>2, <2>3 DEF DoomedOrder
<1>L. \A g, x : Lists(g, p, st, ew, x) => Lists(g, q, st, ev, x)
  <2>1. SUFFICES ASSUME NEW g, NEW x, Lists(g, p, st, ew, x) PROVE Lists(g, q, st, ev, x)
    OBVIOUS
  <2>2. ASSUME NEW i \in 1..Len(p), IsAdmit(p[i], g), p[i].entry = x
        PROVE  Lists(g, q, st, ev, x)
    <3>1. CASE i \in 1..Len(q) /\ p[i] = q[i]
        BY <2>2, <3>1 DEF Lists
    <3>2. CASE p[i] = c
        BY <2>2, <3>2, <1>e DEF Lists, IsAdmit, IsBatch
    <3>3. QED
        BY <2>2, <3>1, <3>2, <1>p DEF IsAdmit
  <2>3. ASSUME NEW i \in 1..Len(p), IsMap(p[i]), p[i].map.gen = g, x \in p[i].map.listed
        PROVE  Lists(g, q, st, ev, x)
    BY <2>3, <1>q DEF Lists
  <2>4. ASSUME NEW i \in 1..Len(ew), IsBatch(ew[i], g), ew[i].entry = x
        PROVE  Lists(g, q, st, ev, x)
    BY <2>4, <1>0 DEF Lists
  <2>5. QED
    BY <2>1, <2>2, <2>3, <2>4 DEF Lists
<1>7. Regular(s, q, st, ev, sc, rep, dk) => Regular(s, p, st, ew, sc, rep, dk)
  <2>1. SUFFICES ASSUME Regular(s, q, st, ev, sc, rep, dk)
                 PROVE  Regular(s, p, st, ew, sc, rep, dk)
    OBVIOUS
  <2>o. Order(s, q, st, dk)
    BY <2>1 DEF Regular
  <2>2. Order(s, p, st, dk)
    <3>1. s.publications = <<>> => NoPub(p)
        BY <2>o, <1>q DEF Order, NoPub
    <3>2. AtMostOne(p) /\ PubsLast(p)
        BY <2>o, <1>q DEF Order, AtMostOne, PubsLast
    <3>3. Begun(s, p, st)
        BY <2>o, <1>q, <1>p DEF Order, Begun
    <3>4. \A i \in 1..Len(p) : Carries(s, p[i], dk)
        <4>1. \A i \in 1..Len(q) : Carries(s, q[i], dk)
            BY <2>o DEF Order
        <4>2. \A x : ~IsMap(x) /\ ~Begins(x) /\ x.kind \notin {"Overlay", "Publish"} =>
                 Carries(s, x, dk)
            BY DEF Carries
        <4>3. QED
            BY <4>1, <4>2, <1>p, <1>c, <1>n
    <3>5. QED
        BY <3>1, <3>2, <3>3, <3>4 DEF Order
  <2>3. ASSUME Working(s)
        PROVE  Admits(s, p) /\ Delivered(s, p, st, ew, sc, dk)
    <3>1. Admits(s, q) /\ Delivered(s, q, st, ev, sc, dk)
        BY <2>1, <2>3 DEF Regular, Pipeline
    <3>2. c.gen = JobGen(s) => NoPub(q)
        <4>1. SUFFICES ASSUME c.gen = JobGen(s) PROVE NoPub(q)
            OBVIOUS
        <4>2. Scanned(s)
            BY <4>1, <2>3, <1>e DEF Core, Nearly, Job, IsBatch
        <4>3. s.publications = <<>>
            <5>1. s.publications \in {<<>>, <<"Overlay">>}
                BY <4>2 DEF Scanned
            <5>2. <<"Overlay">> # <<"Rebuild">> /\ <<"Overlay">> # <<>> /\ Head(<<"Overlay">>) = "Overlay"
                BY Distinct
            <5>3. s.publications = <<"Overlay">> => OverlayIsHead(s)
                BY <5>2 DEF OverlayIsHead
            <5>4. Phase(s)
                BY DEF Core, Nearly
            <5>5. QED
                BY <5>1, <5>2, <5>3, <5>4, <2>3 DEF Phase, Working
        <4>4. QED
            BY <4>3, <2>o DEF Order
    <3>3. Admits(s, p)
        <4>1. SUFFICES ASSUME NEW i \in 1..Len(p), NEW j \in 1..Len(p), i < j
                       PROVE  /\ IsAdmit(p[i], JobGen(s)) => ~Begins(p[j])
                              /\ IsPub(p[i]) => ~IsAdmit(p[j], JobGen(s))
            BY DEF Admits
        <4>2. ASSUME IsAdmit(p[i], JobGen(s)), Begins(p[j]) PROVE FALSE
            <5>1. j \in 1..Len(q) /\ p[j] = q[j]
                BY <4>2, <1>q
            <5>2. i \in 1..Len(q)
                BY <5>1, <4>1, <1>d
            <5>3. p[i] = q[i]
                BY <5>2, <1>p
            <5>4. QED
                BY <5>1, <5>2, <5>3, <4>1, <4>2, <3>1 DEF Admits
        <4>3. ASSUME IsPub(p[i]), IsAdmit(p[j], JobGen(s)) PROVE FALSE
            <5>1. i \in 1..Len(q) /\ p[i] = q[i]
                BY <4>3, <1>q
            <5>2. CASE j \in 1..Len(q) /\ p[j] = q[j]
                BY <5>1, <5>2, <4>1, <4>3, <3>1 DEF Admits
            <5>3. CASE p[j] = c
                BY <5>1, <5>3, <4>3, <3>2 DEF IsAdmit, NoPub
            <5>4. QED
                BY <5>2, <5>3, <4>3, <1>p DEF IsAdmit
        <4>4. QED
            BY <4>2, <4>3
    <3>4. \A x : InPipe(s, q, st, x) => InPipe(s, p, st, x)
        <4>1. \A x : (\E i \in 1..Len(q) : IsAdmit(q[i], JobGen(s)) /\ q[i].entry = x) =>
                      \E i \in 1..Len(p) : IsAdmit(p[i], JobGen(s)) /\ p[i].entry = x
            BY <1>p
        <4>2. StoreLost(s, q, st) => StoreLost(s, p, st)
            BY <1>q DEF StoreLost
        <4>3. QED
            BY <4>1, <4>2 DEF InPipe
    <3>5. \A x : ToBeTold(s, ev, sc, x) => ToBeTold(s, ew, sc, x) \/ InPipe(s, p, st, x)
        <4>1. SUFFICES ASSUME NEW x, NEW i \in 1..Len(ev), IsBatch(ev[i], JobGen(s)), ev[i].entry = x
                       PROVE  ToBeTold(s, ew, sc, x) \/ InPipe(s, p, st, x)
            BY DEF ToBeTold
        <4>2. CASE i = 1
            <5>1. IsAdmit(c, JobGen(s)) /\ c.entry = x
                BY <4>1, <4>2 DEF IsAdmit, IsBatch
            <5>2. QED
                BY <5>1, <1>p DEF InPipe
        <4>3. ASSUME NEW j \in 1..Len(ew), i = j + 1
              PROVE  ToBeTold(s, ew, sc, x)
            BY <4>1, <4>3, <1>0 DEF ToBeTold
        <4>4. QED
            BY <4>2, <4>3, <1>e
    <3>6. (\E i \in 1..Len(p) : p[i].kind = "Publish") => \E i \in 1..Len(q) : q[i].kind = "Publish"
        BY <1>q
    <3>7. QED
        BY <3>1, <3>3, <3>4, <3>5, <3>6 DEF Delivered
  <2>4. HiddenFirst(s, p, st, ew, rep) /\ HiddenRebuild(s, p, st, ew, rep)
        /\ RebuildShrinks(s, p, st, ew)
    BY <2>1, <1>L DEF Regular, HiddenFirst, HiddenRebuild, RebuildShrinks
  <2>5. QED
    BY <2>1, <2>2, <2>3, <2>4 DEF Regular, Pipeline
<1>8. Mode(s, p, st, ew, ex, sc, rep, dk)
    BY <1>4, <1>6, <1>7 DEF Core, Nearly, Mode
<1>9. HiddenOverlay(s, p, rep)
  <2>1. \A x : ~IsMap(x) /\ x.kind # "Overlay" => LeavesOut(s, x, rep)
    BY DEF LeavesOut
  <2>2. (\A i \in 1..Len(q) : LeavesOut(s, q[i], rep)) => \A i \in 1..Len(p) : LeavesOut(s, p[i], rep)
    BY <2>1, <1>p, <1>c, <1>n
  <2>3. QED
    BY <2>2 DEF Core, HiddenOverlay
<1>10. QED
    BY <1>1, <1>2, <1>5, <1>8, <1>9 DEF Core, Nearly

-----------------------------------------------------------------------------
\* The scan is over: it has told everything.
LEMMA ScanIsOver ==
    ASSUME NEW s, NEW ev, NEW ew, NEW sc, Job(s, ev, sc), Later(ev, ew), ev[1].kind = "finished"
    PROVE  /\ Scanned(s) /\ s.finished = <<>> /\ sc.gen = NoGeneration
           /\ \A i \in 1..Len(ev) : ev[i].kind # "batch"
           /\ \A i \in 1..Len(ew) : ew[i].kind # "batch" /\ ew[i].kind # "finished"
           /\ \A x : ~ToBeTold(s, ev, sc, x)
<1>1. 1 \in 1..Len(ev)
    BY LaterFacts
<1>2. /\ Scanned(s) /\ sc.gen = NoGeneration
      /\ \A j \in 1..Len(ev) : ev[j].kind = "finished" => 1 = j
      /\ \A j \in 1..Len(ev) : ev[j].kind = "batch" => j < 1
    BY <1>1 DEF Job
<1>3. \A i \in 1..Len(ev) : ev[i].kind # "batch"
    BY <1>2
<1>4. \A i \in 1..Len(ew) : ew[i].kind # "batch" /\ ew[i].kind # "finished"
  <2>1. \A i \in 1..Len(ew) : i + 1 \in 1..Len(ev) /\ 1 < i + 1 /\ ew[i] = ev[i + 1]
    BY LaterFacts
  <2>2. QED
    BY <2>1, <1>2, <1>3
<1>5. QED
    BY <1>2, <1>3, <1>4 DEF Scanned, ToBeTold, IsBatch

\* What is in flight with a publication behind it.
LEMMA PublishGains ==
    ASSUME NEW s, NEW t, NEW q, NEW p, NEW st, NEW ev, NEW ew, NEW sc, NEW dk,
           Gains(q, p, Command("Publish")), NoPub(q),
           Order(s, q, st, dk), Pipeline(s, q, st, ev, sc, dk), Working(s), Working(t),
           JobGen(t) = JobGen(s), Scanned(s), ~Scanned(t), s.available,
           s.loaded => ~s.invalidated /\ ~s.suppressed,
           \A x : ~ToBeTold(s, ev, sc, x),
           t.lease = s.lease, t.epoch = s.epoch, t.active = s.active, t.loaded = s.loaded,
           t.publications # <<>>, t.publications # <<"Overlay">>
    PROVE  Order(t, p, st, dk) /\ Pipeline(t, p, st, ew, sc, dk)
<1> DEFINE c == Command("Publish")
<1>k. c.kind = "Publish" /\ ~Begins(c) /\ ~Cancels(c) /\ ~IsMap(c) /\ c.kind # "Admit"
    BY PlainTyped DEF Begins, Cancels, IsMap
<1> HIDE DEF c
<1>p. /\ Len(q) \in Nat /\ Len(p) \in Nat /\ Len(q) < Len(p)
      /\ Len(p) \in 1..Len(p) /\ p[Len(p)] = c
      /\ \A i \in 1..Len(q) : i \in 1..Len(p) /\ p[i] = q[i] /\ i < Len(p)
      /\ \A i \in 1..Len(p) :
            \/ i \in 1..Len(q) /\ p[i] = q[i]
            \/ i = Len(p) /\ p[i] = c
            \/ p[i].kind = "Notes"
    BY GainsFacts DEF c
<1>n. \A x : x.kind = "Notes" =>
         ~IsPub(x) /\ ~IsMap(x) /\ ~Begins(x) /\ ~Cancels(x) /\ x.kind \notin {"Overlay", "Publish", "Admit"}
    BY DEF IsPub, IsMap, Begins, Cancels
<1>q. \A i \in 1..Len(p) :
         /\ Begins(p[i]) \/ Cancels(p[i]) \/ IsMap(p[i]) \/ p[i].kind \in {"Admit", "Overlay"}
              => i \in 1..Len(q) /\ p[i] = q[i]
         /\ IsPub(p[i]) => i = Len(p)
    BY <1>p, <1>k, <1>n DEF NoPub
<1>m. \A i \in 1..Len(q) : ~IsMap(q[i]) /\ q[i].kind \notin {"Overlay", "Publish"}
    BY DEF NoPub, IsPub, IsMap
<1>1. Order(t, p, st, dk)
  <2>1. AtMostOne(p)
    BY <1>q DEF AtMostOne
  <2>2. PubsLast(p)
    <3>1. SUFFICES ASSUME NEW i \in 1..Len(p), NEW j \in 1..Len(p), i < j, IsPub(p[i]) PROVE FALSE
        BY DEF PubsLast
    <3>2. QED
        BY <3>1, <1>q, <1>p
  <2>3. Begun(t, p, st)
    BY <1>q, <1>p DEF Order, Begun, Sound
  <2>4. \A i \in 1..Len(p) : Carries(t, p[i], dk)
    <3>1. \A i \in 1..Len(p) : ~IsMap(p[i]) /\ p[i].kind # "Overlay"
        BY <1>q, <1>m, <1>k, <1>n
    <3>2. \A i \in 1..Len(p) : ~t.loaded => ~Begins(p[i])
        BY <1>q DEF Order, Carries
    <3>3. QED
        BY <3>1, <3>2 DEF Carries
  <2>5. QED
    BY <2>1, <2>2, <2>3, <2>4 DEF Order
<1>2. Admits(t, p)
  <2>0. Admits(s, q)
    BY DEF Pipeline
  <2>1. SUFFICES ASSUME NEW i \in 1..Len(p), NEW j \in 1..Len(p), i < j
                 PROVE  /\ IsAdmit(p[i], JobGen(t)) => ~Begins(p[j])
                        /\ IsPub(p[i]) => ~IsAdmit(p[j], JobGen(t))
    BY DEF Admits
  <2>2. ~IsPub(p[i])
    BY <2>1, <1>q, <1>p
  <2>3. ASSUME IsAdmit(p[i], JobGen(t)), Begins(p[j]) PROVE FALSE
    <3>1. i \in 1..Len(q) /\ p[i] = q[i] /\ j \in 1..Len(q) /\ p[j] = q[j]
        BY <2>3, <1>q DEF IsAdmit
    <3>2. QED
        BY <3>1, <2>0, <2>1, <2>3 DEF Admits
  <2>4. QED
    BY <2>2, <2>3
<1>3. \A x : InPipe(s, q, st, x) => InPipe(t, p, st, x)
  <2>1. StoreLost(s, q, st) => StoreLost(t, p, st)
    BY <1>q DEF StoreLost
  <2>2. QED
    BY <2>1, <1>p DEF InPipe
<1>4. Delivered(t, p, st, ew, sc, dk)
  <2>1. \A x \in dk : InPipe(s, q, st, x)
    BY DEF Pipeline, Delivered
  <2>2. QED
    BY <2>1, <1>3 DEF Delivered
<1>5. QED
    BY <1>1, <1>2, <1>4 DEF Pipeline

\* A publication asked for lists nothing more.
LEMMA PublishLists ==
    ASSUME NEW q, NEW p, NEW st, NEW ev, NEW ew, Gains(q, p, Command("Publish")), Later(ev, ew)
    PROVE  \A g, x : Lists(g, p, st, ew, x) => Lists(g, q, st, ev, x)
<1> DEFINE c == Command("Publish")
<1>k. c.kind = "Publish" /\ ~IsMap(c) /\ c.kind # "Admit"
    BY PlainTyped DEF IsMap
<1> HIDE DEF c
<1>p. \A i \in 1..Len(p) :
            \/ i \in 1..Len(q) /\ p[i] = q[i]
            \/ i = Len(p) /\ p[i] = c
            \/ p[i].kind = "Notes"
    BY GainsFacts DEF c
<1>1. \A g, x : Lists(g, p, st, ew, x) => Lists(g, q, st, ew, x)
    BY <1>p, <1>k DEF Lists, IsAdmit, IsMap
<1>2. QED
    BY <1>1, LaterLists

\* A publication asked for is of no new generation.
LEMMA PublishGens ==
    ASSUME NEW s, NEW t, NEW q, NEW p, NEW st, NEW ev, NEW ew, Gens(s, q, st, ev),
           Gains(q, p, Command("Publish")), Later(ev, ew),
           t.latest = s.latest, t.epoch = s.epoch, t.lease = s.lease, t.installed = s.installed
    PROVE  Gens(t, p, st, ew)
<1> DEFINE c == Command("Publish")
<1>k. c.kind = "Publish" /\ ~Begins(c) /\ ~IsMap(c) /\ c.kind # "Admit"
    BY PlainTyped DEF Begins, IsMap
<1> HIDE DEF c
<1>p. \A i \in 1..Len(p) :
            \/ i \in 1..Len(q) /\ p[i] = q[i]
            \/ i = Len(p) /\ p[i] = c
            \/ p[i].kind = "Notes"
    BY GainsFacts DEF c
<1>n. \A x : x.kind = "Notes" => ~IsMap(x) /\ ~Begins(x) /\ x.kind # "Admit"
    BY DEF IsMap, Begins
<1>1. EventGens(t, ew)
    BY LaterFacts DEF Gens, EventGens
<1>2. StoreGens(t, st)
    BY DEF Gens, StoreGens
<1>3. Ascending(p)
    BY <1>p, <1>k, <1>n DEF Gens, Ascending
<1>4. \A i \in 1..Len(p) : Dated(t, st, p[i])
  <2>1. \A i \in 1..Len(q) : Dated(t, st, q[i])
    BY DEF Gens, Dated
  <2>2. QED
    BY <2>1, <1>p, <1>k, <1>n DEF Dated
<1>5. QED
    BY <1>1, <1>2, <1>3, <1>4 DEF Gens

\* The first scan is over; t publishes it, or has lost its map.
FirstScanned(s, t) ==
    /\ ~t.primaryScan /\ t.lease = s.lease /\ t.loaded = s.loaded /\ t.latest = s.latest
    /\ t.epoch = s.epoch /\ t.active = s.active /\ SameMap(s, t)
    /\ t.required = s.required
FirstPublishes(s, t) ==
    /\ FirstScanned(s, t) /\ t.publications = <<"Primary">> /\ t.finished = <<>>
    /\ t.available = s.available /\ t.prefixes = s.prefixes /\ t.rebuild = s.rebuild
FirstIsLost(s, t) ==
    /\ FirstScanned(s, t) /\ t.publications = <<>> /\ t.finished = <<"Primary">>
    /\ ~t.available /\ t.prefixes = <<>> /\ ~t.rebuild

\* What both have in common.
LEMMA FirstIsScanned ==
    ASSUME NEW s, NEW t, NEW q, NEW st, NEW ev, NEW ew, NEW ex, NEW sc, NEW rep, NEW dk,
           Core(s, q, st, ev, ex, sc, rep, dk), Later(ev, ew), ev[1].kind = "finished",
           s.lease = NoGeneration, FirstScanned(s, t),
           t.finished # <<"RebuildCancelled">>
    PROVE  /\ s.primaryScan /\ ~s.loaded /\ ~s.active /\ s.publications = <<>> /\ s.finished = <<>>
           /\ s.latest = 0 /\ s.installed = NoMap /\ sc.gen = NoGeneration
           /\ Scanned(s) /\ Working(s) /\ Working(t) /\ JobGen(s) = 0 /\ JobGen(t) = 0
           /\ \A x : ~ToBeTold(s, ev, sc, x)
           /\ Job(t, ew, sc) /\ Cancelled(t, ew, ex, sc) /\ Shown(t, rep, dk) /\ NoCancel(q)
           /\ Regular(s, q, st, ev, sc, rep, dk) /\ NoPub(q)
<1>1. /\ Gens(s, q, st, ev) /\ Phase(s) /\ Job(s, ev, sc) /\ Flags(s, ex, dk)
      /\ Cancelled(s, ev, ex, sc) /\ Cancellation(s, q, ev, ex, sc)
      /\ Shown(s, rep, dk) /\ Mode(s, q, st, ev, ex, sc, rep, dk)
    BY DEF Core, Nearly
<1>2. /\ Scanned(s) /\ s.finished = <<>> /\ sc.gen = NoGeneration
      /\ \A i \in 1..Len(ew) : ew[i].kind # "batch" /\ ew[i].kind # "finished"
      /\ \A x : ~ToBeTold(s, ev, sc, x)
    BY <1>1, ScanIsOver
<1>3. ~s.active /\ s.primaryScan
    BY <1>1, <1>2 DEF Phase, Scanned
<1>4. ~s.loaded /\ s.publications = <<>> /\ s.latest = 0 /\ s.installed = NoMap
  <2>1. ~s.loaded /\ s.publications = <<>>
    BY <1>1, <1>3 DEF Phase
  <2>2. s.latest = 0 /\ (s.installed = NoMap \/ s.finished = <<"Primary">>)
    BY <1>1, <2>1 DEF Phase
  <2>3. QED
    BY <2>1, <2>2, <1>2, Distinct
<1>5. Working(s) /\ Working(t) /\ JobGen(s) = 0 /\ JobGen(t) = 0
    BY <1>4 DEF Working, JobGen, FirstScanned
<1>6. Job(t, ew, sc)
    BY <1>2 DEF Job, IsBatch
<1>7. Cancelled(t, ew, ex, sc)
    BY <1>2 DEF Cancelled, CancelledJob
<1>8. Shown(t, rep, dk)
    BY <1>1 DEF Shown, FirstScanned, SameMap
<1>9. NoCancel(q)
    BY <1>1, <1>3, <1>4 DEF Cancellation, CancelSent, GivenUp, NoCancel
<1>10. Regular(s, q, st, ev, sc, rep, dk)
    BY <1>1, <1>3, <1>4 DEF Mode, GivenUp, Doomed
<1>11. NoPub(q)
    BY <1>10, <1>4 DEF Regular, Order
<1>12. QED
    BY <1>2, <1>3, <1>4, <1>5, <1>6, <1>7, <1>8, <1>9, <1>10, <1>11

\* The first scan is over and its map is asked for.
LEMMA CorePublishesFirst ==
    ASSUME NEW s, NEW t, NEW q, NEW p, NEW st, NEW ev, NEW ew, NEW ex, NEW sc, NEW rep, NEW dk,
           Core(s, q, st, ev, ex, sc, rep, dk), Later(ev, ew), ev[1].kind = "finished",
           s.lease = NoGeneration, FirstPublishes(s, t), s.available,
           Gains(q, p, Command("Publish"))
    PROVE  Core(t, p, st, ew, ex, sc, rep, dk)
<1>0. t.finished = <<>> /\ t.publications = <<"Primary">> /\ FirstScanned(s, t)
      /\ t.finished # <<"RebuildCancelled">> /\ t.finished # <<"Primary">>
      /\ t.publications # <<>> /\ t.publications # <<"Overlay">> /\ ~OverlayIsHead(t)
    BY Distinct DEF FirstPublishes, OverlayIsHead
<1>1. /\ s.primaryScan /\ ~s.loaded /\ ~s.active /\ s.publications = <<>> /\ s.finished = <<>>
      /\ s.latest = 0 /\ s.installed = NoMap
      /\ Scanned(s) /\ Working(s) /\ Working(t) /\ JobGen(s) = 0 /\ JobGen(t) = 0
      /\ \A x : ~ToBeTold(s, ev, sc, x)
      /\ Job(t, ew, sc) /\ Cancelled(t, ew, ex, sc) /\ Shown(t, rep, dk) /\ NoCancel(q)
      /\ Regular(s, q, st, ev, sc, rep, dk) /\ NoPub(q)
    BY <1>0, FirstIsScanned
<1>2. /\ ~t.primaryScan /\ ~t.loaded /\ ~t.active /\ t.latest = 0 /\ t.installed = NoMap
      /\ t.lease = s.lease /\ t.epoch = s.epoch /\ t.hidden = s.hidden
      /\ t.required = s.required /\ t.available = s.available
      /\ t.prefixes = s.prefixes /\ t.rebuild = s.rebuild
    BY <1>1 DEF FirstPublishes, FirstScanned, SameMap
<1>3. Gens(t, p, st, ew)
    BY <1>1, <1>2, PublishGens DEF Core, Nearly
<1>4. Phase(t)
    BY <1>0, <1>2 DEF Phase, Sound
<1>5. Flags(t, ex, dk) /\ Cleared(t)
    BY <1>0, <1>1, <1>2 DEF Core, Nearly, Flags, Cleared, Period
<1>6. Cancellation(t, p, ew, ex, sc)
  <2>1. NoCancel(p)
    <3>1. ~Cancels(Command("Publish"))
        BY PlainTyped DEF Cancels
    <3>2. QED
        BY <3>1, <1>1, GainsFacts DEF NoCancel, Cancels
  <2>2. QED
    BY <2>1 DEF Cancellation, NoCancel
<1>7. Order(t, p, st, dk) /\ Pipeline(t, p, st, ew, sc, dk)
  <2>1. ~Scanned(t)
    BY <1>0, <1>2 DEF Scanned
  <2>2. JobGen(t) = JobGen(s) /\ t.active = s.active /\ t.loaded = s.loaded
    BY <1>1 DEF FirstPublishes, FirstScanned
  <2>3. Order(s, q, st, dk) /\ Pipeline(s, q, st, ev, sc, dk)
    BY <1>1 DEF Regular
  <2>4. QED
    BY <2>1, <2>2, <2>3, <1>0, <1>1, <1>2, PublishGains
<1>8. HiddenFirst(t, p, st, ew, rep)
    BY <1>1, <1>2, PublishLists DEF Regular, HiddenFirst
<1>9. Regular(t, p, st, ew, sc, rep, dk)
    BY <1>2, <1>7, <1>8 DEF Regular, Doomed, Sound, HiddenRebuild, Rebuilt, RebuildShrinks
<1>10. HiddenOverlay(t, p, rep)
    BY <1>0, <1>2 DEF HiddenOverlay
<1>11. QED
    BY <1>1, <1>3, <1>4, <1>5, <1>6, <1>9, <1>10 DEF Core, Nearly, Mode

\* The first scan is over and there is no store to ask.
LEMMA CoreLosesFirst ==
    ASSUME NEW s, NEW t, NEW q, NEW st, NEW ev, NEW ew, NEW ex, NEW sc, NEW rep, NEW dk,
           Core(s, q, st, ev, ex, sc, rep, dk), Later(ev, ew), ev[1].kind = "finished",
           s.lease = NoGeneration, FirstIsLost(s, t)
    PROVE  Core(t, q, st, ew, ex, sc, rep, dk) /\ s.installed = NoMap
<1>0. t.finished = <<"Primary">> /\ t.publications = <<>> /\ FirstScanned(s, t)
      /\ t.finished # <<"RebuildCancelled">> /\ t.finished # <<>> /\ ~OverlayIsHead(t)
    BY Distinct DEF FirstIsLost, OverlayIsHead
<1>1. /\ s.primaryScan /\ ~s.loaded /\ ~s.active /\ s.publications = <<>> /\ s.finished = <<>>
      /\ s.latest = 0 /\ s.installed = NoMap
      /\ Scanned(s) /\ Working(s) /\ Working(t) /\ JobGen(s) = 0 /\ JobGen(t) = 0
      /\ Job(t, ew, sc) /\ Cancelled(t, ew, ex, sc) /\ Shown(t, rep, dk) /\ NoCancel(q)
      /\ Regular(s, q, st, ev, sc, rep, dk) /\ NoPub(q)
    BY <1>0, FirstIsScanned
<1>2. /\ ~t.primaryScan /\ ~t.loaded /\ ~t.active /\ t.latest = 0 /\ t.installed = NoMap
      /\ t.lease = s.lease /\ t.epoch = s.epoch /\ t.hidden = s.hidden /\ t.latest = s.latest
      /\ t.required = s.required /\ ~t.available /\ t.installed = s.installed
      /\ t.prefixes = <<>> /\ ~t.rebuild
    BY <1>1 DEF FirstIsLost, FirstScanned, SameMap
<1>3. Gens(t, q, st, ew)
  <2>1. Gens(s, q, st, ev)
    BY DEF Core, Nearly
  <2>2. EventGens(t, ew)
    BY <2>1, <1>2, LaterFacts DEF Gens, EventGens
  <2>3. QED
    BY <2>1, <2>2, <1>2 DEF Gens, StoreGens, Dated
<1>4. Phase(t)
    BY <1>0, <1>1, <1>2 DEF Phase, Sound, Core, Nearly
<1>5. Flags(t, ex, dk) /\ Cleared(t)
    BY <1>0, <1>1, <1>2, EmptySet DEF Flags, Cleared, Period
<1>6. Cancellation(t, q, ew, ex, sc)
    BY <1>1 DEF Cancellation, NoCancel
<1>7. Order(t, q, st, dk)
  <2>1. \A i \in 1..Len(q) : ~IsMap(q[i]) /\ q[i].kind \notin {"Overlay", "Publish"}
    BY <1>1 DEF NoPub, IsPub, IsMap
  <2>2. \A i \in 1..Len(q) : ~Begins(q[i])
    BY <1>1 DEF Regular, Order, Carries
  <2>3. \A i \in 1..Len(q) : Carries(t, q[i], dk)
    BY <2>1, <2>2 DEF Carries
  <2>4. QED
    BY <2>3, <1>1, <1>2 DEF Regular, Order, Begun, Sound
<1>8. Pipeline(t, q, st, ew, sc, dk)
  <2>1. ~Scanned(t)
    BY <1>0 DEF Scanned
  <2>2. \A i \in 1..Len(q) : q[i].kind # "Publish"
    BY <1>1 DEF NoPub, IsPub
  <2>3. Admits(t, q)
    BY <1>1 DEF Regular, Pipeline, Admits
  <2>4. QED
    BY <2>1, <2>2, <2>3 DEF Pipeline, Delivered
<1>9. Regular(t, q, st, ew, sc, rep, dk)
    BY <1>0, <1>2, <1>7, <1>8 DEF Regular, Doomed, Sound, HiddenFirst, HiddenRebuild, Rebuilt, RebuildShrinks
<1>10. HiddenOverlay(t, q, rep)
    BY <1>2 DEF HiddenOverlay
<1>11. QED
    BY <1>1, <1>3, <1>4, <1>5, <1>6, <1>9, <1>10 DEF Core, Nearly, Mode

\* A second element.
LEMMA AppendPair ==
    ASSUME NEW S, NEW x \in S, NEW y \in S
    PROVE  Append(<<x>>, y) = <<x, y>>
<1> DEFINE a == <<x>>
<1>1. a \in Seq(S) /\ Len(a) = 1 /\ a[1] = x
    OBVIOUS
<1> HIDE DEF a
<1> DEFINE b == Append(a, y)
<1> HIDE DEF b
<1>2. /\ b \in Seq(S) /\ Len(b) = Len(a) + 1
      /\ \A i \in 1..Len(a) : b[i] = a[i]
      /\ b[Len(a) + 1] = y
  <2>1. \A c \in Seq(S), d \in S :
          /\ Append(c, d) \in Seq(S) /\ Len(Append(c, d)) = Len(c) + 1
          /\ \A i \in 1..Len(c) : Append(c, d)[i] = c[i]
          /\ Append(c, d)[Len(c) + 1] = d
    BY AppendProperties
  <2>2. QED
    BY <2>1, <1>1 DEF b
<1>3. b \in Seq(S) /\ Len(b) = 2 /\ b[1] = x /\ b[2] = y
    BY <1>1, <1>2
<1>4. b = <<x, y>>
    BY <1>3
<1>5. QED
    BY <1>4 DEF a, b

\* The scan of a rebuild is over, and ends it.
RebuildEnded(s, t, how) ==
    /\ SameJob(s, t) /\ SameFlags(s, t) /\ SameMap(s, t)
    /\ t.publications = s.publications /\ t.finished = <<how>>

\* A rebuild's scan is over and its publication asked for, or it has failed.
LEMMA CoreFinishes ==
    ASSUME NEW s, NEW t, NEW q, NEW st, NEW ev, NEW ew, NEW ex, NEW sc, NEW rep, NEW dk,
           Core(s, q, st, ev, ex, sc, rep, dk), Later(ev, ew), ev[1].kind = "finished",
           s.active, NEW how \in RebuildEnds, RebuildEnded(s, t, how),
           how = "Rebuild" => s.invalidated,
           how = "RebuildCancelled" => ev[1].cancelled \/ s.suppressed
    PROVE  Core(t, q, st, ew, ex, sc, rep, dk)
<1>1. /\ Gens(s, q, st, ev) /\ Phase(s) /\ Job(s, ev, sc) /\ Flags(s, ex, dk)
      /\ Cancelled(s, ev, ex, sc) /\ Cancellation(s, q, ev, ex, sc)
      /\ Shown(s, rep, dk) /\ Mode(s, q, st, ev, ex, sc, rep, dk)
      /\ Cleared(s) /\ HiddenOverlay(s, q, rep)
    BY DEF Core, Nearly
<1>2. /\ Scanned(s) /\ s.finished = <<>> /\ sc.gen = NoGeneration
      /\ \A i \in 1..Len(ew) : ew[i].kind # "batch" /\ ew[i].kind # "finished"
    BY <1>1, ScanIsOver
<1>3. /\ t.primaryScan = s.primaryScan /\ t.lease = s.lease /\ t.loaded = s.loaded
      /\ t.latest = s.latest /\ t.epoch = s.epoch /\ t.active = s.active
      /\ t.available = s.available /\ t.required = s.required
      /\ t.invalidated = s.invalidated /\ t.suppressed = s.suppressed
      /\ t.prefixes = s.prefixes /\ t.rebuild = s.rebuild
      /\ t.installed = s.installed /\ t.hidden = s.hidden
      /\ t.publications = s.publications /\ t.finished = <<how>>
    BY DEF RebuildEnded, SameJob, SameFlags, SameMap
<1>4. t.finished # <<>> /\ t.finished # <<"Primary">> /\ s.finished # <<"Primary">>
      /\ (t.finished = <<"Rebuild">> => how = "Rebuild")
      /\ (t.finished = <<"RebuildCancelled">> => how = "RebuildCancelled")
      /\ t.finished \in {<<"Rebuild">>, <<"RebuildFailed">>, <<"RebuildCancelled">>}
    BY <1>2, <1>3, Distinct DEF RebuildEnds
<1>l. s.loaded /\ ~s.primaryScan /\ s.publications \in {<<>>, <<"Overlay">>} /\ Period(s)
    BY <1>1, <1>2 DEF Phase, Scanned, Period
<1>5. Gens(t, q, st, ew)
  <2>1. EventGens(t, ew)
    BY <1>1, <1>3, LaterFacts DEF Gens, EventGens
  <2>2. QED
    BY <2>1, <1>1, <1>3 DEF Gens, StoreGens, Dated
<1>6. Phase(t)
    BY <1>1, <1>3, <1>4, <1>l DEF Phase, OverlayIsHead, Sound
<1>7. Job(t, ew, sc)
    BY <1>2 DEF Job, IsBatch
<1>8. Flags(t, ex, dk) /\ Cleared(t) /\ Shown(t, rep, dk)
    BY <1>1, <1>3, <1>l DEF Flags, Cleared, Shown, Period, OverlayIsHead
<1>c. CancelledJob(t, ew, sc) => how = "RebuildCancelled"
    BY <1>2, <1>4 DEF CancelledJob
<1>d. ev[1].cancelled => CancelledJob(s, ev, sc)
    BY LaterFacts DEF CancelledJob
<1>9. Cancelled(t, ew, ex, sc)
    BY <1>1, <1>3, <1>c, <1>d DEF Cancelled
<1>g. GivenUp(s, ev, ex, sc) => GivenUp(t, ew, ex, sc)
    BY <1>3, <1>c, <1>d DEF GivenUp
<1>10. Cancellation(t, q, ew, ex, sc)
    BY <1>1, <1>3, <1>4, <1>c, <1>d, <1>g DEF Cancellation, CancelSent
<1>11. Doomed(s) /\ DoomedOrder(s, q, st, dk) => Doomed(t) /\ DoomedOrder(t, q, st, dk)
    BY <1>3 DEF Doomed, DoomedOrder, DoomedItem, OverlayIsHead, Based, Follows
<1>12. Regular(s, q, st, ev, sc, rep, dk) => Regular(t, q, st, ew, sc, rep, dk)
  <2>1. SUFFICES ASSUME Regular(s, q, st, ev, sc, rep, dk)
                 PROVE  Regular(t, q, st, ew, sc, rep, dk)
    OBVIOUS
  <2>2. ~Doomed(t) /\ Order(t, q, st, dk)
    BY <2>1, <1>3 DEF Regular, Doomed, Sound, Order, Begun, Carries, Based, Follows
  <2>3. ~Scanned(t) /\ JobGen(t) = JobGen(s) /\ Working(t) = Working(s)
    BY <1>3, <1>4 DEF Scanned, JobGen, Working, Sound
  <2>4. Pipeline(t, q, st, ew, sc, dk)
    <3>1. \A x : InPipe(s, q, st, x) => InPipe(t, q, st, x)
        BY <2>3 DEF InPipe, StoreLost
    <3>2. Admits(s, q) => Admits(t, q)
        BY <2>3 DEF Admits
    <3>3. Delivered(s, q, st, ev, sc, dk) => Delivered(t, q, st, ew, sc, dk)
        BY <2>3, <3>1 DEF Delivered
    <3>4. QED
        BY <2>1, <2>3, <3>2, <3>3 DEF Regular, Pipeline
  <2>5. HiddenFirst(t, q, st, ew, rep) /\ RebuildShrinks(t, q, st, ew)
    BY <1>4 DEF HiddenFirst, RebuildShrinks
  <2>6. HiddenRebuild(t, q, st, ew, rep)
    BY <2>1, <1>3, LaterLists DEF Regular, HiddenRebuild, Sound
  <2>7. Rebuilt(t, rep)
    BY <1>3, <1>4 DEF Rebuilt
  <2>8. QED
    BY <2>2, <2>4, <2>5, <2>6, <2>7 DEF Regular
<1>13. Mode(t, q, st, ew, ex, sc, rep, dk)
    BY <1>1, <1>g, <1>11, <1>12 DEF Mode
<1>14. HiddenOverlay(t, q, rep)
    BY <1>3, <1>l DEF HiddenOverlay, Period
<1>15. QED
    BY <1>5, <1>6, <1>7, <1>8, <1>9, <1>10, <1>13, <1>14 DEF Core, Nearly

\* The scan of a rebuild is over, and is published.
LEMMA CorePublishesRebuild ==
    ASSUME NEW s, NEW t, NEW q, NEW p, NEW st, NEW ev, NEW ew, NEW ex, NEW sc, NEW rep, NEW dk,
           Core(s, q, st, ev, ex, sc, rep, dk), Later(ev, ew), ev[1].kind = "finished",
           s.active, s.available, ~s.invalidated, ~s.suppressed, st.running,
           Publishes(s, t, "Rebuild"), Gains(q, p, Command("Publish"))
    PROVE  Core(t, p, st, ew, ex, sc, rep, dk)
<1>1. /\ Gens(s, q, st, ev) /\ Phase(s) /\ Job(s, ev, sc) /\ Flags(s, ex, dk)
      /\ Cancelled(s, ev, ex, sc) /\ Cancellation(s, q, ev, ex, sc)
      /\ Shown(s, rep, dk) /\ Mode(s, q, st, ev, ex, sc, rep, dk)
      /\ Cleared(s) /\ HiddenOverlay(s, q, rep)
    BY DEF Core, Nearly
<1>2. /\ Scanned(s) /\ s.finished = <<>> /\ sc.gen = NoGeneration
      /\ \A i \in 1..Len(ew) : ew[i].kind # "batch" /\ ew[i].kind # "finished"
      /\ \A x : ~ToBeTold(s, ev, sc, x)
    BY <1>1, ScanIsOver
<1>3. /\ t.primaryScan = s.primaryScan /\ t.lease = s.lease /\ t.loaded = s.loaded
      /\ t.latest = s.latest /\ t.epoch = s.epoch /\ t.active = s.active
      /\ t.available = s.available /\ t.required = s.required
      /\ t.invalidated = s.invalidated /\ t.suppressed = s.suppressed
      /\ t.prefixes = s.prefixes /\ t.rebuild = s.rebuild
      /\ t.installed = s.installed /\ t.hidden = s.hidden
      /\ t.publications = Append(s.publications, "Rebuild") /\ t.finished = <<>>
    BY <1>2 DEF Publishes, SameJob, SameFlags, SameMap
<1>l. s.loaded /\ ~s.primaryScan /\ s.publications \in {<<>>, <<"Overlay">>} /\ Period(s)
    BY <1>1, <1>2 DEF Phase, Scanned, Period
<1>d. /\ Append(<<>>, "Rebuild") = <<"Rebuild">>
      /\ Append(<<"Overlay">>, "Rebuild") = <<"Overlay", "Rebuild">>
  <2>1. \A x : Append(<<>>, x) = <<x>>
    OBVIOUS
  <2>2. "Overlay" \in Kinds /\ "Rebuild" \in Kinds
    BY DEF Kinds
  <2>3. QED
    BY <2>1, <2>2, AppendPair
<1>4. /\ \/ s.publications = <<>> /\ t.publications = <<"Rebuild">>
         \/ s.publications = <<"Overlay">> /\ t.publications = <<"Overlay", "Rebuild">>
      /\ t.publications # <<>> /\ t.publications # <<"Overlay">>
      /\ OverlayIsHead(t) <=> s.publications = <<"Overlay">>
      /\ OverlayIsHead(s) <=> s.publications = <<"Overlay">>
  <2>1. CASE s.publications = <<>>
    BY <2>1, <1>3, <1>d, Distinct DEF OverlayIsHead
  <2>2. CASE s.publications = <<"Overlay">>
    BY <2>2, <1>3, <1>d, Distinct DEF OverlayIsHead
  <2>3. QED
    BY <2>1, <2>2, <1>l
<1>s. Sound(s) => s.publications = <<>>
  <2>1. <<"Overlay">> # <<>> /\ <<"Overlay">> # <<"Rebuild">>
    BY Distinct
  <2>2. QED
    BY <2>1, <1>1, <1>l DEF Phase
<1>f. /\ t.finished # <<"Primary">> /\ t.finished # <<"RebuildCancelled">> /\ t.finished # <<"Rebuild">>
    BY <1>3, Distinct
<1>5. Gens(t, p, st, ew)
    BY <1>1, <1>3, PublishGens
<1>6. Phase(t)
    BY <1>1, <1>3, <1>4, <1>s, <1>l, <1>f DEF Phase, Sound
<1>7. Job(t, ew, sc)
    BY <1>2 DEF Job, IsBatch
<1>8. Flags(t, ex, dk) /\ Cleared(t) /\ Shown(t, rep, dk)
    BY <1>1, <1>3, <1>4, <1>l DEF Flags, Cleared, Shown, Period
<1>c. ~CancelledJob(t, ew, sc)
    BY <1>2, <1>f DEF CancelledJob
<1>9. Cancelled(t, ew, ex, sc)
    BY <1>c DEF Cancelled
<1> DEFINE c == Command("Publish")
<1>k. c.kind = "Publish" /\ ~Begins(c) /\ ~Cancels(c) /\ ~IsMap(c) /\ IsPub(c)
    BY PlainTyped DEF Begins, Cancels, IsMap, IsPub
<1> HIDE DEF c
<1>p. /\ Len(q) \in Nat /\ Len(p) \in Nat /\ Len(q) < Len(p)
      /\ Len(p) \in 1..Len(p) /\ p[Len(p)] = c
      /\ \A i \in 1..Len(q) : i \in 1..Len(p) /\ p[i] = q[i] /\ i < Len(p)
      /\ \A i \in 1..Len(p) :
            \/ i \in 1..Len(q) /\ p[i] = q[i]
            \/ i = Len(p) /\ p[i] = c
            \/ p[i].kind = "Notes"
    BY GainsFacts DEF c
<1>10. Cancellation(t, p, ew, ex, sc)
  <2>1. SUFFICES ASSUME NEW i \in 1..Len(p), Cancels(p[i]) PROVE CancelSent(t, ew, ex, sc)
    BY DEF Cancellation
  <2>2. i \in 1..Len(q) /\ Cancels(q[i])
    BY <2>1, <1>p, <1>k DEF Cancels
  <2>3. CancelSent(s, ev, ex, sc)
    BY <2>2, <1>1 DEF Cancellation
  <2>4. ex = NoEntry /\ s.publications \in {<<>>, <<"Rebuild">>}
    BY <2>3 DEF CancelSent, GivenUp
  <2>5. s.publications = <<>>
    BY <2>4, <1>l, Distinct
  <2>6. t.publications = <<"Rebuild">>
    BY <2>5, <1>3, <1>d
  <2>7. QED
    BY <2>4, <2>6, <1>3, <1>c, <1>f DEF CancelSent
<1>11. ASSUME Doomed(s), DoomedOrder(s, q, st, dk)
       PROVE  Doomed(t) /\ DoomedOrder(t, p, st, dk)
  <2>1. Doomed(t)
    BY <1>11, <1>3 DEF Doomed
  <2>2. ASSUME OverlayIsHead(t)
        PROVE  ~NoPub(p) /\ \A i \in 1..Len(p) : DoomedItem(t, p, i, dk)
    <3>1. ~NoPub(q) /\ \A i \in 1..Len(q) : DoomedItem(s, q, i, dk)
        BY <2>2, <1>4, <1>11 DEF DoomedOrder
    <3>2. ~NoPub(p)
        BY <3>1, <1>p DEF NoPub
    <3>3. \A i \in 1..Len(q) : \A j \in 1..(i - 1) : j \in 1..Len(q)
        BY <1>p
    <3>4. \A i \in 1..Len(q) : First(p, i) <=> First(q, i)
        BY <3>3, <1>p DEF First
    <3>5. ~First(p, Len(p))
        <4>1. PICK i \in 1..Len(q) : IsPub(q[i])
            BY <3>1 DEF NoPub
        <4>2. i \in 1..(Len(p) - 1) /\ IsPub(p[i])
            BY <4>1, <1>p
        <4>3. QED
            BY <4>2 DEF First
    <3>6. \A i \in 1..Len(q) : DoomedItem(t, p, i, dk)
        BY <3>1, <3>4, <1>p, <1>3 DEF DoomedItem, Based, Follows
    <3>7. DoomedItem(t, p, Len(p), dk)
        BY <3>5, <1>p, <1>k DEF DoomedItem
    <3>8. \A i \in 1..Len(p) : p[i].kind = "Notes" => DoomedItem(t, p, i, dk)
        BY DEF DoomedItem, IsMap
    <3>9. QED
        BY <3>2, <3>6, <3>7, <3>8, <1>p
  <2>3. QED
    BY <2>1, <2>2 DEF DoomedOrder
<1>12. ASSUME Regular(s, q, st, ev, sc, rep, dk)
       PROVE  Regular(t, p, st, ew, sc, rep, dk)
  <2>1. Sound(s) /\ Sound(t) /\ ~Doomed(t)
    BY <1>12, <1>3 DEF Regular, Doomed, Sound
  <2>2. NoPub(q)
    BY <2>1, <1>12, <1>s DEF Regular, Order
  <2>3. ~Scanned(t) /\ JobGen(t) = JobGen(s) /\ Working(t) /\ Working(s)
    BY <2>1, <1>3, <1>4 DEF Scanned, JobGen, Working
  <2>4. Order(t, p, st, dk) /\ Pipeline(t, p, st, ew, sc, dk)
    <3>1. Order(s, q, st, dk) /\ Pipeline(s, q, st, ev, sc, dk)
        BY <1>12 DEF Regular
    <3>2. QED
        BY <3>1, <2>2, <2>3, <1>2, <1>3, <1>4, PublishGains
  <2>5. HiddenFirst(t, p, st, ew, rep)
    BY <1>3, <1>l DEF HiddenFirst
  <2>6. HiddenRebuild(t, p, st, ew, rep) /\ RebuildShrinks(t, p, st, ew)
    BY <1>12, <1>2, <1>3, <2>1, PublishLists DEF Regular, HiddenRebuild, RebuildShrinks
  <2>7. Rebuilt(t, rep)
    BY <1>12, <1>2, <1>3, <2>1 DEF Regular, Rebuilt
  <2>8. QED
    BY <2>1, <2>4, <2>5, <2>6, <2>7 DEF Regular
<1>13. Mode(t, p, st, ew, ex, sc, rep, dk)
  <2>1. ~GivenUp(s, ev, ex, sc)
    BY DEF GivenUp
  <2>2. QED
    BY <2>1, <1>1, <1>11, <1>12 DEF Mode
<1>14. HiddenOverlay(t, p, rep)
    BY <1>3, <1>l DEF HiddenOverlay, Period
<1>15. QED
    BY <1>5, <1>6, <1>7, <1>8, <1>9, <1>10, <1>13, <1>14 DEF Core, Nearly

-----------------------------------------------------------------------------
Unscanned(s) == [s EXCEPT !.primaryScan = No]

\* The first scan is under way no more.
LEMMA UnscannedEffect ==
    ASSUME NEW s \in Own
    PROVE  LET u == Unscanned(s)
           IN  /\ u \in Own /\ SamePublications(s, u) /\ SameFlags(s, u) /\ SameMap(s, u)
               /\ ~u.primaryScan /\ u.lease = s.lease /\ u.loaded = s.loaded
               /\ u.latest = s.latest /\ u.epoch = s.epoch /\ u.active = s.active
               /\ u.excused = s.excused /\ u.sent = s.sent
<1>1. Unscanned(s) \in Own /\ Unscanned(s).primaryScan = No
    BY YesNo, ZenonT(60) DEF Unscanned, Own
<1>2. ~Unscanned(s).primaryScan
    BY <1>1, YesNo
<1>3. LET u == Unscanned(s)
      IN  /\ SamePublications(s, u) /\ SameFlags(s, u) /\ SameMap(s, u)
          /\ u.lease = s.lease /\ u.loaded = s.loaded
          /\ u.latest = s.latest /\ u.epoch = s.epoch /\ u.active = s.active
          /\ u.excused = s.excused /\ u.sent = s.sent
    BY DEF Unscanned, Own, SamePublications, SameFlags, SameMap
<1>4. QED
    BY <1>1, <1>2, <1>3

\* A first element.
LEMMA AppendOne == \A x : Append(<<>>, x) = <<x>>
    OBVIOUS

\* finish_primary_scan.
LEMMA FirstScanStep ==
    ASSUME NEW s \in Own, NEW r \in Seq(Messages), Typed, NEW ev, NEW ew, NEW ex, NEW sc,
           NEW rep, NEW dk,
           Core(s, Fly(r, s), store, ev, ex, sc, rep, dk), Later(ev, ew),
           ev[1].kind = "finished", s.lease = NoGeneration, ~s.ended
    PROVE  LET t == BeginPrimaryPublication(Unscanned(s))
           IN  Arrives(s, t, Fly(r, t), ew, ex, sc, rep, dk)
<1> DEFINE u == Unscanned(s)
           t == BeginPrimaryPublication(u)
           q == Fly(r, s)
<1>1. /\ u \in Own /\ SamePublications(s, u) /\ SameFlags(s, u) /\ SameMap(s, u)
      /\ ~u.primaryScan /\ u.lease = s.lease /\ u.loaded = s.loaded
      /\ u.latest = s.latest /\ u.epoch = s.epoch /\ u.active = s.active
      /\ u.excused = s.excused /\ Fly(r, u) = q
    BY UnscannedEffect DEF Fly
<1>c. Core(s, q, store, ev, ex, sc, rep, dk)
    OBVIOUS
<1> HIDE DEF u, q
<1>k. "Primary" \in Kinds /\ "Primary" \in Ends
    BY DEF Kinds, Ends
<1>n. s.latest \in Nat
    BY DEF Own
<1>f. s.finished = <<>> /\ s.publications = <<>>
  <2>1. /\ Phase(s) /\ Job(s, ev, sc)
    BY <1>c DEF Core, Nearly
  <2>2. Scanned(s) /\ s.finished = <<>>
    BY <2>1, ScanIsOver
  <2>3. QED
    BY <2>1, <2>2 DEF Phase, Scanned
<1>2. CASE BeginsPublication(u)
  <2> DEFINE b == BeginPublication(u, "Primary")
             p == Fly(r, b)
  <2>0. t = b
    BY <1>2 DEF BeginPrimaryPublication
  <2>1. b \in Own /\ Publishes(u, b, "Primary") /\ Gains(q, p, Command("Publish"))
    BY <1>1, <1>2, <1>k, BeginPublicationEffect DEF PublicationBegins
  <2> HIDE DEF b, p, t
  <2>2. u.available
    BY <1>2 DEF BeginsPublication
  <2>3. FirstPublishes(s, b)
    BY <2>1, <1>1, <1>f, AppendOne DEF FirstPublishes, FirstScanned, Publishes, SameJob, SameFlags,
             SameMap, SamePublications
  <2>4. Core(b, p, store, ew, ex, sc, rep, dk)
    BY <2>1, <2>2, <2>3, <1>1, <1>c, CorePublishesFirst DEF SameFlags
  <2>5. /\ b.finished = <<>> /\ b.latest = s.latest /\ b.lease = s.lease /\ b.ended = s.ended
        /\ b.installed = s.installed /\ b.excused = s.excused
        /\ b.loaded = s.loaded /\ b.active = s.active /\ SameFlags(s, b)
    BY <2>1, <1>1, <1>f DEF Publishes, SameJob, SameFlags, SameMap, SamePublications
  <2>6. OwesNoMore(s, b) /\ Advances(s, b) /\ AtEase(b) /\ ScanOf(s, b, sc) = sc
    BY <2>5, <1>f, Distinct DEF OwesNoMore, Owes, Period, SameFlags, Advances, AtEase, ScanOf
  <2>7. Arrives(s, b, p, ew, ex, sc, rep, dk)
    BY <2>1, <2>4, <2>5, <2>6, <1>n DEF Arrives
  <2>8. QED
    BY <2>0, <2>7 DEF t, u, p
<1>3. CASE ~BeginsPublication(u)
  <2> DEFINE b == BeginPublication(u, "Primary")
             c == SettleRemovals(b)
             d == Finish(c, "Primary")
  <2>0. t = d
    BY <1>3 DEF BeginPrimaryPublication
  <2>1. b \in Own /\ Keeps(u, b) /\ ~b.available /\ Quiet(q, Fly(r, b))
    BY <1>1, <1>3, <1>k, BeginPublicationEffect DEF PublicationBegins
  <2> HIDE DEF b, t
  <2>2. c \in Own /\ RemovalsSettle(b, c) /\ Quiet(Fly(r, b), Fly(r, c))
    BY <2>1, SettleRemovalsEffect
  <2> HIDE DEF c
  <2>3. /\ d \in Own /\ SameJob(c, d) /\ SameFlags(c, d) /\ SameMap(c, d)
        /\ d.publications = c.publications /\ d.finished = Append(c.finished, "Primary")
        /\ d.sent = c.sent
    BY <2>2, <1>k, FinishEffect
  <2> HIDE DEF d
  <2>4. /\ SameJob(b, c) /\ SamePublications(b, c) /\ SameMap(b, c)
        /\ c.available = b.available /\ c.required = b.required
        /\ c.prefixes = <<>> /\ ~c.rebuild
    BY <2>1, <2>2 DEF RemovalsSettle, NoRemovals, SameJob, SamePublications, SameMap
  <2>5. FirstIsLost(s, d)
    BY <2>1, <2>3, <2>4, <1>1, <1>f, AppendOne DEF FirstIsLost, FirstScanned, Keeps, Fails, SameJob,
             SameFlags, SameMap, SamePublications
  <2>6. Core(d, q, store, ew, ex, sc, rep, dk) /\ s.installed = NoMap
    BY <2>5, <1>c, CoreLosesFirst
  <2>7. Core(d, Fly(r, d), store, ew, ex, sc, rep, dk)
    <3>1. Fly(r, d) = Fly(r, c)
        BY <2>3 DEF Fly
    <3>2. Core(d, Fly(r, b), store, ew, ex, sc, rep, dk)
        BY <2>6, <2>1, CoreQuiet
    <3>3. Core(d, Fly(r, c), store, ew, ex, sc, rep, dk)
        BY <3>2, <2>2, CoreQuiet
    <3>4. QED
        BY <3>1, <3>3
  <2>8. /\ d.finished = <<"Primary">> /\ ~d.available /\ d.installed = s.installed
        /\ d.latest = s.latest /\ d.lease = s.lease /\ d.ended = s.ended
    BY <2>5 DEF FirstIsLost, FirstScanned, SameMap
  <2>9. OwesNoMore(s, d) /\ Advances(s, d) /\ AtEase(d) /\ ScanOf(s, d, sc) = sc
    BY <2>6, <2>8, Distinct DEF OwesNoMore, Owes, Advances, AtEase, ScanOf
  <2>10. Arrives(s, d, Fly(r, d), ew, ex, sc, rep, dk)
    BY <2>3, <2>7, <2>8, <2>9, <1>n DEF Arrives
  <2>11. QED
    BY <2>0, <2>10 DEF t, u
<1>4. QED
    BY <1>2, <1>3

\* What ends a rebuild when its scan is over.
LEMMA EndStep ==
    ASSUME NEW o \in Own, NEW s \in Own, NEW r \in Seq(Messages), NEW ev, NEW ew, NEW ex, NEW sc,
           NEW rep, NEW dk,
           Core(s, Fly(r, s), store, ev, ex, sc, rep, dk), Later(ev, ew),
           ev[1].kind = "finished", s.active, NEW how \in RebuildEnds,
           how = "Rebuild" => s.invalidated,
           how = "RebuildCancelled" => ev[1].cancelled \/ s.suppressed,
           Stays(o, s), Advances(o, s)
    PROVE  LET z == Finish(s, how)
           IN  /\ z \in Own /\ z.finished = <<how>> /\ Emptied(z) = s /\ z.invalidated = s.invalidated
               /\ Core(z, Fly(r, z), store, ew, ex, sc, rep, dk)
               /\ OwesNoMore(o, z) /\ Advances(o, z) /\ Stays(o, z)
<1> DEFINE z == Finish(s, how)
<1>1. how \in Ends
    BY DEF RebuildEnds, Ends
<1>2. /\ z \in Own /\ SameJob(s, z) /\ SameFlags(s, z) /\ SameMap(s, z)
      /\ z.publications = s.publications /\ z.finished = Append(s.finished, how)
      /\ z.sent = s.sent
    BY <1>1, FinishEffect
<1>3. s.finished = <<>>
  <2>1. Job(s, ev, sc)
    BY DEF Core, Nearly
  <2>2. QED
    BY <2>1, ScanIsOver
<1>4. Emptied(z) = s
    BY <1>3 DEF Emptied, Finish, Own
<1> HIDE DEF z
<1>5. RebuildEnded(s, z, how)
    BY <1>2, <1>3, AppendOne DEF RebuildEnded
<1>6. Core(z, Fly(r, s), store, ew, ex, sc, rep, dk)
    BY <1>5, CoreFinishes
<1>7. Fly(r, z) = Fly(r, s)
    BY <1>2 DEF Fly
<1>8. OwesNoMore(o, z) /\ Advances(o, z) /\ Stays(o, z) /\ z.invalidated = s.invalidated
    BY <1>2 DEF OwesNoMore, Owes, Period, Advances, Stays, SameJob, SameMap, SameFlags
<1>9. z.finished = <<how>>
    BY <1>5 DEF RebuildEnded
<1>10. QED
    BY <1>2, <1>4, <1>6, <1>7, <1>8, <1>9 DEF z

\* The end of a rebuild's scan, if it was not cancelled.
LEMMA RebuildScanStep ==
    ASSUME NEW s \in Own, NEW r \in Seq(Messages), Typed, NEW ev, NEW ew, NEW ex, NEW sc,
           NEW rep, NEW dk,
           Core(s, Fly(r, s), store, ev, ex, sc, rep, dk), Later(ev, ew),
           ev[1].kind = "finished", s.active, ~s.ended
    PROVE  LET t == BeginRebuildPublication(s)
           IN  Arrives(s, t, Fly(r, t), ew, ex, sc, rep, dk)
<1> DEFINE t == BeginRebuildPublication(s)
           q == Fly(r, s)
<1>c. Core(s, q, store, ev, ex, sc, rep, dk)
    OBVIOUS
<1>n. s.latest \in Nat
    BY DEF Own
<1>s. Stays(s, s) /\ Advances(s, s)
    BY <1>n DEF Stays, Advances
<1>f. s.finished = <<>>
  <2>1. Job(s, ev, sc)
    BY <1>c DEF Core, Nearly
  <2>2. QED
    BY <2>1, ScanIsOver
<1>k. "Rebuild" \in Kinds
    BY DEF Kinds
<1>e. \A how \in RebuildEnds : \A x \in Own : Finish(x, how) \in Own
    BY FinishEffect DEF RebuildEnds, Ends
\* The rebuild is over.
<1>1. ASSUME NEW b \in Own, NEW how \in RebuildEnds, Core(b, Fly(r, b), store, ev, ex, sc, rep, dk),
             b.active, Stays(s, b), Advances(s, b),
             how = "Rebuild" => b.invalidated, how = "RebuildCancelled" => b.suppressed
      PROVE  LET z == Finish(b, how) IN Arrives(s, z, Fly(r, z), ew, ex, sc, rep, dk)
  <2> DEFINE z == Finish(b, how)
  <2>1. /\ z \in Own /\ z.finished = <<how>> /\ z.invalidated = b.invalidated
        /\ Core(z, Fly(r, z), store, ew, ex, sc, rep, dk)
        /\ OwesNoMore(s, z) /\ Advances(s, z) /\ Stays(s, z)
    BY <1>1, EndStep
  <2> HIDE DEF z
  <2>2. AtEase(z)
    <3>1. z.finished # <<"Primary">> /\ (z.finished = <<"Rebuild">> => how = "Rebuild")
        BY <2>1, Distinct DEF RebuildEnds
    <3>2. QED
        BY <3>1, <2>1, <1>1 DEF AtEase
  <2>3. ScanOf(s, z, sc) = sc
    BY <2>1 DEF ScanOf, Stays
  <2>4. QED
    BY <2>1, <2>2, <2>3 DEF Arrives, Stays, z
<1>2. CASE s.invalidated
  <2>1. t = Finish(s, "Rebuild") /\ "Rebuild" \in RebuildEnds
    BY <1>2 DEF BeginRebuildPublication, RebuildEnds
  <2>2. LET z == Finish(s, "Rebuild") IN Arrives(s, z, Fly(r, z), ew, ex, sc, rep, dk)
    BY <2>1, <1>1, <1>2, <1>c, <1>s
  <2>3. QED
    BY <2>1, <2>2
<1>3. CASE ~s.invalidated /\ s.suppressed
  <2>1. t = Finish(s, "RebuildCancelled") /\ "RebuildCancelled" \in RebuildEnds
    BY <1>3 DEF BeginRebuildPublication, RebuildEnds
  <2>2. LET z == Finish(s, "RebuildCancelled") IN Arrives(s, z, Fly(r, z), ew, ex, sc, rep, dk)
    BY <2>1, <1>1, <1>3, <1>c, <1>s
  <2>3. QED
    BY <2>1, <2>2
<1>4. CASE ~s.invalidated /\ ~s.suppressed /\ BeginsPublication(s)
  <2> DEFINE b == BeginPublication(s, "Rebuild")
             p == Fly(r, b)
  <2>0. t = b
    BY <1>4 DEF BeginRebuildPublication
  <2>1. b \in Own /\ Publishes(s, b, "Rebuild") /\ Gains(q, p, Command("Publish"))
    BY <1>4, <1>k, BeginPublicationEffect DEF PublicationBegins
  <2> HIDE DEF b, p, t
  <2>2. s.available /\ store.running
    BY <1>4 DEF BeginsPublication, Reaches
  <2>3. Core(b, p, store, ew, ex, sc, rep, dk)
    BY <2>1, <2>2, <1>4, <1>c, CorePublishesRebuild
  <2>4. /\ b.finished = <<>> /\ b.latest = s.latest /\ b.lease = s.lease /\ b.ended = s.ended
        /\ b.installed = s.installed /\ b.active = s.active
    BY <2>1, <1>f DEF Publishes, SameJob, SameMap
  <2>5. OwesNoMore(s, b) /\ Advances(s, b) /\ AtEase(b) /\ ScanOf(s, b, sc) = sc
    BY <2>4, Distinct DEF OwesNoMore, Owes, Period, Advances, AtEase, ScanOf
  <2>6. Arrives(s, b, p, ew, ex, sc, rep, dk)
    BY <2>1, <2>3, <2>4, <2>5, <1>n DEF Arrives
  <2>7. QED
    BY <2>0, <2>6 DEF t, p
<1>5. CASE ~s.invalidated /\ ~s.suppressed /\ ~BeginsPublication(s)
  <2> DEFINE b == BeginPublication(s, "Rebuild")
  <2>0. t = Finish(b, "RebuildFailed") /\ "RebuildFailed" \in RebuildEnds
    BY <1>5 DEF BeginRebuildPublication, RebuildEnds
  <2>1. b \in Own /\ Keeps(s, b) /\ Quiet(q, Fly(r, b))
    BY <1>5, <1>k, BeginPublicationEffect DEF PublicationBegins
  <2> HIDE DEF b, t
  <2>2. Core(b, Fly(r, b), store, ev, ex, sc, rep, dk)
    <3>1. Core(b, q, store, ev, ex, sc, rep, dk)
        BY <2>1, <1>c, CoreFails DEF Keeps
    <3>2. QED
        BY <3>1, <2>1, CoreQuiet
  <2>3. b.active /\ Stays(s, b) /\ Advances(s, b)
    BY <2>1, KeepsMoves DEF Keeps, Fails, SameJob
  <2>4. LET z == Finish(b, "RebuildFailed") IN Arrives(s, z, Fly(r, z), ew, ex, sc, rep, dk)
    BY <2>0, <2>1, <2>2, <2>3, <1>1
  <2>5. QED
    BY <2>0, <2>4 DEF t
<1>6. QED
    BY <1>2, <1>3, <1>4, <1>5

\* The scan's end is taken.
LEMMA ScanFinishedStep ==
    ASSUME NEW s \in Own, NEW r \in Seq(Messages), Typed, NEW ev, NEW ew, NEW ex, NEW sc,
           NEW rep, NEW dk, dk \subseteq Entries,
           Core(s, Fly(r, s), store, ev, ex, sc, rep, dk), Later(ev, ew),
           ev[1].kind = "finished", ~s.ended
    PROVE  LET t == ScanFinished(s, ev[1].cancelled)
           IN  Arrives(s, t, Fly(r, t), ew, ex, sc, rep, dk)
<1> DEFINE t == ScanFinished(s, ev[1].cancelled)
           x == ev[1].cancelled
<1>0. x \in BOOLEAN
    BY LaterFacts, EventTyped
<1>1. CASE s.lease = NoGeneration
  <2>1. t = BeginPrimaryPublication(Unscanned(s))
    BY <1>1 DEF ScanFinished, Unscanned, No
  <2>2. LET z == BeginPrimaryPublication(Unscanned(s)) IN Arrives(s, z, Fly(r, z), ew, ex, sc, rep, dk)
    BY <1>1, FirstScanStep
  <2>3. QED
    BY <2>1, <2>2
<1>a. s.lease # NoGeneration => s.active
    BY DEF Core, Nearly, Phase
<1>n. s.latest \in Nat /\ s.lease <= s.latest
    BY DEF Own, Core, Nearly, Gens, StoreGens
<1>2. CASE s.lease # NoGeneration /\ x
  <2>1. t = CompleteRebuild(s, "RebuildCancelled")
    BY <1>2 DEF ScanFinished
  <2> DEFINE z == Finish(s, "RebuildCancelled")
  <2>2. Stays(s, s) /\ Advances(s, s) /\ "RebuildCancelled" \in RebuildEnds
    BY <1>n DEF Stays, Advances, RebuildEnds
  <2>3. /\ z \in Own /\ z.finished = <<"RebuildCancelled">> /\ Emptied(z) = s
        /\ Core(z, Fly(r, z), store, ew, ex, sc, rep, dk)
        /\ OwesNoMore(s, z) /\ Advances(s, z) /\ Stays(s, z)
    BY <2>2, <1>2, <1>a, EndStep
  <2> HIDE DEF z
  <2>4. Comes(s, z, Fly(r, z), ew, ex, sc, rep, dk)
    BY <2>3 DEF Comes
  <2>5. ew \in Seq(Events)
    BY DEF Later
  <2>6. LET y == CompleteRebuild(Emptied(z), "RebuildCancelled")
        IN  Arrives(s, y, Fly(r, y), ew, ex, sc, rep, dk)
    BY <2>2, <2>3, <2>4, <2>5, <1>n, CompleteRebuildStep
  <2>7. QED
    BY <2>1, <2>3, <2>6
<1>3. CASE s.lease # NoGeneration /\ ~x
  <2>1. t = BeginRebuildPublication(s)
    BY <1>3 DEF ScanFinished
  <2>2. LET z == BeginRebuildPublication(s) IN Arrives(s, z, Fly(r, z), ew, ex, sc, rep, dk)
    BY <1>3, <1>a, RebuildScanStep
  <2>3. QED
    BY <2>1, <2>2
<1>4. QED
    BY <1>0, <1>1, <1>2, <1>3

-----------------------------------------------------------------------------
(***************************************************************************)
(* A deletion has ended.                                                   *)
(***************************************************************************)
LEMMA CoreHides ==
    ASSUME NEW s, NEW t, NEW q, NEW st, NEW ev, NEW ex, NEW sc, NEW rep, NEW dk,
           Core(s, q, st, ev, ex, sc, rep, dk), SameButHidden(s, t), s.hidden \subseteq t.hidden
    PROVE  Core(t, q, st, ev, ex, sc, rep, dk)
<1> USE DEF SameButHidden, SameJob, SamePublications, SameFlags
<1>1. Shown(t, rep, dk)
    BY DEF Core, Nearly, Shown
<1>2. ASSUME Regular(s, q, st, ev, sc, rep, dk)
      PROVE  HiddenFirst(t, q, st, ev, rep) /\ HiddenRebuild(t, q, st, ev, rep)
    BY <1>2 DEF Regular, HiddenFirst, HiddenRebuild, Sound
<1>3. QED
    BY <1>1, <1>2, CoreHidden

\* A removal is reported that is hidden, and made good if a map may list it.
LEMMA CoreReports ==
    ASSUME NEW s, NEW q, NEW st, NEW ev, NEW ex, NEW sc, NEW rep, NEW dk, NEW e,
           Core(s, q, st, ev, ex, sc, rep, dk), e \in s.hidden,
           Sound(s) => s.invalidated,
           s.available /\ ~Period(s) /\ ~s.rebuild => e \in ToSet(s.prefixes)
    PROVE  Core(s, q, st, ev, ex, sc, rep \union {e}, dk)
<1> DEFINE now == rep \union {e}
<1>1. /\ Phase(s) /\ Flags(s, ex, dk) /\ Shown(s, rep, dk) /\ Mode(s, q, st, ev, ex, sc, rep, dk)
      /\ HiddenOverlay(s, q, rep)
    BY DEF Core, Nearly
<1>2. Shown(s, now, dk)
    BY <1>1 DEF Shown
<1>3. HiddenOverlay(s, q, now)
  <2>1. SUFFICES ASSUME s.available, ~Period(s), s.loaded \/ s.finished = <<"Primary">>
                 PROVE  /\ s.publications = <<>> => s.installed.listed \intersect now \subseteq ToSet(s.prefixes)
                        /\ \A i \in 1..Len(q) : LeavesOut(s, q[i], now)
    BY DEF HiddenOverlay
  <2>2. ~s.rebuild
    BY <2>1, <1>1, Distinct DEF Flags
  <2>3. e \in ToSet(s.prefixes)
    BY <2>1, <2>2
  <2>4. QED
    BY <2>1, <2>3, <1>1 DEF HiddenOverlay, LeavesOut
<1>4. ASSUME Regular(s, q, st, ev, sc, rep, dk) PROVE Regular(s, q, st, ev, sc, now, dk)
  <2>1. HiddenFirst(s, q, st, ev, now)
    <3>1. SUFFICES ASSUME ~s.loaded, s.finished = <<>>
                   PROVE  \A x \in now : Lists(0, q, st, ev, x) =>
                            x \in s.hidden /\ (s.available /\ ~s.rebuild => x \in ToSet(s.prefixes))
        BY DEF HiddenFirst
    <3>2. s.available => ~Period(s)
        BY <3>1, <1>1 DEF Phase, Flags, Period
    <3>3. QED
        BY <3>1, <3>2, <1>4 DEF Regular, HiddenFirst
  <2>2. HiddenRebuild(s, q, st, ev, now)
    BY <1>4 DEF Regular, HiddenRebuild
  <2>3. Rebuilt(s, now)
    BY <1>4 DEF Regular, Rebuilt
  <2>4. QED
    BY <2>1, <2>2, <2>3, <1>4 DEF Regular
<1>5. QED
    BY <1>1, <1>2, <1>3, <1>4 DEF Core, Nearly, Mode

\* A removal is to be made good.
Records(s, t, dk) ==
    /\ SameJob(s, t) /\ SamePublications(s, t) /\ SameMap(s, t)
    /\ t.available = s.available /\ t.required = s.required
    /\ t.invalidated = s.invalidated /\ t.suppressed = s.suppressed
    /\ t.rebuild => ~s.loaded /\ s.finished = <<>>
    /\ ~t.rebuild => /\ ~s.rebuild /\ ToSet(s.prefixes) \subseteq ToSet(t.prefixes)
                     /\ ToSet(t.prefixes) \intersect dk = {}

\* A removal is recorded.
LEMMA CoreRecords ==
    ASSUME NEW s, NEW t, NEW q, NEW st, NEW ev, NEW ex, NEW sc, NEW rep, NEW dk,
           Core(s, q, st, ev, ex, sc, rep, dk), Records(s, t, dk)
    PROVE  /\ Nearly(t, q, st, ev, ex, sc, rep, dk) /\ HiddenOverlay(t, q, rep)
           /\ s.available /\ ~Period(s) => Core(t, q, st, ev, ex, sc, rep, dk)
<1> USE DEF Records, SameJob, SamePublications, SameMap
<1>2. /\ Gens(s, q, st, ev) /\ Phase(s) /\ Job(s, ev, sc) /\ Flags(s, ex, dk)
      /\ Cancelled(s, ev, ex, sc) /\ Cancellation(s, q, ev, ex, sc) /\ Shown(s, rep, dk)
      /\ Mode(s, q, st, ev, ex, sc, rep, dk) /\ Cleared(s) /\ HiddenOverlay(s, q, rep)
    BY DEF Core, Nearly
<1>5. Gens(t, q, st, ev) /\ Phase(t) /\ Job(t, ev, sc) /\ Flags(t, ex, dk) /\ Shown(t, rep, dk)
  <2>1. Gens(t, q, st, ev)
    BY <1>2 DEF Gens, StoreGens, EventGens, Dated
  <2>2. Phase(t)
    BY <1>2 DEF Phase, OverlayIsHead, Sound
  <2>3. Job(t, ev, sc)
    BY <1>2 DEF Job, Scanned, Working, Sound, JobGen
  <2>4. Flags(t, ex, dk)
    BY <1>2 DEF Flags, Period, OverlayIsHead
  <2>5. Shown(t, rep, dk)
    BY <1>2 DEF Shown
  <2>6. QED
    BY <2>1, <2>2, <2>3, <2>4, <2>5
<1>6. Cancelled(t, ev, ex, sc) /\ Cancellation(t, q, ev, ex, sc)
    BY <1>2 DEF Cancelled, Cancellation, CancelSent, CancelledJob, GivenUp
<1>8. HiddenOverlay(t, q, rep)
  <2>1. SUFFICES ASSUME t.available, ~Period(t), t.loaded \/ t.finished = <<"Primary">>
                 PROVE  /\ t.publications = <<>> => t.installed.listed \intersect rep \subseteq ToSet(t.prefixes)
                        /\ \A i \in 1..Len(q) : LeavesOut(t, q[i], rep)
    BY DEF HiddenOverlay
  <2>2. ~t.rebuild
    BY <2>1, Distinct
  <2>3. QED
    BY <2>1, <2>2, <1>2 DEF HiddenOverlay, LeavesOut, Period
<1>9. ASSUME Regular(s, q, st, ev, sc, rep, dk) PROVE Regular(t, q, st, ev, sc, rep, dk)
  <2>1. ~Doomed(t) /\ Order(t, q, st, dk)
    BY <1>9 DEF Regular, Doomed, Sound, Order, Begun, Carries, Based, Follows
  <2>2. Pipeline(t, q, st, ev, sc, dk)
    BY <1>9 DEF Regular, Pipeline, Working, Sound, Admits, Delivered, JobGen, Scanned, ToBeTold,
                InPipe, StoreLost
  <2>3. Rebuilt(t, rep) /\ RebuildShrinks(t, q, st, ev) /\ HiddenRebuild(t, q, st, ev, rep)
    BY <1>9 DEF Regular, Rebuilt, RebuildShrinks, HiddenRebuild, Sound
  <2>4. HiddenFirst(t, q, st, ev, rep)
    BY <1>9 DEF Regular, HiddenFirst
  <2>5. QED
    BY <2>1, <2>2, <2>3, <2>4 DEF Regular
<1>10. Mode(t, q, st, ev, ex, sc, rep, dk)
    BY <1>2, <1>9 DEF Mode, GivenUp, CancelledJob, Doomed, DoomedOrder, DoomedItem, OverlayIsHead,
                      Based, Follows
<1>11. Nearly(t, q, st, ev, ex, sc, rep, dk)
    BY <1>5, <1>6, <1>10 DEF Nearly
<1>12. s.available /\ ~Period(s) => Cleared(t)
    BY DEF Cleared, Period
<1>13. QED
    BY <1>8, <1>11, <1>12 DEF Core

\* The owner when the execution has ended: a rebuild that is not doomed may go on, and
\* a cancellation in flight is one the reader asked for.
Free(s, q, st, ev, sc, rep, dk) ==
    /\ Core(s, q, st, ev, NoEntry, sc, rep, dk) /\ Regular(s, q, st, ev, sc, rep, dk)
    /\ Period(s) => ~OverlayIsHead(s)
    /\ \/ NoCancel(q)
       \/ /\ ~s.active /\ s.required /\ s.loaded /\ s.suppressed /\ s.finished = <<>>
          /\ s.publications = <<>>

\* The execution has ended.
LEMMA EndFrees ==
    ASSUME NEW s, NEW q, NEW st, NEW ev, NEW ex, NEW sc, NEW rep, NEW dk,
           Core(s, q, st, ev, ex, sc, rep, dk), ex # NoEntry
    PROVE  Free(s, q, st, ev, sc, rep, dk)
<1>1. Regular(s, q, st, ev, sc, rep, dk)
    BY DEF Core, Nearly, Mode, GivenUp
<1>2. Period(s) => ~OverlayIsHead(s)
    BY DEF Core, Nearly, Flags
<1>3. \/ NoCancel(q)
      \/ /\ ~s.active /\ s.required /\ s.loaded /\ s.suppressed /\ s.finished = <<>>
         /\ s.publications = <<>>
    BY DEF Core, Nearly, Cancellation, CancelSent, GivenUp, NoCancel
<1>4. QED
    BY <1>1, <1>2, <1>3, CoreIdle DEF Free

\* A removal behind those recorded.
LEMMA AppendSet ==
    ASSUME NEW x \in Seq(Entries), NEW e \in Entries
    PROVE  /\ Append(x, e) \in Seq(Entries) /\ ToSet(Append(x, e)) = ToSet(x) \union {e}
           /\ Append(x, e) # <<>>
<1> DEFINE y == Append(x, e)
<1>1. /\ y \in Seq(Entries) /\ Len(y) = Len(x) + 1 /\ y[Len(x) + 1] = e
      /\ \A i \in 1..Len(x) : y[i] = x[i]
    BY AppendProperties
<1>2. Len(x) \in Nat /\ DOMAIN x = 1..Len(x) /\ DOMAIN y = 1..Len(y)
    BY <1>1
<1> HIDE DEF y
<1>3. \A z : z \in ToSet(y) <=> z \in ToSet(x) \/ z = e
  <2>1. ASSUME NEW z \in ToSet(y) PROVE z \in ToSet(x) \/ z = e
    <3>1. PICK i \in 1..Len(y) : y[i] = z
        BY <2>1, <1>2 DEF ToSet
    <3>2. i \in 1..Len(x) \/ i = Len(x) + 1
        BY <1>1, <1>2
    <3>3. QED
        BY <3>1, <3>2, <1>1, <1>2 DEF ToSet
  <2>2. ASSUME NEW z \in ToSet(x) PROVE z \in ToSet(y)
    <3>1. PICK i \in 1..Len(x) : x[i] = z
        BY <2>2, <1>2 DEF ToSet
    <3>2. i \in 1..Len(y)
        BY <1>1, <1>2
    <3>3. QED
        BY <3>1, <3>2, <1>1, <1>2 DEF ToSet
  <2>3. e \in ToSet(y)
    <3>1. Len(x) + 1 \in 1..Len(y)
        BY <1>1, <1>2
    <3>2. QED
        BY <3>1, <1>1, <1>2 DEF ToSet
  <2>4. QED
    BY <2>1, <2>2, <2>3
<1>4. y # <<>>
    BY <1>1, <1>2
<1>5. QED
    BY <1>1, <1>3, <1>4 DEF y

\* record_removal_before_first_map.
LEMMA RecordRemovalEffect ==
    ASSUME NEW s \in Own, NEW e \in Entries, NEW described \in BOOLEAN
    PROVE  LET t == RecordRemoval(s, e, described)
           IN  /\ t \in Own /\ SameJob(s, t) /\ SamePublications(s, t) /\ SameMap(s, t)
               /\ t.available = s.available /\ t.required = s.required
               /\ t.invalidated = s.invalidated /\ t.suppressed = s.suppressed
               /\ t.excused = s.excused /\ t.sent = s.sent
               /\ ~t.rebuild => /\ ~s.rebuild /\ described
                                /\ ToSet(t.prefixes) = ToSet(s.prefixes) \union {e}
<1> USE DEF SameJob, SamePublications, SameMap
<1>1. CASE Len(s.prefixes) < MaxRemovals
  <2> DEFINE x == s.rebuild \/ ~described
             y == Append(s.prefixes, e)
             n == s.beforeMap + 1
             t == [s EXCEPT !.rebuild = x, !.prefixes = y, !.beforeMap = n]
  <2>1. x \in BOOLEAN /\ (~x => ~s.rebuild /\ described)
    BY DEF Own
  <2>2. s.prefixes \in Seq(Entries)
    BY DEF Own
  <2>3. y \in Seq(Entries) /\ ToSet(y) = ToSet(s.prefixes) \union {e}
    BY <2>2, AppendSet
  <2>4. n \in Nat
    BY DEF Own
  <2>5. RecordRemoval(s, e, described) = t
    BY <1>1 DEF RecordRemoval
  <2> HIDE DEF x, y, n
  <2>6. t \in Own
    BY <2>1, <2>3, <2>4 DEF Own
  <2>7. t.rebuild = x /\ t.prefixes = y
    BY DEF Own
  <2>8. /\ SameJob(s, t) /\ SamePublications(s, t) /\ SameMap(s, t)
        /\ t.available = s.available /\ t.required = s.required
        /\ t.invalidated = s.invalidated /\ t.suppressed = s.suppressed
        /\ t.excused = s.excused /\ t.sent = s.sent
    BY DEF Own
  <2> HIDE DEF t
  <2>9. QED
    BY <2>1, <2>3, <2>5, <2>6, <2>7, <2>8
<1>2. CASE ~(Len(s.prefixes) < MaxRemovals)
  <2> DEFINE t == [s EXCEPT !.rebuild = Yes]
  <2>1. RecordRemoval(s, e, described) = t
    BY <1>2 DEF RecordRemoval, Yes
  <2>2. t \in Own
    BY YesNo, ZenonT(60) DEF Own
  <2>3. t.rebuild = Yes
    BY DEF Own
  <2>4. /\ SameJob(s, t) /\ SamePublications(s, t) /\ SameMap(s, t)
        /\ t.available = s.available /\ t.required = s.required
        /\ t.invalidated = s.invalidated /\ t.suppressed = s.suppressed
        /\ t.excused = s.excused /\ t.sent = s.sent
    BY DEF Own
  <2> HIDE DEF t
  <2>5. t.rebuild
    BY <2>3, YesNo
  <2>6. QED
    BY <2>1, <2>2, <2>4, <2>5
<1>3. QED
    BY <1>1, <1>2

\* What was reported by now: e too, if it is hidden.
Reports(s, e, rep, now) == now = rep \/ (now = rep \union {e} /\ e \in s.hidden)

\* A removal that no map lists, or that is hidden, is reported.
LEMMA CoreTold ==
    ASSUME NEW s, NEW q, NEW st, NEW ev, NEW ex, NEW sc, NEW rep, NEW dk, NEW e, NEW now,
           Core(s, q, st, ev, ex, sc, rep, dk), Reports(s, e, rep, now),
           Sound(s) => s.invalidated,
           s.available /\ ~Period(s) /\ ~s.rebuild => e \in ToSet(s.prefixes)
    PROVE  Core(s, q, st, ev, ex, sc, now, dk)
<1>1. CASE now = rep
    BY <1>1
<1>2. CASE now = rep \union {e} /\ e \in s.hidden
  <2>1. Core(s, q, st, ev, ex, sc, rep \union {e}, dk)
    BY <1>2, CoreReports
  <2>2. QED
    BY <2>1, <1>2
<1>3. QED
    BY <1>1, <1>2 DEF Reports

\* A removal was reconciled with the map.
Reconciled(s, t, q, ev, sc, rep, dk) ==
    /\ t \in Own /\ Core(t, q, store, ev, NoEntry, sc, rep, dk)
    /\ Stays(s, t) /\ OwesNoMore(s, t) /\ t.installed = s.installed /\ AtEase(t)

\* To have the map scanned again leaves the owner at ease.
LEMMA InvalidatesAtEase ==
    ASSUME NEW s \in Own, NEW t, Invalidates(s, t), AtEase(s)
    PROVE  AtEase(t) /\ Stays(s, t) /\ OwesNoMore(s, t) /\ t.installed = s.installed
<1>1. AtEase(t)
    BY DEF AtEase, Invalidates, SamePublications, SameMap
<1>2. QED
    BY <1>1, InvalidatesMoves DEF Invalidates, SameMap

\* The removal is recorded until the first map is there.
LEMMA RecordStep ==
    ASSUME NEW s \in Own, NEW r \in Seq(Messages), Typed, NEW ev, NEW sc, NEW rep, NEW dk,
           NEW now, NEW e \in Entries, NEW described \in BOOLEAN,
           Free(s, Fly(r, s), store, ev, sc, rep, dk), AtEase(s), Reports(s, e, rep, now),
           described => e \notin dk, FirstMapIsOwed(s)
    PROVE  LET t == RecordRemoval(s, e, described)
           IN  Reconciled(s, t, Fly(r, t), ev, sc, now, dk) /\ FirstMapIsOwed(t)
<1> DEFINE t == RecordRemoval(s, e, described)
           q == Fly(r, s)
<1>1. /\ t \in Own /\ SameJob(s, t) /\ SamePublications(s, t) /\ SameMap(s, t)
      /\ t.available = s.available /\ t.required = s.required
      /\ t.invalidated = s.invalidated /\ t.suppressed = s.suppressed
      /\ t.excused = s.excused /\ t.sent = s.sent
      /\ ~t.rebuild => /\ ~s.rebuild /\ described
                       /\ ToSet(t.prefixes) = ToSet(s.prefixes) \union {e}
    BY RecordRemovalEffect
<1> HIDE DEF t
<1>2. Core(s, q, store, ev, NoEntry, sc, rep, dk)
    BY DEF Free
<1>3. Phase(s) /\ Flags(s, NoEntry, dk)
    BY <1>2 DEF Core, Nearly
<1>4. s.available /\ ~s.loaded /\ s.installed = NoMap /\ ~s.required /\ ~s.active /\ ~Period(s)
    BY DEF FirstMapIsOwed, Period
<1>5. s.finished = <<>>
    BY <1>3, <1>4, Distinct DEF Phase, AtEase
<1>6. Records(s, t, dk)
    BY <1>1, <1>3, <1>4, <1>5 DEF Records, Flags
<1>7. Core(t, q, store, ev, NoEntry, sc, rep, dk)
    BY <1>2, <1>4, <1>6, CoreRecords
<1>8. ~Period(t) /\ ~Sound(t) /\ FirstMapIsOwed(t)
    BY <1>1, <1>4 DEF Period, Sound, FirstMapIsOwed, SameJob, SameMap
<1>9. ~t.rebuild => e \in ToSet(t.prefixes)
    BY <1>1
<1>10. Reports(t, e, rep, now)
    BY <1>1 DEF Reports, SameMap
<1>11. Core(t, q, store, ev, NoEntry, sc, now, dk)
    BY <1>7, <1>8, <1>9, <1>10, CoreTold
<1>12. Fly(r, t) = q
    BY <1>1 DEF Fly
<1>13. Stays(s, t)
  <2>1. s.latest \in Nat
    BY DEF Own
  <2>2. QED
    BY <2>1, <1>1 DEF Stays, SameJob, SameMap
<1>14. OwesNoMore(s, t)
    BY <1>1 DEF OwesNoMore, Owes, Period, SameJob, SameMap, SamePublications
<1>15. AtEase(t)
    BY <1>1, <1>5, Distinct DEF AtEase, SamePublications
<1>16. t.installed = s.installed
    BY <1>1 DEF SameMap
<1>17. QED
    BY <1>1, <1>8, <1>11, <1>12, <1>13, <1>14, <1>15, <1>16 DEF Reconciled, t

\* The map is to be scanned again.
LEMMA FreeInvalidates ==
    ASSUME NEW s \in Own, NEW t \in Own, NEW q, NEW p, NEW ev, NEW sc, NEW rep, NEW dk,
           NEW now, NEW e, Free(s, q, store, ev, sc, rep, dk), AtEase(s),
           Reports(s, e, rep, now), Invalidates(s, t), Quiet(q, p)
    PROVE  Reconciled(s, t, p, ev, sc, now, dk)
<1>2. /\ Nearly(s, q, store, ev, NoEntry, sc, rep, dk) /\ Regular(s, q, store, ev, sc, rep, dk)
      /\ \/ NoCancel(q)
         \/ ~s.active /\ s.loaded /\ s.finished = <<>> /\ s.publications = <<>>
    BY DEF Free, Core
<1>3. Core(t, q, store, ev, NoEntry, sc, rep, dk)
    BY <1>2, CoreInvalidates
<1>4. Period(t) /\ (Sound(t) => t.invalidated)
    BY DEF Period, Sound, Invalidates, SameJob
<1>5. Reports(t, e, rep, now)
    BY DEF Reports, Invalidates, SameMap
<1>6. Core(t, q, store, ev, NoEntry, sc, now, dk)
    BY <1>3, <1>4, <1>5, CoreTold
<1>7. Core(t, p, store, ev, NoEntry, sc, now, dk)
    BY <1>6, CoreQuiet
<1>8. AtEase(t) /\ Stays(s, t) /\ OwesNoMore(s, t) /\ t.installed = s.installed
    BY InvalidatesAtEase
<1>9. QED
    BY <1>7, <1>8 DEF Reconciled

\* The removal waits for its overlay.
Queued(s, e) == [s EXCEPT !.prefixes = Append(@, e)]

\* A removal is queued for an overlay.
LEMMA QueuedEffect ==
    ASSUME NEW s \in Own, NEW e \in Entries
    PROVE  LET w == Queued(s, e)
           IN  /\ w \in Own /\ SameJob(s, w) /\ SamePublications(s, w) /\ SameMap(s, w)
               /\ w.available = s.available /\ w.required = s.required
               /\ w.invalidated = s.invalidated /\ w.suppressed = s.suppressed
               /\ w.excused = s.excused /\ w.sent = s.sent /\ w.rebuild = s.rebuild
               /\ w.prefixes = Append(s.prefixes, e)
               /\ ToSet(w.prefixes) = ToSet(s.prefixes) \union {e} /\ w.prefixes # <<>>
<1> DEFINE y == Append(s.prefixes, e)
           w == [s EXCEPT !.prefixes = y]
<1>1. s.prefixes \in Seq(Entries)
    BY DEF Own
<1>2. y \in Seq(Entries) /\ ToSet(y) = ToSet(s.prefixes) \union {e} /\ y # <<>>
    BY <1>1, AppendSet
<1>3. Queued(s, e) = w
    BY DEF Queued
<1> HIDE DEF y
<1>4. w \in Own
    BY <1>2 DEF Own
<1>5. w.prefixes = y
    BY DEF Own
<1>6. /\ SameJob(s, w) /\ SamePublications(s, w) /\ SameMap(s, w)
      /\ w.available = s.available /\ w.required = s.required
      /\ w.invalidated = s.invalidated /\ w.suppressed = s.suppressed
      /\ w.excused = s.excused /\ w.sent = s.sent /\ w.rebuild = s.rebuild
    BY DEF Own, SameJob, SamePublications, SameMap
<1> HIDE DEF w
<1>7. QED
    BY <1>2, <1>3, <1>4, <1>5, <1>6 DEF y

\* What is known of the owner when an overlay may be asked for.
LEMMA OverlayFacts ==
    ASSUME NEW s \in Own, NEW q, NEW st, NEW ev, NEW sc, NEW rep, NEW dk,
           Free(s, q, st, ev, sc, rep, dk), AtEase(s), s.available, s.installed # NoMap,
           \A i \in DOMAIN s.publications : s.publications[i] = "Overlay"
    PROVE  /\ s.loaded /\ ~s.rebuild /\ (s.publications = <<>> => NoPub(q))
           /\ s.publications = <<>> \/ s.publications = <<"Overlay">>
           /\ Period(s) => s.publications = <<>> /\ s.prefixes = <<>>
           /\ ToSet(s.prefixes) \intersect dk = {}
<1>1. /\ Phase(s) /\ Flags(s, NoEntry, dk) /\ Cleared(s) /\ Order(s, q, st, dk)
      /\ Period(s) => ~OverlayIsHead(s)
    BY DEF Free, Core, Nearly, Regular
<1>2. s.loaded
    BY <1>1 DEF Phase, AtEase
<1>3. ~s.rebuild /\ ToSet(s.prefixes) \intersect dk = {}
    BY <1>1, <1>2 DEF Flags
<1>4. s.publications = <<>> \/ s.publications = <<"Overlay">>
  <2>1. \A x, y : 1 \in DOMAIN <<x>> /\ <<x>>[1] = x /\ 2 \in DOMAIN <<x, y>> /\ <<x, y>>[2] = y
    OBVIOUS
  <2>2. s.publications # <<"Rebuild">> /\ s.publications # <<"Overlay", "Rebuild">>
    BY <2>1
  <2>3. QED
    BY <2>2, <1>1, <1>2 DEF Phase
<1>5. Period(s) => s.publications = <<>>
    BY <1>1, <1>4, Distinct DEF OverlayIsHead
<1>6. QED
    BY <1>1, <1>2, <1>3, <1>4, <1>5 DEF Cleared, Order

\* An overlay begins that was not outrun by a rebuild.
LEMMA OverlayStep ==
    ASSUME NEW s \in Own, NEW r \in Seq(Messages), Typed, NEW ev \in Seq(Events), NEW sc,
           NEW rep, NEW dk, NEW now, NEW e \in Entries,
           Free(s, Fly(r, s), store, ev, sc, rep, dk), AtEase(s), Reports(s, e, rep, now),
           e \notin dk, s.available, s.installed # NoMap,
           \A i \in DOMAIN s.publications : s.publications[i] = "Overlay"
    PROVE  LET t == StartNextOverlay(Queued(s, e))
           IN  Reconciled(s, t, Fly(r, t), ev, sc, now, dk)
<1> DEFINE w == Queued(s, e)
           t == StartNextOverlay(w)
           q == Fly(r, s)
           p == Fly(r, t)
<1>1. /\ w \in Own /\ SameJob(s, w) /\ SamePublications(s, w) /\ SameMap(s, w)
      /\ w.available = s.available /\ w.required = s.required
      /\ w.invalidated = s.invalidated /\ w.suppressed = s.suppressed
      /\ w.excused = s.excused /\ w.sent = s.sent /\ w.rebuild = s.rebuild
      /\ w.prefixes = Append(s.prefixes, e)
      /\ ToSet(w.prefixes) = ToSet(s.prefixes) \union {e} /\ w.prefixes # <<>>
    BY QueuedEffect
<1>2. Fly(r, w) = q
    BY <1>1 DEF Fly
<1> HIDE DEF w
<1>3. t \in Own /\ OverlayStarts(w, t, q, p)
  <2>1. t \in Own /\ OverlayStarts(w, t, Fly(r, w), Fly(r, t))
    BY <1>1, StartNextOverlayEffect
  <2>2. QED
    BY <2>1, <1>2
<1> HIDE DEF t, q, p
<1>4. /\ s.loaded /\ ~s.rebuild /\ (s.publications = <<>> => NoPub(q))
      /\ s.publications = <<>> \/ s.publications = <<"Overlay">>
      /\ Period(s) => s.publications = <<>> /\ s.prefixes = <<>>
      /\ ToSet(s.prefixes) \intersect dk = {}
    BY OverlayFacts DEF q
<1>5. Core(s, q, store, ev, NoEntry, sc, rep, dk)
    BY DEF Free, q
<1>6. /\ \/ NoCancel(q)
         \/ /\ ~w.active /\ w.required /\ w.loaded /\ w.suppressed /\ w.finished = <<>>
            /\ w.publications = <<>>
      /\ ~Period(w) => NoCancel(q)
    BY <1>1 DEF Free, q, SameJob, SamePublications, Period
<1>7. Records(s, w, dk)
    BY <1>1, <1>4 DEF Records
<1>8. Nearly(w, q, store, ev, NoEntry, sc, rep, dk) /\ HiddenOverlay(w, q, rep)
    BY <1>5, <1>7, CoreRecords
<1>9. w.available /\ w.loaded /\ ~w.rebuild /\ w.publications = s.publications
      /\ (Period(w) <=> Period(s)) /\ w.installed = s.installed /\ w.hidden = s.hidden
    BY <1>1, <1>4 DEF SameJob, SamePublications, SameMap, Period
<1>10. ~GivenUp(w, ev, NoEntry, sc)
    BY <1>9 DEF GivenUp
<1>11. Reports(w, e, rep, now)
    BY <1>9 DEF Reports
<1>12. Stays(s, w) /\ OwesNoMore(s, w) /\ AtEase(w)
  <2>1. s.latest \in Nat
    BY DEF Own
  <2>2. QED
    BY <2>1, <1>1 DEF Stays, OwesNoMore, Owes, AtEase, Period, SameJob, SameMap, SamePublications
<1>13. ASSUME ~Period(w) PROVE Core(w, q, store, ev, NoEntry, sc, now, dk)
  <2>1. Core(w, q, store, ev, NoEntry, sc, rep, dk)
    BY <1>13, <1>9, <1>1, <1>5, <1>7, CoreRecords
  <2>2. ~Sound(w) /\ e \in ToSet(w.prefixes)
    BY <1>13, <1>1 DEF Sound, Period
  <2>3. QED
    BY <2>1, <2>2, <1>11, CoreTold
<1>14. ASSUME ~OverlayMayStart(w), t = w, p = q
       PROVE  Reconciled(s, t, p, ev, sc, now, dk)
  <2>1. ~Period(w)
    BY <1>14, <1>9, <1>4, <1>1 DEF OverlayMayStart
  <2>2. QED
    BY <2>1, <1>14, <1>13, <1>12, <1>9, <1>1 DEF Reconciled
<1>15. ASSUME OverlayMayStart(w), Invalidates(w, t), Quiet(q, p)
       PROVE  Reconciled(s, t, p, ev, sc, now, dk)
  <2>1. Core(t, q, store, ev, NoEntry, sc, now, dk)
    <3>1. CASE ~Period(w)
      <4>1. Nearly(w, q, store, ev, NoEntry, sc, now, dk) /\ NoCancel(q)
        BY <3>1, <1>13, <1>6 DEF Core
      <4>2. QED
        BY <4>1, <1>15, <1>10, CoreInvalidates
    <3>2. CASE Period(w)
      <4>1. Core(t, q, store, ev, NoEntry, sc, rep, dk)
        BY <1>8, <1>15, <1>10, <1>6, CoreInvalidates
      <4>2. Period(t) /\ (Sound(t) => t.invalidated) /\ Reports(t, e, rep, now)
        BY <1>15, <1>11 DEF Period, Sound, Invalidates, SameJob, SameMap, Reports
      <4>3. QED
        BY <4>1, <4>2, CoreTold
    <3>3. QED
        BY <3>1, <3>2
  <2>2. Core(t, p, store, ev, NoEntry, sc, now, dk)
    BY <2>1, <1>15, CoreQuiet
  <2>3. AtEase(t) /\ Stays(w, t) /\ OwesNoMore(w, t) /\ t.installed = w.installed
    BY <1>1, <1>12, <1>15, InvalidatesAtEase
  <2>4. Stays(s, t) /\ OwesNoMore(s, t)
    BY <2>3, <1>12, <1>1, <1>3, StaysChain, OwesChain
  <2>5. QED
    BY <2>2, <2>3, <2>4, <1>3, <1>9 DEF Reconciled
<1>16. ASSUME OverlayMayStart(w), Overlays(w, t), \E c : OverlayOf(w, c) /\ Gains(q, p, c)
       PROVE  Reconciled(s, t, p, ev, sc, now, dk)
  <2>1. PICK c : OverlayOf(w, c) /\ Gains(q, p, c)
    BY <1>16
  <2>2. s.publications = <<>> /\ NoPub(q)
    BY <1>16, <1>9, <1>4 DEF OverlayMayStart
  <2>3. Period(w) => Tail(w.prefixes) = <<>>
    BY <1>9, <1>4, <1>1, AppendOne, Distinct
  <2>4. \/ NoCancel(q)
        \/ ~w.active /\ w.required /\ w.suppressed /\ w.finished = <<>>
    BY <1>6
  <2>5. store \in Store
    BY DEF Typed
  <2>6. Core(t, p, store, ev, NoEntry, sc, now, dk)
    <3>1. CASE ~Period(w)
      <4>1. Nearly(w, q, store, ev, NoEntry, sc, now, dk) /\ HiddenOverlay(w, q, now)
        BY <3>1, <1>13 DEF Core
      <4>2. QED
        BY <4>1, <3>1, <2>1, <2>2, <2>4, <2>5, <1>1, <1>9, <1>16, CoreOverlay
    <3>2. CASE Period(w)
      <4>1. Core(t, p, store, ev, NoEntry, sc, rep, dk)
        BY <1>8, <2>1, <2>2, <2>3, <2>4, <2>5, <1>1, <1>9, <1>16, CoreOverlay
      <4>2. Period(t) /\ Reports(t, e, rep, now)
        BY <3>2, <1>16, <1>11 DEF Period, Overlays, SameMap, Reports
      <4>3. ~Sound(t)
        <5>1. s.lease <= s.latest
            BY <1>5 DEF Core, Nearly, Gens, StoreGens
        <5>2. t.lease = s.lease /\ t.epoch = s.latest + 1
            BY <1>16, <1>1 DEF Overlays, SameJob
        <5>3. s.latest \in Nat /\ s.lease \in Int
            BY <2>5, GenerationsTyped
        <5>4. QED
            BY <5>1, <5>2, <5>3 DEF Sound
      <4>4. QED
        BY <4>1, <4>2, <4>3, CoreTold
    <3>3. QED
        BY <3>1, <3>2
  <2>7. Stays(s, t) /\ OwesNoMore(s, t)
    <3>1. Stays(w, t) /\ OwesNoMore(w, t)
        BY <1>16, <1>1, OverlaysMoves
    <3>2. QED
        BY <3>1, <1>12, <1>1, <1>3, StaysChain, OwesChain
  <2>8. AtEase(t)
    BY <1>16, <1>12, <1>9 DEF AtEase, Overlays, SameMap
  <2>9. t.installed = s.installed
    BY <1>16, <1>9 DEF Overlays, SameMap
  <2>10. QED
    BY <2>6, <2>7, <2>8, <2>9, <1>3 DEF Reconciled
<1>17. QED
  <2>1. \/ ~OverlayMayStart(w) /\ t = w /\ p = q
        \/ OverlayMayStart(w) /\ Invalidates(w, t) /\ Quiet(q, p)
        \/ OverlayMayStart(w) /\ Overlays(w, t) /\ \E c : OverlayOf(w, c) /\ Gains(q, p, c)
    BY <1>3 DEF OverlayStarts
  <2>2. QED
    BY <2>1, <1>14, <1>15, <1>16 DEF t, p, w

\* reconcile_generation_after_deletion.
LEMMA ReconcileStep ==
    ASSUME NEW s \in Own, NEW r \in Seq(Messages), Typed, NEW ev \in Seq(Events), NEW sc,
           NEW rep, NEW dk, NEW now, NEW e \in Entries, NEW described \in BOOLEAN,
           Free(s, Fly(r, s), store, ev, sc, rep, dk), AtEase(s), Reports(s, e, rep, now),
           described => e \notin dk /\ s.available
    PROVE  LET t == Reconcile(s, e, described)
           IN  /\ Reconciled(s, t, Fly(r, t), ev, sc, now, dk)
               /\ t.excused /\ ~described => FirstMapIsOwed(t)
<1> DEFINE others == \E i \in DOMAIN s.publications : s.publications[i] # "Overlay"
           again == \/ ~described \/ s.installed = NoMap
                    \/ others \/ Len(s.prefixes) >= MaxRemovals
<1>1. CASE FirstMapIsOwed(s)
  <2> DEFINE t == RecordRemoval(s, e, described)
  <2>1. Reconcile(s, e, described) = t
    BY <1>1 DEF Reconcile
  <2>2. Reconciled(s, t, Fly(r, t), ev, sc, now, dk) /\ FirstMapIsOwed(t)
    BY <1>1, RecordStep
  <2> HIDE DEF t
  <2>3. QED
    BY <2>1, <2>2
<1>2. CASE ~FirstMapIsOwed(s) /\ again
  <2> DEFINE t == Invalidate(s)
  <2>1. Reconcile(s, e, described) = t
    BY <1>2 DEF Reconcile
  <2>2. t \in Own /\ Invalidates(s, t) /\ Quiet(Fly(r, s), Fly(r, t)) /\ ~t.excused
    BY InvalidateEffect
  <2> HIDE DEF t
  <2>3. Reconciled(s, t, Fly(r, t), ev, sc, now, dk)
    BY <2>2, FreeInvalidates
  <2>4. QED
    BY <2>1, <2>2, <2>3
<1>3. CASE ~FirstMapIsOwed(s) /\ ~again
  <2> DEFINE t == StartNextOverlay(Queued(s, e))
  <2>1. Reconcile(s, e, described) = t
    BY <1>3 DEF Reconcile, Queued
  <2>2. described /\ s.installed # NoMap
        /\ \A i \in DOMAIN s.publications : s.publications[i] = "Overlay"
    BY <1>3
  <2>3. Reconciled(s, t, Fly(r, t), ev, sc, now, dk)
    BY <2>2, OverlayStep
  <2> HIDE DEF t
  <2>4. QED
    BY <2>1, <2>2, <2>3
<1>4. QED
    BY <1>1, <1>2, <1>3

-----------------------------------------------------------------------------
\* excused_execution_ended.
Taken(s) == [s EXCEPT !.excused = No]
Remade(s) == [s EXCEPT !.rebuild = Yes]

\* The excuse is taken.
LEMMA TakenEffect ==
    ASSUME NEW s \in Own
    PROVE  LET t == Taken(s)
           IN  t \in Own /\ Same(s, t) /\ ~t.excused /\ t.sent = s.sent
<1> DEFINE t == [s EXCEPT !.excused = No]
<1>1. t \in Own
    BY YesNo, ZenonT(60) DEF Own
<1>2. Same(s, t) /\ t.sent = s.sent
    BY DEF Own, Same, SameJob, SamePublications, SameFlags, SameMap
<1>3. t.excused = No
    BY DEF Own
<1> HIDE DEF t
<1>4. ~t.excused
    BY <1>3, YesNo
<1>5. QED
    BY <1>1, <1>2, <1>4 DEF Taken, t

\* A failure was excused: the first map is to be made again.
LEMMA RemadeEffect ==
    ASSUME NEW s \in Own
    PROVE  LET t == Remade(s)
           IN  /\ t \in Own /\ SameJob(s, t) /\ SamePublications(s, t) /\ SameMap(s, t)
               /\ t.available = s.available /\ t.required = s.required
               /\ t.invalidated = s.invalidated /\ t.suppressed = s.suppressed
               /\ t.sent = s.sent /\ t.rebuild
<1> DEFINE t == [s EXCEPT !.rebuild = Yes]
<1>1. t \in Own
    BY YesNo, ZenonT(60) DEF Own
<1>2. /\ SameJob(s, t) /\ SamePublications(s, t) /\ SameMap(s, t)
      /\ t.available = s.available /\ t.required = s.required
      /\ t.invalidated = s.invalidated /\ t.suppressed = s.suppressed
      /\ t.sent = s.sent
    BY DEF Own, SameJob, SamePublications, SameMap
<1>3. t.rebuild = Yes
    BY DEF Own
<1> HIDE DEF t
<1>4. t.rebuild
    BY <1>3, YesNo
<1>5. QED
    BY <1>1, <1>2, <1>4 DEF Remade, t

\* Nothing that was excused is owed unless the removal is described.
Settled(s, t, q, ev, sc, rep, dk, described) ==
    /\ t \in Own /\ Core(t, q, store, ev, NoEntry, sc, rep, dk)
    /\ Stays(s, t) /\ t.installed = s.installed /\ AtEase(t)
    /\ Owes(t) => Owes(s) /\ (~s.excused \/ described)

\* excused_execution_ended.
LEMMA ExcusedStep ==
    ASSUME NEW s \in Own, NEW r \in Seq(Messages), Typed, NEW ev, NEW sc, NEW rep, NEW dk,
           NEW described \in BOOLEAN,
           Core(s, Fly(r, s), store, ev, NoEntry, sc, rep, dk), AtEase(s),
           s.excused /\ ~described =>
             FirstMapIsOwed(s) \/ Free(s, Fly(r, s), store, ev, sc, rep, dk)
    PROVE  LET t == ExcusedExecutionEnded(s, described)
           IN  Settled(s, t, Fly(r, t), ev, sc, rep, dk, described)
<1> DEFINE u == Taken(s)
           q == Fly(r, s)
<1>1. u \in Own /\ Same(s, u) /\ ~u.excused /\ u.sent = s.sent
    BY TakenEffect
<1>2. /\ ExcusedExecutionEnded(s, described) =
           IF ~s.excused \/ described THEN u
           ELSE IF FirstMapIsOwed(s) THEN Remade(u)
           ELSE IF s.available /\ s.installed # NoMap THEN Invalidate(u)
           ELSE u
    BY DEF ExcusedExecutionEnded, Taken, Remade, No, Yes
<1> HIDE DEF u
<1>3. Fly(r, u) = q
    BY <1>1 DEF Fly
<1> HIDE DEF q
<1>4. Core(u, q, store, ev, NoEntry, sc, rep, dk)
  <2>1. Fails(s, u)
    BY <1>1 DEF Fails, Same, SameFlags
  <2>2. QED
    BY <2>1, CoreFails DEF q
<1>5. Stays(s, u) /\ u.installed = s.installed /\ AtEase(u) /\ (Owes(u) => Owes(s))
  <2>1. s.latest \in Nat
    BY DEF Own
  <2>2. QED
    BY <2>1, <1>1 DEF Stays, AtEase, Owes, Period, Same, SameJob, SamePublications, SameFlags,
                      SameMap
<1>6. Phase(s) /\ Flags(s, NoEntry, dk)
    BY DEF Core, Nearly
<1>7. CASE ~s.excused \/ described
    BY <1>7, <1>1, <1>2, <1>3, <1>4, <1>5 DEF Settled
<1>8. CASE s.excused /\ ~described /\ FirstMapIsOwed(s)
  <2> DEFINE t == Remade(u)
  <2>1. /\ t \in Own /\ SameJob(u, t) /\ SamePublications(u, t) /\ SameMap(u, t)
        /\ t.available = u.available /\ t.required = u.required
        /\ t.invalidated = u.invalidated /\ t.suppressed = u.suppressed
        /\ t.sent = u.sent /\ t.rebuild
    BY <1>1, RemadeEffect
  <2>2. ExcusedExecutionEnded(s, described) = t
    BY <1>2, <1>8
  <2> HIDE DEF t
  <2>3. u.available /\ ~u.loaded /\ ~Period(u) /\ ~s.active /\ s.available /\ ~s.loaded
    BY <1>8, <1>1 DEF FirstMapIsOwed, Period, Same, SameJob, SameFlags
  <2>4. s.finished = <<>> /\ u.finished = <<>>
    BY <2>3, <1>6, <1>1, Distinct DEF Phase, AtEase, Same, SamePublications
  <2>5. Records(u, t, dk)
    BY <2>1, <2>3, <2>4 DEF Records
  <2>6. Core(t, q, store, ev, NoEntry, sc, rep, dk)
    BY <2>3, <2>5, <1>4, CoreRecords
  <2>7. Fly(r, t) = q
    BY <2>1, <1>3 DEF Fly
  <2>8. Stays(s, t) /\ t.installed = s.installed
    BY <2>1, <1>5 DEF Stays, SameJob, SameMap
  <2>9. AtEase(t)
    BY <2>1, <2>4, Distinct DEF AtEase, SamePublications
  <2>10. ~Owes(t)
    BY <2>1 DEF Owes
  <2>11. QED
    BY <2>1, <2>2, <2>6, <2>7, <2>8, <2>9, <2>10 DEF Settled
<1>9. CASE s.excused /\ ~described /\ ~FirstMapIsOwed(s) /\ s.available /\ s.installed # NoMap
  <2> DEFINE t == Invalidate(u)
  <2>1. t \in Own /\ Invalidates(u, t) /\ Quiet(q, Fly(r, t))
    BY <1>1, <1>3, InvalidateEffect
  <2>2. ExcusedExecutionEnded(s, described) = t
    BY <1>2, <1>9
  <2> HIDE DEF t
  <2>3. Invalidates(s, t)
    BY <2>1, <1>1 DEF Invalidates, Same, SameJob, SamePublications, SameFlags, SameMap
  <2>4. Free(s, q, store, ev, sc, rep, dk)
    BY <1>9 DEF q
  <2>5. Reports(s, NoEntry, rep, rep)
    BY DEF Reports
  <2>6. Reconciled(s, t, Fly(r, t), ev, sc, rep, dk)
    BY <2>1, <2>3, <2>4, <2>5, FreeInvalidates
  <2>7. ~Owes(t)
    BY <2>3 DEF Invalidates, Owes, Period
  <2>8. QED
    BY <2>2, <2>6, <2>7 DEF Reconciled, Settled
<1>10. CASE s.excused /\ ~described /\ ~FirstMapIsOwed(s) /\ ~(s.available /\ s.installed # NoMap)
  <2>1. ExcusedExecutionEnded(s, described) = u
    BY <1>2, <1>10
  <2>2. ~Owes(u)
    <3>1. SUFFICES ASSUME Owes(s) PROVE FALSE
        BY <1>5
    <3>2. s.available /\ s.installed = NoMap /\ ~s.required /\ ~s.active
        BY <3>1, <1>10 DEF Owes, Period
    <3>3. NoMap.scan # 0
        BY DEF NoMap, NoGeneration
    <3>4. ~s.loaded
        BY <3>1, <3>2, <3>3 DEF Owes
    <3>5. QED
        BY <3>2, <3>4, <1>10 DEF FirstMapIsOwed
  <2>3. QED
    BY <2>1, <2>2, <1>1, <1>3, <1>4, <1>5 DEF Settled
<1>11. QED
    BY <1>7, <1>8, <1>9, <1>10

\* The removal is told to the reader.
ToldOf(s, e, outcome) ==
    [s EXCEPT !.refreshOwed = @ \/ outcome # "nothing",
              !.hidden = IF Gone(outcome) THEN @ \union {e} ELSE @]

\* complete_deletion: what is hidden, and what the reader is owed.
LEMMA ToldEffect ==
    ASSUME NEW s \in Own, NEW e \in Entries, NEW outcome
    PROVE  LET t == ToldOf(s, e, outcome)
           IN  /\ t \in Own /\ SameButHidden(s, t) /\ t.excused = s.excused /\ t.sent = s.sent
               /\ s.hidden \subseteq t.hidden /\ (Gone(outcome) => e \in t.hidden)
<1> DEFINE x == s.refreshOwed \/ outcome # "nothing"
           h == IF Gone(outcome) THEN s.hidden \union {e} ELSE s.hidden
           t == [s EXCEPT !.refreshOwed = x, !.hidden = h]
<1>1. x \in BOOLEAN
    BY DEF Own
<1>2. h \subseteq Entries /\ s.hidden \subseteq h /\ (Gone(outcome) => e \in h)
    BY DEF Own
<1>3. ToldOf(s, e, outcome) = t
    BY DEF ToldOf
<1> HIDE DEF x, h
<1>4. t \in Own
    BY <1>1, <1>2 DEF Own
<1>5. t.hidden = h
    BY DEF Own
<1>6. SameButHidden(s, t) /\ t.excused = s.excused /\ t.sent = s.sent
    BY DEF Own, SameButHidden, SameJob, SamePublications, SameFlags
<1> HIDE DEF t
<1>7. QED
    BY <1>2, <1>3, <1>4, <1>5, <1>6

\* The owner at the end of an execution of e, from s to t by way of x.
Concluded(s, t, q, ev, sc, rep, dk, e) ==
    \E x \in Own :
        /\ x.lease = s.lease /\ x.installed = s.installed
        /\ Owes(x) => Owes(s) /\ (~s.excused \/ e \notin dk)
        /\ Arrives(x, t, q, ev, NoEntry, sc, rep, dk)

\* Where a handler begins.
LEMMA ArrivesFirst ==
    ASSUME NEW x \in Own, NEW q, NEW ev, NEW ex, NEW sc, NEW rep, NEW dk, ~x.ended,
           Core(x, q, store, ev, ex, sc, rep, dk), AtEase(x)
    PROVE  Arrives(x, x, q, ev, ex, sc, rep, dk) /\ x.lease <= x.latest
<1>1. x.latest \in Nat /\ x.latest >= x.latest
    BY DEF Own
<1>2. ScanOf(x, x, sc) = sc /\ OwesNoMore(x, x) /\ Advances(x, x)
    BY DEF ScanOf, OwesNoMore, Advances
<1>3. x.lease <= x.latest
    BY DEF Core, Nearly, Gens, StoreGens
<1>4. QED
    BY <1>1, <1>2, <1>3 DEF Arrives

\* complete_deletion, and what the loop does behind it.
LEMMA DeletionStep ==
    ASSUME NEW s \in Own, NEW r \in Seq(Messages), Typed, NEW ev \in Seq(Events), NEW sc,
           NEW rep, NEW dk, dk \subseteq Entries, NEW e \in Entries, NEW outcome, ~s.ended,
           Core(s, Fly(r, s), store, ev, e, sc, rep, dk), AtEase(s),
           Gone(outcome) => e \notin dk, NEW now,
           now = IF Gone(outcome) THEN rep \union {e} ELSE rep
    PROVE  LET t == DeletionFinished(s, e, outcome)
           IN  Concluded(s, t, Fly(r, t), ev, sc, now, dk, e)
<1> DEFINE u == ToldOf(s, e, outcome)
           q == Fly(r, s)
           described == outcome = "whole" /\ s.available
           y == IF outcome # "nothing" THEN Reconcile(u, e, described) ELSE u
           x == ExcusedExecutionEnded(y, described)
           t == StartPendingRebuild(x)
<1>1. /\ u \in Own /\ SameButHidden(s, u) /\ u.excused = s.excused /\ u.sent = s.sent
      /\ s.hidden \subseteq u.hidden /\ (Gone(outcome) => e \in u.hidden)
    BY ToldEffect
<1>2. DeletionFinished(s, e, outcome) = t
    BY DEF DeletionFinished, ToldOf
<1>3. e # NoEntry
    BY ReconciliationAssumption
<1>4. Core(u, q, store, ev, e, sc, rep, dk)
    BY <1>1, CoreHides
<1>5. Free(u, q, store, ev, sc, rep, dk)
    BY <1>3, <1>4, EndFrees
<1>6. Fly(r, u) = q
    BY <1>1 DEF Fly
<1>7. AtEase(u) /\ Stays(s, u) /\ OwesNoMore(s, u) /\ u.installed = s.installed /\ u.available = s.available
  <2>1. s.latest \in Nat
    BY DEF Own
  <2>2. QED
    BY <2>1, <1>1 DEF AtEase, Stays, OwesNoMore, Owes, Period, SameButHidden, SameJob, SameFlags,
                      SamePublications
<1>8. /\ described \in BOOLEAN /\ (described => e \notin dk /\ u.available)
      /\ Reports(u, e, rep, now)
    BY <1>1, <1>7 DEF Gone, Reports
<1> HIDE DEF described, u, q
<1>9. /\ Reconciled(u, y, Fly(r, y), ev, sc, now, dk)
      /\ y.excused /\ ~described =>
           FirstMapIsOwed(y) \/ Free(y, Fly(r, y), store, ev, sc, now, dk)
  <2>1. CASE outcome # "nothing"
    <3> DEFINE z == Reconcile(u, e, described)
    <3>1. Free(u, Fly(r, u), store, ev, sc, rep, dk)
        BY <1>5, <1>6
    <3>2. Reconciled(u, z, Fly(r, z), ev, sc, now, dk) /\ (z.excused /\ ~described => FirstMapIsOwed(z))
        BY <3>1, <1>1, <1>7, <1>8, ReconcileStep
    <3>3. y = z
        BY <2>1
    <3> HIDE DEF z, y
    <3>4. QED
        BY <3>2, <3>3
  <2>2. CASE outcome = "nothing"
    <3>1. y = u /\ now = rep
        BY <2>2 DEF Gone
    <3>2. OwesNoMore(u, u) /\ Stays(u, u)
      <4>1. u.latest \in Nat
        BY <1>1 DEF Own
      <4>2. QED
        BY <4>1 DEF OwesNoMore, Stays
    <3>3. Core(u, q, store, ev, NoEntry, sc, rep, dk)
        BY <1>5 DEF Free
    <3> HIDE DEF y
    <3>4. QED
        BY <3>1, <3>2, <3>3, <1>1, <1>5, <1>6, <1>7 DEF Reconciled
  <2>3. QED
    BY <2>1, <2>2
<1> HIDE DEF y
<1>10. /\ y \in Own /\ Core(y, Fly(r, y), store, ev, NoEntry, sc, now, dk) /\ AtEase(y)
       /\ Stays(u, y) /\ OwesNoMore(u, y) /\ y.installed = u.installed
    BY <1>9 DEF Reconciled
<1>11. Settled(y, x, Fly(r, x), ev, sc, now, dk, described)
    BY <1>8, <1>9, <1>10, ExcusedStep
<1> HIDE DEF x
<1>12. /\ x \in Own /\ Core(x, Fly(r, x), store, ev, NoEntry, sc, now, dk) /\ AtEase(x)
       /\ Stays(y, x) /\ x.installed = y.installed
       /\ Owes(x) => Owes(y) /\ (~y.excused \/ described)
    BY <1>11 DEF Settled
<1>13. x.lease = s.lease /\ x.installed = s.installed /\ ~x.ended
    BY <1>7, <1>10, <1>12 DEF Stays
<1>14. Owes(x) => Owes(s) /\ (~s.excused \/ e \notin dk)
    BY <1>7, <1>8, <1>10, <1>12 DEF OwesNoMore
<1>15. Arrives(x, x, Fly(r, x), ev, NoEntry, sc, now, dk) /\ x.lease <= x.latest
    BY <1>12, <1>13, ArrivesFirst
<1>16. Arrives(x, t, Fly(r, t), ev, NoEntry, sc, now, dk)
    BY <1>12, <1>15, RebuildStep
<1> HIDE DEF t
<1>17. QED
    BY <1>2, <1>12, <1>13, <1>14, <1>16 DEF Concluded

\* The plan was rejected.
LEMMA RejectedStep ==
    ASSUME NEW s \in Own, NEW r \in Seq(Messages), Typed, NEW ev \in Seq(Events), NEW sc,
           NEW rep, NEW dk, NEW e, ~s.ended, e # NoEntry,
           Core(s, Fly(r, s), store, ev, e, sc, rep, dk), AtEase(s)
    PROVE  LET t == ExcusedExecutionEnded(s, FALSE)
           IN  Concluded(s, t, Fly(r, t), ev, sc, rep, dk, e)
<1> DEFINE t == ExcusedExecutionEnded(s, No)
<1>1. Free(s, Fly(r, s), store, ev, sc, rep, dk)
    BY EndFrees
<1>2. Core(s, Fly(r, s), store, ev, NoEntry, sc, rep, dk)
    BY <1>1 DEF Free
<1>3. Settled(s, t, Fly(r, t), ev, sc, rep, dk, No)
  <2> DEFINE d == No
  <2>1. d \in BOOLEAN
    BY YesNo
  <2> HIDE DEF d
  <2>2. Settled(s, ExcusedExecutionEnded(s, d), Fly(r, ExcusedExecutionEnded(s, d)), ev, sc, rep, dk, d)
    BY <2>1, <1>1, <1>2, ExcusedStep
  <2>3. QED
    BY <2>2 DEF d
<1>4. ExcusedExecutionEnded(s, FALSE) = t
    BY DEF No
<1> HIDE DEF t
<1>5. /\ t \in Own /\ Core(t, Fly(r, t), store, ev, NoEntry, sc, rep, dk) /\ AtEase(t)
      /\ Stays(s, t) /\ t.installed = s.installed
      /\ Owes(t) => Owes(s) /\ ~s.excused
    BY <1>3, YesNo DEF Settled
<1>6. ~t.ended /\ t.lease = s.lease
    BY <1>5 DEF Stays
<1>7. Arrives(t, t, Fly(r, t), ev, NoEntry, sc, rep, dk)
    BY <1>5, <1>6, ArrivesFirst
<1>8. QED
    BY <1>4, <1>5, <1>6, <1>7 DEF Concluded

-----------------------------------------------------------------------------
(***************************************************************************)
(* Every handler that takes no answers.                                    *)
(***************************************************************************)
LEMMA FlightSent ==
    ASSUME TypeOK, NEW s \in Own, Become(s), results' = results, store' = store
    PROVE  Flight' = Fly(Flight, s)
<1>1. s.sent \in Seq(Messages) /\ commands' = commands \o s.sent
  <2>1. s.sent \in Seq(Commands)
    BY DEF Own
  <2>2. QED
    BY <2>1, Subsequences DEF Become
<1>2. store.held \in Seq(Messages) /\ commands \in Seq(Messages) /\ results \in Seq(Messages)
  <2>1. store.held \in Seq(AnswerSet) /\ commands \in Seq(Commands) /\ results \in Seq(AnswerSet)
    BY DEF TypeOK, Store
  <2>2. QED
    BY <2>1, Subsequences
<1>3. CASE store.running
  <2> DEFINE a == results \o store.held
             n == s.sent
  <2>1. a \in Seq(Messages) /\ n \in Seq(Messages)
    BY <1>1, <1>2, Cat
  <2>2. Fly(Flight, s) = (a \o commands) \o n
    BY <1>3 DEF Fly, Flight
  <2>3. Flight' = a \o (commands \o n)
    BY <1>1, <1>3 DEF Flight
  <2> HIDE DEF a, n
  <2>4. (a \o commands) \o n = a \o (commands \o n)
    BY <2>1, <1>2, Assoc, SMTT(40)
  <2>5. QED
    BY <2>2, <2>3, <2>4
<1>4. CASE ~store.running
    BY <1>4 DEF Fly, Flight
<1>5. QED
    BY <1>3, <1>4

\* o is the owner before the rebuild that may begin, with what it then owes.
LEMMA HandlerStep ==
    ASSUME Inv, ~own.ended, NEW o \in Own, o.lease = own.lease, o.installed = own.installed,
           NEW s, Arrives(o, s, Fly(Flight, s), events', executing', scan, reported', disk),
           Become(s), results' = results, store' = store, disk' = disk,
           events' \in Seq(Events), executing' \in Entries \union {NoEntry},
           reported' \subseteq Entries, excusals' \subseteq Entries,
           Executions(events', executing', reported', disk),
           Owes(o) => \A x \in excusals' \intersect disk : o.excused /\ executing' = x
    PROVE  Inv' /\ (~own'.ended => Advances(own, own'))
<1>0. TypeOK /\ s \in Own
    BY DEF Inv, Arrives
<1>1. Left(o, Fly(Flight, s), events', executing', reported', disk)
    BY <1>0, BecomeStep
<1>2. Flight' = Fly(Flight, s)
    BY <1>0, FlightSent
<1>3. TypeOK'
    BY <1>0, <1>1 DEF TypeOK, Left
<1>4. ASSUME ~own'.ended
      PROVE  /\ Core(own, Flight, store, events, executing, scan, reported, disk)'
             /\ AtRest(own') /\ Excuses(own, executing, excusals, disk)'
             /\ Advances(own, own')
  <2>1. /\ Core(own', Flight', store', events', executing', scan', reported', disk')
        /\ AtRest(own') /\ OwesNoMore(o, own') /\ Advances(o, own')
    BY <1>1, <1>2, <1>4 DEF Left
  <2>2. Excuses(own', executing', excusals', disk')
    BY <2>1 DEF Excuses, OwesNoMore, Owes
  <2>3. Advances(own, own')
    BY <2>1 DEF Advances
  <2>4. QED
    BY <2>1, <2>2, <2>3
<1>5. QED
    BY <1>1, <1>3, <1>4 DEF Inv, Left

-----------------------------------------------------------------------------
(***************************************************************************)
(* The events one by one.                                                  *)
(***************************************************************************)
LEMMA KeepsArrives ==
    ASSUME NEW s \in Own, NEW t \in Own, NEW q, NEW ev, NEW ex, NEW sc, NEW rep, NEW dk,
           ~s.ended, Keeps(s, t), AtEase(s), Core(t, q, store, ev, ex, sc, rep, dk)
    PROVE  Arrives(s, t, q, ev, ex, sc, rep, dk)
<1>1. OwesNoMore(s, t) /\ Advances(s, t) /\ Stays(s, t)
    BY KeepsMoves
<1>2. AtEase(t) /\ ~t.ended
    BY DEF AtEase, Keeps, Fails, SamePublications, SameMap
<1>3. ScanOf(s, t, sc) = sc
    BY <1>1 DEF Stays, ScanOf
<1>4. QED
    BY <1>1, <1>2, <1>3 DEF Arrives, Stays

\* An event that the handler does nothing for but lose the map, or note a failure.
LEMMA KeptStep ==
    ASSUME NEW s \in Own, NEW t \in Own, NEW q, NEW p, NEW ev, NEW ew, NEW ex, NEW sc,
           NEW rep, NEW dk, ~s.ended, Keeps(s, t), AtEase(s), Quiet(q, p), Later(ev, ew),
           Core(s, q, store, ev, ex, sc, rep, dk), ev[1].kind # "batch" \/ ~t.available
    PROVE  Arrives(s, t, p, ew, ex, sc, rep, dk)
<1>1. Core(t, q, store, ev, ex, sc, rep, dk)
    BY CoreFails DEF Keeps
<1>2. Core(t, p, store, ev, ex, sc, rep, dk)
    BY <1>1, CoreQuiet
<1>3. Core(t, p, store, ew, ex, sc, rep, dk)
    BY <1>2, CoreSkips
<1>4. QED
    BY <1>3, KeepsArrives

\* To do nothing keeps the map.
LEMMA SelfKeeps ==
    ASSUME NEW s, NEW r \in Seq(Messages), s \in Own
    PROVE  Keeps(s, s) /\ Quiet(Fly(r, s), Fly(r, s))
<1>1. Keeps(s, s)
    BY DEF Keeps, Fails, SameJob, SamePublications, SameMap
<1>2. QED
    BY <1>1, QuietSame

\* admit_scan_input_runs.
LEMMA AdmitStep ==
    ASSUME NEW s \in Own, NEW r \in Seq(Messages), Typed, NEW ev, NEW ew, NEW ex, NEW sc,
           NEW rep, NEW dk, ~s.ended, AtEase(s), Later(ev, ew), ev[1].kind = "batch",
           Core(s, Fly(r, s), store, ev, ex, sc, rep, dk)
    PROVE  LET t == AdmitRuns(s, ev[1])
           IN  Arrives(s, t, Fly(r, t), ew, ex, sc, rep, dk)
<1> DEFINE g == ev[1].gen
           e == ev[1].entry
           c == Admit(g, e)
           v == Send(s, c)
<1>1. g \in Nat /\ e \in Entries
  <2>1. ev[1] \in Events
    BY LaterFacts
  <2>2. QED
    BY <2>1, EventTyped
<1>2. c \in Commands /\ c.kind = "Admit" /\ c.gen = g /\ c.entry = e
    BY <1>1 DEF Admit, Commands
<1>3. AdmitRuns(s, ev[1]) =
        IF ~s.available THEN s ELSE IF Reaches(s) THEN v ELSE Abandon(v)
    BY DEF AdmitRuns
<1> HIDE DEF c, g, e
<1>4. v \in Own /\ Same(s, v) /\ v.excused = s.excused
    BY <1>2, SendEffect
<1>5. Grows(Fly(r, s), Fly(r, v), c, Reaches(s))
    BY <1>2, SendGrows
<1>6. Keeps(s, v)
    BY <1>4, SameKeeps
<1> HIDE DEF v
<1>7. CASE ~s.available
    BY <1>7, <1>3, SelfKeeps, KeptStep
<1>8. CASE s.available /\ Reaches(s)
  <2>1. Gains(Fly(r, s), Fly(r, v), c)
    BY <1>5, <1>8, GrowsGains
  <2>2. Core(s, Fly(r, v), store, ew, ex, sc, rep, dk)
    BY <2>1, <1>2, CoreAdmitted DEF g, e
  <2>3. Core(v, Fly(r, v), store, ew, ex, sc, rep, dk)
    BY <2>2, <1>6, CoreFails DEF Keeps
  <2>4. Arrives(s, v, Fly(r, v), ew, ex, sc, rep, dk)
    BY <2>3, <1>4, <1>6, KeepsArrives
  <2>5. QED
    BY <2>4, <1>3, <1>8
<1>9. CASE s.available /\ ~Reaches(s)
  <2> DEFINE t == Abandon(v)
  <2>1. Quiet(Fly(r, s), Fly(r, v))
    BY <1>5, <1>9, GrowsQuiet
  <2>2. t \in Own /\ Fails(v, t) /\ Quiet(Fly(r, v), Fly(r, t)) /\ ~t.available
    BY <1>4, AbandonEffect
  <2>3. AdmitRuns(s, ev[1]) = t
    BY <1>3, <1>9
  <2> HIDE DEF t
  <2>4. Keeps(v, t)
    BY <2>2 DEF Keeps
  <2>5. Keeps(s, t) /\ Quiet(Fly(r, s), Fly(r, t))
    BY <2>1, <2>2, <2>4, <1>6, KeepsChain, QuietChain
  <2>6. Arrives(s, t, Fly(r, t), ew, ex, sc, rep, dk)
    BY <2>2, <2>5, KeptStep
  <2>7. QED
    BY <2>3, <2>6
<1>10. QED
    BY <1>7, <1>8, <1>9

\* handle_scan_failure.
LEMMA NoteFailureEffect ==
    ASSUME NEW s \in Own, NEW e \in Entries, NEW r \in Seq(Messages)
    PROVE  LET t == NoteFailure(s, e)
           IN  t \in Own /\ Keeps(s, t) /\ Quiet(Fly(r, s), Fly(r, t))
<1> DEFINE t == [s EXCEPT !.notes = @ \union {e}]
<1>1. t \in Own /\ Same(s, t) /\ t.excused = s.excused /\ t.sent = s.sent
    BY DEF Own, Same, SameJob, SamePublications, SameFlags, SameMap
<1>2. NoteFailure(s, e) = IF s.available THEN t ELSE s
    BY DEF NoteFailure
<1> HIDE DEF t
<1>3. Keeps(s, t) /\ Quiet(Fly(r, s), Fly(r, t))
    BY <1>1, SameKeeps, QuietSame
<1>4. QED
    BY <1>1, <1>2, <1>3, SelfKeeps

Excused(s) == [s EXCEPT !.excused = Yes]

\* A failure is excused.
LEMMA ExcusedEffect ==
    ASSUME NEW s \in Own
    PROVE  LET t == Excused(s)
           IN  t \in Own /\ Same(s, t) /\ t.excused /\ t.sent = s.sent
<1> DEFINE t == [s EXCEPT !.excused = Yes]
<1>1. t \in Own
    BY YesNo, ZenonT(60) DEF Own
<1>2. Same(s, t) /\ t.sent = s.sent
    BY DEF Own, Same, SameJob, SamePublications, SameFlags, SameMap
<1>3. t.excused = Yes
    BY DEF Own
<1> HIDE DEF t
<1>4. t.excused
    BY <1>3, YesNo
<1>5. QED
    BY <1>1, <1>2, <1>4 DEF Excused, t

\* The removal that is reported, or rejected, is the one under way.
LEMMA ExecutionsTail ==
    ASSUME NEW ev, NEW ew, NEW ex, NEW rep, NEW dk,
           Executions(ev, ex, rep, dk), Later(ev, ew)
    PROVE  /\ Executions(ew, ex, rep, dk)
           /\ EndsExecution(ev[1]) =>
                /\ ex # NoEntry
                /\ ev[1].kind = "report" =>
                     ev[1].entry = ex /\ (Gone(ev[1].outcome) => ex \notin dk)
                /\ \A gone : gone \intersect dk = {} =>
                     Executions(ew, NoEntry, rep \union gone, dk)
<1>1. /\ 1 \in 1..Len(ev) /\ ev[1] \in Events /\ Len(ew) \in Nat
      /\ \A i \in 1..Len(ew) : i + 1 \in 1..Len(ev) /\ 1 < i + 1 /\ ew[i] = ev[i + 1]
    BY LaterFacts DEF Later
<1>2. Executions(ew, ex, rep, dk)
  <2>1. \A i \in 1..Len(ew) : EndsExecution(ew[i]) =>
          /\ ex # NoEntry
          /\ ew[i].kind = "report" => ew[i].entry = ex /\ (Gone(ew[i].outcome) => ex \notin dk)
    BY <1>1 DEF Executions
  <2>2. ASSUME NEW i \in 1..Len(ew), NEW j \in 1..Len(ew), EndsExecution(ew[i]), EndsExecution(ew[j])
        PROVE  i = j
    <3>1. /\ i + 1 \in 1..Len(ev) /\ j + 1 \in 1..Len(ev)
          /\ EndsExecution(ev[i + 1]) /\ EndsExecution(ev[j + 1])
        BY <2>2, <1>1
    <3>2. i + 1 = j + 1
        BY <3>1 DEF Executions
    <3>3. QED
        BY <3>2, <1>1
  <2>3. QED
    BY <2>1, <2>2 DEF Executions
<1>3. ASSUME EndsExecution(ev[1])
      PROVE  \A i \in 1..Len(ew) : ~EndsExecution(ew[i])
  <2>1. SUFFICES ASSUME NEW i \in 1..Len(ew), EndsExecution(ew[i]) PROVE FALSE
    OBVIOUS
  <2>2. i + 1 \in 1..Len(ev) /\ 1 < i + 1 /\ EndsExecution(ev[i + 1])
    BY <2>1, <1>1
  <2>3. i + 1 = 1
    BY <2>2, <1>1, <1>3 DEF Executions
  <2>4. QED
    BY <2>2, <2>3
<1>4. ASSUME EndsExecution(ev[1]), NEW gone, gone \intersect dk = {}
      PROVE  Executions(ew, NoEntry, rep \union gone, dk)
  <2>1. (rep \union gone) \intersect dk = {}
    BY <1>4 DEF Executions
  <2>2. QED
    BY <2>1, <1>3, <1>4 DEF Executions
<1>5. QED
    BY <1>1, <1>2, <1>4 DEF Executions

\* What the events that end no execution and excuse nothing leave behind.
LEMMA PlainEventStep ==
    ASSUME Inv, ~own.ended, NEW t, Become(t), results' = results, store' = store, disk' = disk,
           executing' = executing, reported' = reported, excusals' = excusals,
           events # <<>>, events' = Tail(events),
           Arrives(own, t, Fly(Flight, t), Tail(events), executing, scan, reported, disk)
    PROVE  Inv' /\ (~own'.ended => Advances(own, own'))
<1>1. TypeOK /\ own \in Own /\ Excuses(own, executing, excusals, disk)
      /\ Executions(events, executing, reported, disk) /\ events \in Seq(Events)
    BY DEF Inv, TypeOK
<1>2. Later(events, events')
    BY <1>1, TailLater
<1>3. Executions(events', executing', reported', disk)
    BY <1>1, <1>2, ExecutionsTail
<1>4. events' \in Seq(Events) /\ executing' \in Entries \union {NoEntry}
      /\ reported' \subseteq Entries /\ excusals' \subseteq Entries
    BY <1>1, <1>2 DEF TypeOK, Later
<1>5. Owes(own) => \A x \in excusals' \intersect disk : own.excused /\ executing' = x
    BY <1>1 DEF Excuses, Owes
<1>6. Arrives(own, t, Fly(Flight, t), events', executing', scan, reported', disk)
    OBVIOUS
<1>7. QED
    BY <1>1, <1>3, <1>4, <1>5, <1>6, HandlerStep

\* A failure below a deletion's target is taken for the deletion's work.
LEMMA ExcuseStep ==
    ASSUME Inv, ~own.ended, NEW e \in Entries, RemovedByDeletion(own, e), Become(Excuse(own, e)),
           results' = results, store' = store, disk' = disk, executing' = executing,
           reported' = reported, excusals' = excusals \union {e},
           events # <<>>, events' = Tail(events), events[1].kind # "batch"
    PROVE  Inv' /\ (~own'.ended => Advances(own, own'))
<1> DEFINE u == Excused(own)
           t == Excuse(own, e)
<1>0. /\ TypeOK /\ own \in Own /\ Excuses(own, executing, excusals, disk) /\ own.sent = <<>>
      /\ Executions(events, executing, reported, disk) /\ events \in Seq(Events)
      /\ Core(own, Flight, store, events, executing, scan, reported, disk) /\ AtEase(own)
    BY DEF Inv, TypeOK, AtRest, AtEase
<1>1. /\ Flight \in Seq(Messages) /\ Fly(Flight, own) = Flight
    BY <1>0, FlightTyped
<1>2. Later(events, events')
    BY <1>0, TailLater
<1>3. u \in Own /\ Same(own, u) /\ u.excused /\ u.sent = own.sent
    BY <1>0, ExcusedEffect
<1>4. t = IF e \in ToSet(own.prefixes) THEN own ELSE u
    BY DEF Excuse, Excused, Yes
<1> HIDE DEF u, t
<1>5. t \in Own /\ Same(own, t) /\ t.sent = own.sent /\ (t.excused = own.excused \/ t.excused)
    BY <1>0, <1>3, <1>4 DEF Same, SameJob, SamePublications, SameFlags, SameMap
<1>6. Core(t, Fly(Flight, t), store, events', executing, scan, reported, disk)
  <2>1. Fly(Flight, t) = Flight
    BY <1>1, <1>5 DEF Fly
  <2>2. Fails(own, t)
    BY <1>5 DEF Fails, Same, SameFlags
  <2>3. Core(t, Flight, store, events, executing, scan, reported, disk)
    BY <2>2, <1>0, CoreFails
  <2>4. QED
    BY <2>1, <2>3, <1>2, CoreSkips
<1>7. AtEase(t) /\ ~t.ended /\ t.lease = own.lease /\ t.installed = own.installed
    BY <1>0, <1>5 DEF AtEase, Same, SameJob, SamePublications, SameFlags, SameMap
<1>8. Arrives(t, t, Fly(Flight, t), events', executing', scan, reported', disk)
    BY <1>5, <1>6, <1>7, ArrivesFirst
<1>9. ASSUME Owes(t), NEW x \in excusals' \intersect disk
      PROVE  t.excused /\ executing' = x
  <2>1. Owes(own)
    BY <1>9, <1>5 DEF Owes, Period, Same, SameJob, SamePublications, SameFlags, SameMap
  <2>2. CASE x \in excusals
    BY <2>1, <2>2, <1>0, <1>5, <1>9 DEF Excuses, Owes
  <2>3. CASE x = e /\ e \in ToSet(own.prefixes)
    BY <2>1, <2>3, <1>0, <1>9 DEF Owes, Core, Nearly, Flags
  <2>4. CASE x = e /\ e \notin ToSet(own.prefixes)
    BY <2>4, <1>3, <1>4 DEF RemovedByDeletion
  <2>5. QED
    BY <2>2, <2>3, <2>4, <1>9
<1>10. Executions(events', executing', reported', disk)
    BY <1>0, <1>2, ExecutionsTail
<1>11. events' \in Seq(Events) /\ executing' \in Entries \union {NoEntry}
       /\ reported' \subseteq Entries /\ excusals' \subseteq Entries
    BY <1>0, <1>2 DEF TypeOK, Later
<1>12. Become(t)
    BY DEF t
<1>13. QED
    BY <1>5, <1>7, <1>8, <1>9, <1>10, <1>11, <1>12, HandlerStep

\* The end of an execution.
LEMMA ExecutionEndStep ==
    ASSUME Inv, ~own.ended, NEW t, Become(t), results' = results, store' = store, disk' = disk,
           executing' = NoEntry, NEW gone, gone \subseteq Entries, gone \intersect disk = {},
           reported' = reported \union gone, excusals' = excusals,
           events # <<>>, events' = Tail(events), EndsExecution(events[1]),
           Concluded(own, t, Fly(Flight, t), Tail(events), scan, reported', disk, executing)
    PROVE  Inv' /\ (~own'.ended => Advances(own, own'))
<1>0. /\ TypeOK /\ own \in Own /\ Excuses(own, executing, excusals, disk)
      /\ Executions(events, executing, reported, disk) /\ events \in Seq(Events)
    BY DEF Inv, TypeOK
<1>2. Later(events, events')
    BY <1>0, TailLater
<1>3. PICK o \in Own :
        /\ o.lease = own.lease /\ o.installed = own.installed
        /\ Owes(o) => Owes(own) /\ (~own.excused \/ executing \notin disk)
        /\ Arrives(o, t, Fly(Flight, t), events', NoEntry, scan, reported', disk)
    BY DEF Concluded
<1>4. Arrives(o, t, Fly(Flight, t), events', executing', scan, reported', disk)
    BY <1>3
<1>5. Owes(o) => \A x \in excusals' \intersect disk : o.excused /\ executing' = x
    BY <1>0, <1>3 DEF Excuses, Owes
<1>6. Executions(events', executing', reported', disk)
    BY <1>0, <1>2, ExecutionsTail
<1>7. events' \in Seq(Events) /\ executing' \in Entries \union {NoEntry}
       /\ reported' \subseteq Entries /\ excusals' \subseteq Entries
    BY <1>0, <1>2 DEF TypeOK, Later
<1>8. QED
    BY <1>3, <1>4, <1>5, <1>6, <1>7, HandlerStep

\* process_worker_batch.
LEMMA TakeEventStep ==
    ASSUME Inv, TakeEvent
    PROVE  Inv' /\ (~own'.ended => Advances(own, own'))
<1> DEFINE event == events[1]
           t == Handle(own, event)
           excused == event.kind = "gone" /\ RemovedByDeletion(own, event.entry)
<1>0. /\ TypeOK /\ ~own.ended /\ own \in Own /\ own.sent = <<>> /\ AtEase(own)
      /\ Core(own, Flight, store, events, executing, scan, reported, disk)
      /\ Executions(events, executing, reported, disk)
    BY DEF Inv, TakeEvent, TypeOK, AtRest, AtEase
<1>t. /\ Flight \in Seq(Messages) /\ Typed
      /\ events \in Seq(Events) /\ disk \subseteq Entries /\ Fly(Flight, own) = Flight
    BY <1>0, FlightTyped
<1>1. events # <<>> /\ Head(events) = event /\ Later(events, Tail(events))
    BY <1>t, TailLater DEF TakeEvent
<1>2. /\ Become(t) /\ events' = Tail(events) /\ results' = results /\ store' = store /\ disk' = disk
      /\ executing' = IF EndsExecution(event) THEN NoEntry ELSE executing
      /\ reported' = IF event.kind = "report" /\ Gone(event.outcome)
                     THEN reported \union {event.entry} ELSE reported
      /\ excusals' = IF excused THEN excusals \union {event.entry} ELSE excusals
    BY <1>1 DEF TakeEvent
<1>3. /\ event \in Events
      /\ event.kind \in {"batch", "failed", "gone", "capacity", "rejected", "finished", "report"}
      /\ event.kind \in {"batch", "failed", "gone"} => event.gen \in Nat /\ event.entry \in Entries
      /\ event.kind = "report" => event.entry \in Entries
    BY <1>1, LaterFacts, EventTyped
<1> HIDE DEF event, t, excused
<1>c. Core(own, Fly(Flight, own), store, events, executing, scan, reported, disk)
    BY <1>0, <1>t
<1>4. ASSUME ~EndsExecution(event), ~excused,
             Arrives(own, t, Fly(Flight, t), Tail(events), executing, scan, reported, disk)
      PROVE  Inv' /\ (~own'.ended => Advances(own, own'))
  <2>1. executing' = executing /\ reported' = reported /\ excusals' = excusals
    BY <1>4, <1>2 DEF EndsExecution
  <2>2. QED
    BY <2>1, <1>4, <1>0, <1>1, <1>2, PlainEventStep
<1>5. CASE event.kind = "batch"
  <2>1. t = AdmitRuns(own, event)
    BY <1>5 DEF t, Handle
  <2>2. Arrives(own, t, Fly(Flight, t), Tail(events), executing, scan, reported, disk)
    BY <2>1, <1>5, <1>0, <1>1, <1>c, <1>t, AdmitStep DEF event
  <2>3. QED
    BY <2>2, <1>4, <1>5 DEF EndsExecution, excused
<1>6. CASE event.kind = "failed" \/ (event.kind = "gone" /\ ~excused)
  <2>1. t = NoteFailure(own, event.entry)
    BY <1>6 DEF t, Handle, excused
  <2>2. t \in Own /\ Keeps(own, t) /\ Quiet(Fly(Flight, own), Fly(Flight, t))
    BY <2>1, <1>0, <1>3, <1>6, <1>t, NoteFailureEffect
  <2>3. Arrives(own, t, Fly(Flight, t), Tail(events), executing, scan, reported, disk)
    BY <2>2, <1>6, <1>0, <1>1, <1>c, KeptStep DEF event
  <2>4. QED
    BY <2>3, <1>4, <1>6 DEF EndsExecution, excused
<1>7. CASE event.kind = "gone" /\ excused
  <2>1. t = Excuse(own, event.entry)
    BY <1>7 DEF t, Handle, excused
  <2>2. executing' = executing /\ reported' = reported /\ excusals' = excusals \union {event.entry}
    BY <1>2, <1>7 DEF EndsExecution
  <2>3. RemovedByDeletion(own, event.entry) /\ event.entry \in Entries
    BY <1>3, <1>7 DEF excused
  <2>4. Become(Excuse(own, event.entry))
    BY <2>1, <1>2
  <2>5. events[1].kind # "batch"
    BY <1>7 DEF event
  <2>6. QED
    BY <2>2, <2>3, <2>4, <2>5, <1>0, <1>1, <1>2, ExcuseStep
<1>8. CASE event.kind = "capacity"
  <2>1. t = FailStore(own)
    BY <1>8 DEF t, Handle
  <2>2. t \in Own /\ Keeps(own, t) /\ Quiet(Fly(Flight, own), Fly(Flight, t))
    BY <2>1, <1>0, <1>t, FailStoreKeeps
  <2>3. Arrives(own, t, Fly(Flight, t), Tail(events), executing, scan, reported, disk)
    BY <2>2, <1>8, <1>0, <1>1, <1>c, KeptStep DEF event
  <2>4. QED
    BY <2>3, <1>4, <1>8 DEF EndsExecution, excused
<1>9. CASE event.kind = "finished"
  <2>1. t = ScanFinished(own, event.cancelled)
    BY <1>9 DEF t, Handle
  <2>2. Arrives(own, t, Fly(Flight, t), Tail(events), executing, scan, reported, disk)
    BY <2>1, <1>9, <1>0, <1>1, <1>c, <1>t, ScanFinishedStep DEF event
  <2>3. QED
    BY <2>2, <1>4, <1>9 DEF EndsExecution, excused
<1>10. ASSUME EndsExecution(event)
       PROVE  /\ executing # NoEntry /\ executing' = NoEntry /\ excusals' = excusals
              /\ Core(own, Fly(Flight, own), store, Tail(events), executing, scan, reported, disk)
              /\ event.kind = "report" =>
                   event.entry = executing /\ (Gone(event.outcome) => executing \notin disk)
              /\ Tail(events) \in Seq(Events)
  <2>1. /\ executing # NoEntry
        /\ event.kind = "report" =>
             event.entry = executing /\ (Gone(event.outcome) => executing \notin disk)
    BY <1>10, <1>0, <1>1, ExecutionsTail DEF event
  <2>2. events[1].kind # "batch"
    BY <1>10 DEF EndsExecution, event
  <2>3. Core(own, Fly(Flight, own), store, Tail(events), executing, scan, reported, disk)
    BY <2>2, <1>1, <1>c, CoreSkips
  <2>4. executing' = NoEntry /\ excusals' = excusals
    BY <1>2, <1>10 DEF EndsExecution, excused
  <2>5. QED
    BY <2>1, <2>3, <2>4, <1>1 DEF Later
<1>11. CASE event.kind = "rejected"
  <2> DEFINE gone == {}
  <2>1. EndsExecution(event) /\ t = ExcusedExecutionEnded(own, FALSE) /\ reported' = reported
    BY <1>11, <1>2 DEF EndsExecution, t, Handle
  <2>2. Concluded(own, t, Fly(Flight, t), Tail(events), scan, reported, disk, executing)
    BY <2>1, <1>10, <1>0, <1>t, RejectedStep
  <2>3. Concluded(own, t, Fly(Flight, t), Tail(events), scan, reported', disk, executing)
    BY <2>1, <2>2
  <2>4. EndsExecution(events[1])
    BY <2>1 DEF event
  <2>5. reported' = reported \union gone /\ gone \subseteq Entries /\ gone \intersect disk = {}
    BY <2>1
  <2> HIDE DEF gone
  <2>6. QED
    BY <2>1, <2>3, <2>4, <2>5, <1>0, <1>1, <1>2, <1>10, ExecutionEndStep
<1>12. CASE event.kind = "report"
  <2> DEFINE gone == IF Gone(event.outcome) THEN {event.entry} ELSE {}
  <2>1. EndsExecution(event) /\ t = DeletionFinished(own, event.entry, event.outcome)
    BY <1>12 DEF EndsExecution, t, Handle
  <2>2. event.entry = executing /\ (Gone(event.outcome) => executing \notin disk)
        /\ event.entry \in Entries
    BY <2>1, <1>3, <1>10, <1>12
  <2>3. reported' = reported \union gone /\ gone \subseteq Entries /\ gone \intersect disk = {}
    BY <2>2, <1>2, <1>12
  <2>4. reported' = IF Gone(event.outcome) THEN reported \union {executing} ELSE reported
    BY <2>2, <1>2, <1>12
  <2>5. Concluded(own, t, Fly(Flight, t), Tail(events), scan, reported', disk, executing)
    <3> DEFINE outcome == event.outcome
               now == reported'
    <3>1. t = DeletionFinished(own, executing, outcome) /\ executing \in Entries
        BY <2>1, <2>2
    <3>2. now = IF Gone(outcome) THEN reported \union {executing} ELSE reported
        BY <2>4
    <3>3. Gone(outcome) => executing \notin disk
        BY <2>2
    <3> HIDE DEF outcome, now
    <3> DEFINE ew == Tail(events)
    <3>a. Core(own, Fly(Flight, own), store, ew, executing, scan, reported, disk) /\ ew \in Seq(Events)
        BY <2>1, <1>10
    <3> HIDE DEF ew
    <3>b. LET u == DeletionFinished(own, executing, outcome)
          IN  Concluded(own, u, Fly(Flight, u), ew, scan, now, disk, executing)
        BY <3>1, <3>2, <3>3, <3>a, <1>0, <1>t, DeletionStep
    <3>4. Concluded(own, t, Fly(Flight, t), ew, scan, now, disk, executing)
        BY <3>1, <3>b
    <3>5. QED
        BY <3>4 DEF now, ew
  <2>6. EndsExecution(events[1])
    BY <2>1 DEF event
  <2> HIDE DEF gone
  <2>7. QED
    BY <2>1, <2>3, <2>5, <2>6, <1>0, <1>1, <1>2, <1>10, ExecutionEndStep
<1>13. QED
    BY <1>3, <1>5, <1>6, <1>7, <1>8, <1>9, <1>11, <1>12

-----------------------------------------------------------------------------
(***************************************************************************)
(* The store thread, the scan and the executor.                            *)
(***************************************************************************)
LEMMA StoreStepTyped ==
    ASSUME TypeOK, Apply \/ SendHeld \/ ThreadStops
    PROVE  store' \in Store /\ commands' \in Seq(Commands) /\ results' \in Seq(AnswerSet)
<1>t. /\ store \in Store /\ store.held \in Seq(AnswerSet) /\ commands \in Seq(Commands)
      /\ results \in Seq(AnswerSet)
    BY DEF TypeOK, Store
<1>1. CASE Apply
  <2>1. PICK o \in Outcomes(store, Head(commands)) :
            IF RoomForResult
            THEN results' = results \o o.answer /\ store' = o.store
            ELSE results' = results /\ store' = [o.store EXCEPT !.held = o.answer]
    BY <1>1 DEF Apply
  <2>2. Head(commands) \in Commands /\ commands' = Tail(commands) /\ commands' \in Seq(Commands)
    BY <1>1, <1>t DEF Apply
  <2>3. OutcomeTyped(store, o)
    BY <2>2, <1>t, OutcomesTyped
  <2>4. o.store \in Store /\ o.answer \in Seq(AnswerSet)
    BY <2>3, AnswerSequences DEF OutcomeTyped
  <2>5. CASE RoomForResult
    BY <2>1, <2>2, <2>4, <2>5, <1>t, AnswerSequences
  <2>6. CASE ~RoomForResult
    <3>1. store' = Holding(o.store, o.answer)
        BY <2>1, <2>6 DEF Holding
    <3>2. QED
        BY <3>1, <2>1, <2>2, <2>4, <2>6, <1>t, StoreFields
  <2>7. QED
    BY <2>5, <2>6
<1>2. CASE SendHeld
  <2> DEFINE h == <<>>
  <2>1. h \in Seq(AnswerSet) /\ store' = Holding(store, h)
        /\ results' = results \o store.held /\ commands' = commands
    BY <1>2, AnswerSequences DEF SendHeld, Holding
  <2> HIDE DEF h
  <2>2. QED
    BY <2>1, <1>t, AnswerSequences, StoreFields
<1>3. CASE ThreadStops
  <2>1. store' = Lost(store) /\ results' = results /\ commands' = commands
    BY <1>3 DEF ThreadStops, Lost
  <2>2. QED
    BY <2>1, <1>t, AnswerSequences, StoreFields
<1>4. QED
    BY <1>1, <1>2, <1>3

\* A step of the store thread keeps the invariant.
LEMMA StoreStepInv ==
    ASSUME Inv, StoreStep
    PROVE  Inv' /\ Advances(own, own')
<1>1. /\ own' = own /\ events' = events /\ scan' = scan /\ executing' = executing
      /\ reported' = reported /\ excusals' = excusals /\ disk' = disk
      /\ Apply \/ SendHeld \/ ThreadStops
    BY DEF StoreStep, history, Apply, SendHeld, ThreadStops
<1>2. TypeOK
    BY DEF Inv
<1>3. TypeOK'
    BY <1>1, <1>2, StoreStepTyped DEF TypeOK
<1>4. Executions(events', executing', reported', disk')
    BY <1>1 DEF Inv
<1>5. ASSUME ~own.ended
      PROVE  Core(own, Flight', store', events, executing, scan, reported, disk)
  <2>1. Core(own, Flight, store, events, executing, scan, reported, disk) /\ own \in Own
    BY <1>2, <1>5 DEF Inv, TypeOK
  <2>2. QED
    BY <2>1, <1>1, <1>2, StoreStepCore
<1>6. ASSUME ~own'.ended
      PROVE  /\ Core(own', Flight', store', events', executing', scan', reported', disk')
             /\ AtRest(own') /\ Excuses(own', executing', excusals', disk')
    BY <1>1, <1>5, <1>6 DEF Inv
<1>7. QED
    BY <1>1, <1>3, <1>4, <1>6 DEF Inv, Advances

-----------------------------------------------------------------------------
\* ew has what ev has, and events behind it that tell the map nothing.
Hears(ev, ew) ==
    /\ ev \in Seq(Events) /\ ew \in Seq(Events) /\ Len(ev) <= Len(ew)
    /\ \A i \in 1..Len(ev) : ew[i] = ev[i]
    /\ \A i \in (Len(ev) + 1)..Len(ew) : ew[i].kind \notin {"batch", "finished"}
\* What exists and was not listed is still to be listed.
SameScan(sc, sd, dk) ==
    /\ sd.gen = sc.gen /\ sd.cancelled = sc.cancelled
    /\ \A x \in dk : sc.seen[x] = "unread" => sd.seen[x] = "unread"

\* Which events there are behind such an addition.
LEMMA HearsFacts ==
    ASSUME NEW ev, NEW ew, Hears(ev, ew)
    PROVE  /\ \A i \in 1..Len(ev) : i \in 1..Len(ew) /\ ew[i] = ev[i]
           /\ \A i \in 1..Len(ew) : ew[i].kind \in {"batch", "finished"} =>
                i \in 1..Len(ev) /\ ew[i] = ev[i]
<1>1. Len(ev) \in Nat /\ Len(ew) \in Nat /\ Len(ev) <= Len(ew)
    BY DEF Hears
<1>2. \A i \in 1..Len(ew) : i \in 1..Len(ev) \/ i \in (Len(ev) + 1)..Len(ew)
    BY <1>1
<1>3. QED
    BY <1>1, <1>2 DEF Hears

\* Events the map does not depend on.
LEMMA CoreHears ==
    ASSUME NEW s, NEW q, NEW st, NEW ev, NEW ew, NEW ex, NEW sc, NEW sd, NEW rep, NEW dk,
           Core(s, q, st, ev, ex, sc, rep, dk), Hears(ev, ew), SameScan(sc, sd, dk)
    PROVE  Core(s, q, st, ew, ex, sd, rep, dk)
<1>1. /\ \A i \in 1..Len(ev) : i \in 1..Len(ew) /\ ew[i] = ev[i]
      /\ \A i \in 1..Len(ew) : ew[i].kind \in {"batch", "finished"} =>
           i \in 1..Len(ev) /\ ew[i] = ev[i]
    BY HearsFacts
<1>2. /\ Gens(s, q, st, ev) /\ Phase(s) /\ Job(s, ev, sc) /\ Flags(s, ex, dk)
      /\ Cancelled(s, ev, ex, sc) /\ Cancellation(s, q, ev, ex, sc) /\ Shown(s, rep, dk)
      /\ Mode(s, q, st, ev, ex, sc, rep, dk) /\ Cleared(s) /\ HiddenOverlay(s, q, rep)
    BY DEF Core, Nearly
<1>3. Gens(s, q, st, ew)
    BY <1>1, <1>2 DEF Gens, EventGens
<1>4. Job(s, ew, sd)
  <2>1. sd.gen # NoGeneration => Scanned(s) /\ sd.gen = IF s.primaryScan THEN 0 ELSE s.lease
    BY <1>2 DEF Job, SameScan
  <2>2. \A i \in 1..Len(ew) : ew[i].kind = "finished" =>
          /\ Scanned(s) /\ sd.gen = NoGeneration
          /\ \A j \in 1..Len(ew) : ew[j].kind = "finished" => i = j
          /\ \A j \in 1..Len(ew) : ew[j].kind = "batch" => j < i
    BY <1>1, <1>2 DEF Job, SameScan
  <2>3. Working(s) => \A i \in 1..Len(ew) : IsBatch(ew[i], JobGen(s)) => Scanned(s)
    BY <1>1, <1>2 DEF Job, IsBatch
  <2>4. QED
    BY <2>1, <2>2, <2>3 DEF Job
<1>5. CancelledJob(s, ew, sd) <=> CancelledJob(s, ev, sc)
    BY <1>1 DEF CancelledJob, SameScan
<1>6. Cancelled(s, ew, ex, sd) /\ Cancellation(s, q, ew, ex, sd)
      /\ (GivenUp(s, ev, ex, sc) => GivenUp(s, ew, ex, sd))
    BY <1>2, <1>5 DEF Cancelled, Cancellation, CancelSent, GivenUp
<1>7. \A g, e : Lists(g, q, st, ew, e) => Lists(g, q, st, ev, e)
    BY <1>1 DEF Lists, IsBatch
<1>8. ASSUME Regular(s, q, st, ev, sc, rep, dk) PROVE Regular(s, q, st, ew, sd, rep, dk)
  <2>1. HiddenFirst(s, q, st, ew, rep) /\ HiddenRebuild(s, q, st, ew, rep) /\ RebuildShrinks(s, q, st, ew)
    BY <1>7, <1>8 DEF Regular, HiddenFirst, HiddenRebuild, RebuildShrinks
  <2>2. \A x \in dk : ToBeTold(s, ev, sc, x) => ToBeTold(s, ew, sd, x)
    BY <1>1 DEF ToBeTold, SameScan, IsBatch
  <2>3. Pipeline(s, q, st, ew, sd, dk)
    BY <2>2, <1>8 DEF Regular, Pipeline, Delivered
  <2>4. QED
    BY <2>1, <2>3, <1>8 DEF Regular
<1>9. Mode(s, q, st, ew, ex, sd, rep, dk)
    BY <1>2, <1>6, <1>8 DEF Mode
<1>10. QED
    BY <1>2, <1>3, <1>4, <1>6, <1>9 DEF Core, Nearly

\* ew is ev with the event x behind it.
Told(ev, ew, x) ==
    /\ ev \in Seq(Events) /\ ew \in Seq(Events) /\ Len(ew) = Len(ev) + 1
    /\ \A i \in 1..Len(ev) : ew[i] = ev[i]
    /\ ew[Len(ew)] = x

\* The elements of the channel with one more.
LEMMA ToldFacts ==
    ASSUME NEW ev, NEW ew, NEW x, Told(ev, ew, x)
    PROVE  /\ Len(ev) \in Nat /\ Len(ew) \in 1..Len(ew) /\ ew[Len(ew)] = x
           /\ \A i \in 1..Len(ev) : i \in 1..Len(ew) /\ ew[i] = ev[i] /\ i < Len(ew)
           /\ \A i \in 1..Len(ew) :
                \/ i \in 1..Len(ev) /\ ew[i] = ev[i]
                \/ i = Len(ew) /\ ew[i] = x
<1>1. Len(ev) \in Nat /\ Len(ew) = Len(ev) + 1
    BY DEF Told
<1>2. \A i \in 1..Len(ew) : i \in 1..Len(ev) \/ i = Len(ew)
    BY <1>1
<1>3. QED
    BY <1>1, <1>2 DEF Told

\* Appending is such an addition.
LEMMA AppendTold ==
    ASSUME NEW ev \in Seq(Events), NEW x \in Events
    PROVE  Told(ev, Append(ev, x), x)
<1> DEFINE ew == Append(ev, x)
<1>1. ew \in Seq(Events) /\ Len(ew) = Len(ev) + 1 /\ ew[Len(ev) + 1] = x
      /\ \A i \in 1..Len(ev) : ew[i] = ev[i]
    BY AppendProperties
<1> HIDE DEF ew
<1>2. QED
    BY <1>1 DEF Told, ew

\* An event that is neither a batch nor the end of a scan.
LEMMA ToldHears ==
    ASSUME NEW ev, NEW ew, NEW x, Told(ev, ew, x), x.kind \notin {"batch", "finished"}
    PROVE  Hears(ev, ew)
<1>1. Len(ev) \in Nat /\ Len(ew) = Len(ev) + 1
    BY DEF Told
<1>2. \A i \in (Len(ev) + 1)..Len(ew) : i = Len(ew)
    BY <1>1
<1>3. QED
    BY <1>1, <1>2 DEF Hears, Told

\* The scan under way is the job's.
LEMMA ScanGeneration ==
    ASSUME NEW s, NEW ev, NEW sc, Phase(s), Job(s, ev, sc), sc.gen # NoGeneration
    PROVE  /\ Scanned(s) /\ sc.gen = JobGen(s)
           /\ \A i \in 1..Len(ev) : ev[i].kind # "finished"
    BY DEF Job, Phase, Scanned, JobGen

\* An entry is listed, and still to be told to the store.
LEMMA CoreListed ==
    ASSUME NEW s, NEW q, NEW st, NEW ev, NEW ew, NEW ex, NEW sc, NEW sd, NEW rep, NEW dk,
           NEW x, NEW e \in Entries, s.latest \in Nat,
           Core(s, q, st, ev, ex, sc, rep, dk), Told(ev, ew, x), x.kind = "batch",
           x.gen = sc.gen, x.entry = e, sc.gen # NoGeneration, e \in dk, rep \intersect dk = {},
           sd.gen = sc.gen, sd.cancelled = sc.cancelled,
           \A y \in dk : y = e \/ (sc.seen[y] = "unread" => sd.seen[y] = "unread")
    PROVE  Core(s, q, st, ew, ex, sd, rep, dk)
<1>1. /\ Len(ev) \in Nat /\ Len(ew) \in 1..Len(ew) /\ ew[Len(ew)] = x
      /\ \A i \in 1..Len(ev) : i \in 1..Len(ew) /\ ew[i] = ev[i]
      /\ \A i \in 1..Len(ew) :
           \/ i \in 1..Len(ev) /\ ew[i] = ev[i]
           \/ i = Len(ew) /\ ew[i] = x
    BY ToldFacts
<1>2. /\ Gens(s, q, st, ev) /\ Phase(s) /\ Job(s, ev, sc) /\ Flags(s, ex, dk)
      /\ Cancelled(s, ev, ex, sc) /\ Cancellation(s, q, ev, ex, sc) /\ Shown(s, rep, dk)
      /\ Mode(s, q, st, ev, ex, sc, rep, dk) /\ Cleared(s) /\ HiddenOverlay(s, q, rep)
    BY DEF Core, Nearly
<1>3. /\ Scanned(s) /\ sc.gen = JobGen(s) /\ \A i \in 1..Len(ew) : ew[i].kind # "finished"
  <2>1. Scanned(s) /\ sc.gen = JobGen(s) /\ \A i \in 1..Len(ev) : ev[i].kind # "finished"
    BY <1>2, ScanGeneration
  <2>2. QED
    BY <2>1, <1>1
<1>4. Gens(s, q, st, ew)
  <2>1. sc.gen <= s.latest
    BY <1>2 DEF Gens, StoreGens, Job
  <2>2. EventGens(s, ew)
    BY <2>1, <1>1, <1>2 DEF Gens, EventGens
  <2>3. QED
    BY <2>2, <1>2 DEF Gens
<1>5. Job(s, ew, sd)
    BY <1>2, <1>3 DEF Job
<1>6. CancelledJob(s, ew, sd) <=> CancelledJob(s, ev, sc)
  <2>1. \A i \in 1..Len(ev) : ev[i].kind # "finished"
    BY <1>1, <1>3
  <2>2. QED
    BY <2>1, <1>3 DEF CancelledJob
<1>7. Cancelled(s, ew, ex, sd) /\ Cancellation(s, q, ew, ex, sd)
      /\ (GivenUp(s, ev, ex, sc) => GivenUp(s, ew, ex, sd))
    BY <1>2, <1>6 DEF Cancelled, Cancellation, CancelSent, GivenUp
<1>8. \A g, y : Lists(g, q, st, ew, y) => y = e \/ Lists(g, q, st, ev, y)
    BY <1>1 DEF Lists, IsBatch
<1>9. ASSUME Regular(s, q, st, ev, sc, rep, dk) PROVE Regular(s, q, st, ew, sd, rep, dk)
  <2>1. HiddenFirst(s, q, st, ew, rep) /\ HiddenRebuild(s, q, st, ew, rep)
    BY <1>8, <1>9 DEF Regular, HiddenFirst, HiddenRebuild
  <2>2. RebuildShrinks(s, q, st, ew)
    BY <1>2, <1>8, <1>9 DEF Regular, RebuildShrinks, Shown
  <2>3. \A y \in dk : ToBeTold(s, ev, sc, y) => ToBeTold(s, ew, sd, y)
    <3>1. SUFFICES ASSUME NEW y \in dk, ToBeTold(s, ev, sc, y) PROVE ToBeTold(s, ew, sd, y)
        OBVIOUS
    <3>2. CASE y = e
        BY <3>2, <1>1, <1>3 DEF ToBeTold, IsBatch
    <3>3. CASE y # e /\ sc.seen[y] = "unread"
        BY <3>3 DEF ToBeTold
    <3>4. CASE \E i \in 1..Len(ev) : IsBatch(ev[i], JobGen(s)) /\ ev[i].entry = y
        BY <3>4, <1>1 DEF ToBeTold
    <3>5. QED
        BY <3>1, <3>2, <3>3, <3>4 DEF ToBeTold
  <2>4. Pipeline(s, q, st, ew, sd, dk)
    BY <2>3, <1>9 DEF Regular, Pipeline, Delivered
  <2>5. QED
    BY <2>1, <2>2, <2>4, <1>9 DEF Regular
<1>10. Mode(s, q, st, ew, ex, sd, rep, dk)
    BY <1>2, <1>7, <1>9 DEF Mode
<1>11. QED
    BY <1>2, <1>4, <1>5, <1>7, <1>10 DEF Core, Nearly

\* The scan is over, and says so.
LEMMA CoreEndsScan ==
    ASSUME NEW s, NEW q, NEW st, NEW ev, NEW ew, NEW ex, NEW sc, NEW sd, NEW rep, NEW dk,
           NEW x, dk \subseteq Entries,
           Core(s, q, st, ev, ex, sc, rep, dk), Told(ev, ew, x), x.kind = "finished",
           x.cancelled = sc.cancelled, sc.gen # NoGeneration, sd.gen = NoGeneration,
           \/ sc.cancelled \/ sc.gen # s.epoch
           \/ \A e \in Entries : sc.seen[e] = "told"
    PROVE  Core(s, q, st, ew, ex, sd, rep, dk)
<1>1. /\ Len(ev) \in Nat /\ Len(ew) \in 1..Len(ew) /\ ew[Len(ew)] = x
      /\ \A i \in 1..Len(ev) : i \in 1..Len(ew) /\ ew[i] = ev[i] /\ i < Len(ew)
      /\ \A i \in 1..Len(ew) :
           \/ i \in 1..Len(ev) /\ ew[i] = ev[i]
           \/ i = Len(ew) /\ ew[i] = x
    BY ToldFacts
<1>2. /\ Gens(s, q, st, ev) /\ Phase(s) /\ Job(s, ev, sc) /\ Flags(s, ex, dk)
      /\ Cancelled(s, ev, ex, sc) /\ Cancellation(s, q, ev, ex, sc) /\ Shown(s, rep, dk)
      /\ Mode(s, q, st, ev, ex, sc, rep, dk) /\ Cleared(s) /\ HiddenOverlay(s, q, rep)
    BY DEF Core, Nearly
<1>3. Scanned(s) /\ sc.gen = JobGen(s) /\ \A i \in 1..Len(ev) : ev[i].kind # "finished"
    BY <1>2, ScanGeneration
<1>4. Gens(s, q, st, ew)
    BY <1>1, <1>2 DEF Gens, EventGens
<1>5. Job(s, ew, sd)
  <2>1. \A i \in 1..Len(ew) : ew[i].kind = "finished" => i = Len(ew)
    BY <1>1, <1>3
  <2>2. \A j \in 1..Len(ew) : ew[j].kind = "batch" => j < Len(ew)
    BY <1>1
  <2>3. \A i \in 1..Len(ew) : ew[i].kind = "finished" =>
          /\ Scanned(s) /\ sd.gen = NoGeneration
          /\ \A j \in 1..Len(ew) : ew[j].kind = "finished" => i = j
          /\ \A j \in 1..Len(ew) : ew[j].kind = "batch" => j < i
    BY <2>1, <2>2, <1>3
  <2>4. QED
    BY <2>3, <1>3 DEF Job
<1>6. CancelledJob(s, ew, sd) => CancelledJob(s, ev, sc)
    BY <1>1, <1>3 DEF CancelledJob
<1>7. Cancelled(s, ew, ex, sd) /\ Cancellation(s, q, ew, ex, sd)
      /\ (GivenUp(s, ev, ex, sc) => GivenUp(s, ew, ex, sd))
    BY <1>2, <1>6 DEF Cancelled, Cancellation, CancelSent, GivenUp
<1>8. \A g, y : Lists(g, q, st, ew, y) => Lists(g, q, st, ev, y)
    BY <1>1 DEF Lists, IsBatch
<1>9. ASSUME Regular(s, q, st, ev, sc, rep, dk) PROVE Regular(s, q, st, ew, sd, rep, dk)
  <2>1. HiddenFirst(s, q, st, ew, rep) /\ HiddenRebuild(s, q, st, ew, rep) /\ RebuildShrinks(s, q, st, ew)
    BY <1>8, <1>9 DEF Regular, HiddenFirst, HiddenRebuild, RebuildShrinks
  <2>2. ASSUME Working(s), NEW y \in dk, s.available, s.loaded => ~s.invalidated /\ ~s.suppressed,
               ToBeTold(s, ev, sc, y)
        PROVE  ToBeTold(s, ew, sd, y)
    <3>1. ~sc.cancelled
      <4>1. SUFFICES ASSUME sc.cancelled PROVE FALSE
        OBVIOUS
      <4>2. CancelledJob(s, ev, sc)
        BY <4>1 DEF CancelledJob
      <4>3. s.active /\ (~s.suppressed => s.invalidated)
        BY <4>2, <1>2 DEF Cancelled
      <4>4. s.loaded
        BY <4>3, <1>2 DEF Phase
      <4>5. QED
        BY <4>3, <4>4, <2>2
    <3>2. sc.gen = s.epoch
      <4>1. CASE s.loaded
        BY <4>1, <2>2, <1>3 DEF Working, Sound, JobGen
      <4>2. CASE ~s.loaded
        BY <4>2, <1>2, <1>3 DEF JobGen, Phase, Gens, StoreGens
      <4>3. QED
        BY <4>1, <4>2
    <3>3. sc.seen[y] # "unread"
        BY <3>1, <3>2
    <3>4. QED
        BY <3>3, <2>2, <1>1 DEF ToBeTold
  <2>3. Pipeline(s, q, st, ew, sd, dk)
    BY <2>2, <1>9 DEF Regular, Pipeline, Delivered
  <2>4. QED
    BY <2>1, <2>3, <1>9 DEF Regular
<1>10. Mode(s, q, st, ew, ex, sd, rep, dk)
    BY <1>2, <1>7, <1>9 DEF Mode
<1>11. QED
    BY <1>2, <1>4, <1>5, <1>7, <1>10 DEF Core, Nearly

\* A deletion starts: nothing is owed to a rebuild.
LEMMA CoreDeletes ==
    ASSUME NEW s, NEW q, NEW st, NEW ev, NEW ex, NEW sc, NEW rep, NEW dk, NEW e,
           Core(s, q, st, ev, ex, sc, rep, dk), s.available, ~Period(s)
    PROVE  Core(s, q, st, ev, e, sc, rep, dk)
<1>1. /\ Flags(s, ex, dk) /\ Cancelled(s, ev, ex, sc) /\ Cancellation(s, q, ev, ex, sc)
      /\ Mode(s, q, st, ev, ex, sc, rep, dk)
    BY DEF Core, Nearly
<1>2. ~s.required /\ ~s.active
    BY DEF Period
<1>3. Flags(s, e, dk)
    BY <1>1 DEF Flags
<1>4. Cancelled(s, ev, e, sc)
    BY <1>1, <1>2 DEF Cancelled
<1>5. ~CancelSent(s, ev, ex, sc)
    BY <1>2 DEF CancelSent, GivenUp
<1>6. Cancellation(s, q, ev, e, sc)
    BY <1>1, <1>5 DEF Cancellation
<1>7. Mode(s, q, st, ev, e, sc, rep, dk)
    BY <1>1, <1>2 DEF Mode, GivenUp, Doomed
<1>8. QED
    BY <1>3, <1>4, <1>6, <1>7 DEF Core, Nearly

\* An entry is removed.
LEMMA CoreRemoves ==
    ASSUME NEW s, NEW q, NEW st, NEW ev, NEW ex, NEW sc, NEW rep, NEW dk, NEW dm,
           Core(s, q, st, ev, ex, sc, rep, dk), dm \subseteq dk
    PROVE  Core(s, q, st, ev, ex, sc, rep, dm)
<1>1. /\ Flags(s, ex, dk) /\ Shown(s, rep, dk) /\ Mode(s, q, st, ev, ex, sc, rep, dk)
    BY DEF Core, Nearly
<1>2. Flags(s, ex, dm) /\ Shown(s, rep, dm)
    BY <1>1 DEF Flags, Shown
<1>3. ASSUME DoomedOrder(s, q, st, dk) PROVE DoomedOrder(s, q, st, dm)
    BY <1>3 DEF DoomedOrder, DoomedItem, Based, Follows
<1>4. ASSUME Regular(s, q, st, ev, sc, rep, dk) PROVE Regular(s, q, st, ev, sc, rep, dm)
  <2>1. \A i \in 1..Len(q) : Carries(s, q[i], dk) => Carries(s, q[i], dm)
    BY DEF Carries, Based, Follows
  <2>2. Order(s, q, st, dm)
    BY <2>1, <1>4 DEF Regular, Order
  <2>3. Pipeline(s, q, st, ev, sc, dm)
    BY <1>4 DEF Regular, Pipeline, Delivered
  <2>4. QED
    BY <2>2, <2>3, <1>4 DEF Regular
<1>5. Mode(s, q, st, ev, ex, sc, rep, dm)
    BY <1>1, <1>3, <1>4 DEF Mode
<1>6. QED
    BY <1>2, <1>5 DEF Core, Nearly

\* The reader gives the rebuild up.
Suppresses(s, t) ==
    /\ SameJob(s, t) /\ SamePublications(s, t) /\ SameMap(s, t) /\ t.suppressed
    /\ t.available = s.available /\ t.required = s.required
    /\ t.invalidated = s.invalidated /\ t.prefixes = s.prefixes /\ t.rebuild = s.rebuild

\* The rebuild under way is given up by the reader.
LEMMA CoreSuppresses ==
    ASSUME NEW s, NEW t, NEW q, NEW st, NEW ev, NEW ex, NEW sc, NEW sd, NEW rep, NEW dk,
           Core(s, q, st, ev, ex, sc, rep, dk), Suppresses(s, t), s.lease # NoGeneration,
           sd.gen = sc.gen
    PROVE  Core(t, q, st, ev, ex, sd, rep, dk)
<1> USE DEF Suppresses, SameJob, SamePublications, SameMap
<1>2. /\ Gens(s, q, st, ev) /\ Phase(s) /\ Job(s, ev, sc) /\ Flags(s, ex, dk)
      /\ Cancelled(s, ev, ex, sc) /\ Cancellation(s, q, ev, ex, sc) /\ Shown(s, rep, dk)
      /\ Mode(s, q, st, ev, ex, sc, rep, dk) /\ Cleared(s) /\ HiddenOverlay(s, q, rep)
    BY DEF Core, Nearly
<1>3. s.active /\ s.loaded
    BY <1>2 DEF Phase
<1>4. Gens(t, q, st, ev)
    BY <1>2 DEF Gens, StoreGens, EventGens, Dated
<1>5. Phase(t) /\ Job(t, ev, sd)
  <2>1. Phase(t)
    BY <1>2 DEF Phase, OverlayIsHead, Sound
  <2>2. Job(t, ev, sd)
    BY <1>2 DEF Job, Scanned, Working, Sound, JobGen
  <2>3. QED
    BY <2>1, <2>2
<1>6. Flags(t, ex, dk) /\ Shown(t, rep, dk) /\ Cleared(t)
    BY <1>2 DEF Flags, Shown, Cleared, Period, OverlayIsHead
<1>7. Cancelled(t, ev, ex, sd)
    BY <1>3 DEF Cancelled
<1>8. GivenUp(s, ev, ex, sc) => GivenUp(t, ev, ex, sd)
    BY DEF GivenUp
<1>9. Cancellation(t, q, ev, ex, sd)
    BY <1>2, <1>3, <1>8 DEF Cancellation, CancelSent
<1>10. HiddenOverlay(t, q, rep)
    BY <1>2 DEF HiddenOverlay, LeavesOut, Period
<1>11. ASSUME Regular(s, q, st, ev, sc, rep, dk) PROVE Regular(t, q, st, ev, sd, rep, dk)
  <2>1. ~Doomed(t) /\ Order(t, q, st, dk)
    BY <1>11 DEF Regular, Doomed, Sound, Order, Begun, Carries, Based, Follows
  <2>2. Pipeline(t, q, st, ev, sd, dk)
    BY <1>3, <1>11 DEF Regular, Pipeline, Working, Sound, Admits, Delivered, JobGen, InPipe, StoreLost
  <2>3. Rebuilt(t, rep) /\ RebuildShrinks(t, q, st, ev) /\ HiddenRebuild(t, q, st, ev, rep)
        /\ HiddenFirst(t, q, st, ev, rep)
    BY <1>11 DEF Regular, Rebuilt, RebuildShrinks, HiddenRebuild, HiddenFirst, Sound
  <2>4. QED
    BY <2>1, <2>2, <2>3 DEF Regular
<1>12. Mode(t, q, st, ev, ex, sd, rep, dk)
    BY <1>2, <1>8, <1>11 DEF Mode, Doomed, DoomedOrder, DoomedItem, OverlayIsHead, Based, Follows
<1>13. QED
    BY <1>4, <1>5, <1>6, <1>7, <1>9, <1>10, <1>12 DEF Core, Nearly

\* The reader gives the rebuild up.
LEMMA PressStep ==
    ASSUME Inv, PressCancelRebuild
    PROVE  Inv' /\ Advances(own, own')
<1>1. /\ ~own.ended /\ own.lease # NoGeneration /\ own' = [own EXCEPT !.suppressed = TRUE]
      /\ scan' = [scan EXCEPT !.cancelled = TRUE]
      /\ disk' = disk /\ commands' = commands /\ results' = results /\ store' = store
      /\ events' = events /\ executing' = executing /\ reported' = reported
      /\ excusals' = excusals
    BY DEF PressCancelRebuild, storeVars, history
<1>2. TypeOK /\ own \in Own /\ scan \in Scans
    BY DEF Inv, TypeOK
<1> DEFINE t == [own EXCEPT !.suppressed = Yes]
           sd == [scan EXCEPT !.cancelled = Yes]
<1>3. own' = t /\ scan' = sd
    BY <1>1 DEF Yes
<1>4. t \in Own
    BY <1>2, YesNo, ZenonT(60) DEF Own
<1>5. t.suppressed = Yes
    BY <1>2 DEF Own
<1>6. /\ SameJob(own, t) /\ SamePublications(own, t) /\ SameMap(own, t)
      /\ t.available = own.available /\ t.required = own.required
      /\ t.invalidated = own.invalidated /\ t.prefixes = own.prefixes
      /\ t.rebuild = own.rebuild /\ t.excused = own.excused /\ t.sent = own.sent
    BY <1>2 DEF Own, SameJob, SamePublications, SameMap
<1>7. sd \in Scans
    BY <1>2, YesNo DEF Scans
<1>8. sd.gen = scan.gen
    BY <1>2 DEF Scans
<1> HIDE DEF t, sd
<1>9. Suppresses(own, t)
    BY <1>5, <1>6, YesNo DEF Suppresses
<1>10. Core(own, Flight, store, events, executing, scan, reported, disk) /\ AtRest(own)
       /\ Excuses(own, executing, excusals, disk)
    BY <1>1 DEF Inv
<1>11. Core(t, Flight, store, events, executing, sd, reported, disk)
    BY <1>1, <1>8, <1>9, <1>10, CoreSuppresses
<1>12. Flight' = Flight
    BY <1>1 DEF Flight
<1>13. AtRest(t) /\ Excuses(t, executing, excusals, disk) /\ Advances(own, t)
    BY <1>6, <1>10 DEF AtRest, Excuses, Advances, Period, SameJob, SamePublications, SameMap
<1>14. TypeOK'
    BY <1>1, <1>2, <1>3, <1>4, <1>7 DEF TypeOK
<1>15. Executions(events', executing', reported', disk')
    BY <1>1 DEF Inv
<1>16. ~own'.ended
    BY <1>1, <1>3, <1>6 DEF SameMap
<1>17. Core(own', Flight', store', events', executing', scan', reported', disk')
    BY <1>1, <1>3, <1>11, <1>12
<1>18. QED
    BY <1>1, <1>3, <1>13, <1>14, <1>15, <1>16, <1>17 DEF Inv

\* refresh_board_from_scan asks for a live page.
LEMMA AskStep ==
    ASSUME Inv, AskLivePage
    PROVE  Inv' /\ (~own'.ended => Advances(own, own'))
<1>0. /\ TypeOK /\ ~own.ended /\ own \in Own /\ own.sent = <<>> /\ AtEase(own)
      /\ Core(own, Flight, store, events, executing, scan, reported, disk)
      /\ Excuses(own, executing, excusals, disk)
      /\ Executions(events, executing, reported, disk)
    BY DEF Inv, AskLivePage, TypeOK, AtRest, AtEase
<1>t. Flight \in Seq(Messages) /\ Typed /\ Fly(Flight, own) = Flight
    BY <1>0, FlightTyped
<1> DEFINE u == RequestPage(own)
           t == IF own.page # "none" \/ Reaches(own) THEN u ELSE FailStore(u)
<1>1. /\ Become(t) /\ results' = results /\ store' = store /\ disk' = disk /\ events' = events
      /\ executing' = executing /\ reported' = reported /\ excusals' = excusals
    BY DEF AskLivePage, history
<1>2. u \in Own /\ Keeps(own, u) /\ Quiet(Fly(Flight, own), Fly(Flight, u))
    BY <1>0, <1>t, RequestPageEffect
<1> HIDE DEF u
<1>3. t \in Own /\ Keeps(own, t) /\ Quiet(Fly(Flight, own), Fly(Flight, t))
  <2> DEFINE v == FailStore(u)
  <2>1. v \in Own /\ Keeps(u, v) /\ Quiet(Fly(Flight, u), Fly(Flight, v))
    BY <1>2, <1>t, FailStoreKeeps
  <2> HIDE DEF v
  <2>2. Keeps(own, v) /\ Quiet(Fly(Flight, own), Fly(Flight, v))
    BY <2>1, <1>2, KeepsChain, QuietChain
  <2>3. t = u \/ t = v
    BY DEF v
  <2>4. QED
    BY <2>1, <2>2, <2>3, <1>2
<1> HIDE DEF t
<1>4. Core(t, Fly(Flight, t), store, events, executing, scan, reported, disk)
  <2>1. Core(t, Fly(Flight, own), store, events, executing, scan, reported, disk)
    BY <1>0, <1>t, <1>3, CoreFails DEF Keeps
  <2>2. QED
    BY <2>1, <1>3, CoreQuiet
<1>5. Arrives(own, t, Fly(Flight, t), events', executing', scan, reported', disk)
    BY <1>0, <1>1, <1>3, <1>4, KeepsArrives
<1>6. Owes(own) => \A x \in excusals' \intersect disk : own.excused /\ executing' = x
    BY <1>0, <1>1 DEF Excuses, Owes
<1>7. /\ events' \in Seq(Events) /\ executing' \in Entries \union {NoEntry}
      /\ reported' \subseteq Entries /\ excusals' \subseteq Entries
      /\ Executions(events', executing', reported', disk)
    BY <1>0, <1>1 DEF TypeOK
<1>8. QED
    BY <1>0, <1>1, <1>5, <1>6, <1>7, HandlerStep

-----------------------------------------------------------------------------
\* Steps that leave the owner and the store alone.
LEMMA AsideStep ==
    ASSUME Inv, own' = own, commands' = commands, results' = results, store' = store,
           reported' = reported, excusals' = excusals,
           events' \in Seq(Events), scan' \in Scans, executing' \in Entries \union {NoEntry},
           disk' \subseteq Entries, Executions(events', executing', reported, disk'),
           ~own.ended =>
             /\ Core(own, Flight, store, events', executing', scan', reported, disk')
             /\ Excuses(own, executing', excusals, disk')
    PROVE  Inv' /\ Advances(own, own')
<1>1. TypeOK'
    BY DEF Inv, TypeOK
<1>2. Flight' = Flight
    BY DEF Flight
<1>3. Executions(events', executing', reported', disk')
    OBVIOUS
<1>4. ~own'.ended =>
        /\ Core(own', Flight', store', events', executing', scan', reported', disk')
        /\ AtRest(own') /\ Excuses(own', executing', excusals', disk')
    BY <1>2 DEF Inv
<1>5. QED
    BY <1>1, <1>3, <1>4 DEF Inv, Advances

\* An event joins, the only one that ends the execution if it does.
LEMMA ExecutionsTold ==
    ASSUME NEW ev, NEW ew, NEW x, NEW ex, NEW rep, NEW dk, Told(ev, ew, x),
           Executions(ev, ex, rep, dk),
           EndsExecution(x) =>
             /\ ex # NoEntry
             /\ x.kind = "report" => x.entry = ex /\ (Gone(x.outcome) => ex \notin dk)
             /\ \A i \in 1..Len(ev) : ~EndsExecution(ev[i])
    PROVE  Executions(ew, ex, rep, dk)
<1>1. /\ \A i \in 1..Len(ew) :
           \/ i \in 1..Len(ev) /\ ew[i] = ev[i]
           \/ i = Len(ew) /\ ew[i] = x
    BY ToldFacts
<1>2. \A i \in 1..Len(ew) : EndsExecution(ew[i]) =>
        /\ ex # NoEntry
        /\ ew[i].kind = "report" => ew[i].entry = ex /\ (Gone(ew[i].outcome) => ex \notin dk)
    BY <1>1 DEF Executions
<1>3. ASSUME NEW i \in 1..Len(ew), NEW j \in 1..Len(ew), EndsExecution(ew[i]), EndsExecution(ew[j])
      PROVE  i = j
  <2>1. CASE EndsExecution(x)
    BY <2>1, <1>1, <1>3
  <2>2. CASE ~EndsExecution(x)
    <3>1. /\ i \in 1..Len(ev) /\ j \in 1..Len(ev) /\ EndsExecution(ev[i]) /\ EndsExecution(ev[j])
        BY <2>2, <1>1, <1>3
    <3>2. QED
        BY <3>1 DEF Executions
  <2>3. QED
    BY <2>1, <2>2
<1>4. QED
    BY <1>2, <1>3 DEF Executions

\* What the invariant says of the parts that are aside.
LEMMA AsideFacts ==
    ASSUME Inv
    PROVE  /\ events \in Seq(Events) /\ scan \in Scans /\ executing \in Entries \union {NoEntry}
           /\ disk \subseteq Entries /\ Executions(events, executing, reported, disk)
           /\ reported \intersect disk = {} /\ own.latest \in Nat
           /\ ~own.ended =>
                /\ Core(own, Flight, store, events, executing, scan, reported, disk)
                /\ Excuses(own, executing, excusals, disk)
    BY DEF Inv, TypeOK, Own, Executions

\* The scan that has seen one entry more.
LEMMA ScanTyped ==
    ASSUME NEW sc \in Scans, NEW e \in Entries, NEW how \in {"unread", "listed", "told"}
    PROVE  LET sd == [sc EXCEPT !.seen[e] = how]
           IN  /\ sd \in Scans /\ sd.gen = sc.gen /\ sd.cancelled = sc.cancelled
               /\ \A y \in Entries : y # e => sd.seen[y] = sc.seen[y]
               /\ sc.gen # NoGeneration => sc.gen \in Nat
    BY DEF Scans, Generation

\* An entry of the folder is listed.
LEMMA ListStep ==
    ASSUME Inv, NEW e \in Entries, List(e)
    PROVE  Inv' /\ Advances(own, own')
<1>0. /\ events \in Seq(Events) /\ scan \in Scans /\ executing \in Entries \union {NoEntry}
      /\ disk \subseteq Entries /\ Executions(events, executing, reported, disk)
      /\ reported \intersect disk = {} /\ own.latest \in Nat
      /\ ~own.ended =>
           /\ Core(own, Flight, store, events, executing, scan, reported, disk)
           /\ Excuses(own, executing, excusals, disk)
    BY AsideFacts
<1>1. /\ own' = own /\ commands' = commands /\ results' = results /\ store' = store
      /\ reported' = reported /\ excusals' = excusals /\ executing' = executing /\ disk' = disk
      /\ scan.gen # NoGeneration /\ ~own.ended /\ scan.seen[e] = "unread"
    BY DEF List, storeVars, history, Scanning
<1>2. CASE e \in disk
  <2> DEFINE x == [kind |-> "batch", gen |-> scan.gen, entry |-> e]
  <2>1. events' = Append(events, x) /\ scan' = [scan EXCEPT !.seen[e] = "listed"]
    BY <1>2 DEF List, ScanTells, Tell, See
  <2>2. /\ scan' \in Scans /\ scan'.gen = scan.gen /\ scan'.cancelled = scan.cancelled
        /\ \A y \in Entries : y # e => scan'.seen[y] = scan.seen[y]
        /\ scan.gen \in Nat
    BY <2>1, <1>0, <1>1, ScanTyped, ZenonT(60)
  <2>3. x \in Events /\ x.kind = "batch" /\ x.gen = scan.gen /\ x.entry = e
    BY <2>2 DEF Events
  <2> HIDE DEF x
  <2>4. Told(events, events', x)
    BY <2>1, <2>3, <1>0, AppendTold
  <2>5. Executions(events', executing, reported, disk)
    BY <2>3, <2>4, <1>0, ExecutionsTold DEF EndsExecution
  <2>6. Core(own, Flight, store, events', executing, scan', reported, disk)
    <3> DEFINE sd == scan'
               ew == events'
    <3>1. /\ sd.gen = scan.gen /\ sd.cancelled = scan.cancelled /\ Told(events, ew, x)
          /\ \A y \in disk : y = e \/ (scan.seen[y] = "unread" => sd.seen[y] = "unread")
        BY <2>2, <2>4, <1>0
    <3> HIDE DEF sd, ew
    <3>2. Core(own, Flight, store, ew, executing, sd, reported, disk)
        BY <3>1, <2>3, <1>0, <1>1, <1>2, CoreListed
    <3>3. QED
        BY <3>2 DEF sd, ew
  <2>7. QED
    BY <2>2, <2>4, <2>5, <2>6, <1>0, <1>1, AsideStep DEF Told
<1>3. CASE e \notin disk
  <2>1. events' = events /\ scan' = [scan EXCEPT !.seen[e] = "told"]
    BY <1>3 DEF List, See
  <2>2. /\ scan' \in Scans /\ scan'.gen = scan.gen /\ scan'.cancelled = scan.cancelled
        /\ \A y \in Entries : y # e => scan'.seen[y] = scan.seen[y]
    BY <2>1, <1>0, <1>1, ScanTyped
  <2>3. SameScan(scan, scan', disk)
    BY <2>2, <1>0, <1>3 DEF SameScan
  <2>4. Hears(events, events')
    <3>1. \A i \in (Len(events) + 1)..Len(events) : FALSE
        BY <1>0
    <3>2. QED
        BY <2>1, <3>1, <1>0 DEF Hears
  <2>5. Core(own, Flight, store, events', executing, scan', reported, disk)
    BY <2>3, <2>4, <1>0, <1>1, CoreHears
  <2>6. QED
    BY <2>1, <2>2, <2>5, <1>0, <1>1, AsideStep
<1>4. QED
    BY <1>2, <1>3

-----------------------------------------------------------------------------
\* No event is added.
LEMMA SameHears ==
    ASSUME NEW ev \in Seq(Events)
    PROVE  Hears(ev, ev)
<1>1. \A i \in (Len(ev) + 1)..Len(ev) : FALSE
    OBVIOUS
<1>2. QED
    BY <1>1 DEF Hears

\* A worker says what the map does not depend on.
LEMMA HearStep ==
    ASSUME Inv, own' = own, commands' = commands, results' = results, store' = store,
           reported' = reported, excusals' = excusals, executing' = executing, disk' = disk,
           scan' \in Scans, SameScan(scan, scan', disk), NEW x \in Events,
           events' = Append(events, x), x.kind \notin {"batch", "finished"},
           ~EndsExecution(x)
    PROVE  Inv' /\ Advances(own, own')
<1>1. /\ events \in Seq(Events) /\ executing \in Entries \union {NoEntry} /\ disk \subseteq Entries
      /\ Executions(events, executing, reported, disk)
      /\ ~own.ended =>
           /\ Core(own, Flight, store, events, executing, scan, reported, disk)
           /\ Excuses(own, executing, excusals, disk)
    BY AsideFacts
<1>2. Told(events, events', x)
    BY <1>1, AppendTold
<1>3. Hears(events, events')
    BY <1>2, ToldHears
<1>4. Executions(events', executing, reported, disk)
    BY <1>1, <1>2, ExecutionsTold
<1>5. ~own.ended => Core(own, Flight, store, events', executing, scan', reported, disk)
    BY <1>1, <1>3, CoreHears
<1>6. QED
    BY <1>1, <1>3, <1>4, <1>5, AsideStep DEF Hears

\* An entry that was listed is opened.
LEMMA OpenStep ==
    ASSUME Inv, NEW e \in Entries, Open(e)
    PROVE  Inv' /\ Advances(own, own')
<1>0. /\ events \in Seq(Events) /\ scan \in Scans /\ executing \in Entries \union {NoEntry}
      /\ disk \subseteq Entries /\ Executions(events, executing, reported, disk)
      /\ ~own.ended =>
           /\ Core(own, Flight, store, events, executing, scan, reported, disk)
           /\ Excuses(own, executing, excusals, disk)
    BY AsideFacts
<1>1. /\ own' = own /\ commands' = commands /\ results' = results /\ store' = store
      /\ reported' = reported /\ excusals' = excusals /\ executing' = executing /\ disk' = disk
      /\ scan.gen # NoGeneration /\ scan.seen[e] = "listed"
      /\ scan' = [scan EXCEPT !.seen[e] = "told"]
      /\ \/ events' = events
         \/ events' = Append(events, [kind |-> "gone", gen |-> scan.gen, entry |-> e])
         \/ events' = Append(events, [kind |-> "failed", gen |-> scan.gen, entry |-> e])
    BY DEF Open, history, Scanning, See, ScanTells, Tell
<1>2. /\ scan' \in Scans /\ scan'.gen = scan.gen /\ scan'.cancelled = scan.cancelled
      /\ \A y \in Entries : y # e => scan'.seen[y] = scan.seen[y]
      /\ scan.gen \in Nat
    BY <1>0, <1>1, ScanTyped
<1>3. SameScan(scan, scan', disk)
    BY <1>0, <1>1, <1>2 DEF SameScan
<1>4. CASE events' = events
  <2>1. Hears(events, events')
    BY <1>0, <1>4, SameHears
  <2>2. ~own.ended => Core(own, Flight, store, events', executing, scan', reported, disk)
    BY <2>1, <1>0, <1>3, CoreHears
  <2>3. QED
    BY <2>2, <1>0, <1>1, <1>2, <1>4, AsideStep
<1>5. ASSUME NEW how \in {"gone", "failed"},
             events' = Append(events, [kind |-> how, gen |-> scan.gen, entry |-> e])
      PROVE  Inv' /\ Advances(own, own')
  <2> DEFINE x == [kind |-> how, gen |-> scan.gen, entry |-> e]
  <2>1. x \in Events /\ x.kind = how
    BY <1>2 DEF Events
  <2>2. events' = Append(events, x)
    BY <1>5
  <2> HIDE DEF x
  <2>3. QED
    BY <2>1, <2>2, <1>1, <1>2, <1>3, HearStep DEF EndsExecution
<1>6. QED
    BY <1>1, <1>4, <1>5

\* A worker has no room left.
LEMMA RunOutOfRoomStep ==
    ASSUME Inv, RunOutOfRoom
    PROVE  Inv' /\ Advances(own, own')
<1> DEFINE x == [kind |-> "capacity"]
<1>1. /\ own' = own /\ commands' = commands /\ results' = results /\ store' = store
      /\ reported' = reported /\ excusals' = excusals /\ executing' = executing /\ disk' = disk
      /\ scan' = scan /\ events' = Append(events, x)
    BY DEF RunOutOfRoom, history, Tell
<1>2. x \in Events /\ x.kind = "capacity"
    BY DEF Events
<1> HIDE DEF x
<1>3. scan' \in Scans /\ SameScan(scan, scan', disk)
    BY <1>1, AsideFacts DEF SameScan
<1>4. QED
    BY <1>1, <1>2, <1>3, HearStep DEF EndsExecution

\* The scan is over.
LEMMA FinishScanStep ==
    ASSUME Inv, FinishScan
    PROVE  Inv' /\ Advances(own, own')
<1>0. /\ events \in Seq(Events) /\ scan \in Scans /\ executing \in Entries \union {NoEntry}
      /\ disk \subseteq Entries /\ Executions(events, executing, reported, disk)
      /\ ~own.ended =>
           /\ Core(own, Flight, store, events, executing, scan, reported, disk)
           /\ Excuses(own, executing, excusals, disk)
    BY AsideFacts
<1> DEFINE x == [kind |-> "finished", cancelled |-> scan.cancelled]
<1>1. /\ own' = own /\ commands' = commands /\ results' = results /\ store' = store
      /\ reported' = reported /\ excusals' = excusals /\ executing' = executing /\ disk' = disk
      /\ scan.gen # NoGeneration /\ scan' = NoScan /\ events' = Append(events, x)
      /\ \/ scan.cancelled \/ scan.gen # own.epoch
         \/ \A e \in Entries : scan.seen[e] = "told"
    BY DEF FinishScan, storeVars, history, Tell, Scanning
<1>2. x \in Events /\ x.kind = "finished" /\ x.cancelled = scan.cancelled
    BY <1>0 DEF Events, Scans
<1> HIDE DEF x
<1>3. scan' \in Scans /\ scan'.gen = NoGeneration
    BY <1>1 DEF NoScan, Scans, Generation
<1>4. Told(events, events', x)
    BY <1>0, <1>1, <1>2, AppendTold
<1>5. Executions(events', executing, reported, disk)
    BY <1>0, <1>2, <1>4, ExecutionsTold DEF EndsExecution
<1>6. ~own.ended => Core(own, Flight, store, events', executing, scan', reported, disk)
    BY <1>0, <1>1, <1>2, <1>3, <1>4, CoreEndsScan
<1>7. QED
    BY <1>0, <1>1, <1>3, <1>4, <1>5, <1>6, AsideStep DEF Told

\* A deletion is handed to the executor.
LEMMA StartDeletionStep ==
    ASSUME Inv, NEW e \in Entries, StartDeletion(e)
    PROVE  Inv' /\ Advances(own, own')
<1>0. /\ events \in Seq(Events) /\ scan \in Scans
      /\ disk \subseteq Entries /\ Executions(events, executing, reported, disk)
      /\ ~own.ended =>
           /\ Core(own, Flight, store, events, executing, scan, reported, disk)
           /\ Excuses(own, executing, excusals, disk)
    BY AsideFacts
<1>1. /\ own' = own /\ commands' = commands /\ results' = results /\ store' = store
      /\ reported' = reported /\ excusals' = excusals /\ disk' = disk /\ events' = events
      /\ scan' = scan /\ ~own.ended /\ executing = NoEntry /\ executing' = e
      /\ own.available /\ ~Period(own)
    BY DEF StartDeletion, storeVars, history, Period
<1>2. Executions(events', executing', reported, disk')
    BY <1>0, <1>1 DEF Executions
<1>3. Core(own, Flight, store, events', executing', scan', reported, disk')
  <2>1. Core(own, Flight, store, events, e, scan, reported, disk)
    BY <1>0, <1>1, CoreDeletes
  <2>2. QED
    BY <2>1, <1>1
<1>4. Excuses(own, executing', excusals, disk')
  <2>1. NoEntry \notin disk
    BY <1>0, ReconciliationAssumption
  <2>2. QED
    BY <2>1, <1>0, <1>1 DEF Excuses
<1>5. QED
    BY <1>0, <1>1, <1>2, <1>3, <1>4, AsideStep

\* The executor removes the target.
LEMMA RemoveTargetStep ==
    ASSUME Inv, NEW e \in Entries, RemoveTarget(e)
    PROVE  Inv' /\ Advances(own, own')
<1>0. /\ events \in Seq(Events) /\ scan \in Scans /\ executing \in Entries \union {NoEntry}
      /\ disk \subseteq Entries /\ Executions(events, executing, reported, disk)
      /\ ~own.ended =>
           /\ Core(own, Flight, store, events, executing, scan, reported, disk)
           /\ Excuses(own, executing, excusals, disk)
    BY AsideFacts
<1>1. /\ own' = own /\ commands' = commands /\ results' = results /\ store' = store
      /\ reported' = reported /\ excusals' = excusals /\ disk' = disk \ {e} /\ events' = events
      /\ scan' = scan /\ executing' = executing
    BY DEF RemoveTarget, storeVars, history
<1>2. disk' \subseteq disk
    BY <1>1
<1>3. Executions(events', executing', reported, disk')
    BY <1>0, <1>1, <1>2 DEF Executions
<1>4. ~own.ended => Core(own, Flight, store, events', executing', scan', reported, disk')
  <2> DEFINE dm == disk'
  <2>1. dm \subseteq disk
    BY <1>2
  <2> HIDE DEF dm
  <2>2. ~own.ended => Core(own, Flight, store, events, executing, scan, reported, dm)
    BY <2>1, <1>0, CoreRemoves
  <2>3. QED
    BY <2>2, <1>1 DEF dm
<1>5. ~own.ended => Excuses(own, executing', excusals, disk')
    BY <1>0, <1>1, <1>2 DEF Excuses
<1>6. disk' \subseteq Entries
    BY <1>0, <1>2
<1>7. QED
    BY <1>0, <1>1, <1>3, <1>4, <1>5, <1>6, AsideStep

\* The executor says how it ended.
LEMMA EndExecutionStep ==
    ASSUME Inv, NEW e \in Entries, EndExecution(e)
    PROVE  Inv' /\ Advances(own, own')
<1>0. /\ events \in Seq(Events) /\ scan \in Scans /\ executing \in Entries \union {NoEntry}
      /\ disk \subseteq Entries /\ Executions(events, executing, reported, disk)
      /\ ~own.ended =>
           /\ Core(own, Flight, store, events, executing, scan, reported, disk)
           /\ Excuses(own, executing, excusals, disk)
    BY AsideFacts
<1>1. /\ own' = own /\ commands' = commands /\ results' = results /\ store' = store
      /\ reported' = reported /\ excusals' = excusals /\ disk' = disk
      /\ scan' = scan /\ executing' = executing
    BY DEF EndExecution, storeVars, history
<1>2. executing = e /\ \A i \in 1..Len(events) : ~EndsExecution(events[i])
    BY <1>0 DEF EndExecution, Executing
<1>3. e # NoEntry
    BY ReconciliationAssumption
<1>4. ASSUME NEW x \in Events, events' = Append(events, x),
             x.kind \in {"report", "rejected"},
             x.kind = "report" => x.entry = e /\ (Gone(x.outcome) => e \notin disk)
      PROVE  Inv' /\ Advances(own, own')
  <2>1. Told(events, events', x)
    BY <1>0, <1>4, AppendTold
  <2>2. Executions(events', executing, reported, disk)
    BY <2>1, <1>0, <1>2, <1>3, <1>4, ExecutionsTold
  <2>3. Hears(events, events')
    BY <2>1, <1>4, ToldHears
  <2>4. SameScan(scan, scan', disk)
    BY <1>1 DEF SameScan
  <2>5. ~own.ended => Core(own, Flight, store, events', executing, scan', reported, disk)
    BY <2>3, <2>4, <1>0, CoreHears
  <2>6. QED
    BY <2>1, <2>2, <2>5, <1>0, <1>1, AsideStep DEF Told
<1>5. \/ \E outcome \in ReportOutcomes :
           /\ Gone(outcome) => e \notin disk
           /\ events' = Append(events, [kind |-> "report", entry |-> e, outcome |-> outcome])
      \/ events' = Append(events, [kind |-> "rejected"])
    BY DEF EndExecution, Tell, ReportOutcomes, Gone
<1>6. ASSUME NEW outcome \in ReportOutcomes, Gone(outcome) => e \notin disk,
             events' = Append(events, [kind |-> "report", entry |-> e, outcome |-> outcome])
      PROVE  Inv' /\ Advances(own, own')
  <2> DEFINE x == [kind |-> "report", entry |-> e, outcome |-> outcome]
  <2>1. x \in Events /\ x.kind = "report" /\ x.entry = e /\ x.outcome = outcome
    BY DEF Events
  <2>2. events' = Append(events, x)
    BY <1>6
  <2> HIDE DEF x
  <2>3. QED
    BY <2>1, <2>2, <1>4, <1>6
<1>7. ASSUME events' = Append(events, [kind |-> "rejected"])
      PROVE  Inv' /\ Advances(own, own')
  <2> DEFINE x == [kind |-> "rejected"]
  <2>1. x \in Events /\ x.kind = "rejected"
    BY DEF Events
  <2>2. events' = Append(events, x)
    BY <1>7
  <2> HIDE DEF x
  <2>3. QED
    BY <2>1, <2>2, <1>4
<1>8. QED
    BY <1>5, <1>6, <1>7

-----------------------------------------------------------------------------
(***************************************************************************)
(* The theorems.                                                           *)
(***************************************************************************)
\* In the beginning the first scan is under way and the store takes its batches.
LEMMA InitOwn ==
    ASSUME Init
    PROVE  /\ own.available = Yes /\ own.loaded = No /\ own.live = Yes /\ own.required = No
           /\ own.active = No /\ own.invalidated = No /\ own.suppressed = No
           /\ own.prefixes = <<>> /\ own.rebuild = No /\ own.beforeMap = 0 /\ own.excused = No
           /\ own.publications = <<>> /\ own.finished = <<>> /\ own.hidden = {}
           /\ own.installed = NoMap /\ own.latest = 0
           /\ own.primaryScan = Yes /\ own.lease = NoGeneration /\ own.epoch = 0
           /\ own.sent = <<>> /\ own.ended = No
    BY DEF Init, Yes, No

\* The initial states are typed.
LEMMA InitTyped ==
    ASSUME Init
    PROVE  TypeOK
<1>1. NoMap \in Map /\ NoGeneration \in Generation /\ 0 \in Generation
    BY DEF NoMap, Map, Generation
<1>2. <<>> \in Seq(Entries) /\ <<>> \in Seq(Kinds) /\ <<>> \in Seq(Ends) /\ <<>> \in Seq(Commands)
      /\ <<>> \in Seq(AnswerSet) /\ <<>> \in Seq(Events)
    OBVIOUS
<1>3. own \in Own
    BY <1>1, <1>2 DEF Init, Own
<1>4. store \in Store
    BY <1>1, <1>2 DEF Init, StoreInit, Store, Fresh
<1>5. scan \in Scans
    BY <1>1 DEF Init, NewScan, Scans
<1>6. QED
    BY <1>2, <1>3, <1>4, <1>5 DEF Init, StoreInit, TypeOK

\* The initial states satisfy the invariant.
LEMMA InitInv ==
    ASSUME Init
    PROVE  Inv
<1>1. TypeOK
    BY InitTyped
<1>2. /\ own.available /\ ~own.loaded /\ ~own.required /\ ~own.active /\ ~own.invalidated
      /\ ~own.suppressed /\ own.prefixes = <<>> /\ ~own.rebuild
      /\ own.publications = <<>> /\ own.finished = <<>> /\ own.hidden = {}
      /\ own.installed = NoMap /\ own.latest = 0 /\ own.primaryScan
      /\ own.lease = NoGeneration /\ own.epoch = 0 /\ own.sent = <<>> /\ ~own.ended
    BY InitOwn, YesNo
<1>3. /\ Flight = <<>> /\ Len(Flight) = 0 /\ events = <<>> /\ Len(events) = 0
    BY DEF Init, StoreInit, Flight
<1>4. /\ \A i \in 1..Len(Flight) : FALSE
      /\ \A i \in 1..Len(events) : FALSE
    BY <1>3
<1>5. /\ scan.gen = 0 /\ ~scan.cancelled /\ \A e \in Entries : scan.seen[e] = "unread"
      /\ reported = {} /\ excusals = {} /\ disk = Entries /\ executing = NoEntry
    BY DEF Init, StoreInit, NewScan
<1>6. /\ store.active.gen = 0 /\ store.active.scan = 0 /\ store.newest = NoGeneration
      /\ store.active.listed = {} /\ store.running
    BY DEF Init, StoreInit, Fresh
<1>7. NoMap.gen = NoGeneration /\ NoMap.scan = NoGeneration /\ NoMap.listed = {}
      /\ NoGeneration \in Int /\ NoGeneration < 0
    BY DEF NoMap, NoGeneration
<1>8. Gens(own, Flight, store, events)
    BY <1>2, <1>4, <1>6, <1>7 DEF Gens, StoreGens, EventGens, Ascending
<1>9. Phase(own) /\ Job(own, events, scan) /\ ~OverlayIsHead(own)
    BY <1>2, <1>4, <1>5 DEF Phase, Job, OverlayIsHead, Sound, Scanned
<1>10. Flags(own, executing, disk) /\ Cleared(own)
  <2>1. ToSet(own.prefixes) = {}
    BY <1>2, Distinct DEF ToSet
  <2>2. QED
    BY <2>1, <1>2, <1>9 DEF Flags, Cleared, Period
<1>11. ~CancelledJob(own, events, scan)
    BY <1>2, <1>4, <1>5, Distinct DEF CancelledJob
<1>12. Cancelled(own, events, executing, scan) /\ Cancellation(own, Flight, events, executing, scan)
    BY <1>4, <1>11 DEF Cancelled, Cancellation
<1>13. Shown(own, reported, disk) /\ HiddenOverlay(own, Flight, reported)
    BY <1>2, <1>4, <1>5, <1>7 DEF Shown, HiddenOverlay
<1>14. Regular(own, Flight, store, events, scan, reported, disk)
  <2>1. ~Doomed(own) /\ ~Sound(own)
    BY <1>2 DEF Doomed, Sound
  <2>2. Order(own, Flight, store, disk)
    BY <2>1, <1>4 DEF Order, NoPub, AtMostOne, PubsLast, Begun
  <2>3. Pipeline(own, Flight, store, events, scan, disk)
    BY <1>4, <1>5, <1>7 DEF Pipeline, Admits, Delivered, ToBeTold
  <2>4. QED
    BY <2>1, <2>2, <2>3, <1>5 DEF Regular, HiddenFirst, HiddenRebuild, Rebuilt, RebuildShrinks
<1>15. Core(own, Flight, store, events, executing, scan, reported, disk)
    BY <1>8, <1>9, <1>10, <1>12, <1>13, <1>14 DEF Core, Nearly, Mode
<1>16. AtRest(own) /\ Excuses(own, executing, excusals, disk)
    BY <1>2, <1>5, Distinct DEF AtRest, Excuses
<1>17. Executions(events, executing, reported, disk)
    BY <1>4, <1>5 DEF Executions
<1>18. QED
    BY <1>1, <1>2, <1>15, <1>16, <1>17 DEF Inv

\* Every step keeps the invariant, and no map that it leaves installed goes back.
LEMMA NextStep ==
    ASSUME Inv, [Next]_vars
    PROVE  Inv' /\ (~own'.ended => Advances(own, own'))
<1>1. CASE StoreStep
    BY <1>1, StoreStepInv
<1>2. CASE ProcessStoreEvents
    BY <1>2, ProcessStep
<1>3. CASE TakeEvent
    BY <1>3, TakeEventStep
<1>4. CASE PressCancelRebuild
    BY <1>4, PressStep
<1>5. CASE AskLivePage
    BY <1>5, AskStep
<1>6. CASE RunOutOfRoom
    BY <1>6, RunOutOfRoomStep
<1>7. CASE FinishScan
    BY <1>7, FinishScanStep
<1>8. ASSUME NEW e \in Entries, List(e)
      PROVE  Inv' /\ (~own'.ended => Advances(own, own'))
    BY <1>8, ListStep
<1>9. ASSUME NEW e \in Entries, Open(e)
      PROVE  Inv' /\ (~own'.ended => Advances(own, own'))
    BY <1>9, OpenStep
<1>10. ASSUME NEW e \in Entries, StartDeletion(e)
       PROVE  Inv' /\ (~own'.ended => Advances(own, own'))
    BY <1>10, StartDeletionStep
<1>11. ASSUME NEW e \in Entries, RemoveTarget(e)
       PROVE  Inv' /\ (~own'.ended => Advances(own, own'))
    BY <1>11, RemoveTargetStep
<1>12. ASSUME NEW e \in Entries, EndExecution(e)
       PROVE  Inv' /\ (~own'.ended => Advances(own, own'))
    BY <1>12, EndExecutionStep
<1>13. CASE UNCHANGED vars
  <2>1. /\ own' = own /\ commands' = commands /\ results' = results /\ store' = store
        /\ reported' = reported /\ excusals' = excusals /\ disk' = disk
        /\ events' = events /\ scan' = scan /\ executing' = executing
    BY <1>13 DEF vars, storeVars
  <2>2. QED
    BY <2>1, AsideFacts, AsideStep
<1>14. QED
    BY <1>1, <1>2, <1>3, <1>4, <1>5, <1>6, <1>7, <1>8, <1>9, <1>10, <1>11, <1>12, <1>13 DEF Next

\* The invariant that all the others rest on: a map of the first scan, of a rebuild
\* or of an overlay is in flight together with what makes it true (Core), through
\* every handler of the owner loop and every command of the store thread.
THEOREM InvHolds == Spec => []Inv
<1>1. Init => Inv
    BY InitInv
<1>2. Inv /\ [Next]_vars => Inv'
    BY NextStep
<1>3. QED
    BY <1>1, <1>2, PTL DEF Spec

\* Type correctness: the owner's record, the store, the two queues and the channel of
\* events have the types of App, StoreHandle, StoreCommand, StoreResult and WorkerEvent.
THEOREM TypeCorrect == Spec => []TypeOK
<1>1. Inv => TypeOK
    BY DEF Inv
<1>2. QED
    BY <1>1, InvHolds, PTL

\* What the reader was told is removed is on no map shown: from its report until a
\* map without it is installed it is left out, for any number of entries, commands
\* in flight, generations and faults (removed_but_listed, app.rs).
THEOREM RemovedIsHidden == Spec => []RemovedStaysHidden
<1>1. Inv => RemovedStaysHidden
    BY DEF Inv, Core, Nearly, Shown, RemovedStaysHidden
<1>2. QED
    BY <1>1, InvHolds, PTL

\* A map that is installed lists every entry there is.
MapListsDisk == ~own.ended /\ own.installed # NoMap => disk \subseteq own.installed.listed

\* A map that is installed lists every entry there is: no batch is lost between the
\* scan and the publication without the publication failing (admit_scan_input_runs,
\* publish).
THEOREM MapListsTheDisk == Spec => []MapListsDisk
<1>1. Inv => MapListsDisk
    BY DEF Inv, Core, Nearly, Shown, MapListsDisk
<1>2. QED
    BY <1>1, InvHolds, PTL

\* A failure that was excused because a deletion was at work is made good when the
\* deletion leaves the target there (excused_execution_ended).
THEOREM ExcusedAreRepaired == Spec => []ExcusedIsRepaired
<1>1. Inv => ExcusedIsRepaired
  <2>1. SUFFICES ASSUME Inv, own.installed.scan = 0, own.available, executing = NoEntry,
                        NEW e \in excusals, e \in disk
                 PROVE  own.required \/ own.active \/ own.rebuild
    BY DEF ExcusedIsRepaired
  <2>2. disk \subseteq Entries /\ e # NoEntry
    BY <2>1, ReconciliationAssumption DEF Inv, TypeOK
  <2>3. CASE own.ended
    BY <2>1, <2>3 DEF Inv
  <2>4. CASE ~own.ended
    BY <2>1, <2>2, <2>4 DEF Inv, Excuses, Period
  <2>5. QED
    BY <2>3, <2>4
<1>2. QED
    BY <1>1, InvHolds, PTL

\* A map is never replaced, in a step that does not end the run, by one that goes
\* back to an older scan, or that lists again what it had left out
\* (start_next_removal_overlay).
THEOREM MapsGoForward == Spec => MapNeverGoesBack
<1>1. Inv /\ [Next]_vars =>
        [~own'.ended /\ own'.installed # own.installed /\ own.installed # NoMap =>
           /\ own'.installed.scan >= own.installed.scan
           /\ own'.installed.gen > own.installed.gen
           /\ own'.installed.listed \subseteq own.installed.listed]_vars
    BY NextStep DEF Advances
<1>2. QED
    BY <1>1, InvHolds, PTL DEF Spec, MapNeverGoesBack

=============================================================================
