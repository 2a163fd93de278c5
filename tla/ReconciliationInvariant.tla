---------------------- MODULE ReconciliationInvariant -----------------------
(***************************************************************************)
(* The inductive invariant from which theorems about Reconciliation are    *)
(* proved.  What the owner will install was decided several messages ago:  *)
(* the invariant speaks of the answers and commands in flight as of one    *)
(* sequence, and of any owner on the way through a handler.                *)
(***************************************************************************)
EXTENDS Reconciliation

-----------------------------------------------------------------------------
(***************************************************************************)
(* Types.                                                                  *)
(***************************************************************************)
Generation == Nat \union {NoGeneration}
Map == [gen : Generation, scan : Generation, listed : SUBSET Entries,
        unread : SUBSET Entries]
Kinds == {"Primary", "Rebuild", "Overlay"}
Ends == {"Primary", "Rebuild", "RebuildFailed", "RebuildCancelled"}

PlainCommands ==
    {Command("DiscardActive"), Command("CancelActive"), Command("ProvisionalPage"),
     Command("Publish")}
Commands ==
    PlainCommands
        \union [kind : {"Notes"}, paths : SUBSET Entries]
        \union [kind : {"Admit"}, gen : Nat, entry : Entries]
        \union [kind : {"BeginGeneration"}, gen : Nat]
        \union [kind : {"Overlay"}, gen : Nat, prefix : Entries, later : SUBSET Entries,
                verifyRoot : BOOLEAN, base : Map]
AnswerKinds == {"AdmissionFailed", "ProvisionalPage", "Publication", "Failure"}
AnswerSet ==
    [kind : AnswerKinds, outcome : {"map", "summary", "error", "page"}, map : Map]
Messages == Commands \union AnswerSet

Own ==
    [available : BOOLEAN, loaded : BOOLEAN, live : BOOLEAN, required : BOOLEAN,
     active : BOOLEAN, invalidated : BOOLEAN, suppressed : BOOLEAN,
     prefixes : Seq(Entries), rebuild : BOOLEAN, beforeMap : Nat, excused : BOOLEAN,
     publications : Seq(Kinds), finished : Seq(Ends),
     hidden : SUBSET Entries, refreshOwed : BOOLEAN,
     installed : Map, accepting : Generation, latest : Nat, notes : SUBSET Entries,
     page : {"none", "asked", "again"}, stopReported : BOOLEAN,
     primaryScan : BOOLEAN, lease : Generation, epoch : Nat,
     sent : Seq(Commands), full : BOOLEAN, ended : BOOLEAN]

Store ==
    [active : [gen : Generation, scan : Generation, listed : SUBSET Entries,
               unread : SUBSET Entries, open : BOOLEAN],
     newest : Generation, admissionFailed : BOOLEAN, held : Seq(AnswerSet),
     running : BOOLEAN]

ReportOutcomes == {"part", "nothing", "whole", "links"}
Events ==
    [kind : {"batch", "failed", "gone"}, gen : Nat, entry : Entries]
        \union [kind : {"capacity", "rejected"}]
        \union [kind : {"finished"}, cancelled : BOOLEAN]
        \union [kind : {"report"}, entry : Entries, outcome : ReportOutcomes]
Scans ==
    [gen : Generation, seen : [Entries -> {"unread", "listed", "told"}],
     cancelled : BOOLEAN]

TypeOK ==
    /\ own \in Own /\ store \in Store
    /\ commands \in Seq(Commands) /\ results \in Seq(AnswerSet)
    /\ events \in Seq(Events) /\ scan \in Scans
    /\ executing \in Entries \union {NoEntry}
    /\ disk \subseteq Entries /\ reported \subseteq Entries /\ excusals \subseteq Entries

\* What has the same value before and after.
SameJob(s, t) ==
    /\ t.primaryScan = s.primaryScan /\ t.lease = s.lease /\ t.loaded = s.loaded
    /\ t.latest = s.latest /\ t.epoch = s.epoch /\ t.active = s.active
SamePublications(s, t) == t.publications = s.publications /\ t.finished = s.finished
SameFlags(s, t) ==
    /\ t.available = s.available /\ t.required = s.required
    /\ t.invalidated = s.invalidated /\ t.suppressed = s.suppressed
    /\ t.prefixes = s.prefixes /\ t.rebuild = s.rebuild
SameMap(s, t) == t.installed = s.installed /\ t.hidden = s.hidden /\ t.ended = s.ended
Same(s, t) == SameJob(s, t) /\ SamePublications(s, t) /\ SameFlags(s, t) /\ SameMap(s, t)

\* t has sent n, and c if it was reached.
Sends(s, t, c, reached) ==
    \E n \in Seq(Commands) :
        /\ \A i \in 1..Len(n) : n[i].kind = "Notes"
        /\ t.sent = s.sent \o n \o (IF reached THEN <<c>> ELSE <<>>)

-----------------------------------------------------------------------------
(***************************************************************************)
(* The invariant.  A handler is a chain of calls, so it is stated of any   *)
(* owner s on the way, with                                                *)
(*   q    what is in flight: answers not applied, then commands not taken, *)
(*   st   the store,   ev  the events not taken,   ex  the execution,      *)
(*   sc   the scan,    dk  the disk,               rep what was reported.  *)
(***************************************************************************)
IsPub(x) == x.kind \in {"Publish", "Overlay", "Publication"}
IsMap(x) == x.kind = "Publication" /\ x.outcome = "map"
Begins(x) == x.kind \in {"BeginGeneration", "Overlay"}
Cancels(x) == x.kind \in {"CancelActive", "Failure"}
IsBatch(x, g) == x.kind = "batch" /\ x.gen = g
IsAdmit(x, g) == x.kind = "Admit" /\ x.gen = g

NoPub(q) == \A i \in 1..Len(q) : ~IsPub(q[i])
First(q, i) == \A j \in 1..(i - 1) : ~IsPub(q[j])

\* A map is to be scanned again, or is being.  The scan under way is for nothing
\* once an overlay took its generation's place.
Period(s) == s.required \/ s.active
Doomed(s) == s.active /\ s.lease # s.epoch
Sound(s) == s.active /\ s.lease = s.epoch
OverlayIsHead(s) == s.publications # <<>> /\ Head(s.publications) = "Overlay"

\* The job: the first scan, or a rebuild that is not doomed.
Working(s) == ~s.loaded \/ Sound(s)
JobGen(s) == IF s.loaded THEN s.lease ELSE 0
Scanned(s) ==
    /\ s.finished = <<>> /\ s.publications \in {<<>>, <<"Overlay">>}
    /\ s.primaryScan \/ s.active

\* Executions, and what they have reported.
Executions(ev, ex, rep, dk) ==
    /\ \A i \in 1..Len(ev) : EndsExecution(ev[i]) =>
        /\ ex # NoEntry
        /\ ev[i].kind = "report" => ev[i].entry = ex /\ (Gone(ev[i].outcome) => ex \notin dk)
    /\ \A i, j \in 1..Len(ev) : EndsExecution(ev[i]) /\ EndsExecution(ev[j]) => i = j
    /\ rep \intersect dk = {}

\* Generations: everything in flight is of one that the owner has begun.
Dated(s, st, x) ==
    /\ Begins(x) => x.gen <= s.latest /\ x.gen > st.active.gen /\ x.gen > st.newest
    /\ IsMap(x) => x.map.gen <= st.newest
    /\ x.kind = "Admit" => x.gen <= s.latest
Ascending(q) ==
    \A i, j \in 1..Len(q) : i < j /\ Begins(q[i]) /\ Begins(q[j]) => q[i].gen < q[j].gen
StoreGens(s, st) ==
    /\ s.epoch = s.latest /\ s.lease <= s.latest
    /\ s.installed.gen <= st.newest /\ s.installed.scan <= s.installed.gen
    /\ st.newest <= s.latest /\ st.active.gen <= s.latest
    /\ st.active # NoActive => st.active.gen > st.newest
    /\ st.active.open => st.active.scan = st.active.gen
EventGens(s, ev) ==
    \A i \in 1..Len(ev) : ev[i].kind = "batch" => ev[i].gen <= s.latest
Gens(s, q, st, ev) ==
    /\ StoreGens(s, st) /\ EventGens(s, ev) /\ Ascending(q)
    /\ \A i \in 1..Len(q) : Dated(s, st, q[i])

\* What the owner waits for.
Phase(s) ==
    /\ s.primaryScan => ~s.loaded /\ s.publications = <<>> /\ s.finished = <<>>
    /\ s.lease # NoGeneration <=> s.active
    /\ s.active => s.loaded /\ s.lease > 0
    /\ ~s.loaded => /\ s.latest = 0 /\ (s.installed = NoMap \/ s.finished = <<"Primary">>)
                    /\ \/ s.primaryScan \/ s.publications = <<"Primary">>
                       \/ s.finished = <<"Primary">>
    /\ OverlayIsHead(s) => s.loaded
    /\ \/ s.publications \in {<<>>, <<"Overlay">>}
       \/ s.publications = <<"Primary">> /\ ~s.loaded
       \/ s.publications = <<"Rebuild">> /\ s.active
       \/ s.publications = <<"Overlay", "Rebuild">> /\ s.active
    /\ Sound(s) => s.publications \in {<<>>, <<"Rebuild">>}
    /\ \/ s.finished = <<>>
       \/ s.finished = <<"Primary">> /\ ~s.loaded /\ s.publications = <<>>
       \/ /\ s.finished \in {<<"Rebuild">>, <<"RebuildFailed">>, <<"RebuildCancelled">>}
          /\ s.active /\ s.publications \in {<<>>, <<"Overlay">>}

\* The scan, and the event that ends it.
Job(s, ev, sc) ==
    /\ sc.gen # NoGeneration =>
         Scanned(s) /\ sc.gen = IF s.primaryScan THEN 0 ELSE s.lease
    /\ \A i \in 1..Len(ev) : ev[i].kind = "finished" =>
         /\ Scanned(s) /\ sc.gen = NoGeneration
         /\ \A j \in 1..Len(ev) : ev[j].kind = "finished" => i = j
         /\ \A j \in 1..Len(ev) : ev[j].kind = "batch" => j < i
    /\ Working(s) => \A i \in 1..Len(ev) : IsBatch(ev[i], JobGen(s)) => Scanned(s)

Cleared(s) == ~s.available \/ Period(s) => s.prefixes = <<>> /\ ~s.rebuild
Flags(s, ex, dk) ==
    /\ Period(s) /\ OverlayIsHead(s) => ex = NoEntry
    /\ s.available /\ ~s.loaded /\ s.finished = <<>> => ~s.required
    /\ s.rebuild => ~s.loaded /\ s.finished = <<>>
    /\ ~s.rebuild => ToSet(s.prefixes) \intersect dk = {}

\* A scan that was cancelled.
CancelledJob(s, ev, sc) ==
    \/ sc.gen # NoGeneration /\ sc.cancelled
    \/ \E i \in 1..Len(ev) : ev[i].kind = "finished" /\ ev[i].cancelled
    \/ s.finished = <<"RebuildCancelled">>
Cancelled(s, ev, ex, sc) ==
    CancelledJob(s, ev, sc) =>
        s.active /\ (~s.suppressed => s.invalidated /\ ex = NoEntry)

\* Nothing will be published any more.
GivenUp(s, ev, ex, sc) ==
    /\ ~s.available /\ ex = NoEntry /\ s.publications = <<>> /\ s.loaded
    /\ IF s.active THEN ~s.invalidated ELSE s.required => s.suppressed
    /\ CancelledJob(s, ev, sc) => s.suppressed

\* A cancellation is in flight, or the failure it met.
CancelSent(s, ev, ex, sc) ==
    \/ /\ ~s.active /\ s.required /\ s.loaded /\ s.finished = <<>> /\ s.suppressed
       /\ s.publications # <<>> => s.publications = <<"Overlay">> /\ ex = NoEntry
    \/ /\ ~s.active /\ s.required /\ s.loaded /\ s.finished = <<>> /\ ex = NoEntry
       /\ s.publications = <<>>
    \/ /\ s.active /\ ex = NoEntry /\ ~s.invalidated
       /\ s.publications \in {<<>>, <<"Rebuild">>} /\ s.finished # <<"Rebuild">>
       /\ CancelledJob(s, ev, sc) => s.suppressed
    \/ GivenUp(s, ev, ex, sc)
Cancellation(s, q, ev, ex, sc) ==
    (\E i \in 1..Len(q) : Cancels(q[i])) => CancelSent(s, ev, ex, sc)

\* A map that may be installed over s.installed.
Follows(s, m, dk) ==
    /\ m.gen > s.installed.gen /\ m.scan = s.installed.scan
    /\ m.listed \subseteq s.installed.listed /\ dk \subseteq m.listed

Based(s, x, dk) ==
    x.base = s.installed /\ s.installed # NoMap /\ x.prefix \notin dk

\* With a doomed rebuild, the answer to the overlay is the first.
DoomedItem(s, q, i, dk) ==
    /\ q[i].kind = "Overlay" => Based(s, q[i], dk)
    /\ q[i].kind = "Publish" => ~First(q, i)
    /\ IsMap(q[i]) /\ First(q, i) => Follows(s, q[i].map, dk)
DoomedOrder(s, q, st, dk) ==
    OverlayIsHead(s) =>
      /\ st.running => ~NoPub(q)
      /\ \A i \in 1..Len(q) : DoomedItem(s, q, i, dk)

\* Otherwise one publication at a time is in flight, behind what begins it.
AtMostOne(q) == \A i, j \in 1..Len(q) : IsPub(q[i]) /\ IsPub(q[j]) => i = j
PubsLast(q) ==
    \A i, j \in 1..Len(q) : i < j /\ (Begins(q[j]) \/ Cancels(q[j])) => ~IsPub(q[i])
Carries(s, x, dk) ==
    /\ x.kind = "Overlay" => s.publications = <<"Overlay">> /\ Based(s, x, dk)
    /\ x.kind = "Publish" => s.publications # <<"Overlay">>
    /\ IsMap(x) /\ s.publications = <<"Overlay">> => Follows(s, x.map, dk)
    /\ IsMap(x) /\ Sound(s) => x.map.gen = s.lease /\ x.map.scan = s.lease
    /\ ~s.loaded => ~Begins(x) /\ (IsMap(x) => x.map.gen = 0 /\ x.map.scan = 0)
    /\ IsMap(x) => dk \subseteq x.map.listed
Begun(s, q, st) ==
    /\ Sound(s) /\ st.running
    /\ \/ st.active.open /\ st.active.gen # s.lease
       \/ \E j \in 1..Len(q) : Begins(q[j])
    => \E i \in 1..Len(q) : q[i].kind = "BeginGeneration" /\ q[i].gen = s.lease
Order(s, q, st, dk) ==
    /\ s.publications = <<>> => NoPub(q)
    /\ AtMostOne(q) /\ PubsLast(q) /\ Begun(s, q, st)
    /\ \A i \in 1..Len(q) : Carries(s, q[i], dk)

\* Generation g has listed e, or is going to.
Lists(g, q, st, ev, e) ==
    \/ \E i \in 1..Len(ev) : IsBatch(ev[i], g) /\ ev[i].entry = e
    \/ \E i \in 1..Len(q) : IsAdmit(q[i], g) /\ q[i].entry = e
    \/ st.active.gen = g /\ st.active.open /\ e \in st.active.listed
    \/ \E i \in 1..Len(q) : IsMap(q[i]) /\ q[i].map.gen = g /\ e \in q[i].map.listed

\* What was removed and is listed by a job is hidden, and made good.
HiddenFirst(s, q, st, ev, rep) ==
    ~s.loaded /\ s.finished = <<>> =>
         \A e \in rep : Lists(0, q, st, ev, e) =>
           e \in s.hidden /\ (s.available /\ ~s.rebuild => e \in ToSet(s.prefixes))
HiddenRebuild(s, q, st, ev, rep) ==
    Sound(s) =>
      \A e \in rep : Lists(s.lease, q, st, ev, e) => e \in s.hidden /\ s.invalidated
Rebuilt(s, rep) ==
    Sound(s) =>
      IF s.finished = <<>> THEN s.installed.gen < s.lease
      ELSE s.finished = <<"Rebuild">> /\ ~s.invalidated =>
             s.installed.listed \intersect rep = {} /\ s.installed.scan = s.lease
RebuildShrinks(s, q, st, ev) ==
    Sound(s) /\ s.finished = <<>> /\ s.installed # NoMap =>
      \A e \in Entries : Lists(s.lease, q, st, ev, e) => e \in s.installed.listed
LeavesOut(s, x, rep) ==
    /\ x.kind = "Overlay" =>
         (s.installed.listed \ {x.prefix}) \intersect rep \subseteq ToSet(s.prefixes)
    /\ IsMap(x) => x.map.listed \intersect rep \subseteq ToSet(s.prefixes)
HiddenOverlay(s, q, rep) ==
    s.available /\ ~Period(s) /\ (s.loaded \/ s.finished = <<"Primary">>) =>
      /\ s.publications = <<>> => s.installed.listed \intersect rep \subseteq ToSet(s.prefixes)
      /\ \A i \in 1..Len(q) : LeavesOut(s, q[i], rep)

\* What exists and was listed is on its way into the job's map, or no map of the
\* job will be published.
StoreLost(s, q, st) ==
    \/ ~st.running
    \/ /\ \A i \in 1..Len(q) : ~Begins(q[i])
       /\ ~st.active.open \/ st.admissionFailed \/ st.active.gen # JobGen(s)
InPipe(s, q, st, x) ==
    \/ \E i \in 1..Len(q) : IsAdmit(q[i], JobGen(s)) /\ q[i].entry = x
    \/ st.active.gen = JobGen(s) /\ x \in st.active.listed
    \/ StoreLost(s, q, st)
ToBeTold(s, ev, sc, x) ==
    \/ sc.gen # NoGeneration /\ sc.seen[x] = "unread"
    \/ \E i \in 1..Len(ev) : IsBatch(ev[i], JobGen(s)) /\ ev[i].entry = x
Admits(s, q) ==
    \A i, j \in 1..Len(q) :
        /\ i < j /\ IsAdmit(q[i], JobGen(s)) => ~Begins(q[j])
        /\ i < j /\ IsPub(q[i]) => ~IsAdmit(q[j], JobGen(s))
Delivered(s, q, st, ev, sc, dk) ==
    \A x \in dk :
      /\ Scanned(s) /\ s.available /\ (s.loaded => ~s.invalidated /\ ~s.suppressed) =>
           ToBeTold(s, ev, sc, x) \/ InPipe(s, q, st, x)
      /\ (\E i \in 1..Len(q) : q[i].kind = "Publish") => InPipe(s, q, st, x)
Pipeline(s, q, st, ev, sc, dk) ==
    Working(s) => Admits(s, q) /\ Delivered(s, q, st, ev, sc, dk)

Regular(s, q, st, ev, sc, rep, dk) ==
    /\ ~Doomed(s) /\ Order(s, q, st, dk) /\ Pipeline(s, q, st, ev, sc, dk)
    /\ HiddenFirst(s, q, st, ev, rep) /\ HiddenRebuild(s, q, st, ev, rep)
    /\ Rebuilt(s, rep) /\ RebuildShrinks(s, q, st, ev)

\* The map that is installed.
Shown(s, rep, dk) ==
    /\ s.installed.listed \intersect rep \subseteq s.hidden
    /\ s.installed # NoMap => dk \subseteq s.installed.listed

Mode(s, q, st, ev, ex, sc, rep, dk) ==
    \/ GivenUp(s, ev, ex, sc)
    \/ Doomed(s) /\ ex = NoEntry /\ DoomedOrder(s, q, st, dk)
    \/ Regular(s, q, st, ev, sc, rep, dk)

\* The part that holds while a removal is not yet accounted for.
Nearly(s, q, st, ev, ex, sc, rep, dk) ==
    /\ Gens(s, q, st, ev) /\ Phase(s) /\ Job(s, ev, sc) /\ Flags(s, ex, dk)
    /\ Cancelled(s, ev, ex, sc) /\ Cancellation(s, q, ev, ex, sc)
    /\ Shown(s, rep, dk) /\ Mode(s, q, st, ev, ex, sc, rep, dk)
Core(s, q, st, ev, ex, sc, rep, dk) ==
    Nearly(s, q, st, ev, ex, sc, rep, dk) /\ Cleared(s) /\ HiddenOverlay(s, q, rep)

\* Excused failures that are not made good yet.
Excuses(s, ex, exc, dk) ==
    /\ s.available /\ ~Period(s)
    /\ s.installed.scan = 0 \/ (~s.loaded /\ s.finished = <<>>)
    =>
        \A x \in exc \intersect dk : ~s.rebuild => s.excused /\ ex = x

\* Between two steps.
AtRest(s) ==
    /\ s.finished = <<"Primary">> => ~s.available /\ s.installed = NoMap
    /\ s.finished = <<"Rebuild">> => s.invalidated
    /\ s.sent = <<>>

\* Answers not applied, then commands not taken.
Flight == IF store.running THEN results \o store.held \o commands ELSE results

\* The inductive invariant.
Inv ==
    /\ TypeOK /\ Executions(events, executing, reported, disk)
    /\ own.ended => own.required \/ own.active
    /\ ~own.ended =>
         /\ Core(own, Flight, store, events, executing, scan, reported, disk)
         /\ AtRest(own) /\ Excuses(own, executing, excusals, disk)

=============================================================================
