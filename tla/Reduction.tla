----------------------------- MODULE Reduction -----------------------------
(***************************************************************************)
(* What the scan store makes of a scan's facts (scan_store/session.rs,     *)
(* path_reducer.rs, identity_observation.rs, page.rs): batches of sealed   *)
(* entries are kept as sorted runs in a pyramid of levels, merged when the *)
(* scan ends, and reduced to the sizes of every folder.  A file is counted *)
(* once however many names it has, at the lowest folder above all of them, *)
(* and what could not be read opens the upper bounds above it.  A finished *)
(* deletion is taken out of the map without a scan.                        *)
(*                                                                         *)
(* The tree does not change while it is scanned, except that a file may    *)
(* have another size when it is met under its second name.  Afterwards the *)
(* reader deletes entries, and other processes may take names away.        *)
(* Apparent sizes are summed as the counts of descendants are, and left    *)
(* out.                                                                    *)
(***************************************************************************)
EXTENDS Integers, FiniteSets, SequencesExt

CONSTANTS
    Dirs, Slots,        \* names in the tree, as paths: folders and files
    Batches,            \* the names a worker seals together
    Linkings,           \* which names share a file: functions from Slots to 1..n
    Bytes(_),           \* the size of a file
    FanIn, Levels,      \* MAX_ACTIVE_INPUT_RUNS, MAX_RUN_LEVELS
    UnreadableCap,      \* MAX_TRACKED_UNREADABLE_DIRECTORIES
    MaxOddities,        \* bound on what is unusual in one tree
    MaxVanished         \* bound on the names other processes take away

ASSUME ReductionConstants ==
    /\ Dirs \intersect Slots = {} /\ Batches \subseteq SUBSET (Dirs \union Slots)
    /\ FanIn \in Nat \ {0, 1} /\ Levels \in Nat \ {0}
    /\ UnreadableCap \in Nat /\ MaxOddities \in Nat /\ MaxVanished \in Nat

VARIABLES
    file, odd, seen,                  \* the tree: files by name, oddities, what listings gave
    names, vanished,                  \* the names still there; those others took away
    unsealed, told,                   \* batches to come; oddities the owner was told of
    phase,                            \* the generation's state
    pathRuns, identityRuns,           \* the two pyramids
    unrecorded, unreadable, overflowed,
    map, overlaid                     \* what is published, and whether as an overlay

tree == <<file, odd, seen>>
notes == <<unrecorded, unreadable, overflowed>>
runs == <<pathRuns, identityRuns>>
vars == <<tree, names, vanished, unsealed, told, phase, runs, notes, map, overlaid>>

Root == <<>>
Names == Dirs \union Slots
NoBound == -1
NoMap == <<>>

(***************************************************************************)
(* The tree.  An entry may fail to be read, a folder to be listed beyond   *)
(* some of its entries; a folder may be replaced before it is opened, an   *)
(* entry be excluded or on another file system; a size or a link count may *)
(* be unavailable, a file have a link outside the tree.                    *)
(***************************************************************************)
Failures ==
    [what : {"unread"}, at : Names] \union [what : {"unlisted"}, at : Dirs \union {Root}]
Oddities ==
    Failures
        \union [what : {"out of scope"}, at : Names]
        \union [what : {"replaced"}, at : Dirs]
        \union [what : {"unsized", "resized", "links unknown", "linked outside"}, at : Slots]

AtMost(n, S) == {ToSet(o) : o \in UNION {[1..k -> S] : k \in 0..n}}

Is(what, n) == [what |-> what, at |-> n] \in odd
Closed(d) == Is("replaced", d) \/ Is("out of scope", d)

\* Names whose folder was opened and whose listing gave them.
IsListing(S) ==
    \A n \in Names :
        LET reached == Front(n) \in S \union {Root} /\ ~Closed(Front(n)) /\ ~Is("unread", n)
        IN  /\ n \in S => reached
            /\ reached /\ ~Is("unlisted", Front(n)) => n \in S

LinksOf(f, present) ==
    Cardinality({s \in Slots \intersect present : file[s] = f})
        + (IF \E s \in Slots : file[s] = f /\ Is("linked outside", s) THEN 1 ELSE 0)
LinksRead(s) == IF Is("links unknown", s) THEN NoBound ELSE LinksOf(file[s], names)
SizeRead(s) ==
    IF Is("unsized", s) THEN NoBound
    ELSE Bytes(file[s]) + (IF Is("resized", s) THEN 8 ELSE 0)

(***************************************************************************)
(* Sizes with bounds, and the order of keys.                               *)
(***************************************************************************)
Exact(b) == [lower |-> b, upper |-> b]
UnknownBytes == [lower |-> 0, upper |-> NoBound]
OfSize(b) == IF b = NoBound THEN UnknownBytes ELSE Exact(b)
IsExact(b) == b.upper = b.lower
AddBounds(a, b) ==
    [lower |-> a.lower + b.lower,
     upper |-> IF NoBound \in {a.upper, b.upper} THEN NoBound ELSE a.upper + b.upper]
Open(b) == [b EXCEPT !.upper = NoBound]

Physical(alloc, recl) == [alloc |-> alloc, recl |-> recl]
Nothing == Physical(Exact(0), Exact(0))
AddPhysical(a, b) == Physical(AddBounds(a.alloc, b.alloc), AddBounds(a.recl, b.recl))
OpenUnless(certain, p) == IF certain THEN p ELSE Physical(Open(p.alloc), Open(p.recl))

Before(a, b) ==
    \/ IsStrictPrefix(a, b)
    \/ \E i \in DOMAIN a \intersect DOMAIN b :
           /\ SubSeq(a, 1, i - 1) = SubSeq(b, 1, i - 1)
           /\ a[i] < b[i]
KeyBefore(r, s) == Before(r.key, s.key)

(***************************************************************************)
(* What a worker seals of the entries it has listed.                       *)
(***************************************************************************)
Observation(n) ==
    LET isDir == n \in Dirs
        links == IF isDir THEN 0 ELSE LinksRead(n)
        bytes == IF isDir THEN Exact(0) ELSE OfSize(SizeRead(n))
    IN  [key |-> n, dir |-> isDir, certain |-> ~Is("out of scope", n),
         file |-> IF isDir THEN 0 ELSE file[n], links |-> links, bytes |-> bytes,
         metrics |-> IF links = 1 THEN Physical(bytes, bytes) ELSE Nothing]

IdentityOf(o) ==
    [key |-> <<o.file>> \o o.key, file |-> o.file, path |-> o.key,
     links |-> o.links, bytes |-> o.bytes]

IdentitiesOf(O) == {IdentityOf(o) : o \in {p \in O : ~p.dir /\ p.links # 1}}

\* An entry outside the scan's scope is sealed by itself.
SealedBatches ==
    ({(b \intersect seen) \ {n \in Names : Is("out of scope", n)} : b \in Batches}
        \union {{n} : n \in {m \in seen : Is("out of scope", m)}}) \ {{}}

(***************************************************************************)
(* The pyramid of runs.                                                    *)
(***************************************************************************)
NoRuns == [i \in 1..Levels |-> <<>>]

\* Takes the least of the runs' next records until all are taken.
MergeFamily(inputs) ==
    LET Take(m, _i) ==
            LET ready == {i \in DOMAIN inputs : m.next[i] <= Len(inputs[i])}
                first == CHOOSE i \in ready : \A j \in ready :
                             ~KeyBefore(inputs[j][m.next[j]], inputs[i][m.next[i]])
            IN  [next |-> [m.next EXCEPT ![first] = @ + 1],
                 output |-> Append(m.output, inputs[first][m.next[first]])]
    IN  FoldLeftDomain(Take, [next |-> [i \in DOMAIN inputs |-> 1], output |-> <<>>],
                       FlattenSeq(inputs)).output

\* A full level is merged into one run of the next.  The last level never fills:
\* it would take FanIn ^ Levels batches.
CompactInputFamily(levels) ==
    LET Carry(l, i) ==
            IF Len(l[i]) >= FanIn /\ i < Levels
            THEN [l EXCEPT ![i] = <<>>, ![i + 1] = Append(@, MergeFamily(l[i]))]
            ELSE l
    IN  FoldLeftDomain(Carry, levels, levels)

AcceptInputRun(levels, records) ==
    IF records = {} THEN levels
    ELSE CompactInputFamily([levels EXCEPT ![1] = Append(@, SetToSortSeq(records, KeyBefore))])

\* At the end all runs are merged in groups, and the results again, until one is left.
MergeTieredFamily(levels) ==
    LET pending == FlattenSeq(levels)
        Round(r, _i) ==
            [g \in 1..((Len(r) + FanIn - 1) \div FanIn) |->
                MergeFamily(SubSeq(r, (g - 1) * FanIn + 1,
                                   IF g * FanIn < Len(r) THEN g * FanIn ELSE Len(r)))]
    IN  IF pending = <<>> THEN <<>> ELSE FoldLeftDomain(Round, pending, pending)[1]

(***************************************************************************)
(* The bottom-up reduction of a sorted stream of paths: a stack of open    *)
(* folders, each closed into its parent when the stream leaves it.         *)
(***************************************************************************)
OpenDirectory(path, metrics, certain) ==
    [path |-> path, metrics |-> metrics, certain |-> certain, below |-> 0]

AddChild(d, metrics, certain, below) ==
    [d EXCEPT !.metrics = AddPhysical(@, metrics), !.certain = @ /\ certain,
              !.below = @ + below + 1]

IsUnreadable(path) == overflowed \/ path \in unreadable
ForceUncertainIfUnreadable(d) ==
    IF IsUnreadable(d.path)
    THEN [d EXCEPT !.certain = FALSE, !.metrics = OpenUnless(FALSE, @)] ELSE d

CloseDirectory(r) ==
    LET d == ForceUncertainIfUnreadable(Last(r.open))
        rest == Front(r.open)
    IN  [r EXCEPT !.summaries = Append(@, d),
                  !.open = [rest EXCEPT ![Len(rest)] =
                                AddChild(@, d.metrics, d.certain, d.below)]]

ReduceObservation(r, o) ==
    LET depth == CHOOSE i \in DOMAIN r.open :
                     /\ IsPrefix(r.open[i].path, o.key)
                     /\ \A j \in DOMAIN r.open : IsPrefix(r.open[j].path, o.key) => j <= i
        c == FoldLeftDomain(LAMBDA s, _i : CloseDirectory(s), r,
                            SubSeq(r.open, depth + 1, Len(r.open)))
    IN  IF r.refused \/ c.open[depth].path # Front(o.key) THEN [r EXCEPT !.refused = TRUE]
        ELSE IF o.dir
        THEN [c EXCEPT !.open = Append(@, OpenDirectory(o.key, o.metrics, o.certain))]
        ELSE [c EXCEPT !.open[depth] = AddChild(@, o.metrics, o.certain, 0)]

\* The folders' summaries, the root's last, and whether the stream was refused.
ReduceSortedPaths(run) ==
    LET start == [open |-> <<OpenDirectory(Root, Nothing, TRUE)>>, summaries |-> <<>>,
                  refused |-> FALSE]
        r == FoldLeft(ReduceObservation, start, run)
        c == FoldLeftDomain(LAMBDA s, _i : CloseDirectory(s), r, Tail(r.open))
    IN  [refused |-> r.refused,
         summaries |-> Append(c.summaries, ForceUncertainIfUnreadable(c.open[1]))]

(***************************************************************************)
(* The reduction of hard links: the names of one file follow one another   *)
(* in the sorted stream, and become one contribution to a recipient.       *)
(***************************************************************************)
ExactBytes(b) == IF IsExact(b) THEN b.lower ELSE NoBound
MergeKnown(a, b) == IF a = b THEN a ELSE NoBound

\* Mutant: the folder of the first name takes the place of the common one.
FolderOfFirst(p, q) == Front(p)

CommonAncestor(p, q) == LongestCommonPrefix({p, q})

NewGroup(i) ==
    [file |-> i.file, recipient |-> i.path, observed |-> 1, declared |-> i.links,
     bytes |-> ExactBytes(i.bytes)]
ObserveLink(g, i) ==
    [g EXCEPT !.observed = @ + 1, !.declared = MergeKnown(@, i.links),
              !.bytes = MergeKnown(@, ExactBytes(i.bytes)),
              !.recipient = CommonAncestor(@, i.path)]

Contribution(g) ==
    LET alloc == OfSize(g.bytes)
        allSeen == g.declared # NoBound /\ g.observed >= g.declared
    IN  [recipient |-> g.recipient, shared |-> g.observed > 1,
         physical |-> Physical(alloc, IF allSeen THEN alloc ELSE [alloc EXCEPT !.lower = 0])]

Flush(groups) ==
    IF groups = <<>> THEN <<>> ELSE <<Contribution(Last(groups))>>

ReduceIdentityObservations(run) ==
    LET Take(r, i) ==
            IF r.group # <<>> /\ Last(r.group).file = i.file
            THEN [r EXCEPT !.group = <<ObserveLink(Last(@), i)>>]
            ELSE [group |-> <<NewGroup(i)>>, output |-> r.output \o Flush(r.group)]
        r == FoldLeft(Take, [group |-> <<>>, output |-> <<>>], run)
    IN  r.output \o Flush(r.group)

(***************************************************************************)
(* The page index: a header for each folder, an entry for each name.       *)
(***************************************************************************)
StoredEntry(o, summary) ==
    [fact |-> o, certain |-> IF o.dir THEN summary.certain ELSE o.certain,
     metrics |-> IF o.dir THEN summary.metrics ELSE o.metrics,
     leafSeen |-> ~o.dir /\ o.links = 1 /\ o.metrics = Physical(o.bytes, o.bytes)]
StoredHeader(summary) ==
    [metrics |-> summary.metrics, certain |-> summary.certain, below |-> summary.below,
     shared |-> Nothing]

\* A contribution is added to every folder above its recipient and to their
\* entries; the entry of a single name becomes it.
ApplyAllocation(index, c) ==
    [headers |-> [d \in DOMAIN index.headers |->
        CASE IsStrictPrefix(d, c.recipient) ->
                 [index.headers[d] EXCEPT !.metrics = AddPhysical(@, c.physical)]
          [] c.shared /\ d = c.recipient ->
                 [index.headers[d] EXCEPT !.metrics = AddPhysical(@, c.physical),
                                          !.shared = AddPhysical(@, c.physical)]
          [] OTHER -> index.headers[d]],
     entries |-> [n \in DOMAIN index.entries |->
        CASE ~c.shared /\ n = c.recipient ->
                 [index.entries[n] EXCEPT !.metrics = c.physical, !.leafSeen = TRUE]
          [] IsPrefix(n, c.recipient) /\ (c.shared \/ n # c.recipient) ->
                 [index.entries[n] EXCEPT !.metrics = AddPhysical(@, c.physical)]
          [] OTHER -> index.entries[n]]]

MaterializeChildQueries(paths, summaries, contributions) ==
    LET SummaryOf(d) == summaries[SelectInSeq(summaries, LAMBDA s : s.path = d)]
        index == [headers |-> [d \in {s.path : s \in ToSet(summaries)} |->
                                  StoredHeader(SummaryOf(d))],
                  entries |-> [n \in {o.key : o \in ToSet(paths)} |->
                      LET o == paths[SelectInSeq(paths, LAMBDA p : p.key = n)]
                      IN  StoredEntry(o, IF o.dir THEN SummaryOf(n) ELSE <<>>)]]
    IN  FoldLeft(ApplyAllocation, index, contributions)

\* What a page shows of an entry, of its folder, and of the scan root.
PageEntry(m, n) ==
    LET e == m.entries[n]
    IN  OpenUnless(e.certain, IF e.fact.dir \/ e.leafSeen THEN e.metrics ELSE Nothing)
PageFolder(m, d) == OpenUnless(m.headers[d].certain, m.headers[d].metrics)
PageRoot(m) == OpenUnless(unrecorded = 0, PageFolder(m, Root))

(***************************************************************************)
(* Publication.                                                            *)
(***************************************************************************)
Reduced(paths, identities) ==
    LET r == ReduceSortedPaths(paths)
    IN  IF r.refused THEN NoMap
        ELSE MaterializeChildQueries(paths, r.summaries, ReduceIdentityObservations(identities))

SummaryRoot(paths) == Last(ReduceSortedPaths(paths).summaries)

Init ==
    /\ file \in Linkings
    /\ odd \in AtMost(MaxOddities, Oddities) \union AtMost(UnreadableCap + 2, Failures)
    /\ seen \in SUBSET Names /\ IsListing(seen)
    /\ names = Names /\ vanished = {}
    /\ unsealed = SealedBatches
    /\ told = {} /\ phase = "scanning"
    /\ pathRuns = NoRuns /\ identityRuns = NoRuns
    /\ unrecorded = 0 /\ unreadable = {} /\ overflowed = FALSE
    /\ map = NoMap /\ overlaid = FALSE

AppendObservationBatch(b) ==
    /\ phase = "scanning" /\ b \in unsealed
    /\ unsealed' = unsealed \ {b}
    /\ LET O == {Observation(n) : n \in b} IN
           /\ pathRuns' = AcceptInputRun(pathRuns, O)
           /\ identityRuns' = AcceptInputRun(identityRuns, IdentitiesOf(O))
    /\ UNCHANGED <<tree, names, vanished, told, phase, notes, map, overlaid>>

RecordUnreadableDirectory(path) ==
    LET tracked == unreadable \union {path}
        full == overflowed \/ Cardinality(tracked) > UnreadableCap
    IN  /\ overflowed' = full
        /\ unreadable' = IF full THEN {} ELSE tracked

\* What the owner is told of: entries it could not read, folders it could not
\* list, and folders that were replaced.
MustBeTold ==
    {o \in odd : \/ o.what \in {"unlisted", "replaced"} /\ o.at \in seen \union {Root}
                 \/ o.what = "unread" /\ Front(o.at) \in seen \union {Root}
                                      /\ ~Closed(Front(o.at))}

HandleScanFailure(o) ==
    /\ phase = "scanning" /\ o \in MustBeTold \ told
    /\ told' = told \union {o}
    /\ unrecorded' = unrecorded + 1
    /\ IF o.what = "replaced" THEN UNCHANGED <<unreadable, overflowed>>
       ELSE RecordUnreadableDirectory(o.at)
    /\ UNCHANGED <<tree, names, vanished, unsealed, phase, runs, map, overlaid>>

\* The store has no room for a run, at any time before the map is complete.
MarkActiveIncomplete ==
    /\ phase = "scanning"
    /\ phase' = "incomplete"
    /\ UNCHANGED <<tree, names, vanished, unsealed, told, runs, notes, map, overlaid>>

ScanIsOver == phase = "scanning" /\ unsealed = {} /\ told = MustBeTold

PublishReporting ==
    /\ ScanIsOver
    /\ map' = Reduced(MergeTieredFamily(pathRuns), MergeTieredFamily(identityRuns))
    /\ phase' = IF map' = NoMap THEN "refused" ELSE "published"
    /\ pathRuns' = NoRuns /\ identityRuns' = NoRuns
    /\ UNCHANGED <<tree, names, vanished, unsealed, told, notes, overlaid>>

\* There is room for the summaries of the folders and not for the pages.
FinishSummaryOnlyGeneration ==
    /\ ScanIsOver
    /\ map' = SummaryRoot(MergeTieredFamily(pathRuns))
    /\ phase' = "summary only"
    /\ pathRuns' = NoRuns /\ identityRuns' = NoRuns
    /\ UNCHANGED <<tree, names, vanished, unsealed, told, notes, overlaid>>

(***************************************************************************)
(* A deletion removed the entry p of the map and all below it.             *)
(***************************************************************************)
Below(p, S) == {n \in S : IsPrefix(p, n)}

\* The executor's report: a removed file had another name, or may have had one.
DeletedFilesMayHaveOtherLinks(p) ==
    \E s \in Below(p, Slots \intersect names) : Is("links unknown", s) \/ LinksOf(file[s], names) > 1

\* Mutant: the store relies on the link counts the executor read.
LeftToExecutor(o) == FALSE

MayHaveOtherLinks(o) == ~o.dir /\ o.links # 1

IdentityRequiresReduction(o) ==
    ~o.dir /\ (o.links # 1 \/ o.metrics # Physical(o.bytes, o.bytes))

CopyOverlayFacts(p) ==
    LET kept == {map.entries[n].fact : n \in DOMAIN map.entries \ Below(p, Names)}
        linked == {IdentityOf(o) : o \in {k \in kept : IdentityRequiresReduction(k)}}
    IN  Reduced(SetToSortSeq(kept, KeyBefore), SetToSortSeq(linked, KeyBefore))

\* The folder that held p, listed again, has what the map lists of it.  The scan
\* root is not listed again.
FolderIsAsListed(p) ==
    LET Beside(S) == {n \in S : Front(n) = Front(p)} \ {p}
    IN  Front(p) = Root \/ Beside(names) = Beside(DOMAIN map.entries)

OverlayIsExact(p) ==
    /\ ~DeletedFilesMayHaveOtherLinks(p)
    /\ FolderIsAsListed(p)
    /\ \A n \in Below(p, DOMAIN map.entries) : ~MayHaveOtherLinks(map.entries[n].fact)

BeginOverlayGeneration(p) ==
    /\ phase = "published" /\ p \in DOMAIN map.entries \intersect names
    /\ OverlayIsExact(p)
    /\ names' = names \ Below(p, names)
    /\ vanished' = vanished \ Below(p, vanished)
    /\ map' = CopyOverlayFacts(p)
    /\ phase' = IF map' = NoMap THEN "refused" ELSE "published"
    /\ overlaid' = TRUE
    /\ UNCHANGED <<tree, unsealed, told, runs, notes>>

\* The removal cannot be described, the folder is not what the map recorded, or
\* there is no room: the tree is to be scanned again.
OverlayNeedsRescan(p) ==
    /\ phase = "published" /\ p \in DOMAIN map.entries \intersect names
    /\ names' = names \ Below(p, names)
    /\ phase' = "rescan"
    /\ UNCHANGED <<tree, vanished, unsealed, told, runs, notes, map, overlaid>>

\* Another process takes the name of a file away, which the map learns by a scan.
\* The scan has listed the file's names: where it has not, map and executor each
\* miss one link, and the space is called less certain than it is.
Vanishes(s) ==
    /\ phase = "published" /\ s \in names
    /\ \A t \in Slots : file[t] = file[s] => t \in seen
    /\ Cardinality(vanished) < MaxVanished
    /\ names' = names \ {s}
    /\ vanished' = vanished \union {s}
    /\ UNCHANGED <<tree, unsealed, told, phase, runs, notes, map, overlaid>>

Next ==
    \/ \E b \in unsealed : AppendObservationBatch(b)
    \/ \E o \in odd : HandleScanFailure(o)
    \/ MarkActiveIncomplete \/ PublishReporting \/ FinishSummaryOnlyGeneration
    \/ \E p \in Names : BeginOverlayGeneration(p) \/ OverlayNeedsRescan(p)
    \/ \E s \in Slots : Vanishes(s)

Spec == Init /\ [][Next]_vars

(***************************************************************************)
(* The reference: what a map of the tree should say, from the tree itself. *)
(* The tree is the one the reader left: without what was deleted, and with *)
(* what other processes took away since the scan, of which no map knows.   *)
(***************************************************************************)
Present == names \union vanished
InMap == seen \intersect Present
NamesOf(f) == {s \in InMap \intersect Slots : file[s] = f}
FilesBelow(d) ==
    {f \in {file[s] : s \in InMap \intersect Slots} : \A s \in NamesOf(f) : IsStrictPrefix(d, s)}

\* The size of a file, when every name gave the same one, and whether the scan
\* knows all its links.
Size(f) == SizeRead(CHOOSE s \in NamesOf(f) : TRUE)
SizeKnown(f) == Size(f) # NoBound /\ \A s \in NamesOf(f) : SizeRead(s) = Size(f)
LinksKnown(f) ==
    /\ \A s \in NamesOf(f) : ~Is("links unknown", s)
    /\ LinksOf(f, Present) = Cardinality(NamesOf(f))

TrueSize(files, uncertain) ==
    LET known == {f \in files : SizeKnown(f)}
        total == MapThenSumSet(Size, known)
        upper == IF uncertain \/ known # files THEN NoBound ELSE total
    IN  Physical([lower |-> total, upper |-> upper],
                 [lower |-> MapThenSumSet(Size, {f \in known : LinksKnown(f)}),
                  upper |-> upper])

\* "Parent folders retain a lower bound and show the uncertainty" (accounting.md):
\* something at or below d was not scanned, or more failed than is tracked, which
\* makes every folder uncertain.
Uncertain(d, failures) ==
    \/ d \notin Slots /\ Cardinality(failures \intersect Failures) > UnreadableCap
    \/ \E o \in failures : IsPrefix(d, o.at)
    \/ \E n \in InMap : IsPrefix(d, n) /\ Is("out of scope", n)

\* The failures a scan of the tree the reader left would meet.
FailuresLeft == {o \in told : o.at \in Present \union {Root}}

\* Of an entry that could not be read and of a folder that was replaced the store
\* is not told whose parts they are, and only the scan root shows the uncertainty.
Unplaced(d) ==
    d # Root /\ \E o \in FailuresLeft : o.what \in {"unread", "replaced"} /\ IsPrefix(d, o.at)

\* Files of which some name is out of scope.  accounting.md calls them zero-byte
\* records and the scanner seals their size; a map may do either.
OutOfScope == {file[s] : s \in {t \in InMap \intersect Slots : Is("out of scope", t)}}

\* What is shown of d is the size of these files.  An upper bound is missing where
\* something is, and where something was that the reader has deleted since.
Shows(page, d, files) ==
    \E uncertain \in BOOLEAN, left \in {{}, OutOfScope} :
        /\ page = TrueSize(files \ left, uncertain)
        /\ uncertain => Uncertain(d, told)
        /\ Uncertain(d, FailuresLeft) => uncertain \/ Unplaced(d)

FilesAt(n) ==
    IF n \in Dirs THEN FilesBelow(n)
    ELSE IF NamesOf(file[n]) = {n} THEN {file[n]} ELSE {}

\* The parts of a folder's page add up to the folder.
PageAddsUp(m, d) ==
    LET parts == {n \in DOMAIN m.entries : Front(n) = d}
        AllocOf(n) == PageEntry(m, n).alloc.lower
        ReclOf(n) == PageEntry(m, n).recl.lower
        page == PageFolder(m, d)
    IN  /\ page.alloc.lower = MapThenSumSet(AllocOf, parts) + m.headers[d].shared.alloc.lower
        /\ page.recl.lower = MapThenSumSet(ReclOf, parts) + m.headers[d].shared.recl.lower

DescribesTree(m) ==
    /\ DOMAIN m.entries = InMap
    /\ \A n \in InMap : Shows(PageEntry(m, n), n, FilesAt(n))
    /\ \A d \in DOMAIN m.headers :
           /\ d # Root => Shows(PageFolder(m, d), d, FilesBelow(d))
           /\ m.headers[d].below = Cardinality({n \in InMap : IsStrictPrefix(d, n)})
           /\ PageAddsUp(m, d)
    /\ Shows(PageRoot(m), Root, FilesBelow(Root))

\* A summary has the files that have one link and none of the others, and says
\* whether the listing was complete.
SoleLinks == {f \in FilesBelow(Root) : \A s \in NamesOf(f) : LinksRead(s) = 1}
DescribesRoot(summary) ==
    /\ \E left \in {{}, OutOfScope} :
           LET size == TrueSize(SoleLinks \ left, FALSE)
           IN  /\ summary.metrics.alloc.lower = size.alloc.lower
               /\ summary.metrics.recl.lower = size.recl.lower
    /\ ~summary.certain => Uncertain(Root, told)
    /\ summary.certain /\ Uncertain(Root, told) =>
           \E o \in told : o.what \in {"unread", "replaced"}
    /\ summary.below = Cardinality(InMap)

\* In whatever order the batches were admitted, merged and reduced, a map that is
\* published says of every folder and entry what the tree says: a file with several
\* names is counted once, in the folders above all of them; its space is reclaimable
\* for certain only when the scan has met all its links; and an upper bound is given
\* where all sizes are known and nothing was missed, and only there.  A summary
\* without pages has the known space of the files with one link only, and nothing is
\* said of its upper bounds, which leave the others out too.  Where the code
\* disagrees with accounting.md less is said: of the upper bounds of a folder, other
\* than the root, in which an entry could not be read or a folder was replaced,
\* nothing, and of files out of scope that they count with their size or not at all.
\* (publish_reporting, reduce_sorted_path_stream, reduce_identity_observations)
MapIsTrue ==
    /\ phase # "refused"
    /\ phase = "published" /\ ~overlaid => DescribesTree(map)
    /\ phase = "summary only" => DescribesRoot(map)

\* A map from which deletions were taken out says what a scan that meets the same
\* failures would say of the tree the reader left, hard links included; only an upper
\* bound may stay open for something that was deleted.  What other processes did
\* since the scan it neither shows nor mistakes for the reader's doing.
\* (copy_overlay_facts, may_have_other_links, removal_can_be_described)
OverlayIsRescan == phase = "published" /\ overlaid => DescribesTree(map)
=============================================================================
