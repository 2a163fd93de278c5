# Excise in TLA+

Excise is a terminal program that scans a folder, draws what takes up its space
as a treemap, and deletes what the reader picks. The drawing is the visible part;
the hard part is behind it. A scan runs on many threads, its results are reduced
and published by a store thread, deletions are planned and executed on two more
threads while other processes change the same tree, and the reader may press a
key, resize the terminal or send a signal at any moment. This directory models
that part, checks it with TLC and proves most of its safety with TLAPS.

Paths below are relative to the repository; `src/src/...` in comments and in
`PROJECT.json` is the crate's `src/` directory.

## 1. Inventory

### Components, their state and how they interact

The **owner loop** (`runtime/mod.rs`, `run_loop`) is the only writer of the
application's state (`app.rs`). Each pass serves, in this order, stop signals,
input, store results, worker events and deadlines (the departing tile, animation
frames). Everything else is reached through channels or atomics:

| Component | State | Operations | Talks to |
|---|---|---|---|
| session coordinator (`scan_coordinator_core.rs`, `scan_coordinator.rs`) | work records: pending with two ready orders, leases with an index by key, the executing deletion, focus, counts | schedule, acquire, lease (next, next scan, exact), finish, requeue, invalidate, terminate, advance the generation, focus | an actor behind a bounded command queue, used by scanner and owner |
| deletion rail (`state/deletion_work.rs`) | up to four items and their stages, leases, the stop atomic | request, confirm, plan, execute, cancel, stop | owner, coordinator |
| worker lanes (`runtime/worker.rs`) | one planner and one executor thread, each with a channel of one; cancellation flags | receive, answer, shut down | owner |
| deletion executor (`deletion.rs`, `private_files.rs`) | directory handles, placeholder and detached name of the entry under way, the report | isolate, look, remove, restore, finalize, for each entry of a plan | file system, stop atomic |
| application state (`app.rs`) | map, mode, rebuild and overlay debts, excused failures | reconcile a report, begin and end a rebuild, show a confirmation | owner only |
| keys and dialogs (`input/controls.rs`, `ui/modals/`) | what a dialog says | requests, confirmations, the exit dialog | owner |
| scanner (`runtime/scanner.rs`, `scanner/*`) | queue of folders with a spill file, running workers, event credit | schedule, read a folder, report, focus, end | coordinator, owner |
| store thread (`scan_store/store_thread.rs`, `session.rs`) | generations, runs, pages, overlay | admit, publish, overlay, read a page | owner, over two bounded channels |
| reduction (`run_merge.rs`, `path_reducer.rs`, ...) | sorted runs on disk | merge, bottom-up sums, hard-link accounting | store thread |
| session lock and sweep (`session_lock.rs`, `sweep.rs`) | a directory per session, a lock file with a marker | create, lock, tear down, sweep what dead sessions left | other processes |
| temporary storage (`temporary_storage.rs`) | bytes reserved against one limit | reserve, grow, shrink, release, stop | store, scanner, planner |
| signals, shutdown (`signals.rs`, `scan_session.rs`) | request counters, join deadlines | request, acknowledge, join | owner |
| terminal writer (`terminal.rs`) | a bounded queue of frames | write, restore | owner |

Configuration, path conversions, the report's wording, the board's geometry, the
Windows wrappers and the scenario harness are listed in `PROJECT.json` with the
reason they stay out.

### What is hard

* **Two threads of control in one entry.** A stop races the executor's claim and
  begin on one atomic; a shutdown races both.
* **Cancelling by flag.** One flag cancels every plan there will ever be, so a
  flag raised late, or not lowered, cancels the wrong one.
* **A tree nobody owns.** Other processes replace, write, link and move entries
  between any two system calls, and the program may die between them.
* **State used after it went stale.** The exit dialog shows what the rail held
  when it was drawn; a lease is reported after its generation was replaced.
* **Two indexes of one thing.** A pending item is in a record and in two ordered
  queues under its priority; every command must change all of them.
* **Leaving.** The program ends when its work is over, and while it is leaving it
  starts none; whatever enters the rail then must not be waited for.
* **Waiting for each other.** Bounded channels in both directions, between the
  owner and the store, between the owner and the scanner, and between the
  scanner's scheduler and its workers.
* **Flag first, message later.** A scanner worker raises a flag and then reports
  why; whoever sees the flag first may leave before the report is sent.
* **A map that follows deletions.** A removal may be reported before the first map,
  behind it, in the middle of a rebuild or of another overlay; each needs a
  different repair and none may undo another.
* **Removal of what is not yours.** A sweep meets directories of sessions that are
  being set up, alive, dying, dead, half removed, or no sessions at all.

`PROJECT.json` lists these as hazards, each at the line where it bites, with the
property that covers it or the reason none does yet.

### What makes each component correct

* coordinator: indexes agree; one execution at a time; no work of an old scan;
  every item ends exactly once; Background work is not starved;
* rail and lanes: the channels, threads and leases hold what the rail says; a
  cancellation reaches the plan it was meant for and no other; a stop leaves the
  target intact or ends at the entry under way; executions and exits end;
* executor: only reviewed objects are removed; nothing else loses its name; the
  report is true and the space it calls freed is free;
* scanner: every folder is read once or reported; the scan ends when and only when
  no work is left; a bounded queue loses nothing;
* store: results apply to the generation they were asked for; no cyclic waiting;
* application state: what was removed is shown on no map, maps never go back, and a
  refresh that is owed is pursued;
* reduction: sums equal the definition over the tree;
* session lock: a live session is never swept, a dead one eventually is;
* temporary storage: what is reserved is what its users hold, and within the limit.

## 2. Modules

| Module | Models |
|---|---|
| `Coordinator` | the coordinator, one action per command of its actor |
| `WorkLedger` | what the coordinator promises: each key idle, waiting or out |
| `CoordinatorProofs` | its invariants and that it implements the ledger, proved |
| `DeletionLane` | rail, owner handlers, planner and executor threads, dialogs, exits |
| `DeletionLaneProofs` | its invariants, proved |
| `EntryIsolation` | the execution of one plan, one system call per step |
| `EntryIsolationProofs` | its invariants, proved |
| `Scanner` | one generation of a scan: scheduler, workers, channels, flags |
| `ScannerProofs` | its invariants, proved |
| `TaskQueue` | the scanner's journal of folders with its spill file, and the quota |
| `TaskQueueProofs` | that the journal stays whole and the quota exact, proved |
| `Iteration` | what it means that a recursive function is a loop of the code, for the proofs |
| `StoreThread` | the store thread: its commands, its answers, its failures |
| `Reconciliation` | `StoreThread` composed with the owner's half of it, a scan and an executor: overlays, rebuilds, hidden removals, excused failures |
| `ReconciliationInvariant` | the inductive invariant behind its theorems |
| `ReconciliationAnswers` | that the store thread and the handler of its answers keep that invariant |
| `ReconciliationProofs` | that everything else does; its properties, proved |
| `Reduction` | what the store makes of a scan's batches: runs, merges, sums, hard links, pages, overlays |
| `SessionSweep` | session directories, their locks, the sweep of dead ones |
| `SessionSweepProofs` | its invariants and action properties, proved |
| `MC...` | instances for TLC |

How they meet: `Coordinator` is what `Scanner` and `DeletionLane` ask for work; in
`Scanner` its choice of the next folder is left open, in `Reconciliation` only its
generation is kept. `TaskQueue` is what `Scanner` keeps as a set. `EntryIsolation`
is one phase of `DeletionLane`'s executor. `DeletionLane` has the availability of
the map as one variable; `Reconciliation` is what that variable stands for, and has
a deletion as three steps (starts, removes, reports). `Reconciliation`'s scan tells
the owner what `Scanner` shows that it tells. A publication, and an overlay, which in
`Reconciliation` either lists the entries there are or fails, is `Reduction`.

### Coordinator

The actor takes one command at a time, so each command is one atomic action. The
variables are the fields of `ScanCoordinator`: `pending` and `queues`, `active`
and `activeByKey`, `activeExecution`, `focusPaths`, `nonBackgroundLeases`,
`terminal`. `held` is the environment: leases workers have and may report, once,
twice or after they became stale. `admitted` and `bypassed` are history. The two
ready orders of the code (by sequence and by path) are two readings of one set of
queue entries: `IsOldest` and `IsFirstUnder`. Paths are sequences of component
ranks, compared as `RelativePath` compares them. `nonBackgroundLeases` saturates
at `MaxU8` as the code's `u8` does. What a client may ask for is the constant
`WorkInputs`.

`WorkLedger` knows nothing of queues, priorities, leases or focus: a key is idle,
waiting or out, exclusive work is out with one worker at a time, and a new epoch
forgets scan work. `ImplementsLedger` maps the records to these sets and shows every
command to be a ledger step or a stutter.

### DeletionLane

The owner runs one handler at a time, but worker threads run between any two of
its statements. A handler is therefore an action with its first effects that
leaves the rest of its body in `todo`; no other handler begins until `todo` is
empty, and threads interleave with its steps. `Serves` keeps the order of one
pass: once `is_running` is false the pass goes on to its end (`lastPass`), each
later source served once more, and then `Shutdown` follows.

`map` abstracts the availability of the map: *loading* (first scan), *finishing*
(its publication), *ready*, *overlay* (an overlay is owed for the last deletion),
*scanning* and *publishing* (a rebuild), *required* (a rebuild that has not begun)
and *lost* (the store failed). `owes` is what deletions that ended meanwhile left
to be done. Modes that can show no confirmation are one mode, `tooSmall`.

The planner thread is a channel of one, the identifier it works on and a choice
of answers; the executor has the phases *revalidate, entry, claim, begin,
isolated*, which are the points where it reads the flags or the stop atomic
`mutation`. What it does to the disk inside *isolated* is the subject of
`EntryIsolation`, which has the same atomic and the same two flags.

### EntryIsolation

Each planned entry stands for the object it names. `at` says what every place
(folder, name) holds: entries, strangers other processes brought, or the
executor's placeholders. The protocol of an entry is: open the parent, claim,
create a placeholder under a private name, begin, exchange entry and placeholder
atomically, look at what is now under the private name, look again, take a
reference for the link count, remove, count, then move the placeholder away from
the entry's own name (retrying fresh private names when one is refused), verify
and unlink it. Whatever fails before the removal puts the entry back. Each of
these is a step, and every step that calls the system may fail where the code
handles a failure.

Other processes act between any two steps: `Put`, `TakeAway`, `Write`, `Link`,
`Unlink`. They take away and put objects at any name of the folder, the entry's own
or a private one, from the moment the private name can be seen there (`Seen`: names
are random, so nobody guesses one before the executor has used it). The system
removes by name, so one window cannot be closed: what somebody puts at the private
name after the executor has looked there for the last time (`LookedAt`) is removed
with that name. `late` has what was put there then, and the properties except it and
nothing else; everything put there earlier is found by the second look or by the
check of the placeholder. A move by another process is a taking away and a putting
of something else. A crash needs no action of its own: what is on disk is `at`, and
`NothingIsLost` is required in every state, so it holds at whatever point the
process dies.

### Scanner

The scheduler is a loop with named places (`at`): its top, where it looks at the
three flags, the dispatch, the select over the command channel and the workers'
result channels, the forwarding of a completed worker's remaining results, and the
report of a failure. A worker has the places of `scan_worker`: it looks at the
flags, receives an assignment, checks the root, opens the folder, reads it part by
part, seals and reports each part, enqueues the subfolders it named, and finishes.
Each send over a bounded channel is a step that waits for room or finds the receiver
gone; a channel whose thread has left is closed, as the drop in the code closes it.
`FinishScan` is the end of `run_with_scheduler`: with all threads gone the owner is
sent `ScanFinished`. Faults are: a folder that cannot be opened or was replaced, an
entry that cannot be read, a batch that cannot be sealed, a refused journal, a
replaced root; each happens at most once, `MaxCauses` bounds how many kinds. One more
comes from the owner: when the scan is a rebuild's, the overlay of a deletion that
finished moves the coordinator on to a newer generation (`OwnerAdvances`), which takes
the pending and leased folders of the scan away from it. The scheduler is not told: its
next completion is rejected, its next folder is not admitted, or, with no folder out,
it finds nothing to lease and goes on polling.

### TaskQueue

The spill file is modelled cell by cell, because what matters is what overlapping
copies do to it: a record is taken from the middle by copying everything before it
over it, in chunks from the end, and the file is compacted by copying forwards. A
record is its length and its path, `SizeOf` cells; `RecordsAt` reads as
`read_record_at` does, so a torn record is no record. The index database is charged
to the same quota and grows in two steps (reserve, then `set_len`), between which
the journal may act. `journal` says whether the queue failed.

### StoreThread and Reconciliation

The entries of one folder stand for the tree. A map says which of them it lists,
which it knows to be unreadable, its generation and the generation of the scan it
goes back to. The store's operators return the set of what may become of the store
with the answer: a publication succeeds, succeeds with a summary only, or fails.
The store thread applies one command per step and holds an answer for which there
is no room.

In `Reconciliation` a handler of the owner is one step: all it shares with the store
thread are the two queues, and room can only grow while it runs. The handlers call
each other, so they are operators on the record `own`, which has the fields of
`App`, `StoreHandle` and the loop that bear on the map; `own.sent` collects what a
step sends. The deletions of this module remove their whole target, part of it or
nothing, and report that with or without other links, or are rejected. The scan
lists an entry when it sees it and the owner is told later, so that a removal, a
report and a listing cross each other in every order.

### Reduction

The initial states are trees: every linking of the names to files, with up to
`MaxOddities` unusual things (an entry that cannot be read, a folder not listed to the
end or replaced before it is opened, an entry out of scope, a size that is unavailable
or another under another name, a link count that is unavailable, a link from outside).
Batches arrive and failures are told in any order. A batch becomes a sorted run of
paths and one of identities; runs are kept in a pyramid and merged when a level is
full; at the end they are merged into one, reduced with a stack of open folders and by
groups of one identity, and put into the page index. A publication that has no room for
pages keeps a summary of the root. Then any sequence of entries is deleted, and each
removal is either described to the store, which lists the folder that held it again
(`FolderIsAsListed`), copies the remaining facts and reduces them, or asks for a new
scan. Between scan and deletions another process may take a name of a file away
(`Vanishes`), so that the link count the executor reads is not the one the scan read.

The reductions are operators written as the code's loops are (a stack, a group, a take
of the least head). The reference, at the end of the module, knows none of that: it
says with sets what a folder, an entry and the root should show, from the tree alone,
as `accounting.md` has it. Where the code does otherwise (section 5) the reference leaves
both open: the upper bounds of a folder in which an entry could not be read or a folder
was replaced (`Unplaced`), and whether a file out of scope counts with its size or not at
all (`OutOfScope`). For a map that deletions were taken out of, the reference is a scan
of what the reader left: failures of entries that were deleted are no longer met
(`FailuresLeft`), and the map may show their uncertainty still, but no other.
Left out are apparent sizes (summed as the counts of descendants are), provisional
pages, digests, and the errors of a duplicate key and of a full last level, neither of
which a scan can reach. The tree holds still during the scan, but for a file that has
another size when it is met under its second name; a tree that changes is `Scanner`'s
and `Reconciliation`'s subject. Names vanish only of files the scan has all names of.
The two checks for other links, the executor's and the store's
(`may_have_other_links`), are needed for different cases: the first for a name the scan
did not list, the second for a name that vanished since.

### SessionSweep

A process starts, sweeps, sets up its session (directory, lock file, lock, marker,
working directories, each once), runs, and ends (release of the lock, working
directories one by one, then the directory as a whole). `handled` has the working
directories a process has created, or tried to remove, so far. Each system call that
another process can see is a step. A process may be killed at every point, which drops
its lock and nothing else, and every call of a session's set-up and of a sweep's removal,
from the lock to the last `rmdir`, may fail, after which the code gives the directory up
(`GivesUp`). Names are random in the code and so used once here. At the start there are
leftovers: of dead sessions, of an older version without a marker or without a lock file,
or foreign. `certified` is history: the directories that ever had a complete marker.

## 3. Runs

| Run | Bounds | What it shows |
|---|---|---|
| `coordinator_lifecycle` | two sessions, three paths, two generations, three admissions and three leases | every command in every order: indexes, conservation, Background not starved; every command is a step of the ledger |
| `lane_safety` | two separate targets, two items, two entries each | rail, lanes, stop and exit agree under every interleaving, and what a dialog offers can be done |
| `lane_rebuild` | a folder, an entry in it and a sibling; three deletions of one entry each, no confirmation, nobody leaves | a plan cancelled by a rebuild does not disturb the next; planner and executor keep apart |
| `lane_liveness` | one deletion of one entry, fair | cancelled plans are released, executions end, a forced exit ends |
| `isolation_folder` | a folder and a file in it, a file and a folder brought, two private names, two changes by others | only reviewed objects go, but for the window after the last look; nothing is lost, the report is true; with a fair executor the run ends |
| `scanner` | two workers, a root of two parts with a subfolder, channels of one, one kind of fault or an advance of the generation, cancellation | a scan that ends by itself is complete, failures have a cause, the scan ends |
| `scanner_report` | the same | the first disagreement of section 5 |
| `task_queue` | five folders with records of 2 to 5 cells, one resident, chunk 3, quota 14, a database of 0 or 2 | the journal loses nothing, the file stays proportionate, the quota is exact |
| `reconciliation` | two entries, deletions until generation 2, command queue 6, result queue 1, event channel 1, one fault | removed entries stay hidden, maps are whole and never go back, no command meets a full queue, refreshes are pursued, excuses are made good |
| `reconciliation_lease` | the same without faults | the second disagreement of section 5 |
| `reduction` | three folders, three names of one to three files, two oddities or three failures, four batches, fan-in 2, one tracked unreadable folder, one name that vanishes | whatever the order of batches and failures, the published map says what the tree says; so does a map that deletions were taken out of |
| `sweep` | two processes, a leftover and one new name, two working directories, three kills or failures, fair | live sessions are whole, the marker goes last, dead sessions are swept |

**Why the bounds are enough for these questions.** In the coordinator, three
admissions over three paths (one a prefix of another) reach an item raised,
focused, requeued and granted beside another, a second deletion waiting for the
first, and a report that is late by a generation; with a burst of one, three leases
are enough to pass Background work over once too often. In the lane, two items fill
the rail (`MaxItems` 2 stands for `MAX_DELETION_WORK_ITEMS`) and two entries per
plan give the executor a boundary between entries at which a stop can land;
in `lane_rebuild` three deletions follow one another, because the interesting one is
the plan after a plan that was cancelled for the rebuild an earlier deletion left.
Other pairings (three deletions with confirmations, of two entries, or while the program
leaves) are covered by the theorems. In the isolation protocol two changes
allow a replacement at the own name together with another at the moved placeholder,
a write and its consequence, or a link and an unlink; a folder with a child needs
the whole order of the plan, children first. Two private names make one retry and
its exhaustion; the code's limit is `PLACEHOLDER_NAME_ATTEMPTS`, and nothing in the
protocol looks at the number except to compare with it.

In the scanner, two workers and two folders give every pair of roles that can race:
one worker finishes or fails while the other is idle, assigned, reading or blocked
on a full channel; channels of one are full as soon as they are used, so every wait
happens. In the task queue the chunk is smaller than the largest record, so copies
need several chunks and overlap themselves, and four spilled folders allow a taking
from the front, the middle and the end with a compaction between; the quota refuses
some of the growths. In the reduction the three names lie in a folder, in a folder
inside it, and in a folder beside it, so that two names meet in the folder of one of
them, in the one above, or at the root only; sizes are powers of two, so no two sets
of files add up to the same; four batches fill a level of two and carry, and since the
last merge then takes one round, `TieredMergeSorts` (an assumption TLC evaluates)
merges seven runs in any order. Three failures pass the limit of tracked unreadable
folders, which stands for `MAX_TRACKED_UNREADABLE_DIRECTORIES`. In the reconciliation two entries are a target and something
that must not be touched, or two targets of two deletions; generation 2 allows the
first map, an overlay or a rebuild, and one more on top of it. The owner takes scan
events only while no more than `BatchRoom` commands wait, and the rest of the queue is for control:
the instance needs four commands beyond two that batches and their notes may take
(with three, TLC finds `ControlFits` violated), the code reserves eight
(`CONTROL_RESERVE`). In the sweep, three faults allow a session to be killed, its
sweeper to be killed, and a call of the next sweeper to fail.

The counters `MaxGeneration`, `MaxSequence`, `MaxLease`, `MaxId`, `MaxChanges`,
`MaxFaults`, `MaxCauses`, `MaxOddities` and `MaxVanished` bound the models and are no part of the code; at its
bounds a model stops, and these systems may also really stop (no work, program
ended, scan over, everything published), which is why most runs do not check for
deadlock; the sweep, where processes start again for ever, does. That nothing waits
for ever is asked as liveness instead, or, in the reconciliation, as
`RefreshIsPursued`.

**Properties**, each with a mutated definition in `PROJECT.json` that a plausible
bug would turn the code into and for which TLC finds the property violated.

* `IndexesAgree`: see section 4.
* `ImplementsLedger`: every command does to a key what the ledger allows; so one
  deletion is out at a time, and an advance of the generation leaves no scan work.
* `WorkConserved`: what a generation admitted is pending, leased or counted in
  exactly one terminal class.
* `BackgroundBypassBounded`: ready Background traversal waits for at most a burst of
  scan grants in a row. Grants asked for by key choose nothing and do not count.
* `LanesMatchRail`: each leased item of the rail is in exactly one of the channel,
  the thread and the answers, and nothing else is there.
* `NoStrayPlanCancellation`, `CancellationReachesPlanner`: the shared flag is
  raised for, and only for, a plan that was cancelled.
* `PlannerAndExecutorApart`: no plan, not even a cancelled one, walks a target
  that overlaps the one being executed.
* `StopKeepsTargetIntact`, `StopsAtEntryBoundary`: a stop stored before the first
  mutation prevents it; after that at most the entry under way is still removed.
* `DialogMatchesRail`: the item in the confirmation is the one the rail is
  confirming; an exit dialog that offers to quit at once has no work behind it; one
  that offers to stop a removal has a removal to stop; the two that no key answers are
  shown only while the program leaves. Of the dialog over pending work nothing is said
  (section 5).
* `QuitLeavesNothingRunning`: unless it was forced, the program leaves its loop
  only with an empty rail and an executor that has reported.
* `CancelledPlanIsReleased`, `ExecutionEnds`, `ForcedExitEnds`: liveness.
* `OnlyReviewedIsRemoved`, `NothingIsLost`: see section 4.
* `OutcomeIsTrue`: an entry reported deleted was removed, or taken by somebody who put
  something else at its private name after the last look; a removal is reported as
  deleted or failed, and only a failure leaves the entry or its placeholder at a private
  name.
* `FreedSpaceIsFree`: no space is reported as freed while another link keeps it.
* `DescribedRemovalIsExact`: when the report lets the map be corrected without a
  scan, the target is gone and no other link to one of its files is left.
* `PrivateNamesAreRegistered`: what a scan could list under a private name is
  registered, so it does not enter the map.
* `RunEnds`: the retries are bounded.
* `FinishIsComplete`: a scan that is not cancelled and met no failed seal or
  replaced root has delivered every folder it named or said which it could not read;
  if the journal was refused, or it failed because the coordinator had moved on, it has
  said that the scan failed.
* `FailureHasCause`: the scheduler never takes its own bookkeeping for a failure, unless
  the scan was cancelled, its root changed, capacity was refused or the owner moved the
  coordinator on.
* `ScanEnds`: the owner hears of the end, whatever is full, gone or refused, with one
  exception: a rebuild that an advance of the generation catches with folders in the
  journal and none leased polls until the reader cancels it (section 5).
* `JournalIsWhole`: every folder the coordinator may choose is resident or a whole
  record that the search reaches, exactly once, and the count that ends the scan is
  right.
* `SpillIsProportionate`: taken records are not paid for longer than it takes to have
  as many dead cells as live ones. `QuotaIsExact`: see section 4.
* `RemovedStaysHidden`: what the reader was told is removed is on no map that is
  shown, from its report until a map without it is installed.
* `MapIsWhole`: an installed map lists what there is, and knows every failure of its
  scan that the owner was told of.
* `MapNeverGoesBack`: no map is replaced by one of an older scan or one that lists
  again what was left out. These three hold as long as the run goes on; section 5 has
  what a step that ends it may do.
* `ControlFits`: no command of the owner meets a full queue, which would cost it the
  map.
* `ExcusedIsRepaired`: a failure not counted because a deletion was at work is made
  good when the deletion leaves its target there.
* `RefreshIsPursued`: as long as the refresh a deletion owes has not landed,
  something is under way that will wake the owner.
* `MapIsTrue`: a published map says of every folder, entry and of the root what the tree
  says: a file with several names counts once, in the folders above all of them; it is
  reclaimable for certain only when all its links were met; an upper bound is given where
  all sizes are known and nothing was missed, and only there; the parts of a page add up
  to the page. Less is said where the code and `accounting.md` disagree, and of the upper
  bounds of a summary without pages (both in section 5).
* `OverlayIsRescan`: a map from which deletions were taken out says what a scan of what
  the reader left would say, but that an upper bound may stay open for something that was
  deleted; a name another process took away meanwhile changes nothing in it.
* `LiveSessionIsWhole`, `MarkerGoesLast`: see section 4.
* `DeadSessionsAreSwept`: what a dead session left is removed by some later start,
  although sweeps are killed, fail, overlap and race the session's own removal.

**Fairness.** Threads of the program are scheduled: weak fairness of the planner,
of the executor and of the owner's next statement; of the scanner's scheduler, each
of its workers and the thread that joins them. A pass of the owner polls every
source, so a source that again and again has something is served: strong fairness
of worker events, scan results, store results, the departure's deadline and the
shutdown in `DeletionLane`; in `Scanner` weak fairness of the owner's receiving is
enough. In the lane the store and the scan are assumed to answer. Nothing is assumed
of the reader, of signals or of cancellation. In `EntryIsolation` only the executor's
thread is fair. In `SessionSweep` processes take their next step, which includes
that somebody starts the program again; kills and failures are not fair, and bounded.

## 4. Proofs

The theorems hold for all constants that satisfy the modules' named assumptions.
They are: any set of paths, sessions and requests, any bounds, and a burst that fits
its `u8` (`CoordinatorAssumption`); any targets, any number of items, entries and
requests, with and without guardrails (`LaneAssumption`); any plan that names its
entries once and its target, which the scan root holds, last, any strangers and any
number of changes (`IsolationAssumption`); any tree, at least one worker (the
configuration demands it) and any channel capacities (`ScannerConstants`); any number
of processes, directories, leftovers, kills and failures (`SweepConstants`); any
folders, record sizes, chunk, limit and database, with at least one folder resident
(`scanner.rs` asks for `.max(1)`) and a chunk of at least one cell
(`TaskQueueConstants`); any entries, below the scan root or not, any queue sizes of at
least one, any gate on batches and any number of generations, removals before the
first map and faults (`StoreAssumption`, `ReconciliationAssumption`).

**`CoordinatorProofs`.** `TypeCorrect`, `IndexAgreement`, `ExecutorExclusion` and
`ScanCurrency` (one execution at a time; no lease or pending item of an old scan) follow
from one inductive invariant. Index agreement is not
inductive alone: a grant takes a queue entry and moves its record, which is sound
only if the entry is the record's own, and finishing removes by lease, which is
sound only if identifiers are distinct. So the invariant is

    TypeOK /\ IndexesFinite /\ IndexesAgree /\ SingleExecutor
           /\ ScanWorkIsCurrent /\ LeaseIdsDistinct

where finiteness is what the counts of the terminal classes need. There is one
lemma per command, and the commands that grant (lease next, next scan, exact,
acquire) share one lemma about `Grant`.

`LedgerRefinement` (the property `ImplementsLedger`) and `Conservation`
(`WorkConserved`) are one argument: for each command a lemma shows which ledger step
it takes and that it moves as many items out of one of pending, leased and ended as
into another (`Accounts`). The counts are cardinalities of the two indexes, so this
rests on the invariant above. `BypassBounded` needs that every grant that passes
Background work over also counts towards its burst (`BypassIsCounted`), which would be
false of a counter that wrapped around.

**`DeletionLaneProofs`.** All nine invariants of the module, from one inductive
invariant `LaneIInv`. What the code relies on and nowhere says is in its parts:

* `Types`, with `todo` in `Tidy`: the rest of a handler is always a suffix of a
  handler's list of steps. Without it nothing can be said of what the owner does next;
* `RailInv`, `LeaseInv`: identifiers are given once, no two items overlap, and the
  leases are those of the items a worker has;
* `PlanLane`, `RunLane`: of channel, thread and answers together, each lane has the
  one item the rail has in that lane's stages, once, until the shutdown. From these
  follow `LanesMatch` and `ThreadsApart`;
* `ExecutorShape`, `MutationInv`: an entry that was begun shows in the stop atomic,
  and one begun after a stop was asked for is the one that had passed its boundary.
  From these follow `StopKeepsTarget` and `StopsAtBoundary`;
* `CancelInv`: a cancellation that was asked for and not passed on belongs to a map
  nothing can be planned for, or is passed on next, and no plan the reader wants waits
  meanwhile. It makes `CancellationReachesPlanner` and `NoStrayPlanCancellation`
  inductive, which they are not alone: a rebuild sets the request, another handler
  lowers the flag, and the next plan is handed over between the two;
* `ShownInv`, `ConfirmInv`, `ExitInv`, `PromptedInv`: a confirmation is open over no
  map that is being replaced, its item is the one the rail is confirming, and one
  whose item was cancelled gives way to the exit dialog before the owner is free;
* `LeavingInv`, `ActiveInv`: unless the program is leaving no dialog says so and no step
  of a handler is about to say it, and a dialog that speaks of a removal has one, or is
  about to be drawn again. With the four before, `DialogTrue`;
* `QuitInv`, `EndInv`: a loop that ended unforced has an empty rail and an idle
  executor, and nothing enters the rail in its last pass (`QuitIsClean`).

Each part has a lemma that every step keeps it. Steps are classified first by what
they do to the rail (`OwnerRail`) and to a lane (`LaneSends`, `LaneReceives`,
`LaneReports`, `LaneAnswered`), so the other parts need not look at single handlers.

**`EntryIsolationProofs`.** `IsolationTypeCorrect`, `ReviewedOnly` and
`NothingLost`. That only reviewed objects are removed does not follow from what
was looked at, unless what is about to be removed is still what was looked at; and
an exchange loses nothing only if the private side held the placeholder, which in
turn needs the private names of later entries to be unused. The inductive
invariant is

    TypeOK /\ HasEntry /\ RemovalIsSafe /\ PrivateNamesAreFresh /\ NothingIsLost

`RemovalIsSafe` says, in the phases after the looks, what the private place holds:
the entry that was looked at, or, if somebody took that away since, nothing or what was
put there since (`late`); and the same of the placeholder. `PrivateNamesAreFresh` says
that names of entries not yet attempted hold nothing. A lemma (`NamesStep`) classifies what a
step of the executor does to the tree (nothing, a creation at a fresh name, an
exchange or a move of two places of one folder, a removal) and each step is shown
to be one of these.

The truth of the report needs more (`ExactIInv`, theorem `ReportInvariant`):

* `NamesAreKnown`: the private names in use are the registered ones of the entry at
  hand, one at a time (`PrivateNamesRegistered`);
* `RemovalIsPending`: what the executor remembers of the entry at hand agrees with
  what it removed (`OutcomesTrue`);
* `OnePlace`, `LinksAreKnown`: a removed entry is nowhere in the tree, so that a link
  count read after the removal stays what it was (`FreedIsFree`);
* `ReportIsKnown`, `TargetIsPlaced`: an untouched target is still at its own name, so
  that a report without a failure, a stop or an uncertain link is about a target that
  is gone (`DescribedRemovalExact`).

**`ScannerProofs`.** `FailuresCaused` (`FailureHasCause`) and `CompleteScans`
(`FinishIsComplete`), from the inductive invariant `ScanIInv`. Both speak of scans
that nobody cancelled and no fault stopped (`Sound`; a scan that was overtaken by an
advance of the generation is sound until it fails). For these the invariant has two
parts:

* `BookInv`: the folder the scheduler has out with a worker is the one the worker was
  assigned, works on or has completed, in exactly one of these places, and its results
  are about that folder; a completion is the last command of its folder; the
  coordinator's leases are the folders that are out, and its pending folders those that
  wait, until it moves on and has neither (`GrantInv`); the journal's count is the number
  of folders waiting and out. It is what makes every check of the scheduler (`complete_lease`,
  `forward_worker_event`, a worker that left, a folder missing from the journal)
  succeed, and it makes `pending = 0` mean that nothing is left;
* `Progress`: a worker has told of every part before the one it is at, a completion is
  sent for a folder whose parts or whose loss are told, and a folder the owner has
  heard named is done, waiting, leased, in a command or about to be enqueued by the
  worker that named it. *Told* counts an event anywhere between the worker and the
  owner, so the lemmas `FlightSchedules`, `FlightWorks` and `FlightOwner` show that no
  channel loses one.

Of every scan, stopped or not, it says that the end is told last and once (`EndInv`)
and that a refused journal is reported unless the scan is cancelled (`FailureTold`).
At the end of a sound scan nothing is left in any channel, so done means delivered.
The lemmas `SoundWork` and `SoundSchedule` reduce the actions to the fourteen things
that can happen in a sound scan, and everything after them is about these.

**`SessionSweepProofs`.** `LiveSessionsAreWhole`, `MarkersAreLocked` ("No moment
exists at which a live session looks both marked and unlocked"), `MarkersGoLast` and
`UnverifiedStays` (a directory without a complete marker, with an incomplete lock file
or none, which no process has as its session, is left as it is by everybody; excepted is
what had a complete marker and is being removed by the sweep that found it). A sweep looks at a marker, tries the lock, and removes
later; that what it saw still holds when it removes is the point. The inductive
invariant is

    TypeOK /\ SessionsPlaced /\ UnusedIsBlank /\ SetupInOrder
           /\ SweepersPlaced /\ EmptiedFirst /\ MarkersRecorded

`SweepersPlaced` carries the argument: a sweep is only at directories whose marker it
found complete, and where a session lives it never gets past the lock, because a
live session's marker is complete only while it holds the lock (`SetupInOrder`: lock
first, marker second, then each working directory). `EmptiedFirst` is what the order of
removal rests on, and `MarkersRecorded` says that a sweep is only at what once had a
complete marker. The two
action properties follow from the invariant step by step.

**`Iteration`.** A loop is a recursive function of the number of its rounds, which
TLA+ defines by `CHOOSE`. The two modules with loops prove that such a function exists
(`LoopExists`) and that what holds before the first round and survives one holds after
the last (`LoopInvariant`). Both rest on induction over the naturals, taken from the
well-foundedness of `<` and stated about membership of a set, not about a predicate.

**`TaskQueueProofs`.** `JournalWhole`, `SpillProportionate` and `QuotaExact`.

`QuotaExact`: the bytes in use are what journal and database have reserved, never more
than the limit, and the database never has more on disk than it reserved, through
failed growth, failed writes and dropped queues. It is inductive with the types of the
amounts (`Amounts`).

The other two are about what the file contains. First, each loop is shown to do what
it is for, whatever the chunk and however far source and destination overlap:
`ShiftIsExact` (`shift_range_right`) and `CompactIsExact` (`compact_after_read`), with
the state after a number of rounds as the loop invariant (`Shifted`, `Compacted`).
The search of `take_path` then finds exactly the records of the file
(`SearchFindsAll`): it never lands inside one. The inductive invariant of the
journal is

    JournalInv == FileInv /\ (journal = "open" => OpenInv)
    OpenInv    == RecordsInv /\ QueueInv /\ CountInv /\ SpareInv

`RecordsInv` says cell by cell that the waiting part of the file is made of whole
records (`Whole`), none twice (`Single`); it must speak of every cell, because a
rotation and a compaction move cells, not records. `RotatedToFront`, `AddedBehind`,
`WithoutFirst` and `MovedToFront` are what the four operations do to it. `QueueInv`
divides the waiting directories between memory and file, `CountInv` counts them, and
`SpareInv` is why the compaction is never asked to move nothing. A take that finds no
record is impossible (`NothingIsLost`).

**`ReconciliationInvariant`, `ReconciliationAnswers`, `ReconciliationProofs`.**
`RemovedIsHidden` (`RemovedStaysHidden`), `MapsGoForward`
(`MapNeverGoesBack`), `ExcusedAreRepaired` (`ExcusedIsRepaired`), `MapListsTheDisk` (the
first half of `MapIsWhole`) and `TypeCorrect`. None of them is inductive, because what
will be installed was decided several messages ago: a command is on its way to the
store, or its answer on its way back, while scan, deletions and the reader go on. The
invariant `Inv` therefore speaks of the *flight*, answers not applied followed by
commands not taken, as of one sequence (`Flight`); a store step replaces a command in
it by its answer, in place (`StoreStepCore`). A handler is a chain of calls, so the
invariant (`Core`) is a formula about any owner on the way through one, and every
operator of the owner has a lemma for what it changes (`...Effect`) and one for what
that does to the invariant (`Core...`). Its parts:

* `Gens`: generations in flight ascend, and are newer than what the store has;
* `Phase`, `Job`: what the owner waits for, which scan is under way, and that the end
  of a scan is told once, behind its batches;
* `Cancelled`, `Cancellation`: who may have cancelled, and that a cancellation in
  flight meets no publication that is wanted;
* `Shown`: what the map on screen promises, which is what the theorems say;
* `Mode`: one of three situations. *Regular*: at most one publication is in flight,
  behind the command that began it (`Order`); what exists and was listed is in the
  pipe from the scan to the store, or no map of that scan will be published
  (`Pipeline`); what was removed and will be listed is hidden, and a removal of it is
  recorded (`HiddenFirst`, `HiddenRebuild`). *Doomed*: an overlay moved the
  coordinator on under a rebuild, and the overlay's map, which is the first answer,
  follows from the one installed (`DoomedOrder`). *Given up*: nothing will be
  published. The disagreement `reconciliation_lease` of section 5 is the doomed
  situation; the invariant says that it shows no wrong map before it ends the run;
* `HiddenOverlay`: between two overlays, what is listed and removed is queued for the
  next;
* `Excuses`: a failure excused is that of the execution under way, or a rebuild is
  owed;
* `Executions`: a report speaks of the execution under way, once, and a complete
  removal is reported of what is gone.

`Advances`, proved of every action beside the invariant, is the action property. The
loops over answers, finished publications and lost ones are recursive functions (see
`Iteration`). The invariant was model-checked, for an entry of
the scan root and of a folder below it, before it was proved.

**Only model-checked.** All liveness (the prover has no fairness and no `ENABLED`). Of
`Reconciliation`: the second half of `MapIsWhole` (failures the owner was told of),
which needs a pipeline for notes beside the one for batches; `ControlFits`, which
depends on the constants (it counts the commands that can be under way between two
batches); and `RefreshIsPursued`, which is about what wakes the owner. `Reduction`,
whose loops are folds over sequences: what a fold computes for every input takes an
induction over its steps, which the prover cannot instantiate for an operator.

## 5. Where code and documents disagree

Two runs expect a violation. Each is a trace of the code, and says which line of the
repository states the opposite.

1. `scanner_report`: a worker whose batch cannot be sealed, or that finds the root
   replaced, raises a flag and then reports. The scheduler that sees the flag first
   returns and drops the channel the report would come through, or takes an idle
   worker that left because of the flag for the end of the scan. `ScanFinished` is
   then sent with no failure before it, and the partial scan is taken for an exact
   one. `docs/safety/accounting.md` says the scanner *"does not call the partial scan
   exact"*, and a comment in `scheduler.rs` says the receiver is kept alive.
2. `reconciliation_lease`: a deletion that outlives the first map reports while a
   rebuild is scanning behind the retained map. Its overlay advances the coordinator's
   generation, which ends the lease of the rebuild's own work; when the scan ends the
   coordinator rejects that work and the run ends with an invariant error, although
   nothing failed. `start_ui` guards the first scan's lease against exactly this.

Other things met while modelling, which no run is kept for:

* a publication that lands behind the exit dialog can start the next execution
  without drawing the dialog again (`process_scan_store_events`; only worker events
  refresh it). The dialog over pending work then says *"No filesystem mutation has
  started."* (`confirm_box.rs`) over a removal, although `background-tasks.md` says the
  dialog *"distinguishes no work, cancellable pending work, and active deletion"*;
  `DialogMatchesRail` leaves this dialog out;
* the first quit request ends the departure of a removed tile before
  `exit_after_work` is set, and so hands a plan that waited for it to the executor;
  the threat model says the request cancels pending plans. The execution is an ordinary
  one for every property of the lane;
* a rebuild begun after the quit request takes the exit dialog away; a deletion asked
  for then is never planned, and the exit waits for it until a second request.
  `ForcedExitEnds` is about that second request only;
* a rejected execution that had excused a scan failure requires a rebuild, which the
  rejection's handler, unlike the one for a finished deletion, does not begin itself;
* an entry that was removed and whose placeholder could not be cleaned up counts as
  failed, and a report without a deleted entry leaves the map as it was;
* Esc on a rebuild whose publication then fails sends `CancelActive` for an incomplete
  generation; the store answers with a failure and the stale map, which
  `background-tasks.md` says stays, is given up;
* a report that needs a rebuild in the middle of a rebuild lets batches of the old
  scan drain into a generation that is closed: their admission fails and the map is
  unavailable until the next rebuild;
* an overlay whose folder cannot be listed fails before it begins its own generation
  (`overlay`, `store_thread.rs`), and so leaves that of a doomed rebuild open: the rebuild's
  publication then succeeds with what was admitted before the overlay, and this map is
  installed by the very step in which the coordinator rejects the rebuild's work. The
  run ends there and the map is never drawn, so the properties of the map speak of
  runs that go on;
* a sweep examines a bounded number of candidates, so directories that cannot be
  removed can keep a dead session from being reached; a sweep that is killed, or whose
  `rmdir` fails, between the unlink of the lock file and the removal of the directory
  leaves an empty directory no later sweep can verify, where `sweep.rs` says that *"A
  directory that cannot be removed completely keeps its lock file"*; a teardown that cannot remove a working directory lets the
  temporary directory's own removal take the marker first (`unordered`);
* an entry whose metadata cannot be read, or a folder replaced before it is opened, is
  told to the store under its own path, which is no folder of the map, or not at all:
  its parent stays exact, and only the root's upper bounds open. `accounting.md` says
  *"Parent folders retain a lower bound and show the uncertainty."* `MapIsTrue` says
  nothing of these folders' upper bounds;
* an excluded file is sealed with its real size and uncertain coverage, where
  `accounting.md` calls it a zero-byte record; `MapIsTrue` allows either;
* a result without pages shows as known space of the root a sum without the files that
  have several links, with bounds that are exact, also when an entry could not be read;
  `MapIsTrue` speaks of its lower bounds and of its coverage;
* a map that deletions were taken out of keeps the failures of the scan it goes back to:
  when the folder that held what could not be read is deleted, the root's bounds stay
  open (and, past the limit of tracked failures, every folder's), where a scan would
  close them;
* an overlay asked for during a rebuild's scan takes the scan's folders from the
  coordinator. Before the end `reconciliation_lease` shows, the scan itself meets it: a
  completion is rejected, a new folder is refused as stale, and it ends as failed; or,
  when no folder is out at that moment, the scheduler finds nothing to lease while its
  journal is not empty and polls until the reader cancels (`Forsaken`, which `ScanEnds`
  excepts);
* between the second look at an isolated entry and its removal by name, and between the
  check of the placeholder and its unlink, another process that knows the private name
  can put something else there, which is then removed. No call removes an object by
  identity, so the window cannot be closed on these systems, only kept short;
* a cancellation that races a dispatch gives a failure of the scan ("missing scanner
  task") and an end that is not called cancelled; the owner disregards it because a
  rebuild it cancelled is suppressed.

## 6. What is not modelled

* Rendering, layout, colours, animation frames, formatting and wording; configuration
  and the command line; paths' conversions and filters.
* The planner's walk of the target (it answers *planned*, *stale*, *failed* or
  *cancelled*, as it may) and the plan's and the results' files.
* The encodings of runs and pages and the index database beneath the reduction.
* Provisional pages of a scan under way; the limit of the list of hidden removals
  (`MAX_REMOVED_BUT_LISTED`); a first scan that is cancelled.
* Signal threads, the bounded joins of the shutdown and the terminal writer: what the
  owner does on a request is in `DeletionLane`, the threads themselves are not
  modelled. In the plan.
* The Windows executor, which removes through handles instead of names, and the
  Windows half of the sweep.
* The scenario harness, benchmarks and probes: tools that test the program. They and
  the user interface are most of the repository's lines, so the share of lines that
  is modelled is small although the concurrent core is covered.

## 7. Plan

1. `Shutdown` (signals, acknowledgement, bounded joins) and `TerminalWriter`: small
   modules of their own.
2. The planner's walk and the history export, to complete `DeletionLane`.
3. `ReconciliationProofs`: the notes' half of `MapIsWhole`, and `ControlFits` for queue
   sizes that satisfy the arithmetic of `CONTROL_RESERVE`.
