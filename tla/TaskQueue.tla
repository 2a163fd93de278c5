----------------------------- MODULE TaskQueue -----------------------------
(***************************************************************************)
(* The scanner's directory journal (runtime/scanner/task_queue.rs and      *)
(* task_spill.rs) and the quota it is charged to (temporary_storage.rs).   *)
(*                                                                         *)
(* Up to Capacity directories are resident; the others are records in an   *)
(* unlinked file.  The coordinator chooses which directory is next, so a   *)
(* record is taken from the middle of the file: it is rotated to the       *)
(* front by copying everything before it, chunk by chunk, over itself, and *)
(* from time to time the file is compacted the same way.  The file is      *)
(* modelled cell by cell.  The same quota is charged for the index         *)
(* database (BoundedFileBackend), which grows and shrinks on a thread of   *)
(* its own.                                                                *)
(***************************************************************************)
EXTENDS Integers, FiniteSets, SequencesExt

CONSTANTS
    Tasks,        \* directories to be scanned
    Root,         \* the first of them
    SizeOf(_),    \* cells of a directory's record: its length, then its path
    Capacity,     \* directories kept resident
    Chunk,        \* TASK_SPILL_COMPACTION_BYTES
    Limit,        \* the session's quota
    DbLengths     \* lengths the database asks for

ASSUME TaskQueueConstants ==
    /\ Root \in Tasks
    /\ \A t \in Tasks : SizeOf(t) \in Nat \ {0}
    /\ Capacity \in Nat \ {0} /\ Chunk \in Nat \ {0} /\ Limit \in Nat
    /\ DbLengths \subseteq Nat

VARIABLES
    ready,        \* directories the coordinator knows as pending
    leased,       \* directories some worker has
    tasks,        \* QueueState.tasks
    file,         \* the cells of the spill file
    nextRead, nextWrite, spilled,   \* TaskSpill: offsets and record count
    reserved,     \* TaskSpill.reservation
    pending,      \* QueueState.pending
    journal,      \* "open"; "failed" after an error, "lost" if a record was missing
    used,         \* TemporaryStorageState.used
    stopped,      \* TemporaryStorageState.stopped
    dbLength,     \* BoundedFile.length
    dbFile,       \* the database file's length
    dbReserved,   \* the reservation of the database
    dbTarget      \* the length set_len is about to give the file, or dbLength

spill == <<file, nextRead, nextWrite, spilled, reserved>>
database == <<dbLength, dbFile, dbReserved, dbTarget>>
vars == <<ready, leased, tasks, spill, pending, journal, used, stopped, database>>

Record(t) == [i \in 1..SizeOf(t) |-> <<t, i>>]

Init ==
    /\ ready = {Root} /\ leased = {}
    /\ tasks = <<Root>>
    /\ file = <<>> /\ nextRead = 0 /\ nextWrite = 0 /\ spilled = 0 /\ reserved = 0
    /\ pending = 1
    /\ journal = "open"
    /\ used = 0 /\ stopped = FALSE
    /\ dbLength = 0 /\ dbFile = 0 /\ dbReserved = 0 /\ dbTarget = 0

-----------------------------------------------------------------------------
(* The quota *)

\* Mutant: the bytes asked for are compared with the limit, not the sum.
MayReserveAlone(bytes) == ~stopped /\ bytes <= Limit

MayReserve(bytes) == ~stopped /\ used + bytes <= Limit

-----------------------------------------------------------------------------
(* The spill file *)

Least(a, b) == IF a < b THEN a ELSE b

\* One read_exact and one write_all of length cells; offsets count from 0.
Copy(f, from, to, length) ==
    [i \in 1..(IF to + length > Len(f) THEN to + length ELSE Len(f)) |->
        IF i > to /\ i <= to + length THEN f[i - to + from] ELSE f[i]]

\* The record that starts at an offset, if there is one: read_record_at.
RecordsAt(f, offset) ==
    {t \in Tasks : offset + SizeOf(t) <= nextWrite
                   /\ SubSeq(f, offset + 1, offset + SizeOf(t)) = Record(t)}

RecordLength(offset) ==
    IF RecordsAt(file, offset) = {} THEN 0
    ELSE SizeOf(CHOOSE t \in Tasks : t \in RecordsAt(file, offset))

\* The offsets the search of take_path visits, with the records found there:
\* every offset below n is behind the search, or it has gone past it.
Journal ==
    LET Search[n \in 0..nextWrite] ==
          IF n = 0 THEN [at |-> nextRead, found |-> {}]
          ELSE LET seen == Search[n - 1]
               IN  IF seen.at # n - 1 THEN seen
                   ELSE [at |-> n - 1 + RecordLength(n - 1),
                         found |-> seen.found \union ({n - 1} \X RecordsAt(file, n - 1))]
    IN  Search[nextWrite].found

\* One round of each loop: `left` cells are still to be moved.
Moving(f, left) == [file |-> f, left |-> left]

\* Mutant: the chunks are moved from the front.
ShiftFront(move, start, end, by) ==
    LET length == Least(move.left, Chunk)
        source == end - move.left
    IN  Moving(Copy(move.file, source, source + by, length), move.left - length)

ShiftLast(move, start, end, by) ==
    LET length == Least(move.left, Chunk)
        source == start + move.left - length
    IN  Moving(Copy(move.file, source, source + by, length), move.left - length)

\* shift_range_right: the chunks are moved from the end.
ShiftRangeRight(f, start, end, by) ==
    LET Loop[k \in 0..(end - start)] ==
          IF k = 0 THEN Moving(f, end - start)
          ELSE IF Loop[k - 1].left = 0 THEN Loop[k - 1]
          ELSE ShiftLast(Loop[k - 1], start, end, by)
    IN  Loop[end - start].file

\* The copying half of compact_after_read: the chunks are moved from the front.
CompactNext(move, source, length) ==
    LET destination == length - move.left
        chunk == Least(move.left, Chunk)
    IN  Moving(Copy(move.file, source + destination, destination, chunk), move.left - chunk)

MoveToFront(f, source, length) ==
    LET Loop[k \in 0..length] ==
          IF k = 0 THEN Moving(f, length)
          ELSE IF Loop[k - 1].left = 0 THEN Loop[k - 1]
          ELSE CompactNext(Loop[k - 1], source, length)
    IN  Loop[length].file

\* Mutant: dead records are tolerated up to a chunk.
CompactionDueAtChunk(read, remaining) == read >= Least(reserved, Chunk)

CompactionDue(read, remaining) ==
    read >= Least(reserved, Chunk) \/ read >= remaining

\* TaskSpill::take once the record is first in f: the file is emptied, left
\* alone or compacted.
TakeFirst(f, t) ==
    LET read == nextRead + SizeOf(t)
        remaining == nextWrite - read
    IN  /\ spilled' = spilled - 1
        /\ IF spilled = 1
             THEN /\ file' = <<>> /\ nextRead' = 0 /\ nextWrite' = 0
                  /\ reserved' = 0 /\ used' = used - reserved
           ELSE IF ~CompactionDue(read, remaining)
             THEN /\ file' = f /\ nextRead' = read
                  /\ UNCHANGED <<nextWrite, reserved, used>>
           ELSE /\ file' = SubSeq(MoveToFront(f, read, remaining), 1, remaining)
                /\ nextRead' = 0 /\ nextWrite' = remaining
                /\ reserved' = Least(reserved, remaining)
                /\ used' = used - (reserved - Least(reserved, remaining))

\* The record is read, those before it make room, and it is written in front.
RotateToFront(f, offset, t) ==
    LET shifted == ShiftRangeRight(f, nextRead, offset, SizeOf(t))
    IN  [i \in 1..Len(f) |->
            IF i > nextRead /\ i <= nextRead + SizeOf(t) THEN Record(t)[i - nextRead]
            ELSE shifted[i]]

\* Any error of the journal ends the scan: scheduler::fail.
Fails(outcome) ==
    /\ journal' = outcome
    /\ UNCHANGED <<leased, tasks, pending, stopped, database>>

Reservation(end) == IF end > reserved THEN end - reserved ELSE 0

Push(t) ==
    LET end == nextWrite + SizeOf(t)
    IN  /\ file' = [i \in 1..end |-> IF i <= nextWrite THEN file[i] ELSE <<t, i - nextWrite>>]
        /\ nextWrite' = end /\ spilled' = spilled + 1
        /\ reserved' = reserved + Reservation(end)
        /\ used' = used + Reservation(end)
        /\ UNCHANGED nextRead

-----------------------------------------------------------------------------
(* The queue *)

\* SchedulerCommand::Enqueue of a directory the coordinator has admitted.
Schedule(t) ==
    /\ journal = "open"
    /\ t \notin ready \union leased
    /\ ready' = ready \union {t}
    /\ \/ /\ Len(tasks) < Capacity
          /\ tasks' = Append(tasks, t)
          /\ pending' = pending + 1
          /\ UNCHANGED <<leased, spill, journal, used, stopped, database>>
       \/ /\ Len(tasks) >= Capacity
          /\ MayReserve(Reservation(nextWrite + SizeOf(t)))
          /\ Push(t)
          /\ pending' = pending + 1
          /\ UNCHANGED <<leased, tasks, journal, stopped, database>>
       \/ /\ Len(tasks) >= Capacity
          /\ ~MayReserve(Reservation(nextWrite + SizeOf(t)))
          /\ Fails("failed")
          /\ UNCHANGED <<spill, used>>

\* The record is reserved and cannot be written in full.
CannotWrite(t) ==
    /\ journal = "open"
    /\ t \notin ready \union leased
    /\ Len(tasks) >= Capacity
    /\ MayReserve(Reservation(nextWrite + SizeOf(t)))
    /\ ready' = ready \union {t}
    /\ reserved' = reserved + Reservation(nextWrite + SizeOf(t))
    /\ used' = used + Reservation(nextWrite + SizeOf(t))
    /\ Fails("failed")
    /\ UNCHANGED <<file, nextRead, nextWrite, spilled>>

\* take_path of what lease_next_scan has chosen.
TakePath(t) ==
    /\ journal = "open" /\ t \in ready
    /\ ready' = ready \ {t}
    /\ \/ /\ t \in Range(tasks)
          /\ tasks' = RemoveFirst(tasks, t)
          /\ leased' = leased \union {t}
          /\ UNCHANGED <<spill, pending, journal, used, stopped, database>>
       \/ /\ t \notin Range(tasks)
          /\ \E offset \in nextRead..nextWrite :
                /\ <<offset, t>> \in Journal /\ offset + SizeOf(t) <= nextWrite
                /\ TakeFirst(IF offset = nextRead THEN file ELSE RotateToFront(file, offset, t), t)
          /\ leased' = leased \union {t}
          /\ UNCHANGED <<tasks, pending, journal, stopped, database>>
       \/ /\ t \notin Range(tasks)
          /\ \A offset \in nextRead..nextWrite : <<offset, t>> \notin Journal
          /\ Fails("lost")
          /\ UNCHANGED <<spill, used>>

\* TaskQueue::complete, from complete_lease.
Complete(t) ==
    /\ journal = "open" /\ t \in leased
    /\ leased' = leased \ {t}
    /\ pending' = IF pending = 0 THEN 0 ELSE pending - 1
    /\ UNCHANGED <<ready, tasks, spill, journal, used, stopped, database>>

\* The scan has failed and drops its queue: the reservation is given back.
Drop ==
    /\ journal = "failed"
    /\ journal' = "dropped"
    /\ file' = <<>> /\ nextRead' = 0 /\ nextWrite' = 0 /\ spilled' = 0 /\ reserved' = 0
    /\ used' = used - reserved
    /\ UNCHANGED <<ready, leased, tasks, pending, stopped, database>>

-----------------------------------------------------------------------------
(* The database file, which holds its lock from the reservation to the end *)

DbBusy == dbTarget # dbLength

DbReserves(length) ==
    /\ ~DbBusy /\ length > dbLength
    /\ MayReserve(length - dbReserved)
    /\ dbReserved' = length
    /\ dbTarget' = length
    /\ used' = used + (length - dbReserved)
    /\ UNCHANGED <<ready, leased, tasks, spill, pending, journal, stopped, dbLength, dbFile>>

DbGrows ==
    /\ DbBusy
    /\ dbFile' = dbTarget /\ dbLength' = dbTarget
    /\ UNCHANGED <<ready, leased, tasks, spill, pending, journal, used, stopped, dbReserved, dbTarget>>

DbCannotGrow ==
    /\ DbBusy
    /\ dbTarget' = dbLength
    /\ dbReserved' = dbLength
    /\ used' = used - (dbReserved - dbLength)
    /\ UNCHANGED <<ready, leased, tasks, spill, pending, journal, stopped, dbLength, dbFile>>

DbShrinks(length) ==
    /\ ~DbBusy /\ length < dbLength
    /\ dbFile' = length /\ dbLength' = length /\ dbTarget' = length
    /\ dbReserved' = length
    /\ used' = used - (dbReserved - length)
    /\ UNCHANGED <<ready, leased, tasks, spill, pending, journal, stopped>>

\* TemporaryStorage::stop.
Stop ==
    /\ ~stopped
    /\ stopped' = TRUE
    /\ UNCHANGED <<ready, leased, tasks, spill, pending, journal, used, database>>

Next ==
    \/ \E t \in Tasks : Schedule(t) \/ CannotWrite(t) \/ TakePath(t) \/ Complete(t)
    \/ Drop
    \/ \E length \in DbLengths : DbReserves(length) \/ DbShrinks(length)
    \/ DbGrows
    \/ DbCannotGrow
    \/ Stop

Spec == Init /\ [][Next]_vars

-----------------------------------------------------------------------------
(* Properties *)

\* Every directory the coordinator may choose is resident or a whole record of
\* the file that the search of take_path reaches, exactly once, whatever was
\* taken from the middle, copied over itself and compacted before; nothing
\* else is there, and the count that ends the scan is that of the directories
\* nobody has finished.  One missing here would never be scanned.
JournalIsWhole ==
    journal = "open" =>
        /\ Range(tasks) \union {r[2] : r \in Journal} = ready
        /\ Len(tasks) + Cardinality(Journal) = Cardinality(ready)
        /\ Cardinality(Journal) = spilled
        /\ Len(tasks) <= Capacity
        /\ pending = Cardinality(ready) + Cardinality(leased)

\* Taken records are not paid for longer than it takes to have as many dead
\* cells as live ones: the file is less than twice what it holds, and the
\* reservation covers it.
SpillIsProportionate ==
    /\ Len(file) <= reserved
    /\ journal = "open" =>
        IF spilled = 0 THEN nextWrite = 0 /\ reserved = 0
        ELSE nextRead < nextWrite - nextRead /\ nextRead < Chunk

\* The quota is what its users have reserved and never exceeds the limit,
\* through failed growth, failed writes and dropped queues; so no release can
\* underflow (release panics), and the database never has more on disk than it
\* has reserved.
QuotaIsExact ==
    /\ used = reserved + dbReserved
    /\ used <= Limit
    /\ dbFile <= dbReserved
    /\ DbBusy => dbFile = dbLength /\ dbReserved = dbTarget /\ dbLength < dbTarget
    /\ ~DbBusy => dbReserved = dbLength /\ dbFile = dbLength

=============================================================================
