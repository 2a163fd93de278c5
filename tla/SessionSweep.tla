---------------------------- MODULE SessionSweep ----------------------------
(***************************************************************************)
(* The scratch directories of scan-store sessions, and the sweep by which  *)
(* a later start removes the ones that dead sessions left behind.          *)
(*                                                                         *)
(* Processes start, sweep the scratch parent, set up a directory of their  *)
(* own, work in it and tear it down; any of them may be killed at any      *)
(* point, and any system call the code prepares for may fail.  One step is *)
(* one system call another process can observe.  The lock is the advisory  *)
(* lock on session.lock, which the operating system drops with its holder. *)
(*                                                                         *)
(* A session's name is random (tempfile), so a name is used once.  The     *)
(* Unix half of the sweep is modelled.                                     *)
(***************************************************************************)
EXTENDS Integers, FiniteSets

CONSTANTS
    Processes,       \* concurrent excise processes
    Dirs,            \* names of session directories
    Leftovers,       \* the names that are taken before the first start
    Working,         \* a session's working directories: runs, merge, index
    MaxCandidates,   \* directories one sweep examines
    MaxFaults,       \* bound: kills and failing calls
    Nobody,          \* no process holds the lock
    Nowhere          \* no directory

VARIABLES
    pc,         \* where each process is
    session,    \* the directory each process made for its own session
    listed,     \* candidates each sweep has still to examine
    at,         \* the directory each sweep examines
    handled,    \* working directories a session has created so far or, at its
                \* end, tried to remove so far
    dir,        \* each directory of the scratch parent
    file,       \* its session.lock
    work,       \* its working directories
    holder,     \* who holds the lock on its session.lock
    unordered,  \* history: removed as a whole with working directories in it
    certified,  \* history: directories that have had a complete marker
    faults      \* history: kills and failures so far

vars == <<pc, session, listed, at, handled, dir, file, work, holder, unordered,
          certified, faults>>
disk == <<dir, file, work, holder, unordered, certified>>

ASSUME SweepConstants ==
    /\ Leftovers \subseteq Dirs
    /\ Nobody \notin Processes
    /\ Nowhere \notin Dirs
    /\ MaxCandidates \in Nat
    /\ MaxFaults \in Nat

SweepPoints == {"sweeping", "locking", "emptying", "unlinking", "removing"}
SetupPoints == {"creating", "new", "open", "locked", "furnishing"}
EndPoints == {"teardown", "discarding"}
Points == {"off", "running"} \union SweepPoints \union SetupPoints \union EndPoints

Present == {d \in Dirs : dir[d] = "present"}

\* Directories that are there before the first start: what an earlier version
\* or a foreign program left, and sessions that died with their marker.
Init ==
    /\ pc = [p \in Processes |-> "off"]
    /\ session = [p \in Processes |-> Nowhere]
    /\ listed = [p \in Processes |-> {}]
    /\ at = [p \in Processes |-> Nowhere]
    /\ handled = [p \in Processes |-> {}]
    /\ dir = [d \in Dirs |-> IF d \in Leftovers THEN "present" ELSE "unused"]
    /\ \E left \in [Leftovers -> {"absent", "unmarked", "marked"}] :
        /\ file = [d \in Dirs |-> IF d \in Leftovers THEN left[d] ELSE "absent"]
        /\ certified = {d \in Leftovers : left[d] = "marked"}
    /\ work = [d \in Dirs |-> IF d \in Leftovers THEN Working ELSE {}]
    /\ holder = [d \in Dirs |-> Nobody]
    /\ unordered = {}
    /\ faults = 0

At(p, point) == pc[p] = point
Goes(p, point) == pc' = [pc EXCEPT ![p] = point]
Fault == faults < MaxFaults /\ faults' = faults + 1
NoFault == UNCHANGED faults

Releases(p) == holder' = [d \in Dirs |-> IF holder[d] = p THEN Nobody ELSE holder[d]]

-----------------------------------------------------------------------------
(* The sweep *)

\* The candidates are collected first, and no more than the limit.  Reading
\* the parent may fail part of the way.
Candidates(p, names) ==
    /\ names \subseteq Present
    /\ Cardinality(names) <= MaxCandidates
    /\ IF Cardinality(names) = MaxCandidates \/ names = Present THEN NoFault ELSE Fault
    /\ listed' = [listed EXCEPT ![p] = names]

StartsSweep(p) ==
    /\ At(p, "off")
    /\ \E names \in SUBSET Dirs : Candidates(p, names)
    /\ Goes(p, "sweeping")
    /\ UNCHANGED <<session, at, handled, disk>>

Leaves(p) == Goes(p, "sweeping") /\ at' = [at EXCEPT ![p] = Nowhere]

\* Mutant: a directory some other sweep has begun to empty is passed over.
VerifiedWhole(d) == dir[d] = "present" /\ file[d] = "marked" /\ work[d] = Working

\* The candidate is opened and its lock file is read.  Without a complete
\* marker it is left alone and its lock is not touched.
Verified(d) == dir[d] = "present" /\ file[d] = "marked"

Examines(p, d) ==
    /\ At(p, "sweeping") /\ d \in listed[p]
    /\ listed' = [listed EXCEPT ![p] = @ \ {d}]
    /\ IF Verified(d)
         THEN Goes(p, "locking") /\ at' = [at EXCEPT ![p] = d]
         ELSE Leaves(p)
    /\ NoFault
    /\ UNCHANGED <<session, handled, disk>>

\* Mutant: WouldBlock is taken for an error of no consequence.
MayLockAnyway(d) == TRUE

MayLock(d) == holder[d] = Nobody

TriesLock(p) ==
    /\ At(p, "locking")
    /\ IF MayLock(at[p])
         THEN /\ Goes(p, "emptying")
              /\ holder' = [holder EXCEPT ![at[p]] = p]
              /\ UNCHANGED at
         ELSE /\ Leaves(p)
              /\ UNCHANGED holder
    /\ NoFault
    /\ UNCHANGED <<session, listed, handled, dir, file, work, unordered, certified>>

\* remove_contents: everything but the lock file, one entry after another.
\* An entry that somebody else removed counts as removed.
RemovesContents(p) ==
    /\ At(p, "emptying")
    /\ \E e \in work[at[p]] : work' = [work EXCEPT ![at[p]] = @ \ {e}]
    /\ NoFault
    /\ UNCHANGED <<pc, session, listed, at, handled, dir, file, holder, unordered, certified>>

\* Any call on the candidate may fail, from reading its lock file to rmdir; the
\* sweep turns to the next candidate, and closing the file unlocks it.
GivesUp(p) ==
    /\ pc[p] \in {"locking", "emptying", "unlinking", "removing"}
    /\ Leaves(p)
    /\ Releases(p)
    /\ Fault
    /\ UNCHANGED <<session, listed, handled, dir, file, work, unordered, certified>>

\* Mutant: the lock file goes first.
UnlocksEarly(p) ==
    /\ At(p, "emptying")
    /\ Goes(p, "unlinking")
    /\ Releases(p)
    /\ NoFault
    /\ UNCHANGED <<session, listed, at, handled, dir, file, work, unordered, certified>>

Unlocks(p) ==
    /\ At(p, "emptying")
    /\ work[at[p]] = {}
    /\ Goes(p, "unlinking")
    /\ Releases(p)
    /\ NoFault
    /\ UNCHANGED <<session, listed, at, handled, dir, file, work, unordered, certified>>

UnlinksLock(p) ==
    /\ At(p, "unlinking")
    /\ Goes(p, "removing")
    /\ file' = [file EXCEPT ![at[p]] = "absent"]
    /\ NoFault
    /\ UNCHANGED <<session, listed, at, handled, dir, work, holder, unordered, certified>>

\* rmdir refuses a directory that is not empty and one that is gone.
Empty(d) == dir[d] = "present" /\ file[d] = "absent" /\ work[d] = {}

RemovesDirectory(p) ==
    /\ At(p, "removing")
    /\ Leaves(p)
    /\ dir' = IF Empty(at[p]) THEN [dir EXCEPT ![at[p]] = "gone"] ELSE dir
    /\ NoFault
    /\ UNCHANGED <<session, listed, handled, file, work, holder, unordered, certified>>

EndsSweep(p) ==
    /\ At(p, "sweeping") /\ listed[p] = {}
    /\ Goes(p, "creating")
    /\ NoFault
    /\ UNCHANGED <<session, listed, at, handled, disk>>

-----------------------------------------------------------------------------
(* Setting a session up *)

CreatesDirectory(p) ==
    /\ At(p, "creating")
    /\ \E d \in Dirs :
        /\ dir[d] = "unused"
        /\ dir' = [dir EXCEPT ![d] = "present"]
        /\ session' = [session EXCEPT ![p] = d]
    /\ Goes(p, "new")
    /\ NoFault
    /\ UNCHANGED <<listed, at, handled, file, work, holder, unordered, certified>>

\* Without a directory the run ends with an error.
CannotCreateDirectory(p) ==
    /\ At(p, "creating")
    /\ IF \E d \in Dirs : dir[d] = "unused" THEN Fault ELSE NoFault
    /\ Goes(p, "off")
    /\ UNCHANGED <<session, listed, at, handled, disk>>

\* SessionLock::establish: the file is created empty, locked, then marked.  A
\* failure leaves the session without a lock, and its file without a marker.
CreatesLockFile(p) ==
    /\ At(p, "new")
    /\ file' = [file EXCEPT ![session[p]] = "unmarked"]
    /\ Goes(p, "open")
    /\ NoFault
    /\ UNCHANGED <<session, listed, at, handled, dir, work, holder, unordered, certified>>

TakesLock(p) ==
    /\ At(p, "open")
    /\ IF MayLock(session[p])
         THEN holder' = [holder EXCEPT ![session[p]] = p] /\ Goes(p, "locked")
         ELSE UNCHANGED holder /\ Goes(p, "furnishing")
    /\ NoFault
    /\ UNCHANGED <<session, listed, at, handled, dir, file, work, unordered, certified>>

WritesMarker(p) ==
    /\ At(p, "locked")
    /\ file' = [file EXCEPT ![session[p]] = "marked"]
    /\ certified' = certified \union {session[p]}
    /\ Goes(p, "furnishing")
    /\ NoFault
    /\ UNCHANGED <<session, listed, at, handled, dir, work, holder, unordered>>

CannotEstablish(p) ==
    /\ pc[p] \in {"new", "open", "locked"}
    /\ Goes(p, "furnishing")
    /\ Releases(p)
    /\ Fault
    /\ UNCHANGED <<session, listed, at, handled, dir, file, work, unordered, certified>>

\* Each working directory is created once.
CreatesWorking(p) ==
    /\ At(p, "furnishing")
    /\ \E e \in Working \ handled[p] :
        /\ handled' = [handled EXCEPT ![p] = @ \union {e}]
        /\ work' = [work EXCEPT ![session[p]] = @ \union {e}]
    /\ NoFault
    /\ UNCHANGED <<pc, session, listed, at, dir, file, holder, unordered, certified>>

Runs(p) ==
    /\ At(p, "furnishing")
    /\ handled[p] = Working
    /\ handled' = [handled EXCEPT ![p] = {}]
    /\ Goes(p, "running")
    /\ NoFault
    /\ UNCHANGED <<session, listed, at, disk>>

\* A working directory or the quota cannot be had: the lock is dropped, and
\* TempDir removes the directory as a whole.
Discards(p) ==
    /\ Releases(p)
    /\ unordered' = IF work[session[p]] = {} THEN unordered
                                             ELSE unordered \union {session[p]}
    /\ Goes(p, "discarding")
    /\ handled' = [handled EXCEPT ![p] = {}]
    /\ UNCHANGED <<session, listed, at, dir, file, work, certified>>

CannotFurnish(p) == At(p, "furnishing") /\ Discards(p) /\ Fault

-----------------------------------------------------------------------------
(* Tearing it down *)

ReleasesLock(p) ==
    /\ At(p, "running")
    /\ Goes(p, "teardown")
    /\ Releases(p)
    /\ NoFault
    /\ UNCHANGED <<session, listed, at, handled, dir, file, work, unordered, certified>>

\* Each working directory is removed once; a failure is ignored.
RemovesWorking(p) ==
    /\ At(p, "teardown")
    /\ \E e \in Working \ handled[p] :
        /\ handled' = [handled EXCEPT ![p] = @ \union {e}]
        /\ \/ work' = [work EXCEPT ![session[p]] = @ \ {e}] /\ NoFault
           \/ e \in work[session[p]] /\ UNCHANGED work /\ Fault
    /\ UNCHANGED <<pc, session, listed, at, dir, file, holder, unordered, certified>>

TearsDown(p) ==
    /\ At(p, "teardown")
    /\ handled[p] = Working
    /\ Discards(p)
    /\ NoFault

\* TempDir's removal of whatever is left, in no particular order.
RemovesAll(p) ==
    /\ At(p, "discarding")
    /\ \/ /\ \E e \in work[session[p]] : work' = [work EXCEPT ![session[p]] = @ \ {e}]
          /\ UNCHANGED <<pc, session, dir, file>>
       \/ /\ file[session[p]] # "absent"
          /\ file' = [file EXCEPT ![session[p]] = "absent"]
          /\ UNCHANGED <<pc, session, dir, work>>
       \/ /\ Empty(session[p]) \/ dir[session[p]] = "gone"
          /\ dir' = [dir EXCEPT ![session[p]] = "gone"]
          /\ session' = [session EXCEPT ![p] = Nowhere]
          /\ Goes(p, "off")
          /\ UNCHANGED <<file, work>>
    /\ NoFault
    /\ UNCHANGED <<listed, at, handled, holder, unordered, certified>>

CannotRemoveAll(p) ==
    /\ At(p, "discarding")
    /\ dir[session[p]] = "present"
    /\ session' = [session EXCEPT ![p] = Nowhere]
    /\ Goes(p, "off")
    /\ Fault
    /\ UNCHANGED <<listed, at, handled, disk>>

-----------------------------------------------------------------------------

\* A process ends without another step; its locks go with it.
Killed(p) ==
    /\ ~At(p, "off")
    /\ Goes(p, "off")
    /\ session' = [session EXCEPT ![p] = Nowhere]
    /\ listed' = [listed EXCEPT ![p] = {}]
    /\ at' = [at EXCEPT ![p] = Nowhere]
    /\ handled' = [handled EXCEPT ![p] = {}]
    /\ Releases(p)
    /\ Fault
    /\ UNCHANGED <<dir, file, work, unordered, certified>>

Sweeps(p) ==
    \/ StartsSweep(p)
    \/ \E d \in Dirs : Examines(p, d)
    \/ TriesLock(p)
    \/ RemovesContents(p)
    \/ GivesUp(p)
    \/ Unlocks(p)
    \/ UnlinksLock(p)
    \/ RemovesDirectory(p)
    \/ EndsSweep(p)

SetsUp(p) ==
    \/ CreatesDirectory(p)
    \/ CannotCreateDirectory(p)
    \/ CreatesLockFile(p)
    \/ TakesLock(p)
    \/ WritesMarker(p)
    \/ CannotEstablish(p)
    \/ CreatesWorking(p)
    \/ Runs(p)
    \/ CannotFurnish(p)

Ends(p) ==
    \/ ReleasesLock(p)
    \/ RemovesWorking(p)
    \/ TearsDown(p)
    \/ RemovesAll(p)
    \/ CannotRemoveAll(p)

Step(p) == Sweeps(p) \/ SetsUp(p) \/ Ends(p)

Next == \E p \in Processes : Step(p) \/ Killed(p)

Spec == Init /\ [][Next]_vars

\* Processes keep running, ending and being started again.
FairSpec == Spec /\ \A p \in Processes : WF_vars(Step(p))

-----------------------------------------------------------------------------
(* Properties *)

Lives(p) == pc[p] \in {"new", "open", "locked", "furnishing", "running"}
Ending(p) == pc[p] \in EndPoints
Held(d) == \E p \in Processes : session[p] = d

TypeOK ==
    /\ pc \in [Processes -> Points]
    /\ session \in [Processes -> Dirs \union {Nowhere}]
    /\ listed \in [Processes -> SUBSET Dirs]
    /\ at \in [Processes -> Dirs \union {Nowhere}]
    /\ handled \in [Processes -> SUBSET Working]
    /\ dir \in [Dirs -> {"unused", "present", "gone"}]
    /\ file \in [Dirs -> {"absent", "unmarked", "marked"}]
    /\ work \in [Dirs -> SUBSET Working]
    /\ holder \in [Dirs -> Processes \union {Nobody}]
    /\ unordered \subseteq Dirs
    /\ certified \subseteq Dirs
    /\ faults \in 0..MaxFaults

\* Whatever other processes sweep, and whenever they looked, a session keeps
\* its directory, its lock file and every working directory it has created
\* until it gives them up itself (sweep.rs: "a live session never gives its
\* lock up").
LiveSessionIsWhole ==
    \A p \in Processes : Lives(p) =>
        /\ dir[session[p]] = "present"
        /\ work[session[p]] = IF pc[p] = "running" THEN Working ELSE handled[p]
        /\ pc[p] \in {"open", "locked"} => file[session[p]] = "unmarked"
        /\ pc[p] \in {"furnishing", "running"} /\ holder[session[p]] = p =>
              file[session[p]] = "marked"

\* "No moment exists at which a live session looks both marked and unlocked"
\* (session_lock.rs), whichever of its steps fail; and no sweep ever makes a
\* session's own attempt to take its lock fail.
MarkedMeansLocked ==
    \A p \in Processes : Lives(p) =>
        /\ file[session[p]] = "marked" => holder[session[p]] = p
        /\ pc[p] = "open" => holder[session[p]] = Nobody

\* Without a complete marker, and no process has it as its session.  Excepted is
\* only what had a complete marker and is about to be removed by a sweep that
\* found it.
Foreign(d) ==
    /\ dir[d] = "present"
    /\ file[d] # "marked"
    /\ ~Held(d)
    /\ d \notin certified \/ \A q \in Processes : at[q] # d

\* A directory without a complete marker that no process has as its session is
\* left exactly as it is by everybody, whether its lock file is incomplete or
\* not there at all: one no excise made, one an earlier version left (sweep.rs:
\* "which have no lock file"), one whose session died while it was set up.
UnverifiedIsLeftAlone ==
    [][\A d \in Dirs : Foreign(d) =>
            dir'[d] = dir[d] /\ file'[d] = file[d] /\ work'[d] = work[d]]_vars

\* The lock file goes last: while working directories are left nobody takes
\* the marker away, so that a removal that is interrupted, by a sweep or by
\* the session itself, can be finished by the next sweep.  The exception is a
\* session that could not be set up or could not remove its working
\* directories one by one, which TempDir then removes in any order.
MarkerGoesLast ==
    [][\A d \in Dirs : file[d] = "marked" /\ file'[d] # "marked" =>
            work[d] = {} \/ d \in unordered]_vars

\* What a dead session left is removed by some later start, although sweeps
\* are themselves killed, fail, overlap and race the session's own removal.
\* (A sweep that is killed right before its last call, or whose rmdir fails,
\* leaves an empty directory without a lock file.)
DeadSessionsAreSwept ==
    \A d \in Dirs :
        Verified(d) /\ ~Held(d) ~> file[d] = "absent" /\ work[d] = {}

=============================================================================
