------------------------- MODULE SessionSweepProofs -------------------------
(***************************************************************************)
(* Proofs about sessions and sweeps, for any number of processes and       *)
(* directories, any leftovers and any number of kills and failures.        *)
(***************************************************************************)
EXTENDS SessionSweep, TLAPS

\* Between opening a candidate and leaving it; the last three come after its
\* lock was taken.
Removing(q) == pc[q] \in {"emptying", "unlinking", "removing"}
Examining(q) == pc[q] = "locking" \/ Removing(q)

\* Each session has a directory of its own, on disk until the session ends.
SessionsPlaced ==
    \A p \in Processes :
        /\ Lives(p) \/ Ending(p) =>
              /\ session[p] \in Dirs
              /\ dir[session[p]] # "unused"
        /\ ~(Lives(p) \/ Ending(p)) => session[p] = Nowhere
        /\ \A q \in Processes : p # q /\ session[p] # Nowhere => session[p] # session[q]

\* A name that was never used has nothing behind it.
UnusedIsBlank ==
    \A d \in Dirs : dir[d] = "unused" =>
        file[d] = "absent" /\ work[d] = {} /\ holder[d] = Nobody

\* What each step of setting a session up has established.
SetUpSoFar(p) ==
    /\ pc[p] = "new" => file[session[p]] = "absent" /\ holder[session[p]] = Nobody
    /\ pc[p] = "open" => file[session[p]] = "unmarked" /\ holder[session[p]] = Nobody
    /\ pc[p] = "locked" => file[session[p]] = "unmarked" /\ holder[session[p]] = p
    /\ Lives(p) /\ file[session[p]] = "marked" => holder[session[p]] = p
    /\ Lives(p) => dir[session[p]] = "present"
    /\ pc[p] \in {"furnishing", "running"} /\ holder[session[p]] = p =>
          file[session[p]] = "marked"
    /\ pc[p] \in {"new", "open", "locked"} => work[session[p]] = {}
    /\ pc[p] = "furnishing" => work[session[p]] = handled[p]
    /\ pc[p] = "running" => work[session[p]] = Working
    /\ pc[p] \notin {"furnishing", "teardown"} => handled[p] = {}

SetupInOrder == \A p \in Processes : SetUpSoFar(p)

\* A complete marker is on record, and so is all a sweep removes.
MarkersRecorded ==
    /\ \A d \in Dirs : file[d] = "marked" => d \in certified
    /\ \A q \in Processes : Examining(q) => at[q] \in certified

\* A sweep is only ever at a directory whose marker it found complete, and it
\* is past the lock only where nobody lives.
SweepersPlaced ==
    \A q \in Processes :
        /\ Examining(q) =>
              /\ at[q] \in Dirs
              /\ dir[at[q]] # "unused"
              /\ file[at[q]] # "unmarked"
        /\ \A p \in Processes : Lives(p) /\ Examining(q) /\ session[p] = at[q] =>
              pc[q] = "locking" /\ file[at[q]] = "marked"

\* The lock file outlives the working directories.
EmptiedFirst ==
    \A p \in Processes :
        /\ pc[p] \in {"unlinking", "removing"} => work[at[p]] = {}
        /\ pc[p] = "discarding" =>
              work[session[p]] = {} \/ session[p] \in unordered

SweepInv ==
    /\ TypeOK
    /\ SessionsPlaced
    /\ UnusedIsBlank
    /\ SetupInOrder
    /\ SweepersPlaced
    /\ EmptiedFirst
    /\ MarkersRecorded

-----------------------------------------------------------------------------
(* The invariant *)

LEMMA SweepInvInitially == Init => SweepInv
  BY SweepConstants DEF Init, SweepInv, TypeOK, SessionsPlaced, UnusedIsBlank,
     SetupInOrder, SetUpSoFar, SweepersPlaced, EmptiedFirst, MarkersRecorded, Lives, Ending, Examining,
     Removing, Points, SweepPoints, SetupPoints, EndPoints

LEMMA SweepInvStep == SweepInv /\ [Next]_vars => SweepInv'
  <1> SUFFICES ASSUME SweepInv, [Next]_vars PROVE SweepInv'
    OBVIOUS
  <1> USE SweepConstants
  <1> USE DEF SweepInv, TypeOK, Lives, Ending, Examining, Removing, Points,
              SweepPoints, SetupPoints, EndPoints, At, Goes
  <1>1. CASE UNCHANGED vars
    BY <1>1 DEF vars, SessionsPlaced, UnusedIsBlank, SetupInOrder, SetUpSoFar, SweepersPlaced, EmptiedFirst,
       MarkersRecorded
  <1>2. ASSUME NEW p \in Processes, Step(p) \/ Killed(p) PROVE SweepInv'

    <2>1. CASE StartsSweep(p)
      BY <2>1 DEF StartsSweep, Candidates, Present, disk, Fault, NoFault, SessionsPlaced, UnusedIsBlank, SetupInOrder, SetUpSoFar,
         SweepersPlaced, EmptiedFirst, MarkersRecorded
    <2>2. ASSUME NEW d \in Dirs, Examines(p, d) PROVE SweepInv'
      <3>1. TypeOK'
        BY <2>2 DEF Examines, Verified, Leaves, disk, NoFault, SessionsPlaced, SweepersPlaced
      <3>2. SessionsPlaced'
        BY <2>2 DEF Examines, Verified, Leaves, disk, NoFault, SessionsPlaced, UnusedIsBlank
      <3>3. UnusedIsBlank'
        BY <2>2 DEF Examines, Verified, Leaves, disk, NoFault, UnusedIsBlank, SessionsPlaced, SweepersPlaced
      <3>4. SetupInOrder'
        BY <2>2 DEF Examines, Verified, Leaves, disk, NoFault, SetupInOrder, SetUpSoFar, SessionsPlaced, SweepersPlaced, UnusedIsBlank
      <3>5. SweepersPlaced'
        BY <2>2 DEF Examines, Verified, Leaves, disk, NoFault, SweepersPlaced, SessionsPlaced, SetupInOrder, SetUpSoFar, UnusedIsBlank
      <3>6. EmptiedFirst'
        BY <2>2 DEF Examines, Verified, Leaves, disk, NoFault, EmptiedFirst, SessionsPlaced, SweepersPlaced
      <3>7. MarkersRecorded'
        BY <2>2 DEF Examines, Verified, Leaves, disk, NoFault, MarkersRecorded, SessionsPlaced, SweepersPlaced
      <3> QED BY <3>1, <3>2, <3>3, <3>4, <3>5, <3>6, <3>7
    <2>3. CASE TriesLock(p)
      <3>1. TypeOK'
        BY <2>3 DEF TriesLock, MayLock, Leaves, NoFault, SessionsPlaced, SweepersPlaced
      <3>2. SessionsPlaced'
        BY <2>3 DEF TriesLock, MayLock, Leaves, NoFault, SessionsPlaced, UnusedIsBlank
      <3>3. UnusedIsBlank'
        BY <2>3 DEF TriesLock, MayLock, Leaves, NoFault, UnusedIsBlank, SessionsPlaced, SweepersPlaced
      <3>4. SetupInOrder'
        BY <2>3 DEF TriesLock, MayLock, Leaves, NoFault, SetupInOrder, SetUpSoFar, SessionsPlaced, SweepersPlaced, UnusedIsBlank
      <3>5. SweepersPlaced'
        BY <2>3 DEF TriesLock, MayLock, Leaves, NoFault, SweepersPlaced, SessionsPlaced, SetupInOrder, SetUpSoFar, UnusedIsBlank
      <3>6. EmptiedFirst'
        BY <2>3 DEF TriesLock, MayLock, Leaves, NoFault, EmptiedFirst, SessionsPlaced, SweepersPlaced
      <3>7. MarkersRecorded'
        BY <2>3 DEF TriesLock, MayLock, Leaves, NoFault, MarkersRecorded, SessionsPlaced, SweepersPlaced
      <3> QED BY <3>1, <3>2, <3>3, <3>4, <3>5, <3>6, <3>7
    <2>4. CASE RemovesContents(p)
      BY <2>4 DEF RemovesContents, NoFault, SessionsPlaced, UnusedIsBlank, SetupInOrder, SetUpSoFar,
         SweepersPlaced, EmptiedFirst, MarkersRecorded
    <2>5. CASE GivesUp(p)
      BY <2>5 DEF GivesUp, Leaves, Releases, Fault, SessionsPlaced, UnusedIsBlank, SetupInOrder, SetUpSoFar,
         SweepersPlaced, EmptiedFirst, MarkersRecorded
    <2>6. CASE Unlocks(p)
      BY <2>6 DEF Unlocks, Releases, NoFault, SessionsPlaced, UnusedIsBlank, SetupInOrder, SetUpSoFar,
         SweepersPlaced, EmptiedFirst, MarkersRecorded
    <2>7. CASE UnlinksLock(p)
      <3>1. TypeOK'
        BY <2>7 DEF UnlinksLock, NoFault, SessionsPlaced, SweepersPlaced
      <3>2. SessionsPlaced'
        BY <2>7 DEF UnlinksLock, NoFault, SessionsPlaced, UnusedIsBlank
      <3>3. UnusedIsBlank'
        BY <2>7 DEF UnlinksLock, NoFault, UnusedIsBlank, SessionsPlaced, SweepersPlaced
      <3>4. SetupInOrder'
        BY <2>7 DEF UnlinksLock, NoFault, SetupInOrder, SetUpSoFar, SessionsPlaced, SweepersPlaced, UnusedIsBlank
      <3>5. SweepersPlaced'
        BY <2>7 DEF UnlinksLock, NoFault, SweepersPlaced, SessionsPlaced, SetupInOrder, SetUpSoFar, UnusedIsBlank
      <3>6. EmptiedFirst'
        BY <2>7 DEF UnlinksLock, NoFault, EmptiedFirst, SessionsPlaced, SweepersPlaced
      <3>7. MarkersRecorded'
        BY <2>7 DEF UnlinksLock, NoFault, MarkersRecorded, SessionsPlaced, SweepersPlaced
      <3> QED BY <3>1, <3>2, <3>3, <3>4, <3>5, <3>6, <3>7
    <2>8. CASE RemovesDirectory(p)
      BY <2>8 DEF RemovesDirectory, Empty, Leaves, NoFault, SessionsPlaced, UnusedIsBlank, SetupInOrder, SetUpSoFar,
         SweepersPlaced, EmptiedFirst, MarkersRecorded
    <2>9. CASE EndsSweep(p)
      BY <2>9 DEF EndsSweep, disk, NoFault, SessionsPlaced, UnusedIsBlank, SetupInOrder, SetUpSoFar,
         SweepersPlaced, EmptiedFirst, MarkersRecorded
    <2>10. CASE CreatesDirectory(p)
      <3>1. TypeOK'
        BY <2>10 DEF CreatesDirectory, NoFault, SessionsPlaced, SweepersPlaced
      <3>2. SessionsPlaced'
        BY <2>10 DEF CreatesDirectory, NoFault, SessionsPlaced, UnusedIsBlank
      <3>3. UnusedIsBlank'
        BY <2>10 DEF CreatesDirectory, NoFault, UnusedIsBlank, SessionsPlaced, SweepersPlaced
      <3>4. SetupInOrder'
        BY <2>10 DEF CreatesDirectory, NoFault, SetupInOrder, SetUpSoFar, SessionsPlaced, SweepersPlaced, UnusedIsBlank
      <3>5. SweepersPlaced'
        BY <2>10 DEF CreatesDirectory, NoFault, SweepersPlaced, SessionsPlaced, SetupInOrder, SetUpSoFar, UnusedIsBlank
      <3>6. EmptiedFirst'
        BY <2>10 DEF CreatesDirectory, NoFault, EmptiedFirst, SessionsPlaced, SweepersPlaced
      <3>7. MarkersRecorded'
        BY <2>10 DEF CreatesDirectory, NoFault, MarkersRecorded, SessionsPlaced, SweepersPlaced
      <3> QED BY <3>1, <3>2, <3>3, <3>4, <3>5, <3>6, <3>7
    <2>11. CASE CannotCreateDirectory(p)
      BY <2>11 DEF CannotCreateDirectory, disk, Fault, NoFault, SessionsPlaced, UnusedIsBlank, SetupInOrder, SetUpSoFar,
         SweepersPlaced, EmptiedFirst, MarkersRecorded
    <2>12. CASE CreatesLockFile(p)
      BY <2>12 DEF CreatesLockFile, NoFault, SessionsPlaced, UnusedIsBlank, SetupInOrder, SetUpSoFar,
         SweepersPlaced, EmptiedFirst, MarkersRecorded
    <2>13. CASE TakesLock(p)
      <3>1. TypeOK'
        BY <2>13 DEF TakesLock, MayLock, NoFault, SessionsPlaced, SweepersPlaced
      <3>2. SessionsPlaced'
        BY <2>13 DEF TakesLock, MayLock, NoFault, SessionsPlaced, UnusedIsBlank
      <3>3. UnusedIsBlank'
        BY <2>13 DEF TakesLock, MayLock, NoFault, UnusedIsBlank, SessionsPlaced, SweepersPlaced
      <3>4. SetupInOrder'
        BY <2>13 DEF TakesLock, MayLock, NoFault, SetupInOrder, SetUpSoFar, SessionsPlaced, SweepersPlaced, UnusedIsBlank
      <3>5. SweepersPlaced'
        BY <2>13 DEF TakesLock, MayLock, NoFault, SweepersPlaced, SessionsPlaced, SetupInOrder, SetUpSoFar, UnusedIsBlank
      <3>6. EmptiedFirst'
        BY <2>13 DEF TakesLock, MayLock, NoFault, EmptiedFirst, SessionsPlaced, SweepersPlaced
      <3>7. MarkersRecorded'
        BY <2>13 DEF TakesLock, MayLock, NoFault, MarkersRecorded, SessionsPlaced, SweepersPlaced
      <3> QED BY <3>1, <3>2, <3>3, <3>4, <3>5, <3>6, <3>7
    <2>14. CASE WritesMarker(p)
      <3>1. TypeOK'
        BY <2>14 DEF WritesMarker, NoFault, SessionsPlaced, SweepersPlaced
      <3>2. SessionsPlaced'
        BY <2>14 DEF WritesMarker, NoFault, SessionsPlaced, UnusedIsBlank
      <3>3. UnusedIsBlank'
        BY <2>14 DEF WritesMarker, NoFault, UnusedIsBlank, SessionsPlaced, SweepersPlaced
      <3>4. SetupInOrder'
        <4>1. ASSUME NEW q \in Processes, q # p PROVE SetUpSoFar(q)'
          <5>1. Lives(q) => session[q] \in Dirs /\ session[q] # session[p]
            BY <4>1 DEF SessionsPlaced
          <5>2. SetUpSoFar(q)
            BY DEF SetupInOrder
          <5> QED BY <2>14, <4>1, <5>1, <5>2 DEF WritesMarker, NoFault, SetUpSoFar
        <4>2. SetUpSoFar(p)'
          <5>1. SetUpSoFar(p) /\ session[p] \in Dirs
            BY <2>14 DEF WritesMarker, NoFault, SetupInOrder, SessionsPlaced
          <5> QED BY <2>14, <5>1 DEF WritesMarker, NoFault, SetUpSoFar
        <4> QED BY <4>1, <4>2 DEF SetupInOrder
      <3>5. SweepersPlaced'
        BY <2>14 DEF WritesMarker, NoFault, SweepersPlaced, SessionsPlaced, SetupInOrder, SetUpSoFar, UnusedIsBlank
      <3>6. EmptiedFirst'
        BY <2>14 DEF WritesMarker, NoFault, EmptiedFirst, SessionsPlaced, SweepersPlaced
      <3>7. MarkersRecorded'
        BY <2>14 DEF WritesMarker, NoFault, MarkersRecorded, SessionsPlaced, SweepersPlaced
      <3> QED BY <3>1, <3>2, <3>3, <3>4, <3>5, <3>6, <3>7
    <2>15. CASE CannotEstablish(p)
      <3>1. TypeOK'
        BY <2>15 DEF CannotEstablish, Releases, Fault, SessionsPlaced, SweepersPlaced
      <3>2. SessionsPlaced'
        BY <2>15 DEF CannotEstablish, Releases, Fault, SessionsPlaced, UnusedIsBlank
      <3>3. UnusedIsBlank'
        BY <2>15 DEF CannotEstablish, Releases, Fault, UnusedIsBlank, SessionsPlaced, SweepersPlaced
      <3>4. SetupInOrder'
        <4>1. ASSUME NEW q \in Processes, q # p PROVE SetUpSoFar(q)'
          <5>1. Lives(q) => session[q] \in Dirs /\ session[q] # session[p]
            BY <4>1 DEF SessionsPlaced
          <5>2. SetUpSoFar(q)
            BY DEF SetupInOrder
          <5> QED BY <2>15, <4>1, <5>1, <5>2 DEF CannotEstablish, Releases, Fault, SetUpSoFar
        <4>2. SetUpSoFar(p)'
          <5>1. SetUpSoFar(p) /\ session[p] \in Dirs
            BY <2>15 DEF CannotEstablish, Releases, Fault, SetupInOrder, SessionsPlaced
          <5> QED BY <2>15, <5>1 DEF CannotEstablish, Releases, Fault, SetUpSoFar
        <4> QED BY <4>1, <4>2 DEF SetupInOrder
      <3>5. SweepersPlaced'
        BY <2>15 DEF CannotEstablish, Releases, Fault, SweepersPlaced, SessionsPlaced, SetupInOrder, SetUpSoFar, UnusedIsBlank
      <3>6. EmptiedFirst'
        BY <2>15 DEF CannotEstablish, Releases, Fault, EmptiedFirst, SessionsPlaced, SweepersPlaced
      <3>7. MarkersRecorded'
        BY <2>15 DEF CannotEstablish, Releases, Fault, MarkersRecorded, SessionsPlaced, SweepersPlaced
      <3> QED BY <3>1, <3>2, <3>3, <3>4, <3>5, <3>6, <3>7
    <2>16. CASE CreatesWorking(p)
      <3>1. TypeOK'
        BY <2>16 DEF CreatesWorking, NoFault, SessionsPlaced, SweepersPlaced
      <3>2. SessionsPlaced'
        BY <2>16 DEF CreatesWorking, NoFault, SessionsPlaced, UnusedIsBlank
      <3>3. UnusedIsBlank'
        BY <2>16 DEF CreatesWorking, NoFault, UnusedIsBlank, SessionsPlaced, SweepersPlaced
      <3>4. SetupInOrder'
        <4>1. ASSUME NEW q \in Processes, q # p PROVE SetUpSoFar(q)'
          <5>1. Lives(q) => session[q] \in Dirs /\ session[q] # session[p]
            BY <4>1 DEF SessionsPlaced
          <5>2. SetUpSoFar(q)
            BY DEF SetupInOrder
          <5> QED BY <2>16, <4>1, <5>1, <5>2 DEF CreatesWorking, NoFault, SetUpSoFar
        <4>2. SetUpSoFar(p)'
          <5>1. SetUpSoFar(p) /\ session[p] \in Dirs
            BY <2>16 DEF CreatesWorking, NoFault, SetupInOrder, SessionsPlaced
          <5> QED BY <2>16, <5>1 DEF CreatesWorking, NoFault, SetUpSoFar
        <4> QED BY <4>1, <4>2 DEF SetupInOrder
      <3>5. SweepersPlaced'
        BY <2>16 DEF CreatesWorking, NoFault, SweepersPlaced, SessionsPlaced, SetupInOrder, SetUpSoFar, UnusedIsBlank
      <3>6. EmptiedFirst'
        BY <2>16 DEF CreatesWorking, NoFault, EmptiedFirst, SessionsPlaced, SweepersPlaced
      <3>7. MarkersRecorded'
        BY <2>16 DEF CreatesWorking, NoFault, MarkersRecorded, SessionsPlaced, SweepersPlaced
      <3> QED BY <3>1, <3>2, <3>3, <3>4, <3>5, <3>6, <3>7
    <2>17. CASE Runs(p)
      BY <2>17 DEF Runs, disk, NoFault, SessionsPlaced, UnusedIsBlank, SetupInOrder, SetUpSoFar,
         SweepersPlaced, EmptiedFirst, MarkersRecorded
    <2>18. CASE CannotFurnish(p)
      BY <2>18 DEF CannotFurnish, Discards, Releases, Fault, SessionsPlaced, UnusedIsBlank, SetupInOrder, SetUpSoFar,
         SweepersPlaced, EmptiedFirst, MarkersRecorded
    <2>19. CASE ReleasesLock(p)
      BY <2>19 DEF ReleasesLock, Releases, NoFault, SessionsPlaced, UnusedIsBlank, SetupInOrder, SetUpSoFar,
         SweepersPlaced, EmptiedFirst, MarkersRecorded
    <2>20. CASE RemovesWorking(p)
      BY <2>20 DEF RemovesWorking, Fault, NoFault, SessionsPlaced, UnusedIsBlank, SetupInOrder, SetUpSoFar,
         SweepersPlaced, EmptiedFirst, MarkersRecorded
    <2>21. CASE TearsDown(p)
      BY <2>21 DEF TearsDown, Discards, Releases, NoFault, SessionsPlaced, UnusedIsBlank, SetupInOrder, SetUpSoFar,
         SweepersPlaced, EmptiedFirst, MarkersRecorded
    <2>22. CASE RemovesAll(p)
      <3>1. TypeOK'
        BY <2>22 DEF RemovesAll, Empty, NoFault, SessionsPlaced, SweepersPlaced
      <3>2. SessionsPlaced'
        BY <2>22 DEF RemovesAll, Empty, NoFault, SessionsPlaced, UnusedIsBlank
      <3>3. UnusedIsBlank'
        BY <2>22 DEF RemovesAll, Empty, NoFault, UnusedIsBlank, SessionsPlaced, SweepersPlaced
      <3>4. SetupInOrder'
        BY <2>22 DEF RemovesAll, Empty, NoFault, SetupInOrder, SetUpSoFar, SessionsPlaced, SweepersPlaced, UnusedIsBlank
      <3>5. SweepersPlaced'
        BY <2>22 DEF RemovesAll, Empty, NoFault, SweepersPlaced, SessionsPlaced, SetupInOrder, SetUpSoFar, UnusedIsBlank
      <3>6. EmptiedFirst'
        BY <2>22 DEF RemovesAll, Empty, NoFault, EmptiedFirst, SessionsPlaced, SweepersPlaced
      <3>7. MarkersRecorded'
        BY <2>22 DEF RemovesAll, Empty, NoFault, MarkersRecorded, SessionsPlaced, SweepersPlaced
      <3> QED BY <3>1, <3>2, <3>3, <3>4, <3>5, <3>6, <3>7
    <2>23. CASE CannotRemoveAll(p)
      BY <2>23 DEF CannotRemoveAll, disk, Fault, SessionsPlaced, UnusedIsBlank, SetupInOrder, SetUpSoFar,
         SweepersPlaced, EmptiedFirst, MarkersRecorded
    <2>24. CASE Killed(p)
      BY <2>24 DEF Killed, Releases, Fault, SessionsPlaced, UnusedIsBlank, SetupInOrder, SetUpSoFar,
         SweepersPlaced, EmptiedFirst, MarkersRecorded
    <2> QED
      BY <1>2, <2>1, <2>2, <2>3, <2>4, <2>5, <2>6, <2>7, <2>8, <2>9, <2>10, <2>11, <2>12, <2>13, <2>14, <2>15, <2>16, <2>17, <2>18, <2>19, <2>20, <2>21, <2>22, <2>23, <2>24 DEF Step, Sweeps, SetsUp, Ends
  <1> QED BY <1>1, <1>2 DEF Next

LEMMA SweepInvAlways == Spec => []SweepInv
  BY SweepInvInitially, SweepInvStep, PTL DEF Spec

-----------------------------------------------------------------------------
(* What follows from it *)

\* The state of processes and directories keeps its types.
THEOREM SweepTypeCorrect == Spec => []TypeOK
  <1>1. SweepInv => TypeOK
    BY DEF SweepInv
  <1> QED BY <1>1, SweepInvAlways, PTL

\* No sweep touches the directory of a live session, wherever in its setup
\* the session is and however long ago the sweep looked at it.
THEOREM LiveSessionsAreWhole == Spec => []LiveSessionIsWhole
  <1>1. SweepInv => LiveSessionIsWhole
    BY DEF SweepInv, SetupInOrder, SetUpSoFar, LiveSessionIsWhole, Lives
  <1> QED BY <1>1, SweepInvAlways, PTL

\* A complete marker on a live session's file means that the session holds
\* its lock, and its attempt to take the lock succeeds.
THEOREM MarkersAreLocked == Spec => []MarkedMeansLocked
  <1>1. SweepInv => MarkedMeansLocked
    BY DEF SweepInv, SetupInOrder, SetUpSoFar, MarkedMeansLocked
  <1> QED BY <1>1, SweepInvAlways, PTL

\* The lock file is the last thing a removal takes away.
THEOREM MarkersGoLast == Spec => MarkerGoesLast
  <1>1. SweepInv /\ [Next]_vars =>
          [\A d \in Dirs : file[d] = "marked" /\ file'[d] # "marked" =>
              work[d] = {} \/ d \in unordered]_vars
    <2> SUFFICES ASSUME SweepInv, NEW p \in Processes, Step(p) \/ Killed(p),
                        NEW d \in Dirs, file[d] = "marked", file'[d] # "marked"
                 PROVE  work[d] = {} \/ d \in unordered
      BY DEF Next
    <2> USE DEF At, TypeOK
    <2>1. CASE UnlinksLock(p)
      BY <2>1 DEF UnlinksLock, SweepInv, SweepersPlaced, EmptiedFirst, Examining, Removing
    <2>2. CASE CreatesLockFile(p)
      BY <2>2 DEF CreatesLockFile, SweepInv, SessionsPlaced, SetupInOrder, SetUpSoFar, Lives
    <2>3. CASE WritesMarker(p)
      BY <2>3 DEF WritesMarker, SweepInv, SessionsPlaced, Lives
    <2>4. CASE RemovesAll(p)
      BY <2>4 DEF RemovesAll, SweepInv, SessionsPlaced, EmptiedFirst, Ending, EndPoints
    <2> QED
      BY <2>1, <2>2, <2>3, <2>4
      DEF Step, Sweeps, SetsUp, Ends, StartsSweep, Examines, TriesLock,
          RemovesContents, GivesUp, Unlocks, RemovesDirectory, EndsSweep,
          CreatesDirectory, CannotCreateDirectory, TakesLock, CannotEstablish,
          CreatesWorking, Runs, CannotFurnish, ReleasesLock, RemovesWorking,
          TearsDown, Discards, CannotRemoveAll, Killed, disk
  <1> QED BY <1>1, SweepInvAlways, PTL DEF Spec, MarkerGoesLast

\* What carries no complete marker, or no lock file at all, and is nobody's
\* session stays as it is.
THEOREM UnverifiedStays == Spec => UnverifiedIsLeftAlone
  <1>1. SweepInv /\ [Next]_vars =>
          [\A d \in Dirs : Foreign(d) =>
              dir'[d] = dir[d] /\ file'[d] = file[d] /\ work'[d] = work[d]]_vars
    <2> SUFFICES ASSUME SweepInv, NEW p \in Processes, Step(p) \/ Killed(p),
                        NEW d \in Dirs, Foreign(d)
                 PROVE  dir'[d] = dir[d] /\ file'[d] = file[d] /\ work'[d] = work[d]
      BY DEF Next
    <2> USE DEF At, TypeOK
    <2>1. CASE Sweeps(p)
      <3>1. Examining(p) => at[p] # d
        BY DEF SweepInv, MarkersRecorded, Foreign
      <3> QED
        BY <2>1, <3>1 DEF Sweeps, SweepInv, Examining, Removing, StartsSweep, Examines,
           TriesLock, RemovesContents, GivesUp, Unlocks, UnlinksLock,
           RemovesDirectory, EndsSweep, disk
    <2>2. CASE SetsUp(p) \/ Ends(p) \/ Killed(p)
      <3>1. session[p] # d
        BY DEF Foreign, Held
      <3>2. dir[d] # "unused"
        BY DEF Foreign
      <3> QED
        BY <2>2, <3>1, <3>2 DEF SetsUp, Ends, SweepInv, CreatesDirectory, CannotCreateDirectory,
           CreatesLockFile, TakesLock, WritesMarker, CannotEstablish,
           CreatesWorking, Runs, CannotFurnish, ReleasesLock, RemovesWorking,
           TearsDown, Discards, RemovesAll, CannotRemoveAll, Killed, disk
    <2> QED BY <2>1, <2>2 DEF Step
  <1> QED BY <1>1, SweepInvAlways, PTL DEF Spec, UnverifiedIsLeftAlone

=============================================================================
