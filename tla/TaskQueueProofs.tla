-------------------------- MODULE TaskQueueProofs --------------------------
(***************************************************************************)
(* The accounting of the session's temporary storage, and what the spill   *)
(* file holds after its overlapping copies, proved for any directories,    *)
(* record sizes, number of resident directories, chunk, limit and          *)
(* database.                                                               *)
(***************************************************************************)
EXTENDS TaskQueue, Iteration, SequenceTheorems, FiniteSetTheorems, FunctionTheorems, TLAPS

USE TaskQueueConstants

-----------------------------------------------------------------------------
(***************************************************************************)
(* Loops.                                                                  *)
(***************************************************************************)
\* Every number is in a set that 0 is in and that is closed under n + 1.
LEMMA Induction ==
    ASSUME NEW S, 0 \in S, \A n \in Nat : n \in S => n + 1 \in S
    PROVE  \A n \in Nat : n \in S
<1> DEFINE T == {n \in Nat : n \notin S}
<1>1. SUFFICES ASSUME T # {} PROVE FALSE
    OBVIOUS
<1>2. IsWellFoundedOn(OpToRel(<, Nat), Nat)
    BY NatLessThanWellFounded
<1>3. PICK x \in T : \A y \in T : ~(<<y, x>> \in OpToRel(<, Nat))
    BY <1>1, <1>2, WFMin
<1>4. \A y \in T : ~(y < x)
    BY <1>3 DEF OpToRel
<1>5. x # 0 /\ x - 1 \in Nat
    OBVIOUS
<1>6. x - 1 \notin T
    BY <1>4, <1>5
<1>7. QED
    BY <1>5, <1>6

\* A loop whose rounds lead from each set to the next runs to its end.
LEMMA LoopExists ==
    ASSUME NEW T, NEW n \in Nat, NEW base \in T[0], NEW round, Leads(T, n, round)
    PROVE  \E h : IsLoop(h, T, n, base, round)
<1> DEFINE S == {m \in Nat : m <= n => \E h : IsLoop(h, T, m, base, round)}
<1>1. 0 \in S
  <2> DEFINE h == [k \in 0..0 |-> base]
  <2>1. IsLoop(h, T, 0, base, round)
    BY DEF IsLoop
  <2>2. QED
    BY <2>1
<1>2. ASSUME NEW m \in Nat, m \in S
      PROVE  m + 1 \in S
  <2>1. SUFFICES ASSUME m + 1 <= n
                 PROVE  \E h : IsLoop(h, T, m + 1, base, round)
    OBVIOUS
  <2>2. PICK g : IsLoop(g, T, m, base, round)
    BY <1>2, <2>1
  <2> DEFINE next == round[<<g[m], m + 1>>]
             h == [k \in 0..m + 1 |-> IF k = m + 1 THEN next ELSE g[k]]
  <2>3. g[m] \in T[m]
    BY <2>2 DEF IsLoop
  <2>4. m + 1 \in 1..n /\ (m + 1) - 1 = m
    BY <2>1
  <2>5. next \in T[m + 1]
    BY <2>3, <2>4 DEF Leads
  <2> HIDE DEF next
  <2>6. /\ h[m + 1] = next
        /\ \A k \in 0..m : h[k] = g[k] /\ k \in 0..m + 1
    OBVIOUS
  <2>7. DOMAIN h = 0..m + 1 /\ h = [k \in 0..m + 1 |-> h[k]]
    OBVIOUS
  <2> HIDE DEF h
  <2>8. \A k \in 0..m + 1 : k = m + 1 \/ k \in 0..m
    OBVIOUS
  <2>9. h[0] = base /\ \A k \in 0..m + 1 : h[k] \in T[k]
    BY <2>2, <2>5, <2>6, <2>8 DEF IsLoop
  <2>10. ASSUME NEW k \in 1..m + 1
         PROVE  h[k] = round[<<h[k - 1], k>>]
    <3>1. CASE k = m + 1
      <4>1. k - 1 = m /\ m \in 0..m
        BY <3>1
      <4>2. QED
        BY <2>6, <3>1, <4>1 DEF next
    <3>2. CASE k # m + 1
      <4>1. k \in 1..m /\ k \in 0..m /\ k - 1 \in 0..m
        BY <3>2
      <4>2. QED
        BY <2>2, <2>6, <4>1 DEF IsLoop
    <3>3. QED
        BY <3>1, <3>2
  <2>11. QED
    BY <2>7, <2>9, <2>10 DEF IsLoop
<1> HIDE DEF S
<1>3. n \in S
    BY <1>1, <1>2, Induction
<1>4. QED
    BY <1>3 DEF S

\* What holds before the first round and is kept by every round holds throughout.
LEMMA LoopInvariant ==
    ASSUME NEW T, NEW n \in Nat, NEW h,
           h[0] \in T[0],
           \A k \in 1..n : h[k - 1] \in T[k - 1] => h[k] \in T[k]
    PROVE  \A k \in 0..n : h[k] \in T[k]
<1> DEFINE S == {m \in Nat : m <= n => h[m] \in T[m]}
<1>1. 0 \in S
    OBVIOUS
<1>2. ASSUME NEW m \in Nat, m \in S
      PROVE  m + 1 \in S
  <2>1. CASE m + 1 <= n
    <3>1. m + 1 \in 1..n /\ (m + 1) - 1 = m /\ m <= n
        BY <2>1
    <3>2. QED
        BY <1>2, <3>1
  <2>2. CASE ~(m + 1 <= n)
    BY <2>2
  <2>3. QED
    BY <2>1, <2>2
<1> HIDE DEF S
<1>3. \A m \in Nat : m \in S
    BY <1>1, <1>2, Induction
<1>4. QED
    BY <1>3 DEF S

-----------------------------------------------------------------------------
(* The quota *)

Amounts ==
    /\ nextRead \in Int /\ nextWrite \in Int
    /\ reserved \in Nat /\ used \in Int
    /\ dbLength \in Int /\ dbFile \in Int /\ dbReserved \in Int /\ dbTarget \in Int

QuotaInv == Amounts /\ QuotaIsExact

LEMMA LeastIsBound ==
    ASSUME NEW a \in Nat, NEW b \in Nat
    PROVE  Least(a, b) \in Nat /\ Least(a, b) <= a
BY SMT DEF Least

\* The amounts that an action leaves alone keep what they satisfy.
LEMMA UntouchedAmounts ==
    ASSUME QuotaInv,
           UNCHANGED <<nextRead, nextWrite, reserved, used, dbLength, dbFile, dbReserved, dbTarget>>
    PROVE  QuotaInv'
BY SMT DEF QuotaInv, Amounts, QuotaIsExact, DbBusy

\* TaskSpill::take gives back exactly what its reservation shrinks by.
LEMMA TakeFirstAccounts ==
    ASSUME QuotaInv, NEW STATE f, NEW t \in Tasks, TakeFirst(f, t),
           nextRead + SizeOf(t) <= nextWrite, UNCHANGED database
    PROVE  QuotaInv'
<1> DEFINE read == nextRead + SizeOf(t)
           remaining == nextWrite - read
<1>1. read \in Int /\ remaining \in Nat
    BY SMT DEF QuotaInv, Amounts
<1>2. Least(reserved, remaining) \in Nat /\ Least(reserved, remaining) <= reserved
    BY <1>1, LeastIsBound DEF QuotaInv, Amounts
<1>3. CASE spilled = 1
    <2>1. reserved' = 0 /\ used' = used - reserved /\ nextRead' = 0 /\ nextWrite' = 0
        BY <1>3 DEF TakeFirst
    <2>2. QED
        BY <2>1, SMT DEF QuotaInv, Amounts, QuotaIsExact, DbBusy, database
<1>4. CASE spilled # 1 /\ ~CompactionDue(read, remaining)
    <2>1. nextRead' = read /\ UNCHANGED <<nextWrite, reserved, used>>
        BY <1>4 DEF TakeFirst
    <2>2. QED
        BY <1>1, <2>1, SMT DEF QuotaInv, Amounts, QuotaIsExact, DbBusy, database
<1>5. CASE spilled # 1 /\ CompactionDue(read, remaining)
    <2> DEFINE kept == Least(reserved, remaining)
    <2>1. /\ reserved' = kept /\ used' = used - (reserved - kept)
          /\ nextRead' = 0 /\ nextWrite' = remaining
        BY <1>5 DEF TakeFirst
    <2>2. kept \in Nat /\ kept <= reserved
        BY <1>2
    <2> HIDE DEF kept, read, remaining
    <2>3. QED
        BY <1>1, <2>1, <2>2, SMT DEF QuotaInv, Amounts, QuotaIsExact, DbBusy, database
<1>6. QED
    BY <1>3, <1>4, <1>5

\* A record that is reserved keeps the quota exact and within the limit.
LEMMA ReservationAccounts ==
    ASSUME QuotaInv, NEW t \in Tasks,
           MayReserve(Reservation(nextWrite + SizeOf(t))),
           reserved' = reserved + Reservation(nextWrite + SizeOf(t)),
           used' = used + Reservation(nextWrite + SizeOf(t)),
           nextWrite' \in Int, nextRead' = nextRead, UNCHANGED database
    PROVE  QuotaInv'
<1> DEFINE more == Reservation(nextWrite + SizeOf(t))
<1>1. more \in Nat
    BY SMT DEF Reservation, QuotaInv, Amounts
<1>2. used + more <= Limit
    BY DEF MayReserve
<1> HIDE DEF more
<1>3. reserved' = reserved + more /\ used' = used + more
    BY DEF more
<1>4. QED
    BY <1>1, <1>2, <1>3, SMT DEF QuotaInv, Amounts, QuotaIsExact, DbBusy, database

LEMMA QuotaInitially == Init => QuotaInv
BY SMT DEF Init, QuotaInv, Amounts, QuotaIsExact, DbBusy

LEMMA QuotaStep == QuotaInv /\ [Next]_vars => QuotaInv'
<1> SUFFICES ASSUME QuotaInv, [Next]_vars PROVE QuotaInv'
    OBVIOUS
<1>1. ASSUME NEW t \in Tasks, Schedule(t) PROVE QuotaInv'
    <2>1. CASE UNCHANGED <<spill, used, database>>
        BY <2>1, UntouchedAmounts DEF spill, database
    <2>2. CASE /\ MayReserve(Reservation(nextWrite + SizeOf(t)))
               /\ Push(t) /\ UNCHANGED database
        <3>1. nextWrite + SizeOf(t) \in Int
            BY SMT DEF QuotaInv, Amounts
        <3>2. nextWrite' = nextWrite + SizeOf(t) /\ nextRead' = nextRead
              /\ reserved' = reserved + Reservation(nextWrite + SizeOf(t))
              /\ used' = used + Reservation(nextWrite + SizeOf(t))
            BY <2>2 DEF Push
        <3>3. QED
            BY <2>2, <3>1, <3>2, ReservationAccounts
    <2>3. QED
        BY <1>1, <2>1, <2>2 DEF Schedule, Fails
<1>2. ASSUME NEW t \in Tasks, CannotWrite(t) PROVE QuotaInv'
    BY <1>2, ReservationAccounts DEF CannotWrite, Fails, QuotaInv, Amounts
<1>3. ASSUME NEW t \in Tasks, TakePath(t) PROVE QuotaInv'
    <2>1. CASE UNCHANGED <<spill, used, database>>
        BY <2>1, UntouchedAmounts DEF spill, database
    <2>2. ASSUME NEW offset \in nextRead..nextWrite, offset + SizeOf(t) <= nextWrite,
                 TakeFirst(IF offset = nextRead THEN file ELSE RotateToFront(file, offset, t), t),
                 UNCHANGED database
          PROVE  QuotaInv'
        <3>1. nextRead + SizeOf(t) <= nextWrite
            BY <2>2, SMT DEF QuotaInv, Amounts
        <3>2. QED
            BY <2>2, <3>1, TakeFirstAccounts
    <2>3. QED
        BY <1>3, <2>1, <2>2 DEF TakePath, Fails
<1>4. ASSUME NEW t \in Tasks, Complete(t) PROVE QuotaInv'
    BY <1>4, UntouchedAmounts DEF Complete, spill, database
<1>5. CASE Drop
    <2>1. reserved' = 0 /\ used' = used - reserved /\ nextRead' = 0 /\ nextWrite' = 0
          /\ UNCHANGED database
        BY <1>5 DEF Drop
    <2>2. QED
        BY <2>1, SMT DEF QuotaInv, Amounts, QuotaIsExact, DbBusy, database
<1>6. ASSUME NEW length \in DbLengths, DbReserves(length) PROVE QuotaInv'
    BY <1>6, SMT DEF DbReserves, MayReserve, QuotaInv, Amounts, QuotaIsExact, DbBusy, spill
<1>7. ASSUME NEW length \in DbLengths, DbShrinks(length) PROVE QuotaInv'
    BY <1>7, SMT DEF DbShrinks, QuotaInv, Amounts, QuotaIsExact, DbBusy, spill
<1>8. CASE DbGrows
    BY <1>8, SMT DEF DbGrows, QuotaInv, Amounts, QuotaIsExact, DbBusy, spill
<1>9. CASE DbCannotGrow
    BY <1>9, SMT DEF DbCannotGrow, QuotaInv, Amounts, QuotaIsExact, DbBusy, spill
<1>10. CASE Stop
    BY <1>10, UntouchedAmounts DEF Stop, spill, database
<1>11. CASE UNCHANGED vars
    BY <1>11, UntouchedAmounts DEF vars, spill, database
<1>12. QED
    BY <1>1, <1>2, <1>3, <1>4, <1>5, <1>6, <1>7, <1>8, <1>9, <1>10, <1>11 DEF Next

\* The quota is exactly what its users have reserved and stays within its
\* limit, whatever is queued, taken, refused, dropped or grown in between
\* (TemporaryStorage::reserve and release, and every caller modelled here).
THEOREM QuotaExact == Spec => []QuotaIsExact
<1>1. QuotaInv => QuotaIsExact
    BY DEF QuotaInv
<1>2. QED
    BY QuotaInitially, QuotaStep, <1>1, PTL DEF Spec


-----------------------------------------------------------------------------
(* The copies of shift_range_right *)

Cells == Tasks \X Nat

LEMMA FileLength ==
    ASSUME NEW n \in Nat, NEW f \in [1..n -> Cells]
    PROVE  f \in Seq(Cells) /\ Len(f) = n
<1>1. f \in Seq(Cells)
    BY SeqDef
<1>2. DOMAIN f = 1..Len(f) /\ Len(f) \in Nat
    BY <1>1, LenProperties
<1>3. QED
    BY <1>1, <1>2

\* What shift_range_right has done once all but `left` of the cells are moved.
Shifted(f, n, start, end, by, left) ==
    [i \in 1..n |-> IF i > start + by + left /\ i <= end + by THEN f[i - by] ELSE f[i]]

LEMMA ShiftRound ==
    ASSUME NEW n \in Nat, NEW f \in [1..n -> Cells],
           NEW start \in Nat, NEW end \in Nat, NEW by \in Nat,
           start <= end, end + by <= n, 
           NEW left \in Nat, left # 0, left <= end - start
    PROVE  \E rest \in 0..left - 1 :
             ShiftLast(Moving(Shifted(f, n, start, end, by, left), left), start, end, by)
               = Moving(Shifted(f, n, start, end, by, rest), rest)
<1> DEFINE length == Least(left, Chunk)
           source == start + left - length
           g == Shifted(f, n, start, end, by, left)
           h == Shifted(f, n, start, end, by, left - length)
<1>1. length \in Nat \ {0} /\ length <= left
    BY DEF Least
<1> HIDE DEF length
<1>2. /\ source \in Nat /\ source + by \in Nat
      /\ source + length <= n /\ (source + by) + length <= n
    BY <1>1
<1>3. g \in [1..n -> Cells]
    BY DEF Shifted
<1>4. Copy(g, source, source + by, length) =
        [i \in 1..n |-> IF i > source + by /\ i <= (source + by) + length
                        THEN g[i - (source + by) + source] ELSE g[i]]
  <2> DEFINE to == source + by
  <2> HIDE DEF g, source, to
  <2>1. Len(g) = n
    BY <1>3, FileLength
  <2>2. to \in Nat /\ to + length <= n /\ source \in Nat
    BY <1>2 DEF to
  <2>3. QED
    BY <1>1, <2>1, <2>2 DEF Copy, to
<1>5. ASSUME NEW i \in 1..n
      PROVE  (IF i > source + by /\ i <= (source + by) + length
              THEN g[i - (source + by) + source] ELSE g[i]) = h[i]
  <2>1. CASE i > source + by /\ i <= (source + by) + length
    <3>1. i - (source + by) + source = i - by /\ i - by \in 1..n /\ i - by <= start + left
        BY <1>1, <2>1
    <3>2. g[i - by] = f[i - by]
        BY <3>1 DEF Shifted
    <3>3. h[i] = f[i - by]
        BY <1>1, <2>1 DEF Shifted
    <3>4. QED
        BY <2>1, <3>1, <3>2, <3>3
  <2>2. CASE ~(i > source + by /\ i <= (source + by) + length)
    BY <1>1, <2>2 DEF Shifted
  <2>3. QED
    BY <2>1, <2>2
<1>6. Copy(g, source, source + by, length) = h
    BY <1>4, <1>5 DEF Shifted
<1>7. ShiftLast(Moving(g, left), start, end, by) = Moving(h, left - length)
    BY <1>6 DEF ShiftLast, Moving, length
<1>8. left - length \in 0..left - 1
    BY <1>1
<1>9. QED
    BY <1>7, <1>8

\* shift_range_right moves the range as a whole, however the chunks overlap.
LEMMA ShiftIsExact ==
    ASSUME NEW n \in Nat, NEW f \in [1..n -> Cells],
           NEW start \in Nat, NEW end \in Nat, NEW by \in Nat,
           start <= end, end + by <= n
    PROVE  ShiftRangeRight(f, start, end, by) = Shifted(f, n, start, end, by, 0)
<1> DEFINE total == end - start
           Round(move) == IF move.left = 0 THEN move ELSE ShiftLast(move, start, end, by)
           Body(g) == [k \in 0..total |->
                         IF k = 0 THEN Moving(f, total)
                         ELSE IF g[k - 1].left = 0 THEN g[k - 1]
                         ELSE ShiftLast(g[k - 1], start, end, by)]
           Loop[k \in 0..total] ==
                         IF k = 0 THEN Moving(f, total)
                         ELSE IF Loop[k - 1].left = 0 THEN Loop[k - 1]
                         ELSE ShiftLast(Loop[k - 1], start, end, by)
           At(left) == Moving(Shifted(f, n, start, end, by, left), left)
           T == [k \in 0..total |-> {At(left) : left \in {m \in 0..total : m <= total - k}}]
           round == [p \in {At(left) : left \in 0..total} \X (1..total) |-> Round(p[1])]
<1>1. total \in Nat
    OBVIOUS
<1>2. ShiftRangeRight(f, start, end, by) = Loop[total].file
    BY DEF ShiftRangeRight
<1>3. Loop = CHOOSE g : g = Body(g)
    OBVIOUS
<1>4. Moving(f, total) = At(total)
  <2>1. f = Shifted(f, n, start, end, by, total)
    BY DEF Shifted
  <2>2. QED
    BY <2>1
<1>5. ASSUME NEW left \in 0..total, left # 0
      PROVE  \E rest \in 0..total : rest < left /\ ShiftLast(At(left), start, end, by) = At(rest)
  <2>1. left \in Nat /\ left <= end - start
    OBVIOUS
  <2>2. PICK rest \in 0..left - 1 : ShiftLast(At(left), start, end, by) = At(rest)
    BY <1>5, <2>1, ShiftRound
  <2>3. QED
    BY <1>1, <2>2
<1>6. \A left \in 0..total : At(left).left = left /\ At(left).file = Shifted(f, n, start, end, by, left)
    BY DEF Moving
<1> HIDE DEF Loop, At, total
<1>0. \A k \in 1..total : /\ k - 1 \in 0..total /\ k \in 0..total
                           /\ T[k - 1] = {At(left) : left \in {m \in 0..total : m <= total - (k - 1)}}
                           /\ T[k] = {At(left) : left \in {m \in 0..total : m <= total - k}}
    BY <1>1
<1>7. \A k \in 1..total : \A t \in T[k - 1] : Round(t) \in T[k]
  <2>1. SUFFICES ASSUME NEW k \in 1..total, NEW left \in 0..total, left <= total - (k - 1)
                 PROVE  \E rest \in 0..total : rest <= total - k /\ Round(At(left)) = At(rest)
    BY <1>0
  <2>2. CASE left = 0
    BY <1>1, <1>6, <2>2
  <2>3. CASE left # 0
    <3>1. PICK rest \in 0..total : rest < left /\ ShiftLast(At(left), start, end, by) = At(rest)
        BY <1>5, <2>3
    <3>2. Round(At(left)) = At(rest) /\ rest <= total - k
        BY <1>1, <1>6, <2>1, <2>3, <3>1
    <3>3. QED
        BY <3>2
  <2>4. QED
    BY <2>2, <2>3
<1> HIDE DEF Round
<1>8. \A k \in 1..total : \A t \in T[k - 1] : round[<<t, k>>] = Round(t)
  <2>1. SUFFICES ASSUME NEW k \in 1..total, NEW left \in 0..total
                 PROVE  round[<<At(left), k>>] = Round(At(left))
    BY <1>0
  <2>2. QED
    OBVIOUS
<1>9. Moving(f, total) \in T[0]
    BY <1>1, <1>4
<1> HIDE DEF T, round
<1>10. Leads(T, total, round)
    BY <1>7, <1>8 DEF Leads
<1>11. PICK g : IsLoop(g, T, total, Moving(f, total), round)
    BY <1>1, <1>9, <1>10, LoopExists
<1>12. g = Body(g)
  <2>1. \A k \in 1..total : g[k] = Round(g[k - 1])
    <3>1. \A k \in 1..total : k - 1 \in 0..total
        BY <1>1
    <3>2. QED
        BY <1>8, <1>11, <3>1 DEF IsLoop
  <2>2. ASSUME NEW k \in 0..total
        PROVE  g[k] = Body(g)[k]
    <3>1. CASE k = 0
        BY <1>11, <3>1 DEF IsLoop
    <3>2. CASE k # 0
      <4>1. k \in 1..total
        BY <1>1, <3>2
      <4>2. g[k] = Round(g[k - 1])
        BY <2>1, <4>1
      <4>3. QED
        BY <3>2, <4>2 DEF Round
    <3>3. QED
        BY <3>1, <3>2
  <2>3. QED
    BY <1>11, <2>2 DEF IsLoop
<1> HIDE DEF Body
<1>13. Loop = Body(Loop)
    BY <1>3, <1>12
<1>14. /\ Loop[0] = Moving(f, total)
       /\ \A k \in 1..total : Loop[k] = Round(Loop[k - 1])
  <2>1. \A k \in 0..total : Body(Loop)[k] = IF k = 0 THEN Moving(f, total)
                         ELSE IF Loop[k - 1].left = 0 THEN Loop[k - 1]
                         ELSE ShiftLast(Loop[k - 1], start, end, by)
    BY DEF Body
  <2>2. \A k \in 0..total : Loop[k] = IF k = 0 THEN Moving(f, total)
                         ELSE IF Loop[k - 1].left = 0 THEN Loop[k - 1]
                         ELSE ShiftLast(Loop[k - 1], start, end, by)
    BY <1>13, <2>1
  <2>3. QED
    BY <1>1, <2>2 DEF Round
<1>15. \A k \in 0..total : Loop[k] \in T[k]
  <2>1. Loop[0] \in T[0]
    BY <1>9, <1>14
  <2>2. \A k \in 1..total : Loop[k - 1] \in T[k - 1] => Loop[k] \in T[k]
    BY <1>7, <1>14
  <2>3. QED
    BY <1>1, <2>1, <2>2, LoopInvariant
<1>16. Loop[total] = At(0)
    BY <1>1, <1>15 DEF T
<1>17. QED
    BY <1>1, <1>2, <1>6, <1>16

-----------------------------------------------------------------------------
(* The copies of compact_after_read *)

\* What compact_after_read has done once all but `left` of the cells are moved.
Compacted(f, n, source, length, left) ==
    [i \in 1..n |-> IF i <= length - left THEN f[i + source] ELSE f[i]]

LEMMA CompactRound ==
    ASSUME NEW n \in Nat, NEW f \in [1..n -> Cells],
           NEW source \in Nat, NEW length \in Nat, source + length <= n,
           NEW left \in Nat, left # 0, left <= length
    PROVE  \E rest \in 0..left - 1 :
             CompactNext(Moving(Compacted(f, n, source, length, left), left), source, length)
               = Moving(Compacted(f, n, source, length, rest), rest)
<1> DEFINE chunk == Least(left, Chunk)
           to == length - left
           from == source + to
           g == Compacted(f, n, source, length, left)
           h == Compacted(f, n, source, length, left - chunk)
<1>1. chunk \in Nat \ {0} /\ chunk <= left
    BY DEF Least
<1> HIDE DEF chunk
<1>2. to \in Nat /\ from \in Nat /\ to + chunk <= n /\ from + chunk <= n
    BY <1>1
<1>3. g \in [1..n -> Cells]
    BY DEF Compacted
<1>4. Copy(g, from, to, chunk) =
        [i \in 1..n |-> IF i > to /\ i <= to + chunk THEN g[i - to + from] ELSE g[i]]
  <2> HIDE DEF g, from, to
  <2>1. Len(g) = n
    BY <1>3, FileLength
  <2>2. QED
    BY <1>1, <1>2, <2>1 DEF Copy
<1>5. ASSUME NEW i \in 1..n
      PROVE  (IF i > to /\ i <= to + chunk THEN g[i - to + from] ELSE g[i]) = h[i]
  <2>1. CASE i > to /\ i <= to + chunk
    <3>1. i - to + from = i + source /\ i + source \in 1..n /\ i + source > to
        BY <1>1, <2>1
    <3>2. g[i + source] = f[i + source]
        BY <3>1 DEF Compacted
    <3>3. h[i] = f[i + source]
        BY <1>1, <2>1 DEF Compacted
    <3>4. QED
        BY <2>1, <3>1, <3>2, <3>3
  <2>2. CASE ~(i > to /\ i <= to + chunk)
    BY <1>1, <2>2 DEF Compacted
  <2>3. QED
    BY <2>1, <2>2
<1>6. Copy(g, from, to, chunk) = h
    BY <1>4, <1>5 DEF Compacted
<1>7. CompactNext(Moving(g, left), source, length) = Moving(h, left - chunk)
    BY <1>6 DEF CompactNext, Moving, chunk
<1>8. left - chunk \in 0..left - 1
    BY <1>1
<1>9. QED
    BY <1>7, <1>8

\* The copying half of compact_after_read moves the live cells as a whole.
LEMMA CompactIsExact ==
    ASSUME NEW n \in Nat, NEW f \in [1..n -> Cells],
           NEW source \in Nat, NEW length \in Nat, source + length <= n
    PROVE  MoveToFront(f, source, length) = Compacted(f, n, source, length, 0)
<1> DEFINE total == length
           Round(move) == IF move.left = 0 THEN move ELSE CompactNext(move, source, length)
           Body(g) == [k \in 0..total |->
                         IF k = 0 THEN Moving(f, total)
                         ELSE IF g[k - 1].left = 0 THEN g[k - 1]
                         ELSE CompactNext(g[k - 1], source, length)]
           Loop[k \in 0..total] ==
                         IF k = 0 THEN Moving(f, total)
                         ELSE IF Loop[k - 1].left = 0 THEN Loop[k - 1]
                         ELSE CompactNext(Loop[k - 1], source, length)
           At(left) == Moving(Compacted(f, n, source, length, left), left)
           T == [k \in 0..total |-> {At(left) : left \in {m \in 0..total : m <= total - k}}]
           round == [p \in {At(left) : left \in 0..total} \X (1..total) |-> Round(p[1])]
<1>1. total \in Nat
    OBVIOUS
<1>2. MoveToFront(f, source, length) = Loop[total].file
    BY DEF MoveToFront
<1>3. Loop = CHOOSE g : g = Body(g)
    OBVIOUS
<1>4. Moving(f, total) = At(total)
  <2>1. f = Compacted(f, n, source, length, total)
    BY DEF Compacted
  <2>2. QED
    BY <2>1
<1>5. ASSUME NEW left \in 0..total, left # 0
      PROVE  \E rest \in 0..total : rest < left /\ CompactNext(At(left), source, length) = At(rest)
  <2>1. left \in Nat /\ left <= length
    OBVIOUS
  <2>2. PICK rest \in 0..left - 1 : CompactNext(At(left), source, length) = At(rest)
    BY <1>5, <2>1, CompactRound
  <2>3. QED
    BY <1>1, <2>2
<1>6. \A left \in 0..total : At(left).left = left /\ At(left).file = Compacted(f, n, source, length, left)
    BY DEF Moving
<1> HIDE DEF Loop, At, total
<1>0. \A k \in 1..total : /\ k - 1 \in 0..total /\ k \in 0..total
                           /\ T[k - 1] = {At(left) : left \in {m \in 0..total : m <= total - (k - 1)}}
                           /\ T[k] = {At(left) : left \in {m \in 0..total : m <= total - k}}
    BY <1>1
<1>7. \A k \in 1..total : \A t \in T[k - 1] : Round(t) \in T[k]
  <2>1. SUFFICES ASSUME NEW k \in 1..total, NEW left \in 0..total, left <= total - (k - 1)
                 PROVE  \E rest \in 0..total : rest <= total - k /\ Round(At(left)) = At(rest)
    BY <1>0
  <2>2. CASE left = 0
    BY <1>1, <1>6, <2>2
  <2>3. CASE left # 0
    <3>1. PICK rest \in 0..total : rest < left /\ CompactNext(At(left), source, length) = At(rest)
        BY <1>5, <2>3
    <3>2. Round(At(left)) = At(rest) /\ rest <= total - k
        BY <1>1, <1>6, <2>1, <2>3, <3>1
    <3>3. QED
        BY <3>2
  <2>4. QED
    BY <2>2, <2>3
<1> HIDE DEF Round
<1>8. \A k \in 1..total : \A t \in T[k - 1] : round[<<t, k>>] = Round(t)
  <2>1. SUFFICES ASSUME NEW k \in 1..total, NEW left \in 0..total
                 PROVE  round[<<At(left), k>>] = Round(At(left))
    BY <1>0
  <2>2. QED
    OBVIOUS
<1>9. Moving(f, total) \in T[0]
    BY <1>1, <1>4
<1> HIDE DEF T, round
<1>10. Leads(T, total, round)
    BY <1>7, <1>8 DEF Leads
<1>11. PICK g : IsLoop(g, T, total, Moving(f, total), round)
    BY <1>1, <1>9, <1>10, LoopExists
<1>12. g = Body(g)
  <2>1. \A k \in 1..total : g[k] = Round(g[k - 1])
    <3>1. \A k \in 1..total : k - 1 \in 0..total
        BY <1>1
    <3>2. QED
        BY <1>8, <1>11, <3>1 DEF IsLoop
  <2>2. ASSUME NEW k \in 0..total
        PROVE  g[k] = Body(g)[k]
    <3>1. CASE k = 0
        BY <1>11, <3>1 DEF IsLoop
    <3>2. CASE k # 0
      <4>1. k \in 1..total
        BY <1>1, <3>2
      <4>2. g[k] = Round(g[k - 1])
        BY <2>1, <4>1
      <4>3. QED
        BY <3>2, <4>2 DEF Round
    <3>3. QED
        BY <3>1, <3>2
  <2>3. QED
    BY <1>11, <2>2 DEF IsLoop
<1> HIDE DEF Body
<1>13. Loop = Body(Loop)
    BY <1>3, <1>12
<1>14. /\ Loop[0] = Moving(f, total)
       /\ \A k \in 1..total : Loop[k] = Round(Loop[k - 1])
  <2>1. \A k \in 0..total : Body(Loop)[k] = IF k = 0 THEN Moving(f, total)
                         ELSE IF Loop[k - 1].left = 0 THEN Loop[k - 1]
                         ELSE CompactNext(Loop[k - 1], source, length)
    BY DEF Body
  <2>2. \A k \in 0..total : Loop[k] = IF k = 0 THEN Moving(f, total)
                         ELSE IF Loop[k - 1].left = 0 THEN Loop[k - 1]
                         ELSE CompactNext(Loop[k - 1], source, length)
    BY <1>13, <2>1
  <2>3. QED
    BY <1>1, <2>2 DEF Round
<1>15. \A k \in 0..total : Loop[k] \in T[k]
  <2>1. Loop[0] \in T[0]
    BY <1>9, <1>14
  <2>2. \A k \in 1..total : Loop[k - 1] \in T[k - 1] => Loop[k] \in T[k]
    BY <1>7, <1>14
  <2>3. QED
    BY <1>1, <2>1, <2>2, LoopInvariant
<1>16. Loop[total] = At(0)
    BY <1>1, <1>15 DEF T
<1>17. QED
    BY <1>1, <1>2, <1>6, <1>16

(***************************************************************************)
(* The cells between two offsets of a file.                                *)
(***************************************************************************)
\* Every cell belongs to a record that is there as a whole.
Whole(f, lo, hi) ==
    \A i \in lo + 1..hi : \E t \in Tasks, j \in Nat :
        /\ f[i] = <<t, j>> /\ j >= 1 /\ j <= SizeOf(t)
        /\ i - j >= lo /\ i - j + SizeOf(t) <= hi
        /\ \A k \in 1..SizeOf(t) : f[i - j + k] = <<t, k>>

\* No record is there twice.
Single(f, lo, hi) == \A i, k \in lo + 1..hi : f[i] = f[k] => i = k

\* The directories whose records these are.
Stored(f, lo, hi) == {t \in Tasks : \E i \in lo + 1..hi : f[i] = <<t, 1>>}

\* A directory's record starts at an offset.
Starts(f, b, t) == \A k \in 1..SizeOf(t) : f[b + k] = <<t, k>>

LEMMA StoredStarts ==
    ASSUME NEW f, NEW lo \in Nat, NEW hi \in Nat, Whole(f, lo, hi), NEW t \in Tasks
    PROVE  /\ t \in Stored(f, lo, hi) <=>
                \E b \in lo..hi : b + SizeOf(t) <= hi /\ Starts(f, b, t)
           /\ \A i \in lo + 1..hi, j \in Nat : f[i] = <<t, j>> => t \in Stored(f, lo, hi)
<1>1. \A b \in lo..hi : b + SizeOf(t) <= hi /\ Starts(f, b, t) => t \in Stored(f, lo, hi)
    BY DEF Stored, Starts
<1>2. ASSUME NEW i \in lo + 1..hi, NEW j \in Nat, f[i] = <<t, j>>
      PROVE  \E b \in lo..hi : b + SizeOf(t) <= hi /\ Starts(f, b, t)
  <2>1. PICK u \in Tasks, m \in Nat :
        /\ f[i] = <<u, m>> /\ m >= 1 /\ m <= SizeOf(u)
        /\ i - m >= lo /\ i - m + SizeOf(u) <= hi
        /\ \A k \in 1..SizeOf(u) : f[i - m + k] = <<u, k>>
    BY DEF Whole
  <2>2. u = t /\ m = j
    BY <1>2, <2>1
  <2>3. i - j \in lo..hi
    BY <2>1, <2>2
  <2>4. QED
    BY <2>1, <2>2, <2>3 DEF Starts
<1>3. t \in Stored(f, lo, hi) => \E b \in lo..hi : b + SizeOf(t) <= hi /\ Starts(f, b, t)
    BY <1>2 DEF Stored
<1>4. QED
    BY <1>1, <1>2, <1>3

\* Without its first record the rest is as whole as before.
LEMMA WithoutFirst ==
    ASSUME NEW f, NEW lo \in Nat, NEW hi \in Nat, Whole(f, lo, hi), Single(f, lo, hi),
           NEW t \in Tasks, Starts(f, lo, t), lo + SizeOf(t) <= hi
    PROVE  /\ Whole(f, lo + SizeOf(t), hi) /\ Single(f, lo + SizeOf(t), hi)
           /\ Stored(f, lo + SizeOf(t), hi) = Stored(f, lo, hi) \ {t}
<1> DEFINE s == SizeOf(t)
<1>0. s \in Nat \ {0}
    OBVIOUS
<1>1. ASSUME NEW i \in lo + s + 1..hi
      PROVE  \E u \in Tasks, j \in Nat :
                /\ f[i] = <<u, j>> /\ j >= 1 /\ j <= SizeOf(u)
                /\ i - j >= lo + s /\ i - j + SizeOf(u) <= hi
                /\ \A k \in 1..SizeOf(u) : f[i - j + k] = <<u, k>>
  <2>0. i \in lo + 1..hi
    BY <1>0
  <2>1. PICK u \in Tasks, j \in Nat :
        /\ f[i] = <<u, j>> /\ j >= 1 /\ j <= SizeOf(u)
        /\ i - j >= lo /\ i - j + SizeOf(u) <= hi
        /\ \A k \in 1..SizeOf(u) : f[i - j + k] = <<u, k>>
    BY <2>0 DEF Whole
  <2>2. ASSUME i - j < lo + s
        PROVE  FALSE
    <3> DEFINE k == i - j - lo + 1
    <3>1. k \in 1..s /\ 1 \in 1..SizeOf(u) /\ lo + k = i - j + 1
        BY <1>0, <2>1, <2>2
    <3>2. f[lo + k] = <<t, k>>
        BY <3>1 DEF Starts
    <3>3. f[i - j + 1] = <<u, 1>>
        BY <2>1, <3>1
    <3>4. u = t /\ k = 1
        BY <3>1, <3>2, <3>3
    <3>5. QED
        BY <1>0, <2>1, <3>4
  <2>3. QED
    BY <1>0, <2>1, <2>2
<1>2. Whole(f, lo + s, hi)
    BY <1>1 DEF Whole
<1>3. \A i \in lo + s + 1..hi : i \in lo + 1..hi
    BY <1>0
<1>4. Single(f, lo + s, hi)
    BY <1>3 DEF Single
<1>5. t \notin Stored(f, lo + s, hi)
    BY <1>0, <1>3 DEF Stored, Single, Starts
<1>6. ASSUME NEW u \in Stored(f, lo, hi), u # t
      PROVE  u \in Stored(f, lo + s, hi)
  <2>1. PICK i \in lo + 1..hi : f[i] = <<u, 1>>
    BY DEF Stored
  <2>2. ~(i <= lo + s)
    <3>1. SUFFICES ASSUME i - lo \in 1..s PROVE FALSE
        BY <1>0
    <3>2. f[lo + (i - lo)] = <<t, i - lo>> /\ lo + (i - lo) = i
        BY <3>1 DEF Starts
    <3>3. QED
        BY <1>6, <2>1, <3>2
  <2>3. QED
    BY <1>0, <2>1, <2>2 DEF Stored
<1>7. Stored(f, lo + s, hi) \subseteq Stored(f, lo, hi)
    BY <1>3 DEF Stored
<1>8. QED
    BY <1>2, <1>4, <1>5, <1>6, <1>7

\* The cells may be moved towards the front.
LEMMA MovedToFront ==
    ASSUME NEW f, NEW lo \in Nat, NEW hi \in Nat, lo <= hi, Whole(f, lo, hi), Single(f, lo, hi),
           NEW g, \A i \in 1..hi - lo : g[i] = f[i + lo]
    PROVE  /\ Whole(g, 0, hi - lo) /\ Single(g, 0, hi - lo)
           /\ Stored(g, 0, hi - lo) = Stored(f, lo, hi)
<1>1. \A i \in 0 + 1..hi - lo : i + lo \in lo + 1..hi /\ g[i] = f[i + lo]
    OBVIOUS
<1>2. ASSUME NEW i \in lo + 1..hi
      PROVE  i - lo \in 0 + 1..hi - lo /\ g[i - lo] = f[i]
  <2>1. i - lo \in 0 + 1..hi - lo /\ (i - lo) + lo = i
    OBVIOUS
  <2>2. \A k \in 0 + 1..hi - lo : g[k] = f[k + lo]
    BY <1>1
  <2> DEFINE k == i - lo
  <2> HIDE DEF k
  <2>4. g[k] = f[k + lo]
    BY <2>1, <2>2 DEF k
  <2>3. QED
    BY <2>1, <2>4 DEF k
<1>3. ASSUME NEW i \in 0 + 1..hi - lo
      PROVE  \E u \in Tasks, j \in Nat :
                /\ g[i] = <<u, j>> /\ j >= 1 /\ j <= SizeOf(u)
                /\ i - j >= 0 /\ i - j + SizeOf(u) <= hi - lo
                /\ \A k \in 1..SizeOf(u) : g[i - j + k] = <<u, k>>
  <2> DEFINE m == i + lo
  <2>0. m \in lo + 1..hi /\ g[i] = f[m] /\ m = i + lo
    BY <1>1
  <2> HIDE DEF m
  <2>1. PICK u \in Tasks, j \in Nat :
        /\ f[m] = <<u, j>> /\ j >= 1 /\ j <= SizeOf(u)
        /\ m - j >= lo /\ m - j + SizeOf(u) <= hi
        /\ \A k \in 1..SizeOf(u) : f[m - j + k] = <<u, k>>
    BY <2>0 DEF Whole
  <2>2. ASSUME NEW k \in 1..SizeOf(u)
        PROVE  g[i - j + k] = <<u, k>>
    <3> DEFINE c == m - j + k
    <3>1. c \in lo + 1..hi /\ c - lo = i - j + k /\ f[c] = <<u, k>>
        BY <2>0, <2>1
    <3> HIDE DEF c
    <3>2. g[c - lo] = f[c]
        BY <1>2, <3>1
    <3>3. QED
        BY <3>1, <3>2
  <2>3. i - j >= 0 /\ i - j + SizeOf(u) <= hi - lo
    BY <2>0, <2>1
  <2>4. QED
    BY <2>0, <2>1, <2>2, <2>3
<1>4. Whole(g, 0, hi - lo)
    BY <1>3 DEF Whole
<1>5. Single(g, 0, hi - lo)
    BY <1>1 DEF Single
<1>6. Stored(g, 0, hi - lo) = Stored(f, lo, hi)
    BY <1>1, <1>2 DEF Stored
<1>7. QED
    BY <1>4, <1>5, <1>6

\* Where a cell comes from when the record at an offset is rotated to the front.
Origin(i, lo, at, s) == IF i <= lo + s THEN i - lo + at ELSE IF i <= at + s THEN i - s ELSE i

\* A record rotated to the front leaves the others whole.
LEMMA RotatedToFront ==
    ASSUME NEW f, NEW lo \in Nat, NEW hi \in Nat, Whole(f, lo, hi), Single(f, lo, hi),
           NEW t \in Tasks, NEW at \in lo..hi, Starts(f, at, t), at + SizeOf(t) <= hi,
           NEW g, \A i \in lo + 1..hi : g[i] = f[Origin(i, lo, at, SizeOf(t))]
    PROVE  /\ Whole(g, lo, hi) /\ Single(g, lo, hi) /\ Starts(g, lo, t)
           /\ Stored(g, lo, hi) = Stored(f, lo, hi)
<1> DEFINE s == SizeOf(t)
           O(i) == Origin(i, lo, at, s)
<1>0. s \in Nat \ {0}
    OBVIOUS
<1>1. \A i \in lo + 1..hi : O(i) \in lo + 1..hi
    BY <1>0 DEF Origin
<1>2. \A i, k \in lo + 1..hi : O(i) = O(k) => i = k
    BY <1>0 DEF Origin
<1>3. \A m \in lo + 1..hi : \E i \in lo + 1..hi : O(i) = m
  <2>1. SUFFICES ASSUME NEW m \in lo + 1..hi
                 PROVE  \E i \in lo + 1..hi : O(i) = m
    OBVIOUS
  <2>2. CASE m <= at
    <3>1. m + s \in lo + 1..hi /\ O(m + s) = m
        BY <1>0, <2>2 DEF Origin
    <3>2. QED
        BY <3>1
  <2>3. CASE m > at /\ m <= at + s
    <3>1. m - at + lo \in lo + 1..hi /\ O(m - at + lo) = m
        BY <1>0, <2>3 DEF Origin
    <3>2. QED
        BY <3>1
  <2>4. CASE m > at + s
    <3>1. O(m) = m
        BY <1>0, <2>4 DEF Origin
    <3>2. QED
        BY <3>1
  <2>5. QED
    BY <1>0, <2>2, <2>3, <2>4
<1>4. Single(g, lo, hi)
  <2> HIDE DEF O
  <2>1. QED
    BY <1>1, <1>2 DEF Single, O
<1>5. Stored(g, lo, hi) = Stored(f, lo, hi)
  <2>1. \A u \in Tasks : (\E i \in lo + 1..hi : g[i] = <<u, 1>>)
                          <=> (\E i \in lo + 1..hi : f[i] = <<u, 1>>)
    BY <1>1, <1>3
  <2>2. QED
    BY <2>1 DEF Stored
<1>6. Starts(g, lo, t)
  <2>1. \A k \in 1..s : lo + k \in lo + 1..hi /\ O(lo + k) = at + k
    BY <1>0 DEF Origin
  <2>2. QED
    BY <2>1 DEF Starts
<1>7. ASSUME NEW i \in lo + 1..hi
      PROVE  \E u \in Tasks, j \in Nat :
                /\ g[i] = <<u, j>> /\ j >= 1 /\ j <= SizeOf(u)
                /\ i - j >= lo /\ i - j + SizeOf(u) <= hi
                /\ \A k \in 1..SizeOf(u) : g[i - j + k] = <<u, k>>
  <2>1. CASE i <= lo + s
    <3> DEFINE j == i - lo
    <3>1. j \in Nat /\ j >= 1 /\ j <= s /\ i - j = lo /\ lo + s <= hi /\ lo + j = i
        BY <1>0, <2>1
    <3>2. g[i] = <<t, j>> /\ \A k \in 1..s : g[lo + k] = <<t, k>>
        BY <1>6, <3>1 DEF Starts
    <3>3. QED
        BY <1>0, <3>1, <3>2
  <2>2. CASE ~(i <= lo + s)
    <3> DEFINE m == O(i)
    <3>1. m \in lo + 1..hi /\ g[i] = f[m]
        BY <1>1
    <3>2. PICK u \in Tasks, j \in Nat :
            /\ f[m] = <<u, j>> /\ j >= 1 /\ j <= SizeOf(u)
            /\ m - j >= lo /\ m - j + SizeOf(u) <= hi
            /\ \A k \in 1..SizeOf(u) : f[m - j + k] = <<u, k>>
        BY <3>1 DEF Whole
    <3>3. SizeOf(u) \in Nat \ {0}
        OBVIOUS
    <3>4. CASE i <= at + s
      <4>1. m = i - s /\ m <= at
        BY <1>0, <2>2, <3>4 DEF Origin
      <4>2. m - j + SizeOf(u) <= at
        <5>1. SUFFICES ASSUME m - j + SizeOf(u) > at PROVE FALSE
            BY <3>1, <3>2, <3>3
        <5>2. at + 1 - (m - j) \in 1..SizeOf(u) /\ (m - j) + (at + 1 - (m - j)) = at + 1 /\ 1 \in 1..s
            BY <1>0, <3>1, <3>2, <3>3, <4>1, <5>1
        <5>3. f[at + 1] = <<u, at + 1 - (m - j)>> /\ f[at + 1] = <<t, 1>>
            BY <3>2, <5>2 DEF Starts
        <5>4. at + 1 - (m - j) = 1
            BY <5>3
        <5>5. QED
            BY <3>1, <3>2, <3>3, <4>1, <5>4
      <4>3. \A k \in 1..SizeOf(u) : /\ i - j + k \in lo + 1..hi
                                    /\ O(i - j + k) = m - j + k
        BY <1>0, <3>1, <3>2, <3>3, <4>1, <4>2 DEF Origin
      <4>4. \A k \in 1..SizeOf(u) : g[i - j + k] = <<u, k>>
        BY <3>2, <4>3
      <4>5. i - j >= lo /\ i - j + SizeOf(u) <= hi
        BY <1>0, <3>1, <3>2, <3>3, <4>1, <4>2
      <4>6. QED
        BY <3>1, <3>2, <4>4, <4>5
    <3>5. CASE ~(i <= at + s)
      <4>1. m = i /\ m > at + s
        BY <1>0, <2>2, <3>5 DEF Origin
      <4>2. m - j >= at + s
        <5>1. SUFFICES ASSUME m - j < at + s PROVE FALSE
            BY <1>0, <3>1, <3>2
        <5>2. at + s - (m - j) \in 1..SizeOf(u) /\ (m - j) + (at + s - (m - j)) = at + s /\ s \in 1..s
            BY <1>0, <3>1, <3>2, <3>3, <4>1, <5>1
        <5>3. f[at + s] = <<u, at + s - (m - j)>> /\ f[at + s] = <<t, s>>
            BY <3>2, <5>2 DEF Starts
        <5>4. at + s - (m - j) = s /\ u = t
            BY <5>3
        <5>5. QED
            BY <1>0, <3>1, <3>2, <3>3, <4>1, <5>4
      <4>3. \A k \in 1..SizeOf(u) : /\ i - j + k \in lo + 1..hi
                                    /\ O(i - j + k) = m - j + k
        BY <1>0, <3>1, <3>2, <3>3, <4>1, <4>2 DEF Origin
      <4>4. \A k \in 1..SizeOf(u) : g[i - j + k] = <<u, k>>
        BY <3>2, <4>3
      <4>5. QED
        BY <1>0, <3>1, <3>2, <4>1, <4>2, <4>4
    <3>6. QED
        BY <3>4, <3>5
  <2>3. QED
    BY <2>1, <2>2
<1>8. Whole(g, lo, hi)
    BY <1>7 DEF Whole
<1>9. QED
    BY <1>4, <1>5, <1>6, <1>8

\* A record is added behind the others.
LEMMA AddedBehind ==
    ASSUME NEW f, NEW lo \in Nat, NEW hi \in Nat, lo <= hi, Whole(f, lo, hi), Single(f, lo, hi),
           NEW t \in Tasks, t \notin Stored(f, lo, hi),
           NEW g, \A i \in lo + 1..hi : g[i] = f[i], Starts(g, hi, t)
    PROVE  /\ Whole(g, lo, hi + SizeOf(t)) /\ Single(g, lo, hi + SizeOf(t))
           /\ Stored(g, lo, hi + SizeOf(t)) = Stored(f, lo, hi) \union {t}
<1> DEFINE s == SizeOf(t)
<1>0. s \in Nat \ {0}
    OBVIOUS
<1>1. ASSUME NEW i \in lo + 1..hi + s
      PROVE  \/ i \in lo + 1..hi /\ g[i] = f[i]
             \/ i > hi /\ i - hi \in 1..s /\ g[i] = <<t, i - hi>>
  <2>1. CASE i > hi
    <3>1. i - hi \in 1..s /\ hi + (i - hi) = i
        BY <1>0, <2>1
    <3>2. QED
        BY <2>1, <3>1 DEF Starts
  <2>2. CASE i <= hi
    BY <2>2
  <2>3. QED
    BY <1>0, <2>1, <2>2
<1>2. \A i \in lo + 1..hi, j \in Nat : f[i] # <<t, j>>
    BY StoredStarts
<1>3. Single(g, lo, hi + s)
  <2>1. SUFFICES ASSUME NEW i \in lo + 1..hi + s, NEW k \in lo + 1..hi + s, g[i] = g[k]
                 PROVE  i = k
    BY DEF Single
  <2>2. CASE i <= hi /\ k <= hi
    BY <1>0, <1>1, <2>1, <2>2 DEF Single
  <2>3. CASE i > hi /\ k > hi
    BY <1>0, <1>1, <2>1, <2>3
  <2>4. CASE i > hi /\ k <= hi
    BY <1>0, <1>1, <1>2, <2>1, <2>4
  <2>5. CASE i <= hi /\ k > hi
    BY <1>0, <1>1, <1>2, <2>1, <2>5
  <2>6. QED
    BY <1>0, <2>2, <2>3, <2>4, <2>5
<1>4. ASSUME NEW i \in lo + 1..hi + s
      PROVE  \E u \in Tasks, j \in Nat :
                /\ g[i] = <<u, j>> /\ j >= 1 /\ j <= SizeOf(u)
                /\ i - j >= lo /\ i - j + SizeOf(u) <= hi + s
                /\ \A k \in 1..SizeOf(u) : g[i - j + k] = <<u, k>>
  <2>1. CASE i > hi
    <3> DEFINE j == i - hi
    <3>1. j \in Nat /\ j >= 1 /\ j <= s /\ i - j = hi
        BY <1>0, <2>1
    <3>2. g[i] = <<t, j>> /\ \A k \in 1..s : g[hi + k] = <<t, k>>
        BY <1>1, <2>1 DEF Starts
    <3>3. QED
        BY <1>0, <3>1, <3>2
  <2>2. CASE i <= hi
    <3>1. i \in lo + 1..hi
        BY <1>0, <2>2
    <3>2. PICK u \in Tasks, j \in Nat :
            /\ f[i] = <<u, j>> /\ j >= 1 /\ j <= SizeOf(u)
            /\ i - j >= lo /\ i - j + SizeOf(u) <= hi
            /\ \A k \in 1..SizeOf(u) : f[i - j + k] = <<u, k>>
        BY <3>1 DEF Whole
    <3>3. \A k \in 1..SizeOf(u) : i - j + k \in lo + 1..hi
        BY <3>1, <3>2
    <3>4. QED
        BY <1>0, <3>1, <3>2, <3>3
  <2>3. QED
    BY <1>0, <2>1, <2>2
<1>5. Whole(g, lo, hi + s)
    BY <1>4 DEF Whole
<1>6. t \in Stored(g, lo, hi + s)
    BY <1>0 DEF Stored, Starts
<1>7. \A u \in Tasks : u # t =>
        ((\E i \in lo + 1..hi + s : g[i] = <<u, 1>>) <=> (\E i \in lo + 1..hi : f[i] = <<u, 1>>))
  <2>1. SUFFICES ASSUME NEW u \in Tasks, u # t
                 PROVE  (\E i \in lo + 1..hi + s : g[i] = <<u, 1>>)
                           <=> (\E i \in lo + 1..hi : f[i] = <<u, 1>>)
    OBVIOUS
  <2>2. \A i \in lo + 1..hi : i \in lo + 1..hi + s
    BY <1>0
  <2>3. QED
    BY <1>1, <2>1, <2>2
<1>8. Stored(g, lo, hi + s) = Stored(f, lo, hi) \union {t}
    BY <1>6, <1>7 DEF Stored
<1>9. QED
    BY <1>3, <1>5, <1>8

-----------------------------------------------------------------------------
(* The search of take_path *)

LEMMA PieceOfFile ==
    ASSUME NEW n \in Nat, NEW f \in [1..n -> Cells], NEW b \in Nat, NEW s \in Nat, b + s <= n
    PROVE  SubSeq(f, b + 1, b + s) = [i \in 1..s |-> f[b + i]]
<1> DEFINE g == SubSeq(f, b + 1, b + s)
<1>1. f \in Seq(Cells) /\ Len(f) = n
    BY FileLength
<1>2. /\ g \in Seq(Cells) /\ Len(g) = s
      /\ \A i \in 1..s : g[i] = f[b + i]
  <2>1. b + 1 \in 1..Len(f) + 1 /\ b + s \in b + 1 - 1..Len(f)
    BY <1>1
  <2>2. /\ SubSeq(f, b + 1, b + s) \in Seq(Cells)
        /\ Len(SubSeq(f, b + 1, b + s)) = (b + s) - (b + 1) + 1
        /\ \A i \in 1..((b + s) - (b + 1) + 1) : SubSeq(f, b + 1, b + s)[i] = f[(b + 1) + i - 1]
    BY <1>1, <2>1, SubSeqProperties
  <2>3. (b + s) - (b + 1) + 1 = s /\ \A i \in 1..s : (b + 1) + i - 1 = b + i
    OBVIOUS
  <2>4. QED
    BY <2>2, <2>3
<1>3. DOMAIN g = 1..s /\ g = [i \in DOMAIN g |-> g[i]]
    BY <1>2, LenProperties
<1> HIDE DEF g
<1>4. g = [i \in 1..s |-> f[b + i]]
    BY <1>2, <1>3
<1>5. QED
    BY <1>4 DEF g

FileType ==
    /\ nextRead \in Nat /\ nextWrite \in Nat /\ nextRead <= nextWrite
    /\ file \in [1..nextWrite -> Cells]

\* The records of the file, and where they start.
FileRecords == {p \in (nextRead..nextWrite - 1) \X Tasks : file[p[1] + 1] = <<p[2], 1>>}

LEMMA RecordIsRead ==
    ASSUME FileType, Whole(file, nextRead, nextWrite),
           NEW b \in nextRead..nextWrite - 1, NEW t \in Tasks, file[b + 1] = <<t, 1>>
    PROVE  /\ RecordsAt(file, b) = {t} /\ RecordLength(b) = SizeOf(t)
           /\ b + SizeOf(t) <= nextWrite /\ Starts(file, b, t)
<1>0. /\ nextRead \in Nat /\ nextWrite \in Nat /\ file \in [1..nextWrite -> Cells]
      /\ b \in Nat /\ b + 1 \in nextRead + 1..nextWrite
    BY DEF FileType
<1>1. b + SizeOf(t) <= nextWrite /\ Starts(file, b, t)
  <2> DEFINE m == b + 1
  <2>0. m \in nextRead + 1..nextWrite /\ file[m] = <<t, 1>> /\ m - 1 = b
    BY <1>0
  <2> HIDE DEF m
  <2>1. PICK u \in Tasks, j \in Nat :
        /\ file[m] = <<u, j>> /\ j >= 1 /\ j <= SizeOf(u)
        /\ m - j >= nextRead /\ m - j + SizeOf(u) <= nextWrite
        /\ \A k \in 1..SizeOf(u) : file[m - j + k] = <<u, k>>
    BY <2>0 DEF Whole
  <2>2. u = t /\ j = 1
    BY <2>0, <2>1
  <2>3. QED
    BY <2>0, <2>1, <2>2 DEF Starts
<1>2. ASSUME NEW u \in Tasks, b + SizeOf(u) <= nextWrite
      PROVE  SubSeq(file, b + 1, b + SizeOf(u)) = [i \in 1..SizeOf(u) |-> file[b + i]]
  <2> DEFINE s == SizeOf(u)
  <2>1. s \in Nat /\ b + s <= nextWrite
    BY <1>2
  <2> HIDE DEF s
  <2>2. SubSeq(file, b + 1, b + s) = [i \in 1..s |-> file[b + i]]
    BY <1>0, <2>1, PieceOfFile
  <2>3. QED
    BY <2>2 DEF s
<1>3. t \in RecordsAt(file, b)
    BY <1>1, <1>2 DEF RecordsAt, Record, Starts
<1>4. ASSUME NEW u \in RecordsAt(file, b)
      PROVE  u = t
  <2>1. /\ u \in Tasks /\ b + SizeOf(u) <= nextWrite
        /\ [i \in 1..SizeOf(u) |-> file[b + i]] = [i \in 1..SizeOf(u) |-> <<u, i>>]
    BY <1>2 DEF RecordsAt, Record
  <2>2. 1 \in 1..SizeOf(u)
    BY <2>1
  <2>3. file[b + 1] = <<u, 1>>
    BY <2>1, <2>2
  <2>4. QED
    BY <2>3
<1>5. RecordsAt(file, b) = {t}
    BY <1>3, <1>4
<1>6. RecordLength(b) = SizeOf(t)
    BY <1>5 DEF RecordLength
<1>7. QED
    BY <1>1, <1>5, <1>6

\* The search is at the end of the file or at a record, has left every record
\* before it behind, and every record below n was found.
Searching(n) ==
    {r \in [at : nextRead..nextWrite, found : SUBSET FileRecords] :
        /\ r.at >= n
        /\ r.at < nextWrite => \E t \in Tasks : file[r.at + 1] = <<t, 1>>
        /\ \A p \in FileRecords : p[1] < r.at => p[1] < n
        /\ r.found = {p \in FileRecords : p[1] < n}}

SearchRound(seen, n) ==
    IF seen.at # n - 1 THEN seen
    ELSE [at |-> n - 1 + RecordLength(n - 1),
          found |-> seen.found \union ({n - 1} \X RecordsAt(file, n - 1))]

\* One round of the search of take_path.
LEMMA SearchGoesOn ==
    ASSUME FileType, Whole(file, nextRead, nextWrite),
           NEW n \in 1..nextWrite, NEW seen \in Searching(n - 1)
    PROVE  SearchRound(seen, n) \in Searching(n)
<1> DEFINE b == n - 1
<1>0. /\ nextRead \in Nat /\ nextWrite \in Nat /\ n \in Nat /\ b \in Nat /\ b < nextWrite /\ n = b + 1
      /\ seen.at \in nextRead..nextWrite /\ seen.at >= b /\ seen.found \subseteq FileRecords
      /\ seen = [at |-> seen.at, found |-> seen.found]
      /\ seen.at < nextWrite => \E t \in Tasks : file[seen.at + 1] = <<t, 1>>
      /\ \A p \in FileRecords : p[1] < seen.at => p[1] < b
      /\ seen.found = {p \in FileRecords : p[1] < b}
    BY DEF FileType, Searching
<1> HIDE DEF b
<1>1. \A p \in FileRecords : /\ p[1] \in Nat /\ p[1] < nextWrite /\ p[1] >= nextRead /\ p[2] \in Tasks
                             /\ file[p[1] + 1] = <<p[2], 1>> /\ p = <<p[1], p[2]>>
    BY <1>0 DEF FileRecords
<1>2. CASE seen.at # b
  <2>1. SearchRound(seen, n) = seen
    BY <1>2 DEF SearchRound, b
  <2>2. seen.at >= n
    BY <1>0, <1>2
  <2>3. \A p \in FileRecords : (p[1] < n <=> p[1] < b) /\ (p[1] < seen.at => p[1] < n)
    BY <1>0, <1>1, <1>2
  <2>4. QED
    BY <1>0, <2>1, <2>2, <2>3 DEF Searching
<1>3. CASE seen.at = b
  <2>1. b \in nextRead..nextWrite - 1
    BY <1>0, <1>3
  <2>2. PICK t \in Tasks : file[b + 1] = <<t, 1>>
    BY <1>0, <1>3
  <2>3. /\ RecordsAt(file, b) = {t} /\ RecordLength(b) = SizeOf(t)
        /\ b + SizeOf(t) <= nextWrite /\ Starts(file, b, t)
    BY <2>1, <2>2, RecordIsRead
  <2> DEFINE s == SizeOf(t)
             e == b + s
             next == [at |-> e, found |-> seen.found \union {<<b, t>>}]
  <2>4. s \in Nat \ {0}
    OBVIOUS
  <2>5. SearchRound(seen, n) = next
    <3>1. {b} \X RecordsAt(file, b) = {<<b, t>>}
        BY <2>3
    <3>2. SearchRound(seen, n) =
            [at |-> b + RecordLength(b), found |-> seen.found \union ({b} \X RecordsAt(file, b))]
        BY <1>3 DEF SearchRound, b
    <3>3. QED
        BY <2>3, <3>1, <3>2
  <2>6. e \in nextRead..nextWrite /\ e >= n /\ e \in Nat
    BY <1>0, <2>1, <2>3, <2>4
  <2>7. <<b, t>> \in FileRecords
    BY <2>1, <2>2 DEF FileRecords
  <2>8. ASSUME e < nextWrite
        PROVE  \E u \in Tasks : file[e + 1] = <<u, 1>>
    <3> DEFINE m == e + 1
    <3>1. m \in nextRead + 1..nextWrite /\ m = e + 1
        BY <1>0, <2>6, <2>8
    <3> HIDE DEF m
    <3>2. PICK u \in Tasks, j \in Nat :
            /\ file[m] = <<u, j>> /\ j >= 1 /\ j <= SizeOf(u)
            /\ m - j >= nextRead /\ m - j + SizeOf(u) <= nextWrite
            /\ \A k \in 1..SizeOf(u) : file[m - j + k] = <<u, k>>
        BY <3>1 DEF Whole
    <3>3. ASSUME j # 1 PROVE FALSE
      <4>1. j - 1 \in 1..SizeOf(u) /\ m - j + (j - 1) = e /\ s \in 1..s /\ b + s = e
        BY <1>0, <2>4, <3>1, <3>2, <3>3
      <4>2. file[e] = <<u, j - 1>> /\ file[e] = <<t, s>>
        BY <2>3, <3>2, <4>1 DEF Starts
      <4>3. u = t /\ j - 1 = s
        BY <4>2
      <4>4. QED
        BY <2>4, <3>2, <4>3
    <3>4. QED
        BY <3>1, <3>2, <3>3
  <2>9. ASSUME NEW p \in FileRecords, p[1] >= n
        PROVE  ~(p[1] < e)
    <3>1. SUFFICES ASSUME p[1] < e PROVE FALSE
        OBVIOUS
    <3> DEFINE k == p[1] + 1 - b
    <3>2. k \in 1..s /\ k # 1 /\ b + k = p[1] + 1
        BY <1>0, <1>1, <2>4, <2>9, <3>1
    <3>3. file[p[1] + 1] = <<t, k>>
        BY <2>3, <3>2 DEF Starts
    <3>4. QED
        BY <1>1, <3>2, <3>3
  <2>10. ASSUME NEW p \in FileRecords
         PROVE  p[1] < n <=> p[1] < b \/ p = <<b, t>>
    <3>1. p[1] = b => p[2] = t
        BY <1>1, <2>2
    <3>2. QED
        BY <1>0, <1>1, <3>1
  <2>11. next.found = {p \in FileRecords : p[1] < n}
    BY <1>0, <2>7, <2>10
  <2>12. \A p \in FileRecords : p[1] < e => p[1] < n
    BY <1>0, <1>1, <2>9
  <2>13. next \in [at : nextRead..nextWrite, found : SUBSET FileRecords]
    BY <1>0, <2>6, <2>7
  <2>14. QED
    BY <2>5, <2>6, <2>8, <2>11, <2>12, <2>13 DEF Searching
<1>4. QED
    BY <1>2, <1>3

LEMMA SearchBegins ==
    ASSUME FileType, Whole(file, nextRead, nextWrite)
    PROVE  [at |-> nextRead, found |-> {}] \in Searching(0)
<1>1. nextRead \in Nat /\ nextWrite \in Nat /\ nextRead \in nextRead..nextWrite
    BY DEF FileType
<1>2. \A p \in FileRecords : p[1] \in Nat /\ p[1] >= nextRead
    BY <1>1 DEF FileRecords
<1>3. ASSUME nextRead < nextWrite
      PROVE  \E t \in Tasks : file[nextRead + 1] = <<t, 1>>
  <2> DEFINE m == nextRead + 1
  <2>1. m \in nextRead + 1..nextWrite /\ m = nextRead + 1
    BY <1>1, <1>3
  <2> HIDE DEF m
  <2>2. PICK u \in Tasks, j \in Nat :
            /\ file[m] = <<u, j>> /\ j >= 1 /\ j <= SizeOf(u)
            /\ m - j >= nextRead
    BY <2>1 DEF Whole
  <2>3. j = 1
    BY <1>1, <2>1, <2>2
  <2>4. QED
    BY <2>1, <2>2, <2>3
<1>4. QED
    BY <1>1, <1>2, <1>3 DEF Searching

\* The search of take_path visits every record of the file, and nothing else.
LEMMA SearchFindsAll ==
    ASSUME FileType, Whole(file, nextRead, nextWrite)
    PROVE  Journal = FileRecords
<1> DEFINE Body(g) == [n \in 0..nextWrite |->
                         IF n = 0 THEN [at |-> nextRead, found |-> {}]
                         ELSE LET seen == g[n - 1]
                              IN  IF seen.at # n - 1 THEN seen
                                  ELSE [at |-> n - 1 + RecordLength(n - 1),
                                        found |-> seen.found \union ({n - 1} \X RecordsAt(file, n - 1))]]
           Search[n \in 0..nextWrite] ==
                         IF n = 0 THEN [at |-> nextRead, found |-> {}]
                         ELSE LET seen == Search[n - 1]
                              IN  IF seen.at # n - 1 THEN seen
                                  ELSE [at |-> n - 1 + RecordLength(n - 1),
                                        found |-> seen.found \union ({n - 1} \X RecordsAt(file, n - 1))]
           base == [at |-> nextRead, found |-> {}]
           T == [n \in 0..nextWrite |-> Searching(n)]
           round == [p \in (UNION {Searching(n) : n \in 0..nextWrite}) \X (1..nextWrite) |->
                        SearchRound(p[1], p[2])]
<1>1. nextWrite \in Nat
    BY DEF FileType
<1>2. Journal = Search[nextWrite].found
    BY DEF Journal
<1>3. Search = CHOOSE g : g = Body(g)
    OBVIOUS
<1>4. \A n \in 1..nextWrite : /\ n - 1 \in 0..nextWrite /\ n \in 0..nextWrite
                              /\ T[n - 1] = Searching(n - 1) /\ T[n] = Searching(n)
    BY <1>1
<1>5. base \in T[0]
    BY <1>1, SearchBegins
<1> HIDE DEF Search, base
<1>6. \A n \in 1..nextWrite : \A r \in T[n - 1] : SearchRound(r, n) \in T[n]
    BY <1>4, SearchGoesOn
<1>7. \A n \in 1..nextWrite : \A r \in T[n - 1] : round[<<r, n>>] = SearchRound(r, n)
    BY <1>4
<1> HIDE DEF T, round
<1>8. Leads(T, nextWrite, round)
    BY <1>6, <1>7 DEF Leads
<1>9. PICK g : IsLoop(g, T, nextWrite, base, round)
    BY <1>1, <1>5, <1>8, LoopExists
<1>10. \A h : \A n \in 0..nextWrite :
            Body(h)[n] = IF n = 0 THEN base ELSE SearchRound(h[n - 1], n)
    BY DEF SearchRound, base
<1>11. \A h : DOMAIN Body(h) = 0..nextWrite /\ Body(h) = [n \in 0..nextWrite |-> Body(h)[n]]
    OBVIOUS
<1> HIDE DEF Body
<1>12. g = Body(g)
  <2>1. \A n \in 1..nextWrite : g[n] = SearchRound(g[n - 1], n)
    BY <1>4, <1>7, <1>9 DEF IsLoop
  <2>2. \A n \in 0..nextWrite : n = 0 \/ n \in 1..nextWrite
    BY <1>1
  <2>3. \A n \in 0..nextWrite : g[n] = Body(g)[n]
    BY <1>9, <1>10, <2>1, <2>2 DEF IsLoop
  <2>4. QED
    BY <1>9, <1>11, <2>3 DEF IsLoop
<1>13. Search = Body(Search)
    BY <1>3, <1>12
<1>14. Search[0] = base /\ \A n \in 1..nextWrite : Search[n] = SearchRound(Search[n - 1], n)
    BY <1>1, <1>4, <1>10, <1>13
<1>15. \A n \in 0..nextWrite : Search[n] \in T[n]
  <2>1. Search[0] \in T[0]
    BY <1>5, <1>14
  <2>2. \A n \in 1..nextWrite : Search[n - 1] \in T[n - 1] => Search[n] \in T[n]
    BY <1>6, <1>14
  <2>3. QED
    BY <1>1, <2>1, <2>2, LoopInvariant
<1>16. Search[nextWrite] \in Searching(nextWrite)
    BY <1>1, <1>15 DEF T
<1>17. \A p \in FileRecords : p[1] < nextWrite
    BY <1>1 DEF FileRecords, FileType
<1>18. QED
    BY <1>2, <1>16, <1>17 DEF Searching

-----------------------------------------------------------------------------
(* The resident queue *)

Distinct(s) == \A i, j \in 1..Len(s) : s[i] = s[j] => i = j

LEMMA RemoveResident ==
    ASSUME NEW s \in Seq(Tasks), Distinct(s), NEW t \in Tasks, t \in Range(s)
    PROVE  LET r == RemoveFirst(s, t) IN
           /\ r \in Seq(Tasks) /\ Distinct(r) /\ Len(r) = Len(s) - 1
           /\ Range(r) = Range(s) \ {t}
<1>1. PICK i \in 1..Len(s) : s[i] = t
    BY DEF Range
<1>2. RemoveFirst(s, t) = RemoveAt(s, i)
  <2>1. {k \in 1..Len(s) : s[k] = t} = {i}
    BY <1>1 DEF Distinct
  <2>2. Min({i}) = i
    BY DEF Min
  <2>3. QED
    BY <1>1, <2>1, <2>2 DEF RemoveFirst, SelectInSeq
<1> DEFINE n == Len(s)
           a == SubSeq(s, 1, i - 1)
           b == SubSeq(s, i + 1, n)
           r == RemoveAt(s, i)
<1>0. /\ n \in Nat /\ i \in Nat /\ i >= 1 /\ i <= n /\ DOMAIN s = 1..n
      /\ \A k \in 1..n : s[k] \in Tasks
    OBVIOUS
<1>3. /\ a \in Seq(Tasks) /\ Len(a) = i - 1
      /\ \A k \in 1..i - 1 : a[k] = s[k]
    OBVIOUS
<1>r. r = a \o b
    BY DEF RemoveAt
<1>d. \A j, k \in 1..n : s[j] = s[k] => j = k
    BY DEF Distinct
<1> HIDE DEF n, a, r
<1>4. /\ b \in Seq(Tasks) /\ Len(b) = n - i
      /\ \A k \in 1..n - i : b[k] = s[i + k]
  <2>1. /\ b \in Seq(Tasks)
        /\ Len(b) = IF i + 1 <= n THEN n - (i + 1) + 1 ELSE 0
        /\ \A k \in 1..n - (i + 1) + 1 : b[k] = s[i + 1 + k - 1]
    <3>1. \A k \in i + 1..n : s[k] \in Tasks
        BY <1>0
    <3>2. i + 1 \in Int /\ n \in Int
        BY <1>0
    <3>3. QED
        BY <3>1, <3>2, SubSeqProperties
  <2> HIDE DEF b
  <2>2. n - (i + 1) + 1 = n - i /\ \A k \in 1..n - i : i + 1 + k - 1 = i + k
    BY <1>0
  <2>3. Len(b) = n - i
    BY <1>0, <2>1
  <2>4. \A k \in 1..n - i : b[k] = s[i + k]
    BY <2>1, <2>2
  <2>5. QED
    BY <2>1, <2>3, <2>4
<1> HIDE DEF b
<1>5. /\ r \in Seq(Tasks) /\ Len(r) = n - 1
      /\ \A k \in 1..n - 1 : r[k] = IF k < i THEN s[k] ELSE s[k + 1]
  <2>2. /\ r \in Seq(Tasks) /\ Len(r) = Len(a) + Len(b)
        /\ \A k \in 1..Len(a) + Len(b) : r[k] = IF k <= Len(a) THEN a[k] ELSE b[k - Len(a)]
    BY <1>3, <1>4, <1>r, ConcatProperties
  <2>3. Len(a) + Len(b) = n - 1
    BY <1>0, <1>3, <1>4
  <2>4. ASSUME NEW k \in 1..n - 1
        PROVE  r[k] = IF k < i THEN s[k] ELSE s[k + 1]
    <3>0. r[k] = IF k <= i - 1 THEN a[k] ELSE b[k - (i - 1)]
        BY <1>3, <2>2, <2>3
    <3>1. CASE k < i
        BY <1>0, <1>3, <3>0, <3>1
    <3>2. CASE ~(k < i)
      <4>1. k - (i - 1) \in 1..n - i /\ i + (k - (i - 1)) = k + 1 /\ ~(k <= i - 1)
        BY <1>0, <3>2
      <4>3. QED
        BY <1>4, <3>0, <3>2, <4>1
    <3>3. QED
        BY <3>1, <3>2
  <2>5. QED
    BY <2>2, <2>3, <2>4
<1>6. \A k \in 1..n - 1 : \E m \in 1..n : r[k] = s[m] /\ m # i /\ m = IF k < i THEN k ELSE k + 1
    BY <1>0, <1>5
<1>7. DOMAIN r = 1..n - 1 /\ Len(r) = n - 1
    BY <1>5
<1>8. Distinct(r)
  <2>1. SUFFICES ASSUME NEW j \in 1..n - 1, NEW k \in 1..n - 1, r[j] = r[k]
                 PROVE  j = k
    BY <1>7 DEF Distinct
  <2>2. PICK p \in 1..n : r[j] = s[p] /\ p = IF j < i THEN j ELSE j + 1
    BY <1>6
  <2>3. PICK q \in 1..n : r[k] = s[q] /\ q = IF k < i THEN k ELSE k + 1
    BY <1>6
  <2>4. p = q
    BY <1>d, <2>1, <2>2, <2>3
  <2>5. QED
    BY <1>0, <2>2, <2>3, <2>4
<1>9. Range(r) = Range(s) \ {t}
  <2>1. ASSUME NEW k \in 1..n - 1
        PROVE  r[k] \in Range(s) \ {t}
    <3>1. PICK m \in 1..n : r[k] = s[m] /\ m # i
        BY <1>6
    <3>2. s[m] # t
        BY <1>0, <1>1, <1>d, <3>1
    <3>3. s[m] \in Range(s)
        BY <1>0 DEF Range
    <3>4. QED
        BY <3>1, <3>2, <3>3
  <2>2. ASSUME NEW u \in Range(s), u # t PROVE u \in Range(r)
    <3>1. PICK k \in 1..n : s[k] = u
        BY <1>0 DEF Range
    <3>2. CASE k < i
      <4>1. k \in 1..n - 1 /\ r[k] = u
        BY <1>0, <1>5, <3>1, <3>2
      <4>2. QED
        BY <1>7, <4>1 DEF Range
    <3>3. CASE k > i
      <4>1. k - 1 \in 1..n - 1 /\ ~(k - 1 < i) /\ (k - 1) + 1 = k
        BY <1>0, <3>3
      <4>2. r[k - 1] = u
        BY <1>5, <3>1, <4>1
      <4>3. QED
        BY <1>7, <4>1, <4>2 DEF Range
    <3>4. QED
        BY <1>0, <1>1, <2>2, <3>1, <3>2, <3>3
  <2>3. QED
    BY <1>7, <2>1, <2>2 DEF Range
<1>10. QED
    BY <1>2, <1>5, <1>8, <1>9 DEF r, n

(***************************************************************************)
(* The inductive invariant.                                                *)
(***************************************************************************)
StoredNow == Stored(file, nextRead, nextWrite)

RecordsInv == Whole(file, nextRead, nextWrite) /\ Single(file, nextRead, nextWrite)

QueueInv ==
    /\ tasks \in Seq(Tasks) /\ Distinct(tasks) /\ Len(tasks) <= Capacity
    /\ Range(tasks) \union StoredNow = ready
    /\ Range(tasks) \intersect StoredNow = {}

CountInv ==
    /\ ready \subseteq Tasks /\ leased \subseteq Tasks /\ ready \intersect leased = {}
    /\ IsFiniteSet(ready) /\ IsFiniteSet(leased)
    /\ spilled = Cardinality(StoredNow)
    /\ pending = Cardinality(ready) + Cardinality(leased)

SpareInv ==
    IF spilled = 0 THEN nextWrite = 0 /\ reserved = 0
    ELSE nextRead < nextWrite - nextRead /\ nextRead < Chunk

FileInv == FileType /\ reserved \in Nat /\ nextWrite <= reserved
OpenInv == RecordsInv /\ QueueInv /\ CountInv /\ SpareInv
JournalInv == FileInv /\ (journal = "open" => OpenInv)

LEMMA JournalInitially == Init => JournalInv
<1> SUFFICES ASSUME Init PROVE JournalInv
    OBVIOUS
<1>1. FileInv
    BY DEF Init, FileInv, FileType
<1>2. RecordsInv /\ StoredNow = {}
    BY DEF Init, RecordsInv, StoredNow, Whole, Single, Stored
<1>3. tasks = <<Root>> /\ ready = {Root} /\ leased = {} /\ pending = 1 /\ spilled = 0
    BY DEF Init
<1>4. QueueInv
  <2>1. <<Root>> \in Seq(Tasks) /\ Len(<<Root>>) = 1 /\ Range(<<Root>>) = {Root}
    BY DEF Range
  <2>2. Distinct(<<Root>>)
    BY DEF Distinct
  <2>3. Len(<<Root>>) <= Capacity
    OBVIOUS
  <2>4. QED
    BY <1>2, <1>3, <2>1, <2>2, <2>3 DEF QueueInv
<1>5. CountInv
  <2>1. IsFiniteSet({Root}) /\ Cardinality({Root}) = 1 /\ IsFiniteSet({}) /\ Cardinality({}) = 0
    BY FS_EmptySet, FS_Singleton
  <2>2. pending = Cardinality(ready) + Cardinality(leased)
    BY <1>3, <2>1
  <2>3. QED
    BY <1>2, <1>3, <2>1, <2>2 DEF CountInv
<1>6. SpareInv
    BY DEF Init, SpareInv
<1>7. QED
    BY <1>1, <1>2, <1>4, <1>5, <1>6 DEF JournalInv, OpenInv

LEMMA StoredIsFinite ==
    ASSUME OpenInv
    PROVE  /\ IsFiniteSet(StoredNow) /\ Cardinality(StoredNow) \in Nat
           /\ (Cardinality(StoredNow) = 0 <=> StoredNow = {})
<1>1. StoredNow \subseteq ready
    BY DEF OpenInv, QueueInv
<1>2. IsFiniteSet(StoredNow)
    BY <1>1, FS_Subset DEF OpenInv, CountInv
<1>3. QED
    BY <1>2, FS_CardinalityType, FS_EmptySet

\* A step that leaves the spill alone, or the whole queue.
LEMMA UntouchedFile ==
    ASSUME FileInv, UNCHANGED spill
    PROVE  FileInv' /\ StoredNow' = StoredNow /\ (RecordsInv => RecordsInv')
BY DEF FileInv, FileType, spill, StoredNow, RecordsInv

LEMMA UntouchedQueue ==
    ASSUME JournalInv, UNCHANGED <<ready, leased, tasks, spill, pending, journal>>
    PROVE  JournalInv'
BY DEF JournalInv, OpenInv, FileInv, FileType, RecordsInv, QueueInv, CountInv, SpareInv, StoredNow, spill

\* A resident directory is queued.
LEMMA ScheduleResident ==
    ASSUME FileInv, OpenInv, NEW t \in Tasks, t \notin ready \union leased,
           Len(tasks) < Capacity, tasks' = Append(tasks, t), ready' = ready \union {t},
           pending' = pending + 1, UNCHANGED <<leased, spill>>
    PROVE  FileInv' /\ OpenInv'
<1>1. FileInv' /\ StoredNow' = StoredNow /\ RecordsInv'
    BY UntouchedFile DEF OpenInv
<1>2. /\ tasks \in Seq(Tasks) /\ Distinct(tasks) /\ Len(tasks) \in Nat
      /\ Range(tasks) \union StoredNow = ready /\ Range(tasks) \intersect StoredNow = {}
      /\ DOMAIN tasks = 1..Len(tasks)
    BY DEF OpenInv, QueueInv
<1> DEFINE n == Len(tasks)
           r == Append(tasks, t)
<1>3. /\ r \in Seq(Tasks) /\ Len(r) = n + 1 /\ DOMAIN r = 1..n + 1 /\ r[n + 1] = t
      /\ \A k \in 1..n : r[k] = tasks[k]
    BY <1>2, AppendProperties
<1>4. \A k \in 1..n : tasks[k] \in Range(tasks) /\ tasks[k] # t
    BY <1>2 DEF Range
<1>5. \A k \in 1..n + 1 : k = n + 1 \/ k \in 1..n
    BY <1>2
<1> HIDE DEF n, r
<1>n. n \in Nat
    BY <1>2 DEF n
<1>6. Distinct(r)
    BY <1>2, <1>3, <1>4, <1>5 DEF Distinct, n
<1>7. Range(r) = Range(tasks) \union {t}
  <2>1. \A k \in 1..n + 1 : r[k] \in Range(tasks) \union {t}
    BY <1>3, <1>4, <1>5
  <2>2. n + 1 \in 1..n + 1 /\ \A k \in 1..n : k \in 1..n + 1
    BY <1>n
  <2>3. t \in Range(r)
    BY <1>3, <2>2 DEF Range
  <2>4. \A u \in Range(tasks) : u \in Range(r)
    BY <1>2, <1>3, <2>2 DEF Range, n
  <2>5. \A u \in Range(r) : u \in Range(tasks) \union {t}
    BY <1>3, <2>1 DEF Range
  <2>6. QED
    BY <2>3, <2>4, <2>5
<1>8. QueueInv'
  <2>1. n + 1 <= Capacity
    BY <1>2 DEF n
  <2>2. Range(r) \union StoredNow = ready \union {t} /\ Range(r) \intersect StoredNow = {}
    BY <1>2, <1>7
  <2>3. QED
    BY <1>1, <1>3, <1>6, <2>1, <2>2 DEF QueueInv, r
<1>9. CountInv'
  <2>1. IsFiniteSet(ready \union {t}) /\ Cardinality(ready \union {t}) = Cardinality(ready) + 1
    BY FS_AddElement DEF OpenInv, CountInv
  <2>2. Cardinality(ready) \in Nat /\ Cardinality(leased) \in Nat
    BY FS_CardinalityType DEF OpenInv, CountInv
  <2>3. QED
    BY <1>1, <2>1, <2>2 DEF OpenInv, CountInv, spill
<1>10. QED
    BY <1>1, <1>8, <1>9 DEF OpenInv, SpareInv, spill

\* A directory is written behind the others.
LEMMA ScheduleSpilled ==
    ASSUME FileInv, OpenInv, NEW t \in Tasks, t \notin ready \union leased,
           Push(t), ready' = ready \union {t},
           pending' = pending + 1, UNCHANGED <<leased, tasks>>
    PROVE  FileInv' /\ OpenInv'
<1> DEFINE s == SizeOf(t)
           end == nextWrite + s
<1>0. s \in Nat \ {0}
    OBVIOUS
<1>1. /\ nextRead \in Nat /\ nextWrite \in Nat /\ nextRead <= nextWrite /\ reserved \in Nat
      /\ nextWrite <= reserved /\ file \in [1..nextWrite -> Cells]
    BY DEF FileInv, FileType
<1>2. /\ file' = [i \in 1..end |-> IF i <= nextWrite THEN file[i] ELSE <<t, i - nextWrite>>]
      /\ nextWrite' = end /\ spilled' = spilled + 1 /\ nextRead' = nextRead
      /\ reserved' = reserved + Reservation(end)
    BY DEF Push
<1>3. file' \in [1..end -> Cells]
  <2>1. ASSUME NEW i \in 1..end
        PROVE  (IF i <= nextWrite THEN file[i] ELSE <<t, i - nextWrite>>) \in Cells
    <3>1. CASE i <= nextWrite
        BY <1>0, <1>1, <3>1
    <3>2. CASE ~(i <= nextWrite)
      <4>1. i - nextWrite \in Nat
        BY <1>0, <1>1, <3>2
      <4>2. QED
        BY <3>2, <4>1 DEF Cells
    <3>3. QED
        BY <3>1, <3>2
  <2>2. QED
    BY <1>2, <2>1
<1>4. reserved' \in Nat /\ end <= reserved'
    BY <1>0, <1>1, <1>2 DEF Reservation
<1>5. FileInv'
  <2>1. end \in Nat /\ nextRead <= end
    BY <1>0, <1>1
  <2> HIDE DEF end
  <2>2. QED
    BY <1>1, <1>2, <1>3, <1>4, <2>1 DEF FileInv, FileType
<1>6. \A i \in nextRead + 1..nextWrite : file'[i] = file[i]
    BY <1>0, <1>1, <1>2
<1>7. Starts(file', nextWrite, t)
  <2>1. \A k \in 1..s : nextWrite + k \in 1..end /\ ~(nextWrite + k <= nextWrite)
                        /\ (nextWrite + k) - nextWrite = k
    BY <1>0, <1>1
  <2>2. QED
    BY <1>2, <2>1 DEF Starts
<1>8. t \notin StoredNow /\ Whole(file, nextRead, nextWrite) /\ Single(file, nextRead, nextWrite)
    BY DEF OpenInv, QueueInv, RecordsInv
<1>9. /\ Whole(file', nextRead, end) /\ Single(file', nextRead, end)
      /\ Stored(file', nextRead, end) = StoredNow \union {t}
    BY <1>1, <1>6, <1>7, <1>8, AddedBehind DEF StoredNow
<1>10. RecordsInv' /\ StoredNow' = StoredNow \union {t}
    BY <1>2, <1>9 DEF RecordsInv, StoredNow
<1>11. QueueInv'
    BY <1>10 DEF OpenInv, QueueInv
<1>12. CountInv'
  <2>1. IsFiniteSet(ready \union {t}) /\ Cardinality(ready \union {t}) = Cardinality(ready) + 1
    BY FS_AddElement DEF OpenInv, CountInv
  <2>2. Cardinality(ready) \in Nat /\ Cardinality(leased) \in Nat
    BY FS_CardinalityType DEF OpenInv, CountInv
  <2>3. Cardinality(StoredNow \union {t}) = Cardinality(StoredNow) + 1
    BY <1>8, StoredIsFinite, FS_AddElement
  <2>4. QED
    BY <1>2, <1>10, <2>1, <2>2, <2>3 DEF OpenInv, CountInv
<1>13. SpareInv'
  <2>1. spilled \in Nat
    BY StoredIsFinite DEF OpenInv, CountInv
  <2>2. QED
    BY <1>0, <1>1, <1>2, <2>1 DEF OpenInv, SpareInv
<1>14. QED
    BY <1>5, <1>10, <1>11, <1>12, <1>13 DEF OpenInv

-----------------------------------------------------------------------------
(* What the actions leave *)

\* A resident directory is taken.
LEMMA TakeResident ==
    ASSUME FileInv, OpenInv, NEW t \in Tasks, t \in ready, t \in Range(tasks),
           tasks' = RemoveFirst(tasks, t), ready' = ready \ {t},
           leased' = leased \union {t}, UNCHANGED <<spill, pending>>
    PROVE  FileInv' /\ OpenInv'
<1>1. FileInv' /\ StoredNow' = StoredNow /\ RecordsInv'
    BY UntouchedFile DEF OpenInv
<1>2. /\ tasks' \in Seq(Tasks) /\ Distinct(tasks') /\ Len(tasks') = Len(tasks) - 1
      /\ Range(tasks') = Range(tasks) \ {t}
    BY RemoveResident DEF OpenInv, QueueInv
<1>3. QueueInv'
  <2>1. Len(tasks) \in Nat /\ Len(tasks) <= Capacity
    BY DEF OpenInv, QueueInv
  <2>2. Len(tasks') <= Capacity
    BY <1>2, <2>1
  <2>3. Range(tasks') \union StoredNow = ready \ {t} /\ Range(tasks') \intersect StoredNow = {}
    BY <1>2 DEF OpenInv, QueueInv
  <2>4. QED
    BY <1>1, <1>2, <2>2, <2>3 DEF QueueInv
<1>4. CountInv'
  <2>1. IsFiniteSet(ready \ {t}) /\ Cardinality(ready \ {t}) = Cardinality(ready) - 1
    BY FS_RemoveElement DEF OpenInv, CountInv
  <2>2. IsFiniteSet(leased \union {t}) /\ Cardinality(leased \union {t}) = Cardinality(leased) + 1
    BY FS_AddElement DEF OpenInv, CountInv
  <2>3. Cardinality(ready) \in Nat /\ Cardinality(leased) \in Nat
    BY FS_CardinalityType DEF OpenInv, CountInv
  <2>4. QED
    BY <1>1, <2>1, <2>2, <2>3 DEF OpenInv, CountInv, spill
<1>5. QED
    BY <1>1, <1>3, <1>4 DEF OpenInv, SpareInv, spill

\* The file once the record that was found is the first.
LEMMA FirstInFile ==
    ASSUME FileInv, OpenInv, NEW t \in Tasks, NEW offset \in nextRead..nextWrite,
           <<offset, t>> \in Journal
    PROVE  LET f == IF offset = nextRead THEN file ELSE RotateToFront(file, offset, t) IN
           /\ f \in [1..nextWrite -> Cells] /\ nextRead + SizeOf(t) <= nextWrite
           /\ Whole(f, nextRead, nextWrite) /\ Single(f, nextRead, nextWrite)
           /\ Starts(f, nextRead, t) /\ Stored(f, nextRead, nextWrite) = StoredNow
           /\ t \in StoredNow
<1> DEFINE s == SizeOf(t)
           f == IF offset = nextRead THEN file ELSE RotateToFront(file, offset, t)
<1>0. s \in Nat \ {0}
    OBVIOUS
<1>1. /\ FileType /\ nextRead \in Nat /\ nextWrite \in Nat /\ nextRead <= nextWrite
      /\ file \in [1..nextWrite -> Cells]
      /\ Whole(file, nextRead, nextWrite) /\ Single(file, nextRead, nextWrite)
    BY DEF FileInv, FileType, OpenInv, RecordsInv
<1>2. <<offset, t>> \in FileRecords
    BY <1>1, SearchFindsAll
<1>3. offset \in nextRead..nextWrite - 1 /\ file[offset + 1] = <<t, 1>>
    BY <1>2 DEF FileRecords
<1>4. Starts(file, offset, t) /\ offset + s <= nextWrite
    BY <1>1, <1>3, RecordIsRead
<1>5. t \in StoredNow
  <2>1. offset + 1 \in nextRead + 1..nextWrite
    BY <1>1, <1>3
  <2>2. QED
    BY <1>3, <2>1 DEF StoredNow, Stored
<1>6. nextRead + s <= nextWrite
    BY <1>0, <1>1, <1>3, <1>4
<1>7. CASE offset = nextRead
    BY <1>1, <1>4, <1>5, <1>6, <1>7 DEF StoredNow
<1>8. CASE offset # nextRead
  <2>0. offset \in Nat /\ nextRead <= offset
    BY <1>1
  <2> DEFINE shifted == ShiftRangeRight(file, nextRead, offset, s)
             g == [i \in 1..nextWrite |->
                     IF i > nextRead /\ i <= nextRead + s THEN <<t, i - nextRead>> ELSE shifted[i]]
  <2>1. shifted = Shifted(file, nextWrite, nextRead, offset, s, 0)
    <3> HIDE DEF s
    <3>1. QED
        BY <1>0, <1>1, <1>4, <2>0, ShiftIsExact
  <2>2. Len(file) = nextWrite
    BY <1>1, FileLength
  <2>3. RotateToFront(file, offset, t) = g
    <3>1. \A i \in 1..nextWrite : i > nextRead /\ i <= nextRead + s =>
            Record(t)[i - nextRead] = <<t, i - nextRead>>
        BY <1>0, <1>1 DEF Record
    <3>2. QED
        BY <2>2, <3>1 DEF RotateToFront
  <2>4. \A i \in 1..nextWrite :
          shifted[i] = IF i > nextRead + s + 0 /\ i <= offset + s THEN file[i - s] ELSE file[i]
    BY <2>1 DEF Shifted
  <2> HIDE DEF shifted, s
  <2>5. g \in [1..nextWrite -> Cells]
    <3>1. ASSUME NEW i \in 1..nextWrite
          PROVE  shifted[i] \in Cells
      <4>1. i > nextRead + s /\ i <= offset + s => i - s \in 1..nextWrite
        BY <1>0, <1>1, <2>0
      <4>2. QED
        BY <1>0, <1>1, <2>0, <2>4, <4>1
    <3>2. ASSUME NEW i \in 1..nextWrite, i > nextRead
          PROVE  <<t, i - nextRead>> \in Cells
      <4>1. i - nextRead \in Nat
        BY <1>1, <3>2
      <4>2. QED
        BY <4>1 DEF Cells
    <3>3. QED
        BY <3>1, <3>2
  <2>6. ASSUME NEW i \in nextRead + 1..nextWrite
        PROVE  g[i] = file[Origin(i, nextRead, offset, s)]
    <3>1. i \in 1..nextWrite
        BY <1>1
    <3>2. CASE i <= nextRead + s
      <4>1. i - nextRead \in 1..s /\ offset + (i - nextRead) = i - nextRead + offset
        BY <1>0, <1>1, <2>0, <3>2
      <4>2. file[offset + (i - nextRead)] = <<t, i - nextRead>>
        BY <1>4, <4>1 DEF Starts, s
      <4>3. g[i] = <<t, i - nextRead>>
        BY <1>1, <3>1, <3>2
      <4>4. QED
        BY <3>2, <4>1, <4>2, <4>3 DEF Origin
    <3>3. CASE ~(i <= nextRead + s)
      <4>1. g[i] = shifted[i]
        BY <3>1, <3>3
      <4>2. QED
        BY <1>0, <1>1, <2>0, <2>4, <3>1, <3>3, <4>1 DEF Origin
    <3>4. QED
        BY <3>2, <3>3
  <2> HIDE DEF g
  <2>7. /\ Whole(g, nextRead, nextWrite) /\ Single(g, nextRead, nextWrite)
        /\ Starts(g, nextRead, t)
        /\ Stored(g, nextRead, nextWrite) = Stored(file, nextRead, nextWrite)
    BY <1>1, <1>4, <2>6, RotatedToFront DEF s
  <2>8. f = g
    BY <1>8, <2>3
  <2>9. QED
    BY <1>5, <1>6, <2>5, <2>7, <2>8 DEF StoredNow, s
<1>9. QED
    BY <1>7, <1>8

\* What is left of the file once its first record is taken.
LEMMA FileWithoutFirst ==
    ASSUME FileInv, OpenInv, NEW t \in Tasks, t \in StoredNow, NEW f \in [1..nextWrite -> Cells],
           nextRead + SizeOf(t) <= nextWrite,
           Whole(f, nextRead, nextWrite), Single(f, nextRead, nextWrite),
           Starts(f, nextRead, t), Stored(f, nextRead, nextWrite) = StoredNow,
           TakeFirst(f, t)
    PROVE  /\ FileInv' /\ RecordsInv' /\ SpareInv'
           /\ StoredNow' = StoredNow \ {t} /\ spilled' = Cardinality(StoredNow')
<1> DEFINE s == SizeOf(t)
           read == nextRead + s
           remaining == nextWrite - read
<1>0. s \in Nat \ {0}
    OBVIOUS
<1>1. /\ nextRead \in Nat /\ nextWrite \in Nat /\ nextRead <= nextWrite
      /\ reserved \in Nat /\ nextWrite <= reserved
    BY DEF FileInv, FileType
<1>2. read \in Nat /\ remaining \in Nat /\ read <= nextWrite /\ read + remaining = nextWrite
      /\ remaining <= nextWrite
    BY <1>0, <1>1
<1>3. /\ Whole(f, read, nextWrite) /\ Single(f, read, nextWrite)
      /\ Stored(f, read, nextWrite) = StoredNow \ {t}
    BY <1>1, WithoutFirst
<1>4. /\ IsFiniteSet(StoredNow \ {t}) /\ Cardinality(StoredNow \ {t}) = spilled - 1
      /\ spilled \in Nat /\ Cardinality(StoredNow \ {t}) \in Nat
      /\ (Cardinality(StoredNow \ {t}) = 0 <=> StoredNow \ {t} = {})
  <2>1. IsFiniteSet(StoredNow) /\ Cardinality(StoredNow) \in Nat /\ spilled = Cardinality(StoredNow)
    BY StoredIsFinite DEF OpenInv, CountInv
  <2>2. IsFiniteSet(StoredNow \ {t}) /\ Cardinality(StoredNow \ {t}) = Cardinality(StoredNow) - 1
    BY <2>1, FS_RemoveElement
  <2>3. QED
    BY <2>1, <2>2, FS_CardinalityType, FS_EmptySet
<1>5. spilled' = spilled - 1
    BY DEF TakeFirst
<1>6. CASE spilled = 1
  <2>1. file' = <<>> /\ nextRead' = 0 /\ nextWrite' = 0 /\ reserved' = 0
    BY <1>6 DEF TakeFirst
  <2>2. FileInv'
    BY <2>1 DEF FileInv, FileType
  <2>3. RecordsInv' /\ StoredNow' = {}
    BY <2>1 DEF RecordsInv, StoredNow, Whole, Single, Stored
  <2>4. SpareInv'
    BY <1>5, <1>6, <2>1 DEF SpareInv
  <2>5. StoredNow \ {t} = {} /\ spilled' = 0
    BY <1>4, <1>5, <1>6
  <2>6. Cardinality({}) = 0
    BY FS_EmptySet
  <2>7. QED
    BY <2>2, <2>3, <2>4, <2>5, <2>6
<1>7. CASE spilled # 1 /\ ~CompactionDue(read, remaining)
  <2>1. file' = f /\ nextRead' = read /\ nextWrite' = nextWrite /\ reserved' = reserved
    BY <1>7 DEF TakeFirst
  <2>2. FileInv'
    BY <1>1, <1>2, <2>1 DEF FileInv, FileType
  <2>3. RecordsInv' /\ StoredNow' = StoredNow \ {t}
    BY <1>3, <2>1 DEF RecordsInv, StoredNow
  <2>4. read < Chunk /\ read < remaining
    <3> HIDE DEF read, remaining
    <3>1. ~(read >= Least(reserved, Chunk)) /\ ~(read >= remaining)
        BY <1>7 DEF CompactionDue
    <3>2. QED
        BY <1>1, <1>2, <3>1 DEF Least
  <2>5. SpareInv'
    BY <1>4, <1>5, <1>7, <2>1, <2>4 DEF SpareInv
  <2>6. QED
    BY <1>4, <1>5, <2>2, <2>3, <2>5
<1>8. CASE spilled # 1 /\ CompactionDue(read, remaining)
  <2> DEFINE moved == MoveToFront(f, read, remaining)
             g == SubSeq(moved, 1, remaining)
  <2>1. file' = g /\ nextRead' = 0 /\ nextWrite' = remaining /\ reserved' = Least(reserved, remaining)
    BY <1>8 DEF TakeFirst
  <2>2. moved = Compacted(f, nextWrite, read, remaining, 0)
    <3> HIDE DEF read, remaining
    <3>1. QED
        BY <1>1, <1>2, CompactIsExact
  <2>3. /\ moved \in [1..nextWrite -> Cells]
        /\ \A i \in 1..remaining : i \in 1..nextWrite /\ moved[i] = f[i + read]
    <3> HIDE DEF read, remaining, moved
    <3>1. ASSUME NEW i \in 1..nextWrite
          PROVE  (IF i <= remaining - 0 THEN f[i + read] ELSE f[i]) \in Cells
      <4>1. i <= remaining => i + read \in 1..nextWrite
        BY <1>1, <1>2
      <4>2. QED
        BY <1>2, <4>1
    <3>2. moved \in [1..nextWrite -> Cells]
        BY <2>2, <3>1 DEF Compacted
    <3>3. \A i \in 1..remaining : i \in 1..nextWrite /\ i <= remaining - 0
        BY <1>1, <1>2
    <3>4. QED
        BY <2>2, <3>2, <3>3 DEF Compacted
  <2>4. g = [i \in 1..remaining |-> moved[0 + i]]
    <3> HIDE DEF read, remaining, moved
    <3>1. 0 + remaining = remaining /\ 0 + 1 = 1 /\ 0 + remaining <= nextWrite
        BY <1>2
    <3>2. SubSeq(moved, 0 + 1, 0 + remaining) = [i \in 1..remaining |-> moved[0 + i]]
        BY <1>1, <1>2, <2>3, <3>1, PieceOfFile
    <3>3. QED
        BY <3>1, <3>2
  <2>5. /\ g \in [1..remaining -> Cells]
        /\ \A i \in 1..nextWrite - read : g[i] = f[i + read]
    <3> HIDE DEF read, moved
    <3>1. \A i \in 1..remaining : moved[0 + i] = f[i + read] /\ moved[0 + i] \in Cells
        BY <2>3
    <3> HIDE DEF g
    <3>2. QED
        BY <2>4, <3>1
  <2> HIDE DEF moved, g
  <2>6. /\ Whole(g, 0, remaining) /\ Single(g, 0, remaining)
        /\ Stored(g, 0, remaining) = StoredNow \ {t}
    <3>1. nextWrite - read = remaining
        OBVIOUS
    <3> HIDE DEF read, remaining
    <3>2. /\ Whole(g, 0, nextWrite - read) /\ Single(g, 0, nextWrite - read)
          /\ Stored(g, 0, nextWrite - read) = Stored(f, read, nextWrite)
      <4>1. \A i \in 1..nextWrite - read : g[i] = f[i + read]
        BY <2>5
      <4>2. read \in Nat /\ nextWrite \in Nat /\ read <= nextWrite
        BY <1>1, <1>2
      <4>3. QED
        BY <1>3, <4>1, <4>2, MovedToFront
    <3>3. QED
        BY <1>3, <3>1, <3>2
  <2>7. RecordsInv' /\ StoredNow' = StoredNow \ {t}
    BY <2>1, <2>6 DEF RecordsInv, StoredNow
  <2>8. FileInv'
    <3>1. Least(reserved, remaining) = remaining
        BY <1>1, <1>2 DEF Least
    <3> HIDE DEF remaining
    <3>2. QED
        BY <1>2, <2>1, <2>5, <3>1 DEF FileInv, FileType
  <2>9. remaining > 0
    <3>1. StoredNow \ {t} # {}
        BY <1>4, <1>8
    <3>2. PICK u \in Tasks : u \in Stored(g, 0, remaining)
        BY <2>6, <3>1 DEF StoredNow, Stored
    <3> HIDE DEF remaining
    <3>3. PICK i \in 0 + 1..remaining : g[i] = <<u, 1>>
        BY <3>2 DEF Stored
    <3>4. QED
        BY <1>2, <3>3
  <2>10. SpareInv'
    BY <1>4, <1>5, <1>8, <2>1, <2>9 DEF SpareInv
  <2>11. QED
    BY <1>4, <1>5, <2>7, <2>8, <2>10
<1>9. QED
    BY <1>6, <1>7, <1>8

\* A record is taken from the file.
LEMMA TakeSpilled ==
    ASSUME FileInv, OpenInv, NEW t \in Tasks, t \in ready, t \notin Range(tasks),
           NEW offset \in nextRead..nextWrite, <<offset, t>> \in Journal,
           TakeFirst(IF offset = nextRead THEN file ELSE RotateToFront(file, offset, t), t),
           ready' = ready \ {t}, leased' = leased \union {t}, UNCHANGED <<tasks, pending>>
    PROVE  FileInv' /\ OpenInv'
<1> DEFINE f == IF offset = nextRead THEN file ELSE RotateToFront(file, offset, t)
<1>1. /\ f \in [1..nextWrite -> Cells] /\ nextRead + SizeOf(t) <= nextWrite
      /\ Whole(f, nextRead, nextWrite) /\ Single(f, nextRead, nextWrite)
      /\ Starts(f, nextRead, t) /\ Stored(f, nextRead, nextWrite) = StoredNow
      /\ t \in StoredNow
    BY FirstInFile
<1>2. TakeFirst(f, t)
    OBVIOUS
<1> HIDE DEF f
<1>3. /\ FileInv' /\ RecordsInv' /\ SpareInv'
      /\ StoredNow' = StoredNow \ {t} /\ spilled' = Cardinality(StoredNow')
    BY <1>1, <1>2, FileWithoutFirst
<1>4. QueueInv'
    BY <1>3 DEF OpenInv, QueueInv
<1>5. CountInv'
  <2>1. IsFiniteSet(ready \ {t}) /\ Cardinality(ready \ {t}) = Cardinality(ready) - 1
    BY FS_RemoveElement DEF OpenInv, CountInv
  <2>2. IsFiniteSet(leased \union {t}) /\ Cardinality(leased \union {t}) = Cardinality(leased) + 1
    BY FS_AddElement DEF OpenInv, CountInv
  <2>3. Cardinality(ready) \in Nat /\ Cardinality(leased) \in Nat
    BY FS_CardinalityType DEF OpenInv, CountInv
  <2>4. pending' = Cardinality(ready') + Cardinality(leased')
    BY <2>1, <2>2, <2>3 DEF OpenInv, CountInv
  <2>5. QED
    BY <1>3, <2>1, <2>2, <2>4 DEF OpenInv, CountInv
<1>6. QED
    BY <1>3, <1>4, <1>5 DEF OpenInv

\* A lease ends.
LEMMA CompleteKeeps ==
    ASSUME FileInv, OpenInv, NEW t \in Tasks, Complete(t)
    PROVE  FileInv' /\ OpenInv'
<1>1. /\ leased' = leased \ {t} /\ t \in leased /\ ready' = ready /\ tasks' = tasks /\ UNCHANGED spill
      /\ pending' = IF pending = 0 THEN 0 ELSE pending - 1
    BY DEF Complete
<1>2. FileInv' /\ StoredNow' = StoredNow /\ RecordsInv'
    BY <1>1, UntouchedFile DEF OpenInv
<1>3. IsFiniteSet(leased \ {t}) /\ Cardinality(leased \ {t}) = Cardinality(leased) - 1
    BY <1>1, FS_RemoveElement DEF OpenInv, CountInv
<1>4. /\ Cardinality(ready) \in Nat /\ Cardinality(leased) \in Nat
      /\ Cardinality(leased \ {t}) \in Nat
    BY <1>3, FS_CardinalityType DEF OpenInv, CountInv
<1>5. pending' = Cardinality(ready') + Cardinality(leased')
    BY <1>1, <1>3, <1>4 DEF OpenInv, CountInv
<1>6. CountInv'
    BY <1>1, <1>2, <1>3, <1>5 DEF OpenInv, CountInv, spill
<1>7. QED
    BY <1>1, <1>2, <1>6 DEF OpenInv, QueueInv, SpareInv, spill

\* The search of take_path finds every directory that is not resident.
LEMMA NothingIsLost ==
    ASSUME FileInv, OpenInv, NEW t \in ready, t \notin Range(tasks)
    PROVE  \E offset \in nextRead..nextWrite : <<offset, t>> \in Journal
<1>1. t \in StoredNow /\ t \in Tasks
    BY DEF OpenInv, QueueInv, CountInv
<1>2. nextRead \in Nat /\ nextWrite \in Nat /\ FileType
    BY DEF FileInv, FileType
<1>3. PICK i \in nextRead + 1..nextWrite : file[i] = <<t, 1>>
    BY <1>1 DEF StoredNow, Stored
<1>4. i - 1 \in nextRead..nextWrite - 1 /\ i - 1 \in nextRead..nextWrite /\ (i - 1) + 1 = i
    BY <1>2
<1>5. <<i - 1, t>> \in FileRecords
    BY <1>1, <1>3, <1>4 DEF FileRecords
<1>6. QED
    BY <1>2, <1>4, <1>5, SearchFindsAll DEF OpenInv, RecordsInv

-----------------------------------------------------------------------------
(* The theorems about the journal *)

LEMMA JournalStep == JournalInv /\ [Next]_vars => JournalInv'
<1> SUFFICES ASSUME JournalInv, [Next]_vars PROVE JournalInv'
    OBVIOUS
<1>0. FileInv /\ (journal = "open" => OpenInv)
    BY DEF JournalInv
<1>1. ASSUME NEW t \in Tasks, Schedule(t) PROVE JournalInv'
  <2>1. journal = "open" /\ t \notin ready \union leased /\ ready' = ready \union {t} /\ OpenInv
    BY <1>0, <1>1 DEF Schedule
  <2>2. CASE /\ Len(tasks) < Capacity /\ tasks' = Append(tasks, t) /\ pending' = pending + 1
             /\ UNCHANGED <<leased, spill, journal, used, stopped, database>>
    BY <1>0, <2>1, <2>2, ScheduleResident DEF JournalInv
  <2>3. CASE Push(t) /\ pending' = pending + 1 /\ UNCHANGED <<leased, tasks, journal, stopped, database>>
    BY <1>0, <2>1, <2>3, ScheduleSpilled DEF JournalInv
  <2>4. CASE Fails("failed") /\ UNCHANGED <<spill, used>>
    <3>1. FileInv' /\ journal' = "failed"
        BY <1>0, <2>4, UntouchedFile DEF Fails
    <3>2. QED
        BY <3>1 DEF JournalInv
  <2>5. QED
    BY <1>1, <2>2, <2>3, <2>4 DEF Schedule
<1>2. ASSUME NEW t \in Tasks, CannotWrite(t) PROVE JournalInv'
  <2>1. /\ journal' = "failed" /\ UNCHANGED <<file, nextRead, nextWrite>>
        /\ reserved' = reserved + Reservation(nextWrite + SizeOf(t))
    BY <1>2 DEF CannotWrite, Fails
  <2>2. Reservation(nextWrite + SizeOf(t)) \in Nat
    BY <1>0 DEF Reservation, FileInv, FileType
  <2>3. FileInv'
    <3>1. reserved' \in Nat /\ nextWrite <= reserved'
        BY <1>0, <2>1, <2>2 DEF FileInv, FileType
    <3>2. QED
        BY <1>0, <2>1, <3>1 DEF FileInv, FileType
  <2>4. QED
    BY <2>1, <2>3 DEF JournalInv
<1>3. ASSUME NEW t \in Tasks, TakePath(t) PROVE JournalInv'
  <2>1. journal = "open" /\ t \in ready /\ ready' = ready \ {t} /\ OpenInv
    BY <1>0, <1>3 DEF TakePath
  <2>2. CASE /\ t \in Range(tasks) /\ tasks' = RemoveFirst(tasks, t) /\ leased' = leased \union {t}
             /\ UNCHANGED <<spill, pending, journal, used, stopped, database>>
    BY <1>0, <2>1, <2>2, TakeResident DEF JournalInv
  <2>3. ASSUME t \notin Range(tasks), NEW offset \in nextRead..nextWrite, <<offset, t>> \in Journal,
               TakeFirst(IF offset = nextRead THEN file ELSE RotateToFront(file, offset, t), t),
               leased' = leased \union {t}, UNCHANGED <<tasks, pending, journal, stopped, database>>
        PROVE  JournalInv'
    BY <1>0, <2>1, <2>3, TakeSpilled DEF JournalInv
  <2>4. CASE /\ t \notin Range(tasks)
             /\ \A offset \in nextRead..nextWrite : <<offset, t>> \notin Journal
    BY <1>0, <2>1, <2>4, NothingIsLost
  <2>5. QED
    BY <1>3, <2>2, <2>3, <2>4 DEF TakePath
<1>4. ASSUME NEW t \in Tasks, Complete(t) PROVE JournalInv'
  <2>1. journal = "open"
    BY <1>4 DEF Complete
  <2>2. QED
    BY <1>0, <1>4, <2>1, CompleteKeeps DEF JournalInv
<1>5. CASE Drop
  <2>1. journal' = "dropped" /\ file' = <<>> /\ nextRead' = 0 /\ nextWrite' = 0 /\ reserved' = 0
    BY <1>5 DEF Drop
  <2>2. FileInv'
    BY <2>1 DEF FileInv, FileType
  <2>3. QED
    BY <2>1, <2>2 DEF JournalInv
<1>6. ASSUME NEW length \in DbLengths, DbReserves(length) PROVE JournalInv'
    BY <1>6, UntouchedQueue DEF DbReserves
<1>7. ASSUME NEW length \in DbLengths, DbShrinks(length) PROVE JournalInv'
    BY <1>7, UntouchedQueue DEF DbShrinks
<1>8. CASE DbGrows
    BY <1>8, UntouchedQueue DEF DbGrows
<1>9. CASE DbCannotGrow
    BY <1>9, UntouchedQueue DEF DbCannotGrow
<1>10. CASE Stop
    BY <1>10, UntouchedQueue DEF Stop
<1>11. CASE UNCHANGED vars
    BY <1>11, UntouchedQueue DEF vars
<1>12. QED
    BY <1>1, <1>2, <1>3, <1>4, <1>5, <1>6, <1>7, <1>8, <1>9, <1>10, <1>11 DEF Next

\* Two sets that a function pairs off are as large as each other.
LEMMA PairedOff ==
    ASSUME NEW S, NEW T, IsFiniteSet(T), NEW f \in [S -> T],
           \A x, y \in S : f[x] = f[y] => x = y,
           \A z \in T : \E x \in S : f[x] = z
    PROVE  IsFiniteSet(S) /\ Cardinality(S) = Cardinality(T)
<1>1. f \in Injection(S, T) /\ f \in Surjection(S, T)
    BY DEF Injection, Surjection, IsInjective, Range
<1>2. ExistsBijection(S, T)
    BY <1>1 DEF ExistsBijection, Bijection
<1>3. ExistsBijection(T, S)
    BY <1>2, Fun_ExistsBijSymmetric
<1>4. QED
    BY <1>3, FS_Bijection

LEMMA JournalCounts ==
    ASSUME FileInv, OpenInv
    PROVE  /\ {r[2] : r \in Journal} = StoredNow
           /\ Cardinality(Journal) = Cardinality(StoredNow)
<1>1. FileType /\ nextRead \in Nat /\ nextWrite \in Nat /\ Single(file, nextRead, nextWrite)
    BY DEF FileInv, FileType, OpenInv, RecordsInv
<1>2. Journal = FileRecords
    BY <1>1, SearchFindsAll DEF OpenInv, RecordsInv
<1>3. \A p \in FileRecords : /\ p[1] \in nextRead..nextWrite - 1 /\ p[2] \in Tasks
                             /\ p = <<p[1], p[2]>> /\ file[p[1] + 1] = <<p[2], 1>>
                             /\ p[1] + 1 \in nextRead + 1..nextWrite
    BY <1>1 DEF FileRecords
<1>4. \A p \in FileRecords : p[2] \in StoredNow
    BY <1>3 DEF StoredNow, Stored
<1>5. ASSUME NEW t \in StoredNow
      PROVE  \E p \in FileRecords : p[2] = t
  <2>1. PICK i \in nextRead + 1..nextWrite : t \in Tasks /\ file[i] = <<t, 1>>
    BY DEF StoredNow, Stored
  <2>2. i - 1 \in nextRead..nextWrite - 1 /\ (i - 1) + 1 = i
    BY <1>1
  <2>3. <<i - 1, t>> \in FileRecords
    BY <2>1, <2>2 DEF FileRecords
  <2>4. QED
    BY <2>3
<1>6. \A p, q \in FileRecords : p[2] = q[2] => p = q
  <2>1. SUFFICES ASSUME NEW p \in FileRecords, NEW q \in FileRecords, p[2] = q[2] PROVE p = q
    OBVIOUS
  <2>2. file[p[1] + 1] = file[q[1] + 1]
    BY <1>3, <2>1
  <2>3. p[1] + 1 = q[1] + 1
    BY <1>1, <1>3, <2>2 DEF Single
  <2>4. p[1] = q[1]
    BY <1>1, <1>3, <2>3
  <2>5. QED
    BY <1>3, <2>1, <2>4
<1> DEFINE f == [p \in FileRecords |-> p[2]]
<1>7. f \in [FileRecords -> StoredNow] /\ \A p \in FileRecords : f[p] = p[2]
    BY <1>4
<1> HIDE DEF f
<1>8. Cardinality(FileRecords) = Cardinality(StoredNow)
  <2>1. \A p, q \in FileRecords : f[p] = f[q] => p = q
    BY <1>6, <1>7
  <2>2. \A t \in StoredNow : \E p \in FileRecords : f[p] = t
    BY <1>5, <1>7
  <2>3. QED
    BY <1>7, <2>1, <2>2, StoredIsFinite, PairedOff
<1>9. {r[2] : r \in FileRecords} = StoredNow
    BY <1>4, <1>5
<1>10. QED
    BY <1>2, <1>8, <1>9

LEMMA ResidentCounts ==
    ASSUME OpenInv
    PROVE  IsFiniteSet(Range(tasks)) /\ Cardinality(Range(tasks)) = Len(tasks)
<1>1. /\ tasks \in Seq(Tasks) /\ Len(tasks) \in Nat /\ DOMAIN tasks = 1..Len(tasks)
      /\ Distinct(tasks) /\ Range(tasks) \subseteq ready /\ IsFiniteSet(ready)
    BY DEF OpenInv, QueueInv, CountInv
<1>2. IsFiniteSet(Range(tasks))
    BY <1>1, FS_Subset
<1> DEFINE f == [k \in 1..Len(tasks) |-> tasks[k]]
<1>3. f \in [1..Len(tasks) -> Range(tasks)] /\ \A k \in 1..Len(tasks) : f[k] = tasks[k]
    BY <1>1 DEF Range
<1>4. \A u \in Range(tasks) : \E k \in 1..Len(tasks) : tasks[k] = u
    BY <1>1 DEF Range
<1> HIDE DEF f
<1>5. Cardinality(1..Len(tasks)) = Cardinality(Range(tasks))
  <2>1. \A j, k \in 1..Len(tasks) : f[j] = f[k] => j = k
    BY <1>1, <1>3 DEF Distinct
  <2>2. \A u \in Range(tasks) : \E k \in 1..Len(tasks) : f[k] = u
    BY <1>3, <1>4
  <2>3. QED
    BY <1>2, <1>3, <2>1, <2>2, PairedOff
<1>6. Cardinality(1..Len(tasks)) = Len(tasks)
  <2> DEFINE n == Len(tasks)
  <2>1. n \in Nat
    BY <1>1
  <2> HIDE DEF n
  <2>2. Cardinality(1..n) = IF 1 > n THEN 0 ELSE n - 1 + 1
    BY <2>1, FS_Interval
  <2>3. Cardinality(1..n) = n
    BY <2>1, <2>2
  <2>4. QED
    BY <2>3 DEF n
<1>7. QED
    BY <1>2, <1>5, <1>6

LEMMA JournalInvIsWhole == JournalInv => JournalIsWhole
<1> SUFFICES ASSUME JournalInv, journal = "open" PROVE
        /\ Range(tasks) \union {r[2] : r \in Journal} = ready
        /\ Len(tasks) + Cardinality(Journal) = Cardinality(ready)
        /\ Cardinality(Journal) = spilled
        /\ Len(tasks) <= Capacity
        /\ pending = Cardinality(ready) + Cardinality(leased)
    BY DEF JournalIsWhole
<1>1. FileInv /\ OpenInv
    BY DEF JournalInv
<1>2. {r[2] : r \in Journal} = StoredNow /\ Cardinality(Journal) = Cardinality(StoredNow)
    BY <1>1, JournalCounts
<1>3. /\ Range(tasks) \union StoredNow = ready /\ Range(tasks) \intersect StoredNow = {}
      /\ Len(tasks) <= Capacity /\ spilled = Cardinality(StoredNow)
      /\ pending = Cardinality(ready) + Cardinality(leased)
    BY <1>1 DEF OpenInv, QueueInv, CountInv
<1>4. Cardinality(ready) = Len(tasks) + Cardinality(StoredNow)
  <2>1. /\ IsFiniteSet(Range(tasks)) /\ Cardinality(Range(tasks)) = Len(tasks)
        /\ IsFiniteSet(StoredNow) /\ Cardinality(StoredNow) \in Nat
    BY <1>1, ResidentCounts, StoredIsFinite
  <2>2. Len(tasks) \in Nat
    BY <1>1 DEF OpenInv, QueueInv
  <2>3. Cardinality(Range(tasks) \union StoredNow) =
          Cardinality(Range(tasks)) + Cardinality(StoredNow) - Cardinality(Range(tasks) \intersect StoredNow)
    BY <2>1, FS_Union
  <2>4. Cardinality(Range(tasks) \intersect StoredNow) = 0
    BY <1>3, FS_EmptySet
  <2>5. Cardinality(ready) = Len(tasks) + Cardinality(StoredNow) - 0
    BY <1>3, <2>1, <2>3, <2>4
  <2>6. QED
    BY <2>1, <2>2, <2>5
<1>5. QED
    BY <1>2, <1>3, <1>4

LEMMA JournalInvIsProportionate == JournalInv => SpillIsProportionate
<1> SUFFICES ASSUME JournalInv PROVE SpillIsProportionate
    OBVIOUS
<1>1. nextWrite \in Nat /\ file \in [1..nextWrite -> Cells] /\ nextWrite <= reserved
    BY DEF JournalInv, FileInv, FileType
<1>2. Len(file) = nextWrite
    BY <1>1, FileLength
<1>3. QED
    BY <1>1, <1>2 DEF JournalInv, OpenInv, SpareInv, SpillIsProportionate

\* While the scan goes on, every directory the coordinator may choose is
\* resident or one whole record that the search of take_path reaches, and the
\* count that ends the scan is right: for every record size, chunk, number of
\* resident directories and order of taking, through the overlapping copies of
\* shift_range_right and compact_after_read.
THEOREM JournalWhole == Spec => []JournalIsWhole
BY JournalInitially, JournalStep, JournalInvIsWhole, PTL DEF Spec

\* The spill file is covered by its reservation and, while the scan goes on,
\* holds fewer taken cells than waiting ones and than a chunk, whatever
\* TaskSpill::take has left in it.
THEOREM SpillProportionate == Spec => []SpillIsProportionate
BY JournalInitially, JournalStep, JournalInvIsProportionate, PTL DEF Spec

=============================================================================
