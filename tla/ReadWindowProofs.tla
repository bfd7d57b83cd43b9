------------------------- MODULE ReadWindowProofs -------------------------
(***************************************************************************)
(* For every lag, timeout and length of a second that ReadWindowAssumption  *)
(* allows: a merge's read shows every write, and a read is put off once.    *)
(***************************************************************************)
EXTENDS ReadWindow, TLAPS

-----------------------------------------------------------------------------
(* Times held to the second.                                                *)

LEMMA TimestampBounds ==
    ASSUME NEW t \in Int
    PROVE  /\ Timestamp(t) \in Int
           /\ Timestamp(t) <= t
           /\ t <= Timestamp(t) + (Second - 1)
  BY ReadWindowAssumption DEF Timestamp

LEMMA TimestampNat ==
    ASSUME NEW t \in Nat
    PROVE  Timestamp(t) \in Nat
  BY ReadWindowAssumption DEF Timestamp

LEMMA TimestampMultiple ==
    ASSUME NEW t \in Int
    PROVE  Timestamp(t) = Second * (t \div Second)
  <1>1. \A k \in Nat \ {0} : t = k * (t \div k) + (t % k)
    OBVIOUS
  <1> QED
    BY <1>1, ReadWindowAssumption DEF Timestamp

LEMMA ScaledOrder ==
    ASSUME NEW k \in Nat \ {0}, NEW m \in Int, NEW n \in Int, m < n
    PROVE  k * m + k <= k * n
  <1>1. k * (m + 1) <= k * n
    <2> SUFFICES ASSUME NEW i \in Int, i <= n
                 PROVE  k * i <= k * n
      OBVIOUS
    <2> DEFINE d == n - i
    <2>1. d \in Nat /\ n = i + d
      OBVIOUS
    <2>2. k * d \in Nat
      BY <2>1
    <2>3. k * n = k * i + k * d
      BY <2>1
    <2> QED
      BY <2>2, <2>3
  <1> QED
    BY <1>1

LEMMA TimestampMonotone ==
    ASSUME NEW s \in Int, NEW t \in Int, s <= t
    PROVE  Timestamp(s) <= Timestamp(t)
  <1> DEFINE p == s \div Second
             q == t \div Second
  <1>1. p \in Int /\ q \in Int
    BY ReadWindowAssumption
  <1>2. Timestamp(s) = Second * p /\ Timestamp(t) = Second * q
    BY TimestampMultiple
  <1>3. CASE q < p
    <2>1. Second * q + Second <= Second * p
      BY <1>1, <1>3, ScaledOrder, ReadWindowAssumption
    <2>2. Second * p <= t /\ t <= Second * q + (Second - 1)
      BY <1>2, TimestampBounds
    <2> QED
      BY <2>1, <2>2, <1>1, ReadWindowAssumption
  <1>4. CASE p = q
    BY <1>2, <1>4, TimestampBounds
  <1>5. CASE p < q
    <2>1. Second * p + Second <= Second * q
      BY <1>1, <1>5, ScaledOrder, ReadWindowAssumption
    <2> QED
      BY <2>1, <1>2, <1>1, ReadWindowAssumption, TimestampBounds
  <1> QED
    BY <1>1, <1>3, <1>4, <1>5
-----------------------------------------------------------------------------
(* The inductive invariant.                                                 *)

IInv ==
    /\ TypeOK
    /\ StepsTimely
    /\ RecordsCover
    /\ NothingSinceDeferral
    /\ ReadShowsWrites

LEMMA Constants ==
    /\ Second \in Nat \ {0} /\ ReadLag \in Nat /\ RecordTimeout \in Nat
    /\ YouTubeTimeout \in Nat /\ TrueLag \in Nat \ {0}
    /\ Margin \in Nat /\ TrueLag + Margin <= ReadLag
  BY ReadWindowAssumption DEF Margin

LEMMA RowTimeNat ==
    ASSUME TypeOK, NEW row \in rows
    PROVE  RowTime(row) \in Nat
  BY DEF TypeOK, Row, RowTime

(* A read ItemWritesSince lets through is too late for what the records     *)
(* cover not to show.                                                       *)
LEMMA CoveredIsPast ==
    ASSUME TypeOK, ~ItemWritesSince(now), NEW t \in Nat, Covered(t)
    PROVE  t + TrueLag <= now
  <1>1. PICK row \in rows : t <= RowTime(row) + Margin
    BY DEF Covered, None
  <1>2. RowTime(row) \in Nat
    BY RowTimeNat
  <1>3. now - ReadLag \in Int /\ now \in Int
    BY Constants DEF TypeOK
  <1>4. Timestamp(now - ReadLag) \in Int /\ Timestamp(now - ReadLag) <= now - ReadLag
    BY <1>3, TimestampBounds
  <1>5. RowTime(row) <= now - ReadLag
    BY <1>2, <1>3, <1>4 DEF ItemWritesSince
  <1> QED
    BY <1>1, <1>2, <1>3, <1>5, Constants

THEOREM InitIInv == Init => IInv
  BY Constants DEF Init, IInv, TypeOK, StepsTimely, RecordsCover, Covered, StampedBy,
        NothingSinceDeferral, ReadShowsWrites, None

(* What leaves the records, the time and the request alone keeps what the   *)
(* records cover.                                                           *)
LEMMA RecordsKept ==
    ASSUME RecordsCover, UNCHANGED <<rows, writes, now>>,
           flight' = flight \/ flight' = None,
           landed' = landed \/ landed' = flight,
           pc' = "sending" => pc = "sending"
    PROVE  RecordsCover'
  BY DEF RecordsCover, Covered, StampedBy, RowTime

LEMMA TickIInv == IInv /\ Tick => IInv'
  <1> SUFFICES ASSUME IInv, Tick PROVE IInv'
    OBVIOUS
  <1> USE DEF IInv, Tick
  <1>1. TypeOK'
    BY DEF TypeOK, Row
  <1>2. StepsTimely'
    BY Constants DEF StepsTimely, TypeOK, None
  <1>3. RecordsCover'
    BY DEF RecordsCover, Covered, StampedBy, RowTime, TypeOK
  <1>4. NothingSinceDeferral'
    BY DEF NothingSinceDeferral, StampedBy, RowTime, TypeOK
  <1>5. ReadShowsWrites'
    BY DEF ReadShowsWrites
  <1> QED
    BY <1>1, <1>2, <1>3, <1>4, <1>5

LEMMA ReadToMergeIInv == IInv /\ ReadToMerge => IInv'
  <1> SUFFICES ASSUME IInv, ReadToMerge PROVE IInv'
    OBVIOUS
  <1> USE DEF IInv, ReadToMerge
  <1>1. TypeOK'
    BY DEF TypeOK, Row
  <1>2. StepsTimely'
    BY DEF StepsTimely
  <1>3. RecordsCover'
    BY RecordsKept
  <1>4. NothingSinceDeferral'
    BY DEF NothingSinceDeferral, StampedBy, RowTime
  <1>5. flight = None
    <2> SUFFICES ASSUME flight # None PROVE FALSE
      OBVIOUS
    <2>1. flight \in Nat /\ now \in Nat /\ now <= flight
      BY DEF TypeOK, StepsTimely
    <2>2. flight + TrueLag <= now
      BY <2>1, CoveredIsPast DEF RecordsCover
    <2> QED
      BY <2>1, <2>2, Constants
  <1>6. landed # None => landed + TrueLag <= readAt'
    BY CoveredIsPast DEF RecordsCover, TypeOK
  <1>7. ReadShowsWrites'
    BY <1>5, <1>6 DEF ReadShowsWrites
  <1> QED
    BY <1>1, <1>2, <1>3, <1>4, <1>7

LEMMA DeferIInv == IInv /\ Defer => IInv'
  <1> SUFFICES ASSUME IInv, Defer PROVE IInv'
    OBVIOUS
  <1> USE DEF IInv, Defer
  <1>1. TypeOK'
    BY DEF TypeOK, Row
  <1>2. StepsTimely'
    BY DEF StepsTimely
  <1>3. RecordsCover'
    BY RecordsKept
  <1>4. NothingSinceDeferral'
    BY DEF NothingSinceDeferral, StampedBy, RowTime, RecordsCover, TypeOK
  <1>5. ReadShowsWrites'
    BY DEF ReadShowsWrites
  <1> QED
    BY <1>1, <1>2, <1>3, <1>4, <1>5

LEMMA TakeSentAtIInv == IInv /\ TakeSentAt => IInv'
  <1> SUFFICES ASSUME IInv, TakeSentAt PROVE IInv'
    OBVIOUS
  <1> USE DEF IInv, TakeSentAt
  <1>1. TypeOK'
    BY DEF TypeOK, Row
  <1>2. StepsTimely'
    BY Constants DEF StepsTimely, TypeOK, None
  <1>3. RecordsCover'
    BY RecordsKept
  <1>4. NothingSinceDeferral'
    BY DEF NothingSinceDeferral
  <1>5. ReadShowsWrites'
    BY DEF ReadShowsWrites
  <1> QED
    BY <1>1, <1>2, <1>3, <1>4, <1>5

(* A write is recorded within RecordTimeout of the time its record gives,   *)
(* so its request, which may stay in flight for YouTubeTimeout, is within   *)
(* Margin of that time.                                                     *)
LEMMA BeginWriteIInv == IInv /\ BeginWrite => IInv'
  <1> SUFFICES ASSUME IInv, BeginWrite PROVE IInv'
    OBVIOUS
  <1> USE DEF IInv, BeginWrite
  <1> DEFINE new == [id |-> writes + 1, sent |-> Timestamp(sentAt), settled |-> None]
  <1>1. /\ sentAt \in Nat /\ now \in Nat /\ writes \in Nat
        /\ sentAt <= now /\ now <= sentAt + RecordTimeout
    BY DEF StepsTimely, TypeOK, None
  <1>2. /\ Timestamp(sentAt) \in Nat
        /\ sentAt <= Timestamp(sentAt) + (Second - 1)
    BY <1>1, TimestampNat, TimestampBounds
  <1>3. new \in rows' /\ rows' = rows \cup {new} /\ RowTime(new) = Timestamp(sentAt)
    BY DEF RowTime
  <1>4. TypeOK'
    <2>1. rows' \subseteq Row'
      BY <1>1, <1>2 DEF TypeOK, Row
    <2> QED
      BY <1>1, <2>1, Constants DEF TypeOK
  <1>5. StepsTimely'
    BY <1>1, Constants DEF StepsTimely, None
  <1>6. RecordsCover'
    <2>1. \A row \in rows' : RowTime(row)' = RowTime(row)
      BY DEF RowTime
    <2>2. flight' <= RowTime(new) + Margin
      BY <1>1, <1>2, <1>3, Constants DEF Margin
    <2>3. Covered(flight)'
      BY <1>3, <2>1, <2>2 DEF Covered
    <2>4. Covered(landed)'
      BY <1>3, <2>1 DEF RecordsCover, Covered
    <2>5. StampedBy(now)'
      BY <1>1, <1>3, <2>1 DEF RecordsCover, StampedBy
    <2>6. \E row \in rows' : row.id = writes'
      BY <1>3
    <2> QED
      BY <2>3, <2>4, <2>5, <2>6 DEF RecordsCover
  <1>7. NothingSinceDeferral'
    BY DEF NothingSinceDeferral
  <1>8. ReadShowsWrites'
    BY DEF ReadShowsWrites
  <1> QED
    BY <1>4, <1>5, <1>6, <1>7, <1>8

LEMMA LandIInv == IInv /\ Land => IInv'
  <1> SUFFICES ASSUME IInv, Land PROVE IInv'
    OBVIOUS
  <1> USE DEF IInv, Land
  <1>1. TypeOK'
    BY DEF TypeOK, Row
  <1>2. StepsTimely'
    BY DEF StepsTimely, TypeOK
  <1>3. RecordsCover'
    <2>1. Covered(now)
      <3>1. flight \in Nat /\ now \in Nat /\ now <= flight
        BY DEF TypeOK, StepsTimely, None
      <3>2. PICK row \in rows : flight <= RowTime(row) + Margin
        BY DEF RecordsCover, Covered
      <3>3. RowTime(row) + Margin \in Nat
        BY RowTimeNat, Constants
      <3>4. now <= RowTime(row) + Margin
        BY <3>1, <3>2, <3>3
      <3> QED
        BY <3>4 DEF Covered
    <2> QED
      BY <2>1 DEF RecordsCover, Covered, StampedBy, RowTime
  <1>4. NothingSinceDeferral'
    BY DEF NothingSinceDeferral, StampedBy, RowTime
  <1>5. ReadShowsWrites'
    BY DEF ReadShowsWrites
  <1> QED
    BY <1>1, <1>2, <1>3, <1>4, <1>5

LEMMA LoseIInv == IInv /\ Lose => IInv'
  <1> SUFFICES ASSUME IInv, Lose PROVE IInv'
    OBVIOUS
  <1> USE DEF IInv, Lose
  <1>1. TypeOK'
    BY DEF TypeOK, Row
  <1>2. StepsTimely'
    BY DEF StepsTimely
  <1>3. RecordsCover'
    BY RecordsKept
  <1>4. NothingSinceDeferral'
    BY DEF NothingSinceDeferral, StampedBy, RowTime
  <1>5. ReadShowsWrites'
    BY DEF ReadShowsWrites
  <1> QED
    BY <1>1, <1>2, <1>3, <1>4, <1>5

(* The settled record's time is now, cut to the second, and nothing in      *)
(* flight or landed is later than YouTubeTimeout from now: it covers all.   *)
LEMMA SettleIInv == IInv /\ Settle => IInv'
  <1> SUFFICES ASSUME IInv, Settle PROVE IInv'
    OBVIOUS
  <1> USE DEF IInv, Settle
  <1> DEFINE Done(row) == IF row.id = writes
                          THEN [row EXCEPT !.settled = Timestamp(now)] ELSE row
  <1>1. now \in Nat /\ Timestamp(now) \in Nat /\ now <= Timestamp(now) + (Second - 1)
    BY TimestampNat, TimestampBounds DEF TypeOK
  <1>2. \A row \in rows : row \in Row
    BY DEF TypeOK
  <1>3. \A row \in rows : Done(row) \in Row
    BY <1>1, <1>2 DEF Row
  <1>4. rows' = {Done(row) : row \in rows}
    OBVIOUS
  <1>5. TypeOK'
    BY <1>1, <1>3, <1>4 DEF TypeOK, Row
  <1>6. StepsTimely'
    BY DEF StepsTimely, TypeOK
  <1>7. \A row \in rows : /\ RowTime(Done(row))' = RowTime(Done(row))
                          /\ row.id = writes => RowTime(Done(row)) = Timestamp(now)
                          /\ row.id # writes => RowTime(Done(row)) = RowTime(row)
    <2>1. \A row \in Row : row.id = writes => Done(row).settled = Timestamp(now)
      BY DEF Row
    <2>2. Timestamp(now) # None
      BY <1>1 DEF None
    <2> QED
      BY <1>2, <2>1, <2>2 DEF RowTime
  <1>8. PICK last \in rows : last.id = writes
    BY DEF RecordsCover
  <1>9. Done(last) \in rows' /\ RowTime(Done(last))' = Timestamp(now)
    BY <1>4, <1>7, <1>8
  <1>10. RecordsCover'
    <2>1. \A t \in Nat : t <= now + YouTubeTimeout => t <= Timestamp(now) + Margin
      BY <1>1, Constants DEF Margin
    <2>2. flight # None => flight' <= Timestamp(now) + Margin
      BY <1>1, <2>1 DEF StepsTimely, TypeOK
    <2>3. landed # None => landed' <= Timestamp(now) + Margin
      BY <1>1, <2>1, Constants DEF StepsTimely, TypeOK
    <2>4. Covered(flight)'
      BY <1>9, <2>2 DEF Covered
    <2>5. Covered(landed)'
      BY <1>9, <2>3 DEF Covered
    <2>6. StampedBy(now)'
      <3> SUFFICES ASSUME NEW row \in rows
                   PROVE  \E s \in Nat : s <= now' /\ RowTime(Done(row))' = Timestamp(s)
        BY <1>4 DEF StampedBy
      <3>1. CASE row.id = writes
        BY <1>1, <1>7, <3>1
      <3>2. CASE row.id # writes
        BY <1>7, <3>2 DEF RecordsCover, StampedBy
      <3> QED
        BY <3>1, <3>2
    <2>7. pc' # "sending"
      OBVIOUS
    <2> QED
      BY <2>4, <2>5, <2>6, <2>7 DEF RecordsCover
  <1>11. NothingSinceDeferral'
    BY DEF NothingSinceDeferral
  <1>12. ReadShowsWrites'
    BY DEF ReadShowsWrites
  <1> QED
    BY <1>5, <1>6, <1>10, <1>11, <1>12

LEMMA PassEndsIInv == IInv /\ PassEnds => IInv'
  <1> SUFFICES ASSUME IInv, PassEnds PROVE IInv'
    OBVIOUS
  <1> USE DEF IInv, PassEnds
  <1>1. TypeOK'
    BY DEF TypeOK, Row
  <1>2. StepsTimely'
    BY DEF StepsTimely
  <1>3. RecordsCover'
    BY RecordsKept
  <1>4. NothingSinceDeferral'
    BY DEF NothingSinceDeferral, StampedBy, RowTime
  <1>5. ReadShowsWrites'
    BY DEF ReadShowsWrites
  <1> QED
    BY <1>1, <1>2, <1>3, <1>4, <1>5

LEMMA StutterIInv == IInv /\ UNCHANGED vars => IInv'
  BY DEF vars, IInv, TypeOK, Row, StepsTimely, RecordsCover, Covered, StampedBy,
         RowTime, NothingSinceDeferral, ReadShowsWrites

LEMMA NextIInv == IInv /\ [Next]_vars => IInv'
  BY TickIInv, ReadToMergeIInv, DeferIInv, TakeSentAtIInv, BeginWriteIInv, LandIInv,
     LoseIInv, SettleIInv, PassEndsIInv, StutterIInv DEF Next

-----------------------------------------------------------------------------
(* Every variable keeps its type, for every lag and timeout.                *)
THEOREM TypesHold == Spec => []TypeOK
  <1>1. Init => IInv
    BY InitIInv
  <1>2. IInv /\ [Next]_vars => IInv'
    BY NextIInv
  <1>3. IInv => TypeOK
    BY DEF IInv
  <1> QED
    BY <1>1, <1>2, <1>3, PTL DEF Spec

(* Whatever answers are lost and wherever the process stops, the read a     *)
(* merge is made from shows every write the server made before it, and none *)
(* is still in flight: ItemWritesSince and the timeouts of push.go are      *)
(* enough while the true lag and they fit in ReadLag.                       *)
THEOREM MergeReadsAreWhole == Spec => []ReadShowsWrites
  <1>1. Init => IInv
    BY InitIInv
  <1>2. IInv /\ [Next]_vars => IInv'
    BY NextIInv
  <1>3. IInv => ReadShowsWrites
    BY DEF IInv
  <1> QED
    BY <1>1, <1>2, <1>3, PTL DEF Spec

LEMMA RetryFollows == IInv => RetryIsInTime
  <1> SUFFICES ASSUME IInv, deferredAt # None, now >= deferredAt + ReadLag,
                      NEW row \in rows
               PROVE  ~(RowTime(row) > Timestamp(now - ReadLag))
    BY DEF RetryIsInTime, ItemWritesSince
  <1>1. deferredAt \in Nat /\ now \in Nat /\ StampedBy(deferredAt)
    BY DEF IInv, TypeOK, NothingSinceDeferral
  <1>2. PICK s \in Nat : s <= deferredAt /\ RowTime(row) = Timestamp(s)
    BY <1>1 DEF StampedBy
  <1>3. now - ReadLag \in Int /\ s <= now - ReadLag
    BY <1>1, <1>2, Constants
  <1>4. Timestamp(s) <= Timestamp(now - ReadLag)
    BY <1>3, TimestampMonotone
  <1>5. Timestamp(s) \in Int /\ Timestamp(now - ReadLag) \in Int
    BY <1>3, TimestampBounds
  <1> QED
    BY <1>2, <1>4, <1>5

(* A read put off for a recent write is put off once: the retry, ReadLag    *)
(* later, finds no record too recent unless another write was made.         *)
THEOREM PutOffOnce == Spec => []RetryIsInTime
  <1>1. Init => IInv
    BY InitIInv
  <1>2. IInv /\ [Next]_vars => IInv'
    BY NextIInv
  <1>3. IInv => RetryIsInTime
    BY RetryFollows
  <1> QED
    BY <1>1, <1>2, <1>3, PTL DEF Spec
=============================================================================
