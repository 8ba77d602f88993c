------------------------- MODULE CablePacingProofs --------------------------
(***************************************************************************)
(* For every set of baud rates, every duration of the turns and every      *)
(* delay of nanosleep that PacingAssumption allows, the loop of the cable  *)
(* keeps its schedule.                                                     *)
(***************************************************************************)
EXTENDS CablePacing, TLAPS

(* The number of nanoseconds in a second, all that the rest needs of it.   *)
LEMMA SecondType == Second \in Nat \ {0}
BY SMT DEF Second

(* The fields of a normal time. *)
LEMMA Normals ==
    \A t \in Normal :
        t.tv_sec \in Int /\ t.tv_nsec \in Int /\ 0 <= t.tv_nsec /\ t.tv_nsec < Second
BY SecondType DEF Normal

LEMMA NanosecondsType == \A t \in Normal : Nanoseconds(t) \in Int
BY SecondType, Normals DEF Nanoseconds

(* A record built with normal fields is a normal time. *)
LEMMA Fields ==
    ASSUME NEW s \in Int, NEW n \in 0..Second - 1
    PROVE  /\ [tv_sec |-> s, tv_nsec |-> n] \in Normal
           /\ Nanoseconds([tv_sec |-> s, tv_nsec |-> n]) = s * Second + n
BY DEF Normal, Nanoseconds

(* The reading of a clock is normal and means what the clock says.         *)
LEMMA TimeOfMeans ==
    ASSUME NEW n \in Int
    PROVE  TimeOf(n) \in Normal /\ Nanoseconds(TimeOf(n)) = n
BY SecondType, Fields DEF TimeOf

(* timespec_sum and timespec_diff are addition and subtraction, and their  *)
(* carry and borrow keep the result normal, a negative one too.            *)
LEMMA SumMeans ==
    ASSUME NEW t1 \in Normal, NEW t2 \in Normal
    PROVE  /\ timespec_sum(t1, t2) \in Normal
           /\ Nanoseconds(timespec_sum(t1, t2)) = Nanoseconds(t1) + Nanoseconds(t2)
<1>1. CASE t1.tv_nsec + t2.tv_nsec >= Second
  BY <1>1, SecondType, Normals, Fields DEF timespec_sum, Nanoseconds
<1>2. CASE ~(t1.tv_nsec + t2.tv_nsec >= Second)
  BY <1>2, SecondType, Normals, Fields DEF timespec_sum, Nanoseconds
<1> QED
  BY <1>1, <1>2

LEMMA DiffMeans ==
    ASSUME NEW t1 \in Normal, NEW t2 \in Normal
    PROVE  /\ timespec_diff(t2, t1) \in Normal
           /\ Nanoseconds(timespec_diff(t2, t1)) = Nanoseconds(t2) - Nanoseconds(t1)
<1>1. CASE t2.tv_nsec - t1.tv_nsec < 0
  BY <1>1, SecondType, Normals, Fields DEF timespec_diff, Nanoseconds
<1>2. CASE ~(t2.tv_nsec - t1.tv_nsec < 0)
  BY <1>2, SecondType, Normals, Fields DEF timespec_diff, Nanoseconds
<1> QED
  BY <1>1, <1>2

(* timespec_is_negative looks at the sign of a normal time.                *)
LEMMA NegativeMeans ==
    ASSUME NEW t \in Normal
    PROVE  timespec_is_negative(t) = (Nanoseconds(t) < 0)
BY SecondType, Normals DEF timespec_is_negative, Nanoseconds

(* The types and the schedule at the start of the loop.                    *)
LEMMA PacingInit == Init => TimesOK /\ PacingInv
<1> SUFFICES ASSUME Init PROVE TimesOK /\ PacingInv
  OBVIOUS
<1> USE PacingAssumption
<1>1. clock \in Nat
  BY DEF Init
<1>2. /\ TimeOf(clock) \in Normal /\ Nanoseconds(TimeOf(clock)) = clock
      /\ TimeOf(0) \in Normal
  BY <1>1, TimeOfMeans
<1>3. TimesOK
  <2>1. TimeOf(0).tv_sec >= 0
    BY SecondType DEF TimeOf
  <2> QED
    BY <2>1, <1>1, <1>2 DEF Init, TimesOK
<1>4. PacingInv
  BY <1>2 DEF Init, PacingInv, OnSchedule
<1> QED
  BY <1>3, <1>4

(* The start of a turn: the schedule advances by one byte time, and the    *)
(* wait is measured against it.                                            *)
LEMMA PacesKeeps == TimesOK /\ PacingInv /\ Paces => TimesOK' /\ PacingInv'
<1> SUFFICES ASSUME TimesOK, PacingInv, Paces PROVE TimesOK' /\ PacingInv'
  OBVIOUS
<1> USE PacingAssumption
<1>1. /\ clock \in Nat /\ due \in Nat /\ byteDelay \in ByteDelays /\ byteDelay \in Nat
      /\ nextTxTime \in Normal /\ Nanoseconds(nextTxTime) = due
      /\ clock - due \in 0..Lag
  BY DEF TimesOK, PacingInv, OnSchedule, Paces
<1>2. currentTime' \in Normal /\ Begun' = clock
  BY <1>1, TimeOfMeans DEF Paces, Begun
<1>3. TimeOf(byteDelay) \in Normal /\ Nanoseconds(TimeOf(byteDelay)) = byteDelay
  BY <1>1, TimeOfMeans
<1>4. nextTxTime' \in Normal /\ Nanoseconds(nextTxTime') = due'
  BY <1>1, <1>3, SumMeans DEF Paces, AfterLast
<1>5. nextWait' \in Normal /\ Nanoseconds(nextWait') = due' - clock
  BY <1>2, <1>4, DiffMeans DEF Paces, Begun
<1>6. due' \in Nat /\ due' = due + byteDelay
  BY <1>1 DEF Paces
<1>7. skipWait' = (due' < clock)
  <2>1. skipWait' = (Nanoseconds(nextWait') < 0)
    BY <1>5, NegativeMeans DEF Paces
  <2> QED
    BY <2>1, <1>1, <1>5, <1>6
<1>8. ~skipWait' => nextWait'.tv_sec >= 0
  <2>1. nextWait'.tv_sec \in Int
    BY <1>5, Normals
  <2>2. skipWait' \/ ~(nextWait'.tv_sec < 0)
    BY DEF Paces, timespec_is_negative
  <2>3. ~(nextWait'.tv_sec < 0) => nextWait'.tv_sec >= 0
    BY <2>1
  <2> QED
    BY <2>2, <2>3
<1>9. TimesOK'
  BY <1>1, <1>2, <1>4, <1>5, <1>6, <1>7, <1>8 DEF TimesOK, Paces
<1>10. Turn'
  <2>1. clock - (due' - byteDelay) \in 0..Lag
    BY <1>1, <1>6
  <2> QED
    BY <2>1, <1>1, <1>2, <1>5, <1>7 DEF Turn, Paces
<1> QED
  BY <1>4, <1>9, <1>10 DEF PacingInv, OnSchedule, Paces

(* The body of the loop takes no longer than a byte.                       *)
LEMMA WorksKeeps == TimesOK /\ PacingInv /\ Works => TimesOK' /\ PacingInv'
<1> SUFFICES ASSUME TimesOK, PacingInv, Works PROVE TimesOK' /\ PacingInv'
  OBVIOUS
<1> USE PacingAssumption
<1>1. TimesOK'
  BY DEF TimesOK, Works
<1>2. Turn'
  BY DEF PacingInv, Turn, Begun, Works
<1> QED
  BY <1>1, <1>2 DEF PacingInv, OnSchedule, Works

(* A turn that waited ends on time, up to its own delay.                   *)
LEMMA WaitsKeeps == TimesOK /\ PacingInv /\ Waits => TimesOK' /\ PacingInv'
<1> SUFFICES ASSUME TimesOK, PacingInv, Waits PROVE TimesOK' /\ PacingInv'
  OBVIOUS
<1> USE PacingAssumption
<1>1. /\ Turn /\ pc = "wait" /\ skipWait = FALSE /\ due \in Nat
      /\ Begun \in Int
  BY NanosecondsType DEF PacingInv, Waits, TimesOK, Begun
<1>2. PICK w \in WorkTimes : clock = Begun + w
  BY <1>1 DEF Turn
<1>3. PICK l \in WakeDelays : clock' = clock + Nanoseconds(nextWait) + l
  BY DEF Waits
<1>4. Nanoseconds(nextWait) = due - Begun
  BY <1>1 DEF Turn
<1>5. w \in Nat /\ l \in Nat /\ w + l \in 0..Lag
  OBVIOUS
<1>6. clock' = due + (w + l)
  BY <1>1, <1>2, <1>3, <1>4, <1>5
<1>7. clock' \in Nat /\ clock' - due \in 0..Lag
  BY <1>1, <1>5, <1>6
<1>8. TimesOK'
  BY <1>7 DEF TimesOK, Waits
<1> QED
  BY <1>7, <1>8 DEF PacingInv, OnSchedule, Waits

(* A turn that was late already is not later after it.                     *)
LEMMA SkipsKeeps == TimesOK /\ PacingInv /\ Skips => TimesOK' /\ PacingInv'
<1> SUFFICES ASSUME TimesOK, PacingInv, Skips PROVE TimesOK' /\ PacingInv'
  OBVIOUS
<1> USE PacingAssumption
<1>1. /\ Turn /\ pc = "wait" /\ skipWait = TRUE /\ due \in Nat
      /\ Begun \in Int
  BY NanosecondsType DEF PacingInv, Skips, TimesOK, Begun
<1>2. PICK w \in WorkTimes : clock = Begun + w
  BY <1>1 DEF Turn
<1>3. PICK d \in ByteDelays : Begun - (due - d) \in 0..Lag
  BY <1>1 DEF Turn
<1>4. w \in Nat /\ d \in Nat /\ w <= d /\ due < Begun
  <2>1. d \in 1..Second - 1 /\ w \in Nat /\ w <= d
    OBVIOUS
  <2>2. due < Begun
    BY <1>1 DEF Turn
  <2> QED
    BY <2>1, <2>2, SecondType
<1>5. clock - due \in 0..Lag
  BY <1>1, <1>2, <1>3, <1>4
<1>6. TimesOK'
  BY DEF TimesOK, Skips
<1> QED
  BY <1>5, <1>6 DEF PacingInv, OnSchedule, Skips

LEMMA PacingNext == TimesOK /\ PacingInv /\ [Next]_vars => TimesOK' /\ PacingInv'
<1> SUFFICES ASSUME TimesOK, PacingInv, [Next]_vars PROVE TimesOK' /\ PacingInv'
  OBVIOUS
<1>1. CASE Paces
  BY <1>1, PacesKeeps
<1>2. CASE Works
  BY <1>2, WorksKeeps
<1>3. CASE Waits
  BY <1>3, WaitsKeeps
<1>4. CASE Skips
  BY <1>4, SkipsKeeps
<1>5. CASE UNCHANGED vars
  BY <1>5 DEF vars, TimesOK, PacingInv, OnSchedule, Turn, Begun
<1> QED
  BY <1>1, <1>2, <1>3, <1>4, <1>5 DEF Next

(* The schedule of the cable and its strengthening hold in every turn.     *)
THEOREM PacingCorrect == Spec => [](TimesOK /\ PacingInv)
BY PacingInit, PacingNext, PTL DEF Spec

(* The times of the cable's loop stay normal, and no negative wait is      *)
(* handed to nanosleep.                                                    *)
THEOREM TimesOKHolds == Spec => []TimesOK
BY PacingCorrect, PTL

(* No turn of the cable's loop begins before its place in the schedule or  *)
(* more than Lag after it, however many turns there were.                  *)
THEOREM OnScheduleHolds == Spec => []OnSchedule
<1>1. PacingInv => OnSchedule
  BY DEF PacingInv
<1> QED
  BY <1>1, PacingCorrect, PTL
=============================================================================
