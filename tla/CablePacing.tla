---------------------------- MODULE CablePacing -----------------------------
(***************************************************************************)
(* The pacing of the loop of cable.c: one turn per byte time, against a    *)
(* schedule that does not depend on how long the turns take.               *)
(***************************************************************************)
EXTENDS Timespec

CONSTANTS ByteDelays,  \* nanoseconds per byte, of the baud rates
          WorkTimes,   \* what the body of the loop may take
          WakeDelays,  \* by how much nanosleep may return late
          Lag,         \* the most that a turn may take beyond its wait
          StartTimes,  \* the clock when the loop begins
          Horizon      \* the clock after which no turn is modelled

ASSUME PacingAssumption ==
    /\ ByteDelays \subseteq 1..Second - 1
    /\ WorkTimes \subseteq Nat /\ WakeDelays \subseteq Nat /\ Lag \in Nat
    /\ StartTimes \subseteq Nat /\ Horizon \in Nat
    /\ \A w \in WorkTimes : \A d \in ByteDelays : w <= d
    /\ \A w \in WorkTimes : \A l \in WakeDelays : w + l <= Lag

VARIABLES pc,         \* top, work or wait
          clock,      \* CLOCK_MONOTONIC
          byteDelay, currentTime, nextTxTime, nextWait, skipWait,
          due         \* history: the start and the byte delays since then
vars == <<pc, clock, byteDelay, currentTime, nextTxTime, nextWait, skipWait, due>>

Init == /\ pc = "top" /\ clock \in StartTimes /\ byteDelay \in ByteDelays
        /\ currentTime = TimeOf(clock) /\ nextTxTime = TimeOf(clock)
        /\ nextWait = TimeOf(0) /\ skipWait = FALSE
        /\ due = clock

(* The start of a turn.  The byte delay has no seconds. *)
AfterNow(d)  == timespec_sum(TimeOf(clock), TimeOf(d))  \* mutant: the schedule slips
AfterLast(d) == timespec_sum(nextTxTime, TimeOf(d))

Paces == /\ pc = "top" /\ clock < Horizon
         /\ pc' = "work"
         /\ currentTime' = TimeOf(clock)
         /\ nextTxTime' = AfterLast(byteDelay)
         /\ nextWait' = timespec_diff(nextTxTime', currentTime')
         /\ skipWait' = timespec_is_negative(nextWait')
         /\ due' = due + byteDelay
         /\ UNCHANGED <<clock, byteDelay>>

(* The exchange of the bytes and the command, which may be baud.           *)
Works == /\ pc = "work"
         /\ pc' = "wait"
         /\ \E w \in WorkTimes : clock' = clock + w
         /\ byteDelay' \in ByteDelays
         /\ UNCHANGED <<currentTime, nextTxTime, nextWait, skipWait, due>>

Waits == /\ pc = "wait" /\ ~skipWait
         /\ pc' = "top"
         /\ \E l \in WakeDelays : clock' = clock + Nanoseconds(nextWait) + l
         /\ UNCHANGED <<byteDelay, currentTime, nextTxTime, nextWait, skipWait, due>>

Skips == /\ pc = "wait" /\ skipWait
         /\ pc' = "top"
         /\ UNCHANGED <<clock, byteDelay, currentTime, nextTxTime, nextWait, skipWait, due>>

Next == Paces \/ Works \/ Waits \/ Skips

Spec == Init /\ [][Next]_vars

(* nextWait is a time nanosleep takes: the schedule stays normal through   *)
(* every carry and borrow, and no wait is negative.                        *)
TimesOK == /\ pc \in {"top", "work", "wait"} /\ clock \in Nat /\ due \in Nat
           /\ byteDelay \in ByteDelays /\ skipWait \in BOOLEAN
           /\ currentTime \in Normal /\ nextTxTime \in Normal /\ nextWait \in Normal
           /\ ~skipWait => nextWait.tv_sec >= 0

(* A turn never begins before its place in the schedule, so the cable is   *)
(* on the whole never faster than the baud rates allow, and never later    *)
(* than one turn's delay: lateness does not add up over the turns.         *)
OnSchedule == pc = "top" => clock - due \in 0..Lag

(* The strengthening of both that every step preserves: nextTxTime is the  *)
(* schedule, the turn began at most Lag after its place in it, and the     *)
(* wait is what was left of the byte time when it began.                   *)
Begun == Nanoseconds(currentTime)

Turn == /\ Nanoseconds(nextWait) = due - Begun
        /\ skipWait = (due < Begun)
        /\ \E d \in ByteDelays : Begun - (due - d) \in 0..Lag
        /\ pc = "work" => clock = Begun
        /\ pc = "wait" => \E w \in WorkTimes : clock = Begun + w

PacingInv == /\ Nanoseconds(nextTxTime) = due
             /\ OnSchedule
             /\ pc # "top" => Turn
=============================================================================
