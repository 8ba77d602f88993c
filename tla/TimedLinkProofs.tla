-------------------------- MODULE TimedLinkProofs --------------------------
(***************************************************************************)
(* Proofs about TimedLink, for every file, every number of attempts and    *)
(* idle reads, and every time on the line, time-out and pause that satisfy *)
(* its assumptions.                                                        *)
(***************************************************************************)
EXTENDS TimedLink, StopAndWaitProofs, FiniteSetTheorems

(* Tuples of variables and sets of places are expanded everywhere. *)
USE DEF mainVars, kept, Acknowledged, Unsized, ReceiverListens

(***************************************************************************)
(* A direction of the line with the ages of its frames.                    *)
(***************************************************************************)
Queue(q, ages, S) == /\ q \in Seq(S) /\ ages \in Seq(0..Delay)
                     /\ Len(ages) = Len(q)
                     /\ AllButNewestArrived(ages)

(* What the operations on a direction leave behind. *)
Joined(q2, a2, q, e)  == /\ Len(q2) = Len(q) + 1 /\ q2 # << >>
                         /\ Newest(q2) = e /\ Newest(a2) = 0
Reduced(q2, a2, q, a) == /\ Len(q2) \in Nat /\ Len(q2) <= Len(q)
                         /\ q2 # << >> => /\ q # << >> /\ Newest(q2) = Newest(q)
                                          /\ Newest(a2) = Newest(a)
Grown(a2, q, a)       == q # << >> => Newest(a2) = IF Newest(a) < Delay
                                                   THEN Newest(a) + 1 ELSE Delay

LEMMA Times == /\ Delay \in Nat \ {0} /\ SndVtime \in Nat \ {0} /\ RcvVtime \in Nat \ {0}
               /\ Nap \in Nat \ {0} /\ Pause \in Nat
               /\ SndVtime > 2 * Delay /\ Pause > 2 * Delay
  BY TimedAssumption

LEMMA NewestIsIn ==
    ASSUME NEW S, NEW q, NEW ages, Queue(q, ages, S)
    PROVE  /\ Len(q) \in Nat /\ (q = << >> <=> Len(q) = 0) /\ (ages = << >> <=> Len(q) = 0)
           /\ q # << >> => Newest(q) \in S /\ Newest(ages) \in 0..Delay
           /\ Len(q) = 1 => Head(q) = Newest(q) /\ Head(ages) = Newest(ages)
<1>1. q \in Seq(S) /\ ages \in Seq(0..Delay) /\ Len(ages) = Len(q)
  BY DEF Queue
<1>2. Len(q) \in Nat /\ (q = << >> <=> Len(q) = 0) /\ (ages = << >> <=> Len(q) = 0)
  BY <1>1, LenProperties, EmptySeq
<1>3. ASSUME q # << >>
      PROVE  Newest(q) \in S /\ Newest(ages) \in 0..Delay
  <2>1. Len(q) \in 1..Len(q)
    BY <1>2, <1>3
  <2>2. q[Len(q)] \in S
    BY <1>1, <2>1
  <2>3. ages[Len(ages)] \in 0..Delay
    BY <1>1, <2>1, ElementOfSeq
  <2> QED BY <2>2, <2>3 DEF Newest
<1>4. ASSUME Len(q) = 1
      PROVE  Head(q) = Newest(q) /\ Head(ages) = Newest(ages)
  BY <1>1, <1>2, <1>4, TailShifts DEF Newest
<1> QED BY <1>2, <1>3, <1>4

LEMMA Enters ==
    ASSUME NEW S, NEW q, NEW ages, NEW e \in S, Queue(q, ages, S),
           q # << >> => Newest(ages) = Delay
    PROVE  /\ Queue(Append(q, e), Append(ages, 0), S)
           /\ Joined(Append(q, e), Append(ages, 0), q, e)
<1>1. 0 \in 0..Delay
  BY Times
<1>2. /\ Append(q, e) \in Seq(S) /\ Len(Append(q, e)) = Len(q) + 1
      /\ Append(q, e)[Len(q) + 1] = e
  BY AppendExtends DEF Queue
<1>3. /\ Append(ages, 0) \in Seq(0..Delay) /\ Len(Append(ages, 0)) = Len(q) + 1
      /\ Append(ages, 0)[Len(q) + 1] = 0
      /\ \A i \in 1..Len(q) : Append(ages, 0)[i] = ages[i]
  BY <1>1, AppendExtends DEF Queue
<1>4. Append(q, e) # << >>
  BY <1>2, NewestIsIn, EmptySeq
<1>5. \A i \in 1..Len(q) : ages[i] = Delay
  BY NewestIsIn DEF Queue, AllButNewestArrived, Newest
<1>6. AllButNewestArrived(Append(ages, 0))
  BY <1>3, <1>5, NewestIsIn DEF AllButNewestArrived
<1> QED BY <1>2, <1>3, <1>4, <1>6 DEF Queue, Joined, Newest

LEMMA Leaves ==
    ASSUME NEW S, NEW q, NEW ages, Queue(q, ages, S), q # << >>
    PROVE  /\ Queue(Tail(q), Tail(ages), S) /\ Len(Tail(q)) = Len(q) - 1
           /\ Reduced(Tail(q), Tail(ages), q, ages)
<1>1. ages # << >> /\ q \in Seq(S) /\ ages \in Seq(0..Delay) /\ Len(ages) = Len(q)
  BY NewestIsIn DEF Queue
<1>2. /\ Tail(q) \in Seq(S) /\ Len(Tail(q)) = Len(q) - 1 /\ Len(q) \in Nat /\ Len(q) >= 1
      /\ \A i \in 1..Len(q) - 1 : Tail(q)[i] = q[i + 1]
  BY <1>1, TailShifts
<1>3. /\ Tail(ages) \in Seq(0..Delay) /\ Len(Tail(ages)) = Len(q) - 1
      /\ \A i \in 1..Len(q) - 1 : Tail(ages)[i] = ages[i + 1]
  BY <1>1, TailShifts
<1>4. AllButNewestArrived(Tail(ages))
  BY <1>2, <1>3 DEF Queue, AllButNewestArrived
<1>5. ASSUME Tail(q) # << >>
      PROVE  Newest(Tail(q)) = Newest(q) /\ Newest(Tail(ages)) = Newest(ages)
  <2>1. Len(q) - 1 \in 1..Len(q) - 1
    BY <1>2, <1>5, EmptySeq
  <2> QED BY <1>1, <1>2, <1>3, <2>1 DEF Newest
<1> QED BY <1>1, <1>2, <1>3, <1>4, <1>5 DEF Queue, Reduced

(* tcflush leaves the newest frame if it is under way, and no other.       *)
LEMMA Flushes ==
    ASSUME NEW S, NEW q, NEW ages, Queue(q, ages, S)
    PROVE  /\ Queue(Flushed(q, ages), Aged(q, Flushed(q, ages), ages), S)
           /\ Reduced(Flushed(q, ages), Aged(q, Flushed(q, ages), ages), q, ages)
           /\ Len(Flushed(q, ages)) <= 1
           /\ Flushed(q, ages) # << >> => Newest(ages) < Delay
<1>1. /\ q \in Seq(S) /\ ages \in Seq(0..Delay) /\ Len(ages) = Len(q)
      /\ Len(q) \in Nat
  BY NewestIsIn DEF Queue
<1>5. DOMAIN ages = 1..Len(q) /\ \A i \in 1..Len(q) : ages[i] \in 0..Delay /\ q[i] \in S
  BY <1>1, LenProperties
<1>2. \A i \in 1..Len(q) - 1 : ages[i] = Delay
  BY <1>1 DEF Queue, AllButNewestArrived
<1>3. CASE q = << >> \/ Newest(ages) = Delay
  <2>1. UnderWay(ages) = {}
    BY <1>1, <1>5, <1>2, <1>3, Times, EmptySeq DEF UnderWay, Newest
  <2>2. Flushed(q, ages) = << >>
    BY <1>1, <2>1, FS_EmptySet, SubSeqEmpty DEF Flushed
  <2>3. Len(Flushed(q, ages)) = 0
    BY <2>2, EmptySeq
  <2>4. Aged(q, Flushed(q, ages), ages) = << >>
    BY <1>1, <2>3, SubSeqEmpty DEF Aged
  <2>5. Queue(<< >>, << >>, S)
    BY EmptySeq DEF Queue, AllButNewestArrived
  <2> QED BY <1>1, <2>2, <2>3, <2>4, <2>5 DEF Reduced
<1>4. CASE q # << >> /\ Newest(ages) # Delay
  <2>1. Len(q) >= 1 /\ ages[Len(q)] < Delay
    BY <1>1, <1>5, <1>4, Times, EmptySeq DEF Newest
  <2>2. UnderWay(ages) = {Len(q)}
    BY <1>1, <1>5, <1>2, <2>1, Times DEF UnderWay
  <2>3. Flushed(q, ages) = SubSeq(q, Len(q), Len(q))
    <3>1. Cardinality({Len(q)}) = 1
      BY FS_Singleton, Zenon
    <3>2. Len(q) - 1 + 1 = Len(q)
      BY <1>1
    <3> QED BY <2>2, <3>1, <3>2 DEF Flushed
  <2>4. /\ Flushed(q, ages) \in Seq(S) /\ Len(Flushed(q, ages)) = 1
        /\ Flushed(q, ages)[1] = q[Len(q)]
    BY <1>1, <1>5, <2>1, <2>3, SubSeqProperties
  <2>5. Aged(q, Flushed(q, ages), ages) = SubSeq(ages, Len(q), Len(q))
    BY <1>1, <2>1, <2>4 DEF Aged
  <2>6. /\ Aged(q, Flushed(q, ages), ages) \in Seq(0..Delay)
        /\ Len(Aged(q, Flushed(q, ages), ages)) = 1
        /\ Aged(q, Flushed(q, ages), ages)[1] = ages[Len(q)]
    BY <1>1, <1>5, <2>1, <2>5, SubSeqProperties
  <2> QED BY <1>1, <1>4, <2>1, <2>4, <2>6 DEF Queue, Reduced, AllButNewestArrived, Newest
<1> QED BY <1>3, <1>4

LEMMA FunctionIsSequence ==
    ASSUME NEW S, NEW n \in Nat, NEW f \in [1..n -> S]
    PROVE  f \in Seq(S) /\ Len(f) = n
  BY LenProperties

LEMMA OneAtMost ==
    \A n \in Nat : n # 0 /\ n <= 1 => n = 1
  OBVIOUS

LEMMA GrowsOlder ==
    ASSUME NEW S, NEW q, NEW ages, Queue(q, ages, S)
    PROVE  Queue(q, Older(ages), S) /\ Grown(Older(ages), q, ages)
<1>1. /\ q \in Seq(S) /\ ages \in Seq(0..Delay) /\ Len(ages) = Len(q)
      /\ Len(q) \in Nat /\ (q # << >> => Len(q) \in 1..Len(q))
  BY NewestIsIn DEF Queue
<1>2. DOMAIN ages = 1..Len(q) /\ \A i \in 1..Len(q) : ages[i] \in 0..Delay
  BY <1>1, LenProperties
<1>3. \A i \in 1..Len(q) :
         /\ Older(ages)[i] = IF ages[i] < Delay THEN ages[i] + 1 ELSE Delay
         /\ Older(ages)[i] \in 0..Delay
  BY <1>2, Times DEF Older
<1>4. Older(ages) \in [1..Len(q) -> 0..Delay]
  BY <1>2, <1>3 DEF Older
<1>5. Older(ages) \in Seq(0..Delay) /\ Len(Older(ages)) = Len(q)
  BY <1>1, <1>4, FunctionIsSequence
<1>6. AllButNewestArrived(Older(ages))
  BY <1>1, <1>2, <1>3, <1>5, Times DEF Queue, AllButNewestArrived
<1> QED BY <1>1, <1>3, <1>5, <1>6 DEF Queue, Newest, Grown

(* The ages follow the frames.                                             *)
LEMMA AgesFollow ==
    ASSUME NEW S, NEW q, NEW ages, Queue(q, ages, S)
    PROVE  /\ Aged(q, q, ages) = ages
           /\ \A e \in S : Aged(q, Append(q, e), ages) = Append(ages, 0)
           /\ q # << >> => Aged(q, Tail(q), ages) = Tail(ages)
<1>1. /\ q \in Seq(S) /\ ages \in Seq(0..Delay) /\ Len(ages) = Len(q) /\ Len(q) \in Nat
      /\ (q # << >> <=> ages # << >>)
  BY NewestIsIn DEF Queue
<1>2. Aged(q, q, ages) = ages
  BY <1>1, SubSeqFull DEF Aged
<1>3. ASSUME NEW e \in S
      PROVE  Aged(q, Append(q, e), ages) = Append(ages, 0)
  <2>1. Len(Append(q, e)) = Len(q) + 1
    BY <1>1, AppendExtends
  <2> QED BY <1>1, <2>1 DEF Aged
<1>4. ASSUME q # << >>
      PROVE  Aged(q, Tail(q), ages) = Tail(ages)
  <2>1. Len(Tail(q)) = Len(q) - 1 /\ Len(q) - Len(Tail(q)) + 1 = 2
        /\ ~(Len(Tail(q)) > Len(q))
    BY <1>1, <1>4, TailShifts
  <2>2. Aged(q, Tail(q), ages) = SubSeq(ages, 2, Len(ages))
    BY <1>1, <2>1 DEF Aged
  <2> QED BY <1>1, <1>4, <2>2, TailIsSubSeq
<1> QED BY <1>2, <1>3, <1>4

(***************************************************************************)
(* The two directions, and what they hold in each state.                   *)
(***************************************************************************)
Acks == {AckCtrl(0), AckCtrl(1)}
Queues == Queue(t2r, fwdAge, Frame) /\ Queue(r2t, backAge, Acks)

LEMMA QueuesHold ==
    ASSUME TypeOK, ClocksTypeOK, Turns
    PROVE  Queues
  BY DEF TypeOK, LineTypeOK, ClocksTypeOK, Turns, Queues, Queue, Acks

(* A program that reads has one frame before it, if any.                   *)
LEMMA ReaderHasOne ==
    ASSUME TypeOK, ClocksTypeOK, Turns
    PROVE  /\ ReceiverListens /\ t2r # << >> =>
                 /\ LiveForward /\ Len(t2r) = 1 /\ Tail(t2r) = << >>
                 /\ Head(t2r) = Newest(t2r) /\ Head(fwdAge) = Newest(fwdAge)
           /\ SenderListens /\ r2t # << >> =>
                 /\ LiveBackward /\ Len(r2t) = 1 /\ Tail(r2t) = << >>
                 /\ Head(r2t) = Newest(r2t) /\ Head(backAge) = Newest(backAge)
<1>1. Queue(t2r, fwdAge, Frame) /\ Queue(r2t, backAge, Acks)
  BY QueuesHold DEF Queues
<1>2. ASSUME ReceiverListens, t2r # << >>
      PROVE  /\ LiveForward /\ Len(t2r) = 1 /\ Tail(t2r) = << >>
             /\ Head(t2r) = Newest(t2r) /\ Head(fwdAge) = Newest(fwdAge)
  <2>1. Len(t2r) \in Nat /\ Len(t2r) # 0 /\ Len(t2r) <= 1
    BY <1>1, <1>2, NewestIsIn DEF Turns
  <2>2. Len(t2r) = 1
    BY <2>1, OneAtMost
  <2>3. Tail(t2r) \in Seq(Frame) /\ Len(Tail(t2r)) = 0
    BY <1>1, <1>2, <2>2, TailShifts DEF Queue
  <2>4. Tail(t2r) = << >>
    BY <2>3, EmptySeq
  <2> QED BY <1>1, <1>2, <2>2, <2>4, NewestIsIn DEF LiveForward
<1>3. ASSUME SenderListens, r2t # << >>
      PROVE  /\ LiveBackward /\ Len(r2t) = 1 /\ Tail(r2t) = << >>
             /\ Head(r2t) = Newest(r2t) /\ Head(backAge) = Newest(backAge)
  <2>1. Len(r2t) \in Nat /\ Len(r2t) # 0 /\ Len(r2t) <= 1
    BY <1>1, <1>3, NewestIsIn DEF Turns
  <2>2. Len(r2t) = 1
    BY <2>1, OneAtMost
  <2>3. Tail(r2t) \in Seq(Acks) /\ Len(Tail(r2t)) = 0
    BY <1>1, <1>3, <2>2, TailShifts DEF Queue
  <2>4. Tail(r2t) = << >>
    BY <2>3, EmptySeq
  <2> QED BY <1>1, <1>3, <2>2, <2>4, NewestIsIn DEF LiveBackward
<1> QED BY <1>2, <1>3

(* A direction without a live frame may take a new one.                    *)
LEMMA FreeToSend ==
    ASSUME TypeOK, ClocksTypeOK, Turns
    PROVE  /\ ~LiveForward /\ t2r # << >> => Newest(fwdAge) = Delay
           /\ ~LiveBackward /\ r2t # << >> => Newest(backAge) = Delay
<1>1. Queue(t2r, fwdAge, Frame) /\ Queue(r2t, backAge, Acks)
  BY QueuesHold DEF Queues
<1>2. t2r # << >> => Newest(fwdAge) \in 0..Delay
  BY <1>1, NewestIsIn
<1>3. r2t # << >> => Newest(backAge) \in 0..Delay
  BY <1>1, NewestIsIn
<1> QED BY <1>2, <1>3, Times DEF LiveForward, LiveBackward

(***************************************************************************)
(* What each step of the sender does, once it is known what it can find.   *)
(***************************************************************************)
BackwardKept == UNCHANGED <<r2t, backAge>>
ForwardKept  == UNCHANGED <<t2r, fwdAge>>
PacketKept   == UNCHANGED <<pkt, seq, attempts>>

SendsSet == /\ spc = "start" /\ spc' = "llopen" /\ sLeft' = SndVtime /\ PacketKept
            /\ ~LiveForward /\ Joined(t2r', fwdAge', t2r, SetFrame) /\ r2t' = << >>

SendsPacket == /\ spc = "llwrite" /\ sLeft = 0 /\ spc' = "waitAck" /\ sLeft' = SndVtime
               /\ PacketKept /\ BackwardKept
               /\ ~LiveForward /\ Joined(t2r', fwdAge', t2r, IFrame(seq, pkt))

Hears == /\ SenderReads /\ LiveBackward /\ Newest(backAge) = Delay
         /\ r2t' = << >> /\ ForwardKept
HearsUA == Hears /\ spc = "llopen" /\ spc' = "fopen" /\ sLeft' = 0 /\ PacketKept
HearsOther == Hears /\ UNCHANGED sndVars /\ sLeft' = SndVtime
HearsAck == /\ Hears /\ spc = "waitAck" /\ Newest(r2t) = AckCtrl(seq)
            /\ NextPacket /\ sLeft' = IF spc' = "done" THEN Pause ELSE 0

ReadsFile == /\ spc = "fopen" /\ spc' = "llwrite" /\ sLeft' = 0
             /\ PacketKept /\ ForwardKept /\ BackwardKept
WaitsInVain == /\ SenderReads /\ sLeft = 0 /\ ForwardKept /\ BackwardKept
               /\ UNCHANGED <<pkt, seq>>
               /\ \/ /\ spc' = "failed" /\ sLeft' = Pause
                     /\ spc = "llopen" \/ attempts' = MaxRetries
                  \/ /\ spc = "waitAck" /\ spc' = "llwrite" /\ sLeft' = Nap
                     /\ attempts' = attempts + 1 /\ attempts' # MaxRetries

SenderStep == \/ SendsSet \/ SendsPacket \/ HearsUA \/ HearsOther \/ HearsAck
              \/ ReadsFile \/ WaitsInVain

Others == UNCHANGED <<rcvVars, rLeft, sRun, rRun, peer, lost>>

LEMMA SenderTypes ==
    ASSUME TypeOK, ClocksTypeOK, Turns, Counters, T_Sender
    PROVE  TypeOK'
<1>1. UNCHANGED rcvVars
  BY DEF T_Sender
<1>2. CASE T_SendSet
  <2>1. Queue(r2t, backAge, Acks) /\ t2r \in Seq(Frame)
    BY QueuesHold DEF Queues, Queue
  <2>2. r2t' \in Seq(Acks) /\ t2r' \in Seq(Frame)
    BY <1>2, <2>1, Flushes, AppendExtends, FramesAreTyped DEF T_SendSet, Queue
  <2> QED BY <1>1, <1>2, <2>2
          DEF T_SendSet, TypeOK, LineTypeOK, Acks, SenderTypeOK, SenderPlaces, ReceiverTypeOK,
              rcvVars
<1>3. CASE S_SkipsAck
  BY <1>1, <1>3, TailShifts
  DEF S_SkipsAck, TypeOK, LineTypeOK, SenderTypeOK, ReceiverTypeOK, sndVars, rcvVars
<1>4. CASE \/ S_ReadsFile \/ S_Transmits \/ S_OpeningTimesOut \/ S_TimesOut
           \/ S_ReceivesUA \/ S_ReceivesAck \/ S_IgnoresAck
  <2>1. Sender
    BY <1>1, <1>4 DEF Sender, SenderNext, SenderRuns
  <2> QED BY <2>1, SenderTyped
<1> QED BY <1>2, <1>3, <1>4 DEF T_Sender, SenderAtOnce, SenderTimesOut, SenderReadsByte

LEMMA SenderHears ==
    ASSUME TypeOK, ClocksTypeOK, Turns, Arrived(backAge), LineAges,
           SenderReads, r2t # << >>, r2t' = Tail(r2t), t2r' = t2r
    PROVE  Hears /\ Queues' /\ Head(r2t) = Newest(r2t)
<1>1. Queue(t2r, fwdAge, Frame) /\ Queue(r2t, backAge, Acks)
  BY QueuesHold DEF Queues
<1>2. /\ LiveBackward /\ Tail(r2t) = << >>
      /\ Head(r2t) = Newest(r2t) /\ Head(backAge) = Newest(backAge)
  BY ReaderHasOne DEF SenderReads, SenderListens
<1>3. backAge' = Tail(backAge) /\ fwdAge' = fwdAge
  BY <1>1, AgesFollow DEF LineAges
<1>4. Queue(Tail(r2t), Tail(backAge), Acks)
  BY <1>1, Leaves
<1> QED BY <1>1, <1>2, <1>3, <1>4 DEF Hears, Queues, Arrived, ForwardKept

LEMMA SenderSends ==
    ASSUME TypeOK, ClocksTypeOK, Turns, ~LiveForward, LineAges,
           NEW f \in Frame, t2r' = Append(t2r, f)
    PROVE  /\ Queue(t2r', fwdAge', Frame) /\ Joined(t2r', fwdAge', t2r, f)
<1>1. Queue(t2r, fwdAge, Frame)
  BY QueuesHold DEF Queues
<1>2. t2r # << >> => Newest(fwdAge) = Delay
  BY FreeToSend
<1>3. fwdAge' = Append(fwdAge, 0)
  BY <1>1, AgesFollow DEF LineAges
<1> QED BY <1>1, <1>2, <1>3, Enters

LEMMA SenderActs ==
    ASSUME TypeOK, ClocksTypeOK, Turns, Counters, T_Sender
    PROVE  SenderStep /\ Queues' /\ Others
<1>1. Queue(t2r, fwdAge, Frame) /\ Queue(r2t, backAge, Acks)
  BY QueuesHold DEF Queues
<1>2. LineAges /\ sLeft' = SenderTimer /\ Others
  BY DEF T_Sender, Others
<1>3. ASSUME UNCHANGED line
      PROVE  ForwardKept /\ BackwardKept /\ Queues'
  BY <1>1, <1>2, <1>3, AgesFollow DEF LineAges, line, ForwardKept, BackwardKept, Queues
<1>4. CASE T_SendSet
  <2>1. ~LiveForward /\ ~LiveBackward
    BY <1>4 DEF T_SendSet, Turns, SenderReads
  <2>2. Queue(t2r', fwdAge', Frame) /\ Joined(t2r', fwdAge', t2r, SetFrame)
    BY <1>2, <1>4, <2>1, FramesAreTyped, SenderSends DEF T_SendSet
  <2>3. r2t' = Flushed(r2t, backAge) /\ backAge' = Aged(r2t, r2t', backAge)
    BY <1>2, <1>4 DEF T_SendSet, LineAges
  <2>4. Queue(r2t', backAge', Acks) /\ r2t' = << >>
    <3>1. r2t' # << >> => Newest(backAge) < Delay /\ r2t # << >>
      BY <1>1, <2>3, Flushes DEF Reduced
    <3> QED BY <1>1, <2>1, <2>3, <3>1, Flushes DEF LiveBackward
  <2>5. sLeft' = SndVtime
    BY <1>2, <1>4 DEF T_SendSet, SenderTimer
  <2>6. SendsSet
    BY <1>4, <2>1, <2>2, <2>4, <2>5 DEF T_SendSet, SendsSet, PacketKept
  <2> QED BY <1>2, <2>2, <2>4, <2>6 DEF SenderStep, Queues
<1>5. CASE sLeft = 0 /\ S_ReadsFile
  <2>1. spc' = "llwrite" /\ attempts' # attempts + 1
    BY <1>5 DEF S_ReadsFile, TypeOK, SenderTypeOK
  <2>2. sLeft' = 0
    BY <1>2, <2>1 DEF SenderTimer
  <2>3. UNCHANGED line
    BY <1>5 DEF S_ReadsFile
  <2> QED BY <1>2, <1>3, <1>5, <2>2, <2>3 DEF S_ReadsFile, SenderStep, ReadsFile, PacketKept
<1>6. CASE sLeft = 0 /\ S_Transmits
  <2>1. ~LiveForward
    BY <1>6 DEF S_Transmits, Turns, SenderReads
  <2>2. IFrame(seq, pkt) \in Frame
    BY FramesAreTyped, SizesAreNat DEF TypeOK, SenderTypeOK
  <2>3. Queue(t2r', fwdAge', Frame) /\ Joined(t2r', fwdAge', t2r, IFrame(seq, pkt))
    BY <1>2, <1>6, <2>1, <2>2, SenderSends DEF S_Transmits
  <2>4. BackwardKept
    BY <1>1, <1>2, <1>6, AgesFollow DEF S_Transmits, LineAges, BackwardKept
  <2> QED BY <1>1, <1>2, <1>6, <2>1, <2>3, <2>4
          DEF S_Transmits, SenderTimer, SenderStep, SendsPacket, PacketKept, Queues,
              BackwardKept
<1>7. CASE sLeft = 0 /\ SenderTimesOut
  <2>1. UNCHANGED line
    BY <1>7 DEF SenderTimesOut, S_OpeningTimesOut, S_TimesOut, AttemptFails
  <2>2. CASE S_OpeningTimesOut
    BY <1>2, <1>3, <1>7, <2>1, <2>2
    DEF S_OpeningTimesOut, SenderTimer, SenderStep, WaitsInVain, SenderReads
  <2>3. CASE S_TimesOut
    <3>1. CASE attempts' = MaxRetries
      BY <1>2, <1>3, <1>7, <2>1, <2>3, <3>1
      DEF S_TimesOut, AttemptFails, SenderTimer, SenderStep, WaitsInVain, SenderReads
    <3>2. CASE attempts' # MaxRetries
      BY <1>2, <1>3, <1>7, <2>1, <2>3, <3>2
      DEF S_TimesOut, AttemptFails, SenderTimer, SenderStep, WaitsInVain, SenderReads
    <3> QED BY <3>1, <3>2
  <2> QED BY <1>7, <2>2, <2>3 DEF SenderTimesOut
<1>8. CASE Arrived(backAge) /\ SenderReadsByte
  <2>1. SenderReads /\ r2t # << >> /\ r2t' = Tail(r2t) /\ t2r' = t2r
    BY <1>8
    DEF SenderReadsByte, S_ReceivesUA, S_SkipsAck, S_ReceivesAck, S_IgnoresAck, SenderReads
  <2>2. Hears /\ Queues' /\ Head(r2t) = Newest(r2t)
    BY <1>2, <1>8, <2>1, SenderHears
  <2>3. CASE S_ReceivesUA
    BY <1>2, <2>2, <2>3 DEF S_ReceivesUA, SenderTimer, SenderStep, HearsUA, PacketKept
  <2>4. CASE S_SkipsAck \/ S_IgnoresAck
    <3>1. UNCHANGED sndVars /\ spc' \in {"llopen", "waitAck"}
      BY <2>4 DEF S_SkipsAck, S_IgnoresAck, sndVars
    <3>2. sLeft' = SndVtime
      BY <1>2, <3>1 DEF SenderTimer
    <3> QED BY <1>2, <2>2, <3>1, <3>2 DEF SenderStep, HearsOther
  <2>5. CASE S_ReceivesAck
    <3>1. CASE pkt = NumChunks
      BY <1>2, <2>2, <2>5, <3>1
      DEF S_ReceivesAck, NextPacket, SenderTimer, SenderStep, HearsAck
    <3>2. CASE pkt # NumChunks
      <4>1. attempts' # attempts + 1 /\ spc' = "llwrite"
        BY <2>5, <3>2 DEF S_ReceivesAck, NextPacket, TypeOK, SenderTypeOK
      <4>2. sLeft' = 0
        BY <1>2, <4>1 DEF SenderTimer
      <4> QED BY <1>2, <2>2, <2>5, <4>1, <4>2 DEF S_ReceivesAck, SenderStep, HearsAck
    <3> QED BY <3>1, <3>2
  <2> QED BY <1>8, <2>3, <2>4, <2>5 DEF SenderReadsByte
<1> QED BY <1>2, <1>4, <1>5, <1>6, <1>7, <1>8 DEF T_Sender, SenderAtOnce

(***************************************************************************)
(* What each step of the receiver does.                                    *)
(***************************************************************************)
StoreKept == UNCHANGED <<expectedSeq, frameData, fileSize, totalReceived, received>>

Opens == /\ rpc = "start" /\ rpc' = "llopen" /\ rLeft' = RcvVtime
         /\ StoreKept /\ UNCHANGED <<idleCount, peer>> /\ BackwardKept
         /\ Reduced(t2r', fwdAge', t2r, fwdAge) /\ Len(t2r') <= 1
         /\ t2r' # << >> => Newest(fwdAge) < Delay

Takes == ReceiverReads /\ LiveForward /\ Newest(fwdAge) = Delay /\ t2r' = << >>
AnswersWith(b) == Takes /\ b \in Acks /\ Joined(r2t', backAge', r2t, b)

TakesSet == /\ AnswersWith(C_UA) /\ rpc = "llopen" /\ Newest(t2r).ctrl = C_SET
            /\ rpc' = "size" /\ rLeft' = RcvVtime /\ peer' = sRun
            /\ StoreKept /\ UNCHANGED idleCount
TakesSilently == /\ Takes /\ BackwardKept /\ rLeft' = RcvVtime
                 /\ IF rpc = "llopen" THEN idleCount' = idleCount ELSE idleCount' = 0
                 /\ StoreKept /\ UNCHANGED <<rpc, peer>>
TakesPacket == /\ Reading /\ Newest(t2r).ctrl = expectedSeq /\ AnswersWith(AckCtrl(expectedSeq))
               /\ frameData' = Newest(t2r).pkt
               /\ rpc' = IF rpc = "size" THEN "sizeAcked" ELSE "chunkAcked"
               /\ idleCount' = 0 /\ rLeft' = RcvVtime
               /\ UNCHANGED <<expectedSeq, fileSize, totalReceived, received, peer>>
Stores == /\ R_Takes /\ rpc \in Acknowledged /\ rpc' \in {"chunks", "saving"}
          /\ ForwardKept /\ BackwardKept
          /\ rLeft' = IF rpc' = "chunks" THEN RcvVtime ELSE 0
          /\ UNCHANGED <<idleCount, peer>>
TakesOther == /\ Reading /\ AnswersWith(AckCtrl(Toggle(expectedSeq)))
              /\ Newest(t2r).ctrl # C_SET
              /\ idleCount' = 0 /\ rLeft' = RcvVtime
              /\ StoreKept /\ UNCHANGED <<rpc, peer>>

ReadsIdly == /\ Reading /\ rLeft = 0 /\ ForwardKept /\ BackwardKept
             /\ idleCount' = idleCount + 1
             /\ \/ idleCount' = MaxIdle /\ rpc' = IF rpc = "size" THEN "failed" ELSE "saving"
                \/ idleCount' # MaxIdle /\ rpc' = rpc /\ rLeft' = RcvVtime
             /\ rpc' = "failed" => rLeft' = Pause
             /\ StoreKept /\ peer' = peer
             /\ rLeft' \in Nat
Returns == /\ rpc \in {"llopen", "saving"} /\ rpc' \in {"saved", "unsaved", "failed"}
           /\ rpc = "llopen" <=> rpc' = "failed"
           /\ rLeft' = Pause /\ ForwardKept /\ BackwardKept
           /\ StoreKept /\ UNCHANGED <<idleCount, peer>>

ReceiverStep == \/ Opens \/ TakesSet \/ TakesSilently \/ TakesPacket \/ TakesOther
                \/ ReadsIdly \/ Returns \/ Stores

OthersOfReceiver == UNCHANGED <<sndVars, sLeft, sRun, rRun, lost>>

LEMMA ReceiverTypes ==
    ASSUME TypeOK, ClocksTypeOK, Turns, Counters, Sizes, ReceivedInOrder, T_Receiver
    PROVE  TypeOK'
<1>1. UNCHANGED sndVars
  BY DEF T_Receiver
<1>2. CASE R_SkipsFrame
  BY <1>1, <1>2, TailShifts
  DEF R_SkipsFrame, TypeOK, LineTypeOK, SenderTypeOK, ReceiverTypeOK, sndVars, rcvVars
<1>3. CASE \/ T_OpensPort \/ R_OpeningTimesOut \/ R_ReadsNothing \/ R_SavesFile
           \/ R_ReceivesSet \/ R_Acknowledges \/ R_AnswersDuplicate \/ R_RejectsDamaged
           \/ R_ReadsOver \/ R_Takes
  <2>1. Receiver
    BY <1>1, <1>3 DEF Receiver, ReceiverNext, ReceiverRuns, ReceiverFaults, T_OpensPort
  <2> QED BY <2>1, ReceiverTyped
<1> QED BY <1>2, <1>3 DEF T_Receiver, ReceiverReadsByte

LEMMA ReceiverTakes ==
    ASSUME TypeOK, ClocksTypeOK, Turns, Arrived(fwdAge), LineAges,
           ReceiverReads, t2r # << >>, t2r' = Tail(t2r)
    PROVE  Takes /\ Queue(t2r', fwdAge', Frame) /\ Head(t2r) = Newest(t2r)
<1>1. Queue(t2r, fwdAge, Frame)
  BY QueuesHold DEF Queues
<1>2. /\ LiveForward /\ Tail(t2r) = << >>
      /\ Head(t2r) = Newest(t2r) /\ Head(fwdAge) = Newest(fwdAge)
  BY ReaderHasOne
<1>3. fwdAge' = Tail(fwdAge)
  BY <1>1, AgesFollow DEF LineAges
<1>4. Queue(Tail(t2r), Tail(fwdAge), Frame)
  BY <1>1, Leaves
<1> QED BY <1>1, <1>2, <1>3, <1>4 DEF Takes, Arrived

LEMMA ReceiverAnswers ==
    ASSUME TypeOK, ClocksTypeOK, Turns, Takes, LineAges,
           NEW b \in Acks, r2t' = Append(r2t, b)
    PROVE  Queue(r2t', backAge', Acks) /\ AnswersWith(b)
<1>1. Queue(r2t, backAge, Acks)
  BY QueuesHold DEF Queues
<1>2. r2t # << >> => Newest(backAge) = Delay
  BY FreeToSend DEF Takes, Turns
<1>3. backAge' = Append(backAge, 0)
  BY <1>1, AgesFollow DEF LineAges
<1> QED BY <1>1, <1>2, <1>3, Enters DEF AnswersWith

LEMMA ReceiverActs ==
    ASSUME TypeOK, ClocksTypeOK, Turns, Counters, Sizes, ReceivedInOrder, T_Receiver
    PROVE  ReceiverStep /\ Queues' /\ OthersOfReceiver
<1>1. Queue(t2r, fwdAge, Frame) /\ Queue(r2t, backAge, Acks)
  BY QueuesHold DEF Queues
<1>2. LineAges /\ rLeft' = ReceiverTimer /\ OthersOfReceiver
      /\ peer' = IF rpc = "llopen" /\ rpc' = "size" THEN sRun ELSE peer
  BY DEF T_Receiver, OthersOfReceiver
<1>3. ASSUME UNCHANGED line
      PROVE  ForwardKept /\ BackwardKept /\ Queues'
  BY <1>1, <1>2, <1>3, AgesFollow DEF LineAges, line, ForwardKept, BackwardKept, Queues
<1>4. CASE T_OpensPort
  <2>1. t2r' = Flushed(t2r, fwdAge) /\ fwdAge' = Aged(t2r, t2r', fwdAge) /\ r2t' = r2t
    BY <1>2, <1>4 DEF T_OpensPort, R_OpensPort, LineAges
  <2>2. /\ Queue(t2r', fwdAge', Frame) /\ Reduced(t2r', fwdAge', t2r, fwdAge)
        /\ Len(t2r') <= 1 /\ (t2r' # << >> => Newest(fwdAge) < Delay)
    BY <1>1, <2>1, Flushes
  <2>3. BackwardKept
    BY <1>1, <1>2, <2>1, AgesFollow DEF LineAges, BackwardKept
  <2>4. rLeft' = RcvVtime /\ peer' = peer
    BY <1>2, <1>4 DEF T_OpensPort, R_OpensPort, ReceiverTimer, ReceiverReads
  <2>5. Opens
    BY <1>4, <2>2, <2>3, <2>4 DEF T_OpensPort, R_OpensPort, Opens, StoreKept
  <2> QED BY <1>1, <1>2, <2>2, <2>3, <2>5 DEF ReceiverStep, Queues, BackwardKept
<1>5. CASE rLeft = 0 /\ R_OpeningTimesOut
  <2>1. rLeft' = Pause /\ peer' = peer /\ UNCHANGED line
    BY <1>2, <1>5 DEF R_OpeningTimesOut, ReceiverTimer
  <2>2. Returns
    BY <1>3, <1>5, <2>1 DEF R_OpeningTimesOut, Returns, StoreKept
  <2> QED BY <1>2, <1>3, <2>1, <2>2 DEF ReceiverStep
<1>6. CASE rLeft = 0 /\ R_SavesFile
  <2>1. rLeft' = Pause /\ peer' = peer /\ UNCHANGED line
    BY <1>2, <1>6 DEF R_SavesFile, ReceiverTimer
  <2>2. Returns
    BY <1>3, <1>6, <2>1 DEF R_SavesFile, Returns, StoreKept
  <2> QED BY <1>2, <1>3, <2>1, <2>2 DEF ReceiverStep
<1>7. CASE rLeft = 0 /\ R_ReadsNothing
  <2>1. UNCHANGED line /\ peer' = peer
    BY <1>2, <1>7 DEF R_ReadsNothing, Reading
  <2>2. idleCount \in Nat /\ MaxIdle \in Nat /\ idleCount < MaxIdle /\ idleCount' = idleCount + 1
    BY <1>7, SizesAreNat DEF R_ReadsNothing, Reading, Counters, Trying, TypeOK, ReceiverTypeOK
  <2>3. CASE idleCount + 1 = MaxIdle
    <3>1. rpc' = IF rpc = "size" THEN "failed" ELSE "saving"
      BY <1>7, <2>2, <2>3 DEF R_ReadsNothing, Abandons, Reading
    <3>2. rLeft' \in Nat /\ (rpc' = "failed" => rLeft' = Pause)
      BY <1>2, <3>1, Times DEF ReceiverTimer
    <3>3. ReadsIdly
      BY <1>3, <1>7, <2>1, <2>2, <2>3, <3>1, <3>2 DEF R_ReadsNothing, ReadsIdly, StoreKept
    <3> QED BY <1>2, <1>3, <2>1, <3>3 DEF ReceiverStep
  <2>4. CASE idleCount + 1 # MaxIdle
    <3>1. ~(idleCount' >= MaxIdle)
      BY <2>2, <2>4
    <3>2. rpc' = rpc /\ rpc \in {"size", "chunks"}
      BY <1>7, <3>1 DEF R_ReadsNothing, Reading
    <3>3. rLeft' = RcvVtime /\ rLeft' \in Nat
      BY <1>2, <3>2, Times DEF ReceiverTimer, ReceiverReads
    <3>4. ReadsIdly
      BY <1>3, <1>7, <2>1, <2>2, <2>4, <3>2, <3>3 DEF R_ReadsNothing, ReadsIdly, StoreKept
    <3> QED BY <1>2, <1>3, <2>1, <3>4 DEF ReceiverStep
  <2> QED BY <2>3, <2>4
<1>8. CASE Arrived(fwdAge) /\ ReceiverReadsByte
  <2>1. ReceiverReads /\ t2r # << >> /\ t2r' = Tail(t2r)
    BY <1>8
    DEF ReceiverReadsByte, R_ReceivesSet, R_SkipsFrame, R_Acknowledges, R_AnswersDuplicate,
        R_RejectsDamaged, R_ReadsOver, Answers, Reading, ReceiverReads
  <2>2. Takes /\ Queue(t2r', fwdAge', Frame) /\ Head(t2r) = Newest(t2r)
    BY <1>2, <1>8, <2>1, ReceiverTakes
  <2>3. \A b \in Acks : r2t' = Append(r2t, b) => Queue(r2t', backAge', Acks) /\ AnswersWith(b)
    BY <1>2, <2>2, ReceiverAnswers
  <2>4. r2t' = r2t => BackwardKept /\ Queue(r2t', backAge', Acks)
    BY <1>1, <1>2, AgesFollow DEF LineAges, BackwardKept
  <2>5. expectedSeq \in {0, 1} /\ Toggle(expectedSeq) \in {0, 1}
    BY AcksDiffer DEF TypeOK, ReceiverTypeOK
  <2>6. C_UA \in Acks /\ \A b \in {0, 1} : AckCtrl(b) \in Acks
    BY FramesAreTyped DEF Acks
  <2>7. CASE R_ReceivesSet
    <3>1. rLeft' = RcvVtime /\ peer' = sRun
      BY <1>2, <2>7 DEF R_ReceivesSet, ReceiverTimer, ReceiverReads
    <3>2. AnswersWith(C_UA) /\ Queue(r2t', backAge', Acks)
      BY <2>3, <2>6, <2>7 DEF R_ReceivesSet
    <3>3. TakesSet
      BY <2>2, <2>7, <3>1, <3>2 DEF R_ReceivesSet, TakesSet, StoreKept
    <3> QED BY <1>2, <2>2, <3>2, <3>3 DEF ReceiverStep, Queues
  <2>8. CASE R_SkipsFrame
    <3>1. rLeft' = RcvVtime /\ peer' = peer /\ UNCHANGED rcvVars
      BY <1>2, <2>8 DEF R_SkipsFrame, ReceiverTimer, ReceiverReads, rcvVars
    <3>2. BackwardKept /\ Queue(r2t', backAge', Acks)
      BY <2>4, <2>8 DEF R_SkipsFrame
    <3>3. TakesSilently
      BY <2>2, <2>8, <3>1, <3>2 DEF R_SkipsFrame, TakesSilently, StoreKept, rcvVars
    <3> QED BY <1>2, <2>2, <3>2, <3>3 DEF ReceiverStep, Queues
  <2>9. CASE R_ReadsOver
    <3>1. rLeft' = RcvVtime /\ peer' = peer
      BY <1>2, <2>9 DEF R_ReadsOver, Reading, ReceiverTimer, ReceiverReads
    <3>2. BackwardKept /\ Queue(r2t', backAge', Acks)
      BY <2>4, <2>9 DEF R_ReadsOver
    <3>3. TakesSilently
      BY <2>2, <2>9, <3>1, <3>2 DEF R_ReadsOver, Reading, TakesSilently, StoreKept
    <3> QED BY <1>2, <2>2, <3>2, <3>3 DEF ReceiverStep, Queues
  <2>10. CASE R_Acknowledges
    <3>1. AnswersWith(AckCtrl(expectedSeq)) /\ Queue(r2t', backAge', Acks)
      BY <2>3, <2>5, <2>6, <2>10 DEF R_Acknowledges, Answers, Echo
    <3>2. rpc \in {"size", "chunks"} /\ rpc' \in Acknowledged
      BY <2>10 DEF R_Acknowledges, Reading
    <3>3. peer' = peer /\ rLeft' = RcvVtime
      BY <1>2, <3>2 DEF ReceiverTimer, ReceiverReads
    <3>4. TakesPacket
      BY <2>2, <2>10, <3>1, <3>3 DEF R_Acknowledges, Answers, TakesPacket
    <3> QED BY <1>2, <2>2, <3>1, <3>4 DEF ReceiverStep, Queues
  <2>11. CASE R_AnswersDuplicate \/ R_RejectsDamaged
    <3>1. r2t' = Append(r2t, AckCtrl(Toggle(expectedSeq))) /\ idleCount' = 0
          /\ Newest(t2r).ctrl # C_SET
      BY <2>2, <2>5, <2>11, AcksDiffer
      DEF R_AnswersDuplicate, R_RejectsDamaged, Answers, Echo, Nack
    <3>2. AnswersWith(AckCtrl(Toggle(expectedSeq))) /\ Queue(r2t', backAge', Acks)
      BY <2>3, <2>5, <2>6, <3>1
    <3>3. Reading /\ rLeft' = RcvVtime /\ peer' = peer
      BY <1>2, <2>11
      DEF R_AnswersDuplicate, R_RejectsDamaged, Reading, ReceiverTimer, ReceiverReads
    <3>4. TakesOther
      BY <2>11, <3>1, <3>2, <3>3 DEF R_AnswersDuplicate, R_RejectsDamaged, TakesOther, StoreKept
    <3> QED BY <1>2, <2>2, <3>2, <3>4 DEF ReceiverStep, Queues
  <2> QED BY <1>8, <2>7, <2>8, <2>9, <2>10, <2>11 DEF ReceiverReadsByte
<1>9. CASE R_Takes
  <2>1. rpc \in Acknowledged /\ rpc' \in {"chunks", "saving"}
    BY <1>9, TakesNext
  <2>2. UNCHANGED line /\ UNCHANGED idleCount
    BY <1>9 DEF R_Takes
  <2>3. peer' = peer /\ rLeft' = IF rpc' = "chunks" THEN RcvVtime ELSE 0
    BY <1>2, <2>1 DEF ReceiverTimer, ReceiverReads
  <2> QED BY <1>2, <1>3, <1>9, <2>1, <2>2, <2>3 DEF ReceiverStep, Stores
<1> QED BY <1>2, <1>4, <1>5, <1>6, <1>7, <1>8, <1>9 DEF T_Receiver

(***************************************************************************)
(* Programs take turns.                                                    *)
(***************************************************************************)
LEMMA AgesTyped ==
    ASSUME TypeOK, ClocksTypeOK, Turns
    PROVE  /\ t2r # << >> => Newest(fwdAge) \in Nat /\ Newest(fwdAge) <= Delay
                             /\ Newest(t2r) \in Frame
           /\ r2t # << >> => Newest(backAge) \in Nat /\ Newest(backAge) <= Delay
                             /\ Newest(r2t) \in Acks
           /\ Len(t2r) \in Nat /\ (t2r = << >> <=> Len(t2r) = 0)
           /\ Len(r2t) \in Nat /\ (r2t = << >> <=> Len(r2t) = 0)
<1>1. Queue(t2r, fwdAge, Frame) /\ Queue(r2t, backAge, Acks)
  BY QueuesHold DEF Queues
<1>2. t2r # << >> => Newest(fwdAge) \in 0..Delay /\ Newest(t2r) \in Frame
  BY <1>1, NewestIsIn
<1>3. r2t # << >> => Newest(backAge) \in 0..Delay /\ Newest(r2t) \in Acks
  BY <1>1, NewestIsIn
<1>4. /\ Len(t2r) \in Nat /\ (t2r = << >> <=> Len(t2r) = 0)
      /\ Len(r2t) \in Nat /\ (r2t = << >> <=> Len(r2t) = 0)
  BY <1>1, NewestIsIn
<1> QED BY <1>2, <1>3, <1>4, Times

LEMMA SenderKeepsTurns ==
    ASSUME TypeOK, ClocksTypeOK, Turns, SenderStep, Queues', Others
    PROVE  Turns'
<1>1. AllButNewestArrived(fwdAge') /\ AllButNewestArrived(backAge')
  BY DEF Queues, Queue
<1>2. UNCHANGED <<rpc, rLeft>> /\ (ReceiverReads' <=> ReceiverReads)
      /\ (ReceiverEnded' <=> ReceiverEnded)
  BY DEF Others, rcvVars, ReceiverReads, ReceiverEnded
<1>3. sLeft \in Nat /\ Len(<< >>) = 0
  BY EmptySeq DEF ClocksTypeOK
<1> USE DEF SenderReads, SenderListens
<1>4. CASE SendsSet
  <2>1. ~LiveBackward'
    BY <1>4 DEF SendsSet, LiveBackward
  <2>2. ReceiverListens => t2r = << >> /\ Len(t2r) = 0
    BY <1>4, AgesTyped DEF SendsSet, LiveForward
  <2> QED BY <1>1, <1>2, <1>3, <1>4, <2>1, <2>2, Times DEF SendsSet, Joined, Turns
<1>5. CASE SendsPacket
  <2>1. r2t = << >>
    BY <1>5 DEF SendsPacket, Turns, LiveBackward
  <2>2. ~LiveBackward' /\ r2t' = << >>
    BY <1>5, <2>1 DEF SendsPacket, BackwardKept, LiveBackward
  <2>3. ReceiverListens => t2r = << >> /\ Len(t2r) = 0
    BY <1>5, AgesTyped DEF SendsPacket, LiveForward
  <2> QED BY <1>1, <1>2, <1>3, <1>5, <2>2, <2>3, Times DEF SendsPacket, Joined, Turns
<1>6. CASE Hears
  <2>1. ~LiveBackward' /\ r2t' = << >>
    BY <1>6 DEF Hears, LiveBackward
  <2>2. ~LiveForward' /\ UNCHANGED t2r
    BY <1>2, <1>6 DEF Hears, ForwardKept, LiveForward, Turns
  <2> QED BY <1>1, <1>2, <1>3, <1>6, <2>1, <2>2 DEF Turns
<1>7. CASE ReadsFile
  <2>1. ~LiveForward /\ ~LiveBackward /\ r2t = << >>
    BY <1>7 DEF ReadsFile, Turns, LiveBackward
  <2>2. ~LiveForward' /\ ~LiveBackward' /\ UNCHANGED <<t2r, r2t>>
    BY <1>2, <1>7, <2>1 DEF ReadsFile, ForwardKept, BackwardKept, LiveForward, LiveBackward
  <2> QED BY <1>1, <1>2, <1>3, <1>7, <2>1, <2>2 DEF Turns
<1>8. CASE WaitsInVain
  <2>1. ~LiveForward /\ ~LiveBackward /\ r2t = << >>
    BY <1>8, AgesTyped, Times DEF WaitsInVain, Turns, LiveForward, LiveBackward
  <2>2. ~LiveForward' /\ ~LiveBackward' /\ UNCHANGED <<t2r, r2t>>
    BY <1>2, <1>8, <2>1 DEF WaitsInVain, ForwardKept, BackwardKept, LiveForward, LiveBackward
  <2> QED BY <1>1, <1>2, <1>3, <1>8, <2>1, <2>2 DEF Turns
<1> QED BY <1>4, <1>5, <1>6, <1>7, <1>8 DEF SenderStep, HearsUA, HearsOther, HearsAck

LEMMA ReceiverKeepsTurns ==
    ASSUME TypeOK, ClocksTypeOK, Turns, ReceiverStep, Queues', OthersOfReceiver
    PROVE  Turns'
<1>1. AllButNewestArrived(fwdAge') /\ AllButNewestArrived(backAge')
  BY DEF Queues, Queue
<1>2. UNCHANGED <<spc, sLeft>> /\ (SenderListens' <=> SenderListens)
      /\ (SenderReads' <=> SenderReads)
  BY DEF OthersOfReceiver, sndVars, SenderListens, SenderReads
<1>3. sLeft \in Nat /\ rLeft \in Nat /\ Len(<< >>) = 0
  BY EmptySeq DEF ClocksTypeOK
<1> USE DEF ReceiverReads, ReceiverEnded
<1>4. CASE Opens
  <2>1. ~LiveBackward /\ UNCHANGED <<r2t, backAge>>
    BY <1>4 DEF Opens, Turns, BackwardKept
  <2>2. ~LiveBackward'
    BY <1>2, <2>1 DEF LiveBackward
  <2>3. LiveForward' => LiveForward /\ Newest(fwdAge') = Newest(fwdAge)
    BY <1>4 DEF Opens, Reduced, LiveForward
  <2> QED BY <1>1, <1>2, <1>3, <1>4, <2>1, <2>2, <2>3 DEF Opens, Turns
<1>5. ASSUME Takes, ~LiveBackward', UNCHANGED r2t
      PROVE  Turns'
  <2>1. ~LiveForward' /\ t2r' = << >>
    BY <1>5 DEF Takes, LiveForward
  <2> QED BY <1>1, <1>2, <1>3, <1>5, <2>1 DEF Turns
<1>6. CASE TakesSilently
  <2>1. ~LiveBackward' /\ UNCHANGED r2t
    BY <1>2, <1>6 DEF TakesSilently, Takes, Turns, BackwardKept, LiveBackward
  <2> QED BY <1>5, <1>6, <2>1 DEF TakesSilently
<1>7. ASSUME NEW b, AnswersWith(b), rpc' \in {"size", "chunks"} \cup Acknowledged
      PROVE  Turns'
  <2>1. ~LiveForward' /\ t2r' = << >> /\ LiveForward /\ ~LiveBackward /\ Newest(fwdAge) = Delay
    BY <1>7 DEF AnswersWith, Takes, LiveForward, Turns
  <2>2. Newest(backAge') = 0 /\ (SenderListens => Len(r2t') = 1)
    BY <1>7, <2>1, AgesTyped DEF AnswersWith, Joined, LiveBackward
  <2>3. sLeft > Delay /\ spc \in {"llopen", "waitAck", "failed"}
    BY <1>3, <2>1, Times DEF Turns, SenderReads
  <2>4. rpc' \notin {"start", "llopen"} /\ ~ReceiverEnded'
    BY <1>7
  <2>5. sLeft + 0 > Delay
    BY <1>3, <2>3, Times
  <2>6. (ReceiverListens' => Len(t2r') <= 1) /\ (SenderListens' => Len(r2t') <= 1)
    <3>1. Len(t2r') <= 1
      BY <1>3, <2>1
    <3>2. \A n : n = 1 => n <= 1
      OBVIOUS
    <3>3. SenderListens' => SenderListens
      BY <1>2
    <3> QED BY <2>2, <3>1, <3>2, <3>3, Zenon
  <2>7. /\ spc' \in {"llopen", "waitAck", "failed"}
        /\ sLeft' + Newest(backAge') > Delay
        /\ ReceiverEnded' => rLeft' + Newest(backAge') > Delay
    BY <1>2, <2>2, <2>3, <2>4, <2>5
  <2> QED BY <1>1, <2>1, <2>4, <2>6, <2>7 DEF Turns
<1>8. CASE TakesSet \/ TakesPacket \/ TakesOther
  <2>1. CASE TakesSet
    BY <1>7, <2>1 DEF TakesSet
  <2>2. CASE TakesPacket
    BY <1>7, <2>2 DEF TakesPacket
  <2>3. CASE TakesOther
    BY <1>7, <2>3 DEF TakesOther, Reading
  <2> QED BY <1>8, <2>1, <2>2, <2>3
<1>9. ASSUME ForwardKept, BackwardKept, rpc # "start", rpc' # "start",
             rpc' = "llopen" => rpc = "llopen",
             ReceiverListens' => ReceiverListens,
             LiveBackward => rpc' # "llopen",
             ReceiverEnded' => rLeft' = Pause
      PROVE  Turns'
  <2>1. /\ LiveForward' => LiveForward
        /\ LiveBackward' <=> LiveBackward
        /\ UNCHANGED <<t2r, fwdAge, r2t, backAge>>
    BY <1>2, <1>9 DEF ForwardKept, BackwardKept, LiveForward, LiveBackward
  <2>2. LiveBackward => Newest(backAge) \in Nat
    BY AgesTyped DEF LiveBackward
  <2> QED BY <1>1, <1>2, <1>3, <1>9, <2>1, <2>2, Times DEF Turns
<1>10. CASE ReadsIdly
  <2>1. /\ rpc \in {"size", "chunks"} /\ ForwardKept /\ BackwardKept
        /\ rpc' \in {"size", "chunks", "saving", "failed"}
        /\ rpc' = "failed" => rLeft' = Pause
    BY <1>10 DEF ReadsIdly, Reading
  <2>2. rpc' # "start" /\ rpc' # "llopen" /\ (ReceiverListens' => ReceiverListens)
    BY <2>1
  <2>3. ReceiverEnded' => rLeft' = Pause
    BY <2>1
  <2> QED BY <1>9, <2>1, <2>2, <2>3
<1>11. CASE Returns
  BY <1>9, <1>11 DEF Returns, Turns
<1>12. CASE Stores
  BY <1>9, <1>12 DEF Stores
<1> QED BY <1>4, <1>6, <1>8, <1>10, <1>11, <1>12 DEF ReceiverStep

(* When time passes, nobody has a frame to read or a read that is over.    *)
LEMMA TimePasses ==
    ASSUME TypeOK, ClocksTypeOK, Turns, Tick
    PROVE  /\ Queues' /\ UNCHANGED <<vars, sRun, rRun, peer, lost>>
           /\ LiveForward' => /\ LiveForward /\ Newest(fwdAge) < Delay
                              /\ Newest(fwdAge') = Newest(fwdAge) + 1
           /\ LiveBackward' => /\ LiveBackward /\ Newest(backAge) < Delay
                               /\ Newest(backAge') = Newest(backAge) + 1
           /\ sLeft' \in Nat /\ rLeft' \in Nat
           /\ sLeft > 0 => sLeft' = sLeft - 1
           /\ rLeft > 0 => rLeft' = rLeft - 1
           /\ spc \in {"fopen", "llwrite", "llopen", "waitAck"} => sLeft > 0
           /\ rpc \in {"llopen", "size", "chunks", "saving"} => rLeft > 0
           /\ rpc \notin Acknowledged
<1>1. Queue(t2r, fwdAge, Frame) /\ Queue(r2t, backAge, Acks)
  BY QueuesHold DEF Queues
<1>2. /\ fwdAge' = Older(fwdAge) /\ backAge' = Older(backAge)
      /\ sLeft' = Less(sLeft) /\ rLeft' = Less(rLeft)
      /\ UNCHANGED <<vars, sRun, rRun, peer, lost>> /\ ~SenderDue /\ ~ReceiverDue
  BY DEF Tick
<1>3. UNCHANGED <<t2r, r2t, spc, rpc>>
  BY <1>2 DEF vars, line, sndVars, rcvVars
<1>4. Queues'
  BY <1>1, <1>2, <1>3, GrowsOlder DEF Queues
<1>5. sLeft \in Nat /\ rLeft \in Nat
  BY DEF ClocksTypeOK
<1>6. /\ spc \in {"fopen", "llwrite", "llopen", "waitAck"} => sLeft > 0
      /\ rpc \in {"llopen", "size", "chunks", "saving"} => rLeft > 0
      /\ rpc \notin Acknowledged
  BY <1>2, <1>5 DEF SenderDue, ReceiverDue
<1>7. ASSUME LiveForward'
      PROVE  /\ LiveForward /\ Newest(fwdAge) < Delay
             /\ Newest(fwdAge') = Newest(fwdAge) + 1
  <2>1. t2r # << >> /\ Newest(fwdAge) \in Nat /\ Newest(fwdAge) <= Delay
    BY <1>3, <1>7, AgesTyped DEF LiveForward
  <2>2. Newest(fwdAge') = IF Newest(fwdAge) < Delay THEN Newest(fwdAge) + 1 ELSE Delay
    <3>1. Grown(fwdAge', t2r, fwdAge)
      BY <1>1, <1>2, GrowsOlder
    <3> QED BY <2>1, <3>1 DEF Grown
  <2>3. Newest(fwdAge) < Delay
    <3>1. CASE ReceiverReads
      <4>1. Head(fwdAge) = Newest(fwdAge) /\ fwdAge # << >>
        BY <1>1, <2>1, <3>1, ReaderHasOne, NewestIsIn
      <4>2. Newest(fwdAge) # Delay
        BY <1>2, <3>1, <4>1 DEF ReceiverDue, Arrived
      <4> QED BY <2>1, <4>2, Times
    <3>2. CASE ~ReceiverReads
      <4>1. Newest(fwdAge') < Delay
        BY <1>3, <1>6, <1>7, <3>2 DEF LiveForward, ReceiverReads
      <4> QED BY <2>1, <2>2, <4>1, Times
    <3> QED BY <3>1, <3>2
  <2> QED BY <2>1, <2>2, <2>3 DEF LiveForward
<1>8. ASSUME LiveBackward'
      PROVE  /\ LiveBackward /\ Newest(backAge) < Delay
             /\ Newest(backAge') = Newest(backAge) + 1
  <2>1. r2t # << >> /\ Newest(backAge) \in Nat /\ Newest(backAge) <= Delay
    BY <1>3, <1>8, AgesTyped DEF LiveBackward
  <2>2. Newest(backAge') = IF Newest(backAge) < Delay THEN Newest(backAge) + 1 ELSE Delay
    <3>1. Grown(backAge', r2t, backAge)
      BY <1>1, <1>2, GrowsOlder
    <3> QED BY <2>1, <3>1 DEF Grown
  <2>3. Newest(backAge) < Delay
    <3>1. CASE SenderListens
      <4>1. Head(backAge) = Newest(backAge) /\ backAge # << >> /\ LiveBackward
        BY <1>1, <2>1, <3>1, ReaderHasOne, NewestIsIn
      <4>2. SenderReads
        BY <3>1, <4>1 DEF Turns, SenderListens, SenderReads
      <4>3. Newest(backAge) # Delay
        BY <1>2, <4>1, <4>2 DEF SenderDue, Arrived
      <4> QED BY <2>1, <4>3, Times
    <3>2. CASE ~SenderListens
      <4>1. Newest(backAge') < Delay
        BY <1>3, <1>8, <3>2 DEF LiveBackward, SenderListens
      <4> QED BY <2>1, <2>2, <4>1, Times
    <3> QED BY <3>1, <3>2
  <2> QED BY <2>1, <2>2, <2>3 DEF LiveBackward
<1>9. /\ sLeft' \in Nat /\ rLeft' \in Nat
      /\ sLeft > 0 => sLeft' = sLeft - 1
      /\ rLeft > 0 => rLeft' = rLeft - 1
  BY <1>2, <1>5 DEF Less
<1> QED BY <1>2, <1>4, <1>6, <1>7, <1>8, <1>9

LEMMA TickKeepsTurns ==
    ASSUME TypeOK, ClocksTypeOK, Turns, Tick
    PROVE  Turns'
<1>1. AllButNewestArrived(fwdAge') /\ AllButNewestArrived(backAge')
  BY TimePasses DEF Queues, Queue
<1>2. UNCHANGED <<t2r, r2t, spc, rpc>>
  BY TimePasses DEF vars, line, sndVars, rcvVars
<1>3. sLeft \in Nat /\ rLeft \in Nat
  BY DEF ClocksTypeOK
<1>4. ASSUME LiveForward'
      PROVE  \/ SenderReads /\ sLeft' + Newest(fwdAge') = SndVtime
             \/ spc = "failed" /\ sLeft' + Newest(fwdAge') > 2 * Delay
  <2>1. /\ LiveForward /\ Newest(fwdAge) < Delay /\ Newest(fwdAge) \in Nat
        /\ Newest(fwdAge') = Newest(fwdAge) + 1
    BY <1>4, TimePasses, AgesTyped DEF LiveForward
  <2>2. sLeft > 0
    BY <1>3, <2>1, TimePasses, Times DEF Turns, SenderReads
  <2>3. sLeft' = sLeft - 1
    BY <2>2, TimePasses
  <2>4. sLeft' + Newest(fwdAge') = sLeft + Newest(fwdAge)
    BY <1>3, <2>1, <2>3
  <2> QED BY <2>1, <2>4 DEF Turns
<1>5. ASSUME LiveBackward'
      PROVE  /\ spc \in {"llopen", "waitAck", "failed"} /\ LiveBackward
             /\ sLeft' + Newest(backAge') > Delay
             /\ rpc \notin {"start", "llopen"}
             /\ ReceiverEnded => rLeft' + Newest(backAge') > Delay
  <2>1. /\ LiveBackward /\ Newest(backAge) < Delay /\ Newest(backAge) \in Nat
        /\ Newest(backAge') = Newest(backAge) + 1
    BY <1>5, TimePasses, AgesTyped DEF LiveBackward
  <2>2. /\ spc \in {"llopen", "waitAck", "failed"} /\ rpc \notin {"start", "llopen"}
        /\ sLeft + Newest(backAge) > Delay
    BY <2>1 DEF Turns
  <2>3. sLeft > 0
    BY <1>3, <2>1, <2>2, Times
  <2>4. sLeft' + Newest(backAge') > Delay
    <3>1. sLeft' = sLeft - 1
      BY <2>3, TimePasses
    <3> QED BY <1>3, <2>1, <2>2, <3>1, Times
  <2>5. ASSUME ReceiverEnded
        PROVE  rLeft' + Newest(backAge') > Delay
    <3>1. rLeft + Newest(backAge) > Delay
      BY <2>1, <2>5 DEF Turns
    <3>2. rLeft > 0
      BY <1>3, <2>1, <3>1, Times
    <3>3. rLeft' = rLeft - 1
      BY <3>2, TimePasses
    <3> QED BY <1>3, <2>1, <3>1, <3>3, Times
  <2> QED BY <2>1, <2>2, <2>4, <2>5
<1>6. ~(LiveForward' /\ LiveBackward')
  BY TimePasses DEF Turns
<1> QED BY <1>1, <1>2, <1>4, <1>5, <1>6
        DEF Turns, SenderReads, SenderListens, ReceiverReads, ReceiverEnded

(* A lost frame is not live any more, and the others remain what they are. *)
LEMMA FramesAreLost ==
    ASSUME TypeOK, ClocksTypeOK, Turns, T_Line
    PROVE  /\ Queues' /\ UNCHANGED <<sndVars, rcvVars, sLeft, rLeft, sRun, rRun, peer, lost>>
           /\ Reduced(t2r', fwdAge', t2r, fwdAge) /\ Reduced(r2t', backAge', r2t, backAge)
<1>1. Queue(t2r, fwdAge, Frame) /\ Queue(r2t, backAge, Acks)
  BY QueuesHold DEF Queues
<1>2. LineAges /\ UNCHANGED <<sndVars, rcvVars, sLeft, rLeft, sRun, rRun, peer, lost>>
  BY DEF T_Line, Line
<1>3. Reduced(t2r, fwdAge, t2r, fwdAge) /\ Reduced(r2t, backAge, r2t, backAge)
  BY AgesTyped DEF Reduced
<1>4. CASE LoseForward
  <2>1. fwdAge' = Tail(fwdAge) /\ backAge' = backAge
    BY <1>1, <1>2, <1>4, AgesFollow DEF LoseForward, LineAges
  <2> QED BY <1>1, <1>2, <1>3, <1>4, <2>1, Leaves DEF LoseForward, Queues
<1>5. CASE LoseBackward
  <2>1. backAge' = Tail(backAge) /\ fwdAge' = fwdAge
    BY <1>1, <1>2, <1>5, AgesFollow DEF LoseBackward, LineAges
  <2> QED BY <1>1, <1>2, <1>3, <1>5, <2>1, Leaves DEF LoseBackward, Queues
<1> QED BY <1>4, <1>5 DEF T_Line, Line

LEMMA LineKeepsTurns ==
    ASSUME TypeOK, ClocksTypeOK, Turns, T_Line
    PROVE  Turns'
<1>1. AllButNewestArrived(fwdAge') /\ AllButNewestArrived(backAge')
  BY FramesAreLost DEF Queues, Queue
<1>2. UNCHANGED <<spc, rpc, sLeft, rLeft>>
  BY FramesAreLost DEF sndVars, rcvVars
<1>3. /\ LiveForward' => LiveForward /\ Newest(fwdAge') = Newest(fwdAge)
      /\ LiveBackward' => LiveBackward /\ Newest(backAge') = Newest(backAge)
  BY <1>2, FramesAreLost
  DEF Reduced, LiveForward, LiveBackward, ReceiverReads, SenderListens
<1>4. /\ ReceiverListens' => Len(t2r') <= 1
      /\ SenderListens' => Len(r2t') <= 1
  BY <1>2, FramesAreLost, AgesTyped DEF Turns, Reduced, ReceiverReads, SenderListens
<1> QED BY <1>1, <1>2, <1>3, <1>4 DEF Turns, SenderReads, ReceiverEnded

User == KillSender \/ KillReceiver \/ RestartSender \/ RestartReceiver

(* A pause lasts until no frame of the run before is live.                 *)
LEMMA NothingLiveAfterPause ==
    ASSUME TypeOK, ClocksTypeOK, Turns
    PROVE  /\ spc \in {"done", "failed"} /\ sLeft = 0 => ~LiveForward /\ ~LiveBackward
           /\ ReceiverEnded /\ rLeft = 0 => ~LiveBackward
<1>1. ASSUME LiveForward
      PROVE  sLeft # 0 \/ spc \notin {"done", "failed"}
  BY <1>1, AgesTyped, Times DEF Turns, LiveForward, SenderReads
<1>2. ASSUME LiveBackward
      PROVE  sLeft # 0 /\ (ReceiverEnded => rLeft # 0)
  BY <1>2, AgesTyped, Times DEF Turns, LiveBackward
<1> QED BY <1>1, <1>2

LEMMA UserKeepsTurns ==
    ASSUME TypeOK, ClocksTypeOK, Turns, User
    PROVE  Turns' /\ Queues' /\ ForwardKept /\ BackwardKept
<1>1. ForwardKept /\ BackwardKept
  BY DEF User, KillSender, KillReceiver, RestartSender, RestartReceiver, line, clocks,
         ForwardKept, BackwardKept
<1>2. Queues' /\ AllButNewestArrived(fwdAge') /\ AllButNewestArrived(backAge')
  BY <1>1, QueuesHold DEF Queues, Queue, ForwardKept, BackwardKept
<1>3. sLeft \in Nat /\ rLeft \in Nat
  BY DEF ClocksTypeOK
<1>4. CASE KillSender
  <2>1. UNCHANGED <<rpc, rLeft>> /\ spc' = "failed" /\ sLeft' = Pause
    BY <1>4 DEF KillSender, rcvVars
  <2>2. /\ LiveForward' <=> LiveForward
        /\ LiveBackward' => LiveBackward
        /\ UNCHANGED <<t2r, fwdAge, r2t, backAge>>
    BY <1>1, <2>1
    DEF ForwardKept, BackwardKept, LiveForward, LiveBackward, ReceiverReads, SenderListens
  <2>3. /\ LiveForward => Newest(fwdAge) \in Nat
        /\ LiveBackward => Newest(backAge) \in Nat
    BY AgesTyped DEF LiveForward, LiveBackward
  <2>4. ~SenderListens' /\ (ReceiverReads' <=> ReceiverReads)
        /\ (ReceiverEnded' <=> ReceiverEnded)
    BY <2>1 DEF SenderListens, ReceiverReads, ReceiverEnded
  <2> QED BY <1>1, <1>2, <2>1, <2>2, <2>3, <2>4, Times DEF Turns
<1>5. CASE KillReceiver
  <2>1. UNCHANGED <<spc, sLeft>> /\ rpc' = "failed" /\ rLeft' = Pause
    BY <1>5 DEF KillReceiver, sndVars
  <2>2. /\ LiveForward' => LiveForward
        /\ LiveBackward' <=> LiveBackward
        /\ UNCHANGED <<t2r, fwdAge, r2t, backAge>>
    BY <1>1, <2>1
    DEF ForwardKept, BackwardKept, LiveForward, LiveBackward, ReceiverReads, SenderListens
  <2>3. LiveBackward => Newest(backAge) \in Nat
    BY AgesTyped DEF LiveBackward
  <2>4. ~ReceiverListens' /\ (SenderListens' <=> SenderListens) /\ (SenderReads' <=> SenderReads)
    BY <2>1 DEF SenderListens, ReceiverReads, SenderReads
  <2> QED BY <1>1, <1>2, <2>1, <2>2, <2>3, <2>4, Times DEF Turns
<1>6. CASE RestartSender
  <2>1. ~LiveForward /\ ~LiveBackward /\ UNCHANGED rpc
    BY <1>6, NothingLiveAfterPause DEF RestartSender, rcvVars
  <2>2. ~LiveForward' /\ ~LiveBackward' /\ UNCHANGED <<t2r, r2t>>
        /\ ~SenderListens' /\ (ReceiverListens' <=> ReceiverListens)
    BY <1>1, <1>6, <2>1
    DEF RestartSender, ForwardKept, BackwardKept, LiveForward, LiveBackward, ReceiverReads,
        SenderListens
  <2> QED BY <1>1, <1>2, <2>2 DEF Turns
<1>7. CASE RestartReceiver
  <2>1. ~LiveBackward /\ UNCHANGED <<spc, sLeft>> /\ rpc' = "start"
    BY <1>7, NothingLiveAfterPause DEF RestartReceiver, ReceiverEnded, sndVars, clocks
  <2>2. /\ LiveForward' => LiveForward
        /\ ~LiveBackward' /\ UNCHANGED <<t2r, r2t, fwdAge>>
        /\ ~ReceiverListens' /\ (SenderListens' <=> SenderListens)
        /\ (SenderReads' <=> SenderReads)
    BY <1>1, <2>1
    DEF ForwardKept, BackwardKept, LiveForward, LiveBackward, ReceiverReads, SenderListens,
        SenderReads
  <2> QED BY <1>1, <1>2, <2>1, <2>2 DEF Turns
<1> QED BY <1>1, <1>2, <1>4, <1>5, <1>6, <1>7 DEF User

(***************************************************************************)
(* Types of the clocks.                                                    *)
(***************************************************************************)
LEMMA OwnTypes ==
    ASSUME TypeOK, ClocksTypeOK, Queues',
           sLeft' \in Nat, rLeft' \in Nat, rRun' \in Nat,
           sRun' \in {sRun, sRun + 1}, peer' \in {0, peer, sRun}, lost' \in Nat
    PROVE  ClocksTypeOK'
<1>1. /\ sRun \in Nat \ {0} /\ peer \in 0..sRun
  BY DEF ClocksTypeOK
<1>2. sRun' \in Nat \ {0} /\ peer' \in 0..sRun'
  <2>1. CASE sRun' = sRun
    BY <1>1, <2>1
  <2>2. CASE sRun' = sRun + 1
    BY <1>1, <2>2
  <2> QED BY <2>1, <2>2
<1>3. /\ fwdAge' \in Seq(0..Delay) /\ Len(fwdAge') = Len(t2r')
      /\ backAge' \in Seq(0..Delay) /\ Len(backAge') = Len(r2t')
  BY DEF Queues, Queue
<1> QED BY <1>2, <1>3 DEF ClocksTypeOK

LEMMA ClocksStep ==
    ASSUME TypeOK, ClocksTypeOK, Turns, Counters, Sizes, ReceivedInOrder, TimedNext
    PROVE  TypeOK' /\ ClocksTypeOK' /\ Turns'
<1>1. /\ sLeft \in Nat /\ rLeft \in Nat /\ rRun \in Nat /\ lost \in Nat
      /\ sRun \in {sRun, sRun + 1} /\ peer \in {0, peer, sRun} /\ 0 \in Nat
  BY DEF ClocksTypeOK
<1>2. CASE T_Sender
  <2>1. SenderStep /\ Queues' /\ Others /\ TypeOK'
    BY <1>2, SenderActs, SenderTypes
  <2>2. sLeft' \in Nat
    BY <1>1, <2>1, Times
    DEF SenderStep, SendsSet, SendsPacket, HearsUA, HearsOther, HearsAck, ReadsFile, WaitsInVain
  <2>3. ClocksTypeOK'
    BY <1>1, <2>1, <2>2, OwnTypes DEF Others
  <2> QED BY <2>1, <2>3, SenderKeepsTurns
<1>3. CASE T_Receiver
  <2>1. ReceiverStep /\ Queues' /\ OthersOfReceiver /\ TypeOK'
    BY <1>3, ReceiverActs, ReceiverTypes
  <2>2. rLeft' \in Nat
    BY <1>1, <2>1, Times
    DEF ReceiverStep, Opens, TakesSet, TakesSilently, TakesPacket, TakesOther, ReadsIdly,
        Returns,
        Stores
  <2>3. peer' \in {0, peer, sRun}
    BY <2>1
    DEF ReceiverStep, Opens, TakesSet, TakesSilently, TakesPacket, TakesOther, ReadsIdly,
        Returns,
        Stores
  <2>4. ClocksTypeOK'
    BY <1>1, <2>1, <2>2, <2>3, OwnTypes DEF OthersOfReceiver
  <2> QED BY <2>1, <2>4, ReceiverKeepsTurns
<1>4. CASE Tick
  <2>1. /\ Queues' /\ UNCHANGED <<vars, sRun, rRun, peer, lost>> /\ sLeft' \in Nat /\ rLeft' \in Nat
    BY <1>4, TimePasses
  <2>2. TypeOK'
    BY <2>1 DEF vars, line, sndVars, rcvVars, TypeOK, LineTypeOK, SenderTypeOK, ReceiverTypeOK
  <2>3. ClocksTypeOK'
    BY <1>1, <2>1, OwnTypes
  <2> QED BY <1>4, <2>2, <2>3, TickKeepsTurns
<1>5. CASE T_Line
  <2>1. Queues' /\ UNCHANGED <<sLeft, rLeft, sRun, rRun, peer, lost>>
    BY <1>5, FramesAreLost
  <2>2. TypeOK'
    BY <1>5, LineTyped DEF T_Line
  <2>3. ClocksTypeOK'
    BY <1>1, <2>1, OwnTypes
  <2> QED BY <1>5, <2>2, <2>3, LineKeepsTurns
<1>6. CASE User
  <2>1. Turns' /\ Queues' /\ ForwardKept
    BY <1>6, UserKeepsTurns
  <2>2. TypeOK'
    <3> USE DEF TypeOK, LineTypeOK, SenderTypeOK, SenderPlaces, ReceiverTypeOK, ReceiverPlaces
    <3>1. CASE KillSender
      BY <3>1 DEF KillSender, line, rcvVars
    <3>2. CASE KillReceiver
      BY <3>2, EmptySeq, SizesAreNat DEF KillReceiver, Forgets, line, sndVars
    <3>3. CASE RestartSender
      BY <3>3, SizesAreNat DEF RestartSender, line, rcvVars
    <3>4. CASE RestartReceiver
      BY <3>4, SizesAreNat, EmptySeq DEF RestartReceiver, Forgets, line, sndVars
    <3> QED BY <1>6, <3>1, <3>2, <3>3, <3>4 DEF User
  <2>3. ClocksTypeOK'
    <3>1. CASE KillSender \/ KillReceiver
      <4>1. lost' \in Nat
        BY <1>1, <3>1, PlacesCount DEF KillSender, KillReceiver, TypeOK, ReceiverTypeOK
      <4> QED BY <1>1, <2>1, <3>1, <4>1, OwnTypes, Times DEF KillSender, KillReceiver
    <3>2. CASE RestartSender
      BY <1>1, <2>1, <3>2, OwnTypes DEF RestartSender, clocks
    <3>3. CASE RestartReceiver
      BY <1>1, <2>1, <3>3, OwnTypes DEF RestartReceiver, clocks
    <3> QED BY <1>6, <3>1, <3>2, <3>3 DEF User
  <2> QED BY <2>1, <2>2, <2>3
<1> QED BY <1>2, <1>3, <1>4, <1>5, <1>6 DEF TimedNext, User

(***************************************************************************)
(* Who is linked to whom, and what has been delivered.                     *)
(***************************************************************************)
LEMMA LinkTypes ==
    ASSUME TypeOK, ClocksTypeOK
    PROVE  /\ seq \in {0, 1} /\ expectedSeq \in {0, 1} /\ pkt \in Nat /\ attempts \in Nat
           /\ Len(received) \in Nat /\ received \in Seq(Nat) /\ lost \in Nat
           /\ Stored \in Nat /\ Delivered \in Nat /\ Given \in Nat
           /\ sRun \in Nat \ {0} /\ peer \in Nat /\ peer <= sRun
           /\ pkt <= NumChunks /\ NumChunks \in Nat
           /\ spc \in SenderPlaces /\ rpc \in ReceiverPlaces
<1>1. received \in Seq(Nat) /\ lost \in Nat
  BY DEF TypeOK, ReceiverTypeOK, ClocksTypeOK
<1>2. Len(received) \in Nat /\ Stored \in Nat /\ Delivered \in Nat
  BY <1>1, PlacesCount
<1> QED BY <1>1, <1>2, SizesAreNat
        DEF TypeOK, SenderTypeOK, ReceiverTypeOK, ClocksTypeOK, Given

(* A step that leaves the receiver and its memory alone.                   *)
LEMMA StoreStays ==
    ASSUME Links, StoreKept, UNCHANGED <<rpc, lost>>
    PROVE  /\ Sizes' /\ ReceivedInOrder' /\ expectedSeq' = Parity(Stored')
           /\ Stored' = Stored /\ Delivered' = Delivered /\ Given' = Given
<1>1. Stored' = Stored
  BY DEF StoreKept, Stored
<1>2. Delivered' = Delivered
  BY <1>1 DEF Delivered
<1>3. Sizes' /\ ReceivedInOrder'
  BY DEF StoreKept, Links, Sizes, Wanted, ReceivedInOrder
<1> QED BY <1>1, <1>2, <1>3 DEF StoreKept, Links, Bits, Given

LEMMA SenderKeepsLinks ==
    ASSUME TypeOK, ClocksTypeOK, Turns, Links, SenderStep, Others
    PROVE  Links'
<1>1. UNCHANGED <<rpc, idleCount, sRun, peer, lost>> /\ StoreKept
  BY DEF Others, rcvVars, StoreKept
<1>2. /\ Sizes' /\ ReceivedInOrder' /\ expectedSeq' = Parity(Stored') /\ Given' = Given
      /\ (ReceiverListens' <=> ReceiverListens)
      /\ rpc \in {"start", "llopen"} => peer = 0 /\ idleCount = 0
      /\ rpc \in {"size", "chunks"} \cup Acknowledged => peer # 0
      /\ rpc # "failed" => lost = 0
  BY <1>1, StoreStays DEF Links, ReceiverReads
<1>3. ASSUME UNCHANGED <<pkt, seq>>
      PROVE  (LinkedInStep' <=> LinkedInStep) /\ Bits'
  BY <1>2, <1>3 DEF LinkedInStep, Links, Bits
<1>4. CASE SendsSet
  <2>1. Newest(t2r') = SetFrame /\ ~LiveBackward' /\ pkt = 0 /\ attempts = 0 /\ peer # sRun
    BY <1>4 DEF SendsSet, Joined, LiveBackward, Links
  <2> QED BY <1>1, <1>2, <1>3, <1>4, <2>1 DEF SendsSet, PacketKept, Links
<1>5. CASE SendsPacket
  <2>1. /\ Newest(t2r') = IFrame(seq, pkt) /\ IFrame(seq, pkt)' = IFrame(seq, pkt)
        /\ peer \in {0, sRun} /\ UNCHANGED <<pkt, seq, attempts>>
    BY <1>5 DEF SendsPacket, Joined, PacketKept, Links
  <2>2. ~LiveBackward'
    BY <1>5 DEF SendsPacket, BackwardKept, Turns, LiveBackward, SenderListens
  <2> QED BY <1>1, <1>2, <1>3, <1>5, <2>1, <2>2 DEF SendsPacket, Links
<1>6. ASSUME Hears PROVE ~LiveForward' /\ ~LiveBackward' /\ peer = sRun
  BY <1>2, <1>6 DEF Hears, ForwardKept, Turns, LiveForward, LiveBackward, Links
<1>7. CASE HearsUA
  BY <1>1, <1>2, <1>3, <1>6, <1>7 DEF HearsUA, PacketKept, Links
<1>8. CASE HearsOther
  BY <1>1, <1>2, <1>3, <1>6, <1>8 DEF HearsOther, sndVars, Links
<1>9. CASE HearsAck
  <2>1. /\ ~LiveForward' /\ ~LiveBackward' /\ peer = sRun /\ spc = "waitAck"
        /\ Given = pkt + 1
    BY <1>6, <1>9 DEF HearsAck, Hears, Links
  <2>2. CASE pkt = NumChunks
    BY <1>1, <1>2, <1>3, <1>9, <2>1, <2>2 DEF HearsAck, NextPacket, Links, LinkedInStep
  <2>3. CASE pkt # NumChunks
    <3>1. spc' = "llwrite" /\ pkt' = pkt + 1 /\ seq' = Toggle(seq)
      BY <1>9, <2>3 DEF HearsAck, NextPacket
    <3>2. Bits'
      <4>1. Parity(pkt + 1) = Toggle(Parity(pkt)) /\ seq = Parity(pkt)
        BY ParityAlternates, LinkTypes DEF Links, Bits
      <4>2. Parity(pkt') = Parity(pkt + 1)
        BY <3>1, Zenon
      <4> QED BY <1>2, <3>1, <4>1, <4>2 DEF Bits
    <3>3. LinkedInStep'
      BY <1>2, <2>1, <3>1 DEF LinkedInStep
    <3> QED BY <1>1, <1>2, <2>1, <3>1, <3>2, <3>3 DEF Links
  <2> QED BY <2>2, <2>3
<1>10. CASE ReadsFile
  <2>1. ~LiveForward' /\ ~LiveBackward'
    BY <1>2, <1>10
    DEF ReadsFile, ForwardKept, BackwardKept, Turns, SenderReads, SenderListens, LiveForward,
        LiveBackward
  <2> QED BY <1>1, <1>2, <1>3, <1>10, <2>1 DEF ReadsFile, PacketKept, Links
<1>11. CASE WaitsInVain
  <2>1. ~LiveForward /\ ~LiveBackward
    BY <1>11, AgesTyped, Times DEF WaitsInVain, Turns, LiveForward, LiveBackward, SenderReads
  <2>2. ~LiveForward' /\ ~LiveBackward'
    BY <1>2, <1>11, <2>1
    DEF WaitsInVain, SenderReads, SenderListens, ForwardKept, BackwardKept, LiveForward,
        LiveBackward
  <2> QED BY <1>1, <1>2, <1>3, <1>11, <2>2 DEF WaitsInVain, Links
<1> QED BY <1>4, <1>5, <1>7, <1>8, <1>9, <1>10, <1>11 DEF SenderStep

(* A receiver that reads can only be sent the packet in hand by the sender *)
(* it is linked to.                                                        *)
LEMMA PacketInHand ==
    ASSUME TypeOK, ClocksTypeOK, Links, LiveForward, Reading, Newest(t2r).ctrl # C_SET
    PROVE  /\ Newest(t2r) = IFrame(seq, pkt) /\ peer = sRun /\ spc \in {"waitAck", "failed"}
           /\ Newest(t2r).ctrl = seq /\ Newest(t2r).pkt = pkt /\ LinkedInStep
<1>1. Newest(t2r) # SetFrame
  BY DEF SetFrame
<1>2. /\ Newest(t2r) = IFrame(seq, pkt) /\ peer \in {0, sRun} /\ spc \in {"waitAck", "failed"}
  BY <1>1 DEF Links
<1>3. peer = sRun
  BY <1>2 DEF Links, Reading
<1> QED BY <1>2, <1>3 DEF Links, IFrame

(* Whether the packet in hand is the one a reading receiver expects tells  *)
(* whether it was given to it.                                             *)
LEMMA BitTells ==
    ASSUME TypeOK, ClocksTypeOK, Links, Reading, LinkedInStep
    PROVE  /\ Given = Stored /\ Delivered = Stored /\ lost = 0
           /\ expectedSeq = seq => Stored = pkt
           /\ expectedSeq # seq => Stored = pkt + 1
<1>1. Delivered = Stored /\ Stored \in Nat /\ lost = 0
  BY ReadingTakesAll DEF Links, Reading
<1>2. Given = Stored
  BY <1>1 DEF Given
<1>3. Stored \in {pkt, pkt + 1} /\ pkt \in Nat
  BY <1>2, LinkTypes DEF LinkedInStep
<1>4. seq = Parity(pkt) /\ expectedSeq = Parity(Stored)
  BY DEF Links, Bits
<1>5. Parity(pkt + 1) # Parity(pkt)
  BY <1>3, ParityAlternates, AcksDiffer
<1>6. CASE Stored = pkt
  BY <1>1, <1>2, <1>4, <1>6
<1>7. CASE Stored = pkt + 1
  <2>1. expectedSeq = Parity(pkt + 1)
    BY <1>4, <1>7, Zenon
  <2> QED BY <1>1, <1>2, <1>4, <1>5, <1>7, <2>1
<1> QED BY <1>3, <1>6, <1>7

LEMMA ReceiverKeepsLinks ==
    ASSUME TypeOK, ClocksTypeOK, Turns, Links, ReceiverStep, OthersOfReceiver
    PROVE  Links'
<1>1. UNCHANGED <<spc, pkt, seq, attempts, sRun, lost>>
      /\ (SenderListens' <=> SenderListens) /\ IFrame(seq, pkt)' = IFrame(seq, pkt)
  BY DEF OthersOfReceiver, sndVars, SenderListens
<1>2. seq = Parity(pkt) /\ (spc \in {"start", "llopen", "fopen"} => pkt = 0 /\ attempts = 0)
  BY DEF Links, Bits
<1>3. ASSUME StoreKept, Stored' = Stored, Delivered' = Delivered
      PROVE  Bits' /\ Given' = Given /\ (LinkedInStep' <=> LinkedInStep)
  BY <1>1, <1>2, <1>3 DEF StoreKept, Links, Bits, Given, LinkedInStep
<1>4. ASSUME Takes
      PROVE  ~LiveForward' /\ ~LiveBackward
  BY <1>4 DEF Takes, LiveForward, Turns
<1>5. ASSUME StoreKept, UNCHANGED rpc
      PROVE  /\ Sizes' /\ ReceivedInOrder' /\ Bits' /\ Given' = Given
             /\ LinkedInStep' <=> LinkedInStep
  BY <1>1, <1>3, <1>5, StoreStays
<1>6. CASE Opens
  <2>1. peer = 0 /\ peer # sRun /\ ~LiveBackward'
    BY <1>1, <1>6, LinkTypes DEF Opens, Links, Turns, LiveBackward, BackwardKept
  <2>2. LiveForward' => LiveForward /\ Newest(t2r') = Newest(t2r)
    BY <1>6 DEF Opens, Reduced, LiveForward
  <2>3. Stored' = Stored /\ Delivered' = Delivered
    <3>1. Stored = 0 /\ Stored' = 0
      BY <1>6 DEF Opens, Stored
    <3> QED BY <1>6, <3>1 DEF Opens, Delivered
  <2>4. Sizes' /\ ReceivedInOrder'
    BY <1>6 DEF Opens, StoreKept, Links, Sizes, Wanted, ReceivedInOrder
  <2> QED BY <1>1, <1>2, <1>3, <1>6, <2>1, <2>2, <2>3, <2>4 DEF Opens, Links
<1>7. CASE TakesSet
  <2>1. ~LiveForward' /\ LiveForward /\ rpc = "llopen" /\ rpc' = "size" /\ peer' = sRun
    BY <1>4, <1>7 DEF TakesSet, AnswersWith, Takes
  <2>2. Newest(t2r) # IFrame(seq, pkt)
    BY <1>7, LinkTypes, AcksDiffer DEF TakesSet, IFrame
  <2>3. pkt = 0 /\ spc \in {"llopen", "failed"} /\ lost = 0
    BY <2>1, <2>2 DEF Links
  <2>4. Stored = 0 /\ Stored' = 0
    BY <2>1 DEF Stored
  <2>5. Delivered = 0 /\ Delivered' = 0
    BY <2>1, <2>4 DEF Delivered
  <2>6. Bits' /\ LinkedInStep'
    BY <1>1, <1>3, <1>7, <2>3, <2>4, <2>5 DEF TakesSet, LinkedInStep, Given
  <2>7. Sizes' /\ ReceivedInOrder'
    BY <1>7 DEF TakesSet, StoreKept, Links, Sizes, Wanted, ReceivedInOrder
  <2> QED BY <1>1, <1>2, <1>7, <2>1, <2>3, <2>6, <2>7, LinkTypes DEF TakesSet, Links
<1>8. CASE TakesSilently
  <2>1. ~LiveForward' /\ ~LiveBackward'
    BY <1>1, <1>4, <1>8 DEF TakesSilently, BackwardKept, LiveBackward
  <2> QED BY <1>1, <1>2, <1>5, <1>8, <2>1 DEF TakesSilently, Links
<1>9. CASE TakesPacket
  <2>1. /\ LiveForward /\ ~LiveForward' /\ Reading /\ rpc \in {"size", "chunks"}
        /\ Newest(t2r).ctrl = expectedSeq /\ Newest(t2r).ctrl # C_SET
    <3>1. expectedSeq # C_SET
      BY LinkTypes, AcksDiffer
    <3> QED BY <1>4, <1>9, <3>1 DEF TakesPacket, AnswersWith, Takes, Reading
  <2>2. /\ peer = sRun /\ spc \in {"waitAck", "failed"} /\ expectedSeq = seq
        /\ frameData' = pkt /\ LinkedInStep
    BY <1>9, <2>1, PacketInHand DEF TakesPacket
  <2>3. Stored = pkt /\ lost = 0
    BY <2>1, <2>2, BitTells
  <2>4. /\ UNCHANGED <<expectedSeq, fileSize, totalReceived, received, peer>>
        /\ rpc' = IF rpc = "size" THEN "sizeAcked" ELSE "chunkAcked"
    BY <1>9 DEF TakesPacket
  <2>5. /\ Stored' = pkt /\ Delivered' = pkt + 1 /\ rpc' \in Acknowledged
        /\ Sizes' /\ ReceivedInOrder'
    <3>1. CASE rpc = "size"
      <4>1. Stored = 0 /\ Stored' = 0 /\ rpc' = "sizeAcked"
        BY <2>4, <3>1 DEF Stored
      <4>2. Delivered' = 1
        BY <4>1 DEF Delivered
      <4> QED BY <2>2, <2>3, <2>4, <3>1, <4>1, <4>2 DEF Links, Sizes, Wanted, ReceivedInOrder
    <3>2. CASE rpc = "chunks"
      <4>1. rpc' = "chunkAcked"
        BY <2>4, <3>2
      <4>2. Stored = 1 + Len(received) /\ Stored' = 1 + Len(received)
        BY <2>4, <3>2, <4>1 DEF Stored
      <4>3. Delivered' = pkt + 1
        BY <2>3, <4>1, <4>2, LinkTypes DEF Delivered
      <4>4. frameData' = Len(received) + 1
        BY <2>2, <2>3, <4>2, LinkTypes
      <4> QED BY <2>3, <2>4, <3>2, <4>1, <4>2, <4>3, <4>4
              DEF Links, Sizes, Wanted, ReceivedInOrder
    <3> QED BY <2>1, <3>1, <3>2
  <2>6. Given' = pkt + 1 /\ LinkedInStep'
    BY <1>1, <2>3, <2>5, LinkTypes DEF Given, LinkedInStep
  <2>7. Bits'
    BY <1>1, <1>2, <2>3, <2>4, <2>5 DEF Bits, Links
  <2> QED BY <1>1, <1>2, <2>1, <2>2, <2>3, <2>4, <2>5, <2>6, <2>7, LinkTypes DEF Links
<1>10. CASE TakesOther
  <2>1. /\ LiveForward /\ ~LiveForward' /\ Newest(r2t') = AckCtrl(Toggle(expectedSeq))
        /\ Reading
    BY <1>4, <1>10 DEF TakesOther, AnswersWith, Takes, Joined
  <2>2. peer = sRun /\ spc \in {"waitAck", "failed"} /\ LinkedInStep
    BY <1>10, <2>1, PacketInHand DEF TakesOther
  <2>3. AckCtrl(Toggle(expectedSeq)) # AckCtrl(expectedSeq)
    BY LinkTypes, AcksDiffer
  <2>4. Newest(r2t') = AckCtrl(seq) => Given = pkt + 1
    <3>1. Newest(r2t') = AckCtrl(seq) => expectedSeq # seq
      BY <2>1, <2>3
    <3> QED BY <2>1, <2>2, <3>1, BitTells
  <2> QED BY <1>1, <1>2, <1>5, <1>10, <2>1, <2>2, <2>4 DEF TakesOther, Links, Reading
<1>11. ASSUME peer' = peer, ForwardKept, BackwardKept, Bits', Sizes', ReceivedInOrder',
              Given' = Given,
              rpc' \in {rpc, "chunks", "saving", "saved", "unsaved", "failed"},
              rpc' = "chunks" => rpc \in {"chunks"} \cup Acknowledged,
              rpc' \in {"start", "llopen"} => idleCount' = idleCount,
              rpc' # "failed" => rpc # "failed",
              LiveForward' => LiveForward
       PROVE  Links'
  <2>1. /\ LiveBackward' => LiveBackward
        /\ UNCHANGED <<t2r, r2t, fwdAge, backAge>>
    BY <1>1, <1>11 DEF LiveBackward, BackwardKept, ForwardKept
  <2>2. LinkedInStep => LinkedInStep'
    BY <1>1, <1>11 DEF LinkedInStep
  <2> QED BY <1>1, <1>2, <1>11, <2>1, <2>2 DEF Links
<1>12. ASSUME StoreKept, rpc \in {"llopen", "size", "chunks", "saving"},
              rpc' \in {"saving", "saved", "unsaved", "failed"},
              rpc' = "failed" => rpc \in {"llopen", "size"},
              rpc' \in {"saving", "saved", "unsaved"} => rpc \in {"chunks", "saving"}
       PROVE  Bits' /\ Sizes' /\ ReceivedInOrder' /\ Given' = Given
  <2>1. Stored' = Stored
    <3>1. CASE rpc' = "failed"
      BY <1>12, <3>1 DEF Stored
    <3>2. CASE rpc' # "failed"
      BY <1>12, <3>2 DEF Stored, StoreKept
    <3> QED BY <3>1, <3>2
  <2>2. Delivered' = Delivered
    BY <1>12, <2>1 DEF Delivered
  <2>3. Sizes' /\ ReceivedInOrder'
    BY <1>12 DEF StoreKept, Links, Sizes, Wanted, ReceivedInOrder
  <2> QED BY <1>3, <1>12, <2>1, <2>2, <2>3
<1>13. CASE ReadsIdly
  <2>1. LiveForward' => LiveForward
    BY <1>13 DEF ReadsIdly, Reading, LiveForward, ReceiverReads, ForwardKept
  <2>2. CASE rpc' = rpc
    BY <1>5, <1>11, <1>13, <2>1, <2>2 DEF ReadsIdly, Reading
  <2>3. CASE rpc' # rpc
    <3>1. Bits' /\ Sizes' /\ ReceivedInOrder' /\ Given' = Given
      BY <1>12, <1>13, <2>3 DEF ReadsIdly, Reading
    <3> QED BY <1>11, <1>13, <2>1, <2>3, <3>1 DEF ReadsIdly, Reading
  <2> QED BY <2>2, <2>3
<1>14. CASE Returns
  <2>1. LiveForward' => LiveForward
    BY <1>14 DEF Returns, LiveForward, ReceiverReads, ForwardKept
  <2>2. Bits' /\ Sizes' /\ ReceivedInOrder' /\ Given' = Given
    BY <1>12, <1>14 DEF Returns
  <2> QED BY <1>11, <1>14, <2>1, <2>2 DEF Returns
<1>15. CASE Stores
  <2>1. /\ R_Takes /\ rpc \in Acknowledged /\ rpc' \in {"chunks", "saving"}
        /\ Stored' = Stored + 1 /\ Delivered' = Delivered /\ Sizes' /\ ReceivedInOrder'
    BY <1>15, TakesNext DEF Stores, Links
  <2>2. expectedSeq' = Parity(Stored')
    <3>1. expectedSeq' = Toggle(Parity(Stored))
      BY <2>1 DEF R_Takes, Links, Bits
    <3> QED BY <2>1, <3>1, ParityAlternates, LinkTypes
  <2>3. Bits' /\ Given' = Given
    BY <1>1, <1>2, <2>1, <2>2 DEF Bits, Given
  <2>4. LiveForward' => LiveForward
    BY <1>15, <2>1 DEF Stores, LiveForward, ReceiverReads, ForwardKept
  <2> QED BY <1>11, <1>15, <2>1, <2>3, <2>4 DEF Stores
<1> QED BY <1>6, <1>7, <1>8, <1>9, <1>10, <1>13, <1>14, <1>15 DEF ReceiverStep

(* A receiver whose process has gone, or begins, holds nothing.            *)
LEMMA NothingHeld ==
    ASSUME Forgets, rpc' \in {"start", "failed"}
    PROVE  /\ Sizes' /\ ReceivedInOrder' /\ expectedSeq' = Parity(Stored')
           /\ Delivered' = 0
<1>1. received' = << >> /\ totalReceived' = 0 /\ expectedSeq' = 0
  BY DEF Forgets
<1>2. /\ Len(<< >>) = 0 /\ 0 <= ChunksOf(Wanted)
      /\ Smaller(0 * ChunkSize, Wanted) = 0
  BY EmptySeq, SizesAreNat, ChunkCounts DEF Smaller
<1>6. Parity(0) = 0
  BY ParityAlternates
<1>3. Sizes' /\ ReceivedInOrder'
  BY <1>1, <1>2 DEF Sizes, Wanted, ReceivedInOrder
<1>4. Stored' = 0
  BY DEF Stored
<1>5. Delivered' = 0
  BY <1>4 DEF Delivered
<1> QED BY <1>1, <1>3, <1>4, <1>5, <1>6

(* Time, the line and the user do not link anybody.                        *)
LEMMA OthersKeepLinks ==
    ASSUME TypeOK, ClocksTypeOK, Turns, Links, Tick \/ T_Line \/ User
    PROVE  Links'
<1>1. ASSUME UNCHANGED <<rcvVars, lost>>
      PROVE  /\ Sizes' /\ ReceivedInOrder' /\ expectedSeq' = Parity(Stored') /\ Given' = Given
             /\ UNCHANGED <<rpc, idleCount, lost>> /\ (ReceiverListens' <=> ReceiverListens)
  BY <1>1, StoreStays DEF rcvVars, StoreKept, ReceiverReads
<1>2. ASSUME UNCHANGED <<pkt, seq, rcvVars, lost>>
      PROVE  (LinkedInStep' <=> LinkedInStep) /\ Bits' /\ IFrame(seq, pkt)' = IFrame(seq, pkt)
  BY <1>1, <1>2 DEF LinkedInStep, Links, Bits
<1>3. CASE Tick \/ T_Line
  <2>1. UNCHANGED <<sndVars, rcvVars, sRun, peer, lost>>
    BY <1>3, TimePasses, FramesAreLost DEF vars
  <2>2. UNCHANGED <<spc, pkt, seq, attempts>>
    BY <2>1 DEF sndVars
  <2>3. LiveForward' => LiveForward /\ Newest(t2r') = Newest(t2r)
    BY <1>1, <1>3, <2>1, TimePasses, FramesAreLost
    DEF vars, line, Newest, Reduced, LiveForward
  <2>4. LiveBackward' => LiveBackward /\ Newest(r2t') = Newest(r2t)
    BY <1>3, <2>2, TimePasses, FramesAreLost
    DEF vars, line, Newest, Reduced, LiveBackward, SenderListens
  <2> QED BY <1>1, <1>2, <2>1, <2>2, <2>3, <2>4 DEF Links
<1>4. CASE User
  <2>1. UNCHANGED <<t2r, fwdAge, r2t, backAge>>
    BY <1>4, UserKeepsTurns DEF ForwardKept, BackwardKept
  <2>2. CASE KillSender
    <3>1. spc' = "failed" /\ UNCHANGED <<pkt, seq, attempts, rcvVars, sRun, peer, lost>>
      BY <2>2 DEF KillSender
    <3>2. (LiveForward' => LiveForward) /\ (LiveBackward' => LiveBackward)
      BY <1>1, <2>1, <3>1 DEF LiveForward, LiveBackward, SenderListens
    <3>3. LiveForward => spc \in {"llopen", "waitAck", "failed"}
      BY DEF Turns, SenderReads
    <3> QED BY <1>1, <1>2, <2>1, <3>1, <3>2, <3>3 DEF Links
  <2>3. CASE KillReceiver
    <3>1. /\ rpc' = "failed" /\ rpc # "failed" /\ lost' = Delivered
          /\ Forgets /\ UNCHANGED <<sndVars, sRun, peer>>
      BY <2>3 DEF KillReceiver
    <3>2. UNCHANGED <<spc, pkt, seq, attempts>> /\ IFrame(seq, pkt)' = IFrame(seq, pkt)
      BY <3>1 DEF sndVars
    <3>3. (LiveForward' => LiveForward) /\ (LiveBackward' => LiveBackward)
      BY <2>1, <3>1, <3>2 DEF LiveForward, LiveBackward, ReceiverReads, SenderListens
    <3>4. Sizes' /\ ReceivedInOrder' /\ Bits' /\ Delivered' = 0
      BY <3>1, <3>2, NothingHeld DEF Links, Bits
    <3>5. Given' = Given
      <4>1. lost = 0
        BY <3>1 DEF Links
      <4> QED BY <3>1, <3>4, <4>1, LinkTypes DEF Given
    <3>6. LinkedInStep => LinkedInStep'
      BY <3>2, <3>5 DEF LinkedInStep
    <3> QED BY <2>1, <3>1, <3>2, <3>3, <3>4, <3>5, <3>6 DEF Links
  <2>4. CASE RestartSender
    <3>1. /\ spc' = "start" /\ pkt' = 0 /\ seq' = 0 /\ attempts' = 0 /\ sRun' = sRun + 1
          /\ UNCHANGED <<rcvVars, peer, lost>>
      BY <2>4 DEF RestartSender
    <3>2. ~LiveForward' /\ ~LiveBackward'
      BY <1>1, <2>1, <2>4, <3>1, NothingLiveAfterPause
      DEF RestartSender, LiveForward, LiveBackward, SenderListens
    <3>3. peer' # sRun' /\ Parity(0) = 0
      BY <3>1, LinkTypes, ParityAlternates
    <3>4. Bits'
      BY <1>1, <3>1, <3>3 DEF Bits
    <3> QED BY <1>1, <3>1, <3>2, <3>3, <3>4 DEF Links
  <2>5. CASE RestartReceiver
    <3>1. /\ rpc' = "start" /\ peer' = 0 /\ lost' = 0 /\ idleCount' = 0 /\ Forgets
          /\ UNCHANGED <<sndVars, sRun>>
      BY <2>5 DEF RestartReceiver, Forgets
    <3>2. UNCHANGED <<spc, pkt, seq, attempts>> /\ IFrame(seq, pkt)' = IFrame(seq, pkt)
      BY <3>1 DEF sndVars
    <3>3. (LiveForward' => LiveForward) /\ ~LiveBackward'
      BY <2>1, <2>5, <3>1, <3>2, NothingLiveAfterPause
      DEF RestartReceiver, LiveForward, LiveBackward, ReceiverReads, ReceiverEnded,
          SenderListens
    <3>4. Sizes' /\ ReceivedInOrder' /\ Bits'
      BY <3>1, <3>2, NothingHeld DEF Links, Bits
    <3>5. peer' # sRun'
      BY <3>1, LinkTypes
    <3> QED BY <2>1, <3>1, <3>2, <3>3, <3>4, <3>5 DEF Links
  <2> QED BY <1>4, <2>2, <2>3, <2>4, <2>5 DEF User
<1> QED BY <1>3, <1>4

(***************************************************************************)
(* The receiver's patience.                                                *)
(***************************************************************************)
LEMMA Products == \A m, n \in Nat : m * n \in Nat /\ (m + 1) * n = m * n + n
  OBVIOUS

LEMMA AttemptsTake ==
    /\ \A n \in Nat : /\ Attempts(n) \in Nat
                      /\ Attempts(n + 1) = Attempts(n) + SndVtime + Nap
    /\ \A m, n \in Nat : m <= n => Attempts(m) <= Attempts(n)
<1> DEFINE A == SndVtime + Nap
<1>1. A \in Nat
  BY Times
<1>2. \A n \in Nat : Attempts(n) = n * A
  BY DEF Attempts
<1>3. ASSUME NEW n \in Nat
      PROVE  Attempts(n) \in Nat /\ Attempts(n + 1) = Attempts(n) + SndVtime + Nap
  <2>1. n * A \in Nat /\ (n + 1) * A = n * A + A /\ n + 1 \in Nat
    BY <1>1, <1>3, Products
  <2>2. Attempts(n) = n * A /\ Attempts(n + 1) = (n + 1) * A
    BY <1>2, <2>1
  <2> QED BY <2>1, <2>2, Times
<1>4. ASSUME NEW m \in Nat, NEW n \in Nat, m <= n
      PROVE  Attempts(m) <= Attempts(n)
  <2> HIDE DEF A
  <2>1. PICK d \in Nat : n = m + d
    <3>1. n - m \in Nat /\ n = m + (n - m)
      BY <1>4
    <3> QED BY <3>1
  <2>2. (m + d) * A = m * A + d * A
    BY <1>1
  <2>3. d * A \in Nat /\ m * A \in Nat
    BY <1>1, Products
  <2> QED BY <1>2, <2>1, <2>2, <2>3
<1> QED BY <1>3, <1>4

LEMMA SilenceIsLong ==
    /\ Silence \in Nat /\ Silence >= 2 * Delay + SndVtime + Nap
    /\ Silence = 2 * Delay + Attempts(MaxRetries - 1)
    /\ MaxRetries - 1 \in Nat /\ MaxIdle * RcvVtime > Silence
<1>1. MaxRetries - 1 \in Nat /\ MaxRetries - 2 \in Nat /\ (MaxRetries - 2) + 1 = MaxRetries - 1
      /\ MaxIdle * RcvVtime > Silence
  BY SizesAreNat, PatienceAssumption
<1>2. Attempts(MaxRetries - 2) \in Nat
      /\ Attempts(MaxRetries - 1) = Attempts(MaxRetries - 2) + SndVtime + Nap
  <2>1. Attempts((MaxRetries - 2) + 1) = Attempts(MaxRetries - 2) + SndVtime + Nap
    BY <1>1, AttemptsTake
  <2> QED BY <1>1, <2>1, AttemptsTake
<1> QED BY <1>1, <1>2, Times DEF Silence

LEMMA PatienceTypes ==
    ASSUME TypeOK, ClocksTypeOK, Patience
    PROVE  /\ idleCount \in Nat /\ sLeft \in Nat /\ rLeft \in Nat /\ attempts \in Nat
           /\ idleCount * RcvVtime \in Nat
           /\ ReceiverListens => Idle \in Nat
           /\ spc # "failed" => /\ MaxRetries - 1 - attempts \in Nat
                                /\ MaxRetries - 1 - attempts <= MaxRetries - 1
                                /\ Attempts(MaxRetries - 1 - attempts) \in Nat
                                /\ Attempts(MaxRetries - 1 - attempts) <= Attempts(MaxRetries - 1)
<1>1. idleCount \in Nat /\ sLeft \in Nat /\ rLeft \in Nat /\ attempts \in Nat
  BY SizesAreNat DEF TypeOK, SenderTypeOK, ReceiverTypeOK, ClocksTypeOK
<1>2. idleCount * RcvVtime \in Nat
  BY <1>1, Times, Products
<1>3. ASSUME ReceiverListens
      PROVE  Idle \in Nat
  BY <1>1, <1>2, <1>3, Times DEF Patience, Idle
<1>4. ASSUME spc # "failed"
      PROVE  /\ MaxRetries - 1 - attempts \in Nat
             /\ MaxRetries - 1 - attempts <= MaxRetries - 1
  BY <1>1, <1>4, SizesAreNat DEF Patience, Counters
<1> QED BY <1>1, <1>2, <1>3, <1>4, AttemptsTake, SilenceIsLong

LEMMA SenderKeepsPatience ==
    ASSUME TypeOK, ClocksTypeOK, Turns, Links, Patience, SenderStep, Others
    PROVE  Patience'
<1>1. /\ UNCHANGED <<rpc, idleCount, rLeft, sRun, peer>>
      /\ Idle' = Idle /\ (Serving' <=> Serving) /\ (GaveUp' <=> GaveUp)
      /\ (ReceiverReads' <=> ReceiverReads) /\ (Trying' <=> Trying)
  BY DEF Others, rcvVars, Idle, Serving, Reading, GaveUp, ReceiverReads, Trying
<1>2. ASSUME spc' # "failed" => attempts' < MaxRetries /\ ~(GaveUp /\ peer = sRun),
             Serving /\ peer = sRun => LinkedPatience'
      PROVE  Patience'
  BY <1>1, <1>2 DEF Patience, Counters, NoAttemptWasted
<1>3. spc # "failed" => attempts < MaxRetries
  BY DEF Patience, Counters
<1>4. CASE SendsSet
  BY <1>1, <1>2, <1>3, <1>4 DEF SendsSet, PacketKept, Links
<1>5. CASE SendsPacket
  <2>1. ~(GaveUp /\ peer = sRun)
    BY <1>5 DEF SendsPacket, Patience, NoAttemptWasted
  <2>2. ~LiveBackward'
    BY <1>5 DEF SendsPacket, BackwardKept, Turns, LiveBackward, SenderListens
  <2>3. ASSUME Serving, peer = sRun
        PROVE  LinkedPatience'
    <3>1. Ahead <= Silence /\ Idle \in Nat
      BY <1>5, <2>3, PatienceTypes
      DEF SendsPacket, Patience, LinkedPatience, Serving, Reading, ReceiverReads
    <3>2. Ahead' = Ahead + SndVtime /\ Ahead \in Nat
      BY <1>1, <1>5, <3>1, PatienceTypes, Times DEF SendsPacket, PacketKept, Ahead
    <3> QED BY <1>5, <2>2, <3>1, <3>2, SilenceIsLong, Times DEF SendsPacket, LinkedPatience
  <2> QED BY <1>2, <1>3, <1>5, <2>1, <2>3 DEF SendsPacket, PacketKept
<1>6. ASSUME Hears
      PROVE  /\ ~LiveBackward' /\ ~GaveUp /\ peer = sRun /\ spc \in {"llopen", "waitAck"}
             /\ Serving => Idle = Delay
  <2>1. /\ LiveBackward /\ Newest(backAge) = Delay /\ r2t # << >> /\ peer = sRun
        /\ spc \in {"llopen", "waitAck"} /\ ~LiveBackward'
    BY <1>6 DEF Hears, LiveBackward, SenderReads, Links
  <2> QED BY <2>1 DEF Patience, LinkedPatience
<1>7. CASE HearsUA
  <2>1. ASSUME Serving
        PROVE  LinkedPatience'
    <3>1. attempts' = 0 /\ sLeft' = 0 /\ Idle' = Delay /\ spc' = "fopen" /\ ~LiveBackward'
      BY <1>1, <1>6, <1>7, <2>1 DEF HearsUA, PacketKept, Links
    <3>2. Ahead' = Silence
      BY <3>1, SilenceIsLong, Times, AttemptsTake DEF Ahead
    <3> QED BY <3>1, <3>2, SilenceIsLong DEF LinkedPatience
  <2> QED BY <1>2, <1>3, <1>6, <1>7, <2>1 DEF HearsUA, PacketKept
<1>8. CASE HearsOther
  <2>1. ASSUME Serving
        PROVE  LinkedPatience'
    <3>1. UNCHANGED <<spc, attempts>> /\ sLeft' = SndVtime /\ Idle' = Delay /\ ~LiveBackward'
      BY <1>1, <1>6, <1>8, <2>1 DEF HearsOther, sndVars
    <3>2. spc \in {"llopen", "waitAck"}
      BY <1>6, <1>8 DEF HearsOther
    <3>3. Ahead' = Delay + SndVtime + Delay + Attempts(MaxRetries - 1 - attempts)
      BY <3>1 DEF Ahead
    <3>4. Ahead' <= Silence + SndVtime
      <4>1. Delay + SndVtime + Delay + Attempts(MaxRetries - 1 - attempts) <= Silence + SndVtime
        <5>1. spc # "failed"
          BY <3>2
        <5> QED BY <5>1, PatienceTypes, SilenceIsLong, Times, AttemptsTake, SMTT(30)
      <4> QED BY <3>3, <4>1
    <3> QED BY <3>1, <3>2, <3>4, Times DEF LinkedPatience
  <2> QED BY <1>2, <1>3, <1>6, <1>8, <2>1 DEF HearsOther, sndVars
<1>9. CASE HearsAck
  <2>1. CASE pkt = NumChunks
    <3>1. spc' = "done" /\ attempts' = attempts /\ spc = "waitAck"
      BY <1>9, <2>1 DEF HearsAck, NextPacket
    <3> QED BY <1>2, <1>3, <1>6, <1>9, <3>1 DEF HearsAck, LinkedPatience
  <2>2. CASE pkt # NumChunks
    <3>1. spc' = "llwrite" /\ attempts' = 0 /\ sLeft' = 0 /\ 0 < MaxRetries
      BY <1>9, <2>2, SizesAreNat DEF HearsAck, NextPacket
    <3>2. ASSUME Serving
          PROVE  LinkedPatience'
      <4>1. Idle' = Delay /\ ~LiveBackward'
        BY <1>1, <1>6, <1>9, <3>2 DEF HearsAck
      <4>2. Ahead' = Silence
        BY <3>1, <4>1, SilenceIsLong, Times, AttemptsTake DEF Ahead
      <4> QED BY <3>1, <4>1, <4>2, SilenceIsLong DEF LinkedPatience
    <3> QED BY <1>2, <1>6, <1>9, <3>1, <3>2 DEF HearsAck
  <2> QED BY <2>1, <2>2
<1>10. CASE ReadsFile
  <2>1. ~(GaveUp /\ peer = sRun)
    BY <1>10 DEF ReadsFile, Patience, NoAttemptWasted
  <2>2. ~LiveBackward'
    BY <1>10 DEF ReadsFile, BackwardKept, Turns, LiveBackward, SenderListens
  <2>3. ASSUME Serving, peer = sRun
        PROVE  LinkedPatience'
    <3>1. Ahead <= Silence /\ Idle \in Nat
      BY <1>10, <2>3, PatienceTypes
      DEF ReadsFile, Patience, LinkedPatience, Serving, Reading, ReceiverReads
    <3>2. Ahead' <= Silence
      BY <1>1, <1>10, <3>1, PatienceTypes, SilenceIsLong, Times DEF ReadsFile, PacketKept, Ahead
    <3> QED BY <1>10, <2>2, <3>2 DEF ReadsFile, LinkedPatience
  <2> QED BY <1>2, <1>3, <1>10, <2>1, <2>3 DEF ReadsFile, PacketKept
<1>11. CASE WaitsInVain
  <2>1. ~LiveBackward'
    <3>1. ~LiveBackward /\ r2t = << >>
      BY <1>11, AgesTyped, Times
      DEF WaitsInVain, Turns, LiveBackward, SenderReads, SenderListens
    <3> QED BY <1>11, <3>1 DEF WaitsInVain, BackwardKept, LiveBackward
  <2>2. CASE spc' = "failed"
    BY <1>2, <2>1, <2>2 DEF LinkedPatience
  <2>3. CASE spc' # "failed"
    <3>1. /\ spc = "waitAck" /\ spc' = "llwrite" /\ sLeft = 0 /\ sLeft' = Nap
          /\ attempts' = attempts + 1 /\ attempts' # MaxRetries
      BY <1>11, <2>3 DEF WaitsInVain
    <3>2. attempts + 1 < MaxRetries /\ attempts # MaxRetries - 1
      BY <1>3, <3>1, SizesAreNat, PatienceTypes
    <3>3. attempts' < MaxRetries
      BY <3>1, <3>2
    <3>4. ~(GaveUp /\ peer = sRun)
      BY <3>1, <3>2 DEF Patience, NoAttemptWasted
    <3>5. ASSUME Serving, peer = sRun
          PROVE  LinkedPatience'
      <4>1. Idle \in Nat /\ Ahead <= Silence + SndVtime
        BY <3>1, <3>5, PatienceTypes
        DEF Patience, LinkedPatience, Serving, Reading, ReceiverReads
      <4>2. /\ MaxRetries - 1 - (attempts + 1) \in Nat
            /\ (MaxRetries - 1 - (attempts + 1)) + 1 = MaxRetries - 1 - attempts
        BY <3>2, SizesAreNat, PatienceTypes
      <4>3. /\ Attempts(MaxRetries - 1 - (attempts + 1)) \in Nat
            /\ Attempts(MaxRetries - 1 - attempts)
                  = Attempts(MaxRetries - 1 - (attempts + 1)) + SndVtime + Nap
        BY <4>2, AttemptsTake
      <4>4. Ahead' = Idle + Nap + Delay + Attempts(MaxRetries - 1 - (attempts + 1))
        BY <1>1, <3>1 DEF Ahead
      <4>5. Ahead' <= Silence
        BY <3>1, <4>1, <4>3, <4>4, SilenceIsLong, Times DEF Ahead
      <4> QED BY <2>1, <3>1, <4>5 DEF LinkedPatience
    <3> QED BY <1>2, <3>3, <3>4, <3>5
  <2> QED BY <2>2, <2>3
<1> QED BY <1>4, <1>5, <1>7, <1>8, <1>9, <1>10, <1>11 DEF SenderStep

(* A receiver that has just read a frame waits for the next one from now.  *)
LEMMA PatienceRenewed ==
    ASSUME TypeOK, ClocksTypeOK, Turns, Links, Patience, OthersOfReceiver, Takes,
           idleCount' = 0, Serving' => rLeft' = RcvVtime,
           rpc' # "start", rpc' = "llopen" => rLeft' = RcvVtime,
           LiveBackward' => Newest(backAge') = 0
    PROVE  Patience'
<1>1. /\ UNCHANGED <<spc, attempts, sLeft, sRun>> /\ 0 < MaxIdle /\ idleCount' < MaxIdle
  BY SizesAreNat DEF OthersOfReceiver, sndVars
<1>2. ~GaveUp' /\ Counters'
  BY <1>1 DEF GaveUp, Counters, Patience
<1>3. ReceiverListens' => rLeft' <= RcvVtime
  <2>1. RcvVtime <= RcvVtime
    BY Times
  <2>2. ReceiverListens' => rLeft' = RcvVtime
    BY DEF ReceiverReads, Serving, Reading
  <2> QED BY <2>1, <2>2
<1>4. ASSUME Serving'
      PROVE  LinkedPatience'
  <2>1. Idle' = 0
    <3>1. 0 * RcvVtime + (RcvVtime - RcvVtime) = 0
      BY Times
    <3>2. rLeft' = RcvVtime
      BY <1>4
    <3> QED BY <3>1, <3>2 DEF Idle
  <2>2. /\ LiveForward /\ Newest(fwdAge) = Delay /\ spc \in {"llopen", "waitAck", "failed"}
        /\ spc # "failed" => sLeft + Delay = SndVtime
    BY DEF Takes, Turns, SenderReads
  <2>3. ASSUME spc = "llopen"
        PROVE  0 + sLeft <= SndVtime + Delay
    BY <2>2, <2>3, PatienceTypes, Times
  <2>4. ASSUME spc = "waitAck"
        PROVE  0 + sLeft + Delay + Attempts(MaxRetries - 1 - attempts) <= Silence + SndVtime
    <3>1. spc # "failed"
      BY <2>4
    <3>2. sLeft + Delay = SndVtime /\ sLeft \in Nat
      BY <2>2, <3>1, PatienceTypes
    <3>3. /\ Attempts(MaxRetries - 1 - attempts) \in Nat /\ Attempts(MaxRetries - 1) \in Nat
          /\ Attempts(MaxRetries - 1 - attempts) <= Attempts(MaxRetries - 1)
          /\ Silence = 2 * Delay + Attempts(MaxRetries - 1)
      BY <3>1, PatienceTypes, SilenceIsLong, AttemptsTake
    <3> QED BY <3>2, <3>3, Times
  <2>5. /\ spc' = "llopen" => Idle' + sLeft' <= SndVtime + Delay
        /\ spc' = "waitAck" => Ahead' <= Silence + SndVtime
    BY <1>1, <2>1, <2>3, <2>4 DEF Ahead
  <2>6. spc' \notin {"fopen", "llwrite"}
    BY <1>1, <2>2
  <2> QED BY <2>1, <2>5, <2>6 DEF LinkedPatience
<1> QED BY <1>2, <1>3, <1>4 DEF Patience, NoAttemptWasted, Serving

(* A receiver that gives up has waited longer than its sender can.         *)
LEMMA PatienceEnds ==
    ASSUME TypeOK, ClocksTypeOK, Turns, Links, Patience, Reading, rLeft = 0,
           idleCount + 1 = MaxIdle, peer = sRun, spc # "failed"
    PROVE  spc = "waitAck" /\ attempts = MaxRetries - 1 /\ t2r = << >> /\ r2t = << >>
<1>1. ReceiverReads /\ LinkedPatience /\ LinkedInStep
  BY DEF Reading, Serving, ReceiverReads, Patience, Links
<1>2. Idle \in Nat /\ Idle > Silence
  <2>1. (idleCount + 1) * RcvVtime = idleCount * RcvVtime + RcvVtime
    BY PatienceTypes, Times, Products
  <2>2. Idle = idleCount * RcvVtime + RcvVtime
    BY PatienceTypes, Times DEF Idle
  <2> QED BY <1>1, <2>1, <2>2, PatienceTypes, SilenceIsLong
<1>3. /\ sLeft \in Nat /\ MaxRetries - 1 - attempts \in Nat
      /\ Attempts(MaxRetries - 1 - attempts) \in Nat
      /\ Ahead = Idle + sLeft + Delay + Attempts(MaxRetries - 1 - attempts)
  BY PatienceTypes DEF Ahead
<1>4. spc # "start"
  BY DEF Links
<1>5. spc # "llopen"
  BY <1>1, <1>2, <1>3, SilenceIsLong, Times DEF LinkedPatience
<1>6. spc \notin {"fopen", "llwrite"}
  BY <1>1, <1>2, <1>3, SilenceIsLong, Times DEF LinkedPatience
<1>7. spc # "done"
  <2>1. ASSUME spc = "done"
        PROVE  FALSE
    <3>1. pkt = NumChunks /\ Stored = NumChunks + 1 /\ Stored # 0
      BY <1>1, <2>1, BitTells, SizesAreNat DEF Links
    <3>2. rpc = "chunks"
      BY <3>1 DEF Reading, Stored
    <3>3. Len(received) = NumChunks
      BY <3>1, <3>2, PlacesCount, SizesAreNat DEF TypeOK, ReceiverTypeOK
    <3>4. PICK b \in Nat : b = NumChunks * ChunkSize
      BY SizesAreNat
    <3>5. Smaller(b, Wanted) < Wanted
      BY <3>2, <3>3, <3>4 DEF Links, Sizes
    <3>6. b < Announced
      BY <3>4, <3>5, SizesAreNat DEF Smaller
    <3> QED BY <3>4, <3>6, SizesAreNat, ChunkCounts DEF NumChunks
  <2> QED BY <2>1
<1>8. spc = "waitAck"
  BY <1>4, <1>5, <1>6, <1>7, LinkTypes DEF SenderPlaces
<1>9. sLeft + Delay + Attempts(MaxRetries - 1 - attempts) < SndVtime
  BY <1>1, <1>2, <1>3, <1>8, SilenceIsLong, Times DEF LinkedPatience
<1>10. attempts = MaxRetries - 1
  <2>1. ASSUME attempts # MaxRetries - 1
        PROVE  FALSE
    <3>1. /\ MaxRetries - 2 - attempts \in Nat
          /\ MaxRetries - 1 - attempts = (MaxRetries - 2 - attempts) + 1
      BY <1>3, <2>1, SizesAreNat, PatienceTypes
    <3>2. /\ Attempts(MaxRetries - 2 - attempts) \in Nat
          /\ Attempts((MaxRetries - 2 - attempts) + 1)
                = Attempts(MaxRetries - 2 - attempts) + SndVtime + Nap
      BY <3>1, AttemptsTake
    <3>3. Attempts(MaxRetries - 1 - attempts) >= SndVtime
      BY <3>1, <3>2, Times
    <3> QED BY <1>3, <1>9, <3>3, Times
  <2> QED BY <2>1
<1>11. ~LiveForward
  <2>1. LiveForward => sLeft + Newest(fwdAge) = SndVtime
    BY <1>8 DEF Turns
  <2>2. LiveForward => Newest(fwdAge) \in Nat /\ Newest(fwdAge) <= Delay
    BY AgesTyped DEF LiveForward
  <2> QED BY <1>3, <1>9, <2>1, <2>2, Times
<1>12. ~LiveBackward
  <2>1. LiveBackward => Newest(backAge) \in Nat /\ Newest(backAge) <= Delay
    BY AgesTyped DEF LiveBackward
  <2> QED BY <1>1, <1>2, <2>1, SilenceIsLong, Times DEF LinkedPatience
<1> QED BY <1>1, <1>8, <1>10, <1>11, <1>12 DEF LiveForward, LiveBackward, SenderListens

LEMMA ReceiverKeepsPatience ==
    ASSUME TypeOK, ClocksTypeOK, Turns, Links, Patience, ReceiverStep, OthersOfReceiver
    PROVE  Patience'
<1>1. UNCHANGED <<spc, attempts, sLeft, sRun>>
  BY DEF OthersOfReceiver, sndVars
<1>2. RcvVtime <= RcvVtime /\ (Trying => idleCount < MaxIdle)
      /\ (spc # "failed" => attempts < MaxRetries)
  BY Times DEF Patience, Counters
<1>3. CASE Opens
  <2>1. /\ peer' = 0 /\ 0 # sRun' /\ rpc' = "llopen" /\ rLeft' = RcvVtime
        /\ idleCount' = idleCount /\ idleCount < MaxIdle
    BY <1>1, <1>2, <1>3, LinkTypes DEF Opens, Links, Trying
  <2> QED BY <1>1, <1>2, <2>1
          DEF Patience, Counters, NoAttemptWasted, ReceiverReads, Serving, Reading
<1>4. CASE TakesSet
  <2>1. Takes /\ rpc' = "size" /\ rLeft' = RcvVtime /\ idleCount' = 0
        /\ Newest(backAge') = 0
    BY <1>4 DEF TakesSet, AnswersWith, Joined, Links
  <2> QED BY <2>1, PatienceRenewed DEF Serving, Reading
<1>5. CASE TakesSilently
  <2>1. Takes /\ rpc' = rpc /\ rLeft' = RcvVtime /\ idleCount' = 0
    BY <1>5 DEF TakesSilently, Links
  <2>2. ~LiveBackward' /\ rpc' # "start"
    BY <1>1, <1>5, <2>1
    DEF TakesSilently, BackwardKept, LiveBackward, Takes, Turns, ReceiverReads, SenderListens
  <2> QED BY <2>1, <2>2, PatienceRenewed DEF Serving, Reading
<1>6. CASE TakesPacket
  <2>1. /\ Takes /\ idleCount' = 0 /\ Newest(backAge') = 0
        /\ rpc' \in Acknowledged /\ rLeft' = RcvVtime
    BY <1>6 DEF TakesPacket, AnswersWith, Joined
  <2> QED BY <2>1, PatienceRenewed DEF Serving, Reading
<1>7. CASE TakesOther
  <2>1. /\ Takes /\ idleCount' = 0 /\ Newest(backAge') = 0 /\ rLeft' = RcvVtime
        /\ rpc' \in {"size", "chunks"}
    BY <1>7 DEF TakesOther, AnswersWith, Joined, Reading
  <2> QED BY <2>1, PatienceRenewed DEF Serving, Reading
<1>8. CASE ReadsIdly
  <2>1. /\ Reading /\ rLeft = 0 /\ ForwardKept /\ BackwardKept /\ peer' = peer
        /\ idleCount' = idleCount + 1 /\ idleCount < MaxIdle
    BY <1>2, <1>8 DEF ReadsIdly, Reading, Trying
  <2>2. CASE idleCount + 1 = MaxIdle
    <3>1. rpc' \in {"failed", "saving"}
      BY <1>8, <2>1, <2>2 DEF ReadsIdly
    <3>2. ASSUME peer = sRun, spc # "failed"
          PROVE  spc = "waitAck" /\ attempts = MaxRetries - 1 /\ t2r = << >> /\ r2t = << >>
      BY <2>1, <2>2, <3>2, PatienceEnds
    <3> QED BY <1>1, <1>2, <2>1, <3>1, <3>2
            DEF Patience, Counters, Trying, ReceiverReads, Serving, Reading,
                NoAttemptWasted, ForwardKept,
                BackwardKept
  <2>3. CASE idleCount + 1 # MaxIdle
    <3>1. rpc' = rpc /\ rLeft' = RcvVtime
      BY <1>8, <2>1, <2>3 DEF ReadsIdly
    <3>2. idleCount + 1 < MaxIdle
      BY <2>1, <2>3, PatienceTypes, SizesAreNat
    <3>3. idleCount' < MaxIdle /\ ~GaveUp'
      BY <2>1, <2>3, <3>2 DEF GaveUp
    <3>4. Idle' = Idle
      <4>1. (idleCount + 1) * RcvVtime + (RcvVtime - RcvVtime)
               = idleCount * RcvVtime + (RcvVtime - 0)
        BY PatienceTypes, Times, Products
      <4> QED BY <2>1, <3>1, <4>1 DEF Idle
    <3>5. LiveBackward' <=> LiveBackward
      BY <1>1, <2>1 DEF BackwardKept, LiveBackward, SenderListens
    <3>6. LinkedPatience => LinkedPatience'
      BY <1>1, <2>1, <3>4, <3>5 DEF LinkedPatience, Ahead, BackwardKept
    <3> QED BY <1>1, <1>2, <2>1, <3>1, <3>3, <3>6
            DEF Patience, Counters, ReceiverReads, Serving, Reading, NoAttemptWasted
  <2> QED BY <2>2, <2>3
<1>9. CASE Returns
  <2>1. /\ rpc' \in {"saved", "unsaved", "failed"}
        /\ UNCHANGED <<idleCount, peer, t2r, r2t>>
    BY <1>9 DEF Returns, ForwardKept, BackwardKept
  <2> QED BY <1>1, <1>2, <2>1
          DEF Patience, Counters, Trying, ReceiverReads, Serving, Reading,
              NoAttemptWasted, GaveUp
<1>10. CASE Stores
  <2>1. /\ rpc \in Acknowledged /\ rpc' \in {"chunks", "saving"} /\ rLeft = RcvVtime
        /\ UNCHANGED <<idleCount, peer, t2r, r2t, backAge>>
        /\ rpc' = "chunks" => rLeft' = RcvVtime
    BY <1>10 DEF Stores, ForwardKept, BackwardKept, Patience
  <2>2. idleCount' < MaxIdle /\ ~GaveUp'
    BY <1>2, <2>1, PatienceTypes, SizesAreNat DEF Trying, GaveUp
  <2>3. ASSUME rpc' = "chunks", peer = sRun
        PROVE  LinkedPatience'
    <3>1. LinkedPatience /\ Idle' = Idle
      BY <2>1, <2>3 DEF Patience, Serving, Idle
    <3>2. LiveBackward' <=> LiveBackward
      BY <1>1, <2>1 DEF LiveBackward, SenderListens
    <3> QED BY <1>1, <2>1, <3>1, <3>2 DEF LinkedPatience, Ahead
  <2>4. ReceiverListens' => rLeft' <= RcvVtime
    BY <1>2, <2>1 DEF ReceiverReads
  <2> QED BY <1>1, <1>2, <2>1, <2>2, <2>3, <2>4
          DEF Patience, Counters, Serving, Reading, NoAttemptWasted
<1> QED BY <1>3, <1>4, <1>5, <1>6, <1>7, <1>8, <1>9, <1>10 DEF ReceiverStep

LEMMA OthersKeepPatience ==
    ASSUME TypeOK, ClocksTypeOK, Turns, Links, Patience, Tick \/ T_Line \/ User
    PROVE  Patience'
<1>1. CASE Tick
  <2>1. UNCHANGED <<t2r, r2t, spc, pkt, attempts, rpc, idleCount, sRun, peer>>
    BY <1>1, TimePasses DEF vars, line, sndVars, rcvVars
  <2>2. ASSUME ReceiverListens
        PROVE  rLeft' <= RcvVtime /\ Idle' = Idle + 1 /\ Idle \in Nat
    <3>1. rLeft > 0 /\ rLeft' = rLeft - 1
      BY <1>1, <2>2, TimePasses DEF ReceiverReads
    <3>2. rLeft - 1 <= RcvVtime
      BY <2>2, <3>1, PatienceTypes, Times DEF Patience
    <3>3. idleCount * RcvVtime + (RcvVtime - (rLeft - 1)) = Idle + 1
      BY <3>1, PatienceTypes, Times DEF Idle
    <3>4. Idle' = idleCount * RcvVtime + (RcvVtime - (rLeft - 1))
      BY <2>1, <3>1 DEF Idle
    <3> QED BY <2>2, <3>1, <3>2, <3>3, <3>4, PatienceTypes
  <2>3. ASSUME Serving, peer = sRun
        PROVE  LinkedPatience'
    <3>1. LinkedPatience /\ Idle \in Nat /\ Idle' = Idle + 1
      BY <2>2, <2>3 DEF Patience, Serving, Reading, ReceiverReads
    <3>2. LiveBackward' => LiveBackward /\ Newest(backAge') = Newest(backAge) + 1
      BY <1>1, TimePasses
    <3>3. spc \in {"fopen", "llwrite", "llopen", "waitAck"} => sLeft > 0 /\ sLeft' = sLeft - 1
      BY <1>1, TimePasses
    <3>4. sLeft \in Nat /\ (spc # "failed" => Attempts(MaxRetries - 1 - attempts) \in Nat)
      BY PatienceTypes
    <3>5. LiveBackward' => Idle' = Newest(backAge')
      BY <3>1, <3>2 DEF LinkedPatience
    <3>6. spc' = "llopen" => Idle' + sLeft' <= SndVtime + Delay
      <4>1. spc = "llopen" => (Idle + 1) + (sLeft - 1) <= SndVtime + Delay
        BY <3>1, <3>4, Times DEF LinkedPatience
      <4> QED BY <2>1, <3>1, <3>3, <4>1
    <3>7. spc \in {"fopen", "llwrite", "waitAck"} => Ahead' = Ahead
      <4>1. spc # "failed" =>
               (Idle + 1) + (sLeft - 1) + Delay + Attempts(MaxRetries - 1 - attempts)
                  = Idle + sLeft + Delay + Attempts(MaxRetries - 1 - attempts)
        BY <3>1, <3>4, Times
      <4> QED BY <2>1, <3>1, <3>3, <4>1 DEF Ahead
    <3> QED BY <2>1, <3>1, <3>5, <3>6, <3>7 DEF LinkedPatience
  <2>4. rpc \notin Acknowledged
    BY <1>1, TimePasses
  <2> QED BY <2>1, <2>2, <2>3, <2>4
          DEF Patience, Counters, Trying, ReceiverReads, Serving, Reading,
              NoAttemptWasted, GaveUp
<1>2. CASE T_Line
  <2>1. /\ UNCHANGED <<sndVars, rcvVars, sLeft, rLeft, sRun, peer>>
        /\ Reduced(t2r', fwdAge', t2r, fwdAge) /\ Reduced(r2t', backAge', r2t, backAge)
    BY <1>2, FramesAreLost
  <2>2. /\ LiveBackward' => LiveBackward /\ Newest(backAge') = Newest(backAge)
        /\ t2r = << >> => t2r' = << >>
        /\ r2t = << >> => r2t' = << >>
    BY <2>1 DEF Reduced, LiveBackward, SenderListens, sndVars
  <2>3. Idle' = Idle /\ Ahead' = Ahead /\ UNCHANGED <<spc, sLeft>>
    BY <2>1 DEF Idle, Ahead, sndVars, rcvVars
  <2>4. LinkedPatience => LinkedPatience'
    BY <2>2, <2>3 DEF LinkedPatience
  <2> QED BY <2>1, <2>2, <2>4
          DEF Patience, Counters, Trying, ReceiverReads, Serving, Reading,
              NoAttemptWasted, GaveUp, sndVars,
              rcvVars
<1>3. CASE User
  <2>1. UNCHANGED <<t2r, fwdAge, r2t, backAge>>
    BY <1>3, UserKeepsTurns DEF ForwardKept, BackwardKept
  <2>2. CASE KillSender
    <3>1. spc' = "failed" /\ UNCHANGED <<attempts, rcvVars, rLeft, sRun, peer>>
      BY <2>2 DEF KillSender
    <3>2. LiveBackward' => LiveBackward
      BY <2>1, <3>1 DEF LiveBackward, SenderListens
    <3>3. LinkedPatience => LinkedPatience'
      BY <2>1, <3>1, <3>2 DEF LinkedPatience, Idle, rcvVars
    <3> QED BY <2>1, <3>1, <3>3
            DEF Patience, Counters, Trying, ReceiverReads, Serving, Reading,
                NoAttemptWasted, GaveUp, rcvVars
  <2>3. CASE KillReceiver
    <3>1. /\ rpc' = "failed" /\ idleCount' = 0 /\ 0 # MaxIdle
          /\ UNCHANGED <<spc, attempts, sRun, peer>>
      BY <2>3, SizesAreNat DEF KillReceiver, Forgets, sndVars
    <3> QED BY <2>1, <3>1
            DEF Patience, Counters, Trying, ReceiverReads, Serving, Reading,
                NoAttemptWasted, GaveUp
  <2>4. CASE RestartSender
    <3>1. /\ spc' = "start" /\ attempts' = 0 /\ peer' # sRun' /\ 0 < MaxRetries
          /\ UNCHANGED <<rpc, idleCount, rLeft>>
      <4>1. peer # sRun + 1
        BY LinkTypes
      <4> QED BY <2>4, <4>1, SizesAreNat DEF RestartSender, rcvVars, clocks
    <3> QED BY <3>1
            DEF Patience, Counters, Trying, ReceiverReads, Serving, Reading,
                NoAttemptWasted, GaveUp
  <2>5. CASE RestartReceiver
    <3>1. /\ rpc' = "start" /\ idleCount' = 0 /\ UNCHANGED <<spc, attempts>>
          /\ 0 < MaxIdle /\ 0 # MaxIdle
      BY <2>5, SizesAreNat DEF RestartReceiver, Forgets, sndVars
    <3> QED BY <3>1
            DEF Patience, Counters, Trying, ReceiverReads, Serving, Reading,
                NoAttemptWasted, GaveUp
  <2> QED BY <1>3, <2>2, <2>3, <2>4, <2>5 DEF User
<1> QED BY <1>1, <1>2, <1>3

(***************************************************************************)
(* The inductive invariant.                                                *)
(***************************************************************************)
LEMMA InitTimed == TimedInit => TimedInv
<1> SUFFICES ASSUME TimedInit PROVE TimedInv
  OBVIOUS
<1> USE DEF TimedInit, Init, LineInit, SenderInit, ReceiverInit
<1>1. TypeOK
  BY InitTyped
<1>2. Len(<< >>) = 0 /\ << >> \in Seq(0..Delay)
  BY EmptySeq
<1>3. ClocksTypeOK
  BY <1>2 DEF ClocksTypeOK
<1>4. Turns
  BY <1>2
  DEF Turns, AllButNewestArrived, LiveForward, LiveBackward, ReceiverReads, SenderListens
<1>5. Bits /\ Sizes /\ ReceivedInOrder
  BY InitLinked DEF LinkInv
<1>6. Links
  BY <1>2, <1>5 DEF Links, LiveForward, LiveBackward
<1>7. Patience
  BY SizesAreNat
  DEF Patience, Counters, ReceiverReads, Serving, Reading, NoAttemptWasted, GaveUp
<1> QED BY <1>1, <1>3, <1>4, <1>6, <1>7 DEF TimedInv

LEMMA NextTimed == TimedInv /\ TimedNext => TimedInv'
<1> SUFFICES ASSUME TimedInv, TimedNext PROVE TimedInv'
  OBVIOUS
<1>1. /\ TypeOK /\ ClocksTypeOK /\ Turns /\ Links /\ Patience /\ Counters
      /\ Sizes /\ ReceivedInOrder
  BY DEF TimedInv, Patience, Links
<1>2. TypeOK' /\ ClocksTypeOK' /\ Turns'
  BY <1>1, ClocksStep
<1>3. CASE T_Sender
  <2>1. SenderStep /\ Others
    BY <1>1, <1>3, SenderActs
  <2> QED BY <1>1, <1>2, <2>1, SenderKeepsLinks, SenderKeepsPatience DEF TimedInv
<1>4. CASE T_Receiver
  <2>1. ReceiverStep /\ OthersOfReceiver
    BY <1>1, <1>4, ReceiverActs
  <2> QED BY <1>1, <1>2, <2>1, ReceiverKeepsLinks, ReceiverKeepsPatience DEF TimedInv
<1>5. CASE Tick \/ T_Line \/ User
  BY <1>1, <1>2, <1>5, OthersKeepLinks, OthersKeepPatience DEF TimedInv
<1> QED BY <1>3, <1>4, <1>5 DEF TimedNext, User

LEMMA TimedStutters == TimedInv /\ UNCHANGED timedVars => TimedInv'
<1> SUFFICES ASSUME TimedInv, UNCHANGED timedVars PROVE TimedInv'
  OBVIOUS
<1> USE DEF timedVars, vars, line, sndVars, rcvVars, clocks
<1>1. TypeOK' /\ ClocksTypeOK'
  BY DEF TimedInv, TypeOK, LineTypeOK, SenderTypeOK, ReceiverTypeOK, ClocksTypeOK
<1>2. /\ LiveForward' = LiveForward /\ LiveBackward' = LiveBackward
      /\ Newest(t2r)' = Newest(t2r) /\ Newest(r2t)' = Newest(r2t)
      /\ Newest(fwdAge)' = Newest(fwdAge) /\ Newest(backAge)' = Newest(backAge)
      /\ IFrame(seq, pkt)' = IFrame(seq, pkt)
  BY DEF LiveForward, LiveBackward, ReceiverReads, SenderListens, Newest
<1>3. Turns'
  BY <1>2 DEF TimedInv, Turns, AllButNewestArrived, ReceiverReads, ReceiverEnded, SenderReads,
              SenderListens
<1>4. /\ Sizes' /\ ReceivedInOrder' /\ expectedSeq' = Parity(Stored') /\ Given' = Given
  BY StoreStays DEF TimedInv, StoreKept
<1>5. Bits' /\ (LinkedInStep' <=> LinkedInStep)
  BY <1>4 DEF TimedInv, Links, Bits, LinkedInStep
<1>6. Links'
  BY <1>2, <1>4, <1>5 DEF TimedInv, Links
<1>7. /\ LinkedPatience' = LinkedPatience /\ Serving' = Serving /\ GaveUp' = GaveUp
  BY <1>2 DEF LinkedPatience, Idle, Ahead, Serving, Reading, GaveUp
<1>8. Patience'
  BY <1>7 DEF TimedInv, Patience, Counters, Trying, ReceiverReads, NoAttemptWasted
<1> QED BY <1>1, <1>3, <1>6, <1>8 DEF TimedInv

(* In every reachable state of the timed programs, however often they are  *)
(* killed and started again: the parts of the inductive invariant.         *)
THEOREM TimedCorrect == TimedSpec => []TimedInv
<1>1. TimedInv /\ UNCHANGED timedVars => TimedInv'
  BY TimedStutters
<1> QED BY InitTimed, NextTimed, <1>1, PTL DEF TimedSpec

(* No packet is ever sent again while it or the answer to it is still on   *)
(* the line, because VTIME of the sender is longer than the way there and  *)
(* back, and the pause between two runs too.                               *)
THEOREM OneUnderWayHolds == TimedSpec => []OneUnderWay
<1>1. ASSUME NEW S, NEW q, NEW ages, Queue(q, ages, S)
      PROVE  \/ UnderWay(ages) = {} /\ Cardinality(UnderWay(ages)) = 0
             \/ /\ q # << >> /\ Newest(ages) < Delay /\ Cardinality(UnderWay(ages)) = 1
  <2>1. /\ ages \in Seq(0..Delay) /\ Len(ages) = Len(q) /\ Len(q) \in Nat
        /\ (q = << >> <=> Len(q) = 0)
    BY <1>1, NewestIsIn DEF Queue
  <2>2. DOMAIN ages = 1..Len(q) /\ \A i \in 1..Len(q) : ages[i] \in 0..Delay
    BY <2>1, LenProperties
  <2>3. \A i \in 1..Len(q) - 1 : ages[i] = Delay
    BY <1>1, <2>1 DEF Queue, AllButNewestArrived
  <2>4. UnderWay(ages) \subseteq {Len(q)}
    BY <2>1, <2>2, <2>3, Times DEF UnderWay
  <2>5. CASE UnderWay(ages) = {}
    BY <2>5, FS_EmptySet
  <2>6. CASE UnderWay(ages) = {Len(q)}
    <3>1. Len(q) \in 1..Len(q) /\ ages[Len(q)] < Delay
      BY <2>2, <2>6 DEF UnderWay
    <3>2. Cardinality({Len(q)}) = 1
      BY FS_Singleton, Zenon
    <3> QED BY <2>1, <2>6, <3>1, <3>2 DEF Newest
  <2> QED BY <2>4, <2>5, <2>6
<1>2. TimedInv => OneUnderWay
  <2> SUFFICES ASSUME TimedInv PROVE OneUnderWay
    OBVIOUS
  <2>1. Queue(t2r, fwdAge, Frame) /\ Queue(r2t, backAge, Acks)
    BY QueuesHold DEF TimedInv, Queues
  <2>2. ~(LiveForward /\ LiveBackward)
    BY DEF TimedInv, Turns
  <2>3. \/ Cardinality(UnderWay(fwdAge)) = 0
        \/ Cardinality(UnderWay(fwdAge)) = 1 /\ LiveForward
    BY <1>1, <2>1 DEF LiveForward
  <2>4. \/ Cardinality(UnderWay(backAge)) = 0
        \/ Cardinality(UnderWay(backAge)) = 1 /\ LiveBackward
    BY <1>1, <2>1 DEF LiveBackward
  <2> QED BY <2>2, <2>3, <2>4 DEF OneUnderWay
<1> QED BY <1>2, TimedCorrect, PTL

(* A receiver that ran out of idle reads has not been linked to a sender   *)
(* whose attempts could still have reached it.                             *)
THEOREM NoAttemptWastedHolds == TimedSpec => []NoAttemptWasted
<1>1. TimedInv => NoAttemptWasted
  BY DEF TimedInv, Patience
<1> QED BY <1>1, TimedCorrect, PTL

(* A run of the sender ends with success only when one run of the receiver *)
(* has acknowledged the whole file, whatever runs there were before, as    *)
(* long as the pauses between them outlast what is on the line: that run   *)
(* still holds the file, or it was killed after its last acknowledgment.   *)
THEOREM SuccessAcrossRunsHolds == TimedSpec => SuccessAcrossRuns
<1> DEFINE Acked == \/ Delivered = NumChunks + 1
                    \/ rpc = "failed" /\ lost = NumChunks + 1
<1>1. ASSUME TimedInv, TimedNext, spc # "done", spc' = "done"
      PROVE  Acked
  <2>1. TypeOK /\ ClocksTypeOK /\ Turns /\ Links /\ Counters
    BY <1>1 DEF TimedInv, Patience
  <2>2. T_Sender
    <3>1. ~Tick /\ ~T_Line
      BY <1>1 DEF Tick, T_Line, vars, sndVars, Line
    <3>2. ~T_Receiver
      BY <1>1 DEF T_Receiver, sndVars
    <3>3. ~KillSender /\ ~KillReceiver /\ ~RestartSender /\ ~RestartReceiver
      BY <1>1 DEF KillSender, KillReceiver, RestartSender, RestartReceiver, sndVars
    <3> QED BY <1>1, <3>1, <3>2, <3>3 DEF TimedNext
  <2>3. SenderStep
    BY <2>1, <2>2, SenderActs
  <2>4. HearsAck
    BY <1>1, <2>3
    DEF SenderStep, SendsSet, SendsPacket, HearsUA, HearsOther, ReadsFile, WaitsInVain, sndVars
  <2>5. pkt = NumChunks /\ spc = "waitAck" /\ LiveBackward /\ Newest(r2t) = AckCtrl(seq)
    BY <1>1, <2>4 DEF HearsAck, Hears, NextPacket
  <2>6. Delivered + lost = NumChunks + 1
    BY <2>1, <2>5 DEF Links, Given
  <2>7. CASE rpc = "failed"
    <3>1. Delivered = 0
      BY <2>1, <2>7, PlacesCount DEF TypeOK, ReceiverTypeOK
    <3> QED BY <2>1, <2>6, <2>7, <3>1, LinkTypes
  <2>8. CASE rpc # "failed"
    BY <2>1, <2>6, <2>8, LinkTypes DEF Links
  <2> QED BY <2>7, <2>8
<1>2. TimedInv /\ [TimedNext]_timedVars => [spc # "done" /\ spc' = "done" => Acked]_timedVars
  BY <1>1
<1> QED BY <1>2, TimedCorrect, PTL DEF TimedSpec, SuccessAcrossRuns
=============================================================================
