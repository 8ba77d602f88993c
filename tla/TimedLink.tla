------------------------------ MODULE TimedLink -----------------------------
(***************************************************************************)
(* StopAndWait against the clock, and over several runs of its programs.   *)
(* A frame takes Delay ticks to cross the line, a read() returns nothing   *)
(* after exactly VTIME ticks without a byte, and the programs take no time *)
(* of their own: time passes only when neither of them has anything to do. *)
(* Either program may be killed at any moment, and be started again, after *)
(* a pause, whether it was killed or came to its end.                      *)
(***************************************************************************)
EXTENDS StopAndWait, FiniteSets

CONSTANTS Delay,       \* of a frame on the line, in ticks
          SndVtime,    \* VTIME of the sender
          RcvVtime,    \* VTIME of the receiver
          Nap,         \* sleep(1) after an attempt that failed
          Pause,       \* the least time between two runs of a program
          MaxRuns      \* bound: runs of each program

ASSUME TimedAssumption == /\ {Delay, SndVtime, RcvVtime, Nap} \subseteq Nat \ {0}
                          /\ SndVtime > 2 * Delay
                          /\ Pause \in Nat /\ Pause > 2 * Delay
                          /\ MaxRuns \in Nat \ {0}

(* The time of n attempts, and the longest the receiver may hear nothing   *)
(* before the last one reaches it.                                         *)
Attempts(n) == n * (SndVtime + Nap)
Silence     == 2 * Delay + Attempts(MaxRetries - 1)

(* The idle reads of the receiver, 30 s in the code, are longer.           *)
ASSUME PatienceAssumption == MaxRetries > 1 /\ MaxIdle * RcvVtime > Silence

VARIABLES fwdAge, backAge, \* ticks spent on the line by each frame
          sLeft, rLeft,    \* ticks until the read, the sleep or the pause ends
          sRun, rRun,      \* the runs of the two programs
          peer,            \* the run of the sender that opened the receiver's link
          lost             \* packets a killed receiver had acknowledged
clocks    == <<fwdAge, backAge, sLeft, rLeft>>
timedVars == <<vars, clocks, sRun, rRun, peer, lost>>

TimedInit == /\ Init
             /\ fwdAge = << >> /\ backAge = << >>
             /\ sLeft = 0 /\ rLeft = 0 /\ sRun = 1 /\ rRun = 1
             /\ peer = 0 /\ lost = 0

Arrived(ages)  == ages # << >> /\ Head(ages) = Delay
UnderWay(ages) == {i \in DOMAIN ages : ages[i] < Delay}

(* Frames leave a direction at its head and enter it at its tail. *)
Aged(before, after, ages) ==
    IF Len(after) > Len(before)
    THEN Append(ages, 0)
    ELSE SubSeq(ages, Len(before) - Len(after) + 1, Len(ages))
LineAges == /\ fwdAge' = Aged(t2r, t2r', fwdAge)
            /\ backAge' = Aged(r2t, r2t', backAge)

(* What tcflush leaves: the frames that have not arrived. *)
Flushed(frames, ages) ==
    SubSeq(frames, Len(frames) - Cardinality(UnderWay(ages)) + 1, Len(frames))

(***************************************************************************)
(* The sender.                                                             *)
(***************************************************************************)
SenderReads == spc \in {"llopen", "waitAck"}

(* llopen, at a moment of the user's choice. *)
T_SendSetUnflushed == \* mutant: without tcflush
             /\ spc = "start"
             /\ spc' = "llopen"
             /\ t2r' = Append(t2r, SetFrame)
             /\ UNCHANGED <<pkt, seq, attempts, r2t>>
T_SendSet == /\ spc = "start"
             /\ spc' = "llopen"
             /\ t2r' = Append(t2r, SetFrame)
             /\ r2t' = Flushed(r2t, backAge)
             /\ UNCHANGED <<pkt, seq, attempts>>

(* llopen reads over what is not UA. *)
S_SkipsAck == /\ spc = "llopen"
              /\ r2t # << >> /\ Head(r2t) # C_UA
              /\ r2t' = Tail(r2t)
              /\ UNCHANGED <<sndVars, t2r>>

SenderAtOnce    == S_ReadsFile \/ S_Transmits
SenderTimesOut  == S_OpeningTimesOut \/ S_TimesOut
SenderReadsByte == S_ReceivesUA \/ S_SkipsAck \/ S_ReceivesAck \/ S_IgnoresAck

(* Every byte starts the time of read() anew; an attempt that failed is    *)
(* followed by a second of sleep.                                          *)
SenderTimer == CASE spc' \in {"llopen", "waitAck"}              -> SndVtime
                 [] spc' = "llwrite" /\ attempts' = attempts + 1 -> Nap
                 [] spc' \in {"done", "failed"}                  -> Pause
                 [] OTHER                                        -> 0

T_Sender == /\ \/ T_SendSet
               \/ sLeft = 0 /\ (SenderAtOnce \/ SenderTimesOut)
               \/ Arrived(backAge) /\ SenderReadsByte
            /\ LineAges
            /\ sLeft' = SenderTimer
            /\ UNCHANGED <<rcvVars, rLeft, sRun, rRun, peer, lost>>

SenderDue == \/ spc \in {"fopen", "llwrite", "llopen", "waitAck"} /\ sLeft = 0
             \/ SenderReads /\ Arrived(backAge)

(***************************************************************************)
(* The receiver.                                                           *)
(***************************************************************************)
ReceiverReads   == rpc \in {"llopen", "size", "chunks"}
ReceiverListens == ReceiverReads \/ rpc \in Acknowledged

T_OpensPort == R_OpensPort /\ t2r' = Flushed(t2r, fwdAge)

(* llopen reads over what is not SET. *)
R_SkipsFrame == /\ rpc = "llopen"
                /\ t2r # << >> /\ Head(t2r).ctrl # C_SET
                /\ t2r' = Tail(t2r)
                /\ UNCHANGED <<rcvVars, r2t>>

(* Any frame may have been damaged on the line; a SET has no data field    *)
(* and is always read over by llread.                                      *)
ReceiverReadsByte == \/ R_ReceivesSet \/ R_SkipsFrame
                     \/ R_Acknowledges \/ R_AnswersDuplicate
                     \/ R_RejectsDamaged \/ R_ReadsOver

(* main takes a packet at once, so the next read() begins with its answer. *)
ReceiverTimer == CASE ReceiverListens'                         -> RcvVtime
                   [] rpc' \in {"saved", "unsaved", "failed"}  -> Pause
                   [] OTHER                                    -> 0

T_Receiver == /\ \/ T_OpensPort
                 \/ R_Takes
                 \/ rLeft = 0 /\ (R_OpeningTimesOut \/ R_ReadsNothing \/ R_SavesFile)
                 \/ Arrived(fwdAge) /\ ReceiverReadsByte
              /\ LineAges
              /\ rLeft' = ReceiverTimer
              /\ peer' = IF rpc = "llopen" /\ rpc' = "size" THEN sRun ELSE peer
              /\ UNCHANGED <<sndVars, sLeft, sRun, rRun, lost>>

ReceiverDue == \/ rpc \in Acknowledged
               \/ rpc \in {"llopen", "size", "chunks", "saving"} /\ rLeft = 0
               \/ ReceiverReads /\ Arrived(fwdAge)

(***************************************************************************)
(* Time, the line, and the user who stops and starts the programs.         *)
(***************************************************************************)
Older(ages) == [i \in DOMAIN ages |-> IF ages[i] < Delay THEN ages[i] + 1 ELSE Delay]
Less(left)  == IF left > 0 THEN left - 1 ELSE 0

Tick == /\ ~SenderDue /\ ~ReceiverDue
        /\ fwdAge' = Older(fwdAge) /\ backAge' = Older(backAge)
        /\ sLeft' = Less(sLeft) /\ rLeft' = Less(rLeft)
        /\ UNCHANGED <<vars, sRun, rRun, peer, lost>>

T_Line == Line /\ LineAges /\ UNCHANGED <<sLeft, rLeft, sRun, rRun, peer, lost>>

KillSender == /\ spc \notin {"start", "done", "failed"}
              /\ spc' = "failed" /\ sLeft' = Pause
              /\ UNCHANGED <<pkt, seq, attempts, line, rcvVars,
                             fwdAge, backAge, rLeft, sRun, rRun, peer, lost>>

(* The memory of the process goes with it, and so does what it held of the *)
(* file; recebido.gif is written at the very end.                          *)
Forgets == /\ expectedSeq' = 0 /\ idleCount' = 0 /\ frameData' = 0
           /\ fileSize' = 0 /\ totalReceived' = 0 /\ received' = << >>

KillReceiver == /\ rpc \notin {"start", "saved", "unsaved", "failed"}
                /\ rpc' = "failed" /\ rLeft' = Pause
                /\ Forgets /\ lost' = Delivered
                /\ UNCHANGED <<line, sndVars, fwdAge, backAge, sLeft, sRun, rRun, peer>>

(* A new process has fresh variables, and the line what was on it. *)
RestartSender == /\ spc \in {"done", "failed"} /\ sLeft = 0 /\ sRun < MaxRuns
                 /\ sRun' = sRun + 1
                 /\ spc' = "start" /\ pkt' = 0 /\ seq' = 0 /\ attempts' = 0
                 /\ UNCHANGED <<line, rcvVars, clocks, rRun, peer, lost>>

RestartReceiver == /\ rpc \in {"saved", "unsaved", "failed"} /\ rLeft = 0 /\ rRun < MaxRuns
                   /\ rRun' = rRun + 1 /\ peer' = 0 /\ lost' = 0
                   /\ rpc' = "start" /\ Forgets
                   /\ UNCHANGED <<line, sndVars, clocks, sRun>>

TimedNext == \/ T_Sender \/ T_Receiver \/ Tick \/ T_Line
             \/ KillSender \/ KillReceiver \/ RestartSender \/ RestartReceiver

TimedSpec == TimedInit /\ [][TimedNext]_timedVars

(***************************************************************************)
(* Properties.                                                             *)
(***************************************************************************)
(* The programs take turns on the line: no time-out is so short that a     *)
(* packet is sent again while it, or the answer to it, is still under way, *)
(* not even by a later run.                                                *)
OneUnderWay == Cardinality(UnderWay(fwdAge)) + Cardinality(UnderWay(backAge)) <= 1

(* A receiver that counts idle reads outlives the sender it is linked to:  *)
(* when it gives up, no attempt of that sender can reach it any more.      *)
GaveUp == idleCount = MaxIdle
NoAttemptWasted ==
    GaveUp /\ peer = sRun =>
        \/ spc = "failed"
        \/ spc = "waitAck" /\ attempts = MaxRetries - 1 /\ t2r = << >>

(* A run of the sender reports success only if one run of the receiver has *)
(* acknowledged the whole file, although either may have met the remains   *)
(* of another run.  That receiver still holds the file, unless it was      *)
(* killed after its last acknowledgment and has not been started again.    *)
SuccessAcrossRuns ==
    [][spc # "done" /\ spc' = "done" =>
          \/ Delivered = NumChunks + 1
          \/ rpc = "failed" /\ lost = NumChunks + 1]_timedVars

(***************************************************************************)
(* The inductive invariant.  A frame is live while it can still be read:   *)
(* it is under way, or has arrived and its reader reads.                   *)
(***************************************************************************)
Newest(s) == s[Len(s)]

SenderListens == spc \in {"llopen", "fopen", "llwrite", "waitAck"}
LiveForward   == t2r # << >> /\ (ReceiverListens \/ Newest(fwdAge) < Delay)
LiveBackward  == r2t # << >> /\ (SenderListens \/ Newest(backAge) < Delay)
ReceiverEnded == rpc \in {"saved", "unsaved", "failed"}

ClocksTypeOK == /\ fwdAge \in Seq(0..Delay) /\ Len(fwdAge) = Len(t2r)
                /\ backAge \in Seq(0..Delay) /\ Len(backAge) = Len(r2t)
                /\ sLeft \in Nat /\ rLeft \in Nat
                /\ sRun \in Nat \ {0} /\ rRun \in Nat /\ peer \in 0..sRun
                /\ lost \in Nat

AllButNewestArrived(ages) == \A i \in 1..Len(ages) - 1 : ages[i] = Delay

(* There is one live frame at most, and neither a read, nor the pause of a *)
(* program that has ended, is over before it has been read and answered.   *)
Turns == /\ AllButNewestArrived(fwdAge) /\ AllButNewestArrived(backAge)
         /\ ReceiverListens => Len(t2r) <= 1
         /\ SenderListens => Len(r2t) <= 1
         /\ ~(LiveForward /\ LiveBackward)
         /\ LiveForward => \/ SenderReads /\ sLeft + Newest(fwdAge) = SndVtime
                           \/ spc = "failed" /\ sLeft + Newest(fwdAge) > 2 * Delay
         /\ LiveBackward => /\ spc \in {"llopen", "waitAck", "failed"}
                            /\ sLeft + Newest(backAge) > Delay
                            /\ rpc \notin {"start", "llopen"}
                            /\ ReceiverEnded => rLeft + Newest(backAge) > Delay

(* What the run of the receiver has acknowledged, alive or killed.  It is  *)
(* ahead of the sender it is linked to by one packet at most.              *)
Given        == Delivered + lost
LinkedInStep == Given \in {pkt, pkt + 1}

(* A sender with an answer to its SET is linked to the receiver, or that   *)
(* one has been started again; only a linked one gets packets or answers.  *)
Links == /\ Bits /\ Sizes /\ ReceivedInOrder
         /\ spc \in {"start", "llopen", "fopen"} => pkt = 0 /\ attempts = 0
         /\ spc = "start" => peer # sRun
         /\ spc \in {"fopen", "llwrite", "waitAck", "done"} => peer \in {0, sRun}
         /\ rpc \in {"start", "llopen"} => peer = 0 /\ idleCount = 0
         /\ rpc \in {"size", "chunks"} \cup Acknowledged => peer # 0
         /\ rpc # "failed" => lost = 0
         /\ LiveForward => \/ /\ Newest(t2r) = SetFrame
                              /\ pkt = 0 /\ spc \in {"llopen", "failed"}
                           \/ /\ Newest(t2r) = IFrame(seq, pkt)
                              /\ peer \in {0, sRun} /\ spc \in {"waitAck", "failed"}
         /\ LiveBackward =>
                /\ peer = sRun
                /\ spc = "waitAck" /\ Newest(r2t) = AckCtrl(seq) => Given = pkt + 1
         /\ peer = sRun => LinkedInStep
         /\ spc = "done" => pkt = NumChunks /\ (peer = sRun => Given = pkt + 1)

(* How long the receiver has heard nothing, and how long it may last until *)
(* the last attempt reaches it.                                            *)
Idle == idleCount * RcvVtime + (RcvVtime - rLeft)

Ahead == Idle + sLeft + Delay + Attempts(MaxRetries - 1 - attempts)

LinkedPatience == /\ LiveBackward => Idle = Newest(backAge)
                  /\ spc = "llopen" => Idle + sLeft <= SndVtime + Delay
                  /\ spc \in {"fopen", "llwrite"} => Ahead <= Silence
                  /\ spc = "waitAck" => Ahead <= Silence + SndVtime

(* The receiver is in its loops, with or without a packet in hand.         *)
Serving == Reading \/ rpc \in Acknowledged

Patience == /\ Counters
            /\ ReceiverListens => rLeft <= RcvVtime
            /\ rpc \in Acknowledged => rLeft = RcvVtime
            /\ Serving /\ peer = sRun => LinkedPatience
            /\ NoAttemptWasted
            /\ GaveUp /\ peer = sRun /\ spc # "failed" => r2t = << >>

TimedInv == TypeOK /\ ClocksTypeOK /\ Turns /\ Links /\ Patience
=============================================================================
