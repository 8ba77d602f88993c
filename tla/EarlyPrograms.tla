---------------------------- MODULE EarlyPrograms ---------------------------
(***************************************************************************)
(* The programs of Projeto1 that use an alarm, one at a time: the example  *)
(* alarm.c and the two generations of the SET and UA handshake.            *)
(***************************************************************************)
EXTENDS AlarmLoop, PollingHandshake, BlockingHandshake

vars == <<program, pc, alarmVars, bytesOnLine, pollVars, peerVars, blockVars, listener>>

Init == /\ program \in {"example", "polling", "blocking"} /\ pc = "start"
        /\ AlarmInit
        /\ toReceiver = << >> /\ toSender = << >>
        /\ state = "START" /\ setsSent = 0 /\ rpc = "start" /\ rstate = "START"
        /\ setsWritten = 0 /\ readsReturned = 0 /\ listener = "start"

Example  == ExampleRuns
            /\ UNCHANGED <<bytesOnLine, pollVars, peerVars, blockVars, listener>>
Polling  == PollingRuns /\ UNCHANGED <<peerVars, blockVars, listener>>
Blocking == BlockingRuns /\ UNCHANGED <<pollVars, peerVars, listener>>

Peer  == \/ PollingPeer /\ UNCHANGED <<program, pc, alarmVars, pollVars, blockVars, listener>>
         \/ BlockingPeer /\ UNCHANGED <<program, pc, alarmVars, pollVars, peerVars, blockVars>>
Alarm == \/ E_GoesOff /\ UNCHANGED <<bytesOnLine, pollVars, peerVars, blockVars, listener>>
         \/ P_GoesOff /\ UNCHANGED <<bytesOnLine, peerVars, blockVars, listener>>
         \/ B_GoesOff /\ UNCHANGED <<pollVars, peerVars, listener>>
Line  == /\ MangleForward \/ MangleBackward
         /\ UNCHANGED <<program, pc, alarmVars, pollVars, peerVars, blockVars, listener>>

Next == Example \/ Polling \/ Blocking \/ Peer \/ Alarm \/ Line

Spec == Init /\ [][Next]_vars

(* The programs go on running and an alarm that is set goes off.  The      *)
(* other end of the line may never be started, and answers no one.         *)
FairSpec == Spec /\ WF_vars(Example \/ Polling \/ Blocking) /\ WF_vars(Alarm)

TypeOK == /\ program \in {"example", "polling", "blocking"}
          /\ AlarmTypeOK
          /\ toReceiver \in Seq(Nat) /\ toSender \in Seq(Nat)
          /\ state \in States /\ rstate \in States
          /\ setsSent \in Nat /\ setsWritten \in Nat /\ readsReturned \in Nat

Ended == pc \in {"ended", "up", "down", "failed"}

(* A program that believes an answer to be awaited has an alarm set: what  *)
(* it waits for does come.  The exception is exactly an alarm that went    *)
(* off between alarm(3), or the test of alarmEnabled, and the assignment   *)
(* that undoes the handler's.                                              *)
Waiting == /\ alarmEnabled /\ state # "STOP_STATE"
           /\ pc \in {"while", "if", "read"}
AlarmIsSet == Waiting => (pending <=> ~heldUp)

(* Every loop ends by its alarms alone, whatever the line and the other    *)
(* program do, unless an alarm went off in that gap, or, in the second     *)
(* generation, before the program was inside the read it should end.       *)
LoopEnds == <>(Ended \/ heldUp)

(* One SET for each alarm and the first, whatever comes back; the fourth,  *)
(* where the sender's message says three, needs an alarm between its two   *)
(* tests.                                                                  *)
OneSetPerAlarm == setsSent <= alarmCount + 1 /\ setsSent <= 4

(* Whatever has come before, in part or mangled, both automata of the      *)
(* first generation recognise the next frame that arrives whole.           *)
Resynchronises == /\ rpc = "reading" => AfterFrame(C_SET, rstate) = "STOP_STATE"
                  /\ ~Ended => AfterFrame(C_UA, state) = "STOP_STATE"

(* In the second generation SET is written again only if the read after    *)
(* the one before has returned bytes, be it a part of an answer: silence   *)
(* ends the program at its first alarm (l.147-157), and four turns of the  *)
(* loop are for lines on which something comes.                            *)
SilenceIsNotResent == setsWritten <= readsReturned + 1

(***************************************************************************)
(* The inductive invariant.                                                *)
(***************************************************************************)
(* An automaton that has stopped is looked at before anything else is done. *)
StopIsSeen == state = "STOP_STATE" => program = "polling" /\ pc \in {"while", "up"}

(* Without alarmEnabled there is no alarm to wait for, except where the    *)
(* next one is being set; with it there is, or it has come too soon.       *)
NoAlarmUnawaited ==
    /\ pc = "alarm" => ~pending /\ ~alarmEnabled
    /\ ~alarmEnabled /\ pc \notin {"alarm", "enable"} => ~pending
AlarmAwaited ==
    /\ pc \in {"start", "while", "if", "enable", "callRead", "read"}
    /\ alarmEnabled \/ pc = "enable"
    /\ state # "STOP_STATE"
    => (pending <=> ~heldUp)

(* The loops test the count before they set another alarm; the one that is *)
(* set may still go off.                                                   *)
Limit         == IF program = "polling" THEN 3 ELSE 4
Within(n)     == alarmCount <= n /\ (pending => alarmCount < n)
CountIsTested == Within(Limit + 1) /\ (pc \in {"if", "alarm"} => Within(Limit))

SetsArePaired ==
    /\ program # "polling" => setsSent = 0
    /\ setsSent <= alarmCount + 1 /\ setsSent <= 4
    /\ ~alarmEnabled /\ pc \notin {"alarm", "enable"} => setsSent <= alarmCount

(* In the second generation every turn of the loop but the last ends with  *)
(* a read that has returned bytes.                                         *)
TurnsReturnBytes ==
    /\ program # "blocking" => setsWritten = 0
    /\ setsWritten <= readsReturned + 1
    /\ pc \in {"start", "while", "if"} => setsWritten <= readsReturned

(* The receivers answer once, so no second frame is ever behind the first. *)
OneAnswer == /\ program = "polling" /\ rpc # "ended" => toSender = << >>
             /\ program = "blocking" /\ listener # "ended" => toSender = << >>
             /\ Len(toSender) <= 5

EarlyInv == /\ TypeOK /\ StopIsSeen /\ NoAlarmUnawaited /\ AlarmAwaited
            /\ CountIsTested /\ SetsArePaired /\ TurnsReturnBytes /\ OneAnswer
=============================================================================
