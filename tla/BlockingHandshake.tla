-------------------------- MODULE BlockingHandshake -------------------------
(***************************************************************************)
(* Referencias2: write_noncanonical.c sends SET, sets the alarm and blocks *)
(* until five bytes have come; the handler is installed without            *)
(* SA_RESTART, so an alarm ends the read: with the bytes it holds, or with *)
(* -1 if it holds none.  read_noncanonical.c takes five bytes, whatever    *)
(* they are, answers and leaves.                                           *)
(*                                                                         *)
(* Places of the sender: start, while, if, alarm, enable, callRead, read   *)
(* (inside read), ended, failed.                                           *)
(***************************************************************************)
EXTENDS AlarmSignal, ByteLine

CONSTANT BUF_SIZE  \* bytes a read waits for
ASSUME BufAssumption == BUF_SIZE \in Nat \ {0}

VARIABLES setsWritten,  \* times the sender has written SET
          readsReturned \* times its read has returned bytes, all or some
blockVars == <<setsWritten, readsReturned>>

VARIABLE listener  \* the receiver: start, reading, answering, ended, failed

B_Opens == /\ At("blocking", "start")
           /\ Goto("while") \/ Goto("failed")
           /\ UNCHANGED <<alarmVars, blockVars, bytesOnLine>>

B_TestsCount == /\ At("blocking", "while")
                /\ IF alarmCount < 4
                   THEN Goto("if") /\ UNCHANGED alarmVars
                   ELSE Ends("ended")
                /\ UNCHANGED <<blockVars, bytesOnLine>>

B_GoesOnWaiting == /\ At("blocking", "if") /\ alarmEnabled
                   /\ Goto("enable")
                   /\ UNCHANGED <<alarmVars, blockVars, bytesOnLine>>

B_SendsSet == /\ At("blocking", "if") /\ ~alarmEnabled
              /\ Goto("alarm")
              /\ toReceiver' = toReceiver \o Frame(C_SET)
              /\ setsWritten' = setsWritten + 1
              /\ UNCHANGED <<alarmVars, readsReturned, toSender>>

B_SetsAlarm == /\ At("blocking", "alarm")
               /\ Goto("enable")
               /\ SetsAlarm
               /\ UNCHANGED <<blockVars, bytesOnLine>>

B_Enables == /\ At("blocking", "enable")
             /\ Goto("callRead")
             /\ Enables
             /\ UNCHANGED <<blockVars, bytesOnLine>>

B_CallsRead == /\ At("blocking", "callRead")
               /\ Goto("read")
               /\ UNCHANGED <<alarmVars, blockVars, bytesOnLine>>

(* read() returns with the first n bytes, and the loop goes on. *)
ReadReturns(n) == /\ Goto("while")
                  /\ toSender' = SubSeq(toSender, n + 1, Len(toSender))
                  /\ readsReturned' = readsReturned + 1
                  /\ UNCHANGED <<setsWritten, toReceiver>>

B_Reads == /\ At("blocking", "read")
           /\ Len(toSender) >= BUF_SIZE
           /\ ReadReturns(BUF_SIZE)
           /\ UNCHANGED alarmVars

B_InterruptedReadsOn == \* mutant: the loop goes on after -1 too
    IF toSender = << >>
    THEN Goto("while") /\ UNCHANGED <<blockVars, bytesOnLine>>
    ELSE ReadReturns(IF Len(toSender) < BUF_SIZE THEN Len(toSender) ELSE BUF_SIZE)

(* Anywhere but inside read the handler only changes the counters, and it  *)
(* is too soon once alarmEnabled has been looked at.  Inside read it makes *)
(* read return: what has come of an answer if anything has, or else -1,    *)
(* with which the program leaves its loop.                                 *)
B_Interrupted ==
    IF toSender = << >>
    THEN Goto("ended") /\ UNCHANGED <<blockVars, bytesOnLine>>
    ELSE ReadReturns(IF Len(toSender) < BUF_SIZE THEN Len(toSender) ELSE BUF_SIZE)

B_GoesOffAndReadGoesOn == \* mutant: with SA_RESTART
             /\ program = "blocking"
             /\ GoesOff(pc \in {"enable", "callRead"})
             /\ UNCHANGED <<program, pc, blockVars, bytesOnLine>>

B_GoesOff == /\ program = "blocking"
             /\ GoesOff(pc \in {"enable", "callRead"})
             /\ IF pc = "read" THEN B_Interrupted
                ELSE UNCHANGED <<program, pc, blockVars, bytesOnLine>>

BlockingRuns == \/ B_Opens \/ B_TestsCount \/ B_GoesOnWaiting \/ B_SendsSet
                \/ B_SetsAlarm \/ B_Enables \/ B_CallsRead \/ B_Reads

L_Opens == /\ program = "blocking" /\ listener = "start"
           /\ \/ listener' = "reading" /\ \E n \in 0..Len(toReceiver) :
                    toReceiver' = SubSeq(toReceiver, n + 1, Len(toReceiver))
              \/ listener' = "failed" /\ UNCHANGED toReceiver
           /\ UNCHANGED toSender

L_Reads == /\ program = "blocking" /\ listener = "reading"
           /\ Len(toReceiver) >= BUF_SIZE
           /\ listener' = "answering"
           /\ toReceiver' = SubSeq(toReceiver, BUF_SIZE + 1, Len(toReceiver))
           /\ UNCHANGED toSender

(* UA with the address 0x01, after a second. *)
Answer == <<FLAG, 1, C_UA, 6, FLAG>>

L_Answers == /\ program = "blocking" /\ listener = "answering"
             /\ listener' = "ended"
             /\ toSender' = toSender \o Answer
             /\ UNCHANGED toReceiver

BlockingPeer == L_Opens \/ L_Reads \/ L_Answers
=============================================================================
