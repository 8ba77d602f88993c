--------------------------- MODULE PollingHandshake -------------------------
(***************************************************************************)
(* Referencia1: write_noncanonical.c sends SET until UA comes, reading     *)
(* byte by byte with a timeout of 0.1 s so as to see the alarm;            *)
(* read_noncanonical.c waits for a SET, answers UA and leaves.             *)
(*                                                                         *)
(* Places of the sender: start, while, if, alarm, enable, read, up (UA has *)
(* come), down (it has not), failed (a call that opens the port fails).    *)
(* Places of the receiver: start, reading, answering, ended, failed.       *)
(***************************************************************************)
EXTENDS AlarmSignal, ByteLine

VARIABLES state,   \* the sender's automaton
          setsSent \* times the sender has written SET
pollVars == <<state, setsSent>>

VARIABLES rpc, rstate  \* the receiver's place and automaton
peerVars == <<rpc, rstate>>

(* Up to the loop.  tcflush has nothing to discard: the receiver does not  *)
(* write before it has read.                                               *)
P_Opens == /\ At("polling", "start")
           /\ Goto("while") \/ Goto("failed")
           /\ UNCHANGED <<alarmVars, pollVars, bytesOnLine>>

P_TestsLoop == /\ At("polling", "while")
               /\ IF alarmCount < 3 /\ state # "STOP_STATE"
                  THEN Goto("if") /\ UNCHANGED alarmVars
                  ELSE Ends(IF state = "STOP_STATE" THEN "up" ELSE "down")
               /\ UNCHANGED <<pollVars, bytesOnLine>>

(* The test of alarmEnabled, and the write of SET after it. *)
P_Waits == /\ At("polling", "if") /\ alarmEnabled
           /\ Goto("read")
           /\ UNCHANGED <<alarmVars, pollVars, bytesOnLine>>

P_SendsSet == /\ At("polling", "if") /\ ~alarmEnabled
              /\ Goto("alarm")
              /\ toReceiver' = toReceiver \o Frame(C_SET)
              /\ setsSent' = setsSent + 1
              /\ UNCHANGED <<alarmVars, state, toSender>>

P_SetsAlarm == /\ At("polling", "alarm")
               /\ Goto("enable")
               /\ SetsAlarm
               /\ UNCHANGED <<pollVars, bytesOnLine>>

P_EnablesNot == /\ At("polling", "enable")  \* mutant: alarmEnabled stays FALSE
                /\ Goto("read")
                /\ state' = "START"
                /\ UNCHANGED <<alarmVars, setsSent, bytesOnLine>>

P_Enables == /\ At("polling", "enable")
             /\ Goto("read")
             /\ Enables
             /\ state' = "START"
             /\ UNCHANGED <<setsSent, bytesOnLine>>

(* read() returns a byte; the one that completes UA stops the alarm.       *)
P_Reads == /\ At("polling", "read")
           /\ toSender # << >>
           /\ Goto("while")
           /\ toSender' = Tail(toSender)
           /\ state' = AfterByte(C_UA, state, Head(toSender))
           /\ IF state' = "STOP_STATE" THEN ClearsAlarm ELSE UNCHANGED alarmVars
           /\ UNCHANGED <<setsSent, toReceiver>>

(* read() times out, or the handler has interrupted it. *)
P_ReadsNothing == /\ At("polling", "read")
                  /\ Goto("while")
                  /\ UNCHANGED <<alarmVars, pollVars, bytesOnLine>>

(* Between alarm(3) and the assignment, the assignment undoes the reset.   *)
P_GoesOff == /\ program = "polling"
             /\ GoesOff(pc = "enable")
             /\ UNCHANGED <<program, pc, pollVars>>

PollingRuns == \/ P_Opens \/ P_TestsLoop \/ P_Waits \/ P_SendsSet
               \/ P_SetsAlarm \/ P_Enables \/ P_Reads \/ P_ReadsNothing

(* The receiver opens its port, throwing away what has arrived so far.     *)
R_Opens == /\ program = "polling" /\ rpc = "start"
           /\ \/ rpc' = "reading" /\ \E n \in 0..Len(toReceiver) :
                    toReceiver' = SubSeq(toReceiver, n + 1, Len(toReceiver))
              \/ rpc' = "failed" /\ UNCHANGED toReceiver
           /\ UNCHANGED <<rstate, toSender>>

R_Reads == /\ program = "polling" /\ rpc = "reading"
           /\ toReceiver # << >>
           /\ toReceiver' = Tail(toReceiver)
           /\ rstate' = AfterByte(C_SET, rstate, Head(toReceiver))
           /\ rpc' = IF rstate' = "STOP_STATE" THEN "answering" ELSE "reading"
           /\ UNCHANGED toSender

R_Answers == /\ program = "polling" /\ rpc = "answering"
             /\ rpc' = "ended"
             /\ toSender' = toSender \o Frame(C_UA)
             /\ UNCHANGED <<rstate, toReceiver>>

PollingPeer == R_Opens \/ R_Reads \/ R_Answers
=============================================================================
