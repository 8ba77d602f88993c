------------------------------ MODULE AlarmLoop -----------------------------
(***************************************************************************)
(* alarm.c: a loop that sets the alarm again whenever it has gone off,     *)
(* four times.  Places: start, while (the test of the count), if (the test *)
(* of alarmEnabled), alarm, enable, ended, failed.                         *)
(***************************************************************************)
EXTENDS AlarmSignal

E_Configures == /\ At("example", "start")
                /\ Goto("while") \/ Goto("failed")  \* sigaction fails
                /\ UNCHANGED alarmVars

E_TestsCountOnceMore == /\ At("example", "while")  \* mutant: <= for <
                        /\ IF alarmCount <= 4
                           THEN Goto("if") /\ UNCHANGED alarmVars
                           ELSE Ends("ended")

E_TestsCount == /\ At("example", "while")
                /\ IF alarmCount < 4
                   THEN Goto("if") /\ UNCHANGED alarmVars
                   ELSE Ends("ended")

E_TestsEnabled == /\ At("example", "if")
                  /\ Goto(IF alarmEnabled THEN "while" ELSE "alarm")
                  /\ UNCHANGED alarmVars

E_SetsAlarm == At("example", "alarm") /\ Goto("enable") /\ SetsAlarm

E_Enables == At("example", "enable") /\ Goto("while") /\ Enables

(* Between alarm(3) and the assignment, the assignment undoes the reset.   *)
E_GoesOff == /\ program = "example"
             /\ GoesOff(pc = "enable")
             /\ UNCHANGED <<program, pc>>

ExampleRuns == \/ E_Configures \/ E_TestsCount \/ E_TestsEnabled
               \/ E_SetsAlarm \/ E_Enables
=============================================================================
