----------------------------- MODULE AlarmSignal ----------------------------
(***************************************************************************)
(* SIGALRM as the programs with an alarm use it: a timer set by alarm(3)   *)
(* and a handler that runs between any two steps of the program.           *)
(*                                                                         *)
(* The timer is not measured: an alarm that is set goes off in the end, at *)
(* any moment, which includes every speed of the program.                  *)
(***************************************************************************)
EXTENDS Naturals

VARIABLES program,      \* "example", "polling" or "blocking": which one runs
          pc,           \* the place in it
          alarmEnabled, \* as in the programs: an answer is being waited for
          alarmCount,
          pending,      \* the timer is set
          heldUp        \* the last alarm set went off before the program
                        \* had got to waiting for it
alarmVars == <<alarmEnabled, alarmCount, pending, heldUp>>

AlarmTypeOK == /\ alarmEnabled \in BOOLEAN /\ pending \in BOOLEAN
               /\ heldUp \in BOOLEAN
               /\ alarmCount \in 0..5

AlarmInit == /\ alarmEnabled = FALSE /\ alarmCount = 0
             /\ pending = FALSE /\ heldUp = FALSE

At(p, place) == program = p /\ pc = place
Goto(place)  == pc' = place /\ UNCHANGED program

(* The handler, which all the programs share. *)
alarmHandlerForgets == \* mutant: alarmEnabled is not reset
    alarmCount' = alarmCount + 1 /\ UNCHANGED alarmEnabled
alarmHandler == alarmEnabled' = FALSE /\ alarmCount' = alarmCount + 1

(* alarm(3), and alarm(0).                                                 *)
SetsAlarm   == /\ pending' = TRUE /\ heldUp' = FALSE
               /\ UNCHANGED <<alarmEnabled, alarmCount>>
ClearsAlarm == pending' = FALSE /\ UNCHANGED <<alarmEnabled, alarmCount, heldUp>>
Enables     == alarmEnabled' = TRUE /\ UNCHANGED <<alarmCount, pending, heldUp>>

(* The timer runs out; tooSoon when what the handler does will be undone,  *)
(* or will not be noticed, by what the program is about to do.             *)
GoesOff(tooSoon) == /\ pending
                    /\ pending' = FALSE
                    /\ alarmHandler
                    /\ heldUp' = (heldUp \/ tooSoon)

(* The end of a process takes its timer with it. *)
Ends(place) == Goto(place) /\ ClearsAlarm
=============================================================================
