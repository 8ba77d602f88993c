---------------------------- MODULE FrameReceiver ---------------------------
(***************************************************************************)
(* The automaton of llread in read_noncanonical.c, one action per state    *)
(* and kind of byte c.  What is decided about a whole frame is left in     *)
(* verdicts: the control byte and payload of a frame whose BCC2 is right   *)
(* (acknowledged, and either taken or found a duplicate), or Damaged (the  *)
(* "NACK").  ReadNonCanonical models what the program does with either.    *)
(* The array of the data has room for two million bytes, which no two      *)
(* frames between FLAGs can fill: its bound is left out.                   *)
(***************************************************************************)
EXTENDS SerialFrames

VARIABLES recState,  \* START, FLAG_RCV, A_RCV, C_RCV or DATA
          ctrl,      \* the control byte of the frame
          esc,       \* whether ESC came last
          frameData, \* the data collected, check byte included
          verdicts
automaton == <<recState, ctrl, esc, frameData>>

Damaged == [ok |-> FALSE]
Good(c, data) == [ok |-> TRUE, ctrl |-> c, data |-> data]

(* Each call of llread starts with fresh local variables.                  *)
Fresh == recState = "START" /\ ctrl = {} /\ esc = FALSE /\ frameData = << >>

(* A byte that is not the one the header needs: FLAG may begin a frame.    *)
ResyncAtStart(c) == recState' = "START"  \* mutant: a FLAG in the header is skipped
Resync(c) == recState' = IF c = FLAG THEN "FLAG_RCV" ELSE "START"

Start(c) == /\ recState = "START"
            /\ Resync(c)
            /\ UNCHANGED <<ctrl, esc, frameData, verdicts>>

FlagRcv(c) == /\ recState = "FLAG_RCV"
              /\ IF c = A_fromT THEN recState' = "A_RCV" ELSE Resync(c)
              /\ UNCHANGED <<ctrl, esc, frameData, verdicts>>

(* Any control byte is taken, even a FLAG.                                 *)
ARcv(c) == /\ recState = "A_RCV"
           /\ recState' = "C_RCV" /\ ctrl' = c
           /\ UNCHANGED <<esc, frameData, verdicts>>

CRcvAnyBcc(c) == /\ recState = "C_RCV"  \* mutant: BCC1 is not compared
                 /\ recState' = "DATA" /\ esc' = FALSE /\ frameData' = << >>
                 /\ UNCHANGED <<ctrl, verdicts>>

CRcv(c) == /\ recState = "C_RCV"
           /\ IF c = Xor(A_fromT, ctrl)
              THEN recState' = "DATA" /\ esc' = FALSE /\ frameData' = << >>
              ELSE Resync(c) /\ UNCHANGED <<esc, frameData>>
           /\ UNCHANGED <<ctrl, verdicts>>

Escape(c) == /\ recState = "DATA" /\ c = ESC
             /\ esc' = TRUE
             /\ UNCHANGED <<recState, ctrl, frameData, verdicts>>

(* A byte of the frame; after ESC whatever comes is one, a FLAG too.       *)
Collect(c) == /\ recState = "DATA" /\ c # ESC /\ (c = FLAG => esc)
              /\ frameData' = Append(frameData, IF esc THEN Xor(c, {5}) ELSE c)
              /\ esc' = FALSE
              /\ UNCHANGED <<recState, ctrl, verdicts>>

(* FLAG right after the header: no frame, and this FLAG begins none.       *)
EmptyFrameEscaped(c) == /\ recState = "DATA" /\ c = FLAG /\ frameData = << >> \* mutant: !esc
                        /\ recState' = "START"
                        /\ UNCHANGED <<ctrl, esc, frameData, verdicts>>

EmptyFrame(c) == /\ recState = "DATA" /\ c = FLAG /\ ~esc /\ frameData = << >>
                 /\ recState' = "START"
                 /\ UNCHANGED <<ctrl, esc, frameData, verdicts>>

(* The check of BCC2.  llread answers and returns; the next call begins    *)
(* with the byte after this FLAG.                                          *)
Verdict(data) == IF Bcc2(Front(data)) = Last(data) THEN Good(ctrl, Front(data)) ELSE Damaged

EndOfFrameGoesOn(c) == \* mutant: a bad frame does not end the call
              /\ recState = "DATA" /\ c = FLAG /\ ~esc /\ frameData # << >>
              /\ verdicts' = Append(verdicts, Verdict(frameData))
              /\ IF Verdict(frameData) = Damaged
                 THEN UNCHANGED automaton
                 ELSE recState' = "START" /\ ctrl' = {} /\ esc' = FALSE /\ frameData' = << >>

EndOfFrame(c) == /\ recState = "DATA" /\ c = FLAG /\ ~esc /\ frameData # << >>
                 /\ verdicts' = Append(verdicts, Verdict(frameData))
                 /\ recState' = "START" /\ ctrl' = {} /\ esc' = FALSE /\ frameData' = << >>

LlreadTakes(c) == \/ Start(c) \/ FlagRcv(c) \/ ARcv(c) \/ CRcv(c)
                  \/ Escape(c) \/ Collect(c) \/ EmptyFrame(c) \/ EndOfFrame(c)
=============================================================================
