------------------------ MODULE SupervisionReceiver -------------------------
(***************************************************************************)
(* The automaton of the sender that takes an acknowledgment off the line,  *)
(* in llwrite of write_noncanonical.c; llopen has the same one, for UA.    *)
(* It stops at the check byte, so the closing FLAG is left for the next    *)
(* reader.                                                                 *)
(***************************************************************************)
EXTENDS SerialFrames

VARIABLES state,    \* SIGA, FLAG_RCV, ADRESS or CONTROL
          awaited,  \* the sequence bit of the acknowledgment awaited
          accepted  \* those accepted so far, in order
ackReceiver == <<state, awaited, accepted>>

ReceiverInit == state = "SIGA" /\ awaited = {} /\ accepted = << >>

(* FLAG begins a frame wherever it comes. *)
OutOfStep(c) == state' = IF c = FLAG THEN "FLAG_RCV" ELSE "SIGA"

(* The byte needed in each state, and the state it leads to. *)
NeededNoBcc(c) == \* mutant: BCC1 is not compared
    CASE state = "FLAG_RCV" -> c = A_fromR
      [] state = "ADRESS"   -> c = AckCtrl(awaited)
      [] state = "CONTROL"  -> c # FLAG
      [] OTHER              -> FALSE
Needed(c) == CASE state = "FLAG_RCV" -> c = A_fromR
               [] state = "ADRESS"   -> c = AckCtrl(awaited)
               [] state = "CONTROL"  -> c = Xor(A_fromR, AckCtrl(awaited))
               [] OTHER              -> FALSE

Skips(c) == /\ ~Needed(c)
            /\ OutOfStep(c)
            /\ UNCHANGED <<awaited, accepted>>

Advances(c) == /\ Needed(c) /\ state # "CONTROL"
               /\ state' = IF state = "FLAG_RCV" THEN "ADRESS" ELSE "CONTROL"
               /\ UNCHANGED <<awaited, accepted>>

(* The frame is there: the sender turns to the next packet, and its next   *)
(* llwrite awaits the other bit with a fresh automaton.                    *)
Accepts(c) == /\ Needed(c) /\ state = "CONTROL"
              /\ accepted' = Append(accepted, awaited)
              /\ awaited' = Xor(awaited, {0})
              /\ state' = "SIGA"

LlwriteTakes(c) == Skips(c) \/ Advances(c) \/ Accepts(c)
=============================================================================
