------------------------------- MODULE ByteLine -----------------------------
(***************************************************************************)
(* The serial line between the early programs, byte by byte, and the       *)
(* frames SET and UA they exchange.                                        *)
(***************************************************************************)
EXTENDS Naturals, Sequences

VARIABLES toReceiver, toSender  \* bytes on the line, either way
bytesOnLine == <<toReceiver, toSender>>

FLAG  == 126  \* 0x7E
A     == 3    \* 0x03
C_SET == 3    \* 0x03
C_UA  == 7    \* 0x07

(* A ^ C: A is 0b011, so that 0b011 gives 0 and 0b111 gives 0b100.         *)
Bcc(c) == c - A
Bytes  == {FLAG, A, C_UA, Bcc(C_SET), Bcc(C_UA)}

Frame(c) == <<FLAG, A, c, Bcc(c), FLAG>>

States == {"START", "FLAG_RCV", "A_RCV", "C_RCV", "BCC_OK", "STOP_STATE"}

(* The automaton that takes a frame with control byte c off the line.      *)
AfterByteNoFlag(c, state, byte) == \* mutant: a flag does not begin a frame anew
    CASE state = "START"    /\ byte = FLAG   -> "FLAG_RCV"
      [] state = "FLAG_RCV" /\ byte = A      -> "A_RCV"
      [] state = "FLAG_RCV" /\ byte = FLAG   -> "FLAG_RCV"
      [] state = "A_RCV"    /\ byte = c      -> "C_RCV"
      [] state = "C_RCV"    /\ byte = Bcc(c) -> "BCC_OK"
      [] state = "BCC_OK"   /\ byte = FLAG   -> "STOP_STATE"
      [] OTHER -> "START"

AfterByte(c, state, byte) ==
    CASE state = "FLAG_RCV" /\ byte = A      -> "A_RCV"
      [] state = "A_RCV"    /\ byte = c      -> "C_RCV"
      [] state = "C_RCV"    /\ byte = Bcc(c) -> "BCC_OK"
      [] state = "BCC_OK"   /\ byte = FLAG   -> "STOP_STATE"
      [] state # "BCC_OK"   /\ byte = FLAG   -> "FLAG_RCV"
      [] OTHER -> "START"

(* The state a whole frame leaves the automaton in; it reads no further    *)
(* than STOP_STATE.                                                        *)
AfterNext(c, state, byte) ==
    IF state = "STOP_STATE" THEN state ELSE AfterByte(c, state, byte)
AfterFrame(c, state) ==
    LET header == AfterNext(c, AfterNext(c, AfterNext(c, state, FLAG), A), c)
    IN  AfterNext(c, AfterNext(c, header, Bcc(c)), FLAG)

(* The line loses the oldest byte of a direction, or delivers another one. *)
Mangled(bytes) == {Tail(bytes)} \cup {<<b>> \o Tail(bytes) : b \in Bytes}
MangleForward  == /\ toReceiver # << >>
                  /\ toReceiver' \in Mangled(toReceiver)
                  /\ UNCHANGED toSender
MangleBackward == /\ toSender # << >>
                  /\ toSender' \in Mangled(toSender)
                  /\ UNCHANGED toReceiver
=============================================================================
