---------------------------- MODULE SerialFrames ----------------------------
(***************************************************************************)
(* Frames of the serial protocol, byte by byte.  A byte is the set of its  *)
(* bits, so that the exclusive or of the programs is the symmetric         *)
(* difference of sets and flipping bit b is Xor(byte, {b}).                *)
(***************************************************************************)
EXTENDS Naturals, SequencesExt

Byte == SUBSET (0..7)
Xor(a, b) == (a \ b) \cup (b \ a)

FLAG    == {1, 2, 3, 4, 5, 6}  \* 0x7E
ESC     == {0, 2, 3, 4, 5, 6}  \* 0x7D
A_fromT == {0, 1}              \* 0x03, MY_ADRESS of the sender
A_fromR == {0}                 \* 0x01, NOT_MY_ADRESS of the sender
C_SET   == {0, 1}              \* 0x03
C_UA    == {0, 1, 2}           \* 0x07

(* C_UA ^ seq, seq the set {} or {0}. *)
AckCtrl(seq) == Xor(C_UA, seq)

(* The exclusive or of all bytes of the data. *)
Bcc2(data) == FoldSeq(Xor, {}, data)

(* Stuffing of one byte, and of the data with its check byte.              *)
StuffedFlagOnly(byte) == IF byte = FLAG THEN <<ESC, Xor(byte, {5})>> ELSE <<byte>> \* mutant
Stuffed(byte) == IF byte \in {FLAG, ESC} THEN <<ESC, Xor(byte, {5})>> ELSE <<byte>>
Stuff(data) == FlattenSeq([i \in DOMAIN data |-> Stuffed(data[i])])

Header(a, c) == <<FLAG, a, c, Xor(a, c)>>

(* What llwrite puts on the line for a payload, and what the 5-byte frames *)
(* SET, UA and the acknowledgments look like.                              *)
IFrame(ctrl, data) ==
    Header(A_fromT, ctrl) \o Stuff(data) \o Stuffed(Bcc2(data)) \o <<FLAG>>
Supervision(a, c) == Append(Header(a, c), FLAG)
=============================================================================
