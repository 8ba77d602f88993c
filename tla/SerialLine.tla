----------------------------- MODULE SerialLine -----------------------------
(***************************************************************************)
(* The serial line between the two programs of Projeto1, at the grain of   *)
(* whole frames: what write() puts on the line in one call and what one    *)
(* pass of a receiving automaton takes off it.                             *)
(*                                                                         *)
(*   t2r   frames on their way from the sender to the receiver             *)
(*   r2t   control bytes of the 5-byte supervision frames coming back      *)
(*                                                                         *)
(* Each direction is FIFO.  A frame may be lost (cable switched off, or a  *)
(* damaged header that the other automaton throws away).  Damage to the    *)
(* data field, which the receiver answers, is an action of the receiver.   *)
(***************************************************************************)
EXTENDS Naturals, Sequences

CONSTANTS FileSize,     \* length of the file, in bytes
          SndMaxSize,   \* MAX_FILE_SIZE of the sender
          ChunkSize     \* chunkSize, the bytes of the file in a packet

SizeOfLong == 8         \* sizeof(long)

(* The receiver can tell the size packet from a chunk by its length.       *)
ASSUME FileAssumption == /\ FileSize \in Nat /\ SndMaxSize \in Nat
                         /\ ChunkSize \in 1..(SizeOfLong - 1)

VARIABLES t2r, r2t
line == <<t2r, r2t>>

(* Control bytes, with their values in the two programs. *)
C_SET == 3
C_UA  == 7

(* C_UA ^ seq: C_UA is odd, so the exclusive or with a bit subtracts it.   *)
(* The acknowledgment of sequence number 0 is the very byte of UA.         *)
AckCtrl(seq) == C_UA - seq

(* seq ^ 1, of both programs. *)
Toggle(seq) == 1 - seq

(* What the programs do to a file longer than their buffer. *)
Truncate(size, max) == IF size > max THEN max ELSE size

(* The size the sender announces, and the chunks it goes on to send.       *)
Announced == Truncate(FileSize, SndMaxSize)

ChunksRoundedDown(size) == size \div ChunkSize  \* mutant: + chunkSize - 1 is missing
ChunksOf(size) == (size + ChunkSize - 1) \div ChunkSize
NumChunks    == ChunksOf(Announced)

(* A packet is numbered by its place in the transfer: 0 carries the        *)
(* announced size, k > 0 the k-th chunk of the file.  The number stands    *)
(* for the payload; of the header the programs see only the control byte.  *)
Smaller(a, b) == IF a < b THEN a ELSE b
Payload(p) == IF p = 0 THEN SizeOfLong
              ELSE Smaller(ChunkSize, Announced - (p - 1) * ChunkSize)

Frame    == [ctrl : {0, 1, C_SET}, pkt : Nat]
SetFrame == [ctrl |-> C_SET, pkt |-> 0]
IFrame(seq, pkt) == [ctrl |-> seq, pkt |-> pkt]

LineTypeOK == /\ t2r \in Seq(Frame)
              /\ r2t \in Seq({AckCtrl(0), AckCtrl(1)})

LineInit == t2r = << >> /\ r2t = << >>

(* The line loses the oldest frame of one direction. *)
LoseForward  == t2r # << >> /\ t2r' = Tail(t2r) /\ UNCHANGED r2t
LoseBackward == r2t # << >> /\ r2t' = Tail(r2t) /\ UNCHANGED t2r
=============================================================================
