---------------------------- MODULE StopAndWait -----------------------------
(***************************************************************************)
(* The file transfer of Projeto1: write_noncanonical and read_noncanonical *)
(* at the two ends of a serial line that loses and damages frames.         *)
(***************************************************************************)
EXTENDS WriteNonCanonical, ReadNonCanonical

vars == <<line, sndVars, rcvVars>>

Init == LineInit /\ SenderInit /\ ReceiverInit

Sender   == SenderNext /\ UNCHANGED rcvVars
Receiver == ReceiverNext /\ UNCHANGED sndVars
Line     == (LoseForward \/ LoseBackward) /\ UNCHANGED <<sndVars, rcvVars>>

Next == Sender \/ Receiver \/ Line

Spec == Init /\ [][Next]_vars

(* Both programs go on running, and a blocked read() ends within VTIME, by *)
(* a frame or by nothing.  Failing calls, losses and damage are not fair:  *)
(* they may never happen.                                                  *)
FairSpec == /\ Spec
            /\ WF_vars(SenderRuns /\ UNCHANGED rcvVars)
            /\ WF_vars(ReceiverRuns /\ UNCHANGED sndVars)

(***************************************************************************)
(* Type invariant.                                                         *)
(***************************************************************************)
TypeOK == LineTypeOK /\ SenderTypeOK /\ ReceiverTypeOK

(***************************************************************************)
(* Safety.                                                                 *)
(***************************************************************************)
(* Packets main has taken, packets llread has acknowledged, and those the  *)
(* sender was told of.                                                     *)
Unsized   == {"start", "llopen", "size", "sizeAcked", "failed"}
Stored    == IF rpc \in Unsized THEN 0 ELSE 1 + Len(received)
Delivered == Stored + (IF rpc \in Acknowledged THEN 1 ELSE 0)
Confirmed == IF spc = "done" THEN NumChunks + 1 ELSE pkt

(* The receiver's buffer holds the first chunks of the file, each once and *)
(* in order, and the packet acknowledged last is the next: no late,        *)
(* repeated or damaged frame of an earlier packet, and not the size packet *)
(* either, is taken for a piece of the file (the totals and memcpy of the  *)
(* second loop of the receiver's main).                                    *)
ReceivedInOrder == /\ \A i \in 1..Len(received) : received[i] = i
                   /\ rpc = "chunkAcked" => frameData = Len(received) + 1

(* The sender leaves a packet only if the receiver has accepted it, and    *)
(* the receiver accepts none before the sender has left the previous one:  *)
(* neither the UA of the handshake, nor a stale acknowledgment, nor the    *)
(* "NACK" of a damaged frame releases a packet that was not delivered.     *)
AcknowledgedIsDelivered == Confirmed <= Delivered /\ Delivered <= Confirmed + 1

(* The bytes of the file in the packet that main has still to take.        *)
InHand == IF rpc = "chunkAcked" THEN Payload(frameData) ELSE 0

(* When the sender's main returns 0, the receiver has left its loops with  *)
(* every byte that was announced, or has the last packet still in hand:    *)
(* llread acknowledges before main takes what there is to take.            *)
SuccessMeansComplete ==
    spc = "done" => /\ rpc \in Acknowledged \cup {"saving", "saved", "unsaved"}
                    /\ totalReceived + InHand = Announced

(* A file longer than the receiver's buffer, though not longer than the    *)
(* sender's, is cut by the receiver; the sender is then never left with    *)
(* the belief that it was transferred.                                     *)
OversizeIsNotReportedSent == Announced > RcvMaxSize => spc # "done"

(* No more frames and answers are on the line, the two inputs included,    *)
(* than one for every attempt of a packet and one for every repeated       *)
(* attempt of the packet before.                                           *)
BacklogBounded == Len(t2r) + Len(r2t) <= 2 * MaxRetries - 1

(***************************************************************************)
(* The inductive invariant.  Either the handshake is not over, with at     *)
(* most one frame on the whole line, or the two programs are in step:      *)
(* what each direction may hold depends on whether packet pkt has been     *)
(* delivered already.                                                      *)
(***************************************************************************)
Parity(n) == n % 2

Handshake == /\ spc \in {"start", "llopen", "failed"} /\ pkt = 0
             /\ rpc \in {"start", "llopen", "size", "failed"}
             /\ \/ t2r = << >> /\ r2t = << >> /\ (spc = "start" => rpc # "size")
                \/ t2r = <<SetFrame>> /\ r2t = << >> /\ spc # "start" /\ rpc # "size"
                \/ t2r = << >> /\ r2t = <<C_UA>> /\ spc # "start"
                   /\ rpc \in {"size", "failed"}

(* Packet pkt is not delivered: the frames on the line are of it or of the *)
(* one before, in that order, and no acknowledgment of it exists.          *)
Outstanding == /\ Delivered = pkt
               /\ \A i \in 1..Len(t2r) : t2r[i].pkt \in {pkt, pkt - 1}
               /\ \A i, j \in 1..Len(t2r) : i <= j => t2r[i].pkt <= t2r[j].pkt
               /\ \A i \in 1..Len(r2t) : r2t[i] # AckCtrl(seq)

(* Packet pkt is delivered: only copies of it are on the line, and once an *)
(* acknowledgment of it has been sent all the following ones are of it.    *)
Released == /\ Delivered = pkt + 1
            /\ \A i \in 1..Len(t2r) : t2r[i].pkt = pkt
            /\ \A i, j \in 1..Len(r2t) :
                  i <= j /\ r2t[i] = AckCtrl(seq) => r2t[j] = AckCtrl(seq)

Transfer == /\ spc \notin {"start", "llopen"}
            /\ rpc \notin {"start", "llopen"}
            /\ \A i \in 1..Len(t2r) : t2r[i].ctrl = Parity(t2r[i].pkt)
            /\ Outstanding \/ Released
            /\ spc = "done" => Delivered = pkt + 1 /\ pkt = NumChunks

(* A program that is still trying has attempts or idle reads left. *)
Trying == rpc \in {"start", "llopen", "size", "chunks"} \cup Acknowledged
Counters == /\ spc # "failed" => attempts < MaxRetries
            /\ Trying => idleCount < MaxIdle

Bits == seq = Parity(pkt) /\ expectedSeq = Parity(Stored)

Wanted == Truncate(Announced, RcvMaxSize)

(* What the receiver's main has counted, in bytes and in chunks.           *)
Sizes == /\ rpc \in Unsized => received = << >>
         /\ rpc = "sizeAcked" => frameData = 0
         /\ rpc \notin Unsized => fileSize = Wanted
         /\ totalReceived = Smaller(Len(received) * ChunkSize, Wanted)
         /\ rpc \in {"chunks", "chunkAcked"} => totalReceived < Wanted
         /\ Len(received) <= ChunksOf(Wanted)

LinkInv == Counters /\ Bits /\ Sizes /\ ReceivedInOrder /\ (Handshake \/ Transfer)

(* How often the packet in progress has been transmitted, at most: the     *)
(* write of a counted attempt may have failed.                             *)
Transmissions == attempts + (IF spc \in {"waitAck", "done"} THEN 1 ELSE 0)

(* Each frame on the line, and each answer, stands for a transmission:     *)
(* those of packet pkt come after what was left of the one before, and     *)
(* once it is delivered one of them has become its acknowledgment.  So     *)
(* what is still there when the next packet starts is less than            *)
(* MaxRetries.                                                             *)
Copies == /\ Len(t2r) + Len(r2t) < Transmissions + MaxRetries
          /\ \A i \in 1..Len(t2r) : t2r[i].pkt = pkt => Len(t2r) - i < Transmissions
          /\ Delivered # pkt =>
                /\ Len(t2r) < Transmissions
                /\ \A j \in 1..Len(r2t) :
                      r2t[j] = AckCtrl(seq) => Len(t2r) + Len(r2t) - j < Transmissions

(* The SET and its UA are not among them: they have gone before the first  *)
(* packet is sent.                                                         *)
TransferInv == LinkInv /\ (Handshake \/ Copies)

(***************************************************************************)
(* The programs implement FileTransfer.                                    *)
(***************************************************************************)
SenderOutcome == CASE spc = "done"   -> "ok"
                   [] spc = "failed" -> "failed"
                   [] OTHER          -> "active"

ReceiverOutcome == IF rpc \in {"saved", "unsaved", "failed"} THEN rpc ELSE "active"

FT == INSTANCE FileTransfer WITH
        Chunks    <- NumChunks,
        Accepted  <- ChunksOf(RcvMaxSize),
        sizeKnown <- rpc \notin Unsized \/ rpc = "sizeAcked",
        file      <- IF rpc = "chunkAcked" THEN Append(received, frameData) ELSE received,
        confirmed <- Confirmed,
        sender    <- SenderOutcome,
        receiver  <- ReceiverOutcome

(* Every step of the two programs and of the line is a step of the abstract *)
(* transfer or changes nothing it shows.                                    *)
ImplementsFileTransfer == FT!Spec

(***************************************************************************)
(* Liveness, under FairSpec.                                               *)
(***************************************************************************)
(* Whatever the line loses, neither program runs for ever: the sender runs *)
(* out of attempts and the receiver out of idle reads.                     *)
SenderReturns   == <>(spc \in {"done", "failed"})
ReceiverReturns == <>(rpc \in {"saved", "unsaved", "failed"})
=============================================================================
