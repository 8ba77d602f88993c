---------------------------- MODULE FileTransfer ----------------------------
(***************************************************************************)
(* What the two programs of Projeto1 promise together, whatever the line   *)
(* does: the receiver's file grows by exactly the next chunk, the sender   *)
(* learns of a packet only after it was delivered and before the following *)
(* one is, and it reports success only when every packet was.  Either      *)
(* program may give up; nothing promises that the transfer completes, nor  *)
(* that the sender ever learns that it did.                                *)
(*                                                                         *)
(*   sizeKnown  the receiver has been told the size of the file            *)
(*   file       the chunks the receiver has accepted, by number            *)
(*   confirmed  packets the sender knows to be delivered; the size is one  *)
(*   sender     "active", "ok" (returned 0) or "failed" (returned 1)       *)
(*   receiver   "active", "saved", "unsaved" or "failed"                   *)
(***************************************************************************)
EXTENDS Naturals, Sequences

CONSTANTS Chunks,   \* the chunks the sender announces and means to send
          Accepted  \* the chunks the receiver has room for

VARIABLES sizeKnown, file, confirmed, sender, receiver
ftVars == <<sizeKnown, file, confirmed, sender, receiver>>

Delivered == IF sizeKnown THEN Len(file) + 1 ELSE 0

Init == /\ ~sizeKnown /\ file = << >> /\ confirmed = 0
        /\ sender = "active" /\ receiver = "active"

(* A packet is delivered: the size, or the next chunk.  All earlier ones   *)
(* are confirmed by then, or none could be outstanding.                    *)
DeliverSize == /\ ~sizeKnown
               /\ sizeKnown' = TRUE
               /\ UNCHANGED file

DeliverChunk == /\ sizeKnown /\ Len(file) < Chunks /\ Len(file) < Accepted
                /\ file' = Append(file, Len(file) + 1)
                /\ UNCHANGED sizeKnown

Deliver == /\ receiver = "active"
           /\ confirmed = Delivered
           /\ DeliverSize \/ DeliverChunk
           /\ UNCHANGED <<confirmed, sender, receiver>>

(* The sender learns of the delivery; the last one is its success.         *)
Confirm == /\ sender = "active"
           /\ confirmed < Delivered
           /\ confirmed' = confirmed + 1
           /\ sender' = IF confirmed' = Chunks + 1 THEN "ok" ELSE "active"
           /\ UNCHANGED <<sizeKnown, file, receiver>>

SenderFails == /\ sender = "active"
               /\ sender' = "failed"
               /\ UNCHANGED <<sizeKnown, file, confirmed, receiver>>

(* The receiver fails only before it knows the size; afterwards it keeps   *)
(* what it has and returns 0.                                              *)
ReceiverEnds == /\ receiver = "active"
                /\ receiver' \in IF sizeKnown THEN {"saved", "unsaved"} ELSE {"failed"}
                /\ UNCHANGED <<sizeKnown, file, confirmed, sender>>

Next == Deliver \/ Confirm \/ SenderFails \/ ReceiverEnds

Spec == Init /\ [][Next]_ftVars
=============================================================================
