-------------------------- MODULE ReadNonCanonical --------------------------
(***************************************************************************)
(* The receiver, read_noncanonical.c: llopen, llread, llclose and main.    *)
(* rpc is the place in the program:                                        *)
(*                                                                         *)
(*   start       before llopen                                             *)
(*   llopen      the port is open, reading for SET                         *)
(*   size        first loop of main: llread for the file size              *)
(*   sizeAcked   llread has acknowledged a packet of the first loop        *)
(*   chunks      second loop of main: llread for the chunks                *)
(*   chunkAcked  llread has acknowledged a packet of the second loop       *)
(*   saving      past the loops, about to write recebido.gif               *)
(*   saved       main has returned 0, recebido.gif holds what was received *)
(*   unsaved     main has returned 0, recebido.gif could not be opened     *)
(*   failed      main has returned 1                                       *)
(***************************************************************************)
EXTENDS SerialLine

CONSTANTS RcvMaxSize,  \* MAX_FILE_SIZE of the receiver
          MaxIdle      \* MAX_IDLE_READS

(* The buffer of the receiver is cut between two chunks: 100000 bytes are  *)
(* 25000 chunks of 4.                                                      *)
ASSUME ReceiverAssumption == /\ RcvMaxSize \in Nat /\ MaxIdle \in Nat \ {0}
                             /\ RcvMaxSize % ChunkSize = 0

VARIABLES rpc, expectedSeq, idleCount,
          frameData,      \* the packet that llread acknowledged last
          fileSize,
          totalReceived,  \* the bytes of receivedData that are filled
          received        \* the packets they are from
rcvVars == <<rpc, expectedSeq, idleCount, frameData, fileSize, totalReceived, received>>

Acknowledged   == {"sizeAcked", "chunkAcked"}
ReceiverPlaces == Acknowledged \cup {"start", "llopen", "size", "chunks", "saving",
                                     "saved", "unsaved", "failed"}

ReceiverTypeOK == /\ rpc \in ReceiverPlaces
                  /\ expectedSeq \in {0, 1}
                  /\ idleCount \in 0..MaxIdle
                  /\ {frameData, fileSize, totalReceived} \subseteq Nat
                  /\ received \in Seq(Nat)

ReceiverInit == /\ rpc = "start" /\ expectedSeq = 0 /\ idleCount = 0
                /\ frameData = 0 /\ fileSize = 0 /\ totalReceived = 0 /\ received = << >>

(* What main knows of the transfer, and what llread keeps for it.          *)
mainVars == <<fileSize, totalReceived, received>>
kept     == <<expectedSeq, frameData, mainVars>>

(* llopen up to its read loop: tcflush throws away what has arrived by     *)
(* then, which is any part of what is on the line.                         *)
R_OpensPort == /\ rpc = "start"
               /\ rpc' = "llopen"
               /\ \E arrived \in 0..Len(t2r) :
                     t2r' = SubSeq(t2r, arrived + 1, Len(t2r))
               /\ UNCHANGED <<idleCount, kept, r2t>>

(* open, tcgetattr or tcsetattr fails.                                     *)
R_OpenFails == /\ rpc = "start"
               /\ rpc' = "failed"
               /\ UNCHANGED <<idleCount, kept, line>>

(* No SET within VTIME, or the write of UA fails.                          *)
R_OpeningTimesOut == /\ rpc = "llopen"
                     /\ rpc' = "failed"
                     /\ UNCHANGED <<idleCount, kept, line>>

(* llopen accepts SET and answers UA; main starts its first loop.          *)
R_ReceivesSet == /\ rpc = "llopen"
                 /\ t2r # << >> /\ Head(t2r).ctrl = C_SET
                 /\ rpc' = "size"
                 /\ t2r' = Tail(t2r)
                 /\ r2t' = Append(r2t, C_UA)
                 /\ UNCHANGED <<idleCount, kept>>

Reading == rpc \in {"size", "chunks"}

(* The control bytes llread answers with: the sequence number of the frame *)
(* that came, or, for a damaged frame, the one that is not expected.       *)
EchoNext(frame) == AckCtrl(Toggle(frame.ctrl))  \* mutant: the number awaited next
Echo(frame) == AckCtrl(frame.ctrl)

NackExpected == AckCtrl(expectedSeq)  \* mutant: ^ 1 is missing
Nack == AckCtrl(Toggle(expectedSeq))

(* llread has taken the head of the line and answers it with ctrl.         *)
AnswersKeepingIdle(ctrl) == \* mutant: idleCount = 0 is missing
                 t2r' = Tail(t2r) /\ r2t' = Append(r2t, ctrl) /\ UNCHANGED idleCount
Answers(ctrl) == /\ t2r' = Tail(t2r)
                 /\ r2t' = Append(r2t, ctrl)
                 /\ idleCount' = 0

(* llread: BCC2 is right and the sequence number is the expected one.  The *)
(* acknowledgment goes out before anything is made of the packet.          *)
R_AcknowledgesAnyBit == /\ Reading  \* mutant: the sequence number is not compared
                        /\ t2r # << >> /\ Head(t2r).ctrl # C_SET
                        /\ Answers(Echo(Head(t2r)))
                        /\ frameData' = Head(t2r).pkt
                        /\ rpc' = IF rpc = "size" THEN "sizeAcked" ELSE "chunkAcked"
                        /\ UNCHANGED <<expectedSeq, mainVars>>

R_Acknowledges == /\ Reading
                  /\ t2r # << >> /\ Head(t2r).ctrl = expectedSeq
                  /\ Answers(Echo(Head(t2r)))
                  /\ frameData' = Head(t2r).pkt
                  /\ rpc' = IF rpc = "size" THEN "sizeAcked" ELSE "chunkAcked"
                  /\ UNCHANGED <<expectedSeq, mainVars>>

(* The two loops of main end when they hold as much as was announced, or   *)
(* as the receiver's buffer takes.                                         *)
LoopOrSaveLate(size, got) == IF got <= size THEN "chunks" ELSE "saving" \* mutant
LoopOrSave(size, got) == IF got < size THEN "chunks" ELSE "saving"

(* main, once llread has returned the payload of packet p.  In the first   *)
(* loop a payload shorter than a long is an error.  In the second loop     *)
(* whatever has come is the next piece of the file, as far as it fits.     *)
TakesSizeUncut(p) == /\ rpc = "sizeAcked"  \* mutant: MAX_FILE_SIZE is not applied
                     /\ fileSize' = Announced
                     /\ rpc' = LoopOrSave(fileSize', totalReceived)
                     /\ UNCHANGED <<totalReceived, received>>

TakesSize(p) == /\ rpc = "sizeAcked"
                /\ IF Payload(p) < SizeOfLong
                   THEN rpc' = "failed" /\ UNCHANGED fileSize
                   ELSE /\ fileSize' = Truncate(Announced, RcvMaxSize)
                        /\ rpc' = LoopOrSave(fileSize', totalReceived)
                /\ UNCHANGED <<totalReceived, received>>

TakesChunk(p) == /\ rpc = "chunkAcked"
                 /\ totalReceived' = totalReceived + Smaller(Payload(p), fileSize - totalReceived)
                 /\ received' = Append(received, p)
                 /\ rpc' = LoopOrSave(fileSize, totalReceived')
                 /\ UNCHANGED fileSize

(* llread toggles the number it expects and returns, and main takes what   *)
(* it returns: memory of the process only, so nobody sees one of the two   *)
(* without the other.                                                      *)
R_Takes == /\ expectedSeq' = Toggle(expectedSeq)
           /\ TakesSize(frameData) \/ TakesChunk(frameData)
           /\ UNCHANGED <<idleCount, frameData, line>>

(* llread: BCC2 is right, the sequence number is not the expected one.     *)
R_AnswersDuplicate == /\ Reading
                      /\ t2r # << >> /\ Head(t2r).ctrl = Toggle(expectedSeq)
                      /\ Answers(Echo(Head(t2r)))
                      /\ UNCHANGED <<rpc, kept>>

(* llread: the data field was damaged on the line and BCC2 shows it.  The  *)
(* "NACK" acknowledges the other sequence number, whichever came.          *)
R_RejectsDamaged == /\ Reading
                    /\ t2r # << >> /\ Head(t2r).ctrl # C_SET
                    /\ Answers(Nack)
                    /\ UNCHANGED <<rpc, kept>>

(* llread reads over a frame without a data field, or one whose header was *)
(* damaged on the line; its bytes still reset the idle count.              *)
R_AnswersSetAgain == \* mutant: llread answers SET, as llopen does
               /\ Reading
               /\ t2r # << >>
               /\ t2r' = Tail(t2r)
               /\ r2t' = IF Head(t2r).ctrl = C_SET THEN Append(r2t, C_UA) ELSE r2t
               /\ idleCount' = 0
               /\ UNCHANGED <<rpc, kept>>
R_ReadsOver == /\ Reading
               /\ t2r # << >>
               /\ t2r' = Tail(t2r)
               /\ idleCount' = 0
               /\ UNCHANGED <<rpc, kept, r2t>>

(* llread returns -1: no size is a failure, a missing chunk only ends the  *)
(* second loop and what there is will be saved.                            *)
Abandons == rpc' = IF rpc = "size" THEN "failed" ELSE "saving"

(* read() times out; after MAX_IDLE_READS in a row llread gives up.        *)
R_ReadsNothingOnceMore ==  \* mutant: > for >=
                  /\ Reading
                  /\ idleCount' = idleCount + 1
                  /\ IF idleCount' > MaxIdle THEN Abandons ELSE UNCHANGED rpc
                  /\ UNCHANGED <<kept, line>>

R_ReadsNothingForEver ==  \* mutant: the idle reads are not counted
                  Reading /\ UNCHANGED <<rcvVars, line>>

R_ReadsNothing == /\ Reading
                  /\ idleCount' = idleCount + 1
                  /\ IF idleCount' >= MaxIdle THEN Abandons ELSE UNCHANGED rpc
                  /\ UNCHANGED <<kept, line>>

(* read() fails, or the frame is taken and the write of its answer fails:  *)
(* llread returns -1 before it has accepted anything.                      *)
R_ReadFails == /\ Reading
               /\ Abandons
               /\ UNCHANGED <<idleCount, kept, line>>

(* The end of main: fopen and fwrite of recebido.gif, or perror; the port  *)
(* is closed and main returns 0 either way.                                *)
R_SavesFile == /\ rpc = "saving"
               /\ rpc' \in {"saved", "unsaved"}
               /\ UNCHANGED <<idleCount, kept, line>>

(* What the receiver does by itself, and what the line and the system      *)
(* calls do to it.                                                         *)
ReceiverRuns   == \/ R_OpensPort
                  \/ R_OpeningTimesOut
                  \/ R_ReceivesSet
                  \/ R_Acknowledges
                  \/ R_Takes
                  \/ R_AnswersDuplicate
                  \/ R_ReadsNothing
                  \/ R_SavesFile
ReceiverFaults == \/ R_OpenFails
                  \/ R_RejectsDamaged
                  \/ R_ReadsOver
                  \/ R_ReadFails

ReceiverNext == ReceiverRuns \/ ReceiverFaults
=============================================================================
