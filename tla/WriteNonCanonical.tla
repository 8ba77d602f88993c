------------------------- MODULE WriteNonCanonical --------------------------
(***************************************************************************)
(* The sender, write_noncanonical.c: llopen, llwrite, llclose and the      *)
(* retry loops of main.  spc is the place in the program:                  *)
(*                                                                         *)
(*   start    before llopen                                                *)
(*   llopen   SET is on the line, reading for UA                           *)
(*   fopen    llopen has returned, the file is not read yet                *)
(*   llwrite  about to transmit packet pkt (again)                         *)
(*   waitAck  packet pkt is on the line, reading for its acknowledgment    *)
(*   done     main has returned 0                                          *)
(*   failed   main has returned 1                                          *)
(*                                                                         *)
(* A read() that times out may do so at any moment: the scheduler may hold *)
(* either program, and the line may hold a frame, for longer than VTIME.   *)
(***************************************************************************)
EXTENDS SerialLine

CONSTANT MaxRetries  \* MAX_RETRIES
ASSUME SenderAssumption == MaxRetries \in Nat \ {0}

VARIABLES spc, pkt, seq, attempts
sndVars == <<spc, pkt, seq, attempts>>

SenderPlaces == {"start", "llopen", "fopen", "llwrite", "waitAck", "done", "failed"}

SenderTypeOK == /\ spc \in SenderPlaces
                /\ pkt \in 0..NumChunks
                /\ seq \in {0, 1}
                /\ attempts \in 0..MaxRetries

SenderInit == spc = "start" /\ pkt = 0 /\ seq = 0 /\ attempts = 0

(* llopen up to its read loop.  tcflush finds an empty line: nobody        *)
(* transmits towards a sender that has not started.                        *)
S_SendSet == /\ spc = "start"
             /\ spc' = "llopen"
             /\ t2r' = Append(t2r, SetFrame)
             /\ UNCHANGED <<pkt, seq, attempts, r2t>>

(* open, tcgetattr, tcsetattr or the write of SET fails, or fopen does:    *)
(* main returns 1, in the last case with a receiver that waits for a size. *)
S_OpenFails == /\ spc \in {"start", "fopen"}
               /\ spc' = "failed"
               /\ UNCHANGED <<pkt, seq, attempts, line>>

(* No UA within VTIME.  SET is not tried again: main returns 1.            *)
S_OpeningWaitsForEver ==  \* mutant: the loop goes on after an empty read
                        spc = "llopen" /\ UNCHANGED <<sndVars, line>>

S_OpeningTimesOut == /\ spc = "llopen"
                     /\ spc' = "failed"
                     /\ UNCHANGED <<pkt, seq, attempts, line>>

(* The read loop of llopen accepts UA. *)
S_ReceivesUA == /\ spc = "llopen"
                /\ r2t # << >> /\ Head(r2t) = C_UA
                /\ spc' = "fopen"
                /\ r2t' = Tail(r2t)
                /\ UNCHANGED <<pkt, seq, attempts, t2r>>

(* The file is read and its size becomes packet 0. *)
S_ReadsFile == /\ spc = "fopen"
               /\ spc' = "llwrite"
               /\ UNCHANGED <<pkt, seq, attempts, line>>

(* llwrite transmits the packet. *)
S_Transmits == /\ spc = "llwrite"
               /\ spc' = "waitAck"
               /\ t2r' = Append(t2r, IFrame(seq, pkt))
               /\ UNCHANGED <<pkt, seq, attempts, r2t>>

(* The body of main once llwrite has returned 0: the next chunk, with the  *)
(* sequence bit toggled and the attempts reset, or the end.                *)
NextPacketSameBit ==  \* mutant: seq ^= 1 is missing
              IF pkt = NumChunks
              THEN spc' = "done" /\ UNCHANGED <<pkt, seq, attempts>>
              ELSE spc' = "llwrite" /\ pkt' = pkt + 1 /\ attempts' = 0 /\ UNCHANGED seq

NextPacket == IF pkt = NumChunks
              THEN spc' = "done" /\ UNCHANGED <<pkt, seq, attempts>>
              ELSE /\ spc' = "llwrite"
                   /\ pkt' = pkt + 1
                   /\ seq' = Toggle(seq)
                   /\ attempts' = 0

(* The automaton of llwrite accepts exactly C_UA ^ ctrl. *)
S_ReceivesAnyAck ==  \* mutant: any supervision frame is an acknowledgment
                 /\ spc = "waitAck"
                 /\ r2t # << >>
                 /\ NextPacket
                 /\ r2t' = Tail(r2t)
                 /\ UNCHANGED t2r

S_ReceivesAck == /\ spc = "waitAck"
                 /\ r2t # << >> /\ Head(r2t) = AckCtrl(seq)
                 /\ NextPacket
                 /\ r2t' = Tail(r2t)
                 /\ UNCHANGED t2r

(* Any other supervision frame is read over, the loop goes on. *)
S_IgnoresAck == /\ spc = "waitAck"
                /\ r2t # << >> /\ Head(r2t) # AckCtrl(seq)
                /\ r2t' = Tail(r2t)
                /\ UNCHANGED <<sndVars, t2r>>

(* llwrite has returned -1: main counts the attempt, sleeps a second and   *)
(* tries again, or gives up.                                               *)
AttemptFailsOnceMore ==  \* mutant: the loop runs MAX_RETRIES + 1 times
                /\ attempts' = attempts + 1
                /\ spc' = IF attempts' > MaxRetries THEN "failed" ELSE "llwrite"
                /\ UNCHANGED <<pkt, seq, line>>

AttemptFails == /\ attempts' = attempts + 1
                /\ spc' = IF attempts' = MaxRetries THEN "failed" ELSE "llwrite"
                /\ UNCHANGED <<pkt, seq, line>>

(* No acknowledgment within VTIME, or read() fails. *)
S_TimesOut == spc = "waitAck" /\ AttemptFails

(* write() fails; nothing has gone out. *)
S_WriteFails == spc = "llwrite" /\ AttemptFails

(* What the sender does by itself, and the calls that may fail on it.      *)
SenderRuns   == \/ S_SendSet
                \/ S_OpeningTimesOut
                \/ S_ReceivesUA
                \/ S_ReadsFile
                \/ S_Transmits
                \/ S_ReceivesAck
                \/ S_IgnoresAck
                \/ S_TimesOut
SenderFaults == S_OpenFails \/ S_WriteFails

SenderNext == SenderRuns \/ SenderFaults
=============================================================================
