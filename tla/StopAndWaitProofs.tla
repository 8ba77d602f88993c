------------------------- MODULE StopAndWaitProofs --------------------------
(***************************************************************************)
(* Proofs about StopAndWait, for every file, every pair of buffer sizes    *)
(* and every number of retries and idle reads.                             *)
(***************************************************************************)
EXTENDS StopAndWait, SequenceTheorems, TLAPS

(* Tuples of variables and sets of places are expanded everywhere. *)
USE DEF mainVars, kept, Acknowledged, Unsized

(* Dropping the head of a frame queue shifts it by one. *)
LEMMA TailShifts ==
    ASSUME NEW S, NEW q \in Seq(S), q # << >>
    PROVE  /\ Head(q) \in S /\ Head(q) = q[1] /\ Len(q) \in Nat /\ Len(q) >= 1
           /\ Tail(q) \in Seq(S) /\ Len(Tail(q)) = Len(q) - 1
           /\ \A i \in 1..Len(Tail(q)) : i + 1 \in 1..Len(q) /\ Tail(q)[i] = q[i + 1]
  BY HeadTailProperties, LenProperties, EmptySeq

(* Appending leaves the old elements in place. *)
LEMMA AppendExtends ==
    ASSUME NEW S, NEW q \in Seq(S), NEW e \in S
    PROVE  /\ Append(q, e) \in Seq(S) /\ Len(q) \in Nat
           /\ Len(Append(q, e)) = Len(q) + 1
           /\ Append(q, e)[Len(q) + 1] = e
           /\ \A i \in 1..Len(q) : Append(q, e)[i] = q[i]
  BY AppendProperties, LenProperties

(* Sequence bits alternate with the packet numbers. *)
LEMMA ParityAlternates ==
    ASSUME NEW n \in Nat
    PROVE  /\ Parity(n) \in {0, 1} /\ Parity(0) = 0
           /\ Parity(n + 1) = Toggle(Parity(n))
           /\ n > 0 => Parity(n - 1) = Toggle(Parity(n))
  BY DEF Parity, Toggle

(* The two control bytes differ, and both are control bytes of the line. *)
LEMMA AcksDiffer ==
    ASSUME NEW b \in {0, 1}
    PROVE  /\ Toggle(b) \in {0, 1} /\ Toggle(Toggle(b)) = b /\ Toggle(b) # b
           /\ AckCtrl(b) \in {AckCtrl(0), AckCtrl(1)}
           /\ AckCtrl(Toggle(b)) # AckCtrl(b)
           /\ AckCtrl(0) = C_UA /\ b # C_SET
  BY DEF AckCtrl, Toggle, C_UA, C_SET

(* Rounding up: a chunk is needed as long as there are bytes left for it.  *)
LEMMA RoundedUp ==
    ASSUME NEW s \in Nat, NEW c \in Nat \ {0}, NEW n \in Nat
    PROVE  /\ (s + c - 1) \div c \in Nat
           /\ n < (s + c - 1) \div c <=> n * c < s
  OBVIOUS

LEMMA WholeChunks ==
    ASSUME NEW s \in Nat
    PROVE  \A c \in {1, 2, 3, 4, 5, 6, 7} : s % c = 0 => ((s + c - 1) \div c) * c = s
  OBVIOUS

LEMMA ChunkCounts ==
    ASSUME NEW s \in Nat
    PROVE  /\ ChunksOf(s) \in Nat
           /\ \A n \in Nat : n < ChunksOf(s) <=> n * ChunkSize < s
           /\ s % ChunkSize = 0 => ChunksOf(s) * ChunkSize = s
<1>1. ChunkSize \in Nat \ {0} /\ ChunkSize \in {1, 2, 3, 4, 5, 6, 7}
  BY FileAssumption DEF SizeOfLong
<1>2. ChunksOf(s) \in Nat
  BY <1>1, RoundedUp DEF ChunksOf
<1>3. ASSUME NEW n \in Nat
      PROVE  n < ChunksOf(s) <=> n * ChunkSize < s
  BY <1>1, RoundedUp DEF ChunksOf
<1>4. s % ChunkSize = 0 => ChunksOf(s) * ChunkSize = s
  BY <1>1, WholeChunks DEF ChunksOf
<1> QED BY <1>2, <1>3, <1>4

LEMMA SizesAreNat ==
    /\ ChunkSize \in Nat \ {0} /\ ChunkSize < SizeOfLong /\ RcvMaxSize \in Nat
    /\ Announced \in Nat /\ NumChunks \in Nat
    /\ Wanted \in Nat /\ Wanted <= Announced /\ Wanted <= RcvMaxSize
    /\ MaxRetries \in Nat \ {0} /\ MaxIdle \in Nat \ {0}
<1>1. Announced \in Nat
  BY FileAssumption DEF Announced, Truncate
<1> QED BY <1>1, ChunkCounts, FileAssumption, ReceiverAssumption, SenderAssumption
        DEF NumChunks, Wanted, Truncate, SizeOfLong

(* What Stored and Delivered come to at each place of the receiver.        *)
LEMMA PlacesCount ==
    ASSUME received \in Seq(Nat)
    PROVE  /\ Len(received) \in Nat /\ Stored \in Nat /\ Delivered \in Nat
           /\ rpc \in Unsized => Stored = 0
           /\ rpc \notin Unsized => Stored = 1 + Len(received)
           /\ rpc \in Acknowledged => Delivered = Stored + 1
           /\ rpc \notin Acknowledged => Delivered = Stored
<1>1. Len(received) \in Nat
  BY LenProperties
<1>2. /\ Stored \in Nat
      /\ rpc \in Unsized => Stored = 0
      /\ rpc \notin Unsized => Stored = 1 + Len(received)
  <2>1. CASE rpc \in Unsized
    BY <2>1 DEF Stored
  <2>2. CASE rpc \notin Unsized
    BY <1>1, <2>2 DEF Stored
  <2> QED BY <2>1, <2>2
<1>3. CASE rpc \in Acknowledged
  BY <1>1, <1>2, <1>3 DEF Delivered
<1>4. CASE rpc \notin Acknowledged
  BY <1>1, <1>2, <1>4 DEF Delivered
<1> QED BY <1>1, <1>2, <1>3, <1>4

(***************************************************************************)
(* Types.                                                                  *)
(***************************************************************************)
LEMMA FramesAreTyped ==
    /\ SetFrame \in Frame
    /\ \A b \in {0, 1}, p \in Nat : IFrame(b, p) \in Frame
    /\ \A b \in {0, 1} : AckCtrl(b) \in {AckCtrl(0), AckCtrl(1)}
    /\ C_UA \in {AckCtrl(0), AckCtrl(1)}
  BY AcksDiffer DEF SetFrame, IFrame, Frame

LEMMA InitTyped == Init => TypeOK
  BY SizesAreNat, EmptySeq
  DEF Init, TypeOK, LineInit, SenderInit, ReceiverInit, LineTypeOK, SenderTypeOK,
      ReceiverTypeOK, SenderPlaces, ReceiverPlaces

LEMMA SenderTyped ==
    ASSUME TypeOK, Counters, Sender
    PROVE  TypeOK'
<1> USE DEF TypeOK, SenderTypeOK, SenderPlaces
<1>0. UNCHANGED rcvVars /\ ReceiverTypeOK'
  BY DEF Sender, rcvVars, ReceiverTypeOK
<1>1. CASE S_SendSet
  BY <1>0, <1>1, FramesAreTyped, AppendExtends DEF S_SendSet, LineTypeOK
<1>2. CASE S_OpeningTimesOut
  BY <1>0, <1>2 DEF S_OpeningTimesOut, LineTypeOK, line
<1>3. CASE S_ReceivesUA
  BY <1>0, <1>3, TailShifts DEF S_ReceivesUA, LineTypeOK
<1>4. CASE S_ReadsFile
  BY <1>0, <1>4 DEF S_ReadsFile, LineTypeOK, line
<1>5. CASE S_Transmits
  <2>1. pkt \in Nat
    BY SizesAreNat
  <2> QED BY <1>0, <1>5, <2>1, FramesAreTyped, AppendExtends DEF S_Transmits, LineTypeOK
<1>6. CASE S_ReceivesAck
  BY <1>0, <1>6, TailShifts, SizesAreNat, AcksDiffer
  DEF S_ReceivesAck, LineTypeOK, NextPacket
<1>7. CASE S_IgnoresAck
  BY <1>0, <1>7, TailShifts DEF S_IgnoresAck, LineTypeOK, sndVars
<1>8. CASE S_TimesOut \/ S_WriteFails
  BY <1>0, <1>8, SizesAreNat
  DEF S_TimesOut, S_WriteFails, AttemptFails, LineTypeOK, line, Counters, Trying
<1>9. CASE S_OpenFails
  BY <1>0, <1>9 DEF S_OpenFails, LineTypeOK, line
<1> QED
  BY <1>1, <1>2, <1>3, <1>4, <1>5, <1>6, <1>7, <1>8, <1>9
  DEF Sender, SenderNext, SenderRuns, SenderFaults

(* Whatever llread answers, the line stays well typed. *)
LEMMA AnswerTyped ==
    ASSUME LineTypeOK, t2r # << >>, NEW b \in {0, 1}, Answers(AckCtrl(b))
    PROVE  LineTypeOK' /\ Head(t2r).pkt \in Nat /\ idleCount' \in 0..MaxIdle
<1>1. Head(t2r) \in Frame /\ Tail(t2r) \in Seq(Frame)
  BY TailShifts DEF LineTypeOK
<1>2. Append(r2t, AckCtrl(b)) \in Seq({AckCtrl(0), AckCtrl(1)})
  BY AppendExtends, FramesAreTyped DEF LineTypeOK
<1> QED BY <1>1, <1>2, SizesAreNat DEF Answers, LineTypeOK, Frame

(* The piece that main takes: the next one, and never more of it than      *)
(* there is room for.                                                      *)
LEMMA NextPiece ==
    ASSUME TypeOK, Sizes, ReceivedInOrder, rpc = "chunkAcked"
    PROVE  LET n == Len(received)
           IN  /\ n \in Nat /\ frameData = n + 1 /\ fileSize = Wanted
               /\ totalReceived = n * ChunkSize /\ n * ChunkSize < Wanted
               /\ n < ChunksOf(Wanted) /\ n < NumChunks /\ n < ChunksOf(RcvMaxSize)
               /\ totalReceived + Smaller(Payload(frameData), fileSize - totalReceived)
                     = Smaller((n + 1) * ChunkSize, Wanted)
<1> DEFINE n == Len(received)
<1>1. n \in Nat /\ frameData = n + 1 /\ fileSize = Wanted /\ totalReceived < Wanted
  BY LenProperties DEF TypeOK, ReceiverTypeOK, Sizes, ReceivedInOrder
<1>2. PICK b \in Nat : b = n * ChunkSize /\ (n + 1) * ChunkSize = b + ChunkSize
  BY <1>1, SizesAreNat
<1>3. totalReceived = b /\ b < Wanted
  <2>1. totalReceived = Smaller(b, Wanted)
    BY <1>2 DEF Sizes
  <2> QED BY <1>1, <1>2, <2>1, SizesAreNat DEF Smaller
<1>4. n < ChunksOf(Wanted) /\ n < NumChunks /\ n < ChunksOf(RcvMaxSize)
  BY <1>1, <1>2, <1>3, SizesAreNat, ChunkCounts DEF NumChunks
<1>5. Payload(frameData) = Smaller(ChunkSize, Announced - b)
  <2>1. frameData # 0 /\ frameData - 1 = n
    BY <1>1
  <2> QED BY <1>2, <2>1 DEF Payload
<1>6. totalReceived + Smaller(Payload(frameData), fileSize - totalReceived)
        = Smaller(b + ChunkSize, Wanted)
  BY <1>1, <1>2, <1>3, <1>5, SizesAreNat DEF Smaller
<1> QED BY <1>1, <1>2, <1>3, <1>4, <1>6

(* What main has after taking a packet, which is the next in order.        *)
LEMMA TakesNext ==
    ASSUME TypeOK, Sizes, ReceivedInOrder, R_Takes
    PROVE  /\ rpc \in Acknowledged /\ rpc' \in {"chunks", "saving"}
           /\ rpc = "sizeAcked"  => received' = received
           /\ rpc = "chunkAcked" => received' = Append(received, frameData)
           /\ {fileSize, totalReceived}' \subseteq Nat /\ received' \in Seq(Nat)
           /\ Stored' = Stored + 1 /\ Delivered' = Delivered
           /\ Sizes' /\ ReceivedInOrder'
<1> DEFINE n == Len(received)
<1>1. received \in Seq(Nat) /\ n \in Nat /\ {totalReceived, fileSize} \subseteq Nat
  BY LenProperties DEF TypeOK, ReceiverTypeOK
<1>2. CASE TakesSize(frameData)
  <2>1. /\ rpc = "sizeAcked" /\ received = << >> /\ n = 0 /\ frameData = 0
        /\ totalReceived = Smaller(n * ChunkSize, Wanted)
    BY <1>2, EmptySeq DEF TakesSize, Sizes
  <2>2. totalReceived = 0
    BY <2>1, SizesAreNat DEF Smaller
  <2>3. ~(Payload(frameData) < SizeOfLong)
    BY <2>1 DEF Payload, SizeOfLong
  <2>4. /\ fileSize' = Wanted /\ rpc' = LoopOrSave(Wanted, 0)
        /\ totalReceived' = 0 /\ received' = << >>
    BY <1>2, <2>1, <2>2, <2>3 DEF TakesSize, Wanted
  <2>5. /\ rpc' \in {"chunks", "saving"} /\ (rpc' = "chunks" => 0 < Wanted)
    BY <2>4 DEF LoopOrSave
  <2>6. 0 * ChunkSize = 0 /\ Smaller(0, Wanted) = 0 /\ 0 <= ChunksOf(Wanted)
    BY SizesAreNat, ChunkCounts DEF Smaller
  <2>7. Sizes' /\ ReceivedInOrder'
    BY <2>1, <2>4, <2>5, <2>6, SizesAreNat DEF Sizes, ReceivedInOrder, Wanted
  <2> QED BY <1>1, <2>1, <2>4, <2>5, <2>7, SizesAreNat DEF Stored, Delivered
<1>3. CASE TakesChunk(frameData)
  <2>1. rpc = "chunkAcked"
    BY <1>3 DEF TakesChunk
  <2>2. /\ frameData = n + 1 /\ fileSize = Wanted /\ n < ChunksOf(Wanted)
        /\ totalReceived + Smaller(Payload(frameData), fileSize - totalReceived)
              = Smaller((n + 1) * ChunkSize, Wanted)
    BY <2>1, NextPiece
  <2>3. /\ totalReceived' = Smaller((n + 1) * ChunkSize, Wanted)
        /\ received' = Append(received, frameData) /\ fileSize' = Wanted
        /\ rpc' = LoopOrSave(Wanted, totalReceived')
    BY <1>3, <2>2 DEF TakesChunk
  <2>4. frameData \in Nat
    BY DEF TypeOK, ReceiverTypeOK
  <2>5. /\ received' \in Seq(Nat) /\ Len(received') = n + 1
        /\ \A i \in 1..n + 1 : received'[i] = i
    BY <1>1, <2>2, <2>3, <2>4, AppendExtends DEF ReceivedInOrder
  <2>6. /\ rpc' \in {"chunks", "saving"} /\ (rpc' = "chunks" => totalReceived' < Wanted)
    BY <2>3 DEF LoopOrSave
  <2>7. (n + 1) * ChunkSize \in Nat /\ totalReceived' \in Nat
    BY <1>1, <2>3, SizesAreNat DEF Smaller
  <2>8. n + 1 <= ChunksOf(Wanted)
    BY <1>1, <2>2, SizesAreNat, ChunkCounts
  <2>9. Sizes' /\ ReceivedInOrder'
    BY <1>1, <2>3, <2>5, <2>6, <2>8 DEF Sizes, ReceivedInOrder, Wanted
  <2>10. Wanted \in Nat /\ {fileSize, totalReceived}' \subseteq Nat
    BY <2>3, <2>7, SizesAreNat
  <2>11. Stored = 1 + n /\ Delivered = Stored + 1
    BY <1>1, <2>1, PlacesCount
  <2>12. Stored' = 1 + (n + 1)
    BY <2>5, <2>6 DEF Stored
  <2>13. Delivered' = Stored'
    BY <1>1, <2>6, <2>12 DEF Delivered
  <2> QED BY <1>1, <2>1, <2>3, <2>5, <2>6, <2>9, <2>10, <2>11, <2>12, <2>13
<1> QED BY <1>2, <1>3 DEF R_Takes

LEMMA ReceiverTyped ==
    ASSUME TypeOK, Counters, Sizes, ReceivedInOrder, Receiver
    PROVE  TypeOK'
<1> USE DEF TypeOK, ReceiverTypeOK, ReceiverPlaces
<1>0. UNCHANGED sndVars /\ SenderTypeOK'
  BY DEF Receiver, sndVars, SenderTypeOK
<1>1. CASE R_OpensPort
  <2>1. PICK arrived \in 0..Len(t2r) : t2r' = SubSeq(t2r, arrived + 1, Len(t2r))
    BY <1>1 DEF R_OpensPort
  <2>2. t2r' \in Seq(Frame)
    BY <2>1, LenProperties, SubSeqProperties DEF LineTypeOK
  <2> QED BY <1>0, <1>1, <2>2 DEF R_OpensPort, LineTypeOK
<1>2. CASE R_OpenFails \/ R_OpeningTimesOut
  BY <1>0, <1>2 DEF R_OpenFails, R_OpeningTimesOut, LineTypeOK, line
<1>3. CASE R_ReceivesSet
  BY <1>0, <1>3, TailShifts, AppendExtends, FramesAreTyped DEF R_ReceivesSet, LineTypeOK
<1>4. CASE R_Acknowledges
  <2>1. Head(t2r).pkt \in Nat /\ LineTypeOK' /\ idleCount' \in 0..MaxIdle
    BY <1>4, AnswerTyped DEF R_Acknowledges, Echo
  <2> QED BY <1>0, <1>4, <2>1 DEF R_Acknowledges
<1>10. CASE R_Takes
  <2>1. LineTypeOK' /\ UNCHANGED <<idleCount, frameData>> /\ expectedSeq' \in {0, 1}
    BY <1>10, AcksDiffer DEF R_Takes, LineTypeOK, line
  <2> QED BY <1>0, <1>10, <2>1, TakesNext
<1>5. CASE R_AnswersDuplicate \/ R_RejectsDamaged
  <2>1. Toggle(expectedSeq) \in {0, 1}
    BY AcksDiffer
  <2>2. LineTypeOK' /\ idleCount' \in 0..MaxIdle
    BY <1>5, <2>1, AnswerTyped
    DEF R_AnswersDuplicate, R_RejectsDamaged, Echo, Nack
  <2> QED BY <1>0, <1>5, <2>2 DEF R_AnswersDuplicate, R_RejectsDamaged
<1>6. CASE R_ReadsOver
  BY <1>0, <1>6, TailShifts, SizesAreNat DEF R_ReadsOver, LineTypeOK
<1>7. CASE R_ReadsNothing
  BY <1>0, <1>7, SizesAreNat
  DEF R_ReadsNothing, Abandons, Reading, LineTypeOK, line, Counters, Trying
<1>8. CASE R_ReadFails
  BY <1>0, <1>8 DEF R_ReadFails, Abandons, LineTypeOK, line
<1>9. CASE R_SavesFile
  BY <1>0, <1>9 DEF R_SavesFile, LineTypeOK, line
<1> QED
  BY <1>1, <1>2, <1>3, <1>4, <1>5, <1>6, <1>7, <1>8, <1>9, <1>10
  DEF Receiver, ReceiverNext, ReceiverRuns, ReceiverFaults

LEMMA LineTyped ==
    ASSUME TypeOK, Line
    PROVE  TypeOK'
  BY TailShifts
  DEF Line, LoseForward, LoseBackward, TypeOK, LineTypeOK, SenderTypeOK, ReceiverTypeOK,
      sndVars, rcvVars

(***************************************************************************)
(* The inductive invariant.                                                *)
(***************************************************************************)
LEMMA InitLinked == Init => LinkInv
<1> SUFFICES ASSUME Init PROVE LinkInv
  OBVIOUS
<1> USE DEF Init, LineInit, SenderInit, ReceiverInit
<1>1. /\ Len(received) = 0 /\ 0 <= ChunksOf(Wanted)
      /\ Smaller(0 * ChunkSize, Wanted) = 0
  BY EmptySeq, SizesAreNat, ChunkCounts DEF Smaller
<1>2. Counters /\ Sizes /\ Handshake /\ ReceivedInOrder
  BY <1>1, SizesAreNat DEF Counters, Sizes, Handshake, ReceivedInOrder, Trying
<1>3. Bits
  BY ParityAlternates DEF Bits, Delivered, Stored
<1> QED BY <1>2, <1>3 DEF LinkInv

(* Losing, ignoring or skipping the head of either queue keeps the two     *)
(* programs in step, as long as neither moves.                             *)
LEMMA QueuesShrink ==
    ASSUME TypeOK, Transfer, UNCHANGED <<spc, pkt, seq, rpc, received>>,
           t2r' = t2r \/ (t2r # << >> /\ t2r' = Tail(t2r)),
           r2t' = r2t \/ (r2t # << >> /\ r2t' = Tail(r2t))
    PROVE  Transfer'
<1>1. /\ Len(t2r) \in Nat /\ Len(t2r') \in Nat
      /\ Len(r2t) \in Nat /\ Len(r2t') \in Nat
  BY TailShifts, LenProperties DEF TypeOK, LineTypeOK
<1>2. PICK d \in {0, 1} : \A i \in 1..Len(t2r') : i + d \in 1..Len(t2r) /\ t2r'[i] = t2r[i + d]
  <2>1. CASE t2r' = t2r
    <3>1. \A i \in 1..Len(t2r') : i + 0 \in 1..Len(t2r) /\ t2r'[i] = t2r[i + 0]
      BY <1>1, <2>1
    <3> QED BY <3>1
  <2>2. CASE t2r # << >> /\ t2r' = Tail(t2r)
    BY <2>2, TailShifts DEF TypeOK, LineTypeOK
  <2> QED BY <2>1, <2>2
<1>3. PICK e \in {0, 1} : \A i \in 1..Len(r2t') : i + e \in 1..Len(r2t) /\ r2t'[i] = r2t[i + e]
  <2>1. CASE r2t' = r2t
    <3>1. \A i \in 1..Len(r2t') : i + 0 \in 1..Len(r2t) /\ r2t'[i] = r2t[i + 0]
      BY <1>1, <2>1
    <3> QED BY <3>1
  <2>2. CASE r2t # << >> /\ r2t' = Tail(r2t)
    BY <2>2, TailShifts DEF TypeOK, LineTypeOK
  <2> QED BY <2>1, <2>2
<1>4. Delivered' = Delivered
  BY DEF Delivered, Stored
<1>5. ASSUME NEW i \in 1..Len(t2r'), NEW j \in 1..Len(t2r'), i <= j
      PROVE  i + d <= j + d
  BY <1>1, <1>2, <1>5
<1>6. ASSUME NEW i \in 1..Len(r2t'), NEW j \in 1..Len(r2t'), i <= j
      PROVE  i + e <= j + e
  BY <1>1, <1>3, <1>6
<1>7. ASSUME Outstanding PROVE Outstanding'
  <2>1. \A i \in 1..Len(t2r') : t2r'[i].pkt \in {pkt, pkt - 1}
    BY <1>2, <1>7 DEF Outstanding
  <2>2. \A i, j \in 1..Len(t2r') : i <= j => t2r'[i].pkt <= t2r'[j].pkt
    <3> SUFFICES ASSUME NEW i \in 1..Len(t2r'), NEW j \in 1..Len(t2r'), i <= j
                 PROVE  t2r'[i].pkt <= t2r'[j].pkt
      OBVIOUS
    <3> QED BY <1>2, <1>5, <1>7 DEF Outstanding
  <2>3. \A i \in 1..Len(r2t') : r2t'[i] # AckCtrl(seq)
    BY <1>3, <1>7 DEF Outstanding
  <2> QED BY <1>4, <1>7, <2>1, <2>2, <2>3 DEF Outstanding
<1>8. ASSUME Released PROVE Released'
  <2>1. \A i \in 1..Len(t2r') : t2r'[i].pkt = pkt
    BY <1>2, <1>8 DEF Released
  <2>2. \A i, j \in 1..Len(r2t') :
           i <= j /\ r2t'[i] = AckCtrl(seq) => r2t'[j] = AckCtrl(seq)
    <3> SUFFICES ASSUME NEW i \in 1..Len(r2t'), NEW j \in 1..Len(r2t'), i <= j,
                        r2t'[i] = AckCtrl(seq)
                 PROVE  r2t'[j] = AckCtrl(seq)
      OBVIOUS
    <3> QED BY <1>3, <1>6, <1>8 DEF Released
  <2> QED BY <1>4, <1>8, <2>1, <2>2 DEF Released
<1> QED BY <1>2, <1>4, <1>7, <1>8 DEF Transfer

(* A step that leaves the receiver alone keeps what is said of it.         *)
LEMMA SenderKeepsReceiver ==
    ASSUME LinkInv, UNCHANGED rcvVars
    PROVE  /\ Delivered' = Delivered /\ Sizes' /\ ReceivedInOrder'
           /\ expectedSeq' = Parity(Stored')
           /\ Trying' => idleCount' < MaxIdle
  BY DEF LinkInv, Counters, Bits, Sizes, Wanted, ReceivedInOrder, Delivered, Stored, Trying, rcvVars

(* The first transmission: nothing is on the line before the sender starts. *)
LEMMA SendSetLinked ==
    ASSUME TypeOK, LinkInv, S_SendSet, UNCHANGED rcvVars
    PROVE  Handshake'
<1>1. Handshake /\ t2r = << >> /\ r2t = << >> /\ rpc \in {"start", "llopen", "failed"}
  BY DEF S_SendSet, LinkInv, Handshake, Transfer
<1>2. t2r' = <<SetFrame>>
  BY <1>1 DEF S_SendSet
<1> QED BY <1>1, <1>2 DEF S_SendSet, Handshake, rcvVars

(* The handshake ends with an empty line and nothing delivered.            *)
LEMMA ReceivesUALinked ==
    ASSUME TypeOK, LinkInv, S_ReceivesUA, UNCHANGED rcvVars
    PROVE  Transfer'
<1>1. Handshake /\ t2r = << >> /\ r2t = <<C_UA>> /\ rpc \in {"size", "failed"} /\ pkt = 0
  BY DEF S_ReceivesUA, LinkInv, Handshake, Transfer
<1>2. t2r' = << >> /\ r2t' = << >> /\ spc' = "fopen" /\ pkt' = 0 /\ rpc' = rpc
  BY <1>1 DEF S_ReceivesUA, rcvVars
<1>3. Delivered' = 0
  <2>1. rpc' \in {"size", "failed"}
    BY <1>1, <1>2
  <2>2. Stored' = 0
    BY <2>1 DEF Stored
  <2> QED BY <2>1, <2>2 DEF Delivered
<1>4. Len(t2r') = 0 /\ Len(r2t') = 0
  BY <1>2
<1>5. Outstanding'
  BY <1>2, <1>3, <1>4 DEF Outstanding
<1> QED BY <1>1, <1>2, <1>4, <1>5 DEF Transfer

(* A frame of the packet in progress joins the end of the queue.           *)
LEMMA TransmitsLinked ==
    ASSUME TypeOK, LinkInv, S_Transmits, UNCHANGED rcvVars
    PROVE  Transfer'
<1>1. Transfer /\ seq = Parity(pkt)
  BY DEF LinkInv, Bits, Handshake, S_Transmits
<1>2. pkt \in Nat /\ IFrame(seq, pkt) \in Frame /\ t2r \in Seq(Frame)
  BY SizesAreNat, FramesAreTyped DEF TypeOK, SenderTypeOK, LineTypeOK
<1> DEFINE n == Len(t2r)
<1>3. /\ n \in Nat /\ Len(t2r') = n + 1 /\ t2r'[n + 1] = IFrame(seq, pkt)
      /\ \A i \in 1..n : t2r'[i] = t2r[i]
  BY <1>2, AppendExtends DEF S_Transmits
<1>4. Delivered' = Delivered /\ UNCHANGED <<pkt, seq, r2t, rpc>> /\ spc' = "waitAck"
  BY SenderKeepsReceiver DEF S_Transmits, rcvVars
<1>5. \A i \in 1..Len(t2r') : t2r'[i].ctrl = Parity(t2r'[i].pkt)
  BY <1>1, <1>3 DEF Transfer, IFrame
<1>6. ASSUME Outstanding PROVE Outstanding'
  <2>1. \A i \in 1..n : t2r[i].pkt \in {pkt, pkt - 1} /\ t2r[i].pkt <= pkt
    BY <1>2, <1>6 DEF Outstanding
  <2>2. \A i \in 1..Len(t2r') : t2r'[i].pkt \in {pkt, pkt - 1}
    BY <1>3, <2>1 DEF IFrame
  <2>3. \A i, j \in 1..Len(t2r') : i <= j => t2r'[i].pkt <= t2r'[j].pkt
    <3> SUFFICES ASSUME NEW i \in 1..Len(t2r'), NEW j \in 1..Len(t2r'), i <= j
                 PROVE  t2r'[i].pkt <= t2r'[j].pkt
      OBVIOUS
    <3>1. CASE j = n + 1
      BY <1>2, <1>3, <2>1, <3>1 DEF IFrame
    <3>2. CASE j \in 1..n
      BY <1>3, <1>6, <3>2 DEF Outstanding
    <3> QED BY <1>3, <3>1, <3>2
  <2> QED BY <1>4, <1>6, <2>2, <2>3 DEF Outstanding
<1>7. ASSUME Released PROVE Released'
  <2>1. \A i \in 1..Len(t2r') : t2r'[i].pkt = pkt
    BY <1>3, <1>7 DEF Released, IFrame
  <2> QED BY <1>4, <1>7, <2>1 DEF Released
<1> QED BY <1>1, <1>4, <1>5, <1>6, <1>7 DEF Transfer

(* An acknowledgment is believed only when the packet was delivered.       *)
LEMMA BelievedAck ==
    ASSUME TypeOK, LinkInv, S_ReceivesAck
    PROVE  Released
<1>1. r2t # << >> /\ Len(r2t) \in Nat /\ Len(r2t) >= 1 /\ r2t[1] = AckCtrl(seq)
  BY TailShifts DEF S_ReceivesAck, TypeOK, LineTypeOK
<1>2. ~Outstanding
  BY <1>1 DEF Outstanding
<1> QED BY <1>2 DEF LinkInv, Handshake, Transfer, S_ReceivesAck

(* Everything left on the line is then of that packet, and thus stale.     *)
LEMMA ReceivesAckLinked ==
    ASSUME TypeOK, LinkInv, S_ReceivesAck, UNCHANGED rcvVars
    PROVE  Transfer' /\ Bits'
<1>1. Transfer /\ seq = Parity(pkt) /\ pkt \in Nat /\ seq \in {0, 1}
  BY SizesAreNat DEF LinkInv, Bits, Handshake, S_ReceivesAck, TypeOK, SenderTypeOK
<1>2. /\ r2t # << >> /\ Len(r2t) \in Nat /\ Len(r2t) >= 1 /\ r2t[1] = AckCtrl(seq)
      /\ \A i \in 1..Len(r2t') : i + 1 \in 1..Len(r2t) /\ r2t'[i] = r2t[i + 1]
  BY TailShifts DEF S_ReceivesAck, TypeOK, LineTypeOK
<1>3. Delivered' = Delivered /\ expectedSeq' = Parity(Stored') /\ UNCHANGED <<t2r, rpc>>
  BY SenderKeepsReceiver DEF S_ReceivesAck, rcvVars
<1>4. Released
  BY BelievedAck
<1>5. \A i \in 1..Len(r2t') : r2t'[i] = AckCtrl(seq)
  <2> SUFFICES ASSUME NEW i \in 1..Len(r2t') PROVE r2t'[i] = AckCtrl(seq)
    OBVIOUS
  <2>1. 1 \in 1..Len(r2t) /\ i + 1 \in 1..Len(r2t) /\ 1 <= i + 1
    BY <1>2
  <2> QED BY <1>2, <1>4, <2>1 DEF Released
<1>6. CASE pkt = NumChunks
  <2>1. spc' = "done" /\ UNCHANGED <<pkt, seq>>
    BY <1>6 DEF S_ReceivesAck, NextPacket
  <2>2. Released'
    BY <1>3, <1>4, <1>5, <2>1 DEF Released
  <2> QED BY <1>1, <1>3, <1>4, <1>6, <2>1, <2>2 DEF Transfer, Released, Bits
<1>7. CASE pkt # NumChunks
  <2>1. spc' = "llwrite" /\ pkt' = pkt + 1 /\ seq' = Toggle(seq)
    BY <1>7 DEF S_ReceivesAck, NextPacket
  <2>2. seq' = Parity(pkt')
    BY <1>1, <2>1, ParityAlternates
  <2>3. AckCtrl(seq') # AckCtrl(seq)
    BY <1>1, <2>1, AcksDiffer
  <2>4. \A i \in 1..Len(t2r') : t2r'[i].pkt = pkt' - 1
    BY <1>1, <1>3, <1>4, <2>1 DEF Released
  <2>5. \A i, j \in 1..Len(t2r') : i <= j => t2r'[i].pkt <= t2r'[j].pkt
    BY <1>1, <2>1, <2>4
  <2>6. Delivered' = pkt'
    BY <1>3, <1>4, <2>1 DEF Released
  <2>7. Outstanding'
    BY <1>5, <2>3, <2>4, <2>5, <2>6 DEF Outstanding
  <2> QED BY <1>1, <1>3, <2>1, <2>2, <2>7 DEF Transfer, Bits
<1> QED BY <1>6, <1>7

LEMMA SenderLinked ==
    ASSUME TypeOK, LinkInv, Sender
    PROVE  LinkInv'
<1>0. /\ UNCHANGED rcvVars /\ Delivered' = Delivered /\ Sizes' /\ ReceivedInOrder'
      /\ expectedSeq' = Parity(Stored') /\ (Trying' => idleCount' < MaxIdle)
  BY SenderKeepsReceiver DEF Sender
<1> USE DEF LinkInv
<1>1. CASE S_SendSet
  <2>1. Counters' /\ Bits'
    BY <1>0, <1>1 DEF S_SendSet, Counters, Bits
  <2> QED BY <1>0, <1>1, <2>1, SendSetLinked
<1>2. CASE S_OpeningTimesOut
  <2>1. Counters' /\ Bits' /\ Handshake'
    BY <1>0, <1>2 DEF S_OpeningTimesOut, Counters, Bits, Handshake, Transfer, line, rcvVars
  <2> QED BY <1>0, <2>1
<1>3. CASE S_ReceivesUA
  <2>1. Counters' /\ Bits'
    BY <1>0, <1>3 DEF S_ReceivesUA, Counters, Bits
  <2> QED BY <1>0, <1>3, <2>1, ReceivesUALinked
<1>4. CASE S_ReadsFile
  <2>1. Counters' /\ Bits'
    BY <1>0, <1>4 DEF S_ReadsFile, Counters, Bits
  <2>2. Transfer'
    BY <1>0, <1>4 DEF S_ReadsFile, Handshake, Transfer, Outstanding, Released,
                      line, rcvVars
  <2> QED BY <1>0, <2>1, <2>2
<1>5. CASE S_Transmits
  <2>1. Counters' /\ Bits'
    BY <1>0, <1>5 DEF S_Transmits, Counters, Bits
  <2> QED BY <1>0, <1>5, <2>1, TransmitsLinked
<1>6. CASE S_ReceivesAck
  <2>1. Counters'
    BY <1>0, <1>6, SizesAreNat DEF S_ReceivesAck, NextPacket, Counters
  <2> QED BY <1>0, <1>6, <2>1, ReceivesAckLinked
<1>7. CASE S_IgnoresAck
  <2>1. Counters' /\ Bits'
    BY <1>0, <1>7 DEF S_IgnoresAck, Counters, Bits, sndVars
  <2>2. Transfer'
    BY <1>0, <1>7, QueuesShrink DEF S_IgnoresAck, Handshake, sndVars, rcvVars
  <2> QED BY <1>0, <2>1, <2>2
<1>8. CASE S_TimesOut \/ S_WriteFails
  <2>1. Counters' /\ Bits'
    BY <1>0, <1>8, SizesAreNat
    DEF S_TimesOut, S_WriteFails, AttemptFails, Counters, Bits, TypeOK, SenderTypeOK
  <2>2. Transfer'
    BY <1>0, <1>8 DEF S_TimesOut, S_WriteFails, AttemptFails, Handshake, Transfer,
                      Outstanding, Released, line, rcvVars
  <2> QED BY <1>0, <2>1, <2>2
<1>9. CASE S_OpenFails
  <2>1. Counters' /\ Bits'
    BY <1>0, <1>9 DEF S_OpenFails, Counters, Bits
  <2>2. Handshake' \/ Transfer'
    BY <1>0, <1>9 DEF S_OpenFails, Handshake, Transfer, Outstanding, Released,
                      line, rcvVars
  <2> QED BY <1>0, <2>1, <2>2
<1> QED
  BY <1>1, <1>2, <1>3, <1>4, <1>5, <1>6, <1>7, <1>8, <1>9
  DEF Sender, SenderNext, SenderRuns, SenderFaults

(***************************************************************************)
(* The receiver's steps.                                                   *)
(***************************************************************************)
(* A step that leaves the sender alone keeps what is said of it.           *)
LEMMA ReceiverKeepsSender ==
    ASSUME LinkInv, UNCHANGED sndVars
    PROVE  seq' = Parity(pkt') /\ (spc' # "failed" => attempts' < MaxRetries)
  BY DEF LinkInv, Counters, Bits, sndVars

(* Whatever tcflush throws away, at most the SET is on the line.           *)
LEMMA OpensPortLinked ==
    ASSUME TypeOK, LinkInv, R_OpensPort, UNCHANGED sndVars
    PROVE  Handshake'
<1>1. /\ Handshake /\ r2t = << >> /\ r2t' = << >>
      /\ t2r = << >> \/ (t2r = <<SetFrame>> /\ spc # "start")
  BY DEF R_OpensPort, LinkInv, Handshake, Transfer
<1>2. PICK arrived \in 0..Len(t2r) : t2r' = SubSeq(t2r, arrived + 1, Len(t2r))
  BY DEF R_OpensPort
<1>3. t2r' = << >> \/ t2r' = t2r
  <2>1. CASE arrived = Len(t2r)
    BY <1>2, <2>1, SubSeqEmpty, LenProperties DEF TypeOK, LineTypeOK
  <2>2. CASE arrived # Len(t2r)
    <3>1. t2r = <<SetFrame>> /\ arrived = 0
      BY <1>1, <1>2, <2>2
    <3>2. t2r' = SubSeq(t2r, 1, Len(t2r))
      BY <1>2, <3>1
    <3> QED BY <3>2, SubSeqFull DEF TypeOK, LineTypeOK
  <2> QED BY <2>1, <2>2
<1> QED BY <1>1, <1>3 DEF R_OpensPort, Handshake, sndVars

(* While llread reads, main has taken what was acknowledged.               *)
LEMMA ReadingTakesAll ==
    ASSUME TypeOK, Reading
    PROVE  Delivered = Stored /\ Stored \in Nat
  BY PlacesCount DEF Reading, TypeOK, ReceiverTypeOK

(* The answer to a repeated or damaged frame acknowledges the packet       *)
(* delivered last, which is stale exactly while pkt is outstanding.        *)
LEMMA StaleAnswerLinked ==
    ASSUME TypeOK, LinkInv, Reading, t2r # << >>, Answers(AckCtrl(Toggle(expectedSeq))),
           UNCHANGED <<sndVars, rpc, kept>>
    PROVE  Transfer'
<1>1. Transfer /\ seq = Parity(pkt) /\ pkt \in Nat /\ expectedSeq = Parity(Delivered)
  <2>1. Transfer /\ seq = Parity(pkt) /\ pkt \in Nat /\ expectedSeq = Parity(Stored)
    BY SizesAreNat DEF LinkInv, Bits, Handshake, Reading, TypeOK, SenderTypeOK
  <2> QED BY <2>1, ReadingTakesAll
<1>2. Toggle(expectedSeq) \in {0, 1} /\ AckCtrl(expectedSeq) # AckCtrl(Toggle(expectedSeq))
  BY AcksDiffer DEF TypeOK, ReceiverTypeOK
<1> DEFINE a == AckCtrl(Toggle(expectedSeq))
           n == Len(r2t)
<1>3. /\ n \in Nat /\ Len(r2t') = n + 1 /\ r2t'[n + 1] = a
      /\ \A i \in 1..n : r2t'[i] = r2t[i]
  BY <1>2, AppendExtends, FramesAreTyped DEF Answers, TypeOK, LineTypeOK
<1>4. /\ Len(t2r) \in Nat /\ Len(t2r') \in Nat
      /\ \A i \in 1..Len(t2r') : i + 1 \in 1..Len(t2r) /\ t2r'[i] = t2r[i + 1]
  BY TailShifts DEF Answers, TypeOK, LineTypeOK
<1>5. Delivered' = Delivered /\ UNCHANGED <<spc, pkt, seq, rpc>>
  BY DEF Delivered, Stored, sndVars
<1>6. ASSUME Outstanding PROVE Outstanding'
  <2>1. a # AckCtrl(seq)
    BY <1>1, <1>2, <1>6 DEF Outstanding
  <2>2. \A i \in 1..Len(r2t') : r2t'[i] # AckCtrl(seq)
    BY <1>3, <1>6, <2>1 DEF Outstanding
  <2>3. \A i \in 1..Len(t2r') : t2r'[i].pkt \in {pkt, pkt - 1}
    BY <1>4, <1>6 DEF Outstanding
  <2>4. \A i, j \in 1..Len(t2r') : i <= j => t2r'[i].pkt <= t2r'[j].pkt
    <3> SUFFICES ASSUME NEW i \in 1..Len(t2r'), NEW j \in 1..Len(t2r'), i <= j
                 PROVE  t2r'[i].pkt <= t2r'[j].pkt
      OBVIOUS
    <3>1. i + 1 <= j + 1
      BY <1>4
    <3> QED BY <1>4, <1>6, <3>1 DEF Outstanding
  <2> QED BY <1>5, <1>6, <2>2, <2>3, <2>4 DEF Outstanding
<1>7. ASSUME Released PROVE Released'
  <2>1. a = AckCtrl(seq)
    <3>1. expectedSeq = Toggle(seq)
      BY <1>1, <1>7, ParityAlternates DEF Released
    <3> QED BY <3>1, AcksDiffer DEF TypeOK, SenderTypeOK
  <2>2. \A i, j \in 1..Len(r2t') :
           i <= j /\ r2t'[i] = AckCtrl(seq) => r2t'[j] = AckCtrl(seq)
    <3> SUFFICES ASSUME NEW i \in 1..Len(r2t'), NEW j \in 1..Len(r2t'), i <= j,
                        r2t'[i] = AckCtrl(seq)
                 PROVE  r2t'[j] = AckCtrl(seq)
      OBVIOUS
    <3>1. CASE j = n + 1
      BY <1>3, <2>1, <3>1
    <3>2. CASE j \in 1..n
      BY <1>3, <1>7, <3>2 DEF Released
    <3> QED BY <1>3, <3>1, <3>2
  <2>3. \A i \in 1..Len(t2r') : t2r'[i].pkt = pkt
    BY <1>4, <1>7 DEF Released
  <2> QED BY <1>5, <1>7, <2>2, <2>3 DEF Released
<1> QED BY <1>1, <1>4, <1>5, <1>6, <1>7 DEF Transfer

(* llread accepts only a copy of packet pkt, and only while it is          *)
(* outstanding: the other packet on the line has the other parity.         *)
LEMMA AcceptedIsNext ==
    ASSUME TypeOK, LinkInv, R_Acknowledges
    PROVE  /\ Outstanding /\ Head(t2r).pkt = pkt /\ Confirmed = Delivered
           /\ Transfer /\ seq = Parity(pkt) /\ expectedSeq = seq /\ pkt \in Nat
<1> DEFINE frame == Head(t2r)
<1>1. /\ Transfer /\ seq = Parity(pkt) /\ pkt \in Nat /\ pkt <= NumChunks
      /\ expectedSeq = Parity(Delivered) /\ expectedSeq \in {0, 1}
  BY SizesAreNat, ReadingTakesAll
  DEF R_Acknowledges, LinkInv, Bits, Handshake, Reading, TypeOK, SenderTypeOK, ReceiverTypeOK
<1>2. /\ Len(t2r) \in Nat /\ Len(t2r') \in Nat
      /\ 1 \in 1..Len(t2r) /\ frame = t2r[1] /\ frame.pkt \in Nat
      /\ \A i \in 1..Len(t2r') : i + 1 \in 1..Len(t2r) /\ t2r'[i] = t2r[i + 1]
  <2>1. t2r \in Seq(Frame) /\ t2r # << >> /\ t2r' = Tail(t2r)
    BY DEF R_Acknowledges, Answers, TypeOK, LineTypeOK
  <2>2. frame \in Frame
    BY <2>1, TailShifts
  <2>3. frame.pkt \in Nat
    BY <2>2 DEF Frame
  <2> HIDE DEF frame
  <2>4. /\ Len(t2r) \in Nat /\ Len(t2r) >= 1 /\ Len(t2r') = Len(t2r) - 1 /\ frame = t2r[1]
        /\ \A i \in 1..Len(t2r') : i + 1 \in 1..Len(t2r) /\ t2r'[i] = t2r[i + 1]
    BY <2>1, TailShifts DEF frame
  <2> QED BY <2>3, <2>4
<1>3. expectedSeq = Parity(frame.pkt)
  <2>1. \A i \in 1..Len(t2r) : t2r[i].ctrl = Parity(t2r[i].pkt)
    BY <1>1 DEF Transfer
  <2>2. frame.ctrl = expectedSeq
    BY DEF R_Acknowledges
  <2> HIDE DEF frame
  <2> QED BY <1>2, <2>1, <2>2
<1> HIDE DEF frame
<1>4. Outstanding /\ frame.pkt = pkt
  <2>0. /\ Parity(pkt + 1) # Parity(pkt)
        /\ pkt > 0 => Parity(pkt - 1) # Parity(pkt)
    BY <1>1, ParityAlternates, AcksDiffer
  <2>1. ~Released
    BY <1>1, <1>2, <1>3, <2>0 DEF Released
  <2>2. Outstanding
    BY <1>1, <2>1 DEF Transfer
  <2>3. frame.pkt # pkt - 1
    <3> SUFFICES ASSUME frame.pkt = pkt - 1 PROVE FALSE
      OBVIOUS
    <3>1. pkt > 0
      BY <1>1, <1>2
    <3>2. Parity(pkt - 1) = Parity(pkt)
      BY <1>1, <1>3, <2>2 DEF Outstanding
    <3> QED BY <2>0, <3>1, <3>2
  <2> QED BY <1>2, <2>2, <2>3 DEF Outstanding
<1>5. Confirmed = Delivered
  BY <1>1, <1>4 DEF Confirmed, Transfer, Outstanding
<1> QED BY <1>1, <1>4, <1>5 DEF Outstanding, frame

(* It is then the next piece of the file, and from then on every frame on  *)
(* the line is a copy of it.                                               *)
LEMMA AcknowledgesLinked ==
    ASSUME TypeOK, LinkInv, R_Acknowledges, UNCHANGED sndVars
    PROVE  /\ Transfer' /\ Delivered' = Delivered + 1 /\ Stored' = Stored
           /\ Sizes' /\ ReceivedInOrder'
<1> DEFINE frame == Head(t2r)
<1>1. /\ Transfer /\ seq = Parity(pkt) /\ pkt \in Nat /\ expectedSeq = seq
      /\ expectedSeq \in {0, 1}
  BY AcceptedIsNext DEF TypeOK, ReceiverTypeOK, LinkInv, Bits
<1>2. /\ Len(t2r) \in Nat /\ Len(t2r') \in Nat /\ Len(t2r) >= 1
      /\ \A i \in 1..Len(t2r') : i + 1 \in 1..Len(t2r) /\ t2r'[i] = t2r[i + 1]
      /\ frame = t2r[1]
  BY TailShifts DEF R_Acknowledges, Answers, TypeOK, LineTypeOK
<1>3. /\ Reading /\ frameData' = frame.pkt
      /\ rpc' = IF rpc = "size" THEN "sizeAcked" ELSE "chunkAcked"
      /\ UNCHANGED <<expectedSeq, mainVars>>
  BY DEF R_Acknowledges
<1> HIDE DEF frame
<1>4. Outstanding /\ frame.pkt = pkt
  BY AcceptedIsNext DEF frame
<1>5. Len(received) \in Nat /\ received \in Seq(Nat)
  BY LenProperties DEF TypeOK, ReceiverTypeOK
<1>6. /\ Delivered' = Delivered + 1 /\ Stored' = Stored /\ Delivered = Stored
      /\ Stored \in Nat
  <2>1. Delivered = Stored /\ Stored \in Nat
    BY ReadingTakesAll, <1>3
  <2>2. rpc' \in Acknowledged /\ received' = received
    BY <1>3
  <2>3. CASE rpc = "size"
    <3>1. rpc' = "sizeAcked"
      BY <1>3, <2>3
    <3>2. Stored = 0 /\ Stored' = 0
      BY <2>3, <3>1 DEF Stored
    <3> QED BY <2>1, <3>1, <3>2 DEF Delivered
  <2>4. CASE rpc = "chunks"
    <3>1. rpc' = "chunkAcked"
      BY <1>3, <2>4
    <3>2. Stored = 1 + Len(received) /\ Stored' = 1 + Len(received)
      BY <1>3, <2>4, <3>1 DEF Stored
    <3> QED BY <1>5, <2>1, <3>1, <3>2 DEF Delivered
  <2> QED BY <1>3, <2>3, <2>4 DEF Reading
<1>7. Delivered' = pkt' + 1 /\ UNCHANGED <<spc, pkt, seq>>
  BY <1>4, <1>6 DEF Outstanding, sndVars
<1>8. Sizes' /\ ReceivedInOrder'
  <2>1. CASE rpc = "size"
    <3>1. pkt = 0
      BY <1>4, <1>6, <2>1 DEF Outstanding, Stored
    <3> QED BY <1>3, <1>4, <2>1, <3>1 DEF LinkInv, Sizes, Wanted, ReceivedInOrder
  <2>2. CASE rpc = "chunks"
    <3>1. pkt = Len(received) + 1
      BY <1>4, <1>5, <1>6, <2>2 DEF Outstanding, Stored
    <3> QED BY <1>3, <1>4, <2>2, <3>1 DEF LinkInv, Sizes, Wanted, ReceivedInOrder
  <2> QED BY <1>3, <2>1, <2>2 DEF Reading
<1>9. \A i \in 1..Len(t2r') : t2r'[i].pkt = pkt
  <2> SUFFICES ASSUME NEW i \in 1..Len(t2r') PROVE t2r'[i].pkt = pkt
    OBVIOUS
  <2>1. i + 1 \in 1..Len(t2r) /\ 1 <= i + 1 /\ t2r'[i] = t2r[i + 1]
    BY <1>2
  <2>2. t2r[1].pkt <= t2r[i + 1].pkt /\ t2r[i + 1].pkt \in {pkt, pkt - 1}
    BY <1>2, <1>4, <2>1 DEF Outstanding
  <2> QED BY <1>1, <1>2, <1>4, <2>1, <2>2
<1>10. \A i, j \in 1..Len(r2t') :
           i <= j /\ r2t'[i] = AckCtrl(seq) => r2t'[j] = AckCtrl(seq)
  <2>1. /\ Len(r2t) \in Nat /\ Len(r2t') = Len(r2t) + 1
        /\ r2t'[Len(r2t) + 1] = AckCtrl(seq)
        /\ \A i \in 1..Len(r2t) : r2t'[i] = r2t[i]
    BY <1>1, AppendExtends, FramesAreTyped
    DEF R_Acknowledges, Echo, Answers, TypeOK, LineTypeOK
  <2> QED BY <1>4, <2>1 DEF Outstanding
<1>11. Released'
  BY <1>7, <1>9, <1>10 DEF Released
<1> QED BY <1>1, <1>2, <1>3, <1>6, <1>7, <1>8, <1>11 DEF Reading, Transfer, Released

(* Main takes the packet; nobody but the receiver sees it.                 *)
LEMMA TakesLinked ==
    ASSUME TypeOK, LinkInv, R_Takes, UNCHANGED sndVars
    PROVE  Transfer' /\ Bits' /\ Sizes' /\ ReceivedInOrder'
<1>1. /\ rpc \in Acknowledged /\ rpc' \in {"chunks", "saving"}
      /\ Stored' = Stored + 1 /\ Delivered' = Delivered
      /\ Sizes' /\ ReceivedInOrder'
  BY TakesNext DEF LinkInv
<1>2. Transfer /\ seq = Parity(pkt) /\ expectedSeq = Parity(Stored)
  BY <1>1 DEF LinkInv, Bits, Handshake
<1>3. Stored \in Nat
  BY LenProperties DEF Stored, TypeOK, ReceiverTypeOK
<1>4. expectedSeq' = Parity(Stored')
  BY <1>1, <1>2, <1>3, ParityAlternates DEF R_Takes
<1> QED BY <1>1, <1>2, <1>4
        DEF R_Takes, Transfer, Outstanding, Released, Bits, line, sndVars

LEMMA ReceiverLinked ==
    ASSUME TypeOK, LinkInv, Receiver
    PROVE  LinkInv'
<1>0. /\ UNCHANGED sndVars /\ seq' = Parity(pkt')
      /\ (spc' # "failed" => attempts' < MaxRetries)
  BY ReceiverKeepsSender DEF Receiver
<1> USE DEF LinkInv
<1>1. CASE R_OpensPort
  <2>1. Counters' /\ Bits' /\ Sizes' /\ ReceivedInOrder'
    BY <1>0, <1>1
    DEF R_OpensPort, Counters, Trying, Bits, Delivered, Stored, Sizes, Wanted, ReceivedInOrder
  <2> QED BY <1>0, <1>1, <2>1, OpensPortLinked
<1>2. CASE R_OpenFails \/ R_OpeningTimesOut
  <2>1. Counters' /\ Bits' /\ Sizes' /\ ReceivedInOrder'
    BY <1>0, <1>2
    DEF R_OpenFails, R_OpeningTimesOut, Counters, Trying, Bits, Delivered, Stored, Sizes, Wanted,
        ReceivedInOrder
  <2>2. Handshake'
    BY <1>0, <1>2
    DEF R_OpenFails, R_OpeningTimesOut, Handshake, Transfer, line, sndVars
  <2> QED BY <2>1, <2>2
<1>3. CASE R_ReceivesSet
  <2>1. Counters' /\ Bits' /\ Sizes' /\ ReceivedInOrder'
    BY <1>0, <1>3
    DEF R_ReceivesSet, Counters, Trying, Bits, Delivered, Stored, Sizes, Wanted, ReceivedInOrder
  <2>2. Handshake /\ t2r = <<SetFrame>> /\ r2t = << >> /\ spc # "start"
    BY <1>3 DEF R_ReceivesSet, Handshake, Transfer
  <2>3. t2r' = << >> /\ r2t' = <<C_UA>>
    BY <1>3, <2>2 DEF R_ReceivesSet
  <2>4. Handshake'
    BY <1>0, <1>3, <2>2, <2>3 DEF R_ReceivesSet, Handshake, sndVars
  <2> QED BY <2>1, <2>4
<1>4. CASE R_Acknowledges
  <2>1. Counters' /\ UNCHANGED expectedSeq
    BY <1>0, <1>4, SizesAreNat DEF R_Acknowledges, Answers, Counters
  <2> QED BY <1>0, <1>4, <2>1, AcknowledgesLinked DEF Bits
<1>9. CASE R_Takes
  <2>1. Trying /\ UNCHANGED idleCount
    BY <1>9, TakesNext DEF R_Takes, Trying
  <2>2. Counters'
    BY <1>0, <2>1 DEF Counters
  <2> QED BY <1>0, <1>9, <2>2, TakesLinked
<1>5. CASE R_AnswersDuplicate \/ R_RejectsDamaged
  <2>1. /\ Reading /\ t2r # << >> /\ Answers(AckCtrl(Toggle(expectedSeq)))
        /\ UNCHANGED <<rpc, kept>>
    BY <1>5 DEF R_AnswersDuplicate, R_RejectsDamaged, Echo, Nack
  <2>2. Counters' /\ Bits' /\ Sizes' /\ ReceivedInOrder'
    BY <1>0, <2>1, SizesAreNat
    DEF Answers, Counters, Bits, Delivered, Stored, Sizes, Wanted, ReceivedInOrder
  <2>3. Transfer'
    BY <1>0, <2>1, StaleAnswerLinked
  <2> QED BY <2>2, <2>3
<1>6. CASE R_ReadsOver
  <2>1. Counters' /\ Bits' /\ Sizes' /\ ReceivedInOrder'
    BY <1>0, <1>6, SizesAreNat
    DEF R_ReadsOver, Counters, Bits, Delivered, Stored, Sizes, Wanted, ReceivedInOrder
  <2>2. Transfer
    BY <1>6 DEF R_ReadsOver, Reading, Handshake
  <2>3. Transfer'
    BY <1>0, <1>6, <2>2, QueuesShrink DEF R_ReadsOver, sndVars
  <2> QED BY <2>1, <2>3
<1>7. CASE R_ReadsNothing
  <2>1. /\ idleCount' = idleCount + 1 /\ UNCHANGED <<kept, line>>
        /\ \/ rpc' = rpc /\ idleCount' < MaxIdle
           \/ rpc = "size" /\ rpc' = "failed"
           \/ rpc = "chunks" /\ rpc' = "saving"
    BY <1>7, SizesAreNat DEF R_ReadsNothing, Abandons, Reading, TypeOK, ReceiverTypeOK
  <2>2. Counters' /\ Bits' /\ Sizes' /\ ReceivedInOrder'
    BY <1>0, <2>1
    DEF Counters, Trying, Bits, Delivered, Stored, Sizes, Wanted, ReceivedInOrder
  <2>3. Handshake' \/ Transfer'
    BY <1>0, <1>7, <2>1
    DEF R_ReadsNothing, Reading, Handshake, Transfer, Outstanding, Released, Delivered, Stored,
        line, sndVars
  <2> QED BY <2>2, <2>3
<1>8. CASE R_ReadFails \/ R_SavesFile
  <2>1. /\ UNCHANGED <<kept, line>>
        /\ \/ rpc = "size" /\ rpc' = "failed"
           \/ rpc = "chunks" /\ rpc' = "saving"
           \/ rpc = "saving" /\ rpc' \in {"saved", "unsaved"}
    BY <1>8 DEF R_ReadFails, R_SavesFile, Abandons, Reading
  <2>2. Counters' /\ Bits' /\ Sizes' /\ ReceivedInOrder'
    BY <1>0, <2>1
    DEF Counters, Trying, Bits, Delivered, Stored, Sizes, Wanted, ReceivedInOrder
  <2>3. Handshake' \/ Transfer'
    BY <1>0, <2>1 DEF Handshake, Transfer, Outstanding, Released, Delivered, Stored, line, sndVars
  <2> QED BY <2>2, <2>3
<1> QED
  BY <1>1, <1>2, <1>3, <1>4, <1>5, <1>6, <1>7, <1>8, <1>9
  DEF Receiver, ReceiverNext, ReceiverRuns, ReceiverFaults

LEMMA LineLinked ==
    ASSUME TypeOK, LinkInv, Line
    PROVE  LinkInv'
<1>1. Counters' /\ Bits' /\ Sizes' /\ ReceivedInOrder'
  BY DEF Line, LinkInv, Counters, Trying, Bits, Delivered, Stored, Sizes, Wanted, ReceivedInOrder,
         sndVars, rcvVars
<1>2. CASE Handshake
  <2>1. t2r' = << >> /\ r2t' = << >> /\ spc # "start"
    <3>1. CASE LoseForward
      <4>1. t2r = <<SetFrame>> /\ r2t = << >> /\ spc # "start"
        BY <1>2, <3>1 DEF LoseForward, Handshake
      <4> QED BY <3>1, <4>1 DEF LoseForward
    <3>2. CASE LoseBackward
      <4>1. t2r = << >> /\ r2t = <<C_UA>> /\ spc # "start"
        BY <1>2, <3>2 DEF LoseBackward, Handshake
      <4> QED BY <3>2, <4>1 DEF LoseBackward
    <3> QED BY <3>1, <3>2 DEF Line
  <2> QED BY <1>1, <1>2, <2>1 DEF Line, LinkInv, Handshake, sndVars, rcvVars
<1>3. CASE Transfer
  <2>1. Transfer'
    BY <1>3, QueuesShrink DEF Line, LoseForward, LoseBackward, sndVars, rcvVars
  <2> QED BY <1>1, <2>1 DEF LinkInv
<1> QED BY <1>2, <1>3 DEF LinkInv

(***************************************************************************)
(* The theorems.                                                           *)
(***************************************************************************)
LEMMA StutterKeeps ==
    ASSUME TypeOK, LinkInv, UNCHANGED vars
    PROVE  TypeOK' /\ LinkInv'
<1>1. Stored' = Stored /\ Delivered' = Delivered
  BY DEF vars, rcvVars, Stored, Delivered
<1>2. TypeOK'
  BY DEF vars, line, sndVars, rcvVars, TypeOK, LineTypeOK, SenderTypeOK, ReceiverTypeOK
<1>3. Counters' /\ Bits' /\ Sizes' /\ ReceivedInOrder'
  BY <1>1 DEF vars, sndVars, rcvVars, LinkInv, Counters, Trying, Bits, Sizes, Wanted,
              ReceivedInOrder
<1>4. Handshake' = Handshake
  BY DEF vars, line, sndVars, rcvVars, Handshake
<1>5. Transfer' = Transfer
  BY <1>1 DEF vars, line, sndVars, rcvVars, Transfer, Outstanding, Released
<1> QED BY <1>2, <1>3, <1>4, <1>5 DEF LinkInv

(* In every execution the state is well typed and the two programs and the *)
(* line between them are in step: the inductive invariant of the transfer. *)
THEOREM LinkCorrect == Spec => [](TypeOK /\ LinkInv)
<1>1. Init => TypeOK /\ LinkInv
  BY InitTyped, InitLinked
<1>2. TypeOK /\ LinkInv /\ [Next]_vars => (TypeOK /\ LinkInv)'
  BY SenderTyped, ReceiverTyped, LineTyped, SenderLinked, ReceiverLinked, LineLinked,
     StutterKeeps
  DEF Next, LinkInv
<1> QED BY <1>1, <1>2, PTL DEF Spec

(* The receiver's buffer is always the beginning of the file, in order.    *)
THEOREM ReceivedInOrderHolds == Spec => []ReceivedInOrder
<1>1. LinkInv => ReceivedInOrder
  BY DEF LinkInv
<1> QED BY <1>1, LinkCorrect, PTL

(* The sender never counts a packet that the receiver has not taken, and   *)
(* the receiver is never more than one packet ahead of what it knows.      *)
LEMMA ConfirmedBehind ==
    ASSUME TypeOK, LinkInv
    PROVE  AcknowledgedIsDelivered
<1>1. pkt \in Nat /\ NumChunks \in Nat
  BY SizesAreNat DEF TypeOK, SenderTypeOK
<1>2. CASE Handshake
  <2>1. Delivered = 0
    BY <1>2, PlacesCount DEF Handshake, TypeOK, ReceiverTypeOK
  <2> QED BY <1>2, <2>1 DEF Handshake, AcknowledgedIsDelivered, Confirmed
<1>3. CASE Transfer
  BY <1>1, <1>3
  DEF Transfer, Outstanding, Released, AcknowledgedIsDelivered, Confirmed
<1> QED BY <1>2, <1>3 DEF LinkInv

THEOREM AcknowledgedIsDeliveredHolds == Spec => []AcknowledgedIsDelivered
<1>1. TypeOK /\ LinkInv => AcknowledgedIsDelivered
  BY ConfirmedBehind
<1> QED BY <1>1, LinkCorrect, PTL

(* The buffer is cut between two chunks: if all of them are wanted, then   *)
(* every byte is.                                                          *)
LEMMA AllFits ==
    ASSUME NumChunks <= ChunksOf(Wanted)
    PROVE  Announced <= RcvMaxSize
<1> SUFFICES ASSUME ~(Announced <= RcvMaxSize) PROVE FALSE
  OBVIOUS
<1>1. Wanted = RcvMaxSize
  BY SizesAreNat DEF Wanted, Truncate
<1> DEFINE m == ChunksOf(RcvMaxSize)
<1>2. m \in Nat /\ m * ChunkSize = RcvMaxSize
  BY SizesAreNat, ChunkCounts, ReceiverAssumption
<1> HIDE DEF m
<1>3. m < NumChunks
  BY <1>2, SizesAreNat, ChunkCounts DEF NumChunks
<1> QED BY <1>1, <1>2, <1>3, SizesAreNat DEF m

(* A sender that returns 0 has transferred all it announced: the receiver  *)
(* has all its bytes, or the last packet still in hand.                    *)
LEMMA DoneIsComplete ==
    ASSUME TypeOK, LinkInv, spc = "done"
    PROVE  /\ rpc \in Acknowledged \cup {"saving", "saved", "unsaved"}
           /\ totalReceived + InHand = Announced
           /\ Announced <= RcvMaxSize
<1> DEFINE n == Len(received)
<1>1. Transfer /\ Delivered = NumChunks + 1 /\ n \in Nat /\ NumChunks \in Nat
  BY LenProperties, SizesAreNat DEF LinkInv, Handshake, Transfer, TypeOK, ReceiverTypeOK
<1>2. n <= ChunksOf(Wanted) /\ totalReceived = Smaller(n * ChunkSize, Wanted)
  BY DEF LinkInv, Sizes
<1>3. CASE rpc = "sizeAcked"
  <2>1. n = 0 /\ NumChunks = 0
    BY <1>1, <1>3, EmptySeq DEF Delivered, Stored, LinkInv, Sizes
  <2>2. Announced = 0 /\ 0 * ChunkSize = 0
    BY <2>1, SizesAreNat, ChunkCounts DEF NumChunks
  <2> QED BY <1>2, <1>3, <2>1, <2>2, SizesAreNat DEF InHand, Smaller
<1>4. CASE rpc = "chunkAcked"
  <2>1. /\ frameData = n + 1 /\ totalReceived = n * ChunkSize /\ n * ChunkSize < Wanted
        /\ n < ChunksOf(Wanted)
    BY <1>4, NextPiece DEF LinkInv
  <2>2. n + 1 = NumChunks
    BY <1>1, <1>4 DEF Delivered, Stored
  <2>3. PICK b \in Nat : b = n * ChunkSize /\ (n + 1) * ChunkSize = b + ChunkSize
    BY <1>1, SizesAreNat
  <2>4. ~(b + ChunkSize < Announced)
    BY <1>1, <2>2, <2>3, SizesAreNat, ChunkCounts DEF NumChunks
  <2>5. Payload(frameData) = Smaller(ChunkSize, Announced - b)
    <3>1. frameData # 0 /\ frameData - 1 = n
      BY <1>1, <2>1
    <3> QED BY <2>3, <3>1 DEF Payload
  <2>6. totalReceived + InHand = Announced
    BY <1>4, <2>1, <2>3, <2>4, <2>5, SizesAreNat DEF InHand, Smaller
  <2>7. Announced <= RcvMaxSize
    BY <1>1, <2>1, <2>2, SizesAreNat, ChunkCounts, AllFits
  <2> QED BY <1>4, <2>6, <2>7
<1>5. CASE rpc \notin Acknowledged
  <2>1. rpc \in {"chunks", "saving", "saved", "unsaved"} /\ n = NumChunks
    BY <1>1, <1>5 DEF Delivered, Stored, TypeOK, ReceiverTypeOK, ReceiverPlaces
  <2>2. Announced <= RcvMaxSize
    BY <1>1, <1>2, <2>1, AllFits
  <2>3. Wanted = Announced
    BY <2>2, SizesAreNat DEF Wanted, Truncate
  <2>4. ~(n * ChunkSize < Announced) /\ n * ChunkSize \in Nat
    BY <1>1, <2>1, SizesAreNat, ChunkCounts DEF NumChunks
  <2>5. totalReceived = Announced
    BY <1>2, <2>3, <2>4 DEF Smaller
  <2>6. rpc # "chunks"
    BY <2>3, <2>5, SizesAreNat DEF LinkInv, Sizes
  <2> QED BY <1>5, <2>1, <2>2, <2>5, <2>6, SizesAreNat DEF InHand
<1> QED BY <1>3, <1>4, <1>5

THEOREM SuccessMeansCompleteHolds == Spec => []SuccessMeansComplete
<1>1. TypeOK /\ LinkInv => SuccessMeansComplete
  BY DoneIsComplete DEF SuccessMeansComplete
<1> QED BY <1>1, LinkCorrect, PTL

(* Hence a file the receiver cuts is never reported as sent.               *)
THEOREM OversizeIsNotReportedSentHolds == Spec => []OversizeIsNotReportedSent
<1>1. TypeOK /\ LinkInv => OversizeIsNotReportedSent
  BY DoneIsComplete, SizesAreNat DEF OversizeIsNotReportedSent
<1> QED BY <1>1, LinkCorrect, PTL

(***************************************************************************)
(* Refinement.                                                             *)
(***************************************************************************)
LEMMA InitRefines == Init => FT!Init
  BY DEF Init, LineInit, SenderInit, ReceiverInit, FT!Init, Confirmed, SenderOutcome,
         ReceiverOutcome

(* The count of the abstract transfer is the one used here.                *)
LEMMA DeliveredAgrees ==
    ASSUME TypeOK, Sizes
    PROVE  FT!Delivered = Delivered
<1>1. received \in Seq(Nat) /\ frameData \in Nat /\ rpc \in ReceiverPlaces
  BY DEF TypeOK, ReceiverTypeOK
<1>2. CASE rpc = "sizeAcked"
  <2>1. Delivered = 1
    BY <1>1, <1>2, PlacesCount
  <2>2. Len(received) = 0
    BY <1>2, EmptySeq DEF Sizes
  <2> QED BY <1>2, <2>1, <2>2 DEF FT!Delivered
<1>3. CASE rpc = "chunkAcked"
  <2>1. Delivered = Len(received) + 2
    BY <1>1, <1>3, PlacesCount
  <2>2. Len(Append(received, frameData)) = Len(received) + 1
    BY <1>1, AppendExtends
  <2> QED BY <1>1, <1>3, <2>1, <2>2, PlacesCount DEF FT!Delivered
<1>4. CASE rpc \notin Acknowledged
  <2>1. CASE rpc \in Unsized
    <3>1. Delivered = 0
      BY <1>1, <1>4, <2>1, PlacesCount
    <3> QED BY <1>4, <2>1, <3>1 DEF FT!Delivered
  <2>2. CASE rpc \notin Unsized
    <3>1. Delivered = Len(received) + 1
      BY <1>1, <1>4, <2>2, PlacesCount
    <3> QED BY <1>4, <2>2, <3>1 DEF FT!Delivered
  <2> QED BY <2>1, <2>2
<1> QED BY <1>2, <1>3, <1>4

(* An acknowledgment confirms one packet, which was delivered; everything  *)
(* else the sender does is invisible or its failure.                       *)
LEMMA SenderRefines ==
    ASSUME TypeOK, LinkInv, Sender
    PROVE  FT!Next \/ UNCHANGED FT!ftVars
<1>0. /\ UNCHANGED <<rpc, received, frameData, ReceiverOutcome>>
      /\ FT!Delivered = Delivered
  BY DeliveredAgrees DEF LinkInv, Sender, rcvVars, ReceiverOutcome
<1>1. CASE S_SendSet \/ S_ReceivesUA \/ S_ReadsFile \/ S_Transmits \/ S_IgnoresAck
  BY <1>0, <1>1
  DEF S_SendSet, S_ReceivesUA, S_ReadsFile, S_Transmits, S_IgnoresAck, FT!ftVars,
      Confirmed, SenderOutcome, sndVars
<1>2. CASE S_OpeningTimesOut \/ S_OpenFails \/ S_TimesOut \/ S_WriteFails
  BY <1>0, <1>2
  DEF S_OpeningTimesOut, S_OpenFails, S_TimesOut, S_WriteFails, AttemptFails, FT!ftVars,
      FT!Next, FT!SenderFails, Confirmed, SenderOutcome
<1>3. CASE S_ReceivesAck
  <2>1. Delivered = pkt + 1
    BY <1>3, BelievedAck DEF Released
  <2>2. pkt \in Nat /\ NumChunks \in Nat /\ spc = "waitAck"
    BY <1>3, SizesAreNat DEF TypeOK, SenderTypeOK, S_ReceivesAck
  <2>3. /\ Confirmed = pkt /\ Confirmed' = pkt + 1
        /\ spc' = IF Confirmed' = NumChunks + 1 THEN "done" ELSE "llwrite"
    <3>1. NumChunks' = NumChunks
      BY DEF NumChunks
    <3>2. CASE pkt = NumChunks
      BY <1>3, <2>2, <3>1, <3>2 DEF S_ReceivesAck, NextPacket, Confirmed
    <3>3. CASE pkt # NumChunks
      BY <1>3, <2>2, <3>1, <3>3 DEF S_ReceivesAck, NextPacket, Confirmed
    <3> QED BY <3>2, <3>3
  <2>4. FT!Confirm
    BY <1>0, <2>1, <2>2, <2>3 DEF FT!Confirm, SenderOutcome
  <2> QED BY <2>4 DEF FT!Next
<1> QED
  BY <1>1, <1>2, <1>3 DEF Sender, SenderNext, SenderRuns, SenderFaults

(* Only llread's acceptance delivers, and it delivers the next piece.      *)
LEMMA ReceiverRefines ==
    ASSUME TypeOK, LinkInv, Receiver
    PROVE  FT!Next \/ UNCHANGED FT!ftVars
<1>0. UNCHANGED <<spc, pkt, Confirmed, SenderOutcome>> /\ FT!Delivered = Delivered
  BY DeliveredAgrees DEF LinkInv, Receiver, sndVars, Confirmed, SenderOutcome
<1>1. CASE R_OpensPort \/ R_ReceivesSet \/ R_AnswersDuplicate \/ R_RejectsDamaged
           \/ R_ReadsOver
  BY <1>0, <1>1
  DEF R_OpensPort, R_ReceivesSet, R_AnswersDuplicate, R_RejectsDamaged, R_ReadsOver,
      FT!ftVars, ReceiverOutcome
<1>2. CASE R_OpenFails \/ R_OpeningTimesOut
  BY <1>0, <1>2
  DEF R_OpenFails, R_OpeningTimesOut, FT!Next, FT!ReceiverEnds, ReceiverOutcome
<1>3. CASE R_ReadsNothing \/ R_ReadFails
  BY <1>0, <1>3
  DEF R_ReadsNothing, R_ReadFails, Abandons, Reading, FT!Next, FT!ReceiverEnds, FT!ftVars,
      ReceiverOutcome
<1>4. CASE R_SavesFile
  BY <1>0, <1>4 DEF R_SavesFile, FT!Next, FT!ReceiverEnds, ReceiverOutcome
<1>5. CASE R_Acknowledges
  <2>1. Delivered = pkt /\ Head(t2r).pkt = pkt /\ Confirmed = Delivered /\ Reading
    BY <1>5, AcceptedIsNext DEF R_Acknowledges, Outstanding
  <2>2. /\ frameData' = pkt /\ UNCHANGED received
        /\ rpc' = IF rpc = "size" THEN "sizeAcked" ELSE "chunkAcked"
    BY <1>5, <2>1 DEF R_Acknowledges
  <2>3. CASE rpc = "size"
    BY <1>0, <2>1, <2>2, <2>3
    DEF FT!Next, FT!Deliver, FT!DeliverSize, ReceiverOutcome
  <2>4. CASE rpc = "chunks"
    <3>1. Len(received) \in Nat /\ pkt = Len(received) + 1
      BY <2>1, <2>4, LenProperties DEF Delivered, Stored, TypeOK, ReceiverTypeOK
    <3>2. rpc' = "chunkAcked" /\ Sizes' /\ ReceivedInOrder'
      BY <1>5, <2>2, <2>4, AcknowledgesLinked DEF Receiver
    <3>3. Len(received) < NumChunks /\ Len(received) < ChunksOf(RcvMaxSize)
      <4>1. Len(received) * ChunkSize < Wanted
        <5>1. PICK b \in Nat : b = Len(received) * ChunkSize
          BY <3>1, SizesAreNat
        <5>2. totalReceived = Smaller(b, Wanted) /\ totalReceived < Wanted
          BY <2>4, <5>1 DEF LinkInv, Sizes
        <5> QED BY <5>1, <5>2, SizesAreNat DEF Smaller
      <4>2. PICK b \in Nat : b = Len(received) * ChunkSize
        BY <3>1, SizesAreNat
      <4>3. b < Announced /\ b < RcvMaxSize
        BY <4>1, <4>2, SizesAreNat
      <4> QED BY <3>1, <4>2, <4>3, SizesAreNat, ChunkCounts DEF NumChunks
    <3> QED BY <1>0, <2>1, <2>2, <2>4, <3>1, <3>3
            DEF FT!Next, FT!Deliver, FT!DeliverChunk, ReceiverOutcome
  <2> QED BY <2>1, <2>3, <2>4 DEF Reading
<1>6. CASE R_Takes
  <2>1. /\ rpc \in Acknowledged /\ rpc' \in {"chunks", "saving"} /\ UNCHANGED frameData
        /\ rpc = "sizeAcked"  => received' = received
        /\ rpc = "chunkAcked" => received' = Append(received, frameData)
    BY <1>6, TakesNext DEF LinkInv, R_Takes
  <2> QED BY <1>0, <2>1 DEF FT!ftVars, ReceiverOutcome
<1> QED
  BY <1>1, <1>2, <1>3, <1>4, <1>5, <1>6
  DEF Receiver, ReceiverNext, ReceiverRuns, ReceiverFaults

(* The two programs and the line implement FileTransfer.                   *)
THEOREM Refinement == Spec => ImplementsFileTransfer
<1>1. Init => FT!Init
  BY InitRefines
<1>2. TypeOK /\ LinkInv /\ [Next]_vars => [FT!Next]_FT!ftVars
  <2> SUFFICES ASSUME TypeOK, LinkInv, [Next]_vars
               PROVE  FT!Next \/ UNCHANGED FT!ftVars
    OBVIOUS
  <2>1. CASE Line \/ UNCHANGED vars
    BY <2>1 DEF Line, vars, sndVars, rcvVars, FT!ftVars, Confirmed, SenderOutcome,
                ReceiverOutcome
  <2> QED BY <2>1, SenderRefines, ReceiverRefines DEF Next
<1> QED BY <1>1, <1>2, LinkCorrect, PTL DEF Spec, ImplementsFileTransfer, FT!Spec

(***************************************************************************)
(* How many frames and answers may be on the line, for every number of     *)
(* retries: TransferInv is an invariant, and BacklogBounded follows.       *)
(***************************************************************************)
LEMMA CountsAreNat ==
    ASSUME TypeOK
    PROVE  /\ pkt \in Nat /\ attempts \in Nat /\ Transmissions \in Nat
           /\ Len(t2r) \in Nat /\ t2r \in Seq(Frame) /\ MaxRetries \in Nat \ {0}
           /\ Len(r2t) \in Nat /\ r2t \in Seq({AckCtrl(0), AckCtrl(1)})
  BY SizesAreNat, LenProperties DEF TypeOK, SenderTypeOK, LineTypeOK, Transmissions

(* An empty line holds no copies at all. *)
LEMMA EmptyLineHasNoCopies ==
    ASSUME TypeOK, t2r = << >>, r2t = << >>, Delivered = pkt
    PROVE  Copies
<1>1. Len(t2r) = 0 /\ Len(r2t) = 0
  BY EmptySeq
<1> QED BY <1>1, CountsAreNat DEF Copies

(* What leaves the line leaves from the front, the older ones first; what  *)
(* is said of the rest holds if no attempt is forgotten.                   *)
LEMMA CopiesShrink ==
    ASSUME TypeOK, Copies, NEW d \in 0..Len(t2r), NEW e \in 0..Len(r2t),
           Len(t2r') = Len(t2r) - d,
           \A i \in 1..Len(t2r') : t2r'[i] = t2r[i + d],
           Len(r2t') = Len(r2t) - e,
           \A i \in 1..Len(r2t') : r2t'[i] = r2t[i + e],
           pkt' = pkt, seq' = seq, Delivered' = Delivered,
           Transmissions' \in Nat, Transmissions' >= Transmissions
    PROVE  Copies'
<1>1. Len(t2r) \in Nat /\ Len(r2t) \in Nat /\ Transmissions \in Nat /\ MaxRetries \in Nat
  BY CountsAreNat
<1>2. ASSUME NEW i \in 1..Len(t2r'), t2r'[i].pkt = pkt'
      PROVE  Len(t2r') - i < Transmissions'
  <2>1. i + d \in 1..Len(t2r) /\ t2r[i + d].pkt = pkt /\ Len(t2r') - i = Len(t2r) - (i + d)
    BY <1>1, <1>2
  <2>2. Len(t2r) - (i + d) < Transmissions
    BY <2>1 DEF Copies
  <2> QED BY <1>1, <2>1, <2>2
<1>3. ASSUME Delivered' # pkt'
      PROVE  /\ Len(t2r') < Transmissions'
             /\ \A j \in 1..Len(r2t') :
                   r2t'[j] = AckCtrl(seq') => Len(t2r') + Len(r2t') - j < Transmissions'
  <2>1. Len(t2r') < Transmissions'
    BY <1>1, <1>3 DEF Copies
  <2>2. ASSUME NEW j \in 1..Len(r2t'), r2t'[j] = AckCtrl(seq')
        PROVE  Len(t2r') + Len(r2t') - j < Transmissions'
    <3>1. j + e \in 1..Len(r2t) /\ r2t[j + e] = AckCtrl(seq)
      BY <1>1, <2>2
    <3>2. Len(t2r) + Len(r2t) - (j + e) < Transmissions
      BY <1>3, <3>1 DEF Copies
    <3> QED BY <1>1, <3>1, <3>2
  <2> QED BY <2>1, <2>2
<1>4. Len(t2r') + Len(r2t') < Transmissions' + MaxRetries
  BY <1>1 DEF Copies
<1> QED BY <1>2, <1>3, <1>4 DEF Copies

(* The same, for a line that keeps what it holds or loses the oldest.      *)
Drops(before, after) == after = before \/ (before # << >> /\ after = Tail(before))

LEMMA DropsShift ==
    ASSUME NEW S, NEW q \in Seq(S), NEW p, Drops(q, p)
    PROVE  \E d \in 0..Len(q) : /\ Len(p) = Len(q) - d
                                /\ \A i \in 1..Len(p) : p[i] = q[i + d]
<1>1. Len(q) \in Nat
  BY LenProperties
<1>2. CASE p = q
  <2>1. 0 \in 0..Len(q) /\ Len(p) = Len(q) - 0 /\ \A i \in 1..Len(p) : p[i] = q[i + 0]
    BY <1>1, <1>2
  <2> QED BY <2>1
<1>3. CASE q # << >> /\ p = Tail(q)
  <2>1. 1 \in 0..Len(q) /\ Len(p) = Len(q) - 1 /\ \A i \in 1..Len(p) : p[i] = q[i + 1]
    BY <1>1, <1>3, TailShifts
  <2> QED BY <2>1
<1> QED BY <1>2, <1>3 DEF Drops

LEMMA CopiesKept ==
    ASSUME TypeOK, Copies, Drops(t2r, t2r'), Drops(r2t, r2t'),
           pkt' = pkt, seq' = seq, Delivered' = Delivered,
           Transmissions' \in Nat, Transmissions' >= Transmissions
    PROVE  Copies'
<1>1. PICK d \in 0..Len(t2r) : /\ Len(t2r') = Len(t2r) - d
                               /\ \A i \in 1..Len(t2r') : t2r'[i] = t2r[i + d]
  BY CountsAreNat, DropsShift
<1>2. PICK e \in 0..Len(r2t) : /\ Len(r2t') = Len(r2t) - e
                               /\ \A i \in 1..Len(r2t') : r2t'[i] = r2t[i + e]
  BY CountsAreNat, DropsShift
<1> QED BY <1>1, <1>2, CopiesShrink

(* The sender's steps: one more transmission adds one frame, and when an   *)
(* acknowledgment is believed less than MaxRetries is left on the line.    *)
LEMMA SenderKeepsCopies ==
    ASSUME TypeOK, TypeOK', LinkInv, Copies, Sender, ~S_SendSet
    PROVE  Copies'
<1>0. /\ UNCHANGED rcvVars /\ Delivered' = Delivered
      /\ Transmissions \in Nat /\ Transmissions' \in Nat /\ attempts \in Nat
      /\ Len(t2r) \in Nat /\ pkt \in Nat /\ t2r \in Seq(Frame)
      /\ Len(r2t) \in Nat /\ MaxRetries \in Nat \ {0}
  <2>1. UNCHANGED rcvVars /\ Delivered' = Delivered
    BY SenderKeepsReceiver DEF Sender
  <2>2. PICK n \in Nat : attempts' = n
    BY SizesAreNat DEF TypeOK, SenderTypeOK
  <2>3. Transmissions' \in Nat
    BY <2>2 DEF Transmissions
  <2> QED BY <2>1, <2>3, CountsAreNat
<1>1. CASE S_OpeningTimesOut \/ S_ReceivesUA \/ S_ReadsFile \/ S_IgnoresAck \/ S_OpenFails
  <2>1. /\ UNCHANGED <<pkt, seq, attempts>> /\ Transmissions' = Transmissions
        /\ Drops(t2r, t2r') /\ Drops(r2t, r2t')
    BY <1>1
    DEF S_OpeningTimesOut, S_ReceivesUA, S_ReadsFile, S_IgnoresAck, S_OpenFails,
        Transmissions, line, sndVars, Drops
  <2> QED BY <1>0, <2>1, CopiesKept
<1>2. CASE S_TimesOut \/ S_WriteFails
  <2>1. /\ UNCHANGED <<pkt, seq>> /\ Transmissions' >= Transmissions
        /\ Drops(t2r, t2r') /\ Drops(r2t, r2t')
    BY <1>0, <1>2 DEF S_TimesOut, S_WriteFails, AttemptFails, Transmissions, line, Drops
  <2> QED BY <1>0, <2>1, CopiesKept
<1>3. CASE S_Transmits
  <2>1. Transmissions' = Transmissions + 1 /\ UNCHANGED <<pkt, seq, r2t>>
    BY <1>0, <1>3 DEF S_Transmits, Transmissions
  <2>2. /\ Len(t2r') = Len(t2r) + 1
        /\ \A i \in 1..Len(t2r) : t2r'[i] = t2r[i]
    BY <1>0, <1>3, AppendExtends, FramesAreTyped DEF S_Transmits, TypeOK, SenderTypeOK
  <2>3. ASSUME NEW i \in 1..Len(t2r'), t2r'[i].pkt = pkt'
        PROVE  Len(t2r') - i < Transmissions'
    <3>1. CASE i = Len(t2r) + 1
      BY <1>0, <2>1, <2>2, <3>1
    <3>2. CASE i \in 1..Len(t2r)
      <4>1. Len(t2r) - i < Transmissions
        BY <2>1, <2>2, <2>3, <3>2 DEF Copies
      <4> QED BY <1>0, <2>1, <2>2, <3>2, <4>1
    <3> QED BY <1>0, <2>2, <3>1, <3>2
  <2>4. Len(t2r') + Len(r2t') < Transmissions' + MaxRetries
    BY <1>0, <2>1, <2>2 DEF Copies
  <2>5. ASSUME Delivered' # pkt'
        PROVE  /\ Len(t2r') < Transmissions'
               /\ \A j \in 1..Len(r2t') :
                    r2t'[j] = AckCtrl(seq') => Len(t2r') + Len(r2t') - j < Transmissions'
    BY <1>0, <2>1, <2>2, <2>5 DEF Copies
  <2> QED BY <2>3, <2>4, <2>5 DEF Copies
<1>4. CASE S_ReceivesAck
  <2>1. /\ Released /\ UNCHANGED t2r /\ Delivered = pkt + 1
        /\ r2t # << >> /\ Head(r2t) = AckCtrl(seq) /\ r2t' = Tail(r2t)
    BY <1>4, BelievedAck DEF S_ReceivesAck, Released
  <2>2. 1 \in 1..Len(r2t) /\ r2t[1] = AckCtrl(seq) /\ Len(r2t') = Len(r2t) - 1
    BY <1>0, <2>1, CountsAreNat, TailShifts
  <2>3. /\ Len(t2r) + Len(r2t) - 1 < Transmissions
        /\ Transmissions = attempts + 1 /\ attempts < MaxRetries
    BY <1>0, <1>4, <2>1, <2>2
    DEF Copies, S_ReceivesAck, Transmissions, LinkInv, Counters
  <2>4. CASE pkt = NumChunks
    <3>1. pkt' = pkt /\ seq' = seq /\ Transmissions' = Transmissions
      BY <1>4, <2>4 DEF S_ReceivesAck, NextPacket, Transmissions
    <3>2. Drops(t2r, t2r') /\ Drops(r2t, r2t')
      BY <2>1 DEF Drops
    <3> QED BY <1>0, <3>1, <3>2, CopiesKept
  <2>5. CASE pkt # NumChunks
    <3>1. pkt' = pkt + 1 /\ Transmissions' = 0
      BY <1>4, <2>5 DEF S_ReceivesAck, NextPacket, Transmissions
    <3>2. \A i \in 1..Len(t2r') : t2r'[i].pkt # pkt'
      BY <1>0, <2>1, <3>1 DEF Released
    <3>3. Len(t2r') + Len(r2t') < MaxRetries
      BY <1>0, <2>1, <2>2, <2>3
    <3> QED BY <1>0, <2>1, <3>1, <3>2, <3>3 DEF Copies
  <2> QED BY <2>4, <2>5
<1> QED
  BY <1>1, <1>2, <1>3, <1>4 DEF Sender, SenderNext, SenderRuns, SenderFaults

(* An answer takes the place of the frame it answers.                      *)
LEMMA AnswerShifts ==
    ASSUME TypeOK, t2r # << >>, NEW b \in {0, 1}, Answers(AckCtrl(b))
    PROVE  /\ Len(t2r') = Len(t2r) - 1 /\ Len(r2t') = Len(r2t) + 1
           /\ \A i \in 1..Len(t2r') : i + 1 \in 1..Len(t2r) /\ t2r'[i] = t2r[i + 1]
           /\ \A j \in 1..Len(r2t) : r2t'[j] = r2t[j]
  BY CountsAreNat, TailShifts, AppendExtends, FramesAreTyped DEF Answers

LEMMA AnswersKeepCopies ==
    ASSUME TypeOK, Copies, t2r # << >>, NEW b \in {0, 1}, Answers(AckCtrl(b)),
           pkt' = pkt, seq' = seq, Transmissions' = Transmissions,
           \/ Delivered' = Delivered
           \/ /\ t2r[1].pkt = pkt
              /\ \A j \in 1..Len(r2t) : r2t[j] # AckCtrl(seq)
    PROVE  Copies'
<1>1. /\ Len(t2r) \in Nat /\ Len(r2t) \in Nat /\ Transmissions \in Nat
      /\ MaxRetries \in Nat /\ Len(t2r) >= 1
  BY CountsAreNat, TailShifts
<1>2. /\ Len(t2r') = Len(t2r) - 1 /\ Len(r2t') = Len(r2t) + 1
      /\ \A i \in 1..Len(t2r') : i + 1 \in 1..Len(t2r) /\ t2r'[i] = t2r[i + 1]
      /\ \A j \in 1..Len(r2t) : r2t'[j] = r2t[j]
  BY AnswerShifts
<1>3. Len(t2r') + Len(r2t') < Transmissions' + MaxRetries
  BY <1>1, <1>2 DEF Copies
<1>4. ASSUME NEW i \in 1..Len(t2r'), t2r'[i].pkt = pkt'
      PROVE  Len(t2r') - i < Transmissions'
  <2>1. Len(t2r) - (i + 1) < Transmissions
    BY <1>2, <1>4 DEF Copies
  <2> QED BY <1>1, <1>2, <2>1
<1>5. ASSUME Delivered' # pkt'
      PROVE  /\ Len(t2r') < Transmissions'
             /\ \A j \in 1..Len(r2t') :
                   r2t'[j] = AckCtrl(seq') => Len(t2r') + Len(r2t') - j < Transmissions'
  <2>1. Len(t2r') < Transmissions'
    <3>1. CASE Delivered' = Delivered
      BY <1>1, <1>2, <1>5, <3>1 DEF Copies
    <3>2. CASE t2r[1].pkt = pkt
      <4>1. Len(t2r) - 1 < Transmissions
        BY <1>1, <3>2 DEF Copies
      <4> QED BY <1>2, <4>1
    <3> QED BY <3>1, <3>2
  <2>2. ASSUME NEW j \in 1..Len(r2t'), r2t'[j] = AckCtrl(seq')
        PROVE  Len(t2r') + Len(r2t') - j < Transmissions'
    <3>1. CASE j = Len(r2t) + 1
      BY <1>1, <1>2, <2>1, <3>1
    <3>2. CASE j \in 1..Len(r2t)
      <4>1. r2t[j] = AckCtrl(seq) /\ Delivered # pkt
        BY <1>2, <1>5, <2>2, <3>2
      <4>2. Len(t2r) + Len(r2t) - j < Transmissions
        BY <3>2, <4>1 DEF Copies
      <4> QED BY <1>1, <1>2, <4>2
    <3> QED BY <1>1, <1>2, <3>1, <3>2
  <2> QED BY <2>1, <2>2
<1> QED BY <1>3, <1>4, <1>5 DEF Copies

(* The receiver's steps: the copy it acknowledges has left the line, and   *)
(* those before it, of the previous packet, have too.                      *)
LEMMA ReceiverKeepsCopies ==
    ASSUME TypeOK, TypeOK', LinkInv, ~Handshake, Copies, Receiver
    PROVE  Copies'
<1>0. /\ UNCHANGED sndVars /\ pkt' = pkt /\ seq' = seq /\ Transmissions' = Transmissions
      /\ Transmissions \in Nat /\ Len(t2r) \in Nat /\ pkt \in Nat /\ t2r \in Seq(Frame)
  BY CountsAreNat DEF Receiver, sndVars, Transmissions
<1>1. ~R_OpensPort /\ ~R_OpenFails /\ ~R_OpeningTimesOut /\ ~R_ReceivesSet
  BY DEF LinkInv, Transfer, R_OpensPort, R_OpenFails, R_OpeningTimesOut, R_ReceivesSet
<1>2. CASE R_Acknowledges
  <2>1. /\ Outstanding /\ Head(t2r).pkt = pkt /\ expectedSeq \in {0, 1}
        /\ Head(t2r).ctrl = expectedSeq /\ t2r # << >> /\ Answers(AckCtrl(expectedSeq))
    BY <1>2, AcceptedIsNext DEF R_Acknowledges, Echo, TypeOK, ReceiverTypeOK
  <2>2. t2r[1].pkt = pkt
    BY <1>0, <2>1, TailShifts
  <2> QED BY <1>0, <2>1, <2>2, AnswersKeepCopies DEF Outstanding
<1>3. CASE R_AnswersDuplicate \/ R_RejectsDamaged
  <2>1. /\ t2r # << >> /\ Answers(AckCtrl(Toggle(expectedSeq)))
        /\ UNCHANGED <<rpc, received>> /\ Toggle(expectedSeq) \in {0, 1}
    BY <1>3, AcksDiffer
    DEF R_AnswersDuplicate, R_RejectsDamaged, Echo, Nack, TypeOK, ReceiverTypeOK
  <2>2. Delivered' = Delivered
    BY <2>1 DEF Delivered, Stored
  <2> QED BY <1>0, <2>1, <2>2, AnswersKeepCopies
<1>4. CASE R_Takes \/ R_ReadsOver \/ R_ReadsNothing \/ R_ReadFails \/ R_SavesFile
  <2>1. Drops(t2r, t2r') /\ Drops(r2t, r2t')
    BY <1>4
    DEF R_Takes, R_ReadsOver, R_ReadsNothing, R_ReadFails, R_SavesFile, line, Drops
  <2>2. Delivered' = Delivered
    <3>1. CASE R_Takes
      BY <3>1, TakesNext DEF LinkInv
    <3>2. CASE ~R_Takes
      BY <1>4, <3>2
      DEF R_ReadsOver, R_ReadsNothing, R_ReadFails, R_SavesFile, Abandons, Reading,
          Delivered, Stored
    <3> QED BY <3>1, <3>2
  <2> QED BY <1>0, <2>1, <2>2, CopiesKept
<1> QED BY <1>1, <1>2, <1>3, <1>4 DEF Receiver, ReceiverNext, ReceiverRuns, ReceiverFaults

LEMMA LineKeepsCopies ==
    ASSUME TypeOK, Copies, Line \/ UNCHANGED vars
    PROVE  Copies'
<1>1. /\ Drops(t2r, t2r') /\ Drops(r2t, r2t')
      /\ pkt' = pkt /\ seq' = seq /\ Delivered' = Delivered /\ Transmissions' = Transmissions
  BY DEF Line, LoseForward, LoseBackward, vars, line, sndVars, rcvVars, Delivered, Stored,
         Transmissions, Drops
<1> QED BY <1>1, CountsAreNat, CopiesKept

(* The handshake ends with the UA, and with nothing on the line.           *)
Cleared == t2r = << >> /\ r2t = << >> /\ Delivered = pkt

LEMMA LeavesHandshake ==
    ASSUME TypeOK, LinkInv, Handshake, [Next]_vars
    PROVE  Handshake' \/ Cleared'
<1>1. CASE Sender
  <2>1. CASE S_SendSet
    BY <1>1, <2>1, SendSetLinked DEF Sender
  <2>2. CASE S_OpeningTimesOut \/ S_OpenFails
    BY <1>1, <2>2
    DEF Sender, S_OpeningTimesOut, S_OpenFails, Handshake, line, rcvVars
  <2>3. CASE S_ReceivesUA
    <3>1. t2r = << >> /\ r2t = <<C_UA>> /\ rpc \in {"size", "failed"} /\ pkt = 0
      BY <2>3 DEF S_ReceivesUA, Handshake
    <3>2. t2r' = << >> /\ r2t' = << >> /\ pkt' = 0 /\ rpc' = rpc
      BY <1>1, <2>3, <3>1 DEF S_ReceivesUA, Sender, rcvVars
    <3>3. Stored' = 0 /\ rpc' \notin Acknowledged
      BY <3>1, <3>2 DEF Stored
    <3>4. Delivered' = 0
      BY <3>3 DEF Delivered
    <3> QED BY <3>2, <3>4 DEF Cleared
  <2> QED BY <1>1, <2>1, <2>2, <2>3
          DEF Handshake, Sender, SenderNext, SenderRuns, SenderFaults, S_ReadsFile,
              S_Transmits, S_ReceivesAck, S_IgnoresAck, S_TimesOut, S_WriteFails, S_OpenFails
<1>2. CASE Receiver
  <2>1. CASE R_OpensPort
    BY <1>2, <2>1, OpensPortLinked DEF Receiver
  <2>2. CASE R_OpenFails \/ R_OpeningTimesOut
    BY <1>2, <2>2
    DEF Receiver, R_OpenFails, R_OpeningTimesOut, Handshake, line, sndVars
  <2>3. CASE R_ReceivesSet
    <3>1. t2r = <<SetFrame>> /\ r2t = << >> /\ spc # "start"
      BY <2>3 DEF R_ReceivesSet, Handshake
    <3>2. t2r' = << >> /\ r2t' = <<C_UA>>
      BY <2>3, <3>1 DEF R_ReceivesSet
    <3> QED BY <1>2, <2>3, <3>1, <3>2 DEF Receiver, R_ReceivesSet, Handshake, sndVars
  <2>4. CASE R_ReadsNothing \/ R_ReadFails
    BY <1>2, <2>4
    DEF Receiver, R_ReadsNothing, R_ReadFails, Abandons, Reading, Handshake, line, sndVars
  <2>5. ~(Reading /\ t2r # << >>) /\ ~R_Takes /\ ~R_SavesFile
    BY TakesNext DEF Reading, Handshake, R_SavesFile, LinkInv
  <2> QED BY <1>2, <2>1, <2>2, <2>3, <2>4, <2>5
          DEF Receiver, ReceiverNext, ReceiverRuns, ReceiverFaults, R_Acknowledges,
              R_AnswersDuplicate, R_RejectsDamaged, R_ReadsOver
<1>3. CASE Line
  <2>1. t2r' = << >> /\ r2t' = << >> /\ spc # "start"
    <3>1. CASE LoseForward
      <4>1. t2r = <<SetFrame>> /\ r2t = << >> /\ spc # "start"
        BY <3>1 DEF LoseForward, Handshake
      <4> QED BY <3>1, <4>1 DEF LoseForward
    <3>2. CASE LoseBackward
      <4>1. t2r = << >> /\ r2t = <<C_UA>> /\ spc # "start"
        BY <3>2 DEF LoseBackward, Handshake
      <4> QED BY <3>2, <4>1 DEF LoseBackward
    <3> QED BY <1>3, <3>1, <3>2 DEF Line
  <2> QED BY <1>3, <2>1 DEF Line, Handshake, sndVars, rcvVars
<1>4. CASE UNCHANGED vars
  BY <1>4 DEF vars, line, sndVars, rcvVars, Handshake
<1> QED BY <1>1, <1>2, <1>3, <1>4 DEF Next

(* In every execution, besides what LinkCorrect says, a packet has no more *)
(* copies and answers on the line than it was transmitted, and fewer once  *)
(* one of them was accepted.                                               *)
THEOREM TransferCorrect == Spec => []TransferInv
<1>1. Init => TransferInv
  BY InitLinked DEF Init, LineInit, SenderInit, ReceiverInit, TransferInv, Handshake
<1>2. /\ TypeOK /\ LinkInv /\ (TypeOK /\ LinkInv)'
      /\ TransferInv /\ [Next]_vars
      => TransferInv'
  <2> SUFFICES ASSUME TypeOK, LinkInv, TypeOK', LinkInv', TransferInv, [Next]_vars
               PROVE  Handshake' \/ Copies'
    BY DEF TransferInv
  <2>1. CASE Handshake
    <3>1. ASSUME Cleared' PROVE Copies'
      <4>1. Len(t2r') = 0 /\ Len(r2t') = 0 /\ Delivered' = pkt'
        BY <3>1, EmptySeq DEF Cleared
      <4>2. PICK n \in Nat : attempts' = n
        BY SizesAreNat DEF TypeOK, SenderTypeOK
      <4>3. Transmissions' \in Nat
        <5>1. CASE spc' \in {"waitAck", "done"}
          BY <4>2, <5>1 DEF Transmissions
        <5>2. CASE spc' \notin {"waitAck", "done"}
          BY <4>2, <5>2 DEF Transmissions
        <5> QED BY <5>1, <5>2
      <4>4. 0 + 0 < Transmissions' + MaxRetries
        <5>1. PICK m \in Nat : Transmissions' = m
          BY <4>3
        <5> QED BY <5>1, SizesAreNat
      <4> QED BY <4>1, <4>4 DEF Copies
    <3> QED BY <2>1, <3>1, LeavesHandshake
  <2>2. CASE ~Handshake
    <3>1. Copies /\ ~S_SendSet
      BY <2>2 DEF TransferInv, LinkInv, Transfer, S_SendSet
    <3> QED BY <2>2, <3>1, SenderKeepsCopies, ReceiverKeepsCopies, LineKeepsCopies DEF Next
  <2> QED BY <2>1, <2>2
<1> QED BY <1>1, <1>2, LinkCorrect, PTL DEF Spec

(* Fewer frames and answers are on the line than every attempt of two      *)
(* packets, whatever the line and the scheduler hold back.                 *)
THEOREM BacklogBoundedHolds == Spec => []BacklogBounded
<1>1. TypeOK /\ TransferInv => BacklogBounded
  <2> SUFFICES ASSUME TypeOK, TransferInv
               PROVE  Len(t2r) + Len(r2t) <= 2 * MaxRetries - 1
    BY DEF BacklogBounded
  <2>1. CASE Handshake
    <3>0. Len(<<SetFrame>>) = 1 /\ Len(<<C_UA>>) = 1
      OBVIOUS
    <3>1. Len(t2r) + Len(r2t) <= 1
      <4>1. CASE t2r = << >> /\ r2t = << >>
        BY <4>1, EmptySeq
      <4>2. CASE t2r = <<SetFrame>> /\ r2t = << >>
        BY <3>0, <4>2, EmptySeq
      <4>3. CASE t2r = << >> /\ r2t = <<C_UA>>
        BY <3>0, <4>3, EmptySeq
      <4> QED BY <2>1, <4>1, <4>2, <4>3 DEF Handshake
    <3> QED BY <3>1, CountsAreNat
  <2>2. CASE Copies
    <3>1. Transmissions <= MaxRetries
      <4>1. CASE spc \in {"waitAck", "done"}
        BY <4>1, CountsAreNat DEF Transmissions, TransferInv, LinkInv, Counters
      <4>2. CASE spc \notin {"waitAck", "done"}
        BY <4>2, CountsAreNat DEF Transmissions, TypeOK, SenderTypeOK
      <4> QED BY <4>1, <4>2
    <3> QED BY <2>2, <3>1, CountsAreNat DEF Copies
  <2> QED BY <2>1, <2>2 DEF TransferInv
<1> QED BY <1>1, LinkCorrect, TransferCorrect, PTL

(* Every variable stays in its type; the counters within their limits.     *)
THEOREM TypesHold == Spec => []TypeOK
<1> QED BY LinkCorrect, PTL
=============================================================================
