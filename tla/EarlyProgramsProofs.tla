------------------------ MODULE EarlyProgramsProofs -------------------------
(***************************************************************************)
(* Proofs about EarlyPrograms: the alarm of the three programs, whenever   *)
(* it goes off, and the two handshakes, whatever the line does and however *)
(* many bytes a read waits for.                                            *)
(***************************************************************************)
EXTENDS EarlyPrograms, SequenceTheorems, TLAPS

(***************************************************************************)
(* The line.                                                               *)
(***************************************************************************)
LEMMA BytesAreNat ==
    /\ Bytes \subseteq Nat
    /\ \A c \in {C_SET, C_UA} : Frame(c) \in Seq(Nat) /\ Len(Frame(c)) = 5
    /\ Answer \in Seq(Nat) /\ Len(Answer) = 5
<1>1. Bytes \subseteq Nat
  BY DEF Bytes, FLAG, A, C_SET, C_UA, Bcc
<1>2. ASSUME NEW c \in {C_SET, C_UA} PROVE Frame(c) \in Seq(Nat) /\ Len(Frame(c)) = 5
  BY DEF Frame, FLAG, A, C_SET, C_UA, Bcc
<1>3. Answer \in Seq(Nat) /\ Len(Answer) = 5
  BY DEF Answer, FLAG, C_UA
<1> QED BY <1>1, <1>2, <1>3

(* Losing or changing a byte leaves a sequence of bytes, none the longer.  *)
LEMMA MangledIsNoLonger ==
    ASSUME NEW q \in Seq(Nat), q # << >>, NEW r \in Mangled(q)
    PROVE  r \in Seq(Nat) /\ Len(r) \in Nat /\ Len(q) \in Nat /\ Len(r) <= Len(q)
<1>1. Tail(q) \in Seq(Nat) /\ Len(Tail(q)) = Len(q) - 1 /\ Len(q) \in Nat
  BY HeadTailProperties, LenProperties
<1>2. CASE r = Tail(q)
  BY <1>1, <1>2, LenProperties
<1>3. CASE r # Tail(q)
  <2>1. PICK b \in Bytes : r = <<b>> \o Tail(q)
    BY <1>3 DEF Mangled
  <2>2. <<b>> \in Seq(Nat) /\ Len(<<b>>) = 1
    BY BytesAreNat
  <2> QED BY <1>1, <2>1, <2>2, ConcatProperties, LenProperties
<1> QED BY <1>2, <1>3

(* What a read of the first n bytes leaves.                                *)
LEMMA RestIsNoLonger ==
    ASSUME NEW q \in Seq(Nat), NEW n \in Nat, n <= Len(q)
    PROVE  /\ SubSeq(q, n + 1, Len(q)) \in Seq(Nat)
           /\ Len(SubSeq(q, n + 1, Len(q))) = Len(q) - n
           /\ Len(q) \in Nat
  BY LenProperties, SubSeqProperties

(***************************************************************************)
(* The automaton.                                                          *)
(***************************************************************************)
LEMMA AfterByteIsState ==
    ASSUME NEW c, NEW s \in States, NEW byte
    PROVE  AfterByte(c, s, byte) \in States
  BY DEF AfterByte, States

(* A whole frame is recognised from every state: its first FLAG either     *)
(* ends the frame the automaton was in or begins this one.                 *)
LEMMA FrameIsRecognised ==
    ASSUME NEW c \in {C_SET, C_UA}, NEW s \in States
    PROVE  AfterFrame(c, s) = "STOP_STATE"
<1>1. AfterNext(c, s, FLAG) \in {"FLAG_RCV", "STOP_STATE"}
  BY DEF AfterNext, AfterByte, States, FLAG, A, C_SET, C_UA, Bcc
<1>2. CASE AfterNext(c, s, FLAG) = "STOP_STATE"
  BY <1>2 DEF AfterFrame, AfterNext
<1>3. CASE AfterNext(c, s, FLAG) = "FLAG_RCV"
  <2>1. AfterNext(c, "FLAG_RCV", A) = "A_RCV"
    BY DEF AfterNext, AfterByte, A, FLAG
  <2>2. AfterNext(c, "A_RCV", c) = "C_RCV"
    BY DEF AfterNext, AfterByte, A, FLAG, C_SET, C_UA
  <2>3. AfterNext(c, "C_RCV", Bcc(c)) = "BCC_OK"
    BY DEF AfterNext, AfterByte, A, FLAG, C_SET, C_UA, Bcc
  <2>4. AfterNext(c, "BCC_OK", FLAG) = "STOP_STATE"
    BY DEF AfterNext, AfterByte, A, FLAG
  <2> QED BY <1>3, <2>1, <2>2, <2>3, <2>4 DEF AfterFrame
<1> QED BY <1>1, <1>2, <1>3

(***************************************************************************)
(* The invariant has three parts: what is said of the sender and its       *)
(* alarm, which only they change, the types of the flags, and what is said *)
(* of the line and the receivers.                                          *)
(***************************************************************************)
SenderPart == /\ program \in {"example", "polling", "blocking"}
              /\ alarmCount \in 0..5 /\ state \in States
              /\ setsSent \in Nat /\ setsWritten \in Nat /\ readsReturned \in Nat
              /\ StopIsSeen /\ NoAlarmUnawaited /\ AlarmAwaited
              /\ CountIsTested /\ SetsArePaired /\ TurnsReturnBytes

FlagsTyped == alarmEnabled \in BOOLEAN /\ pending \in BOOLEAN /\ heldUp \in BOOLEAN

LinePart == /\ toReceiver \in Seq(Nat) /\ toSender \in Seq(Nat)
            /\ rstate \in States
            /\ OneAnswer

senderVars == <<program, pc, alarmVars, pollVars, blockVars>>

LEMMA ThreeParts == EarlyInv <=> SenderPart /\ FlagsTyped /\ LinePart
  BY DEF EarlyInv, TypeOK, AlarmTypeOK, SenderPart, FlagsTyped, LinePart

LEMMA InitHolds == Init => EarlyInv
<1> SUFFICES ASSUME Init PROVE SenderPart /\ FlagsTyped /\ LinePart
  BY ThreeParts
<1>1. SenderPart
  BY DEF Init, AlarmInit, SenderPart, States, StopIsSeen, NoAlarmUnawaited,
         AlarmAwaited, CountIsTested, Within, Limit, SetsArePaired, TurnsReturnBytes
<1>2. LinePart
  BY EmptySeq DEF Init, LinePart, States, OneAnswer
<1>3. FlagsTyped
  BY DEF Init, AlarmInit, FlagsTyped
<1> QED BY <1>1, <1>2, <1>3

(***************************************************************************)
(* The sender's part.                                                      *)
(***************************************************************************)
LEMMA ExampleSteps ==
    ASSUME SenderPart, Example
    PROVE  SenderPart'
<1> USE DEF SenderPart, Example, pollVars, blockVars, At, Goto,
            States, StopIsSeen, NoAlarmUnawaited, AlarmAwaited, CountIsTested,
            Within, Limit, SetsArePaired, TurnsReturnBytes, alarmVars
<1>1. CASE E_Configures
  BY <1>1 DEF E_Configures
<1>2. CASE E_TestsCount
  BY <1>2 DEF E_TestsCount, Ends, ClearsAlarm
<1>3. CASE E_TestsEnabled
  BY <1>3 DEF E_TestsEnabled
<1>4. CASE E_SetsAlarm
  BY <1>4 DEF E_SetsAlarm, SetsAlarm
<1>5. CASE E_Enables
  BY <1>5 DEF E_Enables, Enables
<1> QED BY <1>1, <1>2, <1>3, <1>4, <1>5 DEF ExampleRuns

LEMMA PollingSteps ==
    ASSUME SenderPart, Polling
    PROVE  SenderPart'
<1> USE DEF SenderPart, Polling, pollVars, blockVars, At, Goto,
            StopIsSeen, NoAlarmUnawaited, AlarmAwaited, CountIsTested,
            Within, Limit, SetsArePaired, TurnsReturnBytes, alarmVars
<1>1. CASE P_Opens \/ P_Waits \/ P_ReadsNothing
  BY <1>1 DEF P_Opens, P_Waits, P_ReadsNothing
<1>2. CASE P_TestsLoop
  BY <1>2 DEF P_TestsLoop, Ends, ClearsAlarm
<1>3. CASE P_SendsSet
  BY <1>3 DEF P_SendsSet
<1>4. CASE P_SetsAlarm
  BY <1>4 DEF P_SetsAlarm, SetsAlarm
<1>5. CASE P_Enables
  BY <1>5 DEF P_Enables, Enables, States
<1>6. CASE P_Reads
  <2>1. state' \in States
    BY <1>6, AfterByteIsState DEF P_Reads
  <2> QED BY <1>6, <2>1 DEF P_Reads, ClearsAlarm
<1> QED BY <1>1, <1>2, <1>3, <1>4, <1>5, <1>6 DEF PollingRuns

LEMMA BlockingSteps ==
    ASSUME SenderPart, Blocking
    PROVE  SenderPart'
<1> USE DEF SenderPart, Blocking, pollVars, blockVars, At, Goto,
            StopIsSeen, NoAlarmUnawaited, AlarmAwaited, CountIsTested,
            Within, Limit, SetsArePaired, TurnsReturnBytes, alarmVars
<1>1. CASE B_Opens \/ B_GoesOnWaiting \/ B_CallsRead
  BY <1>1 DEF B_Opens, B_GoesOnWaiting, B_CallsRead
<1>2. CASE B_TestsCount
  BY <1>2 DEF B_TestsCount, Ends, ClearsAlarm
<1>3. CASE B_SendsSet
  BY <1>3 DEF B_SendsSet
<1>4. CASE B_SetsAlarm
  BY <1>4 DEF B_SetsAlarm, SetsAlarm
<1>5. CASE B_Enables
  BY <1>5 DEF B_Enables, Enables
<1>6. CASE B_Reads
  BY <1>6 DEF B_Reads, ReadReturns
<1> QED BY <1>1, <1>2, <1>3, <1>4, <1>5, <1>6 DEF BlockingRuns

(* The handler may run between any two of those steps.                     *)
LEMMA HandlerRuns ==
    ASSUME SenderPart, NEW tooSoon \in BOOLEAN, GoesOff(tooSoon),
           pc = "enable" => tooSoon, UNCHANGED <<program, pollVars, setsWritten>>,
           \/ pc' = pc /\ UNCHANGED readsReturned
           \/ pc = "read" /\ pc' = "ended" /\ UNCHANGED readsReturned
           \/ pc = "read" /\ pc' = "while" /\ readsReturned' = readsReturned + 1
    PROVE  SenderPart'
<1>1. pending /\ ~pending' /\ ~alarmEnabled' /\ alarmCount' = alarmCount + 1
  BY DEF GoesOff, alarmHandler
<1>2. pc = "enable" => heldUp'
  BY DEF GoesOff
<1>3. pc # "alarm"
  BY <1>1 DEF SenderPart, NoAlarmUnawaited
<1>4. StopIsSeen' /\ NoAlarmUnawaited' /\ AlarmAwaited'
  BY <1>1, <1>2, <1>3
  DEF SenderPart, StopIsSeen, NoAlarmUnawaited, AlarmAwaited, pollVars
<1>5. alarmCount' \in 0..5 /\ CountIsTested'
  BY <1>1, <1>3 DEF SenderPart, CountIsTested, Within, Limit
<1>6. SetsArePaired' /\ TurnsReturnBytes'
  BY <1>1, <1>3 DEF SenderPart, SetsArePaired, TurnsReturnBytes, pollVars
<1> QED BY <1>4, <1>5, <1>6 DEF SenderPart, pollVars

LEMMA AlarmSteps ==
    ASSUME SenderPart, Alarm
    PROVE  SenderPart'
<1>1. CASE E_GoesOff /\ UNCHANGED <<pollVars, blockVars>>
  BY <1>1, HandlerRuns DEF E_GoesOff, blockVars
<1>2. CASE P_GoesOff /\ UNCHANGED blockVars
  BY <1>2, HandlerRuns DEF P_GoesOff, blockVars
<1>3. CASE B_GoesOff /\ UNCHANGED pollVars
  <2>1. /\ UNCHANGED <<program, pollVars, setsWritten>>
        /\ \/ pc' = pc /\ UNCHANGED readsReturned
           \/ pc = "read" /\ pc' = "ended" /\ UNCHANGED readsReturned
           \/ pc = "read" /\ pc' = "while" /\ readsReturned' = readsReturned + 1
    BY <1>3 DEF B_GoesOff, B_Interrupted, ReadReturns, Goto, blockVars
  <2> DEFINE tooSoon == pc \in {"enable", "callRead"}
  <2>2. GoesOff(tooSoon) /\ tooSoon \in BOOLEAN /\ (pc = "enable" => tooSoon)
    BY <1>3 DEF B_GoesOff
  <2> HIDE DEF tooSoon
  <2> QED BY <2>1, <2>2, HandlerRuns
<1> QED BY <1>1, <1>2, <1>3 DEF Alarm

(* The receivers and the line do not touch it. *)
LEMMA OthersLeaveSender ==
    ASSUME SenderPart, Peer \/ Line \/ UNCHANGED vars
    PROVE  SenderPart'
<1>1. UNCHANGED senderVars
  BY DEF Peer, Line, vars, senderVars
<1> QED
  BY <1>1
  DEF senderVars, SenderPart, StopIsSeen, NoAlarmUnawaited, AlarmAwaited,
      CountIsTested, Within, Limit, SetsArePaired, TurnsReturnBytes, alarmVars, pollVars,
      blockVars

(***************************************************************************)
(* The flags, and the part of the line and the receivers.                  *)
(***************************************************************************)
LEMMA FlagsStayTyped ==
    ASSUME FlagsTyped, [Next]_vars
    PROVE  FlagsTyped'
<1> USE DEF FlagsTyped
<1>1. CASE Peer \/ Line \/ UNCHANGED vars
  BY <1>1 DEF Peer, Line, vars, alarmVars
<1>2. CASE Example
  BY <1>2
  DEF Example, ExampleRuns, E_Configures, E_TestsCount, E_TestsEnabled, E_SetsAlarm,
      E_Enables, Ends, SetsAlarm, ClearsAlarm, Enables, alarmVars
<1>3. CASE Polling
  BY <1>3
  DEF Polling, PollingRuns, P_Opens, P_TestsLoop, P_Waits, P_SendsSet, P_SetsAlarm,
      P_Enables, P_Reads, P_ReadsNothing, Ends, SetsAlarm, ClearsAlarm, Enables, alarmVars
<1>4. CASE Blocking
  BY <1>4
  DEF Blocking, BlockingRuns, B_Opens, B_TestsCount, B_GoesOnWaiting, B_SendsSet,
      B_SetsAlarm, B_Enables, B_CallsRead, B_Reads, ReadReturns, Ends, SetsAlarm,
      ClearsAlarm, Enables, alarmVars
<1>5. CASE Alarm
  <2>1. GoesOff(pc = "enable") \/ GoesOff(pc \in {"enable", "callRead"})
    BY <1>5 DEF Alarm, E_GoesOff, P_GoesOff, B_GoesOff
  <2> QED BY <2>1 DEF GoesOff, alarmHandler
<1> QED BY <1>1, <1>2, <1>3, <1>4, <1>5 DEF Next

(* The program under way writes to one direction and reads the other.      *)
LEMMA SenderOnLine ==
    ASSUME LinePart, SenderPart, Polling \/ Blocking
    PROVE  LinePart'
<1> USE DEF LinePart
<1>1. program' = program /\ UNCHANGED <<rpc, rstate, listener>>
  BY DEF Polling, PollingRuns, P_Opens, P_TestsLoop, P_Waits, P_SendsSet, P_SetsAlarm,
      P_Enables, P_Reads, P_ReadsNothing, Ends, Goto, peerVars, Blocking, BlockingRuns,
      B_Opens, B_TestsCount, B_GoesOnWaiting, B_SendsSet, B_SetsAlarm, B_Enables,
      B_CallsRead, B_Reads, ReadReturns
<1>2. toReceiver' \in Seq(Nat)
  <2>1. toReceiver' = toReceiver \/ toReceiver' = toReceiver \o Frame(C_SET)
    BY DEF Polling, PollingRuns, P_Opens, P_TestsLoop, P_Waits, P_SendsSet, P_SetsAlarm,
      P_Enables, P_Reads, P_ReadsNothing, Blocking, BlockingRuns, B_Opens, B_TestsCount,
      B_GoesOnWaiting, B_SendsSet, B_SetsAlarm, B_Enables, B_CallsRead, B_Reads,
      ReadReturns, bytesOnLine
  <2> QED BY <2>1, BytesAreNat, ConcatProperties
<1>3. toSender' \in Seq(Nat) /\ OneAnswer'
  <2>1. CASE P_Reads
    <3>1. toSender # << >> /\ toSender' = Tail(toSender)
      BY <2>1 DEF P_Reads
    <3>2. toSender' \in Seq(Nat) /\ Len(toSender') = Len(toSender) - 1
          /\ Len(toSender) \in Nat
      BY <3>1, HeadTailProperties, LenProperties
    <3> QED BY <1>1, <3>1, <3>2, <2>1 DEF OneAnswer, P_Reads, At
  <2>2. CASE B_Reads
    <3>1. BUF_SIZE \in Nat /\ BUF_SIZE >= 1
      BY BufAssumption
    <3>2. /\ toSender' \in Seq(Nat) /\ Len(toSender') = Len(toSender) - BUF_SIZE
          /\ Len(toSender) \in Nat /\ Len(toSender) >= BUF_SIZE
      BY <2>2, <3>1, RestIsNoLonger, LenProperties DEF B_Reads, ReadReturns
    <3>3. toSender # << >>
      BY <3>1, <3>2, EmptySeq
    <3> QED BY <1>1, <2>2, <3>1, <3>2, <3>3 DEF OneAnswer, B_Reads, At
  <2>3. CASE ~P_Reads /\ ~B_Reads
    <3>1. toSender' = toSender
      BY <2>3
      DEF Polling, PollingRuns, P_Opens, P_TestsLoop, P_Waits, P_SendsSet, P_SetsAlarm,
          P_Enables, P_ReadsNothing, Blocking, BlockingRuns, B_Opens, B_TestsCount,
          B_GoesOnWaiting, B_SendsSet, B_SetsAlarm, B_Enables, B_CallsRead, bytesOnLine
    <3> QED BY <1>1, <3>1 DEF OneAnswer
  <2> QED BY <2>1, <2>2, <2>3
<1> QED BY <1>1, <1>2, <1>3

LEMMA PeerOnLine ==
    ASSUME LinePart, SenderPart, Peer
    PROVE  LinePart'
<1> USE DEF LinePart
<1>1. CASE R_Opens /\ UNCHANGED <<program, listener>>
  <2>1. CASE rpc' = "failed"
    BY <1>1, <2>1 DEF R_Opens, OneAnswer
  <2>2. CASE rpc' = "reading"
    <3>1. PICK n \in 0..Len(toReceiver) :
            toReceiver' = SubSeq(toReceiver, n + 1, Len(toReceiver))
      BY <1>1, <2>2 DEF R_Opens
    <3>2. toReceiver' \in Seq(Nat)
      BY <3>1, RestIsNoLonger, LenProperties
    <3> QED BY <1>1, <2>2, <3>2 DEF R_Opens, OneAnswer
  <2> QED BY <1>1, <2>1, <2>2 DEF R_Opens
<1>2. CASE R_Reads /\ UNCHANGED <<program, listener>>
  <2>1. toReceiver' \in Seq(Nat) /\ rstate' \in States
    BY <1>2, HeadTailProperties, AfterByteIsState DEF R_Reads
  <2> QED BY <1>2, <2>1 DEF R_Reads, OneAnswer
<1>3. CASE R_Answers /\ UNCHANGED <<program, listener>>
  <2>1. toSender = << >> /\ program = "polling"
    BY <1>3 DEF R_Answers, OneAnswer
  <2>2. toSender' = << >> \o Frame(C_UA)
    BY <1>3, <2>1 DEF R_Answers
  <2>3. toSender' \in Seq(Nat) /\ Len(toSender') = 5
    BY <2>2, BytesAreNat, ConcatProperties, EmptySeq
  <2>4. OneAnswer'
    <3>1. program' = program /\ rpc' = "ended"
      BY <1>3 DEF R_Answers
    <3>2. Len(toSender') <= 5
      BY <2>3
    <3> QED BY <2>1, <3>1, <3>2 DEF OneAnswer
  <2> QED BY <1>3, <2>3, <2>4 DEF R_Answers
<1>4. CASE L_Opens /\ UNCHANGED <<program, peerVars>>
  <2>1. CASE listener' = "failed"
    BY <1>4, <2>1 DEF L_Opens, OneAnswer, peerVars
  <2>2. CASE listener' = "reading"
    <3>1. PICK n \in 0..Len(toReceiver) :
            toReceiver' = SubSeq(toReceiver, n + 1, Len(toReceiver))
      BY <1>4, <2>2 DEF L_Opens
    <3>2. toReceiver' \in Seq(Nat)
      BY <3>1, RestIsNoLonger, LenProperties
    <3> QED BY <1>4, <2>2, <3>2 DEF L_Opens, OneAnswer, peerVars
  <2> QED BY <1>4, <2>1, <2>2 DEF L_Opens
<1>5. CASE L_Reads /\ UNCHANGED <<program, peerVars>>
  <2>1. toReceiver' \in Seq(Nat)
    BY <1>5, RestIsNoLonger, BufAssumption DEF L_Reads
  <2> QED BY <1>5, <2>1 DEF L_Reads, OneAnswer, peerVars
<1>6. CASE L_Answers /\ UNCHANGED <<program, peerVars>>
  <2>1. toSender = << >> /\ program = "blocking"
    BY <1>6 DEF L_Answers, OneAnswer
  <2>2. toSender' = << >> \o Answer
    BY <1>6, <2>1 DEF L_Answers
  <2>3. toSender' \in Seq(Nat) /\ Len(toSender') = 5
    BY <2>2, BytesAreNat, ConcatProperties, EmptySeq
  <2>4. OneAnswer'
    <3>1. program' = program /\ listener' = "ended"
      BY <1>6 DEF L_Answers
    <3>2. Len(toSender') <= 5
      BY <2>3
    <3> QED BY <2>1, <3>1, <3>2 DEF OneAnswer
  <2> QED BY <1>6, <2>3, <2>4 DEF L_Answers, peerVars
<1> QED BY <1>1, <1>2, <1>3, <1>4, <1>5, <1>6 DEF Peer, PollingPeer, BlockingPeer

LEMMA OthersOnLine ==
    ASSUME LinePart, Line \/ Example \/ Alarm \/ UNCHANGED vars, SenderPart
    PROVE  LinePart'
<1> USE DEF LinePart
<1>1. program' = program /\ UNCHANGED peerVars /\ listener' = listener
  BY DEF Line, Example, ExampleRuns, E_Configures, E_TestsCount, E_TestsEnabled, E_SetsAlarm,
         E_Enables, Ends, Goto, Alarm, E_GoesOff, P_GoesOff, B_GoesOff, B_Interrupted,
         ReadReturns, vars
<1>2. \/ toReceiver' = toReceiver
      \/ toReceiver # << >> /\ toReceiver' \in Mangled(toReceiver)
  BY DEF Line, MangleForward, MangleBackward, Example, Alarm, E_GoesOff, P_GoesOff,
         B_GoesOff, B_Interrupted, ReadReturns, vars, bytesOnLine
<1>3. \/ toSender' = toSender
      \/ toSender # << >> /\ toSender' \in Mangled(toSender)
      \/ B_Interrupted /\ toSender # << >>
  BY DEF Line, MangleForward, MangleBackward, Example, Alarm, E_GoesOff, P_GoesOff,
         B_GoesOff, B_Interrupted, vars, bytesOnLine
<1>4. toReceiver' \in Seq(Nat)
  BY <1>2, MangledIsNoLonger
<1>5. toSender' \in Seq(Nat) /\ OneAnswer'
  <2>1. CASE toSender' = toSender
    BY <1>1, <2>1 DEF OneAnswer, peerVars
  <2>2. CASE toSender # << >> /\ toSender' \in Mangled(toSender)
    BY <1>1, <2>2, MangledIsNoLonger DEF OneAnswer, peerVars
  <2>3. CASE B_Interrupted /\ toSender # << >>
    <3>1. PICK n \in Nat : n <= Len(toSender)
                            /\ toSender' = SubSeq(toSender, n + 1, Len(toSender))
      <4>1. Len(toSender) \in Nat /\ BUF_SIZE \in Nat
        BY LenProperties, BufAssumption
      <4>2. CASE Len(toSender) < BUF_SIZE
        BY <2>3, <4>1, <4>2 DEF B_Interrupted, ReadReturns
      <4>3. CASE ~(Len(toSender) < BUF_SIZE)
        <5>1. BUF_SIZE \in Nat /\ BUF_SIZE <= Len(toSender)
          BY <4>1, <4>3
        <5>2. toSender' = SubSeq(toSender, BUF_SIZE + 1, Len(toSender))
          BY <2>3, <4>3 DEF B_Interrupted, ReadReturns
        <5> QED BY <5>1, <5>2
      <4> QED BY <4>2, <4>3
    <3> QED BY <1>1, <2>3, <3>1, RestIsNoLonger DEF OneAnswer, peerVars
  <2> QED BY <1>3, <2>1, <2>2, <2>3
<1> QED BY <1>1, <1>4, <1>5 DEF peerVars

(***************************************************************************)
(* The theorems.                                                           *)
(***************************************************************************)
(* In every execution of the three programs the invariant holds; with it   *)
(* the types of all variables.                                             *)
THEOREM EarlyCorrect == Spec => []EarlyInv
<1>1. Init => EarlyInv
  BY InitHolds
<1>2. EarlyInv /\ [Next]_vars => EarlyInv'
  <2> SUFFICES ASSUME SenderPart, FlagsTyped, LinePart, [Next]_vars
               PROVE  SenderPart' /\ FlagsTyped' /\ LinePart'
    BY ThreeParts DEF EarlyInv, TypeOK, AlarmTypeOK, SenderPart, FlagsTyped, LinePart
  <2>1. SenderPart'
    BY ExampleSteps, PollingSteps, BlockingSteps, AlarmSteps, OthersLeaveSender DEF Next
  <2>2. FlagsTyped'
    BY FlagsStayTyped
  <2>3. LinePart'
    BY SenderOnLine, PeerOnLine, OthersOnLine DEF Next
  <2> QED BY <2>1, <2>2, <2>3
<1> QED BY <1>1, <1>2, PTL DEF Spec

(* A program that awaits an answer has an alarm set exactly when the last  *)
(* one did not go off in the gap before the program waited for it: then,   *)
(* and only then, it waits for an alarm that never comes.                  *)
THEOREM AlarmIsSetHolds == Spec => []AlarmIsSet
<1>1. EarlyInv => AlarmIsSet
  BY DEF EarlyInv, AlarmAwaited, AlarmIsSet, Waiting
<1> QED BY <1>1, EarlyCorrect, PTL

(* One SET for each alarm and the first, and never more than four.         *)
THEOREM OneSetPerAlarmHolds == Spec => []OneSetPerAlarm
<1>1. EarlyInv => OneSetPerAlarm
  BY DEF EarlyInv, SetsArePaired, OneSetPerAlarm
<1> QED BY <1>1, EarlyCorrect, PTL

(* Both automata of the first generation recognise the next whole frame,   *)
(* whatever has come before it.                                            *)
THEOREM ResynchronisesHolds == Spec => []Resynchronises
<1>1. EarlyInv => Resynchronises
  BY FrameIsRecognised DEF EarlyInv, TypeOK, Resynchronises
<1> QED BY <1>1, EarlyCorrect, PTL

(* The second generation writes SET again only after a read that returned  *)
(* bytes, for any number of bytes its read waits for.                      *)
THEOREM SilenceIsNotResentHolds == Spec => []SilenceIsNotResent
<1>1. EarlyInv => SilenceIsNotResent
  BY DEF EarlyInv, TurnsReturnBytes, SilenceIsNotResent
<1> QED BY <1>1, EarlyCorrect, PTL
=============================================================================
