------------------------------ MODULE NoisyLine -----------------------------
(***************************************************************************)
(* The byte level of the link over a line that damages it once: one wrong  *)
(* bit, or some bytes in a row lost.                                       *)
(*                                                                         *)
(*   forward  a frame of llwrite, which may be damaged, followed by        *)
(*            undamaged copies of itself, is read by llread                *)
(*   back     a sequence of acknowledgments, as retransmissions and        *)
(*            "NACKs" produce it, damaged anywhere, is read by llwrite     *)
(***************************************************************************)
EXTENDS FrameReceiver, SupervisionReceiver, LineDamage

CONSTANTS Alphabet,   \* payload bytes
          MaxPayload, \* longest payload
          Copies,     \* undamaged copies that follow the damaged frame
          MaxAcks     \* longest sequence of acknowledgments

ASSUME NoisyAssumption == /\ Alphabet \subseteq Byte
                          /\ MaxPayload \in Nat \ {0} /\ Copies \in Nat
                          /\ MaxAcks \in Nat \ {0}

VARIABLES direction, \* forward or back
          sent,      \* forward: [ctrl, data] of the frame
          stream,    \* back: the sequence bits of the acknowledgments
          damage,    \* what the line did
          wire       \* the bytes not read yet
vars == <<automaton, verdicts, ackReceiver, direction, sent, stream, damage, wire>>

Payloads == UNION {[1..n -> Alphabet] : n \in 1..MaxPayload}
NoFrame  == [ctrl |-> {}, data |-> << >>]

SentFrame == IFrame(sent.ctrl, sent.data)
Repeats   == FlattenSeq([i \in 1..Copies |-> SentFrame])
Acks(s)   == FlattenSeq([i \in DOMAIN s |-> Supervision(A_fromR, AckCtrl(s[i]))])

Forward == /\ direction = "forward" /\ stream = << >>
           /\ sent \in [ctrl : {{}, {0}}, data : Payloads]
           /\ damage \in Damages(SentFrame)
           /\ wire = Carried(SentFrame, damage) \o Repeats

Back == /\ direction = "back" /\ sent = NoFrame
        /\ stream \in UNION {[1..n -> {{}, {0}}] : n \in 1..MaxAcks}
        /\ damage \in Damages(Acks(stream))
        /\ wire = Carried(Acks(stream), damage)

Init == /\ Fresh /\ verdicts = << >> /\ ReceiverInit
        /\ Forward \/ Back

Receives(takes) == /\ wire # << >>
                   /\ takes
                   /\ wire' = Tail(wire)
                   /\ UNCHANGED <<direction, sent, stream, damage>>

ReceiverReads == /\ direction = "forward"
                 /\ Receives(LlreadTakes(Head(wire)))
                 /\ UNCHANGED ackReceiver
SenderReads   == /\ direction = "back"
                 /\ Receives(LlwriteTakes(Head(wire)))
                 /\ UNCHANGED <<automaton, verdicts>>

Next == ReceiverReads \/ SenderReads

Spec == Init /\ [][Next]_vars

(* The data and the escape flag belong to the state DATA: a frame that is  *)
(* given up leaves neither to the next one.                                *)
Verdicts == {Damaged} \cup [ok : {TRUE}, ctrl : Byte, data : Seq(Byte)]

TypeOK == /\ recState \in {"START", "FLAG_RCV", "A_RCV", "C_RCV", "DATA"}
          /\ ctrl \in Byte /\ esc \in BOOLEAN /\ frameData \in Seq(Byte)
          /\ wire \in Seq(Byte) /\ verdicts \in Seq(Verdicts)
          /\ recState # "DATA" => ~esc /\ frameData = << >>
          /\ state \in {"SIGA", "FLAG_RCV", "ADRESS", "CONTROL"}
          /\ accepted \in Seq({{}, {0}})
          /\ awaited = IF Len(accepted) % 2 = 0 THEN {} ELSE {0}

(***************************************************************************)
(* The receiver.                                                           *)
(***************************************************************************)
AllRead == direction = "forward" /\ wire = << >>
AsSent  == Good(sent.ctrl, sent.data)

(* The wrong bit turned a byte of the frame into FLAG, which cuts it.      *)
Cut == damage.kind = "flip" /\ Xor(SentFrame[damage.at], {damage.bit}) = FLAG

(* Undamaged frames are all recognised, each exactly once and byte for     *)
(* byte: stuffing hides every FLAG and ESC of the data and of BCC2.        *)
Transparent == damage = NoDamage /\ AllRead => verdicts = [i \in 1..(Copies + 1) |-> AsSent]

(* One wrong bit: a frame other than the one sent passes the checks only   *)
(* if the bit cut the frame, and then what passes is a beginning of the    *)
(* payload under the right control byte.                                   *)
OnlyACutDeceives ==
    direction = "forward" /\ damage.kind = "flip" =>
        \A i \in 1..Len(verdicts) :
            \/ verdicts[i] \in {Damaged, AsSent}
            \/ /\ Cut /\ verdicts[i].ctrl = sent.ctrl
               /\ IsStrictPrefix(verdicts[i].data, sent.data)

(* Whatever was damaged or lost in a frame, the automaton is back in step  *)
(* after at most one undamaged copy: the second copy is recognised.        *)
SecondCopyRecognised ==
    AllRead /\ Copies >= 2 => verdicts # << >> /\ Last(verdicts) = AsSent

(* llread answers no more often than there were transmissions, damaged or  *)
(* not: damage does not multiply the acknowledgments on their way back,    *)
(* for a FLAG that it makes cannot both end a frame and begin another.     *)
AnswersBounded ==
    direction = "forward" => Len(verdicts) <= Copies + 1

(***************************************************************************)
(* The sender.                                                             *)
(***************************************************************************)
(* What a sender makes of the acknowledgments of some frames: those of the *)
(* packet it waits for are accepted, in turn {} and {0}.                   *)
Awaited(found) == IF Len(found) % 2 = 0 THEN {} ELSE {0}
Alternating(frames) ==
    LET found[i \in 0..Len(stream)] ==
            IF i = 0 THEN << >>
            ELSE IF i \in frames /\ stream[i] = Awaited(found[i - 1])
                 THEN Append(found[i - 1], stream[i])
                 ELSE found[i - 1]
    IN  found[Len(stream)]

(* The frames with a damaged or lost byte, five bytes to a frame.          *)
HitFrames == {(i + 4) \div 5 : i \in Hit(damage)}

(* Damage only ever removes acknowledgments, and only those it touches: no *)
(* wrong bit turns the acknowledgment of one packet into the other's, no   *)
(* loss joins the parts of two frames into a third, and an undamaged frame *)
(* is found whatever came before it.                                       *)
DamageOnlyLoses ==
    direction = "back" /\ wire = << >> =>
        \E lost \in SUBSET HitFrames : accepted = Alternating((1..Len(stream)) \ lost)
=============================================================================
