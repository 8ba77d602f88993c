-------------------------- MODULE FtpSessionProofs --------------------------
(***************************************************************************)
(* Proofs about FtpSession, for a file of any length, every form of reply  *)
(* that ends with its only line of code and space, every number of         *)
(* addresses and every content of the local file.                          *)
(***************************************************************************)
EXTENDS FtpSession, SequenceTheorems, TLAPS

(***************************************************************************)
(* Sequences.                                                              *)
(***************************************************************************)
LEMMA TailShifts ==
    ASSUME NEW S, NEW q \in Seq(S), q # << >>
    PROVE  /\ Head(q) \in S /\ Head(q) = q[1] /\ Len(q) \in Nat /\ Len(q) >= 1
           /\ Tail(q) \in Seq(S) /\ Len(Tail(q)) = Len(q) - 1
           /\ \A i \in 1..Len(Tail(q)) : i + 1 \in 1..Len(q) /\ Tail(q)[i] = q[i + 1]
  BY HeadTailProperties, LenProperties, EmptySeq

LEMMA AppendExtends ==
    ASSUME NEW S, NEW q \in Seq(S), NEW e \in S
    PROVE  /\ Append(q, e) \in Seq(S) /\ Len(q) \in Nat
           /\ Len(Append(q, e)) = Len(q) + 1
           /\ Append(q, e)[Len(q) + 1] = e
           /\ \A i \in 1..Len(q) : Append(q, e)[i] = q[i]
  BY AppendProperties, LenProperties

LEMMA ConcatExtends ==
    ASSUME NEW S, NEW q \in Seq(S), NEW r \in Seq(S)
    PROVE  /\ q \o r \in Seq(S) /\ Len(q) \in Nat /\ Len(r) \in Nat
           /\ Len(q \o r) = Len(q) + Len(r)
           /\ \A i \in 1..Len(q) : (q \o r)[i] = q[i]
           /\ \A i \in 1..Len(r) : (q \o r)[Len(q) + i] = r[i]
           /\ \A i \in 1..Len(q \o r) :
                 i \in 1..Len(q) \/ (i - Len(q) \in 1..Len(r) /\ (q \o r)[i] = r[i - Len(q)])
<1>1. /\ q \o r \in Seq(S) /\ Len(q) \in Nat /\ Len(r) \in Nat
      /\ Len(q \o r) = Len(q) + Len(r)
      /\ \A i \in 1..Len(q) + Len(r) :
            (q \o r)[i] = IF i <= Len(q) THEN q[i] ELSE r[i - Len(q)]
  BY ConcatProperties, LenProperties
<1>2. \A i \in 1..Len(q) : (q \o r)[i] = q[i]
  BY <1>1
<1>3. ASSUME NEW i \in 1..Len(r) PROVE (q \o r)[Len(q) + i] = r[i]
  <2>1. Len(q) + i \in 1..Len(q) + Len(r) /\ ~(Len(q) + i <= Len(q)) /\ Len(q) + i - Len(q) = i
    BY <1>1
  <2> QED BY <1>1, <2>1
<1>4. ASSUME NEW i \in 1..Len(q \o r), i \notin 1..Len(q)
      PROVE  i - Len(q) \in 1..Len(r) /\ (q \o r)[i] = r[i - Len(q)]
  BY <1>1, <1>4
<1> QED BY <1>1, <1>2, <1>3, <1>4

(***************************************************************************)
(* Replies.                                                                *)
(***************************************************************************)
Tos == Commands \cup {"greeting", "final"}

(* The one line with code and space, and what may come behind it.          *)
EndsAt(shape, e) ==
    /\ shape \in Seq({"text", "dash", "space"}) /\ e \in 1..Len(shape)
    /\ \A i \in 1..Len(shape) : (shape[i] = "space" <=> i = e) /\ (i > e => shape[i] = "text")

LEMMA ShapesEnd ==
    /\ \A shape \in Shapes : EndsAt(shape, Len(shape))
    /\ EndsAt(<<"space", "text">>, 1)
<1>1. ASSUME NEW shape \in Shapes PROVE EndsAt(shape, Len(shape))
  <2>1. Len(shape) \in Nat /\ Len(shape) >= 1
    BY ServerAssumption, LenProperties, EmptySeq
  <2> QED BY <2>1, ServerAssumption DEF EndsAt
<1>2. EndsAt(<<"space", "text">>, 1)
  BY DEF EndsAt
<1> QED BY <1>1, <1>2

LEMMA ReplyLines ==
    ASSUME NEW to \in Tos, NEW c \in 1..5, NEW shape, NEW e, EndsAt(shape, e), NEW at \in Nat
    PROVE  /\ Reply(to, c, shape, at) \in Seq(Line)
           /\ Len(Reply(to, c, shape, at)) = Len(shape) /\ Len(shape) \in Nat
           /\ \A i \in 1..Len(shape) :
                 /\ Reply(to, c, shape, at)[i].to = to
                 /\ Reply(to, c, shape, at)[i].space <=> i = e
                 /\ Reply(to, c, shape, at)[i].address <=> i = at
                 /\ Reply(to, c, shape, at)[i].code \in {0, c}
                 /\ i = e => Reply(to, c, shape, at)[i].code = c
                 /\ i > e => Reply(to, c, shape, at)[i].code = 0
<1> DEFINE r == Reply(to, c, shape, at)
<1>1. Len(shape) \in Nat /\ DOMAIN shape = 1..Len(shape)
  BY LenProperties DEF EndsAt
<1>2. r = [i \in 1..Len(shape) |-> [code    |-> IF shape[i] = "text" THEN 0 ELSE c,
                                    space   |-> shape[i] = "space",
                                    address |-> i = at,
                                    to      |-> to]]
  BY <1>1 DEF Reply
<1>3. \A i \in 1..Len(shape) : r[i] \in Line
  BY <1>2 DEF Line, Tos
<1> HIDE DEF r
<1>4. r \in Seq(Line) /\ Len(r) = Len(shape)
  <2>1. r \in [1..Len(shape) -> Line]
    BY <1>2, <1>3
  <2> QED BY <1>1, <2>1, LenProperties
<1>5. ASSUME NEW i \in 1..Len(shape)
      PROVE  /\ r[i].to = to /\ (r[i].space <=> i = e) /\ (r[i].address <=> i = at)
             /\ r[i].code \in {0, c} /\ (i = e => r[i].code = c) /\ (i > e => r[i].code = 0)
  <2>1. r[i] = [code |-> IF shape[i] = "text" THEN 0 ELSE c, space |-> shape[i] = "space",
                address |-> i = at, to |-> to]
    BY <1>2
  <2>2. (shape[i] = "space" <=> i = e) /\ (i > e => shape[i] = "text")
    BY DEF EndsAt
  <2>3. r[i].to = to /\ r[i].code = IF shape[i] = "text" THEN 0 ELSE c
    BY <2>1
  <2>4. r[i].space <=> i = e
    <3>1. r[i].space = (shape[i] = "space")
      BY <2>1
    <3> QED BY <2>2, <3>1, Zenon
  <2>5. r[i].address <=> i = at
    <3>1. r[i].address = (i = at)
      BY <2>1
    <3> QED BY <3>1, Zenon
  <2>6. i = e => r[i].code = c
    BY <2>2, <2>3
  <2> QED BY <2>2, <2>3, <2>4, <2>5, <2>6
<1> QED BY <1>1, <1>4, <1>5 DEF r

(***************************************************************************)
(* The server's steps are an answer, the end of a transfer, a block, the   *)
(* loss of either connection.                                              *)
(***************************************************************************)
Marked == wrong' = wrong \/ Mark("fault") \/ Mark("misread")

AnswerStep(c, shape, e, at) ==
    /\ Ready /\ c \in Codes(Asked) \cup Refusals(Asked)
    /\ EndsAt(shape, e) /\ at \in Nat
    /\ toClient' = toClient \o Reply(Asked, c, shape, at)
    /\ Answered(c)
    /\ UNCHANGED cltVars /\ Marked
    /\ ~trouble' => /\ c \in Codes(Asked)
                    /\ Asked = "PASV" => at = 1
                    /\ Asked = "TYPE" => e = Len(shape)

FinalStep(c, shape) ==
    /\ transfer = "running" /\ c \in {2, 4} /\ (c = 2 => sentBlocks = Blocks)
    /\ EndsAt(shape, Len(shape))
    /\ toClient' = toClient \o Reply("final", c, shape, 0)
    /\ transfer' = "over" /\ dataEnd' = Closed
    /\ UNCHANGED <<toServer, ctrlEnd, blocks, dataSock, sentBlocks, cltVars>>
    /\ Marked /\ (~trouble' => c = 2)

(* Everything but the client.                                              *)
Outside == \/ Server
           \/ RemoteFaults
           \/ Misleads

LEMMA ServerSteps ==
    ASSUME Outside
    PROVE  \/ \E c, shape, e, at : AnswerStep(c, shape, e, at)
           \/ \E c, shape : FinalStep(c, shape)
           \/ SendsBlock /\ UNCHANGED <<cltVars, wrong>>
           \/ Leaves /\ UNCHANGED cltVars /\ Mark("fault")
           \/ DataBreaks /\ UNCHANGED <<cltVars, srvVars>> /\ Mark("fault")
<1>0. /\ UNCHANGED cltVars /\ Marked
      /\ Server => wrong' = wrong
      /\ RemoteFaults => Mark("fault") /\ trouble'
      /\ Misleads => trouble'
  BY DEF Outside, Server, RemoteFaults, Misleads, Marked, Mark, trouble
<1>1. CASE Answers /\ Server
  <2>1. PICK c \in Codes(Asked), shape \in Shapes :
           /\ toClient' = toClient \o Reply(Asked, c, shape, IF Asked = "PASV" THEN 1 ELSE 0)
           /\ Answered(c)
    BY <1>1 DEF Answers, Replies
  <2>2. AnswerStep(c, shape, Len(shape), IF Asked = "PASV" THEN 1 ELSE 0)
    BY <1>0, <1>1, <2>1, ShapesEnd DEF AnswerStep, Answers
  <2> QED BY <2>2
<1>2. CASE AnswersOverlong /\ Server
  <2>1. PICK c \in Codes(Asked) :
           /\ toClient' = toClient \o Reply(Asked, c, <<"space", "text">>,
                                            IF Asked = "PASV" THEN 1 ELSE 0)
           /\ Answered(c)
    BY <1>2 DEF AnswersOverlong, Overlong
  <2>2. AnswerStep(c, <<"space", "text">>, 1, IF Asked = "PASV" THEN 1 ELSE 0)
    BY <1>0, <1>2, <2>1, ShapesEnd DEF AnswerStep, AnswersOverlong, Overlong
  <2> QED BY <2>2
<1>3. CASE AnswersTypeOverlong /\ Misleads
  <2>1. PICK c \in Codes(Asked) :
           /\ toClient' = toClient \o Reply(Asked, c, <<"space", "text">>,
                                            IF Asked = "PASV" THEN 1 ELSE 0)
           /\ Answered(c)
    BY <1>3 DEF AnswersTypeOverlong, Overlong
  <2>2. AnswerStep(c, <<"space", "text">>, 1, IF Asked = "PASV" THEN 1 ELSE 0)
    BY <1>0, <1>3, <2>1, ShapesEnd DEF AnswerStep, AnswersTypeOverlong, Overlong
  <2> QED BY <2>2
<1>4. CASE Refuses /\ RemoteFaults
  <2>1. PICK c \in Refusals(Asked), shape \in Shapes :
           toClient' = toClient \o Reply(Asked, c, shape, 0) /\ Answered(c)
    BY <1>4 DEF Refuses, Replies
  <2>2. AnswerStep(c, shape, Len(shape), 0)
    BY <1>0, <1>4, <2>1, ShapesEnd DEF AnswerStep, Refuses
  <2> QED BY <2>2
<1>5. CASE AnswersPasvLate /\ Misleads
  <2>1. PICK at \in 2..3, shape \in Shapes :
           toClient' = toClient \o Reply("PASV", 2, shape, at)
    BY <1>5 DEF AnswersPasvLate, Replies
  <2>2. Asked = "PASV" /\ Answered(2) /\ Ready /\ 2 \in Codes("PASV")
    BY <1>5 DEF AnswersPasvLate, Codes
  <2>3. AnswerStep(2, shape, Len(shape), at)
    BY <1>0, <1>5, <2>1, <2>2, ShapesEnd DEF AnswerStep
  <2> QED BY <2>3
<1>6. CASE Completes /\ Server
  <2>1. PICK shape \in Shapes : toClient' = toClient \o Reply("final", 2, shape, 0)
    BY <1>6 DEF Completes, Replies
  <2>2. FinalStep(2, shape)
    BY <1>0, <1>6, <2>1, ShapesEnd DEF FinalStep, Completes
  <2> QED BY <2>2
<1>7. CASE Aborts /\ RemoteFaults
  <2>1. PICK shape \in Shapes : toClient' = toClient \o Reply("final", 4, shape, 0)
    BY <1>7 DEF Aborts, Replies
  <2>2. FinalStep(4, shape)
    BY <1>0, <1>7, <2>1, ShapesEnd DEF FinalStep, Aborts
  <2> QED BY <2>2
<1>8. CASE SendsBlock /\ Server
  BY <1>0, <1>8
<1>9. CASE Leaves /\ RemoteFaults
  BY <1>0, <1>9
<1>10. CASE DataBreaks /\ UNCHANGED <<cltVars, srvVars>> /\ RemoteFaults
  BY <1>0, <1>10
<1> QED
  BY <1>1, <1>2, <1>3, <1>4, <1>5, <1>6, <1>7, <1>8, <1>9, <1>10
  DEF Outside, Server, RemoteFaults, Misleads, ServerRuns, ServerFaults, Unusual

(* The lines of a reply behind those that were there.                      *)
Joins(to, c, shape, e, at) ==
    /\ toClient' \in Seq(Line) /\ Len(toClient) \in Nat /\ Len(shape) \in Nat
    /\ Len(toClient') = Len(toClient) + Len(shape) /\ e \in 1..Len(shape)
    /\ \A i \in 1..Len(toClient) : toClient'[i] = toClient[i]
    /\ \A i \in 1..Len(toClient') : i > Len(toClient) =>
          /\ toClient'[i].to = to
          /\ toClient'[i].space <=> i = Len(toClient) + e
          /\ toClient'[i].address <=> i = Len(toClient) + at
          /\ toClient'[i].code \in {0, c}
          /\ i = Len(toClient) + e => toClient'[i].code = c
          /\ i > Len(toClient) + e => toClient'[i].code = 0

LEMMA Replied ==
    ASSUME NEW to \in Tos, NEW c \in 1..5, NEW shape, NEW e, EndsAt(shape, e), NEW at \in Nat,
           toClient \in Seq(Line), toClient' = toClient \o Reply(to, c, shape, at)
    PROVE  Joins(to, c, shape, e, at)
<1> DEFINE r == Reply(to, c, shape, at)
<1>1. /\ r \in Seq(Line) /\ Len(r) = Len(shape) /\ Len(shape) \in Nat
      /\ \A i \in 1..Len(shape) :
            /\ r[i].to = to /\ (r[i].space <=> i = e) /\ (r[i].address <=> i = at)
            /\ r[i].code \in {0, c} /\ (i = e => r[i].code = c) /\ (i > e => r[i].code = 0)
  BY ReplyLines
<1>2. toClient' = toClient \o r /\ e \in 1..Len(shape)
  BY DEF EndsAt
<1> HIDE DEF r
<1>3. /\ toClient' \in Seq(Line) /\ Len(toClient) \in Nat
      /\ Len(toClient') = Len(toClient) + Len(shape)
      /\ \A i \in 1..Len(toClient) : toClient'[i] = toClient[i]
      /\ \A i \in 1..Len(toClient') :
            i \in 1..Len(toClient) \/ (i - Len(toClient) \in 1..Len(r)
                                      /\ toClient'[i] = r[i - Len(toClient)])
  <2> DEFINE q == toClient \o r
  <2>1. /\ q \in Seq(Line) /\ Len(toClient) \in Nat /\ Len(q) = Len(toClient) + Len(r)
        /\ \A i \in 1..Len(toClient) : q[i] = toClient[i]
        /\ \A i \in 1..Len(q) :
              i \in 1..Len(toClient) \/ (i - Len(toClient) \in 1..Len(r)
                                        /\ q[i] = r[i - Len(toClient)])
    <3>1. toClient \in Seq(Line) /\ r \in Seq(Line)
      BY <1>1
    <3> QED BY ONLY <3>1, ConcatExtends, ZenonT(60)
  <2>2. toClient' = q
    BY <1>2
  <2> HIDE DEF q
  <2> QED BY <1>1, <2>1, <2>2
<1>4. ASSUME NEW i \in 1..Len(toClient'), i > Len(toClient)
      PROVE  /\ toClient'[i].to = to
             /\ toClient'[i].space <=> i = Len(toClient) + e
             /\ toClient'[i].address <=> i = Len(toClient) + at
             /\ toClient'[i].code \in {0, c}
             /\ i = Len(toClient) + e => toClient'[i].code = c
             /\ i > Len(toClient) + e => toClient'[i].code = 0
  <2> DEFINE k == i - Len(toClient)
  <2>1. k \in 1..Len(shape) /\ toClient'[i] = r[k]
    BY <1>1, <1>3, <1>4
  <2>2. (k = e <=> i = Len(toClient) + e) /\ (k = at <=> i = Len(toClient) + at)
        /\ (k > e <=> i > Len(toClient) + e)
    BY <1>2, <1>3
  <2> HIDE DEF k
  <2> QED BY <1>1, <2>1, <2>2
<1> QED BY <1>1, <1>2, <1>3, <1>4 DEF Joins

(***************************************************************************)
(* The inductive invariant, in the part that ends with the session proper  *)
(* and the one that stays.                                                 *)
(***************************************************************************)
Session == /\ InStage /\ LinesInOrder /\ TransferInOrder
           /\ CodesTell /\ BlocksInOrder /\ AddressComes
Overall == /\ TypeOK /\ OldFileKept /\ Downloaded /\ NoFailureWithoutCause
           /\ ctrlEnd = "closed" => trouble

(* What has gone wrong is not forgotten.                                   *)
Grows == wrong' \subseteq Wrongs /\ (trouble => trouble') /\ (unflushed => unflushed')

LEMMA MarksStay ==
    ASSUME wrong \subseteq Wrongs, wrong' = wrong \/ (\E m \in Wrongs : Mark(m))
    PROVE  Grows
  BY DEF Grows, Wrongs, Mark, trouble, unflushed

LEMMA NothingNew ==
    ASSUME UNCHANGED wrong
    PROVE  trouble' = trouble /\ unflushed' = unflushed
  BY DEF trouble, unflushed

LEMMA OutsideMarks ==
    ASSUME TypeOK, Marked
    PROVE  Grows /\ unflushed' = unflushed
  BY MarksStay DEF TypeOK, Marked, Mark, Wrongs, unflushed

LEMMA FaultMarks ==
    ASSUME TypeOK, Mark("fault")
    PROVE  trouble' /\ unflushed' = unflushed /\ wrong' \subseteq Wrongs
  BY OutsideMarks DEF Marked, Mark, Grows, trouble

LEMMA Parts == SessionInv <=> Overall /\ (Following => Session)
  BY DEF SessionInv, Overall, Session

LEMMA AskedIsKnown ==
    ASSUME TypeOK, Ready
    PROVE  /\ Asked \in Tos /\ (transfer # "greeting" => Asked \in Commands)
           /\ Codes(Asked) \subseteq 1..5 /\ Refusals(Asked) \subseteq 1..5
<1>1. transfer # "greeting" => Asked \in Commands
  BY TailShifts DEF Ready, Asked, TypeOK, ConnectionsTypeOK
<1>2. Asked \in Tos
  BY <1>1 DEF Asked, Tos
<1> QED BY <1>1, <1>2 DEF Codes, Refusals

LEMMA AnswerOverall ==
    ASSUME Overall, NEW c, NEW shape, NEW e, NEW at, AnswerStep(c, shape, e, at)
    PROVE  Overall'
<1>1. /\ TypeOK /\ Ready /\ Answered(c) /\ UNCHANGED cltVars
      /\ wrong' \subseteq Wrongs /\ (trouble => trouble') /\ unflushed' = unflushed
  BY OutsideMarks DEF Overall, AnswerStep, Grows
<1>2. Asked \in Tos /\ c \in 1..5
  BY <1>1, AskedIsKnown DEF AnswerStep
<1>3. toClient' \in Seq(Line)
  BY <1>1, <1>2, Replied DEF Joins, AnswerStep, TypeOK, ConnectionsTypeOK
<1>4. toServer' \in Seq(Commands)
  BY <1>1, TailShifts DEF Answered, Ready, TypeOK, ConnectionsTypeOK
<1>5. transfer' \in {"greeting", "none", "running", "over"}
      /\ (transfer \in {"running", "over"} => transfer' \in {"running", "over"})
  BY <1>1 DEF Answered, TypeOK, ServerTypeOK
<1>6. UNCHANGED <<ctrlEnd, blocks, dataEnd, dataSock, sentBlocks, step, reading, code, message,
                  untried, doList, status, local>>
  BY <1>1 DEF Answered, data, cltVars, flow
<1>7. TypeOK'
  BY <1>1, <1>3, <1>4, <1>5, <1>6, ZenonT(60) DEF TypeOK, ConnectionsTypeOK, ServerTypeOK, ClientTypeOK
<1>8. OldFileKept' /\ Downloaded' /\ NoFailureWithoutCause' /\ (ctrlEnd' = "closed" => trouble')
  BY <1>1, <1>5, <1>6 DEF Overall, OldFileKept, Downloaded, NoFailureWithoutCause
<1> QED BY <1>7, <1>8 DEF Overall
(* Only the reply just asked for is awaited, and nothing with a code is on *)
(* its way before it.                                                      *)
LEMMA AnswerSession ==
    ASSUME Overall, Following, Session,
           NEW c, NEW shape, NEW e, NEW at, AnswerStep(c, shape, e, at)
    PROVE  Session'
<1>1. /\ TypeOK /\ Ready /\ Answered(c) /\ InStage
      /\ UNCHANGED <<ctrlEnd, blocks, dataEnd, dataSock, sentBlocks, step, reading, code,
                     message, untried, doList, status, local>>
      /\ (trouble => trouble') /\ unflushed' = unflushed
  BY OutsideMarks DEF Overall, Session, AnswerStep, Grows, Answered, data, cltVars, flow
<1>2. Asked = step /\ reading /\ transfer \in {"greeting", "none"}
  <2>1. CASE transfer = "greeting"
    BY <1>1, <2>1 DEF Ready, Asked, InStage, Stages
  <2>2. CASE transfer # "greeting"
    BY <1>1, <2>2 DEF Ready, Asked, InStage
  <2> QED BY <2>1, <2>2
<1>3. Silent /\ LinesInOrder
  BY <1>1 DEF Session, LinesInOrder, Ready
<1>4. toServer' = << >>
  <2>1. CASE transfer = "greeting"
    BY <1>1, <2>1 DEF Answered, InStage
  <2>2. CASE transfer # "greeting"
    BY <1>1, <2>2 DEF Answered, InStage, Ready
  <2> QED BY <2>1, <2>2
<1>5. transfer' = IF step \in {"RETR", "LIST"} /\ c = 1 THEN "running" ELSE "none"
  BY <1>1, <1>2 DEF Answered, AnswerStep, Codes, Refusals
<1>6. /\ step \in Tos /\ c \in 1..5
      /\ step # "final" /\ step \notin {"resolve", "connect", "dataConnect", "fopen", "receive"}
  <2>1. step \in Tos /\ c \in 1..5
    BY <1>1, <1>2, AskedIsKnown DEF AnswerStep
  <2> QED BY <1>1, <1>2, <2>1 DEF InStage, Stages
<1> DEFINE L == Len(toClient)
<1>7. /\ L \in Nat /\ Len(shape) \in Nat /\ Len(toClient') = L + Len(shape) /\ e \in 1..Len(shape)
      /\ \A i \in 1..L : toClient'[i] = toClient[i]
      /\ \A i \in 1..Len(toClient') : i > L =>
            /\ toClient'[i].to = step
            /\ toClient'[i].space <=> i = L + e
            /\ toClient'[i].address <=> i = L + at
            /\ toClient'[i].code \in {0, c}
            /\ i = L + e => toClient'[i].code = c
            /\ i > L + e => toClient'[i].code = 0
  <2>1. /\ toClient \in Seq(Line) /\ EndsAt(shape, e) /\ at \in Nat
        /\ toClient' = toClient \o Reply(step, c, shape, at)
    BY <1>1, <1>2 DEF AnswerStep, TypeOK, ConnectionsTypeOK
  <2>2. Joins(step, c, shape, e, at)
    BY <1>6, <2>1, Replied
  <2> QED BY <2>2 DEF Joins
<1>8. \A i \in 1..L : toClient'[i].code = 0 /\ ~toClient'[i].space
  BY <1>3, <1>7 DEF Silent, Coded, LinesInOrder
<1>9. L + e \in 1..Len(toClient') /\ L + e > L
  BY <1>7
<1> HIDE DEF L
<1>10. ASSUME NEW i \in 1..Len(toClient')
       PROVE  /\ toClient'[i].code # 0 =>
                    i > L /\ i <= L + e /\ toClient'[i].to = step /\ toClient'[i].code = c
              /\ toClient'[i].space <=> i = L + e
  <2>1. CASE i \in 1..L
    BY <1>7, <1>8, <1>9, <2>1
  <2>2. CASE i > L
    BY <1>7, <2>2
  <2> QED BY <1>7, <2>1, <2>2
<1>11. toClient'[L + e].code = c /\ toClient'[L + e].to = step
  BY <1>7, <1>9
<1>12. InStage'
  BY <1>1, <1>2, <1>4, <1>5 DEF InStage, Stages, Ready
<1>13. LinesInOrder'
  <2>1. step \in Expecting'
    BY <1>1, <1>6 DEF Expecting
  <2> QED BY <1>1, <1>2, <1>4, <1>5, <1>6, <1>7, <1>9, <1>10, <1>11, <2>1 DEF LinesInOrder, Coded
<1>14. TransferInOrder'
  BY <1>1, <1>5, <1>6, <1>9, <1>10, <1>11 DEF TransferInOrder, Coded, Announces
<1>15. CodesTell'
  <2>1. Tells(step, c)'
    BY <1>1, <1>2, <1>5, <1>6 DEF Tells, AnswerStep, Codes
  <2>2. code' = 0
    BY <1>1, <1>3 DEF Silent
  <2> QED BY <1>1, <1>10, <2>1, <2>2 DEF CodesTell, Coded
<1>16. BlocksInOrder'
  BY <1>1 DEF Session, BlocksInOrder
<1>17. AddressComes'
  <2> SUFFICES ASSUME ~trouble'
               PROVE  AddressComes'
    BY DEF AddressComes
  <2>1. ~trouble /\ (step = "PASV" => at = 1) /\ (step = "TYPE" => e = Len(shape))
    BY <1>1, <1>2 DEF AnswerStep
  <2>2. step = "TYPE" => \A i \in 1..Len(toClient') : toClient'[i].space => i = Len(toClient')
    BY <1>7, <1>10, <2>1
  <2>3. step = "PASV" => /\ toServer' = << >> /\ message' = "empty"
                         /\ toClient' # << >> /\ toClient'[1].address
    <3>1. step = "PASV" => toServer # << >>
      BY <1>1, <1>2 DEF InStage, Stages, Ready
    <3>2. step = "PASV" => toClient = << >> /\ message = "empty"
      BY <2>1, <3>1 DEF Session, AddressComes
    <3>3. step = "PASV" => L = 0
      BY <3>2 DEF L
    <3>4. step = "PASV" => 1 \in 1..Len(toClient') /\ toClient'[1].address
      BY <1>7, <2>1, <3>3
    <3> QED BY <1>1, <1>4, <3>2, <3>4
  <2> QED BY <1>1, <1>2, <1>6, <2>2, <2>3 DEF AddressComes
<1> QED BY <1>12, <1>13, <1>14, <1>15, <1>16, <1>17 DEF Session

LEMMA FinalOverall ==
    ASSUME Overall, NEW c, NEW shape, FinalStep(c, shape)
    PROVE  Overall'
<1>1. /\ TypeOK /\ UNCHANGED <<toServer, ctrlEnd, blocks, dataSock, sentBlocks, step, reading,
                               code, message, untried, doList, status, local>>
      /\ transfer = "running" /\ transfer' = "over" /\ dataEnd' = Closed
  BY DEF Overall, FinalStep, cltVars, flow
<1>2. wrong' \subseteq Wrongs /\ (trouble => trouble') /\ unflushed' = unflushed
  BY OutsideMarks DEF Overall, FinalStep, Grows
<1>3. toClient' \in Seq(Line)
  <2>1. "final" \in Tos /\ c \in 1..5 /\ 0 \in Nat
    BY DEF Tos, FinalStep
  <2> QED BY <1>1, <2>1, Replied DEF Joins, FinalStep, TypeOK, ConnectionsTypeOK
<1>4. dataEnd' \in {"none", "open", "fin", "reset"} /\ (dataEnd' = "reset" <=> dataEnd = "reset")
  BY <1>1 DEF Closed, TypeOK, ConnectionsTypeOK
<1>5. TypeOK'
  <2>1. transfer' \in {"greeting", "none", "running", "over"}
    BY <1>1
  <2> QED BY <1>1, <1>2, <1>3, <1>4, <2>1, Zenon
          DEF TypeOK, ConnectionsTypeOK, ServerTypeOK, ClientTypeOK
<1>6. OldFileKept' /\ Downloaded' /\ NoFailureWithoutCause' /\ (ctrlEnd' = "closed" => trouble')
  BY <1>1, <1>2, <1>4 DEF Overall, OldFileKept, Downloaded, NoFailureWithoutCause
<1> QED BY <1>5, <1>6 DEF Overall

(* The transfer has been announced, and its end is told behind that.       *)
LEMMA FinalSession ==
    ASSUME Overall, Following, Session, NEW c, NEW shape, FinalStep(c, shape)
    PROVE  Session'
<1>1. /\ TypeOK /\ InStage
      /\ UNCHANGED <<toServer, ctrlEnd, blocks, dataSock, sentBlocks, step, reading,
                     code, message, untried, doList, status, local>>
      /\ transfer = "running" /\ transfer' = "over" /\ dataEnd' = Closed
      /\ c \in {2, 4} /\ (c = 2 => sentBlocks = Blocks) /\ (~trouble' => c = 2)
  BY DEF Overall, Session, FinalStep, cltVars, flow
<1>2. (trouble => trouble') /\ unflushed' = unflushed
  BY OutsideMarks DEF Overall, FinalStep, Grows
<1>3. /\ step \in {"RETR", "LIST", "fopen", "receive", "final"} /\ toServer = << >>
      /\ step \in {"RETR", "LIST"} => reading
  BY <1>1 DEF InStage, Stages
<1>4. /\ \A i \in 1..Len(toClient) : Coded(i) => toClient[i].to # "final"
      /\ LinesInOrder /\ TransferInOrder /\ CodesTell
  BY <1>1 DEF Session, TransferInOrder
<1> DEFINE L == Len(toClient)
           e == Len(shape)
<1>5. /\ L \in Nat /\ Len(shape) \in Nat /\ Len(toClient') = L + Len(shape) /\ e \in 1..Len(shape)
      /\ \A i \in 1..L : toClient'[i] = toClient[i]
      /\ \A i \in 1..Len(toClient') : i > L =>
            /\ toClient'[i].to = "final"
            /\ toClient'[i].space <=> i = L + e
            /\ toClient'[i].code \in {0, c}
            /\ i = L + e => toClient'[i].code = c
  <2>1. "final" \in Tos /\ c \in 1..5 /\ 0 \in Nat
    BY <1>1 DEF Tos
  <2>2. Joins("final", c, shape, Len(shape), 0)
    BY <1>1, <2>1, Replied DEF FinalStep, TypeOK, ConnectionsTypeOK
  <2> QED BY <2>2 DEF Joins
<1> HIDE DEF L, e
<1>6. InStage'
  BY <1>1, <1>3 DEF InStage, Stages
<1>7. LinesInOrder'
  <2>1. "final" \in Expecting' /\ Expecting' = Expecting
    BY <1>1, <1>3 DEF Expecting
  <2>2. \A i \in 1..L : toClient[i].space => toClient[i].code # 0
    BY <1>4 DEF LinesInOrder, Coded, L
  <2>3. \A i \in 1..Len(toClient') : toClient'[i].space => toClient'[i].code # 0
    BY <1>1, <1>5, <2>2
  <2>4. \A i \in 1..Len(toClient') : toClient'[i].code # 0 => toClient'[i].to \in Expecting'
    BY <1>4, <1>5, <2>1 DEF LinesInOrder, Coded, L
  <2>5. ASSUME NEW i \in 1..Len(toClient'), NEW j \in 1..Len(toClient'), i < j,
               toClient'[i].space, toClient'[j].code # 0
        PROVE  toClient'[i].to # "final" /\ toClient'[j].to = "final"
    <3>1. i \in 1..L
      BY <1>5, <2>5 DEF e
    <3>2. toClient'[i].to # "final"
      BY <1>4, <1>5, <2>2, <2>5, <3>1 DEF Coded, L
    <3>3. CASE j \in 1..L
      BY <1>4, <1>5, <2>5, <3>1, <3>3 DEF LinesInOrder, Coded, L
    <3>4. CASE j > L
      BY <1>5, <3>2, <3>4
    <3> QED BY <1>5, <3>2, <3>3, <3>4
  <2> QED BY <1>1, <1>3, <2>3, <2>4, <2>5, <1>4 DEF LinesInOrder, Coded, InStage, Stages
<1>8. TransferInOrder'
  <2>1. ASSUME step \in {"RETR", "LIST"}, NEW j \in 1..Len(toClient'), toClient'[j].to = "final",
               toClient'[j].code # 0
        PROVE  \E i \in 1..Len(toClient') : i < j /\ toClient'[i].space /\ toClient'[i].to = step
    <3>1. PICK i \in 1..L : toClient[i].space /\ toClient[i].to = step
      BY <1>1, <1>4, <2>1 DEF TransferInOrder, Announces, L
    <3>2. j > L
      BY <1>4, <1>5, <2>1 DEF Coded, L
    <3> QED BY <1>5, <3>1, <3>2
  <2> QED BY <1>1, <2>1 DEF TransferInOrder, Coded, Announces
<1>9. CodesTell'
  <2>1. \A to, d : Tells(to, d) => Tells(to, d)'
    BY <1>1, <1>2 DEF Tells
  <2>2. Tells("final", c)'
    BY <1>1 DEF Tells, Codes
  <2>3. ASSUME NEW i \in 1..Len(toClient'), toClient'[i].code # 0
        PROVE  Tells(toClient[i].to, toClient[i].code)'
    <3>1. CASE i \in 1..L
      <4>1. toClient'[i] = toClient[i] /\ Tells(toClient[i].to, toClient[i].code)
        BY <1>4, <1>5, <2>3, <3>1 DEF CodesTell, Coded, L
      <4> QED BY <2>1, <4>1
    <3>2. CASE i > L
      BY <1>5, <2>2, <2>3, <3>2
    <3> QED BY <1>5, <3>1, <3>2
  <2> QED BY <1>1, <1>4, <2>1, <2>3 DEF CodesTell, Coded
<1>10. BlocksInOrder'
  BY <1>1, <1>2, <1>3 DEF Session, BlocksInOrder, InStage, Closed
<1>11. AddressComes'
  BY <1>1, <1>3 DEF AddressComes
<1> QED BY <1>6, <1>7, <1>8, <1>9, <1>10, <1>11 DEF Session

LEMMA SendsBlockKeeps ==
    ASSUME Overall, SendsBlock, UNCHANGED <<cltVars, wrong>>
    PROVE  Overall' /\ (Following /\ Session => Session')
<1>1. /\ TypeOK /\ UNCHANGED <<toServer, toClient, ctrlEnd, dataEnd, dataSock, transfer, step, reading,
                               code, message, untried, doList, status, local, wrong, trouble,
                               unflushed>>
      /\ transfer = "running" /\ dataEnd = "open" /\ dataSock /\ sentBlocks < Blocks
      /\ sentBlocks' = sentBlocks + 1 /\ blocks' = Append(blocks, sentBlocks + 1)
  BY NothingNew DEF Overall, SendsBlock, control, cltVars, flow
<1>2. sentBlocks \in Nat /\ Blocks \in Nat /\ blocks \in Seq(Nat \ {0})
  BY <1>1, ServerAssumption DEF TypeOK, ServerTypeOK, ConnectionsTypeOK
<1>3. sentBlocks + 1 \in 0..Blocks /\ sentBlocks + 1 \in Nat \ {0}
  BY <1>1, <1>2
<1>4. /\ blocks' \in Seq(Nat \ {0}) /\ Len(blocks) \in Nat
      /\ Len(blocks') = Len(blocks) + 1 /\ blocks'[Len(blocks) + 1] = sentBlocks + 1
      /\ \A i \in 1..Len(blocks) : blocks'[i] = blocks[i]
  BY <1>1, <1>2, <1>3, AppendExtends
<1>5. Overall'
  <2>1. TypeOK'
    <3>1. sentBlocks' \in 0..Blocks /\ blocks' \in Seq(Nat \ {0})
      BY <1>1, <1>3, <1>4
    <3> QED BY <1>1, <3>1, Zenon DEF TypeOK, ConnectionsTypeOK, ServerTypeOK, ClientTypeOK
  <2> QED BY <1>1, <2>1 DEF Overall, OldFileKept, Downloaded, NoFailureWithoutCause
<1>6. ASSUME Following, Session
      PROVE  Session'
  <2>1. step \in {"RETR", "LIST", "fopen", "receive"}
    BY <1>1 DEF TypeOK, ClientTypeOK
  <2>2. InStage' /\ LinesInOrder' /\ TransferInOrder' /\ AddressComes'
    BY <1>1, <1>6, <2>1 DEF Session, InStage, Stages, LinesInOrder, Coded, Expecting, Silent,
                            TransferInOrder, Announces, AddressComes
  <2>3. CodesTell'
    <3>1. \A to, d : to # "final" /\ Tells(to, d) => Tells(to, d)'
      BY <1>1 DEF Tells
    <3>2. \A i \in 1..Len(toClient) : Coded(i) => toClient[i].to # "final"
      BY <1>1, <1>6 DEF Session, TransferInOrder
    <3> QED BY <1>1, <1>6, <2>1, <3>1, <3>2 DEF Session, CodesTell, Coded
  <2>4. BlocksInOrder'
    <3>1. /\ step \in {"RETR", "fopen"} => Len(blocks) = sentBlocks /\ Consecutive(blocks, 0)
          /\ ~unflushed /\ step = "receive" /\ ~doList =>
                /\ local \in Seq(Nat \ {0}) /\ Len(local) + Len(blocks) = sentBlocks
                /\ Consecutive(local, 0) /\ Consecutive(blocks, Len(local))
          /\ step = "receive" /\ ~doList => local \in Seq(Nat \ {0})
      BY <1>1, <1>6 DEF Session, BlocksInOrder
    <3>2. ASSUME NEW n \in Nat, Len(blocks) + n = sentBlocks, Consecutive(blocks, n)
          PROVE  Consecutive(blocks', n)
      <4>1. blocks'[Len(blocks) + 1] = n + (Len(blocks) + 1)
        BY <1>2, <1>4, <3>2
      <4>2. \A i \in 1..Len(blocks) : blocks'[i] = n + i
        BY <1>4, <3>2 DEF Consecutive
      <4>3. \A i \in 1..Len(blocks') : i \in 1..Len(blocks) \/ i = Len(blocks) + 1
        BY <1>4
      <4> QED BY <4>1, <4>2, <4>3 DEF Consecutive
    <3>3. step \in {"RETR", "fopen"} => Len(blocks') = sentBlocks' /\ Consecutive(blocks', 0)
      <4>1. CASE step \in {"RETR", "fopen"}
        <5>1. Len(blocks) + 0 = sentBlocks
          BY <1>4, <3>1, <4>1
        <5> QED BY <1>1, <1>2, <1>4, <3>1, <3>2, <4>1, <5>1
      <4> QED BY <4>1
    <3>4. ~unflushed /\ step = "receive" /\ ~doList =>
             /\ Len(local) + Len(blocks') = sentBlocks'
             /\ Consecutive(blocks', Len(local))
      <4>1. CASE ~unflushed /\ step = "receive" /\ ~doList
        <5>1. Len(local) \in Nat
          BY <3>1, <4>1, LenProperties
        <5>2. Len(blocks) + Len(local) = sentBlocks /\ Consecutive(blocks, Len(local))
          BY <1>4, <3>1, <4>1, <5>1
        <5>3. Consecutive(blocks', Len(local))
          BY <3>2, <5>1, <5>2
        <5>4. Len(local) + Len(blocks') = sentBlocks'
          BY <1>1, <1>2, <1>4, <5>1, <5>2, SMTT(30)
        <5> QED BY <5>3, <5>4
      <4> QED BY <4>1
    <3>5. ctrlEnd # "none"
      BY <1>6, <2>1 DEF Session, InStage
    <3> QED BY <1>1, <2>1, <3>1, <3>3, <3>4, <3>5 DEF BlocksInOrder, Consecutive
  <2> QED BY <2>2, <2>3, <2>4 DEF Session
<1> QED BY <1>5, <1>6

LEMMA DataBreaksKeeps ==
    ASSUME Overall, DataBreaks, UNCHANGED <<cltVars, srvVars>>, Mark("fault")
    PROVE  Overall' /\ (Following /\ Session => Session')
<1>1. /\ TypeOK /\ UNCHANGED <<toServer, toClient, ctrlEnd, dataSock, transfer, sentBlocks, step,
                               reading, code, message, untried, doList, status, local>>
      /\ dataSock /\ dataEnd' = "reset" /\ blocks' = << >>
      /\ trouble' /\ unflushed' = unflushed /\ wrong' \subseteq Wrongs
  BY FaultMarks DEF Overall, DataBreaks, control, cltVars, flow, srvVars
<1>2. Overall'
  <2>1. TypeOK'
    <3>2. blocks' \in Seq(Nat \ {0}) /\ dataEnd' \in {"none", "open", "fin", "reset"}
      BY <1>1
    <3> QED BY <1>1, <3>2, ZenonT(60) DEF TypeOK, ConnectionsTypeOK, ServerTypeOK, ClientTypeOK
  <2> QED BY <1>1, <2>1 DEF Overall, OldFileKept, Downloaded, NoFailureWithoutCause
<1>3. ASSUME Following, Session
      PROVE  Session'
  <2>1. step \in {"RETR", "LIST", "fopen", "receive"} /\ ctrlEnd # "none"
    BY <1>1, <1>3 DEF TypeOK, ClientTypeOK, Session, InStage
  <2>2. InStage' /\ LinesInOrder' /\ TransferInOrder' /\ AddressComes'
    BY <1>1, <1>3, <2>1 DEF Session, InStage, Stages, LinesInOrder, Coded, Expecting, Silent,
                            TransferInOrder, Announces, AddressComes
  <2>3. CodesTell'
    BY <1>1, <1>3, <2>1 DEF Session, CodesTell, Coded, Tells
  <2>4. BlocksInOrder'
    BY <1>1, <1>3, <2>1 DEF Session, BlocksInOrder
  <2> QED BY <2>2, <2>3, <2>4 DEF Session
<1> QED BY <1>2, <1>3

(* What is left of the lines: a part of them, of which the last may have   *)
(* lost its code.                                                          *)
LEMMA LeavesLines ==
    ASSUME toClient \in Seq(Line), Leaves
    PROVE  /\ toClient' \in Seq(Line) /\ Len(toClient) \in Nat
           /\ Len(toClient') \in 0..Len(toClient)
           /\ \A i \in 1..Len(toClient') : i < Len(toClient') => toClient'[i] = toClient[i]
           /\ \A i \in 1..Len(toClient') : toClient'[i] # toClient[i] =>
                 toClient'[i].code = 0 /\ ~toClient'[i].space
<1>1. Len(toClient) \in Nat /\ \A i \in 1..Len(toClient) : toClient[i] \in Line
  BY LenProperties, ElementOfSeq
<1>2. PICK n \in 0..Len(toClient) :
         \/ toClient' = SubSeq(toClient, 1, n)
         \/ n > 0 /\ toClient' = [SubSeq(toClient, 1, n) EXCEPT ![n] = Cut(@)]
  BY DEF Leaves
<1> DEFINE q == SubSeq(toClient, 1, n)
<1>3. q \in Seq(Line) /\ Len(q) = n /\ \A i \in 1..n : q[i] = toClient[i]
  BY <1>1, SubSeqProperties
<1> HIDE DEF q
<1>4. CASE toClient' = q
  BY <1>1, <1>3, <1>4
<1>5. CASE n > 0 /\ toClient' = [q EXCEPT ![n] = Cut(@)]
  <2>1. toClient[n] \in Line /\ n \in 1..Len(q)
    BY <1>1, <1>3, <1>5
  <2>2. Cut(toClient[n]) \in Line /\ Cut(toClient[n]).code = 0 /\ ~Cut(toClient[n]).space
    <3>1. ASSUME NEW line \in Line
          PROVE  Cut(line) \in Line /\ Cut(line).code = 0 /\ ~Cut(line).space
      <4>1. Cut(line) \in Line
        <5>1. line.to \in Tos
          BY DEF Line, Tos
        <5>2. 0 \in 0..5 /\ FALSE \in BOOLEAN
          OBVIOUS
        <5> QED BY <5>1, <5>2 DEF Cut, Line, Tos
      <4>2. Cut(line).code = 0
        BY DEF Cut, Line
      <4>3. Cut(line).space = FALSE
        BY DEF Cut, Line
      <4> QED BY <4>1, <4>2, <4>3
    <3> QED BY <2>1, <3>1
  <2>3. /\ toClient' \in Seq(Line) /\ Len(toClient') = n
        /\ \A i \in 1..n : toClient'[i] = IF i = n THEN Cut(toClient[n]) ELSE q[i]
    <3>1. toClient' = [q EXCEPT ![n] = Cut(toClient[n])]
      BY <1>3, <1>5, <2>1
    <3> QED BY <1>1, <1>3, <2>1, <2>2, <3>1, ExceptSeq
  <2> QED BY <1>1, <1>3, <2>2, <2>3
<1> QED BY <1>2, <1>4, <1>5 DEF q

LEMMA LeavesKeeps ==
    ASSUME Overall, Leaves, UNCHANGED cltVars, Mark("fault")
    PROVE  Overall' /\ (Following /\ Session => Session')
<1>1. /\ TypeOK /\ UNCHANGED <<toServer, blocks, dataSock, sentBlocks, step, reading,
                               code, message, untried, doList, status, local>>
      /\ ctrlEnd = "open" /\ ctrlEnd' = "closed" /\ dataEnd' = Closed
      /\ transfer' = IF transfer = "running" THEN "over" ELSE transfer
      /\ trouble' /\ unflushed' = unflushed /\ wrong' \subseteq Wrongs
  BY FaultMarks DEF Overall, Leaves, cltVars, flow
<1>2. /\ toClient' \in Seq(Line) /\ Len(toClient) \in Nat
      /\ Len(toClient') \in 0..Len(toClient)
      /\ \A i \in 1..Len(toClient') : i < Len(toClient') => toClient'[i] = toClient[i]
      /\ \A i \in 1..Len(toClient') : toClient'[i] # toClient[i] =>
            toClient'[i].code = 0 /\ ~toClient'[i].space
  BY <1>1, LeavesLines DEF TypeOK, ConnectionsTypeOK
<1>3. /\ dataEnd' \in {"none", "open", "fin", "reset"} /\ (dataEnd' = "reset" <=> dataEnd = "reset")
      /\ dataEnd = "none" => dataEnd' = "none"
  BY <1>1 DEF Closed, TypeOK, ConnectionsTypeOK
<1>4. /\ transfer' \in {"greeting", "none", "running", "over"} /\ transfer' # "running"
      /\ transfer \in {"running", "over"} => transfer' \in {"running", "over"}
      /\ transfer' = "greeting" => transfer = "greeting"
  BY <1>1 DEF TypeOK, ServerTypeOK
<1>5. Overall'
  <2>1. TypeOK'
    <3>1. ctrlEnd' \in {"none", "open", "closed"}
      BY <1>1
    <3> QED BY <1>1, <1>2, <1>3, <1>4, <3>1, Zenon
            DEF TypeOK, ConnectionsTypeOK, ServerTypeOK, ClientTypeOK
  <2> QED BY <1>1, <1>3, <1>4, <2>1 DEF Overall, OldFileKept, Downloaded, NoFailureWithoutCause
<1>6. ASSUME Following, Session
      PROVE  Session'
  <2>1. LinesInOrder /\ TransferInOrder /\ CodesTell /\ InStage /\ BlocksInOrder
    BY <1>6 DEF Session
  <2>2. ASSUME NEW i \in 1..Len(toClient')
        PROVE  /\ i \in 1..Len(toClient)
               /\ toClient'[i].code # 0 \/ toClient'[i].space => toClient'[i] = toClient[i]
    BY <1>2
  <2>3. InStage'
    BY <1>1, <1>4, <2>1 DEF InStage, Stages
  <2>4. LinesInOrder'
    <3>1. Silent => Silent'
      BY <1>1, <2>2 DEF Silent, Coded
    <3> QED BY <1>1, <1>4, <2>1, <2>2, <3>1 DEF LinesInOrder, Coded, Expecting
  <2>5. TransferInOrder'
    <3>1. ASSUME step \in {"RETR", "LIST"}, NEW j \in 1..Len(toClient'), toClient'[j].to = "final",
                 toClient'[j].code # 0
          PROVE  \E i \in 1..Len(toClient') : i < j /\ toClient'[i].space /\ toClient'[i].to = step
      <4>1. PICK i \in 1..Len(toClient) : i < j /\ Announces(i)
        BY <2>1, <2>2, <3>1 DEF TransferInOrder, Coded
      <4>2. i \in 1..Len(toClient') /\ i < Len(toClient')
        BY <1>2, <4>1
      <4> QED BY <1>2, <4>1, <4>2 DEF Announces
    <3> QED BY <1>1, <1>4, <3>1 DEF TransferInOrder, Coded, Announces
  <2>6. CodesTell'
    <3>1. \A to, d : Tells(to, d) => Tells(to, d)'
      BY <1>1, <1>4 DEF Tells
    <3> QED BY <1>1, <2>1, <2>2, <3>1 DEF CodesTell, Coded
  <2>7. BlocksInOrder'
    BY <1>1, <1>3, <2>1 DEF BlocksInOrder
  <2>8. AddressComes'
    BY <1>1 DEF AddressComes
  <2> QED BY <2>3, <2>4, <2>5, <2>6, <2>7, <2>8 DEF Session
<1> QED BY <1>5, <1>6

LEMMA OutsideKeeps ==
    ASSUME SessionInv, Outside
    PROVE  SessionInv'
<1>1. Overall /\ (Following => Session) /\ (Overall' /\ (Following' => Session') => SessionInv')
  BY Parts DEF SessionInv, Overall, Session
<1>2. Following' = Following
  BY DEF Outside, Server, RemoteFaults, Misleads, Following, cltVars, flow
<1>3. ASSUME NEW c, NEW shape, NEW e, NEW at, AnswerStep(c, shape, e, at)
      PROVE  SessionInv'
  BY <1>1, <1>2, <1>3, AnswerOverall, AnswerSession
<1>4. ASSUME NEW c, NEW shape, FinalStep(c, shape)
      PROVE  SessionInv'
  BY <1>1, <1>2, <1>4, FinalOverall, FinalSession
<1>5. CASE SendsBlock /\ UNCHANGED <<cltVars, wrong>>
  BY <1>1, <1>2, <1>5, SendsBlockKeeps
<1>6. CASE Leaves /\ UNCHANGED cltVars /\ Mark("fault")
  BY <1>1, <1>2, <1>6, LeavesKeeps
<1>7. CASE DataBreaks /\ UNCHANGED <<cltVars, srvVars>> /\ Mark("fault")
  BY <1>1, <1>2, <1>7, DataBreaksKeeps
<1> QED BY <1>3, <1>4, <1>5, <1>6, <1>7, ServerSteps

(***************************************************************************)
(* The client's steps that end the session proper.                         *)
(***************************************************************************)
Stops ==
    /\ step' \in {"QUIT", "succeeded", "failed"} /\ GoesTo(step', FALSE)
    /\ status' \in {0, 1} /\ dataSock' = FALSE /\ toClient' \in Seq(Line)
    /\ UNCHANGED <<toServer, ctrlEnd, blocks, dataEnd, local, untried, doList, srvVars>>
    /\ Grows
    /\ Downloaded' /\ NoFailureWithoutCause'

LEMMA StopsKeeps ==
    ASSUME SessionInv, Stops
    PROVE  SessionInv'
<1>1. /\ Overall /\ UNCHANGED <<toServer, ctrlEnd, blocks, dataEnd, local, untried, doList, transfer,
                                sentBlocks>>
      /\ ~Following'
      /\ step' \in {"QUIT", "succeeded", "failed"} /\ reading' = FALSE /\ code' = 0 /\ message' = "empty"
      /\ status' \in {0, 1} /\ dataSock' = FALSE /\ toClient' \in Seq(Line)
      /\ wrong' \subseteq Wrongs /\ (trouble => trouble')
  BY Parts DEF Stops, Grows, GoesTo, srvVars, Following
<1>2. TypeOK'
  <2>1. dataSock' \in BOOLEAN /\ reading' \in BOOLEAN /\ ~dataSock' /\ ~reading'
    BY <1>1
  <2>2. step' \in Steps /\ code' \in 0..5 /\ message' \in {"empty", "address", "other"}
    BY <1>1 DEF Steps, Commands
  <2>3. code' = 0 /\ message' = "empty" /\ status' \in {0, 1}
    BY <1>1
  <2>4. ConnectionsTypeOK'
    BY <1>1, <2>1 DEF Overall, TypeOK, ConnectionsTypeOK
  <2>5. ServerTypeOK'
    BY <1>1 DEF Overall, TypeOK, ServerTypeOK
  <2>6. ClientTypeOK'
    BY <1>1, <2>1, <2>2, <2>3, Zenon DEF Overall, TypeOK, ClientTypeOK
  <2> QED BY <1>1, <2>4, <2>5, <2>6 DEF TypeOK
<1>3. OldFileKept' /\ (ctrlEnd' = "closed" => trouble')
  BY <1>1 DEF Overall, OldFileKept
<1> QED BY <1>1, <1>2, <1>3 DEF Stops, SessionInv

(* After a failure the exit status is not 0, and main does not claim it.   *)
LEMMA GivesUpKeeps ==
    ASSUME SessionInv, GivesUp, UNCHANGED <<toServer, ctrlEnd, blocks, dataEnd, local, srvVars>>,
           toClient' \in Seq(Line), Grows, trouble'
    PROVE  SessionInv'
<1>1. Overall
  BY Parts
<1>2. step' \in {"QUIT", "failed"} /\ (step' = "QUIT" => status' = 1) /\ status' \in {0, 1}
  BY <1>1 DEF GivesUp, GoesTo, Overall, TypeOK, ClientTypeOK
<1>3. Downloaded' /\ NoFailureWithoutCause'
  BY <1>2 DEF Downloaded, NoFailureWithoutCause
<1>4. GoesTo(step', FALSE)
  BY DEF GivesUp, GoesTo
<1>5. Stops
  BY <1>2, <1>3, <1>4 DEF Stops, GivesUp
<1> QED BY <1>5, StopsKeeps

LEMMA EndsKeeps ==
    ASSUME SessionInv, step = "QUIT", Ends, toClient' \in Seq(Line),
           UNCHANGED <<toServer, ctrlEnd, blocks, dataEnd, local, srvVars, wrong>>
    PROVE  SessionInv'
<1>1. Overall /\ status \in {0, 1} /\ dataSock = FALSE
  BY Parts DEF Overall, TypeOK, ConnectionsTypeOK, ClientTypeOK
<1>2. step' = (IF status = 0 THEN "succeeded" ELSE "failed") /\ UNCHANGED <<status, dataSock, doList>>
  BY DEF Ends, GoesTo
<1>3. Downloaded' /\ NoFailureWithoutCause'
  BY <1>1, <1>2, NothingNew DEF Overall, Downloaded, NoFailureWithoutCause
<1>4. GoesTo(step', FALSE)
  BY DEF Ends, GoesTo
<1>5. Grows
  BY <1>1, MarksStay DEF Overall, TypeOK
<1>6. Stops
  BY <1>1, <1>2, <1>3, <1>4, <1>5 DEF Stops, Ends
<1> QED BY <1>6, StopsKeeps

LEMMA FailsKeeps ==
    ASSUME SessionInv, GoesTo("failed", FALSE), dataSock' = FALSE, Grows, trouble',
           UNCHANGED <<control, blocks, dataEnd, untried, doList, status, local, srvVars>>
    PROVE  SessionInv'
<1>1. Overall /\ status \in {0, 1} /\ toClient \in Seq(Line)
  BY Parts DEF Overall, TypeOK, ClientTypeOK, ConnectionsTypeOK
<1>2. step' = "failed" /\ GoesTo(step', FALSE)
  BY DEF GoesTo
<1>3. Downloaded' /\ NoFailureWithoutCause'
  BY <1>2 DEF Downloaded, NoFailureWithoutCause
<1>4. Stops
  BY <1>1, <1>2, <1>3 DEF Stops, control
<1> QED BY <1>4, StopsKeeps

(* What counts as trouble, whatever else a local fault does.               *)
LEMMA LocalTrouble ==
    ASSUME SessionInv, LocalFaults
    PROVE  /\ Grows
           /\ (step # "connect" \/ step' = "failed" \/ LastAddress) => trouble'
<1>1. wrong \subseteq Wrongs /\ (wrong' = wrong \/ Mark("fault"))
      /\ (step # "connect" \/ step' = "failed" \/ LastAddress => Mark("fault"))
  BY DEF SessionInv, TypeOK, LocalFaults
<1>2. Mark("fault") => trouble'
  BY DEF Mark, trouble
<1>3. Grows
  BY <1>1, MarksStay DEF Wrongs
<1> QED BY <1>1, <1>2, <1>3

LEMMA FaultsKeep ==
    ASSUME SessionInv, LocalFaults, ~TriesNext
    PROVE  SessionInv'
<1>1. /\ ClientFaults /\ UNCHANGED srvVars /\ toClient \in Seq(Line)
      /\ Grows
      /\ step # "connect" \/ step' = "failed" => trouble'
  BY LocalTrouble DEF LocalFaults, SessionInv, TypeOK, ConnectionsTypeOK
<1>2. CASE ResolveFails \/ NoSocket
  <2>1. step \in {"resolve", "connect"} /\ GoesTo("failed", FALSE)
        /\ UNCHANGED <<control, data, untried, doList, status, local>>
    BY <1>2 DEF ResolveFails, NoSocket
  <2>2. trouble'
    BY <1>1, <2>1 DEF GoesTo
  <2>3. dataSock = FALSE
    BY <2>1 DEF SessionInv, TypeOK, ConnectionsTypeOK, ClientTypeOK
  <2> QED BY <1>1, <2>1, <2>2, <2>3, FailsKeeps DEF data
<1>3. CASE ConnectFails \/ OpenFails \/ WriteFails
  <2>1. step # "connect" /\ GivesUp /\ UNCHANGED <<control, blocks, dataEnd, local>>
    BY <1>3 DEF ConnectFails, ParsesPasv, OpenFails, WriteFails
  <2>2. trouble' /\ toClient' \in Seq(Line) /\ UNCHANGED <<toServer, ctrlEnd>>
    BY <1>1, <2>1 DEF control
  <2> QED BY <1>1, <2>1, <2>2, GivesUpKeeps
<1> QED BY <1>1, <1>2, <1>3 DEF ClientFaults

LEMMA FailuresKeep ==
    ASSUME SessionInv, UNCHANGED <<srvVars, wrong>>,
           NoneAnswers \/ ReplyFails \/ SendFails \/ ServerIsGone \/ NoAddress
    PROVE  SessionInv'
<1>1. /\ Overall /\ (Following => Session) /\ Grows /\ trouble' = trouble
      /\ toClient \in Seq(Line) /\ dataSock \in BOOLEAN
      /\ ctrlEnd = "closed" => trouble
  BY Parts, NothingNew, MarksStay DEF Overall, TypeOK, ConnectionsTypeOK
<1>2. CASE NoneAnswers
  <2>1. /\ step = "connect" /\ untried = 0 /\ GoesTo("failed", FALSE)
        /\ UNCHANGED <<control, data, untried, doList, status, local>>
    BY <1>2 DEF NoneAnswers
  <2>2. trouble
    BY <1>1, <2>1 DEF Following, Session, AddressComes
  <2>3. dataSock = FALSE
    BY <1>1, <2>1 DEF Overall, TypeOK, ClientTypeOK
  <2>4. Grows /\ trouble' /\ dataSock' = FALSE /\ UNCHANGED <<blocks, dataEnd>>
    BY <1>1, <2>1, <2>2, <2>3 DEF data
  <2> QED BY <2>1, <2>4, FailsKeeps
<1>3. CASE ReplyFails
  <2>1. trouble' /\ Grows /\ toClient' \in Seq(Line)
        /\ UNCHANGED <<toServer, ctrlEnd, blocks, dataEnd, local>>
    BY <1>1, <1>3 DEF ReplyFails, control
  <2>2. CASE step = "QUIT" /\ Ends
    BY <1>1, <2>1, <2>2, EndsKeeps
  <2>3. CASE GivesUp
    BY <1>1, <2>1, <2>3, GivesUpKeeps
  <2> QED BY <1>3, <2>2, <2>3 DEF ReplyFails
<1>4. CASE SendFails
  <2>1. trouble /\ UNCHANGED <<control, blocks, dataEnd, local>>
    BY <1>1, <1>4 DEF SendFails
  <2>2. CASE GivesUp
    BY <1>1, <2>1, <2>2, GivesUpKeeps DEF control
  <2>3. CASE GoesTo("failed", FALSE) /\ dataSock' = FALSE /\ UNCHANGED <<untried, doList, status>>
    BY <1>1, <2>1, <2>3, FailsKeeps
  <2> QED BY <1>4, <2>2, <2>3 DEF SendFails
<1>5. CASE ServerIsGone \/ NoAddress
  <2>1. GivesUp /\ UNCHANGED <<control, blocks, dataEnd, local>>
    BY <1>5 DEF ServerIsGone, ConnectFails, NoAddress
  <2>2. trouble
    BY <1>1, <1>5 DEF ServerIsGone, NoAddress, ParsesPasv, Following, Session, AddressComes
  <2> QED BY <1>1, <2>1, <2>2, GivesUpKeeps DEF control
<1> QED BY <1>2, <1>3, <1>4, <1>5

(***************************************************************************)
(* The client's steps between its replies.                                 *)
(***************************************************************************)
LEMMA ConnectingKeeps ==
    ASSUME SessionInv, UNCHANGED srvVars, Grows,
           \/ Resolves
           \/ Connects
           \/ TriesNext /\ (LastAddress => trouble')
    PROVE  SessionInv'
<1>1. /\ Overall /\ (Following => Session) /\ UNCHANGED <<transfer, sentBlocks>>
  BY Parts DEF srvVars
<1>2. /\ step \in {"resolve", "connect"} /\ step' \in {"connect", "greeting"}
      /\ step' = "connect" <=> ctrlEnd' = "none"
      /\ ctrlEnd' \in {"none", "open"}
      /\ reading' = (step' = "greeting") /\ code' = 0 /\ message' = "empty"
      /\ untried' \in 0..Addresses
      /\ step' = "connect" /\ ~trouble' => untried' > 0
      /\ UNCHANGED <<toServer, toClient, blocks, dataEnd, dataSock, doList, status, local>>
  <2>1. Session /\ code = 0 /\ message = "empty" /\ reading = FALSE
        /\ (step \in {"resolve", "connect"} <=> ctrlEnd = "none")
    BY <1>1 DEF Resolves, Connects, TriesNext, Following, Session, InStage, Overall, TypeOK, ClientTypeOK
  <2>2. CASE Resolves
    <3>1. PICK n \in 1..Addresses : untried' = n
      BY <2>2 DEF Resolves
    <3>2. untried' \in 0..Addresses /\ untried' > 0
      BY <3>1, ClientAssumption
    <3> QED BY <2>1, <2>2, <3>2 DEF Resolves, GoesTo, control, data
  <2>3. CASE Connects
    <3>1. untried \in 0..Addresses
      BY <1>1 DEF Overall, TypeOK, ClientTypeOK
    <3> QED BY <2>1, <2>3, <3>1 DEF Connects, GoesTo, data
  <2>4. CASE TriesNext /\ (LastAddress => trouble')
    <3>1. untried \in 1..Addresses /\ untried' = untried - 1 /\ (untried = 1 => trouble')
      BY <1>1, <2>4 DEF TriesNext, LastAddress, Overall, TypeOK, ClientTypeOK
    <3>2. untried' \in 0..Addresses /\ (~trouble' => untried' > 0)
      BY <3>1, ClientAssumption
    <3> QED BY <2>1, <2>4, <3>2 DEF TriesNext, control, data, flow
  <2> QED BY <2>2, <2>3, <2>4
<1>3. Session
  BY <1>1, <1>2 DEF Following
<1>4. Overall'
  <2>1. TypeOK'
    <3>1. reading' \in BOOLEAN /\ (reading' => step' \notin {"succeeded", "failed"}) /\ ~dataSock
      BY <1>1, <1>2 DEF Overall, TypeOK, ConnectionsTypeOK, ClientTypeOK
    <3>2. step' \in Steps /\ code' = 0 /\ code' \in 0..5 /\ ctrlEnd' \in {"none", "open", "closed"}
          /\ message' = "empty" /\ message' \in {"empty", "address", "other"}
      BY <1>2 DEF Steps
    <3>3. ConnectionsTypeOK'
      BY <1>1, <1>2, <3>2, Zenon DEF Overall, TypeOK, ConnectionsTypeOK
    <3>4. ServerTypeOK'
      BY <1>1, Zenon DEF Overall, TypeOK, ServerTypeOK
    <3>5. ClientTypeOK'
      BY <1>1, <1>2, <3>1, <3>2, Zenon DEF Overall, TypeOK, ClientTypeOK
    <3> QED BY <3>3, <3>4, <3>5 DEF TypeOK, Grows
  <2> QED BY <1>1, <1>2, <2>1 DEF Grows, Overall, OldFileKept, Downloaded, NoFailureWithoutCause
<1>5. Session'
  <2>1. transfer = "greeting" /\ toServer = << >> /\ Silent /\ ~reading
    BY <1>2, <1>3 DEF Session, InStage, Stages, LinesInOrder
  <2>2. InStage'
    BY <1>1, <1>2, <2>1 DEF InStage, Stages
  <2>3. LinesInOrder'
    BY <1>1, <1>2, <1>3, <2>1 DEF Session, LinesInOrder, Silent, Coded
  <2>4. TransferInOrder' /\ CodesTell'
    BY <1>1, <1>2, <2>1 DEF TransferInOrder, CodesTell, Coded, Silent
  <2>5. BlocksInOrder'
    BY <1>1, <1>2, <1>3 DEF Session, BlocksInOrder, InStage
  <2>6. AddressComes'
    BY <1>2 DEF AddressComes
  <2> QED BY <2>2, <2>3, <2>4, <2>5, <2>6 DEF Session
<1> QED BY <1>4, <1>5 DEF SessionInv, Overall, Session

LEMMA SendsCommandKeeps ==
    ASSUME SessionInv, SendsCommand, UNCHANGED <<srvVars, wrong>>
    PROVE  SessionInv'
<1>1. /\ Overall /\ (Following => Session)
      /\ UNCHANGED <<toClient, ctrlEnd, blocks, dataEnd, dataSock, transfer, sentBlocks, wrong, trouble, unflushed,
                     step, code, message, untried, doList, status, local>>
      /\ step \in Commands /\ ~reading /\ reading' = TRUE /\ toServer' = Append(toServer, step)
  BY Parts, NothingNew DEF SendsCommand, data, srvVars
<1>2. Overall'
  <2>1. TypeOK'
    <3>1. ConnectionsTypeOK'
      BY <1>1, AppendExtends DEF Overall, TypeOK, ConnectionsTypeOK
    <3>2. ServerTypeOK' /\ wrong' \subseteq Wrongs
      BY <1>1, Zenon DEF Overall, TypeOK, ServerTypeOK
    <3>3. reading' /\ reading' \in BOOLEAN /\ step \notin {"succeeded", "failed"}
      BY <1>1 DEF Commands
    <3>4. ClientTypeOK'
      BY <1>1, <3>3, Zenon DEF Overall, TypeOK, ClientTypeOK
    <3> QED BY <3>1, <3>2, <3>4 DEF TypeOK
  <2> QED BY <1>1, <2>1 DEF Overall, OldFileKept, Downloaded, NoFailureWithoutCause
<1>3. ASSUME Following'
      PROVE  Session'
  <2>1. Session /\ transfer = "none" /\ toServer = << >> /\ Silent
    BY <1>1, <1>3 DEF Following, Session, InStage, Stages, LinesInOrder, Commands
  <2>2. toServer' = <<step>> /\ step \notin {"resolve", "connect", "greeting", "final",
                                              "dataConnect", "fopen", "receive"}
    BY <1>1, <2>1 DEF Commands
  <2>3. InStage'
    BY <1>1, <2>1, <2>2 DEF Session, InStage, Stages
  <2>4. LinesInOrder'
    <3>1. Silent'
      BY <1>1, <2>1 DEF Silent, Coded
    <3> QED BY <1>1, <2>1, <3>1 DEF Session, LinesInOrder, Silent, Coded
  <2>5. TransferInOrder' /\ CodesTell'
    BY <1>1, <2>1 DEF TransferInOrder, CodesTell, Coded, Silent
  <2>6. BlocksInOrder'
    BY <1>1, <2>1 DEF Session, BlocksInOrder
  <2>7. AddressComes'
    BY <1>1, <2>1, <2>2 DEF Session, AddressComes
  <2> QED BY <2>3, <2>4, <2>5, <2>6, <2>7 DEF Session
<1> QED BY <1>2, <1>3 DEF SessionInv, Overall, Session

LEMMA ConnectsDataKeeps ==
    ASSUME SessionInv, ConnectsData, UNCHANGED <<srvVars, wrong>>
    PROVE  SessionInv'
<1>1. /\ Overall
      /\ UNCHANGED <<toServer, toClient, ctrlEnd, blocks, transfer, sentBlocks, wrong, trouble, unflushed,
                     untried, doList, status, local>>
      /\ step = "dataConnect" /\ ctrlEnd = "open" /\ dataEnd' = "open" /\ dataSock' = TRUE
      /\ step' = Transfer /\ reading' = FALSE /\ code' = 0 /\ message' = "empty"
  BY Parts, NothingNew DEF ConnectsData, ParsesPasv, GoesTo, control, srvVars
<1>2. Session
  BY <1>1, Parts DEF Following
<1>3. doList \in BOOLEAN /\ step' = (IF doList THEN "LIST" ELSE "RETR")
  BY <1>1 DEF Overall, TypeOK, ClientTypeOK, Transfer
<1>4. /\ transfer = "none" /\ toServer = << >> /\ Silent
      /\ blocks = << >> /\ sentBlocks = 0
  BY <1>1, <1>2 DEF Session, InStage, Stages, LinesInOrder, BlocksInOrder
<1>5. Overall'
  <2>1. TypeOK'
    <3>1. ConnectionsTypeOK'
      BY <1>1 DEF Overall, TypeOK, ConnectionsTypeOK
    <3>2. ServerTypeOK' /\ wrong' \subseteq Wrongs
      BY <1>1, Zenon DEF Overall, TypeOK, ServerTypeOK
    <3>0. ~reading' /\ reading' \in BOOLEAN
      BY <1>1
    <3>3. /\ code' \in 0..5 /\ code' = 0
          /\ step' \in Steps /\ step' \in {"RETR", "LIST", "fopen", "receive"}
          /\ message' = "empty" /\ message' \in {"empty", "address", "other"}
      BY <1>1, <1>3 DEF Steps, Commands
    <3>4. ClientTypeOK'
      BY <1>1, <3>0, <3>3, Zenon DEF Overall, TypeOK, ClientTypeOK
    <3> QED BY <3>1, <3>2, <3>4 DEF TypeOK
  <2> QED BY <1>1, <1>3, <2>1 DEF Overall, OldFileKept, Downloaded, NoFailureWithoutCause
<1>6. Session'
  <2>1. InStage'
    BY <1>1, <1>3, <1>4 DEF InStage, Stages
  <2>2. LinesInOrder' /\ TransferInOrder' /\ CodesTell'
    BY <1>1, <1>2, <1>4 DEF Session, LinesInOrder, TransferInOrder, CodesTell, Coded, Silent
  <2>3. BlocksInOrder'
    <3>1. Len(blocks) = sentBlocks /\ Consecutive(blocks, 0)
      BY <1>4 DEF Consecutive
    <3> QED BY <1>1, <1>3, <3>1 DEF BlocksInOrder, Consecutive
  <2>4. AddressComes'
    BY <1>1, <1>3 DEF AddressComes
  <2> QED BY <2>1, <2>2, <2>3, <2>4 DEF Session
<1> QED BY <1>5, <1>6 DEF SessionInv, Overall, Session

(* The file is opened, a block written or printed, the end of data found   *)
(* and the file closed, with all of it or not.                             *)
LEMMA TransferKeeps ==
    ASSUME SessionInv, UNCHANGED srvVars,
           \/ (OpensFile \/ Receives \/ ReceivesEnd) /\ UNCHANGED wrong
           \/ FlushFails /\ Mark("unflushed")
    PROVE  SessionInv'
<1>1. /\ Overall
      /\ UNCHANGED <<toServer, toClient, ctrlEnd, dataEnd, transfer, sentBlocks, trouble,
                     code, message, untried, doList, status>>
      /\ wrong' \subseteq Wrongs /\ (unflushed => unflushed')
      /\ OpensFile \/ Receives \/ ReceivesEnd \/ (FlushFails /\ unflushed')
      /\ step \in {"fopen", "receive"} /\ step' \in {"receive", "final"}
      /\ step = "fopen" => step' = "receive" /\ ~doList'
      /\ reading' = IF step' = "final" THEN TRUE ELSE reading
      /\ dataSock' = IF step' = "final" THEN FALSE ELSE dataSock
  <2>1. /\ Overall /\ UNCHANGED <<transfer, sentBlocks>>
        /\ step = "fopen" => ~doList
    BY Parts DEF srvVars, Following, Session, InStage
  <2>2. CASE FlushFails /\ Mark("unflushed")
    <3>1. /\ wrong' \subseteq Wrongs /\ trouble' = trouble /\ unflushed'
      BY <2>1, <2>2 DEF Overall, TypeOK, Wrongs, Mark, trouble, unflushed
    <3> QED BY <2>1, <2>2, <3>1 DEF FlushFails, EndOfData, Closes, control
  <2>3. CASE (OpensFile \/ Receives \/ ReceivesEnd) /\ UNCHANGED wrong
    <3>1. /\ wrong' \subseteq Wrongs /\ trouble' = trouble /\ unflushed' = unflushed
      BY <2>1, <2>3, NothingNew DEF Overall, TypeOK
    <3>3. CASE OpensFile
      BY <2>1, <3>1, <3>3 DEF OpensFile, control, data
    <3>4. CASE Receives
      BY <2>1, <3>1, <3>4 DEF Receives, control, flow
    <3>5. CASE ReceivesEnd
      BY <2>1, <3>1, <3>5 DEF ReceivesEnd, EndOfData, Closes, control
    <3> QED BY <2>3, <3>3, <3>4, <3>5
  <2> QED BY <2>2, <2>3
<1>2. Session
  BY <1>1, Parts DEF Following
<1>3. /\ code = 0 /\ message = "empty" /\ ~reading /\ transfer \in {"running", "over"}
      /\ toServer = << >> /\ ctrlEnd # "none" /\ doList \in BOOLEAN
  BY <1>1, <1>2 DEF Session, InStage, Stages, Overall, TypeOK, ClientTypeOK
<1>4. /\ blocks \in Seq(Nat \ {0}) /\ sentBlocks \in Nat
      /\ dataEnd # "reset" /\ step = "fopen" => Len(blocks) = sentBlocks /\ Consecutive(blocks, 0)
      /\ step = "receive" /\ ~doList => local \in Seq(Nat \ {0})
      /\ dataEnd # "reset" /\ ~unflushed /\ step = "receive" /\ ~doList =>
            /\ Len(local) + Len(blocks) = sentBlocks
            /\ Consecutive(local, 0) /\ Consecutive(blocks, Len(local))
  BY <1>1, <1>2, ServerAssumption
  DEF Session, BlocksInOrder, Overall, TypeOK, ConnectionsTypeOK, ServerTypeOK
<1>5. /\ blocks' \in Seq(Nat \ {0}) /\ (step' = "final" => blocks' = << >>)
      /\ doList => UNCHANGED local
      /\ ~doList => local' \in Seq(Nat \ {0})
      /\ dataEnd # "reset" /\ ~unflushed' /\ ~doList =>
            /\ Len(local') + Len(blocks') = sentBlocks
            /\ Consecutive(local', 0) /\ Consecutive(blocks', Len(local'))
  <2>1. CASE OpensFile
    <3>1. local' = << >> /\ UNCHANGED blocks /\ step = "fopen" /\ step' = "receive" /\ ~doList
      BY <1>1, <2>1 DEF OpensFile, data
    <3>2. Len(blocks) \in Nat
      BY <1>4, LenProperties
    <3>3. Len(local') = 0 /\ local' \in Seq(Nat \ {0})
      BY <3>1
    <3> QED BY <1>4, <3>1, <3>2, <3>3 DEF Consecutive
  <2>2. CASE Receives
    <3>1. /\ step = "receive" /\ step' = "receive" /\ blocks # << >> /\ blocks' = Tail(blocks)
          /\ local' = IF doList THEN local ELSE Append(local, Head(blocks))
      BY <2>2 DEF Receives, flow
    <3>2. /\ blocks' \in Seq(Nat \ {0}) /\ Len(blocks') = Len(blocks) - 1
          /\ Len(blocks) \in Nat /\ Len(blocks) >= 1 /\ Len(blocks') \in Nat
          /\ Head(blocks) = blocks[1] /\ Head(blocks) \in Nat \ {0}
          /\ \A i \in 1..Len(blocks') : i + 1 \in 1..Len(blocks) /\ blocks'[i] = blocks[i + 1]
      BY <1>4, <3>1, TailShifts
    <3>3. CASE doList
      BY <3>1, <3>2, <3>3
    <3>4. CASE ~doList
      <4>1. local \in Seq(Nat \ {0})
        BY <1>4, <3>1, <3>4
      <4>2. /\ local' \in Seq(Nat \ {0}) /\ Len(local) \in Nat /\ Len(local') = Len(local) + 1
            /\ local'[Len(local) + 1] = blocks[1]
            /\ \A i \in 1..Len(local) : local'[i] = local[i]
        BY <3>1, <3>2, <3>4, <4>1, AppendExtends
      <4>3. ASSUME dataEnd # "reset", ~unflushed'
            PROVE  /\ Len(local') + Len(blocks') = sentBlocks
                   /\ Consecutive(local', 0) /\ Consecutive(blocks', Len(local'))
        <5>1. /\ Len(local) + Len(blocks) = sentBlocks
              /\ Consecutive(local, 0) /\ Consecutive(blocks, Len(local))
          BY <1>1, <1>4, <3>1, <3>4, <4>3
        <5>2. blocks[1] = Len(local) + 1
          BY <3>2, <5>1 DEF Consecutive
        <5>3. ASSUME NEW i \in 1..Len(local') PROVE local'[i] = 0 + i
          <6>1. i \in 1..Len(local) \/ i = Len(local) + 1
            BY <4>2
          <6> QED BY <4>2, <5>1, <5>2, <6>1 DEF Consecutive
        <5>4. ASSUME NEW i \in 1..Len(blocks') PROVE blocks'[i] = Len(local') + i
          <6>1. i + 1 \in 1..Len(blocks) /\ blocks'[i] = Len(local) + (i + 1)
            BY <3>2, <5>1 DEF Consecutive
          <6> QED BY <4>2, <6>1
        <5> QED BY <3>2, <4>2, <5>1, <5>3, <5>4 DEF Consecutive
      <4> QED BY <3>1, <3>2, <3>4, <4>2, <4>3
    <3> QED BY <3>3, <3>4
  <2>3. CASE ReceivesEnd
    BY <1>1, <1>4, <2>3 DEF ReceivesEnd, EndOfData, Closes
  <2>4. CASE FlushFails /\ unflushed'
    <3>1. /\ step = "receive" /\ ~doList /\ blocks = << >> /\ blocks' = blocks
          /\ local \in Seq(Nat \ {0})
      BY <1>4, <2>4 DEF FlushFails, EndOfData, Closes
    <3>2. PICK n \in 0..Len(local) - 1 : local' = SubSeq(local, 1, n)
      BY <2>4 DEF FlushFails
    <3>3. local' \in Seq(Nat \ {0})
      BY <3>1, <3>2, LenProperties, SubSeqProperties
    <3> QED BY <1>4, <2>4, <3>1, <3>3
  <2> QED BY <1>1, <2>1, <2>2, <2>3, <2>4
<1>6. Overall'
  <2>1. TypeOK'
    <3>0. reading \in BOOLEAN /\ dataSock \in BOOLEAN
      BY <1>1 DEF Overall, TypeOK, ConnectionsTypeOK, ClientTypeOK
    <3>1. reading' \in BOOLEAN /\ dataSock' \in BOOLEAN /\ (dataSock' => step' = "receive")
          /\ (reading' => step' \notin {"succeeded", "failed"})
      <4>1. CASE step' = "final"
        BY <1>1, <4>1
      <4>2. CASE step' = "receive"
        BY <1>1, <3>0, <4>2
      <4> QED BY <1>1, <4>1, <4>2
    <3>2. ConnectionsTypeOK'
      BY <1>1, <1>5, <3>1 DEF Overall, TypeOK, ConnectionsTypeOK
    <3>3. ServerTypeOK' /\ wrong' \subseteq Wrongs
      BY <1>1, Zenon DEF Overall, TypeOK, ServerTypeOK
    <3>4. local' = Old \/ local' \in Seq(Nat \ {0})
      <4>1. local = Old \/ local \in Seq(Nat \ {0})
        BY <1>1 DEF Overall, TypeOK, ClientTypeOK
      <4> QED BY <1>5, <4>1
    <3>5. /\ step' \in Steps /\ code' = 0 /\ message' = "empty"
          /\ dataSock' => step' \in {"RETR", "LIST", "fopen", "receive"}
      BY <1>1, <1>3, <3>1 DEF Steps
    <3>6. ClientTypeOK'
      BY <1>1, <3>1, <3>4, <3>5, Zenon DEF Overall, TypeOK, ClientTypeOK
    <3> QED BY <3>2, <3>3, <3>6 DEF TypeOK
  <2> QED BY <1>1, <1>3, <1>5, <2>1 DEF Overall, OldFileKept, Downloaded, NoFailureWithoutCause
<1>7. Session'
  <2>1. InStage'
    BY <1>1, <1>2, <1>3 DEF Session, InStage, Stages
  <2>2. LinesInOrder'
    BY <1>1, <1>2, <1>3 DEF Session, LinesInOrder, Silent, Coded, Expecting
  <2>3. TransferInOrder' /\ CodesTell'
    BY <1>1, <1>2, <1>3 DEF Session, TransferInOrder, CodesTell, Coded, Tells
  <2>4. BlocksInOrder'
    BY <1>1, <1>3, <1>5 DEF BlocksInOrder, Consecutive
  <2>5. AddressComes'
    BY <1>1 DEF AddressComes
  <2> QED BY <2>1, <2>2, <2>3, <2>4, <2>5 DEF Session
<1> QED BY <1>6, <1>7 DEF SessionInv, Overall, Session

(***************************************************************************)
(* The client reads a line.                                                *)
(***************************************************************************)
(* The other lines move up.                                                *)
Shorter ==
    /\ toClient' \in Seq(Line) /\ Len(toClient) \in Nat /\ Len(toClient) >= 1
    /\ Len(toClient') = Len(toClient) - 1 /\ toClient[1] \in Line
    /\ \A i \in 1..Len(toClient') : i + 1 \in 1..Len(toClient) /\ toClient'[i] = toClient[i + 1]

(* The first digit of the code, once the line is read.                     *)
First == IF code = 0 THEN toClient[1].code ELSE code

LEMMA LineRead ==
    ASSUME SessionInv, ReadsLine, UNCHANGED <<srvVars, wrong>>
    PROVE  /\ Overall /\ (Following => Session) /\ reading /\ Shorter /\ First \in 0..5
           /\ UNCHANGED <<toServer, ctrlEnd, blocks, dataEnd, local, transfer, sentBlocks, wrong>>
           /\ IF toClient[1].space THEN HandlesReply(First, Kept(toClient[1]))
              ELSE /\ code' = First /\ message' = Kept(toClient[1])
                   /\ UNCHANGED <<step, reading, untried, doList, status, dataSock>>
<1>1. Overall /\ toClient \in Seq(Line) /\ toClient # << >> /\ toClient' = Tail(toClient) /\ code \in 0..5
  BY Parts DEF ReadsLine, Overall, TypeOK, ConnectionsTypeOK, ClientTypeOK
<1>2. Shorter /\ Head(toClient) = toClient[1]
  <2> DEFINE q == Tail(toClient)
  <2>1. /\ Head(toClient) \in Line /\ Head(toClient) = toClient[1]
        /\ Len(toClient) \in Nat /\ Len(toClient) >= 1 /\ q \in Seq(Line)
        /\ Len(q) = Len(toClient) - 1
        /\ \A i \in 1..Len(q) : i + 1 \in 1..Len(toClient) /\ q[i] = toClient[i + 1]
    BY <1>1, TailShifts
  <2>2. toClient' = q
    BY <1>1
  <2> HIDE DEF q
  <2> QED BY <2>1, <2>2 DEF Shorter
<1>3. First \in 0..5
  BY <1>1, <1>2 DEF First, Shorter, Line
<1> QED BY <1>1, <1>2, <1>3, Parts DEF ReadsLine, First, EndsReply, srvVars

(* While the session is followed, a line with a code belongs to the reply  *)
(* that is read.                                                           *)
LEMMA CodeRead ==
    ASSUME Overall, Following, Session, reading, Shorter
    PROVE  /\ step \notin {"fopen", "receive", "resolve", "connect", "dataConnect"}
           /\ Coded(1) => toClient[1].to = step
           /\ First # 0 => Tells(step, First)
           /\ toClient[1].space => Coded(1) /\ First # 0
           /\ Coded(1) => toServer = << >> /\ transfer # "greeting"
<1>1. InStage /\ LinesInOrder /\ TransferInOrder /\ CodesTell /\ 1 \in 1..Len(toClient)
  BY DEF Session, Shorter
<1>2. step \notin {"fopen", "receive", "resolve", "connect", "dataConnect"}
  BY <1>1 DEF InStage
<1>3. Coded(1) => toClient[1].to = step
  <2>1. CASE step \notin {"RETR", "LIST"}
    BY <1>1, <1>2, <2>1 DEF LinesInOrder, Expecting
  <2>2. CASE step \in {"RETR", "LIST"}
    <3>1. Coded(1) => toClient[1].to \in {step, "final"}
      BY <1>1, <2>2 DEF LinesInOrder, Expecting
    <3>2. Coded(1) => toClient[1].to # "final"
      <4>1. ASSUME NEW i \in 1..Len(toClient) PROVE ~(i < 1)
        BY DEF Shorter
      <4> QED BY <1>1, <2>2, <4>1 DEF TransferInOrder
    <3> QED BY <3>1, <3>2
  <2> QED BY <2>1, <2>2
<1>4. First # 0 => Tells(step, First)
  BY <1>1, <1>3 DEF CodesTell, First, Coded
<1>5. toClient[1].space => Coded(1) /\ First # 0
  BY <1>1 DEF LinesInOrder, First, Coded
<1>6. Coded(1) => toServer = << >> /\ transfer # "greeting"
  BY <1>1 DEF LinesInOrder, Silent
<1> QED BY <1>2, <1>3, <1>4, <1>5, <1>6

LEMMA KeptType == Kept(toClient[1]) \in {"address", "other"} \/ Kept(toClient[1]) = message
  BY DEF Kept

(* The reply goes on with the next line.                                   *)
LEMMA MoreLines ==
    ASSUME Overall, Following => Session, reading, Shorter, First \in 0..5, ~toClient[1].space,
           UNCHANGED <<toServer, ctrlEnd, blocks, dataEnd, local, transfer, sentBlocks, wrong>>,
           UNCHANGED <<trouble, unflushed>>,
           code' = First, message' = Kept(toClient[1]),
           UNCHANGED <<step, reading, untried, doList, status, dataSock>>
    PROVE  SessionInv'
<1>1. Overall'
  <2>1. TypeOK'
    <3>1. ConnectionsTypeOK'
      BY DEF Overall, TypeOK, ConnectionsTypeOK, Shorter
    <3>2. ServerTypeOK' /\ wrong' \subseteq Wrongs
      BY Zenon DEF Overall, TypeOK, ServerTypeOK
    <3>3. message' \in {"empty", "address", "other"}
      BY KeptType DEF Overall, TypeOK, ClientTypeOK
    <3>4. ClientTypeOK'
      BY <3>3, Zenon DEF Overall, TypeOK, ClientTypeOK
    <3> QED BY <3>1, <3>2, <3>4 DEF TypeOK
  <2> QED BY <2>1 DEF Overall, OldFileKept, Downloaded, NoFailureWithoutCause
<1>2. ASSUME Following
      PROVE  Session'
  <2>1. InStage /\ LinesInOrder /\ TransferInOrder /\ CodesTell /\ BlocksInOrder /\ AddressComes
    BY <1>2 DEF Session
  <2>2. /\ step \notin {"fopen", "receive", "resolve", "connect", "dataConnect"}
        /\ Coded(1) => toClient[1].to = step
        /\ First # 0 => Tells(step, First)
        /\ Coded(1) => toServer = << >> /\ transfer # "greeting"
    BY <1>2, CodeRead
  <2>3. ASSUME NEW i \in 1..Len(toClient')
        PROVE  /\ i + 1 \in 1..Len(toClient) /\ i \in Nat
               /\ toClient'[i] = toClient[i + 1]
    BY DEF Shorter
  <2>4. InStage'
    BY <2>1 DEF InStage, Stages
  <2>5. LinesInOrder'
    <3>1. Silent => Silent'
      <4>1. ASSUME Silent PROVE code' = 0
        BY <4>1 DEF Silent, First, Coded, Shorter
      <4> QED BY <2>3, <4>1 DEF Silent, Coded
    <3>2. ASSUME NEW i \in 1..Len(toClient'), NEW j \in 1..Len(toClient'), i < j,
                 toClient'[i].space, toClient'[j].code # 0
          PROVE  toClient'[i].to # "final" /\ toClient'[j].to = "final"
      <4>1. i + 1 < j + 1 /\ i + 1 \in 1..Len(toClient) /\ j + 1 \in 1..Len(toClient)
        BY <2>3, <3>2
      <4>2. toClient[i + 1].space /\ Coded(j + 1)
        BY <2>3, <3>2 DEF Coded
      <4>3. toClient[i + 1].to # "final" /\ toClient[j + 1].to = "final"
        BY <2>1, <4>1, <4>2 DEF LinesInOrder
      <4> QED BY <2>3, <4>3
    <3>3. \A i \in 1..Len(toClient') : /\ toClient'[i].space => toClient'[i].code # 0
                                       /\ toClient'[i].code # 0 => toClient'[i].to \in Expecting'
      BY <2>1, <2>3 DEF LinesInOrder, Coded, Expecting
    <3>4. (toServer' # << >> \/ transfer' = "greeting" => Silent')
          /\ (~reading' /\ step' \notin {"fopen", "receive"} => Silent')
      BY <2>1, <3>1 DEF LinesInOrder
    <3> QED BY <3>2, <3>3, <3>4 DEF LinesInOrder, Coded
  <2>6. TransferInOrder'
    <3>1. transfer = "running" =>
             /\ \A i \in 1..Len(toClient') : toClient'[i].code # 0 => toClient'[i].to # "final"
             /\ step = "final" => code' = 0
      <4>1. ASSUME transfer = "running", step = "final"
            PROVE  code' = 0
        <5>1. 1 \in 1..Len(toClient)
          BY DEF Shorter
        <5>2. code = 0 /\ (Coded(1) => toClient[1].to # "final")
          BY <2>1, <4>1, <5>1 DEF TransferInOrder
        <5> QED BY <2>2, <4>1, <5>2 DEF First, Coded
      <4> QED BY <2>1, <2>3, <4>1 DEF TransferInOrder, Coded
    <3>2. ASSUME NEW k \in 1..Len(toClient), Announces(k)
          PROVE  \E i \in 1..Len(toClient') : i + 1 = k /\ toClient'[i].space /\ toClient'[i].to = step
      <4>1. k # 1 /\ k - 1 \in 1..Len(toClient') /\ (k - 1) + 1 = k
        BY <3>2 DEF Announces, Shorter
      <4>2. toClient'[k - 1] = toClient[k]
        BY <2>3, <4>1
      <4> QED BY <3>2, <4>1, <4>2 DEF Announces
    <3>3. ASSUME step \in {"RETR", "LIST"}, transfer = "running"
          PROVE  \E i \in 1..Len(toClient') : toClient'[i].space /\ toClient'[i].to = step
      BY <2>1, <3>2, <3>3 DEF TransferInOrder
    <3>4. ASSUME step \in {"RETR", "LIST"}, NEW j \in 1..Len(toClient'), toClient'[j].code # 0,
                 toClient'[j].to = "final"
          PROVE  \E i \in 1..Len(toClient') : i < j /\ toClient'[i].space /\ toClient'[i].to = step
      <4>1. Coded(j + 1) /\ toClient[j + 1].to = "final" /\ j + 1 \in 1..Len(toClient)
        BY <2>3, <3>4 DEF Coded
      <4>2. PICK k \in 1..Len(toClient) : k < j + 1 /\ Announces(k)
        BY <2>1, <3>4, <4>1 DEF TransferInOrder
      <4>3. PICK i \in 1..Len(toClient') : i + 1 = k /\ toClient'[i].space /\ toClient'[i].to = step
        BY <3>2, <4>2
      <4>4. i < j
        BY <2>3, <4>2, <4>3
      <4> QED BY <4>3, <4>4
    <3> QED BY <3>1, <3>3, <3>4 DEF TransferInOrder, Coded, Announces
  <2>7. CodesTell'
    <3>1. \A to, d : Tells(to, d) => Tells(to, d)'
      BY DEF Tells
    <3>2. code' # 0 => Tells(step, code)'
      BY <2>2, <3>1
    <3> QED BY <2>1, <2>3, <3>1, <3>2 DEF CodesTell, Coded
  <2>8. BlocksInOrder'
    BY <2>1 DEF BlocksInOrder
  <2>9. AddressComes'
    <3> SUFFICES ASSUME ~trouble PROVE AddressComes'
      BY DEF AddressComes
    <3>1. step = "TYPE" => \A i \in 1..Len(toClient') : toClient'[i].space => i = Len(toClient')
      <4>1. ASSUME step = "TYPE", NEW i \in 1..Len(toClient'), toClient'[i].space
            PROVE  i = Len(toClient')
        <5>1. i + 1 = Len(toClient)
          BY <2>1, <2>3, <4>1 DEF AddressComes
        <5> QED BY <2>3, <5>1 DEF Shorter
      <4> QED BY <4>1
    <3>2. step = "PASV" => toServer = << >> /\ reading /\ message' = "address"
      <4>1. toClient # << >>
        BY DEF Shorter
      <4> QED BY <2>1, <4>1 DEF AddressComes, Kept
    <3> QED BY <2>2, <3>1, <3>2 DEF AddressComes
  <2> QED BY <2>4, <2>5, <2>6, <2>7, <2>8, <2>9 DEF Session
<1> QED BY <1>1, <1>2 DEF SessionInv, Overall, Session, Following

(* Without trouble every reply leads on.                                   *)
LEMMA RepliesLeadOn ==
    ASSUME Overall, Following, Session, reading, Shorter, toClient[1].space, GoesOn(First) = "fails"
    PROVE  trouble
<1>1. /\ InStage /\ step \in Steps /\ doList \in BOOLEAN
      /\ step \notin {"fopen", "receive", "resolve", "connect", "dataConnect", "QUIT",
                      "succeeded", "failed"}
      /\ Tells(step, First)
  BY CodeRead DEF Overall, TypeOK, ClientTypeOK, Session, Following
<1>2. (step = "RETR" => ~doList) /\ (step = "LIST" => doList)
  BY <1>1 DEF InStage
<1>3. ASSUME First \in Codes(step)
      PROVE  FALSE
  <2> USE DEF Codes, GoesOn, Welcome, ftp_login, ftp_set_binary, PasvReply, ftp_list, ftp_retr_file
  <2>1. CASE step \in {"greeting", "TYPE", "PASV"}
    BY <1>3, <2>1
  <2>2. CASE step \in {"USER", "PASS"}
    BY <1>3, <2>2
  <2>3. CASE step \in {"RETR", "LIST"}
    BY <1>2, <1>3, <2>3
  <2>4. CASE step = "final"
    BY <1>1, <1>3, <2>4
  <2> QED BY <1>1, <2>1, <2>2, <2>3, <2>4 DEF Steps, Commands
<1> QED BY <1>1, <1>3 DEF Tells

(* The places a complete reply leads to.                                   *)
LEMMA NextPlaces ==
    ASSUME Overall, Following, Session, reading, Shorter, toClient[1].space, GoesOn(First) # "fails"
    PROVE  \/ step \in {"greeting", "USER", "PASS"} /\ GoesOn(First) \in {"USER", "PASS", "TYPE"}
           \/ step = "TYPE" /\ GoesOn(First) = "PASV"
           \/ step = "PASV" /\ GoesOn(First) = "dataConnect"
           \/ step = "RETR" /\ GoesOn(First) = "fopen" /\ First = 1 /\ ~doList
           \/ step = "LIST" /\ GoesOn(First) = "receive" /\ First = 1 /\ doList
           \/ step = "final" /\ GoesOn(First) = "QUIT" /\ First = 2
<1>1. /\ InStage /\ step \in Steps /\ doList \in BOOLEAN
      /\ step \notin {"fopen", "receive", "resolve", "connect", "dataConnect", "QUIT",
                      "succeeded", "failed"}
  BY CodeRead DEF Overall, TypeOK, ClientTypeOK, Session, Following
<1>2. (step = "RETR" => ~doList) /\ (step = "LIST" => doList)
  BY <1>1 DEF InStage
<1> QED BY <1>1, <1>2 DEF GoesOn, Welcome, ftp_login, ftp_set_binary, PasvReply, ftp_list,
                          ftp_retr_file, Steps, Commands

(* The server has said that the transfer is complete when it has sent all, *)
(* and the client has read all that came.                                  *)
LEMMA WholeFile ==
    ASSUME Overall, Session, Following, step = "final", sentBlocks = Blocks, dataEnd # "reset",
           ~unflushed, ~doList
    PROVE  local = [i \in 1..Blocks |-> i]
<1>1. /\ blocks = << >> /\ local \in Seq(Nat \ {0})
      /\ Len(local) + Len(blocks) = Blocks /\ Consecutive(local, 0)
  BY DEF Session, BlocksInOrder
<1>2. Len(local) = Blocks /\ Len(local) \in Nat
  BY <1>1, LenProperties
<1>3. DOMAIN local = 1..Blocks /\ local = [i \in DOMAIN local |-> local[i]]
  BY <1>1, <1>2, LenProperties
<1>4. \A i \in 1..Blocks : local[i] = i
  BY <1>1, <1>2 DEF Consecutive
<1> QED BY <1>3, <1>4

LEMMA ReplyComplete ==
    ASSUME SessionInv, Overall, Following, Session, reading, Shorter, First \in 0..5,
           toClient[1].space, GoesOn(First) # "fails",
           UNCHANGED <<toServer, ctrlEnd, blocks, dataEnd, local, transfer, sentBlocks, wrong>>,
           UNCHANGED <<trouble, unflushed>>,
           step' = GoesOn(First), reading' = FALSE, code' = 0,
           message' = IF step = "PASV" THEN Kept(toClient[1]) ELSE "empty",
           UNCHANGED <<status, dataSock, untried, doList>>
    PROVE  SessionInv'
<1>1. /\ InStage /\ LinesInOrder /\ TransferInOrder /\ CodesTell /\ BlocksInOrder /\ AddressComes
      /\ Tells(step, First) /\ Coded(1) /\ toClient[1].to = step
      /\ toServer = << >> /\ transfer # "greeting" /\ 1 \in 1..Len(toClient)
  BY CodeRead DEF Session, Shorter
<1>2. \/ step \in {"greeting", "USER", "PASS"} /\ step' \in {"USER", "PASS", "TYPE"}
      \/ step = "TYPE" /\ step' = "PASV"
      \/ step = "PASV" /\ step' = "dataConnect"
      \/ step = "RETR" /\ step' = "fopen" /\ First = 1 /\ ~doList
      \/ step = "LIST" /\ step' = "receive" /\ First = 1 /\ doList
      \/ step = "final" /\ step' = "QUIT" /\ First = 2
  BY NextPlaces
<1>3. ASSUME NEW i \in 1..Len(toClient')
      PROVE  i + 1 \in 1..Len(toClient) /\ 1 < i + 1 /\ toClient'[i] = toClient[i + 1]
  BY DEF Shorter
<1>4. \A i \in 1..Len(toClient') : Coded(i)' =>
         Coded(i + 1) /\ toClient[i + 1].to = "final" /\ toClient'[i].to = "final" /\ step # "final"
  BY <1>1, <1>3 DEF LinesInOrder, Coded
<1>5. Overall'
  <2>1. TypeOK'
    <3>1. ConnectionsTypeOK'
      BY DEF Overall, TypeOK, ConnectionsTypeOK, Shorter
    <3>2. ServerTypeOK' /\ wrong' \subseteq Wrongs
      BY Zenon DEF Overall, TypeOK, ServerTypeOK
    <3>3. /\ reading' \in BOOLEAN /\ ~reading'
      OBVIOUS
    <3>4. /\ message' \in {"empty", "address", "other"} /\ (message' # "empty" => step' = "dataConnect")
          /\ code' \in 0..5 /\ code' = 0 /\ step' \in Steps
      BY <1>2, KeptType DEF Overall, TypeOK, ClientTypeOK, Steps, Commands
    <3>5. dataSock' => step' \in {"RETR", "LIST", "fopen", "receive"}
      BY <1>2 DEF Overall, TypeOK, ClientTypeOK
    <3>6. ClientTypeOK'
      BY <3>3, <3>4, <3>5, Zenon DEF Overall, TypeOK, ClientTypeOK
    <3> QED BY <3>1, <3>2, <3>6 DEF TypeOK
  <2>2. Downloaded'
    <3>1. ASSUME step' = "QUIT", dataEnd # "reset", ~unflushed, ~doList
          PROVE  local = [i \in 1..Blocks |-> i]
      <4>1. step = "final" /\ sentBlocks = Blocks
        BY <1>1, <1>2, <3>1 DEF Tells
      <4> QED BY <3>1, <4>1, WholeFile
    <3> QED BY <1>2, <3>1 DEF Downloaded
  <2>3. OldFileKept' /\ NoFailureWithoutCause' /\ (ctrlEnd' = "closed" => trouble')
    BY <1>2 DEF Overall, OldFileKept, NoFailureWithoutCause
  <2> QED BY <2>1, <2>2, <2>3 DEF Overall
<1>6. ASSUME Following'
      PROVE  Session'
  <2>1. \/ step \in {"greeting", "USER", "PASS", "TYPE", "PASV"} /\ transfer = "none"
           /\ step' \in {"USER", "PASS", "TYPE", "PASV", "dataConnect"}
        \/ step \in {"RETR", "LIST"} /\ transfer \in {"running", "over"}
           /\ step' \in {"fopen", "receive"}
    BY <1>1, <1>2, <1>6 DEF Following, Tells, InStage, Stages
  <2>2. ctrlEnd # "none"
    BY <1>1, <2>1 DEF InStage
  <2>3. InStage'
    BY <1>1, <1>2, <2>1, <2>2 DEF InStage, Stages
  <2>4. step' \in {"USER", "PASS", "TYPE", "PASV", "dataConnect"} =>
           \A i \in 1..Len(toClient') : ~Coded(i)'
    <3>1. ASSUME step' \in {"USER", "PASS", "TYPE", "PASV", "dataConnect"},
                 NEW i \in 1..Len(toClient'), Coded(i)'
          PROVE  FALSE
      <4>1. toClient[i + 1].to \in Expecting /\ toClient[i + 1].to = "final"
        BY <1>1, <1>3, <1>4, <3>1 DEF LinesInOrder
      <4> QED BY <2>1, <3>1, <4>1 DEF Expecting
    <3> QED BY <3>1
  <2>5. \A i \in 1..Len(toClient') : toClient'[i].space => Coded(i)'
    BY <1>1, <1>3, SMTT(30) DEF LinesInOrder, Coded
  <2>6. LinesInOrder'
    <3>1. ASSUME NEW i \in 1..Len(toClient'), NEW j \in 1..Len(toClient'), i < j,
                 toClient'[i].space, Coded(j)'
          PROVE  FALSE
      <4>1. i + 1 < j + 1 /\ toClient[i + 1].space /\ Coded(j + 1) /\ Coded(i)'
        BY <1>3, <1>4, <2>5, <3>1
      <4>2. toClient[i + 1].to # "final" /\ toClient[i + 1].to = "final"
        BY <1>1, <1>3, <1>4, <3>1, <4>1 DEF LinesInOrder
      <4> QED BY <4>2
    <3>2. step' \in {"fopen", "receive"} => Expecting' = {"final"}
      BY DEF Expecting
    <3>3. step' \notin {"fopen", "receive"} => Silent'
      BY <2>1, <2>4 DEF Silent
    <3> QED BY <1>1, <1>4, <2>1, <2>4, <2>5, <3>1, <3>2, <3>3 DEF LinesInOrder
  <2>7. TransferInOrder'
    <3>1. transfer = "running" => \A i \in 1..Len(toClient') : Coded(i)' => toClient'[i].to # "final"
      BY <1>1, <1>3, <1>4 DEF TransferInOrder
    <3> QED BY <2>1, <3>1 DEF TransferInOrder
  <2>8. CodesTell'
    <3>1. \A to, d : Tells(to, d) => Tells(to, d)'
      BY DEF Tells
    <3> QED BY <1>1, <1>3, <3>1 DEF CodesTell, Coded
  <2>9. BlocksInOrder'
    BY <1>1, <1>2, <2>1, <2>2 DEF BlocksInOrder
  <2>10. AddressComes'
    <3> SUFFICES ASSUME ~trouble PROVE AddressComes'
      BY DEF AddressComes
    <3>1. step' = "TYPE" => \A i \in 1..Len(toClient') : ~toClient'[i].space
      BY <2>4, <2>5
    <3>2. step' = "PASV" => toClient' = << >> /\ message' = "empty"
      <4>1. ASSUME step' = "PASV"
            PROVE  Len(toClient) = 1 /\ step = "TYPE"
        BY <1>1, <1>2, <4>1 DEF AddressComes
      <4>2. ASSUME step' = "PASV"
            PROVE  toClient' = << >>
        <5>0. Len(toClient) = 1
          BY <4>1, <4>2
        <5>1. Len(toClient') = 0 /\ toClient' \in Seq(Line)
          BY <5>0 DEF Shorter
        <5>2. \A q \in Seq(Line) : q # << >> => Len(q) # 0
          BY EmptySeq
        <5> QED BY <5>1, <5>2
      <4> QED BY <4>1, <4>2
    <3>3. step' = "dataConnect" => message' = "address"
      <4>1. ASSUME step' = "dataConnect"
            PROVE  Kept(toClient[1]) = "address" /\ step = "PASV"
        <5>1. step = "PASV" /\ toClient # << >>
          BY <1>2, <4>1 DEF Shorter
        <5> QED BY <1>1, <5>1 DEF AddressComes, Kept
      <4> QED BY <4>1
    <3> QED BY <2>1, <3>1, <3>2, <3>3 DEF AddressComes
  <2> QED BY <2>3, <2>6, <2>7, <2>8, <2>9, <2>10 DEF Session
<1> QED BY <1>5, <1>6 DEF SessionInv, Overall, Session

LEMMA ReadsLineKeeps ==
    ASSUME SessionInv, ReadsLine, UNCHANGED <<srvVars, wrong>>
    PROVE  SessionInv'
<1>1. /\ Overall /\ (Following => Session) /\ reading /\ Shorter /\ First \in 0..5
      /\ UNCHANGED <<toServer, ctrlEnd, blocks, dataEnd, local, transfer, sentBlocks, wrong>>
      /\ IF toClient[1].space THEN HandlesReply(First, Kept(toClient[1]))
         ELSE /\ code' = First /\ message' = Kept(toClient[1])
              /\ UNCHANGED <<step, reading, untried, doList, status, dataSock>>
      /\ toClient' \in Seq(Line) /\ UNCHANGED <<trouble, unflushed>>
  BY LineRead, NothingNew DEF Shorter
<1>2. CASE ~toClient[1].space
  BY <1>1, <1>2, MoreLines
<1>3. CASE toClient[1].space /\ step = "QUIT"
  BY <1>1, <1>3, EndsKeeps DEF HandlesReply
<1>4. CASE toClient[1].space /\ step # "QUIT"
  <2>1. Following
    BY <1>1, <1>4 DEF Following, Overall, TypeOK, ClientTypeOK
  <2>2. CASE GoesOn(First) = "fails"
    <3>1. GivesUp
      BY <1>1, <1>4, <2>2 DEF HandlesReply
    <3>2. trouble' /\ Grows
      BY <1>1, <1>4, <2>1, <2>2, RepliesLeadOn, NothingNew, MarksStay DEF Overall, TypeOK
    <3> QED BY <1>1, <3>1, <3>2, GivesUpKeeps
  <2>3. CASE GoesOn(First) # "fails"
    <3>1. /\ step' = GoesOn(First) /\ reading' = FALSE /\ code' = 0
          /\ message' = IF step = "PASV" THEN Kept(toClient[1]) ELSE "empty"
          /\ UNCHANGED <<status, dataSock, untried, doList>>
      BY <1>1, <1>4, <2>3 DEF HandlesReply
    <3> QED BY <1>1, <1>4, <2>1, <2>3, <3>1, ReplyComplete
  <2> QED BY <2>2, <2>3
<1> QED BY <1>2, <1>3, <1>4

LEMMA ClientKeeps ==
    ASSUME SessionInv, Client
    PROVE  SessionInv'
<1>1. ClientRuns /\ UNCHANGED <<srvVars, wrong>>
  BY DEF Client
<1>2. CASE Resolves \/ Connects
  <2>1. Grows
    BY <1>1, MarksStay DEF SessionInv, TypeOK
  <2> QED BY <1>1, <1>2, <2>1, ConnectingKeeps
<1>3. CASE NoneAnswers \/ ReplyFails \/ SendFails \/ ServerIsGone \/ NoAddress
  BY <1>1, <1>3, FailuresKeep
<1>4. CASE ReadsLine
  BY <1>1, <1>4, ReadsLineKeeps
<1>5. CASE SendsCommand
  BY <1>1, <1>5, SendsCommandKeeps
<1>6. CASE ConnectsData
  BY <1>1, <1>6, ConnectsDataKeeps
<1>7. CASE OpensFile \/ Receives \/ ReceivesEnd
  BY <1>1, <1>7, TransferKeeps
<1> QED BY <1>1, <1>2, <1>3, <1>4, <1>5, <1>6, <1>7 DEF ClientRuns

LEMMA LocalFaultsKeep ==
    ASSUME SessionInv, LocalFaults
    PROVE  SessionInv'
<1>1. CASE TriesNext
  <2>1. UNCHANGED srvVars /\ Grows /\ (LastAddress => trouble')
    BY LocalTrouble DEF LocalFaults
  <2> QED BY <1>1, <2>1, ConnectingKeeps
<1>2. CASE ~TriesNext
  BY <1>2, FaultsKeep
<1> QED BY <1>1, <1>2

LEMMA SessionInvInit == Init => SessionInv
<1> SUFFICES ASSUME Init
             PROVE  SessionInv
  OBVIOUS
<1>1. /\ toServer = << >> /\ toClient = << >> /\ ctrlEnd = "none" /\ blocks = << >>
      /\ dataEnd = "none" /\ dataSock = FALSE /\ transfer = "greeting" /\ sentBlocks = 0
      /\ step = "resolve" /\ reading = FALSE /\ code = 0 /\ message = "empty" /\ untried = 0
      /\ doList \in BOOLEAN /\ status = 0 /\ local = Old /\ wrong = {} /\ ~trouble
  BY DEF Init, ClientInit, ServerInit, trouble
<1>2. Len(toClient) = 0
  BY <1>1
<1>3. TypeOK
  <2>1. dataSock \in BOOLEAN /\ reading \in BOOLEAN /\ wrong \subseteq Wrongs /\ ~dataSock /\ ~reading
    BY <1>1
  <2>2. << >> \in Seq(Commands) /\ << >> \in Seq(Line) /\ << >> \in Seq(Nat \ {0})
    BY EmptySeq
  <2>3. ConnectionsTypeOK
    BY <1>1, <2>1, <2>2 DEF ConnectionsTypeOK
  <2>4. ServerTypeOK
    BY <1>1, ServerAssumption DEF ServerTypeOK
  <2>5. step \in Steps /\ code \in 0..5 /\ untried \in 0..Addresses /\ status \in {0, 1}
        /\ message \in {"empty", "address", "other"}
    BY <1>1, ClientAssumption DEF Steps
  <2>6. ClientTypeOK
    BY <1>1, <2>1, <2>5, Zenon DEF ClientTypeOK
  <2> QED BY <2>1, <2>3, <2>4, <2>6 DEF TypeOK
<1>4. OldFileKept /\ Downloaded /\ NoFailureWithoutCause /\ (ctrlEnd = "closed" => trouble)
  BY <1>1 DEF OldFileKept, Downloaded, NoFailureWithoutCause
<1>5. Silent /\ InStage
  BY <1>1, <1>2 DEF Silent, InStage, Stages
<1>6. LinesInOrder /\ TransferInOrder /\ CodesTell /\ BlocksInOrder /\ AddressComes
  BY <1>1, <1>2, <1>5 DEF LinesInOrder, TransferInOrder, CodesTell, BlocksInOrder, AddressComes
<1> QED BY <1>3, <1>4, <1>5, <1>6 DEF SessionInv

LEMMA SessionInvStutter ==
    ASSUME SessionInv, UNCHANGED vars
    PROVE  SessionInv'
<1>1. UNCHANGED <<toServer, toClient, ctrlEnd, blocks, dataEnd, dataSock, step, reading, code, message,
                  untried, doList, status, local, transfer, sentBlocks, wrong>>
  BY DEF vars, control, data, cltVars, flow, srvVars
<1>2. Overall'
  <2>1. TypeOK'
    <3>1. TypeOK
      BY DEF SessionInv
    <3>2. ConnectionsTypeOK' /\ ServerTypeOK'
      BY <1>1, <3>1 DEF TypeOK, ConnectionsTypeOK, ServerTypeOK
    <3>3. ClientTypeOK' /\ wrong' \subseteq Wrongs
      BY <1>1, <3>1, Zenon DEF TypeOK, ClientTypeOK
    <3> QED BY <3>2, <3>3 DEF TypeOK
  <2> QED BY <1>1, <2>1, Parts, NothingNew DEF Overall, OldFileKept, Downloaded, NoFailureWithoutCause
<1>3. Following => Session'
  BY <1>1, Parts, NothingNew DEF Session, InStage, Stages, LinesInOrder, Silent, Coded, Expecting, TransferInOrder,
                     Announces, CodesTell, Tells, BlocksInOrder, Consecutive, AddressComes
<1> QED BY <1>1, <1>2, <1>3 DEF SessionInv, Overall, Session, Following

(* The client follows the server: in every state of every session the      *)
(* replies on their way are those to what it has asked, they tell of the   *)
(* server what is true, and the blocks arrive in their order.              *)
THEOREM SessionCorrect == Spec => []SessionInv
<1>1. ASSUME SessionInv, Next
      PROVE  SessionInv'
  <2>1. CASE Client
    BY <1>1, <2>1, ClientKeeps
  <2>2. CASE Outside
    BY <1>1, <2>2, OutsideKeeps
  <2>3. CASE LocalFaults
    BY <1>1, <2>3, LocalFaultsKeep
  <2>5. CASE LosesTail
    BY <1>1, <2>5, TransferKeeps DEF LosesTail
  <2>4. CASE Exited
    BY <1>1, <2>4, SessionInvStutter DEF Exited
  <2> QED BY <1>1, <2>1, <2>2, <2>3, <2>4, <2>5 DEF Next, Outside
<1> QED BY <1>1, SessionInvInit, SessionInvStutter, PTL DEF Spec

(* Replies are matched to commands by their order only, and no line is     *)
(* read too many or too few: the next one with a code belongs to the       *)
(* command sent last.                                                      *)
THEOREM InStepHolds == Spec => []InStep
<1>1. SessionInv => InStep
  <2> SUFFICES ASSUME SessionInv, Following, NEW i \in 1..Len(toClient), FirstCoded(i)
               PROVE  IF step \in {"fopen", "receive"} THEN toClient[i].to = "final"
                      ELSE reading /\ toClient[i].to = step
    BY DEF InStep, Following
  <2>1. /\ LinesInOrder /\ TransferInOrder /\ Coded(i)
        /\ toClient[i].to \in Expecting /\ i \in Nat
    BY DEF SessionInv, FirstCoded, LinesInOrder
  <2>2. CASE step \in {"fopen", "receive"}
    BY <2>1, <2>2 DEF Expecting
  <2>3. CASE step \notin {"fopen", "receive"}
    <3>1. reading
      BY <2>1, <2>3 DEF LinesInOrder, Silent
    <3>2. CASE step \in {"RETR", "LIST"} /\ toClient[i].to = "final"
      <4>1. PICK j \in 1..Len(toClient) : j < i /\ Announces(j)
        BY <2>1, <3>2 DEF TransferInOrder
      <4>2. Coded(j)
        BY <2>1, <4>1 DEF LinesInOrder, Announces
      <4> QED BY <4>1, <4>2 DEF FirstCoded
    <3> QED BY <2>1, <2>3, <3>1, <3>2 DEF Expecting
  <2> QED BY <2>2, <2>3
<1> QED BY <1>1, SessionCorrect, PTL

(* A refused RETR, or anything before it, leaves the old file as it was.   *)
THEOREM OldFileKeptHolds == Spec => []OldFileKept
<1>1. SessionInv => OldFileKept
  BY DEF SessionInv
<1> QED BY <1>1, SessionCorrect, PTL

(* Exit status 0 means a whole file, unless the data connection broke or   *)
(* fclose failed: two failures that the code does not look at.             *)
THEOREM DownloadedUnlessUnnoticedHolds == Spec => []DownloadedUnlessUnnoticed
<1>1. SessionInv => DownloadedUnlessUnnoticed
  BY DEF SessionInv, Downloaded, DownloadedUnlessUnnoticed, SuccessMeansDownloaded
<1> QED BY <1>1, SessionCorrect, PTL

(* The client gives up only after a fault of the server, of a connection   *)
(* or of its own machine, or after one of the two correct replies that it  *)
(* misreads: an overlong one to TYPE, or one to PASV with the address in a *)
(* later line.  A failed fclose is none of these.                          *)
THEOREM NoFailureWithoutCauseHolds == Spec => []NoFailureWithoutCause
<1>1. SessionInv => NoFailureWithoutCause
  BY DEF SessionInv
<1> QED BY <1>1, SessionCorrect, PTL
=============================================================================
