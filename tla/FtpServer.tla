------------------------------ MODULE FtpServer -----------------------------
(***************************************************************************)
(* An FTP server, as the client relies on it (it is not part of this       *)
(* repository): every command is answered by one reply, a transfer by two, *)
(* in the order of the commands; a reply has one line or several, as       *)
(* Shapes says; the server may refuse, give up a transfer, or go away.     *)
(***************************************************************************)
EXTENDS FtpConnections

CONSTANTS Blocks,  \* length of the file or listing
          Shapes   \* forms of replies: sequences of "text" (a line without
                   \* code), "dash" (code and -) and, to end it, "space" (code
                   \* and space)
ASSUME ServerAssumption ==
    /\ Blocks \in Nat
    /\ \A shape \in Shapes :
          /\ shape \in Seq({"text", "dash", "space"}) /\ shape # << >>
          /\ \A i \in 1..Len(shape) : shape[i] = "space" <=> i = Len(shape)

VARIABLES transfer,   \* greeting (nothing said yet), none, running, over
          sentBlocks
srvVars == <<transfer, sentBlocks>>

ServerTypeOK == /\ transfer \in {"greeting", "none", "running", "over"}
                /\ sentBlocks \in 0..Blocks

(* A reply of several lines; the address, if any, is in line "at".         *)
Reply(to, code, shape, at) ==
    [i \in DOMAIN shape |-> [code    |-> IF shape[i] = "text" THEN 0 ELSE code,
                             space   |-> shape[i] = "space",
                             address |-> i = at,
                             to      |-> to]]

(* First digits of the answers that let a session go on, and of the others. *)
Codes(to) == CASE to = "USER"           -> {2, 3}
               [] to \in {"RETR", "LIST"} -> {1}
               [] OTHER                 -> {2}
Refusals(to) == CASE to = "greeting"         -> {1, 4}
                  [] to \in {"PASV", "QUIT"} -> {4}
                  [] to \in {"RETR", "LIST"} -> {4, 5}
                  [] OTHER                   -> {5}

Replies(to, code, at) ==
    \E shape \in Shapes : at <= Len(shape) /\ toClient' = toClient \o Reply(to, code, shape, at)

ServerInit == /\ toServer = << >> /\ toClient = << >> /\ ctrlEnd = "none"
              /\ blocks = << >> /\ dataEnd = "none" /\ dataSock = FALSE
              /\ transfer = "greeting" /\ sentBlocks = 0

(* What is to be answered next. *)
Asked == IF transfer = "greeting" THEN "greeting" ELSE Head(toServer)
Ready == /\ ctrlEnd = "open" /\ transfer # "running"
         /\ transfer = "greeting" \/ toServer # << >>

Answered(code) ==
    /\ transfer' = (IF code = 1 /\ Asked # "greeting" THEN "running"
                    ELSE IF transfer = "greeting" THEN "none" ELSE transfer)
    /\ toServer' = (IF transfer = "greeting" THEN toServer ELSE Tail(toServer))
    /\ UNCHANGED <<ctrlEnd, data, sentBlocks>>

(* The greeting, or the answer to the next command.  An address stands in  *)
(* the first line of the reply to PASV.                                    *)
Answers == /\ Ready
           /\ \E code \in Codes(Asked) :
                 /\ Replies(Asked, code, IF Asked = "PASV" THEN 1 ELSE 0)
                 /\ Answered(code)

(* A line too long for the client's buffer, which reads it as two.  After  *)
(* the reply to TYPE the rest is there when PASV is sent.                  *)
Overlong == /\ Ready
            /\ \E code \in Codes(Asked) :
                  /\ toClient' = toClient \o Reply(Asked, code, <<"space", "text">>,
                                                   IF Asked = "PASV" THEN 1 ELSE 0)
                  /\ Answered(code)
AnswersOverlong     == Overlong /\ Asked # "TYPE"
AnswersTypeOverlong == Overlong /\ Asked = "TYPE"

Refuses == /\ Ready
           /\ \E code \in Refusals(Asked) : Replies(Asked, code, 0) /\ Answered(code)

(* A reply to PASV of several lines, with the address in a later one.      *)
AnswersPasvLate == /\ Ready /\ Asked = "PASV"
                   /\ \E at \in 2..3 : Replies("PASV", 2, at)
                   /\ Answered(2)

SendsBlock == /\ transfer = "running" /\ dataEnd = "open" /\ dataSock /\ sentBlocks < Blocks
              /\ sentBlocks' = sentBlocks + 1
              /\ blocks' = Append(blocks, sentBlocks')
              /\ UNCHANGED <<control, dataEnd, dataSock, transfer>>

Closed == IF dataEnd = "open" THEN "fin" ELSE dataEnd

(* The server has handed over the last block; it does not learn whether    *)
(* the client has read it.                                                 *)
Completes == /\ transfer = "running" /\ sentBlocks = Blocks
             /\ Replies("final", 2, 0)
             /\ transfer' = "over" /\ dataEnd' = Closed
             /\ UNCHANGED <<toServer, ctrlEnd, blocks, dataSock, sentBlocks>>

(* It cannot send, or not read the file, and says so.                      *)
Aborts == /\ transfer = "running"
          /\ Replies("final", 4, 0)
          /\ transfer' = "over" /\ dataEnd' = Closed
          /\ UNCHANGED <<toServer, ctrlEnd, blocks, dataSock, sentBlocks>>

(* The server ends the session; the last lines may be lost with it, and    *)
(* the client may find the beginning of one.                               *)
Cut(line) == [code |-> 0, space |-> FALSE, address |-> FALSE, to |-> line.to]
Leaves == /\ ctrlEnd = "open"
          /\ ctrlEnd' = "closed" /\ dataEnd' = Closed
          /\ transfer' = (IF transfer = "running" THEN "over" ELSE transfer)
          /\ \E n \in 0..Len(toClient) :
                \/ toClient' = SubSeq(toClient, 1, n)
                \/ n > 0 /\ toClient' = [SubSeq(toClient, 1, n) EXCEPT ![n] = Cut(@)]
          /\ UNCHANGED <<toServer, blocks, dataSock, sentBlocks>>

ServerRuns   == Answers \/ AnswersOverlong \/ SendsBlock \/ Completes
ServerFaults == Refuses \/ Aborts \/ Leaves
Unusual      == AnswersTypeOverlong \/ AnswersPasvLate
=============================================================================
