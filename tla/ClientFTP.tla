------------------------------ MODULE ClientFTP -----------------------------
(***************************************************************************)
(* clientFTP.c from the connection on.  step is the place in the program,  *)
(* named for the command about to be sent or, when reading, sent already:  *)
(*                                                                         *)
(*   resolve, connect         open_tcp_connection                          *)
(*   greeting                 main, reading the welcome                    *)
(*   USER, PASS               ftp_login                                    *)
(*   TYPE                     ftp_set_binary                               *)
(*   PASV, dataConnect        open_pasv_data_connection                    *)
(*   RETR, LIST, fopen,       ftp_retr_file or ftp_list; final is the      *)
(*   receive, final           reply that ends the transfer                 *)
(*   QUIT                     main, phase 5                                *)
(*   succeeded, failed        the exit status                              *)
(***************************************************************************)
EXTENDS FtpConnections

CONSTANTS Old,       \* the local file as it was before
          Addresses  \* most addresses a host name has
ASSUME ClientAssumption == Addresses \in Nat \ {0}

VARIABLES step, reading,
          code,     \* the first digit read so far of the reply's code, or 0
          message,  \* the first line of the reply: empty (not read yet),
                    \* address (with an address in it), other
          untried,  \* addresses of the host not tried yet
          doList, status, local
flow    == <<step, reading, code, message>>
cltVars == <<flow, untried, doList, status, local>>

Steps == Commands \cup {"resolve", "connect", "greeting", "dataConnect", "fopen",
                        "receive", "final", "succeeded", "failed"}

ClientTypeOK == /\ step \in Steps /\ reading \in BOOLEAN /\ code \in 0..5
                /\ message \in {"empty", "address", "other"}
                /\ untried \in 0..Addresses
                /\ doList \in BOOLEAN /\ status \in {0, 1}
                /\ local = Old \/ local \in Seq(Nat \ {0})
                /\ dataSock => step \in {"RETR", "LIST", "fopen", "receive"}
                /\ code # 0 => reading
                /\ reading => step \notin {"succeeded", "failed"}
                /\ message # "empty" => reading \/ step = "dataConnect"

ClientInit == /\ step = "resolve" /\ reading = FALSE /\ code = 0 /\ message = "empty"
              /\ untried = 0
              /\ doList \in BOOLEAN /\ status = 0 /\ local = Old

Transfer == IF doList THEN "LIST" ELSE "RETR"

GoesTo(place, reads) == /\ step' = place /\ reading' = reads
                        /\ code' = 0 /\ message' = "empty"

(***************************************************************************)
(* open_tcp_connection.                                                    *)
(***************************************************************************)
Resolves == /\ step = "resolve"
            /\ untried' \in 1..Addresses
            /\ GoesTo("connect", FALSE)
            /\ UNCHANGED <<control, data, doList, status, local>>

ResolveFails == /\ step = "resolve"
                /\ GoesTo("failed", FALSE)
                /\ UNCHANGED <<control, data, untried, doList, status, local>>

Connects == /\ step = "connect" /\ untried > 0
            /\ ctrlEnd' = "open"
            /\ GoesTo("greeting", TRUE)
            /\ UNCHANGED <<toServer, toClient, data, untried, doList, status, local>>

(* An address does not answer: the next one is tried.                      *)
TriesNext == /\ step = "connect" /\ untried > 0
             /\ untried' = untried - 1
             /\ UNCHANGED <<control, data, flow, doList, status, local>>

NoneAnswers == /\ step = "connect" /\ untried = 0
               /\ GoesTo("failed", FALSE)
               /\ UNCHANGED <<control, data, untried, doList, status, local>>

(* socket() fails: the other addresses are not tried. *)
NoSocket == /\ step = "connect" /\ untried > 0
            /\ GoesTo("failed", FALSE)
            /\ UNCHANGED <<control, data, untried, doList, status, local>>

(***************************************************************************)
(* Replies.                                                                *)
(***************************************************************************)
(* Failures: up to the login they end the program, during the transfer the *)
(* data socket is closed and main goes on to QUIT.                         *)
Transferring == {"PASV", "dataConnect", "RETR", "LIST", "fopen", "receive", "final"}

GivesUpOpen == \* mutant: close(data_sock) is missing
    /\ IF step \in Transferring THEN GoesTo("QUIT", FALSE) /\ status' = 1
                                ELSE GoesTo("failed", FALSE) /\ UNCHANGED status
    /\ UNCHANGED <<dataSock, untried, doList>>

GivesUp ==
    /\ IF step \in Transferring THEN GoesTo("QUIT", FALSE) /\ status' = 1
                                ELSE GoesTo("failed", FALSE) /\ UNCHANGED status
    /\ dataSock' = FALSE
    /\ UNCHANGED <<untried, doList>>

(* main ends with the status of the transfer, whatever QUIT brought.       *)
Ends == /\ GoesTo(IF status = 0 THEN "succeeded" ELSE "failed", FALSE)
        /\ UNCHANGED <<status, dataSock, untried, doList>>

(* What each function goes on to do after a reply whose code begins with   *)
(* c; it fails after any other.                                            *)
Welcome(c) == IF c = 2 THEN "USER" ELSE "fails"

ftp_login(c) == CASE step = "USER" /\ c = 3 -> "PASS"
                  [] c = 2                  -> "TYPE"
                  [] OTHER                  -> "fails"

ftp_set_binary(c) == IF c = 2 THEN "PASV" ELSE "fails"

PasvReply(c) == IF c = 2 THEN "dataConnect" ELSE "fails"

ftp_retr_file_any_final(c) == \* mutant: the reply that ends a transfer is not looked at
    CASE step = "RETR" /\ c = 1 -> "fopen" [] step = "final" -> "QUIT" [] OTHER -> "fails"
ftp_retr_file_any_mark(c) == \* mutant: nor is the one that begins it
    CASE step = "RETR" -> "fopen" [] step = "final" /\ c = 2 -> "QUIT" [] OTHER -> "fails"
ftp_retr_file(c) == CASE step = "RETR" /\ c = 1  -> "fopen"
                      [] step = "final" /\ c = 2 -> "QUIT"
                      [] OTHER                   -> "fails"

ftp_list(c) == CASE step = "LIST" /\ c = 1  -> "receive"
                 [] step = "final" /\ c = 2 -> "QUIT"
                 [] OTHER                   -> "fails"

GoesOn(c) == CASE step = "greeting"         -> Welcome(c)
               [] step \in {"USER", "PASS"} -> ftp_login(c)
               [] step = "TYPE"             -> ftp_set_binary(c)
               [] step = "PASV"             -> PasvReply(c)
               [] OTHER -> IF doList THEN ftp_list(c) ELSE ftp_retr_file(c)

(* The reply is complete; of its first line only PASV has a use.           *)
HandlesReply(c, first) ==
    IF step = "QUIT" THEN Ends
    ELSE IF GoesOn(c) = "fails" THEN GivesUp
    ELSE /\ step' = GoesOn(c) /\ reading' = FALSE /\ code' = 0
         /\ message' = IF step = "PASV" THEN first ELSE "empty"
         /\ UNCHANGED <<status, dataSock, untried, doList>>

(* read_reply, one line: the first code found is the reply's; a line with  *)
(* any code and a space is the last; the first line is kept.               *)
EndsReplyAnyCode(line) == line.code # 0  \* mutant: a dash ends the reply as well
EndsReply(line) == line.space

KeptLast(line) == IF line.address THEN "address" ELSE "other"  \* mutant: the last line
Kept(line) == IF message # "empty" THEN message
              ELSE IF line.address THEN "address" ELSE "other"

ReadsLine ==
    /\ reading /\ toClient # << >>
    /\ LET line  == Head(toClient)
           first == IF code = 0 THEN line.code ELSE code
       IN  IF EndsReply(line)
           THEN HandlesReply(first, Kept(line))
           ELSE /\ code' = first /\ message' = Kept(line)
                /\ UNCHANGED <<step, reading, untried, doList, status, dataSock>>
    /\ toClient' = Tail(toClient)
    /\ UNCHANGED <<toServer, ctrlEnd, blocks, dataEnd, local>>

(* recv finds the control connection closed. *)
ReplyFailsRetries == \* mutant: a line of no bytes is read again
              /\ reading /\ toClient = << >> /\ ctrlEnd = "closed"
              /\ UNCHANGED <<control, data, cltVars>>

ReplyFails == /\ reading /\ toClient = << >> /\ ctrlEnd = "closed"
              /\ IF step = "QUIT" THEN Ends ELSE GivesUp
              /\ UNCHANGED <<control, blocks, dataEnd, local>>

SendsCommand == /\ ~reading /\ step \in Commands
                /\ toServer' = Append(toServer, step)
                /\ reading' = TRUE
                /\ UNCHANGED <<toClient, ctrlEnd, data, step, code, message, untried,
                               doList, status, local>>

(* send fails, or the connection is gone and SIGPIPE ends the program.     *)
SendFails == /\ ~reading /\ step \in Commands /\ ctrlEnd = "closed"
             /\ \/ GivesUp
                \/ GoesTo("failed", FALSE) /\ dataSock' = FALSE
                   /\ UNCHANGED <<untried, doList, status>>
             /\ UNCHANGED <<control, blocks, dataEnd, local>>

(* parse_pasv_reply finds an address in the message, or not. *)
ParsesPasv == step = "dataConnect" /\ message = "address"

ConnectsData == /\ ParsesPasv /\ ctrlEnd = "open"
                /\ dataEnd' = "open" /\ dataSock' = TRUE
                /\ GoesTo(Transfer, FALSE)
                /\ UNCHANGED <<control, blocks, untried, doList, status, local>>

NoAddress == /\ step = "dataConnect" /\ ~ParsesPasv
             /\ GivesUp
             /\ UNCHANGED <<control, blocks, dataEnd, local>>

(* No socket, or the connection is refused. *)
ConnectFails == /\ ParsesPasv
                /\ GivesUp
                /\ UNCHANGED <<control, blocks, dataEnd, local>>

(* There is nobody any more to connect to. *)
ServerIsGone == ctrlEnd = "closed" /\ ConnectFails

(***************************************************************************)
(* The transfer.                                                           *)
(***************************************************************************)
(* fopen of the local file with "wb", which empties it. *)
OpensFile == /\ step = "fopen"
             /\ local' = << >>
             /\ step' = "receive"
             /\ UNCHANGED <<control, data, reading, code, message, untried, doList, status>>

OpenFails == /\ step = "fopen"
             /\ GivesUp
             /\ UNCHANGED <<control, blocks, dataEnd, local>>

(* A block is written to the file, or printed. *)
Receives == /\ step = "receive" /\ blocks # << >>
            /\ local' = IF doList THEN local ELSE Append(local, Head(blocks))
            /\ blocks' = Tail(blocks)
            /\ UNCHANGED <<control, dataEnd, dataSock, flow, untried, doList, status>>

WriteFails == /\ step = "receive" /\ blocks # << >> /\ ~doList
              /\ GivesUp
              /\ UNCHANGED <<control, blocks, dataEnd, local>>

(* recv returns 0 or less: end of the data either way.  The sockets and    *)
(* the file are closed and the final reply is read next.                   *)
EndOfData == /\ step = "receive"
             /\ dataEnd \in {"fin", "reset"} /\ blocks = << >>

Closes == /\ dataSock' = FALSE
          /\ step' = "final" /\ reading' = TRUE
          /\ UNCHANGED <<control, blocks, dataEnd, code, message, untried, doList, status>>

ReceivesEnd == EndOfData /\ Closes /\ UNCHANGED local

(* What fwrite has taken may still be in the program; if fclose cannot     *)
(* write it, the end of the file is lost, and nobody looks at its result.  *)
FlushFails == /\ EndOfData /\ ~doList
              /\ \E n \in 0..Len(local) - 1 : local' = SubSeq(local, 1, n)
              /\ Closes

ClientRuns   == \/ Resolves \/ Connects \/ NoneAnswers
                \/ ReadsLine \/ ReplyFails \/ SendsCommand \/ SendFails
                \/ ConnectsData \/ ServerIsGone \/ NoAddress
                \/ OpensFile \/ Receives \/ ReceivesEnd
ClientFaults == ResolveFails \/ TriesNext \/ NoSocket \/ ConnectFails
                \/ OpenFails \/ WriteFails
=============================================================================
