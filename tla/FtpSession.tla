------------------------------ MODULE FtpSession ----------------------------
(***************************************************************************)
(* The FTP client and a server over their two connections.                 *)
(***************************************************************************)
EXTENDS ClientFTP, FtpServer

(* What has gone wrong so far:                                             *)
(*   fault      a server, a connection or the client's machine has failed; *)
(*              an address that does not answer counts if it is the last   *)
(*   misread    a correct reply came in a form the client takes for        *)
(*              another: it keeps one line only of the reply to PASV, and  *)
(*              reads the rest of an overlong reply to TYPE as the first   *)
(*              line of the next                                           *)
(*   unflushed  fclose failed with a part of the file not written yet      *)
VARIABLE wrong
vars == <<control, data, cltVars, srvVars, wrong>>

Wrongs    == {"fault", "misread", "unflushed"}
Mark(m)   == wrong' = wrong \cup {m}
unflushed == "unflushed" \in wrong

(* All of it that makes the client fail. *)
trouble == "fault" \in wrong \/ "misread" \in wrong

Init == ClientInit /\ ServerInit /\ wrong = {}

Client == ClientRuns /\ UNCHANGED <<srvVars, wrong>>
Server == ServerRuns /\ UNCHANGED <<cltVars, wrong>>

LastAddress == step = "connect" /\ untried = 1
LocalFaults == /\ ClientFaults /\ UNCHANGED srvVars
               /\ IF step # "connect" \/ step' = "failed" \/ LastAddress
                  THEN Mark("fault") ELSE UNCHANGED wrong
LosesTail   == FlushFails /\ UNCHANGED srvVars /\ Mark("unflushed")

RemoteFaults == /\ \/ ServerFaults /\ UNCHANGED cltVars
                   \/ DataBreaks /\ UNCHANGED <<cltVars, srvVars>>
                /\ Mark("fault")
Misleads     == Unusual /\ UNCHANGED cltVars /\ Mark("misread")

(* The client has exited; it may be left that way for ever.                *)
Returned == step \in {"succeeded", "failed"}
Exited == Returned /\ UNCHANGED vars

Next == Client \/ Server \/ LocalFaults \/ LosesTail \/ RemoteFaults \/ Misleads \/ Exited

Spec == Init /\ [][Next]_vars

(* Every command is answered in the end or the connection closed: the      *)
(* client has no timeout, so without this it waits for ever.  A transfer   *)
(* that cannot go on is given up.                                          *)
FairSpec == /\ Spec
            /\ WF_vars(Client)
            /\ WF_vars(Server \/ (Aborts /\ Mark("fault") /\ UNCHANGED cltVars))

TypeOK == ConnectionsTypeOK /\ ServerTypeOK /\ ClientTypeOK /\ wrong \subseteq Wrongs

(* The next line with a code belongs to the reply to the command that the  *)
(* client has sent, and the client sends none before that reply is read:   *)
(* replies are matched by their order only, so one line read too many or   *)
(* too few would shift every later answer.  Only the end of the transfer   *)
(* may already be there while the data is read.  The rest of an overlong   *)
(* line has no code and shifts nothing.  QUIT is excepted: after a local   *)
(* failure its reply is the late end of the transfer, and main ignores it. *)
Coded(i)      == toClient[i].code # 0
FirstCoded(i) == Coded(i) /\ \A j \in 1..Len(toClient) : j < i => ~Coded(j)
InStep == step \notin {"QUIT", "succeeded", "failed"} =>
              \A i \in 1..Len(toClient) : FirstCoded(i) =>
                  IF step \in {"fopen", "receive"} THEN toClient[i].to = "final"
                                                  ELSE reading /\ toClient[i].to = step

(* The local file is emptied only once the server has begun to transfer,   *)
(* and never by a listing: a refused RETR leaves an old copy intact.       *)
OldFileKept == local # Old => ~doList /\ transfer \in {"running", "over"}

(* Exit status 0 of a download means that the local file is the whole      *)
(* remote one ("Recebe todos os dados" and "0 se download bem-sucedido" of *)
(* ftp_retr_file).                                                         *)
SuccessMeansDownloaded ==
    step = "succeeded" /\ ~doList => local = [i \in 1..Blocks |-> i]

(* It does unless one of two failures came that the code does not look at: *)
(* a broken data connection (recv < 0 ends the loop like the end of the    *)
(* data, l.703) and a failed fclose (l.715).  Every other failure ends in  *)
(* exit status 1: a transfer that the server refused, gave up or could not *)
(* report, a file that could not be opened or written, whichever replies   *)
(* had come by then.                                                       *)
DownloadedUnlessUnnoticed == dataEnd # "reset" /\ ~unflushed => SuccessMeansDownloaded

(* The connection's part of the promise, with a local file that takes all  *)
(* that came: a client that is told 226 and lost nothing itself has the    *)
(* whole file.                                                             *)
DownloadedIfFlushed == ~unflushed => SuccessMeansDownloaded

(* The client fails only for a cause: as long as the server accepts every  *)
(* command and reports no error, and connections and files do not fail,    *)
(* every form of reply and every one of the host's addresses leads to the  *)
(* end of the transfer, but for the two correct replies that it misreads:  *)
(* an address for the data connection in a later line of the reply to      *)
(* PASV, and a reply to TYPE longer than its buffer.  A failed fclose is   *)
(* not a cause.                                                            *)
NoFailureWithoutCause == step = "failed" \/ status = 1 => trouble

(* The client comes to its end, after every combination of refusals,       *)
(* failures and disconnections: it never waits for a reply that nothing    *)
(* has asked for.                                                          *)
ClientReturns == <>Returned

(***************************************************************************)
(* The inductive invariant.  Most of it is about the session proper, up to *)
(* QUIT: what happens later on the control connection, the client ignores. *)
(***************************************************************************)
Following == step \notin {"QUIT", "succeeded", "failed"}

(* How far the server has come, when the client is at its step.            *)
Stages == CASE step \in {"resolve", "connect"}         -> {"greeting"}
            [] step = "greeting"                       -> {"greeting", "none"}
            [] step \in {"RETR", "LIST"} /\ reading    -> {"none", "running", "over"}
            [] step \in {"fopen", "receive", "final"}  -> {"running", "over"}
            [] OTHER                                   -> {"none"}

InStage == /\ transfer \in Stages
           /\ transfer = "running" => ctrlEnd = "open"
           /\ step \in {"resolve", "connect"} <=> ctrlEnd = "none"
           /\ toServer # << >> => toServer = <<step>> /\ reading /\ transfer = "none"
           /\ step \in {"greeting", "final"} => reading
           /\ step \in {"resolve", "connect", "dataConnect", "fopen", "receive"} => ~reading
           /\ step \in {"RETR", "fopen"} => ~doList
           /\ step = "LIST" => doList

(* The coded lines on their way are of the reply awaited; behind that to   *)
(* RETR or LIST there may be those that end the transfer.                  *)
Expecting == CASE step \in {"fopen", "receive"} -> {"final"}
               [] step \in {"RETR", "LIST"}     -> {step, "final"}
               [] OTHER                         -> {step}

Silent == code = 0 /\ \A i \in 1..Len(toClient) : ~Coded(i)

LinesInOrder ==
    /\ \A i \in 1..Len(toClient) : toClient[i].space => Coded(i)
    /\ \A i \in 1..Len(toClient) : Coded(i) => toClient[i].to \in Expecting
    /\ \A i, j \in 1..Len(toClient) : i < j /\ toClient[i].space /\ Coded(j) =>
           toClient[i].to # "final" /\ toClient[j].to = "final"
    /\ ~reading /\ step \notin {"fopen", "receive"} => Silent
    /\ toServer # << >> \/ transfer = "greeting" => Silent

(* A transfer under way has been announced and not yet ended.              *)
Announces(i) == toClient[i].space /\ toClient[i].to = step
TransferInOrder ==
    /\ transfer = "running" =>
           /\ \A i \in 1..Len(toClient) : Coded(i) => toClient[i].to # "final"
           /\ step = "final" => code = 0
    /\ step \in {"RETR", "LIST"} =>
           /\ transfer = "running" => \E i \in 1..Len(toClient) : Announces(i)
           /\ \A j \in 1..Len(toClient) : Coded(j) /\ toClient[j].to = "final" =>
                  \E i \in 1..Len(toClient) : i < j /\ Announces(i)

(* What the codes on their way, and the one being read, tell of the server. *)
Tells(to, c) == /\ to \in {"RETR", "LIST"} /\ c = 1 => transfer \in {"running", "over"}
                /\ to = "final" /\ c = 2 => sentBlocks = Blocks
                /\ ~trouble => c \in Codes(to)
CodesTell == /\ \A i \in 1..Len(toClient) : Coded(i) => Tells(toClient[i].to, toClient[i].code)
             /\ code # 0 => Tells(step, code)

(* The blocks in the file, in the connection and not sent yet.             *)
Consecutive(q, n) == \A i \in 1..Len(q) : q[i] = n + i
BlocksInOrder ==
    /\ ctrlEnd = "none" \/ step \in {"greeting", "USER", "PASS", "TYPE", "PASV", "dataConnect"}
          => dataEnd = "none" /\ blocks = << >> /\ sentBlocks = 0
    /\ step = "final" => blocks = << >>
    /\ step \in {"receive", "final"} /\ ~doList => local \in Seq(Nat \ {0})
    /\ dataEnd # "reset" /\ step \in {"RETR", "fopen"} =>
          Len(blocks) = sentBlocks /\ Consecutive(blocks, 0)
    /\ dataEnd # "reset" /\ ~unflushed /\ step \in {"receive", "final"} /\ ~doList =>
          /\ Len(local) + Len(blocks) = sentBlocks
          /\ Consecutive(local, 0) /\ Consecutive(blocks, Len(local))

(* Without trouble nothing is in the way of the address for the data       *)
(* connection: no rest of the reply to TYPE comes before it.               *)
AddressComes ==
    ~trouble =>
        /\ step = "connect" => untried > 0
        /\ step = "TYPE" => \A i \in 1..Len(toClient) : toClient[i].space => i = Len(toClient)
        /\ step = "PASV" =>
              IF toServer # << >> \/ ~reading THEN toClient = << >> /\ message = "empty"
              ELSE \/ message = "address"
                   \/ message = "empty" /\ toClient # << >> /\ toClient[1].address
        /\ step = "dataConnect" => message = "address"

(* At the end, status 0 is what DownloadedUnlessUnnoticed says.            *)
Downloaded == /\ dataEnd # "reset" /\ ~unflushed /\ ~doList
              /\ step = "succeeded" \/ (step = "QUIT" /\ status = 0)
              => local = [i \in 1..Blocks |-> i]

SessionInv ==
    /\ TypeOK /\ OldFileKept /\ Downloaded /\ NoFailureWithoutCause
    /\ ctrlEnd = "closed" => trouble
    /\ Following => /\ InStage /\ LinesInOrder /\ TransferInOrder /\ CodesTell
                    /\ BlocksInOrder /\ AddressComes
=============================================================================
