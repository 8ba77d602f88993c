--------------------------- MODULE FtpConnections ---------------------------
(***************************************************************************)
(* The two TCP connections of an FTP session: the control connection, with *)
(* commands one way and the lines of replies the other, and the data       *)
(* connection of passive mode.                                             *)
(***************************************************************************)
EXTENDS Naturals, Sequences

VARIABLES toServer,  \* commands the server has not read
          toClient,  \* lines of replies the client has not read
          ctrlEnd,   \* the server's end of the control connection: none,
                     \* open, closed
          blocks,    \* blocks of data the client has not read
          dataEnd,   \* the server's end of the data connection: none, open,
                     \* fin (closed), reset (broken: what was in it is lost)
          dataSock   \* the client holds the data connection
control == <<toServer, toClient, ctrlEnd>>
data    == <<blocks, dataEnd, dataSock>>

Commands == {"USER", "PASS", "TYPE", "PASV", "RETR", "LIST", "QUIT"}

(* A line of a reply, as read_line returns it: the first digit of its      *)
(* code, 0 when it has none; whether a space follows the code; whether it  *)
(* holds an address for the data connection; and what it is a reply to,    *)
(* which neither program sees: the greeting, a command, or the end of a    *)
(* transfer.                                                               *)
Line == [code : 0..5, space : BOOLEAN, address : BOOLEAN,
         to : Commands \cup {"greeting", "final"}]

ConnectionsTypeOK ==
    /\ toServer \in Seq(Commands) /\ toClient \in Seq(Line)
    /\ ctrlEnd \in {"none", "open", "closed"}
    /\ blocks \in Seq(Nat \ {0})
    /\ dataEnd \in {"none", "open", "fin", "reset"}
    /\ dataSock \in BOOLEAN

(* The data connection breaks.  What was in it is lost, and the client's   *)
(* recv fails.                                                             *)
DataBreaks == /\ dataSock /\ dataEnd \in {"open", "fin"}
              /\ dataEnd' = "reset" /\ blocks' = << >>
              /\ UNCHANGED <<control, dataSock>>
=============================================================================
