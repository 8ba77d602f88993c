---------------------------- MODULE MCUrlParsing ----------------------------
EXTENDS UrlParsing

Words(letters, min, max) == UNION {[1..n -> letters] : n \in min..max}

(* Passwords may contain ":", paths any separator. *)
MCUsers     == Words({"u"}, 1, 4)
MCPasswords == Words({"p", ":"}, 0, 2)
MCHosts     == Words({"h"}, 1, 3)
MCPorts     == Words({"1"}, 0, 1)
MCPaths     == {<< >>} \cup {<<"/">> \o w : w \in Words({"f", "/", "@", ":"}, 0, 2)}
MCLocals    == Words({"l"}, 0, 2)
=============================================================================
