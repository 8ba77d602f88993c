----------------------------- MODULE UrlParsing -----------------------------
(***************************************************************************)
(* The beginning of clientFTP.c: parse_url, basename_path and the choice   *)
(* that main makes between a listing and a download, for a URL composed of *)
(* known parts after "ftp://".  Characters are strings of length one.      *)
(***************************************************************************)
EXTENDS Naturals, SequencesExt

CONSTANTS Users, Passwords, Hosts, Ports, Paths,  \* the parts of URLs
          LocalNames,                             \* values of argv[2], << >> if absent
          UserSize, PassSize, HostSize, PortSize, PathSize, UrlSize,
          LocalSize                               \* of local_file

ASSUME SizeAssumption == {UserSize, PassSize, HostSize, PortSize, PathSize, UrlSize}
                            \subseteq Nat \ {0}
ASSUME LocalAssumption == LocalSize \in Nat \ {0, 1}

NoPart == <<"absent">>

Without(word, separators) == \A i \in 1..Len(word) : word[i] \notin separators

(* The parts are what the grammar of the usage message calls so: the first *)
(* separator of a URL composed of them is the one that ends the part.      *)
ASSUME GrammarAssumption ==
    /\ Users \cup Passwords \cup Hosts \cup Ports \cup Paths \cup LocalNames \subseteq Seq(STRING)
    /\ NoPart \notin Users \cup Passwords \cup Ports
    /\ \A word \in Users \cup Hosts : Without(word, {":", "@", "/"})
    /\ \A word \in Passwords \cup Ports : Without(word, {"@", "/"})
    /\ \A word \in Paths : word = << >> \/ Head(word) = "/"

VARIABLES parts,     \* what the URL was composed of; NoPart is a part left out
          url,       \* what parse_url made of it, Rejected if it called die
          doList, localFile, pc
vars == <<parts, url, doList, localFile, pc>>

Rejected == [rejected |-> TRUE]
Default  == [user |-> <<"anonymous">>, pass |-> <<"anonymous@">>, port |-> <<"21">>]

(* The URL: ftp://[utilizador[:palavra]@]host[:porta]/caminho *)
Url(p) ==
    (IF p.user = NoPart THEN << >>
     ELSE p.user \o (IF p.pass = NoPart THEN << >> ELSE <<":">> \o p.pass) \o <<"@">>)
    \o p.host \o (IF p.port = NoPart THEN << >> ELSE <<":">> \o p.port)
    \o p.path

(* strncpy and snprintf keep size - 1 characters and do not tell. *)
Copied(s, size) == SubSeq(s, 1, IF Len(s) < size THEN Len(s) ELSE size - 1)

(* strchr and strrchr, 0 if there is none; what is before and after.       *)
LastPlace(s, c)  == SelectLastInSeq(s, LAMBDA x : x = c)
FirstPlace(s, c) == SelectInSeq(s, LAMBDA x : x = c)
Before(s, i) == SubSeq(s, 1, i - 1)
From(s, i)   == SubSeq(s, i, Len(s))

(* The credentials before "@", user and password split at the first ":".   *)
UserOf(creds) == Copied(IF FirstPlace(creds, ":") = 0 THEN creds
                        ELSE Before(creds, FirstPlace(creds, ":")), UserSize)
PassOf(creds) == IF FirstPlace(creds, ":") = 0 THEN Default.pass
                 ELSE Copied(From(creds, FirstPlace(creds, ":") + 1), PassSize)

HostOf(hostport) == IF FirstPlace(hostport, ":") = 0 THEN hostport
                    ELSE Before(hostport, FirstPlace(hostport, ":"))
PortOf(hostport) == IF FirstPlace(hostport, ":") = 0 THEN Default.port
                    ELSE Copied(From(hostport, FirstPlace(hostport, ":") + 1), PortSize)

AuthorityAtLastSlash(s) == \* mutant: strrchr in the place of strchr
    IF LastPlace(s, "/") = 0 THEN s ELSE Before(s, LastPlace(s, "/"))
Authority(s) == IF FirstPlace(s, "/") = 0 THEN s ELSE Before(s, FirstPlace(s, "/"))

parse_url(arg) ==
    LET tmp       == Copied(arg, UrlSize)
        slash     == FirstPlace(tmp, "/")
        authority == IF slash = 0 THEN Copied(tmp, HostSize) ELSE Authority(tmp)
        at        == FirstPlace(authority, "@")
        creds     == Before(authority, at)
        hostport  == From(authority, at + 1)
    IN  IF \/ slash # 0 /\ Len(authority) >= HostSize
           \/ at # 0 /\ Len(creds) >= UserSize + PassSize
           \/ HostOf(hostport) = << >>
        THEN Rejected
        ELSE [user |-> IF at = 0 THEN Default.user ELSE UserOf(creds),
              pass |-> IF at = 0 THEN Default.pass ELSE PassOf(creds),
              host |-> HostOf(hostport),
              port |-> PortOf(hostport),
              path |-> IF slash = 0 THEN << >> ELSE Copied(From(tmp, slash), PathSize)]

basename_path(path) ==
    IF LastPlace(path, "/") \in {0, Len(path)} THEN << >>
    ELSE From(path, LastPlace(path, "/") + 1)

Init == /\ parts \in {p \in [user : Users \cup {NoPart}, pass : Passwords \cup {NoPart},
                             host : Hosts, port : Ports \cup {NoPart},
                             path : Paths, local : LocalNames] :
                        p.user = NoPart => p.pass = NoPart}
        /\ url = Rejected /\ doList = FALSE /\ localFile = << >> /\ pc = "parse"

Parses == /\ pc = "parse"
          /\ url' = parse_url(Url(parts))
          /\ pc' = IF url' = Rejected THEN "died" ELSE "decide"
          /\ UNCHANGED <<parts, doList, localFile>>

(* A path that is empty or ends in "/" is listed; a download without local *)
(* name takes the name of the remote file.  Either name is cut to fit.     *)
ListedIfEmpty(path) == path = << >>  \* mutant: a final "/" is not looked at
Listed(path) == path = << >> \/ Last(path) = "/"

Decides == /\ pc = "decide"
           /\ pc' = "connect"
           /\ LET given == Copied(parts.local, LocalSize)
                  name  == basename_path(url.path)
                  taken == ~Listed(url.path) /\ given = << >>
              IN  /\ doList' = (Listed(url.path) \/ (taken /\ name = << >>))
                  /\ localFile' = IF taken THEN Copied(name, LocalSize) ELSE given
           /\ UNCHANGED <<parts, url>>

Next == Parses \/ Decides

Spec == Init /\ [][Next]_vars

(***************************************************************************)
(* Properties.                                                             *)
(***************************************************************************)
Or(part, default) == IF part = NoPart THEN default ELSE part

(* Every part that fits its array is recovered exactly, with the defaults  *)
(* for those left out, whatever separators the later parts contain.        *)
PartsRecovered ==
    pc \in {"decide", "connect"}
    /\ Len(Url(parts)) < UrlSize /\ Len(Url(parts)) - Len(parts.path) < HostSize
    /\ Len(Or(parts.user, << >>)) < UserSize /\ Len(Or(parts.pass, << >>)) < PassSize
    /\ Len(Or(parts.port, << >>)) < PortSize /\ Len(parts.path) < PathSize
    => url = [user |-> Or(parts.user, Default.user), pass |-> Or(parts.pass, Default.pass),
              host |-> parts.host, port |-> Or(parts.port, Default.port),
              path |-> parts.path]

(* Credentials are used whole or rejected ("Error: credentials too long"). *)
CredentialsWhole ==
    pc = "connect" => url.user = Or(parts.user, Default.user)

(* A download always has a local name, a plain one if none was given: the  *)
(* last fallback of main, to a listing, is never needed.                   *)
DownloadIsNamed ==
    pc = "connect" => /\ doList = (url.path = << >> \/ Last(url.path) = "/")
                      /\ ~doList => /\ localFile # << >>
                                    /\ parts.local = << >> => ~Contains(localFile, "/")
=============================================================================
