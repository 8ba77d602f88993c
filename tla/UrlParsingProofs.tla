-------------------------- MODULE UrlParsingProofs --------------------------
(***************************************************************************)
(* Proofs about UrlParsing, for every set of words of the grammar and      *)
(* every size of the arrays.                                               *)
(***************************************************************************)
EXTENDS UrlParsing, SequenceTheorems, WellFoundedInduction, TLAPS

(* The characters, with those of the separators named: that a string       *)
(* literal is an element of STRING the provers do not know.                *)
Characters == STRING \cup {":", "@", "/", "absent"}
Words      == Seq(Characters)

LEMMA StringsAreWords == Seq(STRING) \subseteq Words
<1> SUFFICES ASSUME NEW s \in Seq(STRING) PROVE s \in Seq(Characters)
  BY DEF Words
<1>1. Len(s) \in Nat /\ s \in [1..Len(s) -> STRING]
  BY LenProperties
<1>2. s \in [1..Len(s) -> Characters]
  BY <1>1 DEF Characters
<1> QED BY <1>1, <1>2, SeqDef

LEMMA OneCharacter ==
    ASSUME NEW c \in Characters
    PROVE  <<c>> \in Words /\ Len(<<c>>) = 1 /\ <<c>>[1] = c
<1>1. <<c>> = Append(<< >>, c) /\ Len(<<c>>) = 1 /\ <<c>>[1] = c
  OBVIOUS
<1>2. << >> \in Seq(Characters)
  BY EmptySeq
<1>3. Append(<< >>, c) \in Seq(Characters)
  BY <1>2, AppendProperties
<1> QED BY <1>1, <1>3 DEF Words

(* The first place of a character: with the place known, and without.      *)
LEMMA FirstPlaceAt ==
    ASSUME NEW s \in Words, NEW c, NEW i \in 1..Len(s),
           s[i] = c, \A j \in 1..(i - 1) : s[j] # c
    PROVE  FirstPlace(s, c) = i
<1> DEFINE I == {j \in 1..Len(s) : s[j] = c}
<1>1. i \in I /\ \A j \in I : i <= j
  BY LenProperties DEF Words
<1>2. Min(I) = i
  <2>1. Min(I) \in I /\ \A j \in I : Min(I) <= j
    BY <1>1 DEF Min
  <2> QED BY <1>1, <2>1
<1>3. FirstPlace(s, c) = IF I # {} THEN Min(I) ELSE 0
  BY DEF FirstPlace, SelectInSeq
<1> QED BY <1>1, <1>2, <1>3

LEMMA NoFirstPlace ==
    ASSUME NEW s, NEW c, \A j \in 1..Len(s) : s[j] # c
    PROVE  FirstPlace(s, c) = 0
  BY DEF FirstPlace, SelectInSeq

(* A bounded nonempty set of numbers has a least and a greatest element.   *)
LEMMA HasLeast ==
    ASSUME NEW n \in Nat, NEW S \in SUBSET (1..n), S # {}
    PROVE  Min(S) \in S
<1> DEFINE R == {ss \in Nat \X Nat : ss[1] < ss[2]}
<1>1. IsWellFoundedOn(R, Nat)
  BY NatLessThanWellFounded DEF OpToRel
<1>2. PICK x \in S : \A y \in S : ~ (<<y, x>> \in R)
  <2>1. S \subseteq Nat
    OBVIOUS
  <2> HIDE DEF R
  <2> QED BY <1>1, <2>1, WFMin
<1>3. ASSUME NEW y \in S PROVE x <= y
  <2>1. ~ (<<y, x>> \in R)
    BY <1>2
  <2>2. x \in Nat /\ y \in Nat
    OBVIOUS
  <2> QED BY <2>1, <2>2
<1> QED BY <1>3 DEF Min

LEMMA HasGreatest ==
    ASSUME NEW n \in Nat, NEW S \in SUBSET (1..n), S # {}
    PROVE  Max(S) \in S /\ \A y \in S : y <= Max(S)
<1> DEFINE T == {n + 1 - x : x \in S}
           R == {ss \in Nat \X Nat : ss[1] < ss[2]}
<1>1. IsWellFoundedOn(R, Nat)
  BY NatLessThanWellFounded DEF OpToRel
<1>2. PICK t \in T : \A y \in T : ~ (<<y, t>> \in R)
  <2>1. T \subseteq Nat
    <3>1. ASSUME NEW x \in S PROVE n + 1 - x \in Nat
      <4>1. x \in 1..n
        OBVIOUS
      <4> QED BY <4>1
    <3> QED BY <3>1
  <2>2. T # {}
    OBVIOUS
  <2> HIDE DEF R, T
  <2> QED BY <1>1, <2>1, <2>2, WFMin
<1>3. PICK x \in S : t = n + 1 - x
  OBVIOUS
<1>4. ASSUME NEW y \in S PROVE x >= y
  <2>1. x \in 1..n /\ y \in 1..n /\ n + 1 - y \in T
    OBVIOUS
  <2>2. ~ (<<n + 1 - y, t>> \in R)
    BY <1>2, <2>1
  <2>3. n + 1 - y \in Nat /\ t \in Nat
    BY <1>3, <2>1
  <2> QED BY <1>3, <2>1, <2>2, <2>3
<1>5. Max(S) \in S /\ \A y \in S : Max(S) >= y
  BY <1>4 DEF Max
<1> QED BY <1>5

LEMMA FirstPlaceIs ==
    ASSUME NEW s \in Words, NEW c
    PROVE  \/ FirstPlace(s, c) = 0 /\ \A j \in 1..Len(s) : s[j] # c
           \/ FirstPlace(s, c) \in 1..Len(s) /\ s[FirstPlace(s, c)] = c
<1> DEFINE I == {j \in 1..Len(s) : s[j] = c}
<1>1. FirstPlace(s, c) = IF I # {} THEN Min(I) ELSE 0
  BY DEF FirstPlace, SelectInSeq
<1>2. I # {} => Min(I) \in I
  <2>1. Len(s) \in Nat /\ I \in SUBSET (1..Len(s))
    BY LenProperties DEF Words
  <2> HIDE DEF I
  <2> QED BY <2>1, HasLeast
<1> QED BY <1>1, <1>2

LEMMA LastPlaceIs ==
    ASSUME NEW s \in Words, NEW c
    PROVE  \/ LastPlace(s, c) = 0 /\ \A j \in 1..Len(s) : s[j] # c
           \/ /\ LastPlace(s, c) \in 1..Len(s) /\ s[LastPlace(s, c)] = c
              /\ \A j \in 1..Len(s) : s[j] = c => j <= LastPlace(s, c)
<1> DEFINE I == {j \in 1..Len(s) : s[j] = c}
<1>1. LastPlace(s, c) = IF I # {} THEN Max(I) ELSE 0
  BY DEF LastPlace, SelectLastInSeq
<1>2. I # {} => Max(I) \in I /\ \A y \in I : y <= Max(I)
  <2>1. Len(s) \in Nat /\ I \in SUBSET (1..Len(s))
    BY LenProperties DEF Words
  <2> HIDE DEF I
  <2> QED BY <2>1, HasGreatest
<1> QED BY <1>1, <1>2

(* What strncpy leaves of a word, and a word from one place on.            *)
LEMMA CopiedIsWord ==
    ASSUME NEW s \in Words, NEW size \in Nat \ {0}
    PROVE  /\ Copied(s, size) \in Words
           /\ Len(s) < size => Copied(s, size) = s
           /\ Len(Copied(s, size)) > 0 => Len(s) > 0 /\ Copied(s, size)[1] = s[1]
<1> DEFINE n == IF Len(s) < size THEN Len(s) ELSE size - 1
<1>1. Len(s) \in Nat /\ n \in 0..Len(s) /\ s \in Seq(Characters)
  BY LenProperties DEF Words
<1>2. Copied(s, size) = SubSeq(s, 1, n)
  BY DEF Copied
<1>3. \A i \in 1..n : s[i] \in Characters
  BY <1>1, ElementOfSeq
<1>4. /\ SubSeq(s, 1, n) \in Seq(Characters)
      /\ Len(SubSeq(s, 1, n)) = IF 1 <= n THEN n - 1 + 1 ELSE 0
      /\ \A i \in 1..(n - 1 + 1) : SubSeq(s, 1, n)[i] = s[1 + i - 1]
  <2> HIDE DEF n
  <2>1. n \in Nat /\ 1..n \subseteq 1..Len(s)
    BY <1>1
  <2> QED BY <1>1, <2>1, SubSeqProperties
<1>5. SubSeq(s, 1, Len(s)) = s
  BY <1>1, SubSeqFull
<1> HIDE DEF n
<1>6. Copied(s, size) \in Words
  BY <1>2, <1>4 DEF Words
<1>7. Len(s) < size => Copied(s, size) = s
  BY <1>2, <1>5 DEF n
<1>8. ASSUME Len(Copied(s, size)) > 0 PROVE Len(s) > 0 /\ Copied(s, size)[1] = s[1]
  <2>1. n \in Nat /\ n >= 1
    BY <1>1, <1>2, <1>4, <1>8
  <2>2. SubSeq(s, 1, n)[1] = s[1 + 1 - 1]
    BY <1>4, <2>1
  <2> QED BY <1>1, <1>2, <2>1, <2>2
<1> QED BY <1>6, <1>7, <1>8

LEMMA FromIsWord ==
    ASSUME NEW s \in Words, NEW i \in 1..Len(s)
    PROVE  /\ From(s, i) \in Words /\ Len(From(s, i)) = Len(s) - i + 1
           /\ \A j \in 1..Len(From(s, i)) : From(s, i)[j] = s[i + j - 1]
<1>1. Len(s) \in Nat /\ s \in Seq(Characters)
  BY LenProperties DEF Words
<1>2. \A j \in i..Len(s) : s[j] \in Characters
  BY <1>1, ElementOfSeq
<1>3. /\ SubSeq(s, i, Len(s)) \in Seq(Characters)
      /\ Len(SubSeq(s, i, Len(s))) = IF i <= Len(s) THEN Len(s) - i + 1 ELSE 0
      /\ \A j \in 1..(Len(s) - i + 1) : SubSeq(s, i, Len(s))[j] = s[i + j - 1]
  BY <1>1, <1>2, SubSeqProperties
<1> QED BY <1>1, <1>3 DEF From, Words

(* The parts, and the URL composed of them.                                *)
PartsOK ==
    /\ parts \in [user : Users \cup {NoPart}, pass : Passwords \cup {NoPart},
                  host : Hosts, port : Ports \cup {NoPart},
                  path : Paths, local : LocalNames]
    /\ parts.user = NoPart => parts.pass = NoPart

LEMMA PartsAreWords ==
    ASSUME PartsOK
    PROVE  /\ parts.user \in Words /\ parts.pass \in Words /\ parts.host \in Words
           /\ parts.port \in Words /\ parts.path \in Words /\ parts.local \in Words
<1>1. NoPart \in Words
  <2>1. "absent" \in Characters
    BY DEF Characters
  <2> QED BY <2>1, OneCharacter DEF NoPart
<1> QED BY <1>1, GrammarAssumption, StringsAreWords DEF PartsOK

(* The credentials with their "@", and the port with its ":".              *)
Credentials(p) == p.user \o (IF p.pass = NoPart THEN << >> ELSE <<":">> \o p.pass)
Login(p)       == IF p.user = NoPart THEN << >> ELSE Credentials(p) \o <<"@">>
PortPart(p)    == IF p.port = NoPart THEN << >> ELSE <<":">> \o p.port

LEMMA WordsOfUrl ==
    ASSUME PartsOK
    PROVE  /\ Credentials(parts) \in Words /\ Login(parts) \in Words
           /\ PortPart(parts) \in Words
           /\ Login(parts) \o parts.host \o PortPart(parts) \in Words
           /\ Url(parts) \in Words
           /\ Url(parts) = (Login(parts) \o parts.host \o PortPart(parts)) \o parts.path
<1>1. \A s, t \in Words : s \o t \in Words
  BY ConcatProperties DEF Words
<1>2. << >> \in Words /\ <<":">> \in Words /\ <<"@">> \in Words
  <2>1. ":" \in Characters /\ "@" \in Characters
    BY DEF Characters
  <2>2. <<":">> \in Words /\ <<"@">> \in Words
    BY <2>1, OneCharacter
  <2> QED BY <2>2, EmptySeq DEF Words
<1>3. Credentials(parts) \in Words
  BY <1>1, <1>2, PartsAreWords DEF Credentials
<1>4. Login(parts) \in Words
  BY <1>1, <1>2, <1>3 DEF Login
<1>5. PortPart(parts) \in Words
  BY <1>1, <1>2, PartsAreWords DEF PortPart
<1>6. Login(parts) \o parts.host \o PortPart(parts) \in Words
  BY <1>1, <1>4, <1>5, PartsAreWords
<1>7. Url(parts) = (Login(parts) \o parts.host \o PortPart(parts)) \o parts.path
  BY Zenon DEF Url, Login, Credentials, PortPart
<1>8. Url(parts) \in Words
  BY <1>1, <1>6, <1>7, PartsAreWords
<1> QED BY <1>3, <1>4, <1>5, <1>6, <1>7, <1>8

(* Whatever is parsed, the path is empty or begins with "/".               *)
Rooted(path) == path \in Words /\ (Len(path) > 0 => path[1] = "/")

LEMMA PathIsRooted ==
    ASSUME NEW arg \in Words, parse_url(arg) # Rejected
    PROVE  Rooted(parse_url(arg).path)
<1> DEFINE tmp == Copied(arg, UrlSize)
           slash == FirstPlace(tmp, "/")
<1>1. parse_url(arg).path = IF slash = 0 THEN << >> ELSE Copied(From(tmp, slash), PathSize)
  BY DEF parse_url
<1>2. tmp \in Words
  BY CopiedIsWord, SizeAssumption
<1>3. Rooted(<< >>)
  BY DEF Rooted, Words
<1> HIDE DEF tmp
<1>4. ASSUME slash # 0 PROVE Rooted(Copied(From(tmp, slash), PathSize))
  <2>1. slash \in 1..Len(tmp) /\ tmp[slash] = "/"
    BY <1>2, <1>4, FirstPlaceIs
  <2>2. /\ From(tmp, slash) \in Words /\ Len(From(tmp, slash)) = Len(tmp) - slash + 1
        /\ \A j \in 1..Len(From(tmp, slash)) : From(tmp, slash)[j] = tmp[slash + j - 1]
    <3> HIDE DEF slash
    <3> QED BY <1>2, <2>1, FromIsWord
  <2>3. From(tmp, slash)[1] = "/"
    <3> HIDE DEF slash
    <3>1. Len(tmp) \in Nat
      BY <1>2, LenProperties DEF Words
    <3>2. From(tmp, slash)[1] = tmp[slash + 1 - 1]
      BY <2>1, <2>2, <3>1
    <3> QED BY <2>1, <3>2
  <2> HIDE DEF slash
  <2> QED BY <2>2, <2>3, CopiedIsWord, SizeAssumption DEF Rooted
<1> HIDE DEF slash
<1> QED BY <1>1, <1>3, <1>4

(* A rooted path that does not end in "/" has a name, and a plain one.     *)
LEMMA NameOfPath ==
    ASSUME NEW path, Rooted(path), ~Listed(path)
    PROVE  /\ basename_path(path) # << >> /\ basename_path(path) \in Words
           /\ ~Contains(basename_path(path), "/")
<1> DEFINE p == LastPlace(path, "/")
           name == From(path, p + 1)
<1>1. path \in Words /\ Len(path) \in Nat /\ Len(path) # 0
  BY EmptySeq, LenProperties DEF Rooted, Words, Listed
<1>2. path[1] = "/" /\ path[Len(path)] # "/"
  BY <1>1 DEF Rooted, Listed, Last
<1>3. /\ p \in 1..Len(path) /\ path[p] = "/"
      /\ \A j \in 1..Len(path) : path[j] = "/" => j <= p
  BY <1>1, <1>2, LastPlaceIs
<1>4. p # Len(path)
  BY <1>2, <1>3
<1>5. basename_path(path) = name
  BY <1>3, <1>4 DEF basename_path
<1> HIDE DEF p
<1>6. /\ Len(name) = Len(path) - p
      /\ \A j \in 1..Len(name) : name[j] = path[p + j]
  <2>1. p + 1 \in 1..Len(path)
    BY <1>1, <1>3, <1>4
  <2>2. /\ Len(name) = Len(path) - (p + 1) + 1
        /\ \A j \in 1..Len(name) : name[j] = path[(p + 1) + j - 1]
    BY <1>1, <2>1, FromIsWord
  <2> HIDE DEF name
  <2>3. \A j \in 1..Len(name) : (p + 1) + j - 1 = p + j
    BY <1>1, <1>3, <2>2
  <2> QED BY <1>1, <1>3, <2>2, <2>3
<1>9. name \in Words
  <2>1. p + 1 \in 1..Len(path)
    BY <1>1, <1>3, <1>4
  <2> QED BY <1>1, <2>1, FromIsWord
<1> HIDE DEF name
<1>7. name # << >>
  BY <1>1, <1>3, <1>4, <1>6
<1>8. ASSUME NEW j \in 1..Len(name) PROVE name[j] # "/"
  <2>1. p + j \in 1..Len(path) /\ ~(p + j <= p)
    BY <1>1, <1>3, <1>6
  <2> QED BY <1>3, <1>6, <2>1
<1> QED BY <1>5, <1>7, <1>8, <1>9 DEF Contains

(* A name that is cut is still a name, and a plain one still plain.        *)
LEMMA CutName ==
    ASSUME NEW s \in Words
    PROVE  /\ Copied(s, LocalSize) = << >> <=> s = << >>
           /\ Contains(Copied(s, LocalSize), "/") => Contains(s, "/")
<1> DEFINE n == IF Len(s) < LocalSize THEN Len(s) ELSE LocalSize - 1
<1>1. /\ Len(s) \in Nat /\ s \in Seq(Characters) /\ LocalSize \in Nat /\ LocalSize > 1
      /\ n \in Nat /\ n <= Len(s) /\ (Len(s) > 0 => n > 0)
  BY LenProperties, LocalAssumption DEF Words
<1>2. Copied(s, LocalSize) = SubSeq(s, 1, n)
  BY DEF Copied
<1> HIDE DEF n
<1>3. /\ SubSeq(s, 1, n) \in Seq(Characters) /\ Len(SubSeq(s, 1, n)) = n
      /\ \A i \in 1..n : SubSeq(s, 1, n)[i] = s[i]
  <2>1. \A i \in 1..n : s[i] \in Characters
    BY <1>1, ElementOfSeq
  <2>2. /\ SubSeq(s, 1, n) \in Seq(Characters)
        /\ Len(SubSeq(s, 1, n)) = IF 1 <= n THEN n - 1 + 1 ELSE 0
        /\ \A i \in 1..(n - 1 + 1) : SubSeq(s, 1, n)[i] = s[1 + i - 1]
    BY <1>1, <2>1, SubSeqProperties
  <2> QED BY <1>1, <2>2
<1>4. Copied(s, LocalSize) = << >> <=> s = << >>
  BY <1>1, <1>2, <1>3, EmptySeq
<1>5. \A i \in 1..n : i \in 1..Len(s)
  BY <1>1
<1> QED BY <1>2, <1>3, <1>4, <1>5 DEF Contains

(* Whatever was parsed and decided, with what the names follow from.       *)
NameInv ==
    /\ PartsOK
    /\ pc \in {"decide", "connect"} => Rooted(url.path)
    /\ DownloadIsNamed

THEOREM NameInvHolds == Spec => []NameInv
<1>1. Init => NameInv
  BY DEF Init, NameInv, PartsOK, DownloadIsNamed
<1>2. NameInv /\ [Next]_vars => NameInv'
  <2> SUFFICES ASSUME NameInv, [Next]_vars PROVE NameInv'
    OBVIOUS
  <2>1. CASE Parses
    <3>1. PartsOK' /\ pc' # "connect"
      BY <2>1 DEF Parses, NameInv, PartsOK
    <3>2. ASSUME pc' = "decide" PROVE Rooted(url.path)'
      <4>1. url' = parse_url(Url(parts)) /\ url' # Rejected
        BY <2>1, <3>2 DEF Parses
      <4> QED BY <4>1, PathIsRooted, WordsOfUrl DEF NameInv, Rooted
    <3> QED BY <3>1, <3>2 DEF NameInv, DownloadIsNamed
  <2>2. CASE Decides
    <3>1. PartsOK' /\ pc = "decide" /\ pc' = "connect" /\ url' = url /\ parts' = parts
      BY <2>2 DEF Decides, NameInv, PartsOK
    <3>2. Rooted(url.path)
      BY <3>1 DEF NameInv
    <3> DEFINE given == Copied(parts.local, LocalSize)
               name  == basename_path(url.path)
               taken == ~Listed(url.path) /\ given = << >>
    <3>3. /\ doList' = (Listed(url.path) \/ (taken /\ name = << >>))
          /\ localFile' = IF taken THEN Copied(name, LocalSize) ELSE given
      BY <2>2 DEF Decides
    <3>4. ~Listed(url.path) => /\ name # << >> /\ Copied(name, LocalSize) # << >>
                               /\ ~Contains(Copied(name, LocalSize), "/")
      BY <3>2, NameOfPath, CutName
    <3>8. given = << >> <=> parts.local = << >>
      BY <3>1, PartsAreWords, CutName DEF NameInv
    <3> HIDE DEF given
    <3> HIDE DEF name
    <3>5. doList' = Listed(url.path)
      BY <3>3, <3>4, Zenon DEF Listed
    <3>6. ~Listed(url.path) => /\ localFile' # << >>
                               /\ parts.local = << >> => ~Contains(localFile', "/")
      BY <3>3, <3>4, <3>8
    <3>7. DownloadIsNamed'
      BY <3>1, <3>5, <3>6 DEF DownloadIsNamed, Listed, Contains
    <3> QED BY <3>1, <3>2, <3>7 DEF NameInv, Rooted
  <2>3. CASE UNCHANGED vars
    BY <2>3 DEF vars, NameInv, PartsOK, Rooted, DownloadIsNamed, Contains
  <2> QED BY <2>1, <2>2, <2>3 DEF Next
<1> QED BY <1>1, <1>2, PTL DEF Spec

(* A download always has a local name, a plain one if none was given.      *)
THEOREM DownloadIsNamedHolds == Spec => []DownloadIsNamed
<1>1. NameInv => DownloadIsNamed
  BY DEF NameInv
<1> QED BY <1>1, NameInvHolds, PTL

Lacks(word, c) == \A i \in 1..Len(word) : word[i] # c

(* Cutting a word at a separator that its first piece does not hold.       *)
SplitsInto(w, s, c, t) ==
    /\ FirstPlace(w, c) = Len(s) + 1
    /\ Before(w, Len(s) + 1) = s
    /\ From(w, Len(s) + 1) = <<c>> \o t
    /\ From(w, (Len(s) + 1) + 1) = t

LEMMA SplitAt ==
    \A s, t \in Words, c \in Characters : \A w :
        Lacks(s, c) /\ w = s \o (<<c>> \o t) => SplitsInto(w, s, c, t)
<1> SUFFICES ASSUME NEW s \in Words, NEW t \in Words, NEW c \in Characters, Lacks(s, c),
                    NEW w, w = s \o (<<c>> \o t)
             PROVE  SplitsInto(w, s, c, t)
  OBVIOUS
<1> DEFINE tail == <<c>> \o t
<1>1. /\ tail \in Words /\ Len(tail) = 1 + Len(t)
      /\ Len(s) \in Nat /\ Len(t) \in Nat /\ tail[1] = c
  BY OneCharacter, ConcatProperties, LenProperties DEF Words
<1> HIDE DEF tail
<1>2. w = s \o tail
  BY DEF tail
<1>3. /\ w \in Words /\ Len(w) = Len(s) + Len(tail)
      /\ \A i \in 1..Len(w) : w[i] = IF i <= Len(s) THEN s[i] ELSE tail[i - Len(s)]
  BY <1>1, <1>2, ConcatProperties DEF Words
<1>4. Len(w) = Len(s) + 1 + Len(t)
  BY <1>1, <1>3
<1>5. FirstPlace(w, c) = Len(s) + 1
  <2> DEFINE i == Len(s) + 1
  <2>1. i \in 1..Len(w) /\ ~(i <= Len(s)) /\ i - Len(s) = 1
    BY <1>1, <1>4
  <2>2. w[i] = c
    BY <1>1, <1>3, <2>1
  <2>3. ASSUME NEW j \in 1..(i - 1) PROVE w[j] # c
    <3>1. j \in 1..Len(s) /\ j \in 1..Len(w) /\ j <= Len(s)
      BY <1>1, <1>4
    <3> QED BY <1>3, <3>1 DEF Lacks
  <2> HIDE DEF i
  <2>4. FirstPlace(w, c) = i
    BY <1>3, <2>1, <2>2, <2>3, FirstPlaceAt
  <2> QED BY <2>4 DEF i
<1>6. Before(w, Len(s) + 1) = s
  <2>1. SubSeq(s \o tail, 1, Len(s)) = SubSeq(s, 1, Len(s))
    BY <1>1, SubSeqOfConcat1 DEF Words
  <2>2. SubSeq(s, 1, Len(s)) = s
    BY SubSeqFull DEF Words
  <2>3. (Len(s) + 1) - 1 = Len(s)
    BY <1>1
  <2> QED BY <1>2, <2>1, <2>2, <2>3 DEF Before
<1>7. From(w, Len(s) + 1) = tail
  <2>1. From(w, Len(s) + 1) = SubSeq(s \o tail, Len(s) + 1, Len(s) + Len(tail))
    BY <1>2, <1>3 DEF From
  <2>2. SubSeq(s \o tail, Len(s) + 1, Len(s) + Len(tail))
          = SubSeq(tail, (Len(s) + 1) - Len(s), (Len(s) + Len(tail)) - Len(s))
    <3>1. /\ Len(s) + 1 \in (Len(s) + 1)..(Len(s) + Len(tail) + 1)
          /\ Len(s) + Len(tail) \in (Len(s) + 1 - 1)..(Len(s) + Len(tail))
      BY <1>1
    <3> QED BY <1>1, <3>1, SubSeqOfConcat2 DEF Words
  <2>3. (Len(s) + 1) - Len(s) = 1 /\ (Len(s) + Len(tail)) - Len(s) = Len(tail)
    BY <1>1
  <2>4. SubSeq(tail, 1, Len(tail)) = tail
    BY <1>1, SubSeqFull DEF Words
  <2> QED BY <2>1, <2>2, <2>3, <2>4
<1>8. From(w, (Len(s) + 1) + 1) = t
  <2> DEFINE k == (Len(s) + 1) + 1
             r == From(w, k)
  <2>1. CASE Len(t) = 0
    <3>1. k > Len(w) /\ k \in Int /\ Len(w) \in Int
      BY <1>1, <1>4, <2>1
    <3>2. SubSeq(w, k, Len(w)) = << >>
      BY <1>3, <3>1, SubSeqEmpty DEF Words
    <3>3. t = << >>
      BY <2>1, EmptySeq DEF Words
    <3> QED BY <3>2, <3>3 DEF From
  <2>2. CASE Len(t) # 0
    <3>1. k \in 1..Len(w) /\ Len(w) - k + 1 = Len(t)
      BY <1>1, <1>4, <2>2
    <3>2. /\ r \in Words /\ Len(r) = Len(t)
          /\ \A j \in 1..Len(r) : r[j] = w[k + j - 1]
      <4> HIDE DEF k
      <4> QED BY <1>3, <3>1, FromIsWord
    <3> HIDE DEF r
    <3>3. ASSUME NEW j \in 1..Len(t) PROVE r[j] = t[j]
      <4>1. k + j - 1 \in 1..Len(w) /\ ~(k + j - 1 <= Len(s))
            /\ (k + j - 1) - Len(s) = 1 + j
        BY <1>1, <1>4
      <4>2. w[k + j - 1] = tail[1 + j]
        BY <1>3, <4>1
      <4>3. tail[1 + j] = t[j]
        <5>1. <<c>> \in Seq(Characters) /\ Len(<<c>>) = 1 /\ t \in Seq(Characters)
          BY OneCharacter DEF Words
        <5>2. \A i \in 1..(1 + Len(t)) :
                (<<c>> \o t)[i] = IF i <= 1 THEN <<c>>[i] ELSE t[i - 1]
          BY <5>1, ConcatProperties
        <5>3. 1 + j \in 1..(1 + Len(t)) /\ ~(1 + j <= 1) /\ (1 + j) - 1 = j
          BY <1>1
        <5> QED BY <5>2, <5>3 DEF tail
      <4> QED BY <3>2, <4>2, <4>3
    <3>4. r = t
      BY <3>2, <3>3, SeqEqual DEF Words
    <3> QED BY <3>4 DEF r
  <2> QED BY <2>1, <2>2
<1> QED BY <1>5, <1>6, <1>7, <1>8 DEF tail, SplitsInto

LEMMA LacksConcat ==
    ASSUME NEW s \in Words, NEW t \in Words, NEW c, Lacks(s, c), Lacks(t, c)
    PROVE  s \o t \in Words /\ Lacks(s \o t, c)
<1>1. /\ s \o t \in Seq(Characters) /\ Len(s \o t) = Len(s) + Len(t)
      /\ Len(s) \in Nat /\ Len(t) \in Nat
      /\ \A i \in 1..(Len(s) + Len(t)) :
           (s \o t)[i] = IF i <= Len(s) THEN s[i] ELSE t[i - Len(s)]
  BY ConcatProperties, LenProperties DEF Words
<1>2. ASSUME NEW i \in 1..Len(s \o t) PROVE (s \o t)[i] # c
  <2>1. CASE i <= Len(s)
    BY <1>1, <2>1 DEF Lacks
  <2>2. CASE ~(i <= Len(s))
    <3>1. i - Len(s) \in 1..Len(t)
      BY <1>1, <2>2
    <3> QED BY <1>1, <2>2, <3>1 DEF Lacks
  <2> QED BY <2>1, <2>2
<1> QED BY <1>1, <1>2 DEF Lacks, Words

LEMMA WordsAssociate ==
    ASSUME NEW s \in Words, NEW t \in Words, NEW u \in Words
    PROVE  (s \o t) \o u = s \o (t \o u)
  BY ConcatAssociative DEF Words

LEMMA LacksOne ==
    ASSUME NEW d \in Characters, NEW c, c # d
    PROVE  <<d>> \in Words /\ Lacks(<<d>>, c)
  BY OneCharacter DEF Lacks

LEMMA Separators ==
    /\ ":" \in Characters /\ "@" \in Characters /\ "/" \in Characters
    /\ <<":">> \in Words /\ <<"@">> \in Words
    /\ << >> \in Words /\ \A c : Lacks(<< >>, c)
<1>1. ":" \in Characters /\ "@" \in Characters /\ "/" \in Characters
  BY DEF Characters
<1> QED BY <1>1, OneCharacter, EmptySeq DEF Words, Lacks

LEMMA WordsLack ==
    ASSUME PartsOK
    PROVE  /\ parts.user # NoPart => /\ Lacks(parts.user, ":") /\ Lacks(parts.user, "@")
                                     /\ Lacks(parts.user, "/")
           /\ parts.pass # NoPart => Lacks(parts.pass, "@") /\ Lacks(parts.pass, "/")
           /\ Lacks(parts.host, ":") /\ Lacks(parts.host, "@") /\ Lacks(parts.host, "/")
           /\ parts.port # NoPart => Lacks(parts.port, "@") /\ Lacks(parts.port, "/")
           /\ parts.path = << >> \/ Head(parts.path) = "/"
  BY GrammarAssumption DEF PartsOK, Lacks, Without

(* The credentials are split at the ":" that ends the user, whatever the   *)
(* password holds.                                                         *)
LEMMA CredentialsParsed ==
    ASSUME PartsOK, parts.user # NoPart,
           Len(parts.user) < UserSize, Len(Or(parts.pass, << >>)) < PassSize
    PROVE  /\ UserOf(Credentials(parts)) = parts.user
           /\ PassOf(Credentials(parts)) = Or(parts.pass, Default.pass)
<1>1. parts.user \in Words /\ parts.pass \in Words /\ Lacks(parts.user, ":")
  BY PartsAreWords, WordsLack
<1>2. Copied(parts.user, UserSize) = parts.user
  BY <1>1, CopiedIsWord, SizeAssumption
<1>3. CASE parts.pass = NoPart
  <2>1. Credentials(parts) = parts.user
    BY <1>1, <1>3, ConcatEmptySeq DEF Credentials, Words
  <2>2. FirstPlace(parts.user, ":") = 0
    BY <1>1, NoFirstPlace DEF Lacks
  <2> QED BY <1>2, <1>3, <2>1, <2>2 DEF UserOf, PassOf, Or
<1>4. CASE parts.pass # NoPart
  <2>1. Credentials(parts) = parts.user \o (<<":">> \o parts.pass)
    BY <1>4 DEF Credentials
  <2>2. /\ FirstPlace(Credentials(parts), ":") = Len(parts.user) + 1
        /\ Before(Credentials(parts), Len(parts.user) + 1) = parts.user
        /\ From(Credentials(parts), (Len(parts.user) + 1) + 1) = parts.pass
    <3>1. ":" \in Characters
      BY Separators
    <3>2. SplitsInto(Credentials(parts), parts.user, ":", parts.pass)
      BY <1>1, <2>1, <3>1, SplitAt
    <3> QED BY <3>2 DEF SplitsInto
  <2>3. Len(parts.user) + 1 # 0
    BY <1>1, LenProperties DEF Words
  <2>4. Copied(parts.pass, PassSize) = parts.pass
    BY <1>1, <1>4, CopiedIsWord, SizeAssumption DEF Or
  <2> QED BY <1>2, <1>4, <2>2, <2>3, <2>4 DEF UserOf, PassOf, Or
<1> QED BY <1>3, <1>4

(* The port follows the ":" that ends the host. *)
LEMMA HostPortParsed ==
    ASSUME PartsOK, Len(Or(parts.port, << >>)) < PortSize
    PROVE  /\ HostOf(parts.host \o PortPart(parts)) = parts.host
           /\ PortOf(parts.host \o PortPart(parts)) = Or(parts.port, Default.port)
<1>1. parts.host \in Words /\ parts.port \in Words /\ Lacks(parts.host, ":")
  BY PartsAreWords, WordsLack
<1>2. CASE parts.port = NoPart
  <2>1. parts.host \o PortPart(parts) = parts.host
    BY <1>1, <1>2, ConcatEmptySeq DEF PortPart, Words
  <2>2. FirstPlace(parts.host, ":") = 0
    BY <1>1, NoFirstPlace DEF Lacks
  <2> QED BY <1>2, <2>1, <2>2 DEF HostOf, PortOf, Or
<1>3. CASE parts.port # NoPart
  <2> DEFINE hp == parts.host \o PortPart(parts)
  <2>1. hp = parts.host \o (<<":">> \o parts.port)
    BY <1>3 DEF PortPart
  <2> HIDE DEF hp
  <2>2. /\ FirstPlace(hp, ":") = Len(parts.host) + 1
        /\ Before(hp, Len(parts.host) + 1) = parts.host
        /\ From(hp, (Len(parts.host) + 1) + 1) = parts.port
    <3>1. ":" \in Characters
      BY Separators
    <3>2. SplitsInto(hp, parts.host, ":", parts.port)
      BY <1>1, <2>1, <3>1, SplitAt
    <3> QED BY <3>2 DEF SplitsInto
  <2>3. Len(parts.host) + 1 # 0
    BY <1>1, LenProperties DEF Words
  <2>4. Copied(parts.port, PortSize) = parts.port
    BY <1>1, <1>3, CopiedIsWord, SizeAssumption DEF Or
  <2>5. HostOf(hp) = parts.host /\ PortOf(hp) = Or(parts.port, Default.port)
    BY <1>3, <2>2, <2>3, <2>4 DEF HostOf, PortOf, Or
  <2> QED BY <2>5 DEF hp
<1> QED BY <1>2, <1>3

(* What stands before the path: with credentials, the first "@" ends them. *)
AuthorityPart(p) == Login(p) \o p.host \o PortPart(p)

LEMMA PortPartLacks ==
    ASSUME PartsOK
    PROVE  /\ parts.host \o PortPart(parts) \in Words
           /\ Lacks(parts.host \o PortPart(parts), "@")
           /\ Lacks(parts.host \o PortPart(parts), "/")
<1>1. PortPart(parts) \in Words /\ Lacks(PortPart(parts), "@") /\ Lacks(PortPart(parts), "/")
  <2>1. CASE parts.port = NoPart
    BY <2>1, Separators DEF PortPart
  <2>2. CASE parts.port # NoPart
    <3>1. Lacks(<<":">>, "@") /\ Lacks(<<":">>, "/")
      BY Separators, LacksOne
    <3>2. PortPart(parts) = <<":">> \o parts.port
      BY <2>2 DEF PortPart
    <3> QED BY <2>2, <3>1, <3>2, LacksConcat, Separators, PartsAreWords, WordsLack
  <2> QED BY <2>1, <2>2
<1> QED BY <1>1, LacksConcat, PartsAreWords, WordsLack

LEMMA CredentialsLack ==
    ASSUME PartsOK, parts.user # NoPart
    PROVE  /\ Credentials(parts) \in Words
           /\ Lacks(Credentials(parts), "@") /\ Lacks(Credentials(parts), "/")
<1> DEFINE pp == IF parts.pass = NoPart THEN << >> ELSE <<":">> \o parts.pass
<1>1. pp \in Words /\ Lacks(pp, "@") /\ Lacks(pp, "/")
  <2>1. CASE parts.pass = NoPart
    BY <2>1, Separators
  <2>2. CASE parts.pass # NoPart
    <3>1. Lacks(<<":">>, "@") /\ Lacks(<<":">>, "/")
      BY Separators, LacksOne
    <3> QED BY <2>2, <3>1, LacksConcat, Separators, PartsAreWords, WordsLack
  <2> QED BY <2>1, <2>2
<1>2. Credentials(parts) = parts.user \o pp
  BY DEF Credentials
<1> HIDE DEF pp
<1> QED BY <1>1, <1>2, LacksConcat, PartsAreWords, WordsLack

LEMMA AuthorityParsed ==
    ASSUME PartsOK
    PROVE  /\ AuthorityPart(parts) \in Words /\ Lacks(AuthorityPart(parts), "/")
           /\ parts.user = NoPart =>
                /\ AuthorityPart(parts) = parts.host \o PortPart(parts)
                /\ FirstPlace(AuthorityPart(parts), "@") = 0
           /\ parts.user # NoPart =>
                LET at == FirstPlace(AuthorityPart(parts), "@")
                IN  /\ at \in Nat \ {0}
                    /\ Before(AuthorityPart(parts), at) = Credentials(parts)
                    /\ From(AuthorityPart(parts), at + 1) = parts.host \o PortPart(parts)
<1> DEFINE hp == parts.host \o PortPart(parts)
           cr == Credentials(parts)
<1>1. hp \in Words /\ Lacks(hp, "@") /\ Lacks(hp, "/")
  BY PortPartLacks
<1>2. parts.host \in Words /\ PortPart(parts) \in Words
  BY PartsAreWords, WordsOfUrl
<1>3. CASE parts.user = NoPart
  <2>1. AuthorityPart(parts) = (<< >> \o parts.host) \o PortPart(parts)
    BY <1>3 DEF AuthorityPart, Login
  <2>2. << >> \o parts.host = parts.host
    BY <1>2, ConcatEmptySeq DEF Words
  <2>3. AuthorityPart(parts) = hp
    BY <2>1, <2>2
  <2> HIDE DEF hp
  <2>4. FirstPlace(hp, "@") = 0
    BY <1>1, NoFirstPlace DEF Lacks
  <2> QED BY <1>1, <1>3, <2>3, <2>4 DEF hp
<1>4. CASE parts.user # NoPart
  <2>1. cr \in Words /\ Lacks(cr, "@") /\ Lacks(cr, "/")
    BY <1>4, CredentialsLack
  <2>2. AuthorityPart(parts) = ((cr \o <<"@">>) \o parts.host) \o PortPart(parts)
    BY <1>4 DEF AuthorityPart, Login
  <2> HIDE DEF cr
  <2>3. AuthorityPart(parts) = cr \o (<<"@">> \o hp)
    <3>1. cr \o <<"@">> \in Words
      BY <2>1, Separators, ConcatProperties DEF Words
    <3>2. ((cr \o <<"@">>) \o parts.host) \o PortPart(parts) = (cr \o <<"@">>) \o hp
      BY <1>2, <3>1, WordsAssociate, Zenon DEF hp
    <3>3. (cr \o <<"@">>) \o hp = cr \o (<<"@">> \o hp)
      BY <1>1, <2>1, Separators, WordsAssociate, Zenon
    <3> QED BY <2>2, <3>2, <3>3
  <2> HIDE DEF hp
  <2>4. /\ FirstPlace(AuthorityPart(parts), "@") = Len(cr) + 1
        /\ Before(AuthorityPart(parts), Len(cr) + 1) = cr
        /\ From(AuthorityPart(parts), (Len(cr) + 1) + 1) = hp
    <3>1. "@" \in Characters
      BY Separators
    <3>2. SplitsInto(AuthorityPart(parts), cr, "@", hp)
      BY <1>1, <2>1, <2>3, <3>1, SplitAt
    <3> QED BY <3>2 DEF SplitsInto
  <2>5. AuthorityPart(parts) \in Words /\ Lacks(AuthorityPart(parts), "/")
    <3>1. <<"@">> \in Words /\ Lacks(<<"@">>, "/")
      BY Separators, LacksOne
    <3>2. <<"@">> \o hp \in Words /\ Lacks(<<"@">> \o hp, "/")
      BY <1>1, <3>1, LacksConcat
    <3> QED BY <2>1, <2>3, <3>2, LacksConcat
  <2>6. Len(cr) + 1 \in Nat \ {0}
    BY <2>1, LenProperties DEF Words
  <2> QED BY <1>4, <2>4, <2>5, <2>6 DEF cr, hp
<1> QED BY <1>3, <1>4

(* The path begins at the first "/", and nothing before it holds one.      *)
LEMMA PathParsed ==
    ASSUME PartsOK
    PROVE  LET slash == FirstPlace(Url(parts), "/")
           IN  /\ slash = 0 =>
                    Url(parts) = AuthorityPart(parts) /\ parts.path = << >>
               /\ slash # 0 => /\ Authority(Url(parts)) = AuthorityPart(parts)
                               /\ From(Url(parts), slash) = parts.path
<1>1. Url(parts) = AuthorityPart(parts) \o parts.path
  BY WordsOfUrl DEF AuthorityPart
<1>2. /\ AuthorityPart(parts) \in Words /\ Lacks(AuthorityPart(parts), "/")
      /\ parts.path \in Words /\ "/" \in Characters
  BY AuthorityParsed, PartsAreWords, Separators
<1>3. CASE parts.path = << >>
  <2>1. Url(parts) = AuthorityPart(parts)
    BY <1>1, <1>2, <1>3, ConcatEmptySeq DEF Words
  <2>2. FirstPlace(Url(parts), "/") = 0
    BY <1>2, <2>1, NoFirstPlace DEF Lacks
  <2> QED BY <1>3, <2>1, <2>2
<1>4. CASE parts.path # << >>
  <2>1. /\ parts.path = <<"/">> \o Tail(parts.path) /\ Tail(parts.path) \in Words
    <3>1. Head(parts.path) = "/"
      BY <1>4, WordsLack
    <3>2. parts.path = <<Head(parts.path)>> \o Tail(parts.path) /\ Tail(parts.path) \in Words
      BY <1>2, <1>4, HeadTailProperties, EmptySeq, ConcatProperties DEF Words
    <3> QED BY <3>1, <3>2
  <2>2. Url(parts) = AuthorityPart(parts) \o (<<"/">> \o Tail(parts.path))
    BY <1>1, <2>1
  <2>3. /\ FirstPlace(Url(parts), "/") = Len(AuthorityPart(parts)) + 1
        /\ Before(Url(parts), Len(AuthorityPart(parts)) + 1) = AuthorityPart(parts)
        /\ From(Url(parts), Len(AuthorityPart(parts)) + 1) = <<"/">> \o Tail(parts.path)
    <3>1. SplitsInto(Url(parts), AuthorityPart(parts), "/", Tail(parts.path))
      BY <1>2, <2>1, <2>2, SplitAt
    <3> QED BY <3>1 DEF SplitsInto
  <2>4. Len(AuthorityPart(parts)) + 1 # 0
    BY <1>2, LenProperties DEF Words
  <2> QED BY <2>1, <2>3, <2>4 DEF Authority
<1> QED BY <1>3, <1>4

Fits ==
    /\ Len(Url(parts)) < UrlSize /\ Len(Url(parts)) - Len(parts.path) < HostSize
    /\ Len(Or(parts.user, << >>)) < UserSize /\ Len(Or(parts.pass, << >>)) < PassSize
    /\ Len(Or(parts.port, << >>)) < PortSize /\ Len(parts.path) < PathSize

Asked == [user |-> Or(parts.user, Default.user), pass |-> Or(parts.pass, Default.pass),
          host |-> parts.host, port |-> Or(parts.port, Default.port),
          path |-> parts.path]

LEMMA UrlIsParsed ==
    ASSUME PartsOK, Fits, parse_url(Url(parts)) # Rejected
    PROVE  parse_url(Url(parts)) = Asked
<1> DEFINE tmp       == Copied(Url(parts), UrlSize)
           slash     == FirstPlace(tmp, "/")
           authority == IF slash = 0 THEN Copied(tmp, HostSize) ELSE Authority(tmp)
           at        == FirstPlace(authority, "@")
           creds     == Before(authority, at)
           hostport  == From(authority, at + 1)
<1>1. parse_url(Url(parts))
        = [user |-> IF at = 0 THEN Default.user ELSE UserOf(creds),
           pass |-> IF at = 0 THEN Default.pass ELSE PassOf(creds),
           host |-> HostOf(hostport),
           port |-> PortOf(hostport),
           path |-> IF slash = 0 THEN << >> ELSE Copied(From(tmp, slash), PathSize)]
  BY DEF parse_url
<1>2. tmp = Url(parts)
  BY CopiedIsWord, WordsOfUrl, SizeAssumption DEF Fits
<1>3. authority = AuthorityPart(parts)
  <2>1. ASSUME slash = 0 PROVE Copied(tmp, HostSize) = AuthorityPart(parts)
    <3>1. Url(parts) = AuthorityPart(parts) /\ parts.path = << >>
      BY <1>2, <2>1, PathParsed
    <3>2. Len(parts.path) = 0 /\ Len(Url(parts)) \in Nat
      BY <3>1, EmptySeq, WordsOfUrl, LenProperties DEF Words
    <3>3. Len(Url(parts)) < HostSize
      BY <3>2, SizeAssumption DEF Fits
    <3>4. Copied(Url(parts), HostSize) = Url(parts)
      BY <3>3, CopiedIsWord, WordsOfUrl, SizeAssumption
    <3> QED BY <1>2, <3>1, <3>4
  <2>2. ASSUME slash # 0 PROVE Authority(tmp) = AuthorityPart(parts)
    BY <1>2, <2>2, PathParsed
  <2> QED BY <2>1, <2>2
<1>4. (IF slash = 0 THEN << >> ELSE Copied(From(tmp, slash), PathSize)) = parts.path
  <2>1. Copied(parts.path, PathSize) = parts.path
    BY CopiedIsWord, PartsAreWords, SizeAssumption DEF Fits
  <2> QED BY <1>2, <2>1, PathParsed
<1> HIDE DEF authority, slash, tmp
<1>5. hostport = parts.host \o PortPart(parts)
  <2>1. CASE parts.user = NoPart
    <3>1. at = 0 /\ authority = parts.host \o PortPart(parts)
      BY <1>3, <2>1, AuthorityParsed
    <3>2. From(authority, 0 + 1) = authority
      <4>1. authority \in Words
        BY <1>3, AuthorityParsed
      <4> QED BY <4>1, SubSeqFull DEF From, Words
    <3> QED BY <3>1, <3>2
  <2>2. CASE parts.user # NoPart
    BY <1>3, <2>2, AuthorityParsed
  <2> QED BY <2>1, <2>2
<1>6. /\ (IF at = 0 THEN Default.user ELSE UserOf(creds)) = Or(parts.user, Default.user)
      /\ (IF at = 0 THEN Default.pass ELSE PassOf(creds)) = Or(parts.pass, Default.pass)
  <2>1. CASE parts.user = NoPart
    <3>1. at = 0 /\ parts.pass = NoPart
      BY <1>3, <2>1, AuthorityParsed DEF PartsOK
    <3> QED BY <2>1, <3>1 DEF Or
  <2>2. CASE parts.user # NoPart
    <3>1. at # 0 /\ creds = Credentials(parts)
      BY <1>3, <2>2, AuthorityParsed
    <3>2. Len(parts.user) < UserSize
      BY <2>2 DEF Fits, Or
    <3>3. /\ UserOf(Credentials(parts)) = parts.user
          /\ PassOf(Credentials(parts)) = Or(parts.pass, Default.pass)
      BY <2>2, <3>2, CredentialsParsed DEF Fits
    <3> HIDE DEF at, creds
    <3> QED BY <2>2, <3>1, <3>3 DEF Or
  <2> QED BY <2>1, <2>2
<1>7. /\ HostOf(hostport) = parts.host
      /\ PortOf(hostport) = Or(parts.port, Default.port)
  BY <1>5, HostPortParsed DEF Fits
<1> HIDE DEF at, creds, hostport
<1> QED BY <1>1, <1>4, <1>6, <1>7, Zenon DEF Asked

(* Every part that fits its array is recovered exactly, with the defaults  *)
(* for those left out, whatever separators the later parts contain.        *)
UrlInv ==
    /\ PartsOK
    /\ pc \in {"decide", "connect"} => /\ url = parse_url(Url(parts))
                                       /\ url # Rejected

THEOREM PartsRecoveredHolds == Spec => []PartsRecovered
<1>1. Init => UrlInv
  BY DEF Init, UrlInv, PartsOK
<1>2. UrlInv /\ [Next]_vars => UrlInv'
  <2> SUFFICES ASSUME UrlInv, [Next]_vars PROVE UrlInv'
    OBVIOUS
  <2>1. CASE Parses
    BY <2>1, Zenon DEF Parses, UrlInv, PartsOK
  <2>2. CASE Decides
    <3>1. UNCHANGED <<parts, url>> /\ pc = "decide"
      BY <2>2 DEF Decides
    <3> QED BY <3>1 DEF UrlInv, PartsOK
  <2>3. CASE UNCHANGED vars
    BY <2>3 DEF vars, UrlInv, PartsOK
  <2> QED BY <2>1, <2>2, <2>3 DEF Next
<1>3. UrlInv => PartsRecovered
  BY UrlIsParsed DEF UrlInv, PartsRecovered, Fits, Asked
<1> QED BY <1>1, <1>2, <1>3, PTL DEF Spec
=============================================================================
