----------------------------- MODULE CableProofs ----------------------------
(***************************************************************************)
(* Proofs about Cable, for every rate and delay and every set of bytes:    *)
(* its types, which keep the positions inside the rings, and that the      *)
(* rings implement the delay lines.                                        *)
(***************************************************************************)
EXTENDS Cable, SequenceTheorems, TLAPS

Entries == Bytes \cup {None}

(***************************************************************************)
(* Positions in a ring of n entries.                                       *)
(***************************************************************************)
LEMMA Around ==
    ASSUME NEW n \in Nat \ {0}, NEW at \in 0..n - 1
    PROVE  /\ \A k \in 0..n : (at + k) % n \in 0..n - 1
           /\ (at + n) % n = at
           /\ \A k \in 1..n - 1 : (at + k) % n # at
           /\ \A k \in 0..n - 1 : (((at + 1) % n) + k) % n = (at + (k + 1)) % n
<1>1. \A x \in Nat : x < n => x % n = x
  OBVIOUS
<1>2. \A x \in Nat : n <= x /\ x < n + n => x % n = x - n
  OBVIOUS
<1>3. \A k \in 0..n : (at + k) % n = IF at + k < n THEN at + k ELSE at + k - n
  BY <1>1, <1>2
<1>4. ASSUME NEW k \in 0..n - 1
      PROVE  (((at + 1) % n) + k) % n = (at + (k + 1)) % n
  <2>1. CASE at + 1 < n
    <3>1. (at + 1) % n = at + 1
      BY <1>1, <2>1
    <3> QED BY <3>1
  <2>2. CASE at + 1 = n
    <3>1. (at + 1) % n = 0
      BY <1>2, <2>2
    <3>2. k % n = k /\ (at + (k + 1)) % n = k
      BY <1>1, <1>2, <2>2
    <3> QED BY <3>1, <3>2
  <2> QED BY <2>1, <2>2
<1>5. \A k \in 0..n : (at + k) % n \in 0..n - 1
  BY <1>3
<1>6. (at + n) % n = at /\ \A k \in 1..n - 1 : (at + k) % n # at
  BY <1>3
<1> QED BY <1>4, <1>5, <1>6

LEMMA BufferNotEmpty ==
    ASSUME NEW delay \in Nat \ {0}, NEW prop \in Nat
    PROVE  bytesInFlight(delay, prop) + 1 \in Nat \ {0}
<1> DEFINE nsec == 1000 * prop
<1>1. nsec \in Nat
  OBVIOUS
<1> HIDE DEF nsec
<1>2. nsec \div delay \in Nat
  BY <1>1
<1> QED BY <1>2 DEF bytesInFlight, nsec

(***************************************************************************)
(* Types.                                                                  *)
(***************************************************************************)
LEMMA SetUpTypes ==
    ASSUME TypeOK, NEW delay \in ByteDelays, NEW prop \in PropDelays \cup {0},
           init_ring_buffers(delay, prop)
    PROVE  /\ bufSize' \in Nat \ {0}
           /\ ring' \in [Dirs -> [0..bufSize' - 1 -> Entries]]
           /\ idx' \in [Dirs -> 0..bufSize' - 1]
<1>1. PICK n \in Nat \ {0} : bufSize' = n
  BY BufferNotEmpty, CableAssumption DEF init_ring_buffers
<1>2. 0 \in 0..n - 1
  BY <1>1
<1> QED BY <1>1, <1>2 DEF init_ring_buffers, Entries

LEMMA ExchangeTypes ==
    ASSUME TypeOK, Exchanges
    PROVE  /\ ring' \in [Dirs -> [0..bufSize - 1 -> Entries]]
           /\ idx' \in [Dirs -> 0..bufSize - 1]
           /\ out' \in [Dirs -> Entries]
           /\ logged' \in {NoLine} \cup [Dirs -> [tx : Entries, rx : Entries]]
<1>1. PICK input \in [Dirs -> Entries] :
         ring' = [d \in Dirs |-> [ring[d] EXCEPT ![idx[d]] = Stored(input[d])]]
  BY DEF Exchanges, Entries
<1>2. \A d \in Dirs : Stored(input[d]) \in Entries
  BY <1>1 DEF Stored, Entries
<1>3. ring' \in [Dirs -> [0..bufSize - 1 -> Entries]]
  BY <1>1, <1>2 DEF TypeOK, Entries
<1>4. idx' \in [Dirs -> 0..bufSize - 1]
  <2>1. bufSize \in Nat \ {0} /\ \A d \in Dirs : idx[d] \in 0..bufSize - 1
    BY DEF TypeOK
  <2>2. \A d \in Dirs : (idx[d] + 1) % bufSize \in 0..bufSize - 1
    BY <2>1
  <2> QED BY <2>2 DEF Exchanges
<1>5. out' \in [Dirs -> Entries]
  BY DEF Exchanges, Entries
<1>6. LogLine \in [Dirs -> [tx : Entries, rx : Entries]]
  <2>1. ASSUME NEW d \in Dirs
        PROVE  /\ ring'[d][idx[d]] \in Entries
               /\ (IF cableOn THEN out'[d] ELSE ring'[d][idx'[d]]) \in Entries
    <3>1. idx[d] \in 0..bufSize - 1 /\ idx'[d] \in 0..bufSize - 1
      BY <1>4 DEF TypeOK
    <3> QED BY <1>3, <1>5, <3>1
  <2> QED BY <2>1 DEF LogLine
<1> QED BY <1>3, <1>4, <1>5, <1>6 DEF Exchanges

(* Whatever is asked of the cable, positions stay within the rings.        *)
THEOREM CableTypeOK == Spec => []TypeOK
<1>1. Init => TypeOK
  <2> SUFFICES ASSUME Init
               PROVE  TypeOK
    OBVIOUS
  <2>1. bufSize = 1 /\ bufSize - 1 = 0 /\ 0..bufSize - 1 = {0}
    BY DEF Init
  <2>2. ring \in [Dirs -> [0..bufSize - 1 -> Entries]] /\ idx \in [Dirs -> 0..bufSize - 1]
    BY <2>1 DEF Init, Entries
  <2>3. cableOn \in BOOLEAN /\ logging \in BOOLEAN
    BY DEF Init
  <2> QED BY <2>1, <2>2, <2>3 DEF Init, TypeOK, Entries
<1>2. ASSUME TypeOK, [Next]_vars
      PROVE  TypeOK'
  <2>1. CASE Exchanges
    BY <1>2, <2>1, ExchangeTypes DEF TypeOK, Exchanges, par, Entries
  <2>2. CASE NoCommand
    BY <1>2, <2>2 DEF TypeOK, NoCommand, Command, par
  <2>3. CASE Switches
    BY <1>2, <2>3 DEF TypeOK, Switches, Command
  <2>4. CASE SetsBer
    BY <1>2, <2>4 DEF TypeOK, SetsBer, Command
  <2>5. CASE SetsBaud
    BY <1>2, <2>5, SetUpTypes DEF TypeOK, SetsBaud, Command, Entries
  <2>6. CASE SetsProp
    BY <1>2, <2>6, SetUpTypes DEF TypeOK, SetsProp, Command, Entries
  <2>7. CASE StartsLog
    BY <1>2, <2>7 DEF TypeOK, StartsLog, Command, par
  <2>8. CASE EndsLog
    BY <1>2, <2>8 DEF TypeOK, EndsLog, Command, par
  <2>9. CASE Quits
    BY <1>2, <2>9 DEF TypeOK, Quits, par
  <2>10. CASE UNCHANGED vars
    BY <1>2, <2>10 DEF TypeOK, vars, par
  <2> QED BY <1>2, <2>1, <2>2, <2>3, <2>4, <2>5, <2>6, <2>7, <2>8, <2>9, <2>10 DEF Next
<1> QED BY <1>1, <1>2, PTL DEF Spec

(***************************************************************************)
(* The rings as delay lines.                                               *)
(***************************************************************************)
(* The places behind the one at a position, and those behind the next one. *)
LEMMA Places ==
    ASSUME NEW n \in Nat \ {0}, NEW at \in 0..n - 1
    PROVE  \E place \in [0..n -> 0..n - 1] :
              /\ \A k \in 0..n : place[k] = (at + k) % n
              /\ place[n] = at /\ place[0] = at /\ \A k \in 1..n - 1 : place[k] # at
              /\ (at + 1) % n = place[1]
              /\ \A k \in 0..n - 1 : (((at + 1) % n) + k) % n = place[k + 1]
<1> DEFINE place == [k \in 0..n |-> (at + k) % n]
<1>1. \A k \in 0..n : place[k] = (at + k) % n /\ place[k] \in 0..n - 1
  BY Around
<1>2. place \in [0..n -> 0..n - 1]
  BY <1>1
<1> HIDE DEF place
<1>3. place[n] = at /\ place[0] = at /\ \A k \in 1..n - 1 : place[k] # at
  <2>1. n \in 0..n /\ 0 \in 0..n /\ \A k \in 1..n - 1 : k \in 0..n
    OBVIOUS
  <2>2. (at + 0) % n = at
    OBVIOUS
  <2>3. ASSUME NEW k \in 1..n - 1
        PROVE  place[k] # at
    <3>1. place[k] = (at + k) % n /\ (at + k) % n # at
      BY <1>1, <2>1, Around
    <3> QED BY <3>1
  <2>4. place[n] = at
    <3>1. place[n] = (at + n) % n /\ (at + n) % n = at
      BY <1>1, <2>1, Around
    <3> QED BY <3>1
  <2>5. place[0] = at
    BY <1>1, <2>1, <2>2
  <2> QED BY <2>3, <2>4, <2>5
<1>4. (at + 1) % n = place[1]
  <2>1. 1 \in 0..n
    OBVIOUS
  <2> QED BY <1>1, <2>1
<1>5. ASSUME NEW k \in 0..n - 1
      PROVE  (((at + 1) % n) + k) % n = place[k + 1]
  <2>1. k + 1 \in 0..n
    OBVIOUS
  <2> QED BY <1>1, <2>1, Around, ZenonT(60)
<1> QED BY <1>1, <1>2, <1>3, <1>4, <1>5

(* The entries of ring r behind the position at, the oldest first.         *)
Flight(r, at, n) == [k \in 1..n - 1 |-> r[(at + k) % n]]

Holds(q, S, r, at, n) == /\ q \in Seq(S) /\ Len(q) = n - 1
                         /\ \A k \in 1..n - 1 : q[k] = r[(at + k) % n]

LEMMA FlightTypes ==
    ASSUME NEW S, NEW n \in Nat \ {0}, NEW at \in 0..n - 1, NEW r \in [0..n - 1 -> S]
    PROVE  Holds(Flight(r, at, n), S, r, at, n)
<1>1. \A k \in 1..n - 1 : (at + k) % n \in 0..n - 1
  BY Around
<1> DEFINE q == Flight(r, at, n)
<1>2. \A k \in 1..n - 1 : q[k] = r[(at + k) % n] /\ q[k] \in S
  BY <1>1 DEF Flight
<1>3. q \in [1..n - 1 -> S]
  BY <1>1 DEF Flight
<1> HIDE DEF q
<1>4. q \in Seq(S) /\ Len(q) = n - 1
  <2>1. n - 1 \in Nat
    OBVIOUS
  <2> QED BY <1>3, <2>1, LenProperties
<1> QED BY <1>2, <1>4 DEF q, Holds

Turned(q, r2, at, at2, n) ==
    Tail(q) = Flight(r2, at2, n) /\ Head(q) = r2[at2] /\ q[Len(q)] = r2[at]

(* A tick of the ring is a tick of the line: the entry read goes in behind *)
(* the others, and the one the index moves to is the oldest.               *)
LEMMA RingTurns ==
    ASSUME NEW S, NEW n \in Nat \ {0}, NEW at \in 0..n - 1, NEW r \in [0..n - 1 -> S],
           NEW entry \in S, NEW r2, r2 = [r EXCEPT ![at] = entry],
           NEW at2, at2 = (at + 1) % n,
           NEW q, q = Append(Flight(r, at, n), entry)
    PROVE  Turned(q, r2, at, at2, n)
<1>1. PICK place \in [0..n -> 0..n - 1] :
              /\ \A k \in 0..n : place[k] = (at + k) % n
              /\ place[n] = at /\ place[0] = at /\ \A k \in 1..n - 1 : place[k] # at
              /\ at2 = place[1]
              /\ \A k \in 0..n - 1 : (at2 + k) % n = place[k + 1]
  <2>1. PICK place \in [0..n -> 0..n - 1] :
              /\ \A k \in 0..n : place[k] = (at + k) % n
              /\ place[n] = at /\ place[0] = at /\ \A k \in 1..n - 1 : place[k] # at
              /\ (at + 1) % n = place[1]
              /\ \A k \in 0..n - 1 : (((at + 1) % n) + k) % n = place[k + 1]
    BY Places, ZenonT(60)
  <2> QED BY <2>1, Zenon
<1>2. r2 \in [0..n - 1 -> S] /\ at2 \in 0..n - 1 /\ r2[at] = entry
      /\ \A i \in 0..n - 1 : i # at => r2[i] = r[i]
  <2>1. 1 \in 0..n
    OBVIOUS
  <2> QED BY <1>1, <2>1
<1> DEFINE old == Flight(r, at, n)
           new == Flight(r2, at2, n)
<1>3. old \in Seq(S) /\ Len(old) = n - 1 /\ \A k \in 1..n - 1 : old[k] = r[place[k]]
  <2>1. \A k \in 1..n - 1 : k \in 0..n
    OBVIOUS
  <2>2. old \in Seq(S) /\ Len(old) = n - 1 /\ \A k \in 1..n - 1 : old[k] = r[(at + k) % n]
    <3>1. Holds(old, S, r, at, n)
      BY FlightTypes
    <3> QED BY <3>1 DEF Holds
  <2> HIDE DEF old
  <2> QED BY <1>1, <2>1, <2>2
<1>4. new \in Seq(S) /\ Len(new) = n - 1 /\ \A k \in 1..n - 1 : new[k] = r2[place[k + 1]]
  <2>1. \A k \in 1..n - 1 : k \in 0..n - 1
    OBVIOUS
  <2>2. new \in Seq(S) /\ Len(new) = n - 1 /\ \A k \in 1..n - 1 : new[k] = r2[(at2 + k) % n]
    <3>1. Holds(new, S, r2, at2, n)
      BY <1>2, FlightTypes
    <3> QED BY <3>1 DEF Holds
  <2> HIDE DEF new
  <2> QED BY <1>1, <2>1, <2>2
<1> HIDE DEF old, new
<1>5. q \in Seq(S) /\ Len(q) = n /\ q[n] = entry /\ \A k \in 1..n - 1 : q[k] = old[k]
  <2>1. q = Append(old, entry)
    BY DEF old
  <2> QED BY <1>3, <2>1, AppendProperties
<1>6. ASSUME NEW k \in 1..n
      PROVE  q[k] = r2[place[k]]
  <2>1. CASE k = n
    BY <1>1, <1>2, <1>5, <2>1
  <2>2. CASE k # n
    <3>1. k \in 1..n - 1 /\ k \in 0..n
      BY <2>2
    <3> QED BY <1>1, <1>2, <1>3, <1>5, <3>1
  <2> QED BY <2>1, <2>2
<1>7. q # << >>
  BY <1>5
<1>8. Head(q) = r2[at2]
  <2>1. Head(q) = q[1] /\ 1 \in 1..n
    BY <1>5, <1>7
  <2> QED BY <1>1, <1>6, <2>1
<1>9. Tail(q) = new
  <2>1. /\ Tail(q) \in Seq(S) /\ Len(Tail(q)) = n - 1
        /\ \A k \in 1..n - 1 : Tail(q)[k] = q[k + 1]
    BY <1>5, <1>7, HeadTailProperties, ZenonT(60)
  <2>2. ASSUME NEW k \in 1..n - 1
        PROVE  Tail(q)[k] = new[k]
    <3>1. k + 1 \in 1..n
      OBVIOUS
    <3> QED BY <1>4, <1>6, <2>1, <3>1
  <2> QED BY <1>4, <2>1, <2>2, SeqEqual
<1> QED BY <1>2, <1>5, <1>8, <1>9 DEF new, Turned

LEMMA ClearFlight ==
    ASSUME NEW n \in Nat \ {0}, NEW at \in 0..n - 1, NEW r,
           r = [i \in 0..n - 1 |-> None]
    PROVE  /\ Len(Flight(r, at, n)) = n - 1
           /\ \A i \in DOMAIN Flight(r, at, n) : Flight(r, at, n)[i] = None
<1>1. \A k \in 1..n - 1 : (at + k) % n \in 0..n - 1
  BY Around
<1>2. r \in [0..n - 1 -> {None}]
  OBVIOUS
<1>3. Holds(Flight(r, at, n), {None}, r, at, n)
  BY <1>2, FlightTypes
<1>4. \A i \in DOMAIN Flight(r, at, n) : Flight(r, at, n)[i] = None
  BY <1>1 DEF Flight
<1> QED BY <1>3, <1>4 DEF Holds

(***************************************************************************)
(* The cable implements DelayLine.                                         *)
(***************************************************************************)
LEMMA ExchangeTicks ==
    ASSUME TypeOK, TypeOK', Exchanges
    PROVE  Line!Tick
<1>1. PICK input \in [Dirs -> Entries] :
         ring' = [d \in Dirs |-> [ring[d] EXCEPT ![idx[d]] = Stored(input[d])]]
  BY DEF Exchanges, Entries
<1> DEFINE entered == [d \in Dirs |-> Append(InFlight(d), Stored(input[d]))]
<1>2. ASSUME NEW d \in Dirs
      PROVE  /\ Tail(entered[d]) = InFlight(d)' /\ Head(entered[d]) = ring'[d][idx'[d]]
             /\ entered[d][Len(entered[d])] = ring'[d][idx[d]]
  <2>1. /\ bufSize \in Nat \ {0} /\ idx[d] \in 0..bufSize - 1 /\ bufSize' = bufSize
        /\ ring[d] \in [0..bufSize - 1 -> Entries] /\ Stored(input[d]) \in Entries
    BY <1>1 DEF TypeOK, Entries, Stored, Exchanges, par
  <2>2. /\ ring'[d] = [ring[d] EXCEPT ![idx[d]] = Stored(input[d])]
        /\ idx'[d] = (idx[d] + 1) % bufSize
    BY <1>1 DEF Exchanges
  <2>3. entered[d] = Append(Flight(ring[d], idx[d], bufSize), Stored(input[d]))
    BY DEF InFlight, Flight
  <2>4. InFlight(d)' = Flight(ring'[d], idx'[d], bufSize)
    BY <2>1 DEF InFlight, Flight
  <2> HIDE DEF entered
  <2>5. /\ Tail(entered[d]) = Flight(ring'[d], idx'[d], bufSize)
        /\ Head(entered[d]) = ring'[d][idx'[d]]
        /\ entered[d][Len(entered[d])] = ring'[d][idx[d]]
    <3>1. \A r2, at2, q :
             /\ r2 = [ring[d] EXCEPT ![idx[d]] = Stored(input[d])] /\ at2 = (idx[d] + 1) % bufSize
             /\ q = Append(Flight(ring[d], idx[d], bufSize), Stored(input[d]))
             => Turned(q, r2, idx[d], at2, bufSize)
      BY <2>1, RingTurns
    <3>2. Turned(entered[d], ring'[d], idx[d], idx'[d], bufSize)
      BY <2>2, <2>3, <3>1, Zenon
    <3> QED BY <3>2 DEF Turned
  <2> QED BY <2>4, <2>5
<1>3. entered = [d \in Dirs |-> Append([dd \in Dirs |-> InFlight(dd)][d],
                                       IF cableOn THEN input[d] ELSE None)]
  BY DEF Stored
<1> HIDE DEF entered
<1>4. [d \in Dirs |-> InFlight(d)'] = [d \in Dirs |-> Tail(entered[d])]
  BY <1>2
<1>5. out' \in [Dirs -> Entries] /\ \A d \in Dirs : out'[d] \in Line!Leaving(Head(entered[d]))
  BY <1>2 DEF Exchanges, Written, Line!Leaving, Entries
<1>6. logged' = IF logging THEN Line!Told(entered) ELSE << >>
  <2>1. LogLine = Line!Told(entered)
    BY <1>2 DEF LogLine, Line!Told
  <2> QED BY <2>1 DEF Exchanges, NoLine
<1>7. UNCHANGED <<byteDelay, 1000 * propDelay, cableOn, byteER # "zero", logging>>
  BY DEF Exchanges, par
<1> QED BY <1>1, <1>3, <1>4, <1>5, <1>6, <1>7 DEF Line!Tick, Entries

(* Whole ticks, and one more for more than half of one: the nearest number *)
(* of ticks, and the smaller of two that are equally near.                 *)
LEMMA Rounds ==
    ASSUME NEW delay \in Nat \ {0}, NEW prop \in Nat,
           NEW n, n = bytesInFlight(delay, prop)
    PROVE  /\ 2 * (n * delay) < 2 * (1000 * prop) + delay
           /\ 2 * (1000 * prop) <= 2 * (n * delay) + delay
<1> DEFINE nsec == 1000 * prop
           q == nsec \div delay
           r == nsec % delay
<1>1. nsec \in Nat
  OBVIOUS
<1>2. n = q + (IF r > delay \div 2 THEN 1 ELSE 0)
  BY DEF bytesInFlight
<1>3. nsec = 1000 * prop
  OBVIOUS
<1> HIDE DEF nsec
<1>4. q \in Nat /\ r \in 0..delay - 1 /\ nsec = delay * q + r
  BY <1>1
<1> HIDE DEF q, r
<1>5. CASE r > delay \div 2
  <2>1. n = q + 1 /\ n * delay = delay * q + delay
    BY <1>2, <1>4, <1>5
  <2>2. 2 * r > delay
    BY <1>4, <1>5
  <2> DEFINE m == delay * q
  <2>3. m \in Nat /\ n * delay = m + delay /\ nsec = m + r
    BY <1>4, <2>1
  <2> HIDE DEF m
  <2> QED BY <1>3, <1>4, <2>2, <2>3
<1>6. CASE ~(r > delay \div 2)
  <2>1. n = q /\ n * delay = delay * q
    BY <1>2, <1>4, <1>6
  <2>2. 2 * r <= delay
    BY <1>4, <1>6
  <2> DEFINE m == delay * q
  <2>3. m \in Nat /\ n * delay = m /\ nsec = m + r
    BY <1>4, <2>1
  <2> HIDE DEF m
  <2> QED BY <1>3, <1>4, <2>2, <2>3
<1> QED BY <1>5, <1>6

(* What the commands do to the rings: nothing, or set them up anew, as     *)
(* long as the delay asked for takes.                                      *)
LEMMA SetUpClears ==
    ASSUME TypeOK, NEW delay \in ByteDelays, NEW prop \in PropDelays \cup {0},
           init_ring_buffers(delay, prop)
    PROVE  /\ Line!Clear([d \in Dirs |-> InFlight(d)'])
           /\ Line!Fits([d \in Dirs |-> InFlight(d)'], delay, 1000 * prop)
<1>0. delay \in Nat \ {0} /\ prop \in Nat
  BY CableAssumption
<1>1. PICK n \in Nat \ {0} : bufSize' = n /\ n = bytesInFlight(delay, prop) + 1
  BY <1>0, BufferNotEmpty DEF init_ring_buffers
<1>2. ASSUME NEW d \in Dirs
      PROVE  /\ Len(InFlight(d)') = n - 1
             /\ \A i \in DOMAIN InFlight(d)' : (InFlight(d)')[i] = None
  <2> DEFINE r == [i \in 0..n - 1 |-> None]
  <2>1. InFlight(d)' = Flight(r, 0, n)
    BY <1>1 DEF InFlight, Flight, init_ring_buffers
  <2>2. 0 \in 0..n - 1
    OBVIOUS
  <2> HIDE DEF r
  <2>3. r = [i \in 0..n - 1 |-> None]
    BY DEF r
  <2>4. /\ Len(Flight(r, 0, n)) = n - 1
        /\ \A i \in DOMAIN Flight(r, 0, n) : Flight(r, 0, n)[i] = None
    BY <2>2, <2>3, ClearFlight
  <2> QED BY <2>1, <2>4
<1>3. n - 1 = bytesInFlight(delay, prop)
  <2>1. bytesInFlight(delay, prop) \in Int
    BY <1>0 DEF bytesInFlight
  <2> QED BY <1>1, <2>1
<1>4. /\ 2 * ((n - 1) * delay) < 2 * (1000 * prop) + delay
      /\ 2 * (1000 * prop) <= 2 * ((n - 1) * delay) + delay
  BY <1>0, <1>3, Rounds
<1> QED BY <1>2, <1>4 DEF Line!Clear, Line!Fits

LEMMA CableInitRefines == Init => Line!Init
<1> SUFFICES ASSUME Init
             PROVE  Line!Init
  OBVIOUS
<1>1. ASSUME NEW d \in Dirs
      PROVE  /\ Len(InFlight(d)) = 0
             /\ \A i \in DOMAIN InFlight(d) : InFlight(d)[i] = None
  <2> DEFINE r == [i \in 0..1 - 1 |-> None]
  <2>1. InFlight(d) = Flight(r, 0, 1)
    BY DEF Init, InFlight, Flight
  <2> HIDE DEF r
  <2>2. r = [i \in 0..1 - 1 |-> None] /\ 0 \in 0..1 - 1 /\ 1 \in Nat \ {0} /\ 1 - 1 = 0
    BY DEF r
  <2>3. /\ Len(Flight(r, 0, 1)) = 1 - 1
        /\ \A i \in DOMAIN Flight(r, 0, 1) : Flight(r, 0, 1)[i] = None
    BY <2>2, ClearFlight
  <2> QED BY <2>1, <2>2, <2>3
<1>2. Line!Clear([d \in Dirs |-> InFlight(d)])
  BY <1>1 DEF Line!Clear
<1>3. byteDelay \in Nat \ {0} /\ propDelay = 0
  BY CableAssumption DEF Init
<1>4. Line!Fits([d \in Dirs |-> InFlight(d)], byteDelay, 1000 * propDelay)
  BY <1>1, <1>3 DEF Line!Fits
<1> QED BY <1>2, <1>4 DEF Init, Line!Init, NoLine

(* No byte overtakes another, comes twice or comes back, for every rate    *)
(* and delay: every step of the cable is one of the delay lines, or        *)
(* changes nothing of them.                                                *)
THEOREM CableRefinement == Spec => ImplementsDelayLine
<1>1. TypeOK /\ TypeOK' /\ [Next]_vars => [Line!Next]_Line!dlVars
  <2> SUFFICES ASSUME TypeOK, TypeOK', [Next]_vars
               PROVE  Line!Next \/ UNCHANGED Line!dlVars
    OBVIOUS
  <2>0. UNCHANGED <<ring, idx, bufSize>> =>
           [d \in Dirs |-> InFlight(d)'] = [d \in Dirs |-> InFlight(d)]
    BY DEF InFlight
  <2>1. CASE Exchanges
    BY <2>1, ExchangeTicks DEF Line!Next
  <2>2. CASE NoCommand \/ Quits \/ UNCHANGED vars
    BY <2>0, <2>2 DEF NoCommand, Command, Quits, vars, par, Line!dlVars
  <2>3. CASE Switches
    BY <2>0, <2>3 DEF Switches, Command, par, Line!Next, Line!Switch
  <2>4. CASE SetsBer
    <3>1. (byteER' # "zero") \in BOOLEAN
      OBVIOUS
    <3> QED BY <2>0, <2>4, <3>1 DEF SetsBer, Command, Line!Next, Line!Noise
  <2>5. CASE SetsBaud
    <3>1. /\ Line!Clear([d \in Dirs |-> InFlight(d)'])
          /\ Line!Fits([d \in Dirs |-> InFlight(d)'], byteDelay', 1000 * propDelay')
      <4>1. /\ byteDelay' \in ByteDelays /\ propDelay \in PropDelays \cup {0}
            /\ propDelay' = propDelay /\ init_ring_buffers(byteDelay', propDelay)
        BY <2>5 DEF SetsBaud, TypeOK
      <4>2. PICK delay \in ByteDelays : delay = byteDelay' /\ init_ring_buffers(delay, propDelay)
        BY <4>1
      <4>3. /\ Line!Clear([d \in Dirs |-> InFlight(d)'])
            /\ Line!Fits([d \in Dirs |-> InFlight(d)'], delay, 1000 * propDelay)
        BY <4>1, <4>2, SetUpClears
      <4> QED BY <4>1, <4>2, <4>3
    <3> QED BY <2>5, <3>1 DEF SetsBaud, Command, Line!Next, Line!SetUp
  <2>6. CASE SetsProp
    <3>1. /\ Line!Clear([d \in Dirs |-> InFlight(d)'])
          /\ Line!Fits([d \in Dirs |-> InFlight(d)'], byteDelay', 1000 * propDelay')
      <4>1. /\ byteDelay \in ByteDelays /\ propDelay' \in PropDelays \cup {0}
            /\ byteDelay' = byteDelay /\ init_ring_buffers(byteDelay, propDelay')
        BY <2>6 DEF SetsProp, TypeOK
      <4> QED BY <4>1, SetUpClears
    <3> QED BY <2>6, <3>1 DEF SetsProp, Command, Line!Next, Line!SetUp
  <2>7. CASE StartsLog
    BY <2>0, <2>7 DEF StartsLog, Command, par, Line!Next, Line!Log
  <2>8. CASE EndsLog
    BY <2>0, <2>8 DEF EndsLog, Command, par, Line!Next, Line!Log
  <2> QED BY <2>1, <2>2, <2>3, <2>4, <2>5, <2>6, <2>7, <2>8 DEF Next
<1> QED BY <1>1, CableInitRefines, CableTypeOK, PTL DEF Spec, ImplementsDelayLine, Line!Spec
=============================================================================
