-------------------------------- MODULE Cable -------------------------------
(***************************************************************************)
(* The loop of cable.c: one byte per direction and tick through two ring   *)
(* buffers, then one command from the keyboard.  The pacing of the loop is *)
(* in CablePacing.  An entry of a ring is the byte read, or None when its  *)
(* valid flag is off.  The log is a line per tick; that the lines of an    *)
(* idle cable are joined into one, and its headings, are left out.         *)
(***************************************************************************)
EXTENDS Naturals, Sequences

CONSTANTS Bytes, None,
          ByteDelays,  \* nanoseconds per byte of the baud rates in use
          PropDelays   \* delays asked for with prop, in microseconds

ASSUME CableAssumption == /\ None \notin Bytes
                          /\ ByteDelays \subseteq Nat \ {0} /\ PropDelays \subseteq Nat

VARIABLES pc,         \* exchange, command or stopped: the place in the loop
          cableOn,
          byteER,     \* zero, set (0 < ber < 1) or bad (any other number)
          byteDelay, propDelay, bufSize,
          ring, idx,  \* par.tx2rx, par.rx2tx, their flags and indices
          out,        \* what the last tick wrote to either port
          logging,    \* par.logfile is open
          logged      \* the line of the last tick, for each direction what
                      \* came in and what went out; NoLine without a log
par  == <<cableOn, byteER, byteDelay, propDelay, bufSize>>
vars == <<pc, par, ring, idx, out, logging, logged>>

Dirs   == {"tx2rx", "rx2tx"}
NoLine == << >>

TypeOK == /\ pc \in {"exchange", "command", "stopped"}
          /\ cableOn \in BOOLEAN /\ byteER \in {"zero", "set", "bad"}
          /\ byteDelay \in ByteDelays /\ propDelay \in PropDelays \cup {0}
          /\ bufSize \in Nat \ {0}
          /\ ring \in [Dirs -> [0..bufSize - 1 -> Bytes \cup {None}]]
          /\ idx \in [Dirs -> 0..bufSize - 1]
          /\ out \in [Dirs -> Bytes \cup {None}]
          /\ logging \in BOOLEAN
          /\ logged \in {NoLine} \cup [Dirs -> [tx : Bytes \cup {None}, rx : Bytes \cup {None}]]

(* init_ring_buffers: the delay in bytes, rounded. *)
bytesInFlight(delay, prop) ==
    LET nsec == 1000 * prop
    IN  nsec \div delay + IF nsec % delay > delay \div 2 THEN 1 ELSE 0

init_ring_buffers_keeping_idx(delay, prop) == \* mutant: the indices are not reset
    /\ bufSize' = bytesInFlight(delay, prop) + 1
    /\ ring' = [d \in Dirs |-> [i \in 0..bufSize' - 1 |-> None]]
    /\ UNCHANGED idx

init_ring_buffers(delay, prop) ==
    /\ bufSize' = bytesInFlight(delay, prop) + 1
    /\ ring' = [d \in Dirs |-> [i \in 0..bufSize' - 1 |-> None]]
    /\ idx' = [d \in Dirs |-> 0]

(* set_baud_rate(DEFAULT_BAUDRATE), whichever of the rates that is. *)
Init == /\ pc = "exchange" /\ cableOn = TRUE /\ byteER = "zero"
        /\ byteDelay \in ByteDelays /\ propDelay = 0 /\ bufSize = 1
        /\ ring = [d \in Dirs |-> [i \in {0} |-> None]]
        /\ idx = [d \in Dirs |-> 0] /\ out = [d \in Dirs |-> None]
        /\ logging = FALSE /\ logged = NoLine

(* read() of a port, forgotten while the cable is off. *)
StoredAlways(byte) == byte  \* mutant: the flags are not cleared
Stored(byte) == IF cableOn THEN byte ELSE None

(* write() to the other port, after the noise. *)
Written(entry) == IF ~cableOn \/ entry = None THEN {None}
                  ELSE IF byteER = "zero" THEN {entry} ELSE Bytes

(* What goes out is logged with its noise; while the cable is off it is    *)
(* logged and not written.                                                 *)
LogLine == [d \in Dirs |-> [tx |-> ring'[d][idx[d]],
                            rx |-> IF cableOn THEN out'[d] ELSE ring'[d][idx'[d]]]]

Exchanges ==
    /\ pc = "exchange" /\ pc' = "command"
    /\ \E input \in [Dirs -> Bytes \cup {None}] :
          ring' = [d \in Dirs |-> [ring[d] EXCEPT ![idx[d]] = Stored(input[d])]]
    /\ idx' = [d \in Dirs |-> (idx[d] + 1) % bufSize]
    /\ out' \in {o \in [Dirs -> Bytes \cup {None}] :
                   \A d \in Dirs : o[d] \in Written(ring'[d][idx'[d]])}
    /\ logged' = IF logging THEN LogLine ELSE NoLine
    /\ UNCHANGED <<par, logging>>

(* The command of this turn of the loop. *)
Command == pc = "command" /\ pc' = "exchange" /\ UNCHANGED <<out, logged>>

NoCommand == Command /\ UNCHANGED <<par, ring, idx, logging>>

Switches == /\ Command
            /\ cableOn' \in BOOLEAN
            /\ UNCHANGED <<byteER, byteDelay, propDelay, bufSize, ring, idx, logging>>

(* ber: the rate is set before the value is looked at. *)
SetsBer == /\ Command
           /\ byteER' \in {"zero", "set", "bad"}
           /\ UNCHANGED <<cableOn, byteDelay, propDelay, bufSize, ring, idx, logging>>

SetsBaud == /\ Command
            /\ byteDelay' \in ByteDelays
            /\ init_ring_buffers(byteDelay', propDelay)
            /\ UNCHANGED <<cableOn, byteER, propDelay, logging>>

SetsProp == /\ Command
            /\ propDelay' \in PropDelays
            /\ init_ring_buffers(byteDelay, propDelay')
            /\ UNCHANGED <<cableOn, byteER, byteDelay, logging>>

(* log: an open log is closed first, and the new one may not open; then    *)
(* there is none.                                                          *)
StartsLog == /\ Command
             /\ logging' \in BOOLEAN
             /\ UNCHANGED <<par, ring, idx>>

EndsLog == /\ Command
           /\ logging' = FALSE
           /\ UNCHANGED <<par, ring, idx>>

Quits == /\ pc = "command" /\ pc' = "stopped"
         /\ UNCHANGED <<par, ring, idx, out, logging, logged>>

Next == \/ Exchanges \/ NoCommand \/ Switches \/ SetsBer \/ SetsBaud \/ SetsProp
        \/ StartsLog \/ EndsLog \/ Quits

Spec == Init /\ [][Next]_vars

(***************************************************************************)
(* Properties.                                                             *)
(***************************************************************************)
(* The entries that have not been written, the oldest first: they follow   *)
(* the index, which rests on the one written last.                         *)
InFlight(d) == [k \in 1..bufSize - 1 |-> ring[d][(idx[d] + k) % bufSize]]

Line == INSTANCE DelayLine WITH
          byteTime <- byteDelay,
          delay <- 1000 * propDelay,
          line  <- [d \in Dirs |-> InFlight(d)],
          on    <- cableOn,
          noisy <- byteER # "zero"

(* The rings are delay lines: no byte overtakes another, comes twice, is   *)
(* held for longer or shorter than the delay asked for (to the nearest     *)
(* tick, after every change of the rate or the delay), comes back after    *)
(* the rings were set up anew or was read while the cable was off; and the *)
(* log tells what went in and came out, to which it adds only what was     *)
(* lost because the cable was off when it should have come out.            *)
ImplementsDelayLine == Line!Spec

(* A bit error rate that is answered with "BAD BER VALUE ... (MUST BE 0 <= *)
(* BER < 1.0)" is not taken.                                               *)
BadBerIsNotTaken == byteER # "bad"
=============================================================================
