----------------------------- MODULE DelayLine ------------------------------
(***************************************************************************)
(* What the virtual cable promises: in each direction a byte, or nothing,  *)
(* enters at every tick and leaves unchanged, in the same order, a fixed   *)
(* number of ticks later, the nearest to the delay asked for, unless the   *)
(* cable is off at either of the two moments, is set up anew in between,   *)
(* or is noisy.                                                            *)
(***************************************************************************)
EXTENDS Naturals, Sequences

CONSTANTS Dirs, Bytes, None  \* directions; bytes; no byte

VARIABLES byteTime, delay, \* the time of a tick and the delay asked for
          line,   \* what is in flight, one entry per tick, the oldest first
          out,    \* what left at the last tick
          on, noisy,
          logging,
          logged \* what the log tells of the last tick, if it is kept
dlVars == <<byteTime, delay, line, out, on, noisy, logging, logged>>

(* Nothing in flight; the two directions are equally long. *)
Clear(l) == /\ \A d, e \in Dirs : Len(l[d]) = Len(l[e])
            /\ \A d \in Dirs : \A i \in DOMAIN l[d] : l[d][i] = None

(* As many entries as ticks make up the delay, give or take half a tick.   *)
Fits(l, tick, wanted) == \A d \in Dirs : /\ 2 * (Len(l[d]) * tick) < 2 * wanted + tick
                                         /\ 2 * wanted <= 2 * (Len(l[d]) * tick) + tick

(* A byte may be any other one when it leaves a noisy cable. *)
Leaving(entry) == IF ~on \/ entry = None THEN {None}
                  ELSE IF noisy THEN Bytes ELSE {entry}

(* The log of a tick: what entered and what left, or, while the cable is   *)
(* off, what would have left.                                              *)
Told(entered) == [d \in Dirs |-> [tx |-> entered[d][Len(entered[d])],
                                  rx |-> IF on THEN out'[d] ELSE Head(entered[d])]]

Tick == \E input \in [Dirs -> Bytes \cup {None}] :
          LET entered == [d \in Dirs |-> Append(line[d], IF on THEN input[d] ELSE None)]
          IN  /\ line' = [d \in Dirs |-> Tail(entered[d])]
              /\ out' \in [Dirs -> Bytes \cup {None}]
              /\ \A d \in Dirs : out'[d] \in Leaving(Head(entered[d]))
              /\ logged' = IF logging THEN Told(entered) ELSE << >>
              /\ UNCHANGED <<byteTime, delay, on, noisy, logging>>

Switch == on' \in BOOLEAN /\ UNCHANGED <<byteTime, delay, line, out, noisy, logging, logged>>
Noise  == noisy' \in BOOLEAN /\ UNCHANGED <<byteTime, delay, line, out, on, logging, logged>>
SetUp  == /\ Clear(line') /\ Fits(line', byteTime', delay')
          /\ UNCHANGED <<out, on, noisy, logging, logged>>
Log    == logging' \in BOOLEAN /\ UNCHANGED <<byteTime, delay, line, out, on, noisy, logged>>

Init == /\ Clear(line) /\ Fits(line, byteTime, delay)
        /\ out = [d \in Dirs |-> None] /\ on = TRUE /\ noisy = FALSE
        /\ logging = FALSE /\ logged = << >>
Next == Tick \/ Switch \/ Noise \/ SetUp \/ Log

Spec == Init /\ [][Next]_dlVars
=============================================================================
