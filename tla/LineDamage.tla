----------------------------- MODULE LineDamage -----------------------------
(***************************************************************************)
(* What the cable may do to a run of bytes: nothing, invert one bit of one *)
(* byte (addNoise), or lose some bytes in a row (while it is off).         *)
(***************************************************************************)
EXTENDS SerialFrames

NoDamage == [kind |-> "none"]
Flips(bytes) == [kind : {"flip"}, at : 1..Len(bytes), bit : 0..7]
Losses(bytes) == {d \in [kind : {"loss"}, from : 1..Len(bytes), to : 1..Len(bytes)] :
                    d.from <= d.to}
Damages(bytes) == {NoDamage} \cup Flips(bytes) \cup Losses(bytes)

Carried(bytes, d) ==
    CASE d.kind = "none" -> bytes
      [] d.kind = "flip" -> [bytes EXCEPT ![d.at] = Xor(@, {d.bit})]
      [] d.kind = "loss" -> SubSeq(bytes, 1, d.from - 1) \o SubSeq(bytes, d.to + 1, Len(bytes))

(* The places of the bytes that do not arrive as they were sent. *)
Hit(d) == CASE d.kind = "none" -> {}
            [] d.kind = "flip" -> {d.at}
            [] d.kind = "loss" -> d.from..d.to
=============================================================================
