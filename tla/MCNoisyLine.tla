----------------------------- MODULE MCNoisyLine ----------------------------
(* Payload bytes that matter to the framing: zero, the address, FLAG, ESC, *)
(* one bit away from each of them, and the byte a stuffed FLAG shows.      *)
EXTENDS NoisyLine
MCAlphabet == {{}, A_fromT, FLAG, ESC, Xor(FLAG, {0}), Xor(ESC, {4}), Xor(FLAG, {5})}
=============================================================================
