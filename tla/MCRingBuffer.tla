----------------------------- MODULE MCRingBuffer -----------------------------
(* Every input of up to one byte more than the buffer holds. *)
EXTENDS RingBuffer

MCInputs == UNION {[1..n -> Byte] : n \in 0..(Cap + 1)}
MCLens == 0..(Cap + 1)
=============================================================================
