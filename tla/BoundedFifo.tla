----------------------------- MODULE BoundedFifo -----------------------------
(***************************************************************************)
(* What ring_buffer.h promises: a byte FIFO of bounded capacity.  A push   *)
(* stores as many bytes as fit, from the front of what it is given, and a  *)
(* pop takes the oldest bytes; both say how many they moved.               *)
(***************************************************************************)
EXTENDS Naturals, Sequences

CONSTANTS Cap,      \* capacity
          Inputs,   \* the byte sequences a caller may push
          Lens      \* the lengths a caller may ask for

VARIABLES fifo,     \* the bytes stored, oldest first
          given,    \* the bytes the last call pushed, if it was a push
          wanted,   \* the length it asked for, if it was a pop
          out,      \* the bytes it took out
          moved     \* the length it returned

vars == <<fifo, given, wanted, out, moved>>

Lesser(m, n) == IF m < n THEN m ELSE n

NoCall == given = <<>> /\ wanted = 0 /\ out = <<>> /\ moved = 0

Init == fifo = <<>> /\ NoCall

Push(data) == LET n == Lesser(Len(data), Cap - Len(fifo)) IN
              /\ fifo' = fifo \o SubSeq(data, 1, n)
              /\ given' = data /\ wanted' = 0 /\ out' = <<>>
              /\ moved' = n

Pop(len) == LET n == Lesser(len, Len(fifo)) IN
            /\ fifo' = SubSeq(fifo, n + 1, Len(fifo))
            /\ given' = <<>> /\ wanted' = len /\ out' = SubSeq(fifo, 1, n)
            /\ moved' = n

Reset == fifo' = <<>> /\ NoCall'

Next == \/ \E data \in Inputs : Push(data)
        \/ \E len \in Lens : Pop(len)
        \/ Reset

Spec == Init /\ [][Next]_vars
=============================================================================
