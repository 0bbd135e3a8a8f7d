------------------------------ MODULE RingBuffer ------------------------------
(***************************************************************************)
(* The byte ring buffer of the firmware (components/ring_buffer), which    *)
(* ADR-002 plans as the staging area of the RS-485 receiver.  One thread   *)
(* uses it at a time; a capacity of 0 is legal.                            *)
(***************************************************************************)
EXTENDS Naturals, Sequences

CONSTANTS Byte,     \* what a byte can be
          Cap,      \* size of the storage
          Inputs,   \* the byte sequences a caller may push
          Lens      \* the lengths a caller may ask for

ASSUME RingBufferAssumption ==
    /\ Cap \in Nat
    /\ Inputs \subseteq Seq(Byte)
    /\ Lens \subseteq Nat

VARIABLES buf,      \* the storage
          head,     \* where the next byte goes
          tail,     \* where the oldest byte is
          count,    \* bytes stored
          given,    \* the bytes the last call pushed, if it was rb_push
          wanted,   \* the length it asked for, if it was rb_pop
          out,      \* the bytes it copied out
          moved     \* the length it returned

vars == <<buf, head, tail, count, given, wanted, out, moved>>

Lesser(m, n) == IF m < n THEN m ELSE n

(* rb_init: the storage holds whatever the caller left in it. *)
Init == /\ buf \in [0..(Cap - 1) -> Byte]
        /\ head = 0 /\ tail = 0 /\ count = 0
        /\ given = <<>> /\ wanted = 0 /\ out = <<>> /\ moved = 0

(* A move of n bytes takes two spans if it reaches the end of the storage:  *)
(* this many come first, the rest goes on from 0.                           *)
FirstSpan(from, n) == Lesser(n, Cap - from)

Unwrapped(i, n) == i + n
Advance(i, n) == (i + n) % Cap

RestartsInput(data, n) ==
    LET first == FirstSpan(head, n) IN
    [i \in 0..(Cap - 1) |->
        IF head <= i /\ i < head + first THEN data[i - head + 1]
        ELSE IF i < n - first THEN data[i + 1] ELSE buf[i]]

(* What the two memcpy of rb_push leave in the storage. *)
Written(data, n) ==
    LET first == FirstSpan(head, n) IN
    [i \in 0..(Cap - 1) |->
        IF head <= i /\ i < head + first THEN data[i - head + 1]
        ELSE IF i < n - first THEN data[first + i + 1] ELSE buf[i]]

(* What the two memcpy of rb_pop copy out. *)
Copied(n) ==
    LET first == FirstSpan(tail, n) IN
    [k \in 1..n |-> IF k <= first THEN buf[tail + k - 1] ELSE buf[k - first - 1]]

Push(data) ==
    LET n == Lesser(Len(data), Cap - count) IN
    /\ given' = data /\ wanted' = 0 /\ out' = <<>>
    /\ moved' = n
    /\ IF n = 0 THEN UNCHANGED <<buf, head, count>>
       ELSE /\ buf' = Written(data, n)
            /\ head' = Advance(head, n)
            /\ count' = count + n
    /\ UNCHANGED tail

Pop(len) ==
    LET n == Lesser(len, count) IN
    /\ given' = <<>> /\ wanted' = len /\ out' = Copied(n)
    /\ moved' = n
    /\ IF n = 0 THEN UNCHANGED <<tail, count>>
       ELSE /\ tail' = Advance(tail, n)
            /\ count' = count - n
    /\ UNCHANGED <<buf, head>>

Reset == /\ head' = 0 /\ tail' = 0 /\ count' = 0
         /\ given' = <<>> /\ wanted' = 0 /\ out' = <<>> /\ moved' = 0
         /\ UNCHANGED buf

Next == \/ \E data \in Inputs : Push(data)
        \/ \E len \in Lens : Pop(len)
        \/ Reset

Spec == Init /\ [][Next]_vars

-----------------------------------------------------------------------------
(* The place k bytes after i in the storage. *)
Slot(i, k) == IF i + k < Cap THEN i + k ELSE i + k - Cap

(* head, tail and count stay in the storage and agree: head is count bytes  *)
(* after tail.  Full and empty, where head meets tail, differ by the count. *)
Consistent ==
    /\ buf \in [0..(Cap - 1) -> Byte]
    /\ count \in 0..Cap
    /\ IF Cap = 0 THEN head = 0 /\ tail = 0
       ELSE head \in 0..(Cap - 1) /\ tail \in 0..(Cap - 1) /\ head = Slot(tail, count)

Contents == [k \in 1..count |-> buf[Slot(tail, k - 1)]]

F == INSTANCE BoundedFifo WITH fifo <- Contents

(* The buffer is a bounded FIFO, across every wrap of head and tail         *)
(* (ring_buffer.h).                                                         *)
IsBoundedFifo == F!Spec
=============================================================================
