--------------------------- MODULE RingBufferProofs ---------------------------
(* Proofs that RingBuffer is a bounded FIFO, for every capacity. *)
EXTENDS RingBuffer, TLAPS, SequenceTheorems

(* % needs at most one subtraction for the sums the buffer forms. *)
LEMMA ModOnce ==
    ASSUME NEW c \in Nat \ {0}, NEW x \in Nat, x < 2 * c
    PROVE  /\ x < c => x % c = x
           /\ ~(x < c) => x % c = x - c
<1>1. CASE x < c
  BY <1>1, SMT
<1>2. CASE ~(x < c)
  <2>1. x = c * 1 + (x - c) /\ x - c \in 0..(c - 1)
    BY <1>2
  <2> QED
    BY <1>2, <2>1, SMTT(30)
<1> QED
  BY <1>1, <1>2

LEMMA AdvanceIsSlot ==
    ASSUME Cap \in Nat \ {0}, NEW i \in 0..(Cap - 1), NEW n \in 0..Cap
    PROVE  Advance(i, n) = Slot(i, n) /\ Slot(i, n) \in 0..(Cap - 1)
<1> DEFINE x == i + n
<1>1. x \in Nat /\ x < 2 * Cap
  OBVIOUS
<1> HIDE DEF x
<1>2. /\ x < Cap => x % Cap = x
      /\ ~(x < Cap) => x % Cap = x - Cap
  BY <1>1, ModOnce, Zenon
<1>3. Advance(i, n) = x % Cap /\ Slot(i, n) = IF x < Cap THEN x ELSE x - Cap
  BY DEF Advance, Slot, x
<1>4. Advance(i, n) = Slot(i, n)
  BY <1>2, <1>3, Zenon
<1> QED
  BY <1>4 DEF Slot

(* Going n and then k bytes on, where n + k does not exceed the storage. *)
LEMMA SlotAdds ==
    ASSUME Cap \in Nat \ {0}, NEW i \in 0..(Cap - 1), NEW n \in 0..Cap, NEW k \in 0..Cap,
           n + k <= Cap
    PROVE  Slot(Slot(i, n), k) = Slot(i, n + k)
BY DEF Slot

LEMMA InitConsistent == Init => Consistent
BY RingBufferAssumption DEF Init, Consistent, Slot

(* What a reader of count bytes sees, whatever the storage holds. *)
LEMMA SlotsAreSeq ==
    ASSUME Cap \in Nat, NEW b \in [0..(Cap - 1) -> Byte], NEW t \in Nat, NEW c \in 0..Cap,
           Cap # 0 => t < Cap
    PROVE  LET s == [k \in 1..c |-> b[Slot(t, k - 1)]] IN s \in Seq(Byte) /\ Len(s) = c
<1>1. ASSUME NEW k \in 1..c PROVE b[Slot(t, k - 1)] \in Byte
  BY DEF Slot
<1> QED
  BY <1>1

LEMMA ContentsIsSeq == Consistent => Contents \in Seq(Byte) /\ Len(Contents) = count
BY RingBufferAssumption, SlotsAreSeq DEF Consistent, Contents

LEMMA ContentsIsSeqNext == Consistent' => Contents' \in Seq(Byte) /\ Len(Contents') = count'
<1> SUFFICES ASSUME Consistent' PROVE Contents' \in Seq(Byte) /\ Len(Contents') = count'
  OBVIOUS
<1>1. /\ Cap \in Nat /\ buf' \in [0..(Cap - 1) -> Byte] /\ tail' \in Nat
      /\ count' \in 0..Cap /\ (Cap # 0 => tail' < Cap)
  BY RingBufferAssumption DEF Consistent
<1>2. Contents' = [k \in 1..count' |-> buf'[Slot(tail', k - 1)]]
  BY DEF Contents, Slot
<1> QED
  BY <1>1, <1>2, SlotsAreSeq

-----------------------------------------------------------------------------
(* One push. *)

LEMMA WrittenAt ==
    ASSUME NEW data, NEW n, NEW first, first = FirstSpan(head, n), NEW i \in 0..(Cap - 1)
    PROVE  Written(data, n)[i] = IF head <= i /\ i < head + first THEN data[i - head + 1]
                                 ELSE IF i < n - first THEN data[first + i + 1] ELSE buf[i]
BY DEF Written

LEMMA PushEffect ==
    ASSUME NEW data, Push(data), NEW n, n = Lesser(Len(data), Cap - count), n # 0
    PROVE  buf' = Written(data, n) /\ head' = Advance(head, n) /\ count' = count + n
BY DEF Push

LEMMA PushKeepsConsistent ==
    ASSUME Consistent, NEW data \in Inputs, Push(data)
    PROVE  Consistent'
<1> DEFINE n == Lesser(Len(data), Cap - count)
           first == FirstSpan(head, n)
<1>1. data \in Seq(Byte) /\ Len(data) \in Nat /\ Cap \in Nat
  BY RingBufferAssumption
<1>2. n \in 0..(Cap - count) /\ n <= Len(data)
  BY <1>1 DEF Consistent, Lesser
<1>3. CASE n = 0
  BY <1>3 DEF Push, Consistent, Slot
<1>4. CASE n # 0
  <2>1. Cap \in Nat \ {0} /\ head \in 0..(Cap - 1) /\ tail \in 0..(Cap - 1)
    BY <1>1, <1>2, <1>4 DEF Consistent
  <2>2. first \in 1..n /\ first <= Cap - head
    BY <1>2, <1>4, <2>1 DEF FirstSpan, Lesser
  <2>3. buf' \in [0..(Cap - 1) -> Byte]
    <3>1. ASSUME NEW i \in 0..(Cap - 1), head <= i, i < head + first
          PROVE  data[i - head + 1] \in Byte
      BY <1>1, <1>2, <2>1, <2>2, <3>1
    <3>2. ASSUME NEW i \in 0..(Cap - 1), i < n - first
          PROVE  data[first + i + 1] \in Byte
      BY <1>1, <1>2, <2>1, <2>2, <3>2
    <3>3. buf' = Written(data, n)
      BY <1>4, PushEffect, Zenon
    <3> QED
      BY <3>1, <3>2, <3>3 DEF Written, Consistent
  <2>4. head' = Slot(head, n) /\ head' \in 0..(Cap - 1)
    <3>1. head' = Advance(head, n)
      BY <1>4, PushEffect, Zenon
    <3>2. n \in 0..Cap
      BY <1>1, <1>2 DEF Consistent
    <3> QED
      BY <2>1, <3>1, <3>2, AdvanceIsSlot
  <2>5. head' = Slot(tail, count + n)
    BY <1>2, <2>1, <2>4, SlotAdds DEF Consistent
  <2> QED
    BY <1>1, <1>2, <1>4, <2>1, <2>3, <2>4, <2>5 DEF Push, Consistent, Slot
<1> QED
  BY <1>3, <1>4

(* Its two spans land right behind the bytes already stored. *)
LEMMA PushAppends ==
    ASSUME Consistent, NEW data \in Inputs, Push(data),
           NEW n \in Nat, n = Lesser(Len(data), Cap - count)
    PROVE  Contents' = Contents \o SubSeq(data, 1, n)
<1> DEFINE first == FirstSpan(head, n)
           both == Contents \o SubSeq(data, 1, n)
<1>1. data \in Seq(Byte) /\ Len(data) \in Nat /\ Cap \in Nat
  BY RingBufferAssumption
<1>2. n \in 0..(Cap - count) /\ n <= Len(data) /\ count \in 0..Cap
  BY <1>1 DEF Consistent, Lesser
<1>3. Len(Contents) = count /\ \A k \in 1..count : Contents[k] = buf[Slot(tail, k - 1)]
  BY <1>2 DEF Contents
<1>4. count' = count + n /\ tail' = tail
  BY <1>2 DEF Push
<1>5. ASSUME NEW k \in 1..count
      PROVE  buf'[Slot(tail, k - 1)] = buf[Slot(tail, k - 1)]
  <2>1. CASE n = 0
    BY <2>1 DEF Push
  <2>2. CASE n # 0
    <3>1. /\ Cap \in Nat \ {0} /\ head \in 0..(Cap - 1) /\ tail \in 0..(Cap - 1)
          /\ head = Slot(tail, count)
      BY <1>1, <1>2, <2>2 DEF Consistent
    <3>2. first \in 1..n /\ first <= Cap - head
          /\ (first < n => first = Cap - head)
      BY <1>2, <2>2, <3>1 DEF FirstSpan, Lesser
    <3>3. first = FirstSpan(head, n)
      OBVIOUS
    <3> DEFINE i == Slot(tail, k - 1)
    <3>4. i \in 0..(Cap - 1) /\ ~(head <= i /\ i < head + first) /\ ~(i < n - first)
      BY <1>2, <3>1, <3>2 DEF Slot
    <3>5. buf' = Written(data, n)
      BY <2>2, PushEffect, Zenon
    <3> HIDE DEF i, first
    <3>6. Written(data, n)[i] = buf[i]
      BY <3>3, <3>4, WrittenAt
    <3> QED
      BY <3>5, <3>6 DEF i
  <2> QED
    BY <2>1, <2>2
<1>6. ASSUME NEW k \in 1..n
      PROVE  buf'[Slot(tail, count + k - 1)] = data[k]
  <2>1. /\ Cap \in Nat \ {0} /\ head \in 0..(Cap - 1) /\ tail \in 0..(Cap - 1)
        /\ head = Slot(tail, count)
    BY <1>1, <1>2 DEF Consistent
  <2>2. first \in 1..n /\ first <= Cap - head
        /\ (first < n => first = Cap - head)
    BY <1>2, <2>1 DEF FirstSpan, Lesser
  <2>3. /\ buf' = Written(data, n)
        /\ first = FirstSpan(head, n)
    <3>1. n # 0
      OBVIOUS
    <3> QED
      BY <3>1, PushEffect, Zenon
  <2> HIDE DEF first
  <2> DEFINE i == Slot(tail, count + k - 1)
  <2>4. CASE k <= first
    <3>1. i \in 0..(Cap - 1) /\ i = head + k - 1
      BY <1>2, <2>1, <2>2, <2>4 DEF Slot
    <3> HIDE DEF i
    <3>2. head <= i /\ i < head + first /\ i - head + 1 = k
      BY <2>1, <2>2, <2>4, <3>1
    <3>3. buf'[i] = data[k]
      BY <2>3, <3>1, <3>2, WrittenAt
    <3> QED
      BY <3>3 DEF i
  <2>5. CASE k > first
    <3>1. i \in 0..(Cap - 1) /\ i = k - first - 1 /\ i < n - first /\ i < head
      BY <1>2, <2>1, <2>2, <2>5 DEF Slot
    <3> HIDE DEF i
    <3>2. first + i + 1 = k
      BY <2>2, <3>1
    <3>3. ~(head <= i)
      BY <2>1, <3>1
    <3>4. buf'[i] = data[k]
      BY <2>3, <3>1, <3>2, <3>3, WrittenAt
    <3> QED
      BY <3>4 DEF i
  <2> QED
    BY <2>2, <2>4, <2>5
<1>7. Contents' \in Seq(Byte) /\ Len(Contents') = count + n
  BY <1>1, <1>2, <1>4, PushKeepsConsistent, ContentsIsSeqNext
<1>8. Contents \in Seq(Byte) /\ SubSeq(data, 1, n) \in Seq(Byte)
      /\ Len(SubSeq(data, 1, n)) = n
      /\ \A k \in 1..n : SubSeq(data, 1, n)[k] = data[k]
  BY <1>1, <1>2, ContentsIsSeq
<1>9. both \in Seq(Byte) /\ Len(both) = count + n
      /\ \A k \in 1..(count + n) :
            both[k] = IF k <= count THEN Contents[k] ELSE SubSeq(data, 1, n)[k - count]
  BY <1>3, <1>8, ConcatProperties
<1> HIDE DEF both
<1>10. ASSUME NEW k \in 1..(count + n)
       PROVE  Contents'[k] = both[k]
  <2>1. Contents'[k] = buf'[Slot(tail, k - 1)]
    BY <1>2, <1>4 DEF Contents, Slot
  <2>2. CASE k <= count
    BY <1>2, <1>3, <1>5, <1>9, <2>1, <2>2
  <2>3. CASE k > count
    <3>1. k - count \in 1..n /\ count + (k - count) - 1 = k - 1
      BY <1>2, <2>3
    <3>2. both[k] = SubSeq(data, 1, n)[k - count]
      BY <1>2, <1>9, <2>3
    <3>3. SubSeq(data, 1, n)[k - count] = data[k - count]
      BY <1>8, <3>1
    <3>4. buf'[Slot(tail, count + (k - count) - 1)] = data[k - count]
      BY <1>6, <3>1
    <3> QED
      BY <2>1, <3>1, <3>2, <3>3, <3>4
  <2> QED
    BY <1>2, <2>2, <2>3
<1>11. Contents' = both
  BY <1>7, <1>9, <1>10, SeqEqual
<1> QED
  BY <1>11 DEF both

-----------------------------------------------------------------------------
(* One pop. *)

LEMMA PopKeepsConsistent ==
    ASSUME Consistent, NEW len \in Lens, Pop(len)
    PROVE  Consistent'
<1> DEFINE n == Lesser(len, count)
<1>1. len \in Nat /\ Cap \in Nat /\ count \in 0..Cap
  BY RingBufferAssumption DEF Consistent
<1>2. n \in 0..count
  BY <1>1 DEF Lesser
<1>3. CASE n = 0
  BY <1>3 DEF Pop, Consistent, Slot
<1>4. CASE n # 0
  <2>1. /\ Cap \in Nat \ {0} /\ head \in 0..(Cap - 1) /\ tail \in 0..(Cap - 1)
        /\ head = Slot(tail, count)
    BY <1>1, <1>2, <1>4 DEF Consistent
  <2>2. tail' = Advance(tail, n) /\ count' = count - n /\ head' = head /\ buf' = buf
    BY <1>4 DEF Pop
  <2>3. n \in 0..Cap
    BY <1>1, <1>2
  <2>4. tail' = Slot(tail, n) /\ tail' \in 0..(Cap - 1)
    BY <2>1, <2>2, <2>3, AdvanceIsSlot
  <2>5. head' = Slot(tail', count')
    BY <1>1, <1>2, <2>1, <2>2, <2>4 DEF Slot
  <2>6. count' \in 0..Cap
    BY <1>1, <1>2, <2>2
  <2> QED
    BY <1>1, <2>1, <2>2, <2>4, <2>5, <2>6 DEF Consistent, Slot
<1> QED
  BY <1>3, <1>4

(* Its two spans are the oldest bytes, and the others stay in order. *)
LEMMA PopTakesOldest ==
    ASSUME Consistent, NEW len \in Lens, Pop(len),
           NEW n \in Nat, n = Lesser(len, count)
    PROVE  /\ out' = SubSeq(Contents, 1, n)
           /\ Contents' = SubSeq(Contents, n + 1, count)
<1> DEFINE first == FirstSpan(tail, n)
           oldest == SubSeq(Contents, 1, n)
           others == SubSeq(Contents, n + 1, count)
<1>1. len \in Nat /\ Cap \in Nat /\ count \in 0..Cap /\ n \in 0..count
  BY RingBufferAssumption DEF Consistent, Lesser
<1>2. Contents \in Seq(Byte) /\ Len(Contents) = count
      /\ \A k \in 1..count : Contents[k] = buf[Slot(tail, k - 1)]
  BY <1>1, ContentsIsSeq DEF Contents
<1>3. oldest \in Seq(Byte) /\ Len(oldest) = n /\ \A k \in 1..n : oldest[k] = Contents[k]
  BY <1>1, <1>2
<1>4. others \in Seq(Byte) /\ Len(others) = count - n
      /\ \A k \in 1..(count - n) : others[k] = Contents[n + k]
  <2>1. n + 1 \in Int /\ count \in Int /\ \A k \in (n + 1)..count : Contents[k] \in Byte
    BY <1>1, <1>2
  <2>2. /\ others \in Seq(Byte)
        /\ Len(others) = IF n + 1 <= count THEN count - (n + 1) + 1 ELSE 0
        /\ \A k \in 1..(count - (n + 1) + 1) : others[k] = Contents[(n + 1) + k - 1]
    BY <2>1, SubSeqProperties
  <2> HIDE DEF others
  <2>3. ASSUME NEW k \in 1..(count - n) PROVE others[k] = Contents[n + k]
    <3>1. k \in 1..(count - (n + 1) + 1) /\ (n + 1) + k - 1 = n + k
      BY <1>1
    <3> QED
      BY <2>2, <3>1
  <2> QED
    BY <1>1, <2>2, <2>3
<1>5. n # 0 => Cap \in Nat \ {0} /\ tail \in 0..(Cap - 1)
  BY <1>1 DEF Consistent
<1>6. ASSUME NEW k \in 1..n PROVE Copied(n)[k] = Contents[k]
  <2>1. first \in 1..n /\ first <= Cap - tail /\ (first < n => first = Cap - tail)
    BY <1>1, <1>5 DEF FirstSpan, Lesser
  <2>2. Slot(tail, k - 1) = IF k <= first THEN tail + k - 1 ELSE k - first - 1
    BY <1>1, <1>5, <2>1 DEF Slot
  <2> QED
    BY <1>1, <1>2, <2>2 DEF Copied
<1>7. out' = oldest
  <2>1. out' = Copied(n)
    BY DEF Pop
  <2>2. Copied(n) \in Seq(Byte) /\ Len(Copied(n)) = n
    <3> DEFINE e(k) == IF k <= first THEN buf[tail + k - 1] ELSE buf[k - first - 1]
    <3>1. Copied(n) = [k \in 1..n |-> e(k)]
      BY DEF Copied
    <3>2. \A k \in 1..n : e(k) = Copied(n)[k]
      BY <3>1
    <3>3. \A k \in 1..n : Contents[k] \in Byte
      BY <1>1, <1>2
    <3>4. \A k \in 1..n : e(k) \in Byte
      BY <1>6, <3>2, <3>3
    <3> HIDE DEF e
    <3> QED
      BY <3>1, <3>4
  <2> HIDE DEF oldest
  <2> QED
    BY <1>3, <1>6, <2>1, <2>2, SeqEqual
<1>8. Contents' = others
  <2>1. count' = count - n /\ buf' = buf
    BY <1>1 DEF Pop
  <2>2. Contents' \in Seq(Byte) /\ Len(Contents') = count - n
    BY <2>1, PopKeepsConsistent, ContentsIsSeqNext
  <2>3. ASSUME NEW k \in 1..(count - n)
        PROVE  Contents'[k] = Contents[n + k]
    <3>1. Cap \in Nat \ {0} /\ tail \in 0..(Cap - 1)
      BY <1>1 DEF Consistent
    <3>2. tail' = Slot(tail, n)
      <4>1. CASE n = 0
        BY <3>1, <4>1 DEF Pop, Slot
      <4>2. CASE n # 0
        <5>1. tail' = Advance(tail, n)
          BY <4>2 DEF Pop
        <5>2. n \in 0..Cap
          BY <1>1
        <5> QED
          BY <1>5, <4>2, <5>1, <5>2, AdvanceIsSlot
      <4> QED
        BY <4>1, <4>2
    <3>3. Contents'[k] = buf[Slot(tail', k - 1)]
      BY <1>1, <2>1 DEF Contents, Slot
    <3>4. Slot(Slot(tail, n), k - 1) = Slot(tail, n + (k - 1))
      BY <1>1, <3>1, SlotAdds
    <3>5. n + k \in 1..count /\ n + (k - 1) = n + k - 1
      BY <1>1
    <3> QED
      BY <1>2, <3>2, <3>3, <3>4, <3>5
  <2> HIDE DEF others
  <2> QED
    BY <1>4, <2>2, <2>3, SeqEqual
<1> QED
  BY <1>7, <1>8

-----------------------------------------------------------------------------
LEMMA StepKeepsConsistent == Consistent /\ [Next]_vars => Consistent'
<1> SUFFICES ASSUME Consistent, [Next]_vars PROVE Consistent'
  OBVIOUS
<1>1. CASE \E data \in Inputs : Push(data)
  BY <1>1, PushKeepsConsistent
<1>2. CASE \E len \in Lens : Pop(len)
  BY <1>2, PopKeepsConsistent
<1>3. CASE Reset
  BY <1>3, RingBufferAssumption DEF Reset, Consistent, Slot
<1>4. CASE UNCHANGED vars
  BY <1>4 DEF vars, Consistent, Slot
<1> QED
  BY <1>1, <1>2, <1>3, <1>4 DEF Next

(* For every capacity, 0 included, and every sequence of calls: rb_push and *)
(* rb_pop keep head, tail and count inside the storage and in agreement.    *)
THEOREM BufferConsistent == Spec => []Consistent
<1>1. Init => Consistent
  BY InitConsistent
<1>2. Consistent /\ [Next]_vars => Consistent'
  BY StepKeepsConsistent
<1> QED
  BY <1>1, <1>2, PTL DEF Spec

LEMMA InitIsFifo == Init => F!Init
<1> SUFFICES ASSUME Init PROVE F!Init
  OBVIOUS
<1>1. Contents \in Seq(Byte) /\ Len(Contents) = 0
  BY InitConsistent, ContentsIsSeq DEF Init
<1>2. Contents = <<>>
  BY <1>1
<1> QED
  BY <1>2 DEF Init, F!Init, F!NoCall

LEMMA StepIsFifo == Consistent /\ [Next]_vars => [F!Next]_(F!vars)
<1> SUFFICES ASSUME Consistent, [Next]_vars PROVE [F!Next]_(F!vars)
  OBVIOUS
<1>0. Len(Contents) = count
  BY ContentsIsSeq
<1>1. ASSUME NEW data \in Inputs, Push(data) PROVE F!Push(data)
  <2> DEFINE n == Lesser(Len(data), Cap - count)
  <2>1. n \in Nat
    BY RingBufferAssumption DEF Consistent, Lesser
  <2>2. Contents' = Contents \o SubSeq(data, 1, n)
    BY <1>1, <2>1, PushAppends
  <2> QED
    BY <1>0, <1>1, <2>2 DEF Push, F!Push, Lesser, F!Lesser
<1>2. ASSUME NEW len \in Lens, Pop(len) PROVE F!Pop(len)
  <2> DEFINE n == Lesser(len, count)
  <2>1. n \in Nat
    BY RingBufferAssumption DEF Consistent, Lesser
  <2>2. out' = SubSeq(Contents, 1, n) /\ Contents' = SubSeq(Contents, n + 1, count)
    BY <1>2, <2>1, PopTakesOldest
  <2> QED
    BY <1>0, <1>2, <2>2 DEF Pop, F!Pop, Lesser, F!Lesser
<1>3. ASSUME Reset PROVE F!Reset
  <2>1. Contents' \in Seq(Byte) /\ Len(Contents') = 0
    BY <1>3, StepKeepsConsistent, ContentsIsSeqNext DEF Reset, Next
  <2>2. Contents' = <<>>
    BY <2>1
  <2> QED
    BY <1>3, <2>2 DEF Reset, F!Reset, F!NoCall
<1>4. CASE UNCHANGED vars
  <2>1. Contents' = Contents
    BY <1>4 DEF vars, Contents, Slot
  <2> QED
    BY <1>4, <2>1 DEF vars, F!vars
<1> QED
  BY <1>1, <1>2, <1>3, <1>4 DEF Next, F!Next

(* The two-span copies and the wrapping indices implement a FIFO.          *)
THEOREM ImplementsFifo == Spec => IsBoundedFifo
<1>1. Init => F!Init
  BY InitIsFifo
<1>2. Consistent /\ [Next]_vars => [F!Next]_(F!vars)
  BY StepIsFifo
<1> QED
  BY <1>1, <1>2, BufferConsistent, PTL DEF Spec, IsBoundedFifo, F!Spec
=============================================================================
