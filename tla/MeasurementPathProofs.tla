------------------------- MODULE MeasurementPathProofs -------------------------
(***************************************************************************)
(* Proofs about MeasurementPath for every base, every precision of the     *)
(* floats, every device, reading, sweep, edit and hand-written profile.    *)
(*                                                                         *)
(* What a fold returns is proved by least counterexample: FoldExists gives *)
(* the function a fold is defined by, FoldIn what all its values share.    *)
(* The same argument gives the recursion of Ulp, the step between floats.  *)
(*                                                                         *)
(* From there: a float keeps the order of its numbers (SingleMonotone) and *)
(* is exact up to Bound; digits make their number again; the registers of  *)
(* a device give back the number it holds (RawLaid); a field keeps the     *)
(* order of its values (WireRises) and is the nearest it can be            *)
(* (WireNearest); and the bytes of a frame are those of its fields         *)
(* (BodyHolds).  LoadedInv and ShownInv put this together.                 *)
(***************************************************************************)
EXTENDS MeasurementPath, WellFoundedInduction, SequenceTheorems, FiniteSetTheorems, TLAPS

LEMMA LeastElement ==
    ASSUME NEW T \in SUBSET Nat, T # {}
    PROVE  \E m \in T : \A i \in T : m <= i
<1>1. PICK m \in T : \A i \in T : <<i, m>> \notin OpToRel(<, Nat)
  BY NatLessThanWellFounded, WFMin
<1>2. \A i \in T : ~(i < m)
  BY <1>1 DEF OpToRel
<1>3. \A i \in T : i \in Nat /\ m \in Nat
  OBVIOUS
<1> QED
  BY <1>2, <1>3

LEMMA GreatestElement ==
    ASSUME NEW n \in Nat, NEW S \in SUBSET (1..n), S # {}
    PROVE  \E m \in S : \A i \in S : i <= m
<1> DEFINE T == {n - i : i \in S}
<1>1. T \in SUBSET Nat
  <2>1. \A i \in S : n - i \in Nat
    OBVIOUS
  <2> QED
    BY <2>1
<1>2. PICK t \in T : \A u \in T : t <= u
  <2>1. PICK i \in S : TRUE
    OBVIOUS
  <2>2. n - i \in T
    BY <2>1
  <2> HIDE DEF T
  <2> QED
    BY <1>1, <2>2, LeastElement
<1>3. PICK m \in S : t = n - m
  BY <1>2
<1>4. \A i \in S : n - m <= n - i
  BY <1>2, <1>3
<1> HIDE DEF T
<1>5. \A i \in S : i \in Nat /\ m \in Nat
  OBVIOUS
<1> QED
  BY <1>4, <1>5

LEMMA MaxIsGreatest ==
    ASSUME NEW n \in Nat, NEW S \in SUBSET (1..n), S # {}
    PROVE  Max(S) \in S /\ \A i \in S : i <= Max(S)
  BY GreatestElement DEF Max

LEMMA GreatestIsMax ==
    ASSUME NEW n \in Nat, NEW S \in SUBSET (1..n), NEW m \in S, \A i \in S : i <= m
    PROVE  Max(S) = m
<1>1. Max(S) \in S /\ Max(S) <= m /\ m <= Max(S)
  BY MaxIsGreatest
<1>2. \A i \in S : i \in Nat
  OBVIOUS
<1>3. Max(S) \in Nat /\ m \in Nat
  BY <1>1, <1>2
<1> QED
  BY <1>1, <1>3

-----------------------------------------------------------------------------
(* Folds over the elements 1 to n of a sequence, the greatest index last.  *)

Folds(n, V, base, step, f) ==
    /\ f \in [SUBSET (1..n) -> V] /\ f[{}] = base
    /\ \A s \in SUBSET (1..n) : s # {} => f[s] = step[Max(s)][f[s \ {Max(s)}]]

LEMMA FoldExists ==
    ASSUME NEW n \in Nat, NEW V, NEW base \in V, NEW step \in [1..n -> [V -> V]]
    PROVE  \E f : Folds(n, V, base, step, f)
<1> DEFINE T == {m \in 0..n : ~\E f : Folds(m, V, base, step, f)}
<1>1. SUFFICES ASSUME T # {} PROVE FALSE
  <2>1. n \in 0..n
    OBVIOUS
  <2> QED
    BY <2>1
<1>2. PICK m \in T : \A i \in T : m <= i
  <2>1. T \in SUBSET Nat
    OBVIOUS
  <2> HIDE DEF T
  <2> QED
    BY <1>1, <2>1, LeastElement
<1>3. m \in 0..n /\ ~\E f : Folds(m, V, base, step, f)
  BY <1>2
<1>4. CASE m = 0
  <2>1. PICK f : f = [s \in SUBSET (1..0) |-> base]
    OBVIOUS
  <2>2. SUBSET (1..0) = {{}}
    <3>1. 1..0 = {}
      OBVIOUS
    <3> QED
      BY <3>1
  <2>3. f \in [SUBSET (1..0) -> V] /\ f[{}] = base
    BY <2>1
  <2>4. \A s \in SUBSET (1..0) : s = {}
    BY <2>2
  <2>5. Folds(0, V, base, step, f)
    BY <2>3, <2>4 DEF Folds
  <2> QED
    BY <1>3, <1>4, <2>5
<1>5. CASE m # 0
  <2>1. m - 1 \in 0..n /\ m - 1 \in Nat /\ m \in Nat /\ m \in 1..n /\ ~(m <= m - 1)
    BY <1>3, <1>5
  <2>2. PICK g : Folds(m - 1, V, base, step, g)
    <3>1. m - 1 \notin T
      BY <1>2, <2>1
    <3> QED
      BY <2>1, <3>1
  <2>3. PICK f : f = [s \in SUBSET (1..m) |-> IF m \in s THEN step[m][g[s \ {m}]] ELSE g[s]]
    OBVIOUS
  <2>4. \A s \in SUBSET (1..m) : s \ {m} \in SUBSET (1..(m - 1)) /\ s \ {m} \in SUBSET (1..m)
    <3>1. \A i \in 1..m : i # m => i \in 1..(m - 1)
      BY <2>1
    <3> QED
      BY <3>1
  <2>5. \A s \in SUBSET (1..(m - 1)) : g[s] \in V
    BY <2>2 DEF Folds
  <2>6. f \in [SUBSET (1..m) -> V]
    <3> SUFFICES ASSUME NEW s \in SUBSET (1..m)
                 PROVE  (IF m \in s THEN step[m][g[s \ {m}]] ELSE g[s]) \in V
      BY <2>3
    <3>1. g[s \ {m}] \in V
      BY <2>4, <2>5
    <3>2. step[m][g[s \ {m}]] \in V
      BY <2>1, <3>1
    <3>3. m \notin s => s \ {m} = s
      OBVIOUS
    <3> QED
      BY <3>1, <3>2, <3>3
  <2>7. f[{}] = base
    BY <2>2, <2>3 DEF Folds
  <2>8. ASSUME NEW s \in SUBSET (1..m), s # {}
        PROVE  f[s] = step[Max(s)][f[s \ {Max(s)}]]
    <3>1. Max(s) \in s /\ \A i \in s : i <= Max(s)
      BY <2>1, <2>8, MaxIsGreatest
    <3>2. s \ {Max(s)} \in SUBSET (1..m)
      OBVIOUS
    <3>3. CASE m \in s
      <4>1. \A i \in s : i <= m
        BY <2>1
      <4>2. Max(s) = m
        BY <2>1, <3>3, <4>1, GreatestIsMax
      <4>3. f[s \ {m}] = g[s \ {m}]
        BY <2>3, <2>4
      <4>4. f[s] = step[m][g[s \ {m}]]
        BY <2>3, <3>3
      <4> QED
        BY <4>2, <4>3, <4>4
    <3>4. CASE m \notin s
      <4>1. s \in SUBSET (1..(m - 1)) /\ s \ {m} = s
        BY <2>4, <3>4
      <4>2. g[s] = step[Max(s)][g[s \ {Max(s)}]]
        <5>1. s \in SUBSET (1..(m - 1)) /\ s # {}
          BY <2>8, <4>1
        <5>2. \A r \in SUBSET (1..(m - 1)) : r # {} => g[r] = step[Max(r)][g[r \ {Max(r)}]]
          BY <2>2 DEF Folds
        <5> QED
          BY <5>1, <5>2
      <4>3. f[s] = g[s] /\ f[s \ {Max(s)}] = g[s \ {Max(s)}]
        BY <2>3, <3>2, <3>4
      <4> QED
        BY <4>2, <4>3
    <3> QED
      BY <3>3, <3>4
  <2>9. Folds(m, V, base, step, f)
    <3>1. \A s \in SUBSET (1..m) : s # {} => f[s] = step[Max(s)][f[s \ {Max(s)}]]
      BY <2>8
    <3> QED
      BY <2>6, <2>7, <3>1 DEF Folds
  <2> QED
    BY <1>3, <2>9
<1> QED
  BY <1>4, <1>5

LEMMA FoldIn ==
    ASSUME NEW n \in Nat, NEW V, NEW f, f[{}] \in V,
           \A s \in SUBSET (1..n) : s # {} /\ f[s \ {Max(s)}] \in V => f[s] \in V
    PROVE  f[1..n] \in V
<1> DEFINE T == {m \in 0..n : f[1..m] \notin V}
<1>1. SUFFICES ASSUME T # {} PROVE FALSE
  <2>1. n \in 0..n
    OBVIOUS
  <2> QED
    BY <2>1
<1>2. PICK m \in T : \A i \in T : m <= i
  <2>1. T \in SUBSET Nat
    OBVIOUS
  <2> HIDE DEF T
  <2> QED
    BY <1>1, <2>1, LeastElement
<1>3. m \in 0..n /\ f[1..m] \notin V
  BY <1>2
<1>4. m # 0
  <2>1. 1..0 = {}
    OBVIOUS
  <2> QED
    BY <1>3, <2>1
<1>5. m - 1 \in 0..n /\ m \in Nat /\ m \in 1..m /\ ~(m <= m - 1)
  BY <1>3, <1>4
<1>6. f[1..(m - 1)] \in V
  BY <1>2, <1>5
<1>7. (1..m) \in SUBSET (1..n) /\ 1..m # {} /\ (1..m) \ {m} = 1..(m - 1)
  <2>1. m \in 1..n
    BY <1>3, <1>4
  <2>2. \A i \in 1..m : i \in 1..n
    BY <2>1
  <2>3. \A i : i \in (1..m) \ {m} <=> i \in 1..(m - 1)
    BY <2>1
  <2>4. (1..m) \ {m} = 1..(m - 1)
    BY <2>3
  <2>5. (1..m) \in SUBSET (1..n)
    BY <2>2
  <2> QED
    BY <1>5, <2>4, <2>5
<1>8. Max(1..m) = m
  <2>1. \A i \in 1..m : i <= m
    BY <1>5
  <2> QED
    BY <1>5, <2>1, GreatestIsMax
<1> QED
  BY <1>3, <1>6, <1>7, <1>8

-----------------------------------------------------------------------------
(* The step between floats.  Ulp is the one function that satisfies its     *)
(* recursion: functions that do so up to n exist, and agree.                *)

Bound == Unit * Exact
LEMMA BoundNat == Bound \in Nat /\ Bound > 0 /\ Bound % 2 = 0
<1>1. Unit \in Nat /\ Exact \in Nat /\ Unit > 0 /\ Exact > 0 /\ Unit % 2 = 0
  BY FixedPointAssumption
<1>2. Unit * Exact \in Nat /\ Unit * Exact > 0
  BY <1>1
<1>3. PICK h \in Nat : Unit = 2 * h
  BY <1>1
<1>4. PICK k : k = h * Exact
  OBVIOUS
<1>5. Unit * Exact = 2 * k /\ k \in Nat
  BY <1>1, <1>3, <1>4
<1> QED
  BY <1>2, <1>5 DEF Bound

UlpUpTo(n, f) ==
    f \in [0..n -> Nat] /\ \A m \in 0..n : f[m] = IF m < Bound THEN 1 ELSE 2 * f[m \div 2]

LEMMA Halved ==
    ASSUME NEW m \in Nat, m > 0
    PROVE  m \div 2 \in Nat /\ m \div 2 < m /\ m \div 2 \in 0..(m - 1)
  OBVIOUS

LEMMA UlpUpToExists == \A n \in Nat : \E f : UlpUpTo(n, f)
<1> DEFINE T == {n \in Nat : ~\E f : UlpUpTo(n, f)}
<1>1. SUFFICES ASSUME T # {} PROVE FALSE
  OBVIOUS
<1>2. PICK n \in T : \A i \in T : n <= i
  <2>1. T \in SUBSET Nat
    OBVIOUS
  <2> HIDE DEF T
  <2> QED
    BY <1>1, <2>1, LeastElement
<1>3. n \in Nat /\ ~\E f : UlpUpTo(n, f)
  BY <1>2
<1>4. CASE n = 0
  <2>1. PICK f : f = [m \in 0..0 |-> 1]
    OBVIOUS
  <2>2. \A m \in 0..0 : m = 0
    OBVIOUS
  <2>3. UlpUpTo(0, f)
    BY <2>1, <2>2, BoundNat DEF UlpUpTo
  <2> QED
    BY <1>3, <1>4, <2>3
<1>5. CASE n # 0
  <2>1. n - 1 \in Nat /\ ~(n <= n - 1)
    BY <1>3, <1>5
  <2>2. PICK g : UlpUpTo(n - 1, g)
    <3>1. n - 1 \notin T
      BY <1>2, <2>1
    <3> QED
      BY <2>1, <3>1
  <2>3. PICK f : f = [m \in 0..n |-> IF m < Bound THEN 1 ELSE 2 * g[m \div 2]]
    OBVIOUS
  <2>4. \A m \in 0..n : m # 0 => m \div 2 \in 0..(n - 1)
    BY <1>3
  <2>5. \A m \in 0..(n - 1) : g[m] \in Nat /\ g[m] = IF m < Bound THEN 1 ELSE 2 * g[m \div 2]
    BY <2>2 DEF UlpUpTo
  <2>6. \A m \in 0..(n - 1) : f[m] = g[m]
    BY <1>3, <2>3, <2>5
  <2>7. \A m \in 0..n : ~(m < Bound) => m \div 2 \in 0..(n - 1)
    BY <2>4, BoundNat
  <2>8. f \in [0..n -> Nat]
    <3>1. \A m \in 0..n : (IF m < Bound THEN 1 ELSE 2 * g[m \div 2]) \in Nat
      BY <2>5, <2>7
    <3> QED
      BY <2>3, <3>1
  <2>9. \A m \in 0..n : f[m] = IF m < Bound THEN 1 ELSE 2 * f[m \div 2]
    BY <2>3, <2>6, <2>7
  <2> QED
    BY <1>3, <2>8, <2>9 DEF UlpUpTo
<1> QED
  BY <1>4, <1>5

LEMMA UlpUpToAgree ==
    ASSUME NEW n \in Nat, NEW k \in Nat, NEW f, NEW g, UlpUpTo(n, f), UlpUpTo(k, g)
    PROVE  \A m \in 0..n : m \in 0..k => f[m] = g[m]
<1> DEFINE T == {m \in 0..n : m \in 0..k /\ f[m] # g[m]}
<1>1. SUFFICES ASSUME T # {} PROVE FALSE
  OBVIOUS
<1>2. PICK m \in T : \A i \in T : m <= i
  <2>1. T \in SUBSET Nat
    OBVIOUS
  <2> HIDE DEF T
  <2> QED
    BY <1>1, <2>1, LeastElement
<1>3. m \in 0..n /\ m \in 0..k /\ f[m] # g[m]
  BY <1>2
<1>4. /\ f[m] = IF m < Bound THEN 1 ELSE 2 * f[m \div 2]
      /\ g[m] = IF m < Bound THEN 1 ELSE 2 * g[m \div 2]
  BY <1>3 DEF UlpUpTo
<1>5. ~(m < Bound) /\ m > 0
  BY <1>3, <1>4, BoundNat
<1>6. m \div 2 \in 0..n /\ m \div 2 \in 0..k /\ ~(m <= m \div 2)
  BY <1>3, <1>5
<1>7. f[m \div 2] = g[m \div 2]
  BY <1>2, <1>6
<1> QED
  BY <1>3, <1>4, <1>7

(* The recursion that Ulp was defined by.                                    *)
LEMMA UlpUnfold == \A m \in Nat : Ulp[m] = IF m < Bound THEN 1 ELSE 2 * Ulp[m \div 2]
<1>1. PICK F : F = [n \in Nat |-> CHOOSE f : UlpUpTo(n, f)]
  OBVIOUS
<1>2. \A n \in Nat : UlpUpTo(n, F[n])
  BY <1>1, UlpUpToExists
<1>3. PICK G : G = [m \in Nat |-> F[m][m]]
  OBVIOUS
<1>4. ASSUME NEW m \in Nat
      PROVE  G[m] = IF m < Bound THEN 1 ELSE 2 * G[m \div 2]
  <2>1. F[m][m] = IF m < Bound THEN 1 ELSE 2 * F[m][m \div 2]
    BY <1>2 DEF UlpUpTo
  <2>2. CASE m < Bound
    BY <1>3, <2>1, <2>2
  <2>3. CASE ~(m < Bound)
    <3>1. m \div 2 \in Nat /\ m \div 2 \in 0..m /\ m \div 2 \in 0..(m \div 2)
      BY <2>3, BoundNat
    <3>2. F[m][m \div 2] = F[m \div 2][m \div 2]
      BY <1>2, <3>1, UlpUpToAgree
    <3> QED
      BY <1>3, <2>1, <2>3, <3>1, <3>2
  <2> QED
    BY <2>2, <2>3
<1>5. G = [m \in Nat |-> IF m < Unit * Exact THEN 1 ELSE 2 * G[m \div 2]]
  BY <1>3, <1>4 DEF Bound
<1>6. Ulp = [m \in Nat |-> IF m < Unit * Exact THEN 1 ELSE 2 * Ulp[m \div 2]]
  BY <1>5 DEF Ulp
<1> QED
  BY <1>6 DEF Bound

(* A number below Bound has the step 1; another has Exact / 2 to Exact steps.*)
LEMMA UlpSpan ==
    \A n \in Nat : /\ Ulp[n] \in Nat /\ Ulp[n] > 0 /\ n < Bound * Ulp[n]
                   /\ n < Bound => Ulp[n] = 1
                   /\ n >= Bound => Ulp[n] % 2 = 0 /\ Bound * Ulp[n] <= 2 * n
<1> DEFINE Good(n) == /\ Ulp[n] \in Nat /\ Ulp[n] > 0 /\ n < Bound * Ulp[n]
                      /\ n < Bound => Ulp[n] = 1
                      /\ n >= Bound => Ulp[n] % 2 = 0 /\ Bound * Ulp[n] <= 2 * n
           T == {n \in Nat : ~Good(n)}
<1>1. SUFFICES ASSUME T # {} PROVE FALSE
  OBVIOUS
<1>2. PICK n \in T : \A i \in T : n <= i
  <2>1. T \in SUBSET Nat
    OBVIOUS
  <2> HIDE DEF T
  <2> QED
    BY <1>1, <2>1, LeastElement
<1>3. n \in Nat /\ ~Good(n)
  BY <1>2
<1>4. n >= Bound
  <2>1. n < Bound => Good(n)
    BY <1>3, UlpUnfold, BoundNat
  <2> QED
    BY <1>3, <2>1, BoundNat
<1>5. n \div 2 \in Nat /\ ~(n <= n \div 2) /\ 2 * (n \div 2) <= n /\ n <= 2 * (n \div 2) + 1
  BY <1>3, <1>4, BoundNat
<1>6. Good(n \div 2)
  <2>1. n \div 2 \notin T
    BY <1>2, <1>5
  <2> QED
    BY <1>5, <2>1
<1>7. PICK u \in Nat : u = Ulp[n \div 2] /\ Ulp[n] = 2 * u /\ u > 0
  BY <1>3, <1>4, <1>6, UlpUnfold, BoundNat
<1>8. PICK c \in Nat : c = Bound * u
  BY BoundNat
<1>9. Bound * (2 * u) = 2 * c
  BY <1>8, BoundNat
<1>10. n < 2 * c
  BY <1>3, <1>5, <1>6, <1>7, <1>8
<1>11. 2 * c <= 2 * n
  <2>1. CASE n \div 2 < Bound
    <3>1. u = 1
      BY <1>6, <1>7, <2>1
    <3>2. c = Bound
      BY <1>8, <3>1, BoundNat
    <3> QED
      BY <1>3, <1>4, <3>2, BoundNat
  <2>2. CASE ~(n \div 2 < Bound)
    <3>1. c <= 2 * (n \div 2)
      BY <1>5, <1>6, <1>7, <1>8, <2>2, BoundNat
    <3> QED
      BY <1>3, <1>5, <1>8, <3>1
  <2> QED
    BY <2>1, <2>2
<1>12. Ulp[n] \in Nat /\ Ulp[n] > 0 /\ Ulp[n] % 2 = 0
  BY <1>7
<1>13. n < Bound * Ulp[n] /\ Bound * Ulp[n] <= 2 * n
  BY <1>7, <1>9, <1>10, <1>11
<1> QED
  BY <1>3, <1>4, <1>12, <1>13, BoundNat

(* The step of a greater number is the same, or at least twice as large.    *)
LEMMA UlpGrows ==
    \A n \in Nat : \A m \in 0..n : Ulp[m] = Ulp[n] \/ 2 * Ulp[m] <= Ulp[n]
<1> DEFINE Good(n) == \A m \in 0..n : Ulp[m] = Ulp[n] \/ 2 * Ulp[m] <= Ulp[n]
           T == {n \in Nat : ~Good(n)}
<1>1. SUFFICES ASSUME T # {} PROVE FALSE
  OBVIOUS
<1>2. PICK n \in T : \A i \in T : n <= i
  <2>1. T \in SUBSET Nat
    OBVIOUS
  <2> HIDE DEF T
  <2> QED
    BY <1>1, <2>1, LeastElement
<1>3. n \in Nat /\ ~Good(n)
  BY <1>2
<1>4. PICK m \in 0..n : ~(Ulp[m] = Ulp[n] \/ 2 * Ulp[m] <= Ulp[n])
  BY <1>3
<1>5. m \in Nat /\ m <= n /\ Ulp[m] \in Nat /\ Ulp[n] \in Nat /\ Ulp[n] > 0
  BY <1>3, UlpSpan
<1>6. n >= Bound
  BY <1>3, <1>4, <1>5, UlpSpan, BoundNat
<1>7. n \div 2 \in Nat /\ ~(n <= n \div 2) /\ Ulp[n] = 2 * Ulp[n \div 2] /\ Ulp[n \div 2] \in Nat /\ Ulp[n \div 2] > 0
  BY <1>3, <1>6, BoundNat, UlpUnfold, UlpSpan
<1>8. m >= Bound
  BY <1>4, <1>5, <1>7, UlpSpan, BoundNat
<1>9. m \div 2 \in 0..(n \div 2) /\ Ulp[m] = 2 * Ulp[m \div 2] /\ Ulp[m \div 2] \in Nat
  <2>1. m \div 2 \in Nat /\ m \div 2 <= n \div 2
    BY <1>3, <1>5
  <2> QED
    BY <1>5, <1>7, <1>8, <2>1, BoundNat, UlpUnfold, UlpSpan
<1>10. Good(n \div 2)
  <2>1. n \div 2 \notin T
    BY <1>2, <1>7
  <2> QED
    BY <1>7, <2>1
<1>11. Ulp[m \div 2] = Ulp[n \div 2] \/ 2 * Ulp[m \div 2] <= Ulp[n \div 2]
  BY <1>9, <1>10
<1> QED
  BY <1>4, <1>7, <1>9, <1>11

-----------------------------------------------------------------------------
(* Rounding to even.                                                       *)

LEMMA Division ==
    ASSUME NEW n \in Int, NEW b \in Nat, b > 0
    PROVE  n \div b \in Int /\ n % b \in 0..(b - 1) /\ n = (n \div b) * b + (n % b)
<1> DEFINE q == n \div b  r == n % b
<1>1. n - b * q = r
  OBVIOUS
<1>2. q \in Int /\ r \in 0..(b - 1)
  OBVIOUS
<1> HIDE DEF q, r
<1>3. n = q * b + r
  BY <1>1, <1>2
<1> QED
  BY <1>2, <1>3 DEF q, r

LEMMA RemainderIs ==
    ASSUME NEW b \in Nat, b > 0, NEW q \in Int, NEW r \in 0..(b - 1)
    PROVE  (q * b + r) \div b = q /\ (q * b + r) % b = r
<1>1. (q * b + r) \div b = q
  OBVIOUS
<1>2. (q * b + r) % b = r
  OBVIOUS
<1> QED
  BY <1>1, <1>2

LEMMA RoundedInt ==
    ASSUME NEW n \in Int, NEW d \in Nat, d > 0
    PROVE  HalfEven(n, d) \in Int
  BY DEF HalfEven

(* Rounding keeps the order, and the numbers that need no rounding.         *)
LEMMA RoundedMonotone ==
    ASSUME NEW n \in Int, NEW m \in Int, NEW d \in Nat, d > 0, n <= m
    PROVE  HalfEven(n, d) <= HalfEven(m, d)
  BY DEF HalfEven

LEMMA RoundedExact ==
    ASSUME NEW q \in Int, NEW d \in Nat, d > 0
    PROVE  HalfEven(q * d, d) = q
  BY DEF HalfEven

LEMMA RoundedOdd ==
    ASSUME NEW n \in Int, NEW d \in Nat, d > 0
    PROVE  HalfEven(-n, d) = -HalfEven(n, d)
<1> DEFINE q == n \div d  r == n % d
<1>1. q \in Int /\ r \in 0..(d - 1) /\ n = q * d + r
  BY Division
<1>2. HalfEven(n, d) = IF 2 * r > d \/ (2 * r = d /\ q % 2 = 1) THEN q + 1 ELSE q
  BY DEF HalfEven
<1> HIDE DEF q, r
<1>3. CASE r = 0
  <2>1. -n = (-q) * d
    BY <1>1, <1>3
  <2>2. HalfEven(-n, d) = -q
    BY <1>1, <2>1, RoundedExact
  <2> QED
    BY <1>2, <1>3, <2>2
<1>4. CASE r # 0
  <2>1. -n = (-q - 1) * d + (d - r)
    BY <1>1
  <2>2. (-n) \div d = -q - 1 /\ (-n) % d = d - r
    <3>1. -q - 1 \in Int /\ d - r \in 0..(d - 1)
      BY <1>1, <1>4
    <3>2. PICK p \in Int, s \in 0..(d - 1) : p = -q - 1 /\ s = d - r
      BY <3>1
    <3> QED
      BY <2>1, <3>2, RemainderIs
  <2>3. HalfEven(-n, d) = IF 2 * (d - r) > d \/ (2 * (d - r) = d /\ (-q - 1) % 2 = 1) THEN -q ELSE -q - 1
    BY <1>1, <2>2 DEF HalfEven
  <2>4. (-q - 1) % 2 = 1 <=> ~(q % 2 = 1)
    BY <1>1
  <2> QED
    BY <1>1, <1>2, <1>4, <2>3, <2>4
<1> QED
  BY <1>3, <1>4

-----------------------------------------------------------------------------
LEMMA SmallSingle ==
    ASSUME NEW x \in Int, Magnitude(x) < Bound
    PROVE  Single(x) = x
  BY DEF Single, Bound

(* Between the powers of two that enclose it, a number is rounded to one of  *)
(* so many steps.                                                           *)
LEMMA LargeSingle ==
    ASSUME NEW x \in Nat, x >= Bound
    PROVE  \E d \in Nat, q \in Int, h \in Nat :
               /\ d = Unit * Ulp[x] /\ d > 0 /\ q = HalfEven(x, d) /\ Single(x) = q * d
               /\ Exact = 2 * h /\ Bound * Ulp[x] = 2 * (h * d) /\ h <= q /\ q <= 2 * h
               /\ h * d <= x
<1>1. PICK u \in Nat, v \in Nat : u = Ulp[x] /\ u > 0 /\ x < Bound * u /\ u = 2 * v /\ Bound * u <= 2 * x
  <2>1. Ulp[x] \in Nat /\ Ulp[x] > 0 /\ x < Bound * Ulp[x] /\ Ulp[x] % 2 = 0 /\ Bound * Ulp[x] <= 2 * x
    BY UlpSpan
  <2>2. \A w \in Nat : w % 2 = 0 => \E v \in Nat : w = 2 * v
    OBVIOUS
  <2> QED
    BY <2>1, <2>2
<1>2. Unit \in Nat /\ Unit > 0 /\ Exact \in Nat
  BY FixedPointAssumption
<1>3. PICK d \in Nat : d = Unit * u /\ d > 0
  <2>1. Unit * u \in Nat /\ Unit * u > 0
    BY <1>1, <1>2
  <2> QED
    BY <2>1
<1>4. PICK h \in Nat : Exact = 2 * h
  <2>1. Exact % 2 = 0
    BY FixedPointAssumption
  <2> QED
    BY <1>2, <2>1
<1>5. Bound * u = 2 * (h * d)
  <2>1. Bound * u = (Unit * (2 * h)) * u
    BY <1>4 DEF Bound
  <2> QED
    BY <1>1, <1>2, <1>3, <2>1
<1>6. PICK e \in Nat : e = h * d
  BY <1>3
<1>7. e <= x /\ x <= 2 * e
  BY <1>1, <1>5, <1>6
<1>8. PICK q \in Int : q = HalfEven(x, d)
  BY <1>3, RoundedInt
<1>9. h <= q
  <2>1. HalfEven(h * d, d) = h
    BY <1>3, RoundedExact
  <2> QED
    BY <1>3, <1>6, <1>7, <1>8, <2>1, RoundedMonotone
<1>10. q <= 2 * h
  <2>1. (2 * h) * d = 2 * e
    BY <1>6
  <2>2. HalfEven((2 * h) * d, d) = 2 * h
    BY <1>3, RoundedExact
  <2> QED
    BY <1>3, <1>6, <1>7, <1>8, <2>1, <2>2, RoundedMonotone
<1>11. Single(x) = q * d
  <2>1. Magnitude(x) = x
    BY DEF Magnitude
  <2>2. ~(Magnitude(x) < Unit * Exact)
    BY <2>1, BoundNat DEF Bound
  <2>3. Single(x) = HalfEven(x, Unit * Ulp[x]) * (Unit * Ulp[x])
    BY <2>1, <2>2 DEF Single
  <2> QED
    BY <1>1, <1>3, <1>8, <2>3
<1>12. /\ d = Unit * Ulp[x] /\ d > 0 /\ q = HalfEven(x, d) /\ Single(x) = q * d
       /\ Exact = 2 * h /\ Bound * Ulp[x] = 2 * (h * d) /\ h <= q /\ q <= 2 * h
       /\ h * d <= x
  BY <1>1, <1>3, <1>4, <1>5, <1>6, <1>7, <1>8, <1>9, <1>10, <1>11
<1> QED
  BY <1>12

(* Single treats both signs alike.                                          *)
LEMMA SingleOdd ==
    ASSUME NEW x \in Int
    PROVE  Single(-x) = -Single(x)
<1>1. Magnitude(-x) = Magnitude(x) /\ Magnitude(x) \in Nat
  BY DEF Magnitude
<1>2. CASE Magnitude(x) < Bound
  BY <1>1, <1>2, SmallSingle
<1>3. CASE ~(Magnitude(x) < Bound)
  <2>1. PICK d \in Nat : d = Unit * Ulp[Magnitude(x)] /\ d > 0
    <3>1. Ulp[Magnitude(x)] \in Nat /\ Ulp[Magnitude(x)] > 0
      BY <1>1, UlpSpan
    <3>2. Unit \in Nat /\ Unit > 0
      BY FixedPointAssumption
    <3>3. \A a, b \in Nat : a > 0 /\ b > 0 => a * b \in Nat /\ a * b > 0
      OBVIOUS
    <3> QED
      BY <3>1, <3>2, <3>3
  <2>2. Single(x) = HalfEven(x, d) * d /\ Single(-x) = HalfEven(-x, d) * d
    BY <1>1, <1>3, <2>1 DEF Single, Bound
  <2>3. PICK q \in Int : q = HalfEven(x, d) /\ HalfEven(-x, d) = -q
    BY <2>1, RoundedInt, RoundedOdd
  <2>4. (-q) * d = -(q * d)
    BY <2>1
  <2> QED
    BY <2>2, <2>3, <2>4
<1> QED
  BY <1>2, <1>3

-----------------------------------------------------------------------------
(* A float does not fall when the number rounded to it does not.           *)

(* A float is an integer of units; it is positive and large where its       *)
(* number is.                                                               *)
LEMMA SingleInt ==
    ASSUME NEW x \in Int
    PROVE  /\ Single(x) \in Int
           /\ x >= 0 => Single(x) >= 0
           /\ x >= Bound => Single(x) >= Bound
<1>1. ASSUME NEW y \in Nat, y >= Bound
      PROVE  Single(y) \in Int /\ Single(y) >= Bound
  <2>1. PICK d \in Nat, q \in Int, h \in Nat :
               /\ d = Unit * Ulp[y] /\ d > 0 /\ q = HalfEven(y, d) /\ Single(y) = q * d
               /\ Exact = 2 * h /\ Bound * Ulp[y] = 2 * (h * d) /\ h <= q /\ q <= 2 * h
               /\ h * d <= y
    BY <1>1, LargeSingle
  <2>2. Single(y) \in Int /\ h * d <= q * d /\ h * d \in Nat
    BY <2>1
  <2>3. PICK v \in Nat : Ulp[y] = 2 * v /\ v > 0
    <3>1. Ulp[y] \in Nat /\ Ulp[y] > 0 /\ Ulp[y] % 2 = 0
      BY <1>1, UlpSpan
    <3> QED
      BY <3>1
  <2>4. Bound * v = h * d
    <3>1. Bound * (2 * v) = 2 * (Bound * v)
      BY <2>3, BoundNat
    <3> QED
      BY <2>1, <2>2, <2>3, <3>1, BoundNat
  <2>5. Bound * v >= Bound
    BY <2>3, BoundNat
  <2> QED
    BY <2>1, <2>2, <2>4, <2>5, BoundNat
<1>2. CASE Magnitude(x) < Bound
  <2>1. Single(x) = x
    BY <1>2, SmallSingle
  <2> QED
    BY <1>2, <2>1, BoundNat DEF Magnitude
<1>3. CASE ~(Magnitude(x) < Bound) /\ x >= 0
  <2>1. x \in Nat /\ x >= Bound
    BY <1>3, BoundNat DEF Magnitude
  <2> QED
    BY <1>1, <2>1, BoundNat
<1>4. CASE ~(Magnitude(x) < Bound) /\ ~(x >= 0)
  <2>1. -x \in Nat /\ -x >= Bound
    BY <1>4, BoundNat DEF Magnitude
  <2>2. Single(-x) \in Int
    BY <1>1, <2>1
  <2>3. -(-x) = x /\ -x \in Int
    OBVIOUS
  <2>4. Single(x) = -Single(-x)
    BY <2>3, SingleOdd
  <2> QED
    BY <1>4, <2>2, <2>4, BoundNat
<1> QED
  BY <1>2, <1>3, <1>4

LEMMA RisesAmongLarge ==
    ASSUME NEW x \in Nat, NEW y \in Nat, Bound <= x, x <= y
    PROVE  Single(x) <= Single(y)
<1>1. PICK d \in Nat, q \in Int, h \in Nat :
               /\ d = Unit * Ulp[x] /\ d > 0 /\ q = HalfEven(x, d) /\ Single(x) = q * d
               /\ Exact = 2 * h /\ Bound * Ulp[x] = 2 * (h * d) /\ h <= q /\ q <= 2 * h
               /\ h * d <= x
  BY LargeSingle
<1>2. PICK e \in Nat, p \in Int, k \in Nat :
               /\ e = Unit * Ulp[y] /\ e > 0 /\ p = HalfEven(y, e) /\ Single(y) = p * e
               /\ Exact = 2 * k /\ Bound * Ulp[y] = 2 * (k * e) /\ k <= p /\ p <= 2 * k
               /\ k * e <= y
  <2>1. y >= Bound
    BY BoundNat
  <2> QED
    BY <2>1, LargeSingle
<1>3. PICK u \in Nat, w \in Nat : u = Ulp[x] /\ w = Ulp[y]
  BY UlpSpan
<1>4. CASE u = w
  <2>1. d = e
    BY <1>1, <1>2, <1>3, <1>4
  <2>2. q <= p
    BY <1>1, <1>2, <2>1, RoundedMonotone
  <2>3. q * d <= p * d
    BY <1>1, <1>2, <2>2
  <2> QED
    BY <1>1, <1>2, <2>1, <2>3
<1>5. CASE 2 * u <= w
  <2>1. PICK a \in Nat, b \in Nat : a = h * d /\ b = k * e
    BY <1>1, <1>2
  <2>2. q * d <= (2 * h) * d /\ k * e <= p * e
    BY <1>1, <1>2
  <2>3. (2 * h) * d = 2 * a
    BY <1>1, <2>1
  <2>4. 2 * (Bound * u) <= Bound * w
    <3>1. PICK c \in Nat : w = 2 * u + c
      <4>1. w - 2 * u \in Nat /\ w = 2 * u + (w - 2 * u)
        BY <1>3, <1>5
      <4> QED
        BY <4>1
    <3>2. Bound * w = 2 * (Bound * u) + Bound * c
      <4>1. \A r, s, f \in Nat : r * (2 * s + f) = 2 * (r * s) + r * f
        OBVIOUS
      <4>2. Bound * (2 * u + c) = 2 * (Bound * u) + Bound * c
        BY <4>1, BoundNat
      <4> QED
        BY <3>1, <4>2
    <3>3. Bound * c \in Nat /\ Bound * u \in Nat
      BY <1>3, BoundNat
    <3> QED
      BY <3>2, <3>3
  <2>5. 2 * a <= b
    BY <1>1, <1>2, <1>3, <2>1, <2>4
  <2>6. q * d \in Int /\ p * e \in Int
    BY <1>1, <1>2
  <2> QED
    BY <1>1, <1>2, <2>1, <2>2, <2>3, <2>5, <2>6
<1>6. Ulp[x] = Ulp[y] \/ 2 * Ulp[x] <= Ulp[y]
  <2>1. x \in 0..y
    OBVIOUS
  <2> QED
    BY <2>1, UlpGrows
<1> QED
  BY <1>3, <1>4, <1>5, <1>6

LEMMA RisesAmongNat ==
    ASSUME NEW x \in Nat, NEW y \in Nat, x <= y
    PROVE  Single(x) <= Single(y)
<1>1. Magnitude(x) = x /\ Magnitude(y) = y
  BY DEF Magnitude
<1>2. CASE x < Bound /\ y < Bound
  BY <1>1, <1>2, SmallSingle
<1>3. CASE x < Bound /\ ~(y < Bound)
  <2>1. Single(x) = x
    BY <1>1, <1>3, SmallSingle
  <2>2. Single(y) \in Int /\ Single(y) >= Bound
    BY <1>3, SingleInt, BoundNat
  <2> QED
    BY <1>3, <2>1, <2>2, BoundNat
<1>4. CASE ~(x < Bound)
  BY <1>4, RisesAmongLarge, BoundNat
<1> QED
  BY <1>2, <1>3, <1>4

(* Rounding to a float keeps the order.                                     *)
LEMMA SingleMonotone ==
    ASSUME NEW x \in Int, NEW y \in Int, x <= y
    PROVE  Single(x) <= Single(y)
<1>1. \A z \in Int : Single(z) \in Int /\ Single(-z) = -Single(z) /\ (z >= 0 => Single(z) >= 0)
  BY SingleInt, SingleOdd
<1>2. CASE x >= 0
  BY <1>2, RisesAmongNat
<1>3. CASE x < 0 /\ y >= 0
  <2>1. -x \in Int /\ -x >= 0
    BY <1>3
  <2>2. Single(-x) >= 0 /\ Single(-x) = -Single(x)
    BY <1>1, <2>1
  <2>3. Single(x) <= 0 /\ Single(y) >= 0 /\ Single(x) \in Int /\ Single(y) \in Int
    BY <1>1, <1>3, <2>2
  <2> QED
    BY <2>3
<1>4. CASE x < 0 /\ y < 0
  <2>1. -x \in Nat /\ -y \in Nat /\ -y <= -x
    BY <1>4
  <2>2. Single(-y) <= Single(-x)
    BY <2>1, RisesAmongNat
  <2>3. Single(-y) = -Single(y) /\ Single(-x) = -Single(x) /\ Single(x) \in Int /\ Single(y) \in Int
    BY <1>1
  <2> QED
    BY <2>2, <2>3
<1> QED
  BY <1>2, <1>3, <1>4

-----------------------------------------------------------------------------
(* Where a float is exact, and how close it is where it is not.            *)

(* The first step beyond Exact is of two units. *)
LEMMA FirstStep ==
    ASSUME NEW x \in Nat, Bound <= x, x < 2 * Bound
    PROVE  \E d \in Nat, h \in Nat :
               d = 2 * Unit /\ d > 0 /\ Exact = 2 * h /\ Bound = h * d /\ Single(x) = HalfEven(x, d) * d
<1>1. PICK d \in Nat, q \in Int, h \in Nat :
               /\ d = Unit * Ulp[x] /\ d > 0 /\ q = HalfEven(x, d) /\ Single(x) = q * d
               /\ Exact = 2 * h /\ Bound * Ulp[x] = 2 * (h * d) /\ h <= q /\ q <= 2 * h
               /\ h * d <= x
  BY LargeSingle
<1>2. PICK v \in Nat : Ulp[x] = 2 * v /\ v > 0 /\ Bound * Ulp[x] <= 2 * x
  <2>1. Ulp[x] \in Nat /\ Ulp[x] > 0 /\ Ulp[x] % 2 = 0 /\ Bound * Ulp[x] <= 2 * x
    BY UlpSpan, BoundNat
  <2> QED
    BY <2>1
<1>3. v = 1
  <2>1. Bound * (2 * v) = 2 * (Bound * v)
    BY <1>2, BoundNat
  <2>2. Bound * v < 2 * Bound
    BY <1>2, <2>1, BoundNat
  <2>3. v >= 2 => Bound * v >= 2 * Bound
    BY <1>2, BoundNat
  <2> QED
    BY <1>2, <2>2, <2>3, BoundNat
<1>4. Ulp[x] = 2 /\ Unit \in Nat
  BY <1>2, <1>3, FixedPointAssumption
<1>5. d = 2 * Unit
  BY <1>1, <1>4
<1>6. Bound = h * d
  <2>1. Bound * 2 = 2 * (h * d) /\ h * d \in Nat
    BY <1>1, <1>4
  <2> QED
    BY <2>1, BoundNat
<1> QED
  BY <1>1, <1>5, <1>6

(* Up to Bound nothing is rounded.                                          *)
LEMMA ExactSingle ==
    ASSUME NEW x \in Int, Magnitude(x) <= Bound
    PROVE  Single(x) = x
<1>1. Single(Bound) = Bound
  <2>1. PICK d \in Nat, h \in Nat :
            d = 2 * Unit /\ d > 0 /\ Exact = 2 * h /\ Bound = h * d /\ Single(Bound) = HalfEven(Bound, d) * d
    BY FirstStep, BoundNat
  <2>2. HalfEven(h * d, d) = h
    BY <2>1, RoundedExact
  <2> QED
    BY <2>1, <2>2
<1>2. Single(-Bound) = -Bound
  BY <1>1, SingleOdd, BoundNat
<1>3. x = Bound \/ x = -Bound \/ Magnitude(x) < Bound
  BY BoundNat DEF Magnitude
<1> QED
  BY <1>1, <1>2, <1>3, SmallSingle

(* Rounding an integer and a fraction of less than one beyond what is exact  *)
(* leaves the integer.                                                      *)
LEMMA SingleQuotient ==
    ASSUME NEW x \in Nat, x < Bound + Unit
    PROVE  Single(x) \div Unit = x \div Unit /\ Single(x) <= Bound
<1>0. Unit \in Nat /\ Unit > 0 /\ Exact \in Nat /\ Exact > 3
  BY FixedPointAssumption
<1>1. Unit <= Bound
  BY <1>0 DEF Bound
<1>2. CASE x < Bound
  <2>1. Magnitude(x) <= Bound
    BY <1>2, BoundNat DEF Magnitude
  <2>2. Single(x) = x
    BY <2>1, ExactSingle
  <2> QED
    BY <1>2, <2>2, BoundNat
<1>3. CASE ~(x < Bound)
  <2>1. PICK d \in Nat, h \in Nat :
            d = 2 * Unit /\ d > 0 /\ Exact = 2 * h /\ Bound = h * d /\ Single(x) = HalfEven(x, d) * d
    <3>1. Bound <= x /\ x < 2 * Bound
      BY <1>0, <1>1, <1>3, BoundNat
    <3> QED
      BY <3>1, FirstStep
  <2>2. PICK r \in 0..(Unit - 1) : x = h * d + r
    <3>1. x - Bound \in 0..(Unit - 1) /\ x = Bound + (x - Bound)
      BY <1>0, <1>3, BoundNat
    <3> QED
      BY <2>1, <3>1
  <2>3. x \div d = h /\ x % d = r
    <3>1. r \in 0..(d - 1)
      BY <1>0, <2>1
    <3>2. d \in Nat /\ d > 0 /\ h \in Int
      BY <2>1
    <3>3. (h * d + r) \div d = h /\ (h * d + r) % d = r
      BY <3>1, <3>2, RemainderIs
    <3> QED
      BY <2>2, <3>3
  <2>4. HalfEven(x, d) = h
    BY <1>0, <2>1, <2>3 DEF HalfEven
  <2>5. Single(x) = Bound
    BY <2>1, <2>4
  <2>6. Bound = Exact * Unit
    BY <1>0 DEF Bound
  <2>7. x \div Unit = Exact /\ Bound \div Unit = Exact
    <3>1. (Exact * Unit + r) \div Unit = Exact
      BY <1>0
    <3>2. (Exact * Unit) \div Unit = Exact
      BY <1>0
    <3> QED
      BY <2>1, <2>2, <2>6, <3>1, <3>2
  <2> QED
    BY <2>5, <2>7, BoundNat
<1> QED
  BY <1>2, <1>3

(* The float of a limit beyond 2^25 - 1 is out of reach of exact numbers.   *)
LEMMA FarLimit ==
    ASSUME NEW max \in Nat, max >= 2 * Exact - 1
    PROVE  Single(max * Unit) > Bound
<1>0. Unit \in Nat /\ Unit > 0 /\ Exact \in Nat /\ Exact > 3
  BY FixedPointAssumption
<1> DEFINE x == Bound + 2 * Unit
<1>1. Bound = Exact * Unit
  BY <1>0 DEF Bound
<1>2. x \in Nat /\ Bound <= x /\ x < 2 * Bound
  <2>1. 4 * Unit <= Exact * Unit
    BY <1>0
  <2> QED
    BY <1>0, <1>1, <2>1, BoundNat
<1>3. PICK d \in Nat, h \in Nat :
            d = 2 * Unit /\ d > 0 /\ Exact = 2 * h /\ Bound = h * d /\ Single(x) = HalfEven(x, d) * d
  <2> HIDE DEF x
  <2> QED
    BY <1>2, FirstStep
<1>4. x = (h + 1) * d
  BY <1>0, <1>3
<1>5. Single(x) = x
  <2>1. HalfEven((h + 1) * d, d) = h + 1
    BY <1>3, RoundedExact
  <2> HIDE DEF x
  <2> QED
    BY <1>3, <1>4, <2>1
<1>6. max * Unit \in Nat /\ x <= max * Unit
  <2>1. (Exact + 2) * Unit <= max * Unit
    <3>1. Exact + 2 <= max /\ Exact + 2 \in Nat
      BY <1>0
    <3>2. \A a, b \in Nat : a <= b => a * Unit <= b * Unit
      BY <1>0
    <3> QED
      BY <3>1, <3>2
  <2>2. (Exact + 2) * Unit = x
    BY <1>0, <1>1
  <2> QED
    BY <1>0, <2>1, <2>2
<1>7. Single(x) <= Single(max * Unit)
  <2> HIDE DEF x
  <2> QED
    BY <1>2, <1>6, SingleMonotone
<1>8. Single(max * Unit) \in Int
  BY <1>6, SingleInt
<1> QED
  BY <1>0, <1>5, <1>7, <1>8, BoundNat

(* A float is rounded to itself. *)
LEMMA LargeFixed ==
    ASSUME NEW x \in Nat, x >= Bound
    PROVE  Single(Single(x)) = Single(x)
<1>1. PICK d \in Nat, q \in Int, h \in Nat :
               /\ d = Unit * Ulp[x] /\ d > 0 /\ q = HalfEven(x, d) /\ Single(x) = q * d
               /\ Exact = 2 * h /\ Bound * Ulp[x] = 2 * (h * d) /\ h <= q /\ q <= 2 * h
               /\ h * d <= x
  BY LargeSingle
<1>2. PICK z \in Nat : z = Single(x) /\ z >= Bound
  BY SingleInt, BoundNat
<1>3. PICK e \in Nat, p \in Int, k \in Nat :
               /\ e = Unit * Ulp[z] /\ e > 0 /\ p = HalfEven(z, e) /\ Single(z) = p * e
               /\ Exact = 2 * k /\ Bound * Ulp[z] = 2 * (k * e) /\ k <= p /\ p <= 2 * k
               /\ k * e <= z
  BY <1>2, LargeSingle
<1>4. PICK u \in Nat, w \in Nat :
          /\ u = Ulp[x] /\ w = Ulp[z] /\ u > 0 /\ w > 0
          /\ x < Bound * u /\ z < Bound * w /\ Bound * u <= 2 * x /\ Bound * w <= 2 * z
  BY <1>2, UlpSpan, BoundNat
<1>5. u = w \/ 2 * u <= w \/ 2 * w <= u
  <2>1. x \in 0..z \/ z \in 0..x
    BY <1>2
  <2> QED
    BY <1>2, <1>4, <2>1, UlpGrows
<1>6. PICK a \in Nat : a = h * d /\ Bound * u = 2 * a
  BY <1>1, <1>4
<1>7. a <= z /\ z <= 2 * a
  <2>1. h * d <= q * d /\ q * d <= (2 * h) * d
    BY <1>1
  <2>2. (2 * h) * d = 2 * a
    BY <1>1, <1>6
  <2> QED
    BY <1>1, <1>2, <1>6, <2>1, <2>2
<1>8. \A b, c \in Nat : 2 * b <= c => 2 * (Bound * b) <= Bound * c
  <2> TAKE b \in Nat, c \in Nat
  <2> HAVE 2 * b <= c
  <2>1. Bound * (2 * b) <= Bound * c
    BY BoundNat
  <2>2. Bound * (2 * b) = 2 * (Bound * b)
    BY BoundNat
  <2> QED
    BY <2>1, <2>2
<1>9. ~(2 * w <= u)
  <2>1. SUFFICES ASSUME 2 * w <= u PROVE FALSE
    OBVIOUS
  <2>2. PICK c \in Nat : c = Bound * w /\ 2 * c <= 2 * a
    BY <1>4, <1>6, <1>8, <2>1, BoundNat
  <2> QED
    BY <1>4, <1>7, <2>2
<1>10. CASE u = w
  <2>1. d = e
    BY <1>1, <1>3, <1>4, <1>10
  <2>2. HalfEven(q * d, d) = q
    BY <1>1, RoundedExact
  <2> QED
    BY <1>1, <1>2, <1>3, <2>1, <2>2
<1>11. CASE 2 * u <= w
  <2>1. PICK c \in Nat : c = Bound * w /\ 4 * a <= c
    BY <1>4, <1>6, <1>8, <1>11, BoundNat
  <2>2. z = 2 * a /\ c = 4 * a
    BY <1>4, <1>7, <2>1
  <2>3. k * e = z
    <3>1. PICK g \in Nat : g = k * e
      BY <1>3
    <3>2. c = 2 * g
      BY <1>3, <1>4, <2>1, <3>1
    <3> QED
      BY <2>2, <3>1, <3>2
  <2>4. HalfEven(k * e, e) = k
    BY <1>3, RoundedExact
  <2> QED
    BY <1>2, <1>3, <2>3, <2>4
<1> QED
  BY <1>5, <1>9, <1>10, <1>11

LEMMA SingleFixed ==
    ASSUME NEW x \in Int
    PROVE  Single(Single(x)) = Single(x)
<1>1. CASE Magnitude(x) < Bound
  BY <1>1, SmallSingle
<1>2. CASE x >= Bound
  BY <1>2, LargeFixed, BoundNat
<1>3. CASE -x >= Bound
  <2>1. PICK y \in Nat : y = -x /\ x = -y /\ y >= Bound
    BY <1>3, BoundNat
  <2>2. PICK z \in Int : z = Single(y) /\ Single(z) = z
    BY <2>1, LargeFixed, SingleInt
  <2>3. Single(-y) = -z /\ Single(-z) = -z
    BY <2>2, SingleOdd
  <2> QED
    BY <2>1, <2>3
<1> QED
  BY <1>1, <1>2, <1>3, BoundNat DEF Magnitude

-----------------------------------------------------------------------------
(* The saturating conversions, sat_u and sat_i.                            *)

LEMMA UnitHalf == Unit \in Nat /\ Unit > 0 /\ Half \in Nat /\ Unit = 2 * Half /\ Half > 0
  BY FixedPointAssumption DEF Half

LEMMA ScalesUp ==
    ASSUME NEW s \in Nat, NEW v \in Int, NEW w \in Int, v <= w
    PROVE  v * s \in Int /\ w * s \in Int /\ v * s <= w * s
  OBVIOUS

LEMMA UnitQuotient ==
    ASSUME NEW x \in Int, NEW y \in Int, x <= y
    PROVE  /\ x \div Unit \in Int /\ y \div Unit \in Int /\ x \div Unit <= y \div Unit
           /\ (x >= 0 => x \div Unit >= 0)
<1>1. Unit \in Nat /\ Unit > 0
  BY UnitHalf
<1>2. \A z \in Int : z \div Unit \in Int /\ (z >= 0 => z \div Unit >= 0)
  BY <1>1
<1>3. x \div Unit <= y \div Unit
  BY <1>1
<1> QED
  BY <1>2, <1>3

(* A float below that of a limit is below the limit. *)
LEMMA BelowLimit ==
    ASSUME NEW t \in Int, NEW max \in Nat, Single(t) < Single(max * Unit)
    PROVE  Single(t) \div Unit <= max
<1>1. PICK s \in Int : s = Single(t) /\ Single(s) = s
  BY SingleInt, SingleFixed
<1>2. max * Unit \in Int /\ Single(max * Unit) \in Int
  BY UnitHalf, SingleInt
<1>3. s < max * Unit
  <2>1. max * Unit <= s => Single(max * Unit) <= s
    BY <1>1, <1>2, SingleMonotone
  <2> QED
    BY <1>1, <1>2, <2>1
<1>4. s \div Unit <= max
  BY <1>3, UnitHalf
<1> QED
  BY <1>1, <1>4

LEMMA TruncatedIn ==
    ASSUME NEW x \in Int, NEW y \in Int, x <= y
    PROVE  /\ Truncated(x) \in Int /\ Truncated(y) \in Int /\ Truncated(x) <= Truncated(y)
           /\ (x >= 0 => Truncated(x) = x \div Unit)
<1>1. \A z \in Int : z \div Unit \in Int /\ (z >= 0 => z \div Unit >= 0)
  BY UnitQuotient
<1>2. CASE x >= 0
  BY <1>1, <1>2, UnitQuotient DEF Truncated
<1>3. CASE x < 0 /\ y >= 0
  <2>1. -x \in Int /\ -x >= 0 /\ (-x) \div Unit >= 0 /\ (-x) \div Unit \in Int
    BY <1>1, <1>3
  <2>2. y \div Unit >= 0 /\ y \div Unit \in Int
    BY <1>1, <1>3
  <2> QED
    BY <1>3, <2>1, <2>2 DEF Truncated
<1>4. CASE x < 0 /\ y < 0
  <2>1. -x \in Int /\ -y \in Int /\ -y <= -x
    BY <1>4
  <2>2. (-y) \div Unit <= (-x) \div Unit /\ (-x) \div Unit \in Int /\ (-y) \div Unit \in Int
    BY <2>1, UnitQuotient
  <2> QED
    BY <1>4, <2>2 DEF Truncated
<1> QED
  BY <1>2, <1>3, <1>4

(* sat_u stays in its field and keeps the order.                            *)
LEMMA SatUIn ==
    ASSUME NEW v \in Int, NEW scale \in Nat, NEW max \in Nat
    PROVE  SatU(v, scale, max) \in 0..max
<1>1. CASE v <= 0
  BY <1>1 DEF SatU
<1>2. CASE ~(v <= 0)
  <2>1. PICK t \in Nat : t = Single(v * scale) + Half
    <3>1. v * scale \in Int /\ v * scale >= 0
      BY <1>2
    <3>2. Single(v * scale) \in Int /\ Single(v * scale) >= 0
      BY <3>1, SingleInt
    <3> QED
      BY <3>2, UnitHalf
  <2>2. Single(t) \in Int /\ Single(t) >= 0 /\ Single(max * Unit) \in Int
    <3>1. max * Unit \in Int
      BY UnitHalf
    <3> QED
      BY <3>1, SingleInt
  <2>3. Single(t) \div Unit \in Int /\ Single(t) \div Unit >= 0
    BY <2>2, UnitQuotient
  <2>4. Single(t) < Single(max * Unit) => Single(t) \div Unit <= max
    BY BelowLimit
  <2>5. SatU(v, scale, max) = IF Single(t) >= Single(max * Unit) THEN max ELSE Single(t) \div Unit
    BY <1>2, <2>1 DEF SatU
  <2> QED
    BY <2>2, <2>3, <2>4, <2>5
<1> QED
  BY <1>1, <1>2

LEMMA SatURises ==
    ASSUME NEW v \in Int, NEW w \in Int, v <= w, NEW scale \in Nat, NEW max \in Nat
    PROVE  SatU(v, scale, max) <= SatU(w, scale, max)
<1>1. SatU(v, scale, max) \in 0..max /\ SatU(w, scale, max) \in 0..max
  BY SatUIn
<1>2. CASE v <= 0
  <2>1. SatU(v, scale, max) = 0
    BY <1>2 DEF SatU
  <2> QED
    BY <1>1, <2>1
<1>3. CASE ~(v <= 0)
  <2>1. Single(v * scale) \in Int /\ Single(w * scale) \in Int /\ Single(v * scale) <= Single(w * scale)
    BY ScalesUp, SingleMonotone, SingleInt
  <2>2. PICK t \in Int, r \in Int : t = Single(v * scale) + Half /\ r = Single(w * scale) + Half /\ t <= r
    BY <2>1, UnitHalf
  <2>3. Single(t) \in Int /\ Single(r) \in Int /\ Single(t) <= Single(r)
    BY <2>2, SingleMonotone, SingleInt
  <2>4. Single(t) \div Unit <= Single(r) \div Unit
    BY <2>3, UnitQuotient
  <2>5. /\ SatU(v, scale, max) = IF Single(t) >= Single(max * Unit) THEN max ELSE Single(t) \div Unit
        /\ SatU(w, scale, max) = IF Single(r) >= Single(max * Unit) THEN max ELSE Single(r) \div Unit
    <3>1. ~(w <= 0)
      BY <1>3
    <3> QED
      BY <1>3, <2>2, <3>1 DEF SatU
  <2>6. Single(max * Unit) \in Int
    <3>1. max * Unit \in Int
      BY UnitHalf
    <3> QED
      BY <3>1, SingleInt
  <2> QED
    BY <1>1, <2>3, <2>4, <2>5, <2>6
<1> QED
  BY <1>2, <1>3

(* What sat_i rounds, before the limits. *)
Shifted(v, scale) == Single(Single(v * scale) + (IF v >= 0 THEN Half ELSE -Half))

LEMMA ShiftedRises ==
    ASSUME NEW v \in Int, NEW w \in Int, v <= w, NEW scale \in Nat
    PROVE  Shifted(v, scale) \in Int /\ Shifted(w, scale) \in Int /\ Shifted(v, scale) <= Shifted(w, scale)
<1>1. Single(v * scale) \in Int /\ Single(w * scale) \in Int /\ Single(v * scale) <= Single(w * scale)
  BY ScalesUp, SingleMonotone, SingleInt
<1>2. PICK t \in Int, r \in Int :
          /\ t = Single(v * scale) + (IF v >= 0 THEN Half ELSE -Half)
          /\ r = Single(w * scale) + (IF w >= 0 THEN Half ELSE -Half)
          /\ t <= r
  BY <1>1, UnitHalf
<1> QED
  BY <1>2, SingleMonotone, SingleInt DEF Shifted

(* sat_i stays in its field,                                                *)
LEMMA SatIIn ==
    ASSUME NEW v \in Int, NEW scale \in Nat, NEW lo \in Int, lo <= 0, NEW hi \in Nat
    PROVE  SatI(v, scale, lo, hi) \in lo..hi
<1>1. PICK s \in Int : s = Shifted(v, scale)
  BY ShiftedRises
<1>2. SatI(v, scale, lo, hi) = IF s >= Single(hi * Unit) THEN hi ELSE IF s <= lo * Unit THEN lo ELSE Truncated(s)
  BY <1>1 DEF SatI, Shifted
<1>3. Truncated(s) \in Int
  BY TruncatedIn
<1>4. s < Single(hi * Unit) => Truncated(s) <= hi
  <2>1. CASE s >= 0
    <3>1. Truncated(s) = s \div Unit
      BY <2>1, TruncatedIn
    <3>2. s < Single(hi * Unit) => s \div Unit <= hi
      <4>1. PICK t \in Int : s = Single(t)
        <5>1. Single(v * scale) \in Int
          BY ScalesUp, SingleInt
        <5> QED
          BY <1>1, <5>1, UnitHalf DEF Shifted
      <4> QED
        BY <4>1, BelowLimit
    <3> QED
      BY <3>1, <3>2
  <2>2. CASE s < 0
    <3>1. Truncated(s) <= Truncated(0) /\ Truncated(0) = 0 \div Unit
      BY <2>2, TruncatedIn
    <3>2. 0 \div Unit = 0
      BY UnitHalf
    <3> QED
      BY <1>3, <3>1, <3>2
  <2> QED
    BY <2>1, <2>2
<1>5. s > lo * Unit => Truncated(s) >= lo
  <2>1. CASE s >= 0
    <3>1. Truncated(s) = s \div Unit /\ s \div Unit >= 0
      BY <2>1, TruncatedIn, UnitQuotient
    <3> QED
      BY <1>3, <3>1
  <2>2. CASE s < 0
    <3>1. Truncated(s) = -((-s) \div Unit)
      BY <2>2 DEF Truncated
    <3>2. s > lo * Unit => (-s) \div Unit <= -lo
      BY UnitHalf
    <3>3. (-s) \div Unit \in Int
      BY UnitQuotient
    <3> QED
      BY <3>1, <3>2, <3>3
  <2> QED
    BY <2>1, <2>2
<1>6. Single(hi * Unit) \in Int /\ lo * Unit \in Int
  <2>1. hi * Unit \in Int /\ lo * Unit \in Int
    BY UnitHalf
  <2> QED
    BY <2>1, SingleInt
<1> QED
  BY <1>2, <1>3, <1>4, <1>5, <1>6

(* and keeps the order.                                                     *)
LEMMA SatIRises ==
    ASSUME NEW v \in Int, NEW w \in Int, v <= w, NEW scale \in Nat,
           NEW lo \in Int, lo <= 0, NEW hi \in Nat
    PROVE  SatI(v, scale, lo, hi) <= SatI(w, scale, lo, hi)
<1>1. PICK s \in Int, r \in Int : s = Shifted(v, scale) /\ r = Shifted(w, scale) /\ s <= r
  BY ShiftedRises
<1>2. /\ SatI(v, scale, lo, hi) = IF s >= Single(hi * Unit) THEN hi ELSE IF s <= lo * Unit THEN lo ELSE Truncated(s)
      /\ SatI(w, scale, lo, hi) = IF r >= Single(hi * Unit) THEN hi ELSE IF r <= lo * Unit THEN lo ELSE Truncated(r)
  BY <1>1 DEF SatI, Shifted
<1>3. SatI(v, scale, lo, hi) \in lo..hi /\ SatI(w, scale, lo, hi) \in lo..hi
  BY SatIIn
<1>4. Truncated(s) \in Int /\ Truncated(r) \in Int /\ Truncated(s) <= Truncated(r)
  BY <1>1, TruncatedIn
<1>5. Single(hi * Unit) \in Int /\ lo * Unit \in Int
  <2>1. hi * Unit \in Int /\ lo * Unit \in Int
    BY UnitHalf
  <2> QED
    BY <2>1, SingleInt
<1> QED
  BY <1>1, <1>2, <1>3, <1>4, <1>5

-----------------------------------------------------------------------------
(* Limits of the encodings. *)

LEMMA Weights ==
    /\ Weight[0] = 1 /\ Weight[1] = Base /\ Weight[2] = Base * Base
    /\ Weight[3] = (Base * Base) * Base /\ Weight[4] = ((Base * Base) * Base) * Base
    /\ Base \in Nat /\ Base > 1 /\ Base * Base \in Nat /\ Base * Base > 1
    /\ (Base * Base) * Base \in Nat /\ (Base * Base) * Base > 1
    /\ ((Base * Base) * Base) * Base \in Nat /\ ((Base * Base) * Base) * Base > 1
<1>1. Base \in Nat /\ Base > 1
  BY FixedPointAssumption
<1>2. \A a \in Nat : a > 1 => a * Base \in Nat /\ a * Base > 1
  BY <1>1
<1>3. Base * Base \in Nat /\ Base * Base > 1
  BY <1>1, <1>2
<1>4. (Base * Base) * Base \in Nat /\ (Base * Base) * Base > 1
  BY <1>2, <1>3
<1>5. ((Base * Base) * Base) * Base \in Nat /\ ((Base * Base) * Base) * Base > 1
  BY <1>2, <1>4
<1>6. /\ Weight[0] = 1 /\ Weight[1] = Base /\ Weight[2] = Base * Base
      /\ Weight[3] = (Base * Base) * Base /\ Weight[4] = ((Base * Base) * Base) * Base
  BY DEF Weight
<1> QED
  BY <1>1, <1>3, <1>4, <1>5, <1>6

LEMMA WeightsEven == \A e \in {1, 2, 4} : \E m \in Nat : Weight[e] = 2 * m /\ m > 0
<1>1. PICK b \in Nat : Base = 2 * b /\ b > 0
  BY FixedPointAssumption
<1>2. ASSUME NEW a \in Nat, a > 1
      PROVE  \E m \in Nat : a * Base = 2 * m /\ m > 0
  <2>1. a * Base = 2 * (a * b) /\ a * b \in Nat /\ a * b > 0
    BY <1>1, <1>2
  <2> QED
    BY <2>1
<1>3. \E m \in Nat : Weight[1] = 2 * m /\ m > 0
  BY <1>1, Weights
<1>4. \E m \in Nat : Weight[2] = 2 * m /\ m > 0
  <2>1. Base \in Nat /\ Base > 1
    BY Weights
  <2>2. \E m \in Nat : Base * Base = 2 * m /\ m > 0
    BY <1>2, <2>1
  <2> QED
    BY <2>2, Weights
<1>5. \E m \in Nat : Weight[4] = 2 * m /\ m > 0
  <2>1. (Base * Base) * Base \in Nat /\ (Base * Base) * Base > 1
    BY Weights
  <2>2. \E m \in Nat : ((Base * Base) * Base) * Base = 2 * m /\ m > 0
    BY <1>2, <2>1
  <2> QED
    BY <2>2, Weights
<1> QED
  BY <1>3, <1>4, <1>5

LEMMA Sizes ==
    \A enc \in DOMAIN EncSize : EncSize[enc] \in {1, 2, 4}
<1>1. DOMAIN EncSize = {"u8", "i8", "u16", "i16", "u32", "i32"}
  BY DEF EncSize
<1>2. \A enc \in {"u8", "i8", "u16", "i16", "u32", "i32"} : EncSize[enc] \in {1, 2, 4}
  BY DEF EncSize
<1> QED
  BY <1>1, <1>2

LEMMA Limits ==
    ASSUME NEW enc, EncSize[enc] \in {1, 2, 4}
    PROVE  \E w \in Nat, m \in Nat :
               /\ w = Weight[EncSize[enc]] /\ w = 2 * m /\ m > 0
               /\ enc \in SignedEncodings => Lo(enc) = -m /\ Hi(enc) = m - 1
               /\ enc \notin SignedEncodings => Lo(enc) = 0 /\ Hi(enc) = w - 1
               /\ Hi(enc) < Exact \/ Hi(enc) >= 2 * Exact - 1
<1>1. PICK w \in Nat, m \in Nat : w = Weight[EncSize[enc]] /\ w = 2 * m /\ m > 0
  BY WeightsEven
<1>2. w \div 2 = m
  BY <1>1
<1>3. enc \in SignedEncodings => Lo(enc) = -m /\ Hi(enc) = m - 1
  BY <1>1, <1>2 DEF Lo, Hi
<1>4. enc \notin SignedEncodings => Lo(enc) = 0 /\ Hi(enc) = w - 1
  BY <1>1 DEF Lo, Hi
<1>5. /\ w <= Exact \/ w >= 2 * Exact
      /\ w <= 2 * Exact \/ w >= 4 * Exact
      /\ Exact \in Nat
  BY <1>1, FixedPointAssumption
<1>6. Hi(enc) < Exact \/ Hi(enc) >= 2 * Exact - 1
  BY <1>1, <1>3, <1>4, <1>5
<1> QED
  BY <1>1, <1>3, <1>4, <1>6

LEMMA LimitsTyped ==
    ASSUME NEW enc, EncSize[enc] \in {1, 2, 4}
    PROVE  Lo(enc) \in Int /\ Lo(enc) <= 0 /\ Hi(enc) \in Nat
  BY Limits

(* What goes into a field is in its limits.                                 *)
LEMMA WireIn ==
    ASSUME NEW v \in Int, NEW enc, EncSize[enc] \in {1, 2, 4}, NEW scale \in Nat, NEW junk
    PROVE  Wire(v, enc, scale, junk) \in Lo(enc)..Hi(enc)
<1>1. v # NaN
  BY FixedPointAssumption
<1>2. Lo(enc) \in Int /\ Lo(enc) <= 0 /\ Hi(enc) \in Nat
  BY LimitsTyped
<1>3. CASE enc \in SignedEncodings
  <2>1. Wire(v, enc, scale, junk) = SatI(v, scale, Lo(enc), Hi(enc))
    BY <1>1, <1>3 DEF Wire
  <2> QED
    BY <1>2, <2>1, SatIIn
<1>4. CASE enc \notin SignedEncodings
  <2>1. Wire(v, enc, scale, junk) = SatU(v, scale, Hi(enc)) /\ Lo(enc) = 0
    BY <1>1, <1>4 DEF Wire, Lo
  <2> QED
    BY <1>2, <2>1, SatUIn
<1> QED
  BY <1>3, <1>4

(* What goes into a field does not fall when the value does not. *)
LEMMA WireRises ==
    ASSUME NEW v \in Int, NEW w \in Int, v <= w, NEW enc, EncSize[enc] \in {1, 2, 4},
           NEW scale \in Nat, NEW junk, NEW scrap
    PROVE  Wire(v, enc, scale, junk) <= Wire(w, enc, scale, scrap)
<1>1. v # NaN /\ w # NaN
  BY FixedPointAssumption
<1>2. Lo(enc) \in Int /\ Lo(enc) <= 0 /\ Hi(enc) \in Nat
  BY LimitsTyped
<1>3. CASE enc \in SignedEncodings
  <2>1. /\ Wire(v, enc, scale, junk) = SatI(v, scale, Lo(enc), Hi(enc))
        /\ Wire(w, enc, scale, scrap) = SatI(w, scale, Lo(enc), Hi(enc))
    BY <1>1, <1>3 DEF Wire
  <2> QED
    BY <1>2, <2>1, SatIRises
<1>4. CASE enc \notin SignedEncodings
  <2>1. /\ Wire(v, enc, scale, junk) = SatU(v, scale, Hi(enc))
        /\ Wire(w, enc, scale, scrap) = SatU(w, scale, Hi(enc))
    BY <1>1, <1>4 DEF Wire
  <2> QED
    BY <1>2, <2>1, SatURises
<1> QED
  BY <1>3, <1>4

-----------------------------------------------------------------------------
(* Digits and the number they make.                                        *)

LEMMA Prefix ==
    ASSUME NEW n \in Nat, NEW k \in 1..n
    PROVE  /\ (1..k) \in SUBSET (1..n) /\ 1..k # {} /\ Max(1..k) = k
           /\ (1..k) \ {k} = 1..(k - 1)
<1>1. \A i \in 1..k : i \in 1..n
  OBVIOUS
<1>2. \A i : i \in (1..k) \ {k} <=> i \in 1..(k - 1)
  OBVIOUS
<1>3. (1..k) \ {k} = 1..(k - 1)
  BY <1>2
<1>4. Max(1..k) = k
  <2>1. k \in Nat /\ k \in 1..k /\ \A i \in 1..k : i <= k
    OBVIOUS
  <2>2. (1..k) \in SUBSET (1..k)
    OBVIOUS
  <2> QED
    BY <2>1, <2>2, GreatestIsMax
<1> QED
  BY <1>1, <1>3, <1>4

(* The fold of Number, prefix by prefix.                                    *)
LEMMA NumberPrefixes ==
    ASSUME NEW n \in Nat, NEW digits, DOMAIN digits = 1..n, \A i \in 1..n : digits[i] \in Int
    PROVE  \E g : /\ g[0] = 0 /\ Number(digits) = g[n]
                  /\ \A k \in 1..n : g[k] = g[k - 1] * Base + digits[k]
<1> DEFINE One(i, v) == v * Base + digits[i]
           f == CHOOSE g : g = [s \in SUBSET DOMAIN digits |->
                                  IF s = {} THEN 0 ELSE g[s \ {Max(s)}] * Base + digits[Max(s)]]
<1>1. Number(digits) = f[1..n]
  BY DEF Number, FoldLeft, MapThenFoldSet
<1>2. \A i \in 1..n : \A v \in Int : One(i, v) \in Int
  BY FixedPointAssumption
<1>3. PICK step : step = [i \in 1..n |-> [v \in Int |-> One(i, v)]]
  OBVIOUS
<1>4. PICK g : Folds(n, Int, 0, step, g)
  <2>1. 0 \in Int /\ step \in [1..n -> [Int -> Int]]
    BY <1>2, <1>3
  <2> HIDE DEF One
  <2> QED
    BY <2>1, FoldExists
<1>5. \A s \in SUBSET (1..n) : s # {} => /\ Max(s) \in 1..n /\ s \ {Max(s)} \in SUBSET (1..n)
  BY MaxIsGreatest
<1>6. g = [s \in SUBSET (1..n) |-> IF s = {} THEN 0 ELSE One(Max(s), g[s \ {Max(s)}])]
  <2>1. g \in [SUBSET (1..n) -> Int] /\ g[{}] = 0
    BY <1>4 DEF Folds
  <2>2. ASSUME NEW s \in SUBSET (1..n), s # {}
        PROVE  g[s] = One(Max(s), g[s \ {Max(s)}])
    <3>1. g[s] = step[Max(s)][g[s \ {Max(s)}]]
      BY <1>4, <2>2 DEF Folds
    <3>2. Max(s) \in 1..n /\ g[s \ {Max(s)}] \in Int
      BY <1>5, <2>1, <2>2
    <3> HIDE DEF One
    <3> QED
      BY <1>3, <3>1, <3>2
  <2> HIDE DEF One
  <2> QED
    BY <2>1, <2>2
<1>7. f = [s \in SUBSET (1..n) |-> IF s = {} THEN 0 ELSE One(Max(s), f[s \ {Max(s)}])]
  <2>1. \E h : h = [s \in SUBSET DOMAIN digits |->
                                  IF s = {} THEN 0 ELSE h[s \ {Max(s)}] * Base + digits[Max(s)]]
    BY <1>6
  <2> QED
    BY <2>1
<1> HIDE DEF f
<1>8. PICK h : h = [k \in 0..n |-> f[1..k]]
  OBVIOUS
<1>9. h[0] = 0
  <2>1. 1..0 = {} /\ {} \in SUBSET (1..n) /\ 0 \in 0..n
    OBVIOUS
  <2> QED
    BY <1>7, <1>8, <2>1
<1>10. ASSUME NEW k \in 1..n
       PROVE  h[k] = h[k - 1] * Base + digits[k]
  <2>1. /\ (1..k) \in SUBSET (1..n) /\ 1..k # {} /\ Max(1..k) = k
        /\ (1..k) \ {k} = 1..(k - 1)
    BY Prefix
  <2>2. f[1..k] = One(k, f[1..(k - 1)])
    <3> HIDE DEF One
    <3> QED
      BY <1>7, <2>1
  <2>3. k \in 0..n /\ k - 1 \in 0..n
    OBVIOUS
  <2> QED
    BY <1>8, <2>2, <2>3
<1>11. h[n] = f[1..n]
  BY <1>8
<1> QED
  BY <1>1, <1>9, <1>10, <1>11

LEMMA NumberOf ==
    ASSUME NEW digits, NEW n \in {1, 2, 4}, DOMAIN digits = 1..n, \A i \in 1..n : digits[i] \in Int
    PROVE  /\ n = 1 => Number(digits) = digits[1]
           /\ n = 2 => Number(digits) = digits[1] * Base + digits[2]
           /\ n = 4 => Number(digits) = ((digits[1] * Base + digits[2]) * Base + digits[3]) * Base + digits[4]
<1>1. PICK g : /\ g[0] = 0 /\ Number(digits) = g[n]
               /\ \A k \in 1..n : g[k] = g[k - 1] * Base + digits[k]
  BY NumberPrefixes
<1>2. Base \in Nat
  BY FixedPointAssumption
<1>3. g[1] = digits[1]
  <2>1. 1 \in 1..n /\ 1 - 1 = 0
    OBVIOUS
  <2>2. g[1] = g[0] * Base + digits[1]
    BY <1>1, <2>1
  <2> QED
    BY <1>1, <1>2, <2>1, <2>2
<1>4. n > 1 => g[2] = digits[1] * Base + digits[2]
  <2>1. n > 1 => 2 \in 1..n /\ 2 - 1 = 1
    OBVIOUS
  <2> QED
    BY <1>1, <1>3, <2>1
<1>5. n = 4 => g[3] = g[2] * Base + digits[3] /\ g[4] = g[3] * Base + digits[4]
  <2>1. n = 4 => 3 \in 1..n /\ 4 \in 1..n /\ 3 - 1 = 2 /\ 4 - 1 = 3
    OBVIOUS
  <2> QED
    BY <1>1, <2>1
<1> QED
  BY <1>1, <1>3, <1>4, <1>5

LEMMA QuotientTwice ==
    ASSUME NEW n \in Int, NEW b \in Nat, b > 0, NEW c \in Nat, c > 0
    PROVE  n \div (c * b) = (n \div c) \div b
  OBVIOUS

LEMMA DigitsTyped ==
    ASSUME NEW n \in Int, NEW size \in {1, 2, 4}
    PROVE  /\ DOMAIN Digits(n, size) = 1..size
           /\ \A k \in 1..size : Digits(n, size)[k] \in 0..(Base - 1)
<1>1. \A k \in 1..size : size - k \in {0, 1, 2, 3}
  OBVIOUS
<1>2. \A e \in {0, 1, 2, 3} : Weight[e] \in Nat /\ Weight[e] > 0
  BY Weights
<1>3. \A k \in 1..size : n \div Weight[size - k] \in Int
  BY <1>1, <1>2
<1>4. \A k \in 1..size : (n \div Weight[size - k]) % Base \in 0..(Base - 1)
  BY <1>3, Division, Weights
<1> QED
  BY <1>4 DEF Digits

(* Digits make the number again, modulo what they can hold.                 *)
LEMMA NumberOfDigits ==
    ASSUME NEW n \in Int, NEW size \in {1, 2, 4}
    PROVE  Number(Digits(n, size)) = n % Weight[size]
<1> DEFINE q1 == n \div Base  q2 == q1 \div Base  q3 == q2 \div Base  q4 == q3 \div Base
           r0 == n % Base  r1 == q1 % Base  r2 == q2 % Base  r3 == q3 % Base
<1>0. Base \in Nat /\ Base > 0
  BY Weights
<1>1. q1 \in Int /\ r0 \in 0..(Base - 1) /\ n = q1 * Base + r0
  BY <1>0, Division
<1>2. q2 \in Int /\ r1 \in 0..(Base - 1) /\ q1 = q2 * Base + r1
  BY <1>0, <1>1, Division
<1>3. q3 \in Int /\ r2 \in 0..(Base - 1) /\ q2 = q3 * Base + r2
  BY <1>0, <1>2, Division
<1>4. q4 \in Int /\ r3 \in 0..(Base - 1) /\ q3 = q4 * Base + r3
  BY <1>0, <1>3, Division
<1>5. n \div Weight[0] = n /\ n \div Weight[1] = q1
  BY Weights
<1>6. n \div Weight[2] = q2
  BY <1>0, QuotientTwice, Weights
<1>7. n \div Weight[3] = q3
  <2>1. n \div ((Base * Base) * Base) = (n \div (Base * Base)) \div Base
    BY <1>0, QuotientTwice, Weights
  <2> QED
    BY <1>6, <2>1, Weights
<1>8. DOMAIN Digits(n, size) = 1..size /\ \A k \in 1..size : Digits(n, size)[k] \in Int
  <2>1. \A d \in 0..(Base - 1) : d \in Int
    OBVIOUS
  <2> QED
    BY <2>1, DigitsTyped
<1>9. CASE size = 1
  <2>1. Digits(n, 1)[1] = r0
    BY <1>5 DEF Digits
  <2>2. Number(Digits(n, 1)) = r0
    BY <1>8, <1>9, <2>1, NumberOf
  <2> QED
    BY <1>9, <2>2, Weights
<1>10. CASE size = 2
  <2>1. Digits(n, 2)[1] = r1 /\ Digits(n, 2)[2] = r0
    BY <1>5 DEF Digits
  <2>2. Number(Digits(n, 2)) = r1 * Base + r0
    BY <1>8, <1>10, <2>1, NumberOf
  <2> HIDE DEF q1, q2, r0, r1
  <2>3. PICK m \in Int : m = r1 * Base + r0
    BY <1>0, <1>1, <1>2
  <2>4. n = q2 * (Base * Base) + m /\ m \in 0..(Base * Base - 1)
    BY <1>0, <1>1, <1>2, <2>3
  <2>5. n % (Base * Base) = m
    BY <1>2, <2>4, RemainderIs, Weights
  <2> QED
    BY <1>10, <2>2, <2>3, <2>5, Weights
<1>11. CASE size = 4
  <2>1. Digits(n, 4)[1] = r3 /\ Digits(n, 4)[2] = r2 /\ Digits(n, 4)[3] = r1 /\ Digits(n, 4)[4] = r0
    BY <1>5, <1>6, <1>7 DEF Digits
  <2> HIDE DEF q1, q2, q3, q4, r0, r1, r2, r3
  <2>2. PICK m \in Int : m = ((r3 * Base + r2) * Base + r1) * Base + r0
    BY <1>0, <1>1, <1>2, <1>3, <1>4
  <2>3. Number(Digits(n, 4)) = m
    BY <1>8, <1>11, <2>1, <2>2, NumberOf
  <2>4. n = q4 * (((Base * Base) * Base) * Base) + m
    BY <1>0, <1>1, <1>2, <1>3, <1>4, <2>2
  <2>5. m \in 0..(((Base * Base) * Base) * Base - 1)
    <3>1. PICK a \in Nat : a = r3 * Base + r2 /\ a <= Base * Base - 1
      BY <1>0, <1>3, <1>4
    <3>2. PICK b \in Nat : b = a * Base + r1 /\ b <= (Base * Base) * Base - 1
      <4>1. a * Base <= (Base * Base - 1) * Base
        BY <1>0, <3>1
      <4>2. (Base * Base - 1) * Base = (Base * Base) * Base - Base
        BY <1>0
      <4>3. a * Base + r1 \in Nat
        BY <1>0, <1>2, <3>1
      <4> QED
        BY <1>0, <1>2, <3>1, <4>1, <4>2, <4>3, Weights
    <3>3. b * Base + r0 \in Nat /\ b * Base + r0 <= ((Base * Base) * Base) * Base - 1
      <4>1. b * Base <= ((Base * Base) * Base - 1) * Base
        BY <1>0, <3>2, Weights
      <4>2. ((Base * Base) * Base - 1) * Base = ((Base * Base) * Base) * Base - Base
        BY <1>0, Weights
      <4>3. b * Base + r0 \in Nat /\ b * Base \in Nat
        BY <1>0, <1>1, <3>2
      <4> QED
        BY <1>0, <1>1, <3>2, <4>1, <4>2, <4>3, Weights
    <3> QED
      BY <2>2, <3>1, <3>2, <3>3, Weights
  <2>6. n % (((Base * Base) * Base) * Base) = m
    BY <1>4, <2>4, <2>5, RemainderIs, Weights
  <2> QED
    BY <1>11, <2>3, <2>6, Weights
<1> QED
  BY <1>9, <1>10, <1>11

-----------------------------------------------------------------------------
(* The readers of the decoder.                                             *)

LEMMA DigitsOfPair ==
    ASSUME NEW a \in 0..(Base - 1), NEW b \in 0..(Base - 1)
    PROVE  /\ DOMAIN Digits(a * Base + b, 2) = 1..2
           /\ Digits(a * Base + b, 2)[1] = a /\ Digits(a * Base + b, 2)[2] = b
<1>0. Base \in Nat /\ Base > 0
  BY Weights
<1>1. (a * Base + b) \div Base = a /\ (a * Base + b) % Base = b
  <2>1. a \in Int
    OBVIOUS
  <2> QED
    BY <1>0, <2>1, RemainderIs
<1>2. a % Base = a
  BY <1>0
<1>3. a * Base + b \in Int
  BY <1>0
<1>4. (a * Base + b) \div Weight[0] = a * Base + b /\ Weight[1] = Base
  BY <1>3, Weights
<1>5. Digits(a * Base + b, 2) = [k \in 1..2 |-> ((a * Base + b) \div Weight[2 - k]) % Base]
  BY DEF Digits
<1>6. 2 - 1 = 1 /\ 2 - 2 = 0 /\ 1 \in 1..2 /\ 2 \in 1..2
  OBVIOUS
<1>7. Digits(a * Base + b, 2)[1] = ((a * Base + b) \div Weight[1]) % Base
  BY <1>5, <1>6
<1>8. Digits(a * Base + b, 2)[2] = ((a * Base + b) \div Weight[0]) % Base
  BY <1>5, <1>6
<1> QED
  BY <1>1, <1>2, <1>4, <1>5, <1>7, <1>8

LEMMA NumberBelow ==
    ASSUME NEW bytes, NEW n \in {1, 2, 4}, DOMAIN bytes = 1..n, \A i \in 1..n : bytes[i] \in 0..(Base - 1)
    PROVE  Number(bytes) \in 0..(Weight[n] - 1)
<1>0. Base \in Nat /\ Base > 1
  BY Weights
<1>1. \A i \in 1..n : bytes[i] \in Int
  BY <1>0
<1>2. ASSUME NEW w \in Nat, NEW a \in 0..(w - 1), NEW d \in 0..(Base - 1)
      PROVE  a * Base + d \in 0..(w * Base - 1)
  <2>1. a * Base <= (w - 1) * Base
    BY <1>0
  <2>2. (w - 1) * Base = w * Base - Base
    BY <1>0
  <2>3. a * Base \in Nat /\ w * Base \in Nat
    BY <1>0
  <2> QED
    BY <1>0, <2>1, <2>2, <2>3
<1>3. CASE n = 1
  <2>1. Number(bytes) = bytes[1] /\ bytes[1] \in 0..(Base - 1)
    BY <1>1, <1>3, NumberOf
  <2> QED
    BY <1>3, <2>1, Weights
<1>4. CASE n = 2
  <2>1. Number(bytes) = bytes[1] * Base + bytes[2] /\ bytes[1] \in 0..(Base - 1) /\ bytes[2] \in 0..(Base - 1)
    BY <1>1, <1>4, NumberOf
  <2>2. bytes[1] * Base + bytes[2] \in 0..(Base * Base - 1)
    BY <1>0, <1>2, <2>1
  <2> QED
    BY <1>4, <2>1, <2>2, Weights
<1>5. CASE n = 4
  <2>1. /\ Number(bytes) = ((bytes[1] * Base + bytes[2]) * Base + bytes[3]) * Base + bytes[4]
        /\ bytes[1] \in 0..(Base - 1) /\ bytes[2] \in 0..(Base - 1)
        /\ bytes[3] \in 0..(Base - 1) /\ bytes[4] \in 0..(Base - 1)
    BY <1>1, <1>5, NumberOf
  <2>2. bytes[1] * Base + bytes[2] \in 0..(Base * Base - 1)
    BY <1>0, <1>2, <2>1
  <2>3. (bytes[1] * Base + bytes[2]) * Base + bytes[3] \in 0..((Base * Base) * Base - 1)
    BY <1>2, <2>1, <2>2, Weights
  <2>4. ((bytes[1] * Base + bytes[2]) * Base + bytes[3]) * Base + bytes[4]
           \in 0..(((Base * Base) * Base) * Base - 1)
    BY <1>2, <2>1, <2>3, Weights
  <2> QED
    BY <1>5, <2>1, <2>4, Weights
<1> QED
  BY <1>3, <1>4, <1>5

(* Whatever its bytes, a reader stays in the limits of its encoding.        *)
LEMMA ReaderIn ==
    ASSUME NEW enc, EncSize[enc] \in {1, 2, 4}, NEW bytes, DOMAIN bytes = 1..EncSize[enc],
           \A i \in 1..EncSize[enc] : bytes[i] \in 0..(Base - 1)
    PROVE  Reader(bytes, enc) \in Lo(enc)..Hi(enc)
<1>1. PICK w \in Nat, m \in Nat :
               /\ w = Weight[EncSize[enc]] /\ w = 2 * m /\ m > 0
               /\ enc \in SignedEncodings => Lo(enc) = -m /\ Hi(enc) = m - 1
               /\ enc \notin SignedEncodings => Lo(enc) = 0 /\ Hi(enc) = w - 1
  BY Limits
<1>2. PICK n : n = Number(bytes) /\ n \in 0..(w - 1)
  BY <1>1, NumberBelow
<1>3. CASE enc \in SignedEncodings
  <2>1. Reader(bytes, enc) = IF 2 * n >= w THEN n - w ELSE n
    BY <1>1, <1>2, <1>3 DEF Reader, Signed
  <2> QED
    BY <1>1, <1>2, <1>3, <2>1
<1>4. CASE enc \notin SignedEncodings
  <2>1. Reader(bytes, enc) = n
    BY <1>2, <1>4 DEF Reader
  <2> QED
    BY <1>1, <1>2, <1>4, <2>1
<1> QED
  BY <1>3, <1>4

(* n modulo w, of a number between -w and w. *)
LEMMA Wrapped ==
    ASSUME NEW w \in Nat, w > 0, NEW n \in (-w)..(w - 1)
    PROVE  n % w = IF n >= 0 THEN n ELSE n + w
<1>1. CASE n >= 0
  <2>1. n = 0 * w + n /\ n \in 0..(w - 1)
    BY <1>1
  <2>2. (0 * w + n) % w = n
    BY <2>1, RemainderIs
  <2> QED
    BY <1>1, <2>1, <2>2
<1>2. CASE n < 0
  <2>1. PICK r \in 0..(w - 1) : r = n + w
    BY <1>2
  <2>2. n = (-1) * w + r
    BY <2>1
  <2>3. ((-1) * w + r) % w = r
    BY RemainderIs
  <2> QED
    BY <1>2, <2>1, <2>2, <2>3
<1> QED
  BY <1>1, <1>2

(* What a field carries is read back as it was written. *)
LEMMA ReaderOfDigits ==
    ASSUME NEW enc, EncSize[enc] \in {1, 2, 4}, NEW n \in Lo(enc)..Hi(enc)
    PROVE  Reader(Digits(n, EncSize[enc]), enc) = n
<1>1. PICK w \in Nat, m \in Nat :
               /\ w = Weight[EncSize[enc]] /\ w = 2 * m /\ m > 0
               /\ enc \in SignedEncodings => Lo(enc) = -m /\ Hi(enc) = m - 1
               /\ enc \notin SignedEncodings => Lo(enc) = 0 /\ Hi(enc) = w - 1
  BY Limits
<1>2. n \in Int /\ n \in (-w)..(w - 1)
  BY <1>1
<1>3. Number(Digits(n, EncSize[enc])) = n % w
  BY <1>1, <1>2, NumberOfDigits
<1>4. n % w = IF n >= 0 THEN n ELSE n + w
  BY <1>1, <1>2, Wrapped
<1>5. CASE enc \in SignedEncodings
  <2>1. PICK r \in Int : r = n % w /\ r = IF n >= 0 THEN n ELSE n + w
    BY <1>1, <1>2, <1>4
  <2>2. Reader(Digits(n, EncSize[enc]), enc) = IF 2 * r >= w THEN r - w ELSE r
    BY <1>1, <1>3, <1>5, <2>1 DEF Reader, Signed
  <2> QED
    BY <1>1, <1>2, <1>5, <2>1, <2>2
<1>6. CASE enc \notin SignedEncodings
  BY <1>1, <1>3, <1>4, <1>6 DEF Reader
<1> QED
  BY <1>5, <1>6

-----------------------------------------------------------------------------
(* From the registers of the device to what the node decodes.              *)

LEMMA PairJoined ==
    ASSUME NEW p, NEW q, p \in Seq(Int), q \in Seq(Int), DOMAIN p = 1..2, DOMAIN q = 1..2
    PROVE  /\ (p \o q)[1] = p[1] /\ (p \o q)[2] = p[2] /\ (p \o q)[3] = q[1] /\ (p \o q)[4] = q[2]
<1>1. ASSUME NEW s \in Seq(Int), DOMAIN s = 1..2
      PROVE  Len(s) = 2
  <2>1. Len(s) \in Nat /\ DOMAIN s = 1..Len(s)
    OBVIOUS
  <2>2. 2 \in 1..Len(s)
    BY <1>1, <2>1
  <2>3. Len(s) \in 1..2
    BY <1>1, <2>1, <2>2
  <2> QED
    BY <2>2, <2>3
<1>2. Len(p) = 2 /\ Len(q) = 2
  BY <1>1
<1>3. \A i \in 1..(Len(p) + Len(q)) : (p \o q)[i] = IF i <= Len(p) THEN p[i] ELSE q[i - Len(p)]
  BY ConcatProperties
<1>4. PICK r : r = p \o q
  OBVIOUS
<1>5. \A i \in 1..4 : r[i] = IF i <= 2 THEN p[i] ELSE q[i - 2]
  <2>1. Len(p) + Len(q) = 4
    BY <1>2
  <2>2. \A i \in 1..4 : r[i] = IF i <= Len(p) THEN p[i] ELSE q[i - Len(p)]
    BY <1>3, <1>4, <2>1, Zenon
  <2> QED
    BY <1>2, <2>2, Zenon
<1>6. r[1] = p[1] /\ r[2] = p[2] /\ r[3] = q[1] /\ r[4] = q[2]
  BY <1>5
<1> QED
  BY <1>4, <1>6

LEMMA PlacesTyped ==
    ASSUME NEW order \in WordOrders
    PROVE  \A k \in 1..4 : ByteOrder[order][k] \in {1, 2, 3, 4}
<1>1. order \in {"ABCD", "CDAB", "BADC", "DCBA"}
  BY DEF WordOrders, ByteOrder
<1>2. \A k \in 1..4 : k \in {1, 2, 3, 4}
  OBVIOUS
<1> QED
  BY <1>1, <1>2 DEF ByteOrder

(* The words a and b, c and d put together in an order.                     *)
LEMMA AssembledWords ==
    ASSUME NEW a \in 0..(Base - 1), NEW b \in 0..(Base - 1), NEW c \in 0..(Base - 1), NEW d \in 0..(Base - 1),
           NEW order \in WordOrders
    PROVE  Assembled(<<a * Base + b, c * Base + d>>, order) =
               Number([k \in 1..4 |-> <<a, b, c, d>>[ByteOrder[order][k]]])
<1> DEFINE p == Digits(a * Base + b, 2)  q == Digits(c * Base + d, 2)  bytes == p \o q
<1>1. /\ DOMAIN p = 1..2 /\ p[1] = a /\ p[2] = b
      /\ DOMAIN q = 1..2 /\ q[1] = c /\ q[2] = d
  BY DigitsOfPair
<1>2. p = [k \in 1..2 |-> p[k]] /\ q = [k \in 1..2 |-> q[k]]
  BY DEF Digits
<1>3. Assembled(<<a * Base + b, c * Base + d>>, order) = Number([k \in 1..4 |-> bytes[ByteOrder[order][k]]])
  BY DEF Assembled
<1> HIDE DEF p, q
<1>4. p \in Seq(Int) /\ q \in Seq(Int)
  <2>1. \A k \in 1..2 : k = 1 \/ k = 2
    OBVIOUS
  <2>2. \A k \in 1..2 : p[k] \in Int /\ q[k] \in Int
    BY <1>1, <2>1, Weights
  <2> QED
    BY <1>2, <2>2
<1>5. bytes[1] = a /\ bytes[2] = b /\ bytes[3] = c /\ bytes[4] = d
  <2>1. /\ (p \o q)[1] = p[1] /\ (p \o q)[2] = p[2] /\ (p \o q)[3] = q[1] /\ (p \o q)[4] = q[2]
    BY <1>1, <1>4, PairJoined
  <2> QED
    BY <1>1, <2>1
<1>6. \A k \in 1..4 : ByteOrder[order][k] \in {1, 2, 3, 4}
  BY PlacesTyped
<1> HIDE DEF bytes
<1>7. \A j \in {1, 2, 3, 4} : bytes[j] = <<a, b, c, d>>[j]
  BY <1>5
<1>8. [k \in 1..4 |-> bytes[ByteOrder[order][k]]] = [k \in 1..4 |-> <<a, b, c, d>>[ByteOrder[order][k]]]
  BY <1>6, <1>7
<1> QED
  BY <1>3, <1>8

(* Two registers are put together as the device laid them out. *)
LEMMA AssembledLaid ==
    ASSUME NEW n \in Int, NEW device, device.order \in WordOrders, Registers(device.type) # 1
    PROVE  Assembled(Laid(n, device), device.order) = n % Weight[4]
<1>1. PICK a \in 0..(Base - 1), b \in 0..(Base - 1), c \in 0..(Base - 1), d \in 0..(Base - 1) :
          Digits(n, 4)[1] = a /\ Digits(n, 4)[2] = b /\ Digits(n, 4)[3] = c /\ Digits(n, 4)[4] = d
  <2>1. \A k \in {1, 2, 3, 4} : k \in 1..4
    OBVIOUS
  <2>2. \A k \in 1..4 : Digits(n, 4)[k] \in 0..(Base - 1)
    BY DigitsTyped
  <2> QED
    BY <2>1, <2>2
<1>2. Number(<<a, b, c, d>>) = n % Weight[4]
  <2>1. DOMAIN Digits(n, 4) = 1..4
    BY DigitsTyped
  <2>2. \A k \in 1..4 : k \in {1, 2, 3, 4}
    OBVIOUS
  <2>3. Digits(n, 4) = [k \in 1..4 |-> Digits(n, 4)[k]]
    BY DEF Digits
  <2>4. Digits(n, 4) = <<a, b, c, d>>
    BY <1>1, <2>2, <2>3
  <2> QED
    BY <2>4, NumberOfDigits
<1>3. CASE device.order = "ABCD"
  <2>1. Laid(n, device) = <<a * Base + b, c * Base + d>>
    BY <1>1, <1>3 DEF Laid
  <2>2. [k \in 1..4 |-> <<a, b, c, d>>[ByteOrder["ABCD"][k]]] = <<a, b, c, d>>
    BY DEF ByteOrder
  <2> QED
    BY <1>2, <1>3, <2>1, <2>2, AssembledWords
<1>4. CASE device.order = "CDAB"
  <2>1. Laid(n, device) = <<c * Base + d, a * Base + b>>
    BY <1>1, <1>4 DEF Laid
  <2>2. [k \in 1..4 |-> <<c, d, a, b>>[ByteOrder["CDAB"][k]]] = <<a, b, c, d>>
    BY DEF ByteOrder
  <2> QED
    BY <1>2, <1>4, <2>1, <2>2, AssembledWords
<1>5. CASE device.order = "BADC"
  <2>1. Laid(n, device) = <<b * Base + a, d * Base + c>>
    BY <1>1, <1>5 DEF Laid
  <2>2. [k \in 1..4 |-> <<b, a, d, c>>[ByteOrder["BADC"][k]]] = <<a, b, c, d>>
    BY DEF ByteOrder
  <2> QED
    BY <1>2, <1>5, <2>1, <2>2, AssembledWords
<1>6. CASE device.order = "DCBA"
  <2>1. Laid(n, device) = <<d * Base + c, b * Base + a>>
    BY <1>1, <1>6 DEF Laid
  <2>2. [k \in 1..4 |-> <<d, c, b, a>>[ByteOrder["DCBA"][k]]] = <<a, b, c, d>>
    BY DEF ByteOrder
  <2> QED
    BY <1>2, <1>6, <2>1, <2>2, AssembledWords
<1>7. device.order \in {"ABCD", "CDAB", "BADC", "DCBA"}
  BY DEF WordOrders, ByteOrder
<1> QED
  BY <1>3, <1>4, <1>5, <1>6, <1>7

LEMMA SignedWraps ==
    ASSUME NEW size \in {2, 4}, NEW m \in Nat, m > 0, Weight[size] = 2 * m, NEW n \in (-m)..(m - 1)
    PROVE  /\ Signed(n % Weight[size], size) = n
           /\ 2 * (n % Weight[size]) = Weight[size] <=> 2 * n = -Weight[size]
<1> DEFINE w == Weight[size]  k == n % w
<1>1. w \in Nat /\ w > 0 /\ w = 2 * m
  OBVIOUS
<1>2. n \in (-w)..(w - 1)
  BY <1>1
<1> HIDE DEF w
<1>3. k = IF n >= 0 THEN n ELSE n + w
  BY <1>1, <1>2, Wrapped
<1> HIDE DEF k
<1>4. (IF 2 * k >= w THEN k - w ELSE k) = n
  BY <1>1, <1>3
<1>5. 2 * k = w <=> 2 * n = -w
  BY <1>1, <1>3
<1> QED
  BY <1>4, <1>5 DEF Signed, k, w

(* One register or two, the node reads the number that the device holds. *)
LEMMA RawLaid ==
    ASSUME NEW device, device.type \in Types, device.order \in WordOrders, NEW n \in Holds(device.type)
    PROVE  /\ n \in Int
           /\ device.type # "float32" => RawAs(Laid(n, device), device.type, device.order) = Single(Unit * n)
           /\ device.type = "float32" =>
                  RawAs(Laid(n, device), device.type, device.order) =
                      IF 2 * n = -Weight[4] THEN NaN ELSE (n * Unit) \div 2
<1> DEFINE regs == Laid(n, device)
<1>1. PICK m2 \in Nat : Weight[2] = 2 * m2 /\ m2 > 0
  BY WeightsEven
<1>2. PICK m4 \in Nat : Weight[4] = 2 * m4 /\ m4 > 0
  BY WeightsEven
<1>3. /\ Lo("i16") = -m2 /\ Hi("i16") = m2 - 1 /\ Lo("u16") = 0 /\ Hi("u16") = Weight[2] - 1
      /\ Lo("i32") = -m4 /\ Hi("i32") = m4 - 1 /\ Lo("u32") = 0 /\ Hi("u32") = Weight[4] - 1
  <2>1. (2 * m2) \div 2 = m2 /\ (2 * m4) \div 2 = m4
    OBVIOUS
  <2> QED
    BY <1>1, <1>2, <2>1 DEF Lo, Hi, EncSize, SignedEncodings
<1>4. CASE device.type = "u16"
  <2>1. n \in 0..(Weight[2] - 1)
    BY <1>3, <1>4 DEF Holds
  <2>2. n \in Int /\ n % Weight[2] = n
    BY <1>1, <2>1, Wrapped
  <2>3. regs[1] = n
    BY <1>4, <2>2 DEF Laid, Registers
  <2> HIDE DEF regs
  <2>4. RawAs(regs, "u16", device.order) = Single(Unit * n)
    BY <2>3 DEF RawAs, Registers
  <2> QED
    BY <1>4, <2>2, <2>4 DEF regs
<1>5. CASE device.type = "i16"
  <2>1. n \in (-m2)..(m2 - 1)
    BY <1>3, <1>5 DEF Holds
  <2>2. n \in Int /\ Signed(n % Weight[2], 2) = n
    BY <1>1, <2>1, SignedWraps
  <2>3. regs[1] = n % Weight[2]
    BY <1>5 DEF Laid, Registers
  <2> HIDE DEF regs
  <2>4. RawAs(regs, "i16", device.order) = Single(Unit * Signed(n % Weight[2], 2))
    BY <2>3 DEF RawAs, Registers
  <2> QED
    BY <1>5, <2>2, <2>4 DEF regs
<1>6. CASE device.type = "u32"
  <2>1. n \in 0..(Weight[4] - 1)
    BY <1>3, <1>6 DEF Holds
  <2>2. n \in Int /\ n % Weight[4] = n
    BY <1>2, <2>1, Wrapped
  <2>3. Registers(device.type) # 1
    BY <1>6 DEF Registers
  <2>4. Assembled(regs, device.order) = n
    BY <2>2, <2>3, AssembledLaid
  <2> HIDE DEF regs
  <2>5. RawAs(regs, "u32", device.order) = Single(Unit * n)
    BY <2>4 DEF RawAs, Registers
  <2> QED
    BY <1>6, <2>2, <2>5 DEF regs
<1>7. CASE device.type = "i32"
  <2>1. n \in (-m4)..(m4 - 1)
    BY <1>3, <1>7 DEF Holds
  <2>2. n \in Int /\ Signed(n % Weight[4], 4) = n
    BY <1>2, <2>1, SignedWraps
  <2>3. Registers(device.type) # 1
    BY <1>7 DEF Registers
  <2>4. Assembled(regs, device.order) = n % Weight[4]
    BY <2>2, <2>3, AssembledLaid
  <2> HIDE DEF regs
  <2>5. RawAs(regs, "i32", device.order) = Single(Unit * Signed(n % Weight[4], 4))
    BY <2>4 DEF RawAs, Registers
  <2> QED
    BY <1>7, <2>2, <2>5 DEF regs
<1>8. CASE device.type = "float32"
  <2>1. n \in (-m4)..(m4 - 1)
    BY <1>3, <1>8 DEF Holds
  <2>2. /\ n \in Int /\ Signed(n % Weight[4], 4) = n
        /\ 2 * (n % Weight[4]) = Weight[4] <=> 2 * n = -Weight[4]
    BY <1>2, <2>1, SignedWraps
  <2>3. Registers(device.type) # 1
    BY <1>8 DEF Registers
  <2>4. Assembled(regs, device.order) = n % Weight[4]
    BY <2>2, <2>3, AssembledLaid
  <2> HIDE DEF regs
  <2>5. RawAs(regs, "float32", device.order) = FloatOf(n % Weight[4])
    BY <2>4 DEF RawAs
  <2>6. FloatOf(n % Weight[4]) = IF 2 * n = -Weight[4] THEN NaN ELSE (n * Unit) \div 2
    BY <2>2 DEF FloatOf
  <2> QED
    BY <1>8, <2>2, <2>5, <2>6 DEF regs
<1> QED
  BY <1>4, <1>5, <1>6, <1>7, <1>8 DEF Types

(* What the registers say, times 1/Unit: of a float that is a number. *)
Exactly(n, type) == IF type = "float32" THEN (n * Unit) \div 2 ELSE n * Unit

LEMMA ExactlyInt ==
    ASSUME NEW n \in Int, NEW type
    PROVE  Exactly(n, type) \in Int
<1>1. n * Unit \in Int
  BY UnitHalf
<1>2. (n * Unit) \div 2 \in Int
  BY <1>1
<1> QED
  BY <1>1, <1>2 DEF Exactly

(* What the node decodes: two floats on the way, after scale and offset.    *)
LEMMA DecodedLaid ==
    ASSUME NEW device, device.type \in Types, device.order \in WordOrders, NEW n \in Holds(device.type),
           NEW scale \in Int, NEW offset \in Int
    PROVE  LET v == Decoded(Laid(n, device), device.type, device.order, scale, offset)
               x == Exactly(n, device.type)
               nan == device.type = "float32" /\ 2 * n = -Weight[4]
           IN  /\ nan => v = NaN
               /\ ~nan /\ device.type = "float32" => v = Single(Single((x * scale) \div Unit) + offset)
               /\ ~nan /\ device.type # "float32" => v = Single(Single((Single(x) * scale) \div Unit) + offset)
<1> DEFINE raw == RawAs(Laid(n, device), device.type, device.order)
<1>1. /\ n \in Int
      /\ device.type # "float32" => raw = Single(Unit * n)
      /\ device.type = "float32" => raw = IF 2 * n = -Weight[4] THEN NaN ELSE (n * Unit) \div 2
  BY RawLaid
<1>2. Decoded(Laid(n, device), device.type, device.order, scale, offset) =
         IF raw = NaN THEN NaN ELSE Single(Single((raw * scale) \div Unit) + offset)
  BY DEF Decoded, Times
<1> HIDE DEF raw
<1>3. /\ Unit * n \in Int /\ Unit * n = n * Unit /\ Single(Unit * n) \in Int
      /\ (n * Unit) \div 2 \in Int
  <2>1. Unit * n \in Int /\ Unit * n = n * Unit /\ (n * Unit) \div 2 \in Int
    BY <1>1, UnitHalf
  <2> QED
    BY <2>1, SingleInt
<1>4. NaN \notin Int
  BY FixedPointAssumption
<1>5. CASE device.type # "float32"
  BY <1>1, <1>2, <1>3, <1>4, <1>5 DEF Exactly
<1>6. CASE device.type = "float32"
  BY <1>1, <1>2, <1>3, <1>4, <1>6 DEF Exactly
<1> QED
  BY <1>5, <1>6

(* What rises or falls like n keeps the order of n * s.                     *)
LEMMA FactorRises ==
    ASSUME NEW a \in Int, NEW b \in Int, NEW x \in Int, NEW y \in Int, NEW s \in Int,
           a * s <= b * s, a <= b => x <= y, b <= a => y <= x
    PROVE  x * s <= y * s
<1>1. \A p \in Int, q \in Int, t \in Nat : p <= q => p * t <= q * t
  OBVIOUS
<1>2. \A p \in Int, q \in Int, t \in Nat : t > 0 /\ p * t <= q * t => p <= q
  OBVIOUS
<1>3. CASE s = 0
  BY <1>3
<1>4. CASE s > 0
  <2>1. a <= b
    BY <1>2, <1>4
  <2> QED
    BY <1>1, <1>4, <2>1
<1>5. CASE s < 0
  <2>1. -s \in Nat /\ -s > 0
    BY <1>5
  <2>2. \A p \in Int : p * (-s) = -(p * s)
    OBVIOUS
  <2>3. b * (-s) <= a * (-s)
    BY <2>2
  <2>4. b <= a
    BY <1>2, <2>1, <2>3
  <2>5. y * (-s) <= x * (-s)
    BY <1>1, <2>1, <2>4
  <2>6. y * (-s) = -(y * s) /\ x * (-s) = -(x * s)
    BY <2>2
  <2> QED
    BY <2>5, <2>6
<1> QED
  BY <1>3, <1>4, <1>5

(* What the node decodes rises with what the meter displays, if it has the  *)
(* right idea of the register.                                              *)
LEMMA DecodedRises ==
    ASSUME NEW device, device.type \in Types, device.order \in WordOrders,
           NEW n \in Holds(device.type), NEW m \in Holds(device.type),
           NEW scale \in Int, NEW offset \in Int,
           ~(device.type = "float32" /\ 2 * n = -Weight[4]),
           ~(device.type = "float32" /\ 2 * m = -Weight[4]),
           (Exactly(n, device.type) * scale) \div Unit + offset
               <= (Exactly(m, device.type) * scale) \div Unit + offset
    PROVE  LET v == Decoded(Laid(n, device), device.type, device.order, scale, offset)
               w == Decoded(Laid(m, device), device.type, device.order, scale, offset)
           IN  v \in Int /\ w \in Int /\ v <= w
<1> DEFINE v == Decoded(Laid(n, device), device.type, device.order, scale, offset)
           w == Decoded(Laid(m, device), device.type, device.order, scale, offset)
           x == Exactly(n, device.type)
           y == Exactly(m, device.type)
<1>1. n \in Int /\ m \in Int
  BY RawLaid
<1>2. x \in Int /\ y \in Int
  BY <1>1, ExactlyInt
<1>3. /\ device.type = "float32" => /\ v = Single(Single((x * scale) \div Unit) + offset)
                                    /\ w = Single(Single((y * scale) \div Unit) + offset)
      /\ device.type # "float32" => /\ v = Single(Single((Single(x) * scale) \div Unit) + offset)
                                    /\ w = Single(Single((Single(y) * scale) \div Unit) + offset)
  BY DecodedLaid
<1>4. x * scale \in Int /\ y * scale \in Int /\ (x * scale) \div Unit \in Int /\ (y * scale) \div Unit \in Int
  <2>1. x * scale \in Int /\ y * scale \in Int
    BY <1>2
  <2> QED
    BY <2>1, UnitHalf
<1>5. (x * scale) \div Unit <= (y * scale) \div Unit
  <2> HIDE DEF x, y
  <2>1. (x * scale) \div Unit + offset <= (y * scale) \div Unit + offset
    BY DEF x, y
  <2> QED
    BY <1>4, <2>1
<1>6. ASSUME NEW a \in Int, NEW b \in Int, a <= b
      PROVE  /\ Single(Single(a) + offset) \in Int /\ Single(Single(b) + offset) \in Int
             /\ Single(Single(a) + offset) <= Single(Single(b) + offset)
  <2>1. Single(a) \in Int /\ Single(b) \in Int /\ Single(a) <= Single(b)
    BY <1>6, SingleInt, SingleMonotone
  <2>2. Single(a) + offset \in Int /\ Single(b) + offset \in Int /\ Single(a) + offset <= Single(b) + offset
    BY <2>1
  <2> QED
    BY <2>2, SingleInt, SingleMonotone
<1>7. ASSUME device.type = "float32"
      PROVE  v \in Int /\ w \in Int /\ v <= w
  <2> HIDE DEF v, w, x, y
  <2> QED
    BY <1>3, <1>4, <1>5, <1>6, <1>7
<1>8. ASSUME device.type # "float32"
      PROVE  v \in Int /\ w \in Int /\ v <= w
  <2>1. x = n * Unit /\ y = m * Unit
    BY <1>8 DEF Exactly
  <2> HIDE DEF v, w, x, y
  <2>2. (x * scale) \div Unit = n * scale /\ (y * scale) \div Unit = m * scale
    <3>1. ASSUME NEW k \in Int
          PROVE  ((k * Unit) * scale) \div Unit = k * scale
      <4>1. k * scale \in Int /\ (k * Unit) * scale = (k * scale) * Unit + 0
        BY UnitHalf
      <4>2. 0 \in 0..(Unit - 1)
        BY UnitHalf
      <4> QED
        BY <4>1, <4>2, RemainderIs, UnitHalf
    <3> QED
      BY <1>1, <2>1, <3>1
  <2>3. n * scale <= m * scale
    BY <1>5, <2>2
  <2>4. Single(x) \in Int /\ Single(y) \in Int
    BY <1>2, SingleInt
  <2>5. ASSUME NEW a \in Int, NEW b \in Int, a <= b
        PROVE  Single(a * Unit) <= Single(b * Unit)
    <3>1. a * Unit \in Int /\ b * Unit \in Int /\ a * Unit <= b * Unit
      BY <2>5, ScalesUp, UnitHalf
    <3> QED
      BY <3>1, SingleMonotone
  <2>6. Single(x) * scale <= Single(y) * scale
    <3>1. (n <= m => Single(x) <= Single(y)) /\ (m <= n => Single(y) <= Single(x))
      BY <1>1, <2>1, <2>5
    <3> QED
      BY <1>1, <2>3, <2>4, <3>1, FactorRises
  <2>7. Single(x) * scale \in Int /\ Single(y) * scale \in Int
    BY <2>4
  <2>8. /\ (Single(x) * scale) \div Unit \in Int /\ (Single(y) * scale) \div Unit \in Int
        /\ (Single(x) * scale) \div Unit <= (Single(y) * scale) \div Unit
    BY <2>6, <2>7, UnitQuotient
  <2> HIDE DEF v, w, x, y
  <2> QED
    BY <1>3, <1>6, <1>8, <2>8
<1> QED
  BY <1>7, <1>8

(* Whatever a node takes a register for, it decodes a number or a NaN. *)
LEMMA DecodedTyped ==
    ASSUME NEW device, device.order \in WordOrders, NEW n \in Int,
           NEW type \in Types, NEW order \in WordOrders, NEW scale \in Int, NEW offset \in Int
    PROVE  Decoded(Laid(n, device), type, order, scale, offset) \in Int \cup {NaN}
<1> DEFINE regs == Laid(n, device)
           raw == RawAs(regs, type, order)
<1>1. regs[1] \in Int /\ regs[2] \in Int
  <2>1. \A k \in 1..4 : Digits(n, 4)[k] \in Int
    <3>1. \A k \in 1..4 : Digits(n, 4)[k] \in 0..(Base - 1)
      BY DigitsTyped
    <3> QED
      BY <3>1, Weights
  <2>2. /\ Digits(n, 4)[1] \in Int /\ Digits(n, 4)[2] \in Int
        /\ Digits(n, 4)[3] \in Int /\ Digits(n, 4)[4] \in Int
    BY <2>1
  <2>3. device.order \in {"ABCD", "CDAB", "BADC", "DCBA"}
    BY DEF WordOrders, ByteOrder
  <2>4. n % Weight[2] \in Int
    BY Weights
  <2>5. \A a, b \in Int : a * Base + b \in Int
    BY Weights
  <2>6. CASE Registers(device.type) = 1
    BY <2>4, <2>6 DEF Laid
  <2>7. CASE Registers(device.type) # 1
    <3>1. PICK d : d = Digits(n, 4)
      OBVIOUS
    <3>2. d[1] \in Int /\ d[2] \in Int /\ d[3] \in Int /\ d[4] \in Int
      BY <2>2, <3>1
    <3>3. ASSUME NEW e, NEW f, NEW g, NEW h, regs = <<e * Base + f, g * Base + h>>,
                 e \in Int, f \in Int, g \in Int, h \in Int
          PROVE  regs[1] \in Int /\ regs[2] \in Int
      BY <2>5, <3>3
    <3>4. CASE device.order = "ABCD"
      <4>1. regs = <<d[1] * Base + d[2], d[3] * Base + d[4]>>
        BY <2>7, <3>1, <3>4 DEF Laid
      <4> HIDE DEF regs
      <4> QED
        BY <3>2, <3>3, <4>1
    <3>5. CASE device.order = "CDAB"
      <4>1. regs = <<d[3] * Base + d[4], d[1] * Base + d[2]>>
        BY <2>7, <3>1, <3>5 DEF Laid
      <4> HIDE DEF regs
      <4> QED
        BY <3>2, <3>3, <4>1
    <3>6. CASE device.order = "BADC"
      <4>1. regs = <<d[2] * Base + d[1], d[4] * Base + d[3]>>
        BY <2>7, <3>1, <3>6 DEF Laid
      <4> HIDE DEF regs
      <4> QED
        BY <3>2, <3>3, <4>1
    <3>7. CASE device.order = "DCBA"
      <4>1. regs = <<d[4] * Base + d[3], d[2] * Base + d[1]>>
        BY <2>7, <3>1, <3>7 DEF Laid
      <4> HIDE DEF regs
      <4> QED
        BY <3>2, <3>3, <4>1
    <3> QED
      BY <2>3, <3>4, <3>5, <3>6, <3>7
  <2> QED
    BY <2>6, <2>7
<1> HIDE DEF regs
<1>2. Assembled(regs, order) \in Int
  <2> DEFINE p == Digits(regs[1], 2)  q == Digits(regs[2], 2)  bytes == p \o q
             sorted == [k \in 1..4 |-> bytes[ByteOrder[order][k]]]
  <2>1. /\ DOMAIN p = 1..2 /\ \A k \in 1..2 : p[k] \in 0..(Base - 1)
        /\ DOMAIN q = 1..2 /\ \A k \in 1..2 : q[k] \in 0..(Base - 1)
    BY <1>1, DigitsTyped
  <2>2. p = [k \in 1..2 |-> p[k]] /\ q = [k \in 1..2 |-> q[k]]
    BY DEF Digits
  <2>3. Assembled(regs, order) = Number(sorted)
    BY DEF Assembled
  <2> HIDE DEF p, q
  <2>4. p \in Seq(Int) /\ q \in Seq(Int)
    <3>1. \A k \in 1..2 : p[k] \in Int /\ q[k] \in Int
      BY <2>1, Weights
    <3> QED
      BY <2>2, <3>1
  <2>5. bytes[1] = p[1] /\ bytes[2] = p[2] /\ bytes[3] = q[1] /\ bytes[4] = q[2]
    BY <2>1, <2>4, PairJoined
  <2>6. \A j \in {1, 2, 3, 4} : bytes[j] \in 0..(Base - 1)
    <3>1. p[1] \in 0..(Base - 1) /\ p[2] \in 0..(Base - 1) /\ q[1] \in 0..(Base - 1) /\ q[2] \in 0..(Base - 1)
      BY <2>1
    <3> QED
      BY <2>5, <3>1
  <2>7. \A k \in 1..4 : ByteOrder[order][k] \in {1, 2, 3, 4}
    BY PlacesTyped
  <2> HIDE DEF bytes
  <2>8. DOMAIN sorted = 1..4 /\ \A k \in 1..4 : sorted[k] \in 0..(Base - 1)
    BY <2>6, <2>7
  <2> HIDE DEF sorted
  <2>9. Number(sorted) \in 0..(Weight[4] - 1)
    BY <2>8, NumberBelow
  <2> QED
    BY <2>3, <2>9, Weights
<1>3. \A e \in {2, 4} : \A k \in Int : Signed(k, e) \in Int
  BY Weights DEF Signed
<1>4. raw \in Int \cup {NaN}
  <2>1. CASE type = "float32"
    <3>1. raw = FloatOf(Assembled(regs, order))
      BY <2>1 DEF RawAs
    <3>2. Signed(Assembled(regs, order), 4) * Unit \in Int
      BY <1>2, <1>3, UnitHalf
    <3>3. (Signed(Assembled(regs, order), 4) * Unit) \div 2 \in Int
      BY <3>2
    <3> QED
      BY <3>1, <3>3 DEF FloatOf
  <2>2. CASE type # "float32"
    <3>1. PICK n1 : n1 = IF Registers(type) = 2 THEN Assembled(regs, order) ELSE regs[1]
      OBVIOUS
    <3>2. n1 \in Int /\ Signed(n1, 2 * Registers(type)) \in Int
      <4>1. n1 \in Int
        BY <1>1, <1>2, <3>1
      <4>2. Registers(type) \in {1, 2}
        BY DEF Registers
      <4>3. 2 * Registers(type) \in {2, 4}
        BY <4>2
      <4> QED
        BY <1>3, <4>1, <4>3
    <3>3. PICK k \in Int : raw = Single(Unit * k)
      BY <2>2, <3>1, <3>2 DEF RawAs
    <3>4. Unit * k \in Int
      BY UnitHalf
    <3> QED
      BY <3>3, <3>4, SingleInt
  <2> QED
    BY <2>1, <2>2
<1>5. Decoded(regs, type, order, scale, offset) =
         IF raw = NaN THEN NaN ELSE Single(Single((raw * scale) \div Unit) + offset)
  BY DEF Decoded, Times
<1> HIDE DEF raw
<1>6. ASSUME raw # NaN
      PROVE  Single(Single((raw * scale) \div Unit) + offset) \in Int
  <2>1. raw * scale \in Int
    BY <1>4, <1>6
  <2>2. (raw * scale) \div Unit \in Int
    BY <2>1, UnitHalf
  <2>3. Single((raw * scale) \div Unit) + offset \in Int
    BY <2>2, SingleInt
  <2> QED
    BY <2>3, SingleInt
<1>7. Decoded(regs, type, order, scale, offset) \in Int \cup {NaN}
  BY <1>5, <1>6
<1> QED
  BY <1>7 DEF regs

-----------------------------------------------------------------------------
(* How near to a number the field of its float is.                         *)

LEMMA SinglePositive ==
    ASSUME NEW x \in Nat
    PROVE  Single(x) \in Nat /\ (x > 0 => Single(x) > 0) /\ (x < Bound => Single(x) = x)
<1>1. x < Bound => Single(x) = x
  BY SmallSingle DEF Magnitude
<1>2. Single(x) \in Int /\ Single(x) >= 0 /\ (x >= Bound => Single(x) >= Bound)
  BY SingleInt
<1> QED
  BY <1>1, <1>2, BoundNat

LEMMA QuotientOf ==
    ASSUME NEW x \in Int
    PROVE  /\ x \div Unit \in Int /\ (x \div Unit) * Unit \in Int
           /\ (x \div Unit) * Unit <= x /\ x < (x \div Unit) * Unit + Unit
<1>1. x \div Unit \in Int /\ x % Unit \in 0..(Unit - 1) /\ x = (x \div Unit) * Unit + (x % Unit)
  BY UnitHalf, Division
<1>2. \A q \in Int : q * Unit \in Int
  BY UnitHalf
<1>3. (x \div Unit) * Unit \in Int
  BY <1>1, <1>2
<1>4. PICK q \in Int : q = (x \div Unit) * Unit
  BY <1>3
<1>5. x = q + (x % Unit) /\ x % Unit \in Int /\ 0 <= x % Unit /\ x % Unit < Unit
  BY <1>1, <1>4, UnitHalf
<1>6. q <= x /\ x < q + Unit
  BY <1>5, UnitHalf
<1> QED
  BY <1>1, <1>4, <1>6

LEMMA QuotientAtLeast ==
    ASSUME NEW x \in Int, NEW k \in Int, x >= k * Unit
    PROVE  x \div Unit >= k
<1>1. k * Unit \in Int /\ k * Unit = k * Unit + 0 /\ 0 \in 0..(Unit - 1)
  BY UnitHalf
<1>2. (k * Unit) \div Unit = k
  BY <1>1, RemainderIs, UnitHalf
<1> QED
  BY <1>1, <1>2, UnitQuotient

(* A number that is not negative, rounded on its way to a field of scale s. *)
Onward(d, s) == Single(Single(Single(d) * s) + Half)

LEMMA OnwardIs ==
    ASSUME NEW d \in Nat, NEW s \in Nat
    PROVE  /\ Onward(d, s) \in Nat /\ Onward(d, s) > 0 /\ d * s \in Nat
           /\ d * s < Bound => /\ Onward(d, s) \div Unit = (d * s + Half) \div Unit
                               /\ Onward(d, s) <= Bound
           /\ d * s >= Bound => Onward(d, s) >= Bound
<1> DEFINE x == d * s  y == Single(d) * s  t == Onward(d, s)
<1>1. \A a \in Nat, b \in Nat : a * b \in Nat /\ (b = 0 => a * b = 0) /\ (b > 0 => a * b >= a)
  OBVIOUS
<1>2. Single(d) \in Nat /\ (d < Bound => Single(d) = d) /\ (d >= Bound => Single(d) >= Bound)
  BY SinglePositive, SingleInt
<1>3. x \in Nat /\ y \in Nat /\ Bound \in Nat /\ Bound > 0
  BY <1>1, <1>2, BoundNat
<1>4. x < Bound => y = x
  <2>1. CASE s = 0
    BY <1>1, <1>2, <2>1
  <2>2. CASE s > 0
    <3>1. x >= d
      BY <1>1, <2>2
    <3> HIDE DEF x
    <3>2. x < Bound => d < Bound
      BY <1>3, <3>1
    <3> QED
      BY <1>2, <3>2 DEF x
  <2> QED
    BY <2>1, <2>2
<1>5. x >= Bound => y >= Bound
  <2>1. s = 0 => x = 0
    BY <1>1
  <2>2. CASE d < Bound
    BY <1>2, <2>2
  <2>3. CASE d >= Bound /\ s > 0
    <3>1. y >= Single(d)
      BY <1>1, <1>2, <2>3
    <3> HIDE DEF y
    <3> QED
      BY <1>2, <1>3, <2>3, <3>1
  <2> HIDE DEF x, y
  <2> QED
    BY <1>3, <2>1, <2>2, <2>3
<1>6. t = Single(Single(y) + Half)
  BY DEF Onward
<1>7. Single(y) \in Nat /\ (y < Bound => Single(y) = y) /\ (y >= Bound => Single(y) >= Bound)
  BY <1>3, SinglePositive, SingleInt
<1> HIDE DEF x, y, t
<1>8. Single(y) + Half \in Nat /\ Single(y) + Half > 0
  BY <1>7, UnitHalf
<1>9. t \in Nat /\ t > 0 /\ (Single(y) + Half >= Bound => t >= Bound)
  BY <1>6, <1>8, SinglePositive, SingleInt
<1>10. x >= Bound => t >= Bound
  BY <1>3, <1>5, <1>7, <1>9, UnitHalf
<1>11. ASSUME x < Bound
       PROVE  t \div Unit = (x + Half) \div Unit /\ t <= Bound
  <2>1. t = Single(x + Half)
    BY <1>4, <1>6, <1>7, <1>11
  <2>2. x + Half \in Nat /\ x + Half < Bound + Unit
    BY <1>3, <1>11, UnitHalf
  <2> QED
    BY <2>1, <2>2, SingleQuotient
<1> QED
  BY <1>3, <1>9, <1>10, <1>11 DEF x, t

LEMMA OnwardNearest ==
    ASSUME NEW d \in Nat, NEW s \in Nat, d * s < Bound
    PROVE  LET q == Onward(d, s) \div Unit
           IN  q \in Nat /\ q * Unit \in Nat /\ q * Unit <= d * s + Half /\ d * s <= q * Unit + Half
<1>1. /\ Onward(d, s) \in Nat /\ d * s \in Nat
      /\ Onward(d, s) \div Unit = (d * s + Half) \div Unit
  BY OnwardIs
<1>2. PICK x \in Nat : x = d * s
  BY <1>1
<1>3. PICK q : q = (x + Half) \div Unit
  OBVIOUS
<1>4. q \in Int /\ q * Unit \in Int /\ q * Unit <= x + Half /\ x + Half < q * Unit + Unit
  BY <1>2, <1>3, QuotientOf, UnitHalf
<1>5. q >= 0
  <2>1. x + Half \in Int /\ x + Half >= 0 /\ x + Half <= x + Half
    BY UnitHalf
  <2> QED
    BY <1>3, <2>1, UnitQuotient
<1>6. q * Unit \in Nat
  BY <1>4, <1>5, UnitHalf
<1>7. PICK k \in Nat : k = q * Unit
  BY <1>6
<1>8. x <= k + Half
  BY <1>4, <1>7, UnitHalf
<1> QED
  BY <1>1, <1>2, <1>3, <1>4, <1>5, <1>6, <1>7, <1>8

(* At a field's limits. *)
LEMMA OnwardAtTop ==
    ASSUME NEW d \in Nat, NEW s \in Nat, NEW max \in Nat, max < Exact \/ max >= 2 * Exact - 1,
           max < Exact \/ d * s < Bound
    PROVE  /\ Onward(d, s) >= Single(max * Unit) => max * Unit <= d * s + Half
           /\ ~(Onward(d, s) >= Single(max * Unit)) => d * s < Bound
<1>1. PICK x \in Nat, t \in Nat :
          /\ x = d * s /\ t = Onward(d, s)
          /\ x < Bound => t \div Unit = (x + Half) \div Unit /\ t <= Bound
          /\ x >= Bound => t >= Bound
  BY OnwardIs
<1>2. max * Unit \in Nat /\ Bound \in Nat /\ Exact \in Nat
  BY UnitHalf, BoundNat, FixedPointAssumption
<1>3. PICK k \in Nat : k = max * Unit
  BY <1>2
<1>4. max < Exact => k < Bound /\ Single(k) = k
  <2>1. ASSUME max < Exact
        PROVE  k < Bound
    <3>1. \A a, b \in Nat, u \in Nat : u > 0 /\ a < b => u * a < u * b /\ u * a = a * u
      OBVIOUS
    <3> QED
      BY <1>2, <1>3, <2>1, <3>1, UnitHalf DEF Bound
  <2> QED
    BY <2>1, SinglePositive
<1>5. CASE max < Exact
  <2>1. Single(k) = k /\ k < Bound
    BY <1>4, <1>5
  <2>2. ASSUME t >= k
        PROVE  k <= x + Half
    <3>1. CASE x >= Bound
      BY <1>2, <2>1, <3>1, UnitHalf
    <3>2. CASE x < Bound
      <4>1. (x + Half) \div Unit >= max
        BY <1>1, <1>3, <2>2, <3>2, QuotientAtLeast
      <4>2. PICK q \in Int : q = (x + Half) \div Unit /\ q * Unit \in Int /\ q * Unit <= x + Half
        BY QuotientOf, UnitHalf
      <4>3. max * Unit <= q * Unit
        BY <4>1, <4>2, ScalesUp, UnitHalf
      <4> QED
        BY <1>3, <4>2, <4>3, UnitHalf
    <3> QED
      BY <1>2, <3>1, <3>2
  <2>3. ~(t >= k) => x < Bound
    BY <1>1, <1>2, <2>1
  <2> QED
    BY <1>1, <1>3, <2>1, <2>2, <2>3
<1>6. CASE ~(max < Exact)
  <2>1. x < Bound /\ max >= 2 * Exact - 1
    BY <1>1, <1>6
  <2>2. t <= Bound
    BY <1>1, <2>1
  <2>3. Single(k) > Bound
    BY <1>3, <2>1, FarLimit
  <2>4. Single(k) \in Int
    BY SingleInt
  <2>5. ~(t >= Single(k))
    BY <1>2, <2>2, <2>3, <2>4
  <2> QED
    BY <1>1, <1>3, <2>1, <2>5
<1> QED
  BY <1>5, <1>6

LEMMA OnwardAtBottom ==
    ASSUME NEW d \in Nat, NEW s \in Nat, NEW m \in Nat, m <= Exact \/ d * s < Bound
    PROVE  /\ Onward(d, s) >= m * Unit => m * Unit <= d * s + Half
           /\ ~(Onward(d, s) >= m * Unit) => d * s < Bound
<1>1. PICK x \in Nat, t \in Nat :
          /\ x = d * s /\ t = Onward(d, s)
          /\ x < Bound => t \div Unit = (x + Half) \div Unit /\ t <= Bound
          /\ x >= Bound => t >= Bound
  BY OnwardIs
<1>2. m * Unit \in Nat /\ Bound \in Nat /\ Exact \in Nat
  BY UnitHalf, BoundNat, FixedPointAssumption
<1>3. PICK k \in Nat : k = m * Unit
  BY <1>2
<1>4. CASE x < Bound
  <2>1. ASSUME t >= k
        PROVE  k <= x + Half
    <3>1. (x + Half) \div Unit >= m
      BY <1>1, <1>3, <1>4, <2>1, QuotientAtLeast
    <3>2. PICK q \in Int : q = (x + Half) \div Unit /\ q * Unit \in Int /\ q * Unit <= x + Half
      BY QuotientOf, UnitHalf
    <3>3. m * Unit <= q * Unit
      BY <3>1, <3>2, ScalesUp, UnitHalf
    <3> QED
      BY <1>3, <3>2, <3>3, UnitHalf
  <2> QED
    BY <1>1, <1>3, <1>4, <2>1
<1>5. CASE ~(x < Bound)
  <2>1. m <= Exact
    BY <1>1, <1>5
  <2>2. k <= Bound
    <3>1. \A a, b \in Nat, u \in Nat : a <= b => u * a <= u * b /\ u * a = a * u
      OBVIOUS
    <3> QED
      BY <1>2, <1>3, <2>1, <3>1, UnitHalf DEF Bound
  <2>3. t >= Bound
    BY <1>1, <1>2, <1>5
  <2> QED
    BY <1>1, <1>2, <1>3, <1>5, <2>2, <2>3, UnitHalf
<1> QED
  BY <1>4, <1>5

(* Of the numbers from lo to hi, w is nearest to x, in units. *)
Nearest(w, x, lo, hi) ==
    \A u \in {w - 1, w + 1} \cap (lo..hi) : Magnitude(w * Unit - x) <= Magnitude(u * Unit - x)

(* Within half a unit, or at a limit, nothing is nearer.                    *)
LEMMA NearestIf ==
    ASSUME NEW w \in Int, NEW x \in Int, NEW lo \in Int, NEW hi \in Int,
           w < hi => x <= w * Unit + Half, w > lo => w * Unit <= x + Half
    PROVE  Nearest(w, x, lo, hi)
<1>1. PICK k \in Int : k = w * Unit
  BY UnitHalf
<1>2. (w - 1) * Unit = k - Unit /\ (w + 1) * Unit = k + Unit
  <2>1. \A a \in Int, b \in Nat : (a - 1) * b = a * b - b /\ (a + 1) * b = a * b + b
    OBVIOUS
  <2> QED
    BY <1>1, <2>1, UnitHalf
<1>3. ASSUME w - 1 \in lo..hi
      PROVE  Magnitude(k - x) <= Magnitude(k - Unit - x)
  <2>1. k <= x + Half
    BY <1>1, <1>3
  <2> QED
    BY <2>1, UnitHalf DEF Magnitude
<1>4. ASSUME w + 1 \in lo..hi
      PROVE  Magnitude(k - x) <= Magnitude((k + Unit) - x)
  <2>1. x <= k + Half
    BY <1>1, <1>4
  <2> QED
    BY <2>1, UnitHalf DEF Magnitude
<1>5. ASSUME NEW u \in {w - 1, w + 1} \cap (lo..hi)
      PROVE  Magnitude(w * Unit - x) <= Magnitude(u * Unit - x)
  <2>1. CASE u = w - 1
    <3>1. u * Unit = k - Unit
      BY <1>2, <2>1
    <3> QED
      BY <1>1, <1>3, <2>1, <3>1
  <2>2. CASE u = w + 1
    <3>1. u * Unit = k + Unit
      BY <1>2, <2>2
    <3>2. w + 1 \in lo..hi
      BY <1>5, <2>2
    <3>3. Magnitude(k - x) <= Magnitude((k + Unit) - x)
      BY <1>4, <3>2
    <3> QED
      BY <1>1, <3>1, <3>3
  <2> QED
    BY <2>1, <2>2
<1> QED
  BY <1>5 DEF Nearest

(* sat_u and sat_i reach the nearest number of their field.                 *)
LEMMA SatUNearest ==
    ASSUME NEW d \in Int, NEW s \in Nat, NEW max \in Nat, max < Exact \/ max >= 2 * Exact - 1,
           max < Exact \/ Magnitude(d * s) < Bound
    PROVE  Nearest(SatU(Single(d), s, max), d * s, 0, max)
<1> DEFINE w == SatU(Single(d), s, max)
<1>1. d * s \in Int /\ Single(d) \in Int /\ Bound \in Nat
  BY SingleInt, BoundNat
<1>2. w \in 0..max
  BY <1>1, SatUIn
<1>3. CASE d <= 0
  <2>1. Single(d) <= 0
    <3>1. Magnitude(0) < Bound
      BY BoundNat DEF Magnitude
    <3>2. Single(0) = 0 /\ Single(d) <= Single(0)
      BY <1>3, <3>1, SmallSingle, SingleMonotone
    <3> QED
      BY <3>2
  <2>2. w = 0
    BY <2>1 DEF SatU
  <2>3. d * s <= 0
    <3>1. \A a \in Int, b \in Nat : a <= 0 => a * b <= 0
      OBVIOUS
    <3> QED
      BY <1>3, <3>1
  <2> HIDE DEF w
  <2>4. w * Unit = 0 /\ w \in Int
    BY <2>2, UnitHalf
  <2>5. w < max => d * s <= w * Unit + Half
    BY <1>1, <2>3, <2>4, UnitHalf
  <2>6. Nearest(w, d * s, 0, max)
    BY <1>1, <2>2, <2>4, <2>5, NearestIf
  <2> QED
    BY <2>6 DEF w
<1>4. CASE d > 0
  <2>1. d \in Nat /\ d * s \in Nat
    <3>1. \A a, b \in Nat : a * b \in Nat
      OBVIOUS
    <3> QED
      BY <1>4, <3>1
  <2>2. max < Exact \/ d * s < Bound
    BY <2>1 DEF Magnitude
  <2>3. w = IF Onward(d, s) >= Single(max * Unit) THEN max ELSE Onward(d, s) \div Unit
    <3>1. ~(Single(d) <= 0)
      BY <1>1, <1>4, <2>1, SinglePositive
    <3> QED
      BY <3>1 DEF SatU, Onward
  <2> HIDE DEF w
  <2>4. PICK x \in Nat : x = d * s
    BY <2>1
  <2>5. w * Unit \in Int
    BY <1>2, UnitHalf
  <2>6. CASE Onward(d, s) >= Single(max * Unit)
    <3>1. w = max /\ max * Unit <= x + Half
      BY <2>1, <2>2, <2>3, <2>4, <2>6, OnwardAtTop
    <3>2. ~(w < max) /\ w * Unit <= x + Half
      BY <3>1
    <3> QED
      BY <1>2, <2>4, <3>2, NearestIf DEF w
  <2>7. CASE ~(Onward(d, s) >= Single(max * Unit))
    <3>1. w = Onward(d, s) \div Unit /\ d * s < Bound
      BY <2>1, <2>2, <2>3, <2>7, OnwardAtTop
    <3>2. w * Unit <= x + Half /\ x <= w * Unit + Half
      BY <2>1, <2>4, <3>1, OnwardNearest
    <3> QED
      BY <1>2, <2>4, <3>2, NearestIf DEF w
  <2> QED
    BY <2>6, <2>7
<1> QED
  BY <1>1, <1>3, <1>4

LEMMA SatINearest ==
    ASSUME NEW d \in Int, NEW s \in Nat, NEW m \in Nat, m > 0,
           m - 1 < Exact \/ m - 1 >= 2 * Exact - 1,
           m - 1 < Exact \/ Magnitude(d * s) < Bound
    PROVE  Nearest(SatI(Single(d), s, -m, m - 1), d * s, -m, m - 1)
<1> DEFINE max == m - 1
           w == SatI(Single(d), s, -m, max)
<1>1. d * s \in Int /\ Single(d) \in Int /\ Bound \in Nat /\ max \in Nat /\ Exact \in Nat
  BY SingleInt, BoundNat, FixedPointAssumption
<1>2. w \in (-m)..max
  <2>1. -m \in Int /\ -m <= 0
    OBVIOUS
  <2> QED
    BY <1>1, <2>1, SatIIn
<1>3. max * Unit \in Nat /\ m * Unit \in Nat /\ m * Unit > 0 /\ (-m) * Unit = -(m * Unit)
  <2>1. \A a, b \in Nat : a * b \in Nat /\ (a > 0 /\ b > 0 => a * b > 0) /\ (-a) * b = -(a * b)
    OBVIOUS
  <2> QED
    BY <1>1, <2>1, UnitHalf
<1>4. Single(max * Unit) \in Nat
  BY <1>3, SinglePositive
<1>5. CASE d >= 0
  <2>1. d \in Nat /\ d * s \in Nat
    <3>1. \A a, b \in Nat : a * b \in Nat
      OBVIOUS
    <3> QED
      BY <1>5, <3>1
  <2>2. max < Exact \/ d * s < Bound
    BY <2>1 DEF Magnitude
  <2>3. w = IF Onward(d, s) >= Single(max * Unit) THEN max
            ELSE IF Onward(d, s) <= (-m) * Unit THEN -m ELSE Truncated(Onward(d, s))
    <3>1. Single(d) >= 0
      BY <1>1, <2>1, SinglePositive
    <3> QED
      BY <3>1 DEF SatI, Onward
  <2>4. Onward(d, s) \in Nat
    BY <2>1, OnwardIs
  <2>5. ~(Onward(d, s) <= (-m) * Unit)
    BY <1>3, <2>4
  <2>6. Truncated(Onward(d, s)) = Onward(d, s) \div Unit
    BY <2>4 DEF Truncated
  <2> HIDE DEF w, max
  <2>7. PICK x \in Nat : x = d * s
    BY <2>1
  <2>8. CASE Onward(d, s) >= Single(max * Unit)
    <3>1. max < Exact \/ max >= 2 * Exact - 1
      BY DEF max
    <3>2. w = max /\ max * Unit <= x + Half
      BY <1>1, <2>1, <2>2, <2>3, <2>7, <2>8, <3>1, OnwardAtTop
    <3>3. ~(w < max) /\ w * Unit <= x + Half
      BY <1>1, <3>2
    <3>4. Nearest(w, x, -m, max)
      BY <1>1, <1>2, <3>3, NearestIf
    <3> QED
      BY <2>7, <3>4 DEF w, max
  <2>9. CASE ~(Onward(d, s) >= Single(max * Unit))
    <3>1. max < Exact \/ max >= 2 * Exact - 1
      BY DEF max
    <3>2. w = Onward(d, s) \div Unit /\ d * s < Bound
      BY <1>1, <2>1, <2>2, <2>3, <2>5, <2>6, <2>9, <3>1, OnwardAtTop
    <3>3. w * Unit <= x + Half /\ x <= w * Unit + Half
      BY <2>1, <2>7, <3>2, OnwardNearest
    <3>4. Nearest(w, x, -m, max)
      BY <1>1, <1>2, <3>3, NearestIf
    <3> QED
      BY <2>7, <3>4 DEF w, max
  <2> QED
    BY <2>8, <2>9
<1>6. CASE d < 0
  <2> DEFINE e == -d
  <2>1. e \in Nat /\ e > 0 /\ d = -e /\ e * s \in Nat /\ d * s = -(e * s)
    <3>1. \A a, b \in Nat : a * b \in Nat /\ (-a) * b = -(a * b)
      OBVIOUS
    <3> QED
      BY <1>6, <3>1
  <2> HIDE DEF e
  <2>2. max < Exact \/ e * s < Bound
    <3>1. Magnitude(-(e * s)) = e * s
      BY <2>1 DEF Magnitude
    <3> QED
      BY <2>1, <3>1
  <2>3. Single(d) = -Single(e) /\ Single(e) \in Nat /\ Single(e) > 0
    BY <2>1, SingleOdd, SinglePositive
  <2>4. Single(Single(d) * s) = -Single(Single(e) * s)
    <3>1. Single(e) * s \in Int /\ (-Single(e)) * s = -(Single(e) * s)
      BY <2>3
    <3> QED
      BY <2>3, <3>1, SingleOdd
  <2>5. Single(Single(Single(d) * s) - Half) = -Onward(e, s)
    <3>1. Single(e) * s \in Int
      BY <2>3
    <3>2. Single(Single(e) * s) \in Int
      BY <3>1, SingleInt
    <3>3. Single(Single(e) * s) + Half \in Int
      BY <3>2, UnitHalf
    <3>4. Single(Single(d) * s) - Half = -(Single(Single(e) * s) + Half)
      BY <2>4, <3>2, UnitHalf
    <3> QED
      BY <3>3, <3>4, SingleOdd DEF Onward
  <2>6. w = IF -Onward(e, s) >= Single(max * Unit) THEN max
            ELSE IF -Onward(e, s) <= (-m) * Unit THEN -m ELSE Truncated(-Onward(e, s))
    <3>1. ~(Single(d) >= 0)
      BY <2>3
    <3>2. Single(Single(d) * s) + (-Half) = Single(Single(d) * s) - Half
      <4>1. Single(Single(d) * s) \in Int
        <5>1. Single(d) * s \in Int
          BY <1>1
        <5> QED
          BY <5>1, SingleInt
      <4> QED
        BY <4>1, UnitHalf
    <3> QED
      BY <2>5, <3>1, <3>2 DEF SatI
  <2>7. PICK t \in Nat : t = Onward(e, s) /\ t > 0
    BY <2>1, OnwardIs
  <2>8. ~(-t >= Single(max * Unit)) /\ (-t <= (-m) * Unit <=> t >= m * Unit)
    BY <1>3, <1>4, <2>7
  <2>9. Truncated(-t) = -(t \div Unit)
    <3>1. -t < 0 /\ -(-t) = t
      BY <2>7
    <3> QED
      BY <3>1 DEF Truncated
  <2> HIDE DEF w, max
  <2>10. PICK x \in Nat : x = e * s
    BY <2>1
  <2>11. m <= Exact \/ e * s < Bound
    BY <1>1, <2>2 DEF max
  <2>12. CASE t >= m * Unit
    <3>1. w = -m /\ m * Unit <= x + Half
      BY <2>1, <2>6, <2>7, <2>8, <2>10, <2>11, <2>12, OnwardAtBottom
    <3>2. ~(w > -m) /\ -x <= w * Unit + Half
      BY <1>3, <3>1, UnitHalf
    <3>3. Nearest(w, -x, -m, max)
      BY <1>1, <1>2, <3>2, NearestIf
    <3> QED
      BY <2>1, <2>10, <3>3 DEF w, max
  <2>13. CASE ~(t >= m * Unit)
    <3>1. w = -(t \div Unit) /\ e * s < Bound
      BY <2>1, <2>6, <2>7, <2>8, <2>9, <2>11, <2>13, OnwardAtBottom
    <3>2. PICK q \in Nat : /\ q = t \div Unit /\ q * Unit \in Nat
                           /\ q * Unit <= x + Half /\ x <= q * Unit + Half
      BY <2>1, <2>7, <2>10, <3>1, OnwardNearest
    <3>3. w * Unit = -(q * Unit)
      <4>1. (-q) * Unit = -(q * Unit)
        BY UnitHalf
      <4> QED
        BY <3>1, <3>2, <4>1
    <3>4. w * Unit <= -x + Half /\ -x <= w * Unit + Half
      BY <3>2, <3>3, UnitHalf
    <3>5. Nearest(w, -x, -m, max)
      BY <1>1, <1>2, <3>4, NearestIf
    <3> QED
      BY <2>1, <2>10, <3>5 DEF w, max
  <2> QED
    BY <2>12, <2>13
<1> QED
  BY <1>1, <1>5, <1>6

(* So does a field of any encoding.                                         *)
LEMMA WireNearest ==
    ASSUME NEW d \in Int, NEW enc, EncSize[enc] \in {1, 2, 4}, NEW s \in Nat, NEW junk,
           Hi(enc) < Exact \/ Magnitude(d * s) < Bound
    PROVE  Nearest(Wire(Single(d), enc, s, junk), d * s, Lo(enc), Hi(enc))
<1>1. Single(d) # NaN
  BY SingleInt, FixedPointAssumption
<1>2. PICK w \in Nat, m \in Nat :
               /\ w = Weight[EncSize[enc]] /\ w = 2 * m /\ m > 0
               /\ enc \in SignedEncodings => Lo(enc) = -m /\ Hi(enc) = m - 1
               /\ enc \notin SignedEncodings => Lo(enc) = 0 /\ Hi(enc) = w - 1
               /\ Hi(enc) < Exact \/ Hi(enc) >= 2 * Exact - 1
  BY Limits
<1>3. CASE enc \in SignedEncodings
  <2>1. Wire(Single(d), enc, s, junk) = SatI(Single(d), s, Lo(enc), Hi(enc))
    BY <1>1, <1>3 DEF Wire
  <2>2. Lo(enc) = -m /\ Hi(enc) = m - 1
    BY <1>2, <1>3
  <2>3. /\ m - 1 < Exact \/ m - 1 >= 2 * Exact - 1
        /\ m - 1 < Exact \/ Magnitude(d * s) < Bound
    BY <1>2, <2>2
  <2> QED
    BY <1>2, <2>1, <2>2, <2>3, SatINearest
<1>4. CASE enc \notin SignedEncodings
  <2>1. Wire(Single(d), enc, s, junk) = SatU(Single(d), s, Hi(enc))
    BY <1>1, <1>4 DEF Wire
  <2>2. Lo(enc) = 0 /\ Hi(enc) \in Nat
    BY <1>2, <1>4
  <2> QED
    BY <1>2, <2>1, <2>2, SatUNearest
<1> QED
  BY <1>3, <1>4

(* A number that a float can hold is decoded as the float next to what the  *)
(* meter displays.                                                          *)
LEMMA DecodedPrecise ==
    ASSUME NEW device, device.type \in Types, device.order \in WordOrders, NEW n \in Holds(device.type),
           NEW scale \in Int, NEW offset \in Int,
           ~(device.type = "float32" /\ 2 * n = -Weight[4]), Magnitude(n) < Exact,
           offset = 0 \/ Magnitude((Exactly(n, device.type) * scale) \div Unit) <= Bound
    PROVE  LET x == (Exactly(n, device.type) * scale) \div Unit
           IN  /\ x \in Int /\ x + offset \in Int
               /\ Decoded(Laid(n, device), device.type, device.order, scale, offset) = Single(x + offset)
<1> DEFINE e == Exactly(n, device.type)
           x == (e * scale) \div Unit
           v == Decoded(Laid(n, device), device.type, device.order, scale, offset)
<1>1. n \in Int
  BY RawLaid
<1>2. e \in Int
  BY <1>1, ExactlyInt
<1>3. x \in Int /\ x + offset \in Int
  <2>1. e * scale \in Int
    BY <1>2
  <2>2. x \in Int
    BY <2>1, UnitHalf
  <2> HIDE DEF x
  <2> QED
    BY <2>2
<1>4. v = Single(Single(x) + offset)
  <2>1. CASE device.type = "float32"
    BY <2>1, DecodedLaid
  <2>2. CASE device.type # "float32"
    <3>1. v = Single(Single((Single(e) * scale) \div Unit) + offset)
      BY <2>2, DecodedLaid
    <3>2. e = n * Unit
      BY <2>2 DEF Exactly
    <3>3. Magnitude(n * Unit) < Bound
      <4>1. \A a, b \in Nat, u \in Nat : u > 0 /\ a < b => u * a < u * b
        OBVIOUS
      <4>2. \A a \in Int, u \in Nat : Magnitude(a * u) = u * Magnitude(a) /\ Magnitude(a) \in Nat
        BY DEF Magnitude
      <4>3. Magnitude(n * Unit) = Unit * Magnitude(n) /\ Magnitude(n) \in Nat
        BY <1>1, <4>2, UnitHalf
      <4>4. Unit * Magnitude(n) < Unit * Exact
        BY <4>1, <4>3, UnitHalf, FixedPointAssumption
      <4> QED
        BY <4>3, <4>4 DEF Bound
    <3>4. Single(e) = e
      BY <1>2, <3>2, <3>3, SmallSingle
    <3> QED
      BY <3>1, <3>4
  <2> QED
    BY <2>1, <2>2
<1>5. v = Single(x + offset)
  <2>1. CASE offset = 0
    <3>1. Single(x) \in Int /\ Single(x) + offset = Single(x) /\ x + offset = x
      BY <1>3, <2>1, SingleInt
    <3> HIDE DEF v, x
    <3> QED
      BY <1>3, <1>4, <3>1, SingleFixed
  <2>2. CASE Magnitude(x) <= Bound
    <3>1. Single(x) = x
      BY <1>3, <2>2, ExactSingle
    <3> QED
      BY <1>4, <3>1
  <2> QED
    BY <2>1, <2>2
<1> QED
  BY <1>3, <1>5

-----------------------------------------------------------------------------
(* The profile.                                                            *)

LEMMA WithKeyTyped ==
    ASSUME NEW all, NEW n \in Nat, DOMAIN all = 1..n
    PROVE  WithKey(all) \in Seq({all[i] : i \in {j \in 1..n : all[j].key # NoKey}})
<1> DEFINE V == Seq({all[i] : i \in {j \in 1..n : all[j].key # NoKey}})
           One(i, v) == IF all[i].key = NoKey THEN v ELSE Append(v, all[i])
           f == CHOOSE g : g = [s \in SUBSET DOMAIN all |->
                                  IF s = {} THEN <<>>
                                  ELSE IF all[Max(s)].key = NoKey THEN g[s \ {Max(s)}]
                                  ELSE Append(g[s \ {Max(s)}], all[Max(s)])]
<1>1. WithKey(all) = f[1..n]
  BY DEF WithKey, FoldLeft, MapThenFoldSet
<1>2. \A i \in 1..n : \A v \in V : One(i, v) \in V
  OBVIOUS
<1>3. PICK step : step = [i \in 1..n |-> [v \in V |-> One(i, v)]]
  OBVIOUS
<1>4. PICK g : Folds(n, V, <<>>, step, g)
  <2>1. <<>> \in V /\ step \in [1..n -> [V -> V]]
    BY <1>2, <1>3
  <2> HIDE DEF V, One
  <2> QED
    BY <2>1, FoldExists
<1>5. \A s \in SUBSET (1..n) : s # {} => /\ Max(s) \in 1..n /\ s \ {Max(s)} \in SUBSET (1..n)
  BY MaxIsGreatest
<1>6. g = [s \in SUBSET (1..n) |-> IF s = {} THEN <<>> ELSE One(Max(s), g[s \ {Max(s)}])]
  <2>1. g \in [SUBSET (1..n) -> V] /\ g[{}] = <<>>
    BY <1>4 DEF Folds
  <2>2. ASSUME NEW s \in SUBSET (1..n), s # {}
        PROVE  g[s] = One(Max(s), g[s \ {Max(s)}])
    <3>1. g[s] = step[Max(s)][g[s \ {Max(s)}]]
      BY <1>4, <2>2 DEF Folds
    <3>2. Max(s) \in 1..n /\ g[s \ {Max(s)}] \in V
      BY <1>5, <2>1, <2>2
    <3> HIDE DEF V, One
    <3> QED
      BY <1>3, <3>1, <3>2
  <2> HIDE DEF V, One
  <2> QED
    BY <2>1, <2>2
<1>7. f = [s \in SUBSET (1..n) |-> IF s = {} THEN <<>> ELSE One(Max(s), f[s \ {Max(s)}])]
  <2>1. \E h : h = [s \in SUBSET DOMAIN all |->
                                  IF s = {} THEN <<>>
                                  ELSE IF all[Max(s)].key = NoKey THEN h[s \ {Max(s)}]
                                  ELSE Append(h[s \ {Max(s)}], all[Max(s)])]
    BY <1>6
  <2> QED
    BY <2>1
<1>8. f[{}] \in V
  <2>1. {} \in SUBSET (1..n) /\ <<>> \in V
    OBVIOUS
  <2> HIDE DEF f, V, One
  <2> QED
    BY <1>7, <2>1
<1>9. ASSUME NEW s \in SUBSET (1..n), s # {}, f[s \ {Max(s)}] \in V
      PROVE  f[s] \in V
  <2>1. f[s] = One(Max(s), f[s \ {Max(s)}])
    <3> HIDE DEF f, One
    <3> QED
      BY <1>7, <1>9
  <2> HIDE DEF f, One, V
  <2> QED
    BY <1>2, <1>5, <1>9, <2>1
<1> HIDE DEF f, V
<1>10. f[1..n] \in V
  BY <1>8, <1>9, FoldIn
<1> QED
  BY <1>1, <1>10 DEF V

(* Bodies packed so far, of fields of F. *)
Bodies(F) == {p \in [fields : Seq(F), offset : 0..Budget] : LaidOut(p.fields, p.offset)}
FieldsOf(named, n) == {Field(named[i], o) : i \in 1..n, o \in 0..Budget}

LEMMA FieldTyped ==
    ASSUME NEW m, NEW o
    PROVE  /\ Field(m, o).offset = o /\ Field(m, o).key = m.key
           /\ Field(m, o).enc \in DOMAIN EncSize /\ EncSize[Field(m, o).enc] \in {1, 2, 4}
           /\ Field(m, o).enc = PayloadEncoding(m)
           /\ m.scale \in Int => Field(m, o).scale \in Nat
<1>1. /\ Field(m, o).offset = o /\ Field(m, o).key = m.key /\ Field(m, o).enc = PayloadEncoding(m)
      /\ Field(m, o).scale = PayloadScale(m.scale)
  BY DEF Field
<1>2. PayloadEncoding(m) \in {"u32", "i16", "u16"}
  BY DEF PayloadEncoding
<1>3. \A e \in {"u32", "i16", "u16"} : e \in DOMAIN EncSize /\ EncSize[e] \in {1, 2, 4}
  BY DEF EncSize
<1>4. ASSUME NEW scale \in Int
      PROVE  PayloadScale(scale) \in Nat
  <2>1. CASE 0 < scale /\ scale <= Unit
    <3>1. PICK p : p = HalfEven(Unit, scale)
      OBVIOUS
    <3>2. p \in Int
      BY <2>1, <3>1, UnitHalf, RoundedInt
    <3>3. PayloadScale(scale) = IF p > 1 THEN p ELSE 1
      BY <2>1, <3>1 DEF PayloadScale
    <3> QED
      BY <3>2, <3>3
  <2>2. CASE ~(0 < scale /\ scale <= Unit)
    BY <2>2 DEF PayloadScale
  <2> QED
    BY <2>1, <2>2
<1> QED
  BY <1>1, <1>2, <1>3, <1>4

LEMMA PackFieldSound ==
    ASSUME NEW named, NEW n \in Nat, NEW i \in 1..n, NEW p \in Bodies(FieldsOf(named, n))
    PROVE  PackField(p, named[i]) \in Bodies(FieldsOf(named, n))
<1> DEFINE F == FieldsOf(named, n)
           f == Field(named[i], p.offset)
           size == EncSize[PayloadEncoding(named[i])]
           k == Len(p.fields)
           q == Append(p.fields, f)
<1>1. /\ p \in [fields : Seq(F), offset : 0..Budget] /\ LaidOut(p.fields, p.offset)
      /\ p.fields \in Seq(F) /\ p.offset \in 0..Budget /\ Budget \in Nat
  BY MeasurementAssumption DEF Bodies
<1>2. CASE p.offset + size > Budget
  BY <1>2 DEF PackField
<1>3. CASE ~(p.offset + size > Budget)
  <2>1. PackField(p, named[i]) = [fields |-> q, offset |-> p.offset + size]
    BY <1>3 DEF PackField
  <2>2. f \in F /\ f.offset = p.offset /\ EncSize[f.enc] = size /\ size \in {1, 2, 4}
    <3>1. f \in F
      BY <1>1 DEF FieldsOf
    <3> QED
      BY <3>1, FieldTyped
  <2> HIDE DEF f, size
  <2>3. p.offset + size \in 0..Budget
    BY <1>1, <1>3, <2>2
  <2>4. /\ q \in Seq(F) /\ k \in Nat /\ DOMAIN q = 1..(k + 1) /\ q[k + 1] = f
        /\ DOMAIN p.fields = 1..k /\ \A j \in 1..k : q[j] = p.fields[j]
    BY <1>1, <2>2
  <2>5. \A g \in F : g.offset \in 0..Budget /\ EncSize[g.enc] \in {1, 2, 4}
    BY FieldTyped DEF FieldsOf
  <2>6. \A j \in 1..k : /\ p.fields[j] \in F
                        /\ p.fields[j].offset + EncSize[p.fields[j].enc] <= p.offset
    BY <1>1, <2>4 DEF LaidOut, Within
  <2>7. ASSUME NEW j \in DOMAIN q
        PROVE  Within(q[j], p.offset + size)
    <3>1. CASE j = k + 1
      BY <1>1, <2>2, <2>4, <3>1 DEF Within
    <3>2. CASE j # k + 1
      <4>1. j \in 1..k
        BY <2>4, <3>2
      <4>2. p.fields[j].offset \in Nat /\ EncSize[p.fields[j].enc] \in Nat
        BY <2>5, <2>6, <4>1
      <4> QED
        BY <1>1, <2>2, <2>4, <2>6, <4>1, <4>2 DEF Within
    <3> QED
      BY <3>1, <3>2
  <2>8. ASSUME NEW j \in DOMAIN q, NEW l \in DOMAIN q, j < l
        PROVE  Apart(q[j], q[l])
    <3>1. j \in 1..k
      BY <2>4, <2>8
    <3>2. CASE l = k + 1
      BY <2>2, <2>4, <2>6, <3>1, <3>2 DEF Apart
    <3>3. CASE l # k + 1
      <4>1. l \in 1..k
        BY <2>4, <3>3
      <4> QED
        BY <1>1, <2>4, <2>8, <3>1, <4>1 DEF LaidOut
    <3> QED
      BY <3>2, <3>3
  <2>9. LaidOut(q, p.offset + size)
    BY <2>3, <2>7, <2>8 DEF LaidOut
  <2>10. [fields |-> q, offset |-> p.offset + size] \in Bodies(F)
    BY <2>3, <2>4, <2>9 DEF Bodies
  <2> QED
    BY <2>1, <2>10
<1> QED
  BY <1>2, <1>3

LEMMA PackedSound ==
    ASSUME NEW named, NEW n \in Nat, DOMAIN named = 1..n
    PROVE  Packed(named) \in Bodies(FieldsOf(named, n))
<1> DEFINE V == Bodies(FieldsOf(named, n))
           base == [fields |-> <<>>, offset |-> 0]
           One(i, v) == IF named[i].include THEN PackField(v, named[i]) ELSE v
           f == CHOOSE g : g = [s \in SUBSET DOMAIN named |->
                                  IF s = {} THEN base
                                  ELSE IF named[Max(s)].include
                                       THEN PackField(g[s \ {Max(s)}], named[Max(s)])
                                  ELSE g[s \ {Max(s)}]]
<1>1. Packed(named) = f[1..n]
  BY DEF Packed, FoldLeft, MapThenFoldSet
<1>2. \A i \in 1..n : \A v \in V : One(i, v) \in V
  BY PackFieldSound
<1>3. PICK step : step = [i \in 1..n |-> [v \in V |-> One(i, v)]]
  OBVIOUS
<1>4. base \in V
  <2>1. base \in [fields : Seq(FieldsOf(named, n)), offset : 0..Budget]
    BY MeasurementAssumption
  <2>2. LaidOut(<<>>, 0)
    BY MeasurementAssumption DEF LaidOut
  <2> QED
    BY <2>1, <2>2 DEF Bodies
<1>5. PICK g : Folds(n, V, base, step, g)
  <2>1. step \in [1..n -> [V -> V]]
    BY <1>2, <1>3
  <2> HIDE DEF V, One, base
  <2> QED
    BY <1>4, <2>1, FoldExists
<1>6. \A s \in SUBSET (1..n) : s # {} => /\ Max(s) \in 1..n /\ s \ {Max(s)} \in SUBSET (1..n)
  BY MaxIsGreatest
<1>7. g = [s \in SUBSET (1..n) |-> IF s = {} THEN base ELSE One(Max(s), g[s \ {Max(s)}])]
  <2>1. g \in [SUBSET (1..n) -> V] /\ g[{}] = base
    BY <1>5 DEF Folds
  <2>2. ASSUME NEW s \in SUBSET (1..n), s # {}
        PROVE  g[s] = One(Max(s), g[s \ {Max(s)}])
    <3>1. g[s] = step[Max(s)][g[s \ {Max(s)}]]
      BY <1>5, <2>2 DEF Folds
    <3>2. Max(s) \in 1..n /\ g[s \ {Max(s)}] \in V
      BY <1>6, <2>1, <2>2
    <3> HIDE DEF V, One
    <3> QED
      BY <1>3, <3>1, <3>2
  <2> HIDE DEF V, One, base
  <2> QED
    BY <2>1, <2>2
<1>8. f = [s \in SUBSET (1..n) |-> IF s = {} THEN base ELSE One(Max(s), f[s \ {Max(s)}])]
  <2> HIDE DEF base
  <2>1. \E h : h = [s \in SUBSET DOMAIN named |->
                                  IF s = {} THEN base
                                  ELSE IF named[Max(s)].include
                                       THEN PackField(h[s \ {Max(s)}], named[Max(s)])
                                  ELSE h[s \ {Max(s)}]]
    BY <1>7
  <2> QED
    BY <2>1
<1> HIDE DEF f, V, base
<1>9. f[{}] \in V
  <2>1. {} \in SUBSET (1..n)
    OBVIOUS
  <2> HIDE DEF One
  <2> QED
    BY <1>4, <1>8, <2>1
<1>10. ASSUME NEW s \in SUBSET (1..n), s # {}, f[s \ {Max(s)}] \in V
      PROVE  f[s] \in V
  <2>1. f[s] = One(Max(s), f[s \ {Max(s)}])
    <3> HIDE DEF One
    <3> QED
      BY <1>8, <1>10
  <2> HIDE DEF One
  <2> QED
    BY <1>2, <1>6, <1>10, <2>1
<1>11. f[1..n] \in V
  BY <1>9, <1>10, FoldIn
<1> QED
  BY <1>1, <1>11 DEF V

(* What a profile has, by whomever it was made: measurands of the device,   *)
(* a layout, and a measurand for every field.                               *)
OfDevice(w) ==
    /\ w.slot \in Slots /\ w.type \in Types /\ w.order \in WordOrders
    /\ w.scale \in Int /\ w.offset \in Int
InBody(f) == f.enc \in DOMAIN EncSize /\ f.offset \in Nat /\ f.scale \in Nat
Keyed(p) ==
    /\ LaidOut(p.fields, p.total) /\ DOMAIN p.meas = 1..Len(p.meas) /\ Len(p.meas) \in Nat
    /\ \A i \in DOMAIN p.meas : OfDevice(p.meas[i])
    /\ p.total \in Nat /\ DOMAIN p.fields = 1..Len(p.fields) /\ Len(p.fields) \in Nat
    /\ \A f \in DOMAIN p.fields : /\ InBody(p.fields[f])
                                  /\ \E i \in DOMAIN p.meas : p.fields[f].key = p.meas[i].key

LEMMA BestOf ==
    ASSUME NEW a \in Nat, NEW b \in Nat, NEW c \in Nat, NEW d \in Nat
    PROVE  \/ b <= a /\ c <= a /\ d <= a
           \/ a <= b /\ c <= b /\ d <= b
           \/ a <= c /\ b <= c /\ d <= c
           \/ a <= d /\ b <= d /\ c <= d
  OBVIOUS

(* There is a best order: the scores of finitely many pairs can be compared.*)
LEMMA BestWordOrderTyped ==
    ASSUME NEW words, IsFiniteSet(DOMAIN words)
    PROVE  BestWordOrder(words) \in WordOrders
<1>1. "CDAB" \in WordOrders /\ \A i \in 1..4 : Orders[i] \in WordOrders
  <2>1. \A i \in 1..4 : i \in {1, 2, 3, 4}
    OBVIOUS
  <2> QED
    BY <2>1 DEF WordOrders, ByteOrder, Orders
<1>2. \A i \in 1..4 : Score(words, Orders[i]) \in Nat
  <2> TAKE i \in 1..4
  <2> DEFINE S == {a \in Pairs(words) : /\ PlausibleF32(DecodeF32(words, a, Orders[i]))
                                        /\ DecodeF32(words, a, Orders[i]) # 0}
  <2>1. S \in SUBSET DOMAIN words
    BY DEF Pairs
  <2>2. Score(words, Orders[i]) = Cardinality(S)
    BY DEF Score
  <2> HIDE DEF S
  <2>3. IsFiniteSet(S)
    BY <2>1, FS_Subset
  <2> QED
    BY <2>2, <2>3, FS_CardinalityType
<1> DEFINE T == {i \in DOMAIN Orders :
                    \A j \in DOMAIN Orders : Score(words, Orders[j]) <= Score(words, Orders[i])}
<1>3. DOMAIN Orders = 1..4
  BY DEF Orders
<1>4. T # {}
  <2>1. PICK r : r = [i \in 1..4 |-> Score(words, Orders[i])]
    OBVIOUS
  <2>2. r[1] \in Nat /\ r[2] \in Nat /\ r[3] \in Nat /\ r[4] \in Nat
    BY <1>2, <2>1
  <2>3. \A j \in 1..4 : j = 1 \/ j = 2 \/ j = 3 \/ j = 4
    OBVIOUS
  <2>4. PICK i \in {1, 2, 3, 4} : r[1] <= r[i] /\ r[2] <= r[i] /\ r[3] <= r[i] /\ r[4] <= r[i]
    <3>1. r[1] <= r[1] /\ r[2] <= r[2] /\ r[3] <= r[3] /\ r[4] <= r[4]
      BY <2>2
    <3> QED
      BY <2>2, <3>1, BestOf
  <2>5. \A j \in 1..4 : r[j] <= r[i]
    BY <2>3, <2>4
  <2>6. i \in 1..4 /\ \A j \in 1..4 : Score(words, Orders[j]) <= Score(words, Orders[i])
    <3>1. i \in 1..4
      BY <2>4
    <3> QED
      BY <2>1, <2>5, <3>1
  <2>7. i \in T
    BY <1>3, <2>6
  <2> QED
    BY <2>7
<1>5. Min(T) \in 1..4
  <2>1. T \in SUBSET Nat /\ T \in SUBSET (1..4)
    BY <1>3
  <2> HIDE DEF T
  <2>2. \E m \in T : \A i \in T : m <= i
    BY <1>4, <2>1, LeastElement
  <2>3. Min(T) \in T
    BY <2>2 DEF Min
  <2> QED
    BY <2>1, <2>3
<1>6. BestWordOrder(words) = IF Pairs(words) = {} THEN "CDAB" ELSE Orders[Min(T)]
  BY DEF BestWordOrder
<1> HIDE DEF T
<1> QED
  BY <1>1, <1>5, <1>6

(* The candidates of a map with finitely many registers. *)
Guessed(candidates) ==
    \A a \in DOMAIN candidates : candidates[a].type \in Types /\ candidates[a].order \in WordOrders

LEMMA CandidatesGuessed ==
    ASSUME NEW words, IsFiniteSet(DOMAIN words)
    PROVE  Guessed(Candidates(words))
<1>1. PICK order : order = BestWordOrder(words)
  OBVIOUS
<1>2. order \in WordOrders
  BY <1>1, BestWordOrderTyped
<1>3. \A a \in DOMAIN Candidates(words) :
          Candidates(words)[a].type \in {"float32", "u16"} /\ Candidates(words)[a].order = order
  BY <1>1 DEF Candidates
<1>4. {"float32", "u16"} \in SUBSET Types
  BY DEF Types
<1> QED
  BY <1>2, <1>3, <1>4 DEF Guessed

LEMMA SweptFinite ==
    ASSUME NEW m, NEW lost
    PROVE  IsFiniteSet(DOMAIN Swept(m, lost)[4])
<1>1. DOMAIN Swept(m, lost)[4] = (0..(2 * NSlots - 1)) \ lost
  BY DEF Swept
<1>2. 2 * NSlots - 1 \in Int
  BY MeasurementAssumption
<1>3. IsFiniteSet(0..(2 * NSlots - 1))
  BY <1>2, FS_Interval
<1>4. (0..(2 * NSlots - 1)) \ lost \in SUBSET (0..(2 * NSlots - 1))
  OBVIOUS
<1> QED
  BY <1>1, <1>3, <1>4, FS_Subset

(* What the operator leaves open was inferred, what he names is a slot.     *)
LEMMA NamedTyped ==
    ASSUME NEW edits \in Edits, NEW candidates, Guessed(candidates)
    PROVE  \E V : Named(edits, candidates) \in Seq(V) /\ \A m \in V : OfDevice(m)
<1> DEFINE all == [s \in Slots |->
            LET e == edits[s]  c == candidates[Register(s)] IN
            IF Register(s) \notin DOMAIN candidates THEN [key |-> NoKey]
            ELSE [key |-> e.key, slot |-> s, include |-> e.include, scale |-> e.scale, offset |-> e.offset,
                  type |-> Edited(e.type, c.type), order |-> Edited(e.order, c.order),
                  accumulating |-> Edited(e.accumulating, c.accumulating), sample |-> c.sample]]
<1>1. Named(edits, candidates) = WithKey(all)
  BY DEF Named
<1>2. DOMAIN all = 1..NSlots
  BY DEF Slots
<1>3. ASSUME NEW s \in 1..NSlots, all[s].key # NoKey
      PROVE  OfDevice(all[s])
  <2>1. s \in Slots
    BY DEF Slots
  <2>2. Register(s) \in DOMAIN candidates
    <3>1. Register(s) \notin DOMAIN candidates => all[s] = [key |-> NoKey]
      BY <2>1
    <3> QED
      BY <1>3, <3>1
  <2>3. /\ all[s].slot = s /\ all[s].scale = edits[s].scale /\ all[s].offset = edits[s].offset
        /\ all[s].type = Edited(edits[s].type, candidates[Register(s)].type)
        /\ all[s].order = Edited(edits[s].order, candidates[Register(s)].order)
    BY <2>1, <2>2
  <2>4. /\ edits[s].type \in Types \cup {Nothing} /\ edits[s].order \in WordOrders \cup {Nothing}
        /\ edits[s].scale \in Int /\ edits[s].offset \in Int
    BY <2>1, EditsAssumption
  <2>5. candidates[Register(s)].type \in Types /\ candidates[Register(s)].order \in WordOrders
    BY <2>2 DEF Guessed
  <2> HIDE DEF all
  <2> QED
    BY <2>1, <2>3, <2>4, <2>5 DEF OfDevice, Edited
<1> HIDE DEF all
<1>4. WithKey(all) \in Seq({all[i] : i \in {j \in 1..NSlots : all[j].key # NoKey}})
  BY <1>2, WithKeyTyped, MeasurementAssumption
<1> QED
  BY <1>1, <1>3, <1>4

LEMMA AssembleKeyed ==
    ASSUME NEW V, NEW named \in Seq(V), \A m \in V : OfDevice(m)
    PROVE  Keyed(Assemble(named))
<1> DEFINE n == Len(named)
           p == Assemble(named)
<1>1. n \in Nat /\ DOMAIN named = 1..n /\ \A i \in 1..n : OfDevice(named[i])
  OBVIOUS
<1>2. Packed(named) \in Bodies(FieldsOf(named, n))
  BY <1>1, PackedSound
<1>3. /\ Packed(named).fields \in Seq(FieldsOf(named, n)) /\ Packed(named).offset \in Nat
      /\ LaidOut(Packed(named).fields, Packed(named).offset)
  BY <1>2, MeasurementAssumption DEF Bodies
<1>4. /\ p.fields = Packed(named).fields /\ p.total = Packed(named).offset
      /\ p.meas = Measurands(named)
  BY DEF Assemble
<1>5. /\ DOMAIN p.meas = 1..n /\ Len(p.meas) = n
      /\ \A i \in 1..n : p.meas[i].key = named[i].key /\ OfDevice(p.meas[i])
  <2>1. /\ DOMAIN p.meas = 1..n
        /\ \A i \in 1..n : /\ p.meas[i].key = named[i].key /\ p.meas[i].slot = named[i].slot
                           /\ p.meas[i].type = named[i].type /\ p.meas[i].order = named[i].order
                           /\ p.meas[i].offset = named[i].offset
                           /\ p.meas[i].scale = IF named[i].scale = 0 THEN Unit ELSE named[i].scale
    BY <1>1, <1>4 DEF Measurands
  <2> HIDE DEF p
  <2>2. Len(p.meas) = n
    <3>1. DOMAIN Measurands(named) = 1..n
      BY <1>4, <2>1
    <3>2. Measurands(named) \in Seq({Measurands(named)[i] : i \in 1..n})
      <4>1. PICK q : q = Measurands(named)
        OBVIOUS
      <4>2. q = [i \in 1..n |-> q[i]]
        BY <1>1, <4>1 DEF Measurands
      <4> QED
        BY <1>1, <4>1, <4>2
    <3> QED
      BY <1>1, <1>4, <3>1, <3>2
  <2>3. \A i \in 1..n : OfDevice(p.meas[i])
    BY <1>1, <2>1, UnitHalf DEF OfDevice
  <2> QED
    BY <2>1, <2>2, <2>3
<1>6. ASSUME NEW f \in DOMAIN p.fields
      PROVE  InBody(p.fields[f]) /\ \E i \in DOMAIN p.meas : p.fields[f].key = p.meas[i].key
  <2>1. p.fields[f] \in FieldsOf(named, n)
    BY <1>3, <1>4, <1>6
  <2>2. PICK i \in 1..n, o \in 0..Budget : p.fields[f] = Field(named[i], o)
    BY <2>1 DEF FieldsOf
  <2>3. p.fields[f].key = named[i].key
    BY <2>2, FieldTyped
  <2>4. named[i].scale \in Int /\ o \in Nat
    BY <1>1, MeasurementAssumption DEF OfDevice
  <2>5. InBody(p.fields[f])
    BY <2>2, <2>4, FieldTyped DEF InBody
  <2> QED
    BY <1>5, <2>2, <2>3, <2>5
<1>7. DOMAIN p.fields = 1..Len(p.fields) /\ Len(p.fields) \in Nat
  BY <1>3, <1>4
<1> HIDE DEF p
<1>8. LaidOut(p.fields, p.total) /\ p.total \in Nat
  BY <1>3, <1>4
<1> QED
  BY <1>1, <1>5, <1>6, <1>7, <1>8 DEF Keyed, p

LEMMA ValueIndexOwn ==
    ASSUME NEW p, Keyed(p), NEW f \in DOMAIN p.fields
    PROVE  /\ ValueIndex(p, p.fields[f]) \in DOMAIN p.meas
           /\ p.meas[ValueIndex(p, p.fields[f])].key = p.fields[f].key
<1> DEFINE S == {i \in DOMAIN p.meas : p.meas[i].key = p.fields[f].key}
<1>1. S \in SUBSET (1..Len(p.meas)) /\ S # {} /\ Len(p.meas) \in Nat
  BY DEF Keyed
<1>2. PICK m \in S : \A i \in S : i <= m
  <2> HIDE DEF S
  <2> QED
    BY <1>1, GreatestElement
<1>3. /\ m \in DOMAIN p.meas /\ p.meas[m].key = p.fields[f].key
      /\ \A j \in DOMAIN p.meas : p.meas[j].key = p.fields[f].key => j <= m
  BY <1>2
<1> QED
  BY <1>3 DEF ValueIndex

-----------------------------------------------------------------------------
(* What the node has loaded.                                               *)

LoadedInv == node # Nothing =>
    /\ LaidOut(node.fields, node.total) /\ node.total \in Nat
    /\ node.meas # <<>> /\ \A i \in DOMAIN node.meas : OfDevice(node.meas[i])
    /\ DOMAIN node.keys = DOMAIN node.fields /\ \E n \in Nat : DOMAIN node.fields = 1..n
    /\ \A f \in DOMAIN node.fields : /\ InBody(node.fields[f])
                                     /\ node.fields[f].value \in DOMAIN node.meas
                                     /\ node.meas[node.fields[f].value].key = node.keys[f]

(* Whatever profile is loaded has it,                                       *)
LEMMA LoadStep ==
    ASSUME NEW p, Keyed(p), p.meas # <<>>, Load(p)
    PROVE  LoadedInv'
<1> DEFINE fields == [f \in DOMAIN p.fields |->
                         [offset |-> p.fields[f].offset, enc |-> p.fields[f].enc,
                          scale |-> p.fields[f].scale, value |-> ValueIndex(p, p.fields[f])]]
<1>1. /\ node'.fields = fields /\ node'.meas = p.meas /\ node'.total = p.total
      /\ node'.keys = [f \in DOMAIN p.fields |-> p.fields[f].key]
  BY DEF Load
<1>2. /\ DOMAIN fields = DOMAIN p.fields
      /\ \A f \in DOMAIN fields : /\ fields[f].offset = p.fields[f].offset /\ fields[f].enc = p.fields[f].enc
                                  /\ fields[f].scale = p.fields[f].scale
                                  /\ fields[f].value = ValueIndex(p, p.fields[f])
  OBVIOUS
<1> HIDE DEF fields
<1>3. LaidOut(fields, p.total)
  <2>1. LaidOut(p.fields, p.total)
    BY DEF Keyed
  <2> QED
    BY <1>2, <2>1 DEF LaidOut, Within, Apart
<1>4. \A f \in DOMAIN fields : /\ InBody(fields[f]) /\ fields[f].value \in DOMAIN p.meas
                               /\ p.meas[fields[f].value].key = p.fields[f].key
  <2> SUFFICES ASSUME NEW f \in DOMAIN fields
               PROVE  /\ InBody(fields[f]) /\ fields[f].value \in DOMAIN p.meas
                      /\ p.meas[fields[f].value].key = p.fields[f].key
    OBVIOUS
  <2>1. f \in DOMAIN p.fields
    BY <1>2
  <2>2. InBody(p.fields[f])
    BY <2>1 DEF Keyed
  <2>3. InBody(fields[f])
    BY <1>2, <2>2 DEF InBody
  <2> QED
    BY <1>2, <2>1, <2>3, ValueIndexOwn
<1>5. \E n \in Nat : DOMAIN fields = 1..n
  BY <1>2 DEF Keyed
<1>6. DOMAIN node'.keys = DOMAIN node'.fields /\ \A f \in DOMAIN node'.fields : node'.keys[f] = p.fields[f].key
  BY <1>1, <1>2
<1>7. p.total \in Nat /\ \A i \in DOMAIN p.meas : OfDevice(p.meas[i])
  BY DEF Keyed
<1> QED
  BY <1>1, <1>3, <1>4, <1>5, <1>6, <1>7 DEF LoadedInv

(* and so it is invariant.                                                  *)
LEMMA Loaded == Spec => []LoadedInv
<1>1. Init => LoadedInv
  BY DEF Init, LoadedInv
<1>2. LoadedInv /\ [Next]_vars => LoadedInv'
  <2> SUFFICES ASSUME LoadedInv, [Next]_vars
               PROVE  LoadedInv'
    OBVIOUS
  <2>1. CASE Onboard
    <3>1. PICK p \in Onboarded : Load(p)
      BY <2>1 DEF Onboard
    <3>2. PICK edits \in Edits, m \in Readings, lost \in Losses :
              p = Assemble(Named(edits, Candidates(Swept(m, lost)[4]))) /\ p.meas # <<>>
      BY DEF Onboarded
    <3>3. Guessed(Candidates(Swept(m, lost)[4]))
      BY SweptFinite, CandidatesGuessed
    <3>4. Keyed(p)
      BY <3>2, <3>3, NamedTyped, AssembleKeyed
    <3> QED
      BY <3>1, <3>2, <3>4, LoadStep
  <2>2. CASE TakeHandWritten
    <3>1. PICK p \in HandWritten : Load(p)
      BY <2>2 DEF TakeHandWritten
    <3>2. Keyed(p) /\ p.meas # <<>>
      BY HandWrittenAssumption DEF Keyed, OfDevice, InBody
    <3> QED
      BY <3>1, <3>2, LoadStep
  <2>3. CASE UNCHANGED node
    BY <2>3 DEF LoadedInv
  <2> QED
    BY <2>1, <2>2, <2>3 DEF Next, Report, vars
<1> QED
  BY <1>1, <1>2, PTL DEF Spec

-----------------------------------------------------------------------------
(* A frame.                                                                *)

(* The body of a frame after each of its fields has been put.              *)
Bytes(values, f, junk) ==
    Digits(Wire(values[f.value], f.enc, f.scale, junk), EncSize[f.enc])

LEMMA BytesTyped ==
    ASSUME NEW f, InBody(f), NEW values, values[f.value] \in Int \cup {NaN}, NEW junk \in Int
    PROVE  /\ EncSize[f.enc] \in {1, 2, 4} /\ f.offset \in Nat
           /\ DOMAIN Bytes(values, f, junk) = 1..EncSize[f.enc]
           /\ \A k \in 1..EncSize[f.enc] : Bytes(values, f, junk)[k] \in 0..(Base - 1)
<1>1. EncSize[f.enc] \in {1, 2, 4} /\ f.scale \in Nat /\ f.offset \in Nat
  BY Sizes DEF InBody
<1>2. Wire(values[f.value], f.enc, f.scale, junk) \in Int
  <2>1. CASE values[f.value] = NaN
    BY <2>1 DEF Wire
  <2>2. CASE values[f.value] \in Int
    <3>1. Wire(values[f.value], f.enc, f.scale, junk) \in Lo(f.enc)..Hi(f.enc)
      BY <1>1, <2>2, WireIn
    <3> QED
      BY <1>1, <3>1, LimitsTyped
  <2> QED
    BY <2>1, <2>2
<1> QED
  BY <1>1, <1>2, DigitsTyped DEF Bytes

(* A field is put where it belongs, and nothing else of the body changes.   *)
LEMMA PutFieldTyped ==
    ASSUME NEW total \in Nat, NEW body \in [1..total -> 0..(Base - 1)],
           NEW f, EncSize[f.enc] \in {1, 2, 4}, f.offset \in Nat, Within(f, total),
           NEW bytes, \A k \in 1..EncSize[f.enc] : bytes[k] \in 0..(Base - 1)
    PROVE  /\ PutField(body, f, bytes) \in [1..total -> 0..(Base - 1)]
           /\ \A j \in 1..EncSize[f.enc] : PutField(body, f, bytes)[f.offset + j] = bytes[j]
           /\ \A g : (EncSize[g.enc] \in {1, 2, 4} /\ g.offset \in Nat /\ Within(g, total) /\ Apart(g, f)) =>
                  \A j \in 1..EncSize[g.enc] :
                      PutField(body, f, bytes)[g.offset + j] = body[g.offset + j]
<1> DEFINE size == EncSize[f.enc]
           o == f.offset
           put == PutField(body, f, bytes)
<1>1. size \in Nat /\ o \in Nat /\ o + size <= total
  BY DEF Within
<1>2. /\ DOMAIN put = 1..total
      /\ \A k \in 1..total : put[k] = IF k \in (o + 1)..(o + size) THEN bytes[k - o] ELSE body[k]
      /\ put = [k \in 1..total |-> put[k]]
  BY DEF PutField
<1>3. \A k \in 1..total : put[k] \in 0..(Base - 1)
  <2> SUFFICES ASSUME NEW k \in 1..total PROVE put[k] \in 0..(Base - 1)
    OBVIOUS
  <2>1. CASE k \in (o + 1)..(o + size)
    <3>1. k - o \in 1..size
      BY <1>1, <2>1
    <3> QED
      BY <1>2, <2>1, <3>1
  <2>2. CASE k \notin (o + 1)..(o + size)
    BY <1>2, <2>2
  <2> QED
    BY <2>1, <2>2
<1>4. put \in [1..total -> 0..(Base - 1)]
  <2> HIDE DEF put
  <2> QED
    BY <1>2, <1>3
<1>5. ASSUME NEW j \in 1..size
      PROVE  put[o + j] = bytes[j]
  <2>1. /\ o + j \in 1..total /\ o + j \in (o + 1)..(o + size) /\ (o + j) - o = j
    BY <1>1
  <2> HIDE DEF put
  <2> QED
    BY <1>2, <2>1
<1>6. ASSUME NEW g, EncSize[g.enc] \in {1, 2, 4}, g.offset \in Nat, Within(g, total), Apart(g, f),
             NEW j \in 1..EncSize[g.enc]
      PROVE  put[g.offset + j] = body[g.offset + j]
  <2>1. PICK p \in Nat, z \in Nat : p = g.offset /\ z = EncSize[g.enc] /\ j \in 1..z
    BY <1>6
  <2>2. p + z <= total
    BY <1>6, <2>1 DEF Within
  <2>3. p + z <= o \/ o + size <= p
    BY <1>6, <2>1 DEF Apart
  <2>4. p + j \in 1..total /\ p + j \notin (o + 1)..(o + size)
    <3>1. j \in Nat /\ 1 <= j /\ j <= z
      BY <2>1
    <3>2. PICK e \in Nat, y \in Nat : e = o /\ y = size
      BY <1>1
    <3>3. p + j <= e \/ ~(p + j <= e + y)
      BY <2>1, <2>3, <3>1, <3>2
    <3>4. p + j \in 1..total
      BY <2>1, <2>2, <3>1
    <3> QED
      BY <2>1, <3>1, <3>2, <3>3, <3>4
  <2> HIDE DEF put
  <2> QED
    BY <1>2, <2>1, <2>4
<1> QED
  BY <1>4, <1>5, <1>6

Frames == [1..node.total -> 0..(Base - 1)]
EmptyFrame == [k \in 1..node.total |-> 0]
FrameWith(v, i, values, junk) == PutField(v, node.fields[i], Bytes(values, node.fields[i], junk))

Steady(n, values, junk) == \A i \in 1..n : \A v \in Frames : FrameWith(v, i, values, junk) \in Frames
Prefixed(h, n, values, junk) ==
    /\ h[0] = EmptyFrame /\ Body(values, junk) = h[n]
    /\ \A k \in 1..n : h[k] = FrameWith(h[k - 1], k, values, junk)

(* The fold of Body, field by field.                                        *)
LEMMA BodyPrefixes ==
    ASSUME NEW n \in Nat, DOMAIN node.fields = 1..n, NEW values, NEW junk, EmptyFrame \in Frames,
           Steady(n, values, junk)
    PROVE  \E h : Prefixed(h, n, values, junk)
<1> DEFINE zero == EmptyFrame
           V == Frames
           One(i, v) == FrameWith(v, i, values, junk)
           f == CHOOSE g : g = [s \in SUBSET DOMAIN node.fields |->
                                  IF s = {} THEN zero ELSE One(Max(s), g[s \ {Max(s)}])]
<1>1. Body(values, junk) = f[1..n]
  BY DEF Body, FoldLeft, MapThenFoldSet, Bytes, EmptyFrame, FrameWith
<1>2. \A i \in 1..n : \A v \in V : One(i, v) \in V
  BY DEF Steady
<1>3. PICK step : step = [i \in 1..n |-> [v \in V |-> One(i, v)]]
  OBVIOUS
<1>4. zero \in V
  OBVIOUS
<1> HIDE DEF zero, One, V
<1>5. PICK g : Folds(n, V, zero, step, g)
  <2>1. step \in [1..n -> [V -> V]]
    BY <1>2, <1>3
  <2> QED
    BY <1>4, <2>1, FoldExists
<1>6. \A s \in SUBSET (1..n) : s # {} => /\ Max(s) \in 1..n /\ s \ {Max(s)} \in SUBSET (1..n)
  BY MaxIsGreatest
<1>7. g = [s \in SUBSET (1..n) |-> IF s = {} THEN zero ELSE One(Max(s), g[s \ {Max(s)}])]
  <2>1. g \in [SUBSET (1..n) -> V] /\ g[{}] = zero
    BY <1>5 DEF Folds
  <2>2. ASSUME NEW s \in SUBSET (1..n), s # {}
        PROVE  g[s] = One(Max(s), g[s \ {Max(s)}])
    <3>1. g[s] = step[Max(s)][g[s \ {Max(s)}]]
      BY <1>5, <2>2 DEF Folds
    <3>2. Max(s) \in 1..n /\ g[s \ {Max(s)}] \in V
      BY <1>6, <2>1, <2>2
    <3> QED
      BY <1>3, <3>1, <3>2
  <2> QED
    BY <2>1, <2>2
<1>8. f = [s \in SUBSET (1..n) |-> IF s = {} THEN zero ELSE One(Max(s), f[s \ {Max(s)}])]
  <2>1. \E h : h = [s \in SUBSET DOMAIN node.fields |->
                                  IF s = {} THEN zero ELSE One(Max(s), h[s \ {Max(s)}])]
    BY <1>7
  <2> QED
    BY <2>1
<1> HIDE DEF f
<1>9. PICK h : h = [k \in 0..n |-> f[1..k]]
  OBVIOUS
<1>10. h[0] = zero
  <2>1. 1..0 = {} /\ {} \in SUBSET (1..n) /\ 0 \in 0..n
    OBVIOUS
  <2> QED
    BY <1>8, <1>9, <2>1
<1>11. ASSUME NEW k \in 1..n
       PROVE  h[k] = One(k, h[k - 1])
  <2>1. /\ (1..k) \in SUBSET (1..n) /\ 1..k # {} /\ Max(1..k) = k
        /\ (1..k) \ {k} = 1..(k - 1)
    BY Prefix
  <2>2. f[1..k] = One(k, f[1..(k - 1)])
    BY <1>8, <2>1
  <2>3. k \in 0..n /\ k - 1 \in 0..n
    OBVIOUS
  <2> QED
    BY <1>9, <2>2, <2>3
<1>12. Body(values, junk) = h[n]
  <2>1. n \in 0..n
    OBVIOUS
  <2> QED
    BY <1>1, <1>9, <2>1
<1> QED
  BY <1>10, <1>11, <1>12 DEF zero, One, Prefixed

(* Every field is in the body as it was put there: none that comes later    *)
(* overwrites it.                                                           *)
LEMMA BodyHolds ==
    ASSUME LoadedInv, node # Nothing, NEW values,
           \A i \in DOMAIN node.meas : values[i] \in Int \cup {NaN}, NEW junk \in Int
    PROVE  /\ Body(values, junk) \in Frames
           /\ \A f \in DOMAIN node.fields : \A j \in 1..EncSize[node.fields[f].enc] :
                  Body(values, junk)[node.fields[f].offset + j] = Bytes(values, node.fields[f], junk)[j]
<1> DEFINE total == node.total
           F(i) == node.fields[i]
           B(i) == Bytes(values, node.fields[i], junk)
           V == Frames
<1>1. PICK n \in Nat : DOMAIN node.fields = 1..n
  BY DEF LoadedInv
<1>2. total \in Nat
  BY DEF LoadedInv
<1>3. ASSUME NEW i \in 1..n
      PROVE  /\ EncSize[F(i).enc] \in {1, 2, 4} /\ F(i).offset \in Nat /\ Within(F(i), total)
             /\ \A k \in 1..EncSize[F(i).enc] : B(i)[k] \in 0..(Base - 1)
  <2>1. InBody(node.fields[i]) /\ values[node.fields[i].value] \in Int \cup {NaN}
    BY <1>1 DEF LoadedInv
  <2>2. Within(F(i), total)
    BY <1>1 DEF LoadedInv, LaidOut
  <2> QED
    BY <2>1, <2>2, BytesTyped
<1>4. \A i, g \in 1..n : i < g => Apart(F(i), F(g))
  BY <1>1 DEF LoadedInv, LaidOut
<1>5. EmptyFrame \in V
  <2>1. 0 \in 0..(Base - 1)
    BY Weights
  <2> QED
    BY <2>1 DEF EmptyFrame, Frames
<1> HIDE DEF F, B, V, total
<1>6. ASSUME NEW i \in 1..n, NEW v \in V
      PROVE  /\ PutField(v, F(i), B(i)) \in V
             /\ \A j \in 1..EncSize[F(i).enc] : PutField(v, F(i), B(i))[F(i).offset + j] = B(i)[j]
             /\ \A g \in 1..n : g < i => \A j \in 1..EncSize[F(g).enc] :
                    PutField(v, F(i), B(i))[F(g).offset + j] = v[F(g).offset + j]
  <2>1. /\ EncSize[F(i).enc] \in {1, 2, 4} /\ F(i).offset \in Nat /\ Within(F(i), total)
        /\ \A k \in 1..EncSize[F(i).enc] : B(i)[k] \in 0..(Base - 1)
    BY <1>3
  <2>2. v \in [1..total -> 0..(Base - 1)]
    BY DEF V, Frames, total
  <2>3. /\ PutField(v, F(i), B(i)) \in [1..total -> 0..(Base - 1)]
        /\ \A j \in 1..EncSize[F(i).enc] : PutField(v, F(i), B(i))[F(i).offset + j] = B(i)[j]
        /\ \A g : (EncSize[g.enc] \in {1, 2, 4} /\ g.offset \in Nat /\ Within(g, total) /\ Apart(g, F(i))) =>
                  \A j \in 1..EncSize[g.enc] :
                      PutField(v, F(i), B(i))[g.offset + j] = v[g.offset + j]
    <3>1. PICK f, bytes : f = F(i) /\ bytes = B(i)
      OBVIOUS
    <3>2. /\ EncSize[f.enc] \in {1, 2, 4} /\ f.offset \in Nat /\ Within(f, total)
          /\ \A k \in 1..EncSize[f.enc] : bytes[k] \in 0..(Base - 1)
      BY <2>1, <3>1
    <3>3. /\ PutField(v, f, bytes) \in [1..total -> 0..(Base - 1)]
          /\ \A j \in 1..EncSize[f.enc] : PutField(v, f, bytes)[f.offset + j] = bytes[j]
          /\ \A g : (EncSize[g.enc] \in {1, 2, 4} /\ g.offset \in Nat /\ Within(g, total) /\ Apart(g, f)) =>
                  \A j \in 1..EncSize[g.enc] :
                      PutField(v, f, bytes)[g.offset + j] = v[g.offset + j]
      BY <1>2, <2>2, <3>2, PutFieldTyped
    <3> QED
      BY <3>1, <3>3
  <2>4. \A g \in 1..n : g < i => /\ EncSize[F(g).enc] \in {1, 2, 4} /\ F(g).offset \in Nat
                                 /\ Within(F(g), total) /\ Apart(F(g), F(i))
    BY <1>3, <1>4
  <2> QED
    BY <2>3, <2>4 DEF V, Frames, total
<1>7. PICK h : /\ h[0] = EmptyFrame /\ Body(values, junk) = h[n]
               /\ \A k \in 1..n : h[k] = FrameWith(h[k - 1], k, values, junk)
  <2>1. Steady(n, values, junk)
    BY <1>6 DEF F, B, V, FrameWith, Steady
  <2>2. EmptyFrame \in Frames
    BY <1>5 DEF V
  <2> QED
    BY <1>1, <2>1, <2>2, BodyPrefixes DEF Prefixed
<1> DEFINE Good(k) == /\ h[k] \in V
                      /\ \A f \in 1..k : \A j \in 1..EncSize[F(f).enc] : h[k][F(f).offset + j] = B(f)[j]
           T == {k \in 0..n : ~Good(k)}
<1>8. Good(n)
  <2>1. SUFFICES ASSUME T # {} PROVE FALSE
    <3>1. n \in 0..n
      OBVIOUS
    <3> QED
      BY <3>1
  <2>2. PICK k \in T : \A i \in T : k <= i
    <3>1. T \in SUBSET Nat
      OBVIOUS
    <3> HIDE DEF T
    <3> QED
      BY <2>1, <3>1, LeastElement
  <2>3. k \in 0..n /\ ~Good(k)
    BY <2>2
  <2>4. CASE k = 0
    <3>1. h[0] \in V
      BY <1>5, <1>7
    <3>2. \A f \in 1..0 : FALSE
      OBVIOUS
    <3>3. Good(0)
      BY <3>1, <3>2
    <3> QED
      BY <2>3, <2>4, <3>3
  <2>5. CASE k # 0
    <3>1. k \in 1..n /\ k - 1 \in 0..n /\ ~(k <= k - 1)
      BY <2>3, <2>5
    <3>2. Good(k - 1)
      <4>1. k - 1 \notin T
        BY <2>2, <3>1
      <4> QED
        BY <3>1, <4>1
    <3>3. h[k] = PutField(h[k - 1], F(k), B(k)) /\ h[k - 1] \in V
      BY <1>7, <3>1, <3>2 DEF FrameWith, F, B
    <3>4. /\ h[k] \in V
          /\ \A j \in 1..EncSize[F(k).enc] : h[k][F(k).offset + j] = B(k)[j]
          /\ \A g \in 1..n : g < k => \A j \in 1..EncSize[F(g).enc] :
                    h[k][F(g).offset + j] = h[k - 1][F(g).offset + j]
      BY <1>6, <3>1, <3>3
    <3>5. ASSUME NEW f \in 1..k, NEW j \in 1..EncSize[F(f).enc]
          PROVE  h[k][F(f).offset + j] = B(f)[j]
      <4>1. CASE f = k
        BY <3>4, <4>1
      <4>2. CASE f # k
        <5>1. f \in 1..n /\ f < k /\ f \in 1..(k - 1)
          BY <3>1, <4>2
        <5>2. h[k - 1][F(f).offset + j] = B(f)[j]
          BY <3>2, <5>1
        <5> QED
          BY <3>4, <5>1, <5>2
      <4> QED
        BY <4>1, <4>2
    <3>6. Good(k)
      BY <3>4, <3>5
    <3> QED
      BY <2>3, <3>6
  <2> QED
    BY <2>4, <2>5
<1> QED
  BY <1>1, <1>7, <1>8 DEF F, B, V, total

(* A name of the payload has a last field.                                  *)
LEMMA LastFieldIs ==
    ASSUME LoadedInv, node # Nothing, NEW key \in {node.keys[f] : f \in DOMAIN node.keys}
    PROVE  LastField(key) \in DOMAIN node.fields /\ node.keys[LastField(key)] = key
<1> DEFINE S == {f \in DOMAIN node.keys : node.keys[f] = key}
<1>1. PICK n \in Nat : DOMAIN node.fields = 1..n /\ DOMAIN node.keys = 1..n
  BY DEF LoadedInv
<1>2. S \in SUBSET (1..n) /\ S # {}
  BY <1>1
<1>3. PICK m \in S : \A g \in S : g <= m
  <2> HIDE DEF S
  <2> QED
    BY <1>2, GreatestElement
<1>4. /\ m \in DOMAIN node.keys /\ node.keys[m] = key
      /\ \A g \in DOMAIN node.keys : node.keys[g] = key => g <= m
  BY <1>3
<1>5. LastField(key) \in DOMAIN node.keys /\ node.keys[LastField(key)] = key
  BY <1>4 DEF LastField
<1> QED
  BY <1>1, <1>5

(* What the node decodes of measurand i. *)
Value(i, m) ==
    LET w == node.meas[i]
    IN  Decoded(Laid(m[w.slot], Device[w.slot]), w.type, w.order, w.scale, w.offset)

LEMMA SlotTyped ==
    ASSUME LoadedInv, node # Nothing, NEW m \in Readings, NEW i \in DOMAIN node.meas
    PROVE  LET w == node.meas[i]
           IN  /\ OfDevice(w) /\ m \in [Slots -> Int] /\ m[w.slot] \in Int
               /\ Device[w.slot].type \in Types /\ Device[w.slot].order \in WordOrders
               /\ m[w.slot] \in Holds(Device[w.slot].type)
<1>1. OfDevice(node.meas[i])
  BY DEF LoadedInv
<1>2. node.meas[i].slot \in Slots
  BY <1>1 DEF OfDevice
<1>3. /\ Device[node.meas[i].slot] \in [type : Types, order : WordOrders, scale : Int, offset : Int]
      /\ m \in [Slots -> Int] /\ m[node.meas[i].slot] \in Holds(Device[node.meas[i].slot].type)
  BY <1>2, DeviceAssumption
<1> QED
  BY <1>1, <1>2, <1>3

LEMMA ValueTyped ==
    ASSUME LoadedInv, node # Nothing, NEW m \in Readings, NEW i \in DOMAIN node.meas
    PROVE  Value(i, m) \in Int \cup {NaN}
<1>1. PICK w : w = node.meas[i]
  OBVIOUS
<1>2. OfDevice(w) /\ m[w.slot] \in Int /\ Device[w.slot].order \in WordOrders
  BY <1>1, SlotTyped
<1>3. w.type \in Types /\ w.order \in WordOrders /\ w.scale \in Int /\ w.offset \in Int
  BY <1>2 DEF OfDevice
<1>4. Decoded(Laid(m[w.slot], Device[w.slot]), w.type, w.order, w.scale, w.offset) \in Int \cup {NaN}
  BY <1>2, <1>3, DecodedTyped
<1> QED
  BY <1>1, <1>4 DEF Value

(* What ChirpStack decodes from a frame. *)
LEMMA ObjectIs ==
    ASSUME LoadedInv, node # Nothing, NEW m \in Readings, NEW failed \in SUBSET Slots, NEW junk \in {0, -1},
           NEW key \in {node.keys[g] : g \in DOMAIN node.keys}
    PROVE  LET data == Object(Body(Values(m, failed), junk))
               f == node.fields[LastField(key)]
           IN  /\ data[key] \in Lo(f.enc)..Hi(f.enc)
               /\ failed = {} /\ Value(f.value, m) \in Int =>
                      data[key] = Wire(Value(f.value, m), f.enc, f.scale, 0)
<1>1. PICK l : l = LastField(key)
  OBVIOUS
<1>2. l \in DOMAIN node.fields
  BY <1>1, LastFieldIs
<1>3. PICK f : f = node.fields[l]
  OBVIOUS
<1>4. PICK values : values = Values(m, failed)
  OBVIOUS
<1>5. /\ \A i \in DOMAIN node.meas : values[i] \in Int \cup {NaN}
      /\ failed = {} => \A i \in DOMAIN node.meas : values[i] = Value(i, m)
  <2>1. \A i \in DOMAIN node.meas :
            values[i] = IF node.meas[i].slot \in failed THEN 0 ELSE Value(i, m)
    BY <1>4 DEF Values, Value
  <2>2. \A i \in DOMAIN node.meas : Value(i, m) \in Int \cup {NaN}
    BY ValueTyped
  <2> QED
    BY <2>1, <2>2
<1>6. InBody(f) /\ f.value \in DOMAIN node.meas /\ Within(f, node.total) /\ node.total \in Nat
  BY <1>2, <1>3 DEF LoadedInv, LaidOut
<1>7. junk \in Int
  OBVIOUS
<1>8. /\ EncSize[f.enc] \in {1, 2, 4} /\ f.offset \in Nat
      /\ DOMAIN Bytes(values, f, junk) = 1..EncSize[f.enc]
      /\ \A k \in 1..EncSize[f.enc] : Bytes(values, f, junk)[k] \in 0..(Base - 1)
  BY <1>5, <1>6, <1>7, BytesTyped
<1>9. PICK body : body = Body(values, junk)
  OBVIOUS
<1>10. /\ body \in [1..node.total -> 0..(Base - 1)]
       /\ \A j \in 1..EncSize[f.enc] : body[f.offset + j] = Bytes(values, f, junk)[j]
  BY <1>2, <1>3, <1>5, <1>7, <1>9, BodyHolds DEF Frames
<1>11. SubSeq(body, f.offset + 1, f.offset + EncSize[f.enc]) = Bytes(values, f, junk)
  <2>1. PICK o \in Nat, z \in Nat : o = f.offset /\ z = EncSize[f.enc] /\ z > 0 /\ o + z <= node.total
    BY <1>6, <1>8 DEF Within
  <2>2. PICK bytes : bytes = Bytes(values, f, junk)
    OBVIOUS
  <2>3. bytes = [k \in 1..z |-> bytes[k]]
    BY <2>1, <2>2 DEF Bytes, Digits
  <2>4. \A i \in (o + 1)..(o + z) : body[i] \in 0..(Base - 1)
    <3>1. \A i \in (o + 1)..(o + z) : i \in 1..node.total
      BY <1>6, <2>1
    <3> QED
      BY <1>10, <3>1
  <2>5. PICK s : s = SubSeq(body, o + 1, o + z)
    OBVIOUS
  <2>6. /\ s \in Seq(0..(Base - 1)) /\ Len(s) = z
        /\ \A i \in 1..z : s[i] = body[o + i]
    <3>1. o + 1 \in Int /\ o + z \in Int /\ o + 1 <= o + z
      BY <2>1
    <3>2. /\ s \in Seq(0..(Base - 1))
          /\ Len(s) = IF o + 1 <= o + z THEN ((o + z) - (o + 1)) + 1 ELSE 0
          /\ \A i \in 1..(((o + z) - (o + 1)) + 1) : s[i] = body[(o + 1) + (i - 1)]
      BY <2>4, <2>5, <3>1, SubSeqProperties
    <3>3. ((o + z) - (o + 1)) + 1 = z /\ \A i \in 1..z : (o + 1) + (i - 1) = o + i
      BY <2>1
    <3> QED
      BY <3>1, <3>2, <3>3
  <2>7. DOMAIN s = 1..z /\ s = [k \in 1..z |-> s[k]]
    BY <2>6
  <2>8. \A k \in 1..z : s[k] = bytes[k]
    BY <1>10, <2>1, <2>2, <2>6
  <2>9. s = bytes
    BY <2>3, <2>7, <2>8
  <2> QED
    BY <2>1, <2>2, <2>5, <2>9
<1>12. Object(body)[key] = Reader(Bytes(values, f, junk), f.enc)
  <2>1. Object(body)[key] = Reader(SubSeq(body, f.offset + 1, f.offset + EncSize[f.enc]), f.enc)
    BY <1>1, <1>3 DEF Object
  <2> QED
    BY <1>11, <2>1
<1>13. Object(body)[key] \in Lo(f.enc)..Hi(f.enc)
  BY <1>8, <1>12, ReaderIn
<1>14. ASSUME failed = {}, Value(f.value, m) \in Int
       PROVE  Object(body)[key] = Wire(Value(f.value, m), f.enc, f.scale, 0)
  <2>1. PICK v \in Int : v = Value(f.value, m)
    BY <1>14
  <2>2. values[f.value] = v
    BY <1>5, <1>6, <1>14, <2>1
  <2>3. v # NaN
    BY FixedPointAssumption
  <2>4. Wire(v, f.enc, f.scale, junk) = Wire(v, f.enc, f.scale, 0)
    BY <2>3 DEF Wire
  <2>5. Wire(v, f.enc, f.scale, 0) \in Lo(f.enc)..Hi(f.enc)
    <3>1. f.scale \in Nat
      BY <1>6 DEF InBody
    <3> QED
      BY <1>8, <3>1, WireIn
  <2>6. Bytes(values, f, junk) = Digits(Wire(v, f.enc, f.scale, 0), EncSize[f.enc])
    BY <2>2, <2>4 DEF Bytes
  <2> QED
    BY <1>8, <1>12, <2>1, <2>5, <2>6, ReaderOfDigits
<1> QED
  BY <1>1, <1>3, <1>4, <1>9, <1>13, <1>14

-----------------------------------------------------------------------------
(* What ChirpStack shows.                                                  *)

(* What is shown is what the node decoded and rounded, although it went     *)
(* through the bytes of a frame; a field of a NaN still is in its limits.   *)
ShownAs(key) ==
    LET f == node.fields[LastField(key)]
    IN  /\ shown.data[key] \in Lo(f.enc)..Hi(f.enc)
        /\ ~shown.stale /\ Value(f.value, meter) \in Int =>
               shown.data[key] = Wire(Value(f.value, meter), f.enc, f.scale, 0)
ShownInv ==
    /\ meter \in [Slots -> Int]
    /\ shown # Nothing =>
         /\ node # Nothing /\ meter \in Readings /\ shown.stale \in BOOLEAN
         /\ DOMAIN shown.data = {node.keys[f] : f \in DOMAIN node.keys}
         /\ \A key \in {node.keys[f] : f \in DOMAIN node.keys} : ShownAs(key)

(* A report brings it about,                                                *)
LEMMA ReportStep ==
    ASSUME LoadedInv, NEW m \in Readings, NEW failed \in SUBSET Slots, Report(m, failed)
    PROVE  ShownInv'
<1>1. PICK junk \in {0, -1} :
          shown' = [stale |-> failed # {}, data |-> Object(Body(Values(m, failed), junk))]
  BY DEF Report
<1>2. node' = node /\ meter' = m /\ node # Nothing
  BY DEF Report
<1>3. PICK data : data = Object(Body(Values(m, failed), junk))
  OBVIOUS
<1>4. shown'.data = data /\ shown'.stale = (failed # {}) /\ shown'.stale \in BOOLEAN
  BY <1>1, <1>3
<1>5. DOMAIN data = {node.keys[f] : f \in DOMAIN node.keys}
  BY <1>3 DEF Object
<1>6. ASSUME NEW key \in {node.keys[f] : f \in DOMAIN node.keys}
      PROVE  ShownAs(key)'
  <2>1. /\ data[key] \in Lo(node.fields[LastField(key)].enc)..Hi(node.fields[LastField(key)].enc)
        /\ failed = {} /\ Value(node.fields[LastField(key)].value, m) \in Int =>
               data[key] = Wire(Value(node.fields[LastField(key)].value, m), node.fields[LastField(key)].enc,
                                node.fields[LastField(key)].scale, 0)
    BY <1>2, <1>3, ObjectIs
  <2>2. LastField(key)' = LastField(key)
    BY <1>2 DEF LastField
  <2>3. PICK l : l = LastField(key)
    OBVIOUS
  <2>4. Value(node.fields[l].value, meter)' = Value(node.fields[l].value, m)
    BY <1>2 DEF Value
  <2>5. failed = {} <=> ~shown'.stale
    BY <1>4
  <2> QED
    BY <1>2, <1>4, <2>1, <2>2, <2>3, <2>4, <2>5 DEF ShownAs
<1>7. m \in [Slots -> Int]
  BY DeviceAssumption
<1>8. {node'.keys[f] : f \in DOMAIN node'.keys} = {node.keys[f] : f \in DOMAIN node.keys}
  BY <1>2
<1> QED
  BY <1>2, <1>4, <1>5, <1>6, <1>7, <1>8 DEF ShownInv

(* and it is invariant: what is loaded clears what was shown.               *)
LEMMA ShownIs == Spec => []ShownInv
<1>1. Init => ShownInv
  BY DEF Init, ShownInv
<1>2. LoadedInv /\ ShownInv /\ [Next]_vars => ShownInv'
  <2> SUFFICES ASSUME LoadedInv, ShownInv, [Next]_vars
               PROVE  ShownInv'
    OBVIOUS
  <2>1. ASSUME NEW p, Load(p)
        PROVE  ShownInv'
    BY <2>1 DEF Load, ShownInv
  <2>2. CASE Onboard
    BY <2>1, <2>2 DEF Onboard
  <2>3. CASE TakeHandWritten
    BY <2>1, <2>3 DEF TakeHandWritten
  <2>4. ASSUME NEW m \in Readings, NEW failed \in SUBSET Slots, Report(m, failed)
        PROVE  ShownInv'
    BY <2>4, ReportStep
  <2>5. CASE UNCHANGED vars
    <3>1. node' = node /\ meter' = meter /\ shown' = shown
      BY <2>5 DEF vars
    <3>2. ASSUME NEW key, ShownAs(key)
          PROVE  ShownAs(key)'
      <4>1. LastField(key)' = LastField(key)
        BY <3>1 DEF LastField
      <4>2. PICK l : l = LastField(key)
        OBVIOUS
      <4>3. Value(node.fields[l].value, meter)' = Value(node.fields[l].value, meter)
        BY <3>1 DEF Value
      <4> QED
        BY <3>1, <3>2, <4>1, <4>2, <4>3 DEF ShownAs
    <3>3. {node'.keys[f] : f \in DOMAIN node'.keys} = {node.keys[f] : f \in DOMAIN node.keys}
      BY <3>1
    <3> QED
      BY <3>1, <3>2, <3>3 DEF ShownInv
  <2> QED
    BY <2>2, <2>3, <2>4, <2>5 DEF Next
<1> QED
  BY <1>1, <1>2, Loaded, PTL DEF Spec

(* Every number ChirpStack shows is within the limits of the encoding its   *)
(* field has, even of a NaN (device_profile.c, sat_i and sat_u;             *)
(* profile_to_decoder.py), under the names the profile gives.               *)
THEOREM Typed == Spec => []TypeOK
<1>1. LoadedInv /\ ShownInv => TypeOK
  <2> SUFFICES ASSUME LoadedInv, ShownInv
               PROVE  TypeOK
    OBVIOUS
  <2>1. node # Nothing => /\ DOMAIN node.keys = DOMAIN node.fields /\ node.meas # <<>>
                         /\ \A f \in DOMAIN node.fields : node.fields[f].value \in DOMAIN node.meas
    BY DEF LoadedInv
  <2>2. meter \in [Slots -> Int]
    BY DEF ShownInv
  <2>3. shown # Nothing =>
         /\ node # Nothing /\ shown.stale \in BOOLEAN
         /\ DOMAIN shown.data = {node.keys[f] : f \in DOMAIN node.keys}
         /\ \A key \in DOMAIN shown.data :
                LET enc == node.fields[LastField(key)].enc
                IN  shown.data[key] \in Lo(enc)..Hi(enc)
    BY DEF ShownInv, ShownAs
  <2> QED
    BY <2>1, <2>2, <2>3 DEF TypeOK
<1> QED
  BY <1>1, Loaded, ShownIs, PTL

(* A measurand that the operator described as the device has it.            *)
LEMMA DescribedIs ==
    ASSUME LoadedInv, node # Nothing, NEW i \in DOMAIN node.meas, Described(i), NEW m \in Readings
    PROVE  LET w == node.meas[i]  device == Device[w.slot]  n == m[w.slot]
           IN  /\ device.type \in Types /\ device.order \in WordOrders /\ n \in Holds(device.type)
               /\ w.scale \in Int /\ w.offset \in Int
               /\ Value(i, m) = Decoded(Laid(n, device), device.type, device.order, w.scale, w.offset)
               /\ IsNaN(i, m) <=> device.type = "float32" /\ 2 * n = -Weight[4]
               /\ Scaled(i, m) = (Exactly(n, device.type) * w.scale) \div Unit
               /\ Displayed(i, m) = (Exactly(n, device.type) * w.scale) \div Unit + w.offset
<1>1. PICK w, device, n : w = node.meas[i] /\ device = Device[w.slot] /\ n = m[w.slot]
  OBVIOUS
<1>2. /\ OfDevice(w) /\ device.type \in Types /\ device.order \in WordOrders /\ n \in Holds(device.type)
  BY <1>1, SlotTyped
<1>3. w.type = device.type /\ w.order = device.order
  BY <1>1 DEF Described
<1>4. w.scale \in Int /\ w.offset \in Int
  BY <1>2 DEF OfDevice
<1>5. Value(i, m) = Decoded(Laid(n, device), device.type, device.order, w.scale, w.offset)
  BY <1>1, <1>3 DEF Value
<1>6. IsNaN(i, m) <=> device.type = "float32" /\ 2 * n = -Weight[4]
  BY <1>1, <1>3 DEF IsNaN, IsFloat
<1>7. Scaled(i, m) = (Exactly(n, device.type) * w.scale) \div Unit
  BY <1>1, <1>3 DEF Scaled, IsFloat, Exactly
<1>8. Displayed(i, m) = (Exactly(n, device.type) * w.scale) \div Unit + w.offset
  BY <1>1, <1>7 DEF Displayed
<1> QED
  BY <1>1, <1>2, <1>4, <1>5, <1>6, <1>7, <1>8

(* It is near what the meter displays,                                      *)
LEMMA NearestStep == LoadedInv /\ ShownInv => NearestShown
<1> SUFFICES ASSUME LoadedInv, ShownInv, shown # Nothing, ~shown.stale, NEW key \in DOMAIN shown.data,
                    \A i \in DOMAIN node.meas : node.meas[i].key = key =>
                        /\ Described(i) /\ ~IsNaN(i, meter)
                        /\ Precise(i, node.fields[LastField(key)])
             PROVE  \E i \in DOMAIN node.meas :
                       /\ node.meas[i].key = key
                       /\ Nearest(shown.data[key], Displayed(i, meter) * node.fields[LastField(key)].scale,
                                  Lo(node.fields[LastField(key)].enc), Hi(node.fields[LastField(key)].enc))
  BY DEF NearestShown, Nearest
<1>1. /\ node # Nothing /\ meter \in Readings /\ ShownAs(key)
      /\ key \in {node.keys[f] : f \in DOMAIN node.keys}
  BY DEF ShownInv
<1>2. PICK l \in DOMAIN node.fields : l = LastField(key) /\ node.keys[l] = key
  BY <1>1, LastFieldIs
<1>3. PICK f, i : f = node.fields[l] /\ i = f.value
  OBVIOUS
<1>4. InBody(f) /\ i \in DOMAIN node.meas /\ node.meas[i].key = key
  BY <1>1, <1>2, <1>3 DEF LoadedInv
<1>5. Described(i) /\ ~IsNaN(i, meter) /\ Precise(i, f)
  BY <1>2, <1>3, <1>4
<1>6. PICK w, device, n : w = node.meas[i] /\ device = Device[w.slot] /\ n = meter[w.slot]
  OBVIOUS
<1>7. /\ device.type \in Types /\ device.order \in WordOrders /\ n \in Holds(device.type)
      /\ w.scale \in Int /\ w.offset \in Int
      /\ Value(i, meter) = Decoded(Laid(n, device), device.type, device.order, w.scale, w.offset)
      /\ IsNaN(i, meter) <=> device.type = "float32" /\ 2 * n = -Weight[4]
      /\ Scaled(i, meter) = (Exactly(n, device.type) * w.scale) \div Unit
      /\ Displayed(i, meter) = (Exactly(n, device.type) * w.scale) \div Unit + w.offset
  BY <1>1, <1>4, <1>5, <1>6, DescribedIs
<1>8. /\ Magnitude(n) < Exact
      /\ w.offset = 0 \/ Magnitude((Exactly(n, device.type) * w.scale) \div Unit) <= Bound
      /\ Hi(f.enc) < Exact \/ Magnitude(Displayed(i, meter) * f.scale) < Bound
  BY <1>5, <1>6, <1>7 DEF Precise, Bound
<1>9. Displayed(i, meter) \in Int /\ Value(i, meter) = Single(Displayed(i, meter))
  BY <1>5, <1>7, <1>8, DecodedPrecise
<1>10. EncSize[f.enc] \in {1, 2, 4} /\ f.scale \in Nat
  BY <1>4, Sizes DEF InBody
<1>11. shown.data[key] = Wire(Single(Displayed(i, meter)), f.enc, f.scale, 0)
  <2>1. Value(i, meter) \in Int
    BY <1>9, SingleInt
  <2> QED
    BY <1>1, <1>2, <1>3, <1>9, <2>1 DEF ShownAs
<1>12. Nearest(shown.data[key], Displayed(i, meter) * f.scale, Lo(f.enc), Hi(f.enc))
  BY <1>8, <1>9, <1>10, <1>11, WireNearest
<1> QED
  BY <1>2, <1>3, <1>4, <1>12

(* Of all a field can say, ChirpStack shows what is nearest to the number   *)
(* the meter displays: through both floats of dp_decode, the word order,    *)
(* the rounding and saturation of put_field and the decoder's readers,      *)
(* nothing wraps and no other register is taken (device_profile.h:92-93).   *)
THEOREM Nearby == Spec => []NearestShown
  BY Loaded, ShownIs, NearestStep, PTL

(* and rises with it.                                                       *)
LEMMA RisesStep ==
    ASSUME LoadedInv, ShownInv, ShownInv', node' = node, shown # Nothing, shown' # Nothing,
           ~shown.stale, ~shown'.stale, NEW l \in DOMAIN node.fields, l = LastField(node.keys[l]),
           Described(node.fields[l].value),
           ~IsNaN(node.fields[l].value, meter), ~IsNaN(node.fields[l].value, meter'),
           Displayed(node.fields[l].value, meter) <= Displayed(node.fields[l].value, meter')
    PROVE  shown.data[node.keys[l]] <= shown'.data[node.keys[l]]
<1>1. PICK f, i, key : f = node.fields[l] /\ i = f.value /\ key = node.keys[l]
  OBVIOUS
<1>2. /\ node # Nothing /\ meter \in Readings /\ meter' \in Readings
      /\ key \in {node.keys[g] : g \in DOMAIN node.keys}
  BY <1>1 DEF ShownInv, LoadedInv
<1>3. InBody(f) /\ i \in DOMAIN node.meas
  BY <1>1, <1>2 DEF LoadedInv
<1>4. /\ ShownAs(key) /\ ShownAs(key)'
  BY <1>2 DEF ShownInv
<1>5. LastField(key) = l /\ LastField(key)' = l
  <2>1. LastField(key)' = LastField(key)
    BY DEF LastField
  <2> QED
    BY <1>1, <2>1
<1>6. Value(i, meter)' = Value(i, meter')
  BY DEF Value
<1>7. /\ Value(i, meter) \in Int => shown.data[key] = Wire(Value(i, meter), f.enc, f.scale, 0)
      /\ Value(i, meter') \in Int => shown'.data[key] = Wire(Value(i, meter'), f.enc, f.scale, 0)
  BY <1>1, <1>4, <1>5, <1>6 DEF ShownAs
<1>8. PICK w, device, n, m :
          w = node.meas[i] /\ device = Device[w.slot] /\ n = meter[w.slot] /\ m = meter'[w.slot]
  OBVIOUS
<1>9. /\ device.type \in Types /\ device.order \in WordOrders
      /\ n \in Holds(device.type) /\ m \in Holds(device.type)
      /\ w.scale \in Int /\ w.offset \in Int
      /\ Value(i, meter) = Decoded(Laid(n, device), device.type, device.order, w.scale, w.offset)
      /\ Value(i, meter') = Decoded(Laid(m, device), device.type, device.order, w.scale, w.offset)
      /\ ~(device.type = "float32" /\ 2 * n = -Weight[4])
      /\ ~(device.type = "float32" /\ 2 * m = -Weight[4])
      /\ (Exactly(n, device.type) * w.scale) \div Unit + w.offset
             <= (Exactly(m, device.type) * w.scale) \div Unit + w.offset
  <2>1. Described(i) /\ ~IsNaN(i, meter) /\ ~IsNaN(i, meter') /\ Displayed(i, meter) <= Displayed(i, meter')
    BY <1>1
  <2> QED
    BY <1>2, <1>3, <1>8, <2>1, DescribedIs
<1>10. Value(i, meter) \in Int /\ Value(i, meter') \in Int /\ Value(i, meter) <= Value(i, meter')
  BY <1>9, DecodedRises
<1>11. EncSize[f.enc] \in {1, 2, 4} /\ f.scale \in Nat
  BY <1>3, Sizes DEF InBody
<1>12. Wire(Value(i, meter), f.enc, f.scale, 0) <= Wire(Value(i, meter'), f.enc, f.scale, 0)
  BY <1>10, <1>11, WireRises
<1> QED
  BY <1>1, <1>7, <1>10, <1>12

(* Between two complete frames a value that the meter displays no lower is  *)
(* not shown to fall, however many digits it has lost on its way            *)
(* (device_profile.c, dp_decode and put_field): counters do not run back.   *)
THEOREM CountersRise == Spec => NeverFalls
<1>1. /\ LoadedInv /\ ShownInv /\ ShownInv' /\ [Next]_vars =>
         [ node' = node /\ shown # Nothing /\ shown' # Nothing /\ ~shown.stale /\ ~shown'.stale =>
            \A f \in DOMAIN node.fields :
                LET i == node.fields[f].value IN
                ( /\ f = LastField(node.keys[f]) /\ Described(i)
                  /\ ~IsNaN(i, meter) /\ ~IsNaN(i, meter')
                  /\ Displayed(i, meter) <= Displayed(i, meter') )
                => shown.data[node.keys[f]] <= shown'.data[node.keys[f]] ]_vars
  BY RisesStep
<1> QED
  BY <1>1, Loaded, ShownIs, PTL DEF Spec, NeverFalls

(* Whatever was swept and named, dropped or left out, each field of a       *)
(* loaded profile lies in the frame and apart from the others, and the      *)
(* frame fits (profile_emitter.py, pack_payload): the node never has to     *)
(* refuse a profile it has loaded (device_profile.c, dp_encode_payload).    *)
THEOREM Layout == Spec => []LayoutSound
<1>1. LoadedInv => LayoutSound
  BY DEF LoadedInv, LayoutSound
<1> QED
  BY Loaded, <1>1, PTL

(* A field of the blob carries the measurand of its name, although the blob *)
(* names it by its place in a list from which others were dropped           *)
(* (profile_to_blob.py, profile_from_json).                                 *)
OwnMeasurand == node # Nothing =>
    \A f \in DOMAIN node.fields : /\ node.fields[f].value \in DOMAIN node.meas
                                  /\ node.meas[node.fields[f].value].key = node.keys[f]
THEOREM FieldsOwn == Spec => []OwnMeasurand
<1>1. LoadedInv => OwnMeasurand
  BY DEF LoadedInv, OwnMeasurand
<1> QED
  BY Loaded, <1>1, PTL
=============================================================================
