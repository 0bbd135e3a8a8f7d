------------------------------ MODULE Inference ------------------------------
(***************************************************************************)
(* What the station makes of a swept register map before the operator has  *)
(* said anything (pi-scanner/app/inference.py): the function code and the  *)
(* word order it goes by, and a candidate per register or pair of them.    *)
(*                                                                         *)
(* A map gives each function code the words of the registers present.      *)
(***************************************************************************)
EXTENDS FixedPoint, FiniteSets, FiniteSetsExt

CONSTANTS
    Least, Most,   \* a reading is plausible between them: 0.001 and 1000000
    Large          \* 10000: a value beyond is taken for an accumulator

ASSUME InferenceAssumption == {Least, Most, Large} \subseteq Nat \ {0}

Orders == <<"ABCD", "CDAB", "BADC", "DCBA">>

PlausibleF32(v) == v # NaN /\ (v = 0 \/ Magnitude(v) \in Least..Most)

DecodeF32(words, a, order) == FloatOf(Assembled(<<words[a], words[a + 1]>>, order))

(* Even-aligned adjacent registers. *)
Pairs(words) == {a \in DOMAIN words : a % 2 = 0 /\ a + 1 \in DOMAIN words}

(* The pairs an order makes plausible and not zero. *)
Score(words, order) ==
    Cardinality({a \in Pairs(words) : /\ PlausibleF32(DecodeF32(words, a, order))
                                      /\ DecodeF32(words, a, order) # 0})

(* The first order with the best score. *)
BestWordOrder(words) ==
    IF Pairs(words) = {} THEN "CDAB"
    ELSE Orders[Min({i \in DOMAIN Orders :
                        \A j \in DOMAIN Orders : Score(words, Orders[j]) <= Score(words, Orders[i])})]

(* Floats only if most pairs, 60 of 100, make sense as such. *)
FloatMode(words) ==
    /\ Pairs(words) # {}
    /\ 10 * Score(words, BestWordOrder(words)) >= 6 * Cardinality(Pairs(words))

DominantFC(map) == IF Cardinality(DOMAIN map[3]) > Cardinality(DOMAIN map[4]) THEN 3 ELSE 4

FloatPairs(words) ==
    IF FloatMode(words)
    THEN LET order == BestWordOrder(words)
         IN  {a \in Pairs(words) : PlausibleF32(DecodeF32(words, a, order))}
    ELSE {}

(* infer_profile: the candidates, by register. *)
Candidates(words) ==
    LET order == BestWordOrder(words)
        floats == FloatPairs(words)
        Sample(a) == IF a \in floats THEN DecodeF32(words, a, order) ELSE Unit * words[a]
    IN  [a \in DOMAIN words \ {p + 1 : p \in floats} |->
            [type |-> IF a \in floats THEN "float32" ELSE "u16", order |-> order,
             sample |-> Sample(a),
             accumulating |-> a \in floats /\ Magnitude(Sample(a)) > Large]]
=============================================================================
