--------------------------- MODULE MCNodeSurvey ---------------------------
(***************************************************************************)
(* An instance of NodeSurvey for TLC: a meter at the second line setting   *)
(* whose last input register lies inside a block, and another device at    *)
(* the third setting.                                                      *)
(***************************************************************************)
EXTENDS NodeSurvey

CONSTANTS l1, l2, l3

Holds(input, holding) ==
    [fc \in {3, 4} |-> [r \in Regs |->
        IF r \in (IF fc = 4 THEN input ELSE holding) THEN 10 * fc + r ELSE Nothing]]
MCLines == <<l1, l2, l3>>
MCBus == {[line |-> l2, unit |-> 2, holds |-> Holds({0, 1, 2}, {2})],
          [line |-> l3, unit |-> 1, holds |-> Holds({}, {0})]}
=============================================================================
