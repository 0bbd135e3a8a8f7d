---------------------------- MODULE MCModbusBus ----------------------------
(***************************************************************************)
(* Instances of ModbusBus for TLC: a profile whose reads cannot be told    *)
(* apart by their replies, with a scan rule that can.                      *)
(***************************************************************************)
EXTENDS ModbusBus

MCReads == <<[fc |-> 3, qty |-> 1], [fc |-> 3, qty |-> 1]>>
MCScanUnlike == [fc |-> 4, qty |-> 1]
=============================================================================
