--------------------------- MODULE MCScanStation ---------------------------
(***************************************************************************)
(* An instance of ScanStation for TLC: the repository comes with one       *)
(* profile, of the meter that the tool's fixed codec also decodes.         *)
(***************************************************************************)
EXTENDS ScanStation

CONSTANT meter

MCMeter == [pid |-> meter, byte |-> 1, fields |-> {1}]
MCShipped == {MCMeter}
MCToolCodec == [b \in 1..MaxByte |-> IF b = 1 THEN MCMeter ELSE Nothing]
=============================================================================
