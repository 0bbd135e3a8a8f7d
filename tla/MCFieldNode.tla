---------------------------- MODULE MCFieldNode ----------------------------
(***************************************************************************)
(* Instances of FieldNode for TLC.  The configurations give the constants; *)
(* the definitions below restrict the world for the runs that show a       *)
(* disagreement, so that their counterexamples hold nothing accidental.    *)
(***************************************************************************)
EXTENDS FieldNode

(* Two devices share the bus: the meter at unit 2, to which the operator has *)
(* pinned the node, and a device of another type at unit 1.  All that ever   *)
(* happens is that the meter loses power and gets it back.                   *)
PinnedInit == /\ Init
              /\ nvs = [creds |-> TRUE, unit |-> 2, profile |-> "fits"]
              /\ bus[1] = "foreign" /\ bus[2] = "meter"
              /\ reachable

PinnedSpec == /\ PinnedInit
              /\ [][NodeStep \/ WdtReset \/ Rewire(2)]_vars
              /\ WF_vars(NodeStep \/ WdtReset)

(* A provisioned, connected node whose meter may lose power. *)
MeteredInit == /\ Init
               /\ nvs = [creds |-> TRUE, unit |-> 1, profile |-> "fits"]
               /\ bus[1] = "meter"
               /\ reachable

MeteredSpec == MeteredInit /\ [][NodeStep \/ WdtReset \/ Rewire(1)]_vars
=============================================================================
