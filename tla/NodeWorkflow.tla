---------------------------- MODULE NodeWorkflow ----------------------------
(***************************************************************************)
(* What a field node promises (firmware/main/app_main.c:396-401 and the    *)
(* contract table of docs/CRM_PROVISIONING_WORKFLOW.md): find the sensor,  *)
(* join once, report through the unit that was found, and when the sensor  *)
(* goes silent search again without losing the session.  Everything else   *)
(* of the firmware (scan steps, retries, watchdog, LED) is invisible here. *)
(***************************************************************************)
CONSTANTS UnitIds,    \* the Modbus unit IDs a configuration can hold
          Frames,     \* the uplinks a node can send
          NoFrame     \* nothing sent yet

VARIABLES phase,      \* where the workflow stands
          joined,     \* an OTAA session exists
          target,     \* the unit the node reads
          uplink      \* the last frame handed to the radio

vars == <<phase, joined, target, uplink>>

Phases == {"boot", "idle", "discover", "join", "report"}

Init == /\ phase = "boot"
        /\ joined = FALSE
        /\ target \in UnitIds
        /\ uplink = NoFrame

(* app_main reads the provisioning state. *)
Configure == /\ phase = "boot"
             /\ target' \in UnitIds
             /\ phase' \in {"boot", "idle", "discover", "join"}
             /\ UNCHANGED <<joined, uplink>>

(* A unit answered: the node joins unless it already holds a session. *)
FindSensor == /\ phase = "discover"
              /\ target' \in UnitIds
              /\ phase' = IF joined THEN "report" ELSE "join"
              /\ UNCHANGED <<joined, uplink>>

Join == /\ phase = "join"
        /\ ~joined
        /\ joined' = TRUE
        /\ phase' = "report"
        /\ UNCHANGED <<target, uplink>>

(* The only step that sends anything. *)
Report == /\ phase = "report"
          /\ joined
          /\ uplink' \in Frames
          /\ UNCHANGED <<phase, joined, target>>

LoseSensor == /\ phase = "report"
              /\ phase' = "discover"
              /\ UNCHANGED <<joined, target, uplink>>

(* Power loss, prov-done or a watchdog reset; the session is in RAM. *)
Reset == /\ phase' = "boot"
         /\ joined' = FALSE
         /\ target' \in UnitIds
         /\ UNCHANGED uplink

Next == Configure \/ FindSensor \/ Join \/ Report \/ LoseSensor \/ Reset

Spec == Init /\ [][Next]_vars
=============================================================================
