------------------------------- MODULE Session -------------------------------
(***************************************************************************)
(* What the rest of the station may rely on of the orchestrator's session  *)
(* (pi-scanner/app/orchestrator.py): which state it shows, which task      *)
(* runs, and what a reset, a restart or a failing step does to both.       *)
(* ScanStation implements it; Kiosk puts the operator's page on top of it. *)
(***************************************************************************)
CONSTANTS
    Candidates, \* the profiles that may be proposed and edited
    Profiles,   \* the profiles that may be generated
    Nothing

VARIABLES state, task, candidate, artifacts

vars == <<state, task, candidate, artifacts>>

Tasks == {"none", "search", "searching", "assembling", "generating", "flashing", "probing", "profiling"}
Busy == {"searching", "flashing", "probing", "profiling"}
States == Busy \cup {"idle", "preparing_profile", "success", "failed"}

Labelled == \E c \in Candidates : candidate' = c

Init == state = "idle" /\ task = "none" /\ candidate = Nothing /\ artifacts = Nothing

-----------------------------------------------------------------------------
(* Requests *)

Clear == state' = "idle" /\ candidate' = Nothing /\ artifacts' = Nothing

(* It does not stop the task. *)
Reset == Clear /\ UNCHANGED task

StartSearch == task = "none" /\ Clear /\ task' = "search"

Edit == candidate # Nothing /\ Labelled /\ UNCHANGED <<state, task, artifacts>>

Confirm == task = "none" /\ candidate # Nothing /\ task' = "assembling"
           /\ UNCHANGED <<state, candidate, artifacts>>

-----------------------------------------------------------------------------
(* The task *)

(* It goes on and shows the state s. *)
Step(from, to, s) == task = from /\ task' = to /\ state' = s

BeginSearch == Step("search", "searching", "searching") /\ UNCHANGED <<candidate, artifacts>>

Propose == /\ Step("searching", "none", "preparing_profile")
           /\ Labelled /\ UNCHANGED artifacts

Assemble == /\ Step("assembling", "generating", "flashing")
            /\ candidate # Nothing /\ Labelled /\ UNCHANGED artifacts

Package == /\ Step("generating", "flashing", state)
           /\ artifacts' \in Profiles /\ UNCHANGED candidate

Flashed == Step("flashing", "probing", "probing") /\ UNCHANGED <<candidate, artifacts>>
Provisioned == Step("probing", "profiling", "profiling") /\ UNCHANGED <<candidate, artifacts>>
Succeed == Step("profiling", "none", "success") /\ UNCHANGED <<candidate, artifacts>>

(* Any step may fail, also after it has edited the candidate or has left     *)
(* its profile as the artifacts.                                             *)
Fail ==
    /\ task # "none" /\ task' = "none" /\ state' = "failed"
    /\ \/ UNCHANGED candidate
       \/ task = "assembling" /\ candidate # Nothing /\ Labelled
    /\ \/ UNCHANGED artifacts
       \/ task = "generating" /\ artifacts' \in Profiles

Task == BeginSearch \/ Propose \/ Assemble \/ Package \/ Flashed \/ Provisioned \/ Succeed \/ Fail

-----------------------------------------------------------------------------
Restart == Clear /\ task' = "none"

Next == Reset \/ StartSearch \/ Edit \/ Confirm \/ Task \/ Restart

Spec == Init /\ [][Next]_vars
FairSpec == Spec /\ WF_vars(Task)
=============================================================================
