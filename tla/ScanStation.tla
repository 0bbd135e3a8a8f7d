----------------------------- MODULE ScanStation -----------------------------
(***************************************************************************)
(* The scanner station (pi-scanner/app): the session of one station        *)
(* (orchestrator.py), the directory of device profiles it writes           *)
(* (profile_emitter.py and the generators of device-profiles/), and the    *)
(* nodes and the ChirpStack decoder it sets up (onboarding.py).            *)
(*                                                                         *)
(* One asyncio task at a time does the long work and hands each blocking   *)
(* step to a thread; requests of the kiosk are handled between two of its  *)
(* steps.  The Pi may lose power; files, nodes and ChirpStack stay.        *)
(* A measurand is its register; every payload field has the same size.     *)
(* The device of the credentials is on the tool's ChirpStack profile.      *)
(***************************************************************************)
EXTENDS Naturals, FiniteSets, Sequences

CONSTANTS
    Names,      \* what the operator may call a device (the slug of make and model)
    NoName,     \* the operator left both empty
    Regs,       \* registers a sweep finds
    Budget,     \* payload fields that fit a DR3 uplink
    MaxByte,    \* the last type byte
    Shipped,    \* the profiles the repository comes with
    ToolCodec,  \* chirpstack_mfm384_decoder.js: type byte -> the profile it decodes
    Backlog,    \* type bytes of the node's earlier uplinks that ChirpStack still shows
    Nothing,    \* Python's None, and an absent file
    Partial,    \* a file whose writing was cut short
    MaxConfirms \* bound: onboardings and power cuts (TLC only)

ASSUME ScanStationAssumption ==
    /\ Regs \subseteq Nat /\ IsFiniteSet(Regs)
    /\ Budget \in Nat /\ MaxByte \in Nat \ {0} /\ MaxConfirms \in Nat
    /\ NoName \notin Names /\ Backlog \subseteq 1..MaxByte

VARIABLES
    state,      \* SessionState, what the kiosk shows
    task,       \* where the running task is; "none" when there is none
    node,       \* self._node is set
    onboarding, \* self._onboarding is set
    candidate,  \* Nothing, or the named registers of the proposed profile
    operator,   \* the last operator input
    artifacts,  \* Nothing, or the profile they were generated from
    making,     \* the profile the running task works on
    consoles,   \* serial consoles open
    files,      \* device-profiles/profiles
    decoder,    \* the decoder generated from them: type byte -> profile
    codecs,     \* the codecs of ChirpStack's device-profiles of the product's name
    bench,      \* the profile in the node on the bench
    confirms    \* confirmations and power cuts so far

session == <<state, candidate, artifacts, node, onboarding>>
world == <<files, decoder, codecs, bench>>
vars == <<session, task, operator, making, consoles, world, confirms>>

-----------------------------------------------------------------------------
Pids == Names \cup 1..MaxByte     \* a device without a name is scanned-dev-<byte>
ProfileSet == [pid : Pids, byte : 1..MaxByte, fields : SUBSET Regs]
Decoders == [1..MaxByte -> ProfileSet \cup {Nothing}]
NoCodec == [b \in 1..MaxByte |-> Nothing]
NoEdits == Nothing                \* no edit was ever posted
Inputs == [name : Names \cup {NoName}, edits : {NoEdits} \cup SUBSET Regs]
Busy == {"searching", "flashing", "probing", "profiling"}
States == Busy \cup {"idle", "preparing_profile", "success", "failed"}

(* Of the profiles the repository comes with, validate_profiles says so. *)
ASSUME ShippedAssumption ==
    /\ Shipped \subseteq ProfileSet /\ ToolCodec \in Decoders
    /\ \A s, t \in Shipped : s.pid = t.pid \/ s.byte = t.byte => s = t
    /\ ProfileSet \cap {Nothing, Partial} = {}

Searches == {"search", "opening", "discovering", "sweeping", "sweepNothing", "inferring"}
Onboards == {"allocating", "writing", "generating", "flashing", "provisioning",
             "listing", "updating", "creating", "checking", "verifying"}

Readable(f) == f \notin {Nothing, Partial}
Used == {files[p].byte : p \in {q \in Pids : Readable(files[q])}}

(* The first type byte no readable profile has.  *)
CountedByte(b) == b = Cardinality(Used) + 1
NextFree(b) == b \notin Used /\ \A c \in 1..(b - 1) : c \in Used

(* validate_profiles: every file is readable, and bytes are unique. *)
Valid(fs) == /\ \A p \in Pids : fs[p] # Partial
             /\ \A p, q \in Pids : p # q /\ Readable(fs[p]) /\ Readable(fs[q]) =>
                                       fs[p].byte # fs[q].byte

DecoderOf(fs) == [b \in 1..MaxByte |->
    IF \E p \in Pids : Readable(fs[p]) /\ fs[p].byte = b
    THEN fs[CHOOSE p \in Pids : Readable(fs[p]) /\ fs[p].byte = b] ELSE Nothing]

AnyByte(b) == TRUE
IsTypeByte(b) == b <= MaxByte

(* apply_edits: the posted rows cover every register. *)
Edited(named) == IF operator.edits = NoEdits THEN named ELSE operator.edits

(* pack_payload: in the order of the registers, as many as fit. *)
Packed(named) == {r \in named : Cardinality({q \in named : q < r}) < Budget}

OverBudget(named) == Cardinality(named) > Budget

-----------------------------------------------------------------------------
InitSession ==
    /\ state = "idle" /\ candidate = Nothing /\ artifacts = Nothing
    /\ node = FALSE /\ onboarding = FALSE
    /\ task = "none" /\ operator = [name |-> NoName, edits |-> NoEdits]
    /\ making = Nothing /\ consoles = 0

(* The registry as committed. *)
Init ==
    /\ InitSession
    /\ files = [p \in Pids |-> IF \E s \in Shipped : s.pid = p
                               THEN CHOOSE s \in Shipped : s.pid = p ELSE Nothing]
    /\ decoder = DecoderOf(files) /\ codecs = <<>>
    /\ bench = Nothing
    /\ confirms = 0

-----------------------------------------------------------------------------
(* Requests of the kiosk *)

LeaveOpen == UNCHANGED consoles
CloseNode == consoles' = IF node THEN consoles - 1 ELSE consoles

HalfCleared ==
    /\ CloseNode
    /\ node' = FALSE /\ onboarding' = FALSE
    /\ state' = "idle" /\ UNCHANGED <<candidate, artifacts>>

ClearSession ==
    /\ CloseNode
    /\ node' = FALSE /\ onboarding' = FALSE
    /\ candidate' = Nothing /\ artifacts' = Nothing
    /\ state' = "idle"

(* reset: the session is cleared; the task, if there is one, goes on. *)
Reset ==
    /\ ClearSession
    /\ UNCHANGED <<task, operator, making, world, confirms>>

(* start_search, and retry of it. *)
StartSearch ==
    /\ task = "none"
    /\ ClearSession
    /\ task' = "search"
    /\ UNCHANGED <<operator, making, world, confirms>>

UpdateOperatorInput(in) ==
    /\ operator' = in
    /\ candidate' = IF candidate = Nothing \/ in.edits = NoEdits THEN candidate ELSE in.edits
    /\ UNCHANGED <<state, artifacts, node, onboarding, task, making, consoles, world, confirms>>

Confirm ==
    /\ candidate # Nothing
    /\ ~OverBudget(candidate)
    /\ task = "none"
    /\ confirms < MaxConfirms /\ confirms' = confirms + 1
    /\ task' = "allocating"
    /\ UNCHANGED <<session, operator, making, consoles, world>>

Kiosk == Reset \/ StartSearch \/ Confirm \/ \E in \in Inputs : UpdateOperatorInput(in)

-----------------------------------------------------------------------------
(* The task *)

KeepsSpinning == UNCHANGED state
(* Any exception ends the task: _fail. *)
ShowFailure == state' = "failed"

Ends == ShowFailure /\ task' = "none" /\ making' = Nothing

(* The next step is a call on self._onboarding, which a reset clears. *)
GoOn(to, shown) == IF onboarding THEN task' = to /\ state' = shown /\ UNCHANGED making ELSE Ends

Fail ==
    /\ Ends
    /\ UNCHANGED <<candidate, artifacts, node, onboarding, operator, consoles,
                   world, confirms>>

(* A step done by a thread or a subprocess raises. *)
StepFails == task \in (Searches \ {"search", "inferring"}) \cup (Onboards \ {"flashing"}) /\ Fail

BeginSearch ==
    /\ task = "search"
    /\ state' = "searching" /\ task' = "opening"
    /\ UNCHANGED <<candidate, artifacts, node, onboarding, operator, making, consoles,
                   world, confirms>>

Opened ==
    /\ task = "opening"
    /\ node' = TRUE /\ onboarding' = TRUE /\ consoles' = consoles + 1
    /\ task' = "discovering"
    /\ UNCHANGED <<state, candidate, artifacts, operator, making, world, confirms>>

(* The sweep is given self._node, which a reset may have cleared. *)
Discovered ==
    /\ task = "discovering"
    /\ task' = IF node THEN "sweeping" ELSE "sweepNothing"
    /\ UNCHANGED <<session, operator, making, consoles, world, confirms>>

Swept ==
    /\ task = "sweeping"
    /\ task' = "inferring"
    /\ UNCHANGED <<session, operator, making, consoles, world, confirms>>

(* infer_profile proposes registers and leaves naming them to the operator. *)
Inferred ==
    /\ task = "inferring"
    /\ candidate' = {} /\ state' = "preparing_profile" /\ task' = "none"
    /\ UNCHANGED <<artifacts, node, onboarding, operator, making, consoles, world, confirms>>

(* next_free_type_byte, then assemble_profile from whatever candidate and   *)
(* operator input the session then has.                                     *)
Assemble ==
    /\ task = "allocating"
    /\ candidate # Nothing /\ candidate' = Edited(candidate)
    /\ \E b \in 1..(MaxByte + 1) :
        /\ NextFree(b) /\ IsTypeByte(b)
        /\ IF Packed(candidate') = {}
           THEN Ends
           ELSE /\ making' = [pid |-> IF operator.name = NoName THEN b ELSE operator.name,
                              byte |-> b, fields |-> Packed(candidate')]
                /\ state' = "flashing" /\ task' = "writing"
    /\ UNCHANGED <<artifacts, node, onboarding, operator, consoles, world, confirms>>

(* write_and_generate opens the profile for writing, which empties it ... *)
OpenProfile ==
    /\ task = "writing"
    /\ files' = [files EXCEPT ![making.pid] = Partial]
    /\ task' = "generating"
    /\ UNCHANGED <<session, operator, making, consoles, decoder, codecs, bench, confirms>>

OldDecoder(fs) == IF decoder[making.byte] = Nothing THEN DecoderOf(fs) ELSE decoder
Regenerated(fs) == DecoderOf(fs)

(* ... and then writes it, validates the whole directory, and generates     *)
(* blob, decoder and catalog; any of these may fail.                        *)
Generate ==
    /\ task = "generating"
    /\ files' = [files EXCEPT ![making.pid] = making]
    /\ \/ /\ Valid(files')
          /\ decoder' = Regenerated(files')
          /\ artifacts' = making
          /\ GoOn("flashing", state)
       \/ /\ decoder' \in {decoder} \cup IF Valid(files') THEN {Regenerated(files')} ELSE {}
          /\ UNCHANGED artifacts
          /\ Ends
    /\ UNCHANGED <<candidate, node, onboarding, operator, consoles, codecs, bench,
                   confirms>>

Flashed ==
    /\ task = "flashing"
    /\ GoOn("provisioning", "probing")
    /\ UNCHANGED <<candidate, artifacts, node, onboarding, operator, consoles, world, confirms>>

(* Credentials, profile, restart: one command after another; each is done   *)
(* or not, and then answered or not.  The node keeps what was done.          *)
Commands == <<"prov-lorawan", "prov-profile", "prov-done">>

Provisioned ==
    /\ task = "provisioning"
    /\ \E finished \in 0..Len(Commands) :
        /\ bench' = IF \E i \in 1..finished : Commands[i] = "prov-profile" THEN making ELSE bench
        /\ (finished = Len(Commands) /\ GoOn("listing", "profiling")) \/ Ends
    /\ UNCHANGED <<candidate, artifacts, node, onboarding, operator, consoles, files,
                   decoder, codecs, confirms>>

(* tools/install_decoder.py looks for the product's device-profile ... *)
AlwaysCreates == task' = "creating"
FindOrCreate == task' = IF codecs = <<>> THEN "creating" ELSE "updating"

Listed ==
    /\ task = "listing" /\ FindOrCreate
    /\ UNCHANGED <<session, operator, making, consoles, world, confirms>>

(* ... and gives it the codec that is fixed for the product, not the one     *)
(* just generated; the answer may be lost ...                                *)
WriteCodec ==
    /\ \/ task = "updating" /\ codecs' = [codecs EXCEPT ![1] = ToolCodec]
       \/ task = "creating" /\ codecs' = Append(codecs, ToolCodec)
    /\ \/ task' = "checking" /\ UNCHANGED <<state, making>>
       \/ Ends
    /\ UNCHANGED <<candidate, artifacts, node, onboarding, operator, consoles, files,
                   decoder, bench, confirms>>

(* ... and reads it back. *)
CodecLanded ==
    /\ task = "checking"
    /\ GoOn("verifying", state)
    /\ UNCHANGED <<candidate, artifacts, node, onboarding, operator, consoles, world, confirms>>

Installed == IF codecs = <<>> THEN NoCodec ELSE codecs[1]

(* verify_uplink saw an object decoded from some uplink of the node; of       *)
(* which type byte, and how old, it does not ask.  Else StepFails.            *)
Verified ==
    /\ task = "verifying"
    /\ \E b \in Backlog \cup (IF bench = Nothing THEN {} ELSE {bench.byte}) :
           Installed[b] # Nothing
    /\ state' = "success" /\ task' = "none" /\ making' = Nothing
    /\ UNCHANGED <<candidate, artifacts, node, onboarding, operator, consoles, world, confirms>>

Task == \/ StepFails \/ BeginSearch \/ Opened \/ Discovered \/ Swept \/ Inferred
        \/ Assemble \/ OpenProfile \/ Generate \/ Flashed \/ Provisioned \/ Listed
        \/ WriteCodec \/ CodecLanded \/ Verified

-----------------------------------------------------------------------------
(* A node leaves the bench for the field, a blank one takes its place. *)
NextNode ==
    /\ task = "none" /\ bench # Nothing
    /\ bench' = Nothing
    /\ UNCHANGED <<session, task, operator, making, consoles, files, decoder, codecs, confirms>>

PowerCut ==
    /\ confirms < MaxConfirms /\ confirms' = confirms + 1
    /\ state' = "idle" /\ candidate' = Nothing /\ artifacts' = Nothing
    /\ node' = FALSE /\ onboarding' = FALSE
    /\ task' = "none" /\ operator' = [name |-> NoName, edits |-> NoEdits]
    /\ making' = Nothing /\ consoles' = 0
    /\ UNCHANGED world

Next == Kiosk \/ Task \/ NextNode \/ PowerCut

Spec == Init /\ [][Next]_vars
(* The event loop runs, and every blocking step has a deadline. *)
FairSpec == Spec /\ WF_vars(Task)

-----------------------------------------------------------------------------
TypeOK ==
    /\ state \in States /\ task \in Searches \cup Onboards \cup {"none"}
    /\ node \in BOOLEAN /\ onboarding \in BOOLEAN /\ consoles \in Nat
    /\ candidate \in (SUBSET Regs) \cup {Nothing} /\ operator \in Inputs
    /\ artifacts \in ProfileSet \cup {Nothing} /\ making \in ProfileSet \cup {Nothing}
    /\ files \in [Pids -> ProfileSet \cup {Nothing, Partial}]
    /\ decoder \in Decoders /\ codecs \in Seq(Decoders)
    /\ bench \in ProfileSet \cup {Nothing}
    /\ confirms \in 0..MaxConfirms

(* The session's serial console is never leaked and never used after it was *)
(* closed, though resets race with the thread that opens it                  *)
(* (orchestrator.py:102 and 202).                                            *)
OneConsole == consoles = IF node THEN 1 ELSE 0

(* No two profiles on disk share a type byte, through re-onboardings that   *)
(* overwrite a profile and power cuts that leave one unreadable             *)
(* (device-profiles/README.md: "must stay unique").                         *)
TypeBytesUnique ==
    \A p, q \in Pids : p # q /\ Readable(files[p]) /\ Readable(files[q]) =>
                           files[p].byte # files[q].byte

(* When the kiosk shows a success, the decoder on disk reads the frames of  *)
(* the session's artifacts as that profile, whatever failed, was reset or   *)
(* was onboarded before: no success stands on an older run of the           *)
(* generators (profile_emitter.py:221).                                     *)
ArtifactsDecode ==
    state = "success" /\ artifacts # Nothing => decoder[artifacts.byte] = artifacts

(* However often installing is cut short and done again, ChirpStack has at  *)
(* most one device-profile of the product's name (tools/install_decoder.py, *)
(* "find-or-creates", "Idempotent").                                        *)
OneDeviceProfile == Len(codecs) <= 1

(* The kiosk never spins for ever: whatever fails, is reset or is edited in *)
(* the middle of a job, the busy screen goes away.                          *)
JobsEnd == state \in Busy ~> state \notin Busy

(* The session is the one the kiosk's page is built for: a refinement, in     *)
(* which the steps of a thread or a tool between two states are stutters.    *)
Phase == CASE task \in {"none", "search", "flashing"} -> task
           [] task \in Searches \ {"search"} -> "searching"
           [] task = "allocating" -> "assembling"
           [] task \in {"writing", "generating"} -> "generating"
           [] task = "provisioning" -> "probing"
           [] OTHER -> "profiling"
Abstract == INSTANCE Session WITH task <- Phase, Candidates <- SUBSET Regs, Profiles <- ProfileSet
ImplementsSession == Abstract!FairSpec

(* A success the kiosk shows for a profile means that ChirpStack decodes    *)
(* the frames of that profile with its own fields (orchestrator.py:191,     *)
(* "onboarded and decoding").                                               *)
SuccessDecodes ==
    state = "success" /\ artifacts # Nothing => Installed[artifacts.byte] = artifacts
=============================================================================
