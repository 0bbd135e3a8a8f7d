------------------------------ MODULE FieldNode ------------------------------
(***************************************************************************)
(* One RAK3112 node in the field: app_main and run_field_app              *)
(* (firmware/main/app_main.c), the provisioning console that runs beside   *)
(* them in the REPL task (firmware/main/provisioning.c, prov_console.cpp)  *)
(* and the RS-485 bus and LoRaWAN network around it.                       *)
(*                                                                         *)
(* Time is counted in Modbus read timeouts (500 ms, meter.c:108) and only  *)
(* where it matters: since the task watchdog was last fed.  NVS writes are *)
(* taken to succeed.  The build is the field build (no bench mode, no      *)
(* simulated data).                                                        *)
(***************************************************************************)
EXTENDS Naturals, FiniteSets

CONSTANTS
    Units,        \* Modbus IDs a device on this bus may have
    Foreign,      \* those of Units at which a device of another type may sit
    ScanHi,       \* CONFIG_APP_FIELD_SCAN_ID_HI
    DefaultUnit,  \* CONFIG_APP_FIELD_UNIT, used when NVS holds no unit
    NMeas,        \* reads per cycle of a provisioned profile
    NCompiled,    \* reads per cycle of the compiled reader
    MaxSilent,    \* failed cycles in a row before the bus is searched again
    SendCost,     \* longest time lora_send may block
    Chunk,        \* longest sleep between two feedings (2 s)
    Chunks,       \* such sleeps in one sample interval
    WdtTimeout,   \* CONFIG_APP_TASK_WDT_TIMEOUT_S
    NoFrame,      \* nothing sent yet
    MaxEvents     \* bound: outside events in a behaviour (TLC only)

ASSUME FieldNodeAssumption ==
    /\ Units \subseteq 1..247
    /\ Foreign \subseteq Units
    /\ ScanHi \in 1..247
    /\ DefaultUnit \in 1..247
    /\ NMeas \in Nat \ {0}
    /\ NCompiled \in Nat \ {0}
    /\ MaxSilent \in Nat \ {0}
    /\ {SendCost, Chunk, Chunks, MaxEvents} \subseteq Nat
    /\ WdtTimeout \in Nat \ {0}

VARIABLES
    nvs,        \* flash namespace 'prov': credentials, unit, profile
    bus,        \* what answers at each unit ID
    reachable,  \* the node is registered in ChirpStack and in radio range
    pc,         \* where the field task is
    cfgUnit,    \* field_cfg_t.unit, the RAM copy
    profile,    \* the profile loaded at boot
    probing,    \* the unit ID the scan is at, and then the one it found
    joined,     \* an OTAA session exists (RAM)
    backoff,    \* seconds until the next join attempt
    silent,     \* failed cycles in a row
    idx,        \* the measurand being read
    stale,      \* TELEMETRY_FLAG_STALE of the cycle under way
    missed,     \* measurands of this cycle whose read failed (0.0 is sent)
    sent,       \* the last frame handed to the radio
    naps,       \* sleep chunks left in the interval
    armed,      \* the task watchdog watches the field task
    hunger,     \* time since the watchdog was fed
    led,        \* what status_led_set was last given
    failRun,    \* history: profiled cycles with a failed read, in a row, in this loop
    rewritten,  \* history: the console changed 'unit' since it was last read or saved
    events      \* outside events so far

nodeVars == <<cfgUnit, profile, probing, joined, backoff, silent, idx, stale,
              missed, naps, armed, hunger, led, failRun>>
vars == <<nvs, bus, reachable, pc, nodeVars, sent, rewritten, events>>

-----------------------------------------------------------------------------
NoUnit == 0                       \* also what `prov-modbus ... 0` stores
NoProfile == "none"
(* dp_deserialize accepts a profile whose payload fields exceed total_len;  *)
(* dp_encode_payload then returns 0 and nothing is sent.                    *)
Profiles == {"fits", "overflows"}
KeyMissing == 256                 \* nvs_get_u8 finds no such key
Leds == {"boot", "wait", "joining", "idle", "fault"}
Backoffs == {10, 30, 60}
UnitIds == 0..255                 \* uint8_t
NvsStates == [creds : BOOLEAN, unit : UnitIds \cup {KeyMissing},
              profile : Profiles \cup {NoProfile}]
Frames == [unit : UnitIds, stale : BOOLEAN, missed : SUBSET (1..(NMeas + NCompiled))]

(* The reads of one cycle: the profile's measurands, or the compiled meter. *)
Reads(p) == IF p = NoProfile THEN NCompiled ELSE NMeas

(* What can be wired at a unit ID. *)
Kinds(u) == {"absent", "meter"} \cup IF u \in Foreign THEN {"foreign"} ELSE {}

(* What a bus search takes as present: a valid reply, or an exception, which *)
(* a device of another type gives (meter.c:130).                             *)
Answers(u) == u \in Units /\ bus[u] # "absent"
(* A measurand is read only from the device the profile describes.           *)
ReadsBack(u) == u \in Units /\ bus[u] = "meter"

DiscoverPcs == {"probeKnown", "scan", "found", "scanWait"}
JoinPcs == {"join", "joinWait"}
LoopPcs == {"cycle", "read", "report", "sleep", "feed", "leave"}
Pcs == {"boot", "loadCfg", "loadProfile", "idle", "arm"}
           \cup DiscoverPcs \cup JoinPcs \cup LoopPcs

(* The watchdog has not been fed for its whole timeout: it panics before the *)
(* field task takes another step.                                            *)
Starved == armed /\ hunger >= WdtTimeout

EffectiveUnit == IF nvs.unit = KeyMissing THEN DefaultUnit ELSE nvs.unit

-----------------------------------------------------------------------------
(* Boot *)

RamAtReset ==
    /\ pc' = "boot"
    /\ cfgUnit' = DefaultUnit /\ profile' = NoProfile /\ probing' = 1
    /\ joined' = FALSE /\ backoff' = 10 /\ silent' = 0
    /\ idx' = 1 /\ stale' = FALSE /\ missed' = {} /\ naps' = 0
    /\ armed' = FALSE /\ hunger' = 0 /\ led' = "boot" /\ failRun' = 0
    /\ rewritten' = FALSE

(* Power comes up with whatever the bench left in flash and on the bus. *)
Init ==
    /\ nvs \in NvsStates /\ nvs.unit \in Units \cup {NoUnit, KeyMissing}
    /\ bus \in {b \in [Units -> {"absent", "meter", "foreign"}] :
                   \A u \in Units : b[u] \in Kinds(u)}
    /\ reachable \in BOOLEAN
    /\ pc = "boot"
    /\ cfgUnit = DefaultUnit /\ profile = NoProfile /\ probing = 1
    /\ joined = FALSE /\ backoff = 10 /\ silent = 0
    /\ idx = 1 /\ stale = FALSE /\ missed = {} /\ naps = 0
    /\ armed = FALSE /\ hunger = 0 /\ led = "boot" /\ failRun = 0
    /\ sent = NoFrame
    /\ rewritten = FALSE
    /\ events = 0

(* app_main: without credentials the node idles until a restart. *)
Boot ==
    /\ pc = "boot"
    /\ pc' = IF nvs.creds THEN "loadCfg" ELSE "idle"
    /\ UNCHANGED <<nvs, bus, reachable, nodeVars, sent, rewritten, events>>

LoadCfg ==
    /\ pc = "loadCfg"
    /\ cfgUnit' = EffectiveUnit
    /\ rewritten' = FALSE
    /\ pc' = "loadProfile"
    /\ UNCHANGED <<nvs, bus, reachable, profile, probing, joined, backoff, silent,
                   idx, stale, missed, naps, armed, hunger, led, failRun, sent, events>>

StartJoin == pc' = "join" /\ led' = "joining" /\ backoff' = 10

JoinAgainAfterDiscovery == StartJoin

(* After a sensor is found: join, but only if there is no session yet. *)
AfterDiscovery ==
    IF joined THEN pc' = "arm" /\ UNCHANGED <<led, backoff>> ELSE StartJoin

LoadProfile ==
    /\ pc = "loadProfile"
    /\ profile' = nvs.profile
    /\ IF nvs.profile = NoProfile
       THEN AfterDiscovery                       \* the compiled unit is trusted
       ELSE pc' = "probeKnown" /\ led' = "wait" /\ UNCHANGED backoff
    /\ UNCHANGED <<nvs, bus, reachable, cfgUnit, probing, joined, silent, idx, stale,
                   missed, naps, armed, hunger, failRun, sent, rewritten, events>>

-----------------------------------------------------------------------------
(* Discovery: the configured unit first, then 1..ScanHi, forever. *)

ProbeKnown ==
    /\ pc = "probeKnown"
    /\ IF Answers(cfgUnit) THEN probing' = cfgUnit /\ pc' = "found"
                           ELSE probing' = 1 /\ pc' = "scan"
    /\ UNCHANGED <<nvs, bus, reachable, cfgUnit, profile, joined, backoff, silent, idx,
                   stale, missed, naps, armed, hunger, led, failRun, sent, rewritten, events>>

ScanStopsShort(u) == u + 1 >= ScanHi
LastScanned(u) == u >= ScanHi

Scan ==
    /\ pc = "scan"
    /\ \/ Answers(probing) /\ pc' = "found" /\ UNCHANGED probing
       \/ ~Answers(probing) /\ ~LastScanned(probing) /\ probing' = probing + 1 /\ UNCHANGED pc
       \/ ~Answers(probing) /\ LastScanned(probing) /\ pc' = "scanWait" /\ UNCHANGED probing
    /\ UNCHANGED <<nvs, bus, reachable, cfgUnit, profile, joined, backoff, silent, idx,
                   stale, missed, naps, armed, hunger, led, failRun, sent, rewritten, events>>

(* Ten seconds, longer than a watchdog at its lowest setting would allow. *)
ScanWait ==
    /\ pc = "scanWait"
    /\ hunger' = IF armed THEN hunger + WdtTimeout ELSE 0
    /\ pc' = "probeKnown"
    /\ UNCHANGED <<nvs, bus, reachable, cfgUnit, profile, probing, joined, backoff, silent,
                   idx, stale, missed, naps, armed, led, failRun, sent, rewritten, events>>

PersistNothing(u) == UNCHANGED <<nvs, rewritten>>

PersistUnit(u) ==
    IF u = cfgUnit THEN UNCHANGED <<nvs, rewritten>>
                   ELSE nvs' = [nvs EXCEPT !.unit = u] /\ rewritten' = FALSE

Found ==
    /\ pc = "found"
    /\ PersistUnit(probing)
    /\ cfgUnit' = probing
    /\ AfterDiscovery
    /\ UNCHANGED <<bus, reachable, profile, probing, joined, silent, idx, stale, missed,
                   naps, armed, hunger, failRun, sent, events>>

-----------------------------------------------------------------------------
(* OTAA join, retried without end. *)

Join ==
    /\ pc = "join"
    /\ IF reachable THEN joined' = TRUE /\ pc' = "arm"
                    ELSE pc' = "joinWait" /\ UNCHANGED joined
    /\ UNCHANGED <<nvs, bus, reachable, cfgUnit, profile, probing, backoff, silent, idx,
                   stale, missed, naps, armed, hunger, led, failRun, sent, rewritten, events>>

DoubledBackoff(b) == 2 * b
NextBackoff(b) == IF b < 30 THEN 30 ELSE 60

JoinWait ==
    /\ pc = "joinWait"
    /\ hunger' = IF armed THEN hunger + WdtTimeout ELSE 0
    /\ backoff' = NextBackoff(backoff)
    /\ pc' = "join"
    /\ UNCHANGED <<nvs, bus, reachable, cfgUnit, profile, probing, joined, silent, idx,
                   stale, missed, naps, armed, led, failRun, sent, rewritten, events>>

-----------------------------------------------------------------------------
(* The read loop. *)

(* field_wdt_arm, and the loop's fresh count of silent cycles. *)
Arm ==
    /\ pc = "arm"
    /\ armed' = TRUE /\ hunger' = 0 /\ silent' = 0 /\ failRun' = 0 /\ led' = "idle"
    /\ pc' = "cycle"
    /\ UNCHANGED <<nvs, bus, reachable, cfgUnit, profile, probing, joined, backoff, idx,
                   stale, missed, naps, sent, rewritten, events>>

StartCycle ==
    /\ pc = "cycle"
    /\ ~Starved
    /\ hunger' = 0 /\ stale' = FALSE /\ missed' = {} /\ idx' = 1
    /\ pc' = "read"
    /\ UNCHANGED <<nvs, bus, reachable, cfgUnit, profile, probing, joined, backoff, silent,
                   naps, armed, led, failRun, sent, rewritten, events>>

LastResult(failed) == stale' = failed
KeepResult(failed) == stale' = (stale \/ failed)

(* One register read.  A device that does not answer costs the whole        *)
(* timeout; a reply, or an exception, comes at any moment before it.  The   *)
(* cycle goes on after a failure.                                           *)
ReadMeasurand ==
    /\ pc = "read"
    /\ ~Starved
    /\ \E d \in 0..1 :
        /\ ~Answers(cfgUnit) => d = 1
        /\ hunger' = hunger + d
    /\ KeepResult(~ReadsBack(cfgUnit))
    /\ missed' = IF ReadsBack(cfgUnit) THEN missed ELSE missed \cup {idx}
    /\ IF idx < Reads(profile) THEN idx' = idx + 1 /\ UNCHANGED pc
                               ELSE pc' = "report" /\ UNCHANGED idx
    /\ UNCHANGED <<nvs, bus, reachable, cfgUnit, profile, probing, joined, backoff, silent,
                   naps, armed, led, failRun, sent, rewritten, events>>

SilentCycles == IF profile = NoProfile THEN silent
                ELSE IF stale THEN silent + 1 ELSE 0
TooSilentLate == profile # NoProfile /\ stale /\ SilentCycles > MaxSilent
TooSilent == profile # NoProfile /\ stale /\ SilentCycles >= MaxSilent

(* The rest of a cycle: count silence, encode, send unless the bus is to be *)
(* searched, show the result.                                               *)
Report ==
    /\ pc = "report"
    /\ ~Starved
    /\ silent' = SilentCycles
    /\ failRun' = IF missed = {} \/ profile = NoProfile THEN 0 ELSE failRun + 1
    /\ IF profile # "overflows" /\ ~TooSilent
       THEN /\ sent' = [unit |-> cfgUnit, stale |-> stale, missed |-> missed]
            /\ \E d \in 0..SendCost : hunger' = hunger + d
            /\ led' = IF stale THEN "fault" ELSE "idle"
       ELSE /\ led' = IF stale THEN "fault" ELSE led
            /\ UNCHANGED <<sent, hunger>>
    /\ pc' = IF TooSilent THEN "leave" ELSE "sleep"
    /\ naps' = Chunks
    /\ UNCHANGED <<nvs, bus, reachable, cfgUnit, profile, probing, joined, backoff, idx,
                   stale, missed, armed, rewritten, events>>

(* wdt_fed_delay: sleep at most one chunk, feed, repeat. *)
Sleep ==
    /\ pc = "sleep"
    /\ ~Starved
    /\ IF naps = 0 THEN pc' = "cycle" /\ UNCHANGED hunger
                   ELSE pc' = "feed" /\ hunger' = hunger + Chunk
    /\ UNCHANGED <<nvs, bus, reachable, cfgUnit, profile, probing, joined, backoff, silent,
                   idx, stale, missed, naps, armed, led, failRun, sent, rewritten, events>>

Feed ==
    /\ pc = "feed"
    /\ ~Starved
    /\ hunger' = 0 /\ naps' = naps - 1
    /\ pc' = "sleep"
    /\ UNCHANGED <<nvs, bus, reachable, cfgUnit, profile, probing, joined, backoff, silent,
                   idx, stale, missed, armed, led, failRun, sent, rewritten, events>>

StillWatched == UNCHANGED <<armed, hunger>>
StopWatching == armed' = FALSE /\ hunger' = 0

(* Out of the loop, back to discovery; only a profiled node gets here. *)
LeaveLoop ==
    /\ pc = "leave"
    /\ ~Starved
    /\ StopWatching
    /\ pc' = "probeKnown" /\ led' = "wait"
    /\ UNCHANGED <<nvs, bus, reachable, cfgUnit, profile, probing, joined, backoff, silent,
                   idx, stale, missed, naps, failRun, sent, rewritten, events>>

-----------------------------------------------------------------------------
(* The outside world: console commands, wiring, network, power. *)

Outside == events < MaxEvents /\ events' = events + 1

(* The REPL runs before app_main looks at the credentials. *)
Console == Outside /\ UNCHANGED <<bus, reachable, pc, nodeVars, sent>>

(* prov-lorawan, prov creds *)
ProvCreds == Console /\ nvs' = [nvs EXCEPT !.creds = TRUE] /\ UNCHANGED rewritten

(* prov-modbus, prov modbus: the unit is stored unchecked, 0 included. *)
ProvUnit(u) == Console /\ nvs' = [nvs EXCEPT !.unit = u] /\ rewritten' = TRUE

(* prov-profile; a blob that does not deserialize changes nothing. *)
ProvProfile(p) == Console /\ nvs' = [nvs EXCEPT !.profile = p] /\ UNCHANGED rewritten

ProvClear ==
    /\ Console
    /\ nvs' = [creds |-> FALSE, unit |-> KeyMissing, profile |-> NoProfile]
    /\ rewritten' = TRUE

(* Power loss at any moment, or prov-done. *)
Restart == Outside /\ RamAtReset /\ UNCHANGED <<nvs, bus, reachable, sent>>

(* A device is wired, powered, replaced or lost. *)
Rewire(u) ==
    /\ Outside
    /\ \E k \in Kinds(u) \ {bus[u]} : bus' = [bus EXCEPT ![u] = k]
    /\ UNCHANGED <<nvs, reachable, pc, nodeVars, sent, rewritten>>

NetworkChange ==
    /\ Outside
    /\ reachable' = ~reachable
    /\ UNCHANGED <<nvs, bus, pc, nodeVars, sent, rewritten>>

(* The task watchdog panics and the chip reboots. *)
WdtReset == Starved /\ RamAtReset /\ UNCHANGED <<nvs, bus, reachable, sent, events>>

-----------------------------------------------------------------------------
NodeStep ==
    \/ Boot \/ LoadCfg \/ LoadProfile
    \/ ProbeKnown \/ Scan \/ ScanWait \/ Found
    \/ Join \/ JoinWait
    \/ Arm \/ StartCycle \/ ReadMeasurand \/ Report \/ Sleep \/ Feed \/ LeaveLoop

World ==
    \/ ProvCreds \/ ProvClear
    \/ \E u \in Units \cup {NoUnit} : ProvUnit(u)
    \/ \E p \in Profiles : ProvProfile(p)
    \/ \E u \in Units : Rewire(u)
    \/ NetworkChange \/ Restart

Next == NodeStep \/ WdtReset \/ World

Spec == Init /\ [][Next]_vars

(* The field task runs whenever it can: nothing above it in priority blocks *)
(* it for ever, and a starved watchdog fires.                               *)
FairSpec == Spec /\ WF_vars(NodeStep \/ WdtReset)

-----------------------------------------------------------------------------
TypeOK ==
    /\ nvs \in NvsStates
    /\ bus \in [Units -> {"absent", "meter", "foreign"}]
    /\ reachable \in BOOLEAN
    /\ pc \in Pcs
    /\ cfgUnit \in UnitIds
    /\ profile \in Profiles \cup {NoProfile}
    /\ probing \in UnitIds
    /\ joined \in BOOLEAN
    /\ backoff \in Backoffs
    /\ silent \in Nat
    /\ idx \in 1..(NMeas + NCompiled)
    /\ stale \in BOOLEAN
    /\ missed \subseteq 1..(NMeas + NCompiled)
    /\ sent \in Frames \cup {NoFrame}
    /\ naps \in Nat
    /\ armed \in BOOLEAN
    /\ hunger \in Nat
    /\ led \in Leds
    /\ failRun \in Nat
    /\ rewritten \in BOOLEAN
    /\ events \in Nat

(* The reads, the uplink and one sleep chunk fit between two feedings. *)
CycleFits == Reads(profile) + SendCost + Chunk < WdtTimeout

(* The watchdog never resets a field task whose cycle fits its timeout,     *)
(* whatever bus, radio and console do: it is armed in the read loop only,   *)
(* and fed often enough there (app_main.c:491-503, wdt_fed_delay).          *)
NoWdtPanic == CycleFits => ~Starved

(* The watchdog never resets a field task that runs, as                     *)
(* CRM_PROVISIONING_WORKFLOW.md contract 7 promises of every node.          *)
NeverStarved == ~Starved

(* A frame that carries a value which was not read in its cycle says so:    *)
(* one failed read among many raises STALE, and nothing else does.          *)
StaleFlagExact == sent # NoFrame => (sent.stale <=> sent.missed # {})

(* A profiled node gives up its sensor exactly when MaxSilent cycles in a   *)
(* row failed: a glitch does not send it back to discovery, and it does not *)
(* go on reporting a dead sensor (contract 6).                              *)
SilenceDetected ==
    profile # NoProfile =>
        /\ pc \in {"sleep", "feed"} => failRun < MaxSilent
        /\ pc = "leave" => failRun = MaxSilent

(* While the node reads a unit, that unit is what the next boot will probe  *)
(* first, unless the console rewrote it meanwhile (contract 6).             *)
NextBootProbesThisUnit ==
    pc \in JoinPcs \cup LoopPcs \cup {"arm"} /\ ~rewritten => EffectiveUnit = cfgUnit

-----------------------------------------------------------------------------
(* The workflow the node implements. *)
Phase == CASE pc = "idle" -> "idle"
           [] pc \in DiscoverPcs -> "discover"
           [] pc \in JoinPcs -> "join"
           [] pc \in LoopPcs \cup {"arm"} -> "report"
           [] OTHER -> "boot"

W == INSTANCE NodeWorkflow WITH phase <- Phase, target <- cfgUnit, uplink <- sent

(* No join or uplink before a sensor answered, one join per boot, and a     *)
(* silent sensor costs a search but never the session (contracts 5 and 6).  *)
ImplementsWorkflow == W!Spec

(* When a profiled node runs, and the bus and the network settle with a     *)
(* meter in the scanned range, frames with fresh data keep coming.          *)
Settled == /\ profile = "fits"
           /\ reachable
           /\ \E u \in Units : u <= ScanHi /\ ReadsBack(u)
Fresh == pc = "sleep" /\ sent # NoFrame /\ sent.missed = {}
FreshDataResumes == <>[]Settled => []<>Fresh
=============================================================================
