--------------------------- MODULE FieldNodeProofs ---------------------------
(***************************************************************************)
(* Proofs about FieldNode for every bus, profile size and timing.  The     *)
(* inductive invariant IInv relates the program counter to the state the   *)
(* safety properties speak of; each conjunct is preserved on its own,      *)
(* given the ones before it.                                               *)
(***************************************************************************)
EXTENDS FieldNode, TLAPS

(* A session exists from the join on, and never before it. *)
SessionInv ==
    /\ pc \in LoopPcs \cup {"arm"} => joined
    /\ pc \in {"boot", "loadCfg", "loadProfile", "idle"} \cup JoinPcs => ~joined

(* Only a profiled node searches the bus; the watchdog watches the loop only. *)
ProfiledInv == pc \in DiscoverPcs \cup {"leave"} => profile # NoProfile
WatchInv == armed => pc \in LoopPcs

(* The flag and the set of missed reads tell the same story all cycle long. *)
StaleInv == (stale <=> missed # {}) /\ StaleFlagExact

(* The code's counter counts what the history variable counts. *)
SilenceInv ==
    profile # NoProfile =>
        /\ pc \in LoopPcs => silent = failRun
        /\ pc \in LoopPcs \ {"leave"} => failRun < MaxSilent
        /\ pc = "leave" => failRun = MaxSilent

UnitInv ==
    pc \in {"loadProfile", "arm"} \cup DiscoverPcs \cup JoinPcs \cup LoopPcs /\ ~rewritten
        => EffectiveUnit = cfgUnit

(* How hungry the watchdog can be at each point of the loop. *)
HungerInv ==
    /\ idx <= Reads(profile) \/ pc # "read"
    /\ pc = "read" => hunger <= idx - 1
    /\ pc \in {"report", "leave"} => hunger <= Reads(profile)
    /\ pc \in {"cycle", "sleep"} => hunger <= Reads(profile) + SendCost
    /\ pc = "feed" => hunger <= Reads(profile) + SendCost + Chunk

-----------------------------------------------------------------------------
(* The type invariant. *)

LEMMA ReadsType ==
    \A p : Reads(p) \in Nat \ {0} /\ Reads(p) <= NMeas + NCompiled
  BY FieldNodeAssumption DEF Reads

LEMMA Constants ==
    /\ DefaultUnit \in UnitIds
    /\ Units \subseteq UnitIds
    /\ ScanHi \in 1..247
    /\ 1 \in 1..(NMeas + NCompiled)
    /\ MaxSilent \in Nat \ {0}
    /\ SendCost \in Nat /\ Chunk \in Nat /\ Chunks \in Nat
    /\ WdtTimeout \in Nat \ {0}
  BY FieldNodeAssumption DEF UnitIds

(* What the console and PersistUnit write are NVS contents again. *)
LEMMA NvsType ==
    ASSUME nvs \in NvsStates
    PROVE  /\ nvs.unit \in UnitIds \cup {KeyMissing}
           /\ nvs.profile \in Profiles \cup {NoProfile}
           /\ [nvs EXCEPT !.creds = TRUE] \in NvsStates
           /\ [nvs EXCEPT !.creds = TRUE].unit = nvs.unit
           /\ \A u : [nvs EXCEPT !.unit = u].unit = u
           /\ \A p : [nvs EXCEPT !.profile = p].unit = nvs.unit
           /\ \A u \in UnitIds : [nvs EXCEPT !.unit = u] \in NvsStates
           /\ \A p \in Profiles : [nvs EXCEPT !.profile = p] \in NvsStates
           /\ [creds |-> FALSE, unit |-> KeyMissing, profile |-> NoProfile] \in NvsStates
  BY DEF NvsStates

(* Feed counts a nap down, so TypeOK needs the guard of Sleep to be inductive. *)
NapInv == pc = "feed" => naps # 0

LEMMA TypeInit == Init => TypeOK
<1> SUFFICES ASSUME Init PROVE TypeOK
  OBVIOUS
<1>2. bus \in [Units -> {"absent", "meter", "foreign"}]
  BY DEF Init
<1>3. cfgUnit \in UnitIds /\ probing \in UnitIds
  BY Constants DEF Init, UnitIds
<1>4. idx \in 1..(NMeas + NCompiled) /\ missed \subseteq 1..(NMeas + NCompiled)
  BY Constants DEF Init
<1> QED
  BY <1>2, <1>3, <1>4 DEF Init, TypeOK, Pcs, Backoffs, Leds

(* A reset of the chip re-establishes the types of what is in RAM. *)
LEMMA ResetType ==
    ASSUME TypeOK, RamAtReset, UNCHANGED <<nvs, bus, reachable, sent>>, events' \in Nat
    PROVE  TypeOK'
<1>1. cfgUnit' \in UnitIds /\ probing' \in UnitIds
  BY Constants DEF RamAtReset, UnitIds
<1>2. idx' \in 1..(NMeas + NCompiled) /\ missed' \subseteq 1..(NMeas + NCompiled)
  BY Constants DEF RamAtReset
<1> QED
  BY <1>1, <1>2 DEF TypeOK, RamAtReset, Pcs, Backoffs, Leds

(* An outside event, which leaves the field task alone. *)
LEMMA OutsideType ==
    ASSUME TypeOK, Outside,
           nvs' \in NvsStates,
           bus' \in [Units -> {"absent", "meter", "foreign"}],
           reachable' \in BOOLEAN, rewritten' \in BOOLEAN,
           UNCHANGED <<pc, nodeVars, sent>>
    PROVE  TypeOK'
  BY DEF TypeOK, Outside, nodeVars

LEMMA TypeStep ==
    ASSUME TypeOK, NapInv, [Next]_vars
    PROVE  TypeOK' /\ NapInv'
<1> USE Constants DEF NapInv
<1>1. TypeOK'
  <2> USE DEF TypeOK, Pcs, DiscoverPcs, JoinPcs, LoopPcs, UnitIds
  <2>1. CASE Boot
    BY <2>1 DEF Boot, nodeVars
  <2>2. CASE LoadCfg
    <3>1. cfgUnit' \in UnitIds
      BY <2>2, NvsType DEF LoadCfg, EffectiveUnit
    <3> QED
      BY <2>2, <3>1 DEF LoadCfg
  <2>3. CASE LoadProfile
    <3>1. profile' \in Profiles \cup {NoProfile}
      BY <2>3, NvsType DEF LoadProfile
    <3>2. pc' \in Pcs /\ led' \in Leds /\ backoff' \in Backoffs
      BY <2>3 DEF LoadProfile, AfterDiscovery, StartJoin, Leds, Backoffs
    <3> QED
      BY <2>3, <3>1, <3>2 DEF LoadProfile
  <2>4. CASE ProbeKnown
    BY <2>4 DEF ProbeKnown
  <2>5. CASE Scan
    BY <2>5 DEF Scan, LastScanned
  <2>6. CASE ScanWait
    BY <2>6 DEF ScanWait
  <2>7. CASE Found
    <3>1. nvs' \in NvsStates /\ rewritten' \in BOOLEAN
      BY <2>7, NvsType DEF Found, PersistUnit
    <3>2. pc' \in Pcs /\ led' \in Leds /\ backoff' \in Backoffs
      BY <2>7 DEF Found, AfterDiscovery, StartJoin, Leds, Backoffs
    <3> QED
      BY <2>7, <3>1, <3>2 DEF Found
  <2>8. CASE Join
    BY <2>8 DEF Join
  <2>9. CASE JoinWait
    BY <2>9 DEF JoinWait, NextBackoff, Backoffs
  <2>10. CASE Arm
    BY <2>10 DEF Arm, Leds
  <2>11. CASE StartCycle
    <3>1. idx' \in 1..(NMeas + NCompiled) /\ missed' \subseteq 1..(NMeas + NCompiled)
      BY <2>11 DEF StartCycle
    <3> QED
      BY <2>11, <3>1 DEF StartCycle
  <2>12. CASE ReadMeasurand
    <3>0. Reads(profile) \in Nat /\ Reads(profile) <= NMeas + NCompiled
      BY ReadsType
    <3>1. idx' \in 1..(NMeas + NCompiled) /\ pc' \in Pcs
      BY <2>12, <3>0, FieldNodeAssumption DEF ReadMeasurand
    <3>2. stale' \in BOOLEAN /\ missed' \subseteq 1..(NMeas + NCompiled)
      BY <2>12 DEF ReadMeasurand, KeepResult
    <3>3. hunger' \in Nat
      BY <2>12 DEF ReadMeasurand
    <3> QED
      BY <2>12, <3>1, <3>2, <3>3 DEF ReadMeasurand
  <2>13. CASE Report
    <3>1. silent' \in Nat /\ failRun' \in Nat
      BY <2>13 DEF Report, SilentCycles
    <3>2. sent' \in Frames \cup {NoFrame}
      <4>1. [unit |-> cfgUnit, stale |-> stale, missed |-> missed] \in Frames
        BY DEF Frames
      <4> QED
        BY <2>13, <4>1 DEF Report
    <3>3. hunger' \in Nat
      BY <2>13 DEF Report
    <3>4. led' \in Leds /\ naps' \in Nat
      BY <2>13 DEF Report, Leds
    <3> QED
      BY <2>13, <3>1, <3>2, <3>3, <3>4 DEF Report
  <2>14. CASE Sleep
    BY <2>14 DEF Sleep
  <2>15. CASE Feed
    <3>1. naps' \in Nat
      BY <2>15 DEF Feed
    <3> QED
      BY <2>15, <3>1 DEF Feed
  <2>16. CASE LeaveLoop
    BY <2>16 DEF LeaveLoop, StopWatching, Leds
  <2>17. CASE WdtReset
    BY <2>17, ResetType DEF WdtReset
  <2>18. CASE World
    <3>1. CASE Restart
      BY <3>1, ResetType DEF Restart, Outside
    <3>2. ASSUME NEW u \in Units, Rewire(u) PROVE TypeOK'
      BY <3>2, OutsideType DEF Rewire, Kinds
    <3>3. CASE NetworkChange
      BY <3>3, OutsideType DEF NetworkChange
    <3>4. CASE ProvCreds
      BY <3>4, OutsideType, NvsType DEF ProvCreds, Console
    <3>5. CASE ProvClear
      BY <3>5, OutsideType, NvsType DEF ProvClear, Console
    <3>6. ASSUME NEW u \in Units \cup {NoUnit}, ProvUnit(u) PROVE TypeOK'
      <4>1. u \in UnitIds
        BY DEF NoUnit
      <4> QED
        BY <3>6, <4>1, OutsideType, NvsType DEF ProvUnit, Console
    <3>7. ASSUME NEW p \in Profiles, ProvProfile(p) PROVE TypeOK'
      BY <3>7, OutsideType, NvsType DEF ProvProfile, Console
    <3> QED
      BY <2>18, <3>1, <3>2, <3>3, <3>4, <3>5, <3>6, <3>7 DEF World
  <2>19. CASE UNCHANGED vars
    BY <2>19 DEF vars, nodeVars
  <2> QED
    BY <2>1, <2>2, <2>3, <2>4, <2>5, <2>6, <2>7, <2>8, <2>9, <2>10, <2>11, <2>12,
       <2>13, <2>14, <2>15, <2>16, <2>17, <2>18, <2>19 DEF Next, NodeStep
<1>2. NapInv'
  BY DEF Next, NodeStep, World, vars, nodeVars, Boot, LoadCfg, LoadProfile, AfterDiscovery,
     StartJoin, ProbeKnown, Scan, ScanWait, Found, Join, JoinWait, Arm, StartCycle,
     ReadMeasurand, Report, Sleep, Feed, LeaveLoop, WdtReset, RamAtReset, Restart, Console,
     ProvCreds, ProvClear, ProvUnit, ProvProfile, Rewire, NetworkChange
<1> QED
  BY <1>1, <1>2

(* Every variable stays in its type: unit IDs fit a byte, the back-off is   *)
(* one of the three the join loop uses, a frame names measurands that exist.*)
THEOREM TypeCorrect == Spec => []TypeOK
<1>1. Init => TypeOK /\ NapInv
  BY TypeInit DEF Init, NapInv
<1>2. TypeOK /\ NapInv /\ [Next]_vars => TypeOK' /\ NapInv'
  BY TypeStep
<1> QED
  BY <1>1, <1>2, PTL DEF Spec

-----------------------------------------------------------------------------
(* The watchdog. *)

(* Only a loop step changes what the watchdog sees; every other step leaves *)
(* the node outside the loop, unwatched.                                    *)
LEMMA WatchStep ==
    ASSUME TypeOK, WatchInv, [Next]_vars
    PROVE  WatchInv'
<1> USE DEF WatchInv, DiscoverPcs, JoinPcs, LoopPcs
<1>1. CASE Boot \/ LoadCfg \/ LoadProfile
  BY <1>1 DEF Boot, LoadCfg, LoadProfile, AfterDiscovery, StartJoin, nodeVars
<1>2. CASE ProbeKnown \/ Scan \/ ScanWait \/ Found
  BY <1>2 DEF ProbeKnown, Scan, ScanWait, Found, AfterDiscovery, StartJoin
<1>3. CASE Join \/ JoinWait
  BY <1>3 DEF Join, JoinWait
<1>4. CASE Arm \/ StartCycle \/ ReadMeasurand \/ Report \/ Sleep \/ Feed
  BY <1>4 DEF Arm, StartCycle, ReadMeasurand, Report, Sleep, Feed
<1>5. CASE LeaveLoop
  BY <1>5 DEF LeaveLoop, StopWatching
<1>6. CASE WdtReset \/ World
  BY <1>6 DEF WdtReset, World, RamAtReset, Restart, Console, ProvCreds, ProvClear, ProvUnit,
     ProvProfile, Rewire, NetworkChange, nodeVars
<1>7. CASE UNCHANGED vars
  BY <1>7 DEF vars, nodeVars
<1> QED
  BY <1>1, <1>2, <1>3, <1>4, <1>5, <1>6, <1>7 DEF Next, NodeStep

(* The profile is read at boot only, so the length of a cycle is fixed. *)
LEMMA HungerStep ==
    ASSUME TypeOK, NapInv, WatchInv, HungerInv, [Next]_vars
    PROVE  HungerInv'
<1>0. /\ Reads(profile) \in Nat \ {0} /\ Reads(profile') \in Nat \ {0}
      /\ SendCost \in Nat /\ Chunk \in Nat
      /\ hunger \in Nat /\ idx \in Nat \ {0}
  BY ReadsType, FieldNodeAssumption DEF TypeOK
<1> USE <1>0 DEF HungerInv
<1>1. CASE Boot \/ LoadCfg \/ LoadProfile
  BY <1>1 DEF Boot, LoadCfg, LoadProfile, AfterDiscovery, StartJoin, nodeVars
<1>2. CASE ProbeKnown \/ Scan \/ ScanWait \/ Found
  BY <1>2 DEF ProbeKnown, Scan, ScanWait, Found, AfterDiscovery, StartJoin
<1>3. CASE Join \/ JoinWait
  BY <1>3 DEF Join, JoinWait
<1>4. CASE Arm \/ StartCycle
  BY <1>4 DEF Arm, StartCycle
<1>5. CASE ReadMeasurand
  <2>1. hunger' \in Nat /\ hunger' <= hunger + 1 /\ profile' = profile
    BY <1>5 DEF ReadMeasurand
  <2>2. CASE idx < Reads(profile)
    BY <1>5, <2>1, <2>2 DEF ReadMeasurand
  <2>3. CASE ~(idx < Reads(profile))
    BY <1>5, <2>1, <2>3 DEF ReadMeasurand
  <2> QED
    BY <2>2, <2>3
<1>6. CASE Report
  <2>1. hunger' \in Nat /\ hunger' <= hunger + SendCost /\ profile' = profile
    BY <1>6 DEF Report
  <2>2. TooSilent => hunger' = hunger
    BY <1>6 DEF Report
  <2> QED
    BY <1>6, <2>1, <2>2 DEF Report
<1>7. CASE Sleep \/ Feed
  BY <1>7 DEF Sleep, Feed
<1>8. CASE LeaveLoop
  BY <1>8 DEF LeaveLoop, StopWatching
<1>9. CASE WdtReset \/ World
  BY <1>9 DEF WdtReset, World, RamAtReset, Restart, Console, ProvCreds, ProvClear, ProvUnit,
     ProvProfile, Rewire, NetworkChange, nodeVars
<1>10. CASE UNCHANGED vars
  BY <1>10 DEF vars, nodeVars
<1> QED
  BY <1>1, <1>2, <1>3, <1>4, <1>5, <1>6, <1>7, <1>8, <1>9, <1>10 DEF Next, NodeStep

(* With a timeout above its longest cycle plus one sleep chunk, a healthy   *)
(* field task is never reset, whatever the bus, the radio and the console   *)
(* do (field_wdt_arm, wdt_fed_delay).  The shipped default is not above it  *)
(* for the longest profiles: the run field_watchdog shows what follows.     *)
THEOREM WatchdogSafe == Spec => []NoWdtPanic
<1>1. Init => TypeOK /\ NapInv /\ WatchInv /\ HungerInv
  BY TypeInit, ReadsType DEF Init, NapInv, WatchInv, HungerInv
<1>2. TypeOK /\ NapInv /\ WatchInv /\ HungerInv /\ [Next]_vars
        => TypeOK' /\ NapInv' /\ WatchInv' /\ HungerInv'
  BY TypeStep, WatchStep, HungerStep
<1>3. TypeOK /\ WatchInv /\ HungerInv => NoWdtPanic
  <2> SUFFICES ASSUME TypeOK, WatchInv, HungerInv, Starved, CycleFits
               PROVE  FALSE
    BY DEF NoWdtPanic
  <2>1. /\ Reads(profile) \in Nat \ {0} /\ SendCost \in Nat /\ Chunk \in Nat
        /\ WdtTimeout \in Nat /\ hunger \in Nat /\ idx \in Nat
    BY ReadsType, FieldNodeAssumption DEF TypeOK
  <2> QED
    BY <2>1 DEF CycleFits, HungerInv, WatchInv, Starved, LoopPcs
<1> QED
  BY <1>1, <1>2, <1>3, PTL DEF Spec

-----------------------------------------------------------------------------
(* The STALE flag. *)

LEMMA StaleStep ==
    ASSUME TypeOK, StaleInv, [Next]_vars
    PROVE  StaleInv'
<1> USE DEF StaleInv, StaleFlagExact
<1>1. CASE StartCycle
  BY <1>1 DEF StartCycle
<1>2. CASE ReadMeasurand
  <2>1. (stale' <=> missed' # {}) /\ sent' = sent
    BY <1>2 DEF ReadMeasurand, KeepResult, TypeOK
  <2> QED
    BY <2>1
<1>3. CASE Report
  <2>1. stale' = stale /\ missed' = missed
    BY <1>3 DEF Report
  <2>2. \/ sent' = sent
        \/ sent' = [unit |-> cfgUnit, stale |-> stale, missed |-> missed]
    BY <1>3 DEF Report
  <2> QED
    BY <2>1, <2>2
<1>4. CASE WdtReset \/ Restart
  BY <1>4 DEF WdtReset, Restart, RamAtReset
<1>5. CASE UNCHANGED <<stale, missed, sent>>
  BY <1>5
<1>6. CASE NodeStep /\ ~StartCycle /\ ~ReadMeasurand /\ ~Report
  BY <1>5, <1>6 DEF NodeStep, Boot, LoadCfg, LoadProfile, ProbeKnown, Scan, ScanWait, Found,
     Join, JoinWait, Arm, Sleep, Feed, LeaveLoop, nodeVars
<1>7. CASE World /\ ~Restart
  BY <1>5, <1>7 DEF World, Console, ProvCreds, ProvClear, ProvUnit, ProvProfile, Rewire,
     NetworkChange, nodeVars
<1> QED
  BY <1>1, <1>2, <1>3, <1>4, <1>5, <1>6, <1>7 DEF Next, vars, nodeVars

(* A frame is flagged stale exactly when one of its reads failed, for every *)
(* number of measurands (app_main.c:504-552, meter.c:95-116).               *)
THEOREM StaleFlag == Spec => []StaleFlagExact
<1>1. Init => TypeOK /\ NapInv /\ StaleInv
  BY TypeInit DEF Init, NapInv, StaleInv, StaleFlagExact
<1>2. TypeOK /\ NapInv /\ StaleInv /\ [Next]_vars => TypeOK' /\ NapInv' /\ StaleInv'
  BY TypeStep, StaleStep
<1>3. StaleInv => StaleFlagExact
  BY DEF StaleInv
<1> QED
  BY <1>1, <1>2, <1>3, PTL DEF Spec

-----------------------------------------------------------------------------
(* Silence. *)

LEMMA ProfiledStep ==
    ASSUME TypeOK, ProfiledInv, [Next]_vars
    PROVE  ProfiledInv'
<1> USE DEF ProfiledInv, DiscoverPcs
<1>1. CASE Boot \/ LoadCfg \/ LoadProfile
  BY <1>1 DEF Boot, LoadCfg, LoadProfile, AfterDiscovery, StartJoin, nodeVars
<1>2. CASE ProbeKnown \/ Scan \/ ScanWait \/ Found
  BY <1>2 DEF ProbeKnown, Scan, ScanWait, Found, AfterDiscovery, StartJoin
<1>3. CASE Join \/ JoinWait \/ Arm \/ StartCycle \/ ReadMeasurand \/ Sleep \/ Feed \/ LeaveLoop
  BY <1>3 DEF Join, JoinWait, Arm, StartCycle, ReadMeasurand, Sleep, Feed, LeaveLoop
<1>4. CASE Report
  BY <1>4 DEF Report, TooSilent
<1>5. CASE WdtReset \/ World
  BY <1>5 DEF WdtReset, World, RamAtReset, Restart, Console, ProvCreds, ProvClear, ProvUnit,
     ProvProfile, Rewire, NetworkChange, nodeVars
<1>6. CASE UNCHANGED vars
  BY <1>6 DEF vars, nodeVars
<1> QED
  BY <1>1, <1>2, <1>3, <1>4, <1>5, <1>6 DEF Next, NodeStep

LEMMA SilenceStep ==
    ASSUME TypeOK, StaleInv, ProfiledInv, SilenceInv, [Next]_vars
    PROVE  SilenceInv'
<1> USE DEF SilenceInv, LoopPcs
<1>1. CASE Boot \/ LoadCfg \/ LoadProfile
  BY <1>1 DEF Boot, LoadCfg, LoadProfile, AfterDiscovery, StartJoin, nodeVars
<1>2. CASE ProbeKnown \/ Scan \/ ScanWait \/ Found \/ Join \/ JoinWait
  BY <1>2 DEF ProbeKnown, Scan, ScanWait, Found, AfterDiscovery, StartJoin, Join, JoinWait
<1>3. CASE Arm
  BY <1>3, FieldNodeAssumption DEF Arm
<1>4. CASE StartCycle \/ ReadMeasurand \/ Sleep \/ Feed \/ LeaveLoop
  BY <1>4 DEF StartCycle, ReadMeasurand, Sleep, Feed, LeaveLoop
<1>5. CASE Report
  <2> SUFFICES ASSUME profile # NoProfile
               PROVE  /\ silent' = failRun'
                      /\ pc' = "leave" => failRun' = MaxSilent
                      /\ pc' # "leave" => failRun' < MaxSilent
    BY <1>5 DEF Report
  <2>1. silent = failRun /\ failRun < MaxSilent /\ (stale <=> missed # {})
    BY <1>5 DEF Report, StaleInv
  <2>2. /\ silent' = IF stale THEN failRun + 1 ELSE 0
        /\ failRun' = IF stale THEN failRun + 1 ELSE 0
    BY <1>5, <2>1 DEF Report, SilentCycles
  <2>3. pc' = "leave" <=> stale /\ silent' >= MaxSilent
    BY <1>5 DEF Report, TooSilent
  <2>4. failRun \in Nat /\ MaxSilent \in Nat \ {0}
    BY FieldNodeAssumption DEF TypeOK
  <2> QED
    BY <2>1, <2>2, <2>3, <2>4
<1>6. CASE WdtReset \/ World
  BY <1>6 DEF WdtReset, World, RamAtReset, Restart, Console, ProvCreds, ProvClear, ProvUnit,
     ProvProfile, Rewire, NetworkChange, nodeVars
<1>7. CASE UNCHANGED vars
  BY <1>7 DEF vars, nodeVars
<1> QED
  BY <1>1, <1>2, <1>3, <1>4, <1>5, <1>6, <1>7 DEF Next, NodeStep

(* The loop is left after exactly MaxSilent failed cycles in a row, however *)
(* often good cycles, searches and resets come in between (app_main.c:508-  *)
(* 520).                                                                    *)
THEOREM Silence == Spec => []SilenceDetected
<1>1. Init => TypeOK /\ NapInv /\ StaleInv /\ ProfiledInv /\ SilenceInv
  BY TypeInit DEF Init, NapInv, StaleInv, StaleFlagExact, ProfiledInv, DiscoverPcs, SilenceInv
<1>2. TypeOK /\ NapInv /\ StaleInv /\ ProfiledInv /\ SilenceInv /\ [Next]_vars
        => TypeOK' /\ NapInv' /\ StaleInv' /\ ProfiledInv' /\ SilenceInv'
  BY TypeStep, StaleStep, ProfiledStep, SilenceStep
<1>3. SilenceInv => SilenceDetected
  BY DEF SilenceInv, SilenceDetected, LoopPcs
<1> QED
  BY <1>1, <1>2, <1>3, PTL DEF Spec

-----------------------------------------------------------------------------
(* The unit that survives a power cycle. *)

LEMMA UnitStep ==
    ASSUME TypeOK, UnitInv, [Next]_vars
    PROVE  UnitInv'
<1> USE DEF UnitInv, DiscoverPcs, JoinPcs, LoopPcs
<1>1. CASE Boot \/ LoadCfg
  BY <1>1 DEF Boot, LoadCfg, EffectiveUnit
<1>2. CASE LoadProfile \/ ProbeKnown \/ Scan \/ ScanWait \/ Join \/ JoinWait
  <2>1. UNCHANGED <<nvs, cfgUnit, rewritten>>
    BY <1>2 DEF LoadProfile, ProbeKnown, Scan, ScanWait, Join, JoinWait
  <2>2. pc \in {"loadProfile"} \cup DiscoverPcs \cup JoinPcs
    BY <1>2 DEF LoadProfile, ProbeKnown, Scan, ScanWait, Join, JoinWait
  <2> QED
    BY <2>1, <2>2 DEF EffectiveUnit
<1>3. CASE Found
  <2>1. pc = "found" /\ cfgUnit' = probing /\ probing # KeyMissing
    BY <1>3 DEF Found, TypeOK, UnitIds, KeyMissing
  <2>2. CASE probing = cfgUnit
    BY <1>3, <2>1, <2>2 DEF Found, PersistUnit, EffectiveUnit
  <2>3. CASE probing # cfgUnit
    <3>1. nvs'.unit = probing
      BY <1>3, <2>3, NvsType DEF Found, PersistUnit, TypeOK
    <3> QED
      BY <2>1, <3>1 DEF EffectiveUnit
  <2> QED
    BY <2>2, <2>3
<1>4. CASE Arm \/ StartCycle \/ ReadMeasurand \/ Report \/ Sleep \/ Feed \/ LeaveLoop
  <2>1. UNCHANGED <<nvs, cfgUnit, rewritten>>
    BY <1>4 DEF Arm, StartCycle, ReadMeasurand, Report, Sleep, Feed, LeaveLoop
  <2>2. pc \in LoopPcs \cup {"arm"}
    BY <1>4 DEF Arm, StartCycle, ReadMeasurand, Report, Sleep, Feed, LeaveLoop
  <2> QED
    BY <2>1, <2>2 DEF EffectiveUnit
<1>5. CASE WdtReset \/ Restart
  BY <1>5 DEF WdtReset, Restart, RamAtReset
<1>6. CASE ProvCreds \/ \E p \in Profiles : ProvProfile(p)
  <2>1. nvs'.unit = nvs.unit
    <3>1. nvs \in NvsStates
      BY DEF TypeOK
    <3>2. CASE nvs' = [nvs EXCEPT !.creds = TRUE]
      BY <3>1, <3>2, NvsType
    <3>3. ASSUME NEW p, nvs' = [nvs EXCEPT !.profile = p] PROVE nvs'.unit = nvs.unit
      BY <3>1, <3>3, NvsType
    <3> QED
      BY <1>6, <3>2, <3>3 DEF ProvCreds, ProvProfile
  <2> QED
    BY <1>6, <2>1 DEF ProvCreds, ProvProfile, Console, nodeVars, EffectiveUnit
<1>7. CASE ProvClear \/ \E u \in Units \cup {NoUnit} : ProvUnit(u)
  BY <1>7 DEF ProvClear, ProvUnit
<1>8. CASE UNCHANGED <<nvs, pc, cfgUnit, rewritten>>
  BY <1>8 DEF EffectiveUnit
<1>9. CASE NetworkChange \/ \E u \in Units : Rewire(u)
  BY <1>8, <1>9 DEF NetworkChange, Rewire, nodeVars
<1> QED
  BY <1>1, <1>2, <1>3, <1>4, <1>5, <1>6, <1>7, <1>8, <1>9
  DEF Next, NodeStep, World, vars, nodeVars

(* Whatever the search found and whenever power fails, the node comes back  *)
(* to the unit it was reading (app_main.c:355-364, 449-453).                *)
THEOREM NextBoot == Spec => []NextBootProbesThisUnit
<1>1. Init => TypeOK /\ NapInv /\ UnitInv
  BY TypeInit DEF Init, NapInv, UnitInv, DiscoverPcs, JoinPcs, LoopPcs
<1>2. TypeOK /\ NapInv /\ UnitInv /\ [Next]_vars => TypeOK' /\ NapInv' /\ UnitInv'
  BY TypeStep, UnitStep
<1>3. UnitInv => NextBootProbesThisUnit
  BY DEF UnitInv, NextBootProbesThisUnit
<1> QED
  BY <1>1, <1>2, <1>3, PTL DEF Spec

-----------------------------------------------------------------------------
(* The workflow. *)

LEMMA SessionStep ==
    ASSUME TypeOK, SessionInv, [Next]_vars
    PROVE  SessionInv'
<1> USE DEF SessionInv, JoinPcs, LoopPcs
<1>1. CASE Boot \/ LoadCfg \/ LoadProfile
  BY <1>1 DEF Boot, LoadCfg, LoadProfile, AfterDiscovery, StartJoin, nodeVars
<1>2. CASE ProbeKnown \/ Scan \/ ScanWait \/ Found
  BY <1>2 DEF ProbeKnown, Scan, ScanWait, Found, AfterDiscovery, StartJoin
<1>3. CASE Join \/ JoinWait
  BY <1>3 DEF Join, JoinWait
<1>4. CASE Arm \/ StartCycle \/ ReadMeasurand \/ Report \/ Sleep \/ Feed \/ LeaveLoop
  BY <1>4 DEF Arm, StartCycle, ReadMeasurand, Report, Sleep, Feed, LeaveLoop
<1>5. CASE WdtReset \/ World
  BY <1>5 DEF WdtReset, World, RamAtReset, Restart, Console, ProvCreds, ProvClear, ProvUnit,
     ProvProfile, Rewire, NetworkChange, nodeVars
<1>6. CASE UNCHANGED vars
  BY <1>6 DEF vars, nodeVars
<1> QED
  BY <1>1, <1>2, <1>3, <1>4, <1>5, <1>6 DEF Next, NodeStep

(* Phase, a case at a time. *)
LEMMA PhaseOf ==
    /\ pc \in {"boot", "loadCfg", "loadProfile"} => Phase = "boot"
    /\ pc = "idle" => Phase = "idle"
    /\ pc \in DiscoverPcs => Phase = "discover"
    /\ pc \in JoinPcs => Phase = "join"
    /\ pc \in LoopPcs \cup {"arm"} => Phase = "report"
  BY DEF Phase, DiscoverPcs, JoinPcs, LoopPcs

LEMMA PhaseOfNext ==
    /\ pc' \in {"boot", "loadCfg", "loadProfile"} => Phase' = "boot"
    /\ pc' = "idle" => Phase' = "idle"
    /\ pc' \in DiscoverPcs => Phase' = "discover"
    /\ pc' \in JoinPcs => Phase' = "join"
    /\ pc' \in LoopPcs \cup {"arm"} => Phase' = "report"
  BY DEF Phase, DiscoverPcs, JoinPcs, LoopPcs

LEMMA WorkflowStep ==
    ASSUME TypeOK, TypeOK', SessionInv, [Next]_vars
    PROVE  [W!Next]_(W!vars)
<1>0. cfgUnit' \in UnitIds /\ sent' \in Frames \cup {NoFrame}
  BY DEF TypeOK
<1> USE PhaseOf, PhaseOfNext DEF SessionInv, DiscoverPcs, JoinPcs, LoopPcs
<1>1. CASE Boot \/ LoadCfg \/ LoadProfile
  <2>1. Phase = "boot" /\ Phase' \in {"boot", "idle", "discover", "join"}
    BY <1>1 DEF Boot, LoadCfg, LoadProfile, AfterDiscovery, StartJoin
  <2>2. UNCHANGED <<joined, sent>>
    BY <1>1 DEF Boot, LoadCfg, LoadProfile, nodeVars
  <2> QED
    BY <1>0, <2>1, <2>2 DEF W!Next, W!Configure
<1>2. CASE Found
  <2>1. Phase = "discover" /\ Phase' = IF joined THEN "report" ELSE "join"
    BY <1>2 DEF Found, AfterDiscovery, StartJoin
  <2> QED
    BY <1>0, <1>2, <2>1 DEF Found, W!Next, W!FindSensor
<1>3. CASE Join
  <2>1. CASE reachable
    <3>1. Phase = "join" /\ Phase' = "report" /\ ~joined /\ joined'
      BY <1>3, <2>1 DEF Join
    <3> QED
      BY <1>3, <3>1 DEF Join, TypeOK, W!Next, W!Join
  <2>2. CASE ~reachable
    <3>1. Phase = "join" /\ Phase' = "join" /\ UNCHANGED <<joined, cfgUnit, sent>>
      BY <1>3, <2>2 DEF Join
    <3> QED
      BY <3>1 DEF W!vars
  <2> QED
    BY <2>1, <2>2
<1>4. CASE Report
  <2>1. /\ Phase = "report" /\ Phase' = "report" /\ joined
        /\ UNCHANGED <<joined, cfgUnit>>
    BY <1>4 DEF Report
  <2>2. sent' = sent \/ sent' \in Frames
    <3>1. [unit |-> cfgUnit, stale |-> stale, missed |-> missed] \in Frames
      BY DEF Frames, TypeOK
    <3> QED
      BY <1>4, <3>1 DEF Report
  <2> QED
    BY <2>1, <2>2 DEF W!Next, W!Report, W!vars
<1>5. CASE LeaveLoop
  <2>1. Phase = "report" /\ Phase' = "discover"
    BY <1>5 DEF LeaveLoop
  <2> QED
    BY <1>5, <2>1 DEF LeaveLoop, W!Next, W!LoseSensor
<1>6. CASE WdtReset \/ Restart
  <2>1. Phase' = "boot" /\ joined' = FALSE /\ sent' = sent
    BY <1>6 DEF WdtReset, Restart, RamAtReset
  <2> QED
    BY <1>0, <2>1 DEF W!Next, W!Reset
<1>7. CASE UNCHANGED <<pc, joined, cfgUnit, sent>>
  BY <1>7 DEF W!vars, Phase
<1>8. CASE ProbeKnown \/ Scan \/ ScanWait \/ JoinWait \/ Arm \/ StartCycle \/ ReadMeasurand
           \/ Sleep \/ Feed
  <2>1. UNCHANGED <<joined, cfgUnit, sent>>
    BY <1>8 DEF ProbeKnown, Scan, ScanWait, JoinWait, Arm, StartCycle, ReadMeasurand, Sleep, Feed
  <2>2. Phase' = Phase
    BY <1>8 DEF ProbeKnown, Scan, ScanWait, JoinWait, Arm, StartCycle, ReadMeasurand, Sleep, Feed
  <2> QED
    BY <2>1, <2>2 DEF W!vars
<1>9. CASE World /\ ~Restart
  BY <1>7, <1>9 DEF World, Console, ProvCreds, ProvClear, ProvUnit, ProvProfile, Rewire,
     NetworkChange, nodeVars
<1> QED
  BY <1>1, <1>2, <1>3, <1>4, <1>5, <1>6, <1>7, <1>8, <1>9
  DEF Next, NodeStep, vars, nodeVars

(* The firmware implements the workflow: nothing is sent before a sensor    *)
(* was found and the network joined, one join per boot, and a silent sensor *)
(* costs a search but never the session (app_main.c:396-585).               *)
THEOREM Refinement == Spec => ImplementsWorkflow
<1>1. Init => TypeOK /\ NapInv /\ SessionInv /\ W!Init
  <2> SUFFICES ASSUME Init PROVE TypeOK /\ NapInv /\ SessionInv /\ W!Init
    OBVIOUS
  <2>1. TypeOK /\ NapInv /\ SessionInv
    BY TypeInit DEF Init, NapInv, SessionInv, LoopPcs
  <2>2. Phase = "boot" /\ joined = FALSE /\ cfgUnit \in UnitIds /\ sent = NoFrame
    BY <2>1, PhaseOf DEF Init, TypeOK
  <2> QED
    BY <2>1, <2>2 DEF W!Init
<1>2. TypeOK /\ NapInv /\ SessionInv /\ [Next]_vars
        => TypeOK' /\ NapInv' /\ SessionInv' /\ [W!Next]_(W!vars)
  BY TypeStep, SessionStep, WorkflowStep
<1> QED
  BY <1>1, <1>2, PTL DEF Spec, ImplementsWorkflow, W!Spec
=============================================================================
