-------------------------- MODULE ScanStationProofs --------------------------
(***************************************************************************)
(* Proofs about ScanStation for every registry the repository may come     *)
(* with, every set of names and registers, and every way in which steps    *)
(* fail and resets and power cuts fall between them.  Each invariant is    *)
(* preserved on its own, given TypeOK and the ones before it.              *)
(***************************************************************************)
EXTENDS ScanStation, TLAPS

(* A search opens its console only after it has closed the last one. *)
ConsoleInv == OneConsole /\ (task \in {"search", "opening"} => ~node)

(* From its allocation until it is written, no other profile takes the byte. *)
MakingInv ==
    task \in {"writing", "generating"} =>
        /\ making \in ProfileSet
        /\ \A p \in Pids \ {making.pid} : Readable(files[p]) => files[p].byte # making.byte

(* A device-profile is created only while there is none. *)
CodecInv == OneDeviceProfile /\ (task = "creating" => codecs = <<>>)

(* A decoder is written only while nothing is shown to rest on it. *)
DecodeInv ==
    /\ task \in {"writing", "generating"} => state # "success"
    /\ task \in Onboards \ {"allocating", "writing", "generating"} \/ state = "success" =>
           artifacts = Nothing \/ decoder[artifacts.byte] = artifacts

-----------------------------------------------------------------------------
LEMMA ProfileOf ==
    ASSUME NEW x \in ProfileSet
    PROVE  x.pid \in Pids /\ x.byte \in 1..MaxByte /\ x.fields \subseteq Regs
           /\ x # Nothing /\ x # Partial /\ Readable(x)
  BY ShippedAssumption DEF ProfileSet, Readable

(* What is generated from a directory is a decoder. *)
LEMMA DecoderType ==
    ASSUME NEW fs \in [Pids -> ProfileSet \cup {Nothing, Partial}]
    PROVE  DecoderOf(fs) \in Decoders
<1>1. ASSUME NEW b \in 1..MaxByte, \E p \in Pids : Readable(fs[p]) /\ fs[p].byte = b
      PROVE  fs[CHOOSE p \in Pids : Readable(fs[p]) /\ fs[p].byte = b] \in ProfileSet
  BY <1>1 DEF Readable
<1> QED
  BY <1>1 DEF DecoderOf, Decoders

(* It reads every readable profile as that, if no byte stands twice. *)
LEMMA DecoderReads ==
    ASSUME NEW fs \in [Pids -> ProfileSet \cup {Nothing, Partial}], Valid(fs),
           NEW p \in Pids, fs[p] \in ProfileSet
    PROVE  DecoderOf(fs)[fs[p].byte] = fs[p]
<1> DEFINE q == CHOOSE r \in Pids : Readable(fs[r]) /\ fs[r].byte = fs[p].byte
<1>1. Readable(fs[p]) /\ fs[p].byte \in 1..MaxByte
  BY ProfileOf
<1>2. q \in Pids /\ Readable(fs[q]) /\ fs[q].byte = fs[p].byte
  BY <1>1
<1>3. q = p
  BY <1>1, <1>2 DEF Valid
<1>4. DecoderOf(fs)[fs[p].byte] = fs[q]
  BY <1>1 DEF DecoderOf
<1> QED
  BY <1>3, <1>4

-----------------------------------------------------------------------------
(* Type correctness *)

LEMMA TypeInit == Init => TypeOK
<1> SUFFICES ASSUME Init PROVE TypeOK
  OBVIOUS
<1>1. files \in [Pids -> ProfileSet \cup {Nothing, Partial}]
  BY ShippedAssumption DEF Init
<1>2. decoder \in Decoders
  BY <1>1, DecoderType DEF Init
<1>3. codecs \in Seq(Decoders)
  BY DEF Init
<1>4. confirms \in 0..MaxConfirms
  BY ScanStationAssumption DEF Init
<1> QED
  BY <1>1, <1>2, <1>3, <1>4 DEF Init, InitSession, TypeOK, States, Inputs, NoEdits

(* assemble_profile makes a profile with a free byte, or fails. *)
LEMMA Assembled ==
    ASSUME TypeOK, Assemble
    PROVE  /\ candidate' \in SUBSET Regs
           /\ state' \in States /\ task' \in Onboards \cup {"none"}
           /\ making' \in ProfileSet \cup {Nothing}
           /\ task' # "none" =>
                  making' \in ProfileSet /\ \A p \in Pids : Readable(files[p]) => files[p].byte # making'.byte
<1>1. candidate' \in SUBSET Regs
  BY DEF Assemble, Edited, TypeOK, Inputs, NoEdits
<1>2. PICK b \in 1..(MaxByte + 1) :
        /\ NextFree(b) /\ IsTypeByte(b)
        /\ IF Packed(candidate') = {} THEN Ends
           ELSE /\ making' = [pid |-> IF operator.name = NoName THEN b ELSE operator.name,
                              byte |-> b, fields |-> Packed(candidate')]
                /\ state' = "flashing" /\ task' = "writing"
  BY DEF Assemble
<1>3. b \in 1..MaxByte
  BY <1>2, ScanStationAssumption DEF IsTypeByte
<1>4. CASE Packed(candidate') = {}
  BY <1>1, <1>2, <1>4 DEF Ends, ShowFailure, States
<1>5. CASE Packed(candidate') # {}
  <2>1. Packed(candidate') \subseteq Regs
    BY <1>1 DEF Packed
  <2>2. (IF operator.name = NoName THEN b ELSE operator.name) \in Pids
    BY <1>3 DEF Pids, TypeOK, Inputs
  <2>3. making' \in ProfileSet /\ making'.byte = b
    BY <1>2, <1>3, <1>5, <2>1, <2>2 DEF ProfileSet
  <2>4. \A p \in Pids : Readable(files[p]) => files[p].byte # b
    BY <1>2 DEF NextFree, Used
  <2> QED
    BY <1>1, <1>2, <1>5, <2>3, <2>4 DEF States, Busy, Onboards
<1> QED
  BY <1>4, <1>5

LEMMA TypeStep == TypeOK /\ ConsoleInv /\ MakingInv /\ [Next]_vars => TypeOK'
<1> SUFFICES ASSUME TypeOK, ConsoleInv, MakingInv, [Next]_vars PROVE TypeOK'
  OBVIOUS
<1> USE DEF vars, session, world
<1>1. CASE UNCHANGED vars
  BY <1>1 DEF TypeOK
<1>2. ASSUME Reset PROVE TypeOK'
  <2>1. consoles' \in Nat
    BY <1>2 DEF Reset, ClearSession, CloseNode, TypeOK, ConsoleInv, OneConsole
  <2>2. state' \in States
    BY <1>2 DEF Reset, ClearSession, States
  <2> QED
    BY <1>2, <2>1, <2>2 DEF Reset, ClearSession, TypeOK
<1>3. ASSUME StartSearch PROVE TypeOK'
  <2>1. consoles' \in Nat
    BY <1>3 DEF StartSearch, ClearSession, CloseNode, TypeOK, ConsoleInv, OneConsole
  <2>2. state' \in States /\ task' \in Searches
    BY <1>3 DEF StartSearch, ClearSession, States, Searches
  <2> QED
    BY <1>3, <2>1, <2>2 DEF StartSearch, ClearSession, TypeOK
<1>4. ASSUME Confirm PROVE TypeOK'
  BY <1>4, ScanStationAssumption DEF Confirm, TypeOK, Onboards
<1>5. ASSUME NEW in \in Inputs, UpdateOperatorInput(in) PROVE TypeOK'
  BY <1>5 DEF UpdateOperatorInput, TypeOK, Inputs, NoEdits
<1>6. ASSUME StepFails PROVE TypeOK'
  BY <1>6 DEF StepFails, Fail, Ends, ShowFailure, TypeOK, States
<1>7. ASSUME BeginSearch PROVE TypeOK'
  BY <1>7 DEF BeginSearch, TypeOK, States, Busy, Searches
<1>8. ASSUME Opened PROVE TypeOK'
  BY <1>8 DEF Opened, TypeOK, Searches
<1>9. ASSUME Discovered \/ Swept PROVE TypeOK'
  BY <1>9 DEF Discovered, Swept, TypeOK, Searches
<1>10. ASSUME Inferred PROVE TypeOK'
  BY <1>10 DEF Inferred, TypeOK, States
<1>11. ASSUME Assemble PROVE TypeOK'
  BY <1>11, Assembled DEF Assemble, TypeOK
<1>12. ASSUME OpenProfile PROVE TypeOK'
  BY <1>12 DEF OpenProfile, TypeOK, Onboards
<1>13. ASSUME Generate PROVE TypeOK'
  <2>1. making \in ProfileSet
    BY <1>13 DEF Generate, MakingInv
  <2>2. files' \in [Pids -> ProfileSet \cup {Nothing, Partial}]
    BY <1>13, <2>1 DEF Generate, TypeOK
  <2>3. decoder' \in Decoders
    BY <1>13, <2>2, DecoderType DEF Generate, Regenerated, TypeOK
  <2>4. artifacts' \in ProfileSet \cup {Nothing}
    BY <1>13, <2>1 DEF Generate, TypeOK
  <2>5. /\ state' \in States /\ task' \in Onboards \cup {"none"}
        /\ making' \in ProfileSet \cup {Nothing}
    BY <1>13, <2>1 DEF Generate, GoOn, Ends, ShowFailure, States, Onboards, TypeOK
  <2> QED
    BY <1>13, <2>2, <2>3, <2>4, <2>5 DEF Generate, TypeOK
<1>14. ASSUME Flashed \/ CodecLanded PROVE TypeOK'
  BY <1>14 DEF Flashed, CodecLanded, GoOn, Ends, ShowFailure, TypeOK, States, Busy, Onboards
<1>15. ASSUME Provisioned PROVE TypeOK'
  BY <1>15 DEF Provisioned, GoOn, Ends, ShowFailure, TypeOK, States, Busy, Onboards
<1>16. ASSUME Listed PROVE TypeOK'
  BY <1>16 DEF Listed, FindOrCreate, TypeOK, Onboards
<1>17. ASSUME WriteCodec PROVE TypeOK'
  <2>1. codecs' \in Seq(Decoders)
    BY <1>17, ShippedAssumption DEF WriteCodec, TypeOK
  <2> QED
    BY <1>17, <2>1 DEF WriteCodec, Ends, ShowFailure, TypeOK, States, Onboards
<1>18. ASSUME Verified PROVE TypeOK'
  BY <1>18 DEF Verified, TypeOK, States
<1>19. ASSUME NextNode PROVE TypeOK'
  BY <1>19 DEF NextNode, TypeOK
<1>20. ASSUME PowerCut PROVE TypeOK'
  <2>1. state' \in States /\ operator' \in Inputs
    BY <1>20 DEF PowerCut, States, Inputs, NoEdits
  <2>2. confirms' \in 0..MaxConfirms
    BY <1>20, ScanStationAssumption DEF PowerCut, TypeOK
  <2> QED
    BY <1>20, <2>1, <2>2 DEF PowerCut, TypeOK
<1> QED
  BY <1>1, <1>2, <1>3, <1>4, <1>5, <1>6, <1>7, <1>8, <1>9, <1>10, <1>11, <1>12, <1>13,
     <1>14, <1>15, <1>16, <1>17, <1>18, <1>19, <1>20 DEF Next, Kiosk, Task

-----------------------------------------------------------------------------
(* The safety invariants *)

LEMMA ConsoleStep == TypeOK /\ ConsoleInv /\ [Next]_vars => ConsoleInv'
<1> SUFFICES ASSUME TypeOK, ConsoleInv, [Next]_vars PROVE ConsoleInv'
  OBVIOUS
<1> USE DEF ConsoleInv, OneConsole, session
<1>1. ASSUME UNCHANGED vars PROVE ConsoleInv'
  BY <1>1 DEF vars
<1>2. ASSUME Reset \/ StartSearch PROVE ConsoleInv'
  BY <1>2 DEF Reset, StartSearch, ClearSession, CloseNode, TypeOK
<1>3. ASSUME Confirm \/ \E in \in Inputs : UpdateOperatorInput(in) PROVE ConsoleInv'
  BY <1>3 DEF Confirm, UpdateOperatorInput
<1>4. ASSUME StepFails \/ BeginSearch \/ Opened \/ Discovered \/ Swept \/ Inferred
      PROVE  ConsoleInv'
  BY <1>4 DEF StepFails, Fail, Ends, BeginSearch, Opened, Discovered, Swept, Inferred, TypeOK
<1>5. ASSUME Assemble \/ OpenProfile \/ Generate \/ Flashed \/ Provisioned PROVE ConsoleInv'
  BY <1>5 DEF Assemble, OpenProfile, Generate, Flashed, Provisioned, GoOn, Ends
<1>6. ASSUME Listed \/ WriteCodec \/ CodecLanded \/ Verified PROVE ConsoleInv'
  BY <1>6 DEF Listed, FindOrCreate, WriteCodec, CodecLanded, GoOn, Ends, Verified
<1>7. ASSUME NextNode \/ PowerCut PROVE ConsoleInv'
  BY <1>7 DEF NextNode, PowerCut
<1> QED
  BY <1>1, <1>2, <1>3, <1>4, <1>5, <1>6, <1>7 DEF Next, Kiosk, Task

(* The byte is free when it is allocated, and nobody else writes a file. *)
LEMMA MakingStep == TypeOK /\ MakingInv /\ [Next]_vars => MakingInv'
<1> SUFFICES ASSUME TypeOK, MakingInv, [Next]_vars PROVE MakingInv'
  OBVIOUS
<1> USE DEF MakingInv, session, world
<1>1. ASSUME UNCHANGED vars PROVE MakingInv'
  BY <1>1 DEF vars
<1>2. ASSUME Kiosk PROVE MakingInv'
  BY <1>2 DEF Kiosk, Reset, StartSearch, ClearSession, Confirm, UpdateOperatorInput
<1>3. ASSUME StepFails \/ BeginSearch \/ Opened \/ Discovered \/ Swept \/ Inferred
      PROVE  MakingInv'
  BY <1>3 DEF StepFails, Fail, Ends, BeginSearch, Opened, Discovered, Swept, Inferred
<1>4. ASSUME Assemble PROVE MakingInv'
  BY <1>4, Assembled DEF Assemble, TypeOK
<1>5. ASSUME OpenProfile PROVE MakingInv'
  BY <1>5 DEF OpenProfile, TypeOK, Readable
<1>6. ASSUME Generate \/ Flashed \/ Provisioned PROVE MakingInv'
  BY <1>6 DEF Generate, Flashed, Provisioned, GoOn, Ends
<1>7. ASSUME Listed \/ WriteCodec \/ CodecLanded \/ Verified PROVE MakingInv'
  BY <1>7 DEF Listed, FindOrCreate, WriteCodec, CodecLanded, GoOn, Ends, Verified
<1>8. ASSUME NextNode \/ PowerCut PROVE MakingInv'
  BY <1>8 DEF NextNode, PowerCut
<1> QED
  BY <1>1, <1>2, <1>3, <1>4, <1>5, <1>6, <1>7, <1>8 DEF Next, Task

LEMMA BytesStep == TypeOK /\ MakingInv /\ TypeBytesUnique /\ [Next]_vars => TypeBytesUnique'
<1> SUFFICES ASSUME TypeOK, MakingInv, TypeBytesUnique, [Next]_vars PROVE TypeBytesUnique'
  OBVIOUS
<1>1. ASSUME UNCHANGED files PROVE TypeBytesUnique'
  BY <1>1 DEF TypeBytesUnique
<1>2. ASSUME OpenProfile PROVE TypeBytesUnique'
  BY <1>2 DEF OpenProfile, TypeBytesUnique, TypeOK, Readable
<1>3. ASSUME Generate PROVE TypeBytesUnique'
  BY <1>3 DEF Generate, MakingInv, TypeBytesUnique, TypeOK
<1>4. UNCHANGED files \/ OpenProfile \/ Generate
  BY DEF Next, vars, world, Kiosk, Task, Reset, StartSearch, Confirm, UpdateOperatorInput,
         StepFails, Fail, BeginSearch, Opened, Discovered, Swept, Inferred, Assemble, Flashed,
         Provisioned, Listed, WriteCodec, CodecLanded, Verified, NextNode, PowerCut
<1> QED
  BY <1>1, <1>2, <1>3, <1>4

LEMMA CodecStep == TypeOK /\ CodecInv /\ [Next]_vars => CodecInv'
<1> SUFFICES ASSUME TypeOK, CodecInv, [Next]_vars PROVE CodecInv'
  OBVIOUS
<1> USE DEF CodecInv, OneDeviceProfile, session, world
<1>1. ASSUME UNCHANGED vars PROVE CodecInv'
  BY <1>1 DEF vars
<1>2. ASSUME Kiosk PROVE CodecInv'
  BY <1>2 DEF Kiosk, Reset, StartSearch, Confirm, UpdateOperatorInput
<1>3. ASSUME StepFails \/ BeginSearch \/ Opened \/ Discovered \/ Swept \/ Inferred
      PROVE  CodecInv'
  BY <1>3 DEF StepFails, Fail, Ends, BeginSearch, Opened, Discovered, Swept, Inferred
<1>4. ASSUME Assemble \/ OpenProfile \/ Generate \/ Flashed \/ Provisioned PROVE CodecInv'
  BY <1>4 DEF Assemble, OpenProfile, Generate, Flashed, Provisioned, GoOn, Ends
<1>5. ASSUME Listed \/ CodecLanded \/ Verified PROVE CodecInv'
  BY <1>5 DEF Listed, FindOrCreate, CodecLanded, GoOn, Ends, Verified
<1>6. ASSUME WriteCodec PROVE CodecInv'
  <2>1. task' \in {"checking", "none"}
    BY <1>6 DEF WriteCodec, Ends
  <2>2. CASE task = "creating"
    <3>1. codecs = <<>> /\ codecs' = Append(codecs, ToolCodec)
      BY <1>6, <2>2 DEF WriteCodec
    <3>2. codecs' = <<ToolCodec>>
      BY <3>1
    <3>3. Len(codecs') = 1
      BY <3>2
    <3> QED
      BY <2>1, <3>3
  <2>3. CASE task = "updating"
    BY <1>6, <2>1, <2>3 DEF WriteCodec, TypeOK
  <2> QED
    BY <1>6, <2>2, <2>3 DEF WriteCodec
<1>7. ASSUME NextNode \/ PowerCut PROVE CodecInv'
  BY <1>7 DEF NextNode, PowerCut
<1> QED
  BY <1>1, <1>2, <1>3, <1>4, <1>5, <1>6, <1>7 DEF Next, Task

LEMMA DecodeStep == TypeOK /\ MakingInv /\ DecodeInv /\ [Next]_vars => DecodeInv'
<1> SUFFICES ASSUME TypeOK, MakingInv, DecodeInv, [Next]_vars PROVE DecodeInv'
  OBVIOUS
<1> USE DEF DecodeInv, Onboards, Searches, session, world
<1>1. ASSUME UNCHANGED vars PROVE DecodeInv'
  BY <1>1 DEF vars
<1>2. ASSUME Reset \/ StartSearch PROVE DecodeInv'
  BY <1>2 DEF Reset, StartSearch, ClearSession
<1>3. ASSUME Confirm \/ \E in \in Inputs : UpdateOperatorInput(in) PROVE DecodeInv'
  BY <1>3 DEF Confirm, UpdateOperatorInput
<1>4. ASSUME StepFails \/ BeginSearch \/ Opened \/ Discovered \/ Swept \/ Inferred
      PROVE  DecodeInv'
  BY <1>4 DEF StepFails, Fail, Ends, ShowFailure, BeginSearch, Opened, Discovered, Swept, Inferred
<1>5. ASSUME Assemble \/ OpenProfile PROVE DecodeInv'
  BY <1>5 DEF Assemble, OpenProfile, Ends, ShowFailure
<1>6. ASSUME Generate PROVE DecodeInv'
  <2>1. CASE task' = "flashing"
    <3>1. making \in ProfileSet /\ files' \in [Pids -> ProfileSet \cup {Nothing, Partial}]
      BY <1>6 DEF Generate, MakingInv, TypeOK
    <3>2. files'[making.pid] = making
      BY <1>6, <3>1, ProfileOf DEF Generate, TypeOK
    <3>3. /\ Valid(files') /\ decoder' = DecoderOf(files') /\ artifacts' = making
          /\ GoOn("flashing", state)
      BY <1>6, <2>1 DEF Generate, Regenerated, Ends
    <3>4. DecoderOf(files')[making.byte] = making
      BY <3>1, <3>2, <3>3, ProfileOf, DecoderReads
    <3> QED
      BY <2>1, <3>3, <3>4
  <2>2. CASE task' # "flashing"
    BY <1>6, <2>2 DEF Generate, GoOn, Ends, ShowFailure
  <2> QED
    BY <2>1, <2>2
<1>7. ASSUME Flashed \/ Provisioned \/ CodecLanded PROVE DecodeInv'
  BY <1>7 DEF Flashed, Provisioned, CodecLanded, GoOn, Ends, ShowFailure
<1>8. ASSUME Listed \/ WriteCodec \/ Verified PROVE DecodeInv'
  BY <1>8 DEF Listed, FindOrCreate, WriteCodec, Ends, ShowFailure, Verified
<1>9. ASSUME NextNode \/ PowerCut PROVE DecodeInv'
  BY <1>9 DEF NextNode, PowerCut
<1> QED
  BY <1>1, <1>2, <1>3, <1>4, <1>5, <1>6, <1>7, <1>8, <1>9 DEF Next, Kiosk, Task

-----------------------------------------------------------------------------
IInv == TypeOK /\ ConsoleInv /\ MakingInv /\ TypeBytesUnique /\ CodecInv /\ DecodeInv

LEMMA InitInv == Init => IInv
<1> SUFFICES ASSUME Init PROVE IInv
  OBVIOUS
<1>1. ConsoleInv /\ MakingInv /\ CodecInv /\ DecodeInv
  BY DEF Init, InitSession, ConsoleInv, OneConsole, MakingInv, CodecInv, OneDeviceProfile,
         DecodeInv, Onboards
<1>2. ASSUME NEW p \in Pids, Readable(files[p])
      PROVE  files[p] \in Shipped /\ files[p].pid = p
  BY <1>2 DEF Init, Readable
<1>3. TypeBytesUnique
  BY <1>2, ShippedAssumption DEF TypeBytesUnique
<1> QED
  BY <1>1, <1>3, TypeInit DEF IInv

LEMMA Invariant == Spec => []IInv
<1>1. IInv /\ [Next]_vars => IInv'
  BY TypeStep, ConsoleStep, MakingStep, BytesStep, CodecStep, DecodeStep DEF IInv
<1> QED
  BY InitInv, <1>1, PTL DEF Spec

(* Every variable keeps its type. *)
THEOREM TypeCorrect == Spec => []TypeOK
<1>1. IInv => TypeOK
  BY DEF IInv
<1> QED
  BY Invariant, <1>1, PTL

(* However resets race with the thread that opens it, one console is open    *)
(* when the session has one, and none otherwise.                             *)
THEOREM ConsoleNeverLeaks == Spec => []OneConsole
<1>1. IInv => OneConsole
  BY DEF IInv, ConsoleInv
<1> QED
  BY Invariant, <1>1, PTL

(* No history of onboardings, failures and power cuts gives two profiles on  *)
(* disk one type byte.                                                       *)
THEOREM BytesUnique == Spec => []TypeBytesUnique
<1>1. IInv => TypeBytesUnique
  BY DEF IInv
<1> QED
  BY Invariant, <1>1, PTL

(* A success shown for a profile has a generated decoder that reads it.      *)
THEOREM SuccessIsGenerated == Spec => []ArtifactsDecode
<1>1. IInv => ArtifactsDecode
  BY DEF IInv, DecodeInv, ArtifactsDecode
<1> QED
  BY Invariant, <1>1, PTL

(* Retried installs never give ChirpStack a second device-profile.           *)
THEOREM ProfileCreatedOnce == Spec => []OneDeviceProfile
<1>1. IInv => OneDeviceProfile
  BY DEF IInv, CodecInv
<1> QED
  BY Invariant, <1>1, PTL

-----------------------------------------------------------------------------
(* The refinement of Session *)

LEMMA PhaseOf ==
    /\ task \in {"none", "search", "flashing"} => Phase = task
    /\ task \in {"opening", "discovering", "sweeping", "sweepNothing", "inferring"} =>
           Phase = "searching"
    /\ task = "allocating" => Phase = "assembling"
    /\ task \in {"writing", "generating"} => Phase = "generating"
    /\ task = "provisioning" => Phase = "probing"
    /\ task \in {"listing", "updating", "creating", "checking", "verifying"} => Phase = "profiling"
  BY DEF Phase, Searches

LEMMA PhaseOfNext ==
    /\ task' \in {"none", "search", "flashing"} => Phase' = task'
    /\ task' = "opening" => Phase' = "searching"
    /\ task' = "allocating" => Phase' = "assembling"
    /\ task' = "generating" => Phase' = "generating"
  BY DEF Phase, Searches

(* Ending the task from any place is a failure of the session. *)
LEMMA EndFails ==
    ASSUME TypeOK, task # "none", Ends, UNCHANGED <<candidate, artifacts>>
    PROVE  Abstract!Fail
<1>1. Phase' = "none"
  BY PhaseOfNext DEF Ends
<1>2. Phase # "none"
  BY PhaseOf DEF TypeOK, Searches, Onboards
<1> QED
  BY <1>1, <1>2 DEF Ends, ShowFailure, Abstract!Fail

LEMMA SessionStep ==
    TypeOK /\ MakingInv /\ TypeOK' /\ [Next]_vars => [Abstract!Next]_(Abstract!vars)
<1> SUFFICES ASSUME TypeOK, MakingInv, TypeOK', [Next]_vars
             PROVE  Abstract!Next \/ UNCHANGED Abstract!vars
  OBVIOUS
<1> USE DEF session, world
<1>1. ASSUME UNCHANGED vars PROVE UNCHANGED Abstract!vars
  BY <1>1 DEF vars, Abstract!vars, Phase
<1>2. ASSUME Reset PROVE Abstract!Next
  BY <1>2 DEF Reset, ClearSession, Abstract!Next, Abstract!Reset, Abstract!Clear, Phase
<1>3. ASSUME StartSearch PROVE Abstract!Next
  <2>1. Phase = "none" /\ Phase' = "search"
    BY <1>3, PhaseOf, PhaseOfNext DEF StartSearch
  <2> QED
    BY <1>3, <2>1 DEF StartSearch, ClearSession, Abstract!Next, Abstract!StartSearch, Abstract!Clear
<1>4. ASSUME Confirm PROVE Abstract!Next
  BY <1>4 DEF Confirm, Abstract!Next, Abstract!Confirm, Phase, Searches
<1>5. ASSUME NEW in \in Inputs, UpdateOperatorInput(in)
      PROVE  Abstract!Next \/ UNCHANGED Abstract!vars
  <2>1. UNCHANGED <<state, Phase, artifacts>>
    BY <1>5 DEF UpdateOperatorInput, Phase
  <2>2. CASE candidate' = candidate
    BY <2>1, <2>2 DEF Abstract!vars
  <2>3. CASE candidate' # candidate
    <3>1. candidate # Nothing /\ candidate' \in SUBSET Regs
      BY <1>5, <2>3 DEF UpdateOperatorInput, Inputs, NoEdits
    <3> QED
      BY <2>1, <3>1 DEF Abstract!Next, Abstract!Edit, Abstract!Labelled
  <2> QED
    BY <2>2, <2>3
<1>6. ASSUME StepFails PROVE Abstract!Fail
  BY <1>6, EndFails DEF StepFails, Fail, Searches, Onboards
<1>7. ASSUME BeginSearch PROVE Abstract!BeginSearch
  BY <1>7 DEF BeginSearch, Abstract!BeginSearch, Abstract!Step, Phase, Searches
<1>8. ASSUME Opened \/ Discovered \/ Swept PROVE UNCHANGED Abstract!vars
  BY <1>8 DEF Opened, Discovered, Swept, Abstract!vars, Phase, Searches
<1>9. ASSUME Inferred PROVE Abstract!Propose
  BY <1>9 DEF Inferred, Abstract!Propose, Abstract!Step, Abstract!Labelled, Phase, Searches
<1>10. ASSUME Assemble PROVE Abstract!Assemble \/ Abstract!Fail
  <2>1. Phase = "assembling" /\ candidate # Nothing /\ UNCHANGED artifacts /\ candidate' \in SUBSET Regs
    BY <1>10, Assembled, PhaseOf DEF Assemble
  <2>2. CASE Packed(candidate') = {}
    <3>1. state' = "failed" /\ Phase' = "none"
      BY <1>10, <2>2, PhaseOfNext DEF Assemble, Ends, ShowFailure
    <3> QED
      BY <2>1, <3>1 DEF Abstract!Fail, Abstract!Labelled
  <2>3. CASE Packed(candidate') # {}
    <3>1. state' = "flashing" /\ Phase' = "generating"
      BY <1>10, <2>3 DEF Assemble, Phase, Searches
    <3> QED
      BY <2>1, <3>1 DEF Abstract!Assemble, Abstract!Step, Abstract!Labelled
  <2> QED
    BY <2>2, <2>3
<1>11. ASSUME OpenProfile PROVE UNCHANGED Abstract!vars
  BY <1>11 DEF OpenProfile, Abstract!vars, Phase, Searches
<1>12. ASSUME Generate PROVE Abstract!Package \/ Abstract!Fail
  <2>1. Phase = "generating" /\ making \in ProfileSet /\ UNCHANGED candidate
    BY <1>12, PhaseOf DEF Generate, MakingInv
  <2>2. CASE Ends /\ (artifacts' = making \/ UNCHANGED artifacts)
    <3>1. state' = "failed" /\ Phase' = "none"
      BY <2>2, PhaseOfNext DEF Ends, ShowFailure
    <3> QED
      BY <2>1, <2>2, <3>1 DEF Abstract!Fail
  <2>3. CASE artifacts' = making /\ task' = "flashing" /\ state' = state
    <3>1. Phase' = "flashing"
      BY <2>3, PhaseOfNext
    <3> QED
      BY <2>1, <2>3, <3>1 DEF Abstract!Package, Abstract!Step
  <2> QED
    BY <1>12, <2>2, <2>3 DEF Generate, GoOn
<1>13. ASSUME Flashed PROVE Abstract!Flashed \/ Abstract!Fail
  <2>1. CASE Ends
    BY <1>13, <2>1, EndFails DEF Flashed
  <2>2. CASE ~Ends
    BY <1>13, <2>2 DEF Flashed, GoOn, Abstract!Flashed, Abstract!Step, Phase, Searches
  <2> QED
    BY <2>1, <2>2
<1>14. ASSUME Provisioned PROVE Abstract!Provisioned \/ Abstract!Fail
  <2>1. CASE Ends
    BY <1>14, <2>1, EndFails DEF Provisioned
  <2>2. CASE ~Ends
    BY <1>14, <2>2 DEF Provisioned, GoOn, Abstract!Provisioned, Abstract!Step, Phase, Searches
  <2> QED
    BY <2>1, <2>2
<1>15. ASSUME Listed PROVE UNCHANGED Abstract!vars
  BY <1>15 DEF Listed, FindOrCreate, Abstract!vars, Phase, Searches
<1>16. ASSUME WriteCodec \/ CodecLanded PROVE Abstract!Fail \/ UNCHANGED Abstract!vars
  <2>1. CASE Ends
    BY <1>16, <2>1, EndFails DEF WriteCodec, CodecLanded
  <2>2. CASE ~Ends
    BY <1>16, <2>2 DEF WriteCodec, CodecLanded, GoOn, Abstract!vars, Phase, Searches
  <2> QED
    BY <2>1, <2>2
<1>17. ASSUME Verified PROVE Abstract!Succeed
  BY <1>17 DEF Verified, Abstract!Succeed, Abstract!Step, Phase, Searches
<1>18. ASSUME NextNode PROVE UNCHANGED Abstract!vars
  BY <1>18 DEF NextNode, Abstract!vars, Phase
<1>19. ASSUME PowerCut PROVE Abstract!Next
  <2>1. Phase' = "none"
    BY <1>19, PhaseOfNext DEF PowerCut
  <2> QED
    BY <1>19, <2>1 DEF PowerCut, Abstract!Next, Abstract!Restart, Abstract!Clear
<1> QED
  BY <1>1, <1>2, <1>3, <1>4, <1>5, <1>6, <1>7, <1>8, <1>9, <1>10, <1>11, <1>12, <1>13,
     <1>14, <1>15, <1>16, <1>17, <1>18, <1>19 DEF Next, Kiosk, Task, Abstract!Next, Abstract!Task

(* The safety part of ImplementsSession: whatever the threads, the tools and *)
(* the Pi do, the session only ever makes the steps the kiosk's page is      *)
(* built for.                                                                *)
THEOREM RefinesSession == Spec => Abstract!Spec
<1>1. Init => Abstract!Init
  BY PhaseOf DEF Init, InitSession, Abstract!Init
<1>2. IInv /\ IInv' /\ [Next]_vars => [Abstract!Next]_(Abstract!vars)
  BY SessionStep DEF IInv
<1> QED
  BY Invariant, <1>1, <1>2, PTL DEF Spec, Abstract!Spec
=============================================================================
