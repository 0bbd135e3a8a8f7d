------------------------------ MODULE ModbusBus ------------------------------
(***************************************************************************)
(* The Modbus RTU master and the half-duplex bus under it                  *)
(* (components/modbus/modbus_master.c, modbus_rtu.c), driven the way the   *)
(* field task drives them: searches (meter_scan_for_unit) and read cycles  *)
(* (meter_read_profile) with a pause in between.                           *)
(*                                                                         *)
(* A reply names its unit, function and byte count, but neither the        *)
(* register nor the request it answers: a device that answers after the    *)
(* timeout can be taken for the answer to the next request.  Frames travel *)
(* in pieces, so that a flush may cut one in two: the first piece is the 5 *)
(* bytes of an exception, each register adds one.  The CRC is taken to     *)
(* detect every cut.                                                       *)
(***************************************************************************)
EXTENDS Naturals, Sequences

CONSTANTS
    Devices,    \* units at which a device is wired
    Known,      \* the unit NVS holds at boot
    ScanHi,     \* the last unit it probes
    ScanRead,   \* [fc, qty] of the profile's scan rule
    CycleReads, \* sequence of [fc, qty], the reads of one cycle
    MaxQueue    \* bound: answers the devices may owe at once

ASSUME ModbusBusAssumption ==
    /\ Devices \subseteq 1..247 /\ Known \in 1..247 /\ ScanHi \in 1..247
    /\ ScanRead \in [fc : {3, 4}, qty : 1..125]
    /\ CycleReads \in Seq([fc : {3, 4}, qty : 1..125]) /\ CycleReads # <<>>
    /\ MaxQueue \in Nat \ {0}

VARIABLES
    mode,     \* "scan", "cycle", or "pause" between two of them
    next,     \* what follows the pause
    pos,      \* 0 for the known unit, then the unit scanned; or the read of the cycle
    unit,     \* the unit the cycles read, and a search probes first
    asked,    \* a request is out
    answers,  \* replies the devices have not begun to send
    wire,     \* pieces on their way
    rx,       \* pieces in the UART buffer
    failed,   \* a read of this cycle failed: STALE will be raised
    wrong,    \* history: a read of this cycle took another request's answer
    fromScan, \* history: no pause lies between the search and this cycle
    calm      \* from now on devices answer in time and nothing is lost

busVars == <<answers, wire, rx>>
masterVars == <<mode, next, pos, unit, asked, failed, wrong, fromScan>>
vars == <<busVars, masterVars, calm>>

-----------------------------------------------------------------------------
(* Frames.  "own" is history: the frame answers the request that is out. *)
Frames == [unit : Devices, fc : {3, 4}, qty : 1..125, exc : BOOLEAN, own : BOOLEAN]

FrameLen(f) == IF f.exc THEN 1 ELSE 1 + f.qty
Pieces(f) == [k \in 1..FrameLen(f) |-> <<f, k>>]
DisownFrames(s) == [i \in DOMAIN s |-> [s[i] EXCEPT !.own = FALSE]]
DisownPieces(s) == [i \in DOMAIN s |-> <<[s[i][1] EXCEPT !.own = FALSE], s[i][2]>>]

(* Bytes that pass the CRC: the pieces of one frame, all of them. *)
WholeFrame(s) == s # <<>> /\ s = Pieces(s[1][1])

(* The request that comes next, or is out. *)
Target == IF mode = "cycle" THEN unit ELSE IF pos = 0 THEN unit ELSE pos
Request == LET r == IF mode = "cycle" THEN CycleReads[pos] ELSE ScanRead
           IN  [unit |-> Target, fc |-> r.fc, qty |-> r.qty]
Want == 1 + Request.qty

AnySlave(f) == TRUE
FromSlave(f) == f.unit = Request.unit

(* modbus_parse_read_response *)
Parse(s) ==
    CASE s = <<>> -> "short"
      [] s # <<>> /\ ~WholeFrame(s) -> "crc"
      [] OTHER -> LET f == s[1][1] IN
                  CASE ~FromSlave(f) -> "slave"
                    [] FromSlave(f) /\ f.fc # Request.fc -> "func"
                    [] FromSlave(f) /\ f.fc = Request.fc /\ f.exc -> "exception"
                    [] FromSlave(f) /\ f.fc = Request.fc /\ ~f.exc /\ f.qty # Request.qty -> "bytecount"
                    [] OTHER -> "ok"

-----------------------------------------------------------------------------
Init ==
    /\ mode = "scan" /\ next = "scan" /\ pos = 0 /\ unit = Known /\ asked = FALSE
    /\ answers = <<>> /\ wire = <<>> /\ rx = <<>>
    /\ failed = FALSE /\ wrong = FALSE /\ fromScan = TRUE
    /\ calm = FALSE

NoFlush == rx' = DisownPieces(rx)
Flush == rx' = <<>>

(* Flush the UART buffer and send.  While the master drives the line it     *)
(* hears nothing: pieces then in flight are lost.  A device answers, with   *)
(* data or an exception, or not at all.                                     *)
Ask ==
    /\ mode # "pause" /\ ~asked
    /\ Flush
    /\ \E lost \in 0..Len(wire) :
        /\ calm => lost = 0
        /\ wire' = DisownPieces(SubSeq(wire, lost + 1, Len(wire)))
    /\ \/ /\ Target \in Devices /\ Len(answers) < MaxQueue
          /\ \E e \in IF calm THEN {FALSE} ELSE BOOLEAN :
               answers' = Append(DisownFrames(answers),
                                 [unit |-> Target, fc |-> Request.fc, qty |-> Request.qty,
                                  exc |-> e, own |-> TRUE])
       \/ /\ Target \in Devices => ~calm
          /\ answers' = DisownFrames(answers)
    /\ asked' = TRUE
    /\ UNCHANGED <<mode, next, pos, unit, failed, wrong, fromScan, calm>>

(* A device starts to send, as early or as late as it likes.  Two that send *)
(* at a time destroy each other's frames: for that stands Lose.             *)
Answer ==
    /\ answers # <<>> /\ wire = <<>>
    /\ wire' = Pieces(Head(answers)) /\ answers' = Tail(answers)
    /\ UNCHANGED <<rx, masterVars, calm>>

Arrive ==
    /\ wire # <<>>
    /\ rx' = Append(rx, Head(wire)) /\ wire' = Tail(wire)
    /\ UNCHANGED <<answers, masterVars, calm>>

(* The rest of a frame is garbled, or a device drops a request. *)
Lose ==
    /\ ~calm
    /\ \/ wire # <<>> /\ wire' = <<>> /\ UNCHANGED answers
       \/ answers # <<>> /\ answers' = Tail(answers) /\ UNCHANGED wire
    /\ UNCHANGED <<rx, masterVars, calm>>

OwnUnderway == \/ \E i \in DOMAIN answers : answers[i].own
               \/ \E i \in DOMAIN wire : wire[i][1].own

(* rs485_read returns: with all it wanted, or at the timeout with what is   *)
(* there, which in calm times means that no answer is under way.            *)
GotLen == IF Len(rx) < Want THEN Len(rx) ELSE Want
Got == SubSeq(rx, 1, GotLen)
Returns ==
    /\ asked /\ (Len(rx) >= Want \/ ~calm \/ ~OwnUnderway)
    /\ asked' = FALSE /\ rx' = SubSeq(rx, GotLen + 1, Len(rx))
    /\ UNCHANGED <<answers, wire, calm>>

(* meter_scan_for_unit: data or an exception proves that a device is there. *)
Probe ==
    /\ mode = "scan" /\ Returns
    /\ IF Parse(Got) \in {"ok", "exception"}
       THEN /\ mode' = "cycle" /\ pos' = 1 /\ unit' = Target
            /\ failed' = FALSE /\ wrong' = FALSE /\ fromScan' = TRUE
            /\ UNCHANGED next
       ELSE /\ IF pos < ScanHi THEN pos' = pos + 1 /\ UNCHANGED <<mode, next>>
                               ELSE mode' = "pause" /\ next' = "scan" /\ UNCHANGED pos
            /\ UNCHANGED <<unit, failed, wrong, fromScan>>

LastResult(ok) == ~ok
NoteResult(ok) == failed \/ ~ok

OneReadMore == pos <= Len(CycleReads)
ReadsLeft == pos < Len(CycleReads)

(* meter_read_profile: a failed read is noted and the cycle goes on.  After *)
(* the cycle the field task sleeps, or searches again at once if it has had *)
(* enough of failed cycles.                                                 *)
Read ==
    /\ mode = "cycle" /\ Returns
    /\ LET ok == Parse(Got) = "ok" IN
        /\ failed' = NoteResult(ok)
        /\ wrong' = (wrong \/ (ok /\ ~Got[1][1].own))
    /\ IF ReadsLeft
       THEN pos' = pos + 1 /\ UNCHANGED <<mode, next>>
       ELSE \/ mode' = "pause" /\ next' = "cycle" /\ UNCHANGED pos
            \/ failed' /\ mode' = "scan" /\ pos' = 0 /\ UNCHANGED next
    /\ UNCHANGED <<unit, fromScan>>

(* The pause is longer than any device delays: what was under way has come, *)
(* and waits in the UART buffer.                                            *)
PauseOver ==
    /\ mode = "pause" /\ answers = <<>> /\ wire = <<>>
    /\ mode' = next
    /\ pos' = IF next = "cycle" THEN 1 ELSE 0
    /\ failed' = FALSE /\ wrong' = FALSE /\ fromScan' = FALSE
    /\ UNCHANGED <<busVars, next, unit, asked, calm>>

CalmDown == ~calm /\ calm' = TRUE /\ UNCHANGED <<busVars, masterVars>>

Master == Ask \/ Probe \/ Read \/ PauseOver
Next == Master \/ Answer \/ Arrive \/ Lose \/ CalmDown

Spec == Init /\ [][Next]_vars
(* The field task runs, devices send what they owe, bytes arrive. *)
FairSpec == Spec /\ WF_vars(Master) /\ WF_vars(Answer) /\ WF_vars(Arrive)

-----------------------------------------------------------------------------
TypeOK ==
    /\ mode \in {"scan", "cycle", "pause"} /\ next \in {"scan", "cycle"}
    /\ pos \in 0..(IF ScanHi > Len(CycleReads) THEN ScanHi ELSE Len(CycleReads))
    /\ mode = "cycle" => pos \in 1..Len(CycleReads)
    /\ unit \in 1..247
    /\ answers \in Seq(Frames) /\ Len(answers) <= MaxQueue
    /\ wire \in Seq(Frames \X (1..127)) /\ rx \in Seq(Frames \X (1..127))
    /\ {asked, failed, wrong, fromScan, calm} \subseteq BOOLEAN

CycleDone == mode = "pause" /\ next = "cycle"

(* A frame without the STALE flag holds no value that was read from another *)
(* register: a late answer is taken for the next one only after the read it *)
(* belonged to has failed, and the pause and the flush keep it out of the   *)
(* next cycle.  Only a cycle that follows a search at once is left out.     *)
FreshFrameExact == CycleDone /\ ~failed /\ ~fromScan => ~wrong

(* The search ends at a unit where a device is, however late the answers of *)
(* the units probed before it come in.                                      *)
FoundUnitIsThere == mode = "cycle" => unit \in Devices

(* Once devices answer in time, the cycles become fresh and exact, whatever *)
(* was under way: the shift a late answer causes does not last.             *)
BusHeals == <>calm => <>[](CycleDone => ~failed /\ ~wrong)
=============================================================================
