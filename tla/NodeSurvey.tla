----------------------------- MODULE NodeSurvey -----------------------------
(***************************************************************************)
(* How the station learns what is on the bus: the sweep engine             *)
(* (pi-scanner/app/sweep_engine.py) drives the node's scan-* commands      *)
(* (firmware/main/scan_console.c) through a serial console                 *)
(* (pi-scanner/app/node_console.py).                                       *)
(*                                                                         *)
(* The console has no request numbers.  A command is over at the first     *)
(* line that starts with OK or ERR, whichever command that line belongs    *)
(* to, and a station that gives up in the middle leaves the node working   *)
(* through a command whose output the next search then sees.               *)
(***************************************************************************)
EXTENDS Naturals, Sequences, FiniteSets, FiniteSetsExt, SequencesExt

CONSTANTS
    Lines,     \* the line settings, baud and parity, in the order they are tried
    MaxUnit,   \* the search probes the units 1..MaxUnit
    LastReg,   \* the sweep reads the registers 0..LastReg
    Stride,    \* registers of a block
    Bus,       \* devices: [line, unit, holds : fc -> register -> word or Nothing]
    Nothing,   \* None
    MaxTrouble,\* bound: resets, restarts of the node and disturbed replies (TLC only)
    MaxQueue   \* bound: commands the node has not begun (TLC only)

Regs == 0..LastReg
FCs == <<4, 3>>            \* the order of the ranges
LineSet == Range(Lines)

ASSUME NodeSurveyAssumption ==
    /\ MaxUnit \in Nat \ {0} /\ LastReg \in Nat /\ Stride \in Nat \ {0}
    /\ MaxTrouble \in Nat /\ MaxQueue \in Nat \ {0}
    /\ Lines \in Seq(LineSet) /\ Lines # <<>>
    /\ \A d \in Bus : /\ d.line \in LineSet /\ d.unit \in 1..MaxUnit
                      /\ DOMAIN d.holds = {3, 4}
    /\ \A d, e \in Bus : d.line = e.line /\ d.unit = e.unit => d = e

VARIABLES
    step,      \* what the search does: "cfg", "ids", "recfg", "sweep", "read", "done", "failed"
    k,         \* the line setting tried
    found,     \* Nothing, or [line, unit]
    range,     \* the function code swept, as an index of FCs
    seen,      \* the register map: <<fc, register>> -> word, or Nothing if absent
    narrow,    \* registers of excepting blocks still to read one by one
    waiting,   \* the command is sent and not answered
    inbox,     \* commands the node has not begun
    job,       \* Nothing, or the command it executes and how far it is
    line,      \* Nothing, or the line setting of the node's UART
    out,       \* lines it printed that the station has not read
    pure,      \* history: nothing disturbed the search under way
    trouble    \* disturbances so far

search == <<step, k, found, range, seen, narrow, waiting>>
repl == <<inbox, job, line>>
vars == <<search, repl, out, pure, trouble>>

-----------------------------------------------------------------------------
(* Commands and lines *)

CfgCmd(l) == [op |-> "cfg", line |-> l]
IdsCmd == [op |-> "ids"]
SweepCmd(u, fc) == [op |-> "sweep", unit |-> u, fc |-> fc]
ReadCmd(u, fc, a) == [op |-> "read", unit |-> u, fc |-> fc, addr |-> a]
Commands == [op : {"cfg"}, line : LineSet] \cup {IdsCmd}
            \cup [op : {"sweep"}, unit : 1..MaxUnit, fc : {3, 4}]
            \cup [op : {"read"}, unit : 1..MaxUnit, fc : {3, 4}, addr : Regs]
Jobs == [cmd : Commands, at : Nat]
Places == [line : LineSet, unit : 1..MaxUnit]

ASSUME NothingAssumption ==
    Nothing \notin LineSet /\ Nothing \notin Jobs /\ Nothing \notin Places

OK(op) == [text |-> "OK", op |-> op]
ERR == [text |-> "ERR", op |-> "none"]         \* not configured
IsTerminator(ln) == ln.text \in {"OK", "ERR"}

(* The device that hears a request, if one does.  *)
Hearers(u) == {d \in Bus : d.line = line /\ d.unit = u}
Block(fc, a, qty, d) == [i \in 1..qty |-> d.holds[fc][a + i - 1]]

(* modbus_master_read: all registers of the block or an exception; nothing   *)
(* when no device hears it.                                                  *)
Reply(u, fc, a, qty) ==
    IF Hearers(u) = {} THEN [cls |-> "ABS", words |-> <<>>]
    ELSE LET b == Block(fc, a, qty, CHOOSE d \in Hearers(u) : TRUE)
         IN  IF Nothing \in Range(b) THEN [cls |-> "EXC", words |-> <<>>]
                                     ELSE [cls |-> "DATA", words |-> b]

(* On a disturbed line it may be lost or garbled. *)
Replies(u, fc, a, qty) ==
    {Reply(u, fc, a, qty)} \cup
    IF trouble < MaxTrouble THEN {[cls |-> c, words |-> <<>>] : c \in {"ABS", "BAD"}} ELSE {}

-----------------------------------------------------------------------------
(* The node *)

(* It takes the next line that was typed.  A scan-cfg is done at once; the   *)
(* others refuse to work before a first scan-cfg.                            *)
Begin ==
    /\ job = Nothing /\ inbox # <<>> /\ inbox' = Tail(inbox)
    /\ LET c == Head(inbox) IN
        \/ /\ c.op = "cfg"
           /\ line' = c.line /\ out' = Append(out, OK("cfg")) /\ UNCHANGED job
        \/ /\ c.op # "cfg" /\ line = Nothing
           /\ out' = Append(out, ERR) /\ UNCHANGED <<job, line>>
        \/ /\ c.op # "cfg" /\ line # Nothing
           /\ job' = [cmd |-> c, at |-> IF c.op = "ids" THEN 1 ELSE 0]
           /\ UNCHANGED <<line, out>>
    /\ UNCHANGED <<search, pure, trouble>>

Chunk(a) == IF LastReg - a + 1 < Stride THEN LastReg - a + 1 ELSE Stride

(* One transaction on the bus. *)
Hears(reply, u, fc, a, qty) ==
    /\ reply \in Replies(u, fc, a, qty)
    /\ IF reply = Reply(u, fc, a, qty) THEN UNCHANGED <<pure, trouble>>
       ELSE pure' = FALSE /\ trouble' = trouble + 1

(* scan-ids: function 3, register 0; a unit that is silent has no line. *)
ProbeUnit ==
    /\ job # Nothing /\ job.cmd.op = "ids" /\ job.at <= MaxUnit
    /\ \E r \in Replies(job.at, 3, 0, 1) :
        /\ Hears(r, job.at, 3, 0, 1)
        /\ out' = IF r.cls = "ABS" THEN out
                  ELSE Append(out, [text |-> "ID", unit |-> job.at, cls |-> r.cls])
    /\ job' = [job EXCEPT !.at = @ + 1]
    /\ UNCHANGED <<search, inbox, line>>

SweepChunk ==
    /\ job # Nothing /\ job.cmd.op = "sweep" /\ job.at <= LastReg
    /\ LET c == job.cmd  qty == Chunk(job.at) IN
       \E r \in Replies(c.unit, c.fc, job.at, qty) :
        /\ Hears(r, c.unit, c.fc, job.at, qty)
        /\ out' = Append(out, [text |-> "SWEEP", addr |-> job.at, qty |-> qty, reply |-> r])
    /\ job' = [job EXCEPT !.at = @ + Stride]
    /\ UNCHANGED <<search, inbox, line>>

(* scan-read, whose answer is its last line. *)
ReadOne ==
    /\ job # Nothing /\ job.cmd.op = "read"
    /\ LET c == job.cmd IN
       \E r \in Replies(c.unit, c.fc, c.addr, 1) :
        /\ Hears(r, c.unit, c.fc, c.addr, 1)
        /\ out' = Append(out, [text |-> IF r.cls = "DATA" THEN "OK" ELSE "ERR",
                               op |-> "read", reply |-> r])
    /\ job' = Nothing
    /\ UNCHANGED <<search, inbox, line>>

Finish ==
    /\ job # Nothing
    /\ \/ job.cmd.op = "ids" /\ job.at > MaxUnit
       \/ job.cmd.op = "sweep" /\ job.at > LastReg
    /\ out' = Append(out, OK(job.cmd.op)) /\ job' = Nothing
    /\ UNCHANGED <<search, inbox, line, pure, trouble>>

Node == Begin \/ ProbeUnit \/ SweepChunk \/ ReadOne \/ Finish

-----------------------------------------------------------------------------
(* What the station makes of the lines of a command *)

LinesOf(lines, t) == {ln \in Range(lines) : ln.text = t}

AnyClass == {"DATA", "EXC", "BAD"}
PresentClass == {"DATA", "EXC"}
ParseIds(lines) == {ln.unit : ln \in {l \in LinesOf(lines, "ID") : l.cls \in PresentClass}}

(* The registers a SWEEP line gives a word for, and those of other classes. *)
FirstWord(ln, a) == 1
WordIndex(ln, a) == a - ln.addr + 1
Covers(ln, a) == a \in ln.addr..(ln.addr + ln.qty - 1)
ParseSweep(lines, cls) == {ln \in LinesOf(lines, "SWEEP") : ln.reply.cls = cls}

-----------------------------------------------------------------------------
(* The station *)

NoMap == [x \in {3, 4} \X Regs |-> Nothing]
Init ==
    /\ step = "failed" /\ k = 1 /\ found = Nothing /\ range = 1 /\ seen = NoMap
    /\ narrow = {} /\ waiting = FALSE
    /\ inbox = <<>> /\ job = Nothing /\ line = Nothing /\ out = <<>>
    /\ pure = TRUE /\ trouble = 0

KeepInput == UNCHANGED out
FlushInput == out' = <<>>

(* The operator starts a search; the console is opened and flushed. *)
Open ==
    /\ step = "failed" /\ Len(inbox) < MaxQueue
    /\ step' = "cfg" /\ k' = 1 /\ found' = Nothing /\ range' = 1 /\ seen' = NoMap
    /\ narrow' = {} /\ waiting' = FALSE
    /\ FlushInput
    /\ pure' = TRUE
    /\ UNCHANGED <<repl, trouble>>

Command ==
    CASE step = "cfg" -> CfgCmd(Lines[k])
      [] step = "ids" -> IdsCmd
      [] step = "recfg" -> CfgCmd(found.line)
      [] step = "sweep" -> SweepCmd(found.unit, FCs[range])
      [] step = "read" -> ReadCmd(found.unit, FCs[range], Min(narrow))

Searching == step \notin {"done", "failed"}

(* A scan-cfg takes milliseconds, opening a console half a second: the node  *)
(* is not just about to answer one that another search left behind.          *)
Settled == job # Nothing \/ inbox = <<>>

(* _cmd: drop what was printed before, type the command. *)
Send ==
    /\ Searching /\ ~waiting /\ Settled
    /\ FlushInput
    /\ inbox' = Append(inbox, Command) /\ waiting' = TRUE
    /\ UNCHANGED <<step, k, found, range, seen, narrow, job, line, pure, trouble>>

GiveUp == step' = "failed" /\ waiting' = FALSE /\ UNCHANGED <<k, found, range, seen, narrow>>

(* scan_cfg wants its own OK. *)
CfgReturns(last) ==
    IF last # OK("cfg") THEN GiveUp
    ELSE /\ step' = IF step = "cfg" THEN "ids" ELSE "sweep"
         /\ UNCHANGED <<k, found, range, seen, narrow>>

(* discover_units: the lowest unit that is there, else the next setting. *)
IdsReturns(lines) ==
    /\ LET units == ParseIds(lines) IN
        \/ /\ units # {}
           /\ found' = [line |-> Lines[k], unit |-> Min(units)] /\ step' = "recfg" /\ UNCHANGED k
        \/ /\ units = {} /\ k < Len(Lines)
           /\ k' = k + 1 /\ step' = "cfg" /\ UNCHANGED found
        \/ /\ units = {} /\ k = Len(Lines)
           /\ step' = "failed" /\ UNCHANGED <<k, found>>
    /\ UNCHANGED <<range, seen, narrow>>

(* sweep_registers goes on: single reads of excepting blocks, then the next  *)
(* function code.                                                            *)
OneRangeMore == range <= Len(FCs)
MoreRanges == range < Len(FCs)
Onwards(left) ==
    /\ narrow' = left
    /\ IF left # {} THEN step' = "read" /\ UNCHANGED range
       ELSE IF MoreRanges THEN step' = "sweep" /\ range' = range + 1
       ELSE step' = "done" /\ UNCHANGED range
    /\ UNCHANGED <<k, found>>

NoNarrowing(lines) == {}
ToNarrow(lines) == {a \in Regs : \E ln \in ParseSweep(lines, "EXC") : Covers(ln, a)}

SweepReturns(lines) ==
    /\ seen' = [x \in DOMAIN seen |->
          IF x[1] = FCs[range] /\ \E ln \in ParseSweep(lines, "DATA") : Covers(ln, x[2])
          THEN LET ln == CHOOSE ln \in ParseSweep(lines, "DATA") : Covers(ln, x[2])
               IN  ln.reply.words[WordIndex(ln, x[2])]
          ELSE seen[x]]
    /\ Onwards(ToNarrow(lines))

(* A line that is no answer to a scan-read raises. *)
ParseRead(last) == IF last.op = "read" THEN last.reply ELSE Nothing

(* _classify_register *)
ReadReturns(last) ==
    LET r == ParseRead(last) IN
    IF r = Nothing THEN GiveUp
    ELSE /\ seen' = [seen EXCEPT ![<<FCs[range], Min(narrow)>>] =
                        IF r.cls = "DATA" THEN r.words[1] ELSE Nothing]
         /\ Onwards(narrow \ {Min(narrow)})

(* _cmd returns at the first terminator. *)
Ends == {i \in DOMAIN out : IsTerminator(out[i])}
CmdReturns ==
    /\ Searching /\ waiting /\ Ends # {}
    /\ LET n == Min(Ends)  lines == SubSeq(out, 1, n) IN
        /\ out' = SubSeq(out, n + 1, Len(out))
        /\ CASE step \in {"cfg", "recfg"} -> CfgReturns(out[n])
             [] step = "ids" -> IdsReturns(lines)
             [] step = "sweep" -> SweepReturns(lines)
             [] step = "read" -> ReadReturns(out[n])
    /\ waiting' = FALSE
    /\ UNCHANGED <<repl, pure, trouble>>

(* The deadlines are longer than the commands take, so one passes only when  *)
(* the node is still busy with another command, or has lost this one.        *)
Delayed == inbox # <<>> /\ job # Nothing
Lost == inbox = <<>> /\ job = Nothing /\ Ends = {}
TimesOut ==
    /\ Searching /\ waiting /\ (Delayed \/ Lost)
    /\ GiveUp
    /\ UNCHANGED <<repl, out, pure, trouble>>

-----------------------------------------------------------------------------
(* The kiosk resets the session: the port is closed under the thread. *)
Abandon ==
    /\ Searching
    /\ trouble < MaxTrouble /\ trouble' = trouble + 1
    /\ GiveUp
    /\ UNCHANGED <<repl, out, pure>>

(* The node restarts; its USB port stays. *)
Restart ==
    /\ trouble < MaxTrouble /\ trouble' = trouble + 1
    /\ inbox' = <<>> /\ job' = Nothing /\ line' = Nothing
    /\ pure' = FALSE
    /\ UNCHANGED <<search, out>>

Station == Open \/ Send \/ CmdReturns \/ TimesOut
Next == Node \/ Station \/ Abandon \/ Restart

Spec == Init /\ [][Next]_vars
(* The node executes what was typed, and the operator tries again. *)
FairSpec == Spec /\ WF_vars(Node) /\ WF_vars(Station)

-----------------------------------------------------------------------------
Steps == {"cfg", "ids", "recfg", "sweep", "read", "done", "failed"}

TypeOK ==
    /\ step \in Steps /\ k \in DOMAIN Lines /\ range \in DOMAIN FCs
    /\ found \in Places \cup {Nothing}
    /\ step \in {"recfg", "sweep", "read", "done"} => found # Nothing
    /\ step = "read" => narrow # {}
    /\ DOMAIN seen = {3, 4} \X Regs /\ narrow \subseteq Regs
    /\ inbox \in Seq(Commands) /\ Len(inbox) <= MaxQueue
    /\ line \in LineSet \cup {Nothing} /\ {waiting, pure} \subseteq BOOLEAN
    /\ trouble \in 0..MaxTrouble

At(d) == found = [line |-> d.line, unit |-> d.unit]

(* The device a search reports is there, at that line setting and unit:      *)
(* neither noise nor the output of an abandoned search is taken for an       *)
(* answer of the setting tried (sweep_engine.py:46).                         *)
FoundIsThere == found # Nothing => \E d \in Bus : At(d)

(* A register the map shows is there and had that word, whatever was         *)
(* disturbed, abandoned or restarted on the way.                             *)
MapSound == \A d \in Bus : At(d) =>
    \A x \in DOMAIN seen : seen[x] # Nothing => seen[x] = d.holds[x[1]][x[2]]

(* The map of an undisturbed search lacks no register: blocks that except    *)
(* are narrowed exactly (sweep_engine.py:10), also after searches that were  *)
(* abandoned in the middle.                                                  *)
MapComplete == step = "done" /\ pure =>
    \A d \in Bus : At(d) => \A x \in DOMAIN seen : seen[x] = d.holds[x[1]][x[2]]

(* An operator who tries again gets a map: no abandoned command, lost reply  *)
(* or restart makes the console and the station disagree for ever.           *)
SurveyCompletes == <>(step = "done")
=============================================================================
