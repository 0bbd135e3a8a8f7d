-------------------------- MODULE NodeSurveyProofs --------------------------
(***************************************************************************)
(* Proofs about NodeSurvey for every bus, number of line settings, units,  *)
(* registers and block length.                                             *)
(*                                                                         *)
(* The console has no request numbers, so what must be shown is that the   *)
(* first terminator after a command is that command's own.  It need not be *)
(* so for the scan-cfg that begins a search, when an abandoned command is  *)
(* still executed; but that one never ends in the OK of a scan-cfg, so the *)
(* search fails.  From the first OK of a scan-cfg on, the node has nothing *)
(* to do but the command of the search.                                    *)
(***************************************************************************)
EXTENDS NodeSurvey, WellFoundedInduction, TLAPS

IsSeq(s) == s \in Seq(Range(s))
EndsOf(lines) == {i \in DOMAIN lines : IsTerminator(lines[i])}

Idle == inbox = <<>> /\ job = Nothing
JobInv == job # Nothing =>
    /\ job \in Jobs /\ job.cmd.op # "cfg" /\ line # Nothing
    /\ job.cmd.op = "ids" => job.at # 0

(* Where the command that the station waits for may be.                    *)
Typed == inbox = <<Command>> /\ job = Nothing /\ EndsOf(out) = {}
Worked == inbox = <<>> /\ job # Nothing /\ job.cmd = Command /\ EndsOf(out) = {}
Answered == Idle /\ EndsOf(out) = {Len(out)}
Gone == Idle /\ EndsOf(out) = {}

(* The first scan-cfg of a search, typed behind an abandoned command.      *)
FirstEndIsNot(ln) ==
    \E n \in EndsOf(out) : (\A m \in EndsOf(out) : n <= m) /\ out[n] # ln
Behind == (EndsOf(out) = {} /\ job # Nothing) \/ FirstEndIsNot(OK("cfg"))

ConsoleInv ==
    /\ IsSeq(out)
    /\ step \in {"ids", "recfg", "sweep", "read"} /\ ~waiting => Idle
    /\ step = "cfg" /\ ~waiting => Len(inbox) < MaxQueue
    /\ waiting => /\ Searching
                  /\ Typed \/ Worked \/ Answered \/ Gone \/ (step = "cfg" /\ Behind)

(* Once a scan-cfg is answered, the UART has the line setting tried, unless *)
(* the node restarted.                                                      *)
Tried == IF step \in {"cfg", "ids"} THEN Lines[k] ELSE found.line
Set == \/ step \in {"ids", "sweep", "read"}
       \/ /\ step \in {"cfg", "recfg"} /\ waiting
          /\ Answered /\ out[Len(out)] = OK("cfg")
LineInv == Set => line \in {Tried, Nothing} /\ (pure => line # Nothing)

StartInv == step \in {"cfg", "ids", "recfg"} => seen = NoMap /\ range = 1

(* What the lines say that the search will read. *)
GoodId(l, ln) == ln.text = "ID" =>
    /\ ln.unit \in 1..MaxUnit
    /\ ln.cls \in PresentClass => \E d \in Bus : d.line = l /\ d.unit = ln.unit
IdsInv == step = "ids" /\ waiting => \A i \in DOMAIN out : GoodId(Lines[k], out[i])

IsAt(place, d) == place = [line |-> d.line, unit |-> d.unit]
GoodSweep(place, fc, ln) == ln.text = "SWEEP" /\ ln.reply.cls = "DATA" =>
    \A d \in Bus, a \in Regs : IsAt(place, d) /\ Covers(ln, a) =>
        ln.reply.words[WordIndex(ln, a)] = d.holds[fc][a]
TrueSweep(ln) == ln.text = "SWEEP" => ln.reply.cls \in {"DATA", "EXC"}
Covered(lines, a) == \E i \in DOMAIN lines : lines[i].text = "SWEEP" /\ Covers(lines[i], a)
SweepInv == step = "sweep" /\ waiting =>
    /\ \A i \in DOMAIN out : GoodSweep(found, FCs[range], out[i])
    /\ pure => /\ \A i \in DOMAIN out : TrueSweep(out[i])
               /\ job # Nothing => \A a \in Regs : a < job.at => Covered(out, a)
               /\ Answered => \A a \in Regs : Covered(out, a)

GoodRead(place, fc, a, ln) == ln.op = "read" /\ ln.reply.cls = "DATA" =>
    \A d \in Bus : IsAt(place, d) => ln.reply.words[1] = d.holds[fc][a]
TrueRead(place, fc, a, ln) == ln.op = "read" /\
    (ln.reply.cls # "DATA" => \A d \in Bus : IsAt(place, d) => d.holds[fc][a] = Nothing)
ReadInv == step = "read" /\ waiting /\ Answered =>
    /\ GoodRead(found, FCs[range], Min(narrow), out[Len(out)])
    /\ pure => TrueRead(found, FCs[range], Min(narrow), out[Len(out)])

(* The registers an undisturbed search is through with. *)
Through(x) ==
    \/ step = "done"
    \/ step \in {"sweep", "read"} /\ range = 2 /\ x[1] = FCs[1]
    \/ step = "read" /\ x[1] = FCs[range] /\ x[2] \notin narrow
MapInv == pure => \A d \in Bus : At(d) =>
    \A x \in {3, 4} \X Regs : Through(x) => seen[x] = d.holds[x[1]][x[2]]

IInv ==
    /\ TypeOK /\ JobInv /\ ConsoleInv /\ LineInv /\ StartInv
    /\ IdsInv /\ SweepInv /\ ReadInv
    /\ FoundIsThere /\ MapSound /\ MapInv

-----------------------------------------------------------------------------
(* Sets of numbers have least elements, and lines are added at the end.    *)

LEMMA LeastElement ==
    ASSUME NEW S \in SUBSET Nat, S # {}
    PROVE  \E m \in S : \A n \in S : m <= n
<1>1. \E m \in S : \A n \in S : <<n, m>> \notin OpToRel(<, Nat)
  BY NatLessThanWellFounded, WFMin
<1>2. PICK m \in S : \A n \in S : <<n, m>> \notin OpToRel(<, Nat)
  BY <1>1
<1>3. \A n \in S : ~(n < m)
  BY <1>2 DEF OpToRel
<1>4. \A n \in S : m <= n
  <2>1. \A n \in S : n \in Nat /\ m \in Nat
    OBVIOUS
  <2> QED
    BY <1>3, <2>1
<1> QED
  BY <1>4

LEMMA MinIsLeast ==
    ASSUME NEW S \in SUBSET Nat, S # {}
    PROVE  Min(S) \in S /\ \A n \in S : Min(S) <= n
  BY LeastElement DEF Min

LEMMA LeastIsMin ==
    ASSUME NEW S \in SUBSET Nat, NEW m \in S, \A n \in S : m <= n
    PROVE  Min(S) = m
<1>1. Min(S) \in S /\ Min(S) <= m /\ m <= Min(S)
  BY MinIsLeast
<1>2. Min(S) \in Nat /\ m \in Nat
  BY <1>1
<1> QED
  BY <1>1, <1>2

LEMMA Appended ==
    ASSUME NEW s, IsSeq(s), NEW x
    PROVE  /\ Len(s) \in Nat /\ DOMAIN s = 1..Len(s)
           /\ IsSeq(Append(s, x)) /\ Len(Append(s, x)) = Len(s) + 1
           /\ DOMAIN Append(s, x) = 1..(Len(s) + 1)
           /\ \A i \in 1..Len(s) : Append(s, x)[i] = s[i]
           /\ Append(s, x)[Len(s) + 1] = x
<1> DEFINE R == Range(s) \cup {x}
<1>1. s \in Seq(R) /\ x \in R
  BY DEF IsSeq
<1> HIDE DEF R
<1>2. /\ Len(s) \in Nat /\ DOMAIN s = 1..Len(s)
      /\ Append(s, x) \in Seq(R) /\ Len(Append(s, x)) = Len(s) + 1
      /\ \A i \in 1..Len(s) : Append(s, x)[i] = s[i]
      /\ Append(s, x)[Len(s) + 1] = x
  BY <1>1
<1>3. DOMAIN Append(s, x) = 1..(Len(s) + 1)
  BY <1>2
<1>4. IsSeq(Append(s, x))
  <2>1. \A i \in 1..(Len(s) + 1) : Append(s, x)[i] \in Range(Append(s, x))
    BY <1>3 DEF Range
  <2> QED
    BY <1>2, <2>1 DEF IsSeq
<1> QED
  BY <1>2, <1>3, <1>4

LEMMA EndsAppended ==
    ASSUME NEW s, IsSeq(s), NEW x
    PROVE  /\ EndsOf(s) \subseteq 1..Len(s)
           /\ IsTerminator(x) => EndsOf(Append(s, x)) = EndsOf(s) \cup {Len(s) + 1}
           /\ ~IsTerminator(x) => EndsOf(Append(s, x)) = EndsOf(s)
<1>1. EndsOf(s) \subseteq 1..Len(s)
  BY Appended DEF EndsOf
<1>2. \A i \in 1..Len(s) : i \in EndsOf(Append(s, x)) <=> i \in EndsOf(s)
  BY Appended DEF EndsOf
<1>3. Len(s) + 1 \in EndsOf(Append(s, x)) <=> IsTerminator(x)
  BY Appended DEF EndsOf
<1>4. EndsOf(Append(s, x)) \subseteq 1..(Len(s) + 1) /\ Len(s) \in Nat
  BY Appended DEF EndsOf
<1> QED
  BY <1>1, <1>2, <1>3, <1>4

LEMMA Unread == IsSeq(<<>>) /\ EndsOf(<<>>) = {}
<1>1. <<>> \in Seq(Range(<<>>))
  OBVIOUS
<1> QED
  BY <1>1 DEF IsSeq, EndsOf

-----------------------------------------------------------------------------
(* The bus: who answers, and what.                                         *)

LEMMA Ordered ==
    /\ FCs[1] = 4 /\ FCs[2] = 3 /\ Len(FCs) = 2 /\ DOMAIN FCs = {1, 2}
    /\ Len(Lines) \in Nat /\ DOMAIN Lines = 1..Len(Lines) /\ 1 \in DOMAIN Lines
    /\ \A j \in DOMAIN Lines : Lines[j] \in LineSet
<1>1. Lines \in Seq(LineSet) /\ Lines # <<>>
  BY NodeSurveyAssumption
<1> QED
  BY <1>1 DEF FCs

LEMMA OneHearer ==
    ASSUME NEW d \in Bus, d.line = line
    PROVE  Hearers(d.unit) = {d}
  BY NodeSurveyAssumption DEF Hearers

(* A device that hears a request answers with its words, or with an        *)
(* exception when one of the registers is absent.                          *)
LEMMA TrueReply ==
    ASSUME NEW d \in Bus, d.line = line, NEW fc, NEW a, NEW qty
    PROVE  LET r == Reply(d.unit, fc, a, qty)  b == Block(fc, a, qty, d) IN
           /\ r.cls \in {"DATA", "EXC"}
           /\ r.cls = "DATA" => r.words = b /\ Nothing \notin Range(b)
           /\ r.cls = "EXC" => Nothing \in Range(b)
<1>1. Hearers(d.unit) # {} /\ (CHOOSE e \in Hearers(d.unit) : TRUE) = d
  BY OneHearer
<1> QED
  BY <1>1 DEF Reply

LEMMA Audible ==
    ASSUME NEW u, NEW fc, NEW a, NEW qty, Reply(u, fc, a, qty).cls # "ABS"
    PROVE  \E d \in Bus : d.line = line /\ d.unit = u
<1>1. Hearers(u) # {}
  BY DEF Reply
<1> QED
  BY <1>1 DEF Hearers

LEMMA Classes ==
    ASSUME NEW u, NEW fc, NEW a, NEW qty, NEW r \in Replies(u, fc, a, qty)
    PROVE  /\ r.cls \in {"ABS", "BAD"} \/ r = Reply(u, fc, a, qty)
           /\ r # Reply(u, fc, a, qty) => trouble < MaxTrouble
  BY DEF Replies

(* What a transaction tells of the device that the search has found, when  *)
(* the UART has its line setting or the node has restarted.                *)
LEMMA WordsHeard ==
    ASSUME NEW d \in Bus, NEW fc, NEW a \in Nat, NEW qty \in Nat,
           line \in {d.line, Nothing},
           NEW r \in Replies(d.unit, fc, a, qty), r.cls = "DATA",
           NEW b \in a..(a + qty - 1)
    PROVE  r.words[b - a + 1] = d.holds[fc][b]
<1>1. r = Reply(d.unit, fc, a, qty)
  BY Classes
<1>2. d.line = line
  BY <1>1, Audible, NodeSurveyAssumption, NothingAssumption
<1>3. r.words = Block(fc, a, qty, d)
  BY <1>1, <1>2, TrueReply
<1>4. b - a + 1 \in 1..qty /\ a + (b - a + 1) - 1 = b
  OBVIOUS
<1> QED
  BY <1>3, <1>4 DEF Block

LEMMA FirstHeard ==
    ASSUME NEW d \in Bus, NEW fc, NEW a \in Nat, line \in {d.line, Nothing},
           NEW r \in Replies(d.unit, fc, a, 1), r.cls = "DATA"
    PROVE  r.words[1] = d.holds[fc][a]
<1>1. r = Reply(d.unit, fc, a, 1)
  BY Classes
<1>2. d.line = line
  BY <1>1, Audible, NodeSurveyAssumption, NothingAssumption
<1>3. r.words = Block(fc, a, 1, d)
  BY <1>1, <1>2, TrueReply
<1>4. 1 \in 1..1 /\ a + 1 - 1 = a
  OBVIOUS
<1> QED
  BY <1>3, <1>4 DEF Block

LEMMA OneWord ==
    ASSUME NEW d \in Bus, NEW fc, NEW a \in Nat, d.line = line,
           Reply(d.unit, fc, a, 1).cls # "DATA"
    PROVE  d.holds[fc][a] = Nothing
<1>1. Nothing \in Range(Block(fc, a, 1, d))
  BY TrueReply
<1>2. \A i \in 1..1 : i = 1 /\ a + i - 1 = a
  OBVIOUS
<1>3. DOMAIN Block(fc, a, 1, d) = 1..1 /\ \A i \in 1..1 : Block(fc, a, 1, d)[i] = d.holds[fc][a]
  BY <1>2 DEF Block
<1> QED
  BY <1>1, <1>3 DEF Range

LEMMA PureKept ==
    ASSUME NEW r, NEW u, NEW fc, NEW a, NEW qty, Hears(r, u, fc, a, qty), TypeOK
    PROVE  /\ pure' => pure /\ r = Reply(u, fc, a, qty)
           /\ pure' \in BOOLEAN /\ trouble' \in 0..MaxTrouble
<1>1. /\ r \in Replies(u, fc, a, qty)
      /\ r = Reply(u, fc, a, qty) => UNCHANGED <<pure, trouble>>
      /\ r # Reply(u, fc, a, qty) => pure' = FALSE /\ trouble' = trouble + 1
  BY DEF Hears
<1>2. pure \in BOOLEAN /\ trouble \in 0..MaxTrouble
  BY DEF TypeOK
<1>3. CASE r = Reply(u, fc, a, qty)
  BY <1>1, <1>2, <1>3
<1>4. CASE r # Reply(u, fc, a, qty)
  <2>1. trouble < MaxTrouble
    BY <1>1, <1>4, Classes
  <2>2. trouble + 1 \in 0..MaxTrouble
    BY <1>2, <2>1, NodeSurveyAssumption
  <2> QED
    BY <1>1, <1>4, <2>2
<1> QED
  BY <1>3, <1>4

-----------------------------------------------------------------------------
(* What the search keeps while the node works.                             *)

LEMMA Commanded ==
    /\ step = "cfg" => Command = CfgCmd(Lines[k])
    /\ step = "ids" => Command = IdsCmd
    /\ step = "recfg" => Command = CfgCmd(found.line)
    /\ step = "sweep" => Command = SweepCmd(found.unit, FCs[range])
    /\ step = "read" => Command = ReadCmd(found.unit, FCs[range], Min(narrow))
  BY DEF Command

LEMMA CommandTyped ==
    ASSUME TypeOK, Searching
    PROVE  Command \in Commands
<1>1. step = "cfg" => CfgCmd(Lines[k]) \in Commands
  BY Ordered DEF TypeOK, CfgCmd, Commands
<1>2. IdsCmd \in Commands
  BY DEF Commands
<1>3. step = "recfg" => CfgCmd(found.line) \in Commands
  BY DEF TypeOK, Places, CfgCmd, Commands
<1>4. FCs[range] \in {3, 4}
  BY Ordered DEF TypeOK
<1>5. step \in {"sweep", "read"} => found.unit \in 1..MaxUnit
  BY DEF TypeOK, Places
<1>6. step = "sweep" => SweepCmd(found.unit, FCs[range]) \in Commands
  BY <1>4, <1>5 DEF SweepCmd, Commands
<1>7. step = "read" => Min(narrow) \in Regs
  <2>1. narrow \subseteq Regs /\ Regs \subseteq Nat
    BY NodeSurveyAssumption DEF TypeOK, Regs
  <2>2. step = "read" => narrow # {}
    BY DEF TypeOK
  <2> QED
    BY <2>1, <2>2, MinIsLeast
<1>8. step = "read" => ReadCmd(found.unit, FCs[range], Min(narrow)) \in Commands
  BY <1>4, <1>5, <1>7 DEF ReadCmd, Commands
<1>9. step \in {"cfg", "ids", "recfg", "sweep", "read"}
  BY DEF TypeOK, Steps, Searching
<1> QED
  BY <1>1, <1>2, <1>3, <1>6, <1>8, <1>9, Commanded

LEMMA CommandKept ==
    ASSUME UNCHANGED search
    PROVE  Command' = Command /\ Searching' = Searching /\ Tried' = Tried
  BY DEF search, Command, Searching, Tried

LEMMA NodeTypes ==
    ASSUME TypeOK, UNCHANGED search,
           inbox' = inbox \/ (inbox # <<>> /\ inbox' = Tail(inbox)),
           line' \in LineSet \cup {Nothing}, pure' \in BOOLEAN, trouble' \in 0..MaxTrouble
    PROVE  TypeOK'
<1>1. inbox' \in Seq(Commands) /\ Len(inbox') <= MaxQueue
  <2>1. inbox \in Seq(Commands) /\ Len(inbox) <= MaxQueue /\ MaxQueue \in Nat
    BY NodeSurveyAssumption DEF TypeOK
  <2>2. inbox # <<>> => Tail(inbox) \in Seq(Commands) /\ Len(Tail(inbox)) = Len(inbox) - 1
    BY <2>1
  <2> QED
    BY <2>1, <2>2
<1>2. {waiting', pure'} \subseteq BOOLEAN
  BY DEF TypeOK, search
<1> QED
  BY <1>1, <1>2 DEF TypeOK, search

LEMMA MapKept ==
    ASSUME StartInv, FoundIsThere, MapSound, MapInv, UNCHANGED search, pure' => pure
    PROVE  StartInv' /\ FoundIsThere' /\ MapSound' /\ MapInv'
<1>1. StartInv'
  BY DEF StartInv, search
<1>2. FoundIsThere' /\ MapSound'
  BY DEF FoundIsThere, MapSound, At, search
<1>3. MapInv'
  BY DEF MapInv, At, Through, search
<1> QED
  BY <1>1, <1>2, <1>3

(* While a command that no scan-cfg hides behind is executed, it is the    *)
(* one the station waits for.                                              *)
LEMMA WorkedOn ==
    ASSUME ConsoleInv, job # Nothing, waiting, step # "cfg"
    PROVE  Worked
  BY DEF ConsoleInv, Typed, Answered, Gone, Idle

LEMMA NotWaited ==
    ASSUME TypeOK, ConsoleInv, job # Nothing, ~waiting
    PROVE  step \in {"cfg", "done", "failed"}
  BY DEF ConsoleInv, Idle, TypeOK, Steps

LEMMA StaysBehind ==
    ASSUME IsSeq(out), FirstEndIsNot(OK("cfg")), NEW x, out' = Append(out, x)
    PROVE  FirstEndIsNot(OK("cfg"))'
<1>1. PICK n \in EndsOf(out) : (\A m \in EndsOf(out) : n <= m) /\ out[n] # OK("cfg")
  BY DEF FirstEndIsNot
<1>2. n \in 1..Len(out) /\ Len(out) \in Nat
  BY <1>1, EndsAppended, Appended
<1>3. n \in EndsOf(out') /\ out'[n] # OK("cfg")
  BY <1>1, <1>2, EndsAppended, Appended
<1>4. \A m \in EndsOf(out') : n <= m
  <2>1. EndsOf(out') \subseteq EndsOf(out) \cup {Len(out) + 1}
    BY EndsAppended
  <2> QED
    BY <1>1, <1>2, <2>1
<1> QED
  BY <1>3, <1>4 DEF FirstEndIsNot

LEMMA EndsOtherwise ==
    ASSUME IsSeq(out), EndsOf(out) = {}, NEW x, out' = Append(out, x),
           IsTerminator(x), x # OK("cfg")
    PROVE  FirstEndIsNot(OK("cfg"))'
<1>1. EndsOf(out') = {Len(out) + 1} /\ out'[Len(out) + 1] = x /\ Len(out) + 1 \in Nat
  BY EndsAppended, Appended
<1>2. Len(out) + 1 <= Len(out) + 1
  BY <1>1
<1> QED
  BY <1>1, <1>2 DEF FirstEndIsNot

LEMMA GoesOn ==
    ASSUME TypeOK, JobInv, ConsoleInv, LineInv, job # Nothing, job' # Nothing,
           job'.cmd = job.cmd, UNCHANGED <<search, inbox, line>>, pure' => pure,
           out' = out \/ \E x : ~IsTerminator(x) /\ out' = Append(out, x)
    PROVE  ConsoleInv' /\ LineInv'
<1>1. IsSeq(out') /\ EndsOf(out') = EndsOf(out)
  <2>1. IsSeq(out)
    BY DEF ConsoleInv
  <2>2. CASE out' = out
    BY <2>1, <2>2
  <2>3. CASE \E x : ~IsTerminator(x) /\ out' = Append(out, x)
    <3>1. PICK x : ~IsTerminator(x) /\ out' = Append(out, x)
      BY <2>3
    <3> QED
      BY <2>1, <3>1, EndsAppended, Appended
  <2> QED
    BY <2>2, <2>3
<1>2. UNCHANGED <<step, waiting, k, found>>
  BY DEF search
<1>3. waiting => Worked \/ (step = "cfg" /\ Behind)
  BY WorkedOn DEF ConsoleInv, Typed, Answered, Gone, Idle
<1>4. Worked => Worked'
  BY <1>1, CommandKept DEF Worked
<1>5. Behind => Behind'
  <2>1. CASE FirstEndIsNot(OK("cfg"))
    <3>1. CASE out' = out
      BY <2>1, <3>1 DEF Behind, FirstEndIsNot
    <3>2. CASE \E x : out' = Append(out, x)
      <4>1. FirstEndIsNot(OK("cfg"))'
        BY <2>1, <3>2, StaysBehind DEF ConsoleInv
      <4> QED
        BY <4>1 DEF Behind
    <3> QED
      BY <3>1, <3>2
  <2>2. CASE EndsOf(out) = {}
    BY <1>1, <2>2 DEF Behind
  <2> QED
    BY <2>1, <2>2 DEF Behind
<1>6. ConsoleInv'
  <2>1. ~waiting' => step' \in {"cfg", "done", "failed"}
    BY <1>2, NotWaited
  <2>2. step' = "cfg" /\ ~waiting' => Len(inbox') < MaxQueue
    BY <1>2 DEF ConsoleInv
  <2>3. waiting' => Searching'
    BY <1>2, CommandKept DEF ConsoleInv
  <2>4. waiting' => Worked' \/ (step' = "cfg" /\ Behind')
    BY <1>2, <1>3, <1>4, <1>5
  <2> QED
    BY <1>1, <2>1, <2>2, <2>3, <2>4 DEF ConsoleInv
<1>7. LineInv'
  <2>1. Set' => step \in {"ids", "sweep", "read"}
    BY <1>2 DEF Set, Answered, Idle
  <2> QED
    BY <2>1, CommandKept DEF LineInv, Set
<1> QED
  BY <1>6, <1>7

LEMMA Completes ==
    ASSUME TypeOK, JobInv, ConsoleInv, LineInv, job # Nothing, job' = Nothing,
           UNCHANGED <<search, inbox, line>>, pure' => pure,
           NEW x, IsTerminator(x), x # OK("cfg"), out' = Append(out, x)
    PROVE  ConsoleInv' /\ LineInv'
<1>1. /\ IsSeq(out) /\ IsSeq(out') /\ Len(out') = Len(out) + 1
      /\ EndsOf(out') = EndsOf(out) \cup {Len(out')} /\ out'[Len(out')] = x
  BY EndsAppended, Appended DEF ConsoleInv
<1>2. UNCHANGED <<step, waiting, k, found>>
  BY DEF search
<1>3. waiting => Worked \/ (step = "cfg" /\ Behind)
  BY WorkedOn DEF ConsoleInv, Typed, Answered, Gone, Idle
<1>4. Worked => Answered'
  BY <1>1 DEF Worked, Answered, Idle
<1>5. Behind => Behind'
  BY <1>1, StaysBehind, EndsOtherwise DEF Behind
<1>6. ConsoleInv'
  <2>1. ~waiting' => step' \in {"cfg", "done", "failed"}
    BY <1>2, NotWaited
  <2>2. step' = "cfg" /\ ~waiting' => Len(inbox') < MaxQueue
    BY <1>2 DEF ConsoleInv
  <2>3. waiting' => Searching'
    BY <1>2, CommandKept DEF ConsoleInv
  <2>4. waiting' => Answered' \/ (step' = "cfg" /\ Behind')
    BY <1>2, <1>3, <1>4, <1>5
  <2> QED
    BY <1>1, <2>1, <2>2, <2>3, <2>4 DEF ConsoleInv
<1>7. LineInv'
  <2>1. Set' => step \in {"ids", "sweep", "read"}
    BY <1>1, <1>2 DEF Set
  <2> QED
    BY <2>1, CommandKept DEF LineInv, Set
<1> QED
  BY <1>6, <1>7

-----------------------------------------------------------------------------
(* Each step of the node.                                                  *)

LEMMA TheJob ==
    ASSUME ConsoleInv, job # Nothing, waiting
    PROVE  /\ step = "ids" => job.cmd = IdsCmd /\ job.cmd.op = "ids"
           /\ step = "sweep" => /\ job.cmd.op = "sweep" /\ job.cmd.unit = found.unit
                                /\ job.cmd.fc = FCs[range]
           /\ step = "read" => /\ job.cmd.op = "read" /\ job.cmd.unit = found.unit
                               /\ job.cmd.fc = FCs[range] /\ job.cmd.addr = Min(narrow)
<1>1. step # "cfg" => job.cmd = Command
  BY WorkedOn DEF Worked
<1> QED
  BY <1>1, Commanded DEF IdsCmd, SweepCmd, ReadCmd

LEMMA JobTyped ==
    ASSUME JobInv, job # Nothing, NEW n \in Nat
    PROVE  LET j == [job EXCEPT !.at = n] IN
           job.at \in Nat /\ j \in Jobs /\ j # Nothing /\ j.cmd = job.cmd /\ j.at = n
<1>1. job \in Jobs
  BY DEF JobInv
<1>2. job.at \in Nat /\ [job EXCEPT !.at = n] \in Jobs
      /\ [job EXCEPT !.at = n].cmd = job.cmd /\ [job EXCEPT !.at = n].at = n
  BY <1>1 DEF Jobs
<1> QED
  BY <1>2, NothingAssumption

LEMMA ProbeUnitStep == IInv /\ ProbeUnit => IInv'
<1> SUFFICES ASSUME IInv, ProbeUnit
             PROVE  IInv'
  OBVIOUS
<1> USE DEF IInv
<1>1. PICK r \in Replies(job.at, 3, 0, 1) :
        /\ Hears(r, job.at, 3, 0, 1)
        /\ out' = IF r.cls = "ABS" THEN out
                  ELSE Append(out, [text |-> "ID", unit |-> job.at, cls |-> r.cls])
  BY DEF ProbeUnit
<1>2. /\ job # Nothing /\ job.cmd.op = "ids" /\ job.at <= MaxUnit
      /\ job' = [job EXCEPT !.at = job.at + 1]
      /\ UNCHANGED search /\ inbox' = inbox /\ line' = line
  BY DEF ProbeUnit
<1>3. job.at \in Nat /\ job.at # 0 /\ line # Nothing /\ job.cmd.op # "cfg"
  BY <1>2, JobTyped DEF JobInv, Jobs
<1>4. job' \in Jobs /\ job' # Nothing /\ job'.cmd = job.cmd /\ job'.at = job.at + 1
  BY <1>2, <1>3, JobTyped
<1>5. /\ pure' => pure /\ r = Reply(job.at, 3, 0, 1)
      /\ pure' \in BOOLEAN /\ trouble' \in 0..MaxTrouble
  BY <1>1, PureKept
<1>6. UNCHANGED <<step, waiting, k, found, range, narrow>>
  BY <1>2 DEF search
<1>7. TypeOK'
  <2>1. line' \in LineSet \cup {Nothing}
    BY <1>2 DEF TypeOK
  <2> QED
    BY <1>2, <1>5, <2>1, NodeTypes
<1>8. JobInv'
  BY <1>2, <1>3, <1>4 DEF JobInv
<1>9. ConsoleInv' /\ LineInv'
  <2>1. out' = out \/ \E x : ~IsTerminator(x) /\ out' = Append(out, x)
    BY <1>1 DEF IsTerminator
  <2> QED
    BY <1>2, <1>4, <1>5, <2>1, GoesOn
<1>10. StartInv' /\ FoundIsThere' /\ MapSound' /\ MapInv'
  BY <1>2, <1>5, MapKept
<1>11. IdsInv'
  <2> SUFFICES ASSUME step = "ids", waiting
               PROVE  \A i \in DOMAIN out' : GoodId(Lines[k], out'[i])
    BY <1>6 DEF IdsInv
  <2>1. \A i \in DOMAIN out : GoodId(Lines[k], out[i])
    BY DEF IdsInv
  <2>2. line = Lines[k]
    BY <1>3 DEF LineInv, Set, Tried
  <2>3. ASSUME r.cls # "ABS"
        PROVE  GoodId(Lines[k], [text |-> "ID", unit |-> job.at, cls |-> r.cls])
    <3>1. job.at \in 1..MaxUnit
      BY <1>2, <1>3, NodeSurveyAssumption
    <3>2. r.cls \in PresentClass => r = Reply(job.at, 3, 0, 1)
      BY Classes DEF PresentClass
    <3>3. r.cls \in PresentClass => \E d \in Bus : d.line = Lines[k] /\ d.unit = job.at
      BY <2>2, <2>3, <3>2, Audible
    <3> QED
      BY <3>1, <3>3 DEF GoodId
  <2>4. IsSeq(out)
    BY DEF ConsoleInv
  <2>5. CASE out' = out
    BY <2>1, <2>5
  <2>6. CASE r.cls # "ABS"
    BY <1>1, <2>1, <2>3, <2>4, <2>6, Appended
  <2> QED
    BY <1>1, <2>5, <2>6
<1>12. SweepInv'
  BY <1>2, <1>6, TheJob DEF SweepInv
<1>13. ReadInv'
  BY <1>4 DEF ReadInv, Answered, Idle
<1> QED
  BY <1>7, <1>8, <1>9, <1>10, <1>11, <1>12, <1>13

LEMMA ChunkFits ==
    ASSUME NEW a \in Nat, a <= LastReg
    PROVE  /\ Chunk(a) \in Nat
           /\ \A b \in Regs : a <= b /\ b < a + Stride => b \in a..(a + Chunk(a) - 1)
  BY NodeSurveyAssumption DEF Chunk, Regs

LEMMA CoveredAppended ==
    ASSUME NEW s, IsSeq(s), NEW x, NEW a,
           Covered(s, a) \/ (x.text = "SWEEP" /\ Covers(x, a))
    PROVE  Covered(Append(s, x), a)
<1>1. CASE Covered(s, a)
  <2>1. PICK i \in DOMAIN s : s[i].text = "SWEEP" /\ Covers(s[i], a)
    BY <1>1 DEF Covered
  <2>2. i \in DOMAIN Append(s, x) /\ Append(s, x)[i] = s[i]
    BY Appended
  <2> QED
    BY <2>1, <2>2 DEF Covered
<1>2. CASE x.text = "SWEEP" /\ Covers(x, a)
  <2>1. Len(s) + 1 \in DOMAIN Append(s, x) /\ Append(s, x)[Len(s) + 1] = x
    BY Appended
  <2> QED
    BY <1>2, <2>1 DEF Covered
<1> QED
  BY <1>1, <1>2

(* The device that the search has found hears the node, unless the node    *)
(* restarted.                                                              *)
LEMMA FoundHears ==
    ASSUME IInv, step \in {"sweep", "read"}, NEW d \in Bus, IsAt(found, d)
    PROVE  /\ d.unit = found.unit /\ d.line = found.line
           /\ line \in {d.line, Nothing} /\ (pure => line = d.line)
<1>1. d.unit = found.unit /\ d.line = found.line
  BY DEF IsAt
<1> QED
  BY <1>1 DEF IInv, LineInv, Set, Tried

LEMMA SweepChunkStep == IInv /\ SweepChunk => IInv'
<1> SUFFICES ASSUME IInv, SweepChunk
             PROVE  IInv'
  OBVIOUS
<1> USE DEF IInv
<1>1. PICK r \in Replies(job.cmd.unit, job.cmd.fc, job.at, Chunk(job.at)) :
        /\ Hears(r, job.cmd.unit, job.cmd.fc, job.at, Chunk(job.at))
        /\ out' = Append(out, [text |-> "SWEEP", addr |-> job.at,
                               qty |-> Chunk(job.at), reply |-> r])
  BY DEF SweepChunk
<1>2. /\ job # Nothing /\ job.cmd.op = "sweep" /\ job.at <= LastReg
      /\ job' = [job EXCEPT !.at = job.at + Stride]
      /\ UNCHANGED search /\ inbox' = inbox /\ line' = line
  BY DEF SweepChunk
<1>3. job.at \in Nat /\ line # Nothing /\ job.cmd.op # "cfg"
  BY <1>2, JobTyped DEF JobInv, Jobs
<1>4. job' \in Jobs /\ job' # Nothing /\ job'.cmd = job.cmd /\ job'.at = job.at + Stride
  <2>1. job.at + Stride \in Nat
    BY <1>3, NodeSurveyAssumption
  <2> QED
    BY <1>2, <2>1, JobTyped
<1>5. /\ pure' => pure /\ r = Reply(job.cmd.unit, job.cmd.fc, job.at, Chunk(job.at))
      /\ pure' \in BOOLEAN /\ trouble' \in 0..MaxTrouble
  BY <1>1, PureKept
<1>6. UNCHANGED <<step, waiting, k, found, range, narrow>>
  BY <1>2 DEF search
<1>7. TypeOK'
  <2>1. line' \in LineSet \cup {Nothing}
    BY <1>2 DEF TypeOK
  <2> QED
    BY <1>2, <1>5, <2>1, NodeTypes
<1>8. JobInv'
  BY <1>2, <1>3, <1>4 DEF JobInv
<1>9. ConsoleInv' /\ LineInv'
  <2>1. \E x : ~IsTerminator(x) /\ out' = Append(out, x)
    BY <1>1 DEF IsTerminator
  <2> QED
    BY <1>2, <1>4, <1>5, <2>1, GoesOn
<1>10. StartInv' /\ FoundIsThere' /\ MapSound' /\ MapInv'
  BY <1>2, <1>5, MapKept
<1>11. IdsInv'
  BY <1>2, <1>6, TheJob DEF IdsInv
<1>12. SweepInv'
  <2> SUFFICES ASSUME step = "sweep", waiting
               PROVE  /\ \A i \in DOMAIN out' : GoodSweep(found, FCs[range], out'[i])
                      /\ pure' => /\ \A i \in DOMAIN out' : TrueSweep(out'[i])
                                  /\ \A a \in Regs : a < job'.at => Covered(out', a)
    BY <1>4, <1>6 DEF SweepInv, Answered, Idle
  <2> DEFINE x == [text |-> "SWEEP", addr |-> job.at, qty |-> Chunk(job.at), reply |-> r]
  <2>1. job.cmd.unit = found.unit /\ job.cmd.fc = FCs[range]
    BY <1>2, TheJob
  <2>2. GoodSweep(found, FCs[range], x)
    <3> SUFFICES ASSUME r.cls = "DATA", NEW d \in Bus, NEW b \in Regs, IsAt(found, d),
                        b \in job.at..(job.at + Chunk(job.at) - 1)
                 PROVE  r.words[b - job.at + 1] = d.holds[FCs[range]][b]
      BY DEF GoodSweep, Covers, WordIndex
    <3>1. d.unit = found.unit /\ line \in {d.line, Nothing}
      BY FoundHears
    <3>2. r \in Replies(d.unit, FCs[range], job.at, Chunk(job.at))
      BY <2>1, <3>1
    <3>3. Chunk(job.at) \in Nat
      BY <1>2, <1>3, ChunkFits
    <3> QED
      BY <1>3, <3>1, <3>2, <3>3, WordsHeard
  <2>3. pure' => TrueSweep(x)
    <3> SUFFICES ASSUME pure'
                 PROVE  r.cls \in {"DATA", "EXC"}
      BY DEF TrueSweep
    <3>1. PICK d \in Bus : IsAt(found, d)
      BY DEF FoundIsThere, At, IsAt, TypeOK
    <3>2. d.unit = found.unit /\ line = d.line
      BY <1>5, <3>1, FoundHears
    <3> QED
      BY <1>5, <2>1, <3>2, TrueReply
  <2>4. out' = Append(out, x) /\ IsSeq(out)
    BY <1>1 DEF ConsoleInv
  <2>5. \A i \in DOMAIN out' : GoodSweep(found, FCs[range], out'[i])
    <3>1. \A i \in DOMAIN out : GoodSweep(found, FCs[range], out[i])
      BY DEF SweepInv
    <3> HIDE DEF x
    <3> QED
      BY <2>2, <2>4, <3>1, Appended
  <2>6. pure' => \A i \in DOMAIN out' : TrueSweep(out'[i])
    <3>1. pure' => \A i \in DOMAIN out : TrueSweep(out[i])
      BY <1>5 DEF SweepInv
    <3> HIDE DEF x
    <3> QED
      BY <2>3, <2>4, <3>1, Appended
  <2>7. ASSUME pure', NEW a \in Regs, a < job'.at
        PROVE  Covered(out', a)
    <3>1. a < job.at => Covered(out, a)
      BY <1>2, <1>5, <2>7 DEF SweepInv
    <3>2. a \in Nat
      BY NodeSurveyAssumption DEF Regs
    <3>3. ~(a < job.at) => x.text = "SWEEP" /\ Covers(x, a)
      BY <1>2, <1>3, <1>4, <2>7, <3>2, ChunkFits DEF Covers
    <3> HIDE DEF x
    <3> QED
      BY <2>4, <3>1, <3>3, CoveredAppended
  <2> QED
    BY <2>5, <2>6, <2>7
<1>13. ReadInv'
  BY <1>4 DEF ReadInv, Answered, Idle
<1> QED
  BY <1>7, <1>8, <1>9, <1>10, <1>11, <1>12, <1>13

LEMMA ReadOneStep == IInv /\ ReadOne => IInv'
<1> SUFFICES ASSUME IInv, ReadOne
             PROVE  IInv'
  OBVIOUS
<1> USE DEF IInv
<1>1. PICK r \in Replies(job.cmd.unit, job.cmd.fc, job.cmd.addr, 1) :
        /\ Hears(r, job.cmd.unit, job.cmd.fc, job.cmd.addr, 1)
        /\ out' = Append(out, [text |-> IF r.cls = "DATA" THEN "OK" ELSE "ERR",
                               op |-> "read", reply |-> r])
  BY DEF ReadOne
<1> DEFINE x == [text |-> IF r.cls = "DATA" THEN "OK" ELSE "ERR", op |-> "read", reply |-> r]
<1>2. /\ job # Nothing /\ job.cmd.op = "read" /\ job' = Nothing
      /\ UNCHANGED search /\ inbox' = inbox /\ line' = line
  BY DEF ReadOne
<1>3. IsTerminator(x) /\ x # OK("cfg") /\ x.op = "read" /\ x.reply = r
  BY DEF IsTerminator, OK
<1>4. out' = Append(out, x) /\ IsSeq(out)
  BY <1>1 DEF ConsoleInv
<1>5. /\ pure' => pure /\ r = Reply(job.cmd.unit, job.cmd.fc, job.cmd.addr, 1)
      /\ pure' \in BOOLEAN /\ trouble' \in 0..MaxTrouble
  BY <1>1, PureKept
<1>6. UNCHANGED <<step, waiting, k, found, range, narrow>>
  BY <1>2 DEF search
<1>7. TypeOK'
  <2>1. line' \in LineSet \cup {Nothing}
    BY <1>2 DEF TypeOK
  <2> QED
    BY <1>2, <1>5, <2>1, NodeTypes
<1>8. JobInv'
  BY <1>2 DEF JobInv
<1>9. ConsoleInv' /\ LineInv'
  <2> HIDE DEF x
  <2> QED
    BY <1>2, <1>3, <1>4, <1>5, Completes
<1>10. StartInv' /\ FoundIsThere' /\ MapSound' /\ MapInv'
  BY <1>2, <1>5, MapKept
<1>11. IdsInv' /\ SweepInv'
  BY <1>2, <1>6, TheJob DEF IdsInv, SweepInv
<1>12. ReadInv'
  <2> SUFFICES ASSUME step = "read", waiting
               PROVE  /\ GoodRead(found, FCs[range], Min(narrow), x)
                      /\ pure' => TrueRead(found, FCs[range], Min(narrow), x)
    <3>1. out'[Len(out')] = x
      <4> HIDE DEF x
      <4> QED
        BY <1>4, Appended
    <3> HIDE DEF x
    <3> QED
      BY <1>6, <3>1 DEF ReadInv
  <2>1. /\ job.cmd.unit = found.unit /\ job.cmd.fc = FCs[range]
        /\ job.cmd.addr = Min(narrow)
    BY <1>2, TheJob
  <2>2. Min(narrow) \in Nat
    <3>1. narrow \in SUBSET Nat /\ narrow # {}
      BY NodeSurveyAssumption DEF TypeOK, Regs
    <3> QED
      BY <3>1, MinIsLeast
  <2>3. ASSUME NEW d \in Bus, IsAt(found, d)
        PROVE  /\ r.cls = "DATA" => r.words[1] = d.holds[FCs[range]][Min(narrow)]
               /\ pure' /\ r.cls # "DATA" => d.holds[FCs[range]][Min(narrow)] = Nothing
    <3>1. d.unit = found.unit /\ line \in {d.line, Nothing} /\ (pure => line = d.line)
      BY <2>3, FoundHears
    <3>2. r \in Replies(d.unit, FCs[range], Min(narrow), 1)
      BY <2>1, <3>1
    <3>3. r.cls = "DATA" =>
            r.words[1] = d.holds[FCs[range]][Min(narrow)]
      BY <2>2, <3>1, <3>2, FirstHeard
    <3>4. pure' => d.line = line /\ r = Reply(d.unit, FCs[range], Min(narrow), 1)
      BY <1>5, <2>1, <3>1
    <3>5. pure' /\ r.cls # "DATA" => d.holds[FCs[range]][Min(narrow)] = Nothing
      BY <2>2, <3>4, OneWord
    <3> QED
      BY <3>3, <3>5
  <2> HIDE DEF x
  <2> QED
    BY <1>3, <2>3 DEF GoodRead, TrueRead
<1> QED
  BY <1>7, <1>8, <1>9, <1>10, <1>11, <1>12

LEMMA FinishStep == IInv /\ Finish => IInv'
<1> SUFFICES ASSUME IInv, Finish
             PROVE  IInv'
  OBVIOUS
<1> USE DEF IInv
<1> DEFINE x == OK(job.cmd.op)
<1>1. /\ job # Nothing /\ job' = Nothing
      /\ \/ job.cmd.op = "ids"
         \/ job.cmd.op = "sweep" /\ job.at > LastReg
      /\ UNCHANGED search /\ inbox' = inbox /\ line' = line
      /\ pure' = pure /\ trouble' = trouble
  BY DEF Finish
<1>2. IsTerminator(x) /\ x # OK("cfg") /\ x.text = "OK"
  BY <1>1 DEF IsTerminator, OK
<1>3. out' = Append(out, x) /\ IsSeq(out)
  BY DEF Finish, ConsoleInv
<1>4. UNCHANGED <<step, waiting, k, found, range, narrow>>
  BY <1>1 DEF search
<1> HIDE DEF x
<1>5. TypeOK'
  <2>1. line' \in LineSet \cup {Nothing} /\ trouble' \in 0..MaxTrouble
    BY <1>1 DEF TypeOK
  <2>2. pure' \in BOOLEAN
    BY <1>1 DEF TypeOK
  <2> QED
    BY <1>1, <2>1, <2>2, NodeTypes
<1>6. JobInv'
  BY <1>1 DEF JobInv
<1>7. ConsoleInv' /\ LineInv'
  BY <1>1, <1>2, <1>3, Completes
<1>8. StartInv' /\ FoundIsThere' /\ MapSound' /\ MapInv'
  BY <1>1, MapKept
<1>9. IdsInv'
  <2> SUFFICES ASSUME step = "ids", waiting
               PROVE  \A i \in DOMAIN out' : GoodId(Lines[k], out'[i])
    BY <1>4 DEF IdsInv
  <2>1. GoodId(Lines[k], x) /\ \A i \in DOMAIN out : GoodId(Lines[k], out[i])
    BY <1>2 DEF IdsInv, GoodId
  <2> QED
    BY <1>3, <2>1, Appended
<1>10. SweepInv'
  <2> SUFFICES ASSUME step = "sweep", waiting
               PROVE  /\ \A i \in DOMAIN out' : GoodSweep(found, FCs[range], out'[i])
                      /\ pure => /\ \A i \in DOMAIN out' : TrueSweep(out'[i])
                                 /\ \A a \in Regs : Covered(out', a)
    BY <1>1, <1>4 DEF SweepInv
  <2>1. /\ GoodSweep(found, FCs[range], x) /\ TrueSweep(x)
        /\ \A i \in DOMAIN out : GoodSweep(found, FCs[range], out[i])
        /\ pure => \A i \in DOMAIN out : TrueSweep(out[i])
    BY <1>2 DEF SweepInv, GoodSweep, TrueSweep
  <2>2. job.cmd.op = "sweep" /\ job.at > LastReg /\ job.at \in Nat
    <3>1. job.cmd.op = "sweep" /\ job.at \in Nat
      BY <1>1, TheJob, JobTyped
    <3> QED
      BY <1>1, <3>1
  <2>3. \A a \in Regs : a < job.at
    BY <2>2, NodeSurveyAssumption DEF Regs
  <2>4. pure => \A a \in Regs : Covered(out, a)
    BY <1>1, <2>3 DEF SweepInv
  <2>5. pure => \A a \in Regs : Covered(out', a)
    BY <1>3, <2>4, CoveredAppended
  <2> QED
    BY <1>3, <2>1, <2>5, Appended
<1>11. ReadInv'
  BY <1>1, <1>4, TheJob DEF ReadInv
<1> QED
  BY <1>5, <1>6, <1>7, <1>8, <1>9, <1>10, <1>11

(* A node that takes a command was idle: either the one the station waits  *)
(* for is all it has, or one of an earlier search has just ended.          *)
LEMMA Fresh ==
    ASSUME IInv, job = Nothing, inbox # <<>>
    PROVE  /\ ~waiting => step \in {"cfg", "done", "failed"}
           /\ waiting => \/ Typed /\ Head(inbox) = Command /\ Tail(inbox) = <<>>
                         \/ step = "cfg" /\ FirstEndIsNot(OK("cfg"))
           /\ Head(inbox) \in Commands
<1>1. ~waiting => step \in {"cfg", "done", "failed"}
  BY DEF IInv, ConsoleInv, Idle, TypeOK, Steps
<1>2. waiting => Typed \/ (step = "cfg" /\ FirstEndIsNot(OK("cfg")))
  BY DEF IInv, ConsoleInv, Worked, Answered, Gone, Idle, Behind
<1>3. Typed => Head(inbox) = Command /\ Tail(inbox) = <<>>
  BY DEF Typed
<1>4. Head(inbox) \in Commands
  BY DEF IInv, TypeOK
<1> QED
  BY <1>1, <1>2, <1>3, <1>4

LEMMA Ops ==
    ASSUME NEW c \in Commands
    PROVE  /\ c.op = "cfg" => c.line \in LineSet
           /\ c.op \in {"cfg", "ids", "sweep", "read"}
  BY DEF Commands, IdsCmd

LEMMA CommandOps ==
    /\ step \in {"cfg", "recfg"} => Command.op = "cfg" /\ Command.line = Tried
    /\ step = "ids" => Command.op = "ids"
    /\ step = "sweep" => Command.op = "sweep"
    /\ step = "read" => Command.op = "read"
  BY Commanded DEF CfgCmd, IdsCmd, SweepCmd, ReadCmd, Tried

LEMMA BeginStep == IInv /\ Begin => IInv'
<1> SUFFICES ASSUME IInv, Begin
             PROVE  IInv'
  OBVIOUS
<1> USE DEF IInv
<1> DEFINE c == Head(inbox)
<1>1. /\ job = Nothing /\ inbox # <<>> /\ inbox' = Tail(inbox)
      /\ UNCHANGED search /\ pure' = pure /\ trouble' = trouble
  BY DEF Begin
<1>2. \/ /\ c.op = "cfg" /\ line' = c.line /\ out' = Append(out, OK("cfg")) /\ job' = job
      \/ /\ c.op # "cfg" /\ line = Nothing /\ out' = Append(out, ERR)
         /\ job' = job /\ line' = line
      \/ /\ c.op # "cfg" /\ line # Nothing /\ line' = line /\ out' = out
         /\ job' = [cmd |-> c, at |-> IF c.op = "ids" THEN 1 ELSE 0]
  BY DEF Begin
<1>3. /\ ~waiting => step \in {"cfg", "done", "failed"}
      /\ waiting => \/ Typed /\ c = Command /\ Tail(inbox) = <<>>
                    \/ step = "cfg" /\ FirstEndIsNot(OK("cfg"))
      /\ c \in Commands
  BY <1>1, Fresh
<1>4. UNCHANGED <<step, waiting, k, found, range, narrow>>
  BY <1>1 DEF search
<1> HIDE DEF c
<1>5. /\ c.op = "cfg" => c.line \in LineSet
      /\ c.op \in {"cfg", "ids", "sweep", "read"}
  BY <1>3, Ops
<1>6. TypeOK'
  <2>1. line' \in LineSet \cup {Nothing} /\ trouble' \in 0..MaxTrouble
    BY <1>1, <1>2, <1>5 DEF TypeOK
  <2>2. pure' \in BOOLEAN
    BY <1>1 DEF TypeOK
  <2> QED
    BY <1>1, <2>1, <2>2, NodeTypes
<1>7. JobInv' /\ (c.op # "cfg" /\ line # Nothing => job' # Nothing /\ job'.cmd = c)
  <2>1. CASE job' = job /\ (c.op = "cfg" \/ line = Nothing)
    BY <1>1, <2>1 DEF JobInv
  <2>2. CASE /\ c.op # "cfg" /\ line # Nothing /\ line' = line
             /\ job' = [cmd |-> c, at |-> IF c.op = "ids" THEN 1 ELSE 0]
    <3>1. job' \in Jobs /\ job'.cmd = c /\ (c.op = "ids" => job'.at = 1)
      BY <1>3, <2>2 DEF Jobs
    <3> QED
      BY <2>2, <3>1, NothingAssumption DEF JobInv
  <2> QED
    BY <1>2, <2>1, <2>2
<1>8. StartInv' /\ FoundIsThere' /\ MapSound' /\ MapInv'
  BY <1>1, MapKept
<1>9. waiting => Searching /\ step \in {"cfg", "ids", "recfg", "sweep", "read"}
  BY DEF ConsoleInv, Searching, TypeOK, Steps
<1>10. step = "cfg" /\ ~waiting => Len(inbox') < MaxQueue
  <2>1. inbox \in Seq(Commands) /\ MaxQueue \in Nat
    BY NodeSurveyAssumption DEF TypeOK
  <2>2. Len(Tail(inbox)) = Len(inbox) - 1 /\ Len(inbox) \in Nat
    BY <1>1, <2>1
  <2> QED
    BY <1>1, <2>1, <2>2 DEF ConsoleInv
<1>11. IsSeq(out)
  BY DEF ConsoleInv
<1>12. CASE /\ c.op = "cfg" /\ line' = c.line /\ out' = Append(out, OK("cfg")) /\ job' = job
  <2>1. IsTerminator(OK("cfg"))
    BY DEF IsTerminator, OK
  <2>2. /\ IsSeq(out') /\ Len(out') = Len(out) + 1 /\ Len(out) \in Nat
        /\ EndsOf(out') = EndsOf(out) \cup {Len(out')} /\ EndsOf(out) \subseteq 1..Len(out)
    BY <1>11, <1>12, <2>1, EndsAppended, Appended
  <2>3. waiting => step \in {"cfg", "recfg"}
    BY <1>3, <1>9, <1>12, CommandOps
  <2>4. Typed /\ c = Command /\ Tail(inbox) = <<>> => Answered'
    BY <1>1, <1>12, <2>2 DEF Typed, Answered, Idle
  <2>5. FirstEndIsNot(OK("cfg")) => Behind'
    BY <1>11, <1>12, StaysBehind DEF Behind
  <2>6. ConsoleInv'
    <3>1. waiting' => Searching'
      BY <1>1, <1>4, <1>9, CommandKept
    <3>2. waiting' => Answered' \/ (step' = "cfg" /\ Behind')
      BY <1>3, <1>4, <2>4, <2>5
    <3> QED
      BY <1>3, <1>4, <1>10, <2>2, <3>1, <3>2 DEF ConsoleInv
  <2>7. LineInv'
    <3> SUFFICES ASSUME Set'
                 PROVE  line' = Tried /\ line' # Nothing
      BY <1>1, CommandKept DEF LineInv
    <3>1. waiting /\ Answered'
      BY <1>3, <1>4, <2>3 DEF Set
    <3>2. ~FirstEndIsNot(OK("cfg"))
      <4>1. EndsOf(out) = {}
        BY <2>2, <3>1 DEF Answered
      <4> QED
        BY <4>1 DEF FirstEndIsNot
    <3>3. c = Command
      BY <1>3, <3>1, <3>2
    <3> QED
      BY <1>5, <1>12, <2>3, <3>1, <3>3, CommandOps, NothingAssumption
  <2>8. IdsInv' /\ SweepInv' /\ ReadInv'
    BY <1>4, <2>3 DEF IdsInv, SweepInv, ReadInv
  <2> QED
    BY <1>6, <1>7, <1>8, <2>6, <2>7, <2>8
<1>13. CASE /\ c.op # "cfg" /\ line = Nothing /\ out' = Append(out, ERR)
            /\ job' = job /\ line' = line
  <2>1. IsTerminator(ERR) /\ ERR # OK("cfg") /\ ERR.text = "ERR" /\ ERR.op = "none"
    BY DEF IsTerminator, ERR, OK
  <2>2. /\ IsSeq(out') /\ Len(out') = Len(out) + 1 /\ Len(out) \in Nat
        /\ EndsOf(out') = EndsOf(out) \cup {Len(out')} /\ out'[Len(out')] = ERR
        /\ DOMAIN out' = 1..(Len(out) + 1) /\ DOMAIN out = 1..Len(out)
        /\ \A i \in 1..Len(out) : out'[i] = out[i]
    BY <1>11, <1>13, <2>1, EndsAppended, Appended
  <2>3. Typed /\ c = Command /\ Tail(inbox) = <<>> => Answered'
    BY <1>1, <1>13, <2>2 DEF Typed, Answered, Idle
  <2>4. FirstEndIsNot(OK("cfg")) => Behind'
    BY <1>11, <1>13, StaysBehind DEF Behind
  <2>5. ConsoleInv'
    <3>1. waiting' => Searching'
      BY <1>1, <1>4, <1>9, CommandKept
    <3>2. waiting' => Answered' \/ (step' = "cfg" /\ Behind')
      BY <1>3, <1>4, <2>3, <2>4
    <3> QED
      BY <1>3, <1>4, <1>10, <2>2, <3>1, <3>2 DEF ConsoleInv
  <2>6. LineInv'
    <3>1. Set' => step \in {"ids", "sweep", "read"}
      BY <1>4, <2>1, <2>2 DEF Set
    <3> QED
      BY <1>1, <1>13, <3>1, CommandKept DEF LineInv, Set
  <2>7. step \in {"sweep", "read"} => ~pure'
    BY <1>1, <1>13 DEF LineInv, Set
  <2>8. IdsInv'
    <3>1. step = "ids" /\ waiting => \A i \in DOMAIN out' : GoodId(Lines[k], out'[i])
      <4>1. GoodId(Lines[k], ERR)
        BY <2>1 DEF GoodId
      <4> QED
        BY <1>11, <1>13, <4>1, Appended DEF IdsInv
    <3> QED
      BY <1>4, <3>1 DEF IdsInv
  <2>9. SweepInv'
    <3>1. step = "sweep" /\ waiting =>
            \A i \in DOMAIN out' : GoodSweep(found, FCs[range], out'[i])
      <4>1. GoodSweep(found, FCs[range], ERR)
        BY <2>1 DEF GoodSweep
      <4> QED
        BY <1>11, <1>13, <4>1, Appended DEF SweepInv
    <3> QED
      BY <1>4, <2>7, <3>1 DEF SweepInv
  <2>10. ReadInv'
    <3>1. GoodRead(found, FCs[range], Min(narrow), out'[Len(out')])
      BY <2>1, <2>2 DEF GoodRead
    <3> QED
      BY <1>4, <2>7, <3>1 DEF ReadInv
  <2> QED
    BY <1>6, <1>7, <1>8, <2>5, <2>6, <2>8, <2>9, <2>10
<1>14. CASE /\ c.op # "cfg" /\ line # Nothing /\ line' = line /\ out' = out
            /\ job' = [cmd |-> c, at |-> IF c.op = "ids" THEN 1 ELSE 0]
  <2>1. job' # Nothing /\ job'.cmd = c
    BY <1>7, <1>14
  <2>2. Typed /\ c = Command /\ Tail(inbox) = <<>> => Worked'
    BY <1>1, <1>14, <2>1, CommandKept DEF Typed, Worked
  <2>3. FirstEndIsNot(OK("cfg")) => Behind'
    BY <1>14 DEF Behind, FirstEndIsNot
  <2>4. ConsoleInv'
    <3>1. waiting' => Searching'
      BY <1>1, <1>4, <1>9, CommandKept
    <3>2. waiting' => Worked' \/ (step' = "cfg" /\ Behind')
      BY <1>3, <1>4, <2>2, <2>3
    <3>3. IsSeq(out')
      BY <1>11, <1>14
    <3> QED
      BY <1>3, <1>4, <1>10, <3>1, <3>2, <3>3 DEF ConsoleInv
  <2>5. LineInv'
    <3>1. Set' => step \in {"ids", "sweep", "read"}
      BY <1>4, <2>1 DEF Set, Answered, Idle
    <3> QED
      BY <1>1, <1>14, <3>1, CommandKept DEF LineInv, Set
  <2>6. IdsInv'
    BY <1>4, <1>14 DEF IdsInv
  <2>7. SweepInv'
    <3>1. step = "sweep" /\ waiting => c.op = "sweep"
      BY <1>3, CommandOps
    <3>2. step = "sweep" /\ waiting => job'.at = 0
      BY <1>14, <3>1
    <3>3. \A a \in Regs : ~(a < 0)
      BY NodeSurveyAssumption DEF Regs
    <3> QED
      BY <1>1, <1>4, <1>14, <2>1, <3>2, <3>3 DEF SweepInv, Answered, Idle
  <2>8. ReadInv'
    BY <2>1 DEF ReadInv, Answered, Idle
  <2> QED
    BY <1>6, <1>7, <1>8, <2>4, <2>5, <2>6, <2>7, <2>8
<1> QED
  BY <1>2, <1>12, <1>13, <1>14

-----------------------------------------------------------------------------
(* Each step of the station but the return of a command.                   *)

LEMMA InitInv == Init => IInv
<1> SUFFICES ASSUME Init
             PROVE  IInv
  OBVIOUS
<1>1. /\ step = "failed" /\ k = 1 /\ found = Nothing /\ range = 1 /\ seen = NoMap
      /\ narrow = {} /\ waiting = FALSE
      /\ inbox = <<>> /\ job = Nothing /\ line = Nothing /\ out = <<>>
      /\ pure = TRUE /\ trouble = 0
  BY DEF Init
<1>2. TypeOK
  <2>1. inbox \in Seq(Commands) /\ Len(inbox) <= MaxQueue
    BY <1>1, NodeSurveyAssumption
  <2>2. trouble \in 0..MaxTrouble
    BY <1>1, NodeSurveyAssumption
  <2>3. k \in DOMAIN Lines /\ range \in DOMAIN FCs
    BY <1>1, Ordered
  <2>4. {waiting, pure} \subseteq BOOLEAN
    BY <1>1
  <2> QED
    BY <1>1, <2>1, <2>2, <2>3, <2>4 DEF TypeOK, Steps, NoMap
<1>3. JobInv /\ ConsoleInv /\ LineInv /\ StartInv /\ IdsInv /\ SweepInv /\ ReadInv
  BY <1>1, Unread DEF JobInv, ConsoleInv, LineInv, Set, StartInv, IdsInv, SweepInv, ReadInv
<1>4. FoundIsThere /\ MapSound /\ MapInv
  BY <1>1 DEF FoundIsThere, MapSound, MapInv, Through, NoMap
<1> QED
  BY <1>2, <1>3, <1>4 DEF IInv

LEMMA GivesUp ==
    ASSUME IInv, GiveUp, UNCHANGED <<repl, pure>>, IsSeq(out'), trouble' \in 0..MaxTrouble
    PROVE  IInv'
<1>1. /\ step' = "failed" /\ waiting' = FALSE
      /\ UNCHANGED <<k, found, range, seen, narrow, inbox, job, line, pure>>
  BY DEF GiveUp, repl
<1>2. TypeOK'
  <2>1. {waiting', pure'} \subseteq BOOLEAN
    BY <1>1 DEF IInv, TypeOK
  <2> QED
    BY <1>1, <2>1 DEF IInv, TypeOK, Steps
<1>3. JobInv'
  BY <1>1 DEF IInv, JobInv
<1>4. ConsoleInv' /\ LineInv' /\ StartInv' /\ IdsInv' /\ SweepInv' /\ ReadInv'
  BY <1>1 DEF ConsoleInv, LineInv, Set, StartInv, IdsInv, SweepInv, ReadInv
<1>5. FoundIsThere' /\ MapSound'
  BY <1>1 DEF IInv, FoundIsThere, MapSound, At
<1>6. MapInv'
  BY <1>1 DEF MapInv, Through
<1> QED
  BY <1>2, <1>3, <1>4, <1>5, <1>6 DEF IInv

LEMMA TimesOutStep == IInv /\ TimesOut => IInv'
<1> SUFFICES ASSUME IInv, TimesOut
             PROVE  IInv'
  OBVIOUS
<1>1. GiveUp /\ UNCHANGED <<repl, pure>> /\ out' = out /\ trouble' = trouble
  BY DEF TimesOut
<1>2. IsSeq(out') /\ trouble' \in 0..MaxTrouble
  BY <1>1 DEF IInv, ConsoleInv, TypeOK
<1> QED
  BY <1>1, <1>2, GivesUp

LEMMA AbandonStep == IInv /\ Abandon => IInv'
<1> SUFFICES ASSUME IInv, Abandon
             PROVE  IInv'
  OBVIOUS
<1>1. /\ GiveUp /\ UNCHANGED <<repl, pure>> /\ out' = out
      /\ trouble < MaxTrouble /\ trouble' = trouble + 1
  BY DEF Abandon
<1>2. IsSeq(out') /\ trouble' \in 0..MaxTrouble
  BY <1>1, NodeSurveyAssumption DEF IInv, ConsoleInv, TypeOK
<1> QED
  BY <1>1, <1>2, GivesUp

LEMMA OpenStep == IInv /\ Open => IInv'
<1> SUFFICES ASSUME IInv, Open
             PROVE  IInv'
  OBVIOUS
<1>1. /\ Len(inbox) < MaxQueue
      /\ step' = "cfg" /\ k' = 1 /\ found' = Nothing /\ range' = 1 /\ seen' = NoMap
      /\ narrow' = {} /\ waiting' = FALSE /\ out' = <<>> /\ pure' = TRUE
      /\ UNCHANGED <<inbox, job, line, trouble>>
  BY DEF Open, FlushInput, repl
<1>2. TypeOK'
  <2>1. {waiting', pure'} \subseteq BOOLEAN
    BY <1>1
  <2>2. k' \in DOMAIN Lines /\ range' \in DOMAIN FCs
    BY <1>1, Ordered
  <2> QED
    BY <1>1, <2>1, <2>2 DEF IInv, TypeOK, Steps, NoMap
<1>3. JobInv'
  BY <1>1 DEF IInv, JobInv
<1>4. ConsoleInv'
  <2>1. IsSeq(out')
    BY <1>1, Unread
  <2> QED
    BY <1>1, <2>1 DEF ConsoleInv
<1>5. LineInv' /\ StartInv' /\ IdsInv' /\ SweepInv' /\ ReadInv'
  BY <1>1 DEF LineInv, Set, StartInv, IdsInv, SweepInv, ReadInv
<1>6. FoundIsThere' /\ MapSound' /\ MapInv'
  BY <1>1 DEF FoundIsThere, MapSound, MapInv, Through, NoMap
<1> QED
  BY <1>2, <1>3, <1>4, <1>5, <1>6 DEF IInv

LEMMA RestartStep == IInv /\ Restart => IInv'
<1> SUFFICES ASSUME IInv, Restart
             PROVE  IInv'
  OBVIOUS
<1> USE DEF IInv
<1>1. /\ trouble < MaxTrouble /\ trouble' = trouble + 1
      /\ inbox' = <<>> /\ job' = Nothing /\ line' = Nothing /\ pure' = FALSE
      /\ UNCHANGED search /\ out' = out
  BY DEF Restart
<1>2. UNCHANGED <<step, k, found, range, seen, narrow, waiting>>
  BY <1>1 DEF search
<1>3. TypeOK'
  <2>1. {waiting', pure'} \subseteq BOOLEAN
    BY <1>1, <1>2 DEF TypeOK
  <2>2. trouble' \in 0..MaxTrouble
    BY <1>1, NodeSurveyAssumption DEF TypeOK
  <2>3. inbox' \in Seq(Commands) /\ Len(inbox') <= MaxQueue
    BY <1>1, NodeSurveyAssumption
  <2> QED
    BY <1>1, <1>2, <2>1, <2>2, <2>3 DEF TypeOK
<1>4. JobInv' /\ LineInv'
  BY <1>1 DEF JobInv, LineInv
<1>5. ConsoleInv'
  <2>1. Idle'
    BY <1>1 DEF Idle
  <2>2. waiting => Gone' \/ Answered' \/ (step = "cfg" /\ Behind')
    <3>1. EndsOf(out) = {} => Gone'
      BY <1>1, <2>1 DEF Gone
    <3>2. Answered => Answered'
      BY <1>1, <2>1 DEF Answered
    <3>3. FirstEndIsNot(OK("cfg")) => Behind'
      BY <1>1 DEF FirstEndIsNot, Behind
    <3> QED
      BY <3>1, <3>2, <3>3 DEF ConsoleInv, Typed, Worked, Gone, Behind
  <2>3. waiting' => Searching'
    BY <1>1, <1>2, CommandKept DEF ConsoleInv
  <2>4. IsSeq(out') /\ Len(inbox') < MaxQueue
    BY <1>1, NodeSurveyAssumption DEF ConsoleInv
  <2> QED
    BY <1>2, <2>1, <2>2, <2>3, <2>4 DEF ConsoleInv
<1>6. StartInv' /\ FoundIsThere' /\ MapSound' /\ MapInv'
  BY <1>1, MapKept
<1>7. IdsInv' /\ SweepInv'
  BY <1>1, <1>2 DEF IdsInv, SweepInv
<1>8. ReadInv'
  <2>1. step = "read" /\ waiting /\ EndsOf(out) = {Len(out)} => Answered
    BY DEF ConsoleInv, Typed, Worked, Gone
  <2> QED
    BY <1>1, <1>2, <2>1 DEF ReadInv, Answered
<1> QED
  BY <1>3, <1>4, <1>5, <1>6, <1>7, <1>8

LEMMA SendStep == IInv /\ Send => IInv'
<1> SUFFICES ASSUME IInv, Send
             PROVE  IInv'
  OBVIOUS
<1> USE DEF IInv
<1>1. /\ Searching /\ ~waiting /\ Settled
      /\ out' = <<>> /\ inbox' = Append(inbox, Command) /\ waiting' = TRUE
      /\ UNCHANGED <<step, k, found, range, seen, narrow, job, line, pure, trouble>>
  BY DEF Send, FlushInput
<1>2. Command' = Command /\ Searching' = Searching /\ Tried' = Tried
  BY <1>1 DEF Command, Searching, Tried
<1>3. IsSeq(out') /\ EndsOf(out') = {} /\ DOMAIN out' = {}
  BY <1>1, Unread
<1>4. step \in {"cfg", "ids", "recfg", "sweep", "read"}
  BY <1>1 DEF TypeOK, Steps, Searching
<1>5. inbox \in Seq(Commands) /\ Len(inbox) \in Nat /\ MaxQueue \in Nat \ {0}
  BY NodeSurveyAssumption DEF TypeOK
<1>6. Len(inbox) < MaxQueue
  <2>1. step # "cfg" => inbox = <<>>
    BY <1>1, <1>4 DEF ConsoleInv, Idle
  <2>2. inbox = <<>> => Len(inbox) < MaxQueue
    BY <1>5
  <2> QED
    BY <1>1, <2>1, <2>2 DEF ConsoleInv
<1>7. TypeOK'
  <2>1. {waiting', pure'} \subseteq BOOLEAN
    BY <1>1 DEF TypeOK
  <2>2. inbox' \in Seq(Commands) /\ Len(inbox') <= MaxQueue
    <3>1. Command \in Commands
      BY <1>1, CommandTyped
    <3> QED
      BY <1>1, <1>5, <1>6, <3>1
  <2> QED
    BY <1>1, <2>1, <2>2 DEF TypeOK
<1>8. JobInv'
  BY <1>1 DEF JobInv
<1>9. ~Answered' /\ (step \in {"ids", "recfg", "sweep", "read"} => Idle)
  BY <1>1, <1>3 DEF Answered, ConsoleInv
<1>10. ConsoleInv'
  <2>1. inbox = <<>> /\ job = Nothing => Typed'
    <3>1. inbox = <<>> => Append(inbox, Command) = <<Command>>
      OBVIOUS
    <3> QED
      BY <1>1, <1>2, <1>3, <3>1 DEF Typed
  <2>2. job # Nothing => Behind'
    BY <1>1, <1>3 DEF Behind
  <2>3. Typed' \/ (step' = "cfg" /\ Behind')
    BY <1>1, <1>4, <1>9, <2>1, <2>2 DEF Settled, Idle
  <2> QED
    BY <1>1, <1>2, <1>3, <2>3 DEF ConsoleInv
<1>11. LineInv'
  BY <1>1, <1>2, <1>9 DEF LineInv, Set
<1>12. StartInv' /\ FoundIsThere' /\ MapSound'
  BY <1>1 DEF StartInv, FoundIsThere, MapSound, At
<1>13. MapInv'
  BY <1>1 DEF MapInv, At, Through
<1>14. IdsInv' /\ SweepInv' /\ ReadInv'
  BY <1>1, <1>3, <1>9 DEF IdsInv, SweepInv, ReadInv, Idle
<1> QED
  BY <1>7, <1>8, <1>10, <1>11, <1>12, <1>13, <1>14

-----------------------------------------------------------------------------
(* The return of a command.                                                *)

LEMMA AllOf ==
    ASSUME NEW s, IsSeq(s), NEW n \in 1..Len(s)
    PROVE  IsSeq(SubSeq(s, n + 1, Len(s))) /\ (n = Len(s) => SubSeq(s, 1, n) = s)
<1>1. Len(s) \in Nat /\ DOMAIN s = 1..Len(s) /\ s = [i \in 1..Len(s) |-> s[i]]
  BY DEF IsSeq
<1>2. n = Len(s) => SubSeq(s, 1, n) = s
  BY <1>1 DEF IsSeq
<1> DEFINE t == SubSeq(s, n + 1, Len(s))
<1>3. t \in Seq(Range(s))
  <2>1. \A i \in (n + 1)..Len(s) : s[i] \in Range(s)
    BY <1>1 DEF Range
  <2> QED
    BY <1>1, <2>1 DEF IsSeq
<1> HIDE DEF t
<1>4. t \in Seq(Range(t))
  <2>1. Len(t) \in Nat /\ DOMAIN t = 1..Len(t) /\ t = [i \in 1..Len(t) |-> t[i]]
    BY <1>3
  <2>2. \A i \in 1..Len(t) : t[i] \in Range(t)
    BY <2>1 DEF Range
  <2>3. [i \in 1..Len(t) |-> t[i]] \in [1..Len(t) -> Range(t)]
    BY <2>2
  <2> QED
    BY <1>3, <2>1, <2>2
<1> QED
  BY <1>2, <1>4 DEF IsSeq, t

(* The first terminator is the last line that was printed, and the command *)
(* it ends is the one the station typed; only the scan-cfg that begins a   *)
(* search may meet another, and then not one that it takes for its own.    *)
LEMMA FirstEnd ==
    ASSUME IInv, waiting, Ends # {}
    PROVE  /\ Min(Ends) \in 1..Len(out)
           /\ IsSeq(SubSeq(out, Min(Ends) + 1, Len(out)))
           /\ \/ step = "cfg" /\ out[Min(Ends)] # OK("cfg")
              \/ Answered /\ Min(Ends) = Len(out) /\ SubSeq(out, 1, Min(Ends)) = out
<1>1. Ends = EndsOf(out) /\ IsSeq(out)
  BY DEF Ends, EndsOf, IInv, ConsoleInv
<1>2. Ends \subseteq 1..Len(out) /\ Len(out) \in Nat
  BY <1>1, EndsAppended, Appended
<1>3. Ends \in SUBSET Nat
  BY <1>2
<1>4. Min(Ends) \in Ends /\ \A m \in Ends : Min(Ends) <= m
  BY <1>3, MinIsLeast
<1>5. Min(Ends) \in 1..Len(out)
  BY <1>2, <1>4
<1>6. Answered \/ (step = "cfg" /\ FirstEndIsNot(OK("cfg")))
  BY <1>1 DEF IInv, ConsoleInv, Typed, Worked, Gone, Behind
<1>7. Answered => Min(Ends) = Len(out)
  BY <1>1, <1>4 DEF Answered
<1>8. FirstEndIsNot(OK("cfg")) => out[Min(Ends)] # OK("cfg")
  <2> SUFFICES ASSUME FirstEndIsNot(OK("cfg"))
               PROVE  out[Min(Ends)] # OK("cfg")
    OBVIOUS
  <2>1. PICK n \in Ends : (\A m \in Ends : n <= m) /\ out[n] # OK("cfg")
    BY <1>1 DEF FirstEndIsNot
  <2> QED
    BY <1>3, <2>1, LeastIsMin
<1>9. /\ IsSeq(SubSeq(out, Min(Ends) + 1, Len(out)))
      /\ Min(Ends) = Len(out) => SubSeq(out, 1, Min(Ends)) = out
  BY <1>1, <1>5, AllOf
<1> QED
  BY <1>5, <1>6, <1>7, <1>8, <1>9

LEMMA CfgStep ==
    ASSUME IInv, step \in {"cfg", "recfg"}, waiting, Answered, out[Len(out)] = OK("cfg"),
           step' = IF step = "cfg" THEN "ids" ELSE "sweep", waiting' = FALSE,
           UNCHANGED <<k, found, range, seen, narrow, inbox, job, line, pure, trouble>>,
           IsSeq(out')
    PROVE  IInv'
<1> USE DEF IInv
<1>1. Idle' /\ Set /\ Tried' = Tried
  BY DEF Answered, Idle, Set, Tried
<1>2. seen = NoMap /\ range = 1
  BY DEF StartInv
<1>3. TypeOK'
  <2>1. {waiting', pure'} \subseteq BOOLEAN
    BY DEF TypeOK
  <2>2. found' # Nothing \/ step' = "ids"
    BY DEF TypeOK
  <2> QED
    BY <2>1, <2>2 DEF TypeOK, Steps
<1>4. JobInv' /\ ConsoleInv'
  BY <1>1 DEF JobInv, ConsoleInv
<1>5. LineInv'
  BY <1>1 DEF LineInv
<1>6. StartInv' /\ FoundIsThere' /\ MapSound'
  BY <1>2 DEF StartInv, FoundIsThere, MapSound, At
<1>7. MapInv'
  BY <1>2 DEF MapInv, Through
<1>8. IdsInv' /\ SweepInv' /\ ReadInv'
  BY DEF IdsInv, SweepInv, ReadInv
<1> QED
  BY <1>3, <1>4, <1>5, <1>6, <1>7, <1>8

(* A unit that the search takes for present is one of the units probed, and *)
(* a device has it at the line setting tried.                              *)
LEMMA UnitsThere ==
    ASSUME IInv, step = "ids", waiting, NEW u \in ParseIds(out)
    PROVE  u \in 1..MaxUnit /\ \E d \in Bus : d.line = Lines[k] /\ d.unit = u
<1>1. PICK i \in DOMAIN out : out[i].text = "ID" /\ out[i].cls \in PresentClass /\ out[i].unit = u
  BY DEF ParseIds, LinesOf, Range
<1> QED
  BY <1>1 DEF IInv, IdsInv, GoodId

LEMMA IdsStep ==
    ASSUME IInv, step = "ids", waiting, Answered, IdsReturns(out), waiting' = FALSE,
           UNCHANGED <<inbox, job, line, pure, trouble>>, IsSeq(out')
    PROVE  IInv'
<1> USE DEF IInv
<1>1. Idle /\ Idle' /\ seen = NoMap /\ range = 1
  BY DEF Answered, Idle, StartInv
<1>2. /\ UNCHANGED <<range, seen, narrow>>
      /\ \/ /\ ParseIds(out) # {}
            /\ found' = [line |-> Lines[k], unit |-> Min(ParseIds(out))]
            /\ step' = "recfg" /\ k' = k
         \/ k < Len(Lines) /\ k' = k + 1 /\ step' = "cfg" /\ found' = found
         \/ step' = "failed" /\ k' = k /\ found' = found
  BY DEF IdsReturns
<1>3. ASSUME ParseIds(out) # {}
      PROVE  \E d \in Bus : d.line = Lines[k] /\ d.unit = Min(ParseIds(out))
  <2>1. ParseIds(out) \in SUBSET Nat
    BY UnitsThere
  <2>2. Min(ParseIds(out)) \in ParseIds(out)
    BY <1>3, <2>1, MinIsLeast
  <2> QED
    BY <2>2, UnitsThere
<1>4. found' = found \/ \E d \in Bus : found' = [line |-> d.line, unit |-> d.unit]
  BY <1>2, <1>3
<1>5. TypeOK'
  <2>1. {waiting', pure'} \subseteq BOOLEAN
    BY DEF TypeOK
  <2>2. found' \in Places \cup {Nothing}
    BY <1>4, NodeSurveyAssumption DEF TypeOK, Places
  <2>3. step' = "recfg" => found' # Nothing
    <3>1. ASSUME step' = "recfg" PROVE found' \in Places
      BY <1>2, <1>3, <3>1, NodeSurveyAssumption DEF Places
    <3> QED
      BY <3>1, NothingAssumption
  <2>4. k' \in DOMAIN Lines
    BY <1>2, Ordered DEF TypeOK
  <2>5. step' \in {"recfg", "cfg", "failed"}
    BY <1>2
  <2>6. inbox' \in Seq(Commands) /\ Len(inbox') <= MaxQueue /\ line' \in LineSet \cup {Nothing}
        /\ trouble' \in 0..MaxTrouble /\ DOMAIN seen' = {3, 4} \X Regs /\ narrow' \subseteq Regs
        /\ range' \in DOMAIN FCs
    BY <1>2 DEF TypeOK
  <2> QED
    BY <2>1, <2>2, <2>3, <2>4, <2>5, <2>6 DEF TypeOK, Steps
<1>6. JobInv'
  BY DEF JobInv
<1>7. ConsoleInv'
  <2>1. Len(inbox') < MaxQueue
    BY <1>1, NodeSurveyAssumption DEF Idle
  <2> QED
    BY <1>1, <2>1 DEF ConsoleInv
<1>8. LineInv'
  BY <1>2 DEF LineInv, Set
<1>9. StartInv' /\ MapSound'
  BY <1>1, <1>2 DEF StartInv, MapSound, NoMap
<1>10. FoundIsThere'
  BY <1>4 DEF FoundIsThere, At
<1>11. MapInv'
  BY <1>2 DEF MapInv, Through
<1>12. IdsInv' /\ SweepInv' /\ ReadInv'
  BY DEF IdsInv, SweepInv, ReadInv
<1> QED
  BY <1>5, <1>6, <1>7, <1>8, <1>9, <1>10, <1>11, <1>12

(* The search goes on with a map that is right and lacks no register of    *)
(* the range but those still to read.                                      *)
LEMMA GoesOnwards ==
    ASSUME IInv, step \in {"sweep", "read"}, waiting, Answered, waiting' = FALSE,
           UNCHANGED <<inbox, job, line, pure, trouble>>, IsSeq(out'),
           NEW left \in SUBSET Regs, Onwards(left),
           DOMAIN seen' = {3, 4} \X Regs,
           \A x \in {3, 4} \X Regs : x[1] # FCs[range] => seen'[x] = seen[x],
           \A d \in Bus : At(d) => \A x \in {3, 4} \X Regs : x[1] = FCs[range] =>
               /\ seen'[x] # Nothing => seen'[x] = d.holds[x[1]][x[2]]
               /\ pure /\ x[2] \notin left => seen'[x] = d.holds[x[1]][x[2]]
    PROVE  IInv'
<1> USE DEF IInv
<1>1. /\ narrow' = left /\ UNCHANGED <<k, found>>
      /\ \/ left # {} /\ step' = "read" /\ range' = range
         \/ left = {} /\ range = 1 /\ step' = "sweep" /\ range' = 2
         \/ left = {} /\ range = 2 /\ step' = "done" /\ range' = range
  BY Ordered DEF Onwards, MoreRanges, TypeOK
<1>2. Idle' /\ Set /\ Tried = found.line
  BY DEF Answered, Idle, Set, Tried
<1>3. TypeOK'
  <2>1. {waiting', pure'} \subseteq BOOLEAN
    BY DEF TypeOK
  <2>2. range' \in DOMAIN FCs
    BY <1>1, Ordered DEF TypeOK
  <2>3. found' \in Places \cup {Nothing} /\ found' # Nothing
    BY <1>1 DEF TypeOK
  <2>4. step' \in {"read", "sweep", "done"} /\ (step' = "read" => narrow' # {})
        /\ narrow' \subseteq Regs
    BY <1>1
  <2>5. inbox' \in Seq(Commands) /\ Len(inbox') <= MaxQueue /\ line' \in LineSet \cup {Nothing}
        /\ trouble' \in 0..MaxTrouble /\ k' \in DOMAIN Lines
    BY <1>1 DEF TypeOK
  <2> QED
    BY <2>1, <2>2, <2>3, <2>4, <2>5 DEF TypeOK, Steps
<1>4. JobInv' /\ ConsoleInv'
  BY <1>1, <1>2 DEF JobInv, ConsoleInv
<1>5. LineInv'
  BY <1>1, <1>2 DEF LineInv, Set, Tried
<1>6. StartInv' /\ IdsInv' /\ SweepInv' /\ ReadInv'
  BY <1>1 DEF StartInv, IdsInv, SweepInv, ReadInv
<1>7. FoundIsThere'
  BY <1>1 DEF FoundIsThere, At
<1>8. MapSound'
  <2> SUFFICES ASSUME NEW d \in Bus, At(d), NEW x \in {3, 4} \X Regs, seen'[x] # Nothing
               PROVE  seen'[x] = d.holds[x[1]][x[2]]
    BY <1>1 DEF MapSound, At
  <2>1. CASE x[1] = FCs[range]
    BY <2>1
  <2>2. CASE x[1] # FCs[range]
    BY <2>2 DEF MapSound, TypeOK
  <2> QED
    BY <2>1, <2>2
<1>9. MapInv'
  <2> SUFFICES ASSUME pure, NEW d \in Bus, At(d), NEW x \in {3, 4} \X Regs, Through(x)'
               PROVE  seen'[x] = d.holds[x[1]][x[2]]
    BY <1>1 DEF MapInv, At
  <2>1. CASE x[1] = FCs[range]
    <3>1. x[2] \notin left
      BY <1>1, <2>1, Ordered DEF Through
    <3> QED
      BY <2>1, <3>1
  <2>2. CASE x[1] # FCs[range]
    <3>1. range = 2 /\ x[1] = FCs[1]
      BY <1>1, <2>2, Ordered DEF Through
    <3>2. seen[x] = d.holds[x[1]][x[2]]
      BY <3>1 DEF MapInv, Through
    <3> QED
      BY <2>2, <3>2
  <2> QED
    BY <2>1, <2>2
<1> QED
  BY <1>3, <1>4, <1>5, <1>6, <1>7, <1>8, <1>9

LEMMA SweepStep ==
    ASSUME IInv, step = "sweep", waiting, Answered, SweepReturns(out), waiting' = FALSE,
           UNCHANGED <<inbox, job, line, pure, trouble>>, IsSeq(out')
    PROVE  IInv'
<1> DEFINE left == ToNarrow(out)
           Tells(a) == \E ln \in ParseSweep(out, "DATA") : Covers(ln, a)
           Line(a) == CHOOSE ln \in ParseSweep(out, "DATA") : Covers(ln, a)
<1>1. /\ seen' = [x \in DOMAIN seen |->
            IF x[1] = FCs[range] /\ Tells(x[2])
            THEN Line(x[2]).reply.words[WordIndex(Line(x[2]), x[2])] ELSE seen[x]]
      /\ Onwards(left) /\ left \in SUBSET Regs
  BY DEF SweepReturns, ToNarrow
<1>2. DOMAIN seen = {3, 4} \X Regs
  BY DEF IInv, TypeOK
<1>3. ASSUME NEW d \in Bus, At(d), NEW a \in Regs, Tells(a)
      PROVE  Line(a).reply.words[WordIndex(Line(a), a)] = d.holds[FCs[range]][a]
  <2>1. Line(a) \in ParseSweep(out, "DATA") /\ Covers(Line(a), a)
    BY <1>3
  <2> HIDE DEF Line
  <2>2. PICK i \in DOMAIN out : out[i] = Line(a)
    BY <2>1 DEF ParseSweep, LinesOf, Range
  <2>3. Line(a).text = "SWEEP" /\ Line(a).reply.cls = "DATA"
    BY <2>1 DEF ParseSweep, LinesOf
  <2>4. GoodSweep(found, FCs[range], Line(a))
    BY <2>2 DEF IInv, SweepInv
  <2> QED
    BY <1>3, <2>1, <2>3, <2>4 DEF GoodSweep, At, IsAt
<1>4. ASSUME pure, NEW a \in Regs, a \notin left
      PROVE  Tells(a)
  <2>1. PICK i \in DOMAIN out : out[i].text = "SWEEP" /\ Covers(out[i], a)
    BY <1>4 DEF IInv, SweepInv, Covered
  <2>2. out[i].reply.cls \in {"DATA", "EXC"}
    BY <1>4, <2>1 DEF IInv, SweepInv, TrueSweep
  <2>3. out[i] \in ParseSweep(out, out[i].reply.cls)
    BY <2>1 DEF ParseSweep, LinesOf, Range
  <2>4. out[i].reply.cls # "EXC"
    BY <1>4, <2>1, <2>3 DEF ToNarrow
  <2> QED
    BY <2>1, <2>2, <2>3, <2>4
<1>5. ASSUME NEW d \in Bus, At(d), NEW x \in {3, 4} \X Regs, x[1] = FCs[range]
      PROVE  /\ seen'[x] # Nothing => seen'[x] = d.holds[x[1]][x[2]]
             /\ pure /\ x[2] \notin left => seen'[x] = d.holds[x[1]][x[2]]
  <2>1. x[2] \in Regs
    OBVIOUS
  <2>2. CASE Tells(x[2])
    BY <1>1, <1>2, <1>3, <1>5, <2>1, <2>2
  <2>3. CASE ~Tells(x[2])
    <3>1. seen'[x] = seen[x]
      BY <1>1, <1>2, <2>3
    <3>2. seen[x] # Nothing => seen[x] = d.holds[x[1]][x[2]]
      BY <1>2, <1>5 DEF IInv, MapSound
    <3>3. ~(pure /\ x[2] \notin left)
      BY <1>4, <2>1, <2>3
    <3> QED
      BY <3>1, <3>2, <3>3
  <2> QED
    BY <2>2, <2>3
<1>6. DOMAIN seen' = {3, 4} \X Regs
  BY <1>1, <1>2
<1>7. \A x \in {3, 4} \X Regs : x[1] # FCs[range] => seen'[x] = seen[x]
  BY <1>1, <1>2
<1> HIDE DEF left
<1> QED
  BY <1>1, <1>5, <1>6, <1>7, GoesOnwards

LEMMA ReadStep ==
    ASSUME IInv, step = "read", waiting, Answered, ReadReturns(out[Len(out)]),
           waiting' = FALSE, UNCHANGED <<repl, pure, trouble>>, IsSeq(out')
    PROVE  IInv'
<1> DEFINE t == out[Len(out)]  a == Min(narrow)  x == <<FCs[range], a>>
<1>1. CASE GiveUp
  <2>1. trouble' \in 0..MaxTrouble
    BY DEF IInv, TypeOK
  <2> QED
    BY <1>1, <2>1, GivesUp
<1>2. CASE ~GiveUp
  <2>1. /\ t.op = "read"
        /\ seen' = [seen EXCEPT ![x] = IF t.reply.cls = "DATA" THEN t.reply.words[1] ELSE Nothing]
        /\ Onwards(narrow \ {a})
    BY <1>2 DEF ReadReturns, ParseRead
  <2>2. GoodRead(found, FCs[range], a, t) /\ (pure => TrueRead(found, FCs[range], a, t))
    BY DEF IInv, ReadInv
  <2>3. DOMAIN seen = {3, 4} \X Regs /\ narrow \in SUBSET Regs /\ narrow # {}
    BY DEF IInv, TypeOK
  <2>4. a \in Regs /\ FCs[range] \in {3, 4}
    <3>1. narrow \in SUBSET Nat
      BY <2>3, NodeSurveyAssumption DEF Regs
    <3>2. a \in Regs
      BY <2>3, <3>1, MinIsLeast
    <3> QED
      BY <3>2, Ordered DEF IInv, TypeOK
  <2> HIDE DEF t, a
  <2>5. x \in DOMAIN seen
    BY <2>3, <2>4
  <2>6. /\ DOMAIN seen' = {3, 4} \X Regs
        /\ seen'[x] = IF t.reply.cls = "DATA" THEN t.reply.words[1] ELSE Nothing
        /\ \A y \in {3, 4} \X Regs : y # x => seen'[y] = seen[y]
    BY <2>1, <2>3, <2>5
  <2>7. ASSUME NEW d \in Bus, At(d), NEW y \in {3, 4} \X Regs, y[1] = FCs[range]
        PROVE  /\ seen'[y] # Nothing => seen'[y] = d.holds[y[1]][y[2]]
               /\ pure /\ y[2] \notin narrow \ {a} => seen'[y] = d.holds[y[1]][y[2]]
    <3>1. CASE y[2] = a
      <4>1. y = x /\ d.holds[y[1]][y[2]] = d.holds[FCs[range]][a]
        BY <2>7, <3>1
      <4>2. /\ t.reply.cls = "DATA" => t.reply.words[1] = d.holds[FCs[range]][a]
            /\ pure /\ t.reply.cls # "DATA" => d.holds[FCs[range]][a] = Nothing
        BY <2>1, <2>2, <2>7 DEF GoodRead, TrueRead, At, IsAt
      <4> QED
        BY <2>6, <4>1, <4>2
    <3>2. CASE y[2] # a
      <4>1. seen'[y] = seen[y]
        BY <2>6, <3>2
      <4>2. seen[y] # Nothing => seen[y] = d.holds[y[1]][y[2]]
        BY <2>3, <2>7 DEF IInv, MapSound
      <4>3. pure /\ y[2] \notin narrow => seen[y] = d.holds[y[1]][y[2]]
        BY <2>7 DEF IInv, MapInv, Through
      <4> QED
        BY <3>2, <4>1, <4>2, <4>3
    <3> QED
      BY <3>1, <3>2
  <2>8. \A y \in {3, 4} \X Regs : y[1] # FCs[range] => seen'[y] = seen[y]
    BY <2>6
  <2>9. narrow \ {a} \in SUBSET Regs /\ UNCHANGED <<inbox, job, line, pure, trouble>>
    BY <2>3 DEF repl
  <2> QED
    BY <2>1, <2>6, <2>7, <2>8, <2>9, GoesOnwards
<1> QED
  BY <1>1, <1>2

LEMMA CmdReturnsStep == IInv /\ CmdReturns => IInv'
<1> SUFFICES ASSUME IInv, CmdReturns
             PROVE  IInv'
  OBVIOUS
<1>1. PICK n : n = Min(Ends)
  OBVIOUS
<1>2. /\ Searching /\ waiting /\ Ends # {} /\ waiting' = FALSE
      /\ UNCHANGED <<repl, pure, trouble>>
      /\ out' = SubSeq(out, n + 1, Len(out))
      /\ step \in {"cfg", "recfg"} => CfgReturns(out[n])
      /\ step = "ids" => IdsReturns(SubSeq(out, 1, n))
      /\ step = "sweep" => SweepReturns(SubSeq(out, 1, n))
      /\ step = "read" => ReadReturns(out[n])
  BY <1>1 DEF CmdReturns
<1>3. /\ IsSeq(out')
      /\ \/ step = "cfg" /\ out[n] # OK("cfg")
         \/ Answered /\ n = Len(out) /\ SubSeq(out, 1, n) = out
  BY <1>1, <1>2, FirstEnd
<1>4. trouble' \in 0..MaxTrouble /\ UNCHANGED <<inbox, job, line, pure, trouble>>
  BY <1>2 DEF IInv, TypeOK, repl
<1>5. CASE GiveUp
  BY <1>2, <1>3, <1>4, <1>5, GivesUp
<1>6. CASE step \in {"cfg", "recfg"} /\ ~GiveUp
  <2>1. /\ out[n] = OK("cfg") /\ step' = IF step = "cfg" THEN "ids" ELSE "sweep"
        /\ UNCHANGED <<k, found, range, seen, narrow>>
    BY <1>2, <1>6 DEF CfgReturns
  <2> QED
    BY <1>2, <1>3, <1>4, <1>6, <2>1, CfgStep
<1>7. CASE step = "ids"
  BY <1>2, <1>3, <1>4, <1>7, IdsStep
<1>8. CASE step = "sweep"
  BY <1>2, <1>3, <1>4, <1>8, SweepStep
<1>9. CASE step = "read"
  BY <1>2, <1>3, <1>4, <1>9, ReadStep
<1>10. step \in {"cfg", "ids", "recfg", "sweep", "read"}
  BY <1>2 DEF IInv, TypeOK, Steps, Searching
<1> QED
  BY <1>5, <1>6, <1>7, <1>8, <1>9, <1>10

-----------------------------------------------------------------------------
LEMMA Stutters == IInv /\ UNCHANGED vars => IInv'
<1> SUFFICES ASSUME IInv, UNCHANGED vars
             PROVE  IInv'
  OBVIOUS
<1>1. UNCHANGED <<step, k, found, range, seen, narrow, waiting, inbox, job, line, out,
                  pure, trouble>>
  BY DEF vars, search, repl
<1>2. Command' = Command /\ Searching' = Searching
  BY <1>1 DEF Command, Searching
<1>3. TypeOK' /\ JobInv' /\ StartInv' /\ FoundIsThere' /\ MapSound' /\ MapInv'
  BY <1>1 DEF IInv, TypeOK, JobInv, StartInv, FoundIsThere, MapSound, MapInv, At, Through
<1>4. ConsoleInv'
  BY <1>1, <1>2 DEF IInv, ConsoleInv, Typed, Worked, Answered, Gone, Idle, Behind, FirstEndIsNot
<1>5. LineInv' /\ IdsInv' /\ SweepInv' /\ ReadInv'
  BY <1>1 DEF IInv, LineInv, Set, Tried, IdsInv, SweepInv, ReadInv, Answered, Idle
<1> QED
  BY <1>3, <1>4, <1>5 DEF IInv

LEMMA Inductive == Spec => []IInv
<1>1. IInv /\ [Next]_vars => IInv'
  BY BeginStep, ProbeUnitStep, SweepChunkStep, ReadOneStep, FinishStep, OpenStep, SendStep,
     CmdReturnsStep, TimesOutStep, AbandonStep, RestartStep, Stutters
     DEF Next, Node, Station
<1> QED
  BY <1>1, InitInv, PTL DEF Spec

(* Search, console and map keep their types; no command is typed for which *)
(* the node has no room (node_console.py:183, scan_console.c).             *)
THEOREM TypeCorrect == Spec => []TypeOK
<1>1. IInv => TypeOK
  BY DEF IInv
<1> QED
  BY <1>1, Inductive, PTL

(* What discover_units returns is a unit that a device has, at the line    *)
(* setting that was tried, for every bus (sweep_engine.py:46).             *)
THEOREM FoundDevice == Spec => []FoundIsThere
<1>1. IInv => FoundIsThere
  BY DEF IInv
<1> QED
  BY <1>1, Inductive, PTL

(* A register that the map shows is one of the device found and holds that *)
(* word, whatever was abandoned, lost or restarted on the way              *)
(* (sweep_engine.py:88).                                                   *)
THEOREM SoundMap == Spec => []MapSound
<1>1. IInv => MapSound
  BY DEF IInv
<1> QED
  BY <1>1, Inductive, PTL

(* The map of an undisturbed search is the device's own, for every stride, *)
(* range and placing of the registers (sweep_engine.py:10, 94-107).        *)
THEOREM CompleteMap == Spec => []MapComplete
<1>1. IInv => MapComplete
  BY DEF IInv, MapInv, Through, MapComplete, TypeOK
<1> QED
  BY <1>1, Inductive, PTL
=============================================================================
