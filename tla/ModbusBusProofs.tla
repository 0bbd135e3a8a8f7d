--------------------------- MODULE ModbusBusProofs ---------------------------
(***************************************************************************)
(* Proofs about ModbusBus for any wiring, profile and scan rule.  A read   *)
(* may take a late answer only after the read it belonged to has failed:   *)
(* in a cycle that follows a pause, as long as no read has failed, what is *)
(* on the bus is the answer of the request that is out, and nothing else.  *)
(***************************************************************************)
EXTENDS ModbusBus, SequenceTheorems, TLAPS

(* What is in the buffer and on the wire are the first pieces of f. *)
Sending(f) ==
    /\ Len(rx) + Len(wire) <= FrameLen(f)
    /\ \A i \in 1..Len(rx) : rx[i] = <<f, i>>
    /\ \A i \in 1..Len(wire) : wire[i] = <<f, Len(rx) + i>>

(* f may be the answer to the request for qty registers that is out. *)
Answers(f, qty) == f \in Frames /\ f.own /\ (f.exc \/ f.qty = qty)

(* Of a cycle after a pause in which no read has failed: nothing is on its  *)
(* way between two reads, and during one at most its answer.                *)
CleanInv ==
    mode = "cycle" /\ ~fromScan /\ ~failed =>
        /\ ~wrong
        /\ ~asked => answers = <<>> /\ wire = <<>>
        /\ asked => \/ /\ rx = <<>> /\ wire = <<>>
                       /\ Len(answers) <= 1
                       /\ \A i \in 1..Len(answers) : Answers(answers[i], Request.qty)
                    \/ answers = <<>> /\ \E f \in Frames : Answers(f, Request.qty) /\ Sending(f)

PauseInv == mode = "pause" => ~asked

(* A device is at the unit that cycles read, also while they pause. *)
UnitInv == mode = "cycle" \/ (mode = "pause" /\ next = "cycle") => unit \in Devices

IInv == TypeOK /\ PauseInv /\ UnitInv /\ CleanInv /\ FreshFrameExact

Reads == [fc : {3, 4}, qty : 1..125]
Piece == Frames \X (1..127)
Wires == Seq(Piece)

-----------------------------------------------------------------------------
(* The operators *)

LEMMA SeqOf ==
    ASSUME NEW S, NEW n \in Nat, NEW s \in [1..n -> S]
    PROVE  s \in Seq(S) /\ Len(s) = n
<1>1. s \in Seq(S)
  OBVIOUS
<1>2. Len(s) = n
  OBVIOUS
<1> QED
  BY <1>1, <1>2

LEMMA RequestType ==
    ASSUME TypeOK, mode # "pause"
    PROVE  Request.fc \in {3, 4} /\ Request.qty \in 1..125 /\ Request.unit = Target
<1>1. CASE mode = "cycle"
  <2>1. pos \in 1..Len(CycleReads)
    BY <1>1 DEF TypeOK
  <2>2. CycleReads \in Seq(Reads)
    BY ModbusBusAssumption DEF Reads
  <2>3. CycleReads[pos] \in Reads
    BY <2>1, <2>2
  <2> QED
    BY <1>1, <2>3 DEF Request, Reads
<1>2. CASE mode # "cycle"
  BY <1>2, ModbusBusAssumption DEF Request
<1> QED
  BY <1>1, <1>2

LEMMA FrameType ==
    ASSUME NEW f \in Frames
    PROVE  /\ FrameLen(f) \in 1..126 /\ Pieces(f) \in Wires /\ Len(Pieces(f)) = FrameLen(f)
           /\ \A i \in 1..FrameLen(f) : Pieces(f)[i] = <<f, i>>
<1>1. FrameLen(f) \in 1..126
  BY DEF Frames, FrameLen
<1>2. Pieces(f) \in [1..FrameLen(f) -> Piece]
  BY <1>1 DEF Pieces, Piece
<1>3. \A i \in 1..FrameLen(f) : Pieces(f)[i] = <<f, i>>
  BY DEF Pieces
<1>4. FrameLen(f) \in Nat
  BY <1>1
<1>5. Pieces(f) \in Seq(Piece) /\ Len(Pieces(f)) = FrameLen(f)
  BY <1>2, <1>4, SeqOf
<1> QED
  BY <1>1, <1>3, <1>5 DEF Wires

LEMMA DisownType ==
    ASSUME NEW f \in Frames
    PROVE  [f EXCEPT !.own = FALSE] \in Frames
  BY Zenon DEF Frames

LEMMA DisownFramesType ==
    ASSUME NEW s \in Seq(Frames)
    PROVE  DisownFrames(s) \in Seq(Frames) /\ Len(DisownFrames(s)) = Len(s)
<1>1. \A i \in 1..Len(s) : [s[i] EXCEPT !.own = FALSE] \in Frames
  BY DisownType
<1>2. DisownFrames(s) \in [1..Len(s) -> Frames]
  BY <1>1 DEF DisownFrames
<1> QED
  BY <1>2

LEMMA DisownPiecesType ==
    ASSUME NEW s \in Wires
    PROVE  DisownPieces(s) \in Wires /\ Len(DisownPieces(s)) = Len(s)
<1>1. \A i \in 1..Len(s) : s[i] \in Piece
  BY DEF Wires
<1>2. \A i \in 1..Len(s) : <<[s[i][1] EXCEPT !.own = FALSE], s[i][2]>> \in Piece
  BY <1>1, DisownType DEF Piece
<1>3. DisownPieces(s) \in [1..Len(s) -> Piece]
  BY <1>2 DEF DisownPieces, Wires
<1> QED
  BY <1>3 DEF Wires

(* A reply that is taken is a whole frame from the unit that was asked.      *)
LEMMA ParseTaken ==
    ASSUME NEW s, Parse(s) \in {"ok", "exception"}
    PROVE  /\ s # <<>> /\ s = Pieces(s[1][1]) /\ s[1][1].unit = Request.unit
           /\ Parse(s) = "ok" => ~s[1][1].exc /\ s[1][1].qty = Request.qty
  BY DEF Parse, WholeFrame, FromSlave

(* What rs485_read returns and leaves. *)
LEMMA ReadReturns ==
    ASSUME TypeOK, mode # "pause", Returns
    PROVE  /\ GotLen \in 0..Len(rx) /\ GotLen = (IF Len(rx) < Want THEN Len(rx) ELSE Want)
           /\ Got \in Wires /\ Len(Got) = GotLen
           /\ \A i \in 1..GotLen : Got[i] = rx[i]
           /\ rx' \in Wires /\ Len(rx') = Len(rx) - GotLen
           /\ Want = 1 + Request.qty
<1>1. Want \in 1..126 /\ Want = 1 + Request.qty
  BY RequestType DEF Want
<1>2. Len(rx) \in Nat /\ rx \in Wires
  BY DEF TypeOK, Wires, Piece
<1>3. GotLen \in 0..Len(rx)
  <2>1. Want \in Nat
    BY <1>1
  <2>2. Len(rx) \in Nat
    BY <1>2
  <2> QED
    BY <2>1, <2>2 DEF GotLen
<1>4. Got \in Wires /\ Len(Got) = GotLen /\ \A i \in 1..GotLen : Got[i] = rx[i]
  BY <1>2, <1>3 DEF Got, Wires
<1>5. rx' \in Wires /\ Len(rx') = Len(rx) - GotLen
  BY <1>2, <1>3 DEF Returns, Wires
<1> QED
  BY <1>1, <1>3, <1>4, <1>5 DEF GotLen

-----------------------------------------------------------------------------
(* The type invariant *)

LEMMA InitInv == Init => IInv
<1> SUFFICES ASSUME Init PROVE IInv
  OBVIOUS
<1>1. TypeOK
  <2>1. Len(CycleReads) \in Nat /\ ScanHi \in Nat /\ MaxQueue \in Nat
    BY ModbusBusAssumption
  <2>2. answers \in Seq(Frames) /\ wire \in Wires /\ rx \in Wires /\ Len(answers) = 0
    BY DEF Init, Wires
  <2>3. {asked, failed, wrong, fromScan, calm} \subseteq BOOLEAN
    BY DEF Init
  <2>4. /\ mode \in {"scan", "cycle", "pause"} /\ next \in {"scan", "cycle"} /\ mode # "cycle"
        /\ pos \in 0..(IF ScanHi > Len(CycleReads) THEN ScanHi ELSE Len(CycleReads))
        /\ unit \in 1..247
    BY <2>1, ModbusBusAssumption DEF Init
  <2>5. Len(answers) <= MaxQueue
    BY <2>1, <2>2
  <2> QED
    BY <2>2, <2>3, <2>4, <2>5 DEF TypeOK, Wires, Piece
<1>2. PauseInv /\ UnitInv /\ CleanInv /\ FreshFrameExact
  BY DEF Init, PauseInv, UnitInv, CleanInv, FreshFrameExact, CycleDone
<1> QED
  BY <1>1, <1>2 DEF IInv

LEMMA TypeAsk == TypeOK /\ Ask => TypeOK'
<1> SUFFICES ASSUME TypeOK, Ask PROVE TypeOK'
  OBVIOUS
<1>1. wire' \in Wires
  <2>1. PICK lost \in 0..Len(wire) : wire' = DisownPieces(SubSeq(wire, lost + 1, Len(wire)))
    BY DEF Ask
  <2>2. wire \in Seq(Piece)
    BY DEF TypeOK, Piece
  <2>3. SubSeq(wire, lost + 1, Len(wire)) \in Wires
    BY <2>1, <2>2 DEF Wires
  <2> QED
    BY <2>1, <2>3, DisownPiecesType
<1>2. answers' \in Seq(Frames) /\ Len(answers') <= MaxQueue
  <2>1. answers \in Seq(Frames) /\ Len(answers) <= MaxQueue
    BY DEF TypeOK
  <2>2. DisownFrames(answers) \in Seq(Frames) /\ Len(DisownFrames(answers)) = Len(answers)
    BY <2>1, DisownFramesType
  <2>3. CASE answers' = DisownFrames(answers)
    BY <2>1, <2>2, <2>3
  <2>4. CASE Target \in Devices /\ Len(answers) < MaxQueue
             /\ \E e \in BOOLEAN :
                  answers' = Append(DisownFrames(answers),
                                    [unit |-> Target, fc |-> Request.fc, qty |-> Request.qty,
                                     exc |-> e, own |-> TRUE])
    <3>1. PICK e \in BOOLEAN :
                  answers' = Append(DisownFrames(answers),
                                    [unit |-> Target, fc |-> Request.fc, qty |-> Request.qty,
                                     exc |-> e, own |-> TRUE])
      BY <2>4
    <3> DEFINE f == [unit |-> Target, fc |-> Request.fc, qty |-> Request.qty, exc |-> e, own |-> TRUE]
    <3>2. f \in Frames
      BY <2>4, RequestType DEF Frames, Ask
    <3> HIDE DEF f
    <3>3. answers' = Append(DisownFrames(answers), f)
      BY <3>1 DEF f
    <3>4. Len(answers) + 1 <= MaxQueue
      BY <2>1, <2>4, ModbusBusAssumption
    <3> QED
      BY <2>2, <3>2, <3>3, <3>4
  <2> QED
    BY <2>3, <2>4 DEF Ask
<1>3. rx' \in Wires
  BY DEF Ask, Flush, Wires
<1> QED
  BY <1>1, <1>2, <1>3 DEF Ask, TypeOK, Wires, Piece

(* The bus and the buffer as one of the other steps leaves them. *)
LEMMA BusType ==
    ASSUME TypeOK, Answer \/ Arrive \/ Lose
    PROVE  /\ answers' \in Seq(Frames) /\ Len(answers') <= MaxQueue
           /\ wire' \in Wires /\ rx' \in Wires
<1>1. /\ answers \in Seq(Frames) /\ Len(answers) <= MaxQueue
      /\ wire \in Seq(Piece) /\ rx \in Seq(Piece) /\ MaxQueue \in Nat
  BY ModbusBusAssumption DEF TypeOK, Piece
<1>2. CASE Answer
  <2>1. Head(answers) \in Frames /\ Tail(answers) \in Seq(Frames) /\ Len(Tail(answers)) < Len(answers)
    BY <1>1, <1>2 DEF Answer
  <2>2. Len(Tail(answers)) <= MaxQueue
    BY <1>1, <2>1
  <2> QED
    BY <1>1, <1>2, <2>1, <2>2, FrameType DEF Answer, Wires
<1>3. CASE Arrive
  <2>1. Head(wire) \in Piece /\ Tail(wire) \in Seq(Piece)
    BY <1>1, <1>3 DEF Arrive
  <2> QED
    BY <1>1, <1>3, <2>1 DEF Arrive, Wires
<1>4. CASE Lose
  <2>1. CASE wire' = <<>> /\ UNCHANGED answers
    BY <1>1, <1>4, <2>1 DEF Lose, Wires
  <2>2. CASE answers # <<>> /\ answers' = Tail(answers) /\ UNCHANGED wire
    <3>1. Tail(answers) \in Seq(Frames) /\ Len(Tail(answers)) < Len(answers)
      BY <1>1, <2>2
    <3>2. Len(Tail(answers)) <= MaxQueue
      BY <1>1, <3>1
    <3> QED
      BY <1>1, <1>4, <2>2, <3>1, <3>2 DEF Lose, Wires
  <2> QED
    BY <1>4, <2>1, <2>2 DEF Lose
<1> QED
  BY <1>2, <1>3, <1>4

(* What a search stops at. *)
LEMMA ProbeStops ==
    ASSUME TypeOK, mode # "pause", Returns, Parse(Got) \in {"ok", "exception"}
    PROVE  Target \in Devices /\ rx # <<>> /\ Got[1] = rx[1] /\ GotLen >= 1
<1>1. Got # <<>> /\ Got = Pieces(Got[1][1]) /\ Got[1][1].unit = Request.unit
  BY ParseTaken
<1>2. Len(Got) >= 1
  BY <1>1, ReadReturns DEF Wires
<1>3. GotLen >= 1 /\ Got[1] = rx[1] /\ Len(rx) >= 1
  BY <1>2, ReadReturns DEF TypeOK
<1>4. Got[1] \in Piece
  BY <1>2, ReadReturns DEF Wires
<1>5. Got[1][1] \in Frames
  BY <1>4 DEF Piece
<1>6. Got[1][1].unit \in Devices
  BY <1>5 DEF Frames
<1> QED
  BY <1>1, <1>3, <1>6, RequestType

LEMMA TypeStep == TypeOK /\ [Next]_vars => TypeOK'
<1> SUFFICES ASSUME TypeOK, [Next]_vars PROVE TypeOK'
  OBVIOUS
<1> DEFINE top == IF ScanHi > Len(CycleReads) THEN ScanHi ELSE Len(CycleReads)
<1>a. Len(CycleReads) \in Nat \ {0} /\ ScanHi \in Nat /\ Devices \subseteq 1..247
  BY ModbusBusAssumption
<1>b. top \in Nat /\ ScanHi <= top /\ Len(CycleReads) <= top
  BY <1>a
<1>1. CASE UNCHANGED vars
  BY <1>1 DEF vars, busVars, masterVars, TypeOK
<1>2. CASE Ask
  BY <1>2, TypeAsk
<1>3. CASE Probe
  <2>1. rx' \in Wires /\ mode # "pause"
    BY <1>3, ReadReturns DEF Probe
  <2>2. CASE Parse(Got) \in {"ok", "exception"}
    <3>1. Target \in 1..247
      BY <1>3, <1>a, <2>2, ProbeStops DEF Probe
    <3>2. /\ mode' = "cycle" /\ pos' = 1 /\ unit' = Target /\ next' = next
          /\ UNCHANGED <<answers, wire, calm>>
      BY <1>3, <2>2 DEF Probe, Returns
    <3>3. {asked', failed', wrong', fromScan', calm'} \subseteq BOOLEAN
      BY <1>3, <2>2 DEF Probe, Returns, TypeOK
    <3>4. 1 \in 0..top /\ 1 \in 1..Len(CycleReads)
      BY <1>a, <1>b
    <3> QED
      BY <2>1, <3>1, <3>2, <3>3, <3>4 DEF TypeOK, Wires, Piece
  <2>3. CASE Parse(Got) \notin {"ok", "exception"}
    <3>1. pos' \in 0..top /\ mode' \in {"scan", "pause"} /\ next' \in {"scan", "cycle"}
      BY <1>3, <1>a, <1>b, <2>3 DEF Probe, TypeOK
    <3> QED
      BY <1>3, <2>1, <2>3, <3>1 DEF Probe, Returns, TypeOK, Wires, Piece
  <2> QED
    BY <2>2, <2>3
<1>4. CASE Read
  <2>1. rx' \in Wires /\ mode # "pause"
    BY <1>4, ReadReturns DEF Read
  <2>2. failed' \in BOOLEAN /\ wrong' \in BOOLEAN
    BY <1>4, Zenon DEF Read, NoteResult, TypeOK
  <2>3. /\ pos' \in 0..top /\ mode' \in {"scan", "cycle", "pause"} /\ next' \in {"scan", "cycle"}
        /\ mode' = "cycle" => pos' \in 1..Len(CycleReads)
    BY <1>4, <1>a, <1>b DEF Read, TypeOK, ReadsLeft
  <2>4. asked' = FALSE /\ UNCHANGED <<unit, fromScan, answers, wire, calm>>
    BY <1>4 DEF Read, Returns
  <2>5. {asked', failed', wrong', fromScan', calm'} \subseteq BOOLEAN
    BY <2>2, <2>4 DEF TypeOK
  <2> QED
    BY <2>1, <2>3, <2>4, <2>5 DEF TypeOK, Wires, Piece
<1>5. CASE PauseOver
  <2>1. /\ mode' \in {"scan", "cycle"} /\ next' = next /\ pos' \in {0, 1}
        /\ mode' = "cycle" => pos' = 1
        /\ {failed', wrong', fromScan'} \subseteq BOOLEAN
        /\ UNCHANGED <<answers, wire, rx, unit, asked, calm>>
    BY <1>5 DEF PauseOver, TypeOK, busVars
  <2>2. 0 \in 0..top /\ 1 \in 0..top /\ 1 \in 1..Len(CycleReads)
    BY <1>a, <1>b
  <2> QED
    BY <2>1, <2>2 DEF TypeOK
<1>6. CASE Answer \/ Arrive \/ Lose
  <2>1. UNCHANGED <<masterVars, calm>>
    BY <1>6 DEF Answer, Arrive, Lose
  <2> QED
    BY <1>6, <2>1, BusType DEF TypeOK, masterVars, Wires, Piece
<1>7. CASE CalmDown
  BY <1>7 DEF CalmDown, TypeOK, busVars, masterVars
<1> QED
  BY <1>1, <1>2, <1>3, <1>4, <1>5, <1>6, <1>7 DEF Next, Master

-----------------------------------------------------------------------------
(* A cycle without a failed read *)

LEMMA SideStep ==
    ASSUME IInv, [Next]_vars
    PROVE  PauseInv' /\ UnitInv'
<1> USE DEF IInv, PauseInv, UnitInv
<1>1. CASE UNCHANGED vars
  BY <1>1 DEF vars, busVars, masterVars
<1>2. CASE Ask
  BY <1>2 DEF Ask
<1>3. CASE Probe
  BY <1>3, ProbeStops DEF Probe, Returns
<1>4. CASE Read
  BY <1>4 DEF Read, Returns
<1>5. CASE PauseOver
  BY <1>5 DEF PauseOver, TypeOK
<1>6. CASE Answer \/ Arrive \/ Lose \/ CalmDown
  BY <1>6 DEF Answer, Arrive, Lose, CalmDown, masterVars
<1> QED
  BY <1>1, <1>2, <1>3, <1>4, <1>5, <1>6 DEF Next, Master

LEMMA CleanAsk ==
    ASSUME IInv, Ask PROVE CleanInv'
<1> SUFFICES ASSUME mode = "cycle", ~fromScan, ~failed
             PROVE  /\ ~wrong' /\ asked' /\ rx' = <<>> /\ wire' = <<>> /\ Len(answers') <= 1
                    /\ \A i \in 1..Len(answers') : Answers(answers'[i], Request'.qty)
  BY DEF CleanInv, Ask
<1>1. ~wrong /\ answers = <<>> /\ wire = <<>>
  BY DEF Ask, IInv, CleanInv
<1>2. asked' /\ rx' = <<>> /\ wrong' = wrong /\ Request' = Request
  BY DEF Ask, Flush, Request, Target
<1>3. wire' = <<>>
  <2>1. PICK lost \in 0..Len(wire) : wire' = DisownPieces(SubSeq(wire, lost + 1, Len(wire)))
    BY DEF Ask
  <2>2. SubSeq(wire, lost + 1, Len(wire)) = <<>>
    BY <1>1, <2>1
  <2>3. <<>> \in Wires /\ Len(<<>>) = 0
    BY DEF Wires
  <2>4. wire' \in Wires /\ Len(wire') = 0
    BY <2>1, <2>2, <2>3, DisownPiecesType
  <2> QED
    BY <2>4 DEF Wires
<1>4. DisownFrames(answers) = <<>>
  <2>1. <<>> \in Seq(Frames) /\ Len(<<>>) = 0
    OBVIOUS
  <2>2. DisownFrames(answers) \in Seq(Frames) /\ Len(DisownFrames(answers)) = 0
    BY <1>1, <2>1, DisownFramesType
  <2> QED
    BY <2>2
<1>5. CASE answers' = DisownFrames(answers)
  BY <1>1, <1>2, <1>3, <1>4, <1>5
<1>6. CASE Target \in Devices
           /\ \E e \in BOOLEAN :
                answers' = Append(DisownFrames(answers),
                                  [unit |-> Target, fc |-> Request.fc, qty |-> Request.qty,
                                   exc |-> e, own |-> TRUE])
  <2>1. PICK e \in BOOLEAN :
              answers' = Append(DisownFrames(answers),
                                [unit |-> Target, fc |-> Request.fc, qty |-> Request.qty,
                                 exc |-> e, own |-> TRUE])
    BY <1>6
  <2>2. PICK f : f = [unit |-> Target, fc |-> Request.fc, qty |-> Request.qty, exc |-> e, own |-> TRUE]
    OBVIOUS
  <2>3. f \in Frames /\ f.own /\ f.qty = Request.qty
    BY <1>6, <2>2, RequestType DEF Frames, IInv
  <2>4. Answers(f, Request'.qty)
    BY <1>2, <2>3 DEF Answers
  <2>5. answers' = Append(<<>>, f)
    BY <1>4, <2>1, <2>2
  <2>6. Len(answers') = 1 /\ answers'[1] = f
    BY <2>5
  <2> QED
    BY <1>1, <1>2, <1>3, <2>4, <2>6
<1> QED
  BY <1>5, <1>6 DEF Ask

LEMMA CleanBus ==
    ASSUME IInv, Answer \/ Arrive \/ Lose PROVE CleanInv'
<1> SUFFICES ASSUME mode = "cycle", ~fromScan, ~failed
             PROVE  /\ ~wrong' /\ asked'
                    /\ \/ /\ rx' = <<>> /\ wire' = <<>> /\ Len(answers') <= 1
                          /\ \A i \in 1..Len(answers') : Answers(answers'[i], Request'.qty)
                       \/ answers' = <<>> /\ \E f \in Frames : Answers(f, Request'.qty) /\ Sending(f)'
  BY DEF CleanInv, Answer, Arrive, Lose, masterVars
<1>1. /\ answers \in Seq(Frames) /\ wire \in Wires /\ rx \in Wires
      /\ wire \in Seq(Piece) /\ rx \in Seq(Piece)
  BY DEF IInv, TypeOK, Wires, Piece
<1>2. ~wrong' /\ Request' = Request /\ asked' = asked
  BY DEF IInv, CleanInv, Answer, Arrive, Lose, masterVars, Request, Target
<1>3. asked
  BY DEF IInv, CleanInv, Answer, Arrive, Lose
<1>5. CASE rx = <<>> /\ wire = <<>> /\ Len(answers) <= 1
           /\ \A i \in 1..Len(answers) : Answers(answers[i], Request.qty)
  <2>1. answers # <<>> => /\ Tail(answers) = <<>> /\ Head(answers) \in Frames
                          /\ Answers(Head(answers), Request.qty)
    BY <1>1, <1>5
  <2>2. CASE Answer
    <3>0. PICK f \in Frames : f = Head(answers)
      BY <2>1, <2>2 DEF Answer
    <3>1. wire' = Pieces(f) /\ answers' = <<>> /\ rx' = <<>> /\ f \in Frames /\ Answers(f, Request.qty)
      BY <1>5, <2>1, <2>2, <3>0 DEF Answer
    <3>2. Len(rx') = 0 /\ Len(wire') = FrameLen(f)
      BY <3>1, FrameType
    <3>3. \A i \in 1..Len(wire') : wire'[i] = <<f, Len(rx') + i>>
      <4>1. \A i \in 1..FrameLen(f) : wire'[i] = <<f, i>> /\ i \in Nat
        BY <3>1, FrameType
      <4> QED
        BY <3>2, <4>1
    <3>4. FrameLen(f) \in Nat
      BY <3>1, FrameType
    <3>5. Sending(f)'
      BY <3>1, <3>2, <3>3, <3>4 DEF Sending
    <3> QED
      BY <1>2, <1>3, <3>1, <3>5
  <2>3. CASE Lose
    <3>1. answers' = <<>> /\ wire' = <<>> /\ rx' = <<>>
      BY <1>5, <2>1, <2>3 DEF Lose
    <3> QED
      BY <1>2, <1>3, <3>1
  <2> QED
    BY <1>5, <2>2, <2>3 DEF Arrive
<1>6. CASE answers = <<>> /\ \E f \in Frames : Answers(f, Request.qty) /\ Sending(f)
  <2>1. PICK f \in Frames : Answers(f, Request.qty) /\ Sending(f)
    BY <1>6
  <2>2. FrameLen(f) \in Nat /\ Len(rx) \in Nat /\ Len(wire) \in Nat
    BY <1>1, FrameType
  <2>3. CASE Arrive
    <3>1. Head(wire) = <<f, Len(rx) + 1>> /\ Head(wire) \in Piece
      BY <1>1, <2>1, <2>2, <2>3 DEF Arrive, Sending
    <3>2. Len(rx') = Len(rx) + 1 /\ \A i \in 1..Len(rx') : rx'[i] = <<f, i>>
      <4>1. rx' = Append(rx, <<f, Len(rx) + 1>>)
        BY <2>3, <3>1 DEF Arrive
      <4>2. \A i \in 1..Len(rx) : rx[i] = <<f, i>>
        BY <2>1 DEF Sending
      <4>3. <<f, Len(rx) + 1>> \in Piece
        BY <3>1
      <4> HIDE DEF Piece
      <4>4. Len(rx') = Len(rx) + 1 /\ rx'[Len(rx) + 1] = <<f, Len(rx) + 1>>
            /\ \A i \in 1..Len(rx) : rx'[i] = rx[i]
        BY <1>1, <4>1, <4>3, AppendProperties
      <4>5. \A i \in 1..Len(rx') : i = Len(rx) + 1 \/ i \in 1..Len(rx)
        BY <2>2, <4>4
      <4> QED
        BY <4>2, <4>4, <4>5
    <3>3. Len(wire') = Len(wire) - 1 /\ \A i \in 1..Len(wire') : wire'[i] = wire[i + 1]
      BY <1>1, <2>3, HeadTailProperties DEF Arrive
    <3>4. \A i \in 1..Len(wire') : wire'[i] = <<f, Len(rx') + i>>
      <4>1. ASSUME NEW i \in 1..Len(wire') PROVE wire'[i] = <<f, Len(rx') + i>>
        <5>1. i + 1 \in 1..Len(wire) /\ i \in Nat
          BY <2>2, <3>3
        <5>2. wire[i + 1] = <<f, Len(rx) + (i + 1)>>
          BY <2>1, <5>1 DEF Sending
        <5>3. Len(rx) + (i + 1) = Len(rx') + i
          BY <2>2, <3>2, <5>1
        <5> QED
          BY <3>3, <5>2, <5>3
      <4> QED
        BY <4>1
    <3>5. Len(rx') + Len(wire') <= FrameLen(f)
      BY <2>1, <2>2, <3>2, <3>3 DEF Sending
    <3>6. Sending(f)'
      BY <3>2, <3>4, <3>5 DEF Sending
    <3> QED
      BY <1>2, <1>3, <1>6, <2>1, <2>3, <3>6 DEF Arrive
  <2>4. CASE Lose
    <3>1. answers' = <<>> /\ wire' = <<>> /\ rx' = rx
      BY <1>6, <2>4 DEF Lose
    <3>2. Sending(f)'
      BY <2>1, <2>2, <3>1 DEF Sending
    <3> QED
      BY <1>2, <1>3, <2>1, <3>1, <3>2
  <2> QED
    BY <1>6, <2>3, <2>4 DEF Answer
<1> QED
  BY <1>3, <1>5, <1>6 DEF IInv, CleanInv

(* A read that succeeds, as none before it has failed, took its own answer,  *)
(* and all of it.                                                            *)
LEMMA CleanRead ==
    ASSUME IInv, Read PROVE CleanInv' /\ FreshFrameExact'
<1> SUFFICES ASSUME ~fromScan', ~failed'
             PROVE  ~wrong' /\ ~asked' /\ answers' = <<>> /\ wire' = <<>>
  BY DEF CleanInv, FreshFrameExact
<1>1. /\ mode = "cycle" /\ ~fromScan /\ ~failed /\ asked /\ Parse(Got) = "ok" /\ Returns
      /\ wrong' = (wrong \/ ~Got[1][1].own)
  BY DEF Read, Returns, NoteResult
<1>2. rx # <<>> /\ Got[1] = rx[1] /\ GotLen >= 1 /\ GotLen <= Len(rx) /\ Len(rx) \in Nat
      /\ Len(Got) = GotLen /\ GotLen \in Nat
  BY <1>1, ProbeStops, ReadReturns DEF IInv
<1>3. ~wrong /\ answers = <<>> /\ \E f \in Frames : Answers(f, Request.qty) /\ Sending(f)
  BY <1>1, <1>2 DEF IInv, CleanInv
<1>4. PICK f \in Frames : Answers(f, Request.qty) /\ Sending(f)
  BY <1>3
<1>5. Got[1][1] = f
  <2>1. rx[1] = <<f, 1>>
    BY <1>2, <1>4 DEF Sending
  <2> QED
    BY <1>2, <2>1
<1>6. Got = Pieces(f)
  BY <1>1, <1>5, ParseTaken
<1>7. Len(Got) = FrameLen(f)
  BY <1>6, FrameType
<1>8. wire \in Seq(Piece) /\ Len(wire) = 0
  <2>1. Len(wire) \in Nat /\ wire \in Seq(Piece)
    BY DEF IInv, TypeOK, Piece
  <2>2. Len(rx) + Len(wire) <= FrameLen(f)
    BY <1>4 DEF Sending
  <2> QED
    BY <1>2, <1>7, <2>1, <2>2
<1>9. ~wrong'
  <2>1. f.own
    BY <1>4 DEF Answers
  <2> QED
    BY <1>1, <1>3, <1>5, <2>1
<1>10. ~asked' /\ answers' = answers /\ wire' = wire
  BY <1>1 DEF Returns
<1> QED
  BY <1>3, <1>8, <1>9, <1>10

LEMMA CleanStep ==
    ASSUME IInv, [Next]_vars PROVE CleanInv' /\ FreshFrameExact'
<1>1. CASE UNCHANGED vars
  <2>1. Request' = Request
    BY <1>1 DEF vars, masterVars, busVars, Request, Target
  <2> QED
    BY <1>1, <2>1 DEF vars, busVars, masterVars, IInv, CleanInv, FreshFrameExact, CycleDone, Answers, Sending
<1>2. CASE Ask
  BY <1>2, CleanAsk DEF Ask, FreshFrameExact, CycleDone
<1>3. CASE Probe
  BY <1>3 DEF Probe, CleanInv, FreshFrameExact, CycleDone
<1>4. CASE Read
  BY <1>4, CleanRead
<1>5. CASE PauseOver
  BY <1>5 DEF PauseOver, IInv, TypeOK, PauseInv, CleanInv, FreshFrameExact, CycleDone, busVars
<1>6. CASE Answer \/ Arrive \/ Lose
  <2>1. CleanInv'
    BY <1>6, CleanBus
  <2>2. FreshFrameExact'
    BY <1>6 DEF Answer, Arrive, Lose, masterVars, IInv, FreshFrameExact, CycleDone
  <2> QED
    BY <2>1, <2>2
<1>7. CASE CalmDown
  <2>1. Request' = Request
    BY <1>7 DEF CalmDown, masterVars, Request, Target
  <2> QED
    BY <1>7, <2>1 DEF CalmDown, busVars, masterVars, IInv, CleanInv, FreshFrameExact, CycleDone, Answers, Sending
<1> QED
  BY <1>1, <1>2, <1>3, <1>4, <1>5, <1>6, <1>7 DEF Next, Master

-----------------------------------------------------------------------------
LEMMA Invariant == Spec => []IInv
<1>1. IInv /\ [Next]_vars => IInv'
  BY TypeStep, SideStep, CleanStep DEF IInv
<1> QED
  BY InitInv, <1>1, PTL DEF Spec

(* All that is on its way, and the place in the search or the cycle, keeps  *)
(* its type: no more answers are owed than devices can owe, and a cycle     *)
(* never reads past its profile.                                            *)
THEOREM TypeCorrect == Spec => []TypeOK
<1>1. IInv => TypeOK
  BY DEF IInv
<1> QED
  BY Invariant, <1>1, PTL

(* However late devices answer, a frame without the STALE flag after a      *)
(* pause holds the registers that were asked for.                           *)
THEOREM FreshExact == Spec => []FreshFrameExact
<1>1. IInv => FreshFrameExact
  BY DEF IInv
<1> QED
  BY Invariant, <1>1, PTL

(* A search stops only at a unit where a device is. *)
THEOREM FoundIsDevice == Spec => []FoundUnitIsThere
<1>1. IInv => FoundUnitIsThere
  BY DEF IInv, UnitInv, FoundUnitIsThere
<1> QED
  BY Invariant, <1>1, PTL
=============================================================================
