----------------------------- MODULE KioskProofs -----------------------------
(***************************************************************************)
(* Proofs about Kiosk for every number of searches, set of labels, size of *)
(* a connection's queue and any troubles.                                  *)
(*                                                                         *)
(* The page follows the session because each change of the session puts an *)
(* event behind those on their way.  What the operator typed survives      *)
(* because a candidate is announced only when nothing else is under way,   *)
(* and nothing can be tapped or typed before the announcement has arrived. *)
(***************************************************************************)
EXTENDS Kiosk, WellFoundedInduction, TLAPS

Form == "preparing_profile"

Events == [type : {"snapshot"}, data : Views] \cup [type : {"state"}, data : Session!States]
          \cup [type : {"candidate"}, data : Rows]
Requests == [kind : {"start", "confirm", "retry", "reset"}] \cup [kind : {"edits"}, rows : Rows]
TypeInv == TypeOK /\ queue \in Seq(Events) /\ wire \in Seq(Requests)

(* The form stands on a candidate, and a candidate on a search. *)
CandidateInv == /\ state = Form => candidate # Nothing
                /\ task # "none" \/ candidate # Nothing => search # 0

(* Each part of the page's copy is going to be the session's. *)
StateInv == open /\ ~stale /\ (~reopened \/ Bringing(queue, "state") # {}) =>
    Latest(view, queue, "state") = state
RowsInv == open /\ ~stale /\ candidate # Nothing =>
    /\ Latest(view, queue, "candidate") # Nothing
    /\ Latest(view, queue, "candidate").search = candidate.search

(* The panel is of the copy; in the form labels may have been typed. *)
PanelInv ==
    /\ panel.kind # "none" => panel.kind = view.state
    /\ panel.kind = Form =>
        \/ panel.rows = Nothing /\ view.candidate = Nothing
        \/ /\ panel.rows # Nothing /\ view.candidate # Nothing
           /\ panel.rows.search = view.candidate.search

(* A candidate that is announced arrives before anything else happens. *)
Announced == \E i \in DOMAIN queue : queue[i].type = "candidate"
AnnounceInv == Announced =>
    /\ state = Form /\ task = "none" /\ wire = <<>> /\ ~timer /\ get.kind = "none"
    /\ \/ queue = <<State(Form), Candidate(candidate)>>
       \/ /\ queue = <<Candidate(candidate)>>
          /\ ~reopened /\ panel = [kind |-> Form, rows |-> view.candidate]

SnapshotInv == open /\ state = Form =>
    queue = <<>> \/ Announced \/ (Len(queue) = 1 /\ queue[1].type = "snapshot")

(* The labels the form shows are the session's, or the last ones posted. *)
EditsOf(w) == {i \in DOMAIN w : w[i].kind = "edits"}
Posted(w, labels) == \E i \in EditsOf(w) :
    (\A j \in EditsOf(w) : j <= i) /\ w[i].rows.labels = labels
EditsInv ==
    open /\ queue = <<>> /\ ~stale /\ ~reopened /\ ~timer /\ panel.kind = Form =>
        (EditsOf(wire) = {} /\ panel.rows = candidate) \/ Posted(wire, panel.rows.labels)

IInv ==
    /\ TypeInv /\ CandidateInv /\ StateInv /\ RowsInv /\ PanelInv
    /\ AnnounceInv /\ SnapshotInv /\ EditsInv

-----------------------------------------------------------------------------
(* What the events on the way bring.                                       *)

LEMMA GreatestElement ==
    ASSUME NEW n \in Nat, NEW S \in SUBSET (1..n), S # {}
    PROVE  \E m \in S : \A i \in S : i <= m
<1> DEFINE T == {n - i : i \in S}
<1>1. T \in SUBSET Nat /\ T # {}
  <2>1. \A i \in S : n - i \in Nat
    OBVIOUS
  <2>2. PICK i \in S : TRUE
    OBVIOUS
  <2>3. n - i \in T
    BY <2>2
  <2> QED
    BY <2>1, <2>3
<1>2. PICK t \in T : \A u \in T : <<u, t>> \notin OpToRel(<, Nat)
  BY <1>1, NatLessThanWellFounded, WFMin
<1>3. PICK m \in S : t = n - m
  BY <1>2
<1>4. \A i \in S : ~(n - i < n - m)
  <2>1. \A i \in S : n - i \in T /\ n - i \in Nat /\ t \in Nat
    BY <1>1, <1>2
  <2> QED
    BY <1>2, <1>3, <2>1 DEF OpToRel
<1>5. \A i \in S : i <= m
  <2>1. \A i \in S : i \in Nat /\ m \in Nat
    OBVIOUS
  <2> QED
    BY <1>4, <2>1
<1> QED
  BY <1>3, <1>5

LEMMA MaxIsGreatest ==
    ASSUME NEW n \in Nat, NEW S \in SUBSET (1..n), S # {}
    PROVE  Max(S) \in S /\ \A i \in S : i <= Max(S)
  BY GreatestElement DEF Max

LEMMA GreatestIsMax ==
    ASSUME NEW n \in Nat, NEW S \in SUBSET (1..n), NEW m \in S, \A i \in S : i <= m
    PROVE  Max(S) = m
<1>1. Max(S) \in S /\ Max(S) <= m /\ m <= Max(S)
  BY MaxIsGreatest
<1>2. \A i \in S : i \in Nat
  OBVIOUS
<1>3. Max(S) \in Nat /\ m \in Nat
  BY <1>1, <1>2
<1> QED
  BY <1>1, <1>3

LEMMA EventTyped ==
    ASSUME NEW e \in Events
    PROVE  /\ e.type \in {"snapshot", "state", "candidate"}
           /\ e.type = "snapshot" => e.data \in Views
           /\ e.type = "state" => e.data \in Session!States
           /\ e.type = "candidate" => e.data \in Rows
  BY DEF Events

LEMMA AppliedTyped ==
    ASSUME NEW v \in Views, NEW e \in Events
    PROVE  /\ Applied(v, e) \in Views
           /\ Applied(v, e)["state"] = IF e.type = "snapshot" THEN e.data.state
                                    ELSE IF e.type = "state" THEN e.data ELSE v.state
           /\ Applied(v, e)["candidate"] = IF e.type = "snapshot" THEN e.data.candidate
                                    ELSE IF e.type = "candidate" THEN e.data ELSE v.candidate
<1>1. CASE e.type = "snapshot"
  BY <1>1, EventTyped DEF Applied
<1>2. CASE e.type = "state"
  BY <1>2, EventTyped DEF Applied, Views
<1>3. CASE e.type = "candidate"
  BY <1>3, EventTyped DEF Applied, Views
<1> QED
  BY <1>1, <1>2, <1>3, EventTyped

LEMMA BroughtBefore ==
    ASSUME NEW q \in Seq(Events), NEW f, Bringing(q, f) # {}
    PROVE  Max(Bringing(q, f)) \in 1..Len(q) /\ q[Max(Bringing(q, f))] \in Events
<1>1. Bringing(q, f) \in SUBSET (1..Len(q)) /\ Len(q) \in Nat
  BY DEF Bringing
<1>2. Max(Bringing(q, f)) \in 1..Len(q)
  BY <1>1, MaxIsGreatest
<1> QED
  BY <1>2

LEMMA LatestTyped ==
    ASSUME NEW q \in Seq(Events), NEW v \in Views
    PROVE  /\ Latest(v, q, "state") \in Session!States
           /\ Latest(v, q, "candidate") \in Rows \cup {Nothing}
<1>1. v.state \in Session!States /\ v.candidate \in Rows \cup {Nothing}
  BY DEF Views
<1>2. ASSUME Bringing(q, "state") # {}
      PROVE  Latest(v, q, "state") \in Session!States
  <2>1. PICK e \in Events : e = q[Max(Bringing(q, "state"))]
    BY <1>2, BroughtBefore
  <2>2. Max(Bringing(q, "state")) \in Bringing(q, "state")
    <3>1. Bringing(q, "state") \in SUBSET (1..Len(q)) /\ Len(q) \in Nat
      BY DEF Bringing
    <3> QED
      BY <1>2, <3>1, MaxIsGreatest
  <2>3. e.type \in {"snapshot", "state"}
    BY <2>1, <2>2 DEF Bringing
  <2>4. e.type = "snapshot" => e.data.state \in Session!States
    BY EventTyped DEF Views
  <2> QED
    BY <1>2, <2>1, <2>3, <2>4, EventTyped DEF Latest
<1>3. ASSUME Bringing(q, "candidate") # {}
      PROVE  Latest(v, q, "candidate") \in Rows \cup {Nothing}
  <2>1. PICK e \in Events : e = q[Max(Bringing(q, "candidate"))]
    BY <1>3, BroughtBefore
  <2>2. Max(Bringing(q, "candidate")) \in Bringing(q, "candidate")
    <3>1. Bringing(q, "candidate") \in SUBSET (1..Len(q)) /\ Len(q) \in Nat
      BY DEF Bringing
    <3> QED
      BY <1>3, <3>1, MaxIsGreatest
  <2>3. e.type \in {"snapshot", "candidate"}
    BY <2>1, <2>2 DEF Bringing
  <2>4. e.type = "snapshot" => e.data.candidate \in Rows \cup {Nothing}
    BY EventTyped DEF Views
  <2> QED
    BY <1>3, <2>1, <2>3, <2>4, EventTyped DEF Latest
<1> QED
  BY <1>1, <1>2, <1>3 DEF Latest

LEMMA LatestOfNone ==
    ASSUME NEW v, NEW f
    PROVE  Bringing(<<>>, f) = {} /\ Latest(v, <<>>, f) = v[f]
<1>1. Bringing(<<>>, f) = {}
  BY DEF Bringing
<1> QED
  BY <1>1 DEF Latest

(* An event put at the end is the latest of its kind. *)
LEMMA LatestAppended ==
    ASSUME NEW q \in Seq(Events), NEW e \in Events, NEW v, NEW f
    PROVE  /\ Latest(v, Append(q, e), f) =
                IF e.type = "snapshot" THEN e.data[f]
                ELSE IF e.type = f THEN e.data ELSE Latest(v, q, f)
           /\ Bringing(q, f) # {} => Bringing(Append(q, e), f) # {}
           /\ Bringing(Append(q, e), f) # {} =>
                  Bringing(q, f) # {} \/ e.type \in {"snapshot", f}
<1> DEFINE B == Bringing(q, f)  C == Bringing(Append(q, e), f)  n == Len(q)
<1>1. /\ n \in Nat /\ DOMAIN q = 1..n /\ DOMAIN Append(q, e) = 1..(n + 1)
      /\ \A i \in 1..n : Append(q, e)[i] = q[i]
      /\ Append(q, e)[n + 1] = e
  OBVIOUS
<1>2. B \in SUBSET (1..n) /\ C \in SUBSET (1..(n + 1))
  BY <1>1 DEF Bringing
<1>3. \A i \in 1..n : i \in B <=> i \in C
  BY <1>1 DEF Bringing
<1>4. n + 1 \in C <=> e.type \in {"snapshot", f}
  BY <1>1 DEF Bringing
<1>5. CASE n + 1 \in C
  <2>1. Max(C) = n + 1
    <3>1. n + 1 \in Nat /\ \A i \in C : i <= n + 1
      BY <1>1, <1>2
    <3> HIDE DEF C
    <3> QED
      BY <1>2, <1>5, <3>1, GreatestIsMax
  <2> QED
    BY <1>1, <1>4, <1>5, <2>1 DEF Latest
<1>6. CASE n + 1 \notin C
  <2>1. B = C
    <3>1. \A i \in C : i \in 1..n
      BY <1>1, <1>2, <1>6
    <3>2. \A i \in B : i \in 1..n
      BY <1>2
    <3> HIDE DEF B, C
    <3> QED
      BY <1>3, <3>1, <3>2
  <2>2. B # {} => Max(B) \in 1..n
    BY BroughtBefore
  <2> QED
    BY <1>1, <1>4, <1>6, <2>1, <2>2 DEF Latest
<1>7. B # {} => C # {}
  BY <1>2, <1>3
<1>8. C # {} => B # {} \/ n + 1 \in C
  BY <1>1, <1>2, <1>3
<1> QED
  BY <1>4, <1>5, <1>6, <1>7, <1>8

(* To apply the first event changes nothing of what is coming. *)
LEMMA LatestApplied ==
    ASSUME NEW q \in Seq(Events), q # <<>>, NEW v \in Views, NEW f \in {"state", "candidate"}
    PROVE  /\ Latest(Applied(v, Head(q)), Tail(q), f) = Latest(v, q, f)
           /\ Bringing(q, f) # {} =>
                  Bringing(Tail(q), f) # {} \/ Head(q).type \in {"snapshot", f}
<1> DEFINE B == Bringing(q, f)  C == Bringing(Tail(q), f)  n == Len(q) - 1
<1>1. /\ n \in Nat /\ Len(q) = n + 1 /\ DOMAIN q = 1..(n + 1) /\ DOMAIN Tail(q) = 1..n
      /\ \A i \in 1..n : Tail(q)[i] = q[i + 1]
      /\ Head(q) = q[1] /\ q[1] \in Events /\ 1 \in 1..(n + 1)
      /\ Tail(q) \in Seq(Events)
  OBVIOUS
<1>2. B \in SUBSET (1..(n + 1)) /\ C \in SUBSET (1..n)
  BY <1>1 DEF Bringing
<1>3. \A i \in 1..n : i \in C <=> i + 1 \in B
  BY <1>1 DEF Bringing
<1>4. 1 \in B <=> q[1].type \in {"snapshot", f}
  BY <1>1 DEF Bringing
<1>5. CASE C # {}
  <2>1. Max(C) \in C /\ \A i \in C : i <= Max(C)
    BY <1>1, <1>2, <1>5, MaxIsGreatest
  <2>2. Max(C) + 1 \in B /\ Max(C) \in 1..n
    BY <1>2, <1>3, <2>1
  <2>3. \A i \in B : i <= Max(C) + 1
    <3> SUFFICES ASSUME NEW i \in B, i # 1 PROVE i <= Max(C) + 1
      BY <1>1, <1>2, <2>2
    <3>1. i - 1 \in 1..n /\ (i - 1) + 1 = i
      BY <1>1, <1>2
    <3>2. i - 1 \in C
      BY <1>3, <3>1
    <3> QED
      BY <2>1, <2>2, <3>1, <3>2
  <2>4. Max(B) = Max(C) + 1
    <3>1. n + 1 \in Nat
      BY <1>1
    <3> HIDE DEF B, C
    <3> QED
      BY <1>2, <2>2, <2>3, <3>1, GreatestIsMax
  <2>5. q[Max(B)] = Tail(q)[Max(C)] /\ B # {}
    BY <1>1, <2>2, <2>4
  <2> QED
    BY <1>5, <2>5 DEF Latest
<1>6. CASE C = {}
  <2>1. B \subseteq {1}
    <3> SUFFICES ASSUME NEW i \in B, i # 1 PROVE FALSE
      OBVIOUS
    <3>1. i - 1 \in 1..n /\ (i - 1) + 1 = i
      BY <1>1, <1>2
    <3> QED
      BY <1>3, <1>6, <3>1
  <2>2. Latest(Applied(v, Head(q)), Tail(q), f) = Applied(v, q[1])[f]
    BY <1>1, <1>6 DEF Latest
  <2>3. CASE q[1].type \in {"snapshot", f}
    <3>1. B = {1}
      BY <1>4, <2>1, <2>3
    <3>2. Max(B) = 1
      <4>1. 1 \in B /\ \A i \in B : i <= 1
        BY <3>1
      <4>2. n + 1 \in Nat
        BY <1>1
      <4> HIDE DEF B
      <4> QED
        BY <1>2, <4>1, <4>2, GreatestIsMax
    <3>3. Latest(v, q, f) = IF q[1].type = "snapshot" THEN q[1].data[f] ELSE q[1].data
      BY <3>1, <3>2 DEF Latest
    <3> QED
      BY <1>1, <2>2, <2>3, <3>3, AppliedTyped
  <2>4. CASE q[1].type \notin {"snapshot", f}
    <3>1. B = {}
      BY <1>4, <2>1, <2>4
    <3>2. Latest(v, q, f) = v[f]
      BY <3>1 DEF Latest
    <3>3. f = "state" => Applied(v, q[1])[f] = v[f]
      BY <1>1, <2>4, AppliedTyped
    <3>4. f = "candidate" => Applied(v, q[1])[f] = v[f]
      BY <1>1, <2>4, AppliedTyped
    <3> QED
      BY <2>2, <3>1, <3>2, <3>3, <3>4
  <2> QED
    BY <2>3, <2>4
<1>7. B # {} => C # {} \/ Head(q).type \in {"snapshot", f}
  <2>1. C = {} => B \subseteq {1}
    <3> SUFFICES ASSUME C = {}, NEW i \in B, i # 1 PROVE FALSE
      OBVIOUS
    <3>1. i - 1 \in 1..n /\ (i - 1) + 1 = i
      BY <1>1, <1>2
    <3> QED
      BY <1>3, <3>1
  <2> QED
    BY <1>1, <1>4, <2>1
<1> QED
  BY <1>5, <1>6, <1>7

-----------------------------------------------------------------------------
(* What is emitted and posted.                                             *)

LEMMA Flags == TypeOK <=>
    /\ {open, timer, reopened, stale} \subseteq BOOLEAN
    /\ state \in Session!States /\ candidate \in Rows \cup {Nothing}
    /\ task \in Session!Tasks /\ search \in 0..MaxSearch
    /\ view \in Views /\ get \in [kind : {"none", "sent", "answered"}, data : Views]
    /\ panel \in [kind : Session!States \cup {"none"}, rows : Rows \cup {Nothing}]
    /\ Len(queue) <= QueueSize /\ (~open => queue = <<>>)
    /\ Len(wire) <= MaxWire /\ trouble \in 0..MaxTrouble
<1>1. Snapshot \in Views <=> state \in Session!States /\ candidate \in Rows \cup {Nothing}
  BY DEF Snapshot, Views
<1> QED
  BY <1>1 DEF TypeOK

LEMMA Booleans == TypeOK => /\ open \in BOOLEAN /\ timer \in BOOLEAN
                            /\ reopened \in BOOLEAN /\ stale \in BOOLEAN
  BY DEF TypeOK

LEMMA WholeOf ==
    ASSUME NEW S, NEW s \in Seq(S)
    PROVE  SubSeq(s, 1, Len(s)) = s
<1>1. Len(s) \in Nat /\ s = [i \in 1..Len(s) |-> s[i]]
  OBVIOUS
<1>2. SubSeq(s, 1, Len(s)) = [i \in 1..Len(s) |-> s[i]]
  BY <1>1
<1> QED
  BY <1>1, <1>2

LEMMA EmitsOne ==
    ASSUME TypeInv, NEW e \in Events, Emit(<<e>>)
    PROVE  /\ open' = open /\ stale' \in BOOLEAN
           /\ queue' \in Seq(Events) /\ Len(queue') <= QueueSize /\ (~open => queue' = <<>>)
           /\ queue' = queue \/ queue' = Append(queue, e)
           /\ open /\ ~stale' => ~stale /\ queue' = Append(queue, e)
<1>1. /\ queue \in Seq(Events) /\ Len(queue) \in Nat /\ Len(queue) <= QueueSize
      /\ QueueSize \in Nat /\ open \in BOOLEAN /\ stale \in BOOLEAN
  BY KioskAssumption, Booleans DEF TypeInv, TypeOK
<1>2. CASE ~open
  BY <1>1, <1>2 DEF Emit, link, TypeInv, TypeOK
<1>3. CASE open
  <2>1. PICK room \in Nat : room = QueueSize - Len(queue)
    BY <1>1
  <2>2. /\ queue' = queue \o SubSeq(<<e>>, 1, IF room < 1 THEN room ELSE 1)
        /\ stale' = (stale \/ room < 1) /\ open' = open
    BY <1>3, <2>1 DEF Emit, link
  <2>3. CASE room = 0
    <3>1. SubSeq(<<e>>, 1, 0) = <<>> /\ queue \o <<>> = queue
      BY <1>1
    <3>2. room < 1
      BY <2>3
    <3>3. stale' = TRUE
      BY <2>2, <3>2
    <3>4. queue' = queue
      BY <2>2, <2>3, <3>1, <3>2
    <3> QED
      BY <1>1, <1>3, <2>2, <3>3, <3>4
  <2>4. CASE room # 0
    <3>0. SubSeq(<<e>>, 1, 1) = <<e>>
      <4>1. <<e>> \in Seq({e}) /\ Len(<<e>>) = 1
        OBVIOUS
      <4> QED
        BY <4>1, WholeOf
    <3>1. ~(room < 1)
      BY <2>4
    <3>2. queue' = Append(queue, e)
      BY <1>1, <2>2, <3>0, <3>1
    <3>3. Len(queue') = Len(queue) + 1 /\ queue' \in Seq(Events)
      BY <1>1, <3>2
    <3>4. Len(queue') <= QueueSize
      BY <1>1, <2>1, <2>4, <3>3
    <3>5. stale' = stale
      BY <1>1, <2>2, <3>1
    <3> QED
      BY <1>1, <1>3, <2>2, <3>2, <3>3, <3>4, <3>5
  <2> QED
    BY <2>3, <2>4
<1> QED
  BY <1>2, <1>3

LEMMA EditsTail ==
    ASSUME NEW w \in Seq(Requests), w # <<>>, NEW l
    PROVE  /\ EditsOf(w) = {} => EditsOf(Tail(w)) = {}
           /\ Posted(w, l) => \/ Posted(Tail(w), l)
                              \/ /\ EditsOf(Tail(w)) = {} /\ Head(w).kind = "edits"
                                 /\ Head(w).rows.labels = l
<1> DEFINE n == Len(w) - 1
<1>1. /\ n \in Nat /\ DOMAIN w = 1..(n + 1) /\ DOMAIN Tail(w) = 1..n
      /\ \A i \in 1..n : Tail(w)[i] = w[i + 1]
      /\ Head(w) = w[1]
  OBVIOUS
<1> HIDE DEF n
<1>2. EditsOf(Tail(w)) \subseteq 1..n /\ EditsOf(w) \subseteq 1..(n + 1)
  BY <1>1 DEF EditsOf
<1>3. \A i \in 1..n : i \in EditsOf(Tail(w)) <=> i + 1 \in EditsOf(w)
  BY <1>1 DEF EditsOf
<1>4. EditsOf(w) = {} => EditsOf(Tail(w)) = {}
  BY <1>2, <1>3
<1>5. ASSUME Posted(w, l)
      PROVE  \/ Posted(Tail(w), l)
             \/ /\ EditsOf(Tail(w)) = {} /\ Head(w).kind = "edits"
                /\ Head(w).rows.labels = l
  <2>1. PICK i \in EditsOf(w) : (\A j \in EditsOf(w) : j <= i) /\ w[i].rows.labels = l
    BY <1>5 DEF Posted
  <2>2. CASE i = 1
    <3>1. EditsOf(Tail(w)) = {}
      BY <1>1, <1>2, <1>3, <2>1, <2>2
    <3> QED
      BY <1>1, <2>1, <2>2, <3>1 DEF EditsOf
  <2>3. CASE i # 1
    <3>1. i - 1 \in 1..n /\ (i - 1) + 1 = i
      BY <1>1, <1>2, <2>3
    <3>2. i - 1 \in EditsOf(Tail(w)) /\ Tail(w)[i - 1] = w[i]
      BY <1>1, <1>3, <3>1
    <3>3. \A j \in EditsOf(Tail(w)) : j <= i - 1
      <4> TAKE j \in EditsOf(Tail(w))
      <4>1. j \in 1..n /\ j + 1 \in EditsOf(w)
        BY <1>2, <1>3
      <4>2. j + 1 <= i
        BY <2>1, <4>1
      <4> QED
        BY <1>1, <3>1, <4>1, <4>2
    <3> QED
      BY <2>1, <3>2, <3>3 DEF Posted
  <2> QED
    BY <2>2, <2>3
<1> QED
  BY <1>4, <1>5

LEMMA EditsAppended ==
    ASSUME NEW w \in Seq(Requests), NEW r \in Requests, NEW l
    PROVE  /\ r.kind # "edits" => /\ EditsOf(w) = {} => EditsOf(Append(w, r)) = {}
                                  /\ Posted(w, l) => Posted(Append(w, r), l)
           /\ r.kind = "edits" => Posted(Append(w, r), r.rows.labels)
<1> DEFINE n == Len(w)
<1>1. /\ n \in Nat /\ DOMAIN w = 1..n /\ DOMAIN Append(w, r) = 1..(n + 1)
      /\ \A i \in 1..n : Append(w, r)[i] = w[i]
      /\ Append(w, r)[n + 1] = r
  OBVIOUS
<1> HIDE DEF n
<1>2. EditsOf(w) \subseteq 1..n /\ EditsOf(Append(w, r)) \subseteq 1..(n + 1)
  BY <1>1 DEF EditsOf
<1>3. \A i \in 1..n : i \in EditsOf(Append(w, r)) <=> i \in EditsOf(w)
  BY <1>1 DEF EditsOf
<1>4. n + 1 \in EditsOf(Append(w, r)) <=> r.kind = "edits"
  BY <1>1 DEF EditsOf
<1>5. ASSUME r.kind # "edits"
      PROVE  EditsOf(Append(w, r)) = EditsOf(w)
  <2>1. \A i \in EditsOf(Append(w, r)) : i \in 1..n
    BY <1>1, <1>2, <1>4, <1>5
  <2> QED
    BY <1>2, <1>3, <2>1
<1>6. ASSUME r.kind # "edits", Posted(w, l)
      PROVE  Posted(Append(w, r), l)
  <2>1. PICK i \in EditsOf(w) : (\A j \in EditsOf(w) : j <= i) /\ w[i].rows.labels = l
    BY <1>6 DEF Posted
  <2>2. Append(w, r)[i] = w[i]
    BY <1>1, <1>2
  <2> QED
    BY <1>5, <1>6, <2>1, <2>2 DEF Posted
<1>7. ASSUME r.kind = "edits"
      PROVE  Posted(Append(w, r), r.rows.labels)
  <2>1. n + 1 \in EditsOf(Append(w, r)) /\ \A j \in EditsOf(Append(w, r)) : j <= n + 1
    BY <1>1, <1>2, <1>4, <1>7
  <2> QED
    BY <1>1, <2>1 DEF Posted
<1> QED
  BY <1>5, <1>6, <1>7

(* A form that the page shows of a session that goes on is of its device.  *)
LEMMA FormShown ==
    ASSUME IInv, open, queue = <<>>, ~stale, ~reopened, panel.kind = Form
    PROVE  /\ state = Form /\ candidate \in Rows /\ panel.rows \in Rows
           /\ panel.rows.search = candidate.search
<1>1. state = Form
  <2>1. view.state = Form
    BY DEF IInv, PanelInv, Form
  <2>2. view["state"] = state
    BY LatestOfNone DEF IInv, StateInv
  <2> QED
    BY <2>1, <2>2
<1>2. candidate # Nothing
  BY <1>1 DEF IInv, CandidateInv
<1>3. view["candidate"] # Nothing /\ view["candidate"].search = candidate.search
  BY <1>2, LatestOfNone DEF IInv, RowsInv
<1>4. panel.rows # Nothing /\ panel.rows.search = candidate.search
  BY <1>3 DEF IInv, PanelInv
<1>5. candidate \in Rows \cup {Nothing} /\ panel.rows \in Rows \cup {Nothing}
  BY Flags DEF IInv, TypeInv
<1> QED
  BY <1>1, <1>2, <1>4, <1>5

-----------------------------------------------------------------------------
(* Each step of the session.                                               *)

LEMMA TypesNext ==
    ASSUME state' \in Session!States, candidate' \in Rows \cup {Nothing},
           task' \in Session!Tasks, search' \in 0..MaxSearch, view' \in Views,
           get' \in [kind : {"none", "sent", "answered"}, data : Views],
           panel' \in [kind : Session!States \cup {"none"}, rows : Rows \cup {Nothing}],
           open' \in BOOLEAN, timer' \in BOOLEAN, reopened' \in BOOLEAN, stale' \in BOOLEAN,
           queue' \in Seq(Events), Len(queue') <= QueueSize, ~open' => queue' = <<>>,
           wire' \in Seq(Requests), Len(wire') <= MaxWire, trouble' \in 0..MaxTrouble
    PROVE  TypeInv'
<1>1. Snapshot' \in Views
  BY DEF Snapshot, Views
<1>2. {open', timer', reopened', stale'} \subseteq BOOLEAN
  OBVIOUS
<1> QED
  BY <1>1, <1>2 DEF TypeInv, TypeOK

LEMMA Types == IInv =>
    /\ state \in Session!States /\ candidate \in Rows \cup {Nothing}
    /\ task \in Session!Tasks /\ search \in 0..MaxSearch /\ view \in Views
    /\ get \in [kind : {"none", "sent", "answered"}, data : Views]
    /\ panel \in [kind : Session!States \cup {"none"}, rows : Rows \cup {Nothing}]
    /\ open \in BOOLEAN /\ timer \in BOOLEAN /\ reopened \in BOOLEAN /\ stale \in BOOLEAN
    /\ queue \in Seq(Events) /\ Len(queue) <= QueueSize /\ (~open => queue = <<>>)
    /\ wire \in Seq(Requests) /\ Len(wire) <= MaxWire /\ trouble \in 0..MaxTrouble
  BY Flags, Booleans DEF IInv, TypeInv

(* The session leaves the form, or a state without one, and says so.       *)
LEMMA Moves ==
    ASSUME IInv, ~Announced, NEW s \in Session!States \ {Form}, state' = s,
           candidate' \in {candidate, Nothing}, task' \in Session!Tasks,
           search' \in 0..MaxSearch, task' # "none" \/ candidate' # Nothing => search' # 0,
           Emit(<<State(s)>>), UNCHANGED <<page, get, trouble>>,
           wire' \in Seq(Requests), Len(wire') <= MaxWire
    PROVE  IInv'
<1> DEFINE e == State(s)
<1>1. e \in Events /\ e.type = "state" /\ e.data = s
  BY DEF State, Events
<1> HIDE DEF e
<1>2. UNCHANGED <<view, panel, timer, reopened, get, trouble>>
  BY DEF page
<1>3. /\ open' = open /\ stale' \in BOOLEAN
      /\ queue' \in Seq(Events) /\ Len(queue') <= QueueSize /\ (~open => queue' = <<>>)
      /\ queue' = queue \/ queue' = Append(queue, e)
      /\ open /\ ~stale' => ~stale /\ queue' = Append(queue, e)
  BY <1>1, EmitsOne DEF IInv, e
<1>4. queue \in Seq(Events)
  BY Types
<1>5. TypeInv'
  BY <1>2, <1>3, Types, TypesNext
<1>6. CandidateInv'
  BY DEF CandidateInv
<1>7. StateInv'
  <2>1. Latest(view, Append(queue, e), "state") = s
    BY <1>1, <1>4, LatestAppended
  <2>2. open /\ ~stale' => Latest(view, queue', "state") = s
    BY <1>3, <2>1
  <2> QED
    BY <1>2, <1>3, <2>2 DEF StateInv
<1>8. RowsInv'
  <2>1. Latest(view, Append(queue, e), "candidate") = Latest(view, queue, "candidate")
    BY <1>1, <1>4, LatestAppended
  <2>2. open /\ ~stale' => Latest(view, queue', "candidate") = Latest(view, queue, "candidate")
    BY <1>3, <2>1
  <2> QED
    BY <1>2, <1>3, <2>2 DEF IInv, RowsInv
<1>9. PanelInv'
  BY <1>2 DEF IInv, PanelInv
<1>10. AnnounceInv' /\ SnapshotInv'
  <2>1. ~Announced'
    <3>1. CASE queue' = queue
      BY <3>1 DEF Announced
    <3>2. CASE queue' = Append(queue, e)
      BY <1>1, <1>4, <3>2 DEF Announced
    <3> QED
      BY <1>3, <3>1, <3>2
  <2> QED
    BY <2>1 DEF AnnounceInv, SnapshotInv
<1>11. EditsInv'
  <2>1. Append(queue, e) # <<>>
    BY <1>4
  <2> QED
    BY <1>3, <2>1 DEF EditsInv
<1> QED
  BY <1>5, <1>6, <1>7, <1>8, <1>9, <1>10, <1>11 DEF IInv

(* A request or a step of which the page sees nothing. *)
LEMMA Unseen ==
    ASSUME IInv, ~Announced, UNCHANGED <<state, candidate, search, link, page, get, trouble>>,
           task' \in Session!Tasks, task' # "none" => search # 0,
           wire' = wire \/ /\ wire # <<>> /\ wire' = Tail(wire)
                           /\ Head(wire).kind = "edits" => candidate = Nothing
    PROVE  IInv'
<1>1. UNCHANGED <<state, candidate, search, open, queue, stale, view, panel, timer,
                  reopened, get, trouble>>
  BY DEF link, page
<1>2. wire \in Seq(Requests) /\ Len(wire) <= MaxWire /\ MaxWire \in Nat
  BY Types, KioskAssumption
<1>3. wire' \in Seq(Requests) /\ Len(wire') <= MaxWire
  BY <1>2
<1>4. TypeInv'
  BY <1>1, <1>3, Types, TypesNext
<1>5. CandidateInv' /\ StateInv' /\ RowsInv' /\ PanelInv' /\ SnapshotInv'
  BY <1>1 DEF IInv, CandidateInv, StateInv, RowsInv, PanelInv, SnapshotInv, Announced
<1>6. AnnounceInv'
  BY <1>1 DEF AnnounceInv, Announced
<1>7. EditsInv'
  <2> SUFFICES ASSUME open, queue = <<>>, ~stale, ~reopened, ~timer, panel.kind = Form
               PROVE  \/ EditsOf(wire') = {} /\ panel.rows = candidate
                      \/ Posted(wire', panel.rows.labels)
    BY <1>1 DEF EditsInv
  <2>1. (EditsOf(wire) = {} /\ panel.rows = candidate) \/ Posted(wire, panel.rows.labels)
    BY DEF IInv, EditsInv
  <2>2. candidate # Nothing
    BY FormShown, NothingAssumption
  <2> QED
    BY <1>2, <2>1, <2>2, EditsTail
<1> QED
  BY <1>4, <1>5, <1>6, <1>7 DEF IInv

LEMMA EmitsNone ==
    ASSUME IInv, Emit(<<>>)
    PROVE  UNCHANGED link
<1>1. /\ queue \in Seq(Events) /\ Len(queue) \in Nat /\ Len(queue) <= QueueSize
      /\ QueueSize \in Nat /\ stale \in BOOLEAN
  BY KioskAssumption, Types
<1>2. CASE ~open
  BY <1>2 DEF Emit
<1>3. CASE open
  <2>1. PICK room \in Nat : room = QueueSize - Len(queue)
    BY <1>1
  <2>2. /\ queue' = queue \o SubSeq(<<>>, 1, IF room < 0 THEN room ELSE 0)
        /\ stale' = (stale \/ room < 0) /\ open' = open
    BY <1>3, <2>1 DEF Emit
  <2>3. ~(room < 0)
    BY <2>1
  <2>4. SubSeq(<<>>, 1, 0) = <<>> /\ queue \o <<>> = queue
    BY <1>1
  <2>5. queue' = queue
    BY <2>2, <2>3, <2>4
  <2>6. stale' = stale
    BY <1>1, <2>2, <2>3
  <2> QED
    BY <2>2, <2>5, <2>6 DEF link
<1> QED
  BY <1>2, <1>3

LEMMA EmitsTwo ==
    ASSUME IInv, NEW a \in Events, NEW b \in Events, open, queue = <<>>, Emit(<<a, b>>)
    PROVE  queue' = <<a, b>> /\ stale' = stale /\ open' = open
<1>1. QueueSize \in Nat /\ QueueSize >= 2 /\ stale \in BOOLEAN /\ Len(queue) = 0
  BY KioskAssumption, Types
<1>2. PICK room \in Nat : room = QueueSize - Len(queue)
  BY <1>1
<1>3. /\ queue' = queue \o SubSeq(<<a, b>>, 1, IF room < 2 THEN room ELSE 2)
      /\ stale' = (stale \/ room < 2) /\ open' = open
  BY <1>2 DEF Emit
<1>4. ~(room < 2)
  BY <1>1, <1>2
<1>5. <<a, b>> \in Seq({a, b}) /\ Len(<<a, b>>) = 2
  OBVIOUS
<1>6. SubSeq(<<a, b>>, 1, 2) = <<a, b>>
  BY <1>5, WholeOf
<1>7. <<>> \o <<a, b>> = <<a, b>>
  OBVIOUS
<1>8. queue' = <<a, b>>
  BY <1>3, <1>4, <1>6, <1>7
<1>9. stale' = stale
  BY <1>1, <1>3, <1>4
<1> QED
  BY <1>3, <1>8, <1>9

LEMMA LatestOfTwo ==
    ASSUME NEW a \in Events, NEW b \in Events, a.type = "state", b.type = "candidate", NEW v
    PROVE  /\ Latest(v, <<a, b>>, "state") = a.data
           /\ Latest(v, <<a, b>>, "candidate") = b.data
<1>1. <<a, b>> = Append(<<a>>, b) /\ <<a>> = Append(<<>>, a)
  OBVIOUS
<1>2. <<>> \in Seq(Events) /\ <<a>> \in Seq(Events)
  OBVIOUS
<1>3. PICK p : p = <<>>
  OBVIOUS
<1>4. PICK q : q = <<a>>
  OBVIOUS
<1>5. p \in Seq(Events) /\ q = Append(p, a) /\ Append(q, b) = <<a, b>>
  BY <1>1, <1>2, <1>3, <1>4
<1>9. q \in Seq(Events)
  BY <1>2, <1>4
<1>6. Latest(v, Append(p, a), "state") = a.data
  BY <1>5, LatestAppended
<1>7. Latest(v, Append(q, b), "state") = Latest(v, q, "state")
  BY <1>9, LatestAppended
<1>8. Latest(v, Append(q, b), "candidate") = b.data
  BY <1>9, LatestAppended
<1> QED
  BY <1>5, <1>6, <1>7, <1>8

LEMMA ProposeStep ==
    ASSUME IInv, Prompt, candidate' = [search |-> search, labels |-> Blank], Session!Propose,
           Emit(<<State(Form), Candidate(candidate')>>),
           UNCHANGED <<search, page, get, wire, trouble>>
    PROVE  IInv'
<1>1. /\ wire = <<>> /\ queue = <<>> /\ ~timer /\ get.kind = "none"
      /\ task = "searching" /\ task' = "none" /\ state' = Form
      /\ UNCHANGED <<search, view, panel, timer, reopened, get, wire, trouble>>
  BY DEF Prompt, Session!Propose, Session!Step, page, Form
<1>2. search \in 1..MaxSearch
  BY <1>1, Types, KioskAssumption DEF IInv, CandidateInv
<1>3. candidate' \in Rows /\ candidate' # Nothing
  <2>1. candidate' \in Rows
    BY <1>2, KioskAssumption DEF Rows
  <2> QED
    BY <2>1, NothingAssumption
<1>4. PICK a : a = State(Form)
  OBVIOUS
<1>5. PICK b : b = Candidate(candidate')
  OBVIOUS
<1>6. /\ a \in Events /\ a.type = "state" /\ a.data = Form
      /\ b \in Events /\ b.type = "candidate" /\ b.data = candidate'
  BY <1>3, <1>4, <1>5 DEF State, Candidate, Events, Form, Session!States
<1>7. CASE ~open
  <2>1. open' = open /\ queue' = <<>> /\ stale' = stale
    BY <1>1, <1>7 DEF Emit, link
  <2>2. TypeInv'
    <3>1. state' \in Session!States /\ task' \in Session!Tasks
      BY <1>1 DEF Form, Session!States, Session!Tasks
    <3> QED
      BY <1>1, <1>3, <2>1, <3>1, Types, TypesNext
  <2>3. CandidateInv'
    BY <1>1, <1>2, <1>3 DEF CandidateInv
  <2>4. StateInv' /\ RowsInv' /\ SnapshotInv' /\ EditsInv' /\ AnnounceInv'
    BY <1>7, <2>1 DEF StateInv, RowsInv, SnapshotInv, EditsInv, AnnounceInv, Announced
  <2>5. PanelInv'
    BY <1>1 DEF IInv, PanelInv
  <2> QED
    BY <2>2, <2>3, <2>4, <2>5 DEF IInv
<1>8. CASE open
  <2>1. queue' = <<a, b>> /\ stale' = stale /\ open' = open
    BY <1>1, <1>4, <1>5, <1>6, <1>8, EmitsTwo
  <2>2. TypeInv'
    <3>1. state' \in Session!States /\ task' \in Session!Tasks
      BY <1>1 DEF Form, Session!States, Session!Tasks
    <3>2. queue' \in Seq(Events) /\ Len(queue') = 2 /\ 2 <= QueueSize
      BY <1>6, <2>1, KioskAssumption
    <3> QED
      BY <1>1, <1>3, <1>8, <2>1, <3>1, <3>2, Types, TypesNext
  <2>3. CandidateInv'
    BY <1>1, <1>2, <1>3 DEF CandidateInv
  <2>4. StateInv' /\ RowsInv'
    <3>1. /\ Latest(view, <<a, b>>, "state") = state'
          /\ Latest(view, <<a, b>>, "candidate") = candidate'
      BY <1>1, <1>6, LatestOfTwo
    <3> QED
      BY <1>1, <1>3, <2>1, <3>1 DEF StateInv, RowsInv
  <2>5. PanelInv'
    BY <1>1 DEF IInv, PanelInv
  <2>6. Announced'
    BY <1>6, <2>1 DEF Announced
  <2>7. queue' = <<State(Form), Candidate(candidate')>>
    BY <1>4, <1>5, <2>1
  <2>8. AnnounceInv' /\ SnapshotInv'
    BY <1>1, <2>6, <2>7 DEF AnnounceInv, SnapshotInv, State, Candidate
  <2>9. EditsInv'
    BY <2>1 DEF EditsInv
  <2> QED
    BY <2>2, <2>3, <2>4, <2>5, <2>8, <2>9 DEF IInv
<1> QED
  BY <1>7, <1>8

LEMMA TaskStep == IInv /\ Task => IInv'
<1> SUFFICES ASSUME IInv, Task
             PROVE  IInv'
  OBVIOUS
<1>1. CASE \/ Announces(Session!BeginSearch, <<State("searching")>>)
           \/ Announces(UNCHANGED candidate /\ Session!Assemble, <<State("flashing")>>)
           \/ Announces(Session!Flashed, <<State("probing")>>)
           \/ Announces(Session!Provisioned, <<State("profiling")>>)
           \/ Announces(Session!Succeed, <<State("success")>>)
           \/ Announces(UNCHANGED candidate /\ Session!Fail, <<State("failed")>>)
  <2>1. PICK s \in {"searching", "flashing", "probing", "profiling", "success", "failed"} :
            /\ state' = s /\ Emit(<<State(s)>>) /\ candidate' = candidate
            /\ task # "none" /\ task' \in Session!Tasks
            /\ UNCHANGED <<search, page, get, wire, trouble>>
    BY <1>1 DEF Announces, Session!BeginSearch, Session!Assemble, Session!Flashed,
                Session!Provisioned, Session!Succeed, Session!Fail, Session!Step, Session!Tasks
  <2>2. s \in Session!States \ {Form}
    BY DEF Session!States, Session!Busy, Form
  <2>3. ~Announced /\ search # 0
    BY <2>1 DEF IInv, AnnounceInv, CandidateInv
  <2> QED
    BY <2>1, <2>2, <2>3, Types, Moves
<1>2. CASE Announces(Session!Package, <<>>)
  <2>1. /\ Emit(<<>>) /\ UNCHANGED <<state, candidate, search, page, get, wire, trouble>>
        /\ task # "none" /\ task' \in Session!Tasks
    BY <1>2 DEF Announces, Session!Package, Session!Step, Session!Tasks
  <2>2. ~Announced /\ search # 0
    BY <2>1 DEF IInv, AnnounceInv, CandidateInv
  <2>3. UNCHANGED link
    BY <2>1, EmitsNone
  <2> QED
    BY <2>1, <2>2, <2>3, Unseen
<1>3. CASE Prompt /\ Announces(candidate' = [search |-> search, labels |-> Blank] /\ Session!Propose,
                               <<State("preparing_profile"), Candidate(candidate')>>)
  BY <1>3, ProposeStep DEF Announces, Form
<1> QED
  BY <1>1, <1>2, <1>3 DEF Task

-----------------------------------------------------------------------------
(* Each request.                                                           *)

LEMMA EditsStep ==
    ASSUME IInv, ~Announced, wire # <<>>, Head(wire).kind = "edits", wire' = Tail(wire),
           candidate # Nothing, candidate' = [candidate EXCEPT !.labels = Head(wire).rows.labels],
           UNCHANGED <<state, task, search, link, page, get, trouble>>
    PROVE  IInv'
<1>1. UNCHANGED <<state, task, search, open, queue, stale, view, panel, timer,
                  reopened, get, trouble>>
  BY DEF link, page
<1>2. wire \in Seq(Requests) /\ Len(wire) <= MaxWire /\ MaxWire \in Nat
  BY Types, KioskAssumption
<1>3. wire' \in Seq(Requests) /\ Len(wire') <= MaxWire
  BY <1>2
<1>4. candidate \in Rows /\ Head(wire).rows \in Rows
  <2>1. Head(wire) \in Requests
    BY <1>2
  <2>2. Head(wire).rows \in Rows
    BY <2>1 DEF Requests
  <2> QED
    BY <2>2, Types
<1>5. /\ candidate' \in Rows /\ candidate' # Nothing
      /\ candidate'.search = candidate.search /\ candidate'.labels = Head(wire).rows.labels
  <2>1. /\ candidate' \in Rows
        /\ candidate'.search = candidate.search /\ candidate'.labels = Head(wire).rows.labels
    BY <1>4 DEF Rows
  <2> QED
    BY <2>1, NothingAssumption
<1>6. TypeInv'
  BY <1>1, <1>3, <1>5, Types, TypesNext
<1>7. CandidateInv' /\ StateInv' /\ PanelInv' /\ SnapshotInv'
  BY <1>1, <1>5 DEF IInv, CandidateInv, StateInv, PanelInv, SnapshotInv, Announced
<1>8. RowsInv'
  BY <1>1, <1>5 DEF IInv, RowsInv
<1>9. AnnounceInv'
  BY <1>1 DEF AnnounceInv, Announced
<1>10. EditsInv'
  <2> SUFFICES ASSUME open, queue = <<>>, ~stale, ~reopened, ~timer, panel.kind = Form
               PROVE  \/ EditsOf(wire') = {} /\ panel.rows = candidate'
                      \/ Posted(wire', panel.rows.labels)
    BY <1>1 DEF EditsInv
  <2>1. panel.rows \in Rows /\ panel.rows.search = candidate.search
    BY FormShown
  <2>2. EditsOf(wire) # {}
    <3>1. 1 \in DOMAIN wire /\ wire[1] = Head(wire)
      BY <1>2
    <3> QED
      BY <3>1 DEF EditsOf
  <2>3. Posted(wire, panel.rows.labels)
    BY <2>2 DEF IInv, EditsInv
  <2>4. \/ Posted(wire', panel.rows.labels)
        \/ EditsOf(wire') = {} /\ Head(wire).rows.labels = panel.rows.labels
    BY <1>2, <2>3, EditsTail
  <2>5. candidate'.labels = panel.rows.labels => panel.rows = candidate'
    BY <1>5, <2>1 DEF Rows
  <2> QED
    BY <1>5, <2>4, <2>5
<1> QED
  BY <1>6, <1>7, <1>8, <1>9, <1>10 DEF IInv

LEMMA HandleStep == IInv /\ Handle => IInv'
<1> SUFFICES ASSUME IInv, Handle
             PROVE  IInv'
  OBVIOUS
<1>1. /\ wire # <<>> /\ wire' = Tail(wire) /\ UNCHANGED <<page, get, trouble>>
      /\ \/ HandleStart
         \/ Head(wire).kind = "retry" /\ Refused
         \/ HandleReset
         \/ Head(wire).kind = "confirm" /\ HandleConfirm
         \/ Head(wire).kind = "edits" /\ HandleEdits(Head(wire).rows)
      /\ Head(wire).kind = "edits" => HandleEdits(Head(wire).rows)
  BY DEF Handle
<1>2. ~Announced
  BY <1>1 DEF IInv, AnnounceInv
<1>3. wire' \in Seq(Requests) /\ Len(wire') <= MaxWire
  BY <1>1, Types, KioskAssumption
<1>4. search \in 0..MaxSearch /\ MaxSearch \in Nat \ {0} /\ task \in Session!Tasks
  BY Types, KioskAssumption
<1>5. "idle" \in Session!States \ {Form}
  BY DEF Session!States, Form
<1>6. CASE HandleReset \/ (HandleStart /\ ~Refused)
  <2>1. /\ state' = "idle" /\ candidate' = Nothing /\ Emit(<<State("idle")>>)
        /\ task' \in Session!Tasks /\ search' \in 0..MaxSearch
        /\ task' # "none" => search' # 0
    <3>1. CASE HandleReset
      BY <1>4, <3>1 DEF HandleReset, Session!Reset, Session!Clear, IInv, CandidateInv
    <3>2. CASE HandleStart /\ ~Refused
      <4>1. /\ search < MaxSearch /\ search' = search + 1 /\ Emit(<<State("idle")>>)
            /\ state' = "idle" /\ candidate' = Nothing /\ task' = "search"
        BY <3>2 DEF HandleStart, Session!StartSearch, Session!Clear
      <4>2. search' \in 0..MaxSearch /\ search' # 0
        BY <1>4, <4>1
      <4> QED
        BY <4>1, <4>2 DEF Session!Tasks
    <3> QED
      BY <1>6, <3>1, <3>2
  <2> QED
    BY <1>1, <1>2, <1>3, <1>5, <2>1, Moves
<1>7. CASE Head(wire).kind # "edits" /\ Refused
  <2>1. UNCHANGED <<state, task, candidate, search, link>>
    BY <1>7 DEF Refused, session, link
  <2>2. task' \in Session!Tasks /\ (task' # "none" => search # 0)
    BY <1>4, <2>1 DEF IInv, CandidateInv
  <2> QED
    BY <1>1, <1>2, <1>7, <2>1, <2>2, Unseen
<1>8. CASE Head(wire).kind = "confirm" /\ HandleConfirm /\ ~Refused
  <2>1. UNCHANGED <<state, candidate, search, link>> /\ candidate # Nothing /\ task' = "assembling"
    BY <1>8 DEF HandleConfirm, Session!Confirm
  <2>2. task' \in Session!Tasks /\ search # 0
    BY <2>1 DEF Session!Tasks, IInv, CandidateInv
  <2> QED
    BY <1>1, <1>2, <1>8, <2>1, <2>2, Unseen
<1>9. CASE Head(wire).kind = "edits"
  <2>1. CASE candidate = Nothing
    <3>1. UNCHANGED <<state, task, candidate, search, link>>
      BY <1>1, <1>9, <2>1 DEF HandleEdits, Edits, Refused, session
    <3>2. task' \in Session!Tasks /\ (task' # "none" => search # 0)
      BY <1>4, <3>1 DEF IInv, CandidateInv
    <3> QED
      BY <1>1, <1>2, <2>1, <3>1, <3>2, Unseen
  <2>2. CASE candidate # Nothing
    <3>1. /\ candidate' = [candidate EXCEPT !.labels = Head(wire).rows.labels]
          /\ UNCHANGED <<state, task, search, link>>
      BY <1>1, <1>9, <2>2 DEF HandleEdits, Edits, Session!Edit
    <3> QED
      BY <1>1, <1>2, <1>9, <2>2, <3>1, EditsStep
  <2> QED
    BY <2>1, <2>2
<1>10. Head(wire).kind = "edits" \/ HandleReset \/ HandleStart
       \/ (Head(wire).kind = "confirm" /\ HandleConfirm) \/ (Head(wire).kind # "edits" /\ Refused)
  BY <1>1
<1> QED
  BY <1>6, <1>7, <1>8, <1>9, <1>10

LEMMA AnswerStep == IInv /\ Answer => IInv'
<1> SUFFICES ASSUME IInv, Answer
             PROVE  IInv'
  OBVIOUS
<1>1. /\ get = Asked /\ get' = [kind |-> "answered", data |-> Snapshot]
      /\ UNCHANGED <<state, task, candidate, search, view, panel, timer, reopened,
                     open, queue, stale, wire, trouble>>
  BY DEF Answer, session, page, link
<1>2. ~Announced
  BY <1>1 DEF IInv, AnnounceInv, Asked
<1>3. TypeInv'
  <2>1. Snapshot \in Views
    BY DEF IInv, TypeInv, TypeOK
  <2>2. get' \in [kind : {"none", "sent", "answered"}, data : Views]
    BY <1>1, <2>1
  <2> QED
    BY <1>1, <2>2, Types, TypesNext
<1>4. CandidateInv' /\ StateInv' /\ RowsInv' /\ PanelInv' /\ SnapshotInv' /\ EditsInv'
  BY <1>1 DEF IInv, CandidateInv, StateInv, RowsInv, PanelInv, SnapshotInv, Announced, EditsInv
<1>5. AnnounceInv'
  BY <1>1, <1>2 DEF AnnounceInv, Announced
<1> QED
  BY <1>3, <1>4, <1>5 DEF IInv

LEMMA ConnectStep == IInv /\ Connect => IInv'
<1> SUFFICES ASSUME IInv, Connect
             PROVE  IInv'
  OBVIOUS
<1>1. PICK e : e = [type |-> "snapshot", data |-> Snapshot]
  OBVIOUS
<1>2. /\ open' = TRUE /\ queue' = <<e>> /\ stale' = FALSE
      /\ UNCHANGED <<state, task, candidate, search, view, panel, timer, reopened,
                     get, wire, trouble>>
  BY <1>1 DEF Connect, Subscribe, session, page
<1>3. e \in Events /\ e.type = "snapshot" /\ e.data = Snapshot
  BY <1>1 DEF Events, IInv, TypeInv, TypeOK
<1>4. queue' \in Seq(Events) /\ Len(queue') = 1 /\ queue'[1] = e /\ DOMAIN queue' = 1..1
  BY <1>2, <1>3
<1>5. TypeInv'
  <2>1. Len(queue') <= QueueSize
    BY <1>4, KioskAssumption
  <2> QED
    BY <1>2, <1>4, <2>1, Types, TypesNext
<1>6. /\ Latest(view, queue', "state") = state
      /\ Latest(view, queue', "candidate") = candidate
  <2>1. PICK p : p = <<>>
    OBVIOUS
  <2>2. p \in Seq(Events) /\ queue' = Append(p, e)
    BY <1>2, <2>1
  <2>3. /\ Latest(view, Append(p, e), "state") = Snapshot["state"]
        /\ Latest(view, Append(p, e), "candidate") = Snapshot["candidate"]
    BY <1>3, <2>2, LatestAppended
  <2>4. Snapshot["state"] = state /\ Snapshot["candidate"] = candidate
    BY DEF Snapshot
  <2> QED
    BY <2>2, <2>3, <2>4
<1>7. CandidateInv' /\ PanelInv'
  BY <1>2 DEF IInv, CandidateInv, PanelInv
<1>8. StateInv' /\ RowsInv'
  BY <1>2, <1>6 DEF StateInv, RowsInv
<1>9. AnnounceInv'
  <2>1. ~Announced'
    BY <1>3, <1>4 DEF Announced
  <2> QED
    BY <2>1 DEF AnnounceInv
<1>10. SnapshotInv'
  BY <1>3, <1>4 DEF SnapshotInv
<1>11. EditsInv'
  BY <1>2 DEF EditsInv
<1> QED
  BY <1>5, <1>7, <1>8, <1>9, <1>10, <1>11 DEF IInv

-----------------------------------------------------------------------------
(* Each step of the page.                                                  *)

(* What is drawn is of the copy it is drawn from. *)
LEMMA Drawn ==
    ASSUME IInv, NEW v \in Views
    PROVE  /\ Panel(v) \in [kind : Session!States \cup {"none"}, rows : Rows \cup {Nothing}]
           /\ Panel(v).kind = v.state
           /\ v.state = Form => Panel(v) = [kind |-> Form, rows |-> v.candidate]
  BY Types DEF Panel, Views, Form

LEMMA BringingTail ==
    ASSUME NEW q \in Seq(Events), q # <<>>, NEW f
    PROVE  Bringing(Tail(q), f) # {} \/ Head(q).type \in {"snapshot", f} => Bringing(q, f) # {}
<1> DEFINE n == Len(q) - 1
<1>1. /\ n \in Nat /\ DOMAIN q = 1..(n + 1) /\ DOMAIN Tail(q) = 1..n
      /\ \A i \in 1..n : Tail(q)[i] = q[i + 1]
      /\ Head(q) = q[1] /\ 1 \in 1..(n + 1)
  OBVIOUS
<1>2. Head(q).type \in {"snapshot", f} => 1 \in Bringing(q, f)
  BY <1>1 DEF Bringing
<1>3. \A i \in Bringing(Tail(q), f) : i \in 1..n /\ i + 1 \in 1..(n + 1) /\ i + 1 \in Bringing(q, f)
  BY <1>1 DEF Bringing
<1> QED
  BY <1>2, <1>3

LEMMA DeliverStep == IInv /\ Deliver => IInv'
<1> SUFFICES ASSUME IInv, Deliver
             PROVE  IInv'
  OBVIOUS
<1>1. PICK e : e = Head(queue)
  OBVIOUS
<1>2. /\ open /\ queue # <<>> /\ queue' = Tail(queue) /\ view' = Applied(view, e)
      /\ \/ e.type = "candidate" /\ view.state # Form /\ panel' = panel
         \/ panel' = Panel(Applied(view, e)) /\ (e.type # "candidate" \/ view.state = Form)
      /\ UNCHANGED <<state, task, candidate, search, open, get, wire, timer, trouble>>
  BY <1>1 DEF Deliver, Render, session, Form
<1>3. /\ reopened' = (reopened /\ e.type = "candidate")
      /\ stale' = (stale \/ (e.type = "snapshot" /\ Crossed(e.data)))
  BY <1>1 DEF Deliver
<1>4. /\ queue \in Seq(Events) /\ view \in Views /\ reopened \in BOOLEAN /\ stale \in BOOLEAN
      /\ panel \in [kind : Session!States \cup {"none"}, rows : Rows \cup {Nothing}]
  BY Types
<1>5. /\ e \in Events /\ queue' \in Seq(Events) /\ Len(queue') = Len(queue) - 1
      /\ DOMAIN queue = 1..Len(queue) /\ Len(queue) \in Nat /\ e = queue[1]
      /\ \A i \in DOMAIN queue' : queue'[i] = queue[i + 1] /\ i + 1 \in DOMAIN queue
  BY <1>1, <1>2, <1>4
<1>6. /\ view' \in Views
      /\ view'.state = IF e.type = "snapshot" THEN e.data.state
                       ELSE IF e.type = "state" THEN e.data ELSE view.state
      /\ view'.candidate = IF e.type = "snapshot" THEN e.data.candidate
                           ELSE IF e.type = "candidate" THEN e.data ELSE view.candidate
  <2>1. PICK v \in Views : v = Applied(view, e)
    BY <1>4, <1>5, AppliedTyped
  <2>2. /\ v["state"] = IF e.type = "snapshot" THEN e.data.state
                       ELSE IF e.type = "state" THEN e.data ELSE view.state
        /\ v["candidate"] = IF e.type = "snapshot" THEN e.data.candidate
                           ELSE IF e.type = "candidate" THEN e.data ELSE view.candidate
    BY <1>4, <1>5, <2>1, AppliedTyped
  <2> QED
    BY <1>2, <2>1, <2>2
<1>7. TypeInv'
  <2>1. panel' \in [kind : Session!States \cup {"none"}, rows : Rows \cup {Nothing}]
    <3>1. Panel(Applied(view, e)) \in
              [kind : Session!States \cup {"none"}, rows : Rows \cup {Nothing}]
      BY <1>2, <1>6, Drawn
    <3> QED
      BY <1>2, <1>4, <3>1
  <2>2. reopened' \in BOOLEAN /\ stale' \in BOOLEAN
    BY <1>3, <1>4
  <2>3. Len(queue') <= QueueSize
    BY <1>5, Types, KioskAssumption
  <2> QED
    BY <1>2, <1>5, <1>6, <2>1, <2>2, <2>3, Types, TypesNext
<1>8. CandidateInv'
  BY <1>2 DEF IInv, CandidateInv
<1>9. PanelInv'
  <2>1. CASE e.type = "candidate" /\ view.state # Form /\ panel' = panel
    BY <1>6, <2>1 DEF IInv, PanelInv, Form
  <2>2. CASE panel' = Panel(Applied(view, e))
    <3>1. panel'.kind = view'.state
          /\ (view'.state = Form => panel'.rows = view'.candidate)
      BY <1>2, <1>6, <2>2, Drawn
    <3> QED
      BY <3>1 DEF PanelInv
  <2> QED
    BY <1>2, <2>1, <2>2
<1>10. StateInv'
  <2> SUFFICES ASSUME open', ~stale', ~reopened' \/ Bringing(queue', "state") # {}
               PROVE  Latest(view', queue', "state") = state'
    BY DEF StateInv
  <2>1. ~stale
    BY <1>3, <1>4
  <2>2. ~reopened \/ e.type # "candidate" \/ Bringing(queue', "state") # {}
    BY <1>3, <1>4
  <2>3. ~reopened \/ Bringing(queue, "state") # {}
    BY <1>1, <1>2, <1>4, <1>5, <2>2, BringingTail, EventTyped
  <2>4. Latest(view, queue, "state") = state
    BY <1>2, <2>1, <2>3 DEF IInv, StateInv
  <2>5. Latest(Applied(view, e), Tail(queue), "state") = Latest(view, queue, "state")
    BY <1>1, <1>2, <1>4, LatestApplied
  <2> QED
    BY <1>2, <2>4, <2>5
<1>11. RowsInv'
  <2> SUFFICES ASSUME open', ~stale', candidate' # Nothing
               PROVE  /\ Latest(view', queue', "candidate") # Nothing
                      /\ Latest(view', queue', "candidate").search = candidate'.search
    BY DEF RowsInv
  <2>1. ~stale
    BY <1>3, <1>4
  <2>2. /\ Latest(view, queue, "candidate") # Nothing
        /\ Latest(view, queue, "candidate").search = candidate.search
    BY <1>2, <2>1 DEF IInv, RowsInv
  <2>3. Latest(Applied(view, e), Tail(queue), "candidate") = Latest(view, queue, "candidate")
    BY <1>1, <1>2, <1>4, LatestApplied
  <2> QED
    BY <1>2, <2>2, <2>3
<1>12. Announced =>
          \/ /\ e = State(Form) /\ queue' = <<Candidate(candidate)>> /\ Announced'
          \/ /\ e = Candidate(candidate) /\ queue' = <<>> /\ ~Announced' /\ view.state = Form
  <2> SUFFICES ASSUME Announced
               PROVE  \/ /\ e = State(Form) /\ queue' = <<Candidate(candidate)>> /\ Announced'
                      \/ /\ e = Candidate(candidate) /\ queue' = <<>> /\ ~Announced'
                         /\ view.state = Form
    OBVIOUS
  <2>1. CASE queue = <<State(Form), Candidate(candidate)>>
    <3>1. e = State(Form) /\ queue' = <<Candidate(candidate)>>
      BY <1>1, <1>2, <2>1
    <3> QED
      BY <3>1 DEF Announced, Candidate
  <2>2. CASE /\ queue = <<Candidate(candidate)>>
             /\ ~reopened /\ panel = [kind |-> Form, rows |-> view.candidate]
    <3>1. e = Candidate(candidate) /\ queue' = <<>>
      BY <1>1, <1>2, <2>2
    <3>2. view.state = Form
      BY <2>2 DEF IInv, PanelInv, Form
    <3> QED
      BY <3>1, <3>2 DEF Announced
  <2> QED
    BY <2>1, <2>2 DEF IInv, AnnounceInv
<1>13. Announced' => Announced
  BY <1>5 DEF Announced
<1>14. AnnounceInv'
  <2> SUFFICES ASSUME Announced'
               PROVE  /\ state' = Form /\ task' = "none" /\ wire' = <<>> /\ ~timer'
                      /\ get'.kind = "none"
                      /\ queue' = <<Candidate(candidate')>> /\ ~reopened'
                      /\ panel' = [kind |-> Form, rows |-> view'.candidate]
    BY DEF AnnounceInv
  <2>1. /\ e = State(Form) /\ queue' = <<Candidate(candidate)>>
    BY <1>12, <1>13
  <2>2. /\ state = Form /\ task = "none" /\ wire = <<>> /\ ~timer /\ get.kind = "none"
    BY <1>13 DEF IInv, AnnounceInv
  <2>3. e.type = "state" /\ e.data = Form
    BY <2>1 DEF State
  <2>4. view'.state = Form
    BY <1>6, <2>3
  <2>5. panel' = [kind |-> Form, rows |-> view'.candidate]
    BY <1>2, <1>6, <2>3, <2>4, Drawn
  <2>6. ~reopened'
    BY <1>3, <2>3
  <2> QED
    BY <1>2, <2>1, <2>2, <2>5, <2>6
<1>15. SnapshotInv'
  <2> SUFFICES ASSUME open, state = Form, ~Announced'
               PROVE  queue' = <<>>
    BY <1>2 DEF SnapshotInv
  <2>1. Announced \/ Len(queue) = 1
    BY <1>2 DEF IInv, SnapshotInv
  <2>2. Len(queue) = 1 => queue' = <<>>
    BY <1>5
  <2> QED
    BY <1>12, <2>1, <2>2
<1>16. EditsInv'
  <2> SUFFICES ASSUME queue' = <<>>, ~stale', ~reopened', ~timer, panel'.kind = Form
               PROVE  EditsOf(wire) = {} /\ panel'.rows = candidate
    BY <1>2 DEF EditsInv
  <2>1. view'.state = Form
    BY <1>9 DEF PanelInv, Form
  <2>2. state = Form
    <3>1. Latest(view', queue', "state") = state
      BY <1>2, <1>10 DEF StateInv
    <3>2. Latest(view', queue', "state") = view'["state"]
      <4>1. PICK p : p = <<>>
        OBVIOUS
      <4>2. PICK v : v = view'
        OBVIOUS
      <4>3. Latest(v, p, "state") = v["state"]
        BY <4>1, LatestOfNone
      <4> QED
        BY <4>1, <4>2, <4>3
    <3> QED
      BY <2>1, <3>1, <3>2
  <2>3. candidate # Nothing
    BY <2>2 DEF IInv, CandidateInv
  <2>4. CASE Announced
    <3>1. e = Candidate(candidate) /\ view.state = Form /\ wire = <<>>
      BY <1>12, <2>4 DEF IInv, AnnounceInv
    <3>2. e.type = "candidate" /\ e.data = candidate
      BY <3>1 DEF Candidate
    <3>3. view'.candidate = candidate
      BY <1>6, <3>2
    <3>4. panel'.rows = view'.candidate
      BY <1>2, <1>6, <2>1, <3>1, Drawn
    <3>5. EditsOf(wire) = {}
      BY <3>1 DEF EditsOf
    <3> QED
      BY <3>3, <3>4, <3>5
  <2>5. CASE ~Announced
    <3>1. e.type = "snapshot"
      BY <1>2, <1>5, <2>2, <2>5 DEF IInv, SnapshotInv
    <3>2. ~Crossed(e.data)
      BY <1>3, <1>4, <3>1
    <3>3. view'.candidate = e.data.candidate
      BY <1>6, <3>1
    <3>4. panel'.rows = view'.candidate
      BY <1>2, <1>6, <2>1, <3>1, Drawn
    <3>5. view'.candidate # Nothing /\ view'.candidate.search = candidate.search
      <4>1. PICK p : p = <<>>
        OBVIOUS
      <4>2. PICK v : v = view'
        OBVIOUS
      <4>3. Latest(v, p, "candidate") = v["candidate"]
        BY <4>1, LatestOfNone
      <4>4. /\ Latest(view', queue', "candidate") # Nothing
            /\ Latest(view', queue', "candidate").search = candidate.search
        BY <1>2, <1>11, <2>3 DEF RowsInv
      <4> QED
        BY <4>1, <4>2, <4>3, <4>4
    <3>6. e.data.candidate = candidate
      BY <2>3, <3>2, <3>3, <3>5 DEF Crossed
    <3>7. EditsOf(wire) = {}
      BY <3>2 DEF Crossed, EditsOf
    <3> QED
      BY <3>3, <3>4, <3>6, <3>7
  <2> QED
    BY <2>4, <2>5
<1> QED
  BY <1>7, <1>8, <1>9, <1>10, <1>11, <1>14, <1>15, <1>16 DEF IInv

LEMMA LoadedStep == IInv /\ Loaded => IInv'
<1> SUFFICES ASSUME IInv, Loaded
             PROVE  IInv'
  OBVIOUS
<1>1. PICK d : d = get.data
  OBVIOUS
<1>2. /\ get.kind = "answered" /\ get' = NoGet /\ view' = d /\ panel' = Panel(d)
      /\ UNCHANGED <<state, task, candidate, search, open, queue, wire, timer, trouble>>
  BY <1>1 DEF Loaded, Render, session
<1>3. /\ reopened' = FALSE
      /\ stale' = (stale \/ d # Snapshot \/ Crossed(d) \/ Overtook)
  BY <1>1 DEF Loaded
<1>4. d \in Views /\ stale \in BOOLEAN /\ queue \in Seq(Events)
  BY <1>1, Types
<1>5. /\ Panel(d) \in [kind : Session!States \cup {"none"}, rows : Rows \cup {Nothing}]
      /\ Panel(d).kind = d.state
      /\ d.state = Form => Panel(d) = [kind |-> Form, rows |-> d.candidate]
  BY <1>4, Drawn
<1>6. TypeInv'
  <2>1. NoGet \in [kind : {"none", "sent", "answered"}, data : Views]
    BY DEF NoGet, Nowhere, Views, Session!States
  <2>2. reopened' \in BOOLEAN /\ stale' \in BOOLEAN
    BY <1>3, <1>4
  <2> QED
    BY <1>2, <1>4, <1>5, <2>1, <2>2, Types, TypesNext
<1>7. ~Announced /\ ~Announced'
  <2>1. ~Announced
    BY <1>2 DEF IInv, AnnounceInv
  <2> QED
    BY <1>2, <2>1 DEF Announced
<1>8. CandidateInv' /\ SnapshotInv'
  BY <1>2, <1>7 DEF IInv, CandidateInv, SnapshotInv
<1>9. AnnounceInv'
  BY <1>7 DEF AnnounceInv
<1>10. PanelInv'
  BY <1>2, <1>5 DEF PanelInv
<1>11. ~stale' => /\ ~stale /\ ~Crossed(d)
                  /\ d["state"] = state /\ d["candidate"] = candidate
  <2>1. ~stale' => ~stale /\ ~Crossed(d) /\ d = Snapshot
    BY <1>3, <1>4
  <2> QED
    BY <2>1 DEF Snapshot
<1>12. StateInv'
  <2> SUFFICES ASSUME open, ~stale'
               PROVE  Latest(d, queue, "state") = state
    BY <1>2 DEF StateInv
  <2>1. CASE Bringing(queue, "state") = {}
    BY <1>11, <2>1 DEF Latest
  <2>2. CASE Bringing(queue, "state") # {}
    <3>1. Latest(view, queue, "state") = state
      BY <1>11, <2>2 DEF IInv, StateInv
    <3> QED
      BY <2>2, <3>1 DEF Latest
  <2> QED
    BY <2>1, <2>2
<1>13. RowsInv'
  <2> SUFFICES ASSUME open, ~stale', candidate # Nothing
               PROVE  /\ Latest(d, queue, "candidate") # Nothing
                      /\ Latest(d, queue, "candidate").search = candidate.search
    BY <1>2 DEF RowsInv
  <2>1. CASE Bringing(queue, "candidate") = {}
    BY <1>11, <2>1 DEF Latest
  <2>2. CASE Bringing(queue, "candidate") # {}
    <3>1. /\ Latest(view, queue, "candidate") # Nothing
          /\ Latest(view, queue, "candidate").search = candidate.search
      BY <1>11 DEF IInv, RowsInv
    <3> QED
      BY <2>2, <3>1 DEF Latest
  <2> QED
    BY <2>1, <2>2
<1>14. EditsInv'
  <2> SUFFICES ASSUME ~stale', panel'.kind = Form
               PROVE  EditsOf(wire) = {} /\ panel'.rows = candidate
    BY <1>2 DEF EditsInv
  <2>1. panel'.rows = candidate
    BY <1>2, <1>5, <1>11
  <2>2. EditsOf(wire) = {}
    BY <1>11 DEF Crossed, EditsOf
  <2> QED
    BY <2>1, <2>2
<1> QED
  BY <1>6, <1>8, <1>9, <1>10, <1>12, <1>13, <1>14 DEF IInv

LEMMA PushStep == IInv /\ Push => IInv'
<1> SUFFICES ASSUME IInv, Push
             PROVE  IInv'
  OBVIOUS
<1>1. /\ timer /\ timer' = FALSE
      /\ UNCHANGED <<state, task, candidate, search, open, queue, stale, get, view, panel,
                     reopened, trouble>>
  BY DEF Push, session, link
<1>2. PICK r : r = [kind |-> "edits", rows |-> panel.rows]
  OBVIOUS
<1>3. \/ /\ panel.kind = Form /\ panel.rows # Nothing /\ Len(wire) < MaxWire
         /\ wire' = Append(wire, r)
      \/ ~(panel.kind = Form /\ panel.rows # Nothing) /\ wire' = wire
  BY <1>2 DEF Push, gatherEdits, Form
<1>4. wire \in Seq(Requests) /\ Len(wire) <= MaxWire /\ MaxWire \in Nat /\ Len(wire) \in Nat
  BY Types, KioskAssumption
<1>5. panel.rows # Nothing => r \in Requests /\ r.kind = "edits" /\ r.rows = panel.rows
  <2>1. panel.rows \in Rows \cup {Nothing}
    BY Types
  <2> QED
    BY <1>2, <2>1 DEF Requests
<1>6. wire' \in Seq(Requests) /\ Len(wire') <= MaxWire
  <2>1. CASE wire' = Append(wire, r) /\ panel.rows # Nothing /\ Len(wire) < MaxWire
    <3>1. Append(wire, r) \in Seq(Requests) /\ Len(Append(wire, r)) = Len(wire) + 1
      BY <1>4, <1>5, <2>1
    <3> QED
      BY <1>4, <2>1, <3>1
  <2> QED
    BY <1>3, <1>4, <2>1
<1>7. TypeInv'
  BY <1>1, <1>6, Types, TypesNext
<1>8. CandidateInv' /\ StateInv' /\ RowsInv' /\ PanelInv' /\ SnapshotInv'
  BY <1>1 DEF IInv, CandidateInv, StateInv, RowsInv, PanelInv, SnapshotInv, Announced
<1>9. AnnounceInv'
  BY <1>1 DEF IInv, AnnounceInv, Announced
<1>10. EditsInv'
  <2> SUFFICES ASSUME open, queue = <<>>, ~stale, ~reopened, panel.kind = Form
               PROVE  Posted(wire', panel.rows.labels)
    BY <1>1 DEF EditsInv
  <2>1. panel.rows # Nothing
    BY FormShown, NothingAssumption
  <2> QED
    BY <1>3, <1>4, <1>5, <2>1, EditsAppended
<1> QED
  BY <1>7, <1>8, <1>9, <1>10 DEF IInv

-----------------------------------------------------------------------------
(* Each step of the operator.                                              *)

LEMMA TypeStep == IInv /\ Type => IInv'
<1> SUFFICES ASSUME IInv, Type
             PROVE  IInv'
  OBVIOUS
<1>1. PICK l \in Labels : panel' = [panel EXCEPT !.rows.labels = l]
  BY DEF Type
<1>2. /\ queue = <<>> /\ panel.kind = Form /\ panel.rows # Nothing /\ timer' = TRUE
      /\ UNCHANGED <<state, task, candidate, search, open, queue, stale, get, wire, view,
                     reopened, trouble>>
  BY DEF Type, Attentive, session, link, Form
<1>3. panel \in [kind : Session!States \cup {"none"}, rows : Rows \cup {Nothing}]
      /\ panel.rows \in Rows
  BY <1>2, Types
<1>4. /\ panel' \in [kind : Session!States \cup {"none"}, rows : Rows \cup {Nothing}]
      /\ panel'.kind = Form /\ panel'.rows \in Rows /\ panel'.rows.search = panel.rows.search
  <2>1. panel' = [kind |-> Form, rows |-> [search |-> panel.rows.search, labels |-> l]]
    BY <1>1, <1>2, <1>3 DEF Rows
  <2>2. [search |-> panel.rows.search, labels |-> l] \in Rows
    BY <1>3 DEF Rows
  <2> QED
    BY <2>1, <2>2 DEF Form, Session!States
<1>5. panel'.rows # Nothing
  BY <1>4, NothingAssumption
<1>6. TypeInv'
  BY <1>2, <1>4, Types, TypesNext
<1>7. CandidateInv' /\ StateInv' /\ RowsInv' /\ SnapshotInv'
  BY <1>2 DEF IInv, CandidateInv, StateInv, RowsInv, SnapshotInv, Announced
<1>8. PanelInv'
  BY <1>2, <1>4, <1>5 DEF IInv, PanelInv, Form
<1>9. AnnounceInv'
  BY <1>2 DEF AnnounceInv, Announced
<1>10. EditsInv'
  BY <1>2 DEF EditsInv
<1> QED
  BY <1>6, <1>7, <1>8, <1>9, <1>10 DEF IInv

LEMMA TapStep == IInv /\ Tap => IInv'
<1> SUFFICES ASSUME IInv, Tap
             PROVE  IInv'
  OBVIOUS
<1>1. PICK b \in Buttons : wire' = Append(wire, [kind |-> b])
  BY DEF Tap
<1>2. /\ queue = <<>> /\ Len(wire) < MaxWire
      /\ UNCHANGED <<state, task, candidate, search, open, queue, stale, get, view, panel,
                     timer, reopened, trouble>>
  BY DEF Tap, Attentive, session, link, page
<1>3. b \in {"start", "confirm", "retry", "reset"}
  BY DEF Buttons, Done
<1>4. PICK r : r = [kind |-> b]
  OBVIOUS
<1>5. r \in Requests /\ r.kind # "edits" /\ wire' = Append(wire, r)
  BY <1>1, <1>3, <1>4 DEF Requests
<1>6. wire \in Seq(Requests) /\ MaxWire \in Nat /\ Len(wire) \in Nat
  BY Types, KioskAssumption
<1>7. wire' \in Seq(Requests) /\ Len(wire') <= MaxWire
  <2>1. Append(wire, r) \in Seq(Requests) /\ Len(Append(wire, r)) = Len(wire) + 1
    BY <1>5, <1>6
  <2> QED
    BY <1>2, <1>5, <1>6, <2>1
<1>8. TypeInv'
  BY <1>2, <1>7, Types, TypesNext
<1>9. CandidateInv' /\ StateInv' /\ RowsInv' /\ PanelInv' /\ SnapshotInv'
  BY <1>2 DEF IInv, CandidateInv, StateInv, RowsInv, PanelInv, SnapshotInv, Announced
<1>10. AnnounceInv'
  BY <1>2 DEF AnnounceInv, Announced
<1>11. EditsInv'
  <2> SUFFICES ASSUME open, queue = <<>>, ~stale, ~reopened, ~timer, panel.kind = Form
               PROVE  \/ EditsOf(wire') = {} /\ panel.rows = candidate
                      \/ Posted(wire', panel.rows.labels)
    BY <1>2 DEF EditsInv
  <2>1. (EditsOf(wire) = {} /\ panel.rows = candidate) \/ Posted(wire, panel.rows.labels)
    BY DEF IInv, EditsInv
  <2> QED
    BY <1>5, <1>6, <2>1, EditsAppended
<1> QED
  BY <1>8, <1>9, <1>10, <1>11 DEF IInv

LEMMA EditInputsStep == IInv /\ EditInputs => IInv'
<1> SUFFICES ASSUME IInv, EditInputs
             PROVE  IInv'
  OBVIOUS
<1>1. PICK v : v = [view EXCEPT !.state = Form]
  OBVIOUS
<1>2. /\ queue = <<>> /\ view' = v /\ panel' = Panel(v) /\ reopened' = TRUE
      /\ UNCHANGED <<state, task, candidate, search, open, queue, stale, get, wire, timer,
                     trouble>>
  BY <1>1 DEF EditInputs, Attentive, Render, session, link, Form
<1>3. v \in Views /\ v.state = Form /\ v.candidate = view.candidate
  BY <1>1, Types DEF Views, Form, Session!States
<1>4. /\ panel' \in [kind : Session!States \cup {"none"}, rows : Rows \cup {Nothing}]
      /\ panel' = [kind |-> Form, rows |-> v.candidate]
  BY <1>2, <1>3, Drawn
<1>5. TypeInv'
  BY <1>2, <1>3, <1>4, Types, TypesNext
<1>6. CandidateInv' /\ SnapshotInv'
  BY <1>2 DEF IInv, CandidateInv, SnapshotInv, Announced
<1>7. StateInv'
  BY <1>2, LatestOfNone DEF StateInv
<1>8. RowsInv'
  <2>1. Latest(v, <<>>, "candidate") = v["candidate"]
        /\ Latest(view, <<>>, "candidate") = view["candidate"]
    BY LatestOfNone
  <2>2. Latest(v, queue, "candidate") = Latest(view, queue, "candidate")
    BY <1>2, <1>3, <2>1
  <2> QED
    BY <1>2, <2>2 DEF IInv, RowsInv
<1>9. PanelInv'
  BY <1>2, <1>3, <1>4 DEF PanelInv
<1>10. AnnounceInv'
  BY <1>2 DEF AnnounceInv, Announced
<1>11. EditsInv'
  BY <1>2 DEF EditsInv
<1> QED
  BY <1>5, <1>6, <1>7, <1>8, <1>9, <1>10, <1>11 DEF IInv

-----------------------------------------------------------------------------
(* Each trouble.                                                           *)

(* Nothing is promised of a page without a socket. *)
LEMMA Closed ==
    ASSUME open' = FALSE, queue' = <<>>
    PROVE  StateInv' /\ RowsInv' /\ AnnounceInv' /\ SnapshotInv' /\ EditsInv'
  BY DEF StateInv, RowsInv, AnnounceInv, Announced, SnapshotInv, EditsInv

LEMMA TroubleStep == IInv /\ (Disconnect \/ Reload \/ ServiceRestart) => IInv'
<1> SUFFICES ASSUME IInv, Disconnect \/ Reload \/ ServiceRestart
             PROVE  IInv'
  OBVIOUS
<1>1. open' = FALSE /\ queue' = <<>> /\ UNCHANGED stale /\ trouble' \in 0..MaxTrouble
  <2>1. /\ trouble < MaxTrouble /\ trouble' = trouble + 1
        /\ open' = FALSE /\ queue' = <<>> /\ UNCHANGED stale
    BY DEF Disconnect, Reload, ServiceRestart, Trouble, Disconnected
  <2> QED
    BY <2>1, Types, KioskAssumption
<1>2. StateInv' /\ RowsInv' /\ AnnounceInv' /\ SnapshotInv' /\ EditsInv'
  BY <1>1, Closed
<1>3. queue' \in Seq(Events) /\ Len(queue') <= QueueSize /\ <<>> \in Seq(Requests)
      /\ Len(<<>>) <= MaxWire
  <2>1. queue' \in Seq(Events) /\ Len(queue') = 0
    BY <1>1
  <2> QED
    BY <2>1, KioskAssumption
<1>4. "idle" \in Session!States /\ "none" \in Session!Tasks /\ 0 \in 0..MaxSearch
  BY KioskAssumption DEF Session!States, Session!Tasks
<1>5. CASE Disconnect
  <2>1. UNCHANGED <<state, task, candidate, search, get, wire, view, panel, timer, reopened>>
    BY <1>5 DEF Disconnect, session, page
  <2>2. TypeInv'
    BY <1>1, <1>3, <2>1, Types, TypesNext
  <2>3. CandidateInv' /\ PanelInv'
    BY <2>1 DEF IInv, CandidateInv, PanelInv
  <2> QED
    BY <1>2, <2>2, <2>3 DEF IInv
<1>6. CASE Reload
  <2>1. /\ UNCHANGED <<state, task, candidate, search, wire>>
        /\ get' = Asked /\ view' = Nowhere /\ panel' = [kind |-> "none", rows |-> Nothing]
        /\ timer' = FALSE /\ reopened' = FALSE
    BY <1>6 DEF Reload, session
  <2>2. /\ Nowhere \in Views
        /\ Asked \in [kind : {"none", "sent", "answered"}, data : Views]
    BY <1>4 DEF Asked, Nowhere, Views
  <2>3. TypeInv'
    BY <1>1, <1>3, <2>1, <2>2, Types, TypesNext
  <2>4. CandidateInv' /\ PanelInv'
    BY <2>1 DEF IInv, CandidateInv, PanelInv, Form
  <2> QED
    BY <1>2, <2>3, <2>4 DEF IInv
<1>7. CASE ServiceRestart
  <2>1. /\ state' = "idle" /\ candidate' = Nothing /\ task' = "none" /\ search' = 0
        /\ wire' = <<>> /\ get' = NoGet /\ UNCHANGED <<view, panel, timer, reopened>>
    BY <1>7 DEF ServiceRestart, Session!Restart, Session!Clear, page
  <2>2. NoGet \in [kind : {"none", "sent", "answered"}, data : Views]
    BY <1>4 DEF NoGet, Nowhere, Views
  <2>3. TypeInv'
    BY <1>1, <1>3, <1>4, <2>1, <2>2, Types, TypesNext
  <2>4. CandidateInv' /\ PanelInv'
    BY <2>1 DEF IInv, CandidateInv, PanelInv, Form
  <2> QED
    BY <1>2, <2>3, <2>4 DEF IInv
<1> QED
  BY <1>5, <1>6, <1>7

-----------------------------------------------------------------------------
LEMMA InitInv == Init => IInv
<1> SUFFICES ASSUME Init
             PROVE  IInv
  OBVIOUS
<1>1. /\ state = "idle" /\ task = "none" /\ candidate = Nothing /\ search = 0
      /\ open = FALSE /\ queue = <<>> /\ get = Asked /\ wire = <<>> /\ view = Nowhere
      /\ panel = [kind |-> "none", rows |-> Nothing]
      /\ timer = FALSE /\ reopened = FALSE /\ stale = FALSE /\ trouble = 0
  BY DEF Init, Session!Init
<1>2. "idle" \in Session!States /\ "none" \in Session!Tasks
  BY DEF Session!States, Session!Tasks
<1>3. Nowhere \in Views /\ Asked \in [kind : {"none", "sent", "answered"}, data : Views]
  BY <1>2 DEF Asked, Nowhere, Views
<1>4. /\ queue \in Seq(Events) /\ wire \in Seq(Requests)
      /\ Len(queue) <= QueueSize /\ Len(wire) <= MaxWire
      /\ search \in 0..MaxSearch /\ trouble \in 0..MaxTrouble
  BY <1>1, KioskAssumption
<1>5. TypeInv
  BY <1>1, <1>2, <1>3, <1>4, Flags DEF TypeInv
<1>6. CandidateInv /\ PanelInv /\ StateInv /\ RowsInv /\ AnnounceInv /\ SnapshotInv /\ EditsInv
  BY <1>1 DEF CandidateInv, PanelInv, StateInv, RowsInv, AnnounceInv, Announced, SnapshotInv,
              EditsInv, Form
<1> QED
  BY <1>5, <1>6 DEF IInv

LEMMA StutterStep == IInv /\ UNCHANGED vars => IInv'
<1> SUFFICES ASSUME IInv, UNCHANGED vars
             PROVE  IInv'
  OBVIOUS
<1>1. UNCHANGED <<state, task, candidate, search, open, queue, stale, get, wire, view, panel,
                  timer, reopened, trouble>>
  BY DEF vars, session, page, link
<1>2. TypeInv'
  BY <1>1, Types, TypesNext
<1>3. CandidateInv' /\ StateInv' /\ RowsInv' /\ PanelInv' /\ SnapshotInv' /\ EditsInv'
  BY <1>1 DEF IInv, CandidateInv, StateInv, RowsInv, PanelInv, SnapshotInv, Announced, EditsInv
<1>4. AnnounceInv'
  BY <1>1 DEF IInv, AnnounceInv, Announced
<1> QED
  BY <1>2, <1>3, <1>4 DEF IInv

LEMMA Inductive == Spec => []IInv
<1>1. IInv /\ [Next]_vars => IInv'
  BY TaskStep, HandleStep, AnswerStep, ConnectStep, DeliverStep, LoadedStep, PushStep, TypeStep,
     TapStep, EditInputsStep, TroubleStep, StutterStep DEF Next, Page
<1> QED
  BY InitInv, <1>1, PTL DEF Spec

-----------------------------------------------------------------------------
(* Each variable has its type, and what is under way keeps within its bound *)
(* (events.py drops for a full queue).                                      *)
THEOREM TypeCorrect == Spec => []TypeOK
<1>1. IInv => TypeOK
  BY DEF IInv, TypeInv
<1> QED
  BY Inductive, <1>1, PTL

(* With all that is under way drawn, the page shows the state of the        *)
(* session, and in the form the rows of its device, at whatever moment it   *)
(* connected and whatever was lost before (main.py, /ws; app.js, apply).    *)
THEOREM Follows == Spec => []PageFollows
<1>1. IInv => PageFollows
  <2> SUFFICES ASSUME IInv, open, ~stale, ~reopened
               PROVE  /\ Coming.state = state
                      /\ state = Form => /\ candidate # Nothing
                                         /\ Coming.candidate.search = candidate.search
    BY DEF PageFollows, Form
  <2>1. /\ Coming.state = Latest(view, queue, "state")
        /\ Coming.candidate = Latest(view, queue, "candidate")
    BY DEF Coming
  <2> QED
    BY <2>1 DEF IInv, StateInv, RowsInv, CandidateInv
<1> QED
  BY Inductive, <1>1, PTL

(* The form shows rows of the device that a Confirm would onboard, also when*)
(* "Edit inputs" opened it again (app.js, render and the buttons).          *)
THEOREM DeviceShown == Spec => []FormOfDevice
<1>1. IInv => FormOfDevice
  <2> SUFFICES ASSUME IInv, open, queue = <<>>, ~stale, panel.kind = Form, panel.rows # Nothing,
                      candidate # Nothing
               PROVE  panel.rows.search = candidate.search
    BY DEF FormOfDevice, Form
  <2>1. view["candidate"] # Nothing /\ view["candidate"].search = candidate.search
    BY LatestOfNone DEF IInv, RowsInv
  <2> QED
    BY <2>1 DEF IInv, PanelInv
<1> QED
  BY Inductive, <1>1, PTL

(* Once nothing is typed or posted any more the session has the labels that *)
(* the form shows (app.js, pushEdits; orchestrator.py, update_operator_input).*)
THEOREM Arrive == Spec => []EditsArrive
<1>1. IInv => EditsArrive
  <2> SUFFICES ASSUME IInv, open, queue = <<>>, ~stale, ~reopened, ~timer, wire = <<>>,
                      panel.kind = Form
               PROVE  panel.rows = candidate
    BY DEF EditsArrive, Form
  <2>1. (EditsOf(wire) = {} /\ panel.rows = candidate) \/ Posted(wire, panel.rows.labels)
    BY DEF IInv, EditsInv
  <2>2. EditsOf(wire) = {}
    BY DEF EditsOf
  <2> QED
    BY <2>1, <2>2 DEF Posted
<1> QED
  BY Inductive, <1>1, PTL

(* No candidate event draws a form anew in which the operator has typed     *)
(* (orchestrator.py, update_operator_input: the edits are not echoed).      *)
THEOREM Survives == Spec => TypingSurvives
<1>1. IInv => ( Deliver /\ Head(queue).type = "candidate" /\ panel.kind = Form
                    /\ panel.rows \notin {Nothing, view.candidate} => panel' = panel )
  <2> SUFFICES ASSUME IInv, Deliver, Head(queue).type = "candidate", panel.kind = Form,
                      panel.rows \notin {Nothing, view.candidate}
               PROVE  FALSE
    OBVIOUS
  <2>1. queue \in Seq(Events) /\ queue # <<>>
    BY Types DEF Deliver
  <2>2. Announced
    <3>1. 1 \in DOMAIN queue /\ queue[1] = Head(queue)
      BY <2>1
    <3> QED
      BY <3>1 DEF Announced
  <2>3. CASE queue = <<State(Form), Candidate(candidate)>>
    BY <2>3 DEF State
  <2>4. CASE panel = [kind |-> Form, rows |-> view.candidate]
    BY <2>4
  <2> QED
    BY <2>2, <2>3, <2>4 DEF IInv, AnnounceInv
<1>2. IInv => [ Deliver /\ Head(queue).type = "candidate" /\ panel.kind = "preparing_profile"
                    /\ panel.rows \notin {Nothing, view.candidate} => panel' = panel ]_vars
  BY <1>1 DEF Form
<1> QED
  BY Inductive, <1>2, PTL DEF TypingSurvives
=============================================================================
