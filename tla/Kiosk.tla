-------------------------------- MODULE Kiosk --------------------------------
(***************************************************************************)
(* The operator's page (pi-scanner/web/app.js) on top of the session: it   *)
(* keeps a copy of the session, which a socket brings up to date with a    *)
(* snapshot and then with events (events.py, main.py), draws a panel from  *)
(* the copy, and posts what the operator types and taps.                   *)
(*                                                                         *)
(* Requests are handled in the order in which the page makes them, except  *)
(* the one for the session at page load, which a thread answers.  Log and  *)
(* error events only add to the log and are left out.                      *)
(***************************************************************************)
EXTENDS Naturals, SequencesExt

CONSTANTS
    MaxSearch, \* bound: searches (TLC only)
    Labels,    \* what may stand in the rows of the form
    Blank,     \* the labels that inference proposes: none
    QueueSize, \* events that a connection holds; 1000 in the code
    MaxWire,   \* bound: requests under way (TLC only)
    MaxTrouble,\* bound: lost connections, reloads, restarts (TLC only)
    Nothing

ASSUME KioskAssumption ==
    /\ MaxSearch \in Nat \ {0} /\ Blank \in Labels
    /\ QueueSize \in Nat \ {0, 1} /\ MaxWire \in Nat \ {0} /\ MaxTrouble \in Nat

VARIABLES
    state, task, candidate, artifacts, \* the session
    search,    \* searches so far; the port is known after the first
    open,      \* the page's socket is
    queue,     \* snapshot and events on their way to the page
    get,       \* the page's request for the session: [kind, data], data the answer
    wire,      \* requests of the page not handled yet
    view,      \* the page's copy of the session
    panel,     \* what it shows: [kind, rows]
    timer,     \* the debounce timer of edits runs
    reopened,  \* history: "Edit inputs" was tapped and no state came since
    stale,     \* history: since the socket opened, an event was dropped, an old session
               \* drawn, or a snapshot crossed edits or overtook a candidate
    trouble    \* troubles so far

session == <<state, task, candidate, artifacts, search>>
page == <<view, panel, timer, reopened>>
link == <<open, queue, stale>>
vars == <<session, page, link, get, wire, trouble>>

Rows == [search : 1..MaxSearch, labels : Labels]
ASSUME NothingAssumption == Nothing \notin Rows

Session == INSTANCE Session WITH Candidates <- Rows, Profiles <- {Nothing}

Nowhere == [state |-> "idle", candidate |-> Nothing]
NoGet == [kind |-> "none", data |-> Nowhere]
Asked == [kind |-> "sent", data |-> Nowhere]
Snapshot == [state |-> state, candidate |-> candidate]

-----------------------------------------------------------------------------
(* Events *)

State(s) == [type |-> "state", data |-> s]
Candidate(c) == [type |-> "candidate", data |-> c]

Unbounded(events) ==
    IF ~open THEN UNCHANGED link
    ELSE queue' = queue \o events /\ UNCHANGED <<open, stale>>

(* An event for which a full queue has no room is dropped. *)
Emit(events) ==
    IF ~open THEN UNCHANGED link
    ELSE LET room == QueueSize - Len(queue) IN
         /\ queue' = queue \o SubSeq(events, 1, IF room < Len(events) THEN room ELSE Len(events))
         /\ stale' = (stale \/ room < Len(events))
         /\ UNCHANGED open

Init ==
    /\ Session!Init /\ search = 0
    /\ open = FALSE /\ queue = <<>> /\ get = Asked /\ wire = <<>>
    /\ view = Nowhere /\ panel = [kind |-> "none", rows |-> Nothing]
    /\ timer = FALSE /\ reopened = FALSE /\ stale = FALSE /\ trouble = 0

-----------------------------------------------------------------------------
(* The session's task *)

Announces(step, events) ==
    /\ step /\ Emit(events)
    /\ UNCHANGED <<search, page, get, wire, trouble>>

(* A search, a build or a check takes seconds: what was under way as it      *)
(* began has arrived.  It may fail at once.                                  *)
Prompt == wire = <<>> /\ queue = <<>> /\ ~timer /\ get.kind = "none"

Task ==
    \/ Announces(Session!BeginSearch, <<State("searching")>>)
    \/ Announces(UNCHANGED candidate /\ Session!Assemble, <<State("flashing")>>)
    \/ /\ Prompt
       /\ \/ Announces(candidate' = [search |-> search, labels |-> Blank] /\ Session!Propose,
                       <<State("preparing_profile"), Candidate(candidate')>>)
          \/ Announces(Session!Package, <<>>)
          \/ Announces(Session!Flashed, <<State("probing")>>)
          \/ Announces(Session!Provisioned, <<State("profiling")>>)
          \/ Announces(Session!Succeed, <<State("success")>>)
    \/ Announces(UNCHANGED candidate /\ Session!Fail, <<State("failed")>>)

-----------------------------------------------------------------------------
(* Requests *)

Refused == UNCHANGED <<session, link>>

(* retry needs the port of an earlier search. *)
HandleStart ==
    \/ Session!StartSearch /\ search < MaxSearch /\ search' = search + 1 /\ Emit(<<State("idle")>>)
    \/ (task # "none" \/ search = MaxSearch) /\ Refused

HandleReset == Session!Reset /\ UNCHANGED search /\ Emit(<<State("idle")>>)

HandleConfirm ==
    \/ Session!Confirm /\ UNCHANGED <<search, link>>
    \/ (task # "none" \/ candidate = Nothing) /\ Refused

(* update_operator_input: apply_edits finds the rows by register, whatever   *)
(* search they are from, and no event tells the page.                        *)
Edits(rows) ==
    /\ candidate # Nothing /\ candidate' = [candidate EXCEPT !.labels = rows.labels]
    /\ Session!Edit
    /\ UNCHANGED search
EchoEdits(rows) ==
    \/ Edits(rows) /\ Emit(<<Candidate(candidate')>>)
    \/ candidate = Nothing /\ Refused
HandleEdits(rows) ==
    \/ Edits(rows) /\ UNCHANGED link
    \/ candidate = Nothing /\ Refused

Handle ==
    /\ wire # <<>> /\ wire' = Tail(wire)
    /\ LET r == Head(wire) IN
        \/ r.kind = "start" /\ HandleStart
        \/ r.kind = "retry" /\ IF search = 0 THEN Refused ELSE HandleStart
        \/ r.kind = "reset" /\ HandleReset
        \/ r.kind = "confirm" /\ HandleConfirm
        \/ r.kind = "edits" /\ HandleEdits(r.rows)
    /\ UNCHANGED <<page, get, trouble>>

(* GET /api/session *)
Answer ==
    /\ get = Asked /\ get' = [kind |-> "answered", data |-> Snapshot]
    /\ UNCHANGED <<session, page, link, wire, trouble>>

(* /ws: subscribe, and the snapshot first, with no await between them. *)
NoSnapshot == queue' = <<>>
SnapshotBefore == \E s \in {Nowhere, Snapshot} : queue' = <<[type |-> "snapshot", data |-> s]>>
Subscribe == queue' = <<[type |-> "snapshot", data |-> Snapshot]>>
Connect ==
    /\ ~open /\ open' = TRUE
    /\ Subscribe
    /\ stale' = FALSE
    /\ UNCHANGED <<session, page, get, wire, trouble>>

-----------------------------------------------------------------------------
(* The page *)

OncePerState(v) ==
    IF v.state = panel.kind THEN panel
    ELSE [kind |-> v.state,
          rows |-> IF v.state = "preparing_profile" THEN v.candidate ELSE Nothing]

(* render: a panel is drawn anew for another state, the form always. *)
Panel(v) ==
    IF v.state = panel.kind /\ v.state # "preparing_profile" THEN panel
    ELSE [kind |-> v.state,
          rows |-> IF v.state = "preparing_profile" THEN v.candidate ELSE Nothing]
Render(v) == view' = v /\ panel' = Panel(v)

Applied(v, e) ==
    CASE e.type = "snapshot" -> e.data
      [] e.type = "state" -> [v EXCEPT !.state = e.data]
      [] e.type = "candidate" -> [v EXCEPT !.candidate = e.data]

(* A snapshot without the edits that the page has posted, or its own older. *)
Crossed(s) ==
    \/ \E i \in DOMAIN wire : wire[i].kind = "edits"
    \/ /\ Nothing \notin {candidate, s.candidate} /\ s.candidate # candidate
       /\ s.candidate.search = candidate.search

Deliver ==
    /\ open /\ queue # <<>> /\ queue' = Tail(queue)
    /\ LET e == Head(queue)  v == Applied(view, Head(queue)) IN
        /\ IF e.type = "candidate" /\ view.state # "preparing_profile"
           THEN view' = v /\ UNCHANGED panel ELSE Render(v)
        /\ reopened' = (reopened /\ e.type = "candidate")
        /\ stale' = (stale \/ (e.type = "snapshot" /\ Crossed(e.data)))
    /\ UNCHANGED <<session, open, get, wire, timer, trouble>>

Overtook == \E i \in DOMAIN queue : queue[i].type = "candidate"

(* The answer to the page's own request replaces the copy, however old. *)
Loaded ==
    /\ get.kind = "answered" /\ get' = NoGet
    /\ Render(get.data)
    /\ stale' = (stale \/ get.data # Snapshot \/ Crossed(get.data) \/ Overtook)
    /\ reopened' = FALSE
    /\ UNCHANGED <<session, open, queue, wire, timer, trouble>>

(* pushEdits, a quarter of a second after the last keystroke: the rows as    *)
(* the form then has them, if there is one.                                  *)
rowsOfCopy == view.candidate
gatherEdits == panel.rows
Push ==
    /\ timer /\ timer' = FALSE
    /\ IF panel.kind = "preparing_profile" /\ panel.rows # Nothing
       THEN /\ Len(wire) < MaxWire
            /\ wire' = Append(wire, [kind |-> "edits", rows |-> gatherEdits])
       ELSE UNCHANGED wire
    /\ UNCHANGED <<session, link, get, view, panel, reopened, trouble>>

Page == Deliver \/ Loaded \/ Push

-----------------------------------------------------------------------------
(* The operator *)

(* A tap or keystroke comes after what was under way to the page: it may     *)
(* still cross what the session sends next.                                  *)
Attentive == queue = <<>> /\ get.kind = "none"

Type ==
    /\ Attentive /\ panel.kind = "preparing_profile" /\ panel.rows # Nothing
    /\ \E l \in Labels \ {panel.rows.labels} : panel' = [panel EXCEPT !.rows.labels = l]
    /\ timer' = TRUE
    /\ UNCHANGED <<session, link, get, wire, view, reopened, trouble>>

Done == {"success", "failed"}
Buttons ==
    CASE panel.kind = "idle" -> {"start"}
      [] panel.kind = "preparing_profile" -> {"confirm", "reset"}
      [] panel.kind \in Done -> {"retry", "reset"}
      [] OTHER -> {}

Tap ==
    /\ Attentive /\ Len(wire) < MaxWire
    /\ \E b \in Buttons : wire' = Append(wire, [kind |-> b])
    /\ UNCHANGED <<session, link, get, page, trouble>>

(* "Edit inputs" shows the form again, of the page's copy. *)
EditInputs ==
    /\ Attentive /\ panel.kind \in Done
    /\ Render([view EXCEPT !.state = "preparing_profile"]) /\ reopened' = TRUE
    /\ UNCHANGED <<session, link, get, wire, timer, trouble>>

-----------------------------------------------------------------------------
Trouble == trouble < MaxTrouble /\ trouble' = trouble + 1
Disconnected == open' = FALSE /\ queue' = <<>> /\ UNCHANGED stale

Disconnect ==
    /\ open /\ Trouble /\ Disconnected
    /\ UNCHANGED <<session, page, get, wire>>

Reload ==
    /\ Trouble /\ Disconnected
    /\ get' = Asked /\ view' = Nowhere /\ panel' = [kind |-> "none", rows |-> Nothing]
    /\ timer' = FALSE /\ reopened' = FALSE
    /\ UNCHANGED <<session, wire>>

(* The service restarts: its session is gone, requests fail. *)
ServiceRestart ==
    /\ Trouble /\ Disconnected
    /\ Session!Restart /\ search' = 0
    /\ wire' = <<>> /\ get' = NoGet
    /\ UNCHANGED page

Next == \/ Task \/ Handle \/ Answer \/ Connect \/ Page
        \/ Type \/ Tap \/ EditInputs
        \/ Disconnect \/ Reload \/ ServiceRestart

Spec == Init /\ [][Next]_vars
(* The event loop runs, steps have deadlines, the page reconnects by a timer.*)
FairSpec == Spec /\ WF_vars(Task) /\ WF_vars(Handle) /\ WF_vars(Answer) /\ WF_vars(Connect)
    /\ WF_vars(Deliver) /\ WF_vars(Loaded) /\ WF_vars(Push)

-----------------------------------------------------------------------------
Views == [state : Session!States, candidate : Rows \cup {Nothing}]
TypeOK ==
    /\ Snapshot \in Views /\ task \in Session!Tasks /\ search \in 0..MaxSearch
    /\ view \in Views /\ get \in [kind : {"none", "sent", "answered"}, data : Views]
    /\ panel \in [kind : Session!States \cup {"none"}, rows : Rows \cup {Nothing}]
    /\ {open, timer, reopened, stale} \subseteq BOOLEAN
    /\ Len(queue) <= QueueSize /\ (~open => queue = <<>>)
    /\ Len(wire) <= MaxWire /\ trouble \in 0..MaxTrouble

(* What the page will show once it has drawn what is on its way: the latest  *)
(* that an event brings, else what it shows already.                         *)
Bringing(q, f) == {i \in DOMAIN q : q[i].type \in {"snapshot", f}}
Latest(v, q, f) ==
    IF Bringing(q, f) = {} THEN v[f]
    ELSE LET e == q[Max(Bringing(q, f))]
         IN  IF e.type = "snapshot" THEN e.data[f] ELSE e.data
Coming == [f \in {"state", "candidate"} |-> Latest(view, queue, f)]

(* A page whose socket is open is going to show the state of the session,   *)
(* and the rows of its device, whenever it connected (main.py:154 of the    *)
(* snapshot: "so a late-joining UI is immediately consistent").             *)
PageFollows ==
    open /\ ~stale /\ ~reopened =>
        /\ Coming.state = state
        /\ state = "preparing_profile" => candidate # Nothing /\ Coming.candidate.search = candidate.search

(* The form never shows the rows of another device than the one a Confirm   *)
(* would onboard, also when it was opened again after a failure.            *)
FormOfDevice ==
    open /\ queue = <<>> /\ ~stale /\ panel.kind = "preparing_profile" /\ panel.rows # Nothing
        /\ candidate # Nothing => panel.rows.search = candidate.search

(* When nothing is being typed or posted, the session has the labels that   *)
(* the form shows: a Confirm then onboards what the operator sees.          *)
EditsArrive ==
    ( /\ open /\ queue = <<>> /\ ~stale /\ ~reopened /\ ~timer /\ wire = <<>>
      /\ panel.kind = "preparing_profile" )
    => panel.rows = candidate

(* A candidate event never draws anew a form in which the operator has      *)
(* typed (orchestrator.py:139-142).                                         *)
TypingSurvives ==
    [][ Deliver /\ Head(queue).type = "candidate" /\ panel.kind = "preparing_profile"
            /\ panel.rows \notin {Nothing, view.candidate}
        => panel' = panel ]_vars

(* The page does not stay on a screen without buttons while it hears of     *)
(* the session: the event that ends a job reaches it.                       *)
BusyScreenEnds == panel.kind \in Session!Busy ~> panel.kind \notin Session!Busy \/ stale
=============================================================================
