------------------------------ MODULE Sidebar ------------------------------
(***************************************************************************)
(* The sessions the monitor shows: from the collector's registration of    *)
(* sessions (backend/collector.py) and the sessions table, which counts    *)
(* events (backend/store.py), through /api/sessions with its status        *)
(* (backend/app.py, backend/status.py) and the messages of the WebSocket,  *)
(* to the sidebar of the page (web/app.js).                                *)
(*                                                                         *)
(* The page has two sources, which overlap: it counts every event message  *)
(* itself, and every ten seconds it takes over what /api/sessions says.    *)
(* LiveFeed has how messages reach the page; here the connection brings    *)
(* the events past maxSeq and then what is new, in order, but for what a   *)
(* full queue drops.                                                       *)
(*                                                                         *)
(* A definition right before another of the same shape, whose name it      *)
(* extends (MergeUncounted, Merge), is that definition with a mistake in   *)
(* the code; the model never uses it (README, Mutants).                    *)
(***************************************************************************)
EXTENDS Naturals, Sequences, FiniteSets, FiniteSetsExt

CONSTANTS
    Event,          \* the events the collector will store, by seq
    MaxPolls,       \* bound: refreshes in flight
    MaxFailures     \* bound: disconnections, restarts, lost messages, repeated
                    \* ones and registrations that fail

Kinds == {"plain", "alert"}
Sessions == {Event[e].session : e \in DOMAIN Event}

ASSUME SidebarAssumption ==
    /\ Event \in Seq([session : STRING, kind : Kinds])
    /\ MaxPolls \in Nat \ {0} /\ MaxFailures \in Nat

VARIABLES
    last,       \* the events table has held 1 .. last
    known,      \* Collector.known_sessions
    row,        \* the sessions table: is a session there, has it a label
    age,        \* windows gone by since each session's last_activity_ms
    missed,     \* history: sessions this process failed to register
    started,    \* init is past loadSessions
    conn,       \* the WebSocket is open
    wire,       \* messages on their way to the page
    maxSeq,     \* state.maxSeq
    entry,      \* state.sessions
    polls,      \* answers to /api/sessions on their way
    failures

serverVars == <<last, known, row, age, missed>>
pageVars == <<started, conn, wire, maxSeq, entry, polls>>
vars == <<serverVars, pageVars, failures>>

(***************************************************************************)
(* The server                                                              *)
(***************************************************************************)

EventsOf(s, kinds) ==
    {e \in 1 .. last : Event[e].session = s /\ Event[e].kind \in kinds}

\* compute_status, which _decorate_session calls with last_error FALSE
Status(s) ==
    IF EventsOf(s, {"alert"}) # {} THEN "ERROR"
    ELSE <<"ACTIVE", "IDLE", "COMPLETED">>[age[s] + 1]

\* A session as the page knows it
Entries == [events : Nat, alerts : Nat, label : {"id", "label"},
            status : {"ACTIVE", "IDLE", "COMPLETED", "ERROR"}]
NoEntry == [events |-> 0, alerts |-> 0, label |-> "none", status |-> "none"]
NewEntry == [events |-> 0, alerts |-> 0, label |-> "id", status |-> "ACTIVE"]

\* A session as /api/sessions has it; without a label the page shows its id.
ServerEntry(s) ==
    [events |-> Cardinality(EventsOf(s, Kinds)),
     alerts |-> Cardinality(EventsOf(s, {"alert"})),
     label |-> IF row[s] = "labelled" THEN "label" ELSE "id",
     status |-> Status(s)]

Snapshot == [s \in Sessions |->
                IF row[s] = "absent" THEN NoEntry ELSE ServerEntry(s)]

Message(kind, s, e) == [kind |-> kind, session |-> s, seq |-> e]

TypeOK ==
    /\ last \in 0 .. Len(Event)
    /\ known \in SUBSET Sessions
    /\ row \in [Sessions -> {"absent", "bare", "labelled"}]
    /\ age \in [Sessions -> 0 .. 2]
    /\ missed \in SUBSET known
    /\ started \in BOOLEAN /\ conn \in BOOLEAN
    /\ wire \in Seq([kind : {"session", "event"}, session : Sessions, seq : 0 .. last])
    /\ maxSeq \in 0 .. last
    /\ entry \in [Sessions -> Entries \cup {NoEntry}]
    /\ polls \in SUBSET [Sessions -> Entries \cup {NoEntry}]
    /\ failures \in 0 .. MaxFailures

Init ==
    /\ last = 0 /\ known = {} /\ missed = {}
    /\ row = [s \in Sessions |-> "absent"]
    /\ age = [s \in Sessions |-> 2]
    /\ started = FALSE /\ conn = FALSE /\ wire = <<>>
    /\ maxSeq = 0
    /\ entry = [s \in Sessions |-> NoEntry]
    /\ polls = {}
    /\ failures = 0

Fail == failures < MaxFailures /\ failures' = failures + 1

\* The hub queues the message for the page, unless its queue is full.
Publish(m) ==
    \/ wire' = (IF conn THEN Append(wire, m) ELSE wire) /\ UNCHANGED failures
    \/ conn /\ Fail /\ UNCHANGED wire

\* last_activity_ms only grows; what is stored may be old.
Touch(s) == \E a \in 0 .. age[s] : age' = [age EXCEPT ![s] = a]

\* poll_once meets a session: upsert_session, and its announcement.  Only a
\* new row takes its last_activity_ms from it.
RegisterNewRow(s) ==
    /\ s \notin known /\ row[s] = "absent" /\ known' = known \cup {s}
    /\ row' = [row EXCEPT ![s] = "labelled"]
    /\ Touch(s)
    /\ Publish(Message("session", s, 0))
    /\ UNCHANGED <<last, missed, started, conn, maxSeq, entry, polls>>
Register(s) ==
    /\ s \notin known /\ known' = known \cup {s}
    /\ row' = [row EXCEPT ![s] = "labelled"]
    /\ IF row[s] = "absent" THEN Touch(s) ELSE UNCHANGED age
    /\ Publish(Message("session", s, 0))
    /\ UNCHANGED <<last, missed, started, conn, maxSeq, entry, polls>>

\* upsert_session raises, out of poll_once; the session stays known.
RegisterFails(s) ==
    /\ s \notin known /\ known' = known \cup {s}
    /\ missed' = missed \cup {s}
    /\ Fail
    /\ UNCHANGED <<last, row, age, pageVars>>

\* insert_event makes a row for a session that has none, and counts.
Insert ==
    /\ last < Len(Event) /\ last' = last + 1
    /\ LET s == Event[last'].session
       IN  /\ s \in known
           /\ row' = [row EXCEPT ![s] = IF @ = "absent" THEN "bare" ELSE @]
           /\ Touch(s)
           /\ Publish(Message("event", s, last'))
    /\ UNCHANGED <<known, missed, started, conn, maxSeq, entry, polls>>

\* An event stored before is met again and announced again (a copy in Goose's
\* table, or another item of the same event_id): nothing is counted here.
Repeat(e) ==
    /\ conn /\ Fail
    /\ wire' = Append(wire, Message("event", Event[e].session, e))
    /\ UNCHANGED <<serverVars, started, conn, maxSeq, entry, polls>>

\* A session's active window, then its idle window is over.
Age(s) ==
    /\ row[s] # "absent" /\ age[s] < 2
    /\ age' = [age EXCEPT ![s] = @ + 1]
    /\ UNCHANGED <<last, known, row, missed, pageVars, failures>>

\* The monitor dies and starts again.
Restart ==
    /\ Fail
    /\ known' = {} /\ missed' = {}
    /\ conn' = FALSE /\ wire' = <<>>
    /\ UNCHANGED <<last, row, age, started, maxSeq, entry, polls>>

(***************************************************************************)
(* The page                                                                *)
(***************************************************************************)

\* ensureSession: the fields of SESSION_MERGE_FIELDS that are not null win.
MergeUncounted(old, new) ==
    CASE new = NoEntry -> old
      [] old = NoEntry -> new
      [] OTHER -> [new EXCEPT !.events = old.events,
                              !.label = IF @ = "id" THEN old.label ELSE @]
MergeNull(old, new) == IF new = NoEntry THEN old ELSE new
Merge(old, new) ==
    CASE new = NoEntry -> old
      [] old = NoEntry -> new
      [] OTHER -> [new EXCEPT !.label = IF @ = "id" THEN old.label ELSE @]

TakeOver(rows) == entry' = [s \in Sessions |-> Merge(entry[s], rows[s])]

\* loadSessions, which init awaits before it connects; it may fail.
LoadSessions ==
    /\ ~started /\ started' = TRUE
    /\ TakeOver(Snapshot) \/ UNCHANGED entry
    /\ UNCHANGED <<serverVars, conn, wire, maxSeq, polls, failures>>

\* refreshSessionsPeriodic, whether or not the last answer has come
Poll ==
    /\ started
    /\ Cardinality(polls) < MaxPolls /\ polls' = polls \cup {Snapshot}
    /\ UNCHANGED <<serverVars, started, conn, wire, maxSeq, entry, failures>>

\* The answers come in any order.
PollAnswered(p) ==
    /\ p \in polls /\ polls' = polls \ {p}
    /\ TakeOver(p)
    /\ UNCHANGED <<serverVars, started, conn, wire, maxSeq, failures>>

PollFails(p) ==
    /\ p \in polls /\ polls' = polls \ {p}
    /\ UNCHANGED <<serverVars, started, conn, wire, maxSeq, entry, failures>>

\* connectWS; the server replays what is stored past maxSeq.
Connect ==
    /\ started /\ ~conn /\ conn' = TRUE
    /\ wire' = [i \in 1 .. last - maxSeq |->
                   Message("event", Event[maxSeq + i].session, maxSeq + i)]
    /\ UNCHANGED <<serverVars, started, maxSeq, entry, polls, failures>>

Disconnect ==
    /\ conn /\ conn' = FALSE /\ wire' = <<>>
    /\ Fail
    /\ UNCHANGED <<serverVars, started, maxSeq, entry, polls>>

\* A history response of some session moves maxSeq (mergeEvents), connected or
\* not.
HistoryMerged(e) ==
    /\ started /\ maxSeq < e
    /\ maxSeq' = e
    /\ UNCHANGED <<serverVars, started, conn, wire, entry, polls, failures>>

KnownRaw(s) == entry[s]
Known(s) == IF entry[s] = NoEntry THEN NewEntry ELSE entry[s]

\* handleSessionMessage
SessionMessage ==
    /\ wire # <<>> /\ Head(wire).kind = "session" /\ wire' = Tail(wire)
    /\ LET s == Head(wire).session
       IN  entry' = [entry EXCEPT ![s] = [Known(s) EXCEPT !.label = "label"]]
    /\ UNCHANGED <<serverVars, started, conn, maxSeq, polls, failures>>

\* handleEventMessage: one more, also if a refresh has counted the event or
\* the page has had it before.
EventMessage ==
    /\ wire # <<>> /\ Head(wire).kind = "event" /\ wire' = Tail(wire)
    /\ LET s == Head(wire).session
           e == Head(wire).seq
       IN  /\ maxSeq' = Max({maxSeq, e})
           /\ entry' = [entry EXCEPT ![s] =
                [Known(s) EXCEPT !.events = @ + 1,
                                 !.alerts = IF Event[e].kind = "alert" THEN @ + 1
                                                                       ELSE @]]
    /\ UNCHANGED <<serverVars, started, conn, polls, failures>>

(***************************************************************************)

Next ==
    \/ Insert \/ Restart
    \/ \E s \in Sessions : Register(s) \/ RegisterFails(s) \/ Age(s)
    \/ LoadSessions \/ Poll
    \/ \E p \in polls : PollAnswered(p) \/ PollFails(p)
    \/ Connect \/ Disconnect \/ SessionMessage \/ EventMessage
    \/ \E e \in 1 .. last : Repeat(e) \/ HistoryMerged(e)

Spec == Init /\ [][Next]_vars

\* The collector polls for ever and meets every session of Goose's; the page
\* loads, its timers fire and its messages arrive.  A refresh may fail, though
\* not every time.
FairSpec ==
    /\ Spec
    /\ \A s \in Sessions : WF_vars(Register(s))
    /\ WF_vars(LoadSessions) /\ WF_vars(Connect)
    /\ WF_vars(SessionMessage \/ EventMessage)
    /\ WF_vars(Poll) /\ SF_vars(\E p \in polls : PollAnswered(p))

(***************************************************************************)
(* Properties                                                              *)
(***************************************************************************)

\* "This periodic REST refresh is the authoritative source for status and
\* counts" (web/app.js:116): once nothing new happens, each session the server
\* has stands in the sidebar with the server's counts, label and status,
\* whatever live messages counted twice, were lost, or crossed a refresh.
SidebarSettles ==
    \A s \in Sessions : <>[](row[s] # "absent" => entry[s] = ServerEntry(s))

\* A label that the page shows stays, though a refresh that was read before
\* the registration may arrive after its announcement (ensureSession).
LabelStays ==
    [][\A s \in Sessions :
          entry[s].label = "label" => entry'[s].label = "label"]_vars

\* A session whose registration failed has no label for as long as the process
\* lives, and no longer: the next process registers it (poll_once marks it
\* known before upsert_session).
NamelessUntilRestart ==
    \A s \in Sessions : <>[](row[s] = "bare" => s \in missed)
=============================================================================
