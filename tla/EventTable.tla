----------------------------- MODULE EventTable -----------------------------
(***************************************************************************)
(* The event table of the monitor's page (web/app.js): the buffer of each  *)
(* session, the session that is selected, the filters, the window of       *)
(* filtered events (state.view) and the rows in the DOM.  Two sources fill *)
(* the buffers: event messages of the WebSocket, one by one, and history   *)
(* responses, which carry many and arrive in any order.                    *)
(*                                                                         *)
(* LiveFeed has how an event reaches the page.  Here the connection brings *)
(* the stored events past maxSeq and then the new ones, in order, but for  *)
(* those a full queue drops and those the server sends again.  JavaScript  *)
(* runs a callback to its end: an action is a callback, or the part of an  *)
(* async function between awaits.                                          *)
(*                                                                         *)
(* A definition right before another of the same shape, whose name it      *)
(* extends (TrimDomOnly, Trim), is that definition with a mistake in the   *)
(* code; the model never uses it (README, Mutants).                        *)
(***************************************************************************)
EXTENDS Naturals, Sequences, FiniteSets, FiniteSetsExt, SequencesExt

CONSTANTS
    Sessions,
    Event,          \* the events the server will store, by seq
    QuickFilters,   \* the quick buttons: the kinds of event each lets pass
    ColumnFilters,  \* patterns of the column boxes: likewise
    PageSize,       \* PAGE_SIZE: rows materialized at a time
    MaxRows,        \* MAX_RENDERED_ROWS: cap of the live-append path
    HistoryLimit,   \* HISTORY_FETCH_LIMIT: rows of a history response
    MaxRequests,    \* bound: history requests in flight
    MaxFailures     \* bound: disconnections, dropped and repeated messages

Kinds == {"plain", "alert"}
NoSession == "no session"

ASSUME TableAssumption ==
    /\ NoSession \notin Sessions
    /\ Event \in Seq([session : Sessions, kind : Kinds])
    /\ QuickFilters \cup ColumnFilters \subseteq SUBSET Kinds
    /\ Kinds \in QuickFilters \cap ColumnFilters
    /\ {PageSize, MaxRows, HistoryLimit} \subseteq Nat \ {0}
    /\ {MaxRequests, MaxFailures} \subseteq Nat

VARIABLES
    last,       \* the events table holds 1 .. last
    conn,       \* the WebSocket is open
    wire,       \* event messages on their way to the page
    covered,    \* last_seq of the handler, if there is one: its replay's end
    maxSeq,     \* state.maxSeq
    buffer,     \* state.events
    selected,   \* state.selectedSessionId
    quick,      \* state.filters.quick
    column,     \* state.filters.columns
    view,       \* state.view
    dom,        \* the rows of the table, top down; none with the placeholder
    requests,   \* history requests in flight
    early,      \* history: events a response brought before the feed
    again,      \* history: events the server sent again
    failures

feedVars == <<conn, wire, covered>>
filterVars == <<selected, quick, column>>
rowVars == <<view, dom>>
hist == <<early, again>>
vars == <<last, feedVars, maxSeq, buffer, filterVars, rowVars, requests, hist,
          failures>>

EventsOf(s, upto) == {e \in 1 .. upto : Event[e].session = s}

TypeOK ==
    /\ last \in 0 .. Len(Event)
    /\ conn \in BOOLEAN /\ wire \in Seq(1 .. last) /\ covered \in 0 .. last
    /\ maxSeq \in 0 .. last
    /\ buffer \in [Sessions -> SUBSET (1 .. last)]
    /\ selected \in Sessions \cup {NoSession}
    /\ quick \in QuickFilters /\ column \in ColumnFilters
    /\ view.session \in Sessions \cup {NoSession}
    /\ view.filtered \in Seq(1 .. last) /\ view.shown \in 0 .. Len(view.filtered)
    /\ dom \in Seq(1 .. last)
    /\ requests \in SUBSET [select : BOOLEAN, session : Sessions,
                            column : ColumnFilters, from : 0 .. last]
    /\ early \in SUBSET (1 .. last) /\ again \in SUBSET (1 .. last)
    /\ failures \in 0 .. MaxFailures

Init ==
    /\ last = 0
    /\ conn = FALSE /\ wire = <<>> /\ covered = 0
    /\ maxSeq = 0
    /\ buffer = [s \in Sessions |-> {}]
    /\ selected = NoSession
    /\ quick = Kinds /\ column = Kinds
    /\ view = [session |-> NoSession, filtered |-> <<>>, shown |-> 0]
    /\ dom = <<>>
    /\ requests = {} /\ early = {} /\ again = {}
    /\ failures = 0

Fail == failures < MaxFailures /\ failures' = failures + 1

\* An event is stored, and published unless the page's queue is full.
Insert ==
    /\ last < Len(Event)
    /\ last' = last + 1
    /\ \/ wire' = (IF conn THEN Append(wire, last + 1) ELSE wire) /\ UNCHANGED failures
       \/ conn /\ Fail /\ UNCHANGED wire
    /\ UNCHANGED <<conn, covered, maxSeq, buffer, filterVars, rowVars, requests, hist>>

\* An event stored before is met again: a copy in Goose's table, or another item
\* with its event_id.  insert_event returns its old seq and poll_once publishes
\* it; a handler lets it through unless its own replay covered it.
Repeat(e) ==
    /\ conn /\ covered < e /\ Fail
    /\ wire' = Append(wire, e)
    /\ again' = again \cup {e}
    /\ UNCHANGED <<last, conn, covered, maxSeq, buffer, filterVars, rowVars, requests,
                   early>>

(***************************************************************************)
(* The event table                                                         *)
(***************************************************************************)

\* matchesAllFilters
Passing(rows, q, c) == {e \in rows : Event[e].kind \in q \cap c}

Smaller(m, n) == IF m < n THEN m ELSE n

\* rebuildFiltered: newest first
Listings(rows) == {s \in [1 .. Cardinality(rows) -> rows] : ToSet(s) = rows}
SortedOldestFirst(rows) ==
    CHOOSE s \in Listings(rows) : \A i, j \in DOMAIN s : i < j => s[i] < s[j]
Sorted(rows) ==
    CHOOSE s \in Listings(rows) : \A i, j \in DOMAIN s : i < j => s[i] > s[j]

\* renderEvents ignores a session that is not the selected one.
RenderLate(s, buf, q, c) ==
    LET filtered == Sorted(Passing(buf[s], q, c))
    IN  /\ view' = [session |-> s, filtered |-> filtered,
                    shown |-> Smaller(PageSize, Len(filtered))]
        /\ dom' = SubSeq(filtered, 1, view'.shown)
Render(s, buf, q, c) ==
    IF s # selected THEN UNCHANGED rowVars ELSE
    LET filtered == Sorted(Passing(buf[s], q, c))
    IN  /\ view' = [session |-> s, filtered |-> filtered,
                    shown |-> Smaller(PageSize, Len(filtered))]
        /\ dom' = SubSeq(filtered, 1, view'.shown)

\* GET /api/sessions/{id}/events is sent with the column filters.
Request(select, s, c) ==
    /\ Cardinality(requests) < MaxRequests
    /\ requests' = requests \cup
         {[select |-> select, session |-> s, column |-> c, from |-> last]}

\* selectSession up to its await: the table stays as it is.
Select(s) ==
    /\ selected' = s
    /\ Request(TRUE, s, column)
    /\ UNCHANGED <<last, feedVars, maxSeq, buffer, quick, column, rowVars, hist,
                   failures>>

SetQuick(q) ==
    /\ quick' = q
    /\ IF selected = NoSession THEN UNCHANGED rowVars
                               ELSE Render(selected, buffer, q, column)
    /\ UNCHANGED <<last, feedVars, maxSeq, buffer, selected, column, requests,
                   hist, failures>>

\* A column's box: the table is rendered from the buffer, and the history is
\* asked for again with the new filter.
SetColumn(c) ==
    /\ column' = c
    /\ IF selected = NoSession
       THEN UNCHANGED <<view, dom, requests>>
       ELSE Render(selected, buffer, quick, c) /\ Request(FALSE, selected, c)
    /\ UNCHANGED <<last, feedVars, maxSeq, buffer, selected, quick, hist, failures>>

\* query_events: of the oldest rows of the session, at most five times the
\* limit, the oldest that pass the column filters
Oldest(rows, n) == {e \in rows : Cardinality({f \in rows : f < e}) < n}
History(r, upto) ==
    LET scanned == Oldest(EventsOf(r.session, upto), 5 * HistoryLimit)
    IN  Oldest(Passing(scanned, Kinds, r.column), HistoryLimit)

\* The answer, with the store as it was at some time since the request:
\* mergeEvents, then renderEvents.
HistoryArrives(r) ==
    /\ r \in requests /\ requests' = requests \ {r}
    /\ \E upto \in r.from .. last :
          LET rows == History(r, upto)
          IN  /\ buffer' = [buffer EXCEPT ![r.session] = @ \cup rows]
              /\ maxSeq' = Max(rows \cup {maxSeq})
              /\ early' = early \cup (rows \ buffer[r.session])
    /\ Render(r.session, buffer', quick, column)
    /\ UNCHANGED <<last, feedVars, filterVars, again, failures>>

\* The request fails: selectSession renders what there is all the same.
HistoryFails(r) ==
    /\ r \in requests /\ requests' = requests \ {r}
    /\ IF r.select THEN Render(r.session, buffer, quick, column)
                   ELSE UNCHANGED rowVars
    /\ UNCHANGED <<last, feedVars, maxSeq, buffer, filterVars, hist, failures>>

\* loadMoreRows, when the user has scrolled down to the last row
LoadMore ==
    /\ view.shown < Len(view.filtered)
    /\ LET shown == Smaller(view.shown + PageSize, Len(view.filtered))
       IN  /\ dom' = dom \o SubSeq(view.filtered, view.shown + 1, shown)
           /\ view' = [view EXCEPT !.shown = shown]
    /\ UNCHANGED <<last, feedVars, maxSeq, buffer, filterVars, requests, hist,
                   failures>>

\* onLiveEvent: the rows beyond the cap go, and shown with them.
TrimDomOnly(filtered, shown, rows) ==
    /\ dom' = SubSeq(rows, 1, Smaller(Len(rows), MaxRows))
    /\ view' = [view EXCEPT !.filtered = filtered, !.shown = shown]
Trim(filtered, shown, rows) ==
    /\ dom' = SubSeq(rows, 1, Smaller(Len(rows), MaxRows))
    /\ view' = [view EXCEPT !.filtered = filtered,
                            !.shown = shown - (Len(rows) - Len(dom'))]

\* The event goes on top, if it passes the filters.
LiveRowUnfiltered(e) ==
    IF Passing({e}, quick, column) = {}
    THEN view' = [view EXCEPT !.shown = @ + 1] /\ UNCHANGED dom
    ELSE Trim(<<e>> \o view.filtered, view.shown + 1, <<e>> \o dom)
LiveRow(e) ==
    IF Passing({e}, quick, column) = {}
    THEN UNCHANGED rowVars
    ELSE Trim(<<e>> \o view.filtered, view.shown + 1, <<e>> \o dom)

LiveEvent(s, e) ==
    CASE s # selected -> UNCHANGED rowVars
      [] s = selected /\ view.session # s -> Render(s, buffer', quick, column)
      [] OTHER -> LiveRow(e)

(***************************************************************************)
(* The WebSocket                                                           *)
(***************************************************************************)

\* connectWS; the server replays what is stored past maxSeq, and so covers it.
Connect ==
    /\ ~conn /\ conn' = TRUE
    /\ wire' = [i \in 1 .. last - maxSeq |-> maxSeq + i]
    /\ covered' = last
    /\ UNCHANGED <<last, maxSeq, buffer, filterVars, rowVars, requests, hist,
                   failures>>

Disconnect ==
    /\ conn /\ conn' = FALSE /\ wire' = <<>> /\ covered' = 0
    /\ Fail
    /\ UNCHANGED <<last, maxSeq, buffer, filterVars, rowVars, requests, hist>>

\* handleEventMessage
EventMessage ==
    /\ wire # <<>> /\ wire' = Tail(wire)
    /\ LET e == Head(wire)
           s == Event[e].session
       IN  /\ maxSeq' = Max({maxSeq, e})
           /\ buffer' = [buffer EXCEPT ![s] = @ \cup {e}]
           /\ LiveEvent(s, e)
    /\ UNCHANGED <<last, conn, covered, filterVars, requests, hist, failures>>

(***************************************************************************)

Next ==
    \/ Insert \/ \E e \in 1 .. last : Repeat(e)
    \/ \E s \in Sessions : Select(s)
    \/ \E q \in QuickFilters : SetQuick(q)
    \/ \E c \in ColumnFilters : SetColumn(c)
    \/ \E r \in requests : HistoryArrives(r) \/ HistoryFails(r)
    \/ LoadMore
    \/ Connect \/ Disconnect \/ EventMessage

Spec == Init /\ [][Next]_vars

(***************************************************************************)
(* Properties                                                              *)
(***************************************************************************)

\* "DOM rows == filtered[0..shown)" (web/app.js:695): live rows, trimming,
\* scrolling and rendering, in any order, keep the rows on the page, the
\* filtered events and the counter between them in step.
DomMatchesView == dom = SubSeq(view.filtered, 1, view.shown)

\* Unless its selection is still loading, the table is that of the selected
\* session and holds every buffered event that passes the filters, however
\* history responses, filter changes, other selections and live events
\* overtake each other (renderEvents, reloadHistoryWithFilters, onLiveEvent).
TableComplete ==
    \/ selected = NoSession
    \/ \E r \in requests : r.select /\ r.session = selected
    \/ /\ view.session = selected
       /\ ToSet(view.filtered) = Passing(buffer[selected], quick, column)

\* Events that a history response brought before the feed did, and events the
\* server sent again
OutOfTurn == early \cup again

\* "Rows render newest-first (descending seq)" (web/app.js:605), and none
\* twice, but for the events that came out of turn.
NewestFirst ==
    \A j \in DOMAIN view.filtered : \A i \in 1 .. j - 1 :
        \/ view.filtered[i] > view.filtered[j]
        \/ {view.filtered[i], view.filtered[j]} \cap OutOfTurn # {}
=============================================================================
