------------------------------ MODULE LiveFeed ------------------------------
(***************************************************************************)
(* The live event feed of the monitor: the collector announces each event  *)
(* it stores (backend/collector.py), the hub fans the announcements out    *)
(* (backend/hub.py), a WebSocket handler replays the store and then        *)
(* follows the hub (backend/app.py, ws), and the browser keeps what it     *)
(* gets and resumes from the highest seq it knows (web/app.js).            *)
(*                                                                         *)
(* The server is one asyncio loop: a poll runs without an await, so while  *)
(* it does no publish task and no handler moves.  REST requests run in     *)
(* threads of their own, also during a poll.  An event is its seq; the     *)
(* announcements of new sessions have none, and are left out.              *)
(*                                                                         *)
(* A definition right before another of the same shape, whose name it      *)
(* extends (FullLate, Full), is that definition with a                     *)
(* mistake in the code; the model never uses it (README, Mutants).         *)
(***************************************************************************)
EXTENDS Naturals, Sequences, FiniteSets

CONSTANTS
    Clients,        \* browser pages
    Sessions,       \* Goose sessions
    QueueSize,      \* maxsize of a subscriber's queue
    PageSize,       \* rows events_after returns at a time
    MaxEvents,      \* retention.max_events: events prune keeps
    AgePruning,     \* retention.max_age_days > 0: prune by age too
    MaxSeq,         \* bound: events inserted in a run
    MaxFailures     \* bound: disconnections, crashes and repeats in a run

ASSUME FeedAssumption ==
    /\ QueueSize \in Nat \ {0} /\ PageSize \in Nat \ {0} /\ MaxEvents \in Nat \ {0}
    /\ AgePruning \in BOOLEAN /\ MaxSeq \in Nat /\ MaxFailures \in Nat

Seqs == 1 .. MaxSeq
NoFetch == {0}    \* no set of seqs

VARIABLES
    sessionOf,  \* session_id of each event
    store,      \* the events table
    nextSeq,    \* its AUTOINCREMENT counter
    polling,    \* poll_once and prune have the loop
    seen,       \* Collector.seen: events handled in this process lifetime
    scheduled,  \* publish tasks run_coroutine_threadsafe has queued
    again,      \* history: events this process has announced more than once
    handler,    \* ws of each client: none, draining the store, or live
    queue,      \* its subscription to the hub
    lastSeq,    \* last_seq: covered by the replay
    page,       \* rows of the page still to send
    stream,     \* everything sent on the connection
    conn,       \* the WebSocket as the browser sees it
    after,      \* after_seq the connection was opened with
    received,   \* how much of stream has arrived
    maxSeq,     \* state.maxSeq
    events,     \* state.events, all sessions together
    fetch,      \* rows of a REST response on its way, or NoFetch
    dropped,    \* history: events a full queue cost a live subscriber
    jumped,     \* history: events below maxSeq because a merge moved it
    failures    \* disconnections, crashes and repeats so far

storeVars == <<sessionOf, store, nextSeq>>
pollVars == <<polling, seen, scheduled, again>>
handlerVars == <<handler, queue, lastSeq, page, stream>>
pageVars == <<maxSeq, events, fetch, jumped>>
vars == <<storeVars, pollVars, handlerVars, conn, after, received, pageVars,
          dropped, failures>>

TypeOK ==
    /\ sessionOf \in [Seqs -> Sessions]
    /\ nextSeq \in 1 .. MaxSeq + 1
    /\ store \in SUBSET (1 .. nextSeq - 1)
    /\ polling \in BOOLEAN
    /\ seen \in SUBSET Seqs
    /\ scheduled \in Seq(Seqs) /\ again \in SUBSET Seqs
    /\ handler \in [Clients -> {"none", "drain", "live"}]
    /\ queue \in [Clients -> Seq(Seqs)]
    /\ \A c \in Clients : Len(queue[c]) <= QueueSize
    /\ lastSeq \in [Clients -> 0 .. MaxSeq]
    /\ page \in [Clients -> SUBSET Seqs]
    /\ stream \in [Clients -> Seq(Seqs)]
    /\ conn \in [Clients -> {"closed", "opening", "open"}]
    /\ after \in [Clients -> 0 .. MaxSeq]
    /\ received \in [Clients -> Nat]
    /\ \A c \in Clients : received[c] <= Len(stream[c])
    /\ maxSeq \in [Clients -> 0 .. MaxSeq]
    /\ events \in [Clients -> SUBSET Seqs]
    /\ fetch \in [Clients -> {NoFetch} \cup SUBSET Seqs]
    /\ dropped \in [Clients -> SUBSET Seqs]
    /\ jumped \in [Clients -> SUBSET Seqs]
    /\ failures \in 0 .. MaxFailures

Init ==
    /\ sessionOf \in [Seqs -> Sessions]
    /\ store = {} /\ nextSeq = 1
    /\ polling = FALSE /\ seen = {} /\ scheduled = <<>> /\ again = {}
    /\ handler = [c \in Clients |-> "none"]
    /\ queue = [c \in Clients |-> <<>>]
    /\ lastSeq = [c \in Clients |-> 0]
    /\ page = [c \in Clients |-> {}]
    /\ stream = [c \in Clients |-> <<>>]
    /\ conn = [c \in Clients |-> "opening"]     \* by init
    /\ after = [c \in Clients |-> 0]
    /\ received = [c \in Clients |-> 0]
    /\ maxSeq = [c \in Clients |-> 0]
    /\ events = [c \in Clients |-> {}]
    /\ fetch = [c \in Clients |-> NoFetch]
    /\ dropped = [c \in Clients |-> {}]
    /\ jumped = [c \in Clients |-> {}]
    /\ failures = 0

Larger(m, n) == IF m > n THEN m ELSE n

Fail == failures < MaxFailures /\ failures' = failures + 1

(***************************************************************************)
(* The collector                                                           *)
(***************************************************************************)

PollBegin ==
    /\ ~polling
    /\ polling' = TRUE
    /\ UNCHANGED <<storeVars, seen, scheduled, again, handlerVars, conn, after,
                   received, pageVars, dropped, failures>>

\* insert_event takes the next seq, and _emit schedules its publication.
Insert ==
    /\ polling
    /\ nextSeq <= MaxSeq
    /\ store' = store \cup {nextSeq}
    /\ nextSeq' = nextSeq + 1
    /\ seen' = seen \cup {nextSeq}
    /\ scheduled' = Append(scheduled, nextSeq)
    /\ UNCHANGED <<sessionOf, polling, again, handlerVars, conn, after, received,
                   pageVars, dropped, failures>>

\* A message that an earlier process stored is read again, after Goose has
\* rewritten its table: the row stays as it is and is announced again.
InsertAgain(e) ==
    /\ polling
    /\ e \in store \ seen
    /\ seen' = seen \cup {e}
    /\ scheduled' = Append(scheduled, e)
    /\ UNCHANGED <<storeVars, polling, again, handlerVars, conn, after, received,
                   pageVars, dropped, failures>>

\* So is an event that this process stored, if seen does not stop it: feed looks
\* at seen before it stores the first event of a message, so two equal texts of
\* one message pass, and a call without an id is never looked up.
Repeat(e) ==
    /\ polling
    /\ e \in store \cap seen
    /\ Fail
    /\ again' = again \cup {e}
    /\ scheduled' = Append(scheduled, e)
    /\ UNCHANGED <<storeVars, polling, seen, handlerVars, conn, after, received,
                   pageVars, dropped>>

Newest(rows) == {e \in rows : Cardinality({f \in rows : f > e}) < MaxEvents}

\* prune: what is past its age goes, then what is beyond the newest MaxEvents
PollEnd(old) ==
    /\ polling
    /\ old = {} \/ AgePruning
    /\ polling' = FALSE
    /\ store' = Newest(store \ old)
    /\ UNCHANGED <<sessionOf, nextSeq, seen, scheduled, again, handlerVars, conn,
                   after, received, pageVars, dropped, failures>>

\* Something in the poll raises: run goes on without prune.
PollFails ==
    /\ polling
    /\ polling' = FALSE
    /\ UNCHANGED <<storeVars, seen, scheduled, again, handlerVars, conn, after,
                   received, pageVars, dropped, failures>>

(***************************************************************************)
(* The hub                                                                 *)
(***************************************************************************)

Subscribers == {c \in Clients : handler[c] # "none"}
FullLate(c) == Len(queue[c]) > QueueSize
Full(c) == Len(queue[c]) >= QueueSize

\* The oldest publish task: put_nowait to every subscriber that has room.
\* What a draining handler misses it still finds in the store.
Publish ==
    /\ ~polling /\ scheduled # <<>>
    /\ scheduled' = Tail(scheduled)
    /\ queue' = [c \in Clients |->
          IF c \in Subscribers /\ ~Full(c) THEN Append(queue[c], Head(scheduled))
                                           ELSE queue[c]]
    /\ dropped' = [c \in Clients |->
          IF c \in Subscribers /\ Full(c) /\ handler[c] = "live"
          THEN dropped[c] \cup {Head(scheduled)} ELSE dropped[c]]
    /\ UNCHANGED <<storeVars, polling, seen, again, handler, lastSeq, page, stream,
                   conn, after, received, pageVars, failures>>

(***************************************************************************)
(* The WebSocket handler.  An action ends where the handler awaits.        *)
(***************************************************************************)

\* events_after(seq, limit), in ascending order
RowsAfter(seq) ==
    {e \in store : e > seq /\ Cardinality({f \in store : seq < f /\ f < e}) < PageSize}

\* The drain loop's query: another page, or the end of the backlog.
FetchOnce(c, from) ==
    /\ page' = [page EXCEPT ![c] = IF from = after[c] THEN RowsAfter(from) ELSE {}]
    /\ handler' = [handler EXCEPT ![c] = IF page'[c] = {} THEN "live" ELSE "drain"]
Fetch(c, from) ==
    /\ page' = [page EXCEPT ![c] = RowsAfter(from)]
    /\ handler' = [handler EXCEPT ![c] = IF page'[c] = {} THEN "live" ELSE "drain"]

\* accept, subscribe, and the first query with nothing in between
Accept(c) ==
    /\ ~polling /\ conn[c] = "opening"
    /\ conn' = [conn EXCEPT ![c] = "open"]
    /\ queue' = [queue EXCEPT ![c] = <<>>]
    /\ lastSeq' = [lastSeq EXCEPT ![c] = after[c]]
    /\ stream' = [stream EXCEPT ![c] = <<>>]
    /\ received' = [received EXCEPT ![c] = 0]
    /\ Fetch(c, after[c])
    /\ UNCHANGED <<storeVars, pollVars, after, pageVars, dropped, failures>>

SendRow(c) ==
    /\ ~polling /\ handler[c] = "drain"
    /\ \E e \in page[c] :
          /\ \A f \in page[c] : e <= f
          /\ page' = [page EXCEPT ![c] = @ \ {e}]
          /\ stream' = [stream EXCEPT ![c] = Append(@, e)]
          /\ lastSeq' = [lastSeq EXCEPT ![c] = Larger(@, e)]
    /\ UNCHANGED <<storeVars, pollVars, handler, queue, conn, after, received,
                   pageVars, dropped, failures>>

NextPage(c) ==
    /\ ~polling /\ handler[c] = "drain" /\ page[c] = {}
    /\ Fetch(c, lastSeq[c])
    /\ UNCHANGED <<storeVars, pollVars, queue, lastSeq, stream, conn, after,
                   received, pageVars, dropped, failures>>

\* A live event the replay has covered is skipped.
CoveredNever(c, e) == FALSE
Covered(c, e) == e <= lastSeq[c]

Follow(c) ==
    /\ ~polling /\ handler[c] = "live" /\ queue[c] # <<>>
    /\ queue' = [queue EXCEPT ![c] = Tail(@)]
    /\ stream' = [stream EXCEPT ![c] =
          IF Covered(c, Head(queue[c])) THEN @ ELSE Append(@, Head(queue[c]))]
    /\ UNCHANGED <<storeVars, pollVars, handler, lastSeq, page, conn, after,
                   received, pageVars, dropped, failures>>

(***************************************************************************)
(* The browser                                                             *)
(***************************************************************************)

\* connectWS after scheduleReconnect's delay
OpenNever(c) == FALSE
Open(c) ==
    /\ conn[c] = "closed"
    /\ conn' = [conn EXCEPT ![c] = "opening"]
    /\ after' = [after EXCEPT ![c] = maxSeq[c]]
    /\ UNCHANGED <<storeVars, pollVars, handlerVars, received, pageVars, dropped,
                   failures>>

\* handleEventMessage
Receive(c) ==
    /\ conn[c] = "open" /\ received[c] < Len(stream[c])
    /\ received' = [received EXCEPT ![c] = @ + 1]
    /\ LET e == stream[c][received[c] + 1]
       IN  /\ events' = [events EXCEPT ![c] = @ \cup {e}]
           /\ maxSeq' = [maxSeq EXCEPT ![c] = Larger(@, e)]
    /\ UNCHANGED <<storeVars, pollVars, handlerVars, conn, after, fetch, jumped,
                   dropped, failures>>

\* GET /api/sessions/{id}/events: the rows of one session that pass the
\* column filters the page has sent, as the store is now.  An empty response
\* would change nothing.
Request(c, s, rows) ==
    /\ fetch[c] = NoFetch
    /\ rows # {} /\ \A e \in rows : sessionOf[e] = s
    /\ fetch' = [fetch EXCEPT ![c] = rows]
    /\ UNCHANGED <<storeVars, pollVars, handlerVars, conn, after, received, maxSeq,
                   events, jumped, dropped, failures>>

MaxOf(rows, default) ==
    IF rows = {} THEN default ELSE CHOOSE e \in rows : \A f \in rows : f <= e

\* mergeEvents, when the response arrives: maxSeq moves to what was merged.
MergedSeqGlobal(c) == Larger(maxSeq[c], nextSeq - 1)
MergedSeq(c) == MaxOf(fetch[c] \cup {maxSeq[c]}, 0)
Merge(c) ==
    /\ fetch[c] # NoFetch
    /\ fetch' = [fetch EXCEPT ![c] = NoFetch]
    /\ events' = [events EXCEPT ![c] = @ \cup fetch[c]]
    /\ maxSeq' = [maxSeq EXCEPT ![c] = MergedSeq(c)]
    /\ jumped' = [jumped EXCEPT ![c] = @ \cup
          {e \in Seqs : /\ maxSeq[c] < e /\ \E f \in fetch[c] : e < f
                        /\ e \notin events[c] \cup fetch[c]}]
    /\ UNCHANGED <<storeVars, pollVars, handlerVars, conn, after, received,
                   dropped, failures>>

(***************************************************************************)
(* Failures                                                                *)
(***************************************************************************)

\* The connections of some pages are gone, with what was on the wire.
Lose(cs) ==
    /\ conn' = [c \in Clients |-> IF c \in cs THEN "closed" ELSE conn[c]]
    /\ handler' = [c \in Clients |-> IF c \in cs THEN "none" ELSE handler[c]]
    /\ queue' = [c \in Clients |-> IF c \in cs THEN <<>> ELSE queue[c]]
    /\ page' = [c \in Clients |-> IF c \in cs THEN {} ELSE page[c]]
    /\ stream' = [c \in Clients |-> IF c \in cs THEN <<>> ELSE stream[c]]
    /\ received' = [c \in Clients |-> IF c \in cs THEN 0 ELSE received[c]]
    /\ lastSeq' = [c \in Clients |-> IF c \in cs THEN 0 ELSE lastSeq[c]]
    /\ after' = [c \in Clients |-> IF c \in cs THEN 0 ELSE after[c]]
    /\ Fail

Disconnect(c) ==
    /\ conn[c] # "closed"
    /\ Lose({c})
    /\ UNCHANGED <<storeVars, pollVars, pageVars, dropped>>

\* The monitor dies, perhaps inside a poll, and starts again.  The table
\* stays; announcements, subscriptions, responses and seen are gone.
Crash ==
    /\ Lose(Clients)
    /\ polling' = FALSE /\ seen' = {} /\ scheduled' = <<>> /\ again' = {}
    /\ fetch' = [c \in Clients |-> NoFetch]
    /\ UNCHANGED <<storeVars, maxSeq, events, jumped, dropped>>

(***************************************************************************)

Next ==
    \/ PollBegin \/ Insert \/ PollFails \/ Publish \/ Crash
    \/ \E e \in store : InsertAgain(e) \/ Repeat(e)
    \/ \E old \in SUBSET store : PollEnd(old)
    \/ \E c \in Clients :
          \/ Open(c) \/ Accept(c) \/ SendRow(c) \/ NextPage(c) \/ Follow(c)
          \/ Receive(c) \/ Merge(c) \/ Disconnect(c)
          \/ \E s \in Sessions, rows \in SUBSET store : Request(c, s, rows)

Spec == Init /\ [][Next]_vars

\* What a connection's handler does on the server, and what the page does
HandlerStep(c) == Accept(c) \/ SendRow(c) \/ NextPage(c) \/ Follow(c)
PageStep(c) == Open(c) \/ Receive(c)

\* A poll ends.  Between two polls, which are an interval apart, the loop runs
\* every task that is ready: a task that polls hold up again and again still
\* gets its turn.  The wire delivers, and the page tries again after each
\* failure (its retry delay is at most ten seconds).
FairSpec ==
    /\ Spec
    /\ WF_vars(PollFails \/ \E old \in SUBSET store : PollEnd(old))
    /\ SF_vars(Publish)
    /\ \A c \in Clients : WF_vars(PageStep(c)) /\ SF_vars(HandlerStep(c))

(***************************************************************************)
(* Safety                                                                  *)
(***************************************************************************)

Elements(s) == {s[i] : i \in DOMAIN s}

\* One connection never carries a stored event that the page had resumed
\* after, nor one twice or after a later one, though the store and the hub both
\* supply it and a new process announces old events again (the subscription
\* before the replay, and the seq <= last_seq test, of ws).  Twice or late come
\* only events that the running process announced twice.  An event that is
\* announced again and pruned at once is beyond this.
StreamInOrder ==
    \A c \in Clients : \A i \in DOMAIN stream[c] : stream[c][i] \in store =>
        /\ after[c] < stream[c][i]
        /\ stream[c][i] \in again \/ \A j \in 1 .. i - 1 : stream[c][j] < stream[c][i]

\* No event falls between the replay and the live feed: what a live handler
\* has not sent is queued or about to be published, unless its full queue
\* dropped it.  A queue that overflows during the replay costs nothing.
NothingBetween ==
    \A c \in Clients : handler[c] = "live" =>
        \A e \in store : e > after[c] =>
            e \in Elements(stream[c]) \cup Elements(queue[c]) \cup
                  Elements(scheduled) \cup dropped[c]

\* What the page resumes from is honest: it has every stored event up to
\* maxSeq, but for those a full queue dropped and those a merge jumped over
\* (handleEventMessage, mergeEvents, connectWS, ws).
NoSilentGap ==
    \A c \in Clients : \A e \in store :
        e <= maxSeq[c] => e \in events[c] \cup dropped[c] \cup jumped[c]

\* state.maxSeq is not to make "a future WS reconnect resume past events for
\* other sessions we have not fetched yet, silently dropping them"
\* (web/app.js:288): of a session the page holds nothing of, a connection skips
\* only what a full queue dropped.
NoMergeGap ==
    \A c \in Clients : conn[c] = "opening" =>
        \A e \in store :
            /\ e <= after[c]
            /\ \A f \in events[c] : sessionOf[f] # sessionOf[e]
            => e \in dropped[c]

(***************************************************************************)
(* Liveness                                                                *)
(***************************************************************************)

\* Every stored event reaches the page, through any number of reconnections
\* and crashes, unless it is pruned first or is one of those two kinds.
CatchesUp ==
    \A c \in Clients : \A e \in Seqs :
        e \in store ~> e \in events[c] \cup dropped[c] \cup jumped[c] \/ e \notin store
=============================================================================
