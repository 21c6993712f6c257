------------------------------- MODULE Ingest -------------------------------
(***************************************************************************)
(* Ingestion in the monitor: from Goose's messages table to the events     *)
(* table (backend/collector.py, backend/normalizer.py MessageState,        *)
(* backend/sources/sessions_db.py, and the writes of backend/store.py).    *)
(*                                                                         *)
(* Goose appends a message as a row with the next id.  Now and then it     *)
(* rewrites the table: the same messages under fresh, higher ids.  The     *)
(* collector reads the rows past its cursor, pairs tool requests with      *)
(* their responses, and stores an event for each pair and each text.  The  *)
(* events, the counters and the cursor are in SQLite; requests that wait   *)
(* for their response are in memory.                                       *)
(*                                                                         *)
(* An event is its event_id, which is made of content that a rewrite       *)
(* keeps: the call id of a pair, the digest of a text.                     *)
(*                                                                         *)
(* A definition right before another of the same shape, whose name it      *)
(* extends (CountedAlways, Counted), is that definition with a             *)
(* mistake in the code; the model never uses it (README, Mutants).         *)
(***************************************************************************)
EXTENDS Integers, Sequences, FiniteSets, SequencesExt

CONSTANTS
    Conversation,   \* the messages Goose will write: each a sequence of items
    MaxId,          \* bound: message ids, so also rewrites
    MaxErrors,      \* bound: messages that fail
    MaxPollErrors,  \* bound: polls that fail as a whole
    MaxCrashes,     \* bound: restarts of the monitor
    MaxPruned       \* bound: events that retention removes

Item(kind, key) == [kind |-> kind, key |-> key]
Kinds == {"request", "response", "text"}

ASSUME ConversationAssumption ==
    /\ Conversation \in Seq(Seq([kind : Kinds, key : STRING]))
    /\ {MaxId, MaxErrors, MaxPollErrors, MaxCrashes, MaxPruned} \subseteq Nat

Messages == DOMAIN Conversation
Keys == UNION {{item.key : item \in ToSet(Conversation[m])} : m \in Messages}

RequestOf(key) ==
    {m \in Messages : Item("request", key) \in ToSet(Conversation[m])}
ResponseOf(key) ==
    {m \in Messages : Item("response", key) \in ToSet(Conversation[m])}
TextOf(key) == {m \in Messages : Item("text", key) \in ToSet(Conversation[m])}

\* Goose writes the response to a call after the request, and gives a call its
\* own id: what asks for a call comes before all that answers it.
ASSUME AnswersAssumption ==
    \A m \in Messages : \A i \in DOMAIN Conversation[m] :
        LET key == Conversation[m][i].key
        IN  Conversation[m][i].kind = "response" =>
               /\ RequestOf(key) # {}
               /\ \A l \in RequestOf(key) : l <= m
               /\ \A j \in DOMAIN Conversation[m] :
                     Conversation[m][j] = Item("request", key) => j < i

VARIABLES
    table,      \* Goose's messages: in order of id, the message of each row
    nextId,     \* its AUTOINCREMENT counter
    stored,     \* event_ids in the events table
    count,      \* event_count of the session
    cursor,     \* the persisted cursor
    polling,    \* poll_once is under way
    batch,      \* rows it has read and not processed
    maxId,      \* max_id of the poll
    pending,    \* MessageState.pending: requests without a response yet
    seen,       \* Collector.seen
    failed,     \* history: messages whose processing failed
    pruned,     \* history: events retention removed
    again,      \* history: events stored again after that
    orphaned,   \* history: pending requests, behind the cursor, a restart lost
    pollErrors, crashes

gooseVars == <<table, nextId>>
storeVars == <<stored, count, cursor>>
memoryVars == <<polling, batch, maxId, pending, seen>>
historyVars == <<failed, pruned, again, orphaned>>
vars == <<gooseVars, storeVars, memoryVars, historyVars, pollErrors, crashes>>

Rows == [id : 1 .. MaxId, message : Messages]

TypeOK ==
    /\ table \in Seq(Rows) /\ nextId \in 1 .. MaxId + 1
    /\ stored \in SUBSET Keys /\ count \in Nat /\ cursor \in 0 .. MaxId
    /\ polling \in BOOLEAN /\ batch \in Seq(Rows) /\ maxId \in 0 .. MaxId
    /\ pending \in SUBSET Keys /\ seen \in SUBSET Keys
    /\ failed \in SUBSET Messages
    /\ pruned \in SUBSET Keys /\ again \in SUBSET pruned /\ orphaned \in SUBSET Keys
    /\ pollErrors \in 0 .. MaxPollErrors /\ crashes \in 0 .. MaxCrashes

Init ==
    /\ table = <<>> /\ nextId = 1
    /\ stored = {} /\ count = 0 /\ cursor = 0
    /\ polling = FALSE /\ batch = <<>> /\ maxId = 0
    /\ pending = {} /\ seen = {}
    /\ failed = {} /\ pruned = {} /\ again = {} /\ orphaned = {}
    /\ pollErrors = 0 /\ crashes = 0

(***************************************************************************)
(* Goose                                                                   *)
(***************************************************************************)

Written == {table[i].message : i \in DOMAIN table}

Write ==
    /\ nextId <= MaxId
    /\ \E m \in Messages :
          /\ m \notin Written /\ \A k \in 1 .. m - 1 : k \in Written
          /\ table' = Append(table, [id |-> nextId, message |-> m])
    /\ nextId' = nextId + 1
    /\ UNCHANGED <<storeVars, memoryVars, historyVars, pollErrors, crashes>>

Rewrite ==
    /\ table # <<>>
    /\ nextId + Len(table) <= MaxId + 1
    /\ table' = [i \in DOMAIN table |->
                    [id |-> nextId + i - 1, message |-> table[i].message]]
    /\ nextId' = nextId + Len(table)
    /\ UNCHANGED <<storeVars, memoryVars, historyVars, pollErrors, crashes>>

(***************************************************************************)
(* MessageState.feed: what the items of one message make of the pending    *)
(* requests, and the events that come out, in order.                       *)
(***************************************************************************)

FeedItem(s, item) ==
    CASE item.kind = "request" ->
            [s EXCEPT !.pending = @ \cup {item.key}]
      [] item.kind = "response" ->
            [pending |-> s.pending \ {item.key},
             out |-> IF item.key \in s.pending \ seen THEN Append(s.out, item.key)
                                                      ELSE s.out]
      [] item.kind = "text" ->
            [s EXCEPT !.out = IF item.key \in seen THEN @ ELSE Append(@, item.key)]

Feed(items) == FoldLeft(FeedItem, [pending |-> pending, out |-> <<>>], items)

(***************************************************************************)
(* poll_once                                                               *)
(***************************************************************************)

\* read_new(after_message_id = cursor): the rows past the cursor, in order of
\* id, as all rows are.
RowsPast(id) ==
    SubSeq(table, Cardinality({i \in DOMAIN table : table[i].id <= id}) + 1, Len(table))

PollBegin ==
    /\ ~polling
    /\ polling' = TRUE
    /\ batch' = RowsPast(cursor)
    /\ maxId' = cursor
    /\ UNCHANGED <<gooseVars, storeVars, pending, seen, historyVars, pollErrors,
                   crashes>>

\* insert_event: INSERT OR IGNORE, and the session's counter if a row came of
\* it, in one transaction for each event; then the event is seen.
CountedAlways(keys) == Cardinality(keys)
Counted(keys) == Cardinality(keys \ stored)
SeenForgotten(keys) == seen
Seen(keys) == seen \cup keys
Insert(keys) ==
    /\ stored' = stored \cup keys
    /\ count' = count + Counted(keys)
    /\ again' = again \cup (keys \cap (pruned \ stored))
Store(keys) == Insert(keys) /\ seen' = Seen(keys)

\* A row counts toward the cursor however it went: the finally clause, which
\* also serves a message that fails.
NextRowPast ==
    /\ batch' = Tail(batch)
    /\ maxId' = Head(batch).id + 1
NextRowTableMax ==
    /\ batch' = Tail(batch)
    /\ maxId' = table[Len(table)].id
NextRow ==
    /\ batch' = Tail(batch)
    /\ maxId' = Head(batch).id

SkipRowUncounted ==
    /\ batch' = <<>>
    /\ UNCHANGED maxId
SkipRow == NextRow

Items == Conversation[Head(batch).message]

ProcessRow ==
    /\ polling /\ batch # <<>>
    /\ pending' = Feed(Items).pending
    /\ Store(ToSet(Feed(Items).out))
    /\ NextRow
    /\ UNCHANGED <<gooseVars, cursor, polling, failed, pruned, orphaned,
                   pollErrors, crashes>>

\* A message that fails may fail on every reading.
MayFail(m) == Cardinality(failed \cup {m}) <= MaxErrors

\* Normalizing one of the items raises: a response, whose request is gone
\* from pending by then.  The items after it are not looked at.
NormalizeFails ==
    /\ polling /\ batch # <<>>
    /\ MayFail(Head(batch).message)
    /\ \E i \in DOMAIN Items :
          /\ Items[i].kind = "response"
          /\ pending' = Feed(SubSeq(Items, 1, i)).pending
    /\ failed' = failed \cup {Head(batch).message}
    /\ SkipRow
    /\ UNCHANGED <<gooseVars, storeVars, polling, seen, pruned, again, orphaned,
                   pollErrors, crashes>>

\* Storing one of the events raises, as for a text that SQLite cannot bind: it
\* leaves nothing, and the rest of the message is skipped.
InsertFails ==
    /\ polling /\ batch # <<>>
    /\ MayFail(Head(batch).message)
    /\ pending' = Feed(Items).pending
    /\ \E n \in 0 .. Len(Feed(Items).out) - 1 :
          Store(ToSet(SubSeq(Feed(Items).out, 1, n)))
    /\ failed' = failed \cup {Head(batch).message}
    /\ SkipRow
    /\ UNCHANGED <<gooseVars, cursor, polling, pruned, orphaned, pollErrors,
                   crashes>>

\* set_cursor after the last row, and prune of what retention lets go
PollEnd(old) ==
    /\ polling /\ batch = <<>>
    /\ polling' = FALSE
    /\ cursor' = maxId
    /\ Cardinality(pruned \cup old) <= MaxPruned
    /\ stored' = stored \ old
    /\ pruned' = pruned \cup old
    /\ UNCHANGED <<gooseVars, count, batch, maxId, pending, seen, failed, again,
                   orphaned, pollErrors, crashes>>

\* set_cursor raises: run logs it, and the next poll reads the rows again.
PollFails ==
    /\ polling /\ batch = <<>>
    /\ pollErrors < MaxPollErrors /\ pollErrors' = pollErrors + 1
    /\ polling' = FALSE
    /\ UNCHANGED <<gooseVars, storeVars, batch, maxId, pending, seen, historyVars,
                   crashes>>

\* Messages whose row the persisted cursor has passed
Behind == {table[i].message : i \in {j \in DOMAIN table : table[j].id <= cursor}}

\* The monitor dies, and starts again with empty memory.
Dies ==
    /\ crashes < MaxCrashes /\ crashes' = crashes + 1
    /\ polling' = FALSE /\ batch' = <<>> /\ maxId' = 0
    /\ pending' = {} /\ seen' = {}
    /\ orphaned' = orphaned \cup {k \in pending : RequestOf(k) \subseteq Behind}

Crash ==
    /\ Dies
    /\ UNCHANGED <<gooseVars, storeVars, failed, pruned, again, pollErrors>>

\* It dies within a message, some of whose events are committed.
CrashInRow ==
    /\ polling /\ batch # <<>>
    /\ \E n \in 1 .. Len(Feed(Items).out) :
          Insert(ToSet(SubSeq(Feed(Items).out, 1, n)))
    /\ Dies
    /\ UNCHANGED <<gooseVars, cursor, failed, pruned, pollErrors>>

(***************************************************************************)

Next ==
    \/ Write \/ Rewrite
    \/ PollBegin \/ ProcessRow \/ NormalizeFails \/ InsertFails \/ PollFails
    \/ \E old \in SUBSET stored : PollEnd(old)
    \/ Crash \/ CrashInRow

Spec == Init /\ [][Next]_vars

\* run's loop polls for ever, and a poll goes on to its end.
FairSpec ==
    /\ Spec
    /\ WF_vars(PollBegin) /\ WF_vars(ProcessRow)
    /\ WF_vars(\E old \in SUBSET stored : PollEnd(old))

(***************************************************************************)
(* Properties                                                              *)
(***************************************************************************)

\* However often Goose rewrites its table, polls fail and the monitor
\* restarts, each event is counted once: only one that was pruned, and then
\* read again by a process that has not seen it, counts twice (insert_event,
\* Collector.seen).
CountsAreDistinct ==
    again = {} => count = Cardinality(stored \cup pruned)

\* An event that retention removed comes back only after a restart: within a
\* process's lifetime seen keeps it out (feed, _pair).
PrunedStaysOut == crashes = 0 => again = {}

\* Nothing behind the cursor is missing: the event of every text and of every
\* answered call is stored or was pruned, unless its message failed or a
\* restart came between the request and the response (poll_once, feed).
Lost(key) ==
    /\ \/ TextOf(key) # {} /\ TextOf(key) \subseteq Behind
       \/ ResponseOf(key) # {} /\ RequestOf(key) \cup ResponseOf(key) \subseteq Behind
    /\ key \notin stored \cup pruned
Excused(key) ==
    (RequestOf(key) \cup ResponseOf(key) \cup TextOf(key)) \cap failed # {}
NothingLost == \A key \in Keys : Lost(key) => Excused(key) \/ key \in orphaned

\* "restarts resume from where they left off" (monitor/README.md:21): a
\* restart by itself loses no event.
RestartLosesNothing == \A key \in Keys : Lost(key) => Excused(key)

\* Every message is passed in the end, the ones that fail on every reading too
\* (the finally clause of poll_once).
CatchesUp == \A m \in Messages : m \in Written ~> m \in Behind
=============================================================================
