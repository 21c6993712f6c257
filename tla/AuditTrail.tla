----------------------------- MODULE AuditTrail -----------------------------
(***************************************************************************)
(* How the monitor learns the tier and the decision of a tool call: the    *)
(* gateway appends a line to audit.log for each call it has decided        *)
(* (gateway/gateway_mcp.py audit), the monitor tails the file              *)
(* (backend/sources/audit_log.py) into an index (backend/audit_index.py),  *)
(* and gives each tool call, when its response appears in Goose's table,   *)
(* the nearest line of that tool and key argument in a window of time      *)
(* (backend/collector.py poll_once).  Nothing but these identifies a call. *)
(*                                                                         *)
(* A line is written in one piece, or, when it is longer than the buffer,  *)
(* in two.  File offsets are in halves of a line.                          *)
(*                                                                         *)
(* A definition right before another of the same shape, whose name it      *)
(* extends (KeysAgreeAlways, KeysAgree), is that definition with a         *)
(* mistake in the code; the model never uses it (README, Mutants).         *)
(***************************************************************************)
EXTENDS Integers, Sequences, FiniteSets, SequencesExt

CONSTANTS
    Calls,          \* tool calls, in any sessions
    Tools,          \* tools, their names normalized
    Keys,           \* values of the key argument
    Secrets,        \* keys that redaction changes
    NoKey,          \* for a call without a key argument
    Redacted,       \* what the log has for a secret
    Window,         \* window_ms
    MaxRecords,     \* MAX_RECORDS
    MaxTime,        \* bound: the clock
    MaxFailures     \* bound: rows that make no event, inserts and polls that fail,
                    \* rotations or truncations of the log, restarts of the monitor

ASSUME AuditAssumption ==
    /\ Window \in Nat /\ MaxRecords \in Nat \ {0} /\ MaxTime \in Nat \ {0}
    /\ Secrets \subseteq Keys /\ {NoKey, Redacted} \cap Keys = {} /\ NoKey # Redacted
    /\ MaxFailures \in Nat

VARIABLES
    toolOf, keyOf,  \* what each call is; never changes
    requestedAt,    \* created_timestamp of each call's request; 0 while open
    loggedAt,       \* ts of its audit line; 0 if it has none
    log,            \* audit.log: the calls of its whole lines
    half,           \* the call whose line is half written, if any
    inode,          \* of audit.log
    rows,           \* Goose's table: answered calls, in order of id
    phase,          \* poll_once: idle, audit lines read, or rows read
    done,           \* rows processed
    limit,          \* rows read
    cursor,         \* rows behind the persisted cursor
    offset,         \* AuditTailer.offset
    tailInode,      \* AuditTailer.inode; 0 for None
    recs,           \* AuditIndex.recs
    stored,         \* calls whose event is in the store
    label,          \* the line each event's tier and decision come from, if any
    seen,           \* Collector.seen: the events this process has stored
    delivered,      \* history: lines this process has put into the index
    torn,           \* history: lines it read while half written
    evicted,        \* history: lines it dropped for MAX_RECORDS
    taken,          \* history: lines it gave to another call than their own, or
                    \* to an event that was then not stored
    hidden,         \* history: a truncation the tailer cannot see
    errors, rotations, crashes

gooseVars == <<toolOf, keyOf, requestedAt, loggedAt, log, half, inode, rows>>
pollVars == <<phase, done, limit, cursor>>
tailVars == <<offset, tailInode>>
storeVars == <<stored, label>>
boundVars == <<errors, rotations, crashes>>
vars == <<gooseVars, pollVars, tailVars, recs, storeVars, seen, delivered, torn,
          evicted, taken, hidden, boundVars>>

Times == 1 .. MaxTime
Records == [call : Calls, used : BOOLEAN]

TypeOK ==
    /\ toolOf \in [Calls -> Tools] /\ keyOf \in [Calls -> Keys \cup {NoKey}]
    /\ requestedAt \in [Calls -> Times \cup {0}]
    /\ loggedAt \in [Calls -> Times \cup {0}]
    /\ log \in Seq(Calls) /\ half \in SUBSET Calls /\ Cardinality(half) <= 1
    /\ inode \in 1 .. MaxFailures + 1
    /\ rows \in Seq(Calls)
    /\ phase \in {"idle", "messages", "rows"}
    /\ cursor \in 0 .. done /\ done \in 0 .. limit /\ limit \in 0 .. Len(rows)
    /\ offset \in Nat /\ tailInode \in 0 .. inode
    /\ recs \in Seq(Records) /\ Len(recs) <= MaxRecords
    /\ stored \in SUBSET Calls /\ seen \in SUBSET stored /\ label \in [Calls -> SUBSET Calls]
    /\ \A c \in Calls : Cardinality(label[c]) <= 1
    /\ delivered \in SUBSET Calls /\ torn \in SUBSET Calls
    /\ evicted \in SUBSET Calls /\ taken \in SUBSET Calls /\ hidden \in BOOLEAN
    /\ errors \in 0 .. MaxFailures /\ rotations \in 0 .. MaxFailures
    /\ crashes \in 0 .. MaxFailures

Init ==
    /\ toolOf \in [Calls -> Tools] /\ keyOf \in [Calls -> Keys \cup {NoKey}]
    /\ requestedAt = [c \in Calls |-> 0] /\ loggedAt = [c \in Calls |-> 0]
    /\ log = <<>> /\ half = {} /\ inode = 1 /\ rows = <<>>
    /\ phase = "idle" /\ done = 0 /\ limit = 0 /\ cursor = 0
    /\ offset = 0 /\ tailInode = 0 /\ recs = <<>>
    /\ stored = {} /\ seen = {} /\ label = [c \in Calls |-> {}]
    /\ delivered = {} /\ torn = {} /\ evicted = {} /\ taken = {} /\ hidden = FALSE
    /\ errors = 0 /\ rotations = 0 /\ crashes = 0

(***************************************************************************)
(* Goose and the gateway                                                   *)
(***************************************************************************)

MayFail == errors + rotations + crashes < MaxFailures

Answered == ToSet(rows)
MonitorUnchanged ==
    UNCHANGED <<toolOf, keyOf, pollVars, tailVars, recs, storeVars, seen, delivered,
                torn, evicted, taken, errors, crashes>>

\* audit(), whose ts is the moment of logging: after the request, whose row
\* nobody looks at before the response, and after the decision and the run.
WriteLine(c) ==
    /\ loggedAt[c] = 0 /\ c \notin Answered /\ half = {}
    /\ \E t \in Times, u \in Times :
          /\ u <= t /\ \A d \in Calls : loggedAt[d] <= t
          /\ loggedAt' = [loggedAt EXCEPT ![c] = t]
          /\ requestedAt' = [requestedAt EXCEPT ![c] = u]
    /\ \/ log' = Append(log, c) /\ UNCHANGED half
       \/ half' = {c} /\ UNCHANGED log
    /\ UNCHANGED <<inode, rows, hidden, rotations>>
    /\ MonitorUnchanged

FinishLine(c) ==
    /\ c \in half
    /\ log' = Append(log, c) /\ half' = {}
    /\ UNCHANGED <<requestedAt, loggedAt, inode, rows, hidden, rotations>>
    /\ MonitorUnchanged

\* The gateway answers once it has logged, or without logging (handle_call), and
\* Goose stores the response.
Respond(c) ==
    /\ c \notin Answered \cup half
    /\ rows' = Append(rows, c)
    /\ IF loggedAt[c] # 0 THEN UNCHANGED requestedAt
       ELSE \E u \in Times : requestedAt' = [requestedAt EXCEPT ![c] = u]
    /\ UNCHANGED <<loggedAt, log, half, inode, hidden, rotations>>
    /\ MonitorUnchanged

\* The operator moves the log away, or empties it in place.
Rotate(inPlace) ==
    /\ log # <<>> /\ half = {}
    /\ MayFail /\ rotations' = rotations + 1
    /\ log' = <<>>
    /\ inode' = IF inPlace THEN inode ELSE inode + 1
    /\ hidden' = (hidden \/ inPlace)
    /\ UNCHANGED <<requestedAt, loggedAt, half, rows>>
    /\ MonitorUnchanged

(***************************************************************************)
(* The tailer and the index                                                *)
(***************************************************************************)

Size == 2 * Len(log) + Cardinality(half)

\* A rotated or truncated file is read from its start.
StaleNever == FALSE
Stale == (tailInode # 0 /\ tailInode # inode) \/ Size < offset

\* Lines that begin at or after an offset and are whole.  The end of a line
\* whose beginning an earlier read has passed is no JSON, and neither is a
\* beginning without its end.
LinesFrom(start) == SubSeq(log, ((start + 1) \div 2) + 1, Len(log))
NewLines == LinesFrom(IF Stale THEN 0 ELSE offset)

KeepUnused(kept, r) == IF r.used THEN kept ELSE Append(kept, r)
Unused(rs) == FoldLeft(KeepUnused, <<>>, rs)
LastOnes(s, n) == IF Len(s) > n THEN SubSeq(s, Len(s) - n + 1, Len(s)) ELSE s
PruneUsedOnly(rs) == Unused(rs)
Prune(rs) ==
    IF Len(rs) > MaxRecords \/ \E i \in DOMAIN rs : rs[i].used
    THEN LastOnes(Unused(rs), MaxRecords) ELSE rs

\* add
Add(rs, c) == Prune(Append(rs, [call |-> c, used |-> FALSE]))

CallsIn(rs) == {rs[i].call : i \in DOMAIN rs}

(***************************************************************************)
(* poll_once                                                               *)
(***************************************************************************)

\* for rec in tailer.read_new(): audit.add(rec)
ReadAudit ==
    /\ phase = "idle" /\ phase' = "messages"
    /\ offset' = Size
    /\ tailInode' = inode
    /\ recs' = FoldLeft(Add, recs, NewLines)
    /\ delivered' = delivered \cup ToSet(NewLines)
    /\ torn' = torn \cup half
    /\ evicted' = evicted \cup
          ((CallsIn(Unused(recs)) \cup ToSet(NewLines)) \ CallsIn(recs'))
    /\ hidden' = (hidden /\ ~Stale)
    /\ UNCHANGED <<gooseVars, done, limit, cursor, storeVars, seen, taken, boundVars>>

\* read_new(after_message_id = cursor)
ReadMessages ==
    /\ phase = "messages" /\ phase' = "rows"
    /\ limit' = Len(rows)
    /\ UNCHANGED <<gooseVars, done, cursor, tailVars, recs, storeVars, seen, delivered,
                   torn, evicted, taken, hidden, boundVars>>

Distance(t, u) == IF t > u THEN t - u ELSE u - t

LoggedKey(c) == IF keyOf[c] \in Secrets THEN Redacted ELSE keyOf[c]

\* A key that is not there agrees with every other.
KeysAgreeAlways(c, d) == TRUE
KeysAgree(c, d) == NoKey \in {keyOf[c], LoggedKey(d)} \/ keyOf[c] = LoggedKey(d)

InWindowBelow(c, d) == Distance(loggedAt[d], requestedAt[c]) < Window
InWindow(c, d) == Distance(loggedAt[d], requestedAt[c]) <= Window

Candidates(c) ==
    {i \in DOMAIN recs :
        LET d == recs[i].call
        IN  ~recs[i].used /\ toolOf[d] = toolOf[c] /\ KeysAgree(c, d) /\ InWindow(c, d)}

\* match: the nearest in time, the first of those in the index
Matches(c) ==
    {i \in Candidates(c) : \A j \in Candidates(c) :
        LET di == Distance(loggedAt[recs[i].call], requestedAt[c])
            dj == Distance(loggedAt[recs[j].call], requestedAt[c])
        IN  di < dj \/ (di = dj /\ i <= j)}

ConsumeNot(ms) == recs
Consume(ms) == [i \in DOMAIN recs |-> [recs[i] EXCEPT !.used = @ \/ i \in ms]]

\* The row in hand, and the line that match gives its event, if any
Row == rows[done + 1]
Found == {recs[i].call : i \in Matches(Row)}

\* The response gives an event: match, then insert_event, which leaves an event
\* as it is that an earlier process stored.
ProcessRow ==
    /\ phase = "rows" /\ done < limit
    /\ done' = done + 1
    /\ Row \notin seen /\ seen' = seen \cup {Row}
    /\ recs' = Consume(Matches(Row))
    /\ stored' = stored \cup {Row}
    /\ label' = [label EXCEPT ![Row] = IF Row \in stored THEN @ ELSE Found]
    /\ taken' = taken \cup (Found \ {Row})
    /\ UNCHANGED <<gooseVars, phase, limit, cursor, tailVars, delivered, torn,
                   evicted, hidden, boundVars>>

\* The response gives none: this process has stored it, or its request is gone, or
\* normalizing it raises.
SkipRow ==
    /\ phase = "rows" /\ done < limit
    /\ \/ Row \in seen /\ UNCHANGED errors
       \/ MayFail /\ errors' = errors + 1
    /\ done' = done + 1
    /\ UNCHANGED <<gooseVars, phase, limit, cursor, tailVars, recs, storeVars, seen,
                   delivered, torn, evicted, taken, hidden, rotations, crashes>>

\* insert_event raises, when match has used the line.
InsertFails ==
    /\ phase = "rows" /\ done < limit
    /\ MayFail /\ errors' = errors + 1
    /\ done' = done + 1
    /\ Row \notin seen
    /\ recs' = Consume(Matches(Row))
    /\ taken' = taken \cup Found
    /\ UNCHANGED <<gooseVars, phase, limit, cursor, tailVars, storeVars, seen,
                   delivered, torn, evicted, hidden, rotations, crashes>>

\* set_cursor
PollEnd ==
    /\ phase = "rows" /\ done = limit
    /\ phase' = "idle"
    /\ cursor' = done
    /\ UNCHANGED <<gooseVars, done, limit, tailVars, recs, storeVars, seen, delivered,
                   torn, evicted, taken, hidden, boundVars>>

\* Reading the rows or set_cursor raises: the next poll reads the same rows again.
PollFails ==
    /\ phase = "messages" \/ (phase = "rows" /\ done = limit)
    /\ MayFail /\ errors' = errors + 1
    /\ phase' = "idle"
    /\ done' = cursor
    /\ UNCHANGED <<gooseVars, limit, cursor, tailVars, recs, storeVars, seen, delivered,
                   torn, evicted, taken, hidden, rotations, crashes>>

\* The monitor dies at any point and starts again, with an empty index and at
\* the start of the log.
Crash ==
    /\ MayFail /\ crashes' = crashes + 1
    /\ phase' = "idle" /\ done' = cursor /\ limit' = cursor
    /\ offset' = 0 /\ tailInode' = 0 /\ recs' = <<>>
    /\ seen' = {} /\ delivered' = {} /\ torn' = {} /\ evicted' = {} /\ taken' = {}
    /\ hidden' = FALSE
    /\ UNCHANGED <<gooseVars, cursor, storeVars, errors, rotations>>

(***************************************************************************)

Next ==
    \/ \E c \in Calls : WriteLine(c) \/ FinishLine(c) \/ Respond(c)
    \/ \E inPlace \in BOOLEAN : Rotate(inPlace)
    \/ ReadAudit \/ ReadMessages \/ ProcessRow \/ SkipRow \/ InsertFails
    \/ PollEnd \/ PollFails \/ Crash

Spec == Init /\ [][Next]_vars

(***************************************************************************)
(* Properties                                                              *)
(***************************************************************************)

\* A line serves one call: two events with the same line's tier and decision
\* exist only after a restart, which forgets what has been used (match).
OneCallPerLine ==
    crashes = 0 =>
        \A c, d \in Calls : label[c] \cap label[d] # {} => c = d

Confusable(c, d) ==
    toolOf[c] = toolOf[d] /\ (keyOf[c] = keyOf[d] \/ NoKey \in {keyOf[c], keyOf[d]})

\* An event shows its own call's decision unless another call of that tool was
\* logged with the same key, or one of them has none: no order of polls, no
\* restart and no rotation mixes up calls that differ (match).
LabelIsOwn ==
    \A c, d \in Calls : d \in label[c] /\ d # c => Confusable(c, d)

\* What the tailer has passed it has delivered, but for a line it read while
\* half of it was written, or whose file shrank and grew again unseen (read_new).
PassedIsDelivered ==
    tailInode = inode /\ ~hidden =>
        \A i \in DOMAIN log : 2 * i <= offset => log[i] \in delivered \cup torn

\* A call that was logged stays without a tier for one of six reasons only: its
\* line was not delivered yet, was dropped for MAX_RECORDS, went to another call or
\* to an event that failed to be stored, was redacted, or was written more than the
\* window after the request.
MissedForAReason ==
    [][\A c \in stored' \ stored :
         loggedAt[c] # 0 /\ label'[c] = {} =>
            \/ c \notin delivered \/ c \in evicted \/ c \in taken
            \/ keyOf[c] \in Secrets
            \/ Distance(loggedAt[c], requestedAt[c]) > Window]_vars

\* "each audit record is correlated (by tool name + key argument + a time window)
\* to the matching tool-call event to attach its approval tier and decision"
\* (monitor/README.md:16-18): the event of a call whose line was delivered before
\* its response was read has a tier.
DecisionShown ==
    [][\A c \in stored' \ stored : c \in delivered => label'[c] # {}]_vars
=============================================================================
