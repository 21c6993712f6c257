# A verification of the Qwen harness

TLA+ specifications of the harness's own logic: the gateway that stands between
Goose and its tools, the tool servers behind it, and the monitor that turns
Goose's message table into a live view. TLC checks them on small instances;
TLAPS proves, for every instance, the safety of all seven of them, and that the gateway
implements an abstract gate.

Contents: [the system](#the-system), [the modules](#the-modules),
[runs](#what-the-runs-show), [proofs](#what-is-proved),
[mutants](#mutants), [what is left out](#what-is-left-out), [plan](#plan).

## The system

```
 Goose --MCP--> gateway process --MCP--> one container per call (shared /work)
   |               |     ^
   |          audit.log  pending/ decided/ <--> approve.py (a person)
   v               |
 sessions.db --> collector --> events.db --> WebSocket handler --> page
                     \------> hub ------------^    REST --------^
```

| component | state | operations | with whom |
|---|---|---|---|
| gateway (`gateway/gateway_mcp.py`) | registry, the request in hand, files in `pending/`, `decided/`, `audit.log` | `handle`, `ensure_registry`, `handle_call`, `approve`, `audit`, `Downstream` | Goose by stdin and stdout; containers by pipes; `approve.py` and other gateway processes by files |
| approval CLI (`gateway/approve.py`) | none | `list_pending`, `decide` | the two directories |
| collector (`monitor/backend/collector.py`) | `MessageState.pending`, `seen`, `known_sessions`, audit index, tailer offset | `poll_once`, `_emit`, `run` | Goose's database, `audit.log`, the store, the hub |
| normalizer (`normalizer.py`) | `pending` | `feed`, `_pair` | called for each row |
| store (`store.py`) | tables events, sessions, cursors | `insert_event`, `prune`, `set_cursor`, `upsert_session`, queries | collector (the loop), handlers (the loop), REST (threads) |
| hub (`hub.py`) | one bounded queue per subscriber | `subscribe`, `publish`, `unsubscribe` | collector to handlers |
| server (`app.py`) | `last_seq` and the page of each WebSocket | `ws`, REST endpoints | store, hub, pages |
| page: connection (`monitor/web/app.js`) | `maxSeq`, the WebSocket, the backoff timer | `connectWS`, `handleEventMessage`, `mergeEvents` | server |
| page: sessions | counters, label and status of each session | `loadSessions`, `refreshSessionsPeriodic`, `handleSessionMessage`, `ensureSession` | server, by REST every ten seconds and by messages |
| page: event table | buffers, selection, filters, `state.view`, rows of the DOM | `selectSession`, `reloadHistoryWithFilters`, `renderEvents`, `loadMoreRows`, `onLiveEvent` | server; the user |
| audit correlation (`audit_index.py`, `audit_log.py`) | records not yet used; file offset | `read_new`, `add`, `match` | gateway's log, collector |
| detection, findings, ATT&CK (`detection.py`, ...) | none | pure functions of a call's text | normalizer |
| tool servers (`sandbox/`, `web/`, `nettools/`, `kali/`) | none but `/work`, which all sandbox containers mount | `main`, `handle`, one tool | gateway, by stdin and stdout |
| model backends (`vllm/*.sh`) | Goose's provider, one container | `fp8`, `ollama`, `start`, `stop` | the operator |

Where the difficulty is, and what makes each part correct:

* **Gateway.** Every session has its own process, and all share one state
  directory; decisions come from another program at any time, late or half
  written; containers break, enumeration fails, processes are killed. Correct
  means: a HIGH call runs only after a person approved it; a denied call never
  runs; the log tells what happened; no container is held for good; the loop never
  wedges.
* **Live feed.** Two sources, the stored backlog and the hub, must add up to one
  stream without gap or duplicate, although publications lag, queues overflow,
  retention removes rows, pages reconnect and the monitor restarts; and the
  number a page resumes from must be honest.
* **Ingestion.** Goose rewrites its table under new ids, messages fail, polls
  fail and the monitor restarts. Every event is to be stored and counted once,
  nothing behind the cursor is to be missing, and no message may wedge the loop.
* **Audit correlation.** The log is read while it is written, is rotated, and
  carries nothing that names a call of Goose's table: lines are given to calls by
  tool, key argument and nearness in time. Every line is to be delivered to the
  index, to serve one call, and to serve a call it could belong to; a
  logged call is to be shown without its decision only for a known reason.
* **Tool servers.** A call is a conversation of three messages with a process
  that may die at any of them; `request()` has no time limit of its own, so the
  limits of the tools have to do. Files outlive containers and are shared.
* **Sidebar.** The page counts each event message and also takes over what a
  refresh says, refreshes overtake each other and messages are lost; in the end
  the sidebar has to say what the server says.
* **Event table.** Live rows, history responses, filters, scrolling and the
  selection change the same rows in any order; rows, filtered events and the
  counter of shown rows must stay in step, and no buffered event be missing.

`PROJECT.json` lists the hazards at their lines, with the properties that watch
each one.

## The modules

`Gateway`, `ToolServer`, `LiveFeed`, `Ingest`, `AuditTrail`, `Sidebar` and
`EventTable` are the detailed specifications and `ToolGate` an abstract one; the
`MC...` modules give TLC their instances. The proofs are in a module of their own for
each: `GatewaySafety` (and `GatewayRefines`, that it implements `ToolGate`),
`ToolServerProofs`, `LiveFeedProofs`, `IngestProofs`, `AuditTrailProofs`,
`SidebarProofs` and `EventTableProofs`.

How they fit:

* `Gateway` implements `ToolGate` (the instance `Promise` in `Gateway`).
* `ToolServer` is the container that `Gateway` sees as one that answers, breaks
  or goes: `ToolServer!CallsEnd` is what `Gateway!FairSpec` assumes of it.
* The monitor is modelled from the sides of its poll. `Ingest` says which events
  get into the store, `LiveFeed` how they get to the page, `AuditTrail` what they
  say of the gateway; `Sidebar` and `EventTable` what the page makes of them. They
  meet in `insert_event` (`Ingest!Store` adds what `LiveFeed!Insert` takes), in
  `maxSeq` (`Sidebar` and `EventTable` have the short form of the connection
  that `LiveFeed` has in full: what is stored past `maxSeq`, then what is new, in
  order, but for what a full queue drops), and in the log
  (`AuditTrail!WriteLine` is `Gateway!Record` as the monitor sees it: a line with a
  tool, a key and a time, and no call).

### Gateway

One gateway process is a loop that serves a request to its end; `pc` says where
in `handle` and `handle_call` it is. A step ends where another actor can see or
disturb the process: a file written or read, a container started or heard, an
answer sent.

| code | model |
|---|---|
| `main`, `handle` | `Receive`, then `ServeList` or the steps of `handle_call`; `Finish` with `"internal"` is main's -32603 |
| `ensure_registry`, `build_registry` | `Enumerate` a round for each server, `EnumerateFails`; `loaded` is how far it got. REGISTRY is read only after the last round, so nothing more of it is kept |
| policy lookups | `TierOf`, `ActionOf` |
| `call_id` | `TakeId`: the clock's millisecond. Ids of one process increase (a call takes longer than a millisecond); two processes may take the same |
| `approve` | `GatedCall` by mode; `PromptAnswered`, or `PromptFails` when the terminal goes away, to the queue; `WaitDecided`, `WaitTorn`, `WaitTimesOut`. The timeout may come at any poll |
| `approve.py` | `OpenDecision` creates or empties the file, `WriteDecision` fills it; on any request some listing may have shown (`filed`), also one that is over. Several people (`Operators`) may be at it: a write over another one's may leave a torn file |
| forwarding | `Forward`, `ForwardFails`, `Answered`, `Broken`; `RunTool` is the tool taking effect, at any time while the container is up and has not answered, also when its client has given it up |
| `audit`, `reply`, `ds.close` | `Record` (or `RecordFails`: an internal error and no line), `Reply`, `Close`, in the order each of the exits has. Closing ends the container's stdin (`released`), not the container |
| the world | `Kill`, `Restart`, `Teardown` (a server whose stdin has ended stops at some time, and docker removes its container), `Tick` |

`consents` records what was approved and what the person had been shown;
`executed` which tools took effect; `killed` which calls lost their process.
These and `filed` are history, and no guard of the program reads them, but for
`filed`, which is what the person can know.

### ToolGate

What the gateway promises of a call: a ruling is given once (`Rule`), only an
allowed call runs (`Run`), the log has one line for it with its ruling
(`Record`), and Goose is told the outcome or the refusal only after that line
(`Tell`). What leaves no line is told "aside": a list of tools, an error before
any tool; or as a "fault", which may have followed a run: the log could not be
written. The refinement mapping in `Gateway` reads the ruling off the call's
stage (`GateRuling`: open until the wait is over), the log off the audit lines
(`GateLog`) and the telling off the answer (`GateTold`); `ran` is `executed`.

### ToolServer

Some calls, each with a client (the gateway's `Downstream`) and a server in a
container of its own; the pipes between them; one file of `/work`.

| code | model |
|---|---|
| `Downstream.__init__`, `request`, `call_tool`, `close` | `Start` with the initialize request, `Read` (an answer with another id is ignored; after that of initialize come the notification and the request), `ReadEnds` (end of file), `Close` |
| `main`, `handle` of the four servers | `Serve` a line: at once (`AtOnce`: a reply for a request, none for a notification) or by a tool; `Respond`; `Refuse`; `ServeEnds` at the end of stdin |
| `bash`, `kali_*`, `net_*` | `RunBegins`, `RunEnds`, `RunTimesOut`; `ShellTouches` is what the program, or what it left in the background, does to the file |
| `read_file`, `write_file` | `ReadFile`; `OpenFile` (empties it), `CloseFile` (writes the buffer), `CloseFileFails`; `OpenBlocks` and `OtherEndOpens` at a FIFO |
| `web_fetch` | `CheckUrl`, then `OpenUrl`, `OpenRedirects` or `OpenFails`, then `BodyEnds` |
| the world | `KillClient` (the gateway process), `ContainerDies` |

`claim` (the last write nobody else disturbed) is history; `begun` says whose
programs may be alive. `web_fetch` has one hop: the loop that would check and open
the next URL of a chain of redirects is never entered a second time (see
`web_redirect`), so there is no chain to say anything about.

### LiveFeed

The server is one asyncio loop. A poll has no `await`, so between `PollBegin`
and `PollEnd` no task moves, but REST threads do. An action of a handler ends
where the handler awaits.

| code | model |
|---|---|
| `poll_once`, `insert_event`, `_emit` | `Insert`: next seq, row, and a scheduled publication; `InsertAgain`: an event of an earlier process, read again after a rewrite; `Repeat`: one of this process, which `seen` does not stop. Both leave the row and announce it again |
| `run` | `PollBegin`; `PollFails` when something raises, which skips `prune` |
| `prune` | `PollEnd(old)`: rows past their age, then all but the newest `MaxEvents` |
| `publish` | `Publish`: the oldest task, to every subscriber with room |
| `ws` | `Accept` (subscribe, first query), `SendRow`, `NextPage`, `Follow` |
| `connectWS`, `scheduleReconnect` | `Open`, resuming after `maxSeq` |
| `handleEventMessage` | `Receive` |
| `selectSession`, `reloadHistoryWithFilters`, `mergeEvents` | `Request` (any rows of one session that filters leave) and `Merge` |
| failures | `Disconnect`, `Crash` (also inside a poll) |

Three things take an event from a page, and the model records two of them:
`dropped` (a full queue, while live) and `jumped` (a merge moved `maxSeq` over
it). The third is retention. The properties say there is no fourth. `again` says
which events the running process has announced more than once: two equal text
items of one message have one `event_id`, and `feed` looks for it in `seen` before
the first is stored (collector.py:39-50, normalizer.py:51-59).

### Ingest

`table` is Goose's messages table; `Rewrite` gives every row a new, higher id.
An event is its `event_id`. A poll reads its rows at `PollBegin`; each is fed,
and its events stored, in one step (`ProcessRow`, or `NormalizeFails` or
`InsertFails` when something raises); `PollEnd` moves the cursor and lets
retention remove any rows, `PollFails` leaves the cursor. `Crash` may come at
any of those points and empties `pending` and `seen`; `CrashInRow` comes between
the commits of one message's events, the first of which stay.

### AuditTrail

From `audit()` in the gateway to the `match` in `poll_once`. Times are in units of
the window, offsets in halves of a line. A request's time matters only when its
line or its response is there, so it is chosen then, anywhere before the line.

| code | model |
|---|---|
| `audit` | `WriteLine`: the whole line, or half of it, which `FinishLine` completes (a write longer than the file's buffer) |
| `handle_call`'s answer, stored by Goose | `Respond`, after the line, or without one |
| `AuditTailer.read_new` | `ReadAudit`: `Stale` (another inode, or a file shorter than the offset) starts over; `NewLines` are those that are JSON |
| `AuditIndex.add`, `_prune` | `Add`, `Prune` |
| `match` | `Candidates`, `Matches`, `Consume` |
| `poll_once` | `ReadAudit`, then `ReadMessages`, then `ProcessRow`, `SkipRow` or `InsertFails` (after `match` has used the line) for each row, then `PollEnd`, or `PollFails` and the rows again; the gateway and Goose may move between any two |
| the world | `Rotate` moves the log away or empties it in place; `Crash` forgets index and offset, but not the events |

`delivered`, `torn`, `evicted`, `taken` and `hidden` are history, which the
properties use to name the reasons a line may be missing.

### Sidebar

| code | model |
|---|---|
| `poll_once`, `upsert_session` | `Register` with its announcement; `RegisterFails`, after which the session stays marked as known |
| `insert_event` | `Insert`, with the row it makes for a session without one |
| `compute_status`, `_decorate_session` | `Status`: of alerts and of the windows gone by (`Age`) |
| `loadSessions`, `refreshSessionsPeriodic` | `LoadSessions`, before the first connection; `Poll`, `PollAnswered`, `PollFails`, several in flight |
| `ensureSession` | `Merge`: what is not null wins |
| `handleSessionMessage`, `handleEventMessage` | `SessionMessage`, `EventMessage`, which counts also what was counted before |
| `insert_event` of an event that is there | `Repeat`: it is announced again, and counted again by the page |
| `connectWS`, `mergeEvents` | `Connect`, `Disconnect`; `HistoryMerged` moves `maxSeq`, connected or not |

`missed` (sessions whose registration failed in this process) is history.

### EventTable

| code | model |
|---|---|
| `selectSession` | `Select` up to its await; the rest is `HistoryArrives` or `HistoryFails` |
| filter boxes and buttons | `SetColumn` (renders, and asks for history again), `SetQuick` (renders) |
| `query_events` | `History`: the oldest rows within the limit, of a bounded scan |
| `mergeEvents`, `renderEvents` | `HistoryArrives`; `Render`, which ignores a session that is not selected |
| `loadMoreRows` | `LoadMore` |
| `handleEventMessage`, `onLiveEvent` | `EventMessage`; `LiveEvent`, `LiveRow` on top, `Trim` to the cap |
| `insert_event` of an event that is there, `ws` | `Repeat`: announced again, and sent unless the handler's replay covered it (`covered`) |

`early` (events that a response brought before the feed) and `again` (those the
server sent again) are history.

## What the runs show

| run | question | instance |
|---|---|---|
| `gateway_modes` | what one session may see: types, no call runs against its decision, log and answers agree, no way out of a call holds its container, one answer per call; each step is one `ToolGate` allows; waits, requests and containers end | 1 session, 2 requests, 2 tools on 2 servers (one auto, one to approve), 4 modes, fairness; 299 K states |
| `gateway_shared` | what sessions, and people deciding, do to each other through the shared files | 2 sessions, 1 request each, 2 people, queue mode, ids may collide; 1.05 M states |
| `tools` | one reply for each request, an undisturbed write stands, calls end | 2 calls, a tool of each kind, fairness; 194 K states |
| `web_redirect` | *violated*: redirects are followed | one fetch |
| `feed` | order, no duplicates but of events announced again, no gap between replay and feed, honest `maxSeq`, every event arrives | 1 page, 2 events, queue and page of one, retention by age and of two, two failures (an announcement made again is one), fairness; 796 K states |
| `feed_merge` | *violated*: a merge costs other sessions nothing | 2 sessions, 2 events |
| `ingest` | counted once, nothing lost, pruned stays out, never wedged | 3 messages with 2 calls and a text, ids to 7 (two rewrites of a short table, one of the full one), one message that fails as often as it is read, one failing poll, one restart, one pruned event; 43 K states |
| `ingest_restart` | *violated*: a restart loses nothing | the same conversation, one restart and no other failure |
| `audit` | one call per line, a line only for a call it could belong to, nothing passed over, no decision missing without a reason | 2 calls of a tool, alike or not, with a plain key, a secret or none; index of one; two of failing row, insert or poll, rotation and restart; 7.5 M states |
| `audit_shown` | *violated*: a delivered line's decision is shown | one call, no failure |
| `sidebar` | the sidebar comes to what the server says, labels stay, a nameless session waits for a restart | 2 events of a session, 2 refreshes in flight, two failures (a lost or repeated message is one), fairness; 354 K states |
| `table` | rows, view and counter in step, nothing missing, newest first | 2 events of one session and none of another, 2 history requests in flight, a page, a cap and a limit of one row, two failures (a lost or repeated message is one); 494 K states |

**Why these bounds.** In the gateway a second request meets everything the
first can leave (files, registry, container, id), and a third meets no more; two
processes are enough for a collision, since files are per id and a third
process adds only another holder of one; a process that has served its last request
is killed or restarted no more, since nothing comes after; the proofs do not depend on any of it.
Calls to tool servers meet in one file only: two make a reader, a writer or
a shell disturb a writer, and a third would disturb in the same way.
In the feed a queue of one and a page of one make
the queue overflow and the backlog take two pages with two events, and
retention removes one before it is read; two failures are a disconnection after
a crash, the reverse, or a repeated announcement before or after one. Pages share nothing but the
publish task, which treats subscribers alike, so one page is enough for
properties of single pages. In `ingest` a response shares its message with the
next request, and another with a text, so a failure in the middle of a message
leaves something half done. In `audit` two calls of one tool are
enough to confuse, to compete for a line and to overflow an index of one; calls
of different tools are what calls with different keys are, only more so. Three
windows of time hold a line too early, in time and too late. In `sidebar` two
events make a count that a message, a repeated message and a refresh can each have
wrong, and sessions do not share a counter. In `table` two events exceed the cap,
the page and the limit of a history response, all by one; the second session is
there to be selected away to and back; two identical requests in flight count as
one.
`CHECK_DEADLOCK FALSE` everywhere: the bounds on requests, events, ids
and failures let every model stop, as a session with nothing to do does.

**What the violations say.**

* `feed_merge`: `mergeEvents` moves `maxSeq` to the newest row of one session;
  a reconnection before the other sessions' events arrive skips them.
  `NoSilentGap` and `CatchesUp` hold beyond that.
* `ingest_restart`: the cursor passes a request that waits in memory for its
  response; after a restart the response finds no request, and the call has no
  event until Goose happens to rewrite its table. `NothingLost` says that this
  and failing messages are the only losses.
* `audit_shown`: `match` compares the time of the request with the time of the
  line, which is written after the wait for approval and the run, and the window
  is 60 s; the wait may take 120. A call denied because nobody answered in time is
  never shown as denied. `MissedForAReason` lists this with the other reasons: a
  poll that reads the log before the line and the messages after the response,
  an index that overflowed, a call that took another's line, an insert that failed
  after `match` had used it, and redaction, which
  makes the keys differ.
* `web_redirect`: `_NoRedirect.redirect_request` returns None, upon which urllib's
  opener raises an HTTPError for the 30x. `tool_web_fetch` never reaches the lines
  (web_mcp.py:91-96) that would validate and follow the next hop, and `handle`
  answers every redirect with an error. web_mcp.py:10 and docs/phase4-web.md:11-12
  say redirects are followed. (Nothing unchecked is opened by this: no second URL is.)

**What was met on the way** and has no run of its own:

* `handleEventMessage` keeps a second copy out of the buffer ("guard against
  duplicate delivery", app.js:449), but `onLiveEvent` still puts a row on top ("it is
  always the newest event", app.js:673). An event that a history response brought
  before the replay does, or one the collector announces again (two equal text items
  of one message have one `event_id`), is there twice. `NewestFirst` says these are
  the only ways.
* `call_id` is a millisecond and the state directory is shared: two sessions' calls
  in one millisecond have one request file and one decision file.
  `HighNeedsApproval` still holds (somebody approved that id), and
  `ApprovalNamesTheCall` says the collision is the only way.
* Four exits of `handle_call` are answered without `audit()`: an unknown tool, a
  failed enumeration, a torn decision file, a failed `Popen`; gateway_mcp.py:11
  speaks of every call. None of them ran anything: that is `RunIsAudited`, and
  "aside" in `ToolGate`. The call whose `audit()` raises may have run, and is the
  only one ("unlogged").
* `close` kills the docker client after eight seconds, not the container: a
  container busy with a tool goes on after its call was answered, and may still do
  what it was asked to. `NothingHeld` is what the gateway can promise, and does.
* A history request takes the oldest rows within the limit, not the newest.
* `finding_count` is missing from the page's list of session fields, so the
  findings counter of the header stays at zero; a session's label is not looked
  at again once it is registered; the design has a status ERROR when the latest
  event failed and pushed status changes (monitor-design.md:124, section 7),
  the code neither.
* `read_file` may see the empty file of another call's `write_file`; the body of a
  fetch has a limit for each piece, not for all of it, although phase4-web.md:12
  says time capped.

**Fairness.** Gateway: a process takes its own steps and the clock goes on
(weak fairness), which is what lets the approval wait end with nobody there;
nothing is assumed of people. That containers answer or break is an assumption:
`request()` has no timeout, and without it the process would
rightly wait for ever. So is that a container stops once its stdin has ended
(`Teardown`). Tool servers: clients and servers go on, and limits
expire (weak fairness of each side); nothing is assumed of programs, sites
and FIFOs. `CallsEnd` then gives what the gateway assumes, but for a site that
keeps sending and a FIFO nobody opens. Feed: polls end, also by failing (they have no await); a task that is
ready between two polls runs before the next, an interval later, although polls
take the loop again and again, hence strong fairness for loop tasks; the wire
delivers and the page retries for ever. Ingestion: `run` polls for ever and a
poll ends; no fairness for failures, restarts or Goose. Sidebar: the collector
meets every session, the page loads, connects and handles what arrives, its
timer fires; an answer to a refresh may be lost again and again but not for ever
(strong fairness). The audit trail and the table promise nothing that needs
fairness.

## What is proved

Every safety property that a passing run checks is also a theorem: all its
invariants, the action properties, and the refinement of `ToolGate`. A theorem
holds for every value of the constants (sessions, tools, policies, events,
conversations, page and queue sizes, and the bounds on failures), from the named
assumptions of its model. These say that sizes and bounds are numbers and
stand-ins are no real values, and beyond that:

* `PolicyAssumption`: each tool has a server, and each server a default tier, as
  `build_registry` makes it. `ModesAssumption`: the modes are among the four.
* `AnswersAssumption` (`Ingest`): a response in Goose's table comes after the
  request it answers, if it has one there. Goose writes a request before it runs
  the tool.
* `ToolsAssumption`, `NoCallAssumption` (`ToolServer`): shells run commands, and
  "nobody" is not a call.

| module | theorem | states | run that shows it small |
|---|---|---|---|
| `GatewaySafety` | `TypeCorrect`, `Invariant` | `TypeOK`; `IInv` | `gateway_modes` |
| | `ApprovalNeeded` | `HighNeedsApproval` | `gateway_shared` |
| | `ApprovalIsForTheCall` | `ApprovalNamesTheCall` | `gateway_shared` |
| | `RequestsAreWaitedFor` | `PendingIsWaiting` | `gateway_shared` |
| | `DeniedStaysDenied` | `DeniedNeverRuns` | `gateway_modes` |
| | `AuditIsTruthful` | `AnswerMatchesAudit` | `gateway_modes` |
| | `RunsAreAudited` | `RunIsAudited` | `gateway_modes` |
| | `NothingIsHeld` | `NothingHeld` | `gateway_modes` |
| | `AnswersAreFinal` | `AnswerIsFinal` | `gateway_modes` |
| `GatewayRefines` | `RulingsHold` | a call is ruled on exactly when its wait is over; only an allowed one ran or has a container | |
| | `GateImplemented` | `ImplementsGate`: `Gateway` implements `ToolGate` | `gateway_modes` |
| `ToolServerProofs` | `TypeCorrect`, `Invariant` | `TypeOK`; `IInv` | `tools` |
| | `EveryReplyIsAwaited` | `OneReplyPerRequest` | `tools` |
| | `DoneWritesStand` | `WriteStands` | `tools` |
| `LiveFeedProofs` | `TypeCorrect`, `Invariant` | `TypeOK`; `IInv` | `feed` |
| | `StreamsInOrder` | `StreamInOrder` | `feed` |
| | `NothingFallsBetween` | `NothingBetween` | `feed` |
| | `SilentGapsDoNotOccur` | `NoSilentGap` | `feed` |
| `IngestProofs` | `TypeCorrect`, `Invariant` | `TypeOK`; `IInv` | `ingest` |
| | `EachEventCountsOnce` | `CountsAreDistinct` | `ingest` |
| | `WhatIsPrunedStaysOut` | `PrunedStaysOut` | `ingest` |
| | `NothingBehindIsLost` | `NothingLost` | `ingest` |
| `AuditTrailProofs` | `TypeCorrect`, `Invariant` | `TypeOK`; `IInv` | `audit` |
| | `ALineServesOneCall` | `OneCallPerLine` | `audit` |
| | `DecisionsAreOwn` | `LabelIsOwn` | `audit` |
| | `PassedLinesAreDelivered` | `PassedIsDelivered` | `audit` |
| | `NoDecisionForAReason` | `MissedForAReason` | `audit` |
| `SidebarProofs` | `TypeCorrect` | `TypeOK` | `sidebar` |
| | `LabelsStay` | `LabelStays` | `sidebar` |
| | `OnlyMissedAreNameless` | the safety part of `NamelessUntilRestart` | |
| `EventTableProofs` | `TypeCorrect`, `Invariant` | `TypeOK`; `IInv` | `table` |
| | `RowsFollowView` | `DomMatchesView` | `table` |
| | `TableIsComplete` | `TableComplete` | `table` |
| | `TableIsNewestFirst` | `NewestFirst` | `table` |

Each `IInv` was an invariant of a TLC run before it was proved. For some modules
`TypeOK` is not inductive either (a queue's bound, a counter that has to stay
within a list): there `Types` strengthens it and `Invariant` states both.

### Gateway

None of the properties is inductive: whether a call may run is
decided at one point of `handle_call` and pays off several steps later, while
other processes and `approve.py` keep writing the shared files. `IInv` is
therefore a statement about each call, by the stage its process is at
(`Lifecycle`), what the gate has let through so far (`Gate`), what the log holds
of it (`Log`), that an unrun call has left no effect (`Unrun`) and where its
container is held (`Container`), together with `TypeOK`.

Since a step changes the call in hand and leaves the others, the proofs first
establish frames: a step of the world leaves program state (`OutsideFrame`), a
step of a process leaves every other call (`InHandFrame`). The step lemmas then
go action by action, in groups that share a continuation (`TakeIdShape`,
`EndApprovalShape`, `EndRunShape`, `FinishShape` say what such a group does), and
the last lemmas put the groups together per conjunct.

`PendingIsWaiting` needs two invariants on top of that. A file in `pending/` is
that of a call which waits or whose wait was cut short (`FileIsWaitedFor`): the
call that leaves its wait removes the files of its id, and by `IdsNamed` its own is
among them. A waiting call has its file (`WaitingIsFiled`) as long as ids are
distinct, since each other call removes or replaces files of its own id only; ids stay
(`IdsStay`), so calls whose ids are distinct now never shared one. `WaitMoves` says
how a call comes to wait and how its wait ends.

The refinement (`GatewayRefines`) needs one more invariant, `Ruled`, which ties
the ruling to the stage of the call (`RulingsHold`): the abstract ruling is
read off several variables at once, and it must not change once given. Then each
step simulates: most leave the abstract state alone (`Stutter`), the end of a
wait is `Rule` (`RuleGiven`), a container's effect is `Run`, an audit line is
`Record` (`RecordRecords`), an answer is `Tell`, with or without a line
(`ReplyTells`, `AsideTold`). `InHandSimulates` and `StepSimulates` put them
together.

### ToolServer

That a reply is the awaited one depends on all that is still in the two pipes.
`Pipe(c)` therefore divides a conversation: before the call there is nothing
(`Idle`); after that something the client wrote is still to be served (`Unserved`),
or nothing is on its way because the server works, the client has taken the answer
or the container has died (`Underway`), or the reply is in stdout (`Answered`).
Each step moves between them or keeps one. `Files` says of the shared file that
while a write's claim is held no other writer is up (`Undisturbed`), and that once
it is done the file is the claimant's.

### LiveFeed

`Announced`: what is announced is in `seen`. All else is said of each connection: the seqs it knows are `Behind` the counter; unhandled, it has
nothing on its way (`Unhandled`); up to `last_seq`, all that is stored has
been sent, and the page of the backlog is what follows (`Replayed`). Of an event announced
once that the replay has not covered (`Uncovered`), whatever is ahead of its
announcement, in the queue or on the wire, is older (`Ascending`). Announcements made
twice break this order, but none gets ahead of an older event that is still to
come: whatever is announced, the older events are before it, at their first
announcement (`Preceded`). From this come `Sorted` and `Covers`, which are `StreamInOrder` and `NothingBetween` for
one client. `NoSilentGap` (`Honest`) also needs that a stream has no hole before any
of its events (`NoHole`) and that the page keeps what it received (`Got`). The hard
steps are `Accept`, where the subscription starts before the backlog is read, and
`Follow`, which skips what the replay brought.

### Ingest

The invariant is about how far the poll has got in Goose's table and what that
means for each item of each message: where its rows are (`Table`), what the two
cursors say (`Cursors`), what the batch still has and whether a rewrite has
overtaken it (`Reading`), what this process remembers (`Remembered`), and, for the
items that were reached, what became of texts, requests and responses (`Texts`,
`Requests`, `Responses`): stored, failed, waiting in memory, or lost in a
restart between request and response. `NothingLost` is what this says behind the
cursor. `AnswersAssumption` is needed there: a response before its request would find
nothing to pair with.

### AuditTrail

`Lines`: a call has one line at most, whole or half. `Fresh`: what is
delivered was passed, and the tailer takes the file for another only when no
such line is left in it. `Passed` is `PassedIsDelivered` with the half-read line.
`Index`: the records are of distinct calls, and a delivered call is in the index,
evicted, given away, or its event is stored. `Labels`: a label's call is one the event's call
can be confused with, and until a restart the lines that events have were delivered,
are used up, and differ.
`MissedForAReason` is an action property: `match` finds a record that is of that
tool, key and time if there is one, so if it finds none, `Index` leaves one
of the six reasons. `add` filters and cuts the list of records; its fold is
reasoned about by taking a shortest prefix for which the claim fails.

### Sidebar

`TypeOK` is inductive. `LabelStays` follows step by step: only `ensureSession`
(`Merge`), `handleSessionMessage` and `handleEventMessage` write an entry, and each
keeps a label. `Named` is inductive as it stands.

### EventTable

A live event goes on top of the table, and that is its place only if the wire
brings events in order and beyond those the page has: `Feed` says so of all but the
events that came out of turn (`Ordered`), those that a history response brought
early or the server sent again. `Buffered` says that the
rows come from the buffers. `TypeOK` needs `RowsOK` (what `shown` and the rows have
to do with each other), since `onLiveEvent` adds one to `shown` and takes off as many
as rows were trimmed. `Sorted` is a CHOOSE among the listings of a set; that there is
one to choose (`ListingExists`) is proved by taking a smallest set without.

### Out of the prover's reach

Liveness (`EveryRequestEnds`, `ContainersGo`, `CallsEnd`, the two `CatchesUp`,
`SidebarSettles`, `NamelessUntilRestart`) rests on fairness and ENABLED and is only
model-checked. There is no induction over data with an operator as parameter; where
a proof needs one (folds, listings, least elements), it takes a least counterexample
by the well-founded order of the naturals instead. The prover knows nothing of
`SelectSeq` and `SortSeq`, so the models use `SubSeq`, `FoldLeft` and CHOOSE for
filters and sorts they are proved about.

## Mutants

For each property of a passing run the modules hold a variant of a definition
with a plausible mistake: the timeout that leaves the gate open, the queue test
off by one, the handler that reads one page of the backlog, the counter
that counts an ignored insert, the failing message that ends its batch, and so
on. It stands right before the definition it varies and its name extends that
definition's name. With it in the definition's place TLC finds the property
violated; `PROJECT.json` pairs them. The model itself never uses a variant.

## What is left out

*Only model-checked:* liveness
([out of the prover's reach](#out-of-the-provers-reach)).

*Abstractions.*

* Gateway: `initialize`, `ping` and unknown methods (a trivial reply each);
  JSON and redaction; a listing that meets a half-written request file; an audit
  line written in part before the write fails; a request file that cannot be
  written and a terminal line that is not text (an internal error before any
  ruling, as in `WaitTorn`); a clock set back.
* Feed: announcements of sessions (they have no seq); the handler of a page
  that is gone, which stays subscribed until its next send; one REST request at
  a time per page, and any subset of a session's rows as its answer, which
  covers filters and the limit of 1000; basic auth.
* Ingestion: one session; retention removes any rows; contents of events, so
  the failing of a message is a choice; a failing insert leaves nothing (a
  value SQLite cannot bind), a full disk is not modelled; an event without a
  call id; Goose's rewrite is one step (a transaction of its own).

* Audit trail: lines of one length, in at most two pieces; interleaved pieces of
  two gateways' lines; times of lines that go back; Goose's rewrites, which
  `Ingest` has. A row without an event (an orphaned response, a message that
  fails) is `SkipRow`; whether a row that is read again still has its request
  is a choice.

* Tool servers: `list_dir` ends as a read does; `web_search` is one fetch of a
  trusted service; `ping`; the shape of outputs and arguments; a name that
  resolves differently between the check and the opening, which web_mcp.py:13 names
  as a limit; a docker client killed after eight seconds, whose container goes on
  until its tool ends.
* Sidebar: one session in the instance; how a tab looks and where it stands;
  counters that work as the two modelled do.
* Event table: columns, dialogs, dates; the rate at which scrolling asks.

*Not modelled:* detection, findings and ATT&CK labels (regular expressions
over the text of one call: no state, and hardly a branch that does not look at
characters); the single-instance guard (a lock of the kernel's, on which the
monitor's modules rely); configuration, start and launchers (read once); the
audit viewer and the scripts that verify an installation; the model backends
(scripts an operator runs one at a time, which start or stop one container and
then rewrite Goose's configuration).

## Plan

Done, in this order: `Gateway`, its runs, its proofs; `LiveFeed`; `Ingest`;
`AuditTrail`; `ToolGate` with the refinement and its proof; `ToolServer`;
`Sidebar`; `EventTable`; the proofs of all of these.

1. **Abstract feed**: what a connection promises (the stored events past
   a seq, ascending, each once, less a set of permitted losses), implemented by
   `LiveFeed` step by step, from the invariant of `LiveFeedProofs`.
2. **Events that other modules assume**: that what `EventTable` and `Sidebar` take
   for the connection is what `LiveFeed` gives, as a refinement of that abstract feed.
3. **What liveness needs of safety**: the invariants behind `CatchesUp` and
   `CallsEnd` (a task is ready, a limit runs) as theorems of their own.
4. **The store's connection**: `insert_event` as a transaction that REST threads
   read in the middle of (store.py:138).
