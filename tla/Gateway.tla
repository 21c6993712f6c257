------------------------------ MODULE Gateway ------------------------------
(***************************************************************************)
(* The policy / approval gateway: gateway/gateway_mcp.py, the approval CLI *)
(* gateway/approve.py with the person who runs it, and the ephemeral       *)
(* downstream containers.                                                  *)
(*                                                                         *)
(* Each Goose session has a gateway process of its own: a single-threaded  *)
(* loop over stdin that serves one request to the end before it reads the  *)
(* next.  The processes share one state directory: pending/<id>.json,      *)
(* decided/<id>.json and audit.log.                                        *)
(*                                                                         *)
(* A definition right before another of the same shape, whose name it      *)
(* extends (WithoutIdKept, WithoutId), is that definition with a           *)
(* mistake in the code; the model never uses it (README, Mutants).         *)
(***************************************************************************)
EXTENDS Naturals, Sequences

CONSTANTS
    Gateways,       \* gateway processes, one per Goose session
    Tools,          \* exposed names: the tools the downstream servers offer
    UnknownTool,    \* a name no server offers
    ListTools,      \* stands for a tools/list request
    NumServers,     \* servers of policy.json, enumerated in this order
    ServerOf,       \* the server that offers each tool
    ToolTier,       \* policy.json "tools": tiers of the tools it names
    DefaultTier,    \* policy.json "default_tier" of each server
    TierActions,    \* policy.json "tier_actions", a partial map
    Modes,          \* the values of GATEWAY_APPROVAL the launchers use
    Operators,      \* people who run approve.py, one at a time each
    MaxCalls,       \* bound: requests per Goose session
    MaxClock        \* bound: distinct milliseconds ids are taken from

Requests == Tools \cup {UnknownTool, ListTools}
Ids == 1 .. MaxClock
Calls == Gateways \X (1 .. MaxCalls)

ASSUME PolicyAssumption ==
    /\ NumServers \in Nat \ {0}
    /\ ServerOf \in [Tools -> 1 .. NumServers]
    /\ DOMAIN DefaultTier = 1 .. NumServers
    /\ UnknownTool \notin Tools /\ ListTools \notin Tools \cup {UnknownTool}

ASSUME BoundsAssumption == MaxCalls \in Nat /\ MaxClock \in Nat \ {0}

ASSUME ModesAssumption ==
    Modes \subseteq {"queue", "tty", "auto_approve", "auto_deny"}

VARIABLES
    mode,       \* GATEWAY_APPROVAL of each session's launcher; never changes
    pc,         \* where each process is in handle / handle_call
    loaded,     \* servers build_registry has loaded; all: _REGISTRY_READY
    count,      \* requests each session has sent
    toolOf,     \* the request of each call
    idOf,       \* call_id of each call: its millisecond; 0 before it has one
    verdict,    \* decision, reason and outcome of each call
    pending,    \* pending/: the call each request file describes
    filed,      \* history: request files a listing may have shown
    decided,    \* decided/: the state of each decision file
    writing,    \* the decisions whose file an approve.py has opened
    consents,   \* history: approvals given, with the call the person was shown
    clock,      \* time.time() * 1000
    containers, \* calls whose downstream container is up
    released,   \* calls whose process has closed the container's stdin
    executed,   \* calls whose tool took effect in its container
    audit,      \* audit.log
    answer,     \* what Goose got for each call
    killed      \* history: calls whose process was killed under them

procVars == <<mode, loaded, count, toolOf>>
approvalVars == <<pending, filed, decided, writing, consents>>
runVars == <<containers, released, executed>>
vars == <<procVars, pc, idOf, verdict, approvalVars, clock, runVars, audit,
          answer, killed>>

(***************************************************************************)
(* Policy                                                                  *)
(***************************************************************************)

\* tier_map.get(tool, default_tier)
TierOf(t) == IF t \in DOMAIN ToolTier THEN ToolTier[t]
                                      ELSE DefaultTier[ServerOf[t]]

\* TIER_ACTIONS.get(tier, "approve"): a tier without an action fails closed
ActionOf(t) == IF TierOf(t) \in DOMAIN TierActions THEN TierActions[TierOf(t)]
                                                   ELSE "approve"

Gated(t) == ActionOf(t) = "approve"

(***************************************************************************)
(* State                                                                   *)
(***************************************************************************)

Verdict(d, r, o) == [decision |-> d, reason |-> r, outcome |-> o]
NoVerdict == Verdict("none", "none", "none")
Verdicts == [decision : {"none", "AUTO", "APPROVED", "DENIED"},
             reason : {"none", "auto_approve", "auto_deny", "tty", "human",
                       "timeout"},
             outcome : {"none", "ok", "isError", "ERROR"}]

Current(g) == <<g, count[g]>>
At(g, state) == pc[g] = state
Live(c) == pc[c[1]] \notin {"idle", "dead"} /\ c[2] = count[c[1]]

States == {"idle", "build", "serve", "prompt", "waiting", "forward", "running",
           "record", "reply", "close", "dead"}
Answers == {"none", "tools", "unknown", "denied", "failed", "result",
            "internal", "unlogged"}

ProcessesOK ==
    /\ mode \in [Gateways -> Modes]
    /\ pc \in [Gateways -> States]
    /\ loaded \in [Gateways -> 0 .. NumServers]
    /\ count \in [Gateways -> 0 .. MaxCalls]
    /\ \A g \in Gateways : /\ pc[g] \notin {"idle", "dead"} => count[g] > 0
                           /\ pc[g] = "build" => loaded[g] < NumServers

CallsOK ==
    /\ toolOf \in [Calls -> Requests]
    /\ idOf \in [Calls -> Ids \cup {0}]
    /\ verdict \in [Calls -> Verdicts]
    /\ answer \in [Calls -> Answers]
    /\ clock \in Ids

FilesOK ==
    /\ pending \in SUBSET filed
    /\ filed \in SUBSET [id : Ids \cup {0}, call : Calls]
    /\ decided \in [Ids -> {"absent", "empty", "torn", "yes", "no"}]
    /\ writing \in SUBSET [by : Operators, id : Ids \cup {0}, call : Calls]
    /\ consents \in SUBSET [id : Ids \cup {0}, call : Calls]

RunsOK ==
    /\ containers \in SUBSET Calls
    /\ released \in SUBSET Calls
    /\ executed \in SUBSET Calls
    /\ killed \in SUBSET Calls
    /\ audit \in Seq([call : Calls, verdict : Verdicts])

TypeOK == ProcessesOK /\ CallsOK /\ FilesOK /\ RunsOK

Init ==
    /\ mode \in [Gateways -> Modes]
    /\ pc = [g \in Gateways |-> "idle"]
    /\ loaded = [g \in Gateways |-> 0]
    /\ count = [g \in Gateways |-> 0]
    /\ toolOf = [c \in Calls |-> ListTools]
    /\ idOf = [c \in Calls |-> 0]
    /\ verdict = [c \in Calls |-> NoVerdict]
    /\ pending = {} /\ filed = {} /\ writing = {} /\ consents = {}
    /\ decided = [i \in Ids |-> "absent"]
    /\ clock = 1
    /\ containers = {} /\ released = {} /\ executed = {} /\ killed = {}
    /\ audit = <<>>
    /\ answer = [c \in Calls |-> "none"]

Goto(g, state) == pc' = [pc EXCEPT ![g] = state]
Decide(g, v) == verdict' = [verdict EXCEPT ![Current(g)] = v]
Answer(g, a) == answer' = [answer EXCEPT ![Current(g)] = a]

\* Answer Goose and go back to main's loop, with nothing else touched.
\* "internal" is main's -32603 for an exception that left the handler.
Finish(g, a) ==
    /\ Answer(g, a)
    /\ Goto(g, "idle")
    /\ UNCHANGED <<mode, count, toolOf, idOf, verdict, approvalVars, clock,
                   runVars, audit, killed>>

(***************************************************************************)
(* main, handle and ensure_registry                                        *)
(***************************************************************************)

\* The next tools/list or tools/call line; ensure_registry comes first.
Receive(g, t) ==
    /\ At(g, "idle")
    /\ count[g] < MaxCalls
    /\ count' = [count EXCEPT ![g] = @ + 1]
    /\ toolOf' = [toolOf EXCEPT ![<<g, count[g] + 1>>] = t]
    /\ Goto(g, IF loaded[g] = NumServers THEN "serve" ELSE "build")
    /\ UNCHANGED <<mode, loaded, idOf, verdict, approvalVars, clock, runVars,
                   audit, answer, killed>>

\* One round of build_registry: spawn a server, list its tools, close it.
\* REGISTRY is read only after the last round, when it holds every tool.
Enumerate(g) ==
    /\ At(g, "build")
    /\ loaded' = [loaded EXCEPT ![g] = @ + 1]
    /\ Goto(g, IF loaded[g] + 1 = NumServers THEN "serve" ELSE "build")
    /\ UNCHANGED <<mode, count, toolOf, idOf, verdict, approvalVars, clock,
                   runVars, audit, answer, killed>>

\* A server that cannot be started or listed ends build_registry, and the
\* request with it; the next request starts over.
EnumerateFails(g) ==
    /\ At(g, "build")
    /\ loaded' = [loaded EXCEPT ![g] = 0]
    /\ Finish(g, "internal")

ServeList(g) ==
    /\ At(g, "serve")
    /\ toolOf[Current(g)] = ListTools
    /\ UNCHANGED loaded /\ Finish(g, "tools")

(***************************************************************************)
(* handle_call up to the decision                                          *)
(***************************************************************************)

RejectUnknown(g) ==
    /\ At(g, "serve")
    /\ toolOf[Current(g)] = UnknownTool
    /\ UNCHANGED loaded /\ Finish(g, "unknown")

ServingTool(g) == At(g, "serve") /\ toolOf[Current(g)] \in Tools

\* call_id = int(time.time() * 1000).  A process that gets this far takes
\* longer than a millisecond to come back, so its own ids increase; two
\* processes may well take the same one.
TakeId(g, v, next) ==
    /\ \A n \in 1 .. MaxCalls : idOf[<<g, n>>] < clock
    /\ idOf' = [idOf EXCEPT ![Current(g)] = clock]
    /\ Decide(g, v)
    /\ Goto(g, next)
    /\ UNCHANGED <<procVars, decided, writing, consents, clock, runVars, audit,
                   answer, killed>>

AutoCall(g) ==
    /\ ServingTool(g) /\ ~Gated(toolOf[Current(g)])
    /\ TakeId(g, Verdict("AUTO", "none", "none"), "forward")
    /\ UNCHANGED <<pending, filed>>

WithoutIdKept(files, i) == files
WithoutId(files, i) == {f \in files : f.id # i}

\* open(pend, "w"): the request file of an id, in place of another call's
File(g, i) ==
    LET file == [id |-> i, call |-> Current(g)]
    IN  /\ pending' = WithoutId(pending, i) \cup {file}
        /\ filed' = filed \cup {file}

\* approve(): the two test modes decide at once, a terminal prompts, and the
\* queue (also for a tty mode without a terminal) writes pending/<id>.json.
GatedCall(g) ==
    /\ ServingTool(g) /\ Gated(toolOf[Current(g)])
    /\ \/ /\ mode[g] = "auto_approve"
          /\ TakeId(g, Verdict("APPROVED", "auto_approve", "none"), "forward")
          /\ UNCHANGED <<pending, filed>>
       \/ /\ mode[g] = "auto_deny"
          /\ TakeId(g, Verdict("DENIED", "auto_deny", "none"), "record")
          /\ UNCHANGED <<pending, filed>>
       \/ /\ mode[g] = "tty"
          /\ TakeId(g, NoVerdict, "prompt")
          /\ UNCHANGED <<pending, filed>>
       \/ /\ mode[g] \in {"queue", "tty"}
          /\ TakeId(g, NoVerdict, "waiting")
          /\ File(g, clock)

\* A denied call goes to its audit line and its answer, past the forwarding.
AfterDecisionUnlogged(approved) == IF approved THEN "forward" ELSE "reply"
AfterDecision(approved) == IF approved THEN "forward" ELSE "record"

EndApproval(g, approved, reason) ==
    /\ Decide(g, Verdict(IF approved THEN "APPROVED" ELSE "DENIED", reason,
                         "none"))
    /\ Goto(g, AfterDecision(approved))
    /\ UNCHANGED <<procVars, idOf, filed, decided, writing, clock, runVars,
                   audit, answer, killed>>

\* A line typed at the prompt, which names the call; end of file is no consent
PromptAnswered(g, yes) ==
    /\ At(g, "prompt")
    /\ EndApproval(g, yes, "tty")
    /\ consents' = consents \cup
         (IF yes THEN {[id |-> idOf[Current(g)], call |-> Current(g)]} ELSE {})
    /\ UNCHANGED pending

\* The terminal goes away under the prompt: the queue, after all
PromptFails(g) ==
    /\ At(g, "prompt")
    /\ Goto(g, "waiting")
    /\ File(g, idOf[Current(g)])
    /\ UNCHANGED <<procVars, idOf, verdict, decided, writing, consents, clock,
                   runVars, audit, answer, killed>>

EndWait(g, approved, reason) ==
    /\ EndApproval(g, approved, reason)
    /\ pending' = WithoutId(pending, idOf[Current(g)])
    /\ UNCHANGED consents

\* The poll finds decided/<id>.json and reads it
WaitDecidedAnyFile(g) ==
    /\ At(g, "waiting")
    /\ \E i \in Ids : /\ decided[i] \in {"yes", "no"}
                      /\ EndWait(g, decided[i] = "yes", "human")
WaitDecidedTorn(g) ==
    /\ At(g, "waiting")
    /\ decided[idOf[Current(g)]] \in {"torn", "yes", "no"}
    /\ EndWait(g, decided[idOf[Current(g)]] # "no", "human")
WaitDecided(g) ==
    /\ At(g, "waiting")
    /\ decided[idOf[Current(g)]] \in {"yes", "no"}
    /\ EndWait(g, decided[idOf[Current(g)]] = "yes", "human")

\* The poll finds a file approve.py has opened and not yet written, or two have
\* written over each other: json.load raises out of approve() and handle_call.
WaitTorn(g) ==
    /\ At(g, "waiting")
    /\ decided[idOf[Current(g)]] \in {"empty", "torn"}
    /\ UNCHANGED loaded /\ Finish(g, "internal")

\* The deadline passes between two polls
WaitTimesOutNever(g) == FALSE
WaitTimesOut(g) == At(g, "waiting") /\ EndWait(g, FALSE, "timeout")

(***************************************************************************)
(* handle_call from the forwarding to the answer                           *)
(***************************************************************************)

\* Popen of a container for this one call, and the request written to it
Forward(g) ==
    /\ At(g, "forward")
    /\ containers' = containers \cup {Current(g)}
    /\ Goto(g, "running")
    /\ UNCHANGED <<procVars, idOf, verdict, approvalVars, clock, released,
                   executed, audit, answer, killed>>

\* Popen stands outside the try: its failure is an internal error
ForwardFails(g) ==
    /\ At(g, "forward")
    /\ UNCHANGED loaded /\ Finish(g, "internal")

EndRun(g, outcome, closed, next) ==
    /\ At(g, "running")
    /\ verdict' = [verdict EXCEPT ![Current(g)].outcome = outcome]
    /\ released' = released \cup closed
    /\ Goto(g, next)
    /\ UNCHANGED <<procVars, idOf, approvalVars, clock, containers, executed,
                   audit, answer, killed>>

\* A JSON-RPC answer, and ds.close(), which closes the container's stdin and
\* after eight seconds kills the docker client, but not the container.  A result
\* comes once the tool has run; an error answer, before or after, passes for an
\* empty result without isError.
Answered(g, outcome, isResult) ==
    /\ isResult => Current(g) \in executed
    /\ outcome = "isError" => isResult
    /\ EndRun(g, outcome, {Current(g)}, "record")

\* EOF, or a line that is not JSON: the except branch, with the container
\* still to be closed by the finally clause
BrokenUnlogged(g) == EndRun(g, "ERROR", {}, "reply")
Broken(g) == EndRun(g, "ERROR", {}, "record")

\* audit(): one line appended to audit.log
Record(g) ==
    /\ At(g, "record")
    /\ audit' = Append(audit, [call |-> Current(g), verdict |-> verdict[Current(g)]])
    /\ Goto(g, "reply")
    /\ UNCHANGED <<procVars, idOf, verdict, approvalVars, clock, runVars,
                   answer, killed>>

\* audit() raises: no line, an internal error, and the finally clause if it is
\* still to come
RecordFails(g) ==
    /\ At(g, "record")
    /\ released' = released \cup {Current(g)}
    /\ Answer(g, "unlogged")
    /\ Goto(g, "idle")
    /\ UNCHANGED <<procVars, idOf, verdict, approvalVars, clock, containers,
                   executed, audit, killed>>

AnswerForOutcome(v) == IF v.decision = "DENIED" THEN "denied" ELSE v.outcome
AnswerFor(v) == CASE v.decision = "DENIED" -> "denied"
                  [] v.outcome = "ERROR" -> "failed"
                  [] OTHER -> "result"

\* Every exit but the failed one returns to main with nothing left to do.
AfterReplyOpen(v) == "idle"
AfterReplyDenied(v) == CASE v.outcome = "none" -> "forward"
                         [] v.outcome = "ERROR" -> "close"
                         [] OTHER -> "idle"
AfterReply(v) == IF v.outcome = "ERROR" THEN "close" ELSE "idle"

Reply(g) ==
    /\ At(g, "reply")
    /\ Answer(g, AnswerFor(verdict[Current(g)]))
    /\ Goto(g, AfterReply(verdict[Current(g)]))
    /\ UNCHANGED <<procVars, idOf, verdict, approvalVars, clock, runVars,
                   audit, killed>>

\* ds.close() in the finally clause of a failed call
Close(g) ==
    /\ At(g, "close")
    /\ released' = released \cup {Current(g)}
    /\ Goto(g, "idle")
    /\ UNCHANGED <<procVars, idOf, verdict, approvalVars, clock, containers,
                   executed, audit, answer, killed>>

(***************************************************************************)
(* approve.py: a person decides on a request some listing has shown, which *)
(* may be over by then.  open(..., "w") creates decided/<id>.json, or      *)
(* empties the one that is there; json.dump and close fill it.  Nothing    *)
(* keeps two people apart: what is written over another decision may leave *)
(* the end of the longer one behind.                                       *)
(***************************************************************************)

OpenDecision(o, p) ==
    /\ \A w \in writing : w.by # o
    /\ p \in filed
    /\ decided' = [decided EXCEPT ![p.id] = "empty"]
    /\ writing' = writing \cup {[by |-> o, id |-> p.id, call |-> p.call]}
    /\ UNCHANGED <<procVars, pc, idOf, verdict, pending, filed, consents, clock,
                   runVars, audit, answer, killed>>

\* What was decided is seen by nobody before it is written.
WriteDecision(w, yes) ==
    /\ w \in writing
    /\ \E file \in {IF yes THEN "yes" ELSE "no"} \cup
                  (IF decided[w.id] = "empty" THEN {} ELSE {"torn"}) :
          decided' = [decided EXCEPT ![w.id] = file]
    /\ writing' = writing \ {w}
    /\ consents' = consents \cup
         (IF yes THEN {[id |-> w.id, call |-> w.call]} ELSE {})
    /\ UNCHANGED <<procVars, pc, idOf, verdict, pending, filed, clock, runVars,
                   audit, answer, killed>>

(***************************************************************************)
(* The environment: containers, the clock, processes that are killed       *)
(***************************************************************************)

\* The tool takes effect in its container, unless the server has answered: when
\* its client is there no more, too, for it serves what it has read
RunTool(c) ==
    /\ c \in containers \ executed
    /\ verdict[c].outcome \in {"none", "ERROR"}
    /\ executed' = executed \cup {c}
    /\ UNCHANGED <<procVars, pc, idOf, verdict, approvalVars, clock, containers,
                   released, audit, answer, killed>>

\* `docker run --rm`: at the end of stdin, once its tool has ended, the server
\* stops, and docker removes the container.
Teardown(c) ==
    /\ c \in containers \cap released
    /\ containers' = containers \ {c}
    /\ UNCHANGED <<procVars, pc, idOf, verdict, approvalVars, clock, released,
                   executed, audit, answer, killed>>

\* The clock, as far as ids can tell: it matters only once its value is taken
Tick ==
    /\ clock < MaxClock
    /\ \E c \in Calls : idOf[c] = clock
    /\ clock' = clock + 1
    /\ UNCHANGED <<procVars, pc, idOf, verdict, approvalVars, runVars, audit,
                   answer, killed>>

\* The process dies at any point: Goose ended, or someone killed it.  Its pipes
\* are closed with it.  (MaxCalls bounds what comes after, too: the end of an
\* idle process, or a new one, has no consequence without another request.)
Kill(g) ==
    /\ ~At(g, "dead")
    /\ At(g, "idle") => count[g] < MaxCalls
    /\ Goto(g, "dead")
    /\ LET inHand == IF At(g, "idle") THEN {} ELSE {Current(g)}
       IN  /\ killed' = killed \cup inHand
           /\ released' = released \cup inHand
    /\ UNCHANGED <<procVars, idOf, verdict, approvalVars, clock, containers,
                   executed, audit, answer>>

\* A new process for the session, with an empty registry
Restart(g) ==
    /\ At(g, "dead")
    /\ count[g] < MaxCalls
    /\ Goto(g, "idle")
    /\ loaded' = [loaded EXCEPT ![g] = 0]
    /\ UNCHANGED <<mode, count, toolOf, idOf, verdict, approvalVars, clock,
                   runVars, audit, answer, killed>>

(***************************************************************************)

\* Steps a process takes by itself, without waiting for anyone
ProcessStep(g) ==
    \/ Enumerate(g) \/ EnumerateFails(g) \/ ServeList(g) \/ RejectUnknown(g)
    \/ AutoCall(g) \/ GatedCall(g)
    \/ WaitDecided(g) \/ WaitTorn(g) \/ WaitTimesOut(g)
    \/ Forward(g) \/ ForwardFails(g) \/ Record(g) \/ RecordFails(g)
    \/ Reply(g) \/ Close(g)

\* What the container sends, as the process reads it
ContainerAnswers(g) ==
    \/ \E outcome \in {"ok", "isError"}, isResult \in BOOLEAN :
          Answered(g, outcome, isResult)
    \/ Broken(g)

Next ==
    \/ \E g \in Gateways :
          \/ \E t \in Requests : Receive(g, t)
          \/ \E yes \in BOOLEAN : PromptAnswered(g, yes)
          \/ PromptFails(g)
          \/ ProcessStep(g)
          \/ ContainerAnswers(g)
          \/ Kill(g)
          \/ Restart(g)
    \/ \E o \in Operators, p \in filed : OpenDecision(o, p)
    \/ \E w \in writing, yes \in BOOLEAN : WriteDecision(w, yes)
    \/ \E c \in Calls : RunTool(c) \/ Teardown(c)
    \/ Tick

Spec == Init /\ [][Next]_vars

\* A process runs until it has to wait for someone, and the clock goes on: the
\* approval wait needs nobody, its deadline passes by itself.  That a container
\* answers is an assumption on the tool servers: request() has no timeout.
FairSpec ==
    /\ Spec
    /\ WF_vars(Tick)
    /\ \A g \in Gateways :
          WF_vars(ProcessStep(g)) /\ WF_vars(ContainerAnswers(g))
    /\ \A c \in Calls : WF_vars(Teardown(c))

(***************************************************************************)
(* Safety                                                                  *)
(***************************************************************************)

\* Calls that approve() puts to a person
AskedAPerson(c) ==
    /\ toolOf[c] \in Tools /\ Gated(toolOf[c])
    /\ mode[c[1]] \in {"queue", "tty"}

\* A gated call runs in queue or tty mode only after a person approved the
\* request filed under its id (approve, handle_call): no timeout, torn
\* decision file, restart or other process's call lets it through.
HighNeedsApproval ==
    \A c \in executed :
        AskedAPerson(c) => \E k \in consents : k.id = idOf[c]

\* No two calls took the same call_id
IdsDistinct ==
    \A c, d \in Calls : idOf[c] = idOf[d] /\ idOf[c] # 0 => c = d

\* "human approval per call" (docs/phase6-kali.md:12): the approval that let a
\* gated call run was given by a person who was shown that very call.
ApprovalPerCall ==
    \A c \in executed :
        AskedAPerson(c) => [id |-> idOf[c], call |-> c] \in consents

\* ... which holds as long as no two calls shared a call_id, however late
\* decisions and killed processes overlap (approve, approve.py decide).
ApprovalNamesTheCall == IdsDistinct => ApprovalPerCall

\* A call Goose was told is denied, or the log calls DENIED, has not run and
\* has no container (handle_call returns before it makes a Downstream).
DeniedNeverRuns ==
    \A c \in executed \cup containers :
        /\ answer[c] # "denied"
        /\ \A i \in DOMAIN audit :
               audit[i].call = c => audit[i].verdict.decision # "DENIED"

RecordsOf(c) == {i \in DOMAIN audit : audit[i].call = c}

AnswerInLog(c) ==
    /\ answer[c] \in {"denied", "failed", "result"} =>
          \E i \in RecordsOf(c) :
              /\ RecordsOf(c) = {i}
              /\ answer[c] = "denied" <=> audit[i].verdict.decision = "DENIED"
              /\ answer[c] = "failed" <=> audit[i].verdict.outcome = "ERROR"
    /\ answer[c] \in {"tools", "unknown", "internal", "unlogged"} =>
          RecordsOf(c) = {}

\* The log and the answer agree: what Goose hears as denied, failed or a
\* result stands in audit.log exactly once, as DENIED, ERROR or a decision to
\* run; a call answered otherwise has no line (handle_call's three exits).
AnswerMatchesAudit == \A c \in Calls : AnswerInLog(c)

\* A tool that took effect and whose call was answered is in the audit log:
\* only a killed process or a log that cannot be written can leave a run without
\* a line (handle_call).
RunIsAudited ==
    \A c \in executed : answer[c] \notin {"none", "unlogged"} => RecordsOf(c) # {}

\* A request file outlives its call's wait only where the wait was cut short,
\* by a torn decision or a killed process: pending/ shows calls that really
\* wait.  And a waiting call can be decided: unless ids collided, its file is
\* there (the writes and removals of approve in several processes).
PendingIsWaiting ==
    /\ \A p \in pending :
           \/ Live(p.call) /\ pc[p.call[1]] = "waiting"
           \/ answer[p.call] = "internal"
           \/ p.call \in killed
    /\ IdsDistinct =>
           \A g \in Gateways :
               At(g, "waiting") =>
                   [id |-> idOf[Current(g)], call |-> Current(g)] \in pending

\* A process keeps no container alive but that of the request it has in hand:
\* every way out of handle_call, also when the downstream broke or the log could
\* not be written, has closed the call's stdin (close in the finally clause).
NothingHeld == \A c \in containers \ released : Live(c)

\* A call's answer is final: nothing answers it again (one reply per request).
AnswerIsFinal ==
    [][\A c \in Calls : answer[c] # "none" => answer'[c] = answer[c]]_vars

(***************************************************************************)
(* Refinement: what the gateway promises, in terms of this state           *)
(***************************************************************************)

Ruling(v) == CASE v.decision \in {"AUTO", "APPROVED"} -> "allowed"
               [] v.decision = "DENIED" -> "refused"
               [] OTHER -> "open"
Telling(a) == CASE a = "none" -> "nothing"
                [] a \in {"failed", "result"} -> "outcome"
                [] a = "denied" -> "refusal"
                [] a = "unlogged" -> "fault"
                [] OTHER -> "aside"
Line(entry) == [call |-> entry.call, ruling |-> Ruling(entry.verdict)]

GateRuling == [c \in Calls |-> Ruling(verdict[c])]
GateLog == [i \in DOMAIN audit |-> Line(audit[i])]
GateTold == [c \in Calls |-> Telling(answer[c])]

Promise == INSTANCE ToolGate WITH
    ruling <- GateRuling, ran <- executed, log <- GateLog, told <- GateTold

\* Every step, of any process, person, container or the clock, is one the
\* abstract gate allows or changes nothing it knows of: rulings are given once,
\* runs follow an approval, the log comes between the run and the answer.
ImplementsGate == Promise!Spec

(***************************************************************************)
(* Liveness                                                                *)
(***************************************************************************)

\* If tool servers answer, every request is answered though nobody ever runs
\* approve.py, or its process is killed or sits at a terminal prompt: the
\* approval wait ends by its deadline, and main's loop never wedges.
EveryRequestEnds ==
    \A g \in Gateways : ~At(g, "idle") ~> pc[g] \in {"idle", "dead", "prompt"}

\* If tool servers answer, and stop at the end of stdin, no container stays up
\* for good (close)
ContainersGo == \A c \in Calls : c \in containers ~> c \notin containers
=============================================================================
