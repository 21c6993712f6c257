--------------------------- MODULE GatewaySafety ---------------------------
(***************************************************************************)
(* Safety of Gateway, proved for every number of sessions, calls and ids   *)
(* and every policy: types, the shapes of steps, the inductive invariant   *)
(* IInv and what follows from it.                                          *)
(***************************************************************************)
EXTENDS Gateway, TLAPS

(***************************************************************************)
(* Type correctness, one part of the state at a time                       *)
(***************************************************************************)

LEMMA CurrentIsCall ==
    ASSUME ProcessesOK, NEW g \in Gateways, pc[g] \notin {"idle", "dead"}
    PROVE  Current(g) \in Calls
  BY BoundsAssumption DEF ProcessesOK, Current, Calls

\* A step of a process that stays with its request
InHand(g) ==
    \/ \E yes \in BOOLEAN : PromptAnswered(g, yes)
    \/ ServeList(g) \/ RejectUnknown(g) \/ AutoCall(g) \/ GatedCall(g)
    \/ PromptFails(g) \/ WaitDecided(g) \/ WaitTorn(g) \/ WaitTimesOut(g)
    \/ Forward(g) \/ ForwardFails(g) \/ ContainerAnswers(g)
    \/ Record(g) \/ RecordFails(g) \/ Reply(g) \/ Close(g)

\* A step no process takes
Outside ==
    \/ \E o \in Operators, p \in filed : OpenDecision(o, p)
    \/ \E w \in writing, yes \in BOOLEAN : WriteDecision(w, yes)
    \/ \E c \in Calls : RunTool(c) \/ Teardown(c)
    \/ Tick

LEMMA NextCases ==
    [Next]_vars =>
        \/ UNCHANGED vars
        \/ Outside
        \/ \E g \in Gateways :
              \/ \E t \in Requests : Receive(g, t)
              \/ Enumerate(g) \/ EnumerateFails(g) \/ Kill(g) \/ Restart(g)
              \/ InHand(g)
  BY DEF Next, ProcessStep, InHand, Outside

LEMMA OutsideFrame ==
    Outside => UNCHANGED <<procVars, pc, idOf, verdict, released, audit, answer,
                           killed>>
  BY DEF Outside, OpenDecision, WriteDecision, RunTool, Teardown, Tick, runVars

LEMMA InHandFrame ==
    ASSUME NEW g \in Gateways, InHand(g)
    PROVE  /\ UNCHANGED <<procVars, clock, killed>>
           /\ pc[g] \notin {"idle", "dead", "build"}
           /\ \E s \in States \ {"build", "serve", "dead"} : Goto(g, s)
  BY DEF InHand, ContainerAnswers, PromptAnswered, procVars, approvalVars, runVars,
     EndApproval, Finish, ServeList, RejectUnknown, AutoCall, GatedCall, TakeId,
     PromptFails, WaitDecided, WaitTorn, WaitTimesOut, EndWait, Forward, ForwardFails,
     Record, RecordFails, Reply, Close, Answered, Broken, EndRun, At, States,
     AfterReply, AfterDecision, ServingTool, Goto

LEMMA ProcessesStep ==
    ASSUME ProcessesOK, [Next]_vars
    PROVE  ProcessesOK'
<1>1. CASE UNCHANGED vars \/ Outside
  BY <1>1, OutsideFrame DEF ProcessesOK, vars, procVars
<1>2. ASSUME NEW g \in Gateways, InHand(g)
      PROVE  ProcessesOK'
  BY <1>2, InHandFrame DEF ProcessesOK, Goto, procVars
<1>3. ASSUME NEW g \in Gateways, Kill(g)
      PROVE  ProcessesOK'
  BY <1>3 DEF ProcessesOK, Kill, Goto, States, procVars
<1>4. ASSUME NEW g \in Gateways, Enumerate(g)
      PROVE  ProcessesOK'
  BY <1>4, PolicyAssumption DEF ProcessesOK, Enumerate, Goto, At, States
<1>5. ASSUME NEW g \in Gateways, EnumerateFails(g)
      PROVE  ProcessesOK'
  BY <1>5, PolicyAssumption
     DEF ProcessesOK, EnumerateFails, Finish, Goto, At, States
<1>6. ASSUME NEW g \in Gateways, Restart(g)
      PROVE  ProcessesOK'
  BY <1>6, PolicyAssumption DEF ProcessesOK, Restart, Goto, At, States
<1>7. ASSUME NEW g \in Gateways, NEW t \in Requests, Receive(g, t)
      PROVE  ProcessesOK'
  BY <1>7, PolicyAssumption, BoundsAssumption
     DEF ProcessesOK, Receive, Goto, At, States
<1> QED
  BY <1>1, <1>2, <1>3, <1>4, <1>5, <1>6, <1>7, NextCases

(***************************************************************************)
(* The shapes of the steps of a request                                    *)
(***************************************************************************)

Outcomes == {"ok", "isError", "ERROR"}
Reasons == {"tty", "human", "timeout"}

LEMMA TakeIdShape ==
    ASSUME NEW g \in Gateways, AutoCall(g) \/ GatedCall(g)
    PROVE  /\ ServingTool(g)
           /\ \E v \in Verdicts, next \in States : TakeId(g, v, next)
<1>1. CASE AutoCall(g)
  <2>1. Verdict("AUTO", "none", "none") \in Verdicts /\ "forward" \in States
    BY DEF Verdict, Verdicts, States
  <2> QED
    BY <1>1, <2>1 DEF AutoCall
<1>2. CASE GatedCall(g)
  <2>1. /\ Verdict("APPROVED", "auto_approve", "none") \in Verdicts
        /\ Verdict("DENIED", "auto_deny", "none") \in Verdicts
        /\ NoVerdict \in Verdicts
        /\ {"forward", "record", "prompt", "waiting"} \subseteq States
    BY DEF Verdict, Verdicts, NoVerdict, States
  <2> QED
    BY <1>2, <2>1 DEF GatedCall
<1> QED
  BY <1>1, <1>2

LEMMA EndApprovalShape ==
    ASSUME NEW g \in Gateways,
           \/ \E yes \in BOOLEAN : PromptAnswered(g, yes)
           \/ WaitDecided(g) \/ WaitTimesOut(g)
    PROVE  \E approved \in BOOLEAN, reason \in Reasons :
               EndApproval(g, approved, reason)
  BY DEF PromptAnswered, WaitDecided, WaitTimesOut, EndWait, Reasons

LEMMA EndRunShape ==
    ASSUME NEW g \in Gateways, ContainerAnswers(g)
    PROVE  \E outcome \in Outcomes :
               \/ EndRun(g, outcome, {}, "record")
               \/ EndRun(g, outcome, {Current(g)}, "record")
  BY DEF ContainerAnswers, Answered, Broken, Outcomes

LEMMA FinishShape ==
    ASSUME NEW g \in Gateways,
           ServeList(g) \/ RejectUnknown(g) \/ WaitTorn(g) \/ ForwardFails(g)
    PROVE  \E a \in {"tools", "unknown", "internal"} : Finish(g, a)
  BY DEF ServeList, RejectUnknown, WaitTorn, ForwardFails

(***************************************************************************)

LEMMA CallsStep ==
    ASSUME ProcessesOK, CallsOK, [Next]_vars
    PROVE  CallsOK'
<1>1. CASE UNCHANGED vars
  BY <1>1 DEF vars, procVars, CallsOK
<1>2. CASE Outside
  <2>1. UNCHANGED clock \/ Tick
    BY <1>2 DEF Outside, OpenDecision, WriteDecision, RunTool, Teardown
  <2>2. clock' \in Ids
    BY <2>1, BoundsAssumption DEF CallsOK, Tick, Ids
  <2> QED
    BY <1>2, <2>2, OutsideFrame DEF CallsOK, procVars
<1>3. ASSUME NEW g \in Gateways, NEW t \in Requests, Receive(g, t)
      PROVE  CallsOK'
  BY <1>3 DEF CallsOK, Receive
<1>4. ASSUME NEW g \in Gateways, Enumerate(g) \/ Kill(g) \/ Restart(g)
      PROVE  CallsOK'
  BY <1>4 DEF CallsOK, Enumerate, Kill, Restart, procVars
<1>5. ASSUME NEW g \in Gateways, NEW a \in Answers, toolOf' = toolOf, Finish(g, a)
      PROVE  CallsOK'
  BY <1>5 DEF CallsOK, Finish, Answer
<1>6. ASSUME NEW g \in Gateways, EnumerateFails(g)
      PROVE  CallsOK'
  BY <1>6, <1>5 DEF EnumerateFails, Finish, Answers
<1>7. ASSUME NEW g \in Gateways, InHand(g)
      PROVE  CallsOK'
  <2>0. toolOf' = toolOf /\ clock' = clock /\ clock \in Ids
    BY <1>7, InHandFrame DEF procVars, CallsOK
  <2>1. CASE AutoCall(g) \/ GatedCall(g)
    <3>1. PICK v \in Verdicts, next \in States : TakeId(g, v, next)
      BY <2>1, TakeIdShape
    <3> QED
      BY <3>1, <2>0 DEF TakeId, Decide, CallsOK, procVars
  <2>2. CASE \/ \E yes \in BOOLEAN : PromptAnswered(g, yes)
             \/ WaitDecided(g) \/ WaitTimesOut(g)
    <3>1. PICK approved \in BOOLEAN, reason \in Reasons :
               EndApproval(g, approved, reason)
      BY <2>2, EndApprovalShape
    <3>2. Verdict(IF approved THEN "APPROVED" ELSE "DENIED", reason, "none")
              \in Verdicts
      BY DEF Verdict, Verdicts, Reasons
    <3> QED
      BY <3>1, <3>2, <2>0 DEF EndApproval, Decide, CallsOK, procVars
  <2>3. CASE ContainerAnswers(g)
    <3>1. PICK outcome \in Outcomes :
               \/ EndRun(g, outcome, {}, "record")
               \/ EndRun(g, outcome, {Current(g)}, "record")
      BY <2>3, EndRunShape
    <3>2. /\ verdict' = [verdict EXCEPT ![Current(g)].outcome = outcome]
          /\ UNCHANGED <<idOf, answer>>
      BY <3>1 DEF EndRun
    <3>3. verdict' \in [Calls -> Verdicts]
      BY <3>2 DEF CallsOK, Verdicts, Outcomes
    <3> QED
      BY <3>2, <3>3, <2>0 DEF CallsOK
  <2>4. CASE ServeList(g) \/ RejectUnknown(g) \/ WaitTorn(g) \/ ForwardFails(g)
    <3>1. PICK a \in {"tools", "unknown", "internal"} : Finish(g, a)
      BY <2>4, FinishShape
    <3> QED
      BY <3>1, <2>0, <1>5 DEF Answers
  <2>5. CASE PromptFails(g) \/ Forward(g) \/ Record(g) \/ Close(g)
    BY <2>5, <2>0 DEF PromptFails, Forward, Record, Close, CallsOK
  <2>7. CASE RecordFails(g)
    BY <2>7, <2>0 DEF RecordFails, Answer, Answers, CallsOK
  <2>6. CASE Reply(g)
    <3>1. AnswerFor(verdict[Current(g)]) \in Answers
      BY DEF AnswerFor, Answers
    <3> QED
      BY <2>6, <3>1, <2>0 DEF Reply, Answer, CallsOK
  <2> QED
    BY <1>7, <2>1, <2>2, <2>3, <2>4, <2>5, <2>6, <2>7 DEF InHand
<1> QED
  BY <1>1, <1>2, <1>3, <1>4, <1>6, <1>7, NextCases

\* A step that puts the call in hand to the queue, or may
Asks(g) == GatedCall(g) \/ PromptFails(g)

LEMMA FilesFrame ==
    ASSUME NEW g \in Gateways, InHand(g)
    PROVE  \/ UNCHANGED approvalVars
           \/ Asks(g) \/ WaitDecided(g) \/ WaitTimesOut(g)
           \/ \E yes \in BOOLEAN : PromptAnswered(g, yes)
  BY DEF InHand, ContainerAnswers, approvalVars, Finish, ServeList,
     RejectUnknown, AutoCall, TakeId, WaitTorn, Forward, ForwardFails, Record,
     RecordFails, Reply, Close, Answered, Broken, EndRun, Asks

\* What such a step does to the files
LEMMA AsksFiles ==
    ASSUME ProcessesOK, CallsOK, NEW g \in Gateways, Asks(g)
    PROVE  /\ Current(g) \in Calls /\ idOf'[Current(g)] \in Ids \cup {0}
           /\ UNCHANGED <<decided, writing, consents, clock>>
           /\ \/ UNCHANGED <<pending, filed>>
              \/ LET file == [id |-> idOf'[Current(g)], call |-> Current(g)]
                 IN  /\ pending' = WithoutId(pending, file.id) \cup {file}
                     /\ filed' = filed \cup {file}
<1>1. Current(g) \in Calls
  BY CurrentIsCall DEF Asks, GatedCall, PromptFails, ServingTool, At
<1>2. CASE GatedCall(g)
  <2>1. idOf'[Current(g)] = clock /\ clock \in Ids
    BY <1>1, <1>2, TakeIdShape DEF TakeId, CallsOK
  <2>2. UNCHANGED <<decided, writing, consents, clock>>
    BY <1>2, TakeIdShape DEF TakeId
  <2>3. UNCHANGED <<pending, filed>> \/ File(g, clock)
    BY <1>2 DEF GatedCall
  <2> QED
    BY <1>1, <2>1, <2>2, <2>3 DEF File
<1>3. CASE PromptFails(g)
  <2>1. File(g, idOf[Current(g)]) /\ UNCHANGED <<idOf, decided, writing, consents, clock>>
    BY <1>3 DEF PromptFails
  <2> QED
    BY <1>1, <2>1 DEF File, CallsOK
<1> QED
  BY <1>2, <1>3 DEF Asks

LEMMA WaitEndFiles ==
    ASSUME NEW g \in Gateways, WaitDecided(g) \/ WaitTimesOut(g)
    PROVE  /\ pending' = WithoutId(pending, idOf[Current(g)])
           /\ UNCHANGED <<filed, decided, writing, consents>>
  BY DEF WaitDecided, WaitTimesOut, EndWait, EndApproval

LEMMA FilesStep ==
    ASSUME ProcessesOK, CallsOK, FilesOK, [Next]_vars
    PROVE  FilesOK'
<1>1. CASE UNCHANGED vars
  BY <1>1 DEF vars, approvalVars, FilesOK
<1>2. ASSUME NEW o \in Operators, NEW p \in filed, OpenDecision(o, p)
      PROVE  FilesOK'
  <2>1. p \in [id : Ids \cup {0}, call : Calls]
    BY DEF FilesOK
  <2>2. [by |-> o, id |-> p.id, call |-> p.call]
            \in [by : Operators, id : Ids \cup {0}, call : Calls]
    BY <2>1
  <2>3. decided' \in [Ids -> {"absent", "empty", "torn", "yes", "no"}]
    BY <1>2 DEF OpenDecision, FilesOK
  <2> QED
    BY <1>2, <2>2, <2>3 DEF OpenDecision, FilesOK
<1>3. ASSUME NEW w \in writing, NEW yes \in BOOLEAN, WriteDecision(w, yes)
      PROVE  FilesOK'
  <2>1. decided' \in [Ids -> {"absent", "empty", "torn", "yes", "no"}]
    BY <1>3 DEF WriteDecision, FilesOK
  <2>2. w \in [by : Operators, id : Ids \cup {0}, call : Calls]
    BY DEF FilesOK
  <2>3. [id |-> w.id, call |-> w.call] \in [id : Ids \cup {0}, call : Calls]
    BY <2>2
  <2> QED
    BY <1>3, <2>1, <2>3 DEF WriteDecision, FilesOK
<1>4. CASE Tick \/ \E c \in Calls : RunTool(c) \/ Teardown(c)
  BY <1>4 DEF Tick, RunTool, Teardown, FilesOK, approvalVars
<1>5. ASSUME NEW g \in Gateways,
             \/ \E t \in Requests : Receive(g, t)
             \/ Enumerate(g) \/ EnumerateFails(g) \/ Kill(g) \/ Restart(g)
      PROVE  FilesOK'
  BY <1>5 DEF Receive, Enumerate, EnumerateFails, Finish, Kill, Restart,
              approvalVars, FilesOK
<1>6. ASSUME NEW g \in Gateways, InHand(g)
      PROVE  FilesOK'
  <2>0. Current(g) \in Calls
    BY <1>6, CurrentIsCall, InHandFrame
  <2>1. CASE UNCHANGED approvalVars
    BY <2>1 DEF approvalVars, FilesOK
  <2>2. CASE Asks(g)
    <3>1. [id |-> idOf'[Current(g)], call |-> Current(g)]
              \in [id : Ids \cup {0}, call : Calls]
      BY <2>2, AsksFiles
    <3> QED
      BY <2>2, <3>1, AsksFiles DEF FilesOK, WithoutId
  <2>3. CASE WaitDecided(g) \/ WaitTimesOut(g)
    BY <2>3, WaitEndFiles DEF FilesOK, WithoutId
  <2>4. ASSUME NEW yes \in BOOLEAN, PromptAnswered(g, yes)
        PROVE  FilesOK'
    <3>1. [id |-> idOf[Current(g)], call |-> Current(g)]
              \in [id : Ids \cup {0}, call : Calls]
      BY <2>0 DEF CallsOK
    <3>2. /\ UNCHANGED <<pending, filed, decided, writing>>
          /\ consents' \in {consents,
                 consents \cup {[id |-> idOf[Current(g)], call |-> Current(g)]}}
      BY <2>4 DEF PromptAnswered, EndApproval
    <3> QED
      BY <3>1, <3>2 DEF FilesOK
  <2> QED
    BY <1>6, <2>1, <2>2, <2>3, <2>4, FilesFrame
<1> QED
  BY <1>1, <1>2, <1>3, <1>4, <1>5, <1>6, NextCases DEF Outside

LEMMA RunsFrame ==
    ASSUME NEW g \in Gateways, InHand(g)
    PROVE  /\ executed' = executed
           /\ containers' = containers \/ Forward(g)
           /\ released' \in {released, released \cup {Current(g)}}
           /\ UNCHANGED audit \/ Record(g)
  BY DEF InHand, ContainerAnswers, runVars, PromptAnswered, EndApproval,
     Finish, ServeList, RejectUnknown, AutoCall, GatedCall, TakeId, PromptFails,
     WaitDecided, WaitTorn, WaitTimesOut, EndWait, Forward, ForwardFails, Record,
     RecordFails, Reply, Close, Answered, Broken, EndRun

LEMMA RunsStep ==
    ASSUME ProcessesOK, CallsOK, RunsOK, [Next]_vars
    PROVE  RunsOK'
<1>1. CASE UNCHANGED vars
  BY <1>1 DEF vars, runVars, RunsOK
<1>2. CASE Outside
  BY <1>2 DEF Outside, OpenDecision, WriteDecision, RunTool, Teardown, Tick,
              runVars, RunsOK
<1>3. ASSUME NEW g \in Gateways,
             \/ \E t \in Requests : Receive(g, t)
             \/ Enumerate(g) \/ EnumerateFails(g) \/ Restart(g)
      PROVE  RunsOK'
  BY <1>3 DEF Receive, Enumerate, EnumerateFails, Finish, Restart, runVars, RunsOK
<1>4. ASSUME NEW g \in Gateways, Kill(g)
      PROVE  RunsOK'
  <2>1. pc[g] \notin {"idle", "dead"} => Current(g) \in Calls
    BY CurrentIsCall
  <2> QED
    BY <1>4, <2>1 DEF Kill, At, runVars, RunsOK
<1>5. ASSUME NEW g \in Gateways, InHand(g)
      PROVE  RunsOK'
  <2>0. Current(g) \in Calls /\ killed' = killed
    BY <1>5, CurrentIsCall, InHandFrame
  <2>1. /\ executed' = executed
        /\ containers' \in SUBSET Calls /\ released' \in SUBSET Calls
    BY <1>5, <2>0, RunsFrame DEF RunsOK, Forward
  <2>2. audit' \in Seq([call : Calls, verdict : Verdicts])
    <3>1. CASE Record(g)
      <4>1. [call |-> Current(g), verdict |-> verdict[Current(g)]]
                \in [call : Calls, verdict : Verdicts]
        BY <2>0 DEF CallsOK
      <4>2. audit \in Seq([call : Calls, verdict : Verdicts])
        BY DEF RunsOK
      <4>3. audit' = Append(audit, [call |-> Current(g),
                                    verdict |-> verdict[Current(g)]])
        BY <3>1 DEF Record
      <4> QED
        BY <4>1, <4>2, <4>3
    <3>2. CASE audit' = audit
      BY <3>2 DEF RunsOK
    <3> QED
      BY <3>1, <3>2, <1>5, RunsFrame
  <2> QED
    BY <2>0, <2>1, <2>2 DEF RunsOK
<1> QED
  BY <1>1, <1>2, <1>3, <1>4, <1>5, NextCases

\* The state is always a state of the types TypeOK gives.
THEOREM TypeCorrect == Spec => []TypeOK
<1>1. Init => TypeOK
  <2> SUFFICES ASSUME Init PROVE TypeOK
    OBVIOUS
  <2>1. ProcessesOK
    BY PolicyAssumption, BoundsAssumption DEF Init, ProcessesOK, States
  <2>2. CallsOK
    BY BoundsAssumption
       DEF Init, CallsOK, Requests, Ids, Verdicts, NoVerdict, Verdict, Answers
  <2>3. FilesOK /\ RunsOK
    BY DEF Init, FilesOK, RunsOK
  <2> QED
    BY <2>1, <2>2, <2>3 DEF TypeOK
<1>2. TypeOK /\ [Next]_vars => TypeOK'
  BY ProcessesStep, CallsStep, FilesStep, RunsStep DEF TypeOK
<1> QED
  BY <1>1, <1>2, PTL DEF Spec

(***************************************************************************)
(* The inductive invariant.  A call goes through stages: ahead of its      *)
(* session, in hand (then its process's pc tells where), or past.  What    *)
(* holds of a call follows from its stage.                                 *)
(***************************************************************************)

Stage(c) == IF c[2] > count[c[1]] THEN "future"
            ELSE IF Live(c) THEN pc[c[1]] ELSE "past"

Fresh == {"future", "build", "serve"}
BeforeRun == Fresh \cup {"prompt", "waiting", "forward"}
Unlogged == BeforeRun \cup {"running", "record"}

\* A call has an id and a tool once handle_call has served it, and an answer
\* only at the end.
Lifecycle(c) ==
    /\ Stage(c) \in Fresh => idOf[c] = 0
    /\ Stage(c) \notin Fresh \cup {"past"} => idOf[c] # 0 /\ toolOf[c] \in Tools
    /\ Stage(c) \notin {"past", "close"} => answer[c] = "none"
    /\ c \in killed => Stage(c) = "past"

\* What may be forwarded, or has been, was cleared: automatically or by a person
Cleared(c) == AskedAPerson(c) => \E k \in consents : k.id = idOf[c]

Gate(c) ==
    /\ Stage(c) \in BeforeRun => c \notin executed \cup containers
    /\ Stage(c) \in {"forward", "running"} => Cleared(c)
    /\ c \in executed \cup containers => Cleared(c)

\* A file that says "yes" was written by a person
DecidedByAPerson ==
    \A i \in Ids : decided[i] = "yes" => \E k \in consents : k.id = i
WritingIsFiled == \A w \in writing : \E f \in filed : f.id = w.id /\ f.call = w.call

\* Files and approvals carry the id of the call they name
IdsNamed(files) == \A f \in files : f.id # 0 /\ idOf[f.call] = f.id

\* What the verdict, the log and the containers look like at each stage
Allowed(v) == v.decision \in {"AUTO", "APPROVED"}
Log(c) ==
    /\ Stage(c) \in {"forward", "running"} =>
          Allowed(verdict[c]) /\ verdict[c].outcome = "none"
    /\ Stage(c) \in {"record", "reply"} =>
          \/ /\ verdict[c].decision = "DENIED" /\ verdict[c].outcome = "none"
             /\ c \notin executed \cup containers
          \/ Allowed(verdict[c]) /\ verdict[c].outcome \in Outcomes
    /\ Stage(c) = "close" => verdict[c].outcome = "ERROR"
    /\ Stage(c) \in Unlogged => RecordsOf(c) = {}
    /\ Stage(c) = "reply" =>
          \E i \in RecordsOf(c) : /\ RecordsOf(c) = {i}
                                  /\ audit[i].verdict = verdict[c]

\* What was denied or never forwarded has not run
Unrun(c) ==
    /\ answer[c] = "denied" => c \notin executed \cup containers
    /\ \A i \in RecordsOf(c) : audit[i].verdict.decision = "DENIED" =>
                                 c \notin executed \cup containers
    /\ answer[c] \in {"tools", "unknown", "internal"} =>
          c \notin executed \cup containers

\* Whose container is held: up, with its stdin open
Container(c) ==
    c \in containers \ released =>
        \/ Stage(c) = "running"
        \/ Stage(c) \in {"record", "reply", "close"} /\ verdict[c].outcome = "ERROR"

PerCall(c) == Lifecycle(c) /\ Gate(c) /\ Log(c) /\ Unrun(c) /\ Container(c)
              /\ AnswerInLog(c)
IInv ==
    /\ \A c \in Calls : PerCall(c)
    /\ DecidedByAPerson /\ WritingIsFiled
    /\ IdsNamed(filed \cup consents)

-----------------------------------------------------------------------------
(***************************************************************************)
(* What a step leaves alone                                                *)
(***************************************************************************)

LEMMA StageOfCurrent ==
    ASSUME ProcessesOK, NEW g \in Gateways, pc[g] \notin {"idle", "dead"}
    PROVE  Stage(Current(g)) = pc[g]
  BY DEF Stage, Live, Current, ProcessesOK

LEMMA CallParts ==
    ASSUME NEW c \in Calls
    PROVE  c[1] \in Gateways /\ c[2] \in 1 .. MaxCalls /\ c = <<c[1], c[2]>>
  BY DEF Calls

LEMMA StageMoves ==
    ASSUME ProcessesOK, NEW g \in Gateways, NEW s \in States, NEW c \in Calls,
           Goto(g, s), count' = count, pc[g] \notin {"idle", "dead"}
    PROVE  /\ c # Current(g) => Stage(c)' = Stage(c)
           /\ c = Current(g) =>
                 Stage(c)' = IF s \in {"idle", "dead"} THEN "past" ELSE s
<1>1. CASE c = Current(g)
  <2>1. c[1] = g /\ c[2] = count[g] /\ count[g] \in Nat
    BY <1>1 DEF Current, ProcessesOK
  <2>2. pc'[g] = s
    BY DEF Goto, ProcessesOK
  <2> QED
    BY <1>1, <2>1, <2>2 DEF Stage, Live
<1>2. CASE c # Current(g)
  <2>1. c[1] # g \/ c[2] # count[g]
    BY <1>2, CallParts DEF Current
  <2>2. CASE c[1] # g
    BY <1>2, <2>2, CallParts DEF Stage, Live, Goto, ProcessesOK
  <2>3. CASE c[1] = g /\ c[2] # count[g]
    BY <1>2, <2>3, CallParts DEF Stage, Live, Goto, ProcessesOK
  <2> QED
    BY <1>2, <2>1, <2>2, <2>3
<1> QED
  BY <1>1, <1>2

LEMMA ConsentsGrow == [Next]_vars => consents \subseteq consents'
<1> SUFFICES ASSUME [Next]_vars PROVE consents \subseteq consents'
  OBVIOUS
<1>1. CASE UNCHANGED vars \/ Outside
  BY <1>1 DEF vars, approvalVars, Outside, OpenDecision, WriteDecision, RunTool,
              Teardown, Tick
<1>2. ASSUME NEW g \in Gateways,
             \/ \E t \in Requests : Receive(g, t)
             \/ Enumerate(g) \/ EnumerateFails(g) \/ Kill(g) \/ Restart(g)
      PROVE  consents \subseteq consents'
  BY <1>2 DEF Receive, Enumerate, EnumerateFails, Finish, Kill, Restart,
              approvalVars
<1>3. ASSUME NEW g \in Gateways, InHand(g)
      PROVE  consents \subseteq consents'
  BY <1>3, FilesFrame, WaitEndFiles
     DEF approvalVars, PromptAnswered, Asks, GatedCall, TakeId, PromptFails
<1> QED
  BY <1>1, <1>2, <1>3, NextCases

\* Nothing the invariant says of c changes
Same(c) ==
    /\ Stage(c)' = Stage(c)
    /\ toolOf'[c] = toolOf[c] /\ idOf'[c] = idOf[c]
    /\ verdict'[c] = verdict[c] /\ answer'[c] = answer[c]
    /\ c \in executed' <=> c \in executed
    /\ c \in containers' <=> c \in containers
    /\ c \in released' <=> c \in released
    /\ c \in killed' <=> c \in killed
    /\ RecordsOf(c)' = RecordsOf(c)
    /\ \A i \in RecordsOf(c) : audit'[i] = audit[i]

LEMMA SameKeeps ==
    ASSUME NEW c \in Calls, mode' = mode, consents \subseteq consents',
           Same(c), PerCall(c)
    PROVE  PerCall(c)'
<1>1. Lifecycle(c)'
  BY DEF Same, PerCall, Lifecycle
<1>2. Cleared(c) => Cleared(c)'
  BY DEF Same, Cleared, AskedAPerson
<1>3. Gate(c)'
  BY <1>2 DEF Same, PerCall, Gate
<1>4. Log(c)'
  BY DEF Same, PerCall, Log
<1>5. Unrun(c)' /\ Container(c)'
  BY DEF Same, PerCall, Unrun, Container
<1>6. AnswerInLog(c)'
  BY DEF Same, PerCall, AnswerInLog
<1> QED
  BY <1>1, <1>3, <1>4, <1>5, <1>6 DEF PerCall


\* The record of one call is no other call's
LEMMA RecordElsewhere ==
    ASSUME RunsOK, NEW c \in Calls, NEW d, d # c, NEW v,
           audit' = Append(audit, [call |-> d, verdict |-> v])
    PROVE  RecordsOf(c)' = RecordsOf(c) /\ \A i \in RecordsOf(c) : audit'[i] = audit[i]
<1>1. audit \in Seq([call : Calls, verdict : Verdicts])
  BY DEF RunsOK
<1>2. Len(audit) \in Nat /\ DOMAIN audit = 1 .. Len(audit)
  BY <1>1
<1>3. DOMAIN audit' = 1 .. (Len(audit) + 1)
  BY <1>1
<1>4. \A i \in 1 .. Len(audit) : audit'[i] = audit[i]
  BY <1>1
<1>5. audit'[Len(audit) + 1].call = d
  BY <1>1
<1> QED
  BY <1>2, <1>3, <1>4, <1>5 DEF RecordsOf

LEMMA OthersSame ==
    ASSUME TypeOK, NEW g \in Gateways, InHand(g), NEW c \in Calls, c # Current(g)
    PROVE  Same(c)
<1>1. PICK s \in States : Goto(g, s)
  BY InHandFrame
<1>2. /\ pc[g] \notin {"idle", "dead"} /\ count' = count /\ toolOf' = toolOf
      /\ killed' = killed
  BY InHandFrame DEF procVars
<1>3. Stage(c)' = Stage(c)
  BY <1>1, <1>2, StageMoves DEF TypeOK
<1>4. c \in executed' <=> c \in executed
  BY RunsFrame
<1>5. (c \in containers' <=> c \in containers) /\ (c \in released' <=> c \in released)
  BY RunsFrame DEF Forward
<1>6. RecordsOf(c)' = RecordsOf(c) /\ \A i \in RecordsOf(c) : audit'[i] = audit[i]
  <2>1. CASE audit' = audit
    BY <2>1 DEF RecordsOf
  <2>2. CASE Record(g)
    BY <2>2, RecordElsewhere DEF Record, TypeOK
  <2> QED
    BY <2>1, <2>2, RunsFrame
<1>7. idOf'[c] = idOf[c] /\ verdict'[c] = verdict[c] /\ answer'[c] = answer[c]
  <2>1. CASE AutoCall(g) \/ GatedCall(g)
    BY <2>1, TakeIdShape DEF TakeId, Decide, TypeOK, CallsOK
  <2>2. CASE \/ \E yes \in BOOLEAN : PromptAnswered(g, yes)
             \/ WaitDecided(g) \/ WaitTimesOut(g)
    BY <2>2, EndApprovalShape DEF EndApproval, Decide, TypeOK, CallsOK
  <2>3. CASE ContainerAnswers(g)
    <3>1. PICK outcome \in Outcomes :
               \/ EndRun(g, outcome, {}, "record")
               \/ EndRun(g, outcome, {Current(g)}, "record")
      BY <2>3, EndRunShape
    <3>2. /\ verdict' = [verdict EXCEPT ![Current(g)].outcome = outcome]
          /\ UNCHANGED <<idOf, answer>>
      BY <3>1 DEF EndRun
    <3> QED
      BY <3>2 DEF TypeOK, CallsOK
  <2>4. CASE ServeList(g) \/ RejectUnknown(g) \/ WaitTorn(g) \/ ForwardFails(g)
    BY <2>4, FinishShape DEF Finish, Answer, TypeOK, CallsOK
  <2>5. CASE PromptFails(g) \/ Forward(g) \/ Record(g) \/ Close(g)
    BY <2>5 DEF PromptFails, Forward, Record, Close
  <2>6. CASE RecordFails(g) \/ Reply(g)
    BY <2>6 DEF RecordFails, Reply, Answer, TypeOK, CallsOK
  <2> QED
    BY <2>1, <2>2, <2>3, <2>4, <2>5, <2>6 DEF InHand
<1> QED
  BY <1>2, <1>3, <1>4, <1>5, <1>6, <1>7 DEF Same

\* Steps no process takes, as one call sees them
LEMMA OutsideKeeps ==
    ASSUME TypeOK, Outside, NEW c \in Calls, PerCall(c)
    PROVE  PerCall(c)'
<1>0. /\ UNCHANGED <<procVars, pc, idOf, verdict, released, audit, answer, killed>>
      /\ consents \subseteq consents'
  BY OutsideFrame, ConsentsGrow, NextCases DEF Outside, Next
<1>1. Stage(c)' = Stage(c) /\ RecordsOf(c)' = RecordsOf(c)
  BY <1>0 DEF procVars, Stage, Live, RecordsOf
<1>2. CASE UNCHANGED <<executed, containers>>
  <2>1. Same(c)
    BY <1>0, <1>1, <1>2 DEF Same, procVars
  <2> QED
    BY <1>0, <2>1, SameKeeps DEF procVars
<1>3. ASSUME NEW d \in Calls, RunTool(d)
      PROVE  PerCall(c)'
  <2>0. /\ executed' = executed \cup {d} /\ d \in containers
        /\ containers' = containers
    BY <1>3 DEF RunTool
  <2>1. CASE d # c
    <3>1. Same(c)
      BY <1>0, <1>1, <2>0, <2>1 DEF Same, procVars
    <3> QED
      BY <1>0, <3>1, SameKeeps DEF procVars
  <2>2. CASE d = c
    <3>1. c \in containers /\ c \in containers' /\ c \in executed'
      BY <2>0, <2>2
    <3>2. Lifecycle(c)' /\ Container(c)'
      BY <1>0, <1>1, <3>1 DEF PerCall, Lifecycle, Container, procVars
    <3>3. Cleared(c)'
      BY <1>0, <3>1 DEF PerCall, Gate, Cleared, AskedAPerson, procVars
    <3>4. Gate(c)'
      BY <1>0, <1>1, <3>1, <3>3 DEF PerCall, Gate
    <3>5. Log(c)'
      BY <1>0, <1>1, <3>1 DEF PerCall, Log
    <3>6. Unrun(c)' /\ AnswerInLog(c)'
      BY <1>0, <1>1, <3>1 DEF PerCall, Unrun, AnswerInLog
    <3> QED
      BY <3>2, <3>4, <3>5, <3>6 DEF PerCall
  <2> QED
    BY <2>1, <2>2
<1>4. ASSUME NEW d \in Calls, Teardown(d)
      PROVE  PerCall(c)'
  <2>0. containers' = containers \ {d} /\ executed' = executed
    BY <1>4 DEF Teardown
  <2>1. CASE d # c
    <3>1. Same(c)
      BY <1>0, <1>1, <2>0, <2>1 DEF Same, procVars
    <3> QED
      BY <1>0, <3>1, SameKeeps DEF procVars
  <2>2. CASE d = c
    <3>1. c \notin containers' /\ (c \in executed' <=> c \in executed)
      BY <2>0, <2>2
    <3>2. Lifecycle(c)' /\ Container(c)'
      BY <1>0, <1>1, <3>1 DEF PerCall, Lifecycle, Container, procVars
    <3>3. Cleared(c) => Cleared(c)'
      BY <1>0, <3>1 DEF PerCall, Gate, Cleared, AskedAPerson, procVars
    <3>4. Gate(c)'
      BY <1>0, <1>1, <3>1, <3>3 DEF PerCall, Gate
    <3>5. Log(c)'
      BY <1>0, <1>1, <3>1 DEF PerCall, Log
    <3>6. Unrun(c)' /\ AnswerInLog(c)'
      BY <1>0, <1>1, <3>1 DEF PerCall, Unrun, AnswerInLog
    <3> QED
      BY <3>2, <3>4, <3>5, <3>6 DEF PerCall
  <2> QED
    BY <2>1, <2>2
<1> QED
  BY <1>2, <1>3, <1>4
     DEF Outside, OpenDecision, WriteDecision, Tick, runVars


-----------------------------------------------------------------------------
(***************************************************************************)
(* What a step does to the call in hand.  Each step's effect on the parts  *)
(* of PerCall follows from the call's stage before and after.              *)
(***************************************************************************)

LEMMA ReceiveKeeps ==
    ASSUME TypeOK, NEW g \in Gateways, NEW t \in Requests, Receive(g, t),
           NEW c \in Calls, PerCall(c)
    PROVE  PerCall(c)'
<1>0. /\ UNCHANGED <<mode, idOf, verdict, executed, containers, released, audit,
                    answer, killed, consents>>
      /\ count[g] \in Nat /\ pc[g] = "idle"
  BY DEF Receive, approvalVars, runVars, TypeOK, ProcessesOK, At
<1>1. RecordsOf(c)' = RecordsOf(c)
  BY <1>0 DEF RecordsOf
<1>2. CASE c = <<g, count[g] + 1>>
  <2>1. c[1] = g /\ c[2] = count[g] + 1
    BY <1>2
  <2>2. Stage(c) = "future"
    BY <1>0, <2>1 DEF Stage
  <2>3. count'[g] = count[g] + 1 /\ pc'[g] \in {"build", "serve"}
    BY DEF Receive, Goto, TypeOK, ProcessesOK
  <2>4. Stage(c)' \in {"build", "serve"}
    BY <1>0, <2>1, <2>3 DEF Stage, Live
  <2>5. Lifecycle(c)' /\ Gate(c)'
    BY <1>0, <2>2, <2>4 DEF PerCall, Lifecycle, Gate, Fresh, BeforeRun
  <2>6. Log(c)'
    BY <1>0, <1>1, <2>2, <2>4 DEF PerCall, Log, Unlogged, BeforeRun, Fresh
  <2>7. Unrun(c)' /\ Container(c)' /\ AnswerInLog(c)'
    BY <1>0, <1>1, <2>2, <2>4
       DEF PerCall, Unrun, Container, AnswerInLog, Gate, BeforeRun, Fresh
  <2> QED
    BY <2>5, <2>6, <2>7 DEF PerCall
<1>3. CASE c # <<g, count[g] + 1>>
  <2>1. Stage(c)' = Stage(c)
    <3>1. CASE c[1] # g
      BY <3>1, CallParts DEF Stage, Live, Receive, Goto, TypeOK, ProcessesOK
    <3>2. CASE c[1] = g
      <4>1. c[2] \in Nat /\ c[2] # count[g] + 1
        BY <1>3, <3>2, CallParts, BoundsAssumption
      <4>2. count'[g] = count[g] + 1 /\ pc'[g] \in {"build", "serve"}
        BY DEF Receive, Goto, TypeOK, ProcessesOK
      <4> QED
        BY <1>0, <3>2, <4>1, <4>2 DEF Stage, Live
    <3> QED
      BY <3>1, <3>2
  <2>2. toolOf'[c] = toolOf[c]
    BY <1>3 DEF Receive, TypeOK, CallsOK
  <2>3. Same(c)
    BY <1>0, <1>1, <2>1, <2>2 DEF Same
  <2> QED
    BY <1>0, <2>3, SameKeeps
<1> QED
  BY <1>2, <1>3

\* A call that ends where it is, answered or not, in a stage before it ran
EndsFresh(c) ==
    /\ Stage(c) \in BeforeRun \ {"future"} /\ Stage(c)' = "past"
    /\ UNCHANGED <<mode, toolOf, idOf, verdict, executed, containers, audit,
                   killed, consents>>
    /\ answer'[c] \in {"tools", "unknown", "internal"}

LEMMA EndsFreshKeeps ==
    ASSUME TypeOK, NEW c \in Calls, PerCall(c), EndsFresh(c)
    PROVE  PerCall(c)'
<1>1. RecordsOf(c)' = {} /\ RecordsOf(c) = {}
  BY DEF EndsFresh, PerCall, Log, RecordsOf, Unlogged
<1>2. c \notin executed \cup containers /\ c \notin executed' \cup containers'
  BY DEF EndsFresh, PerCall, Gate
<1>3. Lifecycle(c)' /\ Gate(c)' /\ Container(c)'
  BY <1>2 DEF EndsFresh, PerCall, Lifecycle, Gate, Container, Fresh, BeforeRun
<1>4. Log(c)' /\ Unrun(c)' /\ AnswerInLog(c)'
  BY <1>1, <1>2 DEF EndsFresh, Log, Unrun, AnswerInLog, Unlogged, BeforeRun, Fresh
<1> QED
  BY <1>3, <1>4 DEF PerCall

LEMMA BuildKeeps ==
    ASSUME TypeOK, NEW g \in Gateways, Enumerate(g) \/ EnumerateFails(g),
           NEW c \in Calls, PerCall(c)
    PROVE  PerCall(c)'
<1>0. /\ pc[g] = "build" /\ Current(g) \in Calls /\ Stage(Current(g)) = "build"
      /\ UNCHANGED <<mode, count, toolOf, idOf, verdict, executed, containers,
                    released, audit, killed, consents>>
  BY CurrentIsCall, StageOfCurrent
     DEF Enumerate, EnumerateFails, Finish, approvalVars, runVars, At, TypeOK
<1>1. RecordsOf(c)' = RecordsOf(c)
  BY <1>0 DEF RecordsOf
<1>2. PICK s \in {"build", "serve", "idle"} :
        /\ Goto(g, s)
        /\ s = "idle" => EnumerateFails(g)
        /\ s # "idle" => answer' = answer
  BY DEF Enumerate, EnumerateFails, Finish
<1>3. CASE c # Current(g)
  <2>1. Stage(c)' = Stage(c)
    BY <1>0, <1>2, <1>3, StageMoves DEF States, TypeOK
  <2>2. answer'[c] = answer[c]
    BY <1>2, <1>3 DEF EnumerateFails, Finish, Answer, TypeOK, CallsOK
  <2>3. Same(c)
    BY <1>0, <1>1, <2>1, <2>2 DEF Same
  <2> QED
    BY <1>0, <2>3, SameKeeps
<1>4. CASE c = Current(g) /\ s = "idle"
  <2>1. Stage(c)' = "past"
    BY <1>0, <1>2, <1>4, StageMoves DEF States, TypeOK
  <2>2. answer'[c] = "internal"
    BY <1>0, <1>2, <1>4 DEF EnumerateFails, Finish, Answer, TypeOK, CallsOK
  <2>3. EndsFresh(c)
    BY <1>0, <1>4, <2>1, <2>2 DEF EndsFresh, BeforeRun, Fresh
  <2> QED
    BY <2>3, EndsFreshKeeps
<1>5. CASE c = Current(g) /\ s # "idle"
  <2>1. Stage(c) = "build" /\ Stage(c)' \in {"build", "serve"} /\ answer' = answer
    BY <1>0, <1>2, <1>5, StageMoves DEF States, TypeOK
  <2>2. Lifecycle(c)' /\ Gate(c)'
    BY <1>0, <2>1 DEF PerCall, Lifecycle, Gate, Fresh, BeforeRun
  <2>3. Log(c)'
    BY <1>0, <1>1, <2>1 DEF PerCall, Log, Unlogged, BeforeRun, Fresh
  <2>4. Unrun(c)' /\ Container(c)' /\ AnswerInLog(c)'
    BY <1>0, <1>1, <2>1
       DEF PerCall, Unrun, Container, AnswerInLog, Gate, BeforeRun, Fresh
  <2> QED
    BY <2>2, <2>3, <2>4 DEF PerCall
<1> QED
  BY <1>3, <1>4, <1>5

LEMMA KillKeeps ==
    ASSUME TypeOK, NEW g \in Gateways, Kill(g), NEW c \in Calls, PerCall(c)
    PROVE  PerCall(c)'
<1>0. /\ Goto(g, "dead") /\ pc[g] # "dead"
      /\ UNCHANGED <<mode, count, toolOf, idOf, verdict, executed, containers,
                    audit, answer, consents>>
  BY DEF Kill, procVars, approvalVars, runVars, At
<1>1. RecordsOf(c)' = RecordsOf(c)
  BY <1>0 DEF RecordsOf
<1>2. CASE pc[g] # "idle" /\ c = Current(g)
  <2>1. Stage(c)' = "past" /\ Stage(c) = pc[g]
    BY <1>0, <1>2, StageMoves, StageOfCurrent DEF States, TypeOK
  <2>2. c \in killed' /\ c \in released'
    BY <1>2 DEF Kill, At
  <2>3. Lifecycle(c)' /\ Container(c)'
    BY <2>1, <2>2 DEF Lifecycle, Container, Fresh
  <2>4. Cleared(c)' <=> Cleared(c)
    BY <1>0 DEF Cleared, AskedAPerson
  <2>5. Gate(c)'
    BY <1>0, <2>1, <2>4 DEF PerCall, Gate, BeforeRun, Fresh
  <2>6. Log(c)' /\ Unrun(c)' /\ AnswerInLog(c)'
    BY <1>0, <1>1, <2>1
       DEF PerCall, Log, Unrun, AnswerInLog, Unlogged, BeforeRun, Fresh
  <2> QED
    BY <2>3, <2>5, <2>6 DEF PerCall
<1>3. CASE pc[g] = "idle" \/ c # Current(g)
  <2>1. Stage(c)' = Stage(c)
    <3>1. CASE pc[g] # "idle"
      BY <1>0, <1>3, <3>1, StageMoves DEF States, TypeOK
    <3>2. CASE pc[g] = "idle"
      BY <1>0, <3>2, CallParts DEF Stage, Live, Goto, TypeOK, ProcessesOK
    <3> QED
      BY <3>1, <3>2
  <2>2. (c \in killed' <=> c \in killed) /\ (c \in released' <=> c \in released)
    BY <1>3 DEF Kill, At
  <2>3. Same(c)
    BY <1>0, <1>1, <2>1, <2>2 DEF Same
  <2> QED
    BY <1>0, <2>3, SameKeeps
<1> QED
  BY <1>2, <1>3

LEMMA RestartKeeps ==
    ASSUME TypeOK, NEW g \in Gateways, Restart(g), NEW c \in Calls, PerCall(c)
    PROVE  PerCall(c)'
<1>0. /\ Goto(g, "idle") /\ pc[g] = "dead"
      /\ UNCHANGED <<mode, count, toolOf, idOf, verdict, executed, containers,
                    released, audit, answer, killed, consents>>
  BY DEF Restart, approvalVars, runVars, At
<1>1. Stage(c)' = Stage(c)
  BY <1>0, CallParts DEF Stage, Live, Goto, TypeOK, ProcessesOK
<1>2. RecordsOf(c)' = RecordsOf(c)
  BY <1>0 DEF RecordsOf
<1>3. Same(c)
  BY <1>0, <1>1, <1>2 DEF Same
<1> QED
  BY <1>0, <1>3, SameKeeps


LEMMA InHandCurrent ==
    ASSUME TypeOK, NEW g \in Gateways, InHand(g), NEW c \in Calls, c = Current(g)
    PROVE  /\ Stage(c) = pc[g]
           /\ \A s \in States : Goto(g, s) =>
                    Stage(c)' = IF s \in {"idle", "dead"} THEN "past" ELSE s
           /\ UNCHANGED <<mode, count, toolOf, clock, killed>>
           /\ consents \subseteq consents'
<1>1. pc[g] \notin {"idle", "dead"} /\ UNCHANGED <<mode, count, toolOf, clock, killed>>
  BY InHandFrame DEF procVars
<1>2. \A s \in States : Goto(g, s) =>
                    Stage(c)' = IF s \in {"idle", "dead"} THEN "past" ELSE s
  BY <1>1, StageMoves DEF TypeOK
<1>3. consents \subseteq consents'
  BY ConsentsGrow DEF Next, InHand, ProcessStep
<1> QED
  BY <1>1, <1>2, <1>3, StageOfCurrent DEF TypeOK

\* The id is taken: what may be forwarded at once needs nobody's approval
LEMMA TakeIdCases ==
    ASSUME NEW g \in Gateways, AutoCall(g) \/ GatedCall(g)
    PROVE  \E v \in Verdicts, next \in {"forward", "record", "prompt", "waiting"} :
              /\ TakeId(g, v, next)
              /\ next = "forward" => /\ Allowed(v) /\ v.outcome = "none"
                                     /\ ~AskedAPerson(Current(g))
              /\ next = "record" => v.decision = "DENIED" /\ v.outcome = "none"
<1>1. CASE AutoCall(g)
  <2> DEFINE v == Verdict("AUTO", "none", "none")
  <2>1. v \in Verdicts /\ Allowed(v) /\ v.outcome = "none"
    BY DEF Verdict, Verdicts, Allowed
  <2>2. TakeId(g, v, "forward") /\ ~AskedAPerson(Current(g))
    BY <1>1 DEF AutoCall, AskedAPerson
  <2> QED
    BY <2>1, <2>2
<1>2. CASE GatedCall(g)
  <2>1. CASE mode[g] = "auto_approve" /\
             TakeId(g, Verdict("APPROVED", "auto_approve", "none"), "forward")
    <3> DEFINE v == Verdict("APPROVED", "auto_approve", "none")
    <3>1. v \in Verdicts /\ Allowed(v) /\ v.outcome = "none"
      BY DEF Verdict, Verdicts, Allowed
    <3>2. ~AskedAPerson(Current(g))
      BY <2>1 DEF AskedAPerson, Current
    <3> QED
      BY <2>1, <3>1, <3>2
  <2>2. CASE TakeId(g, Verdict("DENIED", "auto_deny", "none"), "record")
    <3> DEFINE v == Verdict("DENIED", "auto_deny", "none")
    <3>1. v \in Verdicts /\ v.decision = "DENIED" /\ v.outcome = "none"
      BY DEF Verdict, Verdicts
    <3> QED
      BY <2>2, <3>1
  <2>3. CASE TakeId(g, NoVerdict, "prompt") \/ TakeId(g, NoVerdict, "waiting")
    <3>1. NoVerdict \in Verdicts
      BY DEF NoVerdict, Verdict, Verdicts
    <3> QED
      BY <2>3, <3>1
  <2> QED
    BY <1>2, <2>1, <2>2, <2>3 DEF GatedCall
<1> QED
  BY <1>1, <1>2

LEMMA TakeIdKeeps ==
    ASSUME TypeOK, NEW g \in Gateways, AutoCall(g) \/ GatedCall(g),
           NEW c \in Calls, c = Current(g), PerCall(c)
    PROVE  PerCall(c)'
<1>0. PICK v \in Verdicts, next \in {"forward", "record", "prompt", "waiting"} :
              /\ TakeId(g, v, next)
              /\ next = "forward" => /\ Allowed(v) /\ v.outcome = "none"
                                     /\ ~AskedAPerson(Current(g))
              /\ next = "record" => v.decision = "DENIED" /\ v.outcome = "none"
  BY TakeIdCases
<1>1. /\ Stage(c) = "serve" /\ Stage(c)' = next
      /\ UNCHANGED <<mode, toolOf, killed, executed, containers, audit, answer>>
      /\ toolOf[c] \in Tools
  <2>1. InHand(g) /\ pc[g] = "serve" /\ toolOf[c] \in Tools
    BY TakeIdShape DEF InHand, ServingTool, At
  <2>2. Goto(g, next) /\ UNCHANGED <<executed, containers, audit, answer>>
    BY <1>0 DEF TakeId, runVars
  <2> QED
    BY <2>1, <2>2, InHandCurrent DEF States
<1>2. idOf'[c] = clock /\ verdict'[c] = v /\ clock # 0
  BY <1>0, <1>1, BoundsAssumption DEF TakeId, Decide, TypeOK, CallsOK, Ids
<1>3. RecordsOf(c)' = RecordsOf(c)
  BY <1>1 DEF RecordsOf
<1>4. Lifecycle(c)'
  BY <1>1, <1>2 DEF PerCall, Lifecycle, Fresh
<1>5. next = "forward" => Cleared(c)'
  BY <1>0, <1>1 DEF Cleared, AskedAPerson
<1>6. Gate(c)' /\ Container(c)'
  BY <1>1, <1>5 DEF PerCall, Gate, Container, BeforeRun, Fresh
<1>7. Log(c)'
  BY <1>0, <1>1, <1>2, <1>3 DEF PerCall, Log, Gate, Unlogged, BeforeRun, Fresh
<1>8. Unrun(c)' /\ AnswerInLog(c)'
  BY <1>1, <1>3 DEF PerCall, Unrun, AnswerInLog, Lifecycle, Fresh
<1> QED
  BY <1>1, <1>4, <1>6, <1>7, <1>8 DEF PerCall

LEMMA EndApprovalKeeps ==
    ASSUME TypeOK, DecidedByAPerson, NEW g \in Gateways,
           \/ \E yes \in BOOLEAN : PromptAnswered(g, yes)
           \/ WaitDecided(g) \/ WaitTimesOut(g),
           NEW c \in Calls, c = Current(g), PerCall(c)
    PROVE  PerCall(c)'
<1>1. InHand(g) /\ pc[g] \in {"prompt", "waiting"}
  BY DEF InHand, PromptAnswered, WaitDecided, WaitTimesOut, At
<1>2. /\ Stage(c) \in {"prompt", "waiting"}
      /\ UNCHANGED <<mode, toolOf, killed>>
      /\ idOf[c] \in Ids
  <2>1. Stage(c) \in {"prompt", "waiting"}
        /\ UNCHANGED <<mode, toolOf, killed>>
    BY <1>1, InHandCurrent
  <2>2. idOf[c] # 0
    BY <2>1 DEF PerCall, Lifecycle, Fresh
  <2> QED
    BY <2>1, <2>2 DEF TypeOK, CallsOK
<1>3. PICK approved \in BOOLEAN, reason \in Reasons :
         /\ EndApproval(g, approved, reason)
         /\ approved => \E k \in consents' : k.id = idOf[c]
  <2>1. ASSUME NEW yes \in BOOLEAN, PromptAnswered(g, yes)
        PROVE  \E approved \in BOOLEAN, reason \in Reasons :
                  /\ EndApproval(g, approved, reason)
                  /\ approved => \E k \in consents' : k.id = idOf[c]
    <3>1. EndApproval(g, yes, "tty") /\ "tty" \in Reasons
      BY <2>1 DEF PromptAnswered, Reasons
    <3>2. yes => [id |-> idOf[c], call |-> c] \in consents'
      BY <2>1 DEF PromptAnswered
    <3> QED
      BY <3>1, <3>2
  <2>2. CASE WaitDecided(g)
    <3>1. EndApproval(g, decided[idOf[c]] = "yes", "human") /\ "human" \in Reasons
      BY <2>2 DEF WaitDecided, EndWait, Reasons
    <3>2. decided[idOf[c]] = "yes" => \E k \in consents : k.id = idOf[c]
      BY <1>2 DEF DecidedByAPerson
    <3>3. consents' = consents
      BY <2>2 DEF WaitDecided, EndWait
    <3> QED
      BY <3>1, <3>2, <3>3
  <2>3. CASE WaitTimesOut(g)
    BY <2>3 DEF WaitTimesOut, EndWait, Reasons
  <2> QED
    BY <2>1, <2>2, <2>3
<1>4. /\ Stage(c)' = IF approved THEN "forward" ELSE "record"
      /\ UNCHANGED <<idOf, executed, containers, audit, answer>>
  <2>1. Goto(g, IF approved THEN "forward" ELSE "record")
        /\ UNCHANGED <<idOf, executed, containers, audit, answer>>
    BY <1>3 DEF EndApproval, AfterDecision, runVars
  <2>2. (IF approved THEN "forward" ELSE "record") \in States \ {"idle", "dead"}
    BY DEF States
  <2> QED
    BY <1>1, <2>1, <2>2, InHandCurrent
<1>5. /\ verdict'[c].decision = IF approved THEN "APPROVED" ELSE "DENIED"
      /\ verdict'[c].outcome = "none"
  BY <1>2, <1>3 DEF EndApproval, Decide, Verdict, TypeOK, CallsOK
<1>6. RecordsOf(c)' = RecordsOf(c)
  BY <1>4 DEF RecordsOf
<1>7. Lifecycle(c)'
  BY <1>2, <1>4 DEF PerCall, Lifecycle, Fresh
<1>8. approved => Cleared(c)'
  BY <1>2, <1>3, <1>4 DEF Cleared
<1>9. Gate(c)' /\ Container(c)'
  BY <1>2, <1>4, <1>8 DEF PerCall, Gate, Container, BeforeRun, Fresh
<1>10. Log(c)'
  BY <1>2, <1>4, <1>5, <1>6
     DEF PerCall, Log, Allowed, Gate, Unlogged, BeforeRun, Fresh
<1>11. Unrun(c)' /\ AnswerInLog(c)'
  BY <1>2, <1>4, <1>6 DEF PerCall, Unrun, AnswerInLog, Lifecycle, Fresh
<1> QED
  BY <1>2, <1>7, <1>9, <1>10, <1>11 DEF PerCall

LEMMA PromptFailsKeeps ==
    ASSUME TypeOK, NEW g \in Gateways, PromptFails(g),
           NEW c \in Calls, c = Current(g), PerCall(c)
    PROVE  PerCall(c)'
<1>1. InHand(g) /\ pc[g] = "prompt" /\ Goto(g, "waiting")
  BY DEF InHand, PromptFails, At
<1>2. /\ Stage(c) = "prompt" /\ Stage(c)' = "waiting"
      /\ UNCHANGED <<mode, toolOf, killed, idOf, verdict, executed, containers, audit,
                    answer, consents>>
  BY <1>1, InHandCurrent DEF PromptFails, runVars, States
<1>3. RecordsOf(c)' = RecordsOf(c)
  BY <1>2 DEF RecordsOf
<1>4. Lifecycle(c)' /\ Gate(c)' /\ Container(c)'
  BY <1>2 DEF PerCall, Lifecycle, Gate, Container, BeforeRun, Fresh
<1>5. Log(c)' /\ Unrun(c)' /\ AnswerInLog(c)'
  BY <1>2, <1>3 DEF PerCall, Log, Unrun, AnswerInLog, Unlogged, BeforeRun, Fresh
<1> QED
  BY <1>2, <1>4, <1>5 DEF PerCall

LEMMA FinishKeeps ==
    ASSUME TypeOK, NEW g \in Gateways,
           ServeList(g) \/ RejectUnknown(g) \/ WaitTorn(g) \/ ForwardFails(g),
           NEW c \in Calls, c = Current(g), PerCall(c)
    PROVE  PerCall(c)'
<1>1. InHand(g) /\ pc[g] \in {"serve", "waiting", "forward"}
  BY DEF InHand, ServeList, RejectUnknown, WaitTorn, ForwardFails, At
<1>2. PICK a \in {"tools", "unknown", "internal"} : Finish(g, a)
  BY FinishShape
<1>3. /\ Stage(c) \in {"serve", "waiting", "forward"}
      /\ Stage(c)' = "past"
      /\ UNCHANGED <<mode, toolOf, idOf, verdict, executed, containers, audit,
                    killed, consents>>
  BY <1>1, <1>2, InHandCurrent DEF Finish, approvalVars, runVars, States
<1>4. answer'[c] = a
  BY <1>2, <1>3 DEF Finish, Answer, TypeOK, CallsOK
<1> QED
  BY <1>3, <1>4, EndsFreshKeeps DEF EndsFresh, BeforeRun, Fresh


LEMMA ForwardKeeps ==
    ASSUME TypeOK, NEW g \in Gateways, Forward(g),
           NEW c \in Calls, c = Current(g), PerCall(c)
    PROVE  PerCall(c)'
<1>1. InHand(g) /\ pc[g] = "forward" /\ Goto(g, "running")
  BY DEF InHand, Forward, At
<1>2. /\ Stage(c) = "forward" /\ Stage(c)' = "running"
      /\ UNCHANGED <<mode, toolOf, killed, idOf, verdict, executed, audit,
                    answer, consents>>
      /\ containers' = containers \cup {c}
  BY <1>1, InHandCurrent DEF Forward, approvalVars, States
<1>3. RecordsOf(c)' = RecordsOf(c) /\ RecordsOf(c) = {}
  BY <1>2 DEF PerCall, Log, RecordsOf, Unlogged, BeforeRun
<1>4. Lifecycle(c)' /\ Container(c)'
  BY <1>2 DEF PerCall, Lifecycle, Container, Fresh
<1>5. Gate(c)'
  BY <1>2 DEF PerCall, Gate, Cleared, AskedAPerson, BeforeRun, Fresh
<1>6. Log(c)'
  BY <1>2, <1>3 DEF PerCall, Log, Unlogged, BeforeRun, Fresh
<1>7. Unrun(c)' /\ AnswerInLog(c)'
  BY <1>2, <1>3 DEF PerCall, Unrun, AnswerInLog, Lifecycle, Fresh
<1> QED
  BY <1>4, <1>5, <1>6, <1>7 DEF PerCall

LEMMA ContainerAnswersKeeps ==
    ASSUME TypeOK, NEW g \in Gateways, ContainerAnswers(g),
           NEW c \in Calls, c = Current(g), PerCall(c)
    PROVE  PerCall(c)'
<1>1. PICK outcome \in Outcomes, closed \in {{}, {c}} :
        /\ EndRun(g, outcome, closed, "record")
        /\ outcome = "ERROR" \/ c \in closed
  BY DEF ContainerAnswers, Answered, Broken, Outcomes
<1>2. InHand(g) /\ pc[g] = "running" /\ Goto(g, "record")
  BY <1>1 DEF InHand, EndRun, At
<1>3. /\ Stage(c) = "running" /\ Stage(c)' = "record"
      /\ UNCHANGED <<mode, toolOf, killed, idOf, executed, containers, audit, answer,
                    consents>>
      /\ released' = released \cup closed
  BY <1>1, <1>2, InHandCurrent DEF EndRun, approvalVars, States
<1>4. /\ verdict'[c].outcome = outcome
      /\ verdict'[c].decision = verdict[c].decision
  <2>1. verdict' = [verdict EXCEPT ![c].outcome = outcome]
    BY <1>1 DEF EndRun
  <2> QED
    BY <2>1 DEF TypeOK, CallsOK, Verdicts
<1>5. RecordsOf(c)' = RecordsOf(c)
  BY <1>3 DEF RecordsOf
<1>6. Lifecycle(c)' /\ Container(c)'
  BY <1>1, <1>3, <1>4 DEF PerCall, Lifecycle, Container, Fresh
<1>7. Gate(c)'
  BY <1>3 DEF PerCall, Gate, Cleared, AskedAPerson, BeforeRun, Fresh
<1>8. Log(c)'
  BY <1>3, <1>4, <1>5 DEF PerCall, Log, Allowed, Unlogged, BeforeRun, Fresh
<1>9. Unrun(c)' /\ AnswerInLog(c)'
  BY <1>1, <1>3, <1>5 DEF PerCall, Unrun, AnswerInLog
<1> QED
  BY <1>6, <1>7, <1>8, <1>9 DEF PerCall

\* The first record of a call
LEMMA FirstRecord ==
    ASSUME RunsOK, NEW c \in Calls, NEW v, RecordsOf(c) = {},
           audit' = Append(audit, [call |-> c, verdict |-> v])
    PROVE  /\ RecordsOf(c)' = {Len(audit) + 1}
           /\ audit'[Len(audit) + 1].verdict = v
<1>1. audit \in Seq([call : Calls, verdict : Verdicts])
  BY DEF RunsOK
<1>2. Len(audit) \in Nat /\ DOMAIN audit = 1 .. Len(audit)
  BY <1>1
<1>3. DOMAIN audit' = 1 .. (Len(audit) + 1)
  BY <1>1
<1>4. \A i \in 1 .. Len(audit) : audit'[i] = audit[i]
  BY <1>1
<1>5. audit'[Len(audit) + 1] = [call |-> c, verdict |-> v]
  BY <1>1
<1>6. \A i \in 1 .. Len(audit) : audit'[i].call # c
  BY <1>2, <1>4 DEF RecordsOf
<1>7. RecordsOf(c)' = {Len(audit) + 1}
  BY <1>2, <1>3, <1>5, <1>6 DEF RecordsOf
<1> QED
  BY <1>5, <1>7

LEMMA RecordKeeps ==
    ASSUME TypeOK, NEW g \in Gateways, Record(g),
           NEW c \in Calls, c = Current(g), PerCall(c)
    PROVE  PerCall(c)'
<1>1. InHand(g) /\ pc[g] = "record" /\ Goto(g, "reply")
  BY DEF InHand, Record, At
<1>2. /\ Stage(c) = "record" /\ Stage(c)' = "reply"
      /\ UNCHANGED <<mode, toolOf, killed, idOf, verdict, executed, containers,
                    released, answer, consents>>
      /\ audit' = Append(audit, [call |-> c, verdict |-> verdict[c]])
  BY <1>1, InHandCurrent DEF Record, approvalVars, runVars, States
<1>3. PICK i \in RecordsOf(c)' : RecordsOf(c)' = {i} /\ audit'[i].verdict = verdict[c]
  <2>1. RecordsOf(c) = {}
    BY <1>2 DEF PerCall, Log, Unlogged
  <2>2. RunsOK
    BY DEF TypeOK
  <2>3. audit' = Append(audit, [call |-> c, verdict |-> verdict[c]])
    BY <1>2
  <2>4. /\ RecordsOf(c)' = {Len(audit) + 1}
        /\ audit'[Len(audit) + 1].verdict = verdict[c]
    BY <2>1, <2>2, <2>3, FirstRecord
  <2> QED
    BY <2>4
<1>4. Lifecycle(c)' /\ Container(c)'
  BY <1>2 DEF PerCall, Lifecycle, Container, Fresh
<1>5. Gate(c)'
  BY <1>2 DEF PerCall, Gate, Cleared, AskedAPerson, BeforeRun, Fresh
<1>6. Log(c)'
  BY <1>2, <1>3 DEF PerCall, Log, Unlogged, BeforeRun, Fresh
<1>7. Unrun(c)' /\ AnswerInLog(c)'
  BY <1>2, <1>3 DEF PerCall, Unrun, AnswerInLog, Lifecycle, Log, Allowed
<1> QED
  BY <1>4, <1>5, <1>6, <1>7 DEF PerCall

LEMMA RecordFailsKeeps ==
    ASSUME TypeOK, NEW g \in Gateways, RecordFails(g),
           NEW c \in Calls, c = Current(g), PerCall(c)
    PROVE  PerCall(c)'
<1>1. InHand(g) /\ pc[g] = "record" /\ Goto(g, "idle")
  BY DEF InHand, RecordFails, At
<1>2. /\ Stage(c) = "record" /\ Stage(c)' = "past"
      /\ UNCHANGED <<mode, toolOf, killed, idOf, verdict, executed, containers, audit,
                    consents>>
      /\ c \in released' /\ answer'[c] = "unlogged"
  BY <1>1, InHandCurrent
     DEF RecordFails, Answer, approvalVars, States, TypeOK, CallsOK
<1>3. RecordsOf(c)' = {} /\ RecordsOf(c) = {}
  BY <1>2 DEF PerCall, Log, RecordsOf, Unlogged
<1>4. Lifecycle(c)' /\ Container(c)'
  BY <1>2 DEF PerCall, Lifecycle, Container, Fresh
<1>5. Gate(c)'
  BY <1>2 DEF PerCall, Gate, Cleared, AskedAPerson, BeforeRun, Fresh
<1>6. Log(c)' /\ Unrun(c)' /\ AnswerInLog(c)'
  BY <1>2, <1>3 DEF PerCall, Log, Unrun, AnswerInLog, Unlogged, BeforeRun, Fresh
<1> QED
  BY <1>4, <1>5, <1>6 DEF PerCall

LEMMA ReplyKeeps ==
    ASSUME TypeOK, NEW g \in Gateways, Reply(g),
           NEW c \in Calls, c = Current(g), PerCall(c)
    PROVE  PerCall(c)'
<1>1. InHand(g) /\ pc[g] = "reply" /\ Goto(g, AfterReply(verdict[c]))
  BY DEF InHand, Reply, At
<1>2. /\ Stage(c) = "reply"
      /\ Stage(c)' = IF verdict[c].outcome = "ERROR" THEN "close" ELSE "past"
      /\ UNCHANGED <<mode, toolOf, killed, idOf, verdict, executed, containers,
                    released, audit, consents>>
  <2>1. AfterReply(verdict[c]) \in States
    BY DEF AfterReply, States
  <2> QED
    BY <1>1, <2>1, InHandCurrent DEF Reply, approvalVars, runVars, AfterReply
<1>3. answer'[c] = AnswerFor(verdict[c])
  BY DEF Reply, Answer, TypeOK, CallsOK
<1>4. RecordsOf(c)' = RecordsOf(c)
  BY <1>2 DEF RecordsOf
<1>5. PICK i \in RecordsOf(c) : RecordsOf(c) = {i} /\ audit[i].verdict = verdict[c]
  BY <1>2 DEF PerCall, Log
<1>6. \/ /\ verdict[c].decision = "DENIED" /\ verdict[c].outcome = "none"
         /\ c \notin executed \cup containers
         /\ AnswerFor(verdict[c]) = "denied"
      \/ /\ verdict[c].decision # "DENIED" /\ verdict[c].outcome \in Outcomes
         /\ AnswerFor(verdict[c]) =
               IF verdict[c].outcome = "ERROR" THEN "failed" ELSE "result"
  BY <1>2 DEF PerCall, Log, Allowed, AnswerFor
<1>7. Lifecycle(c)'
  BY <1>2 DEF PerCall, Lifecycle, Fresh
<1>8. Gate(c)'
  BY <1>2 DEF PerCall, Gate, Cleared, AskedAPerson, BeforeRun, Fresh
<1>9. Log(c)' /\ Container(c)'
  BY <1>2 DEF PerCall, Log, Container, Unlogged, BeforeRun, Fresh
<1>10. Unrun(c)' /\ AnswerInLog(c)'
  BY <1>2, <1>3, <1>4, <1>5, <1>6 DEF PerCall, Unrun, AnswerInLog
<1> QED
  BY <1>7, <1>8, <1>9, <1>10 DEF PerCall

LEMMA CloseKeeps ==
    ASSUME TypeOK, NEW g \in Gateways, Close(g),
           NEW c \in Calls, c = Current(g), PerCall(c)
    PROVE  PerCall(c)'
<1>1. InHand(g) /\ pc[g] = "close" /\ Goto(g, "idle")
  BY DEF InHand, Close, At
<1>2. /\ Stage(c) = "close" /\ Stage(c)' = "past"
      /\ UNCHANGED <<mode, toolOf, killed, idOf, verdict, executed, containers, answer,
                    audit, consents>>
      /\ c \in released'
  BY <1>1, InHandCurrent DEF Close, approvalVars, States
<1>3. RecordsOf(c)' = RecordsOf(c)
  BY <1>2 DEF RecordsOf
<1>4. Lifecycle(c)' /\ Container(c)'
  BY <1>2 DEF PerCall, Lifecycle, Container, Fresh
<1>5. Gate(c)'
  BY <1>2 DEF PerCall, Gate, Cleared, AskedAPerson, BeforeRun, Fresh
<1>6. Log(c)' /\ Unrun(c)' /\ AnswerInLog(c)'
  BY <1>2, <1>3 DEF PerCall, Log, Unrun, AnswerInLog, Unlogged, BeforeRun, Fresh
<1> QED
  BY <1>4, <1>5, <1>6 DEF PerCall

-----------------------------------------------------------------------------
LEMMA PerCallStep ==
    ASSUME TypeOK, DecidedByAPerson, [Next]_vars, NEW c \in Calls, PerCall(c)
    PROVE  PerCall(c)'
<1>1. CASE UNCHANGED vars
  <2>1. Same(c) /\ mode' = mode /\ consents' = consents
    BY <1>1 DEF vars, procVars, approvalVars, runVars, Same, Stage, Live, RecordsOf
  <2> QED
    BY <2>1, SameKeeps
<1>2. ASSUME NEW g \in Gateways, InHand(g)
      PROVE  PerCall(c)'
  <2>1. CASE c # Current(g)
    BY <1>2, <2>1, OthersSame, SameKeeps, InHandFrame, ConsentsGrow DEF procVars
  <2>2. CASE c = Current(g)
    BY <1>2, <2>2, TakeIdKeeps, PromptFailsKeeps, EndApprovalKeeps, FinishKeeps,
       ForwardKeeps, ContainerAnswersKeeps, RecordKeeps, RecordFailsKeeps, ReplyKeeps,
       CloseKeeps DEF InHand
  <2> QED
    BY <2>1, <2>2
<1> QED
  BY <1>1, <1>2, OutsideKeeps, ReceiveKeeps, BuildKeeps, KillKeeps, RestartKeeps,
     NextCases


(***************************************************************************)
(* Files and approvals                                                     *)
(***************************************************************************)

\* What a step can do to the files of approve() and approve.py
LEMMA FilesCases ==
    ASSUME TypeOK, [Next]_vars
    PROVE  \/ UNCHANGED <<filed, decided, writing, consents>>
           \/ \E o \in Operators, p \in filed : OpenDecision(o, p)
           \/ \E w \in writing, yes \in BOOLEAN : WriteDecision(w, yes)
           \/ \E g \in Gateways :
                 /\ InHand(g) /\ UNCHANGED <<decided, writing>>
                 /\ \/ /\ Asks(g) /\ consents' = consents
                       /\ filed' = filed \cup
                            {[id |-> idOf'[Current(g)], call |-> Current(g)]}
                    \/ /\ \E yes \in BOOLEAN : PromptAnswered(g, yes)
                       /\ filed' = filed
                       /\ consents' = consents \cup
                            {[id |-> idOf[Current(g)], call |-> Current(g)]}
<1>1. CASE UNCHANGED vars
  BY <1>1 DEF vars, approvalVars
<1>2. CASE Outside
  BY <1>2 DEF Outside, approvalVars, RunTool, Teardown, Tick
<1>3. ASSUME NEW g \in Gateways,
             \/ \E t \in Requests : Receive(g, t)
             \/ Enumerate(g) \/ EnumerateFails(g) \/ Kill(g) \/ Restart(g)
      PROVE  UNCHANGED <<filed, decided, writing, consents>>
  BY <1>3 DEF Receive, Enumerate, EnumerateFails, Finish, Kill, Restart, approvalVars
<1>4. ASSUME NEW g \in Gateways, InHand(g)
      PROVE  \/ UNCHANGED <<filed, decided, writing, consents>>
             \/ /\ UNCHANGED <<decided, writing>>
                /\ \/ /\ Asks(g) /\ consents' = consents
                      /\ filed' = filed \cup
                           {[id |-> idOf'[Current(g)], call |-> Current(g)]}
                   \/ /\ \E yes \in BOOLEAN : PromptAnswered(g, yes)
                      /\ filed' = filed
                      /\ consents' = consents \cup
                           {[id |-> idOf[Current(g)], call |-> Current(g)]}
  <2>1. CASE UNCHANGED approvalVars
    BY <2>1 DEF approvalVars
  <2>2. CASE Asks(g)
    BY <2>2, AsksFiles DEF TypeOK
  <2>3. CASE WaitDecided(g) \/ WaitTimesOut(g)
    BY <2>3, WaitEndFiles
  <2>4. CASE \E yes \in BOOLEAN : PromptAnswered(g, yes)
    BY <2>4 DEF PromptAnswered, EndApproval
  <2> QED
    BY <1>4, <2>1, <2>2, <2>3, <2>4, FilesFrame
<1> QED
  BY <1>1, <1>2, <1>3, <1>4, NextCases

LEMMA DecidedStep ==
    ASSUME TypeOK, DecidedByAPerson, [Next]_vars
    PROVE  DecidedByAPerson'
<1>1. consents \subseteq consents'
  BY ConsentsGrow
<1>2. ASSUME NEW w \in writing, NEW yes \in BOOLEAN, WriteDecision(w, yes)
      PROVE  DecidedByAPerson'
  <2> SUFFICES ASSUME NEW i \in Ids, decided'[i] = "yes"
               PROVE  \E k \in consents' : k.id = i
    BY DEF DecidedByAPerson
  <2>1. CASE i # w.id
    BY <1>1, <1>2, <2>1 DEF WriteDecision, DecidedByAPerson, TypeOK, FilesOK
  <2>2. CASE i = w.id
    <3>1. yes
      BY <1>2, <2>2 DEF WriteDecision, TypeOK, FilesOK
    <3>2. [id |-> w.id, call |-> w.call] \in consents'
      BY <1>2, <3>1 DEF WriteDecision
    <3> QED
      BY <2>2, <3>2
  <2> QED
    BY <2>1, <2>2
<1>3. ASSUME NEW o \in Operators, NEW p \in filed, OpenDecision(o, p)
      PROVE  DecidedByAPerson'
  BY <1>1, <1>3 DEF OpenDecision, DecidedByAPerson, TypeOK, FilesOK
<1>4. CASE decided' = decided
  BY <1>1, <1>4 DEF DecidedByAPerson
<1> QED
  BY <1>2, <1>3, <1>4, FilesCases

LEMMA WritingStep ==
    ASSUME TypeOK, WritingIsFiled, [Next]_vars
    PROVE  WritingIsFiled'
<1>1. ASSUME NEW w \in writing, NEW yes \in BOOLEAN, WriteDecision(w, yes)
      PROVE  WritingIsFiled'
  BY <1>1 DEF WriteDecision, WritingIsFiled
<1>2. ASSUME NEW o \in Operators, NEW p \in filed, OpenDecision(o, p)
      PROVE  WritingIsFiled'
  BY <1>2 DEF OpenDecision, WritingIsFiled
<1>3. CASE writing' = writing /\ filed \subseteq filed'
  BY <1>3 DEF WritingIsFiled
<1> QED
  BY <1>1, <1>2, <1>3, FilesCases

\* An id once taken stays
LEMMA IdsStay ==
    ASSUME TypeOK, [Next]_vars, NEW c \in Calls, PerCall(c), idOf[c] # 0
    PROVE  idOf'[c] = idOf[c]
<1>1. CASE UNCHANGED vars \/ Outside
  BY <1>1, OutsideFrame DEF vars
<1>2. ASSUME NEW g \in Gateways,
             \/ \E t \in Requests : Receive(g, t)
             \/ Enumerate(g) \/ EnumerateFails(g) \/ Kill(g) \/ Restart(g)
      PROVE  idOf' = idOf
  BY <1>2 DEF Receive, Enumerate, EnumerateFails, Finish, Kill, Restart
<1>3. ASSUME NEW g \in Gateways, InHand(g)
      PROVE  idOf'[c] = idOf[c]
  <2>1. CASE c # Current(g)
    BY <1>3, <2>1, OthersSame DEF Same
  <2>2. CASE c = Current(g)
    <3>1. Stage(c) # "serve"
      BY DEF PerCall, Lifecycle, Fresh
    <3>2. pc[g] # "serve"
      BY <1>3, <2>2, <3>1, InHandCurrent
    <3>3. ~ (AutoCall(g) \/ GatedCall(g))
      BY <3>2 DEF AutoCall, GatedCall, ServingTool, At
    <3> QED
      BY <1>3, <3>3 DEF InHand, ContainerAnswers, PromptAnswered, EndApproval,
         Finish, ServeList, RejectUnknown, PromptFails, WaitDecided, WaitTorn,
         WaitTimesOut, EndWait, Forward, ForwardFails, Record, RecordFails, Reply,
         Close, Answered, Broken, EndRun
  <2> QED
    BY <2>1, <2>2
<1> QED
  BY <1>1, <1>2, <1>3, NextCases

LEMMA IdsNamedStep ==
    ASSUME TypeOK, \A c \in Calls : PerCall(c), WritingIsFiled,
           IdsNamed(filed \cup consents), [Next]_vars
    PROVE  IdsNamed(filed \cup consents)'
<1>0. \A f \in filed \cup consents : f.call \in Calls /\ f.id # 0 /\ idOf'[f.call] = f.id
  BY IdsStay DEF IdsNamed, TypeOK, FilesOK
<1>1. CASE UNCHANGED <<filed, consents>>
  BY <1>0, <1>1 DEF IdsNamed
<1>2. ASSUME NEW w \in writing, NEW yes \in BOOLEAN, WriteDecision(w, yes)
      PROVE  IdsNamed(filed \cup consents)'
  <2>1. /\ filed' = filed
        /\ consents' \subseteq consents \cup {[id |-> w.id, call |-> w.call]}
    BY <1>2 DEF WriteDecision
  <2>2. w.id # 0 /\ idOf'[w.call] = w.id
    BY <1>0 DEF WritingIsFiled
  <2> QED
    BY <1>0, <2>1, <2>2 DEF IdsNamed
<1>3. ASSUME NEW g \in Gateways, InHand(g), Asks(g), consents' = consents,
             filed' = filed \cup {[id |-> idOf'[Current(g)], call |-> Current(g)]}
      PROVE  IdsNamed(filed \cup consents)'
  <2>1. Current(g) \in Calls
    BY <1>3, InHandFrame, CurrentIsCall DEF TypeOK
  <2>2. idOf'[Current(g)] # 0
    <3>1. CASE GatedCall(g)
      BY <2>1, <3>1, TakeIdShape, BoundsAssumption DEF TakeId, TypeOK, CallsOK, Ids
    <3>2. CASE PromptFails(g)
      BY <1>3, <2>1, <3>2, InHandCurrent
         DEF PromptFails, At, PerCall, Lifecycle, Fresh
    <3> QED
      BY <1>3, <3>1, <3>2 DEF Asks
  <2> QED
    BY <1>0, <1>3, <2>2 DEF IdsNamed
<1>4. ASSUME NEW g \in Gateways, InHand(g), NEW yes \in BOOLEAN,
             PromptAnswered(g, yes), filed' = filed,
             consents' = consents \cup {[id |-> idOf[Current(g)], call |-> Current(g)]}
      PROVE  IdsNamed(filed \cup consents)'
  <2>1. Current(g) \in Calls
    BY <1>4, InHandFrame, CurrentIsCall DEF TypeOK
  <2>2. idOf[Current(g)] # 0 /\ idOf' = idOf
    BY <1>4, <2>1, InHandCurrent
       DEF PromptAnswered, EndApproval, At, PerCall, Lifecycle, Fresh
  <2> QED
    BY <1>0, <1>4, <2>2 DEF IdsNamed
<1> QED
  BY <1>1, <1>2, <1>3, <1>4, FilesCases DEF OpenDecision

-----------------------------------------------------------------------------
\* The invariant holds in every state of every run.
THEOREM Invariant == Spec => [](TypeOK /\ IInv)
<1>1. Init => IInv
  <2> SUFFICES ASSUME Init PROVE IInv
    OBVIOUS
  <2>1. ASSUME NEW c \in Calls PROVE PerCall(c)
    <3>1. Stage(c) = "future" /\ c \notin executed \cup containers \cup killed
          /\ idOf[c] = 0 /\ answer[c] = "none"
      BY CallParts, BoundsAssumption DEF Init, Stage
    <3>2. RecordsOf(c) = {}
      BY DEF Init, RecordsOf
    <3>3. Lifecycle(c) /\ Gate(c) /\ Container(c)
      BY <3>1 DEF Lifecycle, Gate, Container, Fresh
    <3> QED
      BY <3>1, <3>2, <3>3 DEF PerCall, Log, Unrun, AnswerInLog
  <2>2. DecidedByAPerson /\ WritingIsFiled /\ IdsNamed(filed \cup consents)
    BY DEF Init, DecidedByAPerson, WritingIsFiled, IdsNamed
  <2> QED
    BY <2>1, <2>2 DEF IInv
<1>2. TypeOK /\ IInv /\ [Next]_vars => IInv'
  <2> SUFFICES ASSUME TypeOK, IInv, [Next]_vars PROVE IInv'
    OBVIOUS
  <2>1. \A c \in Calls : PerCall(c)'
    BY PerCallStep DEF IInv
  <2>2. DecidedByAPerson' /\ WritingIsFiled'
    BY DecidedStep, WritingStep DEF IInv
  <2>3. IdsNamed(filed \cup consents)'
    BY IdsNamedStep DEF IInv
  <2>4. (\A c \in Calls : PerCall(c))'
    BY <2>1 DEF Calls
  <2> QED
    BY <2>2, <2>3, <2>4 DEF IInv
<1> QED
  BY <1>1, <1>2, TypeCorrect, PTL DEF Spec

(***************************************************************************)
(* What follows                                                            *)
(***************************************************************************)

\* No gated call ever runs without an approval filed under its id.
THEOREM ApprovalNeeded == Spec => []HighNeedsApproval
<1>1. TypeOK /\ IInv => HighNeedsApproval
  BY DEF HighNeedsApproval, IInv, PerCall, Gate, Cleared, TypeOK, RunsOK
<1> QED
  BY <1>1, Invariant, PTL

\* That approval was given for the very call, unless two calls share an id.
THEOREM ApprovalIsForTheCall == Spec => []ApprovalNamesTheCall
<1>1. TypeOK /\ IInv => ApprovalNamesTheCall
  <2> SUFFICES ASSUME TypeOK, IInv, IdsDistinct, NEW c \in executed, AskedAPerson(c)
               PROVE  [id |-> idOf[c], call |-> c] \in consents
    BY DEF ApprovalNamesTheCall, ApprovalPerCall
  <2>1. PICK k \in consents : k.id = idOf[c]
    BY DEF IInv, PerCall, Gate, Cleared, TypeOK, RunsOK
  <2>2. k \in [id : Ids \cup {0}, call : Calls]
    BY DEF TypeOK, FilesOK
  <2>3. k.id # 0 /\ idOf[k.call] = k.id
    BY DEF IInv, IdsNamed
  <2>4. k.call = c
    BY <2>1, <2>2, <2>3 DEF IdsDistinct, TypeOK, RunsOK
  <2>5. k = [id |-> idOf[c], call |-> c]
    BY <2>1, <2>2, <2>4
  <2> QED
    BY <2>5
<1> QED
  BY <1>1, Invariant, PTL

\* A denied call never runs.
THEOREM DeniedStaysDenied == Spec => []DeniedNeverRuns
<1>1. TypeOK /\ IInv => DeniedNeverRuns
  <2> SUFFICES ASSUME TypeOK, IInv, NEW c \in executed \cup containers
               PROVE  /\ answer[c] # "denied"
                      /\ \A i \in DOMAIN audit : audit[i].call = c =>
                            audit[i].verdict.decision # "DENIED"
    BY DEF DeniedNeverRuns
  <2>1. c \in Calls /\ Unrun(c)
    BY DEF IInv, PerCall, TypeOK, RunsOK
  <2> QED
    BY <2>1 DEF Unrun, RecordsOf
<1> QED
  BY <1>1, Invariant, PTL

\* The log and the answers agree.
THEOREM AuditIsTruthful == Spec => []AnswerMatchesAudit
<1>1. IInv => AnswerMatchesAudit
  BY DEF IInv, PerCall, AnswerMatchesAudit
<1> QED
  BY <1>1, Invariant, PTL

\* A tool that ran for a call that was answered is in the log, unless the log
\* could not be written.
THEOREM RunsAreAudited == Spec => []RunIsAudited
<1>1. TypeOK /\ IInv => RunIsAudited
  <2> SUFFICES ASSUME TypeOK, IInv, NEW c \in executed,
                      answer[c] \notin {"none", "unlogged"}
               PROVE  RecordsOf(c) # {}
    BY DEF RunIsAudited
  <2>1. c \in Calls /\ PerCall(c)
    BY DEF IInv, TypeOK, RunsOK
  <2>2. answer[c] \in {"denied", "failed", "result"}
    BY <2>1 DEF PerCall, Unrun, TypeOK, CallsOK, Answers
  <2> QED
    BY <2>1, <2>2 DEF PerCall, AnswerInLog
<1> QED
  BY <1>1, Invariant, PTL

\* No process keeps the stdin of a container open but that of the request it has
\* in hand.
THEOREM NothingIsHeld == Spec => []NothingHeld
<1>1. TypeOK /\ IInv => NothingHeld
  <2> SUFFICES ASSUME TypeOK, IInv, NEW c \in containers \ released
               PROVE  Live(c)
    BY DEF NothingHeld
  <2>1. c \in Calls /\ Container(c)
    BY DEF IInv, PerCall, TypeOK, RunsOK
  <2> QED
    BY <2>1 DEF Container, Stage
<1> QED
  BY <1>1, Invariant, PTL

LEMMA AnswersStay ==
    ASSUME TypeOK, \A c \in Calls : PerCall(c), [Next]_vars,
           NEW c \in Calls, answer[c] # "none"
    PROVE  answer'[c] = answer[c]
<1>1. CASE UNCHANGED vars \/ Outside
  BY <1>1, OutsideFrame DEF vars
<1>2. ASSUME NEW g \in Gateways,
             \/ \E t \in Requests : Receive(g, t)
             \/ Enumerate(g) \/ Kill(g) \/ Restart(g)
      PROVE  answer' = answer
  BY <1>2 DEF Receive, Enumerate, Kill, Restart
<1>3. ASSUME NEW g \in Gateways, EnumerateFails(g)
      PROVE  answer'[c] = answer[c]
  <2>1. Current(g) \in Calls /\ Stage(Current(g)) = "build"
    BY <1>3, CurrentIsCall, StageOfCurrent DEF EnumerateFails, At, TypeOK
  <2>2. c # Current(g)
    BY <2>1 DEF PerCall, Lifecycle
  <2> QED
    BY <1>3, <2>2 DEF EnumerateFails, Finish, Answer, TypeOK, CallsOK
<1>4. ASSUME NEW g \in Gateways, InHand(g)
      PROVE  answer'[c] = answer[c]
  <2>1. CASE c # Current(g)
    BY <1>4, <2>1, OthersSame DEF Same
  <2>2. CASE c = Current(g)
    <3>1. Stage(c) = "close" /\ pc[g] = "close"
      BY <1>4, <2>2, InHandCurrent, InHandFrame
         DEF PerCall, Lifecycle, TypeOK, ProcessesOK, States
    <3> QED
      BY <1>4, <3>1 DEF InHand, ContainerAnswers, PromptAnswered, EndApproval,
         ServeList, RejectUnknown, AutoCall, GatedCall, ServingTool, WaitDecided,
         PromptFails, WaitTorn, WaitTimesOut, Forward, ForwardFails, Record,
         RecordFails, Reply, Close, Answered, Broken, EndRun, At
  <2> QED
    BY <2>1, <2>2
<1> QED
  BY <1>1, <1>2, <1>3, <1>4, NextCases

\* Nothing is answered twice.
THEOREM AnswersAreFinal == Spec => AnswerIsFinal
<1>1. TypeOK /\ IInv /\ [Next]_vars =>
         [\A c \in Calls : answer[c] # "none" => answer'[c] = answer[c]]_vars
  BY AnswersStay DEF IInv
<1> QED
  BY <1>1, Invariant, PTL DEF Spec, AnswerIsFinal

(***************************************************************************)
(* The request files: which call's file is there, and which calls wait     *)
(***************************************************************************)

\* A file's call waits, or its wait was cut short
FileIsWaitedFor ==
    \A f \in pending : \/ Stage(f.call) = "waiting"
                       \/ answer[f.call] = "internal"
                       \/ f.call \in killed

\* A waiting call can be decided, unless it shares its id
FileOf(c) == [id |-> idOf[c], call |-> c]
WaitingIsFiled ==
    IdsDistinct => \A c \in Calls : Stage(c) = "waiting" => FileOf(c) \in pending

EndsWait(g) == WaitDecided(g) \/ WaitTimesOut(g)

LEMMA PendingCases ==
    ASSUME TypeOK, [Next]_vars
    PROVE  \/ pending' = pending
           \/ \E g \in Gateways :
                 /\ InHand(g) /\ Asks(g)
                 /\ pending' = WithoutId(pending, idOf'[Current(g)]) \cup
                                  {[id |-> idOf'[Current(g)], call |-> Current(g)]}
           \/ \E g \in Gateways :
                 /\ InHand(g) /\ EndsWait(g)
                 /\ pending' = WithoutId(pending, idOf[Current(g)])
<1>1. CASE UNCHANGED vars
  BY <1>1 DEF vars, approvalVars
<1>2. CASE Outside
  BY <1>2 DEF Outside, OpenDecision, WriteDecision, RunTool, Teardown, Tick, approvalVars
<1>3. ASSUME NEW g \in Gateways,
             \/ \E t \in Requests : Receive(g, t)
             \/ Enumerate(g) \/ EnumerateFails(g) \/ Kill(g) \/ Restart(g)
      PROVE  pending' = pending
  BY <1>3 DEF Receive, Enumerate, EnumerateFails, Finish, Kill, Restart, approvalVars
<1>4. ASSUME NEW g \in Gateways, InHand(g)
      PROVE  \/ pending' = pending
             \/ /\ Asks(g)
                /\ pending' = WithoutId(pending, idOf'[Current(g)]) \cup
                                 {[id |-> idOf'[Current(g)], call |-> Current(g)]}
             \/ EndsWait(g) /\ pending' = WithoutId(pending, idOf[Current(g)])
  <2>1. CASE UNCHANGED approvalVars
    BY <2>1 DEF approvalVars
  <2>2. CASE Asks(g)
    BY <2>2, AsksFiles DEF TypeOK
  <2>3. CASE WaitDecided(g) \/ WaitTimesOut(g)
    BY <2>3, WaitEndFiles DEF EndsWait
  <2>4. CASE \E yes \in BOOLEAN : PromptAnswered(g, yes)
    BY <2>4 DEF PromptAnswered
  <2> QED
    BY <1>4, <2>1, <2>2, <2>3, <2>4, FilesFrame
<1> QED
  BY <1>1, <1>2, <1>3, <1>4, NextCases

\* How a call comes to wait, and how its wait ends
LEMMA WaitMoves ==
    ASSUME TypeOK, [Next]_vars, NEW c \in Calls, PerCall(c)
    PROVE  /\ Stage(c) = "waiting" =>
                 \/ Stage(c)' = "waiting" \/ answer'[c] = "internal" \/ c \in killed'
                 \/ \E g \in Gateways : c = Current(g) /\ EndsWait(g)
           /\ Stage(c)' = "waiting" =>
                 \/ Stage(c) = "waiting"
                 \/ \E g \in Gateways : /\ c = Current(g) /\ Asks(g)
                                        /\ FileOf(c)' \in pending'
<1>1. CASE UNCHANGED vars \/ Outside
  <2>1. UNCHANGED <<count, pc>>
    BY <1>1, OutsideFrame DEF vars, procVars
  <2> QED
    BY <2>1 DEF Stage, Live
<1>2. ASSUME NEW g \in Gateways, NEW t \in Requests, Receive(g, t)
      PROVE  Stage(c) = "waiting" <=> Stage(c)' = "waiting"
  <2>1. /\ pc[g] = "idle" /\ count'[g] = count[g] + 1 /\ pc'[g] \in {"build", "serve"}
        /\ count[g] \in Nat
    BY <1>2 DEF Receive, Goto, At, TypeOK, ProcessesOK
  <2>2. CASE c[1] = g
    BY <2>1, <2>2 DEF Stage, Live
  <2>3. CASE c[1] # g
    <3>1. pc'[c[1]] = pc[c[1]] /\ count'[c[1]] = count[c[1]]
      BY <1>2, <2>3, CallParts DEF Receive, Goto, TypeOK, ProcessesOK
    <3> QED
      BY <3>1 DEF Stage, Live
  <2> QED
    BY <2>2, <2>3
<1>3. ASSUME NEW g \in Gateways, Enumerate(g) \/ EnumerateFails(g)
      PROVE  Stage(c) = "waiting" <=> Stage(c)' = "waiting"
  <2>1. pc[g] = "build" /\ count' = count
    BY <1>3 DEF Enumerate, EnumerateFails, Finish, At
  <2>2. PICK s \in {"build", "serve", "idle"} : Goto(g, s)
    BY <1>3 DEF Enumerate, EnumerateFails, Finish
  <2>3. Stage(Current(g)) = "build"
    BY <2>1, StageOfCurrent DEF TypeOK
  <2> QED
    BY <2>1, <2>2, <2>3, StageMoves DEF TypeOK, States
<1>4. ASSUME NEW g \in Gateways, Kill(g)
      PROVE  /\ Stage(c) = "waiting" => Stage(c)' = "waiting" \/ c \in killed'
             /\ Stage(c)' = "waiting" => Stage(c) = "waiting"
  <2>1. Goto(g, "dead") /\ count' = count
    BY <1>4 DEF Kill, procVars
  <2>2. CASE pc[g] \in {"idle", "dead"}
    BY <2>1, <2>2, CallParts DEF Stage, Live, Goto, TypeOK, ProcessesOK
  <2>3. CASE pc[g] \notin {"idle", "dead"}
    <3>1. /\ c # Current(g) => Stage(c)' = Stage(c)
          /\ c = Current(g) => Stage(c)' = "past"
      BY <2>1, <2>3, StageMoves DEF TypeOK, States
    <3>2. c = Current(g) => c \in killed'
      BY <1>4, <2>3 DEF Kill, At
    <3> QED
      BY <3>1, <3>2
  <2> QED
    BY <2>2, <2>3
<1>5. ASSUME NEW g \in Gateways, Restart(g)
      PROVE  Stage(c)' = Stage(c)
  <2>1. Goto(g, "idle") /\ pc[g] = "dead" /\ count' = count
    BY <1>5 DEF Restart, At
  <2> QED
    BY <2>1, CallParts DEF Stage, Live, Goto, TypeOK, ProcessesOK
<1>6. ASSUME NEW g \in Gateways, InHand(g), c # Current(g)
      PROVE  Stage(c)' = Stage(c)
  BY <1>6, OthersSame DEF Same
<1>7. ASSUME NEW g \in Gateways, InHand(g), c = Current(g), Stage(c) = "waiting"
      PROVE  EndsWait(g) \/ answer'[c] = "internal"
  <2>1. pc[g] = "waiting"
    BY <1>7, InHandCurrent
  <2>2. EndsWait(g) \/ WaitTorn(g)
    BY <1>7, <2>1 DEF InHand, PromptAnswered, PromptFails, ServeList, RejectUnknown,
       AutoCall, GatedCall, ServingTool, Forward, ForwardFails, ContainerAnswers,
       Answered, Broken, EndRun, Record, RecordFails, Reply, Close, At, EndsWait
  <2>3. WaitTorn(g) => answer'[c] = "internal"
    BY <1>7 DEF WaitTorn, Finish, Answer, TypeOK, CallsOK
  <2> QED
    BY <2>2, <2>3
<1>8. ASSUME NEW g \in Gateways, InHand(g), c = Current(g), Stage(c)' = "waiting"
      PROVE  Asks(g) /\ FileOf(c)' \in pending'
  <2>1. pc'[g] = "waiting" /\ pc[g] \in States
    <3>1. PICK s \in States : Goto(g, s)
      BY <1>8, InHandFrame
    <3>2. s = "waiting"
      BY <1>8, <3>1, InHandCurrent
    <3> QED
      BY <3>1, <3>2 DEF Goto, TypeOK, ProcessesOK
  <2>2. Asks(g)
    BY <1>8, <2>1 DEF InHand, PromptAnswered, ServeList, RejectUnknown, AutoCall,
       TakeId, WaitDecided, WaitTorn, WaitTimesOut, EndWait, EndApproval, AfterDecision,
       Forward, ForwardFails, ContainerAnswers, Answered, Broken, EndRun, Record,
       RecordFails, Reply, Close, Finish, AfterReply, Goto, Asks, TypeOK, ProcessesOK
  <2>3. CASE GatedCall(g)
    <3>1. idOf'[c] = clock
      BY <1>8, <2>3, TakeIdShape DEF TakeId, TypeOK, CallsOK
    <3>2. File(g, clock)
      BY <2>1, <2>3 DEF GatedCall, TakeId, Goto, TypeOK, ProcessesOK
    <3> QED
      BY <1>8, <2>2, <3>1, <3>2 DEF File, FileOf
  <2>4. CASE PromptFails(g)
    BY <1>8, <2>2, <2>4 DEF PromptFails, File, FileOf
  <2> QED
    BY <2>2, <2>3, <2>4 DEF Asks
<1> QED
  BY <1>1, <1>2, <1>3, <1>4, <1>5, <1>6, <1>7, <1>8, NextCases

LEMMA KilledStay == [Next]_vars => killed \subseteq killed'
<1> SUFFICES ASSUME [Next]_vars PROVE killed \subseteq killed'
  OBVIOUS
<1>1. CASE UNCHANGED vars \/ Outside
  BY <1>1, OutsideFrame DEF vars
<1>2. ASSUME NEW g \in Gateways,
             \/ \E t \in Requests : Receive(g, t)
             \/ Enumerate(g) \/ EnumerateFails(g) \/ Kill(g) \/ Restart(g)
      PROVE  killed \subseteq killed'
  BY <1>2 DEF Receive, Enumerate, EnumerateFails, Finish, Kill, Restart
<1> QED
  BY <1>1, <1>2, InHandFrame, NextCases

LEMMA FileIsWaitedForStep ==
    ASSUME TypeOK, IInv, FileIsWaitedFor, [Next]_vars
    PROVE  FileIsWaitedFor'
<1> SUFFICES ASSUME NEW f \in pending'
             PROVE  \/ Stage(f.call)' = "waiting" \/ answer'[f.call] = "internal"
                    \/ f.call \in killed'
  BY DEF FileIsWaitedFor
<1>1. CASE f \in pending
  <2>1. /\ f.call \in Calls /\ PerCall(f.call) /\ idOf[f.call] = f.id
        /\ answer[f.call] = "internal" => answer'[f.call] = "internal"
    BY <1>1, AnswersStay DEF IInv, IdsNamed, TypeOK, FilesOK
  <2>2. ASSUME NEW g \in Gateways, f.call = Current(g), EndsWait(g)
        PROVE  FALSE
    <3>1. pending' = WithoutId(pending, idOf[Current(g)])
      BY <2>2, WaitEndFiles DEF EndsWait
    <3> QED
      BY <2>1, <2>2, <3>1 DEF WithoutId
  <2>3. \/ Stage(f.call) = "waiting" \/ answer[f.call] = "internal" \/ f.call \in killed
    BY <1>1 DEF FileIsWaitedFor
  <2> QED
    BY <2>1, <2>2, <2>3, WaitMoves, KilledStay
<1>2. CASE f \notin pending
  <2>1. PICK g \in Gateways :
           /\ InHand(g) /\ Asks(g) /\ f.call = Current(g)
           /\ pending' # pending
    BY <1>2, PendingCases DEF WithoutId
  <2>2. f.call = Current(g) /\ f.call \in Calls
    BY <2>1, InHandFrame, CurrentIsCall DEF TypeOK
  <2>3. Goto(g, "waiting")
    BY <2>1 DEF Asks, GatedCall, TakeId, PromptFails
  <2>4. Stage(f.call)' = "waiting"
    BY <2>1, <2>2, <2>3, InHandCurrent DEF States
  <2> QED
    BY <2>1, <2>4
<1> QED
  BY <1>1, <1>2

LEMMA WaitingIsFiledStep ==
    ASSUME TypeOK, IInv, WaitingIsFiled, [Next]_vars
    PROVE  WaitingIsFiled'
<1> SUFFICES ASSUME IdsDistinct', NEW c \in Calls, Stage(c)' = "waiting"
             PROVE  FileOf(c)' \in pending'
  BY DEF WaitingIsFiled
<1>1. PerCall(c) /\ \A d \in Calls : PerCall(d)
  BY DEF IInv
<1>2. CASE \E g \in Gateways : /\ c = Current(g) /\ Asks(g)
                               /\ FileOf(c)' \in pending'
  BY <1>2
<1>3. CASE Stage(c) = "waiting"
  <2>1. \A d \in Calls : idOf[d] # 0 => idOf'[d] = idOf[d]
    BY <1>1, IdsStay
  <2>2. IdsDistinct
    BY <2>1 DEF IdsDistinct
  <2>3. idOf[c] # 0 /\ idOf'[c] = idOf[c] /\ FileOf(c) \in pending
    BY <1>1, <1>3, <2>1, <2>2 DEF PerCall, Lifecycle, Fresh, WaitingIsFiled
  <2>4. FileOf(c)' = FileOf(c)
    BY <2>3 DEF FileOf
  <2>5. ASSUME NEW g \in Gateways, InHand(g), c = Current(g) PROVE FALSE
    <3>1. PICK s \in States \ {"build", "serve", "dead"} : Goto(g, s)
      BY <2>5, InHandFrame
    <3>2. pc[g] = "waiting" /\ s = "waiting"
      BY <1>3, <2>5, <3>1, InHandCurrent
    <3>3. pc'[g] = "waiting"
      BY <3>1, <3>2 DEF Goto, TypeOK, ProcessesOK
    <3> QED
      BY <2>5, <3>2, <3>3 DEF InHand, PromptAnswered, ServeList, RejectUnknown, AutoCall,
         GatedCall, ServingTool, PromptFails, WaitDecided, WaitTorn, WaitTimesOut,
         EndWait, EndApproval, AfterDecision, Forward, ForwardFails, ContainerAnswers,
         Answered, Broken, EndRun, Record, RecordFails, Reply, Close, Finish, Goto, At,
         TypeOK, ProcessesOK
  <2>6. ASSUME NEW g \in Gateways, InHand(g)
        PROVE  idOf'[Current(g)] # idOf[c]
    <3>1. Current(g) \in Calls /\ c # Current(g)
      BY <2>5, <2>6, InHandFrame, CurrentIsCall DEF TypeOK
    <3> QED
      BY <2>3, <3>1 DEF IdsDistinct
  <2>7. ASSUME NEW g \in Gateways, InHand(g)
        PROVE  idOf[Current(g)] # idOf[c]
    <3>1. Current(g) \in Calls /\ c # Current(g)
      BY <2>5, <2>7, InHandFrame, CurrentIsCall DEF TypeOK
    <3> QED
      BY <2>2, <2>3, <3>1 DEF IdsDistinct
  <2>8. CASE pending' = pending
    BY <2>3, <2>4, <2>8
  <2>9. CASE pending' # pending
    <3>1. PICK i : i # idOf[c] /\ WithoutId(pending, i) \subseteq pending'
      BY <2>6, <2>7, <2>9, PendingCases
    <3>2. FileOf(c).id = idOf[c]
      BY DEF FileOf
    <3> QED
      BY <2>3, <2>4, <3>1, <3>2 DEF WithoutId
  <2> QED
    BY <2>8, <2>9
<1> QED
  BY <1>1, <1>2, <1>3, WaitMoves

\* A request file is that of a call that waits, unless its wait was cut short;
\* and a waiting call's file is there, unless ids collided (approve).
THEOREM RequestsAreWaitedFor == Spec => []PendingIsWaiting
<1>1. Init => FileIsWaitedFor /\ WaitingIsFiled
  <2> SUFFICES ASSUME Init PROVE FileIsWaitedFor /\ WaitingIsFiled
    OBVIOUS
  <2>1. FileIsWaitedFor
    BY DEF Init, FileIsWaitedFor
  <2>2. \A c \in Calls : Stage(c) # "waiting"
    BY CallParts DEF Init, Stage, Live
  <2> QED
    BY <2>1, <2>2 DEF WaitingIsFiled
<1>2. /\ TypeOK /\ IInv /\ FileIsWaitedFor /\ WaitingIsFiled /\ [Next]_vars
      => FileIsWaitedFor' /\ WaitingIsFiled'
  BY FileIsWaitedForStep, WaitingIsFiledStep
<1>3. TypeOK /\ FileIsWaitedFor /\ WaitingIsFiled => PendingIsWaiting
  <2> SUFFICES ASSUME TypeOK, FileIsWaitedFor, WaitingIsFiled PROVE PendingIsWaiting
    OBVIOUS
  <2>1. ASSUME NEW p \in pending, Stage(p.call) = "waiting"
        PROVE  Live(p.call) /\ pc[p.call[1]] = "waiting"
    BY <2>1 DEF Stage
  <2>2. ASSUME NEW g \in Gateways, At(g, "waiting")
        PROVE  Current(g) \in Calls /\ Stage(Current(g)) = "waiting"
    BY <2>2, CurrentIsCall, StageOfCurrent DEF At, TypeOK
  <2>3. \A p \in pending : \/ Live(p.call) /\ pc[p.call[1]] = "waiting"
                           \/ answer[p.call] = "internal" \/ p.call \in killed
    BY <2>1 DEF FileIsWaitedFor
  <2>4. IdsDistinct => \A g \in Gateways : At(g, "waiting") =>
            [id |-> idOf[Current(g)], call |-> Current(g)] \in pending
    BY <2>2 DEF WaitingIsFiled, FileOf
  <2> QED
    BY <2>3, <2>4 DEF PendingIsWaiting
<1> QED
  BY <1>1, <1>2, <1>3, Invariant, PTL DEF Spec

=============================================================================
