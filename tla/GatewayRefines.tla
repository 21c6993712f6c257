--------------------------- MODULE GatewayRefines ---------------------------
(***************************************************************************)
(* Gateway implements ToolGate: its initial states are initial states of   *)
(* the abstract gate, and each of its steps is a step of the gate or       *)
(* changes nothing the gate knows of.                                      *)
(***************************************************************************)
EXTENDS GatewaySafety

(***************************************************************************)
(* What the inductive invariant of GatewaySafety does not say: a call is   *)
(* ruled on exactly when its wait is over, and only an allowed one has a   *)
(* container.                                                              *)
(***************************************************************************)

Undecided == Fresh \cup {"prompt", "waiting"}

Ruled(c) ==
    /\ Stage(c) \in Undecided => Ruling(verdict[c]) = "open"
    /\ c \in executed \cup containers => Ruling(verdict[c]) = "allowed"

LEMMA AllowedRuling ==
    ASSUME NEW v
    PROVE  /\ Allowed(v) => Ruling(v) = "allowed"
           /\ v.decision = "DENIED" => Ruling(v) = "refused"
  BY DEF Allowed, Ruling

\* An id is taken with the ruling its next stage stands for.
LEMMA TakeIdRuling ==
    ASSUME NEW g \in Gateways, AutoCall(g) \/ GatedCall(g)
    PROVE  \E v \in Verdicts, next \in {"forward", "record", "prompt", "waiting"} :
              /\ TakeId(g, v, next)
              /\ Ruling(v) = CASE next = "forward" -> "allowed"
                               [] next = "record" -> "refused"
                               [] OTHER -> "open"
<1>1. /\ Verdict("AUTO", "none", "none") \in Verdicts
      /\ Verdict("APPROVED", "auto_approve", "none") \in Verdicts
      /\ Verdict("DENIED", "auto_deny", "none") \in Verdicts
      /\ NoVerdict \in Verdicts
  BY DEF Verdict, Verdicts, NoVerdict
<1>2. /\ Ruling(Verdict("AUTO", "none", "none")) = "allowed"
      /\ Ruling(Verdict("APPROVED", "auto_approve", "none")) = "allowed"
      /\ Ruling(Verdict("DENIED", "auto_deny", "none")) = "refused"
      /\ Ruling(NoVerdict) = "open"
  BY DEF Ruling, Verdict, NoVerdict
<1> QED
  BY <1>1, <1>2 DEF AutoCall, GatedCall

\* What a step does to the verdict of the call in hand
LEMMA VerdictCases ==
    ASSUME TypeOK, NEW g \in Gateways, InHand(g), NEW c \in Calls, c = Current(g)
    PROVE  \/ verdict'[c] = verdict[c] /\ Stage(c)' \notin Undecided
           \/ /\ verdict'[c] = verdict[c] /\ Stage(c) = "prompt"
              /\ Stage(c)' = "waiting"
           \/ /\ Stage(c) = "running" /\ Stage(c)' = "record"
              /\ verdict'[c].decision = verdict[c].decision
           \/ /\ Stage(c) \in {"serve", "prompt", "waiting"}
              /\ Stage(c)' \in {"forward", "record", "prompt", "waiting"}
              /\ Ruling(verdict'[c]) = CASE Stage(c)' = "forward" -> "allowed"
                                         [] Stage(c)' = "record" -> "refused"
                                         [] OTHER -> "open"
<1>1. CASE AutoCall(g) \/ GatedCall(g)
  <2>1. PICK v \in Verdicts, next \in {"forward", "record", "prompt", "waiting"} :
              /\ TakeId(g, v, next)
              /\ Ruling(v) = CASE next = "forward" -> "allowed"
                               [] next = "record" -> "refused"
                               [] OTHER -> "open"
    BY <1>1, TakeIdRuling
  <2>2. verdict'[c] = v
    BY <2>1 DEF TakeId, Decide, TypeOK, CallsOK
  <2>3. Stage(c) = "serve"
    BY <1>1, TakeIdShape, InHandCurrent DEF ServingTool, At
  <2>4. Stage(c)' = next
    BY <2>1, InHandCurrent DEF TakeId, States
  <2> QED
    BY <2>1, <2>2, <2>3, <2>4
<1>2. CASE \/ \E yes \in BOOLEAN : PromptAnswered(g, yes)
           \/ WaitDecided(g) \/ WaitTimesOut(g)
  <2>1. PICK approved \in BOOLEAN, reason \in Reasons :
               EndApproval(g, approved, reason)
    BY <1>2, EndApprovalShape
  <2>2. verdict'[c] = Verdict(IF approved THEN "APPROVED" ELSE "DENIED", reason,
                              "none")
    BY <2>1 DEF EndApproval, Decide, TypeOK, CallsOK
  <2>3. Ruling(verdict'[c]) = IF approved THEN "allowed" ELSE "refused"
    BY <2>2 DEF Ruling, Verdict
  <2>4. Stage(c) \in {"prompt", "waiting"}
    BY <1>2, InHandCurrent DEF PromptAnswered, WaitDecided, WaitTimesOut, At
  <2>5. Goto(g, IF approved THEN "forward" ELSE "record")
    BY <2>1 DEF EndApproval, AfterDecision
  <2>6. Stage(c)' = IF approved THEN "forward" ELSE "record"
    <3>1. (IF approved THEN "forward" ELSE "record") \in States \ {"idle", "dead"}
      BY DEF States
    <3> QED
      BY <2>5, <3>1, InHandCurrent
  <2> QED
    BY <2>3, <2>4, <2>6
<1>3. CASE ContainerAnswers(g)
  <2>1. PICK outcome \in Outcomes :
               \/ EndRun(g, outcome, {}, "record")
               \/ EndRun(g, outcome, {Current(g)}, "record")
    BY <1>3, EndRunShape
  <2>2. /\ verdict' = [verdict EXCEPT ![c].outcome = outcome]
        /\ pc[g] = "running" /\ Goto(g, "record")
    BY <2>1 DEF EndRun, At
  <2>3. verdict'[c].decision = verdict[c].decision
    BY <2>2 DEF TypeOK, CallsOK, Verdicts
  <2> QED
    BY <2>2, <2>3, InHandCurrent DEF States
<1>4. CASE \/ ServeList(g) \/ RejectUnknown(g) \/ WaitTorn(g) \/ ForwardFails(g)
           \/ Forward(g) \/ Record(g) \/ RecordFails(g) \/ Reply(g) \/ Close(g)
  <2>1. verdict' = verdict
    BY <1>4, FinishShape DEF Finish, Forward, Record, RecordFails, Reply, Close
  <2>2. PICK s \in {"idle", "running", "reply", "close"} : Goto(g, s)
    BY <1>4, FinishShape
       DEF Finish, Forward, Record, RecordFails, Reply, Close, AfterReply
  <2> QED
    BY <2>1, <2>2, InHandCurrent DEF States, Undecided, Fresh
<1>5. CASE PromptFails(g)
  <2>1. verdict' = verdict /\ pc[g] = "prompt" /\ Goto(g, "waiting")
    BY <1>5 DEF PromptFails, At
  <2> QED
    BY <2>1, InHandCurrent DEF States
<1> QED
  BY <1>1, <1>2, <1>3, <1>4, <1>5 DEF InHand

\* A step outside handle_call and approve moves no call back before its ruling.
LEMMA UndecidedBefore ==
    ASSUME TypeOK, NEW g \in Gateways,
           \/ \E t \in Requests : Receive(g, t)
           \/ Enumerate(g) \/ EnumerateFails(g) \/ Kill(g) \/ Restart(g),
           NEW c \in Calls, Stage(c)' \in Undecided
    PROVE  Stage(c) \in Undecided
<1>0. c[2] \in Nat /\ c[1] \in Gateways /\ \A h \in Gateways : count[h] \in Nat
  BY CallParts, BoundsAssumption DEF TypeOK, ProcessesOK
<1>1. ASSUME NEW t \in Requests, Receive(g, t)
      PROVE  Stage(c) \in Undecided
  <2>1. /\ pc[g] = "idle" /\ count' = [count EXCEPT ![g] = @ + 1]
        /\ \E s \in {"build", "serve"} : pc' = [pc EXCEPT ![g] = s]
    BY <1>1 DEF Receive, At, Goto
  <2>2. CASE c[1] # g
    BY <1>0, <2>1, <2>2 DEF Stage, Live, TypeOK, ProcessesOK
  <2>3. CASE c[1] = g
    <3>1. count'[g] = count[g] + 1 /\ pc'[g] \in {"build", "serve"}
      BY <2>1 DEF TypeOK, ProcessesOK
    <3>2. c[2] > count[g]
      BY <1>0, <2>3, <3>1 DEF Stage, Live, Undecided, Fresh
    <3> QED
      BY <2>3, <3>2 DEF Stage, Undecided, Fresh
  <2> QED
    BY <2>2, <2>3
<1>2. CASE Enumerate(g) \/ EnumerateFails(g)
  <2>1. PICK s \in {"build", "serve", "idle"} : Goto(g, s) /\ count' = count
    BY <1>2 DEF Enumerate, EnumerateFails, Finish
  <2>2. pc[g] = "build"
    BY <1>2 DEF Enumerate, EnumerateFails, At
  <2>3. Stage(Current(g)) \in Undecided
    BY <2>2, StageOfCurrent DEF TypeOK, Undecided, Fresh
  <2>4. c # Current(g) => Stage(c)' = Stage(c)
    BY <2>1, <2>2, StageMoves DEF TypeOK, States
  <2> QED
    BY <2>3, <2>4
<1>3. CASE Kill(g) \/ Restart(g)
  <2>1. /\ count' = count
        /\ \E s \in {"idle", "dead"} : pc' = [pc EXCEPT ![g] = s]
    BY <1>3 DEF Kill, Restart, procVars, Goto
  <2>2. pc'[c[1]] = pc[c[1]] \/ pc'[c[1]] \in {"idle", "dead"}
    BY <1>0, <2>1 DEF TypeOK, ProcessesOK
  <2> QED
    BY <2>1, <2>2 DEF Stage, Live, Undecided, Fresh
<1> QED
  BY <1>1, <1>2, <1>3

LEMMA RuledStep ==
    ASSUME TypeOK, [Next]_vars, NEW c \in Calls, PerCall(c), Ruled(c)
    PROVE  Ruled(c)'
<1>1. CASE UNCHANGED vars
  BY <1>1 DEF vars, procVars, runVars, Ruled, Stage, Live
<1>2. CASE Outside
  <2>1. Stage(c)' = Stage(c) /\ verdict' = verdict
    BY <1>2, OutsideFrame DEF procVars, Stage, Live
  <2>2. executed' \cup containers' \subseteq executed \cup containers
    BY <1>2 DEF Outside, OpenDecision, WriteDecision, RunTool, Teardown, Tick,
                runVars
  <2> QED
    BY <2>1, <2>2 DEF Ruled
<1>3. ASSUME NEW g \in Gateways,
             \/ \E t \in Requests : Receive(g, t)
             \/ Enumerate(g) \/ EnumerateFails(g) \/ Kill(g) \/ Restart(g)
      PROVE  Ruled(c)'
  <2>1. UNCHANGED <<verdict, executed, containers>>
    BY <1>3 DEF Receive, Enumerate, EnumerateFails, Finish, Kill, Restart, runVars
  <2> QED
    BY <1>3, <2>1, UndecidedBefore DEF Ruled
<1>4. ASSUME NEW g \in Gateways, InHand(g)
      PROVE  Ruled(c)'
  <2>1. CASE c # Current(g)
    BY <1>4, <2>1, OthersSame DEF Same, Ruled
  <2>2. CASE c = Current(g) /\ Forward(g)
    <3>1. Stage(c) = "forward" /\ Stage(c)' = "running" /\ verdict' = verdict
      BY <1>4, <2>2, InHandCurrent DEF Forward, At, States
    <3>2. Ruling(verdict[c]) = "allowed"
      BY <3>1, AllowedRuling DEF PerCall, Log
    <3> QED
      BY <3>1, <3>2 DEF Ruled, Undecided, Fresh
  <2>3. CASE c = Current(g) /\ ~Forward(g)
    <3>1. c \in executed' \cup containers' => c \in executed \cup containers
      BY <1>4, <2>3, RunsFrame
    <3>2. CASE verdict'[c] = verdict[c] /\ (Stage(c)' \in Undecided => Stage(c) = "prompt")
      BY <3>1, <3>2 DEF Ruled, Undecided
    <3>3. CASE Stage(c)' = "record" /\ verdict'[c].decision = verdict[c].decision
      BY <3>1, <3>3 DEF Ruled, Ruling, Undecided, Fresh
    <3>4. CASE /\ Stage(c) \in {"serve", "prompt", "waiting"}
               /\ Stage(c)' \in {"forward", "record", "prompt", "waiting"}
               /\ Ruling(verdict'[c]) = CASE Stage(c)' = "forward" -> "allowed"
                                          [] Stage(c)' = "record" -> "refused"
                                          [] OTHER -> "open"
      <4>1. c \notin executed' \cup containers'
        BY <3>1, <3>4 DEF PerCall, Gate, BeforeRun, Fresh
      <4> QED
        BY <3>4, <4>1 DEF Ruled, Undecided, Fresh
    <3> QED
      BY <1>4, <2>3, <3>2, <3>3, <3>4, VerdictCases
  <2> QED
    BY <2>1, <2>2, <2>3
<1> QED
  BY <1>1, <1>2, <1>3, <1>4, NextCases

\* A call is ruled on when its wait is over; only what is allowed can run.
THEOREM RulingsHold == Spec => [](\A c \in Calls : Ruled(c))
<1> DEFINE AllRuled == \A c \in Calls : Ruled(c)
<1>1. Init => AllRuled
  BY DEF Init, Ruled, Ruling, NoVerdict, Verdict
<1>2. TypeOK /\ IInv /\ AllRuled /\ [Next]_vars => AllRuled'
  <2> SUFFICES ASSUME TypeOK, IInv, AllRuled, [Next]_vars PROVE AllRuled'
    OBVIOUS
  <2>1. \A c \in Calls : Ruled(c)'
    BY RuledStep DEF IInv
  <2> QED
    BY <2>1 DEF Calls
<1> QED
  BY <1>1, <1>2, Invariant, PTL DEF Spec

-----------------------------------------------------------------------------
(***************************************************************************)
(* The steps, one call at a time, in terms of the gate                     *)
(***************************************************************************)

\* The gate's log says of a call what the audit log says.
LEMMA LoggedAsRecords ==
    ASSUME NEW c \in Calls
    PROVE  Promise!LoggedAs(c) = {Ruling(audit[i].verdict) : i \in RecordsOf(c)}
  BY DEF Promise!LoggedAs, GateLog, Line, RecordsOf

\* A step that changes the verdict, the log and the answer of no call
LEMMA Stutter ==
    ASSUME TypeOK, executed' = executed, audit' = audit,
           \A c \in Calls : Ruling(verdict'[c]) = Ruling(verdict[c]),
           \A c \in Calls : answer'[c] = answer[c]
    PROVE  UNCHANGED Promise!gateVars
<1>1. GateRuling' = GateRuling /\ GateTold' = GateTold
  BY DEF GateRuling, GateTold, Calls
<1>2. GateLog' = GateLog
  BY DEF GateLog, Line
<1> QED
  BY <1>1, <1>2 DEF Promise!gateVars

\* A step that answers the call in hand with something that leaves no line
LEMMA AsideTold ==
    ASSUME TypeOK, NEW c \in Calls, PerCall(c),
           answer[c] = "none", Stage(c) \in BeforeRun,
           NEW a \in {"tools", "unknown", "internal"},
           answer' = [answer EXCEPT ![c] = a],
           UNCHANGED <<verdict, executed, audit>>
    PROVE  Promise!Tell(c, "aside")
<1>1. GateRuling' = GateRuling /\ GateLog' = GateLog
  BY DEF GateRuling, GateLog, Line
<1>2. GateTold[c] = "nothing" /\ GateTold' = [GateTold EXCEPT ![c] = "aside"]
  BY DEF GateTold, Telling, TypeOK, CallsOK
<1>3. RecordsOf(c) = {} /\ c \notin executed
  BY DEF PerCall, Log, Gate, Unlogged
<1>4. Promise!LoggedAs(c) = {}
  BY <1>3, LoggedAsRecords
<1> QED
  BY <1>1, <1>2, <1>3, <1>4 DEF Promise!Tell

\* A step that rules on one call
LEMMA RuleGiven ==
    ASSUME TypeOK, NEW c \in Calls, answer[c] = "none",
           Ruling(verdict[c]) = "open",
           NEW r \in {"allowed", "refused"}, Ruling(verdict'[c]) = r,
           \A d \in Calls : d # c => verdict'[d] = verdict[d],
           UNCHANGED <<executed, audit, answer>>
    PROVE  Promise!Rule(c, r)
<1>1. GateLog' = GateLog /\ GateTold' = GateTold
  BY DEF GateLog, Line, GateTold
<1>2. GateRuling[c] = "open" /\ GateTold[c] = "nothing"
  BY DEF GateRuling, GateTold, Telling
<1>3. GateRuling' = [GateRuling EXCEPT ![c] = r]
  BY DEF GateRuling, Calls
<1> QED
  BY <1>1, <1>2, <1>3 DEF Promise!Rule

LEMMA RecordRecords ==
    ASSUME TypeOK, NEW g \in Gateways, Record(g),
           NEW c \in Calls, c = Current(g), PerCall(c)
    PROVE  Promise!Record(c)
<1>1. /\ Stage(c) = "record"
      /\ UNCHANGED <<verdict, executed, answer>>
      /\ audit' = Append(audit, [call |-> c, verdict |-> verdict[c]])
  BY InHandCurrent DEF InHand, Record, At, runVars
<1>2. Ruling(verdict[c]) # "open"
  BY <1>1, AllowedRuling DEF PerCall, Log
<1>3. answer[c] = "none" /\ RecordsOf(c) = {}
  BY <1>1 DEF PerCall, Lifecycle, Log, Unlogged
<1>4. Promise!LoggedAs(c) = {}
  BY <1>3, LoggedAsRecords
<1>5. GateRuling[c] # "open" /\ GateTold[c] = "nothing"
  BY <1>2, <1>3 DEF GateRuling, GateTold, Telling
<1>6. GateRuling' = GateRuling /\ GateTold' = GateTold
  BY <1>1 DEF GateRuling, GateTold
<1>7. GateLog' = Append(GateLog, [call |-> c, ruling |-> GateRuling[c]])
  <2> DEFINE n == Len(audit)
  <2>1. audit \in Seq([call : Calls, verdict : Verdicts]) /\ n \in Nat
        /\ DOMAIN audit = 1 .. n
    BY DEF TypeOK, RunsOK
  <2>2. DOMAIN audit' = 1 .. (n + 1)
    BY <1>1, <2>1
  <2>3. \A i \in 1 .. n : audit'[i] = audit[i]
    BY <1>1, <2>1
  <2>4. audit'[n + 1] = [call |-> c, verdict |-> verdict[c]]
    BY <1>1, <2>1
  <2>5. GateLog \in Seq([call : Calls, ruling : {"open", "allowed", "refused"}])
        /\ Len(GateLog) = n
    <3>1. ASSUME NEW v PROVE Ruling(v) \in {"open", "allowed", "refused"}
      <4>1. CASE v.decision \in {"AUTO", "APPROVED"}
        BY <4>1 DEF Ruling
      <4>2. CASE v.decision \notin {"AUTO", "APPROVED"}
        BY <4>2 DEF Ruling
      <4> QED
        BY <4>1, <4>2
    <3>2. \A i \in 1 .. n :
             Line(audit[i]) \in [call : Calls, ruling : {"open", "allowed", "refused"}]
      <4>1. \A i \in 1 .. n : audit[i].call \in Calls
        <5>1. ASSUME NEW S, NEW s \in Seq(S), NEW i \in 1 .. Len(s)
              PROVE  s[i] \in S
          BY <5>1
        <5>2. \A i \in 1 .. n : audit[i] \in [call : Calls, verdict : Verdicts]
          BY <2>1, <5>1, Zenon
        <5> QED
          BY <5>2
      <4> QED
        BY <3>1, <4>1 DEF Line
    <3>3. GateLog = [i \in 1 .. n |-> Line(audit[i])]
      BY <2>1 DEF GateLog
    <3>5. GateLog \in [1 .. n -> [call : Calls, ruling : {"open", "allowed", "refused"}]]
      BY <3>2, <3>3, Zenon
    <3>4. n \in Nat
      BY <2>1
    <3> HIDE DEF n
    <3>6. ASSUME NEW S, NEW s \in [1 .. n -> S]
          PROVE  s \in Seq(S) /\ Len(s) = n
      BY <3>4, <3>6
    <3> QED
      BY <3>5, <3>6
  <2>6. \A i \in 1 .. n : GateLog'[i] = GateLog[i]
    BY <2>1, <2>2, <2>3 DEF GateLog
  <2>7. GateLog'[n + 1] = [call |-> c, ruling |-> GateRuling[c]]
    BY <2>1, <2>2, <2>4 DEF GateLog, Line, GateRuling
  <2>8. DOMAIN GateLog' = 1 .. (n + 1) /\ GateLog' = [i \in 1 .. (n + 1) |-> GateLog'[i]]
    BY <2>2 DEF GateLog
  <2> QED
    BY <2>1, <2>5, <2>6, <2>7, <2>8
<1> QED
  BY <1>1, <1>4, <1>5, <1>6, <1>7 DEF Promise!Record

LEMMA ReplyTells ==
    ASSUME TypeOK, NEW g \in Gateways, Reply(g),
           NEW c \in Calls, c = Current(g), PerCall(c)
    PROVE  Promise!Next
<1>1. /\ Stage(c) = "reply"
      /\ UNCHANGED <<verdict, executed, audit>>
      /\ answer' = [answer EXCEPT ![c] = AnswerFor(verdict[c])]
  BY InHandCurrent DEF InHand, Reply, Answer, At, runVars
<1>2. PICK i \in RecordsOf(c) : RecordsOf(c) = {i} /\ audit[i].verdict = verdict[c]
  BY <1>1 DEF PerCall, Log
<1>3. Promise!LoggedAs(c) = {Ruling(verdict[c])}
  BY <1>2, LoggedAsRecords
<1>4. GateTold[c] = "nothing"
  BY <1>1 DEF PerCall, Lifecycle, GateTold, Telling
<1>5. GateRuling' = GateRuling /\ GateLog' = GateLog
  BY <1>1 DEF GateRuling, GateLog, Line
<1>6. \E what \in {"outcome", "refusal"} :
         /\ Telling(AnswerFor(verdict[c])) = what
         /\ {Ruling(verdict[c])} = CASE what = "outcome" -> {"allowed"}
                                     [] what = "refusal" -> {"refused"}
                                     [] OTHER -> {}
  <2>1. CASE verdict[c].decision = "DENIED" /\ verdict[c].outcome = "none"
    <3>1. AnswerFor(verdict[c]) = "denied"
      BY <2>1 DEF AnswerFor
    <3>2. Telling(AnswerFor(verdict[c])) = "refusal"
      BY <3>1 DEF Telling
    <3> QED
      BY <2>1, <3>2, AllowedRuling
  <2>2. CASE Allowed(verdict[c])
    <3>1. AnswerFor(verdict[c]) \in {"result", "failed"}
      <4>1. verdict[c].decision # "DENIED"
        BY <2>2 DEF Allowed
      <4>2. CASE verdict[c].outcome = "ERROR"
        BY <4>1, <4>2 DEF AnswerFor
      <4>3. CASE verdict[c].outcome # "ERROR"
        BY <4>1, <4>3 DEF AnswerFor
      <4> QED
        BY <4>2, <4>3
    <3>2. Telling(AnswerFor(verdict[c])) = "outcome"
      BY <3>1 DEF Telling
    <3> QED
      BY <2>2, <3>2, AllowedRuling
  <2> QED
    BY <1>1, <2>1, <2>2 DEF PerCall, Log
<1>7. PICK what \in {"outcome", "refusal"} :
         /\ Telling(AnswerFor(verdict[c])) = what
         /\ {Ruling(verdict[c])} = CASE what = "outcome" -> {"allowed"}
                                     [] what = "refusal" -> {"refused"}
                                     [] OTHER -> {}
  BY <1>6
<1>8. GateTold' = [GateTold EXCEPT ![c] = what]
  BY <1>1, <1>7 DEF GateTold, TypeOK, CallsOK
<1>9. Promise!Tell(c, what)
  BY <1>1, <1>3, <1>4, <1>5, <1>7, <1>8 DEF Promise!Tell
<1> QED
  BY <1>9 DEF Promise!Next

\* A step that says the log could not be written
LEMMA RecordFailsTells ==
    ASSUME TypeOK, NEW g \in Gateways, RecordFails(g),
           NEW c \in Calls, c = Current(g), PerCall(c)
    PROVE  Promise!Tell(c, "fault")
<1>1. /\ Stage(c) = "record"
      /\ UNCHANGED <<verdict, executed, audit>>
      /\ answer' = [answer EXCEPT ![c] = "unlogged"]
  BY InHandCurrent DEF InHand, RecordFails, Answer, At
<1>2. Ruling(verdict[c]) # "open"
  BY <1>1, AllowedRuling DEF PerCall, Log
<1>3. answer[c] = "none" /\ RecordsOf(c) = {}
  BY <1>1 DEF PerCall, Lifecycle, Log, Unlogged
<1>4. Promise!LoggedAs(c) = {}
  BY <1>3, LoggedAsRecords
<1>5. GateRuling[c] # "open" /\ GateTold[c] = "nothing"
  BY <1>2, <1>3 DEF GateRuling, GateTold, Telling
<1>6. GateRuling' = GateRuling /\ GateLog' = GateLog
  BY <1>1 DEF GateRuling, GateLog, Line
<1>7. GateTold' = [GateTold EXCEPT ![c] = "fault"]
  BY <1>1 DEF GateTold, Telling, TypeOK, CallsOK
<1> QED
  BY <1>1, <1>4, <1>5, <1>6, <1>7 DEF Promise!Tell

\* A step of a process that has a request in hand
LEMMA InHandSimulates ==
    ASSUME TypeOK, NEW g \in Gateways, InHand(g),
           NEW c \in Calls, c = Current(g), PerCall(c), Ruled(c)
    PROVE  Promise!Next \/ UNCHANGED Promise!gateVars
<1>0. /\ \A d \in Calls : d # c => verdict'[d] = verdict[d] /\ answer'[d] = answer[d]
      /\ executed' = executed
  BY OthersSame, RunsFrame DEF Same
<1>1. CASE Record(g)
  BY <1>1, RecordRecords DEF Promise!Next
<1>2. CASE Reply(g)
  BY <1>2, ReplyTells
<1>3. CASE ServeList(g) \/ RejectUnknown(g) \/ WaitTorn(g) \/ ForwardFails(g)
  <2>1. PICK a \in {"tools", "unknown", "internal"} : Finish(g, a)
    BY <1>3, FinishShape
  <2>2. /\ answer' = [answer EXCEPT ![c] = a]
        /\ UNCHANGED <<verdict, executed, audit>>
    BY <2>1 DEF Finish, Answer, runVars
  <2>3. Stage(c) \in {"serve", "waiting", "forward"}
    BY <1>3, InHandCurrent
       DEF ServeList, RejectUnknown, WaitTorn, ForwardFails, At
  <2>4. answer[c] = "none" /\ Stage(c) \in BeforeRun
    BY <2>3 DEF PerCall, Lifecycle, BeforeRun, Fresh
  <2> QED
    BY <2>2, <2>4, AsideTold DEF Promise!Next
<1>4. CASE RecordFails(g)
  BY <1>4, RecordFailsTells DEF Promise!Next
<1>5. CASE /\ ~Record(g) /\ ~RecordFails(g) /\ ~Reply(g)
           /\ ~ServeList(g) /\ ~RejectUnknown(g) /\ ~WaitTorn(g) /\ ~ForwardFails(g)
  <2>1. audit' = audit
    BY <1>5, RunsFrame
  <2>2. answer' = answer
    BY <1>5 DEF InHand, PromptAnswered, EndApproval, AutoCall, GatedCall, TakeId,
       PromptFails, WaitDecided, WaitTimesOut, EndWait, Forward, ContainerAnswers,
       Answered, Broken, EndRun, Close
  <2>3. CASE Ruling(verdict'[c]) = Ruling(verdict[c])
    BY <1>0, <2>1, <2>2, <2>3, Stutter
  <2>4. CASE Ruling(verdict'[c]) # Ruling(verdict[c])
    <3>1. /\ Stage(c) \in {"serve", "prompt", "waiting"}
          /\ Ruling(verdict'[c]) \in {"open", "allowed", "refused"}
      BY <2>4, VerdictCases DEF Ruling
    <3>2. answer[c] = "none" /\ Ruling(verdict[c]) = "open"
      BY <3>1 DEF PerCall, Lifecycle, Ruled, Undecided, Fresh
    <3>3. Promise!Rule(c, Ruling(verdict'[c]))
      BY <1>0, <2>1, <2>2, <2>4, <3>1, <3>2, RuleGiven
    <3> QED
      BY <2>4, <3>1, <3>2, <3>3 DEF Promise!Next
  <2> QED
    BY <2>3, <2>4
<1> QED
  BY <1>1, <1>2, <1>3, <1>4, <1>5

LEMMA StepSimulates ==
    ASSUME TypeOK, IInv, \A c \in Calls : Ruled(c), [Next]_vars
    PROVE  [Promise!Next]_(Promise!gateVars)
<1>1. CASE UNCHANGED vars
  BY <1>1, Stutter DEF vars, runVars
<1>2. CASE Outside
  <2>1. UNCHANGED <<verdict, audit, answer>>
    BY <1>2, OutsideFrame
  <2>2. ASSUME NEW c \in Calls, RunTool(c)
        PROVE  Promise!Run(c)
    <3>1. c \in containers /\ executed' = executed \cup {c}
      BY <2>2 DEF RunTool
    <3>2. Ruling(verdict[c]) = "allowed" /\ Telling(answer[c]) # "aside"
      BY <3>1 DEF IInv, PerCall, Unrun, Ruled, Telling, TypeOK, CallsOK, Answers
    <3>3. GateRuling[c] = "allowed" /\ GateTold[c] # "aside"
      BY <3>2 DEF GateRuling, GateTold
    <3>4. UNCHANGED <<GateRuling, GateLog, GateTold>>
      BY <2>1 DEF GateRuling, GateLog, GateTold, Line
    <3> QED
      BY <3>1, <3>3, <3>4 DEF Promise!Run
  <2>3. executed' = executed \/ \E c \in Calls : RunTool(c)
    BY <1>2 DEF Outside, OpenDecision, WriteDecision, Teardown, Tick, runVars
  <2> QED
    BY <2>1, <2>2, <2>3, Stutter DEF Promise!Next
<1>3. ASSUME NEW g \in Gateways,
             \/ \E t \in Requests : Receive(g, t)
             \/ Enumerate(g) \/ Kill(g) \/ Restart(g)
      PROVE  UNCHANGED Promise!gateVars
  BY <1>3, Stutter DEF Receive, Enumerate, Kill, Restart, runVars
<1>4. ASSUME NEW g \in Gateways, EnumerateFails(g)
      PROVE  Promise!Next
  <2>1. pc[g] = "build" /\ Current(g) \in Calls /\ Stage(Current(g)) = "build"
    BY <1>4, CurrentIsCall, StageOfCurrent DEF EnumerateFails, At, TypeOK
  <2>2. /\ answer' = [answer EXCEPT ![Current(g)] = "internal"]
        /\ UNCHANGED <<verdict, executed, audit>>
    BY <1>4 DEF EnumerateFails, Finish, Answer, runVars
  <2>3. answer[Current(g)] = "none" /\ PerCall(Current(g))
    BY <2>1 DEF IInv, PerCall, Lifecycle
  <2> QED
    BY <2>1, <2>2, <2>3, AsideTold DEF Promise!Next, BeforeRun, Fresh
<1>5. ASSUME NEW g \in Gateways, InHand(g)
      PROVE  Promise!Next \/ UNCHANGED Promise!gateVars
  <2>1. Current(g) \in Calls
    BY <1>5, CurrentIsCall, InHandFrame DEF TypeOK
  <2> QED
    BY <1>5, <2>1, InHandSimulates DEF IInv
<1> QED
  BY <1>1, <1>2, <1>3, <1>4, <1>5, NextCases

\* Every behaviour of the gateway, with any number of sessions, any policy and
\* any crashes, is one the abstract gate allows.
THEOREM GateImplemented == Spec => ImplementsGate
<1>1. Init => Promise!Init
  BY DEF Init, Promise!Init, GateRuling, GateLog, GateTold, Ruling, Telling,
         NoVerdict, Verdict
<1>2. /\ TypeOK /\ IInv /\ (\A c \in Calls : Ruled(c)) /\ [Next]_vars
      => [Promise!Next]_(Promise!gateVars)
  BY StepSimulates
<1> QED
  BY <1>1, <1>2, Invariant, RulingsHold, PTL DEF Spec, ImplementsGate, Promise!Spec

=============================================================================
