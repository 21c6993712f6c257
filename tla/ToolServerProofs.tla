-------------------------- MODULE ToolServerProofs --------------------------
(***************************************************************************)
(* That ToolServer's protocol gives each request its own answer, and that  *)
(* an acknowledged write stands, for any calls and any tools.              *)
(***************************************************************************)
EXTENDS ToolServer, SequenceTheorems, TLAPS

(***************************************************************************)
(* The inductive invariant                                                 *)
(***************************************************************************)

Sent == [id : 0 .. 2, method : Methods]
Answers == [id : 0 .. 2, body : Bodies]

\* What TypeOK says, but for the length of stdin
Types ==
    /\ client \in [Calls -> {"idle", "init", "call", "close", "done", "killed"}]
    /\ eof \in [Calls -> BOOLEAN]
    /\ toolOf \in [Calls -> Requests]
    /\ result \in [Calls -> Results]
    /\ toServer \in [Calls -> Seq(Sent)]
    /\ toClient \in [Calls -> Seq(Answers)]
    /\ srv \in [Calls -> {"none", "read", "work", "run", "write", "open",
                          "body", "blocked", "gone"}]
    /\ begun \subseteq Calls
    /\ work \in {"absent", "empty", "fifo", "mixed"} \cup Calls
    /\ claim \in [by : Calls \cup {NoCall}, done : BOOLEAN]

Working == {"work", "run", "write", "open", "body", "blocked"}
Asks == Request(1, "initialize")
Tells == Request(0, "notifications/initialized")
Wants(c) == Request(2, Method(c))

\* Before the call: no container
Idle(c) ==
    /\ toServer[c] = <<>> /\ toClient[c] = <<>>
    /\ srv[c] = "none" /\ c \notin begun

\* Something the client has written is still to be served.
Unserved(c) ==
    /\ toServer[c] \in {<<Asks>>, <<Tells, Wants(c)>>, <<Wants(c)>>}
    /\ toClient[c] = <<>>
    /\ srv[c] \in {"read", "gone"}
    /\ client[c] = "init" => toServer[c] = <<Asks>>
    /\ client[c] = "call" => toServer[c] # <<Asks>>
    /\ client[c] \in {"close", "done"} => srv[c] = "gone"

\* Nothing is on its way: the server works at the answer, or the client has
\* taken it, or the container has died.
Underway(c) ==
    /\ toServer[c] = <<>> /\ toClient[c] = <<>>
    /\ client[c] # "init" \/ srv[c] = "gone"
    /\ client[c] = "call" => srv[c] \in Working \cup {"gone"}
    /\ client[c] \in {"close", "done"} => srv[c] \in {"read", "gone"}
    /\ srv[c] # "none"

\* The answer is on its way.
Answered(c) ==
    /\ toServer[c] = <<>>
    /\ srv[c] \in {"read", "gone"}
    /\ client[c] \notin {"close", "done"}
    /\ \E body \in Bodies, id \in {1, 2} :
          /\ toClient[c] = <<Reply(id, body)>>
          /\ client[c] = "init" => id = 1
          /\ client[c] = "call" => id = 2

Pipe(c) == IF client[c] = "idle" THEN Idle(c)
                                 ELSE Unserved(c) \/ Underway(c) \/ Answered(c)

\* While a claim is held no other writer is up; once it is done its own is not.
Undisturbed ==
    claim.by \in Calls =>
        /\ \A d \in Calls : ~ShellUp(d)
        /\ \A d \in Calls \ {claim.by} : srv[d] # "write"
        /\ ~claim.done /\ srv[claim.by] = "write" => work = "empty"
        /\ claim.done => srv[claim.by] # "write"
Files ==
    /\ Undisturbed
    /\ claim.done => claim.by \in Calls /\ work = claim.by

IInv ==
    /\ \A c \in Calls : Pipe(c)
    /\ Files

\* What of a call its Pipe looks at
Untouched(d) ==
    /\ client'[d] = client[d] /\ toolOf'[d] = toolOf[d]
    /\ toServer'[d] = toServer[d] /\ toClient'[d] = toClient[d]
    /\ srv'[d] = srv[d]
    /\ d \in begun' <=> d \in begun

(***************************************************************************)
(* Types                                                                   *)
(***************************************************************************)

LEMMA TypesInit == Init => Types
<1> SUFFICES ASSUME Init PROVE Types
  OBVIOUS
<1>1. ListTools \in Requests /\ claim \in [by : Calls \cup {NoCall}, done : BOOLEAN]
  BY DEF Init, Requests, Claim
<1>2. /\ toServer \in [Calls -> Seq(Sent)] /\ toClient \in [Calls -> Seq(Answers)]
  BY DEF Init
<1>3. /\ result \in [Calls -> Results] /\ toolOf \in [Calls -> Requests]
      /\ begun \subseteq Calls
  BY <1>1 DEF Init, Results
<1>4. /\ client \in [Calls -> {"idle", "init", "call", "close", "done", "killed"}]
      /\ eof \in [Calls -> BOOLEAN]
      /\ srv \in [Calls -> {"none", "read", "work", "run", "write", "open",
                            "body", "blocked", "gone"}]
      /\ work \in {"absent", "empty", "fifo", "mixed"} \cup Calls
  BY DEF Init
<1> QED
  BY <1>1, <1>2, <1>3, <1>4 DEF Types

\* A container answers with one of its bodies.
LEMMA TypesRespond ==
    ASSUME Types, NEW c \in Calls, NEW body \in Bodies, Respond(c, body)
    PROVE  /\ UNCHANGED <<clientVars, toServer>>
           /\ toClient' \in [Calls -> Seq(Answers)]
           /\ srv' = [srv EXCEPT ![c] = "read"]
<1>1. /\ toClient[c] \in Seq(Answers)
      /\ Reply(2, body) \in Answers
  <2>1. 2 \in 0 .. 2
    OBVIOUS
  <2> QED
    BY <2>1 DEF Types, Reply, Answers
<1>2. toClient[c] \o <<Reply(2, body)>> \in Seq(Answers)
  BY <1>1
<1> QED
  BY <1>2 DEF Respond, Send, Goto, Types

LEMMA TypesRead ==
    ASSUME Types, NEW c \in Calls, Read(c)
    PROVE  Types'
<1> DEFINE m == Head(toClient[c])
<1>1. toClient[c] \in Seq(Answers) /\ toClient[c] # <<>> /\ toServer[c] \in Seq(Sent)
  BY DEF Read, Types
<1>2. m \in Answers /\ Tail(toClient[c]) \in Seq(Answers)
  BY <1>1
<1>3. <<Request(0, "notifications/initialized"), Request(2, Method(c))>> \in Seq(Sent)
  BY DEF Request, Method, Sent, Methods
<1>4. toServer[c] \o <<Request(0, "notifications/initialized"), Request(2, Method(c))>>
         \in Seq(Sent)
  BY <1>1, <1>3
<1>5. toServer' \in [Calls -> Seq(Sent)]
  BY <1>4 DEF Read, Types
<1>6. toClient' \in [Calls -> Seq(Answers)]
  BY <1>2 DEF Read, Types
<1>7. result' \in [Calls -> Results]
  BY <1>2 DEF Read, Types, Results, Answers
<1>8. client' \in [Calls -> {"idle", "init", "call", "close", "done", "killed"}]
  BY DEF Read, Types
<1> QED
  BY <1>5, <1>6, <1>7, <1>8 DEF Read, Types, fileVars

\* What is sent at once for a message is one reply at most.
LEMMA AtOnceIsShort ==
    ASSUME NEW m, NEW t
    PROVE  \/ AtOnce(m, t) = <<>>
           \/ \E body \in Bodies : AtOnce(m, t) = <<Reply(m.id, body)>>
<1>1. CASE m.method = "initialize"
  BY <1>1 DEF AtOnce, Bodies
<1>2. CASE m.method = "tools/list"
  BY <1>2 DEF AtOnce, Bodies
<1>3. CASE m.method = "tools/call" /\ t = Unknown
  BY <1>3 DEF AtOnce, Bodies
<1>4. CASE /\ m.method \notin {"initialize", "tools/list"}
           /\ ~(m.method = "tools/call" /\ t = Unknown)
  BY <1>4 DEF AtOnce
<1> QED
  BY <1>1, <1>2, <1>3, <1>4

LEMMA AtOnceIsTyped ==
    ASSUME NEW m \in Sent, NEW t
    PROVE  AtOnce(m, t) \in Seq(Answers)
<1>1. <<>> \in Seq(Answers)
  OBVIOUS
<1>2. ASSUME NEW body \in Bodies
      PROVE  <<Reply(m.id, body)>> \in Seq(Answers)
  <2>1. m.id \in 0 .. 2
    BY DEF Sent
  <2>2. Reply(m.id, body) \in Answers
    BY <2>1 DEF Reply, Answers
  <2> QED
    BY <2>2
<1> QED
  BY <1>1, <1>2, AtOnceIsShort

LEMMA TypesServe ==
    ASSUME Types, NEW c \in Calls, Serve(c)
    PROVE  Types'
<1> DEFINE m == Head(toServer[c])
<1>1. toServer[c] \in Seq(Sent) /\ toServer[c] # <<>> /\ toClient[c] \in Seq(Answers)
  BY DEF Serve, Types
<1>2. m \in Sent /\ Tail(toServer[c]) \in Seq(Sent)
  BY <1>1
<1>3. AtOnce(m, toolOf[c]) \in Seq(Answers)
  BY <1>2, AtOnceIsTyped
<1>4. toClient[c] \o AtOnce(m, toolOf[c]) \in Seq(Answers)
  BY <1>1, <1>3
<1>5. toClient' \in [Calls -> Seq(Answers)]
  BY <1>4 DEF Serve, Send, Types
<1>6. srv' \in [Calls -> {"none", "read", "work", "run", "write", "open",
                          "body", "blocked", "gone"}]
  <2>1. srv' = srv \/ srv' = [srv EXCEPT ![c] = "work"]
    BY DEF Serve, Goto
  <2> QED
    BY <2>1 DEF Types
<1>7. toServer' \in [Calls -> Seq(Sent)]
  BY <1>2 DEF Serve, Types
<1> QED
  BY <1>5, <1>6, <1>7 DEF Serve, Types, clientVars, fileVars

LEMMA TypesNext ==
    ASSUME Types, [Next]_vars
    PROVE  Types'
<1> USE DEF Bodies
<1>1. CASE UNCHANGED vars
  BY <1>1 DEF Types, vars, clientVars, fileVars
<1>2. ASSUME NEW c \in Calls, NEW t \in Requests, Start(c, t)
      PROVE  Types'
  <2>1. <<Request(1, "initialize")>> \in Seq(Sent)
    BY DEF Request, Sent, Methods
  <2> QED
    BY <1>2, <2>1 DEF Start, Types, fileVars
<1>3. ASSUME NEW c \in Calls, ReadEnds(c) \/ Close(c) \/ KillClient(c)
      PROVE  Types'
  BY <1>3 DEF ReadEnds, Close, KillClient, Types, Results, fileVars
<1>4. ASSUME NEW c \in Calls,
             \/ ServeEnds(c) \/ OpenBlocks(c) \/ CheckUrl(c) \/ OpenUrl(c)
             \/ ContainerDies(c)
      PROVE  Types'
  BY <1>4 DEF ServeEnds, OpenBlocks, CheckUrl, OpenUrl, ContainerDies, Goto, Types,
              clientVars, fileVars
<1>5. ASSUME NEW c \in Calls,
             \/ Refuse(c) \/ RunEnds(c) \/ RunTimesOut(c) \/ OtherEndOpens(c)
             \/ ReadFile(c) \/ CloseFileFails(c) \/ OpenRedirects(c) \/ OpenFails(c)
             \/ \E body \in Bodies : BodyEnds(c, body)
      PROVE  Types'
  <2>1. /\ UNCHANGED <<begun, fileVars>>
        /\ \E body \in Bodies : Respond(c, body)
    BY <1>5 DEF Refuse, RunEnds, RunTimesOut, OtherEndOpens, ReadFile, CloseFileFails,
                OpenRedirects, OpenFails, BodyEnds
  <2>2. /\ UNCHANGED <<clientVars, toServer>>
        /\ toClient' \in [Calls -> Seq(Answers)]
        /\ srv' = [srv EXCEPT ![c] = "read"]
    BY <2>1, TypesRespond
  <2> QED
    BY <2>1, <2>2 DEF Types, clientVars, fileVars
<1>6. ASSUME NEW c \in Calls, RunBegins(c)
      PROVE  Types'
  BY <1>6 DEF RunBegins, Goto, Contested, Claim, Types, clientVars
<1>7. ASSUME NEW c \in Calls, ShellTouches(c)
      PROVE  Types'
  BY <1>7 DEF ShellTouches, Types, clientVars
<1>8. ASSUME NEW c \in Calls, OpenFile(c)
      PROVE  Types'
  BY <1>8 DEF OpenFile, Goto, Contested, Claim, Types, clientVars
<1>9. ASSUME NEW c \in Calls, CloseFile(c)
      PROVE  Types'
  <2>1. /\ work' \in {"absent", "empty", "fifo", "mixed"} \cup Calls
        /\ claim' \in [by : Calls \cup {NoCall}, done : BOOLEAN]
    BY <1>9 DEF CloseFile, Acknowledge, Claim, Types
  <2>2. Respond(c, "ok") /\ UNCHANGED <<begun>>
    BY <1>9 DEF CloseFile
  <2> QED
    BY <2>1, <2>2, TypesRespond DEF Types, clientVars
<1> QED
  BY <1>1, <1>2, <1>3, <1>4, <1>5, <1>6, <1>7, <1>8, <1>9, TypesRead, TypesServe DEF Next, ClientStep, ServerStep

\* The clients, the servers and the shared file are well typed in every state.
THEOREM TypesCorrect == Spec => []Types
<1>1. Types /\ [Next]_vars => Types'
  BY TypesNext
<1> QED
  BY TypesInit, <1>1, PTL DEF Spec

(***************************************************************************)
(* What a step leaves alone                                                *)
(***************************************************************************)

LEMMA PipeKept ==
    ASSUME NEW d \in Calls, Untouched(d), Pipe(d)
    PROVE  Pipe(d)'
  BY DEF Untouched, Pipe, Idle, Unserved, Underway, Answered, Wants, Method

\* An answer, and a container of another call that does not start to write,
\* disturb no claim.
LEMMA FilesKept ==
    ASSUME Types, Files, UNCHANGED <<toolOf, work, claim>>,
           \A d \in Calls : d \in begun' /\ toolOf[d] \in Shells => d \in begun,
           \A d \in Calls : srv'[d] = "write" => srv[d] = "write",
           \A d \in Calls : srv[d] = "gone" => srv'[d] = "gone"
    PROVE  Files'
  BY DEF Files, Undisturbed, ShellUp

(***************************************************************************)
(* Steps of one kind                                                       *)
(***************************************************************************)

\* A tool answers.
LEMMA RespondPipe ==
    ASSUME Types, NEW c \in Calls, NEW body \in Bodies, Respond(c, body),
           srv[c] \in Working, begun' = begun, Pipe(c)
    PROVE  Pipe(c)'
<1>1. /\ UNCHANGED <<client, eof, toolOf, result, toServer>>
      /\ srv'[c] = "read"
      /\ toClient'[c] = toClient[c] \o <<Reply(2, body)>>
  BY DEF Respond, Goto, Send, Types, clientVars
<1>2. client[c] # "idle" /\ Underway(c)
  BY DEF Pipe, Idle, Unserved, Answered, Working
<1>3. toClient'[c] = <<Reply(2, body)>>
  BY <1>1, <1>2 DEF Underway
<1>4. client[c] \notin {"init", "close", "done"}
  BY <1>2 DEF Underway, Working
<1>5. Answered(c)'
  BY <1>1, <1>2, <1>3, <1>4 DEF Answered, Underway
<1> QED
  BY <1>1, <1>2, <1>5 DEF Pipe

LEMMA RespondOthers ==
    ASSUME Types, NEW c \in Calls, NEW body, Respond(c, body), begun' = begun
    PROVE  \A d \in Calls \ {c} : Untouched(d)
  BY DEF Respond, Goto, Send, Types, clientVars, Untouched

\* A tool goes on.
LEMMA GotoPipe ==
    ASSUME Types, NEW c \in Calls, NEW stage \in Working, Goto(c, stage),
           srv[c] \in Working, UNCHANGED <<clientVars, toServer, toClient>>,
           Pipe(c)
    PROVE  Pipe(c)'
<1>1. srv'[c] = stage
  BY DEF Goto, Types
<1>2. client[c] # "idle" /\ Underway(c)
  BY DEF Pipe, Idle, Unserved, Answered, Working
<1>3. Underway(c)'
  BY <1>1, <1>2 DEF Underway, clientVars, Working
<1> QED
  BY <1>2, <1>3 DEF Pipe, clientVars

LEMMA GotoOthers ==
    ASSUME Types, NEW c \in Calls, NEW stage, Goto(c, stage),
           UNCHANGED <<clientVars, toServer, toClient>>,
           \A d \in Calls \ {c} : d \in begun' <=> d \in begun
    PROVE  \A d \in Calls \ {c} : Untouched(d)
  BY DEF Goto, Types, clientVars, Untouched

\* What a step does to the call it is about is all there is to show of the
\* pipes.
LEMMA OneCall ==
    ASSUME IInv, NEW c \in Calls, \A d \in Calls \ {c} : Untouched(d),
           Pipe(c)', Files'
    PROVE  IInv'
<1>1. ASSUME NEW d \in Calls
      PROVE  Pipe(d)'
  <2>1. CASE d = c
    BY <2>1
  <2>2. CASE d # c
    BY <2>2, PipeKept DEF IInv
  <2> QED
    BY <2>1, <2>2
<1> QED
  BY <1>1 DEF IInv

\* An answer of a tool that touches no file but its own
LEMMA RespondStep ==
    ASSUME Types, IInv, NEW c \in Calls, NEW body \in Bodies, Respond(c, body),
           srv[c] \in Working, begun' = begun, Files'
    PROVE  IInv'
<1>1. Pipe(c)'
  BY RespondPipe DEF IInv
<1> QED
  BY <1>1, RespondOthers, OneCall

LEMMA RespondFiles ==
    ASSUME Types, Files, NEW c \in Calls, NEW body, Respond(c, body),
           srv[c] \in Working, UNCHANGED <<begun, fileVars>>
    PROVE  Files'
  BY FilesKept DEF Respond, Goto, Types, clientVars, fileVars, Working

(***************************************************************************)
(* The actions: Downstream                                                 *)
(***************************************************************************)

LEMMA StepStart ==
    ASSUME Types, IInv, NEW c \in Calls, NEW t \in Requests, Start(c, t)
    PROVE  IInv'
<1>1. /\ client'[c] = "init" /\ srv'[c] = "read"
      /\ toServer'[c] = <<Asks>> /\ UNCHANGED <<toClient, begun>>
  BY DEF Start, Types, Asks
<1>2. Idle(c)
  BY DEF Start, IInv, Pipe
<1>3. Unserved(c)'
  BY <1>1, <1>2 DEF Unserved, Idle
<1>4. Pipe(c)'
  BY <1>1, <1>3 DEF Pipe
<1>6. \A d \in Calls \ {c} : Untouched(d)
  BY DEF Start, Types, Untouched
<1>7. Files'
  <2>1. \A d \in Calls : ShellUp(d)' => ShellUp(d)
    BY <1>1, <1>2, <1>6 DEF ShellUp, Idle, Untouched
  <2>2. \A d \in Calls : srv'[d] = "write" => srv[d] = "write"
    BY <1>1, <1>6 DEF Untouched
  <2> QED
    BY <2>1, <2>2 DEF Start, IInv, Files, Undisturbed, fileVars
<1> QED
  BY <1>4, <1>6, <1>7, OneCall

\* A step of the client leaves the container and the file as they are.
LEMMA ClientFiles ==
    ASSUME Types, IInv, UNCHANGED <<toolOf, srv, begun, fileVars>>
    PROVE  Files'
  BY FilesKept DEF IInv, fileVars

LEMMA StepRead ==
    ASSUME Types, IInv, NEW c \in Calls, Read(c)
    PROVE  IInv'
<1>1. Waiting(c) /\ toClient[c] # <<>> /\ client[c] # "idle"
  BY DEF Read, Waiting
<1>2. Answered(c)
  BY <1>1 DEF IInv, Pipe, Unserved, Underway
<1>3. PICK body \in Bodies, id \in {1, 2} :
         /\ toClient[c] = <<Reply(id, body)>>
         /\ client[c] = "init" => id = 1
         /\ client[c] = "call" => id = 2
  BY <1>2 DEF Answered
<1>4. Head(toClient[c]) = Reply(id, body) /\ Tail(toClient[c]) = <<>>
  BY <1>3
<1>5. Head(toClient[c]).id = Awaited(c)
  BY <1>1, <1>3, <1>4 DEF Awaited, Waiting, Reply
<1>6. /\ toClient'[c] = <<>>
      /\ UNCHANGED <<eof, toolOf, srv, begun, fileVars>>
  BY <1>4 DEF Read, Types
<1>7. Pipe(c)'
  <2>1. CASE client[c] = "init"
    <3>1. client'[c] = "call"
      BY <1>5, <2>1 DEF Read, Types
    <3>2. toServer'[c] = toServer[c] \o <<Request(0, "notifications/initialized"),
                                          Request(2, Method(c))>>
      BY <1>5, <2>1 DEF Read, Types
    <3>3. toServer'[c] = <<Tells, Wants(c)>>
      BY <1>2, <3>2 DEF Answered, Tells, Wants
    <3>4. Wants(c)' = Wants(c) /\ <<Tells, Wants(c)>> # <<Asks>>
      BY <1>6 DEF Wants, Method
    <3>5. Unserved(c)'
      BY <1>2, <1>6, <3>1, <3>3, <3>4 DEF Unserved, Answered
    <3> QED
      BY <3>1, <3>5 DEF Pipe
  <2>2. CASE client[c] = "call"
    <3>1. client'[c] = "close" /\ toServer'[c] = <<>>
      BY <1>2, <1>5, <2>2 DEF Read, Types, Answered
    <3>2. Underway(c)'
      BY <1>2, <1>6, <3>1 DEF Underway, Answered
    <3> QED
      BY <3>1, <3>2 DEF Pipe
  <2> QED
    BY <1>1, <2>1, <2>2 DEF Waiting
<1>9. \A d \in Calls \ {c} : Untouched(d)
  BY DEF Read, Types, Untouched
<1>10. Files'
  BY <1>6, ClientFiles
<1> QED
  BY <1>7, <1>9, <1>10, OneCall

LEMMA StepReadEnds ==
    ASSUME Types, IInv, NEW c \in Calls, ReadEnds(c)
    PROVE  IInv'
<1>1. /\ client[c] \in {"init", "call"} /\ toClient[c] = <<>> /\ srv[c] = "gone"
      /\ client'[c] = "close"
      /\ UNCHANGED <<toolOf, toServer, toClient, srv, begun, fileVars>>
  BY DEF ReadEnds, Waiting, Types
<1>0. client[c] # "idle" /\ client'[c] # "idle" /\ Pipe(c)
  BY <1>1 DEF IInv
<1>2. Unserved(c) \/ Underway(c)
  BY <1>0, <1>1 DEF Pipe, Answered
<1>3. Wants(c)' = Wants(c)
  BY <1>1 DEF Wants, Method
<1>4. Unserved(c)' \/ Underway(c)'
  BY <1>1, <1>2, <1>3 DEF Unserved, Underway
<1>5. Pipe(c)'
  BY <1>0, <1>1, <1>4 DEF Pipe, IInv
<1>6. \A d \in Calls \ {c} : Untouched(d)
  BY DEF ReadEnds, Types, Untouched
<1> QED
  BY <1>1, <1>5, <1>6, ClientFiles, OneCall

LEMMA StepLeave ==
    ASSUME Types, IInv, NEW c \in Calls, Close(c) \/ KillClient(c)
    PROVE  IInv'
<1>1. /\ \/ client[c] = "close" /\ client'[c] = "done"
         \/ client[c] \in {"init", "call", "close"} /\ client'[c] = "killed"
      /\ UNCHANGED <<toolOf, toServer, toClient, srv, begun, fileVars>>
  BY DEF Close, KillClient, Types
<1>0. client[c] # "idle" /\ client'[c] # "idle" /\ Pipe(c)
  BY <1>1 DEF IInv
<1>2. Unserved(c) \/ Underway(c) \/ Answered(c)
  BY <1>0 DEF Pipe
<1>3. Wants(c)' = Wants(c)
  BY <1>1 DEF Wants, Method
<1>4. Unserved(c) => Unserved(c)'
  BY <1>1, <1>3 DEF Unserved
<1>5. Underway(c) => Underway(c)'
  BY <1>1 DEF Underway
<1>6. Answered(c) => Answered(c)'
  BY <1>1 DEF Answered
<1>8. \A d \in Calls \ {c} : Untouched(d)
  BY DEF Close, KillClient, Types, Untouched
<1>9. Pipe(c)'
  BY <1>0, <1>2, <1>4, <1>5, <1>6 DEF Pipe
<1> QED
  BY <1>1, <1>8, <1>9, ClientFiles, OneCall

(***************************************************************************)
(* The actions: main and handle                                            *)
(***************************************************************************)

LEMMA StepServe ==
    ASSUME Types, IInv, NEW c \in Calls, Serve(c)
    PROVE  IInv'
<1>1. srv[c] = "read" /\ toServer[c] # <<>> /\ Pipe(c)
  BY DEF Serve, IInv
<1>2. client[c] # "idle" /\ Unserved(c)
  BY <1>1 DEF Pipe, Idle, Underway, Answered
<1>3. /\ toServer'[c] = Tail(toServer[c])
      /\ UNCHANGED <<client, toolOf, begun, fileVars>>
  BY DEF Serve, Types, clientVars
<1>4. Wants(c)' = Wants(c)
  BY <1>3 DEF Wants, Method
<1>5. Pipe(c)'
  <2>1. CASE toServer[c] = <<Asks>>
    <3>1. Head(toServer[c]) = Asks /\ toServer'[c] = <<>>
      BY <1>3, <2>1
    <3>2. ~RunsTool(Asks, toolOf[c]) /\ AtOnce(Asks, toolOf[c]) = <<Reply(1, "hello")>>
      BY DEF RunsTool, AtOnce, Asks, Request
    <3>3. toClient'[c] = toClient[c] \o <<Reply(1, "hello")>> /\ srv'[c] = "read"
      <4>1. Send(c, AtOnce(Asks, toolOf[c])) /\ UNCHANGED srv
        BY <3>1, <3>2 DEF Serve
      <4> QED
        BY <1>1, <3>2, <4>1 DEF Send, Types
    <3>4. toClient'[c] = <<Reply(1, "hello")>>
      BY <1>2, <3>3 DEF Unserved
    <3>5. client[c] \notin {"call", "close", "done"}
      BY <1>1, <1>2, <2>1 DEF Unserved
    <3>6. Answered(c)'
      BY <1>3, <3>1, <3>3, <3>4, <3>5 DEF Answered, Bodies
    <3> QED
      BY <1>2, <1>3, <3>6 DEF Pipe
  <2>2. CASE toServer[c] = <<Tells, Wants(c)>>
    <3>1. Head(toServer[c]) = Tells /\ toServer'[c] = <<Wants(c)>>
      BY <1>3, <2>2
    <3>2. ~RunsTool(Tells, toolOf[c]) /\ AtOnce(Tells, toolOf[c]) = <<>>
      BY DEF RunsTool, AtOnce, Tells, Request
    <3>3. toClient'[c] = toClient[c] \o <<>> /\ srv'[c] = "read"
      <4>1. Send(c, AtOnce(Tells, toolOf[c])) /\ UNCHANGED srv
        BY <3>1, <3>2 DEF Serve
      <4> QED
        BY <1>1, <3>2, <4>1 DEF Send, Types
    <3>4. toClient'[c] = <<>>
      BY <1>2, <3>3 DEF Unserved
    <3>5. <<Tells, Wants(c)>> # <<Asks>> /\ <<Wants(c)>> # <<Asks>>
      BY DEF Wants, Asks, Request
    <3>6. client[c] \notin {"init", "close", "done"}
      BY <1>1, <1>2, <2>2, <3>5 DEF Unserved
    <3>7. Unserved(c)'
      BY <1>3, <1>4, <3>1, <3>3, <3>4, <3>5, <3>6 DEF Unserved
    <3> QED
      BY <1>2, <1>3, <3>7 DEF Pipe
  <2>3. CASE toServer[c] = <<Wants(c)>>
    <3>1. Head(toServer[c]) = Wants(c) /\ toServer'[c] = <<>>
      BY <1>3, <2>3
    <3>2. <<Wants(c)>> # <<Asks>>
      BY DEF Wants, Asks, Request
    <3>3. client[c] \notin {"init", "close", "done"} /\ toClient[c] = <<>>
      BY <1>1, <1>2, <2>3, <3>2 DEF Unserved
    <3>4. CASE RunsTool(Wants(c), toolOf[c])
      <4>1. srv'[c] = "work" /\ toClient'[c] = <<>>
        BY <3>1, <3>3, <3>4 DEF Serve, Goto, Types
      <4>2. Underway(c)'
        BY <1>3, <3>1, <3>3, <4>1 DEF Underway, Working
      <4> QED
        BY <1>2, <1>3, <4>2 DEF Pipe
    <3>5. CASE ~RunsTool(Wants(c), toolOf[c])
      <4>1. toolOf[c] \in Requests
        BY DEF Types
      <4>2. \E body \in Bodies : AtOnce(Wants(c), toolOf[c]) = <<Reply(2, body)>>
        <5>1. CASE toolOf[c] = ListTools
          BY <5>1 DEF Wants, Request, Method, AtOnce, Bodies
        <5>2. CASE toolOf[c] # ListTools
          <6>1. Method(c) = "tools/call" /\ toolOf[c] = Unknown
            BY <3>5, <4>1, <5>2 DEF Wants, Request, RunsTool, Method, Requests
          <6> QED
            BY <6>1 DEF Wants, Request, AtOnce, Bodies
        <5> QED
          BY <5>1, <5>2
      <4>3. PICK body \in Bodies : AtOnce(Wants(c), toolOf[c]) = <<Reply(2, body)>>
        BY <4>2
      <4>4. toClient'[c] = toClient[c] \o <<Reply(2, body)>> /\ srv'[c] = "read"
        <5>1. Send(c, AtOnce(Wants(c), toolOf[c])) /\ UNCHANGED srv
          BY <3>1, <3>5 DEF Serve
        <5> QED
          BY <1>1, <4>3, <5>1 DEF Send, Types
      <4>5. toClient'[c] = <<Reply(2, body)>>
        BY <3>3, <4>4
      <4>6. Answered(c)'
        BY <1>3, <3>1, <3>3, <4>4, <4>5 DEF Answered
      <4> QED
        BY <1>2, <1>3, <4>6 DEF Pipe
    <3> QED
      BY <3>4, <3>5
  <2> QED
    BY <1>2, <2>1, <2>2, <2>3 DEF Unserved
<1>6. srv'[c] \in {"read", "work"}
  BY <1>1 DEF Serve, Goto, Types
<1>8. \A d \in Calls \ {c} : Untouched(d)
  BY DEF Serve, Goto, Send, Types, Untouched, clientVars
<1>9. Files'
  <2>1. \A d \in Calls : srv'[d] = "write" => srv[d] = "write"
    BY <1>6, <1>8 DEF Untouched
  <2>2. \A d \in Calls : srv[d] = "gone" => srv'[d] = "gone"
    BY <1>1, <1>8 DEF Untouched
  <2> QED
    BY <1>3, <2>1, <2>2, FilesKept DEF IInv, fileVars
<1> QED
  BY <1>5, <1>8, <1>9, OneCall

\* The server returns, or its container dies.
LEMMA StepGone ==
    ASSUME Types, IInv, NEW c \in Calls, ServeEnds(c) \/ ContainerDies(c)
    PROVE  IInv'
<1>1. /\ srv[c] \notin {"none", "gone"} /\ srv'[c] = "gone"
      /\ UNCHANGED <<clientVars, toServer, toClient, begun, fileVars>>
  BY DEF ServeEnds, ContainerDies, Goto, Types
<1>2. client[c] # "idle" /\ Pipe(c)
  BY <1>1 DEF IInv, Pipe, Idle
<1>3. Wants(c)' = Wants(c)
  BY <1>1 DEF Wants, Method, clientVars
<1>4. Unserved(c) => Unserved(c)'
  BY <1>1, <1>3 DEF Unserved, clientVars
<1>5. Underway(c) => Underway(c)'
  BY <1>1 DEF Underway, clientVars
<1>6. Answered(c) => Answered(c)'
  BY <1>1 DEF Answered, clientVars
<1>7. Pipe(c)'
  BY <1>1, <1>2, <1>4, <1>5, <1>6 DEF Pipe, clientVars
<1>9. \A d \in Calls \ {c} : Untouched(d)
  BY DEF ServeEnds, ContainerDies, Goto, Types, Untouched, clientVars
<1>10. Files'
  <2>1. /\ \A d \in Calls : srv'[d] = "write" => srv[d] = "write"
        /\ \A d \in Calls : srv[d] = "gone" => srv'[d] = "gone"
    BY <1>1, <1>9 DEF Untouched
  <2> QED
    BY <1>1, <2>1, FilesKept DEF IInv, fileVars, clientVars
<1> QED
  BY <1>7, <1>9, <1>10, OneCall

(***************************************************************************)
(* The actions: tools                                                      *)
(***************************************************************************)

\* Answers that leave the file alone
LEMMA StepAnswer ==
    ASSUME Types, IInv, NEW c \in Calls,
           \/ Refuse(c) \/ RunEnds(c) \/ RunTimesOut(c) \/ OtherEndOpens(c)
           \/ ReadFile(c) \/ CloseFileFails(c) \/ OpenRedirects(c) \/ OpenFails(c)
           \/ \E body \in Bodies : BodyEnds(c, body)
    PROVE  IInv'
<1>1. /\ UNCHANGED <<begun, fileVars>> /\ srv[c] \in Working
      /\ \E body \in Bodies : Respond(c, body)
  BY DEF Refuse, RunEnds, RunTimesOut, OtherEndOpens, ReadFile, CloseFileFails,
         OpenRedirects, OpenFails, BodyEnds, At, Working, Bodies
<1>2. PICK body \in Bodies : Respond(c, body)
  BY <1>1
<1>3. Files'
  BY <1>1, <1>2, RespondFiles DEF IInv
<1> QED
  BY <1>1, <1>2, <1>3, RespondStep DEF IInv, fileVars

\* A tool goes on to a stage that does not write.
LEMMA StepStage ==
    ASSUME Types, IInv, NEW c \in Calls,
           RunBegins(c) \/ OpenBlocks(c) \/ CheckUrl(c) \/ OpenUrl(c)
    PROVE  IInv'
<1>1. PICK stage \in Working : Goto(c, stage) /\ stage # "write"
  BY DEF RunBegins, OpenBlocks, CheckUrl, OpenUrl, Working
<1>2. srv[c] \in {"work", "open"} /\ UNCHANGED <<clientVars, toServer, toClient>>
  BY DEF RunBegins, OpenBlocks, CheckUrl, OpenUrl, At
<1>3. Pipe(c)'
  BY <1>1, <1>2, GotoPipe DEF IInv, Working
<1>5. \A d \in Calls \ {c} : Untouched(d)
  BY <1>1, <1>2, GotoOthers DEF RunBegins, OpenBlocks, CheckUrl, OpenUrl, Types
<1>6. /\ \A d \in Calls : srv'[d] = "write" => srv[d] = "write"
      /\ \A d \in Calls : srv[d] = "gone" => srv'[d] = "gone"
  BY <1>1, <1>2, <1>5 DEF Untouched, Goto, Types
<1>7. Files'
  <2>1. CASE RunBegins(c) /\ toolOf[c] \in Shells
    BY <2>1, NoCallAssumption DEF RunBegins, Contested, Claim, Files, Undisturbed
  <2>2. CASE RunBegins(c) /\ toolOf[c] \notin Shells
    BY <1>2, <1>6, <2>2, FilesKept DEF RunBegins, IInv, clientVars
  <2>3. CASE OpenBlocks(c) \/ CheckUrl(c) \/ OpenUrl(c)
    BY <1>2, <1>6, <2>3, FilesKept DEF OpenBlocks, CheckUrl, OpenUrl, IInv, clientVars, fileVars
  <2> QED
    BY <2>1, <2>2, <2>3
<1> QED
  BY <1>3, <1>5, <1>7, OneCall

\* A program writes to the file: none is up while a claim is held.
LEMMA StepShellTouches ==
    ASSUME Types, IInv, NEW c \in Calls, ShellTouches(c)
    PROVE  IInv'
<1>1. claim.by \notin Calls /\ ~claim.done
  BY DEF ShellTouches, IInv, Files, Undisturbed, Types
<1>2. Files'
  BY <1>1 DEF ShellTouches, Files, Undisturbed
<1>3. \A d \in Calls : Untouched(d)
  BY DEF ShellTouches, Untouched, clientVars
<1> QED
  BY <1>2, <1>3, PipeKept DEF IInv

LEMMA StepOpenFile ==
    ASSUME Types, IInv, NEW c \in Calls, OpenFile(c)
    PROVE  IInv'
<1>1. /\ Goto(c, "write") /\ srv[c] = "work" /\ work' = "empty"
      /\ UNCHANGED <<clientVars, toServer, toClient, begun>>
  BY DEF OpenFile, At
<1>2. Pipe(c)'
  BY <1>1, GotoPipe DEF IInv, Working
<1>4. \A d \in Calls \ {c} : Untouched(d)
  BY <1>1, GotoOthers
<1>5. Files'
  <2>1. CASE \A d \in Calls : ~WriterUp(d)
    <3>1. claim' = Claim(c, FALSE)
      BY <2>1 DEF OpenFile
    <3>2. claim'.by = c /\ ~claim'.done
      BY <3>1 DEF Claim
    <3>3. \A d \in Calls : ~ShellUp(d)'
      BY <1>1, <1>4, <2>1 DEF WriterUp, ShellUp, Untouched, clientVars
    <3>4. \A d \in Calls \ {c} : srv'[d] # "write"
      BY <1>4, <2>1 DEF WriterUp, Untouched
    <3> QED
      BY <1>1, <3>2, <3>3, <3>4 DEF Files, Undisturbed
  <2>2. CASE ~\A d \in Calls : ~WriterUp(d)
    BY <2>2, NoCallAssumption DEF OpenFile, Contested, Claim, Files, Undisturbed
  <2> QED
    BY <2>1, <2>2
<1> QED
  BY <1>2, <1>4, <1>5, OneCall

LEMMA StepCloseFile ==
    ASSUME Types, IInv, NEW c \in Calls, CloseFile(c)
    PROVE  IInv'
<1>1. /\ Respond(c, "ok") /\ "ok" \in Bodies /\ srv[c] = "write"
      /\ UNCHANGED <<begun>>
  BY DEF CloseFile, Bodies
<1>2. srv' = [srv EXCEPT ![c] = "read"] /\ UNCHANGED toolOf
  BY <1>1 DEF Respond, Goto, clientVars
<1>3. Files /\ Undisturbed
  BY DEF IInv, Files
<1>4. Files'
  <2>1. CASE claim.by = c
    <3>1. ~claim.done /\ work = "empty" /\ \A d \in Calls : ~ShellUp(d)
      BY <1>1, <1>3, <2>1 DEF Undisturbed, Types
    <3>2. claim' = Claim(c, TRUE) /\ work' = c
      BY <2>1, <3>1 DEF CloseFile, Acknowledge
    <3>3. \A d \in Calls : ~ShellUp(d)'
      BY <1>1, <1>2, <3>1 DEF ShellUp, Types
    <3>4. \A d \in Calls : srv'[d] # "write"
      BY <1>2, <1>3, <2>1 DEF Undisturbed, Types
    <3> QED
      BY <3>2, <3>3, <3>4 DEF Files, Undisturbed, Claim
  <2>2. CASE claim.by # c
    <3>1. claim.by \notin Calls /\ ~claim.done
      BY <1>1, <1>3, <2>2 DEF Files, Undisturbed
    <3>2. claim' = claim
      BY <2>2 DEF CloseFile, Acknowledge
    <3> QED
      BY <3>1, <3>2 DEF Files, Undisturbed
  <2> QED
    BY <2>1, <2>2
<1> QED
  BY <1>1, <1>4, RespondStep DEF IInv, Working

(***************************************************************************)
(* The theorems                                                            *)
(***************************************************************************)

LEMMA InvInit == Init => IInv
<1> SUFFICES ASSUME Init PROVE IInv
  OBVIOUS
<1>1. \A c \in Calls : Pipe(c)
  BY DEF Init, Pipe, Idle
<1>2. Files
  BY NoCallAssumption DEF Init, Claim, Files, Undisturbed
<1> QED
  BY <1>1, <1>2 DEF IInv

LEMMA InvNext ==
    ASSUME Types, IInv, [Next]_vars
    PROVE  IInv'
<1>1. CASE UNCHANGED vars
  <2>1. \A d \in Calls : Untouched(d)
    BY <1>1 DEF vars, clientVars, Untouched
  <2>2. Files'
    BY <1>1, FilesKept DEF vars, clientVars, fileVars, IInv
  <2> QED
    BY <2>1, <2>2, PipeKept DEF IInv
<1>2. CASE Next
  <2>1. PICK c \in Calls :
           \/ \E t \in Requests : Start(c, t)
           \/ ClientStep(c) \/ ServerStep(c)
           \/ RunEnds(c) \/ ShellTouches(c) \/ OtherEndOpens(c)
           \/ OpenUrl(c) \/ OpenRedirects(c)
           \/ \E body \in Bodies : BodyEnds(c, body)
           \/ KillClient(c) \/ ContainerDies(c)
    BY <1>2 DEF Next
  <2>2. ClientStep(c) => IInv'
    BY StepRead, StepReadEnds, StepLeave DEF ClientStep
  <2>3. ServerStep(c) => IInv'
    BY StepServe, StepGone, StepAnswer, StepStage, StepOpenFile, StepCloseFile
    DEF ServerStep
  <2> QED
    BY <2>1, <2>2, <2>3, StepStart, StepAnswer, StepStage, StepShellTouches, StepLeave,
       StepGone
<1> QED
  BY <1>1, <1>2

\* The inductive invariant holds in every state.
THEOREM Invariant == Spec => [](Types /\ IInv)
<1>1. Init => Types /\ IInv
  BY TypesInit, InvInit
<1>2. Types /\ IInv /\ [Next]_vars => (Types /\ IInv)'
  BY TypesNext, InvNext
<1> QED
  BY <1>1, <1>2, PTL DEF Spec

\* The type invariant: stdin holds no more than a notification and a request.
THEOREM TypeCorrect == Spec => []TypeOK
<1>1. ASSUME Types, IInv, NEW c \in Calls
      PROVE  Len(toServer[c]) <= 2
  <2>1. \/ toServer[c] = <<>>
        \/ toServer[c] = <<Asks>>
        \/ toServer[c] = <<Tells, Wants(c)>>
        \/ toServer[c] = <<Wants(c)>>
    BY <1>1 DEF IInv, Pipe, Idle, Unserved, Underway, Answered
  <2>2. CASE toServer[c] = <<>>
    BY <2>2
  <2>3. CASE toServer[c] = <<Asks>>
    BY <2>3
  <2>4. CASE toServer[c] = <<Tells, Wants(c)>>
    <3>1. Len(<<Tells, Wants(c)>>) = 2
      OBVIOUS
    <3> QED
      BY <2>4, <3>1
  <2>5. CASE toServer[c] = <<Wants(c)>>
    BY <2>5
  <2> QED
    BY <2>1, <2>2, <2>3, <2>4, <2>5
<1>2. Types /\ IInv => TypeOK
  <2> SUFFICES ASSUME Types, IInv PROVE TypeOK
    OBVIOUS
  <2>1. \A c \in Calls :
          /\ toServer[c] \in Seq([id : 0 .. 2, method : Methods])
          /\ toClient[c] \in Seq([id : 0 .. 2, body : Bodies])
    BY DEF Types, Sent, Answers
  <2> QED
    BY <1>1, <2>1 DEF Types, TypeOK
<1> QED
  BY <1>2, Invariant, PTL

\* stdout holds at most one reply, and to the request the client waits for: the
\* id is that of the request it is at (request, handle).
THEOREM EveryReplyIsAwaited == Spec => []OneReplyPerRequest
<1>1. ASSUME IInv, NEW c \in Calls
      PROVE  /\ Len(toClient[c]) <= 1
             /\ Waiting(c) => \A i \in DOMAIN toClient[c] :
                                toClient[c][i].id = Awaited(c)
  <2>1. CASE toClient[c] = <<>>
    BY <2>1
  <2>2. CASE client[c] # "idle" /\ Answered(c)
    <3>1. PICK body \in Bodies, id \in {1, 2} :
             /\ toClient[c] = <<Reply(id, body)>>
             /\ client[c] = "init" => id = 1
             /\ client[c] = "call" => id = 2
      BY <2>2 DEF Answered
    <3> QED
      BY <3>1 DEF Waiting, Awaited, Reply
  <2> QED
    BY <1>1, <2>1, <2>2 DEF IInv, Pipe, Idle, Unserved, Underway
<1>2. IInv => OneReplyPerRequest
  BY <1>1 DEF OneReplyPerRequest
<1> QED
  BY <1>2, Invariant, PTL

\* A write answered as done, which no other writer met, is what the file holds.
THEOREM DoneWritesStand == Spec => []WriteStands
<1>1. IInv => WriteStands
  BY DEF IInv, Files, WriteStands
<1> QED
  BY <1>1, Invariant, PTL
=============================================================================
