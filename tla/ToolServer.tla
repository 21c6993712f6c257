----------------------------- MODULE ToolServer -----------------------------
(***************************************************************************)
(* The downstream tool servers sandbox_mcp.py, web_mcp.py, net_mcp.py and  *)
(* kali_mcp.py, each the only process of a container that                  *)
(* gateway_mcp.py's Downstream starts for one call and talks to over its   *)
(* stdin and stdout.  The servers share main and handle; they differ in    *)
(* what a tool does.  A container keeps nothing, except that all sandbox   *)
(* containers mount one /work; the model holds one file of it.             *)
(*                                                                         *)
(* Gateway sees such a container as one that answers, breaks or goes; here *)
(* is when it does.  Mutant variants stand before the definition they vary *)
(* (README, Mutants).                                                      *)
(***************************************************************************)
EXTENDS Naturals, Sequences

CONSTANTS
    Calls,      \* downstream requests, each with a client and a container
    Commands,   \* tools that run a program: bash, net_*, kali_*
    Shells,     \* those of them that run in the sandbox and may touch /work
    Readers,    \* read_file
    Writers,    \* write_file
    Fetchers,   \* web_fetch
    Unknown,    \* a name the server does not offer (any more)
    ListTools   \* stands for the tools/list request of build_registry

Tools == Commands \cup Readers \cup Writers \cup Fetchers
Requests == Tools \cup {Unknown, ListTools}

ASSUME ToolsAssumption ==
    /\ Shells \subseteq Commands
    /\ Unknown \notin Tools /\ ListTools \notin Tools \cup {Unknown}

VARIABLES
    client,     \* where Downstream is in the call
    eof,        \* the client's end of the container's stdin is closed
    toolOf,     \* what is asked for
    toServer,   \* the container's stdin
    toClient,   \* its stdout
    srv,        \* where the server is in main, handle and the tool
    result,     \* what handle_call made of the answer
    begun,      \* calls whose program was started
    work,       \* the file under /work
    claim       \* history: the write that nothing but itself has disturbed

clientVars == <<client, eof, toolOf, result>>
fileVars == <<work, claim>>
vars == <<clientVars, toServer, toClient, srv, begun, fileVars>>

(***************************************************************************)
(* State                                                                   *)
(***************************************************************************)

Bodies == {"hello", "tools", "ok", "error", "redirect"}
Results == {"none", "broken"} \cup Bodies
Methods == {"initialize", "notifications/initialized", "tools/list", "tools/call"}

\* In claim.by: no write is claimed.  It is the name of no call.
NoCall == "no call"
ASSUME NoCallAssumption == NoCall \notin Calls

Claim(c, done) == [by |-> c, done |-> done]

\* What the clients, the servers and the shared file can be, and what may be
\* on its way: stdin holds no more than a notification and one request.
TypeOK ==
    /\ client \in [Calls -> {"idle", "init", "call", "close", "done", "killed"}]
    /\ eof \in [Calls -> BOOLEAN]
    /\ toolOf \in [Calls -> Requests]
    /\ result \in [Calls -> Results]
    /\ \A c \in Calls :
          /\ toServer[c] \in Seq([id : 0 .. 2, method : Methods])
          /\ Len(toServer[c]) <= 2
          /\ toClient[c] \in Seq([id : 0 .. 2, body : Bodies])
    /\ srv \in [Calls -> {"none", "read", "work", "run", "write", "open",
                          "body", "blocked", "gone"}]
    /\ begun \subseteq Calls
    /\ work \in {"absent", "empty", "fifo", "mixed"} \cup Calls
    /\ claim \in [by : Calls \cup {NoCall}, done : BOOLEAN]

Init ==
    /\ client = [c \in Calls |-> "idle"]
    /\ eof = [c \in Calls |-> FALSE]
    /\ toolOf = [c \in Calls |-> ListTools]
    /\ result = [c \in Calls |-> "none"]
    /\ toServer = [c \in Calls |-> <<>>]
    /\ toClient = [c \in Calls |-> <<>>]
    /\ srv = [c \in Calls |-> "none"]
    /\ begun = {}
    /\ work = "absent" /\ claim = Claim(NoCall, FALSE)

Request(id, method) == [id |-> id, method |-> method]
Reply(id, body) == [id |-> id, body |-> body]

(***************************************************************************)
(* Downstream                                                              *)
(***************************************************************************)

\* Popen and the initialize request
StartEager(c, t) ==
    /\ client[c] = "idle"
    /\ client' = [client EXCEPT ![c] = "init"]
    /\ toolOf' = [toolOf EXCEPT ![c] = t]
    /\ srv' = [srv EXCEPT ![c] = "read"]
    /\ toServer' = [toServer EXCEPT ![c] = <<Request(1, "initialize"),
                                   Request(0, "notifications/initialized")>>]
    /\ UNCHANGED <<eof, result, toClient, begun, fileVars>>
Start(c, t) ==
    /\ client[c] = "idle"
    /\ client' = [client EXCEPT ![c] = "init"]
    /\ toolOf' = [toolOf EXCEPT ![c] = t]
    /\ srv' = [srv EXCEPT ![c] = "read"]
    /\ toServer' = [toServer EXCEPT ![c] = <<Request(1, "initialize")>>]
    /\ UNCHANGED <<eof, result, toClient, begun, fileVars>>

Method(c) == IF toolOf[c] = ListTools THEN "tools/list" ELSE "tools/call"
Awaited(c) == IF client[c] = "init" THEN 1 ELSE 2
Waiting(c) == client[c] \in {"init", "call"}

\* request() reads its answer: after that of initialize come the notification
\* and the request itself, after that the result.  Another id is ignored.
Read(c) ==
    /\ Waiting(c) /\ toClient[c] # <<>>
    /\ toClient' = [toClient EXCEPT ![c] = Tail(@)]
    /\ LET m == Head(toClient[c])
           greeted == m.id = Awaited(c) /\ client[c] = "init"
           answered == m.id = Awaited(c) /\ client[c] = "call"
       IN  /\ client' = [client EXCEPT ![c] =
                CASE greeted -> "call" [] answered -> "close" [] OTHER -> @]
           /\ toServer' = [toServer EXCEPT ![c] =
                IF greeted THEN @ \o <<Request(0, "notifications/initialized"),
                                       Request(2, Method(c))>>
                           ELSE @]
           /\ result' = [result EXCEPT ![c] = IF answered THEN m.body ELSE @]
    /\ UNCHANGED <<eof, toolOf, srv, begun, fileVars>>

\* End of file: RuntimeError, which handle_call turns into an ERROR
ReadEnds(c) ==
    /\ Waiting(c) /\ toClient[c] = <<>> /\ srv[c] = "gone"
    /\ client' = [client EXCEPT ![c] = "close"]
    /\ result' = [result EXCEPT ![c] = "broken"]
    /\ UNCHANGED <<eof, toolOf, toServer, toClient, srv, begun, fileVars>>

\* close(): stdin first.  After at most 8 s it kills the docker client, which
\* does nothing to a container that is still up.
Close(c) ==
    /\ client[c] = "close"
    /\ client' = [client EXCEPT ![c] = "done"]
    /\ eof' = [eof EXCEPT ![c] = TRUE]
    /\ UNCHANGED <<toolOf, result, toServer, toClient, srv, begun, fileVars>>

\* The gateway process is killed; what it has written stays in the pipe.
KillClient(c) ==
    /\ client[c] \in {"init", "call", "close"}
    /\ client' = [client EXCEPT ![c] = "killed"]
    /\ eof' = [eof EXCEPT ![c] = TRUE]
    /\ UNCHANGED <<toolOf, result, toServer, toClient, srv, begun, fileVars>>

(***************************************************************************)
(* main and handle, the same in the four servers                           *)
(***************************************************************************)

Goto(c, stage) == srv' = [srv EXCEPT ![c] = stage]
Send(c, replies) == toClient' = [toClient EXCEPT ![c] = @ \o replies]

\* What handle sends for a message at once, without running a tool: one reply
\* for a request, none for the notification.
AtOnceNotified(m, t) ==
    CASE m.method = "initialize" -> <<Reply(m.id, "hello")>>
      [] m.method = "tools/list" -> <<Reply(m.id, "tools")>>
      [] m.method = "tools/call" /\ t = Unknown -> <<Reply(m.id, "error")>>
      [] OTHER -> <<Reply(m.id, "error")>>
AtOnce(m, t) ==
    CASE m.method = "initialize" -> <<Reply(m.id, "hello")>>
      [] m.method = "tools/list" -> <<Reply(m.id, "tools")>>
      [] m.method = "tools/call" /\ t = Unknown -> <<Reply(m.id, "error")>>
      [] OTHER -> <<>>

RunsTool(m, t) == m.method = "tools/call" /\ t \in Tools

\* One line of stdin
Serve(c) ==
    /\ srv[c] = "read" /\ toServer[c] # <<>>
    /\ LET m == Head(toServer[c]) IN
         IF RunsTool(m, toolOf[c])
         THEN Goto(c, "work") /\ UNCHANGED toClient
         ELSE Send(c, AtOnce(m, toolOf[c])) /\ UNCHANGED srv
    /\ toServer' = [toServer EXCEPT ![c] = Tail(@)]
    /\ UNCHANGED <<clientVars, begun, fileVars>>

\* End of stdin, once everything written to it was served: main returns
ServeEnds(c) ==
    /\ srv[c] = "read" /\ toServer[c] = <<>> /\ eof[c]
    /\ Goto(c, "gone")
    /\ UNCHANGED <<clientVars, toServer, toClient, begun, fileVars>>

\* A tool returned a text, or raised, which handle turns into isError
Respond(c, body) ==
    /\ Goto(c, "read")
    /\ Send(c, <<Reply(2, body)>>)
    /\ UNCHANGED <<clientVars, toServer>>

At(c, stage, tools) == srv[c] = stage /\ toolOf[c] \in tools

\* The arguments do not do: one is missing or of the wrong type, a host name
\* is malformed or not public, a path leads out of /work, the file is missing.
Refuse(c) ==
    /\ At(c, "work", Tools)
    /\ Respond(c, "error")
    /\ UNCHANGED <<begun, fileVars>>

(***************************************************************************)
(* Tools that run a program: subprocess.run with a time limit, the one     *)
(* the caller asked for (bash, kali_shell) or the server's own             *)
(***************************************************************************)

\* A program that may touch /work, or what it left in the background, which
\* lives as long as the container
ShellUp(c) == c \in begun /\ toolOf[c] \in Shells /\ srv[c] # "gone"
WriterUp(c) == srv[c] = "write" \/ ShellUp(c)
Contested == Claim(NoCall, FALSE)

RunBegins(c) ==
    /\ At(c, "work", Commands)
    /\ Goto(c, "run")
    /\ begun' = begun \cup {c}
    /\ claim' = IF toolOf[c] \in Shells THEN Contested ELSE claim
    /\ UNCHANGED <<clientVars, toServer, toClient, work>>

\* It exits, with any exit code
RunEnds(c) ==
    /\ srv[c] = "run"
    /\ Respond(c, "ok")
    /\ UNCHANGED <<begun, fileVars>>

\* TimeoutExpired: the program is killed, not what it left running
RunTimesOutNever(c) == FALSE
RunTimesOut(c) ==
    /\ srv[c] = "run"
    /\ Respond(c, "error")
    /\ UNCHANGED <<begun, fileVars>>

\* The program writes the file, removes it or puts a FIFO in its place
ShellTouches(c) ==
    /\ ShellUp(c)
    /\ work' \in {c, "absent", "fifo"}
    /\ UNCHANGED <<clientVars, toServer, toClient, srv, begun, claim>>

(***************************************************************************)
(* read_file and write_file                                                *)
(***************************************************************************)

\* Opening a FIFO waits, with no limit, until something opens its other end.
OpenBlocks(c) ==
    /\ At(c, "work", Readers \cup Writers) /\ work = "fifo"
    /\ Goto(c, "blocked")
    /\ UNCHANGED <<clientVars, toServer, toClient, begun, fileVars>>

OtherEndOpens(c) ==
    /\ srv[c] = "blocked"
    /\ Respond(c, "ok")
    /\ UNCHANGED <<begun, fileVars>>

ReadFile(c) ==
    /\ At(c, "work", Readers) /\ work \notin {"absent", "fifo"}
    /\ Respond(c, "ok")
    /\ UNCHANGED <<begun, fileVars>>

\* open(rp, "w") empties the file; f.write only fills a buffer.
OpenFile(c) ==
    /\ At(c, "work", Writers) /\ work # "fifo"
    /\ Goto(c, "write")
    /\ work' = "empty"
    /\ claim' = IF \A d \in Calls : ~WriterUp(d) THEN Claim(c, FALSE) ELSE Contested
    /\ UNCHANGED <<clientVars, toServer, toClient, begun>>

Acknowledge(c) == claim' = IF claim.by = c THEN Claim(c, TRUE) ELSE claim

\* The end of the with block writes the buffer, over what another writer may
\* have put there since, or to a file that is no longer the one at this path.
CloseFileUnflushed(c) ==
    /\ srv[c] = "write"
    /\ work' \in {work, c}
    /\ Acknowledge(c) /\ Respond(c, "ok")
    /\ UNCHANGED <<begun>>
CloseFile(c) ==
    /\ srv[c] = "write"
    /\ work' \in IF work = "empty" THEN {c} ELSE {work, c, "mixed"}
    /\ Acknowledge(c) /\ Respond(c, "ok")
    /\ UNCHANGED <<begun>>

\* No space left: the file stays as open left it.
CloseFileFails(c) ==
    /\ srv[c] = "write"
    /\ Respond(c, "error")
    /\ UNCHANGED <<begun, fileVars>>

(***************************************************************************)
(* web_fetch: a check of the URL, then one request                         *)
(***************************************************************************)

\* _assert_public_url found public addresses only
CheckUrl(c) ==
    /\ At(c, "work", Fetchers)
    /\ Goto(c, "open")
    /\ UNCHANGED <<clientVars, toServer, toClient, begun, fileVars>>

\* The site answers with a page, whose body is still to come.
OpenUrl(c) ==
    /\ srv[c] = "open"
    /\ Goto(c, "body")
    /\ UNCHANGED <<clientVars, toServer, toClient, begun, fileVars>>

\* It answers with a redirect.  The handler's None makes the opener raise an
\* HTTPError: the lines that would check and open the Location in another
\* round are never reached.
OpenRedirects(c) ==
    /\ srv[c] = "open"
    /\ Respond(c, "redirect")
    /\ UNCHANGED <<begun, fileVars>>

\* It answers with another status, refuses, or says nothing for 20 s.
OpenFails(c) ==
    /\ srv[c] = "open"
    /\ Respond(c, "error")
    /\ UNCHANGED <<begun, fileVars>>

\* The body is read up to max_bytes: the 20 s are for each piece of it.
BodyEnds(c, body) ==
    /\ srv[c] = "body"
    /\ body \in {"ok", "error"}
    /\ Respond(c, body)
    /\ UNCHANGED <<begun, fileVars>>

(***************************************************************************)

\* The container ends in the middle of anything: out of memory, docker kill
ContainerDies(c) ==
    /\ srv[c] \notin {"none", "gone"}
    /\ Goto(c, "gone")
    /\ UNCHANGED <<clientVars, toServer, toClient, begun, fileVars>>

ClientStep(c) == Read(c) \/ ReadEnds(c) \/ Close(c)

\* What a server does by itself
ServerStep(c) ==
    \/ Serve(c) \/ ServeEnds(c) \/ Refuse(c) \/ RunBegins(c) \/ RunTimesOut(c)
    \/ OpenBlocks(c) \/ ReadFile(c) \/ OpenFile(c)
    \/ CloseFile(c) \/ CloseFileFails(c) \/ CheckUrl(c) \/ OpenFails(c)

Next ==
    \E c \in Calls :
        \/ \E t \in Requests : Start(c, t)
        \/ ClientStep(c) \/ ServerStep(c)
        \/ RunEnds(c) \/ ShellTouches(c) \/ OtherEndOpens(c)
        \/ OpenUrl(c) \/ OpenRedirects(c)
        \/ \E body \in Bodies : BodyEnds(c, body)
        \/ KillClient(c) \/ ContainerDies(c)

Spec == Init /\ [][Next]_vars

\* Clients and servers run; limits expire.  Nothing says that a program ends,
\* a site answers, or someone opens the other end of a FIFO.
FairSpec ==
    /\ Spec
    /\ \A c \in Calls : WF_vars(ClientStep(c)) /\ WF_vars(ServerStep(c))

(***************************************************************************)
(* Properties                                                              *)
(***************************************************************************)

\* stdout holds at most one reply, and to the request the client waits for:
\* request() never takes another's answer, nor leaves one behind (handle).
OneReplyPerRequest ==
    \A c \in Calls :
        /\ Len(toClient[c]) <= 1
        /\ Waiting(c) => \A i \in DOMAIN toClient[c] : toClient[c][i].id = Awaited(c)

\* A write answered as done, which no other writer met, is what the file holds
\* until the next one opens it, whichever containers come and go (write_file,
\* /work outliving its container).
WriteStands == claim.done => work = claim.by

\* Where only someone outside can end a tool
OnOthers(c) == srv[c] \in {"body", "blocked"}

\* In the end every call is over and its container gone, unless a site keeps
\* sending or a file tool waits at a FIFO: request() has no limit of its own
\* (gateway_mcp.py:94), the tools' limits have to do.
CallsEnd ==
    \A c \in Calls :
        <>[](OnOthers(c) \/ (~Waiting(c) /\ srv[c] \in {"none", "gone"}))

\* "Redirects are followed manually and each hop is re-validated"
\* (web_mcp.py:10): no fetch ends with the redirect itself.
RedirectsFollowed == \A c \in Calls : result[c] # "redirect"
=============================================================================
