------------------------------ MODULE ToolGate ------------------------------
(***************************************************************************)
(* What the gateway promises of each tool call, without processes, files   *)
(* or containers: a ruling is given once, only an allowed call runs and at *)
(* most once, the log holds at most one line for a call, with its ruling,  *)
(* and Goose is told an outcome or a refusal only after that line: without *)
(* it, at most that something went wrong.                                  *)
(*                                                                         *)
(* Gateway implements it (Gateway, Promise).                               *)
(***************************************************************************)
EXTENDS Naturals, Sequences

CONSTANT Calls

VARIABLES
    ruling,     \* what was decided of each call
    ran,        \* calls whose tool took effect
    log,        \* the audit log: calls with their rulings
    told        \* what Goose was told: the outcome of a tool that was
                \* forwarded, the refusal, a fault that kept the ruling out of
                \* the log, or something else ("aside": a list of tools, an
                \* error before any tool)

gateVars == <<ruling, ran, log, told>>

Rulings == {"open", "allowed", "refused"}
Tellings == {"nothing", "outcome", "refusal", "fault", "aside"}
LoggedAs(c) == {log[i].ruling : i \in {j \in DOMAIN log : log[j].call = c}}

Init ==
    /\ ruling = [c \in Calls |-> "open"]
    /\ ran = {}
    /\ log = <<>>
    /\ told = [c \in Calls |-> "nothing"]

Rule(c, r) ==
    /\ ruling[c] = "open" /\ told[c] = "nothing"
    /\ ruling' = [ruling EXCEPT ![c] = r]
    /\ UNCHANGED <<ran, log, told>>

\* The tool may also run after its call was given up and told as failed, but
\* not once Goose was told something that has to do with no tool.
Run(c) ==
    /\ ruling[c] = "allowed" /\ told[c] # "aside"
    /\ ran' = ran \cup {c}
    /\ UNCHANGED <<ruling, log, told>>

Record(c) ==
    /\ ruling[c] # "open" /\ told[c] = "nothing" /\ LoggedAs(c) = {}
    /\ log' = Append(log, [call |-> c, ruling |-> ruling[c]])
    /\ UNCHANGED <<ruling, ran, told>>

Tell(c, what) ==
    /\ told[c] = "nothing"
    /\ LoggedAs(c) = CASE what = "outcome" -> {"allowed"}
                       [] what = "refusal" -> {"refused"}
                       [] OTHER -> {}
    /\ what = "fault" => ruling[c] # "open"
    /\ what = "aside" => c \notin ran
    /\ told' = [told EXCEPT ![c] = what]
    /\ UNCHANGED <<ruling, ran, log>>

Next ==
    \E c \in Calls :
        \/ \E r \in {"allowed", "refused"} : Rule(c, r)
        \/ Run(c) \/ Record(c)
        \/ \E what \in {"outcome", "refusal", "fault", "aside"} : Tell(c, what)

Spec == Init /\ [][Next]_gateVars
=============================================================================
