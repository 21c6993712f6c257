----------------------------- MODULE MCGateway -----------------------------
(***************************************************************************)
(* Instances of Gateway for TLC.  Between them the policies have the kinds *)
(* of entry policy.json can hold: a tool whose tier acts "auto" (read), a  *)
(* tool whose tier acts "approve" (shell), and a tool that falls to its    *)
(* server's default tier, which has no action (scan).                      *)
(***************************************************************************)
EXTENDS Gateway, TLC

CONSTANTS g1, g2, read, shell, scan, ann, bob

\* Two servers; the second has a default tier that tier_actions leaves out.
TwoServers == [t \in Tools |-> IF t = scan THEN 2 ELSE 1]
TwoServerTiers == read :> "LOW"
TwoServerDefaults == <<"MEDIUM", "CRITICAL">>

\* One server
OneServer == [t \in Tools |-> 1]
OneServerTiers == shell :> "HIGH"
OneServerDefaults == <<"MEDIUM">>

Actions == "LOW" :> "auto" @@ "MEDIUM" :> "auto" @@ "HIGH" :> "approve"

\* Gateways, and people, are interchangeable in every safety property.
Symmetry == Permutations(Gateways) \cup Permutations(Operators)

=============================================================================
