---------------------------- MODULE MCEventTable ----------------------------
(***************************************************************************)
(* Instances of EventTable for TLC.                                        *)
(***************************************************************************)
EXTENDS EventTable

E(s, kind) == [session |-> s, kind |-> kind]

TwoEvents == <<E("s1", "plain"), E("s1", "alert")>>

All == {Kinds}
AlertsOrAll == {Kinds, {"alert"}}
PlainOrAll == {Kinds, {"plain"}}
=============================================================================
