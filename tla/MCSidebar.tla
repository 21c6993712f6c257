----------------------------- MODULE MCSidebar -----------------------------
(***************************************************************************)
(* Instances of Sidebar for TLC: one session, since sessions share nothing *)
(* but the order of their messages.                                        *)
(***************************************************************************)
EXTENDS Sidebar

E(kind) == [session |-> "s1", kind |-> kind]

TwoEvents == <<E("plain"), E("alert")>>
=============================================================================
