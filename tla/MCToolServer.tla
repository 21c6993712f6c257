---------------------------- MODULE MCToolServer ----------------------------
(* Instances of ToolServer for TLC: two calls, one tool of each kind. *)
EXTENDS ToolServer
=============================================================================
