------------------------------ MODULE MCIngest ------------------------------
(***************************************************************************)
(* Instances of Ingest for TLC.                                            *)
(***************************************************************************)
EXTENDS Ingest

\* Two calls and a text: a response shares its message with the next request,
\* and another with a text.
TwoCalls ==
    << <<Item("request", "a")>>,
       <<Item("response", "a"), Item("request", "b")>>,
       <<Item("response", "b"), Item("text", "t")>> >>
=============================================================================
