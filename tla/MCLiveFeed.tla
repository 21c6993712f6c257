----------------------------- MODULE MCLiveFeed -----------------------------
(***************************************************************************)
(* Instances of LiveFeed for TLC: one page, since pages share only the     *)
(* hub's publish tasks, which serve every subscriber alike.                *)
(***************************************************************************)
EXTENDS LiveFeed

CONSTANTS page1, s1, s2
=============================================================================
