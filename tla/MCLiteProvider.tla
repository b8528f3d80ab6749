---------------------------- MODULE MCLiteProvider ----------------------------
(* One user beside the updater and the pinger, and two sessions: one that *)
(* ends while queries are under way, and the one that replaces it.         *)
EXTENDS LiteProvider
MCUsers == {"u1"}
==============================================================================
