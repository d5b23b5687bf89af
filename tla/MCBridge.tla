------------------------------- MODULE MCBridge -------------------------------
(***************************************************************************)
(* Bridge for TLC.  Two sessions are the fewest with which every pair of   *)
(* handlers overlaps; three are the fewest with which one is replaced      *)
(* while it is itself replacing another.                                   *)
(***************************************************************************)
EXTENDS Bridge

MCOneSession == {1}
MCTwoSessions == 1 .. 2
MCThreeSessions == 1 .. 3
=============================================================================
