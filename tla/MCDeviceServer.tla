---------------------------- MODULE MCDeviceServer ----------------------------
(***************************************************************************)
(* DeviceServer for TLC.  Keepalive 1 s has the deadline closest to the    *)
(* poll, and here one that a single handler can outlast; 2 s has one that  *)
(* none outlasts; 0 is not enforced.                                       *)
(***************************************************************************)
EXTENDS DeviceServer

CONSTANTS a, b

MCPeers == {a, b}
MCKeepAlives == {0, 1, 2}
=============================================================================
