--------------------------- MODULE MCDeviceSession ---------------------------
(***************************************************************************)
(* DeviceSession for TLC: one SUBSCRIBE id, one PUBLISH id and the         *)
(* CONNECT are enough for every pair of requests that can be outstanding   *)
(* at once, of the two kinds the code treats differently; and one PUBLISH  *)
(* whose topic names another appliance.                                    *)
(***************************************************************************)
EXTENDS DeviceSession

CONSTANTS s1, p1, f1

MCAsks == {s1}
MCPublishes == {p1, f1}
MCForeign == {f1}
=============================================================================
