---------------------------- MODULE MCInjectedIds ----------------------------
(***************************************************************************)
(* InjectedIds for TLC: a range of four ids of which two may be            *)
(* outstanding, so that the counter wraps, ids are skipped, evicted and    *)
(* reused; the cloud uses one id of the range.                             *)
(***************************************************************************)
EXTENDS InjectedIds

MCCloudIds == {1}
=============================================================================
