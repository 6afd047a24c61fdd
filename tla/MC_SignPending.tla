----------------------------- MODULE MC_SignPending -----------------------------
(***************************************************************************)
(* The signing loop called with None (get_errors) or Some(0), Some(1) and  *)
(* Some(2) on a session manager with up to three payloads queued: fewer,  *)
(* as many as, and more than expected.                                     *)
(***************************************************************************)
EXTENDS SignPending, TLC

MC_ExpectedArgs == {<<>>, <<0>>, <<1>>, <<2>>}
=============================================================================
