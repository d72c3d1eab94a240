---------------------------- MODULE MCSseBroker ----------------------------
(***************************************************************************)
(* SseBroker with two broadcasting threads and one connection: what other  *)
(* connections do to this one goes through the broker's set and history,   *)
(* which they only read or leave.                                          *)
(***************************************************************************)
EXTENDS SseBroker
=============================================================================
