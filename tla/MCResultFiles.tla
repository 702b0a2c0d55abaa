---------------------------- MODULE MCResultFiles ----------------------------
(***************************************************************************)
(* Two batches for TLC, one of them with an error file, and one download.  *)
(***************************************************************************)
EXTENDS ResultFiles

CONSTANTS b1, b2, r1

MCWithErrors == {b1}
=============================================================================
