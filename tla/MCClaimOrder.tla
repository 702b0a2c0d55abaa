---------------------------- MODULE MCClaimOrder ----------------------------
(***************************************************************************)
(* Three students, up to six tasks in batches of one or three lines, two   *)
(* slots: more users than slots, and batches larger than a pass.           *)
(***************************************************************************)
EXTENDS ClaimOrder

CONSTANTS alice, bob, carol
=============================================================================
