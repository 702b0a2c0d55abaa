------------------------------ MODULE MCPortal ------------------------------
(***************************************************************************)
(* One student for TLC, two threads and three keys.                        *)
(***************************************************************************)
EXTENDS Portal

CONSTANTS alice, k1, k2, k3, r1, r2
=============================================================================
