---------------------------- MODULE MCBatchStore ----------------------------
(***************************************************************************)
(* A small deployment for TLC: alice's batch b1 of two lines and her batch *)
(* b2 of one, paid from one allowance, a thread for cancel requests and    *)
(* the retention job.                                                      *)
(***************************************************************************)
EXTENDS BatchStore

CONSTANTS b1, b2, t1, t2, t3, alice, bob, canceller, retention

MCOwnerOf == [b \in Batches |-> alice]

(* The same batches, owned by two students.                                *)
MCTwoOwners == [b \in Batches |-> IF b = b1 THEN alice ELSE bob]

MCBatchOf == [t \in Tasks |-> IF t = t3 THEN b2 ELSE b1]

(* Every line reserves two tokens.                                         *)
MCWeight == [S \in SUBSET Tasks |-> 2 * Cardinality(S)]

(* A node reports half of the reservation or all of it.                    *)
MCUsageOf == [t \in Tasks |-> {1, 2}]

MCFullUsage == [t \in Tasks |-> {2}]
=============================================================================
