---------------------------- MODULE MCReconcile ----------------------------
(***************************************************************************)
(* An administrator reconciles an account while a student's submission is  *)
(* committed: the smallest meeting of reconcile_budget and ledger.py.      *)
(***************************************************************************)
EXTENDS Reconcile

CONSTANTS alice, g, s1

MCAmounts == 0 .. 3
MCAdjustments == { [c \in {"granted", "reserved", "used"} |-> 0] }

call(op, session, tokens) ==
  [op |-> op, session |-> session, user |-> alice, tokens |-> tokens,
   actual |-> 0, delta |-> CHOOSE d \in MCAdjustments : TRUE]

MCCallOf ==
  [r \in Requests |-> IF r = g THEN call("grant", "clean", 3)
                               ELSE call("reserve", "dirty", 2)]
=============================================================================
