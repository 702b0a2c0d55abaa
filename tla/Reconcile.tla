----------------------------- MODULE Reconcile -----------------------------
(***************************************************************************)
(* routers/admin.py reconcile_budget beside the calls of LedgerThreads.    *)
(*                                                                         *)
(* The handler sums the ledger, reads the budgets row in a second query    *)
(* and, when they differ, commits the sums.  It never takes _budget_lock;  *)
(* only its final commit needs SQLite's write lock.                        *)
(***************************************************************************)
EXTENDS LedgerThreads

CONSTANT Account     \* the user the administrator reconciles

VARIABLES
  admin,    \* where the handler is
  sums,     \* what recompute_budget returned
  dirty     \* columns the handler found different

adminVars == <<admin, sums, dirty>>

ReconcileInit ==
  /\ Init
  /\ admin = "start"
  /\ sums = Ledger!Zero
  /\ dirty = {}

RecomputeBudget ==
  /\ admin = "start"
  /\ admin' = "summed"
  /\ sums' = replay[Account]
  /\ UNCHANGED <<dirty, vars>>

(* user.budget: the row as it is now.                                      *)
CompareBudget ==
  /\ admin = "summed"
  /\ dirty' = {c \in Ledger!Columns : budget[Account][c] # sums[c]}
  /\ admin' = IF dirty' = {} THEN "returned" ELSE "correcting"
  /\ UNCHANGED <<sums, vars>>

(* The commit writes the columns that differed, whatever they are by now.  *)
CorrectBudget ==
  /\ admin = "correcting"
  /\ Free(dbLock)
  /\ admin' = "returned"
  /\ budget' = [budget EXCEPT ![Account] =
                  [c \in Ledger!Columns |->
                     IF c \in dirty THEN sums[c] ELSE @[c]]]
  /\ UNCHANGED <<sums, dirty, pc, local, rows, replay, budgetLock, dbLock>>

ReconcileNext ==
  \/ Next /\ UNCHANGED adminVars
  \/ RecomputeBudget
  \/ CompareBudget
  \/ CorrectBudget

ReconcileSpec == ReconcileInit /\ [][ReconcileNext]_<<vars, adminVars>>
=============================================================================
