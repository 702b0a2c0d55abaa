---------------------------- MODULE TokenLedger ----------------------------
(***************************************************************************)
(* What batchsvc/ledger.py promises its callers: every function is one     *)
(* atomic step on a user's materialized Budget row and on the append-only  *)
(* ledger, and both move by the same amounts.                              *)
(*                                                                         *)
(* The ledger is represented by what recompute_budget makes of it: the sum *)
(* of the deltas of a user's entries, column by column.  Entries are never *)
(* updated or deleted, so appending an entry adds its deltas to that sum.  *)
(***************************************************************************)
EXTENDS Integers

CONSTANTS
  Users,     \* accounts that own a budget
  Amounts,   \* token amounts callers pass (prompt estimates, max_tokens, usage)
  Adjustments \* deltas an administrator may book by hand

VARIABLES
  budget,    \* budgets rows: [Users -> columns]
  replay     \* recompute_budget(user): [Users -> summed deltas]

vars == <<budget, replay>>

Columns == {"granted", "reserved", "used"}

Zero == [c \in Columns |-> 0]

Min2(a, b) == IF a <= b THEN a ELSE b

Available(row) == row["granted"] - row["reserved"] - row["used"]

(* Variant: a release is booked in full, whatever is still reserved.       *)
ReleaseUnclamped(row, tokens) == [Zero EXCEPT !["reserved"] = -tokens]

(* The deltas one entry records, as a function of the row it is computed   *)
(* from.  A release or charge is clamped to what is still reserved.        *)
GrantDelta(tokens) == [Zero EXCEPT !["granted"] = tokens]

ReserveDelta(tokens) == [Zero EXCEPT !["reserved"] = tokens]

ReleaseDelta(row, tokens) ==
  [Zero EXCEPT !["reserved"] = -Min2(tokens, row["reserved"])]

ChargeDelta(row, tokens, actual) ==
  [Zero EXCEPT !["reserved"] = -Min2(tokens, row["reserved"]),
               !["used"] = actual]

Plus(row, delta) == [c \in Columns |-> row[c] + delta[c]]

-----------------------------------------------------------------------------

Init ==
  /\ budget = [u \in Users |-> Zero]
  /\ replay = [u \in Users |-> Zero]

Book(u, delta) ==
  /\ budget' = [budget EXCEPT ![u] = Plus(@, delta)]
  /\ replay' = [replay EXCEPT ![u] = Plus(@, delta)]

Grant(u, tokens) == tokens > 0 /\ Book(u, GrantDelta(tokens))

(* Variant: the reservation is booked without asking whether it fits.      *)
ReserveAnyway(u, tokens) == tokens > 0 /\ Book(u, ReserveDelta(tokens))

(* The row is only ever reserved against when the amount fits.             *)
Reserve(u, tokens) ==
  /\ tokens > 0
  /\ tokens <= Available(budget[u])
  /\ Book(u, ReserveDelta(tokens))

Release(u, tokens) == tokens > 0 /\ Book(u, ReleaseDelta(budget[u], tokens))

Charge(u, tokens, actual) == Book(u, ChargeDelta(budget[u], tokens, actual))

(* Manual correction: the deltas are booked as they are.                   *)
Adjust(u, delta) == Book(u, delta)

Next ==
  \E u \in Users :
    \/ \E tokens \in Amounts : \/ Grant(u, tokens)
                               \/ Reserve(u, tokens)
                               \/ Release(u, tokens)
    \/ \E tokens, actual \in Amounts : Charge(u, tokens, actual)
    \/ \E delta \in Adjustments : Adjust(u, delta)

Spec == Init /\ [][Next]_vars
=============================================================================
