----------------------------- MODULE ClaimOrder -----------------------------
(***************************************************************************)
(* dispatcher.py _claim_tasks: which pending tasks a pass of the           *)
(* dispatcher takes, and what that means for the users from pass to pass.  *)
(*                                                                         *)
(* The claim query returns the pending tasks of batches in progress, by    *)
(* creation time of the batch and then by line; "pending" is that list.    *)
(* A pass takes as many as there is free capacity on healthy nodes.        *)
(***************************************************************************)
EXTENDS Integers, Sequences, FiniteSets, SequencesExt

CONSTANTS
  Users,      \* students with batches
  Capacity,   \* parallel slots of all healthy nodes
  BatchSizes, \* numbers of lines a batch may have
  MaxTasks    \* bound: tasks submitted during the run

ASSUME SizesAssumption ==
  /\ Capacity \in Nat \ {0}
  /\ BatchSizes \subseteq Nat \ {0}

VARIABLES
  pending,    \* rows of the claim query: sequence of [user, task]
  submitted,  \* how many tasks there have been
  ahead       \* ahead[u][v]: tasks of v claimed since u last had one claimed
              \* or had nothing to wait for

vars == <<pending, submitted, ahead>>

-----------------------------------------------------------------------------
(* The claim itself.                                                       *)

(* Variant: the user with the youngest batch goes first.                   *)
AddRowFront(groups, row) ==
  [user_order |-> IF groups.by_user[row.user] = <<>>
                  THEN <<row.user>> \o groups.user_order ELSE groups.user_order,
   by_user |-> [groups.by_user EXCEPT ![row.user] = Append(@, row)]]

(* The body of the first loop: a user is noted with the first row.         *)
AddRow(groups, row) ==
  [user_order |-> IF groups.by_user[row.user] = <<>>
                  THEN Append(groups.user_order, row.user) ELSE groups.user_order,
   by_user |-> [groups.by_user EXCEPT ![row.user] = Append(@, row)]]

GroupByUser(rows) ==
  FoldLeft(LAMBDA groups, row : AddRow(groups, row),
           [user_order |-> <<>>, by_user |-> [u \in Users |-> <<>>]], rows)

(* Variant: a user's whole queue is taken at once.                         *)
TakeQueue(state, u, limit) ==
  LET room == limit - Len(state.claimed)
      queue == state.by_user[u]
      n == IF room < Len(queue) THEN room ELSE Len(queue)
  IN  [claimed |-> state.claimed \o SubSeq(queue, 1, n),
       by_user |-> [state.by_user EXCEPT ![u] = SubSeq(queue, n + 1, Len(queue))]]

(* The body of the inner loop: one task of u, unless the limit is reached  *)
(* or u has none left.                                                     *)
TakeOne(state, u, limit) ==
  IF Len(state.claimed) < limit /\ state.by_user[u] # <<>>
  THEN [claimed |-> Append(state.claimed, Head(state.by_user[u])),
        by_user |-> [state.by_user EXCEPT ![u] = Tail(@)]]
  ELSE state

(* The inner loop: once through the users.                                 *)
Round(state, order, limit) ==
  FoldLeft(LAMBDA st, u : TakeOne(st, u, limit), state, order)

(* The outer loop ends when the limit is reached or nothing is left, after *)
(* at most one round per row; a further round changes nothing.             *)
ClaimTasks(rows, limit) ==
  LET groups == GroupByUser(rows)
      start == [claimed |-> <<>>, by_user |-> groups.by_user]
  IN  FoldLeft(LAMBDA st, row : Round(st, groups.user_order, limit), start, rows).claimed

-----------------------------------------------------------------------------
(* Passes over a queue that students add to.                               *)

Init ==
  /\ pending = <<>>
  /\ submitted = 0
  /\ ahead = [u \in Users |-> [v \in Users |-> 0]]

(* A batch is created after every other, so its tasks come last.           *)
SubmitBatch(u, lines) ==
  /\ submitted + lines <= MaxTasks
  /\ pending' = pending \o
       [i \in 1 .. lines |-> [user |-> u, task |-> submitted + i]]
  /\ submitted' = submitted + lines
  /\ UNCHANGED ahead

Count(rows, u) == Cardinality({i \in DOMAIN rows : rows[i].user = u})

(* The rows of the next claim query, once these are running.               *)
StillPending(rows, claimed) ==
  FoldLeft(LAMBDA rest, row : IF row \in ToSet(claimed) THEN rest ELSE Append(rest, row),
           <<>>, rows)

(* dispatch_once with this much free capacity: nothing of a pass is        *)
(* remembered in the next one but what is still pending.                   *)
Pass(free) ==
  LET claimed == ClaimTasks(pending, free) IN
  /\ pending # <<>>
  /\ pending' = StillPending(pending, claimed)
  /\ ahead' = [u \in Users |->
       IF Count(pending', u) = 0 \/ Count(claimed, u) > 0
       THEN [v \in Users |-> 0]
       ELSE [v \in Users |-> ahead[u][v] + Count(claimed, v)]]
  /\ UNCHANGED submitted

Done == submitted = MaxTasks /\ pending = <<>> /\ UNCHANGED vars

Next ==
  \/ \E u \in Users, lines \in BatchSizes : SubmitBatch(u, lines)
  \/ \E free \in 1 .. Capacity : Pass(free)
  \/ Done

Spec == Init /\ [][Next]_vars

-----------------------------------------------------------------------------
(* Reference definition: a row's turn is the number of rows of its user    *)
(* before it; rows are claimed by turn, users by their oldest row.         *)
Turn(rows, i) == Cardinality({j \in 1 .. i - 1 : rows[j].user = rows[i].user})

FirstRow(rows, u) ==
  CHOOSE i \in DOMAIN rows :
    rows[i].user = u /\ \A j \in DOMAIN rows : rows[j].user = u => i <= j

Earlier(rows, i, j) ==
  \/ Turn(rows, i) < Turn(rows, j)
  \/ /\ Turn(rows, i) = Turn(rows, j)
     /\ FirstRow(rows, rows[i].user) < FirstRow(rows, rows[j].user)

Place(rows, i) ==
  1 + Cardinality({j \in DOMAIN rows : Earlier(rows, j, i)})

Reference(rows, limit) ==
  [p \in 1 .. (IF limit < Len(rows) THEN limit ELSE Len(rows)) |->
     rows[CHOOSE i \in DOMAIN rows : Place(rows, i) = p]]

(* The nested loops claim exactly the rows with the lowest turns, in that  *)
(* order, and stop neither early nor late.                                 *)
ClaimsByTurn ==
  \A limit \in 0 .. Capacity + 1 :
    ClaimTasks(pending, limit) = Reference(pending, limit)

(* Within a pass, whoever still has work left is at most one task behind   *)
(* anybody else.                                                           *)
FairShare ==
  \A limit \in 1 .. Capacity : \A u, v \in Users :
    LET claimed == ClaimTasks(pending, limit) IN
    Count(claimed, u) < Count(pending, u)
      => Count(claimed, v) <= Count(claimed, u) + 1

(* Every pass takes the oldest pending task, so no task waits forever.     *)
OldestIsTaken ==
  \A limit \in 1 .. Capacity :
    pending # <<>> => ClaimTasks(pending, limit)[1] = pending[1]

(* _claim_tasks, PLAN: round robin, so that a single large batch cannot    *)
(* starve everyone else's work: nobody gets a second task while somebody   *)
(* else waits for a first one.                                             *)
NobodyStarves == \A u, v \in Users : ahead[u][v] <= 1
=============================================================================
