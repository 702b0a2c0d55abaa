-------------------------- MODULE ClaimOrder_proofs --------------------------
(***************************************************************************)
(* The loops of _claim_tasks, for every set of users, every queue and      *)
(* every capacity.  A loop is a fold of the model; FoldTheorems gives its  *)
(* states one after the other, and an invariant is carried along them:     *)
(* the first loop has queued the rows by their turns and the users by      *)
(* their first row; after r rounds and p users of the next one the rows    *)
(* with a lower turn than r, and with turn r those of the first p users,   *)
(* are claimed at their places, as far as the limit allows.                *)
(***************************************************************************)
EXTENDS ClaimOrder, FoldTheorems

-----------------------------------------------------------------------------
(* The loops of the model, state by state.                                 *)

NoGroups == [user_order |-> <<>>, by_user |-> [u \in Users |-> <<>>]]

(* U holds the beginning of the loop and is closed under its step.         *)
GroupStays(rows, n, U) ==
  /\ n \in Nat /\ DOMAIN rows = 1..n /\ NoGroups \in U
  /\ \A st \in U, k \in 1..n : AddRow(st, rows[k]) \in U

(* The first loop, over the rows.                                          *)
LEMMA GroupStates ==
  ASSUME NEW rows, NEW n, NEW U, GroupStays(rows, n, U)
  PROVE  \E sts \in [0..n -> U] :
           /\ sts[0] = NoGroups
           /\ \A k \in 1..n : sts[k] = AddRow(sts[k - 1], rows[k])
           /\ GroupByUser(rows) = sts[n]
<1>0. n \in Nat /\ DOMAIN rows = 1..n /\ NoGroups \in U
      /\ \A st \in U, k \in 1..n : AddRow(st, rows[k]) \in U
  BY DEF GroupStays
<1> USE <1>0
<1> DEFINE op == [p \in (1..n) \X U |-> AddRow(p[2], rows[p[1]])]
           Loop(g) == g = [s \in SUBSET DOMAIN rows |->
             IF s = {} THEN NoGroups ELSE AddRow(g[s \ {Max(s)}], rows[Max(s)])]
           fold == CHOOSE g : Loop(g)
<1>1. GroupByUser(rows) = fold[DOMAIN rows]
  BY DEF GroupByUser, NoGroups, FoldLeft, MapThenFoldSet
<1>2. op \in [(1..n) \X U -> U]
  OBVIOUS
<1>3. \A k \in 1..n, st \in U : op[<<k, st>>] = AddRow(st, rows[k])
  OBVIOUS
<1> HIDE DEF op
<1>4. \A s \in SUBSET (1..n) : s # {} => Max(s) \in 1..n /\ s \ {Max(s)} \in SUBSET (1..n)
  BY LastsChoose
<1>5. \E g : Loop(g)
  <2>1. PICK g \in [SUBSET (1..n) -> U] : FoldsBy(Lasts(n), 1..n, NoGroups, op, g)
    BY <1>2, LoopExists
  <2>2. ASSUME NEW s \in SUBSET (1..n)
        PROVE  g[s] = IF s = {} THEN NoGroups ELSE AddRow(g[s \ {Max(s)}], rows[Max(s)])
    <3>1. g[s] = IF s = {} THEN NoGroups ELSE op[<<Max(s), g[s \ {Max(s)}]>>]
      BY <2>1, LastsChoose DEF FoldsBy
    <3>2. s # {} => Max(s) \in 1..n /\ g[s \ {Max(s)}] \in U
      BY <1>4
    <3> QED  BY <1>3, <3>1, <3>2
  <2> QED  BY <2>2
<1>6. Loop(fold)
  <2> HIDE DEF Loop
  <2> QED  BY <1>5
<1>7. AgreesOn(U, n, NoGroups, op, fold)
  <2> HIDE DEF fold
  <2>1. fold[{}] = NoGroups
    BY <1>6
  <2>2. ASSUME NEW s \in SUBSET (1..n), s # {}, fold[s \ {Max(s)}] \in U
        PROVE  fold[s] = op[<<Max(s), fold[s \ {Max(s)}]>>]
    <3>1. fold[s] = AddRow(fold[s \ {Max(s)}], rows[Max(s)])
      BY <1>6, <2>2
    <3>2. Max(s) \in 1..n
      BY <1>4, <2>2
    <3>3. op[<<Max(s), fold[s \ {Max(s)}]>>] = AddRow(fold[s \ {Max(s)}], rows[Max(s)])
      BY <1>3, <2>2, <3>2
    <3> QED  BY <3>1, <3>3
  <2>3. \A s \in SUBSET (1..n) : Lasts(n)[s] = Max(s)
    BY LastsChoose
  <2> QED  BY <1>2, <2>1, <2>2, <2>3 DEF AgreesOn
<1> HIDE <1>0 DEF fold
<1>8. \E sts \in [0..n -> U] : LoopStates(n, NoGroups, op, sts) /\ fold[1..n] = sts[n]
  BY <1>7, LoopUnfolds
<1>9. PICK sts \in [0..n -> U] : LoopStates(n, NoGroups, op, sts) /\ fold[1..n] = sts[n]
  BY <1>8
<1>10. ASSUME NEW k \in 1..n PROVE sts[k] = AddRow(sts[k - 1], rows[k])
  <2>1. k - 1 \in 0..n
    BY <1>0
  <2> QED  BY <1>3, <1>9, <2>1 DEF LoopStates
<1>11. sts[0] = NoGroups
  BY <1>9 DEF LoopStates
<1>12. GroupByUser(rows) = fold[1..n]
  BY <1>0, <1>1
<1> QED  BY <1>9, <1>10, <1>11, <1>12

(* The same for the inner loop.                                            *)
RoundStays(limit, order, n, U, start) ==
  /\ n \in Nat /\ DOMAIN order = 1..n /\ start \in U
  /\ \A st \in U, k \in 1..n : TakeOne(st, order[k], limit) \in U

(* The inner loop, over the users.                                         *)
LEMMA RoundStates ==
  ASSUME NEW limit, NEW order, NEW n, NEW U, NEW start, RoundStays(limit, order, n, U, start)
  PROVE  \E sts \in [0..n -> U] :
           /\ sts[0] = start
           /\ \A k \in 1..n : sts[k] = TakeOne(sts[k - 1], order[k], limit)
           /\ Round(start, order, limit) = sts[n]
<1>0. n \in Nat /\ DOMAIN order = 1..n /\ start \in U
      /\ \A st \in U, k \in 1..n : TakeOne(st, order[k], limit) \in U
  BY DEF RoundStays
<1> USE <1>0
<1> DEFINE op == [p \in (1..n) \X U |-> TakeOne(p[2], order[p[1]], limit)]
           Loop(g) == g = [s \in SUBSET DOMAIN order |->
             IF s = {} THEN start ELSE TakeOne(g[s \ {Max(s)}], order[Max(s)], limit)]
           fold == CHOOSE g : Loop(g)
<1>1. Round(start, order, limit) = fold[DOMAIN order]
  BY DEF Round, FoldLeft, MapThenFoldSet
<1>2. op \in [(1..n) \X U -> U]
  OBVIOUS
<1>3. \A k \in 1..n, st \in U : op[<<k, st>>] = TakeOne(st, order[k], limit)
  OBVIOUS
<1> HIDE DEF op
<1>4. \A s \in SUBSET (1..n) : s # {} => Max(s) \in 1..n /\ s \ {Max(s)} \in SUBSET (1..n)
  BY LastsChoose
<1>5. \E g : Loop(g)
  <2>1. PICK g \in [SUBSET (1..n) -> U] : FoldsBy(Lasts(n), 1..n, start, op, g)
    BY <1>2, LoopExists
  <2>2. ASSUME NEW s \in SUBSET (1..n)
        PROVE  g[s] = IF s = {} THEN start ELSE TakeOne(g[s \ {Max(s)}], order[Max(s)], limit)
    <3>1. g[s] = IF s = {} THEN start ELSE op[<<Max(s), g[s \ {Max(s)}]>>]
      BY <2>1, LastsChoose DEF FoldsBy
    <3>2. s # {} => Max(s) \in 1..n /\ g[s \ {Max(s)}] \in U
      BY <1>4
    <3> QED  BY <1>3, <3>1, <3>2
  <2> QED  BY <2>2
<1>6. Loop(fold)
  <2> HIDE DEF Loop
  <2> QED  BY <1>5
<1>7. AgreesOn(U, n, start, op, fold)
  <2> HIDE DEF fold
  <2>1. fold[{}] = start
    BY <1>6
  <2>2. ASSUME NEW s \in SUBSET (1..n), s # {}, fold[s \ {Max(s)}] \in U
        PROVE  fold[s] = op[<<Max(s), fold[s \ {Max(s)}]>>]
    <3>1. fold[s] = TakeOne(fold[s \ {Max(s)}], order[Max(s)], limit)
      BY <1>6, <2>2
    <3>2. Max(s) \in 1..n
      BY <1>4, <2>2
    <3>3. op[<<Max(s), fold[s \ {Max(s)}]>>] = TakeOne(fold[s \ {Max(s)}], order[Max(s)], limit)
      BY <1>3, <2>2, <3>2
    <3> QED  BY <3>1, <3>3
  <2>3. \A s \in SUBSET (1..n) : Lasts(n)[s] = Max(s)
    BY LastsChoose
  <2> QED  BY <1>2, <2>1, <2>2, <2>3 DEF AgreesOn
<1> HIDE <1>0 DEF fold
<1>8. \E sts \in [0..n -> U] : LoopStates(n, start, op, sts) /\ fold[1..n] = sts[n]
  BY <1>7, LoopUnfolds
<1>9. PICK sts \in [0..n -> U] : LoopStates(n, start, op, sts) /\ fold[1..n] = sts[n]
  BY <1>8
<1>10. ASSUME NEW k \in 1..n PROVE sts[k] = TakeOne(sts[k - 1], order[k], limit)
  <2>1. k - 1 \in 0..n
    BY <1>0
  <2> QED  BY <1>3, <1>9, <2>1 DEF LoopStates
<1>11. sts[0] = start
  BY <1>9 DEF LoopStates
<1>12. Round(start, order, limit) = fold[1..n]
  BY <1>0, <1>1
<1> QED  BY <1>9, <1>10, <1>11, <1>12

(* The users in the order the first loop notes them.                       *)
UserOrder(rows) == GroupByUser(rows).user_order

Ungrouped(rows) == [claimed |-> <<>>, by_user |-> GroupByUser(rows).by_user]

(* The same for the outer loop.                                            *)
ClaimStays(limit, rows, n, U) ==
  /\ n \in Nat /\ DOMAIN rows = 1..n /\ Ungrouped(rows) \in U
  /\ \A st \in U, k \in 1..n : Round(st, UserOrder(rows), limit) \in U

(* The outer loop.                                                         *)
LEMMA ClaimStates ==
  ASSUME NEW limit, NEW rows, NEW n, NEW U, ClaimStays(limit, rows, n, U)
  PROVE  \E sts \in [0..n -> U] :
           /\ sts[0] = Ungrouped(rows)
           /\ \A k \in 1..n : sts[k] = Round(sts[k - 1], UserOrder(rows), limit)
           /\ ClaimTasks(rows, limit) = sts[n].claimed
<1>0. n \in Nat /\ DOMAIN rows = 1..n /\ Ungrouped(rows) \in U
      /\ \A st \in U, k \in 1..n : Round(st, UserOrder(rows), limit) \in U
  BY DEF ClaimStays
<1> USE <1>0
<1> DEFINE op == [p \in (1..n) \X U |-> Round(p[2], UserOrder(rows), limit)]
           Loop(g) == g = [s \in SUBSET DOMAIN rows |->
             IF s = {} THEN Ungrouped(rows) ELSE Round(g[s \ {Max(s)}], UserOrder(rows), limit)]
           fold == CHOOSE g : Loop(g)
<1>1. ClaimTasks(rows, limit) = fold[DOMAIN rows].claimed
  BY DEF ClaimTasks, Ungrouped, UserOrder, FoldLeft, MapThenFoldSet
<1>2. op \in [(1..n) \X U -> U]
  OBVIOUS
<1>3. \A k \in 1..n, st \in U : op[<<k, st>>] = Round(st, UserOrder(rows), limit)
  OBVIOUS
<1> HIDE DEF op
<1>4. \A s \in SUBSET (1..n) : s # {} => Max(s) \in 1..n /\ s \ {Max(s)} \in SUBSET (1..n)
  BY LastsChoose
<1>5. \E g : Loop(g)
  <2>1. PICK g \in [SUBSET (1..n) -> U] : FoldsBy(Lasts(n), 1..n, Ungrouped(rows), op, g)
    BY <1>2, LoopExists
  <2>2. ASSUME NEW s \in SUBSET (1..n)
        PROVE  g[s] = IF s = {} THEN Ungrouped(rows) ELSE Round(g[s \ {Max(s)}], UserOrder(rows), limit)
    <3>1. g[s] = IF s = {} THEN Ungrouped(rows) ELSE op[<<Max(s), g[s \ {Max(s)}]>>]
      BY <2>1, LastsChoose DEF FoldsBy
    <3>2. s # {} => Max(s) \in 1..n /\ g[s \ {Max(s)}] \in U
      BY <1>4
    <3> QED  BY <1>3, <3>1, <3>2
  <2> QED  BY <2>2
<1>6. Loop(fold)
  <2> HIDE DEF Loop
  <2> QED  BY <1>5
<1>7. AgreesOn(U, n, Ungrouped(rows), op, fold)
  <2> HIDE DEF fold
  <2>1. fold[{}] = Ungrouped(rows)
    BY <1>6
  <2>2. ASSUME NEW s \in SUBSET (1..n), s # {}, fold[s \ {Max(s)}] \in U
        PROVE  fold[s] = op[<<Max(s), fold[s \ {Max(s)}]>>]
    <3>1. fold[s] = Round(fold[s \ {Max(s)}], UserOrder(rows), limit)
      BY <1>6, <2>2
    <3>2. Max(s) \in 1..n
      BY <1>4, <2>2
    <3>3. op[<<Max(s), fold[s \ {Max(s)}]>>] = Round(fold[s \ {Max(s)}], UserOrder(rows), limit)
      BY <1>3, <2>2, <3>2
    <3> QED  BY <3>1, <3>3
  <2>3. \A s \in SUBSET (1..n) : Lasts(n)[s] = Max(s)
    BY LastsChoose
  <2> QED  BY <1>2, <2>1, <2>2, <2>3 DEF AgreesOn
<1> HIDE <1>0 DEF fold
<1>8. \E sts \in [0..n -> U] : LoopStates(n, Ungrouped(rows), op, sts) /\ fold[1..n] = sts[n]
  BY <1>7, LoopUnfolds
<1>9. PICK sts \in [0..n -> U] : LoopStates(n, Ungrouped(rows), op, sts) /\ fold[1..n] = sts[n]
  BY <1>8
<1>10. ASSUME NEW k \in 1..n PROVE sts[k] = Round(sts[k - 1], UserOrder(rows), limit)
  <2>1. k - 1 \in 0..n
    BY <1>0
  <2> QED  BY <1>3, <1>9, <2>1 DEF LoopStates
<1>11. sts[0] = Ungrouped(rows)
  BY <1>9 DEF LoopStates
<1>12. ClaimTasks(rows, limit) = fold[1..n].claimed
  BY <1>0, <1>1
<1> QED  BY <1>9, <1>10, <1>11, <1>12

(* The body of the selection of the rows left over.                        *)
KeepOpen(rest, row, claimed) == IF row \in ToSet(claimed) THEN rest ELSE Append(rest, row)

(* The same for that selection.                                            *)
PendingStays(claimed, rows, n, U) ==
  /\ n \in Nat /\ DOMAIN rows = 1..n /\ <<>> \in U
  /\ \A st \in U, k \in 1..n : KeepOpen(st, rows[k], claimed) \in U

(* The rows left over.                                                     *)
LEMMA PendingStates ==
  ASSUME NEW claimed, NEW rows, NEW n, NEW U, PendingStays(claimed, rows, n, U)
  PROVE  \E sts \in [0..n -> U] :
           /\ sts[0] = <<>>
           /\ \A k \in 1..n : sts[k] = KeepOpen(sts[k - 1], rows[k], claimed)
           /\ StillPending(rows, claimed) = sts[n]
<1>0. n \in Nat /\ DOMAIN rows = 1..n /\ <<>> \in U
      /\ \A st \in U, k \in 1..n : KeepOpen(st, rows[k], claimed) \in U
  BY DEF PendingStays
<1> USE <1>0
<1> DEFINE op == [p \in (1..n) \X U |-> KeepOpen(p[2], rows[p[1]], claimed)]
           Loop(g) == g = [s \in SUBSET DOMAIN rows |->
             IF s = {} THEN <<>> ELSE KeepOpen(g[s \ {Max(s)}], rows[Max(s)], claimed)]
           fold == CHOOSE g : Loop(g)
<1>1. StillPending(rows, claimed) = fold[DOMAIN rows]
  BY DEF StillPending, KeepOpen, FoldLeft, MapThenFoldSet
<1>2. op \in [(1..n) \X U -> U]
  OBVIOUS
<1>3. \A k \in 1..n, st \in U : op[<<k, st>>] = KeepOpen(st, rows[k], claimed)
  OBVIOUS
<1> HIDE DEF op
<1>4. \A s \in SUBSET (1..n) : s # {} => Max(s) \in 1..n /\ s \ {Max(s)} \in SUBSET (1..n)
  BY LastsChoose
<1>5. \E g : Loop(g)
  <2>1. PICK g \in [SUBSET (1..n) -> U] : FoldsBy(Lasts(n), 1..n, <<>>, op, g)
    BY <1>2, LoopExists
  <2>2. ASSUME NEW s \in SUBSET (1..n)
        PROVE  g[s] = IF s = {} THEN <<>> ELSE KeepOpen(g[s \ {Max(s)}], rows[Max(s)], claimed)
    <3>1. g[s] = IF s = {} THEN <<>> ELSE op[<<Max(s), g[s \ {Max(s)}]>>]
      BY <2>1, LastsChoose DEF FoldsBy
    <3>2. s # {} => Max(s) \in 1..n /\ g[s \ {Max(s)}] \in U
      BY <1>4
    <3> QED  BY <1>3, <3>1, <3>2
  <2> QED  BY <2>2
<1>6. Loop(fold)
  <2> HIDE DEF Loop
  <2> QED  BY <1>5
<1>7. AgreesOn(U, n, <<>>, op, fold)
  <2> HIDE DEF fold
  <2>1. fold[{}] = <<>>
    BY <1>6
  <2>2. ASSUME NEW s \in SUBSET (1..n), s # {}, fold[s \ {Max(s)}] \in U
        PROVE  fold[s] = op[<<Max(s), fold[s \ {Max(s)}]>>]
    <3>1. fold[s] = KeepOpen(fold[s \ {Max(s)}], rows[Max(s)], claimed)
      BY <1>6, <2>2
    <3>2. Max(s) \in 1..n
      BY <1>4, <2>2
    <3>3. op[<<Max(s), fold[s \ {Max(s)}]>>] = KeepOpen(fold[s \ {Max(s)}], rows[Max(s)], claimed)
      BY <1>3, <2>2, <3>2
    <3> QED  BY <3>1, <3>3
  <2>3. \A s \in SUBSET (1..n) : Lasts(n)[s] = Max(s)
    BY LastsChoose
  <2> QED  BY <1>2, <2>1, <2>2, <2>3 DEF AgreesOn
<1> HIDE <1>0 DEF fold
<1>8. \E sts \in [0..n -> U] : LoopStates(n, <<>>, op, sts) /\ fold[1..n] = sts[n]
  BY <1>7, LoopUnfolds
<1>9. PICK sts \in [0..n -> U] : LoopStates(n, <<>>, op, sts) /\ fold[1..n] = sts[n]
  BY <1>8
<1>10. ASSUME NEW k \in 1..n PROVE sts[k] = KeepOpen(sts[k - 1], rows[k], claimed)
  <2>1. k - 1 \in 0..n
    BY <1>0
  <2> QED  BY <1>3, <1>9, <2>1 DEF LoopStates
<1>11. sts[0] = <<>>
  BY <1>9 DEF LoopStates
<1>12. StillPending(rows, claimed) = fold[1..n]
  BY <1>0, <1>1
<1> QED  BY <1>9, <1>10, <1>11, <1>12

-----------------------------------------------------------------------------
(* Turns.                                                                  *)

Row == [user : Users, task : Nat]

(* The rows of u among the first k.                                        *)
RowsOf(rows, k, u) == {j \in 1..k : rows[j].user = u}

Tally(rows, k, u) == Cardinality(RowsOf(rows, k, u))

(* Counting the rows of a user one row further.                            *)
LEMMA TallyFacts ==
  ASSUME NEW rows, NEW k \in Nat, NEW u
  PROVE  /\ IsFiniteSet(RowsOf(rows, k, u)) /\ Tally(rows, k, u) \in Nat
         /\ Tally(rows, k, u) <= k
         /\ Tally(rows, 0, u) = 0
         /\ Tally(rows, k + 1, u) =
              IF rows[k + 1].user = u THEN Tally(rows, k, u) + 1 ELSE Tally(rows, k, u)
<1>1. IsFiniteSet(1..k) /\ Cardinality(1..k) = k
  <2>1. 1 \in Int /\ k \in Int
    OBVIOUS
  <2>2. IsFiniteSet(1..k) /\ Cardinality(1..k) = IF 1 > k THEN 0 ELSE k - 1 + 1
    BY <2>1, FS_Interval
  <2> QED  BY <2>2
<1>2. RowsOf(rows, k, u) \subseteq 1..k
  BY DEF RowsOf
<1>3. IsFiniteSet(RowsOf(rows, k, u)) /\ Cardinality(RowsOf(rows, k, u)) <= k
  BY <1>1, <1>2, FS_Subset
<1>4. Cardinality(RowsOf(rows, k, u)) \in Nat
  BY <1>3, FS_CardinalityType
<1>5. Cardinality(RowsOf(rows, 0, u)) = 0
  <2>1. RowsOf(rows, 0, u) = {}
    BY DEF RowsOf
  <2> QED  BY <2>1, FS_EmptySet
<1>6. k + 1 \notin RowsOf(rows, k, u)
  BY <1>2
<1>7. RowsOf(rows, k + 1, u) =
        IF rows[k + 1].user = u THEN RowsOf(rows, k, u) \cup {k + 1} ELSE RowsOf(rows, k, u)
  <2>1. 1..(k + 1) = (1..k) \cup {k + 1}
    OBVIOUS
  <2> QED  BY <2>1 DEF RowsOf
<1>8. Cardinality(RowsOf(rows, k, u) \cup {k + 1}) = Cardinality(RowsOf(rows, k, u)) + 1
  BY <1>3, <1>6, FS_AddElement
<1> QED  BY <1>3, <1>4, <1>5, <1>7, <1>8 DEF Tally

(* The last of these facts alone.                                          *)
LEMMA TallyStep ==
  ASSUME NEW rows, NEW k \in Nat, NEW u
  PROVE  Tally(rows, k + 1, u) =
           IF rows[k + 1].user = u THEN Tally(rows, k, u) + 1 ELSE Tally(rows, k, u)
BY TallyFacts

(* A row's turn is the tally before it.                                    *)
LEMMA TurnIs ==
  ASSUME NEW rows, NEW i
  PROVE  Turn(rows, i) = Tally(rows, i - 1, rows[i].user)
BY DEF Turn, Tally, RowsOf

(* The count of all rows is the last tally.                                *)
LEMMA CountIs ==
  ASSUME NEW rows, NEW n, DOMAIN rows = 1..n, NEW u
  PROVE  Count(rows, u) = Tally(rows, n, u)
BY DEF Count, Tally, RowsOf

(* A tally grows by one for each row of the user.                          *)
LEMMA TallyGrows ==
  ASSUME NEW rows, NEW i \in Nat \ {0}, NEW j \in Nat, i <= j
  PROVE  Tally(rows, i - 1, rows[i].user) < Tally(rows, j, rows[i].user)
<1> DEFINE u == rows[i].user
           P == {k \in Nat : k >= i => Tally(rows, i - 1, u) < Tally(rows, k, u)}
<1>1. Tally(rows, i, u) = Tally(rows, i - 1, u) + 1
  <2>1. i - 1 \in Nat /\ (i - 1) + 1 = i
    OBVIOUS
  <2> QED  BY <2>1, TallyFacts
<1>2. \A k \in Nat : Tally(rows, k, u) \in Nat
  BY TallyFacts
<1> HIDE DEF u
<1>3. i - 1 \in Nat
  OBVIOUS
<1>4. 0 \in P
  OBVIOUS
<1>5. ASSUME NEW k \in 0..(j - 1), k \in P PROVE k + 1 \in P
  <2>1. k \in Nat /\ k + 1 \in Nat
    OBVIOUS
  <2>2. CASE k + 1 < i
    BY <2>1, <2>2
  <2>3. CASE k + 1 = i
    BY <1>1, <1>2, <1>3, <2>3
  <2>4. CASE k >= i
    <3>1. Tally(rows, i - 1, u) < Tally(rows, k, u)
      BY <1>5, <2>4
    <3>2. Tally(rows, k + 1, u) >= Tally(rows, k, u)
      <4>1. Tally(rows, k + 1, u) =
              IF rows[k + 1].user = u THEN Tally(rows, k, u) + 1 ELSE Tally(rows, k, u)
        BY <2>1, TallyFacts
      <4> QED  BY <1>2, <2>1, <4>1
    <3> QED  BY <1>2, <1>3, <2>1, <3>1, <3>2
  <2> QED  BY <2>1, <2>2, <2>3, <2>4
<1> HIDE DEF P
<1>6. \A k \in 0..j : k \in P
  BY <1>4, <1>5, UpTo
<1>7. j \in P
  BY <1>6
<1> QED  BY <1>7 DEF P, u

(* A user's rows have different turns, and none has a turn as high as      *)
(* there are rows.                                                         *)
LEMMA TurnFacts ==
  ASSUME NEW rows, NEW n \in Nat, NEW i \in 1..n
  PROVE  /\ Turn(rows, i) \in Nat /\ Turn(rows, i) < n
         /\ Turn(rows, i) < Tally(rows, n, rows[i].user)
         /\ \A j \in 1..n : rows[i].user = rows[j].user /\ Turn(rows, i) = Turn(rows, j) => i = j
<1>1. i \in Nat \ {0} /\ i - 1 \in Nat /\ i <= n
  OBVIOUS
<1>2. /\ Turn(rows, i) = Tally(rows, i - 1, rows[i].user)
      /\ Tally(rows, i - 1, rows[i].user) \in Nat
      /\ Tally(rows, i - 1, rows[i].user) <= i - 1
  BY <1>1, TurnIs, TallyFacts
<1>3. Turn(rows, i) < Tally(rows, n, rows[i].user)
  BY <1>1, <1>2, TallyGrows
<1>4. ASSUME NEW a \in 1..n, NEW b \in 1..n, a < b, rows[a].user = rows[b].user
      PROVE  Turn(rows, a) # Turn(rows, b)
  <2>1. a \in Nat \ {0} /\ b - 1 \in Nat /\ a <= b - 1 /\ a - 1 \in Nat
    BY <1>4
  <2>2. Tally(rows, a - 1, rows[a].user) < Tally(rows, b - 1, rows[a].user)
    BY <2>1, TallyGrows
  <2>3. Tally(rows, a - 1, rows[a].user) \in Nat /\ Tally(rows, b - 1, rows[a].user) \in Nat
    BY <2>1, TallyFacts
  <2>4. Turn(rows, a) = Tally(rows, a - 1, rows[a].user) /\ Turn(rows, b) = Tally(rows, b - 1, rows[a].user)
    BY <1>4, TurnIs
  <2> QED  BY <2>2, <2>3, <2>4
<1>5. ASSUME NEW j \in 1..n, rows[i].user = rows[j].user, Turn(rows, i) = Turn(rows, j)
      PROVE  i = j
  <2>1. ~(i < j) /\ ~(j < i)
    BY <1>4, <1>5
  <2> QED  BY <2>1
<1> QED  BY <1>1, <1>2, <1>3, <1>5

(* The first row of a user is the one with no other before it.             *)
LEMMA FirstRowIs ==
  ASSUME NEW rows, NEW n \in Nat, DOMAIN rows = 1..n, NEW i \in 1..n,
         \A j \in 1..(i - 1) : rows[j].user # rows[i].user
  PROVE  FirstRow(rows, rows[i].user) = i
<1> DEFINE u == rows[i].user
           First(k) == rows[k].user = u /\ \A j \in 1..n : rows[j].user = u => k <= j
<1>1. \A j \in 1..n : rows[j].user = u => i <= j
  OBVIOUS
<1>2. First(i)
  BY <1>1
<1>3. \A k \in 1..n : First(k) => k = i
  BY <1>1
<1>4. FirstRow(rows, u) = CHOOSE k \in 1..n : First(k)
  BY DEF FirstRow
<1> HIDE DEF First, u
<1>5. (CHOOSE k \in 1..n : First(k)) = i
  BY <1>2, <1>3
<1> QED  BY <1>4, <1>5 DEF u

-----------------------------------------------------------------------------
(* The first loop: each user's rows in order, and the users by their       *)
(* first.                                                                  *)

Queues == [Users -> Seq(Row)]

Groups == [user_order : Seq(Users), by_user : Queues]

(* queue holds the rows of u among the first k, by their turns.            *)
Queued(rows, k, u, queue) ==
  /\ queue \in Seq(Row) /\ Len(queue) = Tally(rows, k, u)
  /\ \A t \in 1..Len(queue) : \E i \in 1..k :
       rows[i].user = u /\ Turn(rows, i) = t - 1 /\ queue[t] = rows[i]

(* order holds the users of the first k rows by their first row.           *)
Ordered(rows, k, order) ==
  /\ order \in Seq(Users)
  /\ \A p \in 1..Len(order) : FirstRow(rows, order[p]) \in 1..k
  /\ \A p, q \in 1..Len(order) : p < q => FirstRow(rows, order[p]) < FirstRow(rows, order[q])
  /\ \A i \in 1..k : \E p \in 1..Len(order) : order[p] = rows[i].user

Grouped(rows, k, groups) ==
  /\ \A u \in Users : Queued(rows, k, u, groups.by_user[u])
  /\ Ordered(rows, k, groups.user_order)

(* A queue is empty when it has no length.                                 *)
LEMMA EmptyQueue ==
  ASSUME NEW S, NEW s \in Seq(S)
  PROVE  s = <<>> <=> Len(s) = 0
OBVIOUS

(* A queue without rows has none in the rows so far.                       *)
LEMMA NoneBefore ==
  ASSUME NEW rows, NEW k \in Nat, NEW u, Tally(rows, k, u) = 0
  PROVE  \A j \in 1..k : rows[j].user # u
<1> SUFFICES ASSUME NEW j \in 1..k, rows[j].user = u PROVE FALSE
  OBVIOUS
<1>1. j \in Nat \ {0} /\ j <= k /\ j - 1 \in Nat
  OBVIOUS
<1>2. Tally(rows, j - 1, u) < Tally(rows, k, u)
  BY <1>1, TallyGrows
<1>3. Tally(rows, j - 1, u) \in Nat
  BY <1>1, TallyFacts
<1> QED  BY <1>2, <1>3

(* The first loop queues each row behind those of its user.                *)
LEMMA AddKeepsQueues ==
  ASSUME NEW rows \in Seq(Row), NEW k \in 0..(Len(rows) - 1), NEW u \in Users, NEW queue,
         Queued(rows, k, u, queue)
  PROVE  Queued(rows, k + 1, u, IF rows[k + 1].user = u THEN Append(queue, rows[k + 1]) ELSE queue)
<1>1. k \in Nat /\ k + 1 \in 1..Len(rows) /\ (k + 1) - 1 = k /\ rows[k + 1] \in Row
      /\ 1..(k + 1) = (1..k) \cup {k + 1}
  <2>1. k \in Nat /\ k + 1 \in 1..Len(rows) /\ (k + 1) - 1 = k /\ 1..(k + 1) = (1..k) \cup {k + 1}
    OBVIOUS
  <2> QED  BY <2>1
<1>2. Tally(rows, k + 1, u) = IF rows[k + 1].user = u THEN Tally(rows, k, u) + 1 ELSE Tally(rows, k, u)
  BY <1>1, TallyFacts
<1>3. queue \in Seq(Row) /\ Len(queue) = Tally(rows, k, u) /\ Len(queue) \in Nat
  BY DEF Queued
<1>4. ASSUME NEW t \in 1..Len(queue)
      PROVE  \E i \in 1..(k + 1) : rows[i].user = u /\ Turn(rows, i) = t - 1 /\ queue[t] = rows[i]
  BY <1>1 DEF Queued
<1>5. CASE rows[k + 1].user # u
  BY <1>2, <1>3, <1>4, <1>5 DEF Queued
<1>6. CASE rows[k + 1].user = u
  <2> DEFINE new == Append(queue, rows[k + 1])
             n == Len(queue)
  <2>1. /\ new \in Seq(Row) /\ Len(new) = n + 1 /\ new[n + 1] = rows[k + 1]
        /\ \A t \in 1..n : new[t] = queue[t]
        /\ 1..Len(new) = (1..n) \cup {n + 1}
    BY <1>1, <1>3, AppendFacts
  <2>2. Turn(rows, k + 1) = (n + 1) - 1
    <3>1. Turn(rows, k + 1) = Tally(rows, k, u)
      BY <1>1, <1>6, TurnIs
    <3> QED  BY <1>3, <3>1
  <2> HIDE DEF new
  <2>3. \E i \in 1..(k + 1) : rows[i].user = u /\ Turn(rows, i) = (n + 1) - 1 /\ new[n + 1] = rows[i]
    BY <1>1, <1>6, <2>1, <2>2
  <2>4. \A t \in 1..n : \E i \in 1..(k + 1) : rows[i].user = u /\ Turn(rows, i) = t - 1 /\ new[t] = rows[i]
    BY <1>4, <2>1
  <2>5. Len(new) = Tally(rows, k + 1, u)
    BY <1>2, <1>3, <1>6, <2>1
  <2>6. Queued(rows, k + 1, u, new)
    <3> HIDE DEF n
    <3> QED  BY <2>1, <2>3, <2>4, <2>5 DEF Queued
  <2> QED  BY <1>6, <2>6 DEF new
<1> QED  BY <1>5, <1>6

(* The first loop notes a user with the first of their rows.               *)
LEMMA AddKeepsOrder ==
  ASSUME NEW rows \in Seq(Row), NEW k \in 0..(Len(rows) - 1), NEW order, Ordered(rows, k, order)
  PROVE  LET u == rows[k + 1].user IN
         Ordered(rows, k + 1, IF Tally(rows, k, u) = 0 THEN Append(order, u) ELSE order)
<1> DEFINE u == rows[k + 1].user
           n == Len(order)
<1>1. /\ k \in Nat /\ k + 1 \in 1..Len(rows) /\ (k + 1) - 1 = k
      /\ DOMAIN rows = 1..Len(rows) /\ Len(rows) \in Nat
      /\ 1..(k + 1) = (1..k) \cup {k + 1}
  OBVIOUS
<1>2. u \in Users
  <2>1. rows[k + 1] \in Row
    BY <1>1
  <2> QED  BY <2>1 DEF Row
<1>3. /\ order \in Seq(Users) /\ n \in Nat
      /\ \A p \in 1..n : FirstRow(rows, order[p]) \in 1..k
      /\ \A p, q \in 1..n : p < q => FirstRow(rows, order[p]) < FirstRow(rows, order[q])
      /\ \A i \in 1..k : \E p \in 1..n : order[p] = rows[i].user
  BY DEF Ordered
<1>4. CASE Tally(rows, k, u) = 0
  <2> DEFINE new == Append(order, u)
  <2>1. /\ new \in Seq(Users) /\ Len(new) = n + 1 /\ new[n + 1] = u
        /\ \A p \in 1..n : new[p] = order[p]
        /\ 1..Len(new) = (1..n) \cup {n + 1}
    BY <1>2, <1>3, AppendFacts
  <2>2. FirstRow(rows, u) = k + 1
    <3>1. \A j \in 1..k : rows[j].user # u
      BY <1>1, <1>4, NoneBefore
    <3> QED  BY <1>1, <3>1, FirstRowIs
  <2> HIDE DEF new, u, n
  <2>3. \A p \in 1..Len(new) : FirstRow(rows, new[p]) \in 1..(k + 1)
    BY <1>1, <1>3, <2>1, <2>2
  <2>4. ASSUME NEW p \in 1..Len(new), NEW q \in 1..Len(new), p < q
        PROVE  FirstRow(rows, new[p]) < FirstRow(rows, new[q])
    <3>1. p \in 1..n
      BY <1>3, <2>1, <2>4
    <3>2. CASE q = n + 1
      BY <1>1, <1>3, <2>1, <2>2, <3>1, <3>2
    <3>3. CASE q \in 1..n
      BY <1>3, <2>1, <2>4, <3>1, <3>3
    <3> QED  BY <2>1, <3>2, <3>3
  <2>5. ASSUME NEW i \in 1..(k + 1) PROVE \E p \in 1..Len(new) : new[p] = rows[i].user
    <3>1. CASE i = k + 1
      BY <2>1, <3>1 DEF u
    <3>2. CASE i \in 1..k
      <4>1. PICK p \in 1..n : order[p] = rows[i].user
        BY <1>3, <3>2
      <4> QED  BY <2>1, <4>1
    <3> QED  BY <1>1, <3>1, <3>2
  <2>6. Ordered(rows, k + 1, new)
    BY <2>1, <2>3, <2>4, <2>5 DEF Ordered
  <2> QED  BY <1>4, <2>6 DEF new, u
<1>5. CASE Tally(rows, k, u) # 0
  <2>1. \E j \in 1..k : rows[j].user = u
    <3>1. RowsOf(rows, k, u) # {}
      BY <1>5, FS_EmptySet DEF Tally
    <3> QED  BY <3>1 DEF RowsOf
  <2>2. \E p \in 1..n : order[p] = u
    BY <1>3, <2>1
  <2> HIDE DEF n
  <2>3. \A i \in 1..(k + 1) : \E p \in 1..n : order[p] = rows[i].user
    BY <1>1, <1>3, <2>2
  <2>4. \A p \in 1..n : FirstRow(rows, order[p]) \in 1..(k + 1)
    BY <1>1, <1>3
  <2>5. Ordered(rows, k + 1, order)
    BY <1>3, <2>3, <2>4 DEF Ordered, n
  <2> QED  BY <1>5, <2>5
<1> QED  BY <1>4, <1>5

(* The first loop groups all rows.                                         *)
LEMMA GroupsAll ==
  ASSUME NEW rows \in Seq(Row)
  PROVE  GroupByUser(rows) \in Groups /\ Grouped(rows, Len(rows), GroupByUser(rows))
<1> DEFINE n == Len(rows)
<1>1. DOMAIN rows = 1..n /\ n \in Nat
  OBVIOUS
<1>2. \A k \in 1..n : rows[k] \in Row /\ rows[k].user \in Users
  <2>1. \A k \in 1..n : rows[k] \in Row
    BY ElementOf
  <2> QED  BY <2>1 DEF Row
<1>3. NoGroups \in Groups
  BY DEF NoGroups, Groups, Queues
<1>4. ASSUME NEW g \in Groups, NEW k \in 1..n PROVE AddRow(g, rows[k]) \in Groups
  <2> DEFINE row == rows[k]
  <2>1. row \in Row /\ row.user \in Users
    BY <1>2
  <2> HIDE DEF row
  <2>2. g.user_order \in Seq(Users) /\ g.by_user \in Queues /\ g.by_user[row.user] \in Seq(Row)
    BY <2>1 DEF Groups, Queues
  <2>3. Append(g.user_order, row.user) \in Seq(Users) /\ Append(g.by_user[row.user], row) \in Seq(Row)
    BY <2>1, <2>2, AppendFacts
  <2>4. [g.by_user EXCEPT ![row.user] = Append(@, row)] \in Queues
    BY <2>2, <2>3 DEF Queues
  <2>5. AddRow(g, row) \in Groups
    BY <2>2, <2>3, <2>4 DEF AddRow, Groups
  <2> QED  BY <2>5 DEF row
<1> HIDE DEF n
<1>5. \E sts \in [0..n -> Groups] :
        /\ sts[0] = NoGroups
        /\ \A k \in 1..n : sts[k] = AddRow(sts[k - 1], rows[k])
        /\ GroupByUser(rows) = sts[n]
  <2>1. GroupStays(rows, n, Groups)
    BY <1>1, <1>3, <1>4 DEF GroupStays
  <2> QED  BY <2>1, GroupStates
<1>6. PICK sts \in [0..n -> Groups] :
        /\ sts[0] = NoGroups
        /\ \A k \in 1..n : sts[k] = AddRow(sts[k - 1], rows[k])
        /\ GroupByUser(rows) = sts[n]
  BY <1>5
<1> DEFINE P == {k \in 0..n : Grouped(rows, k, sts[k])}
<1>7. 0 \in P
  <2>1. ASSUME NEW u \in Users PROVE Queued(rows, 0, u, <<>>)
    <3>1. Tally(rows, 0, u) = 0
      BY TallyFacts
    <3> QED  BY <3>1 DEF Queued
  <2>2. Ordered(rows, 0, <<>>)
    BY DEF Ordered
  <2>3. Grouped(rows, 0, NoGroups)
    BY <2>1, <2>2 DEF Grouped, NoGroups
  <2> QED  BY <1>1, <1>6, <2>3
<1>8. ASSUME NEW k \in 0..(n - 1), k \in P PROVE k + 1 \in P
  <2> DEFINE g == sts[k]
             row == rows[k + 1]
  <2>1. k \in 0..n /\ k \in Nat /\ k + 1 \in 1..n /\ k + 1 \in 0..n /\ (k + 1) - 1 = k
    BY <1>1
  <2>2. sts[k + 1] = AddRow(g, row)
    BY <1>6, <2>1
  <2>3. Grouped(rows, k, g) /\ g \in Groups /\ row.user \in Users
    BY <1>2, <1>8, <2>1
  <2> HIDE DEF g
  <2>4. \A u \in Users : AddRow(g, row).by_user[u] =
          IF row.user = u THEN Append(g.by_user[u], row) ELSE g.by_user[u]
    BY <2>3 DEF AddRow, Groups, Queues
  <2>5. ASSUME NEW u \in Users PROVE Queued(rows, k + 1, u, AddRow(g, row).by_user[u])
    <3>1. Queued(rows, k, u, g.by_user[u])
      BY <2>3 DEF Grouped
    <3>2. k \in 0..(Len(rows) - 1)
      BY DEF n
    <3>3. Queued(rows, k + 1, u, IF row.user = u THEN Append(g.by_user[u], row) ELSE g.by_user[u])
      BY <3>1, <3>2, AddKeepsQueues
    <3> QED  BY <2>4, <3>3
  <2>6. Ordered(rows, k + 1, AddRow(g, row).user_order)
    <3>1. g.by_user[row.user] = <<>> <=> Tally(rows, k, row.user) = 0
      <4>1. Queued(rows, k, row.user, g.by_user[row.user])
        BY <2>3 DEF Grouped
      <4> HIDE DEF row
      <4> QED  BY <4>1, EmptyQueue DEF Queued
    <3>2. AddRow(g, row).user_order =
            IF Tally(rows, k, row.user) = 0 THEN Append(g.user_order, row.user) ELSE g.user_order
      BY <3>1 DEF AddRow
    <3>3. Ordered(rows, k, g.user_order) /\ k \in 0..(Len(rows) - 1)
      BY <2>3 DEF Grouped, n
    <3>4. Ordered(rows, k + 1,
            IF Tally(rows, k, row.user) = 0 THEN Append(g.user_order, row.user) ELSE g.user_order)
      BY <3>3, AddKeepsOrder
    <3> QED  BY <3>2, <3>4
  <2> HIDE DEF row
  <2>7. Grouped(rows, k + 1, AddRow(g, row))
    BY <2>5, <2>6 DEF Grouped
  <2> QED  BY <2>1, <2>2, <2>7
<1> HIDE DEF P
<1>9. \A k \in 0..n : k \in P
  BY <1>1, <1>7, <1>8, UpTo
<1>10. n \in P
  BY <1>1, <1>9
<1> QED  BY <1>1, <1>6, <1>10 DEF P, n

-----------------------------------------------------------------------------
(* The other two loops.  After r rounds and p users of the next one, a     *)
(* user has been offered r tasks, or one more.                             *)

QueueOf(rows, u) == GroupByUser(rows).by_user[u]

Offers(order, r, p, u) == IF \E q \in 1..p : order[q] = u THEN r + 1 ELSE r

Taken(rows, r, p) ==
  {i \in 1..Len(rows) : Turn(rows, i) < Offers(UserOrder(rows), r, p, rows[i].user)}

(* What is left of n tasks after t, and of a queue.                        *)
Less(n, t) == IF n > t THEN n - t ELSE 0

RestOf(queue, t, rest) ==
  Len(rest) = Less(Len(queue), t) /\ \A k \in 1..Len(rest) : rest[k] = queue[k + t]

(* As many of the taken rows as the limit allows, each at its place.       *)
Placed(rows, limit, taken, claimed) ==
  /\ Len(claimed) = IF limit < Cardinality(taken) THEN limit ELSE Cardinality(taken)
  /\ \A i \in taken : Place(rows, i) <= limit =>
       Place(rows, i) \in 1..Len(claimed) /\ claimed[Place(rows, i)] = rows[i]
  /\ \A q \in 1..Len(claimed) : \E i \in taken : Place(rows, i) = q

(* Nobody has been served more than one task less than he could have.      *)
Even(rows, st) ==
  /\ \A u \in Users : Count(st.claimed, u) + Len(st.by_user[u]) = Len(QueueOf(rows, u))
  /\ \E l \in Nat : \A u \in Users :
       Len(st.by_user[u]) \in {Less(Len(QueueOf(rows, u)), l), Less(Len(QueueOf(rows, u)), l + 1)}

ClaimState == [claimed : Seq(Row), by_user : Queues]

LoopInv(rows, limit, r, p, st) ==
  /\ st \in ClaimState
  /\ Placed(rows, limit, Taken(rows, r, p), st.claimed)
  /\ Len(st.claimed) < limit =>
       \A u \in Users : RestOf(QueueOf(rows, u), Offers(UserOrder(rows), r, p, u), st.by_user[u])
  /\ Even(rows, st)

(* One user further in a round, this user has been offered one task more.  *)
LEMMA OffersGrow ==
  ASSUME NEW rows \in Seq(Row), NEW r \in Nat, NEW p \in 0..(Len(UserOrder(rows)) - 1), NEW v
  PROVE  LET order == UserOrder(rows)
             u == order[p + 1] IN
         /\ Offers(order, r, p, v) \in {r, r + 1}
         /\ Offers(order, r, p, u) = r
         /\ Offers(order, r, p + 1, v) = IF v = u THEN r + 1 ELSE Offers(order, r, p, v)
<1> DEFINE order == UserOrder(rows)
           u == order[p + 1]
<1>1. Ordered(rows, Len(rows), order)
  BY GroupsAll DEF Grouped, UserOrder
<1>2. /\ p \in Nat /\ p + 1 \in 1..Len(order) /\ Len(order) \in Nat
      /\ \A q \in 1..p : q \in 1..Len(order) /\ q < p + 1
      /\ 1..(p + 1) = (1..p) \cup {p + 1}
  <2>1. order \in Seq(Users) /\ Len(order) \in Nat
    BY <1>1 DEF Ordered
  <2> HIDE DEF order
  <2> QED  BY <2>1 DEF order
<1>3. \A q \in 1..p : order[q] # u
  <2>1. ASSUME NEW q \in 1..p, order[q] = u PROVE FALSE
    <3>1. FirstRow(rows, order[q]) < FirstRow(rows, u) /\ FirstRow(rows, u) \in 1..Len(rows)
      BY <1>1, <1>2 DEF Ordered
    <3> HIDE DEF u
    <3> QED  BY <2>1, <3>1
  <2> QED  BY <2>1
<1> HIDE DEF order, u
<1>4. Offers(order, r, p, v) \in {r, r + 1} /\ Offers(order, r, p, u) = r
  BY <1>3 DEF Offers
<1>5. Offers(order, r, p + 1, v) = IF v = u THEN r + 1 ELSE Offers(order, r, p, v)
  BY <1>2 DEF Offers, u
<1> QED  BY <1>4, <1>5 DEF order, u

(* The rows taken are finitely many of the rows.                           *)
LEMMA TakenFinite ==
  ASSUME NEW rows \in Seq(Row), NEW r, NEW p
  PROVE  /\ Taken(rows, r, p) \subseteq 1..Len(rows)
         /\ IsFiniteSet(Taken(rows, r, p)) /\ Cardinality(Taken(rows, r, p)) \in Nat
<1>1. Taken(rows, r, p) \subseteq 1..Len(rows)
  BY DEF Taken
<1>2. IsFiniteSet(1..Len(rows))
  <2>1. Len(rows) \in Nat
    OBVIOUS
  <2> QED  BY <2>1, LastsChoose
<1> QED  BY <1>1, <1>2, FS_Subset, FS_CardinalityType

(* The next user's next row comes after exactly the rows taken so far.     *)
LEMMA NextPlace ==
  ASSUME NEW rows \in Seq(Row), NEW r \in Nat, NEW p \in 0..(Len(UserOrder(rows)) - 1),
         NEW i \in 1..Len(rows), rows[i].user = UserOrder(rows)[p + 1], Turn(rows, i) = r
  PROVE  Place(rows, i) = Cardinality(Taken(rows, r, p)) + 1
<1> DEFINE order == UserOrder(rows)
           n == Len(rows)
<1>1. Ordered(rows, n, order) /\ DOMAIN rows = 1..n /\ n \in Nat
  BY GroupsAll DEF Grouped, UserOrder
<1>2. p \in Nat /\ p + 1 \in 1..Len(order) /\ Len(order) \in Nat
  <2>1. order \in Seq(Users) /\ Len(order) \in Nat
    BY <1>1 DEF Ordered
  <2> HIDE DEF order
  <2> QED  BY <2>1 DEF order
<1>3. ASSUME NEW j \in 1..n PROVE Earlier(rows, j, i) <=> j \in Taken(rows, r, p)
  <2> DEFINE v == rows[j].user
             u == rows[i].user
  <2>1. Turn(rows, j) \in Nat
    BY <1>1, TurnFacts
  <2>2. PICK q \in 1..Len(order) : order[q] = v
    BY <1>1 DEF Ordered
  <2>3. /\ q < p + 1 => FirstRow(rows, v) < FirstRow(rows, u)
        /\ p + 1 < q => FirstRow(rows, u) < FirstRow(rows, v)
        /\ FirstRow(rows, u) \in 1..n /\ FirstRow(rows, v) \in 1..n
    BY <1>1, <1>2, <2>2 DEF Ordered
  <2>4. FirstRow(rows, v) < FirstRow(rows, u) <=> q <= p
    <3>1. q = p + 1 => v = u
      BY <2>2
    <3> HIDE DEF u, v
    <3>2. q = p + 1 => FirstRow(rows, v) = FirstRow(rows, u)
      BY <3>1
    <3> QED  BY <1>2, <2>2, <2>3, <3>2
  <2>5. (\E a \in 1..p : order[a] = v) <=> q <= p
    <3>1. ASSUME NEW a \in 1..p, order[a] = v PROVE q <= p
      <4>1. a \in 1..Len(order) /\ a < p + 1
        BY <1>2
      <4>2. FirstRow(rows, order[a]) < FirstRow(rows, u)
        BY <1>1, <1>2, <4>1 DEF Ordered
      <4> QED  BY <2>4, <3>1, <4>2
    <3>2. q <= p => \E a \in 1..p : order[a] = v
      BY <1>2, <2>2
    <3> QED  BY <3>1, <3>2
  <2> HIDE DEF u, v
  <2>6. Earlier(rows, j, i) <=> Turn(rows, j) < r \/ (Turn(rows, j) = r /\ q <= p)
    BY <2>4 DEF Earlier, u, v
  <2>7. j \in Taken(rows, r, p) <=> Turn(rows, j) < IF q <= p THEN r + 1 ELSE r
    BY <2>5 DEF Taken, Offers, v
  <2> QED  BY <2>1, <2>6, <2>7
<1>4. {j \in DOMAIN rows : Earlier(rows, j, i)} = Taken(rows, r, p)
  BY <1>1, <1>3, TakenFinite
<1>5. Place(rows, i) = 1 + Cardinality(Taken(rows, r, p))
  BY <1>4 DEF Place
<1>6. Cardinality(Taken(rows, r, p)) \in Nat
  BY TakenFinite
<1> QED  BY <1>5, <1>6

(* What the next user adds to the rows that are taken: his next row, if he *)
(* has one.                                                                *)
LEMMA NextTaken ==
  ASSUME NEW rows \in Seq(Row), NEW r \in Nat, NEW p \in 0..(Len(UserOrder(rows)) - 1)
  PROVE  LET queue == QueueOf(rows, UserOrder(rows)[p + 1])
             taken == Taken(rows, r, p) IN
         /\ Len(queue) <= r => Taken(rows, r, p + 1) = taken
         /\ Len(queue) > r => \E i \in 1..Len(rows) :
              /\ i \notin taken /\ Taken(rows, r, p + 1) = taken \cup {i}
              /\ Place(rows, i) = Cardinality(taken) + 1 /\ queue[r + 1] = rows[i]
<1> DEFINE order == UserOrder(rows)
           u == order[p + 1]
           queue == QueueOf(rows, u)
           n == Len(rows)
           taken == Taken(rows, r, p)
<1>1. n \in Nat /\ Ordered(rows, n, order)
  BY GroupsAll DEF Grouped, UserOrder
<1>2. u \in Users
  <2>1. order \in Seq(Users) /\ Len(order) \in Nat
    BY <1>1 DEF Ordered
  <2>2. p + 1 \in 1..Len(order)
    BY <2>1
  <2> HIDE DEF order
  <2> QED  BY <2>1, <2>2, ElementOf
<1>3. Queued(rows, n, u, queue)
  BY <1>2, GroupsAll DEF Grouped, QueueOf
<1>4. Taken(rows, r, p + 1) = taken \cup {i \in 1..n : rows[i].user = u /\ Turn(rows, i) = r}
  <2>1. ASSUME NEW i \in 1..n
        PROVE  i \in Taken(rows, r, p + 1) <=> i \in taken \/ (rows[i].user = u /\ Turn(rows, i) = r)
    <3> DEFINE v == rows[i].user
    <3>1. Turn(rows, i) \in Nat
      BY <1>1, TurnFacts
    <3>2. /\ Offers(order, r, p, u) = r
          /\ Offers(order, r, p + 1, v) = IF v = u THEN r + 1 ELSE Offers(order, r, p, v)
      BY OffersGrow
    <3>3. /\ i \in Taken(rows, r, p + 1) <=> Turn(rows, i) < Offers(order, r, p + 1, v)
          /\ i \in taken <=> Turn(rows, i) < Offers(order, r, p, v)
      BY DEF Taken
    <3> HIDE DEF order, u, v, taken
    <3>4. CASE v = u
      BY <3>1, <3>2, <3>3, <3>4 DEF v
    <3>5. CASE v # u
      BY <3>2, <3>3, <3>5 DEF v
    <3> QED  BY <3>4, <3>5
  <2>2. Taken(rows, r, p + 1) \subseteq 1..n /\ taken \subseteq 1..n
    BY TakenFinite
  <2> HIDE DEF taken, u, n
  <2> QED  BY <2>1, <2>2
<1>5. ASSUME Len(queue) <= r PROVE Taken(rows, r, p + 1) = taken
  <2>1. ASSUME NEW i \in 1..n, rows[i].user = u, Turn(rows, i) = r PROVE FALSE
    <3>1. Turn(rows, i) < Tally(rows, n, u) /\ Tally(rows, n, u) \in Nat
      BY <1>1, <2>1, TurnFacts, TallyFacts
    <3>2. Tally(rows, n, u) <= r
      BY <1>3, <1>5 DEF Queued
    <3> HIDE DEF n, u
    <3> QED  BY <2>1, <3>1, <3>2
  <2> HIDE DEF taken, u, n
  <2> QED  BY <1>4, <2>1
<1>6. ASSUME Len(queue) > r
      PROVE  \E i \in 1..n :
               /\ i \notin taken /\ Taken(rows, r, p + 1) = taken \cup {i}
               /\ Place(rows, i) = Cardinality(taken) + 1 /\ queue[r + 1] = rows[i]
  <2>1. r + 1 \in 1..Len(queue) /\ (r + 1) - 1 = r
    <3>1. Len(queue) \in Nat
      BY <1>3 DEF Queued
    <3> HIDE DEF queue
    <3> QED  BY <1>6, <3>1
  <2>2. PICK i \in 1..n : rows[i].user = u /\ Turn(rows, i) = r /\ queue[r + 1] = rows[i]
    <3>1. \E i \in 1..n : rows[i].user = u /\ Turn(rows, i) = (r + 1) - 1 /\ queue[r + 1] = rows[i]
      BY <1>3, <2>1 DEF Queued
    <3> HIDE DEF queue, u, n
    <3> QED  BY <2>1, <3>1
  <2>3. Place(rows, i) = Cardinality(taken) + 1
    BY <2>2, NextPlace
  <2>4. i \notin taken
    <3>1. Offers(order, r, p, u) = r
      BY OffersGrow
    <3> HIDE DEF order, u
    <3> QED  BY <2>2, <3>1 DEF Taken, order
  <2>5. {j \in 1..n : rows[j].user = u /\ Turn(rows, j) = r} = {i}
    <3>1. \A j \in 1..n : rows[j].user = u /\ Turn(rows, j) = r => i = j
      BY <1>1, <2>2, TurnFacts
    <3> HIDE DEF u, n
    <3> QED  BY <2>2, <3>1
  <2> HIDE DEF taken, u, n, queue
  <2>6. Taken(rows, r, p + 1) = taken \cup {i}
    BY <1>4, <2>5
  <2> QED  BY <2>2, <2>3, <2>4, <2>6
<1> QED  BY <1>5, <1>6

-----------------------------------------------------------------------------
(* One task of one user.                                                   *)

(* Counting the rows of a user in a longer sequence.                       *)
LEMMA CountAppend ==
  ASSUME NEW s \in Seq(Row), NEW e \in Row, NEW u
  PROVE  /\ Count(s, u) \in Nat
         /\ Count(Append(s, e), u) = IF e.user = u THEN Count(s, u) + 1 ELSE Count(s, u)
<1> DEFINE t == Append(s, e)
           n == Len(s)
<1>1. /\ n \in Nat /\ DOMAIN s = 1..n /\ DOMAIN t = 1..(n + 1) /\ t[n + 1] = e
      /\ \A k \in 1..n : t[k] = s[k]
  BY AppendFacts
<1>2. Count(s, u) = Tally(s, n, u) /\ Count(t, u) = Tally(t, n + 1, u)
  BY <1>1, CountIs
<1> HIDE DEF t, n
<1>3. Tally(t, n, u) = Tally(s, n, u)
  <2>1. RowsOf(t, n, u) = RowsOf(s, n, u)
    BY <1>1 DEF RowsOf
  <2> QED  BY <2>1 DEF Tally
<1>4. Tally(s, n, u) \in Nat
  BY <1>1, TallyFacts
<1>5. Tally(t, n + 1, u) = IF t[n + 1].user = u THEN Tally(t, n, u) + 1 ELSE Tally(t, n, u)
  BY <1>1, TallyStep
<1> QED  BY <1>1, <1>2, <1>3, <1>4, <1>5 DEF t

(* What popleft takes and what it leaves.                                  *)
LEMMA HeadAndTail ==
  ASSUME NEW S, NEW s \in Seq(S), s # <<>>
  PROVE  /\ Head(s) = s[1] /\ Head(s) \in S /\ Tail(s) \in Seq(S)
         /\ Len(s) \in Nat \ {0} /\ Len(Tail(s)) = Len(s) - 1
         /\ \A k \in 1..Len(Tail(s)) : Tail(s)[k] = s[k + 1]
OBVIOUS

(* Taking one task leaves queues and claims of rows.                       *)
LEMMA TakeTyped ==
  ASSUME NEW st \in ClaimState, NEW u \in Users, NEW limit
  PROVE  TakeOne(st, u, limit) \in ClaimState
<1>1. st.claimed \in Seq(Row) /\ st.by_user \in Queues /\ st.by_user[u] \in Seq(Row)
  BY DEF ClaimState, Queues
<1>2. CASE Len(st.claimed) < limit /\ st.by_user[u] # <<>>
  <2>1. Head(st.by_user[u]) \in Row /\ Tail(st.by_user[u]) \in Seq(Row)
    BY <1>1, <1>2, HeadAndTail
  <2>2. Append(st.claimed, Head(st.by_user[u])) \in Seq(Row)
    BY <1>1, <2>1, AppendFacts
  <2>3. [st.by_user EXCEPT ![u] = Tail(@)] \in Queues
    BY <1>1, <2>1 DEF Queues
  <2> QED  BY <1>2, <2>2, <2>3 DEF TakeOne, ClaimState
<1>3. CASE ~(Len(st.claimed) < limit /\ st.by_user[u] # <<>>)
  BY <1>3 DEF TakeOne
<1> QED  BY <1>2, <1>3

(* Once the limit is reached, the further rows have no place.              *)
LEMMA PlacedFull ==
  ASSUME NEW rows, NEW limit \in Nat, NEW taken, IsFiniteSet(taken), NEW i, i \notin taken,
         Place(rows, i) = Cardinality(taken) + 1, NEW claimed \in Seq(Row),
         Len(claimed) >= limit, Placed(rows, limit, taken, claimed)
  PROVE  Placed(rows, limit, taken \cup {i}, claimed)
<1>1. Cardinality(taken) \in Nat /\ Cardinality(taken \cup {i}) = Cardinality(taken) + 1
  BY FS_CardinalityType, FS_AddElement
<1>2. Cardinality(taken) >= limit /\ Len(claimed) = limit
  BY <1>1 DEF Placed
<1>3. ~(Place(rows, i) <= limit)
  BY <1>1, <1>2
<1>4. Len(claimed) = IF limit < Cardinality(taken \cup {i}) THEN limit ELSE Cardinality(taken \cup {i})
  BY <1>1, <1>2
<1>5. \A j \in taken \cup {i} : Place(rows, j) <= limit =>
        Place(rows, j) \in 1..Len(claimed) /\ claimed[Place(rows, j)] = rows[j]
  BY <1>3 DEF Placed
<1>6. \A q \in 1..Len(claimed) : \E j \in taken \cup {i} : Place(rows, j) = q
  BY DEF Placed
<1> QED  BY <1>4, <1>5, <1>6 DEF Placed

(* Below it, the next row comes to its place at the end.                   *)
LEMMA PlacedNext ==
  ASSUME NEW rows, NEW limit \in Nat, NEW taken, IsFiniteSet(taken), NEW i, i \notin taken,
         Place(rows, i) = Cardinality(taken) + 1, NEW claimed \in Seq(Row), rows[i] \in Row,
         Len(claimed) < limit, Placed(rows, limit, taken, claimed)
  PROVE  Placed(rows, limit, taken \cup {i}, Append(claimed, rows[i]))
<1> DEFINE new == Append(claimed, rows[i])
           n == Len(claimed)
<1>1. Cardinality(taken) \in Nat /\ Cardinality(taken \cup {i}) = Cardinality(taken) + 1
  BY FS_CardinalityType, FS_AddElement
<1>2. n = Cardinality(taken)
  BY <1>1 DEF Placed
<1>3. /\ Len(new) = n + 1 /\ new[n + 1] = rows[i] /\ 1..Len(new) = (1..n) \cup {n + 1}
      /\ \A q \in 1..n : new[q] = claimed[q]
  BY AppendFacts
<1> HIDE DEF new
<1>4. Len(new) = IF limit < Cardinality(taken \cup {i}) THEN limit ELSE Cardinality(taken \cup {i})
  BY <1>1, <1>2, <1>3
<1>5. ASSUME NEW j \in taken \cup {i}, Place(rows, j) <= limit
      PROVE  Place(rows, j) \in 1..Len(new) /\ new[Place(rows, j)] = rows[j]
  <2>1. CASE j = i
    BY <1>2, <1>3, <2>1
  <2>2. CASE j \in taken
    <3>1. Place(rows, j) \in 1..n /\ claimed[Place(rows, j)] = rows[j]
      BY <1>5, <2>2 DEF Placed
    <3> QED  BY <1>3, <3>1
  <2> QED  BY <2>1, <2>2
<1>6. ASSUME NEW q \in 1..Len(new) PROVE \E j \in taken \cup {i} : Place(rows, j) = q
  <2>1. CASE q = n + 1
    BY <1>2, <2>1
  <2>2. CASE q \in 1..n
    BY <2>2 DEF Placed
  <2> QED  BY <1>3, <2>1, <2>2
<1> QED  BY <1>4, <1>5, <1>6 DEF Placed, new

(* One user further in a round, what is claimed and queued is what the     *)
(* turns say.                                                              *)
LEMMA TakeKeeps ==
  ASSUME NEW rows \in Seq(Row), NEW limit \in Nat, NEW r \in Nat,
         NEW p \in 0..(Len(UserOrder(rows)) - 1), NEW st, LoopInv(rows, limit, r, p, st)
  PROVE  LoopInv(rows, limit, r, p + 1, TakeOne(st, UserOrder(rows)[p + 1], limit))
<1> DEFINE order == UserOrder(rows)
           u == order[p + 1]
           queue == QueueOf(rows, u)
           taken == Taken(rows, r, p)
           new == TakeOne(st, u, limit)
<1>1. u \in Users
  <2>1. order \in Seq(Users) /\ Len(order) \in Nat
    BY GroupsAll DEF Grouped, Ordered, UserOrder
  <2>2. p + 1 \in 1..Len(order)
    BY <2>1
  <2> HIDE DEF order
  <2> QED  BY <2>1, <2>2, ElementOf
<1>2. /\ st \in ClaimState /\ new \in ClaimState /\ st.claimed \in Seq(Row) /\ st.by_user \in Queues
      /\ st.by_user[u] \in Seq(Row) /\ Len(st.by_user[u]) \in Nat
  BY <1>1, TakeTyped DEF LoopInv, ClaimState, Queues
<1>3. /\ Offers(order, r, p, u) = r /\ Offers(order, r, p + 1, u) = r + 1
      /\ \A v : v # u => Offers(order, r, p + 1, v) = Offers(order, r, p, v)
      /\ \A v : Offers(order, r, p, v) \in {r, r + 1}
  <2>1. ASSUME NEW v
        PROVE  /\ Offers(order, r, p, v) \in {r, r + 1} /\ Offers(order, r, p, u) = r
               /\ Offers(order, r, p + 1, v) = IF v = u THEN r + 1 ELSE Offers(order, r, p, v)
    BY OffersGrow
  <2> HIDE DEF order, u
  <2> QED  BY <2>1
<1>4. /\ Len(queue) <= r => Taken(rows, r, p + 1) = taken
      /\ Len(queue) > r => \E i \in 1..Len(rows) :
           /\ i \notin taken /\ Taken(rows, r, p + 1) = taken \cup {i}
           /\ Place(rows, i) = Cardinality(taken) + 1 /\ queue[r + 1] = rows[i]
  BY NextTaken
<1>5. Len(queue) \in Nat /\ IsFiniteSet(taken)
  BY <1>1, GroupsAll, TakenFinite DEF Grouped, Queued, QueueOf
<1>6. Placed(rows, limit, taken, st.claimed) /\ Even(rows, st)
  BY DEF LoopInv
<1>7. Len(st.claimed) < limit =>
        \A v \in Users : RestOf(QueueOf(rows, v), Offers(order, r, p, v), st.by_user[v])
  BY DEF LoopInv
<1> HIDE DEF order, u, queue, taken, new
<1>8. CASE ~(Len(st.claimed) < limit)
  <2>1. new = st
    BY <1>8 DEF TakeOne, new
  <2>2. Placed(rows, limit, Taken(rows, r, p + 1), st.claimed)
    <3>1. Len(st.claimed) >= limit
      BY <1>2, <1>8
    <3>2. CASE Len(queue) > r
      <4>1. PICK i \in 1..Len(rows) : /\ i \notin taken /\ Taken(rows, r, p + 1) = taken \cup {i}
                                      /\ Place(rows, i) = Cardinality(taken) + 1
        BY <1>4, <3>2
      <4>2. Placed(rows, limit, taken \cup {i}, st.claimed)
        BY <1>2, <1>5, <1>6, <3>1, <4>1, PlacedFull
      <4> QED  BY <4>1, <4>2
    <3>3. CASE Len(queue) <= r
      BY <1>4, <1>6, <3>3
    <3> QED  BY <1>5, <3>2, <3>3
  <2> QED  BY <1>2, <1>6, <1>8, <2>1, <2>2 DEF LoopInv, new, u, order
<1>9. CASE Len(st.claimed) < limit /\ st.by_user[u] = <<>>
  <2>1. new = st
    BY <1>9 DEF TakeOne, new
  <2>2. Len(queue) <= r
    <3>1. RestOf(queue, r, st.by_user[u])
      BY <1>1, <1>3, <1>7, <1>9 DEF queue
    <3>2. Len(st.by_user[u]) = 0
      BY <1>9
    <3> QED  BY <1>5, <3>1, <3>2 DEF RestOf, Less
  <2>3. Taken(rows, r, p + 1) = taken
    BY <1>4, <2>2
  <2>4. ASSUME NEW v \in Users
        PROVE  RestOf(QueueOf(rows, v), Offers(order, r, p + 1, v), st.by_user[v])
    <3>1. CASE v = u
      <4>1. Len(st.by_user[u]) = Less(Len(queue), r + 1) /\ 1..Len(st.by_user[u]) = {}
        BY <1>5, <1>9, <2>2 DEF Less
      <4> QED  BY <1>3, <3>1, <4>1 DEF RestOf, queue
    <3>2. CASE v # u
      BY <1>3, <1>7, <1>9, <3>2
    <3> QED  BY <3>1, <3>2
  <2> QED  BY <1>2, <1>6, <2>1, <2>3, <2>4 DEF LoopInv, new, u, order, taken
<1>10. CASE Len(st.claimed) < limit /\ st.by_user[u] # <<>>
  <2> DEFINE rest == st.by_user[u]
             e == Head(rest)
  <2>1. /\ new.claimed = Append(st.claimed, e)
        /\ new.by_user = [st.by_user EXCEPT ![u] = Tail(@)]
    BY <1>10 DEF TakeOne, new
  <2>2. /\ e = rest[1] /\ e \in Row /\ Tail(rest) \in Seq(Row) /\ Len(rest) \in Nat \ {0}
        /\ Len(Tail(rest)) = Len(rest) - 1
        /\ \A k \in 1..Len(Tail(rest)) : Tail(rest)[k] = rest[k + 1]
    BY <1>2, <1>10, HeadAndTail
  <2>3. /\ new.by_user[u] = Tail(rest)
        /\ \A v \in Users : v # u => new.by_user[v] = st.by_user[v]
    BY <1>1, <1>2, <2>1 DEF Queues
  <2> HIDE DEF rest, e
  <2>4. Len(rest) = Less(Len(queue), r) /\ \A k \in 1..Len(rest) : rest[k] = queue[k + r]
    BY <1>1, <1>3, <1>7, <1>10 DEF RestOf, queue, rest
  <2>5. Len(queue) > r /\ Len(rest) = Len(queue) - r /\ e = queue[r + 1]
    <3>1. Len(queue) > r /\ Len(rest) = Len(queue) - r
      BY <1>5, <2>2, <2>4 DEF Less
    <3>2. 1 \in 1..Len(rest) /\ 1 + r = r + 1
      BY <2>2
    <3> QED  BY <2>2, <2>4, <3>1, <3>2
  <2>6. PICK i \in 1..Len(rows) :
          /\ i \notin taken /\ Taken(rows, r, p + 1) = taken \cup {i}
          /\ Place(rows, i) = Cardinality(taken) + 1 /\ queue[r + 1] = rows[i]
    BY <1>4, <2>5
  <2>7. Placed(rows, limit, Taken(rows, r, p + 1), new.claimed)
    <3>1. rows[i] \in Row /\ e = rows[i]
      BY <2>2, <2>5, <2>6
    <3>2. Placed(rows, limit, taken \cup {i}, Append(st.claimed, rows[i]))
      BY <1>2, <1>5, <1>6, <1>10, <2>6, <3>1, PlacedNext
    <3> QED  BY <2>1, <2>6, <3>1, <3>2
  <2>8. ASSUME NEW v \in Users
        PROVE  RestOf(QueueOf(rows, v), Offers(order, r, p + 1, v), new.by_user[v])
    <3>1. CASE v = u
      <4>1. Len(Tail(rest)) = Less(Len(queue), r + 1)
        <5>1. Less(Len(queue), r + 1) = Len(queue) - (r + 1)
          BY <1>5, <2>5 DEF Less
        <5>2. Len(Tail(rest)) = Len(queue) - r - 1
          BY <2>2, <2>5
        <5> QED  BY <1>5, <5>1, <5>2
      <4>2. ASSUME NEW k \in 1..Len(Tail(rest)) PROVE Tail(rest)[k] = queue[k + (r + 1)]
        <5>1. k + 1 \in 1..Len(rest) /\ (k + 1) + r = k + (r + 1)
          BY <2>2
        <5> QED  BY <2>2, <2>4, <5>1
      <4>3. RestOf(queue, r + 1, Tail(rest))
        BY <4>1, <4>2 DEF RestOf
      <4> QED  BY <1>3, <2>3, <3>1, <4>3 DEF queue
    <3>2. CASE v # u
      BY <1>3, <1>7, <1>10, <2>3, <3>2
    <3> QED  BY <3>1, <3>2
  <2>9. \A v \in Users : Count(new.claimed, v) + Len(new.by_user[v]) = Len(QueueOf(rows, v))
    <3>1. e.user = u
      <4>1. Queued(rows, Len(rows), u, queue) /\ r + 1 \in 1..Len(queue)
        BY <1>1, <1>5, <2>5, GroupsAll DEF Grouped, QueueOf, queue
      <4> QED  BY <2>5, <4>1 DEF Queued
    <3>2. \A v \in Users : /\ Count(st.claimed, v) \in Nat
                           /\ Count(st.claimed, v) + Len(st.by_user[v]) = Len(QueueOf(rows, v))
      BY <1>2, <1>6, <2>2, CountAppend DEF Even
    <3>3. ASSUME NEW v \in Users
          PROVE  Count(new.claimed, v) + Len(new.by_user[v]) = Len(QueueOf(rows, v))
      <4>1. Count(new.claimed, v) = IF u = v THEN Count(st.claimed, v) + 1 ELSE Count(st.claimed, v)
        BY <1>2, <2>1, <2>2, <3>1, CountAppend
      <4>2. CASE v = u
        <5>1. st.by_user[v] = rest /\ new.by_user[v] = Tail(rest)
          BY <2>3, <4>2 DEF rest
        <5>2. Len(rest) \in Nat /\ Len(Tail(rest)) = Len(rest) - 1
          BY <2>2
        <5>3. Count(new.claimed, v) = Count(st.claimed, v) + 1
          BY <4>1, <4>2
        <5>4. Count(st.claimed, v) \in Nat /\ Count(st.claimed, v) + Len(rest) = Len(QueueOf(rows, v))
          BY <3>2, <5>1
        <5>5. Count(new.claimed, v) + Len(Tail(rest)) = Len(QueueOf(rows, v))
          <6>1. \A a, b \in Nat : (a + 1) + (b - 1) = a + b
            OBVIOUS
          <6> QED  BY <5>2, <5>3, <5>4, <6>1
        <5> QED  BY <5>1, <5>5
      <4>3. CASE v # u
        BY <2>3, <3>2, <4>1, <4>3
      <4> QED  BY <4>2, <4>3
    <3> QED  BY <3>3
  <2>10. \A v \in Users : Len(new.by_user[v]) \in
           {Less(Len(QueueOf(rows, v)), r), Less(Len(QueueOf(rows, v)), r + 1)}
    BY <1>3, <2>8 DEF RestOf
  <2>11. Even(rows, new)
    BY <2>9, <2>10 DEF Even
  <2> QED  BY <1>2, <2>7, <2>8, <2>11 DEF LoopInv, new, u, order
<1> QED  BY <1>8, <1>9, <1>10

-----------------------------------------------------------------------------
(* A round, and all of them.                                               *)

(* The user order is a sequence of users.                                  *)
LEMMA OrderTyped ==
  ASSUME NEW rows \in Seq(Row)
  PROVE  LET order == UserOrder(rows) IN
         /\ order \in Seq(Users) /\ Len(order) \in Nat /\ DOMAIN order = 1..Len(order)
         /\ \A p \in 1..Len(order) : order[p] \in Users
<1>1. UserOrder(rows) \in Seq(Users)
  BY GroupsAll DEF Grouped, Ordered, UserOrder
<1> QED  BY <1>1, ElementOf

(* The states of a round over these users that begins in st.               *)
RoundOf(order, limit, st, sts) ==
  /\ sts \in [0..Len(order) -> ClaimState]
  /\ sts[0] = st
  /\ \A k \in 1..Len(order) : sts[k] = TakeOne(sts[k - 1], order[k], limit)
  /\ Round(st, order, limit) = sts[Len(order)]

(* A round passes well-typed states.                                       *)
LEMMA RoundTyped ==
  ASSUME NEW rows \in Seq(Row), NEW limit, NEW st \in ClaimState
  PROVE  \E sts : RoundOf(UserOrder(rows), limit, st, sts)
<1> DEFINE order == UserOrder(rows)
           n == Len(order)
<1>1. n \in Nat /\ DOMAIN order = 1..n /\ \A p \in 1..n : order[p] \in Users
  BY OrderTyped
<1> HIDE DEF order, n
<1>2. \A s \in ClaimState, k \in 1..n : TakeOne(s, order[k], limit) \in ClaimState
  BY <1>1, TakeTyped
<1>3. \E sts \in [0..n -> ClaimState] :
           /\ sts[0] = st
           /\ \A k \in 1..n : sts[k] = TakeOne(sts[k - 1], order[k], limit)
           /\ Round(st, order, limit) = sts[n]
  <2>1. RoundStays(limit, order, n, ClaimState, st)
    BY <1>1, <1>2 DEF RoundStays
  <2> QED  BY <2>1, RoundStates
<1> QED  BY <1>3 DEF RoundOf, order, n

(* When everybody has been offered one more task the next round begins.    *)
LEMMA RoundEnds ==
  ASSUME NEW rows \in Seq(Row), NEW limit, NEW r \in Nat, NEW st,
         LoopInv(rows, limit, r, Len(UserOrder(rows)), st)
  PROVE  LoopInv(rows, limit, r + 1, 0, st)
<1> DEFINE order == UserOrder(rows)
           m == Len(order)
           n == Len(rows)
<1>1. n \in Nat /\ Ordered(rows, n, order) /\ m \in Nat
  BY GroupsAll, OrderTyped DEF Grouped, UserOrder
<1>2. \A v : Offers(order, r + 1, 0, v) = r + 1
  BY DEF Offers
<1>3. \A i \in 1..n : Offers(order, r, m, rows[i].user) = r + 1
  BY <1>1 DEF Ordered, Offers
<1>4. Taken(rows, r, m) = Taken(rows, r + 1, 0)
  BY <1>2, <1>3 DEF Taken
<1>5. ASSUME NEW u \in Users, RestOf(QueueOf(rows, u), Offers(order, r, m, u), st.by_user[u])
      PROVE  RestOf(QueueOf(rows, u), Offers(order, r + 1, 0, u), st.by_user[u])
  <2> DEFINE queue == QueueOf(rows, u)
             rest == st.by_user[u]
  <2>1. CASE \E i \in 1..n : rows[i].user = u
    BY <1>2, <1>3, <1>5, <2>1
  <2>2. CASE ~\E i \in 1..n : rows[i].user = u
    <3>1. Queued(rows, n, u, queue)
      BY GroupsAll DEF Grouped, QueueOf
    <3>2. Tally(rows, n, u) = 0
      <4>1. RowsOf(rows, n, u) = {}
        BY <2>2 DEF RowsOf
      <4> QED  BY <4>1, FS_EmptySet DEF Tally
    <3>3. Len(queue) = 0
      BY <3>1, <3>2 DEF Queued
    <3>4. Offers(order, r, m, u) \in Nat
      BY DEF Offers
    <3> HIDE DEF order, m, n, queue
    <3>5. Len(rest) = 0
      BY <1>5, <3>3, <3>4 DEF RestOf, Less, queue
    <3>6. RestOf(queue, r + 1, rest)
      BY <3>3, <3>5 DEF RestOf, Less
    <3> QED  BY <1>2, <3>6 DEF queue
  <2> QED  BY <2>1, <2>2
<1> HIDE DEF m, n
<1> QED  BY <1>4, <1>5 DEF LoopInv, m, order

(* One round further, the next turn begins.                                *)
LEMMA RoundKeeps ==
  ASSUME NEW rows \in Seq(Row), NEW limit \in Nat, NEW r \in Nat, NEW st,
         LoopInv(rows, limit, r, 0, st)
  PROVE  LoopInv(rows, limit, r + 1, 0, Round(st, UserOrder(rows), limit))
<1> DEFINE order == UserOrder(rows)
           n == Len(order)
<1>1. n \in Nat
  BY OrderTyped
<1>2. st \in ClaimState
  BY DEF LoopInv
<1>3. PICK sts : RoundOf(order, limit, st, sts)
  BY <1>2, RoundTyped
<1>4. /\ sts[0] = st
      /\ \A k \in 1..n : sts[k] = TakeOne(sts[k - 1], order[k], limit)
      /\ Round(st, order, limit) = sts[n]
  BY <1>3 DEF RoundOf
<1> DEFINE P == {p \in 0..n : LoopInv(rows, limit, r, p, sts[p])}
<1>5. 0 \in P
  BY <1>1, <1>4
<1>6. ASSUME NEW p \in 0..(n - 1), p \in P PROVE p + 1 \in P
  <2>1. p + 1 \in 1..n /\ p + 1 \in 0..n /\ (p + 1) - 1 = p
    BY <1>1
  <2>2. sts[p + 1] = TakeOne(sts[p], order[p + 1], limit)
    BY <1>4, <2>1
  <2>3. LoopInv(rows, limit, r, p, sts[p])
    BY <1>6
  <2>4. LoopInv(rows, limit, r, p + 1, TakeOne(sts[p], order[p + 1], limit))
    BY <2>3, TakeKeeps
  <2> QED  BY <2>1, <2>2, <2>4
<1> HIDE DEF P, n, order
<1>7. \A p \in 0..n : p \in P
  BY <1>1, <1>5, <1>6, UpTo
<1>8. n \in P
  BY <1>1, <1>7
<1>9. LoopInv(rows, limit, r, n, sts[n])
  BY <1>8 DEF P
<1> QED  BY <1>4, <1>9, RoundEnds DEF n, order

(* Before the first round nothing is claimed and everything queued.        *)
LEMMA LoopBegins ==
  ASSUME NEW rows \in Seq(Row), NEW limit \in Nat
  PROVE  LoopInv(rows, limit, 0, 0, Ungrouped(rows))
<1> DEFINE st == Ungrouped(rows)
<1>1. st.claimed = <<>> /\ \A u : st.by_user[u] = QueueOf(rows, u)
  BY DEF Ungrouped, QueueOf
<1>2. st \in ClaimState
  BY GroupsAll DEF Ungrouped, ClaimState, Groups
<1>3. \A v : Offers(UserOrder(rows), 0, 0, v) = 0
  BY DEF Offers
<1>4. Taken(rows, 0, 0) = {}
  <2>1. ASSUME NEW i \in 1..Len(rows) PROVE ~(Turn(rows, i) < 0)
    <3>1. Turn(rows, i) \in Nat
      <4>1. Len(rows) \in Nat
        OBVIOUS
      <4> QED  BY <4>1, TurnFacts
    <3> QED  BY <3>1
  <2> QED  BY <1>3, <2>1 DEF Taken
<1>5. Placed(rows, limit, {}, <<>>)
  BY FS_EmptySet DEF Placed
<1>6. \A u \in Users : Len(QueueOf(rows, u)) \in Nat
  BY GroupsAll DEF Grouped, Queued, QueueOf
<1>7. \A u \in Users : RestOf(QueueOf(rows, u), 0, QueueOf(rows, u))
  <2>1. ASSUME NEW u \in Users PROVE RestOf(QueueOf(rows, u), 0, QueueOf(rows, u))
    <3> DEFINE queue == QueueOf(rows, u)
    <3>1. Len(queue) \in Nat
      BY <1>6
    <3> HIDE DEF queue
    <3>2. RestOf(queue, 0, queue)
      BY <3>1 DEF RestOf, Less
    <3> QED  BY <3>2 DEF queue
  <2> QED  BY <2>1
<1> HIDE DEF st
<1>8. Even(rows, st)
  <2>1. ASSUME NEW u \in Users
        PROVE  /\ Count(st.claimed, u) + Len(st.by_user[u]) = Len(QueueOf(rows, u))
               /\ Len(st.by_user[u]) = Less(Len(QueueOf(rows, u)), 0)
    <3>1. Count(<<>>, u) = 0
      <4>1. DOMAIN <<>> = 1..0
        OBVIOUS
      <4> QED  BY <4>1, CountIs, TallyFacts
    <3> QED  BY <1>1, <1>6, <3>1 DEF Less
  <2> QED  BY <2>1 DEF Even
<1>9. LoopInv(rows, limit, 0, 0, st)
  BY <1>1, <1>2, <1>3, <1>4, <1>5, <1>7, <1>8 DEF LoopInv
<1> QED  BY <1>9 DEF st

(* In the end all rows have been offered a place.                          *)
LEMMA ClaimResult ==
  ASSUME NEW rows \in Seq(Row), NEW limit \in Nat
  PROVE  \E st \in ClaimState :
           /\ ClaimTasks(rows, limit) = st.claimed
           /\ Placed(rows, limit, 1..Len(rows), st.claimed) /\ Even(rows, st)
<1> DEFINE n == Len(rows)
           order == UserOrder(rows)
<1>1. n \in Nat /\ DOMAIN rows = 1..n
  OBVIOUS
<1>2. Ungrouped(rows) \in ClaimState
  BY LoopBegins DEF LoopInv
<1>3. \A st \in ClaimState, k \in 1..n : Round(st, order, limit) \in ClaimState
  <2>1. ASSUME NEW st \in ClaimState PROVE Round(st, order, limit) \in ClaimState
    <3>1. Len(order) \in Nat
      BY OrderTyped
    <3>2. PICK sts : RoundOf(order, limit, st, sts)
      BY RoundTyped
    <3> HIDE DEF order
    <3> QED  BY <3>1, <3>2 DEF RoundOf
  <2> QED  BY <2>1
<1> HIDE DEF n
<1>4. PICK sts \in [0..n -> ClaimState] :
           /\ sts[0] = Ungrouped(rows)
           /\ \A k \in 1..n : sts[k] = Round(sts[k - 1], order, limit)
           /\ ClaimTasks(rows, limit) = sts[n].claimed
  <2>1. ClaimStays(limit, rows, n, ClaimState)
    BY <1>1, <1>2, <1>3 DEF ClaimStays, UserOrder
  <2>2. \E sts \in [0..n -> ClaimState] :
           /\ sts[0] = Ungrouped(rows)
           /\ \A k \in 1..n : sts[k] = Round(sts[k - 1], UserOrder(rows), limit)
           /\ ClaimTasks(rows, limit) = sts[n].claimed
    BY <2>1, ClaimStates
  <2> QED  BY <2>2 DEF UserOrder
<1> DEFINE P == {r \in 0..n : LoopInv(rows, limit, r, 0, sts[r])}
<1>5. 0 \in P
  BY <1>1, <1>4, LoopBegins
<1>6. ASSUME NEW r \in 0..(n - 1), r \in P PROVE r + 1 \in P
  <2>1. r + 1 \in 1..n /\ r + 1 \in 0..n /\ (r + 1) - 1 = r /\ r \in Nat
    BY <1>1
  <2>2. sts[r + 1] = Round(sts[r], order, limit)
    BY <1>4, <2>1
  <2>3. LoopInv(rows, limit, r, 0, sts[r])
    BY <1>6
  <2>4. LoopInv(rows, limit, r + 1, 0, Round(sts[r], order, limit))
    BY <2>1, <2>3, RoundKeeps
  <2> QED  BY <2>1, <2>2, <2>4
<1> HIDE DEF P, order
<1>7. \A r \in 0..n : r \in P
  BY <1>1, <1>5, <1>6, UpTo
<1>8. n \in P
  BY <1>1, <1>7
<1>9. LoopInv(rows, limit, n, 0, sts[n])
  BY <1>8 DEF P
<1>10. Taken(rows, n, 0) = 1..n
  <2>1. \A v : Offers(UserOrder(rows), n, 0, v) = n
    BY DEF Offers
  <2>2. \A i \in 1..n : Turn(rows, i) < n
    BY <1>1, TurnFacts
  <2> QED  BY <2>1, <2>2 DEF Taken, n
<1> QED  BY <1>4, <1>9, <1>10 DEF LoopInv, n

-----------------------------------------------------------------------------
(* What is claimed.                                                        *)

(* _claim_tasks claims what the reference definition says, in its order.   *)
LEMMA ClaimsReference ==
  ASSUME NEW rows \in Seq(Row), NEW limit \in Nat
  PROVE  ClaimTasks(rows, limit) = Reference(rows, limit)
<1> DEFINE n == Len(rows)
           claimed == ClaimTasks(rows, limit)
           m == IF limit < n THEN limit ELSE n
           At(q) == CHOOSE i \in DOMAIN rows : Place(rows, i) = q
<1>1. n \in Nat /\ DOMAIN rows = 1..n
  OBVIOUS
<1>2. claimed \in Seq(Row) /\ Placed(rows, limit, 1..n, claimed)
  <2>1. PICK st \in ClaimState : claimed = st.claimed /\ Placed(rows, limit, 1..n, st.claimed)
    BY ClaimResult
  <2> HIDE DEF claimed
  <2> QED  BY <2>1 DEF ClaimState
<1>3. Cardinality(1..n) = n
  <2>1. 1 \in Int /\ n \in Int
    BY <1>1
  <2>2. Cardinality(1..n) = IF 1 > n THEN 0 ELSE n - 1 + 1
    BY <2>1, FS_Interval
  <2> HIDE DEF n
  <2> QED  BY <1>1, <2>2
<1> HIDE DEF claimed, n
<1>4. Len(claimed) = m /\ DOMAIN claimed = 1..m
  BY <1>2, <1>3 DEF Placed
<1> HIDE DEF m
<1>5. ASSUME NEW q \in 1..m PROVE claimed[q] = rows[At(q)]
  <2>1. \E i \in DOMAIN rows : Place(rows, i) = q
    BY <1>1, <1>2, <1>4 DEF Placed
  <2>2. At(q) \in 1..n /\ Place(rows, At(q)) = q
    <3>1. At(q) \in DOMAIN rows /\ Place(rows, At(q)) = q
      BY <2>1
    <3> QED  BY <1>1, <3>1
  <2>3. q <= limit
    BY <1>1 DEF m
  <2> HIDE DEF At
  <2> QED  BY <1>2, <2>2, <2>3 DEF Placed
<1>6. claimed = [q \in 1..m |-> claimed[q]]
  BY <1>2, <1>4
<1>7. claimed = [q \in 1..m |-> rows[At(q)]]
  <2> HIDE DEF At
  <2> QED  BY <1>5, <1>6
<1> QED  BY <1>7 DEF Reference, m, n, claimed

(* Who has work left after a claim is at most one task behind anybody.     *)
LEMMA ClaimsFair ==
  ASSUME NEW rows \in Seq(Row), NEW limit \in Nat, NEW u \in Users, NEW v \in Users
  PROVE  LET claimed == ClaimTasks(rows, limit) IN
         Count(claimed, u) < Count(rows, u) => Count(claimed, v) <= Count(claimed, u) + 1
<1>1. PICK st \in ClaimState : ClaimTasks(rows, limit) = st.claimed /\ Even(rows, st)
  BY ClaimResult
<1>2. ASSUME NEW w \in Users
      PROVE  /\ Count(st.claimed, w) \in Nat /\ Count(rows, w) \in Nat
             /\ Len(QueueOf(rows, w)) = Count(rows, w)
             /\ Count(st.claimed, w) + Len(st.by_user[w]) = Count(rows, w)
  <2>1. /\ Len(rows) \in Nat /\ DOMAIN rows = 1..Len(rows)
        /\ Len(st.claimed) \in Nat /\ DOMAIN st.claimed = 1..Len(st.claimed)
    BY DEF ClaimState
  <2>2. Len(QueueOf(rows, w)) = Tally(rows, Len(rows), w)
    BY GroupsAll DEF Grouped, Queued, QueueOf
  <2>3. Count(rows, w) = Tally(rows, Len(rows), w) /\ Count(rows, w) \in Nat
    BY <2>1, CountIs, TallyFacts
  <2>4. Count(st.claimed, w) \in Nat
    BY <2>1, CountIs, TallyFacts
  <2>5. Count(st.claimed, w) + Len(st.by_user[w]) = Len(QueueOf(rows, w))
    BY <1>1 DEF Even
  <2> QED  BY <2>2, <2>3, <2>4, <2>5
<1>3. PICK l \in Nat : \A w \in Users :
        Len(st.by_user[w]) \in {Less(Count(rows, w), l), Less(Count(rows, w), l + 1)}
  <2>1. PICK l \in Nat : \A w \in Users : Len(st.by_user[w]) \in
          {Less(Len(QueueOf(rows, w)), l), Less(Len(QueueOf(rows, w)), l + 1)}
    BY <1>1 DEF Even
  <2> QED  BY <1>2, <2>1
<1>4. ASSUME NEW w \in Users
      PROVE  /\ Count(st.claimed, w) <= l + 1
             /\ Count(st.claimed, w) < Count(rows, w) => Count(st.claimed, w) >= l
  <2> DEFINE c == Count(st.claimed, w)
             all == Count(rows, w)
             left == Len(st.by_user[w])
  <2>1. c \in Nat /\ all \in Nat /\ c + left = all
    BY <1>2
  <2>2. left \in {Less(all, l), Less(all, l + 1)}
    BY <1>3
  <2> HIDE DEF c, all, left
  <2>3. c <= l + 1 /\ (c < all => c >= l)
    <3>1. CASE left = Less(all, l)
      BY <2>1, <3>1 DEF Less
    <3>2. CASE left = Less(all, l + 1)
      BY <2>1, <3>2 DEF Less
    <3> QED  BY <2>2, <3>1, <3>2
  <2> QED  BY <2>3 DEF c, all, left
<1> QED  BY <1>1, <1>2, <1>4

(* The first task claimed is the oldest one.                               *)
LEMMA ClaimsOldest ==
  ASSUME NEW rows \in Seq(Row), NEW limit \in Nat, limit > 0, rows # <<>>
  PROVE  ClaimTasks(rows, limit)[1] = rows[1]
<1> DEFINE n == Len(rows)
<1>1. n \in Nat /\ DOMAIN rows = 1..n /\ 1 \in 1..n
  OBVIOUS
<1>2. Ordered(rows, n, UserOrder(rows))
  BY GroupsAll DEF Grouped, UserOrder
<1>3. ASSUME NEW j \in 1..n PROVE ~Earlier(rows, j, 1)
  <2>1. Turn(rows, 1) = 0
    <3>1. Turn(rows, 1) = Tally(rows, 0, rows[1].user)
      BY TurnIs
    <3> QED  BY <3>1, TallyFacts
  <2>2. Turn(rows, j) \in Nat
    BY <1>1, TurnFacts
  <2>3. FirstRow(rows, rows[1].user) = 1
    BY <1>1, FirstRowIs
  <2>4. FirstRow(rows, rows[j].user) \in 1..n
    <3>1. PICK q \in 1..Len(UserOrder(rows)) : UserOrder(rows)[q] = rows[j].user
      BY <1>2 DEF Ordered
    <3> QED  BY <1>2, <3>1 DEF Ordered
  <2> HIDE DEF n
  <2> QED  BY <1>1, <2>1, <2>2, <2>3, <2>4 DEF Earlier
<1>4. Place(rows, 1) = 1
  <2>1. {j \in DOMAIN rows : Earlier(rows, j, 1)} = {}
    BY <1>1, <1>3
  <2>2. Place(rows, 1) = 1 + Cardinality({})
    BY <2>1 DEF Place
  <2> QED  BY <2>2, FS_EmptySet
<1>5. PICK st \in ClaimState : ClaimTasks(rows, limit) = st.claimed /\ Placed(rows, limit, 1..n, st.claimed)
  BY ClaimResult
<1> HIDE DEF n
<1>6. st.claimed[1] = rows[1]
  BY <1>1, <1>4, <1>5 DEF Placed
<1> QED  BY <1>5, <1>6

-----------------------------------------------------------------------------
(* The passes.                                                             *)

QueueTyped == pending \in Seq(Row) /\ submitted \in Nat

(* What stays pending are rows.                                            *)
LEMMA PendingTyped ==
  ASSUME NEW rows \in Seq(Row), NEW claimed
  PROVE  StillPending(rows, claimed) \in Seq(Row)
<1> DEFINE n == Len(rows)
<1>1. n \in Nat /\ DOMAIN rows = 1..n
  OBVIOUS
<1>2. \A st \in Seq(Row), k \in 1..n :
        (IF rows[k] \in ToSet(claimed) THEN st ELSE Append(st, rows[k])) \in Seq(Row)
  <2>1. \A k \in 1..n : rows[k] \in Row
    BY ElementOf
  <2> HIDE DEF n
  <2> QED  BY <2>1, AppendFacts
<1>3. <<>> \in Seq(Row)
  OBVIOUS
<1> HIDE DEF n
<1>4. PendingStays(claimed, rows, n, Seq(Row))
  BY <1>1, <1>2, <1>3 DEF PendingStays, KeepOpen
<1>5. PICK sts \in [0..n -> Seq(Row)] : StillPending(rows, claimed) = sts[n]
  BY <1>4, PendingStates
<1> QED  BY <1>1, <1>5

(* The claim query always returns rows of students.                        *)
THEOREM PendingAreRows == Spec => []QueueTyped
<1>1. Init => QueueTyped
  BY DEF Init, QueueTyped
<1>2. QueueTyped /\ [Next]_vars => QueueTyped'
  <2> SUFFICES ASSUME QueueTyped, [Next]_vars PROVE QueueTyped'
    OBVIOUS
  <2>1. ASSUME NEW u \in Users, NEW lines \in BatchSizes, SubmitBatch(u, lines)
        PROVE  QueueTyped'
    <3> DEFINE batch == [i \in 1..lines |-> [user |-> u, task |-> submitted + i]]
    <3>1. lines \in Nat /\ submitted \in Nat /\ pending \in Seq(Row)
      BY SizesAssumption DEF QueueTyped
    <3>2. \A i \in 1..lines : [user |-> u, task |-> submitted + i] \in Row
      BY <3>1 DEF Row
    <3>3. batch \in Seq(Row)
      BY <3>1, <3>2
    <3>4. pending' = pending \o batch /\ submitted' = submitted + lines
      BY <2>1 DEF SubmitBatch
    <3> HIDE DEF batch
    <3>5. pending \o batch \in Seq(Row)
      BY <3>1, <3>3
    <3> QED  BY <3>1, <3>4, <3>5 DEF QueueTyped
  <2>2. ASSUME NEW free \in 1..Capacity, Pass(free) PROVE QueueTyped'
    BY <2>2, PendingTyped DEF Pass, QueueTyped
  <2>3. CASE Done \/ UNCHANGED vars
    BY <2>3 DEF Done, vars, QueueTyped
  <2> QED  BY <2>1, <2>2, <2>3 DEF Next
<1> QED  BY <1>1, <1>2, PTL DEF Spec

(* Whatever the users, the queue and the capacity, the loops of            *)
(* _claim_tasks claim the rows with the lowest turns, in that order.       *)
THEOREM ClaimedByTurn == Spec => []ClaimsByTurn
<1>1. QueueTyped => ClaimsByTurn
  <2> SUFFICES ASSUME QueueTyped, NEW limit \in 0..(Capacity + 1)
               PROVE  ClaimTasks(pending, limit) = Reference(pending, limit)
    BY DEF ClaimsByTurn
  <2>1. limit \in Nat /\ pending \in Seq(Row)
    BY SizesAssumption DEF QueueTyped
  <2> QED  BY <2>1, ClaimsReference
<1> QED  BY <1>1, PendingAreRows, PTL

(* In every pass, whoever still has work left gets at most one task less   *)
(* than anybody else.                                                      *)
THEOREM SharesAreFair == Spec => []FairShare
<1>1. QueueTyped => FairShare
  <2> SUFFICES ASSUME QueueTyped, NEW limit \in 1..Capacity, NEW u \in Users, NEW v \in Users
               PROVE  LET claimed == ClaimTasks(pending, limit) IN
                      Count(claimed, u) < Count(pending, u) => Count(claimed, v) <= Count(claimed, u) + 1
    BY DEF FairShare
  <2>1. limit \in Nat /\ pending \in Seq(Row)
    BY SizesAssumption DEF QueueTyped
  <2> QED  BY <2>1, ClaimsFair
<1> QED  BY <1>1, PendingAreRows, PTL

(* Every pass takes the oldest pending task first.                         *)
THEOREM OldestFirst == Spec => []OldestIsTaken
<1>1. QueueTyped => OldestIsTaken
  <2> SUFFICES ASSUME QueueTyped, NEW limit \in 1..Capacity, pending # <<>>
               PROVE  ClaimTasks(pending, limit)[1] = pending[1]
    BY DEF OldestIsTaken
  <2>1. limit \in Nat /\ limit > 0 /\ pending \in Seq(Row)
    BY SizesAssumption DEF QueueTyped
  <2> QED  BY <2>1, ClaimsOldest
<1> QED  BY <1>1, PendingAreRows, PTL
=============================================================================
