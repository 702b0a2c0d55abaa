------------------------ MODULE LedgerThreads_proofs ------------------------
(***************************************************************************)
(* Safety of the threaded ledger for every set of users, requests, amounts *)
(* and corrections.  The invariant that carries everything is that a       *)
(* request past its read owns _budget_lock and still holds a copy of the   *)
(* current row: whichever way round a caller takes the two locks, nobody   *)
(* else can have committed to a budgets row since.                         *)
(***************************************************************************)
EXTENDS LedgerThreads, TLAPS

(* Who owns _budget_lock is who is inside ledger.py.                       *)
BudgetLockOwner == \A r \in Requests : InLedger(r) <=> budgetLock = r

(* The write lock is only ever held between the flush and the end of the   *)
(* transaction.                                                            *)
DbLockOwner ==
  \A r \in Requests :
    dbLock = r => pc[r] \in {"flushed", "locked", "read", "refusing"}

(* The copy a request is about to write from is the row as it is.          *)
FreshCopy ==
  \A r \in Requests : pc[r] = "read" => local[r] = budget[User(r)]

IndInv ==
  /\ TypeOK
  /\ BudgetLockOwner
  /\ DbLockOwner
  /\ FreshCopy
  /\ DriftFree

-----------------------------------------------------------------------------

(* A ledger entry's deltas are integers, column by column.                 *)
LEMMA DeltaType ==
  ASSUME NEW r \in Requests, TypeOK
  PROVE  Delta(r) \in [Ledger!Columns -> Int]
<1>1. CallOf[r] \in Calls
  BY RequestsAssumption
<1>2. /\ CallOf[r].tokens \in Amounts
      /\ CallOf[r].actual \in Amounts
      /\ CallOf[r].delta \in Adjustments
      /\ CallOf[r].op \in Ops
  BY <1>1 DEF Calls
<1>3. /\ CallOf[r].tokens \in Int
      /\ CallOf[r].actual \in Int
      /\ CallOf[r].delta \in [Ledger!Columns -> Int]
  <2>1. Amounts \subseteq Int
    BY RequestsAssumption
  <2>2. Adjustments \subseteq [Ledger!Columns -> Int]
    BY RequestsAssumption
  <2>3. CallOf[r].tokens \in Int /\ CallOf[r].actual \in Int
    BY <1>2, <2>1, Zenon
  <2>4. CallOf[r].delta \in [Ledger!Columns -> Int]
    BY <1>2, <2>2, Zenon
  <2> QED
    BY <2>3, <2>4, Zenon
<1>4. local[r]["reserved"] \in Int
  BY DEF TypeOK, Ledger!Columns
<1>5. Ledger!Zero \in [Ledger!Columns -> Int]
  BY DEF Ledger!Zero
<1>6. -Ledger!Min2(CallOf[r].tokens, local[r]["reserved"]) \in Int
  BY <1>3, <1>4 DEF Ledger!Min2
<1>7. CASE Op(r) = "grant"
  BY <1>3, <1>5, <1>7 DEF Delta, Op, Ledger!GrantDelta
<1>8. CASE Op(r) = "reserve"
  BY <1>3, <1>5, <1>8 DEF Delta, Op, Ledger!ReserveDelta
<1>9. CASE Op(r) = "release"
  BY <1>5, <1>6, <1>9 DEF Delta, Op, Ledger!ReleaseDelta
<1>10. CASE Op(r) = "charge"
  BY <1>3, <1>5, <1>6, <1>10 DEF Delta, Op, Ledger!ChargeDelta
<1>11. CASE Op(r) = "adjust"
  BY <1>3, <1>11 DEF Delta, Op
<1> QED
  BY <1>2, <1>7, <1>8, <1>9, <1>10, <1>11 DEF Op, Ops

(* Writing the changed columns from a fresh copy is adding the deltas.     *)
LEMMA WrittenIsPlus ==
  ASSUME NEW r \in Requests, TypeOK, local[r] = budget[User(r)]
  PROVE  Written(r) = Ledger!Plus(budget[User(r)], Delta(r))
<1>1. Delta(r) \in [Ledger!Columns -> Int]
  BY DeltaType
<1>2. User(r) \in Users
  BY RequestsAssumption DEF User, Calls
<1>3. budget[User(r)] \in [Ledger!Columns -> Int]
  BY <1>2 DEF TypeOK
<1> QED
  BY <1>1, <1>3 DEF Written, Ledger!Plus

-----------------------------------------------------------------------------

(* What the assumptions say of one request.                                *)
LEMMA RequestFacts ==
  ASSUME NEW r \in Requests
  PROVE  /\ User(r) \in Users
         /\ r # Nobody
         /\ Session(r) \in {"flushed", "dirty", "clean"}
         /\ Op(r) \in Ops
<1>1. CallOf[r] \in Calls
  BY RequestsAssumption
<1> QED
  BY <1>1, RequestsAssumption DEF Calls, User, Session, Op

LEMMA InitEstablishesInv == Init => IndInv
<1> SUFFICES ASSUME Init PROVE IndInv
  OBVIOUS
<1> USE DEF Init, Ledger!Init
<1>1. Ledger!Zero \in [Ledger!Columns -> Int]
  BY DEF Ledger!Zero
<1>2. TypeOK
  BY <1>1 DEF TypeOK
<1>3. BudgetLockOwner /\ DbLockOwner
  BY RequestFacts DEF BudgetLockOwner, DbLockOwner, InLedger
<1>4. FreshCopy /\ DriftFree
  BY DEF FreshCopy, DriftFree
<1> QED
  BY <1>2, <1>3, <1>4 DEF IndInv

(* A commit keeps rows and ledger of every user equal, and the copies of   *)
(* other requests are not disturbed: none of them is past its read.        *)
LEMMA CommitPreservesInv ==
  ASSUME IndInv, NEW r \in Requests, Commit(r)
  PROVE  IndInv'
<1> USE DEF IndInv
<1>1. User(r) \in Users /\ r # Nobody
  BY RequestFacts
<1>2. Delta(r) \in [Ledger!Columns -> Int]
  BY DeltaType
<1>3. local[r] = budget[User(r)]
  BY DEF Commit, Step, FreshCopy
<1>4. Written(r) = Ledger!Plus(budget[User(r)], Delta(r))
  BY <1>3, WrittenIsPlus
<1>5. /\ budget[User(r)] \in [Ledger!Columns -> Int]
      /\ replay[User(r)] \in [Ledger!Columns -> Int]
  BY <1>1 DEF TypeOK
<1>6. Ledger!Plus(budget[User(r)], Delta(r)) \in [Ledger!Columns -> Int]
  BY <1>2, <1>5 DEF Ledger!Plus
<1>7. DriftFree'
  BY <1>1, <1>4 DEF Commit, DriftFree, TypeOK
<1>8. TypeOK'
  <2>1. budget' \in [Users -> [Ledger!Columns -> Int]]
    BY <1>4, <1>6 DEF Commit, TypeOK
  <2>2. replay' \in [Users -> [Ledger!Columns -> Int]]
    BY <1>7, <2>1 DEF DriftFree
  <2>3. pc' \in [Requests -> {"start", "flushed", "locked", "read",
                              "committed", "refusing"} \cup Done]
    BY DEF Commit, Step, TypeOK
  <2>4. rows' \in SUBSET Users
    BY <1>1 DEF Commit, TypeOK
  <2> QED
    BY <2>1, <2>2, <2>3, <2>4 DEF Commit, TypeOK
<1>9. BudgetLockOwner'
  BY DEF Commit, Step, TypeOK, BudgetLockOwner, InLedger
<1>10. DbLockOwner'
  BY RequestFacts DEF Commit, DbLockOwner
<1>11. FreshCopy'
  <2> SUFFICES ASSUME NEW q \in Requests, pc'[q] = "read"
               PROVE  FALSE
    BY DEF FreshCopy
  <2>1. q # r /\ pc[q] = "read"
    BY DEF Commit, Step, TypeOK
  <2>2. budgetLock = q
    BY <2>1 DEF BudgetLockOwner, InLedger
  <2>3. budgetLock = r
    BY DEF Commit, Step, BudgetLockOwner, InLedger
  <2> QED
    BY <2>1, <2>2, <2>3
<1> QED
  BY <1>7, <1>8, <1>9, <1>10, <1>11

(* Every other step leaves the committed rows alone.                       *)
LEMMA StepPreservesInv ==
  ASSUME IndInv, NEW r \in Requests, RequestStep(r)
  PROVE  IndInv'
<1> USE RequestFacts DEF IndInv
<1>1. CASE Commit(r)
  BY <1>1, CommitPreservesInv
<1>2. CASE Flush(r)
  <2> USE <1>2 DEF Flush, Step, Free
  <2>1. TypeOK'
    BY DEF TypeOK
  <2>2. BudgetLockOwner'
    BY DEF TypeOK, BudgetLockOwner, InLedger
  <2>3. DbLockOwner'
    BY DEF TypeOK, DbLockOwner
  <2>4. FreshCopy' /\ DriftFree'
    BY DEF TypeOK, FreshCopy, DriftFree
  <2> QED
    BY <2>1, <2>2, <2>3, <2>4
<1>3. CASE EnterLedger(r)
  <2> USE <1>3 DEF EnterLedger, Step, Free
  <2>1. TypeOK'
    BY DEF TypeOK
  <2>2. BudgetLockOwner'
    BY DEF TypeOK, BudgetLockOwner, InLedger
  <2>3. DbLockOwner'
    BY DEF TypeOK, DbLockOwner
  <2>4. FreshCopy' /\ DriftFree'
    BY DEF TypeOK, FreshCopy, DriftFree
  <2> QED
    BY <2>1, <2>2, <2>3, <2>4
<1>4. CASE ReadBudget(r)
  <2> USE <1>4 DEF ReadBudget, Step
  <2>1. TypeOK'
    BY DEF TypeOK
  <2>2. BudgetLockOwner'
    BY DEF TypeOK, BudgetLockOwner, InLedger
  <2>3. DbLockOwner'
    BY DEF TypeOK, DbLockOwner
  <2>4. FreshCopy' /\ DriftFree'
    BY DEF TypeOK, FreshCopy, DriftFree
  <2> QED
    BY <2>1, <2>2, <2>3, <2>4
<1>5. CASE Return(r)
  <2> USE <1>5 DEF Return, Step
  <2>1. TypeOK'
    BY DEF TypeOK, Done
  <2>2. BudgetLockOwner'
    BY DEF TypeOK, BudgetLockOwner, InLedger
  <2>3. DbLockOwner'
    BY DEF TypeOK, DbLockOwner
  <2>4. FreshCopy' /\ DriftFree'
    BY DEF TypeOK, FreshCopy, DriftFree
  <2> QED
    BY <2>1, <2>2, <2>3, <2>4
<1>6. CASE Refuse(r)
  <2> USE <1>6 DEF Refuse, Step
  <2>1. TypeOK'
    BY DEF TypeOK
  <2>2. BudgetLockOwner'
    BY DEF TypeOK, BudgetLockOwner, InLedger
  <2>3. DbLockOwner'
    BY DEF TypeOK, DbLockOwner
  <2>4. FreshCopy' /\ DriftFree'
    BY DEF TypeOK, FreshCopy, DriftFree
  <2> QED
    BY <2>1, <2>2, <2>3, <2>4
<1>7. CASE Rollback(r)
  <2> USE <1>7 DEF Rollback, Step
  <2>1. TypeOK'
    BY DEF TypeOK, Done
  <2>2. BudgetLockOwner'
    BY DEF TypeOK, BudgetLockOwner, InLedger
  <2>3. DbLockOwner'
    BY DEF TypeOK, DbLockOwner
  <2>4. FreshCopy' /\ DriftFree'
    BY DEF TypeOK, FreshCopy, DriftFree
  <2> QED
    BY <2>1, <2>2, <2>3, <2>4
<1>8. CASE BusyTimeout(r)
  <2> USE <1>8 DEF BusyTimeout
  <2>1. TypeOK'
    BY DEF TypeOK, Done
  <2>2. BudgetLockOwner'
    BY DEF TypeOK, BudgetLockOwner, InLedger
  <2>3. dbLock # r
    BY DEF LockCycle, WaitsForBudget, WaitsForDb
  <2>4. DbLockOwner'
    BY <2>3 DEF TypeOK, DbLockOwner
  <2>5. FreshCopy' /\ DriftFree'
    BY DEF TypeOK, FreshCopy, DriftFree
  <2> QED
    BY <2>1, <2>2, <2>4, <2>5
<1> QED
  BY <1>1, <1>2, <1>3, <1>4, <1>5, <1>6, <1>7, <1>8 DEF RequestStep

LEMMA NextPreservesInv == IndInv /\ [Next]_vars => IndInv'
<1> SUFFICES ASSUME IndInv, [Next]_vars PROVE IndInv'
  OBVIOUS
<1>1. ASSUME NEW r \in Requests, RequestStep(r) PROVE IndInv'
  BY <1>1, StepPreservesInv
<1>2. CASE Crash
  <2> USE <1>2, RequestFacts DEF Crash, IndInv
  <2>1. TypeOK'
    BY DEF TypeOK, Done
  <2>2. BudgetLockOwner' /\ DbLockOwner'
    BY DEF TypeOK, BudgetLockOwner, DbLockOwner, InLedger, Done
  <2>3. FreshCopy' /\ DriftFree'
    BY DEF TypeOK, FreshCopy, DriftFree, Done
  <2> QED
    BY <2>1, <2>2, <2>3
<1>3. CASE UNCHANGED vars
  BY <1>3 DEF vars, IndInv, TypeOK, BudgetLockOwner, InLedger, DbLockOwner,
              FreshCopy, User, DriftFree
<1> QED
  BY <1>1, <1>2, <1>3 DEF Next, Finished

THEOREM Invariant == Spec => []IndInv
BY InitEstablishesInv, NextPreservesInv, PTL DEF Spec

(* Every variable of the lock protocol stays in its set.                   *)
THEOREM TypeCorrect == Spec => []TypeOK
<1>1. IndInv => TypeOK
  BY DEF IndInv
<1> QED
  BY <1>1, Invariant, PTL

(* The budgets row of every user equals the replay of the user's ledger,   *)
(* for any number of concurrent calls, in either order of the two locks.   *)
THEOREM NoDrift == Spec => []DriftFree
<1>1. IndInv => DriftFree
  BY DEF IndInv
<1> QED
  BY <1>1, Invariant, PTL

(* A call that has ended holds neither lock.                               *)
THEOREM LocksAreReturned == Spec => []NoLeakedLock
<1>1. IndInv => NoLeakedLock
  BY DEF IndInv, BudgetLockOwner, DbLockOwner, InLedger, NoLeakedLock, Done
<1> QED
  BY <1>1, Invariant, PTL

-----------------------------------------------------------------------------
(* The refinement: a commit is the whole operation, every other step is    *)
(* invisible to a reader of the committed rows.                            *)

LEMMA CommitIsOperation ==
  ASSUME IndInv, NEW r \in Requests, Commit(r)
  PROVE  Ledger!Next
<1> DEFINE u == User(r)
           call == CallOf[r]
<1>1. u \in Users /\ Op(r) \in Ops
  BY RequestFacts
<1>2. call \in Calls
  BY RequestsAssumption
<1>3. /\ call.tokens \in Amounts
      /\ call.actual \in Amounts
      /\ call.delta \in Adjustments
  BY <1>2 DEF Calls
<1>4. local[r] = budget[u]
  BY DEF Commit, Step, IndInv, FreshCopy
<1>5. Ledger!Book(u, Delta(r))
  <2>1. Written(r) = Ledger!Plus(budget[u], Delta(r))
    BY <1>4, WrittenIsPlus DEF IndInv
  <2>2. budget' = [budget EXCEPT ![u] = Ledger!Plus(budget[u], Delta(r))]
    BY <2>1 DEF Commit
  <2>3. replay' = [replay EXCEPT ![u] = Ledger!Plus(replay[u], Delta(r))]
    BY DEF Commit
  <2> QED
    BY <2>2, <2>3 DEF Ledger!Book
<1>6. Op(r) \in {"grant", "reserve", "release"} => call.tokens > 0
  BY RequestsAssumption DEF Op
<1>7. CASE Op(r) = "grant"
  <2>1. Delta(r) = Ledger!GrantDelta(call.tokens)
    BY <1>7 DEF Delta
  <2>2. Ledger!Grant(u, call.tokens)
    BY <1>5, <1>6, <1>7, <2>1 DEF Ledger!Grant
  <2> QED
    BY <1>1, <1>3, <2>2 DEF Ledger!Next
<1>8. CASE Op(r) = "reserve"
  <2>1. Delta(r) = Ledger!ReserveDelta(call.tokens)
    BY <1>8 DEF Delta
  <2>2. call.tokens <= Ledger!Available(budget[u])
    BY <1>4, <1>8 DEF Commit, Fits
  <2>3. Ledger!Reserve(u, call.tokens)
    BY <1>5, <1>6, <1>8, <2>1, <2>2 DEF Ledger!Reserve
  <2> QED
    BY <1>1, <1>3, <2>3 DEF Ledger!Next
<1>9. CASE Op(r) = "release"
  <2>1. Delta(r) = Ledger!ReleaseDelta(budget[u], call.tokens)
    BY <1>4, <1>9 DEF Delta
  <2>2. Ledger!Release(u, call.tokens)
    BY <1>5, <1>6, <1>9, <2>1 DEF Ledger!Release
  <2> QED
    BY <1>1, <1>3, <2>2 DEF Ledger!Next
<1>10. CASE Op(r) = "charge"
  <2>1. Delta(r) = Ledger!ChargeDelta(budget[u], call.tokens, call.actual)
    BY <1>4, <1>10 DEF Delta
  <2>2. Ledger!Charge(u, call.tokens, call.actual)
    BY <1>5, <2>1 DEF Ledger!Charge
  <2> QED
    BY <1>1, <1>3, <2>2 DEF Ledger!Next
<1>11. CASE Op(r) = "adjust"
  <2>1. Delta(r) = call.delta
    BY <1>11 DEF Delta
  <2>2. Ledger!Adjust(u, call.delta)
    BY <1>5, <2>1 DEF Ledger!Adjust
  <2> QED
    BY <1>1, <1>3, <2>2 DEF Ledger!Next
<1> QED
  BY <1>1, <1>7, <1>8, <1>9, <1>10, <1>11 DEF Ops

(* The threads, seen through their commits, implement the atomic ledger.   *)
THEOREM Refinement == Spec => LedgerIsAtomic
<1>1. Init => Ledger!Init
  BY DEF Init
<1>2. IndInv /\ [Next]_vars => [Ledger!Next]_(Ledger!vars)
  <2> SUFFICES ASSUME IndInv, [Next]_vars
               PROVE  Ledger!Next \/ UNCHANGED Ledger!vars
    OBVIOUS
  <2>1. ASSUME NEW r \in Requests, Commit(r) PROVE Ledger!Next
    BY <2>1, CommitIsOperation
  <2>2. ASSUME NEW r \in Requests, RequestStep(r), ~Commit(r)
        PROVE  UNCHANGED Ledger!vars
    BY <2>2 DEF RequestStep, Flush, EnterLedger, ReadBudget, Return, Refuse,
                Rollback, BusyTimeout, Ledger!vars
  <2>3. CASE Crash \/ UNCHANGED vars
    BY <2>3 DEF Crash, vars, Ledger!vars
  <2> QED
    BY <2>1, <2>2, <2>3 DEF Next, Finished
<1> QED
  BY <1>1, <1>2, Invariant, PTL DEF Spec, LedgerIsAtomic, Ledger!Spec
=============================================================================
