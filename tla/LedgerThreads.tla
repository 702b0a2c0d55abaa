--------------------------- MODULE LedgerThreads ---------------------------
(***************************************************************************)
(* ledger.py as the threads of the server process run it.                  *)
(*                                                                         *)
(* Every call of ledger.py runs in a database session on a thread of its   *)
(* own (an HTTP handler, a settlement worker of the dispatcher, a pass of  *)
(* the retention job).  Two locks meet there: _budget_lock, a              *)
(* threading.Lock taken inside ledger.py, and SQLite's single write lock,  *)
(* taken by the first UPDATE or INSERT a session flushes and kept until    *)
(* its commit or rollback.  The call writes the budget row from the copy   *)
(* it read, column by column, so a lost update is possible unless the      *)
(* locks exclude it.                                                       *)
(*                                                                         *)
(* Which lock comes first depends on the caller:                           *)
(*   "flushed"  complete_task / fail_task: db.get(Batch) autoflushes the   *)
(*              task before ledger.py is entered: write lock first;        *)
(*   "dirty"    create_batch / _terminate_batch: the pending rows are      *)
(*              flushed by the query inside get_or_create_budget, with     *)
(*              _budget_lock held: write lock second;                      *)
(*   "clean"    an admin or portal grant, adjust: nothing is pending, the  *)
(*              write lock is taken by the commit (or by the flush of a    *)
(*              budget row that did not exist).                            *)
(***************************************************************************)
EXTENDS Integers

CONSTANTS
  Users,        \* accounts
  Amounts,      \* token amounts
  Adjustments,  \* manual corrections
  Requests,     \* the calls of ledger.py made during the run, one thread each
  CallOf,       \* what each request calls: [Requests -> Calls]
  Nobody        \* the owner of a free lock

Ops == {"grant", "reserve", "release", "charge", "adjust"}

VARIABLES
  pc,           \* where each request is
  local,        \* the budget row each request read
  rows,         \* users that have a budgets row
  budget,       \* committed budgets rows
  replay,       \* committed ledger entries, summed
  budgetLock,   \* owner of _budget_lock
  dbLock        \* owner of SQLite's write lock

vars == <<pc, local, rows, budget, replay, budgetLock, dbLock>>

Ledger == INSTANCE TokenLedger

Calls ==
  [op : Ops, session : {"flushed", "dirty", "clean"}, user : Users,
   tokens : Amounts, actual : Amounts, delta : Adjustments]

ASSUME RequestsAssumption ==
  /\ Amounts \subseteq Nat
  /\ Adjustments \subseteq [Ledger!Columns -> Int]
  /\ CallOf \in [Requests -> Calls]
  /\ \A r \in Requests :
       CallOf[r].op \in {"grant", "reserve", "release"} => CallOf[r].tokens > 0
  /\ Nobody \notin Requests

-----------------------------------------------------------------------------
(* State of one request.                                                   *)

Op(r) == CallOf[r].op
User(r) == CallOf[r].user
Session(r) == CallOf[r].session

Free(lock) == lock = Nobody

Done == {"returned", "refused", "failed", "lost"}

(* A request that must take the write lock before its next step.           *)
WaitsForDb(r) ==
  \/ pc[r] = "start" /\ Session(r) = "flushed"
  \/ pc[r] = "locked" /\ Session(r) = "dirty"
  \/ pc[r] = "locked" /\ User(r) \notin rows /\ dbLock # r
  \/ pc[r] = "read" /\ dbLock # r

(* A request that must take _budget_lock before its next step.             *)
WaitsForBudget(r) ==
  \/ pc[r] = "start" /\ Session(r) # "flushed"
  \/ pc[r] = "flushed"

InLedger(r) == pc[r] \in {"locked", "read", "committed"}

Step(r, from, to) ==
  /\ pc[r] = from
  /\ pc' = [pc EXCEPT ![r] = to]

-----------------------------------------------------------------------------

Init ==
  /\ pc = [r \in Requests |-> "start"]
  /\ local = [r \in Requests |-> Ledger!Zero]
  /\ rows = {}
  /\ Ledger!Init
  /\ budgetLock = Nobody
  /\ dbLock = Nobody

(* complete_task, fail_task: the query for the batch row flushes the task. *)
Flush(r) ==
  /\ Session(r) = "flushed"
  /\ Step(r, "start", "flushed")
  /\ Free(dbLock)
  /\ dbLock' = r
  /\ UNCHANGED <<local, rows, budget, replay, budgetLock>>

(* Variant: the lock is forgotten around one read-modify-write.            *)
EnterUnlocked(r) ==
  /\ Step(r, IF Session(r) = "flushed" THEN "flushed" ELSE "start", "locked")
  /\ UNCHANGED <<local, rows, budget, replay, budgetLock, dbLock>>

(* with _budget_lock:                                                      *)
EnterLedger(r) ==
  /\ Step(r, IF Session(r) = "flushed" THEN "flushed" ELSE "start", "locked")
  /\ Free(budgetLock)
  /\ budgetLock' = r
  /\ UNCHANGED <<local, rows, budget, replay, dbLock>>

(* get_or_create_budget: the query flushes what is pending, and a missing  *)
(* row is inserted at once; either takes the write lock.                   *)
ReadBudget(r) ==
  /\ Step(r, "locked", "read")
  /\ IF Session(r) = "dirty" \/ User(r) \notin rows
     THEN /\ dbLock \in {r, Nobody}
          /\ dbLock' = r
     ELSE UNCHANGED dbLock
  /\ local' = [local EXCEPT ![r] = budget[User(r)]]
  /\ UNCHANGED <<rows, budget, replay, budgetLock>>

(* Variant: what is already reserved is not counted as spoken for.         *)
FitsUnreserved(r) ==
  Op(r) = "reserve" =>
    CallOf[r].tokens <= local[r]["granted"] - local[r]["used"]

Fits(r) == Op(r) = "reserve" => CallOf[r].tokens <= Ledger!Available(local[r])

(* The deltas of the ledger entry, computed from the row that was read.    *)
Delta(r) ==
  CASE Op(r) = "grant"   -> Ledger!GrantDelta(CallOf[r].tokens)
    [] Op(r) = "reserve" -> Ledger!ReserveDelta(CallOf[r].tokens)
    [] Op(r) = "release" -> Ledger!ReleaseDelta(local[r], CallOf[r].tokens)
    [] Op(r) = "charge"  ->
         Ledger!ChargeDelta(local[r], CallOf[r].tokens, CallOf[r].actual)
    [] Op(r) = "adjust"  -> CallOf[r].delta

(* Variant: the row is replaced by the changed columns alone.              *)
WrittenAlone(r) ==
  [c \in {x \in Ledger!Columns : Delta(r)[x] # 0} |-> local[r][c] + Delta(r)[c]]

(* The UPDATE sets the columns the call changed to absolute values.        *)
Written(r) ==
  [c \in Ledger!Columns |->
     IF Delta(r)[c] # 0 THEN local[r][c] + Delta(r)[c]
                        ELSE budget[User(r)][c]]

(* db.commit(): row and entry together, and the write lock is given back.  *)
Commit(r) ==
  /\ Step(r, "read", "committed")
  /\ Fits(r)
  /\ dbLock \in {r, Nobody}
  /\ dbLock' = Nobody
  /\ rows' = rows \cup {User(r)}
  /\ budget' = [budget EXCEPT ![User(r)] = Written(r)]
  /\ replay' = [replay EXCEPT ![User(r)] = Ledger!Plus(@, Delta(r))]
  /\ UNCHANGED <<local, budgetLock>>

(* The with statement ends; the call returns.                              *)
Return(r) ==
  /\ Step(r, "committed", "returned")
  /\ budgetLock' = Nobody
  /\ UNCHANGED <<local, rows, budget, replay, dbLock>>

(* InsufficientBudgetError leaves the with statement first; the session is *)
(* rolled back when the handler's get_db generator closes it.              *)
Refuse(r) ==
  /\ Step(r, "read", "refusing")
  /\ ~Fits(r)
  /\ budgetLock' = Nobody
  /\ UNCHANGED <<local, rows, budget, replay, dbLock>>

Rollback(r) ==
  /\ Step(r, "refusing", "refused")
  /\ dbLock' = IF dbLock = r THEN Nobody ELSE dbLock
  /\ UNCHANGED <<local, rows, budget, replay, budgetLock>>

-----------------------------------------------------------------------------
(* The two locks can be taken in opposite orders, and then only SQLite's   *)
(* busy timeout ends the wait.                                             *)

(* h keeps the write lock while it waits for _budget_lock, whose owner     *)
(* waits for the write lock.                                               *)
LockCycle ==
  \E h, o \in Requests :
    /\ dbLock = h /\ WaitsForBudget(h)
    /\ budgetLock = o /\ WaitsForDb(o)

(* Variant: the error leaves ledger.py with _budget_lock still held.       *)
BusyKeepsLock(r) ==
  /\ LockCycle
  /\ WaitsForDb(r)
  /\ pc' = [pc EXCEPT ![r] = "failed"]
  /\ UNCHANGED <<local, rows, budget, replay, budgetLock, dbLock>>

(* Variant: no busy timeout is set, a session waits for ever.              *)
NeverBusy(r) == pc[r] \in Done /\ WaitsForDb(r) /\ UNCHANGED vars

(* PRAGMA busy_timeout: "database is locked" is raised in a session that   *)
(* has waited its 20 seconds.  Transactions that are not part of a cycle   *)
(* end well before that, so only a cycle lets a wait run out; then it may  *)
(* run out for anybody who waits for the write lock.                       *)
BusyTimeout(r) ==
  /\ LockCycle
  /\ WaitsForDb(r)
  /\ pc' = [pc EXCEPT ![r] = "failed"]
  /\ budgetLock' = IF budgetLock = r THEN Nobody ELSE budgetLock
  /\ UNCHANGED <<local, rows, budget, replay, dbLock>>

(* The process dies: sessions are rolled back, both locks are gone.        *)
Crash ==
  /\ pc' = [r \in Requests |-> IF pc[r] \in Done THEN pc[r] ELSE "lost"]
  /\ budgetLock' = Nobody
  /\ dbLock' = Nobody
  /\ UNCHANGED <<local, rows, budget, replay>>

Terminated == \A r \in Requests : pc[r] \in Done

RequestStep(r) ==
  \/ Flush(r)
  \/ EnterLedger(r)
  \/ ReadBudget(r)
  \/ Commit(r)
  \/ Return(r)
  \/ Refuse(r)
  \/ Rollback(r)
  \/ BusyTimeout(r)

(* Every call has ended; nothing is left to do.                            *)
Finished == Terminated /\ UNCHANGED vars

Next ==
  \/ \E r \in Requests : RequestStep(r)
  \/ ~Terminated /\ Crash
  \/ Finished

Spec == Init /\ [][Next]_vars

(* A thread that can run is run, and the busy timeout always expires.      *)
FairSpec == Spec /\ \A r \in Requests : WF_vars(RequestStep(r))

-----------------------------------------------------------------------------
(* Type invariant: every variable of the lock protocol stays in its set.   *)
TypeOK ==
  /\ pc \in [Requests -> {"start", "flushed", "locked", "read", "committed",
                          "refusing"} \cup Done]
  /\ local \in [Requests -> [Ledger!Columns -> Int]]
  /\ rows \in SUBSET Users
  /\ budget \in [Users -> [Ledger!Columns -> Int]]
  /\ replay \in [Users -> [Ledger!Columns -> Int]]
  /\ budgetLock \in Requests \cup {Nobody}
  /\ dbLock \in Requests \cup {Nobody}

(* The materialized row always equals the replay of the user's ledger: no  *)
(* call's update is lost to another call that read the row before it, in   *)
(* whatever order the two locks are taken and whichever calls are refused, *)
(* time out or die on the way (models.Budget, ledger.py guarantee 1).      *)
DriftFree == budget = replay

(* A call that has ended, even by an exception, keeps neither lock: one    *)
(* leaked _budget_lock would stop every later ledger call of the process.  *)
NoLeakedLock ==
  \A r \in Requests :
    /\ pc[r] \in Done \cup {"start"} => r \notin {budgetLock, dbLock}
    /\ pc[r] = "refusing" => r # budgetLock

(* Seen through its commits, the threaded ledger is the atomic one: each   *)
(* commit is one whole operation on the latest row, and a reservation is   *)
(* never booked that does not fit (ledger.py guarantee 2).                 *)
LedgerIsAtomic == Ledger!Spec

(* Every call ends: the wait of a settlement for _budget_lock and of the   *)
(* lock's owner for the write lock is broken by the busy timeout.          *)
EveryCallEnds == \A r \in Requests : <>(pc[r] \in Done)

(* README, db.py: with the busy timeout, concurrent writers queue for the  *)
(* write lock instead of failing.                                          *)
WritersQueue == \A r \in Requests : pc[r] # "failed"
=============================================================================
