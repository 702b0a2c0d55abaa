-------------------------- MODULE BatchStore_proofs -------------------------
(***************************************************************************)
(* Safety of the batch store for every set of users, batches, lines,       *)
(* reservations, usages and stopping threads, with restarts and failing    *)
(* transactions anywhere.                                                  *)
(*                                                                         *)
(* NoLeak is not inductive by itself.  It needs to know that finalizing    *)
(* drops no open line (so the counters count settled lines, each once),    *)
(* that a stale stop releases at least what is still open in the batch it  *)
(* stops, and that a stale claim revives lines only in batches that are no *)
(* longer in progress.                                                     *)
(***************************************************************************)
EXTENDS BatchStore, FiniteSetTheorems, TLAPS

SettledOf(b) == {t \in TasksOf(b) : settled[t] > 0}

Finalizing(t) == worker[t] \in {"completed", "failed"}

(* What the status of a task row says.                                     *)
TaskInv ==
  \A t \in Tasks :
    /\ settled[t] \in {0, 1}
    /\ task[t] = "none" <=> status[BatchOf[t]] = "none"
    /\ task[t] \in {"completed", "failed"} => settled[t] = 1
    /\ settled[t] = 1 => task[t] \in {"completed", "failed", "cancelled"}
    /\ task[t] = "cancelled" => status[BatchOf[t]] # "in_progress"

OutputInv ==
  \A b \in Batches :
    /\ outputs[b] \in {0, 1}
    /\ outputs[b] = 1 => SettledOf(b) = TasksOf(b)

(* Workers run unsettled lines; the one that finalizes a batch is alone.   *)
WorkerInv ==
  \A t \in Tasks :
    /\ worker[t] = "calling" => /\ settled[t] = 0
                                /\ task[t] \in {"running", "cancelled"}
    /\ Finalizing(t) =>
         /\ SettledOf(BatchOf[t]) = TasksOf(BatchOf[t])
         /\ outputs[BatchOf[t]] = 0
         /\ \A x \in TasksOf(BatchOf[t]) : Finalizing(x) => x = t

(* What a pass has picked is unsettled, and nothing runs meanwhile.        *)
PassInv ==
  /\ pass \in {"idle", "claiming"} => \A t \in Tasks : worker[t] = "none"
  /\ pass # "claiming" => picked = {}
  /\ \A t \in picked : settled[t] = 0 /\ task[t] \in {"pending", "cancelled"}

(* A stopping thread has read every line that is still open.               *)
StopInv ==
  \A s \in Stoppers :
    /\ \A b \in todo[s] : status[b] # "none"
    /\ \A b \in Batches :
         current[s] = b =>
           /\ status[b] # "none"
           /\ stopping[s] \subseteq TasksOf(b)
           /\ status[b] = "in_progress" => OpenTasksOf(b) \subseteq stopping[s]

RowInv == TaskInv /\ CountsAreExact /\ OutputInv /\ NoLeak

IndInv == TypeOK /\ RowInv /\ WorkerInv /\ PassInv /\ StopInv

-----------------------------------------------------------------------------
(* Reservations of sets of lines.                                          *)

LEMMA WeightType == \A S \in SUBSET Tasks : Weight[S] \in Nat
BY WeightAssumption

(* A subset reserves no more than the whole.                               *)
LEMMA WeightMonotone ==
  ASSUME NEW S \in SUBSET Tasks, NEW T \in SUBSET S
  PROVE  Weight[T] <= Weight[S]
<1>1. /\ T \in SUBSET Tasks
      /\ S \ T \in SUBSET Tasks
      /\ T \cap (S \ T) = {}
      /\ T \cup (S \ T) = S
  OBVIOUS
<1>2. Weight[S] = Weight[T] + Weight[S \ T]
  BY <1>1, WeightAssumption
<1> QED
  BY <1>1, <1>2, WeightType

(* Taking S out of A takes away at most the reservation of S.              *)
LEMMA WeightRemove ==
  ASSUME NEW A \in SUBSET Tasks, NEW S \in SUBSET Tasks,
         NEW B \in SUBSET Tasks, A \ S \subseteq B
  PROVE  Weight[A] <= Weight[B] + Weight[S]
<1>1. /\ A \ S \in SUBSET Tasks
      /\ A \cap S \in SUBSET Tasks
      /\ (A \ S) \cap (A \cap S) = {}
      /\ (A \ S) \cup (A \cap S) = A
  OBVIOUS
<1>2. Weight[A] = Weight[A \ S] + Weight[A \cap S]
  BY <1>1, WeightAssumption
<1>3. Weight[A \ S] <= Weight[B] /\ Weight[A \cap S] <= Weight[S]
  BY WeightMonotone
<1> QED
  BY <1>1, <1>2, <1>3, WeightType

(* A line belongs to one batch, a batch to one user.                       *)
LEMMA Structure ==
  /\ \A t \in Tasks : BatchOf[t] \in Batches /\ UserOf(t) \in Users
  /\ \A b \in Batches : OwnerOf[b] \in Users
  /\ \A t \in Tasks : t \in TasksOf(BatchOf[t])
  /\ \A b \in Batches : TasksOf(b) \in SUBSET Tasks
BY StructureAssumption DEF UserOf, TasksOf

-----------------------------------------------------------------------------
(* What an operation of the ledger does to the budgets rows.               *)

(* One row changes, by the deltas booked.                                  *)
LEMMA BookEffect ==
  ASSUME TypeOK, NEW u \in Users, NEW delta \in [Ledger!Columns -> Int],
         Ledger!Book(u, delta),
         \A c \in Ledger!Columns : budget[u][c] + delta[c] \in Nat
  PROVE  /\ budget' \in [Users -> [Ledger!Columns -> Nat]]
         /\ budget'[u]["reserved"] = budget[u]["reserved"] + delta["reserved"]
         /\ \A v \in Users : v # u => budget'[v] = budget[v]
<1>1. budget' = [budget EXCEPT ![u] = Ledger!Plus(budget[u], delta)]
  BY DEF Ledger!Book
<1>2. Ledger!Plus(budget[u], delta) \in [Ledger!Columns -> Nat]
  BY DEF Ledger!Plus
<1>3. Ledger!Plus(budget[u], delta)["reserved"]
        = budget[u]["reserved"] + delta["reserved"]
  BY DEF Ledger!Plus, Ledger!Columns
<1> QED
  BY <1>1, <1>2, <1>3 DEF TypeOK

(* A release or charge of n gives back what is still reserved, up to n.    *)
LEMMA GiveBack ==
  ASSUME TypeOK, NEW u \in Users, NEW n \in Nat,
         \/ Ledger!Release(u, n)
         \/ \E actual \in Nat : Ledger!Charge(u, n, actual)
  PROVE  /\ budget' \in [Users -> [Ledger!Columns -> Nat]]
         /\ budget'[u]["reserved"]
              = budget[u]["reserved"] - Ledger!Min2(n, budget[u]["reserved"])
         /\ \A v \in Users : v # u => budget'[v] = budget[v]
<1> DEFINE row == budget[u]
           back == Ledger!Min2(n, row["reserved"])
<1>1. row \in [Ledger!Columns -> Nat]
  BY DEF TypeOK
<1>2. row["reserved"] \in Nat
  BY <1>1 DEF Ledger!Columns
<1>3. back \in Nat /\ back <= row["reserved"]
  BY <1>2 DEF Ledger!Min2
<1>4. Ledger!Zero \in [Ledger!Columns -> Int]
  BY DEF Ledger!Zero
<1>5. CASE Ledger!Release(u, n)
  <2> DEFINE delta == Ledger!ReleaseDelta(row, n)
  <2>1. /\ delta \in [Ledger!Columns -> Int]
        /\ delta["reserved"] = -back
        /\ delta["granted"] = 0
        /\ delta["used"] = 0
    BY <1>3, <1>4 DEF Ledger!ReleaseDelta, Ledger!Zero, Ledger!Columns
  <2>2. \A c \in Ledger!Columns : row[c] + delta[c] \in Nat
    BY <1>1, <1>3, <2>1 DEF Ledger!Columns
  <2>3. Ledger!Book(u, delta)
    BY <1>5 DEF Ledger!Release
  <2> HIDE DEF delta, back
  <2> QED
    BY <1>2, <1>3, <2>1, <2>2, <2>3, BookEffect DEF back
<1>6. ASSUME NEW actual \in Nat, Ledger!Charge(u, n, actual)
      PROVE  /\ budget' \in [Users -> [Ledger!Columns -> Nat]]
             /\ budget'[u]["reserved"] = row["reserved"] - back
             /\ \A v \in Users : v # u => budget'[v] = budget[v]
  <2> DEFINE delta == Ledger!ChargeDelta(row, n, actual)
  <2>1. /\ delta \in [Ledger!Columns -> Int]
        /\ delta["reserved"] = -back
        /\ delta["granted"] = 0
        /\ delta["used"] = actual
    BY <1>3, <1>4 DEF Ledger!ChargeDelta, Ledger!Zero, Ledger!Columns
  <2>2. \A c \in Ledger!Columns : row[c] + delta[c] \in Nat
    BY <1>1, <1>3, <2>1 DEF Ledger!Columns
  <2>3. Ledger!Book(u, delta)
    BY <1>6 DEF Ledger!Charge
  <2> HIDE DEF delta, back
  <2> QED
    BY <1>2, <1>3, <2>1, <2>2, <2>3, BookEffect
<1> QED
  BY <1>5, <1>6

(* A grant leaves the reservation alone.                                   *)
LEMMA GrantEffect ==
  ASSUME TypeOK, NEW u \in Users, NEW n \in Nat, Ledger!Grant(u, n)
  PROVE  /\ budget' \in [Users -> [Ledger!Columns -> Nat]]
         /\ \A v \in Users : budget'[v]["reserved"] = budget[v]["reserved"]
<1> DEFINE delta == Ledger!GrantDelta(n)
<1>1. budget[u] \in [Ledger!Columns -> Nat]
  BY DEF TypeOK
<1>2. /\ delta \in [Ledger!Columns -> Int]
      /\ delta["reserved"] = 0
      /\ delta["granted"] = n
      /\ delta["used"] = 0
  BY DEF Ledger!GrantDelta, Ledger!Zero, Ledger!Columns
<1>3. \A c \in Ledger!Columns : budget[u][c] + delta[c] \in Nat
  BY <1>1, <1>2 DEF Ledger!Columns
<1>4. Ledger!Book(u, delta)
  BY DEF Ledger!Grant
<1>5. budget[u]["reserved"] \in Nat
  BY <1>1 DEF Ledger!Columns
<1> HIDE DEF delta
<1> QED
  BY <1>2, <1>3, <1>4, <1>5, BookEffect

(* A reservation adds its amount.                                          *)
LEMMA ReserveEffect ==
  ASSUME TypeOK, NEW u \in Users, NEW n \in Nat, Ledger!Reserve(u, n)
  PROVE  /\ budget' \in [Users -> [Ledger!Columns -> Nat]]
         /\ budget'[u]["reserved"] = budget[u]["reserved"] + n
         /\ \A v \in Users : v # u => budget'[v] = budget[v]
<1> DEFINE delta == Ledger!ReserveDelta(n)
<1>1. budget[u] \in [Ledger!Columns -> Nat]
  BY DEF TypeOK
<1>2. /\ delta \in [Ledger!Columns -> Int]
      /\ delta["reserved"] = n
      /\ delta["granted"] = 0
      /\ delta["used"] = 0
  BY DEF Ledger!ReserveDelta, Ledger!Zero, Ledger!Columns
<1>3. \A c \in Ledger!Columns : budget[u][c] + delta[c] \in Nat
  BY <1>1, <1>2 DEF Ledger!Columns
<1>4. Ledger!Book(u, delta)
  BY DEF Ledger!Reserve
<1> HIDE DEF delta
<1> QED
  BY <1>2, <1>3, <1>4, BookEffect

(* Giving back n covers the open lines that are lost, if they reserve no   *)
(* more than n.                                                            *)
LEMMA ReleaseKeepsNoLeak ==
  ASSUME TypeOK, NoLeak, NEW u \in Users, NEW S \in SUBSET Tasks,
         budget'[u]["reserved"]
           = budget[u]["reserved"]
               - Ledger!Min2(Weight[S], budget[u]["reserved"]),
         OpenTasks(u) \ S \subseteq OpenTasks(u)',
         OpenTasks(u)' \in SUBSET Tasks
  PROVE  budget'[u]["reserved"] <= Weight[OpenTasks(u)']
<1>1. OpenTasks(u) \in SUBSET Tasks
  BY DEF OpenTasks
<1>2. Weight[OpenTasks(u)] <= Weight[OpenTasks(u)'] + Weight[S]
  BY <1>1, WeightRemove
<1>3. budget[u]["reserved"] <= Weight[OpenTasks(u)]
  BY DEF NoLeak
<1>4. budget[u]["reserved"] \in Nat
  BY DEF TypeOK, Ledger!Columns
<1>5. /\ Weight[S] \in Nat
      /\ Weight[OpenTasks(u)] \in Nat
      /\ Weight[OpenTasks(u)'] \in Nat
  BY <1>1, WeightType
<1> QED
  BY <1>2, <1>3, <1>4, <1>5 DEF Ledger!Min2

-----------------------------------------------------------------------------

LEMMA InitEstablishesInv == Init => IndInv
<1> SUFFICES ASSUME Init PROVE IndInv
  OBVIOUS
<1> USE DEF Init
<1>1. TypeOK
  BY DEF TypeOK, Ledger!Zero
<1>2. TaskInv /\ OutputInv
  BY Structure DEF TaskInv, OutputInv
<1>3. CountsAreExact
  <2> SUFFICES ASSUME NEW b \in Batches
               PROVE  completed[b] + failed[b] = Cardinality(SettledOf(b))
    BY DEF CountsAreExact, SettledOf
  <2>1. SettledOf(b) = {}
    BY Structure DEF SettledOf
  <2> QED
    BY <2>1, FS_EmptySet
<1>4. NoLeak
  BY WeightType DEF NoLeak, OpenTasks, Ledger!Zero, Ledger!Columns
<1>5. WorkerInv /\ PassInv
  BY DEF WorkerInv, PassInv, Finalizing
<1>6. StopInv
  BY StructureAssumption DEF StopInv
<1> QED
  BY <1>1, <1>2, <1>3, <1>4, <1>5, <1>6 DEF IndInv, RowInv

(* Steps that only read rows keep what is said of the rows.                *)
LEMMA ReadingPreservesRowInv ==
  ASSUME RowInv, UNCHANGED rowVars
  PROVE  RowInv'
<1> USE DEF rowVars, RowInv
<1>1. TaskInv'
  BY DEF TaskInv
<1>2. CountsAreExact'
  BY DEF CountsAreExact
<1>3. OutputInv'
  BY DEF OutputInv, SettledOf
<1>4. NoLeak'
  BY DEF NoLeak, OpenTasks
<1> QED
  BY <1>1, <1>2, <1>3, <1>4

(* Handlers and the retention job, up to their commits.                    *)
LEMMA StopReadsPreserveInv ==
  ASSUME IndInv,
         \/ \E b \in Batches : TimePasses(b)
         \/ \E s \in Cancellers, b \in Batches : CancelCheck(s, b)
         \/ FindOverdue
         \/ \E s \in Stoppers, b \in Batches : ReadTasks(s, b)
         \/ \E s \in Stoppers : StopError(s)
  PROVE  IndInv'
<1> USE DEF IndInv
<1>1. UNCHANGED rowVars /\ UNCHANGED dispatchVars
  BY DEF TimePasses, CancelCheck, FindOverdue, ReadTasks, StopError
<1>2. RowInv'
  BY <1>1, ReadingPreservesRowInv
<1>3. WorkerInv' /\ PassInv'
  BY <1>1 DEF rowVars, dispatchVars, WorkerInv, PassInv, Finalizing, SettledOf
<1>4. CASE \E b \in Batches : TimePasses(b)
  <2>1. TypeOK' /\ StopInv'
    BY <1>1, <1>4 DEF TimePasses, TypeOK, StopInv, OpenTasksOf, rowVars,
                      dispatchVars, stopVars
  <2> QED
    BY <1>2, <1>3, <2>1
<1>5. CASE \E s \in Cancellers, b \in Batches : CancelCheck(s, b)
  <2>1. TypeOK' /\ StopInv'
    BY <1>1, <1>5 DEF CancelCheck, TypeOK, StopInv, OpenTasksOf, rowVars,
                      dispatchVars, Stoppers
  <2> QED
    BY <1>2, <1>3, <2>1
<1>6. CASE FindOverdue
  <2>1. TypeOK' /\ StopInv'
    BY <1>1, <1>6 DEF FindOverdue, TypeOK, StopInv, OpenTasksOf, rowVars,
                      dispatchVars, Stoppers
  <2> QED
    BY <1>2, <1>3, <2>1
<1>7. CASE \E s \in Stoppers, b \in Batches : ReadTasks(s, b)
  <2> PICK s \in Stoppers, b \in Batches : ReadTasks(s, b)
    BY <1>7
  <2>1. OpenTasksOf(b) \subseteq TasksOf(b) /\ OpenTasksOf(b) \in SUBSET Tasks
    BY Structure DEF OpenTasksOf
  <2>2. TypeOK'
    BY <1>1, <2>1 DEF ReadTasks, TypeOK, rowVars, dispatchVars
  <2>3. OpenTasksOf(b)' = OpenTasksOf(b)
    BY <1>1 DEF rowVars, OpenTasksOf
  <2>4. StopInv'
    BY <1>1, <2>1, <2>3 DEF ReadTasks, TypeOK, StopInv, rowVars, OpenTasksOf
  <2> QED
    BY <1>2, <1>3, <2>2, <2>4
<1>8. CASE \E s \in Stoppers : StopError(s)
  <2>1. TypeOK' /\ StopInv'
    BY <1>1, <1>8, StructureAssumption
       DEF StopError, TypeOK, StopInv, OpenTasksOf, rowVars, dispatchVars
  <2> QED
    BY <1>2, <1>3, <2>1
<1> QED
  BY <1>4, <1>5, <1>6, <1>7, <1>8

(* The dispatcher's queries and the ends of passes and workers.            *)
LEMMA DispatchReadsPreserveInv ==
  ASSUME IndInv,
         \/ \E S \in SUBSET Tasks : ClaimTasks(S)
         \/ PassEnds
         \/ \E t \in Tasks : WorkerError(t)
         \/ ClaimError
  PROVE  IndInv'
<1> USE DEF IndInv
<1>1. UNCHANGED rowVars /\ UNCHANGED <<overdue, stopVars>>
  BY DEF ClaimTasks, PassEnds, WorkerError, ClaimError
<1>2. RowInv'
  BY <1>1, ReadingPreservesRowInv
<1>3. StopInv'
  BY <1>1 DEF rowVars, stopVars, StopInv, OpenTasksOf
<1>4. CASE \E S \in SUBSET Tasks : ClaimTasks(S)
  <2>1. TypeOK'
    BY <1>1, <1>4 DEF ClaimTasks, TypeOK, rowVars, stopVars
  <2>2. WorkerInv'
    BY <1>1, <1>4 DEF ClaimTasks, rowVars, WorkerInv, Finalizing, SettledOf
  <2>3. PassInv'
    BY <1>1, <1>4 DEF ClaimTasks, Claimable, rowVars, PassInv, TaskInv, RowInv
  <2> QED
    BY <1>2, <1>3, <2>1, <2>2, <2>3
<1>5. CASE PassEnds
  <2>1. TypeOK'
    BY <1>1, <1>5 DEF PassEnds, TypeOK, rowVars, stopVars
  <2>2. WorkerInv' /\ PassInv'
    BY <1>1, <1>5 DEF PassEnds, rowVars, WorkerInv, PassInv, Finalizing, SettledOf
  <2> QED
    BY <1>2, <1>3, <2>1, <2>2
<1>6. CASE \E t \in Tasks : WorkerError(t)
  <2>1. TypeOK'
    BY <1>1, <1>6 DEF WorkerError, TypeOK, rowVars, stopVars
  <2>2. WorkerInv' /\ PassInv'
    BY <1>1, <1>6 DEF WorkerError, TypeOK, rowVars, WorkerInv, PassInv,
                      Finalizing, SettledOf, TasksOf
  <2> QED
    BY <1>2, <1>3, <2>1, <2>2
<1>7. CASE ClaimError
  <2>1. TypeOK'
    BY <1>1, <1>7 DEF ClaimError, TypeOK, rowVars, stopVars
  <2>2. WorkerInv' /\ PassInv'
    BY <1>1, <1>7 DEF ClaimError, rowVars, WorkerInv, PassInv, Finalizing, SettledOf
  <2> QED
    BY <1>2, <1>3, <2>1, <2>2
<1> QED
  BY <1>4, <1>5, <1>6, <1>7

-----------------------------------------------------------------------------
(* Transactions.                                                           *)

LEMMA GrantPreservesInv ==
  ASSUME IndInv, NEW u \in Users, NEW n \in Allowances, Grant(u, n)
  PROVE  IndInv'
<1> USE DEF IndInv, RowInv
<1>1. n \in Nat
  BY AmountsAssumption
<1>2. /\ budget' \in [Users -> [Ledger!Columns -> Nat]]
      /\ \A v \in Users : budget'[v]["reserved"] = budget[v]["reserved"]
  BY <1>1, GrantEffect DEF Grant
<1>3. TypeOK'
  BY <1>2 DEF Grant, TypeOK, dispatchVars, stopVars
<1>4. TaskInv' /\ OutputInv' /\ CountsAreExact'
  BY DEF Grant, TaskInv, OutputInv, CountsAreExact, SettledOf
<1>5. NoLeak'
  BY <1>2 DEF Grant, NoLeak, OpenTasks
<1>6. WorkerInv' /\ PassInv' /\ StopInv'
  BY DEF Grant, dispatchVars, stopVars, WorkerInv, PassInv, StopInv,
         Finalizing, SettledOf, OpenTasksOf
<1> QED
  BY <1>3, <1>4, <1>5, <1>6

(* A new batch has no worker, no stopping thread and no settled line.      *)
LEMMA SubmitPreservesInv ==
  ASSUME IndInv, NEW b \in Batches, Submit(b)
  PROVE  IndInv'
<1> USE DEF IndInv, RowInv
<1> DEFINE u == OwnerOf[b]
           n == Weight[TasksOf(b)]
<1>1. u \in Users /\ n \in Nat /\ TasksOf(b) \in SUBSET Tasks
  BY Structure, WeightType
<1>2. /\ budget' \in [Users -> [Ledger!Columns -> Nat]]
      /\ budget'[u]["reserved"] = budget[u]["reserved"] + n
      /\ \A v \in Users : v # u => budget'[v] = budget[v]
  BY <1>1, ReserveEffect DEF Submit
<1>3. \A t \in Tasks : BatchOf[t] = b => task[t] = "none" /\ settled[t] = 0
  BY DEF Submit, TaskInv
<1>4. TypeOK'
  BY <1>2 DEF Submit, TypeOK, OpenStatus, dispatchVars, stopVars
<1>5. TaskInv'
  BY <1>3, Structure DEF Submit, TaskInv, TypeOK
<1>6. OutputInv' /\ CountsAreExact'
  BY DEF Submit, OutputInv, CountsAreExact, SettledOf
<1>7. NoLeak'
  <2> SUFFICES ASSUME NEW v \in Users
               PROVE  budget'[v]["reserved"] <= Weight[OpenTasks(v)']
    BY DEF NoLeak
  <2>1. budget[v]["reserved"] <= Weight[OpenTasks(v)]
    BY DEF NoLeak
  <2>2. OpenTasks(v) \in SUBSET Tasks
    BY DEF OpenTasks
  <2>3. CASE v # u
    <3>1. OpenTasks(v)' = OpenTasks(v)
      BY <2>3, <1>3 DEF Submit, OpenTasks, UserOf, TypeOK
    <3> QED
      BY <2>1, <2>3, <1>2, <3>1
  <2>4. CASE v = u
    <3>1. OpenTasks(v)' = OpenTasks(v) \cup TasksOf(b)
      BY <2>4, <1>3, Structure
         DEF Submit, OpenTasks, UserOf, TypeOK, TasksOf, OpenStatus
    <3>2. OpenTasks(v) \cap TasksOf(b) = {}
      BY <1>3 DEF OpenTasks, TasksOf, OpenStatus
    <3>3. Weight[OpenTasks(v)'] = Weight[OpenTasks(v)] + n
      BY <1>1, <2>2, <3>1, <3>2, WeightAssumption
    <3>4. budget[v]["reserved"] \in Nat /\ Weight[OpenTasks(v)] \in Nat
      BY <2>2, WeightType DEF TypeOK, Ledger!Columns
    <3> HIDE DEF n
    <3> QED
      BY <1>1, <1>2, <2>1, <2>4, <3>3, <3>4
  <2> QED
    BY <2>3, <2>4
<1>8. WorkerInv'
  BY <1>3, Structure
     DEF Submit, dispatchVars, WorkerInv, Finalizing, SettledOf
<1>9. PassInv'
  BY <1>3 DEF Submit, dispatchVars, TypeOK, PassInv
<1>10. StopInv'
  BY DEF Submit, TypeOK, StopInv, stopVars, OpenTasksOf, TasksOf
<1> QED
  BY <1>4, <1>5, <1>6, <1>7, <1>8, <1>9, <1>10

(* However stale the list of lines to stop, it covers what is still open.  *)
LEMMA StopBatchPreservesInv ==
  ASSUME IndInv, NEW s \in Stoppers, NEW b \in Batches, StopBatch(s, b)
  PROVE  IndInv'
<1> USE DEF IndInv, RowInv
<1> DEFINE u == OwnerOf[b]
           S == stopping[s]
<1>1. /\ u \in Users
      /\ S \in SUBSET Tasks
      /\ S \subseteq TasksOf(b)
      /\ status[b] # "none"
      /\ status[b] = "in_progress" => OpenTasksOf(b) \subseteq S
  BY Structure DEF StopBatch, StopInv, TypeOK
<1>2. StopStatus(s) \in Finished
  BY DEF StopStatus, Finished
<1>3. budget[u] \in [Ledger!Columns -> Nat] /\ budget[u]["reserved"] \in Nat
  BY <1>1 DEF TypeOK, Ledger!Columns
<1>4. /\ budget' \in [Users -> [Ledger!Columns -> Nat]]
      /\ budget'[u]["reserved"]
           = budget[u]["reserved"] - Ledger!Min2(Weight[S], budget[u]["reserved"])
      /\ \A v \in Users : v # u => budget'[v] = budget[v]
  <2>1. Weight[S] \in Nat
    BY <1>1, WeightType
  <2>2. CASE Weight[S] > 0
    <3>1. Ledger!Release(u, Weight[S])
      BY <2>2 DEF StopBatch, ReleaseAll
    <3> QED
      BY <1>1, <2>1, <3>1, GiveBack
  <2>3. CASE ~(Weight[S] > 0)
    <3>1. budget' = budget
      BY <2>3 DEF StopBatch, ReleaseAll
    <3>2. budget[u]["reserved"] - Ledger!Min2(Weight[S], budget[u]["reserved"])
            = budget[u]["reserved"]
      BY <1>3, <2>1, <2>3 DEF Ledger!Min2
    <3> QED
      BY <3>1, <3>2 DEF TypeOK
  <2> QED
    BY <2>2, <2>3
<1>5. TypeOK'
  BY <1>2, <1>4 DEF StopBatch, TypeOK, Finished, dispatchVars
<1>6. TaskInv'
  BY <1>1, <1>2, Structure DEF StopBatch, TaskInv, TypeOK, TasksOf, Finished
<1>7. OutputInv' /\ CountsAreExact'
  BY DEF StopBatch, OutputInv, CountsAreExact, SettledOf
<1>8. NoLeak'
  <2> SUFFICES ASSUME NEW v \in Users
               PROVE  budget'[v]["reserved"] <= Weight[OpenTasks(v)']
    BY DEF NoLeak
  <2>1. OpenTasks(v)' \in SUBSET Tasks
    BY DEF OpenTasks
  <2>2. CASE v # u
    <3>1. OpenTasks(v)' = OpenTasks(v)
      BY <1>1, <2>2 DEF StopBatch, OpenTasks, UserOf, TypeOK, TasksOf
    <3> QED
      BY <1>4, <2>2, <3>1 DEF NoLeak
  <2>3. CASE v = u
    <3>1. OpenTasks(u) \ S \subseteq OpenTasks(u)'
      BY <1>1 DEF StopBatch, OpenTasks, OpenTasksOf, UserOf, TypeOK, TasksOf
    <3> QED
      BY <1>1, <1>4, <2>1, <2>3, <3>1, ReleaseKeepsNoLeak
  <2> QED
    BY <2>2, <2>3
<1>9. WorkerInv'
  BY <1>1, Structure DEF StopBatch, dispatchVars, TypeOK, WorkerInv, Finalizing,
                         SettledOf, TasksOf
<1>10. PassInv'
  BY DEF StopBatch, dispatchVars, TypeOK, PassInv
<1>11. StopInv'
  <2> SUFFICES ASSUME NEW q \in Stoppers
               PROVE  /\ \A c \in todo'[q] : status'[c] # "none"
                      /\ \A c \in Batches :
                           current'[q] = c =>
                             /\ status'[c] # "none"
                             /\ stopping'[q] \subseteq TasksOf(c)
                             /\ status'[c] = "in_progress" =>
                                  OpenTasksOf(c)' \subseteq stopping'[q]
    BY DEF StopInv
  <2>1. \A c \in Batches : /\ status[c] # "none" => status'[c] # "none"
                           /\ status'[c] = "in_progress" => status[c] = "in_progress"
    BY <1>2 DEF StopBatch, TypeOK, Finished
  <2>2. todo'[q] \subseteq todo[q] /\ todo[q] \subseteq Batches
    BY DEF StopBatch, TypeOK
  <2>3. \A c \in Batches : OpenTasksOf(c)' \subseteq OpenTasksOf(c)
    BY Structure DEF StopBatch, OpenTasksOf, OpenStatus, TypeOK
  <2>4. ASSUME NEW c \in Batches, current'[q] = c
        PROVE  current[q] = c /\ stopping'[q] = stopping[q]
    BY <2>4, StructureAssumption DEF StopBatch, TypeOK
  <2> QED
    BY <2>1, <2>2, <2>3, <2>4 DEF StopInv
<1> QED
  BY <1>5, <1>6, <1>7, <1>8, <1>9, <1>10, <1>11

(* A claim revives a line only in a batch that is no longer in progress.   *)
LEMMA AssignPreservesInv ==
  ASSUME IndInv, Assign
  PROVE  IndInv'
<1> USE DEF IndInv, RowInv
<1>1. \A t \in picked : settled[t] = 0 /\ task[t] \in {"pending", "cancelled"}
  BY DEF PassInv
<1>2. \A t \in Tasks : worker[t] = "none"
  BY DEF Assign, PassInv
<1>3. TypeOK'
  BY DEF Assign, TypeOK, OpenStatus, stopVars
<1>4. TaskInv'
  BY <1>1 DEF Assign, TaskInv, TypeOK
<1>5. OutputInv' /\ CountsAreExact'
  BY DEF Assign, OutputInv, CountsAreExact, SettledOf
<1>6. NoLeak'
  <2>1. \A v \in Users : OpenTasks(v)' = OpenTasks(v)
    BY <1>1 DEF Assign, OpenTasks, OpenStatus, TaskInv, TypeOK
  <2> QED
    BY <2>1 DEF Assign, NoLeak
<1>7. WorkerInv'
  BY <1>1, <1>2 DEF Assign, WorkerInv, Finalizing, TypeOK
<1>8. PassInv'
  BY DEF Assign, PassInv
<1>9. StopInv'
  <2>1. \A b \in Batches :
          status[b] = "in_progress" => OpenTasksOf(b)' = OpenTasksOf(b)
    BY <1>1 DEF Assign, OpenTasksOf, OpenStatus, TaskInv, TypeOK, TasksOf
  <2> QED
    BY <2>1 DEF Assign, StopInv, stopVars
<1> QED
  BY <1>3, <1>4, <1>5, <1>6, <1>7, <1>8, <1>9

(* Counting one more settled line of a batch.                              *)
LEMMA SettleCount ==
  ASSUME TypeOK, CountsAreExact, NEW t \in Tasks, settled[t] = 0,
         settled' = [settled EXCEPT ![t] = @ + 1],
         NEW c \in Batches
  PROVE  /\ IsFiniteSet(SettledOf(c)) /\ IsFiniteSet(TasksOf(c))
         /\ c = BatchOf[t] =>
              Cardinality(SettledOf(c)') = completed[c] + failed[c] + 1
         /\ c # BatchOf[t] => SettledOf(c)' = SettledOf(c)
<1>1. IsFiniteSet(TasksOf(c))
  BY StructureAssumption, FS_Subset DEF TasksOf
<1>2. SettledOf(c) \in SUBSET TasksOf(c)
  BY DEF SettledOf
<1>3. IsFiniteSet(SettledOf(c))
  BY <1>1, <1>2, FS_Subset
<1>4. Cardinality(SettledOf(c)) = completed[c] + failed[c]
  BY DEF CountsAreExact, SettledOf
<1>5. CASE c = BatchOf[t]
  <2>1. SettledOf(c)' = SettledOf(c) \cup {t} /\ t \notin SettledOf(c)
    BY <1>5 DEF SettledOf, TasksOf, TypeOK
  <2> QED
    BY <1>1, <1>3, <1>4, <1>5, <2>1, FS_AddElement
<1>6. CASE c # BatchOf[t]
  <2>1. SettledOf(c)' = SettledOf(c)
    BY <1>6 DEF SettledOf, TasksOf, TypeOK
  <2> QED
    BY <1>1, <1>3, <1>6, <2>1
<1> QED
  BY <1>5, <1>6

(* A settlement, whatever its outcome: one line is closed and counted, at  *)
(* least its reservation is given back, and the worker that counts the     *)
(* last line of a batch in progress is the only one to finalize it.        *)
LEMMA SettlePreservesInv ==
  ASSUME IndInv, NEW t \in Tasks, NEW outcome \in {"completed", "failed"},
         Settle(t, outcome),
         completed' \in [Batches -> Nat], failed' \in [Batches -> Nat],
         \A c \in Batches :
           completed'[c] + failed'[c] =
             IF c = BatchOf[t] THEN completed[c] + failed[c] + 1
                               ELSE completed[c] + failed[c],
         \/ Ledger!Release(UserOf(t), Weight[{t}])
         \/ \E actual \in Nat : Ledger!Charge(UserOf(t), Weight[{t}], actual)
  PROVE  IndInv'
<1> USE DEF IndInv, RowInv
<1> DEFINE b == BatchOf[t]
           u == UserOf(t)
           last == LastOne(b, completed[b] + failed[b] + 1)
<1>1. /\ b \in Batches /\ u \in Users /\ t \in TasksOf(b)
      /\ {t} \in SUBSET Tasks
      /\ Weight[{t}] \in Nat
  BY Structure, WeightType
<1>2. worker[t] = "calling"
  BY DEF Settle
<1>3. settled[t] = 0 /\ task[t] \in {"running", "cancelled"}
  BY <1>2 DEF WorkerInv
<1>4. pass \in {"running", "dead"} /\ picked = {}
  BY <1>2 DEF PassInv, TypeOK
<1>5. settled' = [settled EXCEPT ![t] = 1]
  BY <1>3 DEF Settle
<1>6. /\ budget' \in [Users -> [Ledger!Columns -> Nat]]
      /\ budget'[u]["reserved"]
           = budget[u]["reserved"]
               - Ledger!Min2(Weight[{t}], budget[u]["reserved"])
      /\ \A v \in Users : v # u => budget'[v] = budget[v]
  BY <1>1, GiveBack
<1>7. TypeOK'
  <2>1. settled' \in [Tasks -> Nat]
    BY <1>5 DEF TypeOK
  <2>2. task' \in [Tasks -> {"none", "completed", "failed", "cancelled"}
                            \cup OpenStatus]
    BY DEF Settle, TypeOK
  <2>3. worker' \in [Tasks -> {"none", "calling", "completed", "failed"}]
    BY DEF Settle, TypeOK
  <2> QED
    BY <1>6, <2>1, <2>2, <2>3 DEF Settle, TypeOK, stopVars
<1>8. TaskInv'
  BY <1>3, <1>5 DEF Settle, TaskInv, TypeOK
<1>9. CountsAreExact'
  <2> SUFFICES ASSUME NEW c \in Batches
               PROVE  completed'[c] + failed'[c] = Cardinality(SettledOf(c)')
    BY DEF CountsAreExact, SettledOf
  <2>1. c = b => Cardinality(SettledOf(c)') = completed[c] + failed[c] + 1
    BY <1>3, SettleCount DEF Settle
  <2>2. c # b => SettledOf(c)' = SettledOf(c)
    BY <1>3, SettleCount DEF Settle
  <2>3. Cardinality(SettledOf(c)) = completed[c] + failed[c]
    BY DEF CountsAreExact, SettledOf
  <2> QED
    BY <2>1, <2>2, <2>3
<1>10. OutputInv'
  <2>1. \A c \in Batches : SettledOf(c) \subseteq SettledOf(c)'
    BY <1>5 DEF SettledOf, TypeOK
  <2>2. \A c \in Batches : SettledOf(c)' \subseteq TasksOf(c)
    BY DEF SettledOf
  <2> QED
    BY <2>1, <2>2 DEF Settle, OutputInv
<1>11. NoLeak'
  <2> SUFFICES ASSUME NEW v \in Users
               PROVE  budget'[v]["reserved"] <= Weight[OpenTasks(v)']
    BY DEF NoLeak
  <2>1. OpenTasks(v)' \in SUBSET Tasks
    BY DEF OpenTasks
  <2>2. CASE v # u
    <3>1. OpenTasks(v)' = OpenTasks(v)
      BY <2>2 DEF Settle, OpenTasks, TypeOK
    <3> QED
      BY <1>6, <2>2, <3>1 DEF NoLeak
  <2>3. CASE v = u
    <3>1. OpenTasks(u) \ {t} \subseteq OpenTasks(u)'
      BY DEF Settle, OpenTasks, TypeOK
    <3> QED
      BY <1>1, <1>6, <2>1, <2>3, <3>1, ReleaseKeepsNoLeak
  <2> QED
    BY <2>2, <2>3
<1>12. last => SettledOf(b)' = TasksOf(b)
  <2>1. SettledOf(b)' \in SUBSET TasksOf(b)
    BY DEF SettledOf
  <2>2. /\ IsFiniteSet(TasksOf(b))
        /\ Cardinality(SettledOf(b)') = completed[b] + failed[b] + 1
    BY <1>1, <1>3, SettleCount DEF Settle
  <2>3. /\ Cardinality(SettledOf(b)') <= Cardinality(TasksOf(b))
        /\ Cardinality(TasksOf(b)) = Cardinality(SettledOf(b)')
             => SettledOf(b)' = TasksOf(b)
    BY <2>1, <2>2, FS_Subset
  <2>4. Cardinality(TasksOf(b)) \in Nat /\ Cardinality(SettledOf(b)') \in Nat
    BY <2>1, <2>2, FS_CardinalityType, FS_Subset
  <2>5. last => Cardinality(SettledOf(b)') >= Cardinality(TasksOf(b))
    BY <2>2 DEF LastOne
  <2>6. last => Cardinality(TasksOf(b)) = Cardinality(SettledOf(b)')
    <3> HIDE DEF last
    <3> QED
      BY <2>3, <2>4, <2>5
  <2> QED
    BY <2>3, <2>6
<1>13. WorkerInv'
  <2>1. SettledOf(b) # TasksOf(b)
    BY <1>1, <1>3 DEF SettledOf
  <2>2. outputs[b] = 0 /\ \A x \in TasksOf(b) : ~Finalizing(x)
    BY <1>1, <2>1 DEF OutputInv, WorkerInv, TasksOf
  <2>3. \A c \in Batches : SettledOf(c) \subseteq SettledOf(c)'
    BY <1>5 DEF SettledOf, TypeOK
  <2>4. \A c \in Batches : SettledOf(c)' \subseteq TasksOf(c)
    BY DEF SettledOf
  <2>5. ASSUME NEW x \in Tasks, x # t
        PROVE  /\ worker'[x] = worker[x] /\ task'[x] = task[x]
               /\ settled'[x] = settled[x]
    BY <1>5, <2>5 DEF Settle, TypeOK
  <2>6. /\ worker'[t] # "calling"
        /\ Finalizing(t)' => last
    BY DEF Settle, TypeOK, Finalizing
  <2>7. outputs' = outputs
    BY DEF Settle
  <2> SUFFICES ASSUME NEW x \in Tasks
               PROVE  /\ worker'[x] = "calling" =>
                           settled'[x] = 0 /\ task'[x] \in {"running", "cancelled"}
                      /\ Finalizing(x)' =>
                           /\ SettledOf(BatchOf[x])' = TasksOf(BatchOf[x])
                           /\ outputs[BatchOf[x]] = 0
                           /\ \A y \in TasksOf(BatchOf[x]) : Finalizing(y)' => y = x
    BY <2>7 DEF WorkerInv
  <2>8. CASE x = t
    <3>1. \A y \in TasksOf(b) : y # t => ~Finalizing(y)'
      BY <2>2, <2>5 DEF Finalizing, TasksOf
    <3>2. Finalizing(t)' => SettledOf(b)' = TasksOf(b)
      BY <1>12, <2>6
    <3> QED
      BY <2>2, <2>6, <2>8, <3>1, <3>2
  <2>9. CASE x # t /\ BatchOf[x] = b
    BY <1>1, <2>2, <2>5, <2>9, Structure DEF Finalizing, WorkerInv, TasksOf
  <2>10. CASE x # t /\ BatchOf[x] # b
    BY <2>3, <2>4, <2>5, <2>10, Structure DEF Finalizing, WorkerInv, TasksOf
  <2> QED
    BY <2>8, <2>9, <2>10
<1>14. PassInv'
  BY <1>4 DEF Settle, PassInv
<1>15. StopInv'
  <2>1. \A c \in Batches : OpenTasksOf(c)' \subseteq OpenTasksOf(c)
    BY DEF Settle, OpenTasksOf, OpenStatus, TypeOK, TasksOf
  <2> QED
    BY <2>1 DEF Settle, StopInv, stopVars
<1> QED
  BY <1>7, <1>8, <1>9, <1>10, <1>11, <1>13, <1>14, <1>15

LEMMA CompleteTaskPreservesInv ==
  ASSUME IndInv, NEW t \in Tasks, NEW usage \in UsageOf[t],
         CompleteTask(t, usage)
  PROVE  IndInv'
<1>1. usage \in Nat
  BY AmountsAssumption
<1>2. BatchOf[t] \in Batches
  BY Structure
<1>3. /\ completed' \in [Batches -> Nat]
      /\ failed' \in [Batches -> Nat]
      /\ \A c \in Batches :
           completed'[c] + failed'[c] =
             IF c = BatchOf[t] THEN completed[c] + failed[c] + 1
                               ELSE completed[c] + failed[c]
  <2>1. completed \in [Batches -> Nat] /\ failed \in [Batches -> Nat]
    BY DEF IndInv, TypeOK
  <2>2. /\ completed' = [completed EXCEPT ![BatchOf[t]] = completed[BatchOf[t]] + 1]
        /\ failed' = failed
    BY DEF CompleteTask
  <2> QED
    BY <1>2, <2>1, <2>2
<1>4. Settle(t, "completed")
  BY DEF CompleteTask
<1>5. \E actual \in Nat : Ledger!Charge(UserOf(t), Weight[{t}], actual)
  BY <1>1 DEF CompleteTask
<1> QED
  BY <1>3, <1>4, <1>5, SettlePreservesInv

LEMMA FailTaskPreservesInv ==
  ASSUME IndInv, NEW t \in Tasks, FailTask(t)
  PROVE  IndInv'
<1>1. BatchOf[t] \in Batches
  BY Structure
<1>2. /\ completed' \in [Batches -> Nat]
      /\ failed' \in [Batches -> Nat]
      /\ \A c \in Batches :
           completed'[c] + failed'[c] =
             IF c = BatchOf[t] THEN completed[c] + failed[c] + 1
                               ELSE completed[c] + failed[c]
  BY <1>1 DEF FailTask, IndInv, TypeOK
<1>3. Settle(t, "failed")
  BY DEF FailTask
<1>4. Ledger!Release(UserOf(t), Weight[{t}])
  BY DEF FailTask
<1> QED
  BY <1>2, <1>3, <1>4, SettlePreservesInv

(* Finalizing closes a batch with no open line left.                       *)
LEMMA FinalizePreservesInv ==
  ASSUME IndInv, NEW t \in Tasks, Finalize(t)
  PROVE  IndInv'
<1> USE DEF IndInv, RowInv
<1> DEFINE b == BatchOf[t]
<1>1. b \in Batches /\ t \in TasksOf(b) /\ Reported(t) \in SUBSET Tasks
  BY Structure DEF Reported
<1>2. /\ Finalizing(t)
      /\ SettledOf(b) = TasksOf(b)
      /\ outputs[b] = 0
      /\ \A x \in TasksOf(b) : Finalizing(x) => x = t
  BY DEF Finalize, Finalizing, WorkerInv
<1>3. \A x \in TasksOf(b) : task[x] \in {"completed", "failed", "cancelled"}
  BY <1>2 DEF SettledOf, TaskInv, TasksOf
<1>4. TypeOK'
  BY <1>1 DEF Finalize, TypeOK, Finished, stopVars
<1>5. TaskInv'
  BY <1>3 DEF Finalize, TaskInv, TypeOK, TasksOf
<1>6. CountsAreExact' /\ OutputInv'
  <2>1. CountsAreExact'
    BY DEF Finalize, CountsAreExact
  <2>2. \A c \in Batches : SettledOf(c)' = SettledOf(c)
    BY DEF Finalize, SettledOf
  <2>3. outputs' = [outputs EXCEPT ![b] = 1]
    BY <1>2 DEF Finalize
  <2>4. OutputInv'
    BY <1>2, <2>2, <2>3 DEF OutputInv, TypeOK
  <2> QED
    BY <2>1, <2>4
<1>7. NoLeak'
  <2>1. \A v \in Users : OpenTasks(v)' = OpenTasks(v)
    BY <1>3 DEF Finalize, OpenTasks, OpenStatus, TypeOK, TasksOf
  <2> QED
    BY <2>1 DEF Finalize, NoLeak
<1>8. WorkerInv'
  <2>1. \A c \in Batches : SettledOf(c)' = SettledOf(c)
    BY DEF Finalize, SettledOf
  <2>2. worker' = [worker EXCEPT ![t] = "none"] /\ outputs' = [outputs EXCEPT ![b] = 1]
    BY <1>1, <1>2 DEF Finalize, TypeOK
  <2>3. settled' = settled /\ task' = task
    BY DEF Finalize
  <2> SUFFICES ASSUME NEW x \in Tasks
               PROVE  /\ worker'[x] = "calling" =>
                           settled[x] = 0 /\ task[x] \in {"running", "cancelled"}
                      /\ Finalizing(x)' =>
                           /\ SettledOf(BatchOf[x]) = TasksOf(BatchOf[x])
                           /\ outputs'[BatchOf[x]] = 0
                           /\ \A y \in TasksOf(BatchOf[x]) : Finalizing(y)' => y = x
    BY <2>1, <2>3, Structure DEF WorkerInv
  <2>4. CASE x = t
    BY <2>2, <2>4 DEF Finalizing, TypeOK
  <2>5. CASE x # t
    <3>1. worker'[x] = worker[x]
      BY <2>2, <2>5 DEF TypeOK
    <3>2. Finalizing(x)' => BatchOf[x] # b
      BY <1>2, <2>5, <3>1 DEF Finalizing, TasksOf
    <3>3. BatchOf[x] # b => outputs'[BatchOf[x]] = outputs[BatchOf[x]]
      BY <2>2, Structure DEF TypeOK
    <3>4. \A y \in Tasks : Finalizing(y)' => Finalizing(y)
      BY <2>2 DEF Finalizing, TypeOK
    <3> QED
      BY <3>1, <3>2, <3>3, <3>4 DEF WorkerInv, Finalizing, TasksOf
  <2> QED
    BY <2>4, <2>5
<1>9. PassInv'
  BY DEF Finalize, PassInv, TypeOK
<1>10. StopInv'
  <2>1. \A c \in Batches : OpenTasksOf(c)' = OpenTasksOf(c)
    BY DEF Finalize, OpenTasksOf
  <2> QED
    BY <2>1 DEF Finalize, StopInv, stopVars, TypeOK
<1> QED
  BY <1>4, <1>5, <1>6, <1>7, <1>8, <1>9, <1>10

(* Recovery puts running lines back in the queue and forgets everybody     *)
(* who was working on them.                                                *)
LEMMA RestartPreservesInv ==
  ASSUME IndInv, Restart
  PROVE  IndInv'
<1> USE DEF IndInv, RowInv
<1>1. TypeOK'
  BY DEF Restart, TypeOK, OpenStatus
<1>2. TaskInv'
  BY DEF Restart, TaskInv, TypeOK
<1>3. CountsAreExact' /\ OutputInv'
  BY DEF Restart, CountsAreExact, OutputInv, SettledOf
<1>4. NoLeak'
  <2>1. \A v \in Users : OpenTasks(v)' = OpenTasks(v)
    BY DEF Restart, OpenTasks, OpenStatus, TypeOK
  <2> QED
    BY <2>1 DEF Restart, NoLeak
<1>5. WorkerInv' /\ PassInv'
  BY DEF Restart, WorkerInv, PassInv, Finalizing
<1>6. StopInv'
  BY StructureAssumption DEF Restart, StopInv
<1> QED
  BY <1>1, <1>2, <1>3, <1>4, <1>5, <1>6

LEMMA NextPreservesInv == IndInv /\ [Next]_vars => IndInv'
<1> SUFFICES ASSUME IndInv, [Next]_vars PROVE IndInv'
  OBVIOUS
<1>1. CASE ServeNext
  BY <1>1, GrantPreservesInv, SubmitPreservesInv DEF ServeNext
<1>2. CASE DispatchNext
  BY <1>2, DispatchReadsPreserveInv, AssignPreservesInv,
     CompleteTaskPreservesInv, FailTaskPreservesInv, FinalizePreservesInv
     DEF DispatchNext, WorkerNext
<1>3. CASE StopNext
  BY <1>3, StopReadsPreserveInv, StopBatchPreservesInv DEF StopNext
<1>4. CASE FaultNext
  BY <1>4, DispatchReadsPreserveInv, StopReadsPreserveInv, RestartPreservesInv
     DEF FaultNext
<1>5. CASE UNCHANGED vars
  <2>1. /\ UNCHANGED rowVars
        /\ UNCHANGED <<status, settled, task, outputs, overdue, pass, picked,
                       worker, todo, current, stopping>>
    BY <1>5 DEF vars, rowVars, dispatchVars, stopVars
  <2>2. TypeOK'
    BY <2>1 DEF IndInv, TypeOK, rowVars
  <2>3. RowInv'
    BY <2>1, ReadingPreservesRowInv DEF IndInv
  <2>4. WorkerInv' /\ PassInv' /\ StopInv'
    BY <2>1 DEF IndInv, WorkerInv, PassInv, StopInv, Finalizing, SettledOf,
                OpenTasksOf
  <2> QED
    BY <2>2, <2>3, <2>4 DEF IndInv
<1> QED
  BY <1>1, <1>2, <1>3, <1>4, <1>5 DEF Next

THEOREM Invariant == Spec => []IndInv
BY InitEstablishesInv, NextPreservesInv, PTL DEF Spec

-----------------------------------------------------------------------------

(* Every row and every thread stays in its set; in particular no balance   *)
(* column ever becomes negative.                                           *)
THEOREM TypeCorrect == Spec => []TypeOK
<1>1. IndInv => TypeOK
  BY DEF IndInv
<1> QED
  BY <1>1, Invariant, PTL

(* No reservation outlives the work it was made for, under any             *)
(* interleaving of stale stops and claims, restarts and failures.          *)
THEOREM ReservationsAreReturned == Spec => []NoLeak
<1>1. IndInv => NoLeak
  BY DEF IndInv, RowInv
<1> QED
  BY <1>1, Invariant, PTL

(* No line is settled twice.                                               *)
THEOREM SettlementsAreUnique == Spec => []SettledOnce
<1>1. IndInv => SettledOnce
  BY DEF IndInv, RowInv, TaskInv, SettledOnce
<1> QED
  BY <1>1, Invariant, PTL

(* The counters of a batch count its settled lines.                        *)
THEOREM CountersCountSettlements == Spec => []CountsAreExact
<1>1. IndInv => CountsAreExact
  BY DEF IndInv, RowInv
<1> QED
  BY <1>1, Invariant, PTL

(* A batch is finalized at most once and only when every line is settled.  *)
THEOREM OneFinalization == Spec => []FinalizedOnce
<1>1. IndInv => FinalizedOnce
  BY DEF IndInv, RowInv, OutputInv, SettledOf, FinalizedOnce
<1> QED
  BY <1>1, Invariant, PTL

-----------------------------------------------------------------------------
(***************************************************************************)
(* Without cancellation and expiry.  Nothing is released twice then: a     *)
(* line that settles belongs to a batch in progress, so its reservation is *)
(* part of what its owner has reserved and no clamp bites.                 *)
(***************************************************************************)
(* Nobody has cancelled anything, and a batch is completed only with all   *)
(* of its lines settled and reported.                                      *)
NobodyStops ==
  /\ \A s \in Stoppers : todo[s] = {} /\ current[s] = NoBatch
  /\ \A b \in Batches : status[b] \in {"none", "in_progress", "completed"}
  /\ \A t \in Tasks : task[t] # "cancelled"
  /\ \A b \in Batches : status[b] = "completed" => SettledOf(b) = TasksOf(b)

UnstoppedInv ==
  IndInv /\ NobodyStops /\ ExactReservation /\ Solvent /\ ResultsComplete

(* What the user has available moves by the deltas booked.                 *)
LEMMA BookAvailable ==
  ASSUME TypeOK, NEW u \in Users, NEW delta \in [Ledger!Columns -> Int],
         Ledger!Book(u, delta)
  PROVE  /\ Ledger!Available(budget'[u]) = Ledger!Available(budget[u])
              + delta["granted"] - delta["reserved"] - delta["used"]
         /\ \A v \in Users : v # u => budget'[v] = budget[v]
         /\ \A v \in Users : Ledger!Available(budget[v]) \in Int
<1>1. budget' = [budget EXCEPT ![u] = Ledger!Plus(budget[u], delta)]
  BY DEF Ledger!Book
<1>2. \A v \in Users : \A c \in Ledger!Columns : budget[v][c] \in Nat
  BY DEF TypeOK
<1>3. \A c \in Ledger!Columns :
        Ledger!Plus(budget[u], delta)[c] = budget[u][c] + delta[c]
  BY DEF Ledger!Plus
<1>4. budget'[u] = Ledger!Plus(budget[u], delta)
      /\ \A v \in Users : v # u => budget'[v] = budget[v]
  BY <1>1 DEF TypeOK
<1> QED
  BY <1>2, <1>3, <1>4 DEF Ledger!Available, Ledger!Columns

(* A row that is not touched is as solvent as before.                      *)
LEMMA UnchangedSolvent ==
  ASSUME Solvent, budget' = budget
  PROVE  Solvent'
BY DEF Solvent, UsageCapped

LEMMA GrantUnstopped ==
  ASSUME UnstoppedInv, NEW u \in Users, NEW n \in Allowances, Grant(u, n)
  PROVE  UnstoppedInv'
<1> USE DEF UnstoppedInv
<1>1. n \in Nat /\ TypeOK
  BY AmountsAssumption DEF IndInv
<1>2. IndInv'
  BY GrantPreservesInv
<1>3. NobodyStops' /\ ResultsComplete'
  BY DEF Grant, NobodyStops, ResultsComplete, SettledOf, stopVars
<1>4. ExactReservation'
  <2>1. \A v \in Users : budget'[v]["reserved"] = budget[v]["reserved"]
    BY <1>1, GrantEffect DEF Grant
  <2> QED
    BY <2>1 DEF Grant, ExactReservation, OpenTasks
<1>5. Solvent'
  <2> DEFINE delta == Ledger!GrantDelta(n)
  <2>1. /\ delta \in [Ledger!Columns -> Int]
        /\ delta["reserved"] = 0
        /\ delta["granted"] = n
        /\ delta["used"] = 0
    BY <1>1 DEF Ledger!GrantDelta, Ledger!Zero, Ledger!Columns
  <2>2. Ledger!Book(u, delta)
    BY DEF Grant, Ledger!Grant
  <2> HIDE DEF delta
  <2>3. /\ Ledger!Available(budget'[u])
             = Ledger!Available(budget[u]) + n
        /\ \A v \in Users : v # u => budget'[v] = budget[v]
        /\ \A v \in Users : Ledger!Available(budget[v]) \in Int
    BY <1>1, <2>1, <2>2, BookAvailable
  <2>4. \A v \in Users : Ledger!Available(budget[v]) >= 0
                           => Ledger!Available(budget'[v]) >= 0
    BY <1>1, <2>3
  <2> QED
    BY <2>4 DEF Solvent, UsageCapped
<1> QED
  BY <1>2, <1>3, <1>4, <1>5

LEMMA SubmitUnstopped ==
  ASSUME UnstoppedInv, NEW b \in Batches, Submit(b)
  PROVE  UnstoppedInv'
<1> USE DEF UnstoppedInv
<1> DEFINE u == OwnerOf[b]
           n == Weight[TasksOf(b)]
<1>1. u \in Users /\ n \in Nat /\ TasksOf(b) \in SUBSET Tasks /\ TypeOK
  BY Structure, WeightType DEF IndInv
<1>2. IndInv'
  BY SubmitPreservesInv
<1>3. \A t \in Tasks : BatchOf[t] = b => task[t] = "none" /\ settled[t] = 0
  BY DEF Submit, IndInv, RowInv, TaskInv
<1>4. NobodyStops' /\ ResultsComplete'
  BY <1>1, <1>3 DEF Submit, NobodyStops, ResultsComplete, SettledOf, stopVars, TypeOK
<1>5. ExactReservation'
  <2> SUFFICES ASSUME NEW v \in Users
               PROVE  budget'[v]["reserved"] = Weight[OpenTasks(v)']
    BY DEF ExactReservation
  <2>1. budget[v]["reserved"] = Weight[OpenTasks(v)] /\ OpenTasks(v) \in SUBSET Tasks
    BY DEF ExactReservation, OpenTasks
  <2>2. /\ budget'[u]["reserved"] = budget[u]["reserved"] + n
        /\ \A w \in Users : w # u => budget'[w] = budget[w]
    BY <1>1, ReserveEffect DEF Submit
  <2>3. CASE v # u
    <3>1. OpenTasks(v)' = OpenTasks(v)
      BY <2>3, <1>1, <1>3 DEF Submit, OpenTasks, UserOf, TypeOK
    <3> QED
      BY <2>1, <2>2, <2>3, <3>1
  <2>4. CASE v = u
    <3>1. OpenTasks(v)' = OpenTasks(v) \cup TasksOf(b)
      BY <2>4, <1>1, <1>3, Structure
         DEF Submit, OpenTasks, UserOf, TypeOK, TasksOf, OpenStatus
    <3>2. OpenTasks(v) \cap TasksOf(b) = {}
      BY <1>3 DEF OpenTasks, TasksOf, OpenStatus
    <3>3. Weight[OpenTasks(v)'] = Weight[OpenTasks(v)] + n
      BY <1>1, <2>1, <3>1, <3>2, WeightAssumption
    <3> QED
      BY <2>1, <2>2, <2>4, <3>3
  <2> QED
    BY <2>3, <2>4
<1>6. Solvent'
  <2> DEFINE delta == Ledger!ReserveDelta(n)
  <2>1. /\ delta \in [Ledger!Columns -> Int]
        /\ delta["reserved"] = n
        /\ delta["granted"] = 0
        /\ delta["used"] = 0
    BY <1>1 DEF Ledger!ReserveDelta, Ledger!Zero, Ledger!Columns
  <2>2. Ledger!Book(u, delta) /\ n <= Ledger!Available(budget[u])
    BY DEF Submit, Ledger!Reserve
  <2> HIDE DEF delta
  <2>3. /\ Ledger!Available(budget'[u])
             = Ledger!Available(budget[u]) - n
        /\ \A v \in Users : v # u => budget'[v] = budget[v]
        /\ \A v \in Users : Ledger!Available(budget[v]) \in Int
    BY <1>1, <2>1, <2>2, BookAvailable
  <2> HIDE DEF n
  <2>4. \A v \in Users : Ledger!Available(budget[v]) >= 0
                           => Ledger!Available(budget'[v]) >= 0
    BY <1>1, <2>2, <2>3
  <2> QED
    BY <2>4 DEF Solvent, UsageCapped
<1> QED
  BY <1>2, <1>4, <1>5, <1>6

(* Dispatcher steps that keep every line open, and the queries.            *)
LEMMA OpenUnstopped ==
  ASSUME UnstoppedInv,
         \/ \E S \in SUBSET Tasks : ClaimTasks(S)
         \/ Assign
         \/ PassEnds
         \/ \E t \in Tasks : WorkerError(t)
         \/ ClaimError
         \/ Restart
         \/ UNCHANGED vars
  PROVE  NobodyStops' /\ ExactReservation' /\ Solvent' /\ ResultsComplete'
<1> USE DEF UnstoppedInv
<1>1. /\ status' = status /\ results' = results /\ settled' = settled
      /\ budget' = budget
  BY DEF ClaimTasks, Assign, PassEnds, WorkerError, ClaimError, Restart, vars, rowVars
<1>2. \A s \in Stoppers : todo'[s] = {} /\ current'[s] = NoBatch
  BY DEF NobodyStops, ClaimTasks, Assign, PassEnds, WorkerError, ClaimError,
         Restart, vars, stopVars
<1>3. \A t \in Tasks : /\ task'[t] # "cancelled"
                       /\ task'[t] \in OpenStatus <=> task[t] \in OpenStatus
  <2>1. CASE Assign
    <3>1. \A t \in picked : task[t] = "pending"
      BY DEF IndInv, PassInv, NobodyStops, TypeOK
    <3> QED
      BY <2>1, <3>1 DEF Assign, NobodyStops, OpenStatus
  <2>2. CASE Restart
    BY <2>2 DEF Restart, NobodyStops, OpenStatus
  <2>3. CASE task' = task
    BY <2>3 DEF NobodyStops
  <2> QED
    BY <2>1, <2>2, <2>3 DEF ClaimTasks, PassEnds, WorkerError, ClaimError, vars, rowVars
<1>4. NobodyStops' /\ ResultsComplete'
  BY <1>1, <1>2, <1>3 DEF NobodyStops, ResultsComplete, SettledOf
<1>5. ExactReservation'
  <2>1. \A v \in Users : OpenTasks(v)' = OpenTasks(v)
    BY <1>1, <1>3 DEF OpenTasks
  <2> QED
    BY <1>1, <2>1 DEF ExactReservation
<1>6. Solvent'
  BY <1>1, UnchangedSolvent
<1> QED
  BY <1>4, <1>5, <1>6

(* A line settles in a batch in progress, and what it reserved is still    *)
(* there to be given back.                                                 *)
LEMMA SettleUnstopped ==
  ASSUME UnstoppedInv, NEW t \in Tasks, NEW outcome \in {"completed", "failed"},
         Settle(t, outcome),
         \/ Ledger!Release(UserOf(t), Weight[{t}])
         \/ \E actual \in UsageOf[t] : Ledger!Charge(UserOf(t), Weight[{t}], actual)
  PROVE  NobodyStops' /\ ExactReservation' /\ Solvent' /\ ResultsComplete'
<1> USE DEF UnstoppedInv
<1> DEFINE b == BatchOf[t]
           u == UserOf(t)
           w == Weight[{t}]
<1>1. /\ b \in Batches /\ u \in Users /\ t \in TasksOf(b) /\ {t} \in SUBSET Tasks
      /\ w \in Nat /\ TypeOK /\ UsageOf[t] \in SUBSET Nat
  BY Structure, WeightType, AmountsAssumption DEF IndInv
<1>2. settled[t] = 0 /\ task[t] = "running"
  BY DEF Settle, IndInv, WorkerInv, NobodyStops
<1>3. status[b] = "in_progress"
  <2>1. status[b] # "none"
    BY <1>1, <1>2 DEF IndInv, RowInv, TaskInv
  <2>2. status[b] # "completed"
    BY <1>1, <1>2 DEF NobodyStops, SettledOf
  <2> QED
    BY <1>1, <2>1, <2>2 DEF NobodyStops
<1>4. t \in OpenTasks(u) /\ OpenTasks(u) \in SUBSET Tasks
  BY <1>2, <1>3 DEF OpenTasks, OpenStatus
<1>5. Weight[OpenTasks(u)] = Weight[OpenTasks(u) \ {t}] + w
  <2>1. /\ OpenTasks(u) \ {t} \in SUBSET Tasks
        /\ (OpenTasks(u) \ {t}) \cap {t} = {}
        /\ (OpenTasks(u) \ {t}) \cup {t} = OpenTasks(u)
    BY <1>4
  <2> QED
    BY <1>1, <2>1, WeightAssumption
<1>6. Weight[OpenTasks(u) \ {t}] \in Nat /\ budget[u]["reserved"] = Weight[OpenTasks(u)]
  BY <1>1, <1>4, WeightType DEF ExactReservation
<1>7. Ledger!Min2(w, budget[u]["reserved"]) = w
  BY <1>1, <1>5, <1>6 DEF Ledger!Min2
<1>8. /\ budget'[u]["reserved"] = Weight[OpenTasks(u) \ {t}]
      /\ \A v \in Users : v # u => budget'[v] = budget[v]
  <2>1. \/ Ledger!Release(u, w)
        \/ \E actual \in Nat : Ledger!Charge(u, w, actual)
    BY <1>1
  <2>2. /\ budget'[u]["reserved"] = budget[u]["reserved"] - w
        /\ \A v \in Users : v # u => budget'[v] = budget[v]
    BY <1>1, <1>7, <2>1, GiveBack
  <2> QED
    BY <1>1, <1>5, <1>6, <2>2
<1>9. NobodyStops' /\ ResultsComplete'
  <2>1. \A c \in Batches : SettledOf(c) = TasksOf(c) => SettledOf(c)' = TasksOf(c)
    BY <1>1, <1>2 DEF Settle, SettledOf, TypeOK, TasksOf
  <2>2. \A x \in Tasks : task'[x] # "cancelled"
    BY <1>1 DEF Settle, NobodyStops, TypeOK
  <2> QED
    BY <2>1, <2>2 DEF Settle, NobodyStops, ResultsComplete, stopVars
<1>10. ExactReservation'
  <2>1. OpenTasks(u)' = OpenTasks(u) \ {t}
    BY <1>1 DEF Settle, OpenTasks, OpenStatus, TypeOK
  <2>2. \A v \in Users : v # u => OpenTasks(v)' = OpenTasks(v)
    BY <1>1 DEF Settle, OpenTasks, TypeOK
  <2> QED
    BY <1>8, <2>1, <2>2 DEF ExactReservation
<1>11. Solvent'
  <2> SUFFICES ASSUME UsageCapped, NEW v \in Users
               PROVE  Ledger!Available(budget'[v]) >= 0
    BY DEF Solvent, UsageCapped
  <2>1. \A x \in Users : Ledger!Available(budget[x]) >= 0
    BY DEF Solvent
  <2>2. Ledger!Zero \in [Ledger!Columns -> Int]
    BY DEF Ledger!Zero
  <2>3. CASE Ledger!Release(u, w)
    <3> DEFINE delta == Ledger!ReleaseDelta(budget[u], w)
    <3>1. /\ delta \in [Ledger!Columns -> Int]
          /\ delta["reserved"] = -w
          /\ delta["granted"] = 0
          /\ delta["used"] = 0
      BY <1>1, <1>7, <2>2 DEF Ledger!ReleaseDelta, Ledger!Zero, Ledger!Columns
    <3>2. Ledger!Book(u, delta)
      BY <2>3 DEF Ledger!Release
    <3> HIDE DEF delta, w
    <3>3. /\ Ledger!Available(budget'[u]) = Ledger!Available(budget[u]) + w
          /\ \A x \in Users : x # u => budget'[x] = budget[x]
          /\ \A x \in Users : Ledger!Available(budget[x]) \in Int
      BY <1>1, <3>1, <3>2, BookAvailable
    <3> QED
      BY <1>1, <2>1, <3>3
  <2>4. ASSUME NEW actual \in UsageOf[t], Ledger!Charge(u, w, actual)
        PROVE  Ledger!Available(budget'[v]) >= 0
    <3> DEFINE delta == Ledger!ChargeDelta(budget[u], w, actual)
    <3>0. actual \in Nat /\ actual <= w
      BY <1>1 DEF UsageCapped
    <3>1. /\ delta \in [Ledger!Columns -> Int]
          /\ delta["reserved"] = -w
          /\ delta["granted"] = 0
          /\ delta["used"] = actual
      BY <1>1, <1>7, <2>2, <3>0 DEF Ledger!ChargeDelta, Ledger!Zero, Ledger!Columns
    <3>2. Ledger!Book(u, delta)
      BY <2>4 DEF Ledger!Charge
    <3> HIDE DEF delta, w
    <3>3. /\ Ledger!Available(budget'[u]) = Ledger!Available(budget[u]) + w - actual
          /\ \A x \in Users : x # u => budget'[x] = budget[x]
          /\ \A x \in Users : Ledger!Available(budget[x]) \in Int
      BY <1>1, <3>0, <3>1, <3>2, BookAvailable
    <3> QED
      BY <1>1, <2>1, <3>0, <3>3
  <2> QED
    BY <2>3, <2>4
<1> QED
  BY <1>9, <1>10, <1>11

LEMMA CompleteTaskUnstopped ==
  ASSUME UnstoppedInv, NEW t \in Tasks, NEW usage \in UsageOf[t],
         CompleteTask(t, usage)
  PROVE  UnstoppedInv'
<1>1. IndInv'
  BY CompleteTaskPreservesInv DEF UnstoppedInv
<1>2. /\ Settle(t, "completed")
      /\ \E actual \in UsageOf[t] : Ledger!Charge(UserOf(t), Weight[{t}], actual)
  BY DEF CompleteTask
<1> QED
  BY <1>1, <1>2, SettleUnstopped DEF UnstoppedInv

LEMMA FailTaskUnstopped ==
  ASSUME UnstoppedInv, NEW t \in Tasks, FailTask(t)
  PROVE  UnstoppedInv'
<1>1. IndInv'
  BY FailTaskPreservesInv DEF UnstoppedInv
<1>2. Settle(t, "failed") /\ Ledger!Release(UserOf(t), Weight[{t}])
  BY DEF FailTask
<1> QED
  BY <1>1, <1>2, SettleUnstopped DEF UnstoppedInv

(* Every settled line that nobody cancels is reported.                     *)
LEMMA FinalizeUnstopped ==
  ASSUME UnstoppedInv, NEW t \in Tasks, Finalize(t)
  PROVE  UnstoppedInv'
<1> USE DEF UnstoppedInv
<1> DEFINE b == BatchOf[t]
<1>1. b \in Batches /\ TypeOK /\ TasksOf(b) \in SUBSET Tasks
  BY Structure DEF IndInv
<1>2. SettledOf(b) = TasksOf(b)
  BY DEF Finalize, IndInv, WorkerInv, Finalizing
<1>3. \A x \in TasksOf(b) : task[x] \in {"completed", "failed"}
  BY <1>1, <1>2 DEF SettledOf, IndInv, RowInv, TaskInv, NobodyStops
<1>4. Reported(t) = TasksOf(b)
  BY <1>3 DEF Reported
<1>5. IndInv'
  BY FinalizePreservesInv
<1>6. NobodyStops' /\ ResultsComplete'
  BY <1>1, <1>2, <1>4
     DEF Finalize, NobodyStops, ResultsComplete, SettledOf, TypeOK, stopVars
<1>7. ExactReservation'
  <2>1. \A v \in Users : OpenTasks(v)' = OpenTasks(v)
    BY <1>1, <1>3 DEF Finalize, OpenTasks, OpenStatus, TypeOK, TasksOf
  <2> QED
    BY <2>1 DEF Finalize, ExactReservation
<1>8. Solvent'
  BY UnchangedSolvent DEF Finalize
<1> QED
  BY <1>5, <1>6, <1>7, <1>8

LEMMA InitUnstopped == Init => UnstoppedInv
<1> SUFFICES ASSUME Init PROVE UnstoppedInv
  OBVIOUS
<1>1. IndInv
  BY InitEstablishesInv
<1>2. NobodyStops /\ ResultsComplete
  BY DEF Init, NobodyStops, ResultsComplete
<1>3. ExactReservation
  <2>1. \A u \in Users : OpenTasks(u) = {}
    BY Structure DEF Init, OpenTasks
  <2> QED
    BY <2>1, WeightAssumption DEF Init, ExactReservation, Ledger!Zero, Ledger!Columns
<1>4. Solvent
  BY DEF Init, Solvent, Ledger!Available, Ledger!Zero, Ledger!Columns
<1> QED
  BY <1>1, <1>2, <1>3, <1>4 DEF UnstoppedInv

LEMMA UnstoppedStep ==
  UnstoppedInv /\ [ServeNext \/ DispatchNext \/ FaultNext]_vars => UnstoppedInv'
<1> SUFFICES ASSUME UnstoppedInv, [ServeNext \/ DispatchNext \/ FaultNext]_vars
             PROVE  UnstoppedInv'
  OBVIOUS
<1>1. IndInv'
  BY NextPreservesInv DEF Next, UnstoppedInv
<1>2. CASE ServeNext
  BY <1>2, GrantUnstopped, SubmitUnstopped DEF ServeNext
<1>3. CASE DispatchNext
  BY <1>1, <1>3, OpenUnstopped, CompleteTaskUnstopped, FailTaskUnstopped, FinalizeUnstopped
     DEF DispatchNext, WorkerNext, UnstoppedInv
<1>4. CASE FaultNext
  <2>1. \A s \in Stoppers : ~StopError(s)
    BY DEF UnstoppedInv, NobodyStops, StopError
  <2> QED
    BY <1>1, <1>4, <2>1, OpenUnstopped DEF FaultNext, UnstoppedInv
<1>5. CASE UNCHANGED vars
  BY <1>1, <1>5, OpenUnstopped DEF UnstoppedInv
<1> QED
  BY <1>2, <1>3, <1>4, <1>5

THEOREM UnstoppedInvariant == UnstoppedSpec => []UnstoppedInv
BY InitUnstopped, UnstoppedStep, PTL DEF UnstoppedSpec

(* While nobody cancels and nothing expires, the reservation of every user *)
(* is that of his open lines to the token, across restarts and failures.   *)
THEOREM ReservationsAreExact == UnstoppedSpec => []ExactReservation
<1>1. UnstoppedInv => ExactReservation
  BY DEF UnstoppedInv
<1> QED
  BY <1>1, UnstoppedInvariant, PTL

(* While nobody cancels and nothing expires, and no node reports more      *)
(* usage than was reserved for the line, no balance becomes negative.      *)
THEOREM NobodyOverspends == UnstoppedSpec => []Solvent
<1>1. UnstoppedInv => Solvent
  BY DEF UnstoppedInv
<1> QED
  BY <1>1, UnstoppedInvariant, PTL

(* While nobody cancels and nothing expires, every line of a completed     *)
(* batch is in one of its files.                                           *)
THEOREM CompletedIsReported == UnstoppedSpec => []ResultsComplete
<1>1. UnstoppedInv => ResultsComplete
  BY DEF UnstoppedInv
<1> QED
  BY <1>1, UnstoppedInvariant, PTL
=============================================================================
