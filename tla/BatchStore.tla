----------------------------- MODULE BatchStore -----------------------------
(***************************************************************************)
(* Batches and their tasks from submission to a terminal status: the rows  *)
(* batch_ops.py, dispatcher.py and retention.py write, and who writes them *)
(* when.                                                                   *)
(*                                                                         *)
(* One action is one database transaction, or one query whose result is    *)
(* kept and used later.  A transaction holds SQLite's write lock from its  *)
(* first flush to its commit and every call of ledger.py commits, so a     *)
(* commit is atomic and its budget part is an operation of TokenLedger     *)
(* (LedgerThreads shows why).  What a session read before its first flush  *)
(* may be stale when it commits: nothing compares it again.                *)
(*                                                                         *)
(* The actors: HTTP handlers that submit and cancel, the retention job,    *)
(* and the dispatcher, whose passes claim tasks and wait for one worker    *)
(* per claimed task.                                                       *)
(***************************************************************************)
EXTENDS Integers, FiniteSets

CONSTANTS
  Users,        \* accounts
  Batches,      \* batches that may be submitted
  Tasks,        \* the lines of their input files
  OwnerOf,      \* the user who submits a batch
  BatchOf,      \* the batch a line belongs to
  Weight,       \* reserved_tokens summed over a set of tasks
  UsageOf,      \* token counts a node may report for a task
  Allowances,   \* amounts an administrator grants at once
  GrantLimit,   \* bound: no grant takes granted_tokens above it
  Cancellers,   \* threads that handle cancel requests
  Retention,    \* the thread of the retention job
  NoBatch       \* a stopping thread between two batches

VARIABLES
  status,       \* batches.status ("none": no row yet; see Finalize)
  completed,    \* batches.request_completed
  failed,       \* batches.request_failed
  outputs,      \* output FileObjects written for a batch
  results,      \* the lines in the batch's output and error files
  task,         \* tasks.status ("none": no row yet)
  settled,      \* ledger entries that settle a task
  budget,       \* budgets rows
  overdue,      \* batches whose expires_at has passed
  pass,         \* the dispatcher's loop
  picked,       \* tasks its claim query returned
  worker,       \* the worker of each claimed task
  todo,         \* batches a stopping thread has read and still means to stop
  current,      \* the batch it is stopping
  stopping      \* the open tasks it read for that batch

rowVars == <<status, completed, failed, outputs, results, task, settled, budget>>
dispatchVars == <<pass, picked, worker>>
stopVars == <<todo, current, stopping>>
vars == <<rowVars, overdue, dispatchVars, stopVars>>

Stoppers == Cancellers \cup {Retention}

TasksOf(b) == {t \in Tasks : BatchOf[t] = b}

UserOf(t) == OwnerOf[BatchOf[t]]

Ledger == INSTANCE TokenLedger
            WITH Amounts <- Nat, Adjustments <- {}, replay <- budget

ASSUME StructureAssumption ==
  /\ OwnerOf \in [Batches -> Users]
  /\ BatchOf \in [Tasks -> Batches]
  /\ IsFiniteSet(Tasks)
  /\ \A b \in Batches : TasksOf(b) # {}
  /\ NoBatch \notin Batches

(* A batch reserves the sum of its lines; every line reserves something    *)
(* (max_tokens is positive).                                               *)
ASSUME WeightAssumption ==
  /\ Weight \in [SUBSET Tasks -> Nat]
  /\ Weight[{}] = 0
  /\ \A S, T \in SUBSET Tasks :
       S \cap T = {} => Weight[S \cup T] = Weight[S] + Weight[T]
  /\ \A t \in Tasks : Weight[{t}] > 0

ASSUME AmountsAssumption ==
  /\ UsageOf \in [Tasks -> SUBSET Nat]
  /\ Allowances \subseteq Nat \ {0}

-----------------------------------------------------------------------------

OpenStatus == {"pending", "running"}

Finished == {"completed", "cancelled", "expired"}

(* Variant: only queued tasks are stopped, running ones are forgotten.     *)
QueuedTasksOf(b) == {t \in TasksOf(b) : task[t] = "pending"}

OpenTasksOf(b) == {t \in TasksOf(b) : task[t] \in OpenStatus}

Init ==
  /\ status = [b \in Batches |-> "none"]
  /\ completed = [b \in Batches |-> 0]
  /\ failed = [b \in Batches |-> 0]
  /\ outputs = [b \in Batches |-> 0]
  /\ results = [b \in Batches |-> {}]
  /\ task = [t \in Tasks |-> "none"]
  /\ settled = [t \in Tasks |-> 0]
  /\ budget = [u \in Users |-> Ledger!Zero]
  /\ overdue = {}
  /\ pass = "idle"
  /\ picked = {}
  /\ worker = [t \in Tasks |-> "none"]
  /\ todo = [s \in Stoppers |-> {}]
  /\ current = [s \in Stoppers |-> NoBatch]
  /\ stopping = [s \in Stoppers |-> {}]

-----------------------------------------------------------------------------
(* HTTP handlers.                                                          *)

Grant(u, tokens) ==
  /\ budget[u]["granted"] + tokens <= GrantLimit
  /\ Ledger!Grant(u, tokens)
  /\ UNCHANGED <<status, completed, failed, outputs, results, task, settled,
                 overdue, dispatchVars, stopVars>>

(* create_batch: the batch, its tasks and the reservation are one commit.  *)
(* A submission that does not fit leaves nothing behind.                   *)
Submit(b) ==
  /\ status[b] = "none"
  /\ Ledger!Reserve(OwnerOf[b], Weight[TasksOf(b)])
  /\ status' = [status EXCEPT ![b] = "in_progress"]
  /\ task' = [t \in Tasks |-> IF BatchOf[t] = b THEN "pending" ELSE task[t]]
  /\ UNCHANGED <<completed, failed, outputs, results, settled, overdue,
                 dispatchVars, stopVars>>

(* cancel_batch, the status check; ConflictError otherwise.                *)
CancelCheck(s, b) ==
  /\ todo[s] = {}
  /\ status[b] = "in_progress"
  /\ todo' = [todo EXCEPT ![s] = {b}]
  /\ UNCHANGED <<rowVars, overdue, dispatchVars, current, stopping>>

-----------------------------------------------------------------------------
(* Stopping a batch early: cancel and expiry.                              *)

TimePasses(b) ==
  /\ status[b] # "none"
  /\ b \notin overdue
  /\ overdue' = overdue \cup {b}
  /\ UNCHANGED <<rowVars, dispatchVars, stopVars>>

(* expire_overdue_batches, the query: read once for the whole pass.        *)
FindOverdue ==
  LET found == {b \in overdue : status[b] = "in_progress"} IN
  /\ todo[Retention] = {}
  /\ found # {}
  /\ todo' = [todo EXCEPT ![Retention] = found]
  /\ UNCHANGED <<rowVars, overdue, dispatchVars, current, stopping>>

(* _terminate_batch, the query for the tasks to stop.                      *)
ReadTasks(s, b) ==
  /\ b \in todo[s]
  /\ current[s] = NoBatch
  /\ current' = [current EXCEPT ![s] = b]
  /\ stopping' = [stopping EXCEPT ![s] = OpenTasksOf(b)]
  /\ UNCHANGED <<rowVars, overdue, dispatchVars, todo>>

StopStatus(s) == IF s = Retention THEN "expired" ELSE "cancelled"

(* The sum of the reservations of the tasks to stop, given back.           *)
ReleaseAll(b, S) ==
  IF Weight[S] > 0 THEN Ledger!Release(OwnerOf[b], Weight[S])
                   ELSE UNCHANGED budget

(* _terminate_batch, the commit: the tasks and the batch that were read    *)
(* get their new status whatever has become of them since.                 *)
StopBatch(s, b) ==
  /\ current[s] = b
  /\ task' = [t \in Tasks |-> IF t \in stopping[s] THEN "cancelled" ELSE task[t]]
  /\ status' = [status EXCEPT ![b] = StopStatus(s)]
  /\ ReleaseAll(b, stopping[s])
  /\ todo' = [todo EXCEPT ![s] = @ \ {b}]
  /\ current' = [current EXCEPT ![s] = NoBatch]
  /\ stopping' = [stopping EXCEPT ![s] = {}]
  /\ UNCHANGED <<completed, failed, outputs, results, settled, overdue,
                 dispatchVars>>

-----------------------------------------------------------------------------
(* The dispatcher.  Which pending tasks a pass takes, and on which nodes,  *)
(* is left open here.                                                      *)

Claimable ==
  {t \in Tasks : task[t] = "pending" /\ status[BatchOf[t]] = "in_progress"}

(* _claim_and_assign, the queries.                                         *)
ClaimTasks(S) ==
  /\ pass = "idle"
  /\ S # {}
  /\ S \subseteq Claimable
  /\ pass' = "claiming"
  /\ picked' = S
  /\ UNCHANGED <<rowVars, overdue, worker, stopVars>>

(* _claim_and_assign, the commit; dispatch_once starts a worker per task.  *)
Assign ==
  /\ pass = "claiming"
  /\ pass' = "running"
  /\ task' = [t \in Tasks |-> IF t \in picked THEN "running" ELSE task[t]]
  /\ worker' = [t \in Tasks |-> IF t \in picked THEN "calling" ELSE worker[t]]
  /\ picked' = {}
  /\ UNCHANGED <<status, completed, failed, outputs, results, settled, budget,
                 overdue, stopVars>>

(* dispatch_once returns when every worker of the pass has.                *)
PassEnds ==
  /\ pass = "running"
  /\ \A t \in Tasks : worker[t] = "none"
  /\ pass' = "idle"
  /\ UNCHANGED <<rowVars, overdue, picked, worker, stopVars>>

(* Variants: one settlement early, and never.                              *)
LastButOne(b, counted) ==
  /\ status[b] = "in_progress"
  /\ counted >= Cardinality(TasksOf(b)) - 1

PastLast(b, counted) ==
  /\ status[b] = "in_progress"
  /\ counted > Cardinality(TasksOf(b))

(* _maybe_finalize_batch, its early returns: decided on the batch as this  *)
(* settlement committed it.                                                *)
LastOne(b, counted) ==
  /\ status[b] = "in_progress"
  /\ counted >= Cardinality(TasksOf(b))

(* What complete_task and fail_task commit beside the budget and counters. *)
Settle(t, outcome) ==
  LET b == BatchOf[t] IN
  /\ worker[t] = "calling"
  /\ task' = [task EXCEPT ![t] = outcome]
  /\ settled' = [settled EXCEPT ![t] = @ + 1]
  /\ worker' = [worker EXCEPT ![t] =
                  IF LastOne(b, completed[b] + failed[b] + 1) THEN outcome
                                                              ELSE "none"]
  /\ UNCHANGED <<status, outputs, results, overdue, pass, picked, stopVars>>

(* complete_task: a node answered and reported its usage.                  *)
CompleteTask(t, usage) ==
  /\ Settle(t, "completed")
  /\ completed' = [completed EXCEPT ![BatchOf[t]] = @ + 1]
  /\ Ledger!Charge(UserOf(t), Weight[{t}], usage)
  /\ UNCHANGED failed

(* Variants: the failure is not counted, or its reservation is kept.       *)
FailUncounted(t) ==
  /\ Settle(t, "failed")
  /\ Ledger!Release(UserOf(t), Weight[{t}])
  /\ UNCHANGED <<completed, failed>>

FailUnreleased(t) ==
  /\ Settle(t, "failed")
  /\ failed' = [failed EXCEPT ![BatchOf[t]] = @ + 1]
  /\ UNCHANGED <<completed, budget>>

(* fail_task: every attempt failed.                                        *)
FailTask(t) ==
  /\ Settle(t, "failed")
  /\ failed' = [failed EXCEPT ![BatchOf[t]] = @ + 1]
  /\ Ledger!Release(UserOf(t), Weight[{t}])
  /\ UNCHANGED completed

(* Variant: only the output file is written, failed lines are dropped.     *)
ReportedOutput(t) == {x \in TasksOf(BatchOf[t]) : task[x] = "completed"}

(* The task rows the finalizing session sees: its own task as it settled   *)
(* it, the others as they are now.                                         *)
Reported(t) ==
  {x \in TasksOf(BatchOf[t]) : x = t \/ task[x] \in {"completed", "failed"}}

(* _maybe_finalize_batch, the rest: both files and the status in one       *)
(* commit ("finalizing" is set and overwritten inside the transaction).    *)
Finalize(t) ==
  LET b == BatchOf[t] IN
  /\ worker[t] \in {"completed", "failed"}
  /\ worker' = [worker EXCEPT ![t] = "none"]
  /\ status' = [status EXCEPT ![b] = "completed"]
  /\ outputs' = [outputs EXCEPT ![b] = @ + 1]
  /\ results' = [results EXCEPT ![b] = Reported(t)]
  /\ UNCHANGED <<completed, failed, task, settled, budget, overdue, pass,
                 picked, stopVars>>

-----------------------------------------------------------------------------
(* Faults.                                                                 *)

(* A worker raises, before its commit ("database is locked") or while      *)
(* finalizing (a blob that cannot be written): gather raises in            *)
(* run_forever, which nothing restarts.  The other workers go on.          *)
WorkerError(t) ==
  /\ worker[t] # "none"
  /\ worker' = [worker EXCEPT ![t] = "none"]
  /\ pass' = "dead"
  /\ UNCHANGED <<rowVars, overdue, picked, stopVars>>

(* The claim's commit raises.                                              *)
ClaimError ==
  /\ pass = "claiming"
  /\ pass' = "dead"
  /\ picked' = {}
  /\ UNCHANGED <<rowVars, overdue, worker, stopVars>>

(* A cancel request answers 500, or a retention pass is given up with the  *)
(* rest of its list.                                                       *)
StopError(s) ==
  /\ todo[s] # {}
  /\ todo' = [todo EXCEPT ![s] = {}]
  /\ current' = [current EXCEPT ![s] = NoBatch]
  /\ stopping' = [stopping EXCEPT ![s] = {}]
  /\ UNCHANGED <<rowVars, overdue, dispatchVars>>

(* Variant: recovery requeues every task that did not complete.            *)
RestartFailed ==
  /\ task' = [t \in Tasks |-> IF task[t] \in {"running", "failed"}
                              THEN "pending" ELSE task[t]]
  /\ pass' = "idle"
  /\ picked' = {}
  /\ worker' = [t \in Tasks |-> "none"]
  /\ todo' = [s \in Stoppers |-> {}]
  /\ current' = [s \in Stoppers |-> NoBatch]
  /\ stopping' = [s \in Stoppers |-> {}]
  /\ UNCHANGED <<status, completed, failed, outputs, results, settled, budget,
                 overdue>>

(* The process dies and starts again: uncommitted work is gone, and        *)
(* recover_running_tasks runs before anything is served.                   *)
Restart ==
  /\ task' = [t \in Tasks |-> IF task[t] = "running" THEN "pending" ELSE task[t]]
  /\ pass' = "idle"
  /\ picked' = {}
  /\ worker' = [t \in Tasks |-> "none"]
  /\ todo' = [s \in Stoppers |-> {}]
  /\ current' = [s \in Stoppers |-> NoBatch]
  /\ stopping' = [s \in Stoppers |-> {}]
  /\ UNCHANGED <<status, completed, failed, outputs, results, settled, budget,
                 overdue>>

-----------------------------------------------------------------------------

ServeNext ==
  \/ \E u \in Users, tokens \in Allowances : Grant(u, tokens)
  \/ \E b \in Batches : Submit(b)

WorkerNext(t) ==
  \/ \E usage \in UsageOf[t] : CompleteTask(t, usage)
  \/ FailTask(t)
  \/ Finalize(t)

DispatchNext ==
  \/ \E S \in SUBSET Tasks : ClaimTasks(S)
  \/ Assign
  \/ PassEnds
  \/ \E t \in Tasks : WorkerNext(t)

StopNext ==
  \/ \E b \in Batches : TimePasses(b)
  \/ \E s \in Cancellers, b \in Batches : CancelCheck(s, b)
  \/ FindOverdue
  \/ \E s \in Stoppers, b \in Batches : ReadTasks(s, b) \/ StopBatch(s, b)

FaultNext ==
  \/ \E t \in Tasks : WorkerError(t)
  \/ ClaimError
  \/ \E s \in Stoppers : StopError(s)
  \/ Restart

Next == ServeNext \/ DispatchNext \/ StopNext \/ FaultNext

Spec == Init /\ [][Next]_vars

(* Nobody cancels and nothing expires.                                     *)
UnstoppedSpec == Init /\ [][ServeNext \/ DispatchNext \/ FaultNext]_vars

(* The process stays up and no transaction fails.                          *)
FaultlessSpec == Init /\ [][ServeNext \/ DispatchNext \/ StopNext]_vars

(* run_forever polls while a node is healthy, its threads are scheduled,   *)
(* and every HTTP call to a node ends in an answer or a timeout.           *)
Fairness ==
  /\ WF_vars(\E S \in SUBSET Tasks : ClaimTasks(S))
  /\ WF_vars(Assign)
  /\ WF_vars(PassEnds)
  /\ \A t \in Tasks : WF_vars(WorkerNext(t))

FairSpec == FaultlessSpec /\ Fairness

(* The same scheduling while the process may fail and restart.             *)
FairUnstoppedSpec == UnstoppedSpec /\ Fairness

-----------------------------------------------------------------------------
(* Type invariant.  reserved_tokens and used_tokens stay natural numbers:  *)
(* every release is clamped to what is still reserved.                     *)
TypeOK ==
  /\ status \in [Batches -> {"none", "in_progress"} \cup Finished]
  /\ completed \in [Batches -> Nat]
  /\ failed \in [Batches -> Nat]
  /\ outputs \in [Batches -> Nat]
  /\ results \in [Batches -> SUBSET Tasks]
  /\ task \in [Tasks -> {"none", "completed", "failed", "cancelled"}
                          \cup OpenStatus]
  /\ settled \in [Tasks -> Nat]
  /\ budget \in [Users -> [Ledger!Columns -> Nat]]
  /\ overdue \in SUBSET Batches
  /\ pass \in {"idle", "claiming", "running", "dead"}
  /\ picked \in SUBSET Tasks
  /\ worker \in [Tasks -> {"none", "calling", "completed", "failed"}]
  /\ todo \in [Stoppers -> SUBSET Batches]
  /\ current \in [Stoppers -> Batches \cup {NoBatch}]
  /\ stopping \in [Stoppers -> SUBSET Tasks]

(* The work a user's reservation is held for: lines that can still settle  *)
(* in batches that are still in progress.                                  *)
OpenTasks(u) ==
  {t \in Tasks : /\ UserOf(t) = u
                 /\ status[BatchOf[t]] = "in_progress"
                 /\ task[t] \in OpenStatus}

(* Budget is never silently leaked: whatever a user has reserved is held   *)
(* for work that is still open, whoever stops, restarts, retries or fails  *)
(* in between (PLAN.md, token accounting).                                 *)
NoLeak ==
  \A u \in Users : budget[u]["reserved"] <= Weight[OpenTasks(u)]

(* A task is settled, charged or released by its own ledger entry, at most *)
(* once: a restart, a stale cancellation or a resurrected claim never runs *)
(* a line to its end twice.                                                *)
SettledOnce == \A t \in Tasks : settled[t] <= 1

(* request_counts is exactly the number of settled lines: no increment of  *)
(* two workers that settle at once is lost, none is made twice.            *)
CountsAreExact ==
  \A b \in Batches :
    completed[b] + failed[b] = Cardinality({t \in TasksOf(b) : settled[t] > 0})

(* A batch is finalized at most once, when every line has been settled:    *)
(* two last settlements never both write the output file.                  *)
FinalizedOnce ==
  \A b \in Batches :
    /\ outputs[b] <= 1
    /\ outputs[b] > 0 => \A t \in TasksOf(b) : settled[t] > 0

(* Without cancellation and expiry every line of a completed batch is in   *)
(* its output or its error file, across restarts and failing workers.      *)
ResultsComplete ==
  \A b \in Batches : status[b] = "completed" => results[b] = TasksOf(b)

(* Without cancellation and expiry the reservation is exactly that of the  *)
(* open lines, also after crashes and failed transactions.                 *)
ExactReservation ==
  \A u \in Users : budget[u]["reserved"] = Weight[OpenTasks(u)]

(* ledger.py guarantee 2: available_tokens can never go negative; here     *)
(* when no node reports more usage than was reserved for the line.         *)
UsageCapped == \A t \in Tasks : \A n \in UsageOf[t] : n <= Weight[{t}]

Solvent ==
  UsageCapped => \A u \in Users : Ledger!Available(budget[u]) >= 0

(* While the process stays up, every submitted batch reaches a terminal    *)
(* status, however passes, cancellations and expiry interleave.            *)
EveryBatchEnds ==
  \A b \in Batches : status[b] = "in_progress" ~> status[b] \in Finished

(* _maybe_finalize_batch: once every task has reached a terminal state the *)
(* output is written and the batch leaves in_progress.                     *)
SettledIsFinalized ==
  \A b \in Batches :
    (status[b] = "in_progress" /\ \A t \in TasksOf(b) : settled[t] > 0)
      ~> outputs[b] > 0

(* QUICKSTART: cancelling only works while the batch is validating or      *)
(* in_progress; a finished batch stays what it is.                         *)
FinishedIsFinal ==
  [][\A b \in Batches : status[b] = "completed" => status'[b] = "completed"]_vars
=============================================================================
