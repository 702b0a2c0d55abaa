------------------------------ MODULE NodePool ------------------------------
(***************************************************************************)
(* The dispatcher's node pool: node rows and their health, in-flight       *)
(* counters, placement of claimed tasks, and the attempts of every task.   *)
(*                                                                         *)
(* run_forever is one coroutine: a health poll when it is due, then a      *)
(* pass of claim, placement and workers.  The workers run side by side     *)
(* until all of them are done; the nodes go up and down meanwhile.  Only   *)
(* this coroutine and the start of the process write node rows.            *)
(*                                                                         *)
(* Budgets, batches and their cancellation are BatchStore's; here a task   *)
(* is pending, running or done.  ClaimOrder says which tasks are claimed.  *)
(***************************************************************************)
EXTENDS Integers, FiniteSets

CONSTANTS
  Nodes,         \* names of llama-server nodes
  Tasks,         \* tasks that may be submitted
  Configs,       \* settings.nodes a process may be started with: each a
                 \* function from some nodes to their parallel_slots
  MaxAttempts,   \* max(1, settings.task_max_attempts)
  Threshold,     \* settings.node_unhealthy_threshold
  MaxRestarts,   \* bound: how often the process is restarted
  NoNode         \* a task without a node

VARIABLES
  config,        \* settings.nodes of this process
  up,            \* nodes whose /health answers 200
  health,        \* nodes.health ("none": no row)
  failures,      \* nodes.consecutive_failures, counted up to Threshold
  slots,         \* nodes.parallel_slots
  inFlight,      \* Dispatcher._in_flight
  due,           \* health_check_interval_seconds have passed
  loop,          \* where run_forever is
  answers,       \* health_check_all: the nodes to ask, and their answers
  claimed,       \* _claim_and_assign: the tasks it took,
  plan,          \*   and the nodes it has given them
  task,          \* tasks.status ("done": completed or failed)
  worker,        \* _execute_task of each task,
  node,          \*   the node it calls (tasks.node_name),
  tries,         \*   and its failed attempts
  restarts       \* how often the process was restarted

nodeVars == <<config, health, failures, slots>>
pollVars == <<due, answers>>
planVars == <<claimed, plan>>
workVars == <<inFlight, task, node, worker, tries>>
vars == <<nodeVars, up, pollVars, loop, planVars, workVars, restarts>>

ASSUME NodesAssumption ==
  /\ IsFiniteSet(Nodes)
  /\ IsFiniteSet(Tasks)
  /\ NoNode \notin Nodes
  /\ \A c \in Configs : DOMAIN c \subseteq Nodes /\ c \in [DOMAIN c -> Nat]

ASSUME SettingsAssumption ==
  /\ MaxAttempts \in Nat \ {0}
  /\ Threshold \in Nat \ {0}
  /\ MaxRestarts \in Nat

-----------------------------------------------------------------------------
(* The start of a process: sync_nodes_from_config, recover_running_tasks.  *)

(* Node rows after the upsert.  A row that was disabled and is configured  *)
(* again starts over as healthy; other rows keep their health.             *)
SyncedHealth(c) ==
  [n \in Nodes |->
    CASE n \in DOMAIN c /\ health[n] \in {"none", "disabled"} -> "healthy"
      [] n \notin DOMAIN c /\ health[n] # "none" -> "disabled"
      [] OTHER -> health[n]]

(* Variant: it starts over with the failures it had.                       *)
FailuresKept(c) == failures

SyncedFailures(c) ==
  [n \in Nodes |->
    IF n \in DOMAIN c /\ health[n] = "disabled" THEN 0 ELSE failures[n]]

(* Variant: only new rows get the configured slots.                        *)
SlotsKept(c) ==
  [n \in Nodes |->
    IF n \in DOMAIN c /\ health[n] = "none" THEN c[n] ELSE slots[n]]

SyncedSlots(c) == [n \in Nodes |-> IF n \in DOMAIN c THEN c[n] ELSE slots[n]]

(* Variant: tasks found running are left alone.                            *)
NothingRecovered == task

(* recover_running_tasks.                                                  *)
Recovered ==
  [t \in Tasks |-> IF task[t] = "running" THEN "pending" ELSE task[t]]

Init ==
  /\ config \in Configs
  /\ up \in SUBSET Nodes
  /\ health = [n \in Nodes |-> IF n \in DOMAIN config THEN "healthy" ELSE "none"]
  /\ failures = [n \in Nodes |-> 0]
  /\ slots = [n \in Nodes |-> IF n \in DOMAIN config THEN config[n] ELSE 0]
  /\ inFlight = [n \in Nodes |-> 0]
  /\ due = TRUE
  /\ loop = "top"
  /\ answers = [n \in Nodes |-> "none"]
  /\ claimed = {}
  /\ plan = [t \in Tasks |-> NoNode]
  /\ task = [t \in Tasks |-> "none"]
  /\ worker = [t \in Tasks |-> "none"]
  /\ node = [t \in Tasks |-> NoNode]
  /\ tries = [t \in Tasks |-> 0]
  /\ restarts = 0

(* The process dies and starts again, perhaps with another configuration.  *)
Restart(c) ==
  /\ restarts < MaxRestarts
  /\ restarts' = restarts + 1
  /\ config' = c
  /\ health' = SyncedHealth(c)
  /\ failures' = SyncedFailures(c)
  /\ slots' = SyncedSlots(c)
  /\ inFlight' = [n \in Nodes |-> 0]
  /\ due' = TRUE
  /\ loop' = "top"
  /\ answers' = [n \in Nodes |-> "none"]
  /\ claimed' = {}
  /\ plan' = [t \in Tasks |-> NoNode]
  /\ task' = Recovered
  /\ worker' = [t \in Tasks |-> "none"]
  /\ node' = [t \in Tasks |-> NoNode]
  /\ tries' = [t \in Tasks |-> 0]
  /\ UNCHANGED up

-----------------------------------------------------------------------------
(* The world around the dispatcher.                                        *)

NodeUp(n) ==
  /\ n \notin up
  /\ up' = up \cup {n}
  /\ UNCHANGED <<nodeVars, pollVars, loop, planVars, workVars, restarts>>

NodeDown(n) ==
  /\ n \in up
  /\ up' = up \ {n}
  /\ UNCHANGED <<nodeVars, pollVars, loop, planVars, workVars, restarts>>

Submit(t) ==
  /\ task[t] = "none"
  /\ task' = [task EXCEPT ![t] = "pending"]
  /\ UNCHANGED <<nodeVars, up, pollVars, loop, planVars, inFlight, node, worker,
                 tries, restarts>>

IntervalPasses ==
  /\ ~due
  /\ due' = TRUE
  /\ UNCHANGED <<nodeVars, up, loop, answers, planVars, workVars, restarts>>

-----------------------------------------------------------------------------
(* health_check_all.                                                       *)

(* Variant: ejected nodes are not asked again.                             *)
NotEjected == {n \in Nodes : health[n] = "healthy"}

(* The query for the nodes to ask.                                         *)
Polled == {n \in Nodes : health[n] \in {"healthy", "unhealthy"}}

StartPoll ==
  /\ loop = "top"
  /\ due
  /\ loop' = "polling"
  /\ answers' = [n \in Nodes |-> IF n \in Polled THEN "awaited" ELSE "none"]
  /\ UNCHANGED <<nodeVars, up, due, planVars, workVars, restarts>>

(* One GET /health; a timeout or any error is a no.                        *)
AskNode(n) ==
  /\ loop = "polling"
  /\ answers[n] = "awaited"
  /\ answers' = [answers EXCEPT ![n] = IF n \in up THEN "yes" ELSE "no"]
  /\ UNCHANGED <<nodeVars, up, due, loop, planVars, workVars, restarts>>

CountedFailures(n) ==
  CASE answers[n] = "yes" -> 0
    [] answers[n] = "no" /\ failures[n] < Threshold -> failures[n] + 1
    [] OTHER -> failures[n]

(* _apply_health_results, when every node has been asked.                  *)
ApplyAnswers ==
  /\ loop = "polling"
  /\ \A n \in Nodes : answers[n] # "awaited"
  /\ failures' = [n \in Nodes |-> CountedFailures(n)]
  /\ health' = [n \in Nodes |->
       CASE answers[n] = "yes" -> "healthy"
         [] answers[n] = "no" /\ CountedFailures(n) >= Threshold -> "unhealthy"
         [] OTHER -> health[n]]
  /\ answers' = [n \in Nodes |-> "none"]
  /\ due' = FALSE
  /\ loop' = "dispatch"
  /\ UNCHANGED <<config, up, slots, planVars, workVars, restarts>>

-----------------------------------------------------------------------------
(* dispatch_once: claim, placement, commit.                                *)

Healthy == {n \in Nodes : health[n] = "healthy"}

Placed(n) == {t \in claimed : plan[t] = n}

Unplaced == {t \in claimed : plan[t] = NoNode}

(* local_capacity: what the placements so far have left of a node.         *)
Room(n) == slots[n] - inFlight[n] - Cardinality(Placed(n))

(* The slots of healthy nodes still free; a negative capacity counts as 0. *)
FreeSlots == UNION {{n} \X (1..Room(n)) : n \in Healthy}

Pending == {t \in Tasks : task[t] = "pending"}

(* run_forever has not been told to poll, or has just done so.             *)
Dispatching == loop = "dispatch" \/ (loop = "top" /\ ~due)

(* Variant: every pending task is claimed.                                 *)
ClaimAll == Cardinality(Pending)

(* _claim_tasks takes as many tasks as there are free slots, or all.       *)
ClaimSize ==
  IF Cardinality(Pending) <= Cardinality(FreeSlots)
  THEN Cardinality(Pending)
  ELSE Cardinality(FreeSlots)

(* With nothing to claim the loop goes on to its next round.               *)
Claim(S) ==
  /\ Dispatching
  /\ S \subseteq Pending
  /\ Cardinality(S) = ClaimSize
  /\ claimed' = S
  /\ loop' = IF S = {} THEN "top" ELSE "placing"
  /\ UNCHANGED <<nodeVars, up, pollVars, plan, workVars, restarts>>

(* Variant: any node with room will do.                                    *)
PlaceAnywhere(t, n) ==
  /\ loop = "placing"
  /\ t \in Unplaced
  /\ n \in Healthy
  /\ Room(n) > 0
  /\ plan' = [plan EXCEPT ![t] = n]
  /\ UNCHANGED <<nodeVars, up, pollVars, loop, claimed, workVars, restarts>>

(* The loop over the claimed tasks: the node with the most room gets the   *)
(* next one.                                                               *)
Place(t, n) ==
  /\ loop = "placing"
  /\ t \in Unplaced
  /\ n \in Healthy
  /\ \A m \in Healthy : Room(m) <= Room(n)
  /\ Room(n) > 0
  /\ plan' = [plan EXCEPT ![t] = n]
  /\ UNCHANGED <<nodeVars, up, pollVars, loop, claimed, workVars, restarts>>

(* The commit, when every task has a node or no node has room ("shouldn't  *)
(* happen"); then dispatch_once counts the assignments and starts them.    *)
Assign ==
  LET assigned == claimed \ Unplaced IN
  /\ loop = "placing"
  /\ ~ \E t \in Unplaced, n \in Healthy : Room(n) > 0
  /\ loop' = "running"
  /\ task' = [t \in Tasks |-> IF t \in assigned THEN "running" ELSE task[t]]
  /\ node' = [t \in Tasks |-> IF t \in assigned THEN plan[t] ELSE node[t]]
  /\ inFlight' = [n \in Nodes |-> inFlight[n] + Cardinality(Placed(n))]
  /\ worker' = [t \in Tasks |-> IF t \in assigned THEN "calling" ELSE worker[t]]
  /\ claimed' = {}
  /\ plan' = [t \in Tasks |-> NoNode]
  /\ UNCHANGED <<nodeVars, up, pollVars, tries, restarts>>

(* gather returns when every worker has.                                   *)
PassEnds ==
  /\ loop = "running"
  /\ \A t \in Tasks : worker[t] = "none"
  /\ loop' = "top"
  /\ UNCHANGED <<nodeVars, up, pollVars, planVars, workVars, restarts>>

-----------------------------------------------------------------------------
(* _execute_task.                                                          *)

LeaveNode(t) ==
  inFlight' = [inFlight EXCEPT ![node[t]] = IF @ > 0 THEN @ - 1 ELSE 0]

(* The node answers with a completion.                                     *)
Answer(t) ==
  /\ worker[t] = "calling"
  /\ node[t] \in up
  /\ worker' = [worker EXCEPT ![t] = "settling"]
  /\ LeaveNode(t)
  /\ UNCHANGED <<nodeVars, up, pollVars, loop, planVars, task, node, tries,
                 restarts>>

(* Variants: there is no last attempt, and every failed attempt gives the  *)
(* slot back.                                                              *)
RetryForever(t) ==
  /\ worker[t] = "calling"
  /\ tries' = [tries EXCEPT ![t] = @ + 1]
  /\ UNCHANGED <<nodeVars, up, pollVars, loop, planVars, inFlight, task, node,
                 worker, restarts>>

LeaveAndRetry(t) ==
  /\ worker[t] = "calling"
  /\ tries[t] + 1 < MaxAttempts
  /\ tries' = [tries EXCEPT ![t] = @ + 1]
  /\ LeaveNode(t)
  /\ UNCHANGED <<nodeVars, up, pollVars, loop, planVars, task, node, worker,
                 restarts>>

(* NodeRequestError: a refusal, an error status or a timeout.  The same    *)
(* node is tried again after a while, up or down, healthy or not.          *)
FailAttempt(t) ==
  /\ worker[t] = "calling"
  /\ tries[t] + 1 < MaxAttempts
  /\ tries' = [tries EXCEPT ![t] = @ + 1]
  /\ UNCHANGED <<nodeVars, up, pollVars, loop, planVars, inFlight, task, node,
                 worker, restarts>>

(* The last attempt fails.                                                 *)
GiveUp(t) ==
  /\ worker[t] = "calling"
  /\ tries[t] + 1 = MaxAttempts
  /\ tries' = [tries EXCEPT ![t] = @ + 1]
  /\ worker' = [worker EXCEPT ![t] = "settling"]
  /\ LeaveNode(t)
  /\ UNCHANGED <<nodeVars, up, pollVars, loop, planVars, task, node, restarts>>

WorkerStops(t) ==
  /\ worker' = [worker EXCEPT ![t] = "none"]
  /\ node' = [node EXCEPT ![t] = NoNode]
  /\ tries' = [tries EXCEPT ![t] = 0]

(* _settle_task.                                                           *)
Settle(t) ==
  /\ worker[t] = "settling"
  /\ task' = [task EXCEPT ![t] = "done"]
  /\ WorkerStops(t)
  /\ UNCHANGED <<nodeVars, up, pollVars, loop, planVars, inFlight, restarts>>

-----------------------------------------------------------------------------
(* Exceptions.  Nothing catches them in run_forever, and nothing restarts  *)
(* it; the other workers go on.                                            *)

(* An attempt raises something else than NodeRequestError, or the          *)
(* settlement fails.  In the first case the counter is not given back.     *)
WorkerError(t) ==
  /\ worker[t] # "none"
  /\ WorkerStops(t)
  /\ loop' = "dead"
  /\ UNCHANGED <<nodeVars, up, pollVars, planVars, inFlight, task, restarts>>

(* A poll or a claim fails; its transaction is rolled back.                *)
LoopError ==
  /\ loop \in {"polling", "placing"}
  /\ loop' = "dead"
  /\ answers' = [n \in Nodes |-> "none"]
  /\ claimed' = {}
  /\ plan' = [t \in Tasks |-> NoNode]
  /\ UNCHANGED <<nodeVars, up, due, workVars, restarts>>

-----------------------------------------------------------------------------

WorldNext ==
  \/ \E n \in Nodes : NodeUp(n) \/ NodeDown(n)
  \/ \E t \in Tasks : Submit(t)
  \/ \E c \in Configs : Restart(c)

LoopNext ==
  \/ StartPoll
  \/ \E n \in Nodes : AskNode(n)
  \/ ApplyAnswers
  \/ \E S \in SUBSET Tasks : Claim(S)
  \/ \E t \in Tasks, n \in Nodes : Place(t, n)
  \/ Assign
  \/ PassEnds

WorkerNext(t) == Answer(t) \/ FailAttempt(t) \/ GiveUp(t) \/ Settle(t)

ErrorNext == LoopError \/ \E t \in Tasks : WorkerError(t)

Next ==
  \/ WorldNext
  \/ IntervalPasses
  \/ LoopNext
  \/ \E t \in Tasks : WorkerNext(t)
  \/ ErrorNext

Spec == Init /\ [][Next]_vars

(* The loop and its workers are scheduled while they live, every HTTP call *)
(* ends, and time passes.  Nothing is assumed of nodes, users, exceptions  *)
(* or the process, which is restarted at most MaxRestarts times.           *)
FairSpec ==
  /\ Spec
  /\ WF_vars(IntervalPasses)
  /\ WF_vars(LoopNext)
  /\ \A t \in Tasks : WF_vars(WorkerNext(t))

-----------------------------------------------------------------------------

Calls(n) == {t \in Tasks : worker[t] = "calling" /\ node[t] = n}

(* Type invariant.                                                         *)
TypeOK ==
  /\ config \in Configs
  /\ up \in SUBSET Nodes
  /\ health \in [Nodes -> {"none", "healthy", "unhealthy", "disabled"}]
  /\ failures \in [Nodes -> 0..Threshold]
  /\ slots \in [Nodes -> Nat]
  /\ inFlight \in [Nodes -> Nat]
  /\ due \in BOOLEAN
  /\ loop \in {"top", "polling", "dispatch", "placing", "running", "dead"}
  /\ answers \in [Nodes -> {"none", "awaited", "yes", "no"}]
  /\ claimed \in SUBSET Tasks
  /\ plan \in [Tasks -> Nodes \cup {NoNode}]
  /\ task \in [Tasks -> {"none", "pending", "running", "done"}]
  /\ node \in [Tasks -> Nodes \cup {NoNode}]
  /\ worker \in [Tasks -> {"none", "calling", "settling"}]
  /\ tries \in [Tasks -> 0..MaxAttempts]
  /\ restarts \in 0..MaxRestarts

(* The in-flight counter of a node is the number of tasks it works on,     *)
(* whichever of them are retried, fail or settle first; once the loop has  *)
(* died it may only be too high (dispatcher.py, module comment).           *)
CountersMatch ==
  \A n \in Nodes :
    /\ inFlight[n] >= Cardinality(Calls(n))
    /\ loop # "dead" => inFlight[n] = Cardinality(Calls(n))

ConfiguredSlots(n) == IF n \in DOMAIN config THEN config[n] ELSE 0

(* No node is sent more tasks at once than this process is configured for, *)
(* and none that is not configured gets any, across passes, retries,       *)
(* health changes and restarts with another configuration.                 *)
SlotsRespected == \A n \in Nodes : Cardinality(Calls(n)) <= ConfiguredSlots(n)

(* dispatcher.py:230 "shouldn't happen (claimed <= total_capacity)": a     *)
(* claimed task always finds a node with room.                             *)
EveryClaimFits ==
  loop = "placing" => Cardinality(Unplaced) <= Cardinality(FreeSlots)

(* Placement levels the free slots: no node is given a task while another  *)
(* healthy one has more room.                                              *)
Levelled ==
  loop = "placing" =>
    \A n, m \in Healthy : Placed(n) # {} => Room(m) <= Room(n) + 1

(* While the loop lives, a running task has a worker, and only a running   *)
(* task has one: none is forgotten, none is worked on twice.               *)
RunningIsWorked ==
  \A t \in Tasks :
    /\ worker[t] # "none" => task[t] = "running" /\ node[t] # NoNode
    /\ task[t] = "running" /\ loop # "dead" => worker[t] # "none"

(* A node that is configured is unhealthy exactly when it has failed its   *)
(* last Threshold health checks, whatever was configured before.           *)
EjectionIsEarned ==
  \A n \in DOMAIN config :
    /\ health[n] \in {"healthy", "unhealthy"}
    /\ health[n] = "unhealthy" <=> failures[n] = Threshold

(* A node that stays configured, with slots, and up.                       *)
Serving(n) == n \in up /\ ConfiguredSlots(n) > 0

(* If some node stays up and the loop does not stay dead, every task is    *)
(* settled, however the other nodes fail, however often that node was      *)
(* ejected before, and whatever was lost in earlier processes.             *)
EveryTaskEnds ==
  (<>[](loop # "dead") /\ \E n \in Nodes : <>[]Serving(n)) =>
    \A t \in Tasks : task[t] = "pending" ~> task[t] = "done"
=============================================================================
