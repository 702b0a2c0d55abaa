# A TLA+ model of batchsvc

`batchsvc` lets a class of students run batches of chat completions on a few
llama-server nodes, within a token budget per student. This directory models the
ledger, the life of a batch and of its tasks, the dispatcher's claims and its pool of
nodes, the retention job and the files it deletes, accounts, keys and the student
portal, and the checks a request passes first: the login limiter, the LDAP login and
the validation of an input file; with all of them, what crashes, failing transactions and
stale reads do. TLC checks small instances, TLAPS proves the central invariants for any
number of users, batches, tasks, nodes, files, threads and requests, and what the loops
over rows and messages compute for sequences of any length.

Paths below are relative to the repository's `src/batchsvc/`, unless they begin
with `docs/` or `tests/` or name the top-level README.

## 1. The system

| Component | State it keeps | Operations | What makes it correct |
|---|---|---|---|
| Ledger (`ledger.py`) | `budgets` row per user, append-only `ledger_entries`, `_budget_lock` | `grant`, `reserve`, `release`, `charge`, `adjust`, `recompute_budget` | row = replay of the ledger; a reservation only when it fits; locks come back |
| Reconciliation (`routers/admin.py`) | none | `reconcile_budget` | never changes a row that has not drifted |
| Batches (`batch_ops.py`, `routers/batches.py`) | `batches`, `tasks`, file rows | `create_batch`, `cancel_batch`, `expire_batch`, `complete_task`, `fail_task`, finalization | reservations held only for open work, tasks settled once, counters exact, one finalization, complete output |
| Dispatcher (`dispatcher.py`) | `nodes`, in-flight counters, the loop | claim, assign, execute with retries, settle, health checks, recovery at start | fair claims, capacity, every batch ends |
| Retention (`retention.py`) | the loop | expire overdue batches, purge old results | expiry = cancellation; a row names a file that is gone only between a purge's unlink and its (or a later pass's) commit |
| Files (`routers/files.py`, `blobs.py`) | `files` rows, blobs on disk | upload, download, the files of a finalization | no result is lost before its time, nothing is left behind but by faults |
| Accounts and portal (`routers/admin.py`, `deps.py`, `portal/`, `cli.py`) | `users`, `api_keys`, session cookies | create, disable, issue, revoke, rotate, provision at first login | withdrawn credentials open nothing, one allowance per provisioned account, a rotation revokes what was active |
| Login limiter (`portal/routes.py`) | a deque per client address | `allow` | the limit in any minute, nobody refused without cause |
| LDAP login (`ldap_auth.py`) | one connection at a time | `authenticate` in two bind modes | let in whom it is due, tell a wrong password from a directory that is down, unbind |
| Validation (`batch_ops.parse_batch_input`, `tokens.py`) | ids seen | parse, estimate | every line answered once, all lines or none; reservations on the safe side |
| ETA (`eta.py`), metrics, logging, configuration | `dispatch_stats`, counters | reports | advisory |
| Sessions (`db.py`, `deps.get_db`) | SQLite in WAL mode | pragmas, session per request or job | one writer at a time |

### How they interact

Everything meets in SQLite and in `_budget_lock`. HTTP handlers run on threads of
the server, each with a session of its own; the retention pass, the claim and
every settlement run on threads as well (`asyncio.to_thread`). The rules the models
rest on:

* **Reads see the latest commit.** The driver opens a transaction only for an
  UPDATE, INSERT or DELETE, so a SELECT outside one reads what is committed now.
* **The write lock lasts from the first flush to commit or rollback.** Pending
  changes are flushed by the next query of the session (autoflush) or by its
  commit.
* **What a session has read stays as it was.** `expire_on_commit=False`
  (`db.py:37`), no row has a version column, and an UPDATE sets the changed
  columns to the values in memory. Data read before the first flush may be stale
  when it is written, and nothing notices.
* **Blobs are no part of a transaction.** They are written before the commit that
  names them and unlinked before the commit that forgets them.
* **Each ledger call commits** whatever else is pending in the session. That makes
  a submission, a cancellation and a settlement one transaction each; the
  finalization of a batch is a second one.

### Where it is hard

The hazards are listed with their lines in `PROJECT.json`. Those that shape the
models most are: the read-modify-write of a budget row under two locks that callers take in
different orders; queries whose result is used after other transactions have
committed (cancel, expire, claim, reconcile); the gap between the last settlement
and the finalization; a loop that ends for good at the first exception; files and
rows that no transaction joins; and requests that act on credentials read earlier.

## 2. Modules

| Module | Models | |
|---|---|---|
| `TokenLedger` | what `ledger.py` promises: five atomic operations on a row and on the sum of its ledger | abstract specification |
| `LedgerThreads` | `ledger.py` as threads run it, lock by lock | implements `TokenLedger` |
| `Reconcile` | `reconcile_budget` beside those threads | extends `LedgerThreads` |
| `BatchStore` | batches, tasks, settlement, cancellation, expiry, dispatcher passes, failures and restarts | uses `TokenLedger`'s operations |
| `ClaimOrder` | `_claim_tasks`, and passes over a growing queue | |
| `NodePool` | node rows, health, in-flight counters, placement, attempts, configurations | |
| `ResultFiles` | file rows and blobs: upload, finalization, purge, download | |
| `Portal` | accounts, keys, logins, sessions, redirects, rotation, the admin API beside them | |
| `LoginLimiter` | `LoginRateLimiter.allow` as threads run it | |
| `LdapAuth` | one `authenticate` against a directory that may fail anywhere | |
| `InputLines` | `parse_batch_input` and the token estimate | |
| `LedgerThreads_proofs`, `BatchStore_proofs`, `NodePool_proofs`, `ResultFiles_proofs`, `Portal_proofs`, `ClaimOrder_proofs`, `RequestChecks_proofs` | theorems; the last one those of the limiter, the login and the parser | |
| `FoldTheorems` | what sums and folds over sequences are, for the proofs that need induction over data | used by the last two |
| `MC...` | the instances TLC checks; `MCRequestChecks` holds the limiter, the login and the parser, which share no state | |

Operators called *variant* in a comment (`EnterUnlocked`, `LastButOne`, ...) are the
definition below them with a plausible mistake. No specification uses them; each
property is known to fail when one of them takes the definition's place, which
shows that the property says something about that line of the code.

### TokenLedger

`budget[u]` is the `budgets` row, `replay[u]` what `recompute_budget` returns for the
user. Entries are only ever appended and replay is a sum, so the history itself
need not be kept. `ReleaseDelta` and `ChargeDelta` are clamped as `ledger.py:122` and
`:163` clamp them; a charge may use more than it releases (`ledger.py:149-157` says
why), so `Charge` is not guarded by what is available.

### LedgerThreads

One request is one call of `ledger.py` by one thread. Its `pc` runs
`start -> (flushed) -> locked -> read -> committed -> returned`, or to `refusing ->
refused`, `failed` (busy timeout) or `lost` (the process died). `local` is the row it read.

| Action | Code |
|---|---|
| `Flush` | the query in `complete_task`/`fail_task` (`batch_ops.py:311`, `:338`) flushes the task: write lock first |
| `EnterLedger`, `Return` | `with _budget_lock:` |
| `ReadBudget` | `get_or_create_budget`; flushes pending rows of a submission or cancellation, or inserts a missing row: write lock second |
| `Commit` | the UPDATE of the changed columns and the ledger entry, one transaction |
| `Refuse`, `Rollback` | `InsufficientBudgetError`; the session is rolled back only when `get_db` closes it, after the lock is free |
| `BusyTimeout` | `PRAGMA busy_timeout`: only when the two locks are held crosswise does a wait last 20 seconds |
| `Crash` | both locks and every uncommitted row are gone |

`adjust` has no caller in the repository; it is modelled as one more kind of call.
`Ledger == INSTANCE TokenLedger` maps the committed `budget` and `replay` to the abstract
variables, and `LedgerIsAtomic` is the abstract specification as a property.

### Reconcile

`recompute_budget`, the read of the row and the commit are three steps, none of
them under `_budget_lock`. A missing row reads as zeros here: the handler would
create it, with the same values.

### BatchStore

A transaction is one action, with the budget part taken from `TokenLedger`; a
query whose result is used after other commits is an action of its own:

| Actor | Actions | Code |
|---|---|---|
| HTTP handlers | `Grant`, `Submit`, `CancelCheck` | `grant_budget`, `create_batch`, the check in `cancel_batch` |
| cancel request or retention job `s` | `FindOverdue` (retention only), `ReadTasks`, `StopBatch` | `expire_overdue_batches`, the query and the commit of `_terminate_batch` |
| dispatcher | `ClaimTasks`, `Assign`, `PassEnds` | query and commit of `_claim_and_assign`, the end of `gather` |
| worker of task `t` | `CompleteTask`, `FailTask`, `Finalize` | `_settle_task`; the two transactions of `complete_task`/`fail_task` |
| faults | `WorkerError`, `ClaimError`, `StopError`, `Restart` | an exception in each of them; process death and `recover_running_tasks` |

`todo[s]`, `current[s]`, `stopping[s]` are what thread `s` has read and means to act on;
`picked` is the same for the claim. `worker[t]` is `calling` while the node works on
the line, and the outcome once the settlement has decided to finalize. `settled[t]`
counts the ledger entries that settle the line, `outputs[b]` the output files
written. After `WorkerError` or `ClaimError` `pass = "dead"`: `run_forever` has ended and only a
restart brings it back.

Abstractions: a line is its reservation (`Weight`, additive over sets of lines); the
node's answer is a usage from `UsageOf[t]`, or a failure after all attempts;
which tasks a pass claims is open (`ClaimOrder` settles it), and so is the node;
`expires_at` is the step `TimePasses`. `status` never shows `finalizing`, which is set and
overwritten within one transaction, nor `validating`, `cancelling` and `failed`, which nothing sets.

### ClaimOrder

`GroupByUser` is the first loop of `_claim_tasks`, row by row (`AddRow`): the queues per user and
the user order. `ClaimTasks` is the nested loop behind it (`Round`, `TakeOne`). `Pass` removes
what a pass took from the rows the query returns, which are ordered by batch and line
(`StillPending`). The reference the properties compare with (`Reference`, `Place`, `Turn`,
`FirstRow`) knows no loops: it sorts rows by the number of their user's rows before them. Each pass has any free capacity from one slot up.
`ahead[u][v]` counts, for the starvation claim, what `v` was given while `u` waited.

### NodePool

The coroutine `run_forever` and what it does to nodes. `loop` is where it is: `top`,
`polling` (a health poll), `dispatch` (right after it), `placing` (between the claim and its
commit), `running` (in `gather`), `dead`.

| Action | Code |
|---|---|
| `Restart`, `Init` | `sync_nodes_from_config`, then `recover_running_tasks`; counters, clients and workers of the old process are gone |
| `StartPoll`, `AskNode`, `ApplyAnswers` | the query of `health_check_all`, each GET, `_apply_health_results` |
| `Claim`, `Place`, `Assign` | capacity and `_claim_tasks`; one round of the placement loop; the commit, and the counters and workers `dispatch_once` starts |
| `Answer`, `FailAttempt`, `GiveUp`, `Settle` | the attempts of `_execute_task`, the counter given back once, `_settle_task` |
| `PassEnds` | `gather` returns |
| `WorkerError`, `LoopError` | an exception that ends `run_forever`; `WorkerError` in an attempt loses the counter, too |
| `NodeUp`, `NodeDown`, `Submit`, `IntervalPasses` | the world |

`local_capacity` is not a variable: `Room(n)` is the node's slots less its counter less
the placements so far. `FreeSlots` is the set of free slots itself, so that the sum of
the positive capacities is its cardinality. `health` is read during `placing`, which is
the same as at the claim: only this coroutine writes node rows. Consecutive failures
are counted up to the threshold; beyond it nothing distinguishes them. A node that
is up may still fail an attempt; a node that is down answers none. Tasks here are
`pending`, `running` or `done`: cancellation and budgets are in `BatchStore`.

### ResultFiles

`rows` is what table `files` holds, `disk` what `blob_dir` holds, `refs[b]` the columns
`output_file_id` and `error_file_id`. Whoever writes blobs or unlinks them inside a transaction
keeps the write lock (`lock`) from its first flush to its commit; every other transaction is
one action, possible while the lock is free.

| Action | Code |
|---|---|
| `Upload`, `UploadCommit`, `Submit` | `create_file`: blob, then row; `create_batch` reads both |
| `Settle`, `Finalize`, `WriteOutput`, `WriteError`, `FinalizeCommit` | the last settlement's commit, the query that flushes `finalizing`, two blobs, one commit |
| `StopRead`, `StopCommit` | a cancellation or expiry, with the status it read |
| `Age` | `result_retention_days` are over |
| `PurgeBegin`, `PurgeFlush`, `PurgeUnlink`, `PurgeNext`, `PurgeCommit` | `purge_expired_results`: its query, the references of one batch nulled and flushed, its blobs unlinked one by one, one commit for all batches |
| `Lookup`, `Download` | `get_file_content` |
| `WriteFails`, `PurgeFails`, `Restart`, the second half of `PurgeUnlink` | exceptions, process death, an `OSError` that is only logged |

A batch becomes due only when nobody who read it in progress is still at work:
requests and settlements last seconds, the retention time days.

### Portal

A request is `idle` or `at` the step it is about to take, with what it has read (`seen`);
`old` and `barred` record what was true when it arrived: the keys active then, and why
its credentials were not valid. The browser is `cookie` and `page`: the server keeps
no session.

| Action | Code |
|---|---|
| `LoginArrives`, `Lookup`, `Insert`, `Grant`, `SetCookie` | `login_submit` after `authenticate`: `resolve_user` with its two commits, the cookie |
| `Visit`, `Follow`, `Logout`, `Expire` | the redirects of `dashboard`, `login_form`, `logout`; the cookie's lifetime |
| `RotateArrives`, `CheckSession`, `ReadKeys`, `Rotate` | `rotate_api_key`, `regenerate_api_key` |
| `ApiArrives`, `CheckKey`, `CheckUser`, `ApiActs` | `get_current_user` and the handler behind it |
| `CreateArrives`, `CreateUser`, `CreateKey`, `RevokeKey`, `Disable`, `Enable` | the admin API and `cli.py` |
| `Fails` | an exception or the end of the process; only between the two commits of a first login does it leave something behind, so only there it counts as a fault |

### LoginLimiter, LdapAuth, InputLines

`LoginLimiter` is one deque operation per step: `while hits` (`TestHits`), `hits[0]` (`TestHead`),
`popleft` (`PopHead`), the count (`CountHits`), `append` (`AppendHit`), on a clock that ticks
in between. `admitted` keeps every admission for the property; `raced` says whether two calls
ever overlapped.

`LdapAuth` has one action per question to the directory; each may be answered,
raise an `LDAPException`, or fail by its result code, which `ldap3` reports as a plain `False`.
`entry` is what was read of `memberOf`, `open` the connections not unbound yet.

`InputLines` reads a file line by line, any file over `Lines`. A line is its id, the checks it fails by
itself (`flaws`, in the code's order `Checks`), its limit and the lengths of its texts. `Report`,
`Accept` and `Crash` are the three ways round the loop, `EndOfFile` its end.
`estimate_prompt_tokens` is `tokens.py` in lengths: rounding up, separators, overheads.

## 3. Runs

| Run | Question | Result |
|---|---|---|
| `LedgerThreads` | grant, two submissions that do not both fit, a cancellation, a settlement and a correction on one account | `TypeOK`, `DriftFree`, `NoLeakedLock`, `LedgerIsAtomic`, `EveryCallEnds` hold (22,961 states) |
| `Reconcile` | is reconciliation a no-op beside other calls? | no: `DriftFree` is violated |
| `BatchStore` | every order of submission, stops, dispatch, settlement, faults | `TypeOK`, `NoLeak`, `SettledOnce`, `CountsAreExact`, `FinalizedOnce` hold (1,565,303 states) |
| `BatchStoreUnstopped` | the same, faults included, without cancellation and expiry | `ExactReservation`, `Solvent`, `ResultsComplete` hold (8,064 states) |
| `BatchStoreLive` | stops at any moment, no faults | `EveryBatchEnds` holds (394,608 states) |
| `BatchStoreOverrun` | can a stop make a user overspend? | yes: `Solvent` is violated |
| `BatchStoreCrash` | is a settled batch finalized across restarts? | no: `SettledIsFinalized` is violated |
| `ClaimOrder` | do the loops claim by turns? | `ClaimsByTurn`, `FairShare`, `OldestIsTaken` hold (7,672 states) |
| `NodePool` | nodes that fail, are ejected, come back and are reconfigured under load | `TypeOK`, `CountersMatch`, `SlotsRespected`, `EveryClaimFits`, `Levelled`, `RunningIsWorked`, `EjectionIsEarned`, `EveryTaskEnds` hold (92,304 states) |
| `ResultFiles` | faults at any step between blobs and rows, downloads beside a purge | `MissingBlobIsDue`, `RowsAreWhole`, `OrphansAreFaults`, `FailedDownloadWasDue`, `EveryResultPurged` hold (211,879 states) |
| `Portal` | logins, rotations, API requests and administration that overlap | `OneGrant`, `BarredDoesNothing`, `RotationRevokes`, `EveryVisitEnds` hold (1,325,453 states) |
| `RequestChecks` | the limiter with two threads, every login against every directory, every short file | `ExactUnlessRaced`, `DequeBounded`, `VerdictIsDeserved`, `ConnectionsAreUnbound`, `LinesAnswered`, `ReservesEnough` hold (203,425 states) |

`WritersQueue` of `LedgerThreads`, `FinishedIsFinal` of `BatchStore` and `NobodyStarves` of `ClaimOrder` state
what comments and documents promise and the code does not keep. They have no run of
their own: added to the cfg of their module TLC finds each of them violated, with the
histories described below.

### Where code and documents disagree

* **Lock order.** A settlement flushes its task and then waits for `_budget_lock`; a
  submission or cancellation holds `_budget_lock` and waits for the write lock in
  the query of `get_or_create_budget`. Nobody moves for 20 seconds, then one of
  them fails. If it is the settlement, the dispatcher's loop ends with it.
* **Reconciliation** overwrites a reservation committed between its two queries.
* **Double release.** A running task of a cancelled batch is released by the
  cancellation and again by its own settlement. The clamp at `reserved_tokens`
  hides it only when the user has nothing else reserved; otherwise another batch
  loses its reservation and the user can submit more than is left.
* **Crash before finalization.** Nothing looks for a batch whose lines are all
  settled, so it stays `in_progress` until it expires, and has no output file.
* **Stale status.** A cancellation that has passed its check cancels a batch that
  completed meanwhile; its output exists, its status says `cancelled`.
* **Round robin.** Each pass begins with the oldest batch's user. One free slot at a
  time is enough for a large batch to be served alone until it is done.

* **Limiter.** `allow` takes no lock. Two overlapping calls both see room for one attempt,
  or one empties the deque between the other's test and its access (an `IndexError`).
  The deque stays bounded (`DequeBounded`), but not the number of attempts: calls that
  raced pop admissions that are still in the window. `ExactUnlessRaced` is what remains.
* **Two rotations at once** leave two active keys: each revokes what it has read.
* **A directory without an answer** may read as a wrong password: an exception while
  the group is asked, and every result code other than success.
* **A disabled student with a live session** is sent from the dashboard to the login form and
  back for as long as the cookie lives (`Stranded` in `EveryVisitEnds`).
* **Two creations of one user** at once: the second insert violates the unique name after the
  check has passed, a server error instead of a conflict.
* **A message that is no object** passes validation and raises in `tokens.py` (`Crash`).
* **Downloads during a purge** end in a server error instead of a 404 (`FailedDownloadWasDue` says
  that at least no other download does).
* **The command line tool** grants under a `_budget_lock` of its own process.

Two sentences of docs/PLAN.md describe another dispatcher than `NodePool`, which
follows the code: tasks of an ejected node are not moved (lines 127-129; health is polled only
between passes, and every attempt goes to the same node), and placement prefers the
node with the most free slots, not the one with the fewest outstanding tasks (line 127).

### Bounds

* `LedgerThreads`: one account (accounts share only the locks, and two requests on
  different accounts exclude each other like two on one), six requests, at most
  two of a kind. Allowance 3, submissions of 2: the first one fits, the second does
  only after a release. Every kind of call and each of the three session states
  occurs; the proofs cover any number.
* `BatchStore`: two batches of two and one line, each line weighing two tokens, so that a
  double release of one batch can take from the other and a partial settlement
  exists. Usage is one or two tokens (`UsageOf`), half or all of the reservation.
  `GrantLimit` (6) bounds the grants; `Allowances` are 6 at once, 4 in
  `BatchStoreOverrun`, so that the second submission does not fit at first,
  2 and 4 for two users in `BatchStoreUnstopped`. One cancel thread and the retention job stop
  batches; two stale stoppers of one batch already meet. Settlements, finalizations
  and counters need no bound: they are bounded by the tasks, which is a result.
* `ClaimOrder`: three users, two slots, so that users outnumber slots; batches of
  one or three lines, up to `MaxTasks` (6) lines in all.
* `NodePool`: two nodes and two tasks; configurations with two slots and one, with
  one node only, and with a node of no slots, so that tasks outnumber slots and wait
  for another pass. Two attempts and a threshold of two: a first failure that is not the
  last of each. `MaxRestarts` (2): a node is ejected, configured away and back.
* `ResultFiles`: two batches, so that a pass holds the first one's unlinked files while it
  works on the second, one of them with an error file; one download; `MaxFaults` (2): a
  pass that fails midway and then a failing unlink, or a restart, in the next.
* `Portal`: one student (nothing relates two but unique names), two requests at a time, three
  keys, so that two rotations meet with a key to revoke; `MaxFaults` (1).
* `RequestChecks`: the limiter with two threads, a limit of two, a window of two ticks on a
  clock of five readings: attempts exactly as old as the window, and whole windows after one.
  `LdapAuth` is finite: all three values of `bind_mode`, every login. Files of up to four lines
  of eight kinds: ids shared by sound and flawed lines, two flaws at once, limits given and
  not. Each of the three machines runs while the others are at rest, for they share no state.

### Fairness

`LedgerThreads` assumes weak fairness of each request's steps: a thread that can run is
run, and a busy timeout expires. `BatchStoreLive` assumes it for the claim, its
commit, the end of a pass and each worker: `run_forever` polls as long as it lives,
a node with capacity is healthy, and every HTTP call ends (`llama_client.py` sets a
timeout). No fairness is assumed of users, of time or of the retention job, and in
that run no transaction fails and the process stays up: after an exception the
dispatcher is gone and the property would not hold. `BatchStoreCrash` uses the same
fairness with faults allowed, so the counterexample is not a system that just stops.
`NodePool` assumes weak fairness of the loop, of each worker and of the poll interval, with
exceptions, restarts and failing nodes allowed. `EveryTaskEnds` is conditional on what the
service cannot promise by itself: that some configured node stays up, and that
the loop does not stay dead. Restarts are finitely many.
`ResultFiles` assumes weak fairness of the purge's steps and of each finalization's: `run_once` is
called again after every pass, also one that failed, and a thread runs on to its commit.
Faults are finitely many there, so one pass in the end gets through. `Portal` assumes
only that a browser follows the redirects it is sent.
`CHECK_DEADLOCK FALSE` appears where faults are left out: without a restart the system
stops when all batches have ended; in `ResultFiles` when everything is purged and the faults
are used up, in `RequestChecks` at the end of a file, of a login and of the clock.

## 4. Proofs

The modules `..._proofs` are checked by TLAPS for all values of the constants that satisfy the
named assumptions.

**LedgerThreads** (`RequestsAssumption`: amounts are natural numbers, each call is well
typed, grants, reservations and releases are positive). The inductive invariant says
who owns which lock at each `pc` (`BudgetLockOwner`, `DbLockOwner`), and that the row a
request has read inside the `with` block still is the committed row: no other
request can commit while it owns `_budget_lock`. From the latter a commit
writes what `TokenLedger` would (`WrittenIsPlus`), although it sets absolute values.

* `TypeCorrect`, `NoDrift`, `LocksAreReturned`: `TypeOK`, `DriftFree`, `NoLeakedLock` always hold.
* `Refinement`: `Spec => LedgerIsAtomic`: a commit is one abstract operation, every other step
  stutters. It is what allows `BatchStore` to use the atomic operations.

**BatchStore** (`StructureAssumption`, `WeightAssumption`, `AmountsAssumption`: tasks are
finitely many, no batch is empty, reservations add up and are positive, as
`parse_batch_input` guarantees: an empty file is refused and `max_tokens` is positive).
The inductive invariant relates what threads have read to what is committed: a
task that a worker calls is running or has been stopped, settled tasks have
no worker that will settle them again, the tasks a stopper or the claim holds
are of its batch and not completed by a later life of the process, and a batch
with a settlement still to finalize has all its lines settled.

* `TypeCorrect`, `ReservationsAreReturned` (`NoLeak`), `SettlementsAreUnique` (`SettledOnce`),
  `CountersCountSettlements` (`CountsAreExact`), `OneFinalization` (`FinalizedOnce`).

For `UnstoppedSpec`, where nobody cancels and nothing expires, `UnstoppedInv` adds that no line is
cancelled and that a completed batch has all its lines settled. A line that settles
then belongs to a batch in progress, its reservation is part of what its owner
has reserved, and the clamp at `reserved_tokens` never bites.

* `ReservationsAreExact` (`ExactReservation`), `NobodyOverspends` (`Solvent`), `CompletedIsReported` (`ResultsComplete`).

**NodePool** (`NodesAssumption`, `SettingsAssumption`: finitely many nodes and tasks,
configurations with natural slot counts, at least one attempt, a positive threshold).
The invariant separates the phases of the loop: workers run only in `running` and
`dead`, so node rows and claims change only when nothing is in flight; the row
of a configured node has the slots of this configuration, and the others
are neither healthy nor asked. `EveryClaimFits` is proved by the set of free slots: a
placement takes exactly one out of it.

* `TypeCorrect`, `CountersAreExact` (`CountersMatch`), `CapacityIsKept` (`SlotsRespected`), `NoTaskIsForgotten`
  (`RunningIsWorked`), `ClaimsFit` (`EveryClaimFits`), `PlacementLevels` (`Levelled`),
  `EjectionFollowsFailures` (`EjectionIsEarned`).

**ResultFiles** (`FilesAssumption`). The invariant separates who may touch which blob: a finalization
writes blobs of a batch that is not due, a purge unlinks those of batches that are,
and the owner of the write lock is the one of them that has not committed yet.

* `NoResultIsLost` (`MissingBlobIsDue`), `RowsStayWhole` (`RowsAreWhole`), `NoFaultNoOrphan` (`OrphansAreFaults`),
  `DownloadsFailLate` (`FailedDownloadWasDue`), and `TypeCorrect`.

**Portal** (`PortalAssumption`). The pending grant of an account belongs to the one insert that
succeeded; a barred request never gets past the check that bars it, for what bars it
is withdrawn only by `Enable`; and every key a rotation has to revoke is revoked already
or among those it will read or has read.

* `GrantsAreUnique` (`OneGrant`), `BarredAreRefused` (`BarredDoesNothing`), `RotationsRevoke` (`RotationRevokes`), `TypeCorrect`.

**LdapAuth** (no assumption). The invariant says what each question answered so far has
established, and which connection is open where.

* `VerdictsAreDeserved` (`VerdictIsDeserved`), `ConnectionsEnd` (`ConnectionsAreUnbound`), `LoginTypes`.

**LoginLimiter** (`LimiterAssumption`: a positive limit, any window, finitely many threads). Without
a race the deque is the end of the sequence of admissions, in the order of time, and
those before it are stale. With races only the room each thread has seen is counted.

* `DequeStaysBounded` (`DequeBounded`), `ExactWhenAlone` (`ExactUnlessRaced`), `LimiterTypes`.

**InputLines** (`LinesAssumption`). The ids seen are those of the flawless lines read so far, and the
lines answered are the lines read, but for one that crashes the parser. Lemmas say
what appending a line does to the sets of sound lines and of ids.

* `LinesAreAnswered` (`LinesAnswered`), for files of any length.
* `ReservationsCover` (`ReservesEnough`), for any number of messages, of parts in them and of characters
  in those. A second invariant (`Reserved`) says that an accepted line reserves what
  `estimate_prompt_tokens` says of the line with its index; `EstimateCovers` then compares two
  sums over the messages term by term: a part's length, rounded up to whole tokens after
  the separators are added, is at least the length itself.
* `InputTypes`: what the estimate adds up is a natural number, and outputs are positive.

**ClaimOrder** (`SizesAssumption`), for any set of users, any queue and any limit. No step of the
system matters here, only the loops do; the invariants are those of the loops:

* after `k` rows the queue of a user holds, at place `t`, the row of that user with `t - 1` others
  before it (`Queued`), and the user order has the users of these rows, each once, by their first
  rows (`Ordered`);
* after `r` whole rounds and `p` users of the next one, the rows claimed are those with
  a lower turn than `r`, or with turn `r` and of one of the first `p` users (`Taken`), each at its
  `Place`, cut off at the limit (`Placed`), and until the limit is reached the queues hold the
  rest (`RestOf`). `Even` holds also beyond it: there is a number of tasks such that every user has
  been given that many, or one more, or all there were.

When the loops end every row is taken or the limit is reached, which is the reference.

* `ClaimedByTurn` (`ClaimsByTurn`), `SharesAreFair` (`FairShare`), `OldestFirst` (`OldestIsTaken`), `PendingAreRows`.

**FoldTheorems** is what makes these two possible. The library's theorems on induction and on
recursive definitions take the property or the definition as an operator, which
no installed prover can instantiate. They are restated here for sets and functions, from
the one library theorem that takes none: every set of numbers has a least element
(`LeastNumber`, `UpTo`, `SubsetsOf`). `FoldExists` shows that the recursive function inside the fold of the
community modules exists, `LoopUnfolds` that the fold of a sequence is the last of a sequence of
states, each made from the one before by the body of the loop: an invariant of the loop
is then carried along these states by `UpTo`. `SumsExist` and `SumIsNatural` do the same for sums.

**Only model-checked:** the liveness properties (`EveryCallEnds`, `EveryBatchEnds`, `EveryTaskEnds`,
`EveryResultPurged`, `EveryVisitEnds`), outside the prover's reach as is `ENABLED`. Every invariant of a
passing run, every action property and the refinement are theorems.

## 5. Not modelled

* **ETA** (`eta.py`): floating-point averages for a status reply. Its one write happens inside a
  settlement, under the settlement's write lock.
* **Templates, listings, schemas, metrics, logging, configuration**: reports and formats over the same
  rows; what matters of the settings is a constant of some module.
* **HTTP to nodes and to the directory**: an answer, a failure or an exception; headers, TLS and
  bodies are not modelled.
* **The command line tool's grant**: its process has a `_budget_lock` of its own; `LedgerThreads` says
  what holds for one process, as `ledger.py:19` does. Its accounts and keys are in `Portal`.
* **Load test, stub node, deployment**: tools around the service.

SQLite itself is trusted to be a database: its lock and its rollback are assumptions of
the model. `components` in `PROJECT.json` says the same part by part.

## 6. Plan

1. A lock per process in `LedgerThreads`, for the grants of the command line tool: the columns
   `reserved` and `used` should be out of its reach, for an UPDATE writes only what changed.
2. `ResultFiles` composed with `Portal`'s requests: a download of a user disabled meanwhile.
