----------------------------- MODULE ResultFiles -----------------------------
(***************************************************************************)
(* The files of a batch: rows of the table files, and blobs in blob_dir    *)
(* that the rows name.  The two stores share no transaction.  An upload    *)
(* and a finalization write the blob before they commit the row, the       *)
(* retention job unlinks blobs before it commits the deletion of their     *)
(* rows, and any of them may fail, or the process end, in between.         *)
(*                                                                         *)
(* A file is the input, output or error file of one batch.  SQLite's write *)
(* lock is held from a transaction's first flush to its commit, which a    *)
(* single action is unless it writes blobs or unlinks them meanwhile: the  *)
(* finalization and the purge hold lock across their steps.                *)
(***************************************************************************)
EXTENDS Naturals, FiniteSets

CONSTANTS
  Batches,
  WithErrors,   \* the batches some line of which fails
  Readers,      \* threads that handle GET /v1/files/{id}/content
  MaxFaults,    \* bound: exceptions, failing unlinks and restarts
  NoOne         \* nobody has the write lock

ASSUME FilesAssumption ==
  /\ IsFiniteSet(Batches)
  /\ WithErrors \subseteq Batches
  /\ MaxFaults \in Nat
  /\ NoOne \notin Batches \cup {"purge"}
  /\ "purge" \notin Batches

VARIABLES
  rows,         \* committed rows of files
  disk,         \* blobs in blob_dir
  status,       \* batches.status ("none": no row yet)
  refs,         \* output_file_id and error_file_id
  purged,       \* batches whose purged_at is set
  due,          \* batches finished result_retention_days ago
  writing,      \* where an upload or a finalization is
  stopping,     \* batches a cancellation or expiry has read in progress
  purge,        \* the retention job's pass
  lock,         \* who has SQLite's write lock
  reading,      \* downloads
  faults        \* faults so far

storeVars == <<rows, disk, status, refs, purged>>
vars == <<storeVars, due, writing, stopping, purge, lock, reading, faults>>

Input(b) == <<b, "input">>
Output(b) == <<b, "output">>
Error(b) == <<b, "error">>
Files == Batches \X {"input", "output", "error"}

ResultsOf(b) == {Output(b)} \cup (IF b \in WithErrors THEN {Error(b)} ELSE {})

Terminal == {"completed", "cancelled", "expired"}

Idle == [at |-> "idle", todo |-> {}, done |-> {}, unlink |-> {}]

NoFile == [at |-> "idle", file |-> NoOne]

TypeOK ==
  /\ rows \subseteq Files /\ disk \subseteq Files
  /\ status \in [Batches -> {"none", "in_progress"} \cup Terminal]
  /\ refs \in [Batches -> SUBSET Files]
  /\ purged \subseteq Batches /\ due \subseteq Batches
  /\ writing \in [Batches -> {"upload", "uploaded", "idle", "settled", "output",
                              "error", "commit", "over"}]
  /\ stopping \subseteq Batches
  /\ purge \in [at : {"idle", "next", "unlink"}, todo : SUBSET Batches,
                done : SUBSET Batches, unlink : SUBSET Files]
  /\ lock \in Batches \cup {"purge", NoOne}
  /\ reading \in [Readers -> [at : {"idle", "found", "sent", "failed"},
                              file : Files \cup {NoOne}]]
  /\ faults \in 0..MaxFaults

Init ==
  /\ rows = {} /\ disk = {}
  /\ status = [b \in Batches |-> "none"]
  /\ refs = [b \in Batches |-> {}]
  /\ purged = {} /\ due = {}
  /\ writing = [b \in Batches |-> "upload"]
  /\ stopping = {}
  /\ purge = Idle
  /\ lock = NoOne
  /\ reading = [r \in Readers |-> NoFile]
  /\ faults = 0

Fault == faults < MaxFaults /\ faults' = faults + 1

(* create_file writes the blob of an uploaded input and commits its row.   *)
Upload(b) ==
  /\ writing[b] = "upload"
  /\ disk' = disk \cup {Input(b)}
  /\ writing' = [writing EXCEPT ![b] = "uploaded"]
  /\ UNCHANGED <<rows, status, refs, purged, due, stopping, purge, lock, reading, faults>>

UploadCommit(b) ==
  /\ writing[b] = "uploaded" /\ lock = NoOne
  /\ rows' = rows \cup {Input(b)}
  /\ writing' = [writing EXCEPT ![b] = "idle"]
  /\ UNCHANGED <<disk, status, refs, purged, due, stopping, purge, lock, reading, faults>>

(* POST /v1/batches: the input is looked up, read and parsed, and one      *)
(* commit creates the batch and its tasks.                                 *)
Submit(b) ==
  /\ status[b] = "none" /\ Input(b) \in rows /\ Input(b) \in disk
  /\ lock = NoOne
  /\ status' = [status EXCEPT ![b] = "in_progress"]
  /\ UNCHANGED <<rows, disk, refs, purged, due, writing, stopping, purge, lock, reading, faults>>

(* The last settlement of a batch commits and finds the batch in progress, *)
(* as its session read it, whatever a stopping request commits meanwhile.  *)
Settle(b) ==
  /\ status[b] = "in_progress" /\ writing[b] = "idle" /\ lock = NoOne
  /\ writing' = [writing EXCEPT ![b] = "settled"]
  /\ UNCHANGED <<storeVars, due, stopping, purge, lock, reading, faults>>

(* _maybe_finalize_batch: its query flushes status finalizing, and from    *)
(* there to the commit the write lock is held.                             *)
Finalize(b) ==
  /\ writing[b] = "settled" /\ lock = NoOne
  /\ lock' = b
  /\ writing' = [writing EXCEPT ![b] = "output"]
  /\ UNCHANGED <<storeVars, due, stopping, purge, reading, faults>>

WriteOutput(b) ==
  /\ writing[b] = "output"
  /\ disk' = disk \cup {Output(b)}
  /\ writing' = [writing EXCEPT ![b] = IF b \in WithErrors THEN "error" ELSE "commit"]
  /\ UNCHANGED <<rows, status, refs, purged, due, stopping, purge, lock, reading, faults>>

WriteError(b) ==
  /\ writing[b] = "error"
  /\ disk' = disk \cup {Error(b)}
  /\ writing' = [writing EXCEPT ![b] = "commit"]
  /\ UNCHANGED <<rows, status, refs, purged, due, stopping, purge, lock, reading, faults>>

(* Variant: the row of the error file is not added.                        *)
CommitOutputOnly(b) ==
  /\ writing[b] = "commit"
  /\ rows' = rows \cup {Output(b)}
  /\ refs' = [refs EXCEPT ![b] = {Output(b)}]
  /\ status' = [status EXCEPT ![b] = "completed"]
  /\ writing' = [writing EXCEPT ![b] = "over"]
  /\ lock' = NoOne
  /\ UNCHANGED <<disk, purged, due, stopping, purge, reading, faults>>

FinalizeCommit(b) ==
  /\ writing[b] = "commit"
  /\ rows' = rows \cup ResultsOf(b)
  /\ refs' = [refs EXCEPT ![b] = ResultsOf(b)]
  /\ status' = [status EXCEPT ![b] = "completed"]
  /\ writing' = [writing EXCEPT ![b] = "over"]
  /\ lock' = NoOne
  /\ UNCHANGED <<disk, purged, due, stopping, purge, reading, faults>>

(* An upload or a finalization raises (a full disk, a locked database):    *)
(* the session is rolled back and the blobs written so far stay.           *)
WriteFails(b) ==
  /\ writing[b] \in {"uploaded", "settled", "output", "error", "commit"}
  /\ Fault
  /\ writing' = [writing EXCEPT ![b] = "over"]
  /\ lock' = IF lock = b THEN NoOne ELSE lock
  /\ UNCHANGED <<storeVars, due, stopping, purge, reading>>

(* A cancel request, or the expiry pass, reads the batch in progress and   *)
(* commits its terminal status later, whatever the batch is by then.       *)
StopRead(b) ==
  /\ status[b] = "in_progress" /\ b \notin stopping
  /\ stopping' = stopping \cup {b}
  /\ UNCHANGED <<storeVars, due, writing, purge, lock, reading, faults>>

StopCommit(b) ==
  /\ b \in stopping /\ lock = NoOne
  /\ \E s \in {"cancelled", "expired"} : status' = [status EXCEPT ![b] = s]
  /\ stopping' = stopping \ {b}
  /\ UNCHANGED <<rows, disk, refs, purged, due, writing, purge, lock, reading, faults>>

(* The retention time passes.  No request and no settlement lasts that     *)
(* long: nobody who read the batch in progress is still about.             *)
Age(b) ==
  /\ status[b] \in Terminal /\ b \notin due /\ b \notin stopping
  /\ writing[b] \in {"idle", "over"}
  /\ due' = due \cup {b}
  /\ UNCHANGED <<storeVars, writing, stopping, purge, lock, reading, faults>>

(* Variant: the age of the batch is not compared with the cutoff.          *)
CandidatesOfAnyAge == {b \in Batches : status[b] \in Terminal /\ b \notin purged}

(* Variant: only completed batches are looked for.                         *)
CompletedCandidates == {b \in due : status[b] = "completed" /\ b \notin purged}

(* The batches one pass of purge_expired_results means to purge.           *)
Candidates == {b \in due : status[b] \in Terminal /\ b \notin purged}

PurgeBegin ==
  /\ purge.at = "idle" /\ Candidates # {}
  /\ purge' = [Idle EXCEPT !.at = "next", !.todo = Candidates]
  /\ UNCHANGED <<storeVars, due, writing, stopping, lock, reading, faults>>

(* The file rows one batch names, read before its references are nulled.   *)
NamedFiles(b) == refs[b] \cap rows

(* The references are nulled and flushed: the pass has the write lock from *)
(* its first batch to its commit.                                          *)
PurgeFlush(b) ==
  /\ purge.at = "next" /\ b \in purge.todo /\ lock \in {NoOne, "purge"}
  /\ lock' = "purge"
  /\ purge' = [at |-> "unlink", todo |-> purge.todo \ {b},
               done |-> purge.done \cup {b}, unlink |-> NamedFiles(b)]
  /\ UNCHANGED <<storeVars, due, writing, stopping, reading, faults>>

(* _delete_file: an OSError is logged and the blob stays; a blob that is   *)
(* missing already is fine.                                                *)
PurgeUnlink(f) ==
  /\ purge.at = "unlink" /\ f \in purge.unlink
  /\ \/ disk' = disk \ {f} /\ UNCHANGED faults
     \/ Fault /\ UNCHANGED disk
  /\ purge' = [purge EXCEPT !.unlink = @ \ {f}]
  /\ UNCHANGED <<rows, status, refs, purged, due, writing, stopping, lock, reading>>

PurgeNext ==
  /\ purge.at = "unlink" /\ purge.unlink = {}
  /\ purge' = [purge EXCEPT !.at = "next"]
  /\ UNCHANGED <<storeVars, due, writing, stopping, lock, reading, faults>>

(* Variant: the rows of the deleted files are kept.                        *)
PurgeKeepsRows ==
  /\ purge.at = "next" /\ purge.todo = {}
  /\ refs' = [b \in Batches |-> IF b \in purge.done THEN {} ELSE refs[b]]
  /\ purged' = purged \cup purge.done
  /\ purge' = Idle
  /\ lock' = NoOne
  /\ UNCHANGED <<rows, disk, status, due, writing, stopping, reading, faults>>

(* One commit at the end deletes the rows of every batch of the pass.      *)
PurgeCommit ==
  /\ purge.at = "next" /\ purge.todo = {}
  /\ rows' = rows \ UNION {refs[b] : b \in purge.done}
  /\ refs' = [b \in Batches |-> IF b \in purge.done THEN {} ELSE refs[b]]
  /\ purged' = purged \cup purge.done
  /\ purge' = Idle
  /\ lock' = NoOne
  /\ UNCHANGED <<disk, status, due, writing, stopping, reading, faults>>

(* The pass raises: run_forever logs it, and nothing of it is committed.   *)
PurgeFails ==
  /\ purge.at # "idle" /\ Fault
  /\ purge' = Idle
  /\ lock' = IF lock = "purge" THEN NoOne ELSE lock
  /\ UNCHANGED <<storeVars, due, writing, stopping, reading>>

(* get_file_content: the row is looked up (a 404 otherwise), then the blob *)
(* is read, and the request fails when it is not there.                    *)
Lookup(r, f) ==
  /\ reading[r].at # "found" /\ f \in rows
  /\ reading' = [reading EXCEPT ![r] = [at |-> "found", file |-> f]]
  /\ UNCHANGED <<storeVars, due, writing, stopping, purge, lock, faults>>

Download(r) ==
  /\ reading[r].at = "found"
  /\ reading' = [reading EXCEPT
       ![r].at = IF reading[r].file \in disk THEN "sent" ELSE "failed"]
  /\ UNCHANGED <<storeVars, due, writing, stopping, purge, lock, faults>>

(* The process ends and starts again: what was committed and what is on    *)
(* disk is left.                                                           *)
Restart ==
  /\ Fault
  /\ writing' = [b \in Batches |->
       IF writing[b] \in {"upload", "idle"} THEN writing[b] ELSE "over"]
  /\ stopping' = {}
  /\ purge' = Idle
  /\ lock' = NoOne
  /\ reading' = [r \in Readers |-> NoFile]
  /\ UNCHANGED <<storeVars, due>>

FinalizerStep(b) == WriteOutput(b) \/ WriteError(b) \/ FinalizeCommit(b)

PurgeStep ==
  \/ PurgeBegin
  \/ \E b \in Batches : PurgeFlush(b)
  \/ \E f \in Files : PurgeUnlink(f)
  \/ PurgeNext
  \/ PurgeCommit

Next ==
  \/ \E b \in Batches :
       \/ Upload(b) \/ UploadCommit(b) \/ Submit(b)
       \/ Settle(b) \/ Finalize(b) \/ FinalizerStep(b) \/ WriteFails(b)
       \/ StopRead(b) \/ StopCommit(b) \/ Age(b)
  \/ PurgeStep \/ PurgeFails
  \/ \E r \in Readers : (\E f \in Files : Lookup(r, f)) \/ Download(r)
  \/ Restart

(* run_forever sleeps and calls run_once again for as long as the process  *)
(* is up, and a finalization's thread runs on to its commit.               *)
Fairness == WF_vars(PurgeStep) /\ \A b \in Batches : WF_vars(FinalizerStep(b))

Spec == Init /\ [][Next]_vars

LiveSpec == Spec /\ Fairness

-----------------------------------------------------------------------------
(* A batch the next pass would take again, or that this pass has taken.    *)
ToBePurged(b) == b \in due /\ status[b] \in Terminal /\ b \notin purged

(* Whatever fails between an unlink and the commit, a row that names no    *)
(* blob is a result file of a batch whose retention time is over and that  *)
(* a later pass still looks for: results are not lost before their time,   *)
(* and the gap closes (purge_expired_results, _maybe_finalize_batch).      *)
MissingBlobIsDue ==
  \A f \in rows \ disk : f[2] # "input" /\ ToBePurged(f[1])

(* The rows of a batch's files and its references to them appear and go in *)
(* one commit each: a completed batch names all of its result files and    *)
(* each has a row, a purged one names none and none is left, and its input *)
(* stays (FOREIGN KEY order in _maybe_finalize_batch, purge_expired_results). *)
RowsAreWhole ==
  \A b \in Batches :
    /\ status[b] # "none" => Input(b) \in rows
    /\ rows \cap {Output(b), Error(b)} = refs[b]
    /\ refs[b] \in {{}, ResultsOf(b)}
    /\ status[b] = "completed" => (refs[b] = {} <=> b \in purged)

(* A blob that no row names is being written by somebody who will commit   *)
(* its row, or some fault left it behind: without faults nothing is left   *)
(* in blob_dir after a purge.                                              *)
OrphansAreFaults ==
  \A f \in disk \ rows :
    faults > 0 \/ writing[f[1]] \in {"uploaded", "error", "commit"}

(* A download whose row was found fails only when the file was due for     *)
(* deletion: the purge came between the lookup and the read.               *)
FailedDownloadWasDue ==
  \A r \in Readers : reading[r].at = "failed" =>
    reading[r].file[1] \in due /\ reading[r].file[2] # "input"

(* While passes go on, the results of a batch whose retention time is over *)
(* are gone from the table for good, also after a pass that failed midway  *)
(* and whether the batch completed or was stopped.                         *)
EveryResultPurged ==
  \A b \in Batches : b \in due ~> b \in purged /\ rows \cap ResultsOf(b) = {}
=============================================================================
