-------------------------- MODULE ResultFiles_proofs --------------------------
(***************************************************************************)
(* Safety of the files for every set of batches and readers and any number *)
(* of faults: rows and blobs part only where ResultFiles says.             *)
(*                                                                         *)
(* The argument: a finalization writes the blobs of a batch that is not    *)
(* due, the purge unlinks those of batches that are, and the write lock    *)
(* keeps their commits apart.                                              *)
(***************************************************************************)
EXTENDS ResultFiles, TLAPS

Finalizing == {"output", "error", "commit"}

(* Who has the write lock.                                                 *)
LockInv ==
  /\ \A b \in Batches : lock = b <=> writing[b] \in Finalizing
  /\ purge.done # {} => lock = "purge"
  /\ purge.at = "unlink" => lock = "purge"

(* The blobs a batch has on disk before their rows are committed.          *)
Written(b) ==
  CASE writing[b] = "uploaded" -> {Input(b)}
    [] writing[b] = "error" -> {Output(b)}
    [] writing[b] = "commit" -> ResultsOf(b)
    [] OTHER -> {}

(* How far a batch is, with its upload, its finalization and its end.      *)
BatchInv ==
  \A b \in Batches :
    /\ Written(b) \subseteq disk
    /\ writing[b] = "error" => b \in WithErrors
    /\ writing[b] \in {"upload", "uploaded"} => status[b] = "none" /\ Input(b) \notin rows
    /\ writing[b] \in Finalizing \cup {"settled"} => refs[b] = {} /\ status[b] # "none"
    /\ b \in due => /\ status[b] \in Terminal /\ b \notin stopping
                    /\ writing[b] \in {"idle", "over"}
    /\ b \in purged => b \in due /\ refs[b] = {}
    /\ b \in stopping => status[b] # "none"
    /\ status[b] \in {"none", "in_progress"} => refs[b] = {}
    /\ status[b] = "completed" => writing[b] = "over" /\ (refs[b] = {} => b \in purged)

(* What a pass of the retention job has taken.                             *)
PurgeInv ==
  /\ purge.todo \cup purge.done \subseteq due \ purged
  /\ purge.unlink \subseteq UNION {refs[b] : b \in purge.done}
  /\ purge.at # "unlink" => purge.unlink = {}
  /\ purge.at # "idle" => purge.todo \cup purge.done # {}
  /\ purge.at = "idle" => purge = Idle

(* Rows, references and blobs.                                             *)
FileInv ==
  /\ \A b \in Batches : rows \cap {Output(b), Error(b)} = refs[b]
  /\ \A b \in Batches : refs[b] \in {{}, ResultsOf(b)}
  /\ \A b \in Batches : status[b] # "none" => Input(b) \in rows
  /\ MissingBlobIsDue

(* Without a fault every blob has its row, or will have it, or had it.     *)
OrphanInv ==
  faults = 0 =>
    /\ \A f \in disk \ rows : f \in Written(f[1])
    /\ \A b \in purge.done : refs[b] \cap disk \subseteq purge.unlink

(* A download that has found its row finds its blob unless it is due.      *)
ReadInv ==
  \A r \in Readers :
    reading[r].at \in {"found", "failed"} =>
      /\ reading[r].file \in Files
      /\ \/ reading[r].at = "found" /\ reading[r].file \in disk
         \/ reading[r].file[1] \in due /\ reading[r].file[2] # "input"

IndInv ==
  TypeOK /\ LockInv /\ BatchInv /\ PurgeInv /\ FileInv /\ OrphanInv /\ ReadInv

-----------------------------------------------------------------------------
(* The names of files.                                                     *)

LEMMA Names ==
  ASSUME NEW b \in Batches
  PROVE  /\ Input(b) \in Files /\ Output(b) \in Files /\ Error(b) \in Files
         /\ Input(b)[1] = b /\ Output(b)[1] = b /\ Error(b)[1] = b
         /\ Input(b)[2] = "input" /\ Output(b)[2] = "output" /\ Error(b)[2] = "error"
BY DEF Input, Output, Error, Files

LEMMA FileNames ==
  ASSUME NEW f \in Files
  PROVE  f[1] \in Batches /\ f \in {Input(f[1]), Output(f[1]), Error(f[1])}
BY DEF Input, Output, Error, Files

LEMMA ResultNames ==
  ASSUME NEW b \in Batches, NEW f \in ResultsOf(b)
  PROVE  /\ f \in Files /\ f[1] = b /\ f[2] # "input"
         /\ f \in {Output(b), Error(b)}
BY Names DEF ResultsOf

LEMMA WrittenNames ==
  ASSUME NEW b \in Batches, NEW f \in Written(b)
  PROVE  /\ f \in Files /\ f[1] = b
         /\ writing[b] \in {"uploaded", "error", "commit"}
         /\ f[2] = "input" => writing[b] = "uploaded"
<1>1. CASE writing[b] = "uploaded"
  BY <1>1, Names DEF Written
<1>2. CASE writing[b] = "error"
  BY <1>2, Names DEF Written
<1>3. CASE writing[b] = "commit"
  BY <1>3, ResultNames DEF Written
<1> QED  BY <1>1, <1>2, <1>3 DEF Written

(* What a batch names are result files of its own, with a row each.        *)
LEMMA RefNames ==
  ASSUME FileInv, NEW b \in Batches, NEW f \in refs[b]
  PROVE  f \in ResultsOf(b) /\ f \in rows
BY DEF FileInv

(* A row of a result file is named by its batch.                           *)
LEMMA RowIsNamed ==
  ASSUME FileInv, NEW f \in rows, rows \subseteq Files, f[2] # "input"
  PROVE  f[1] \in Batches /\ f \in refs[f[1]]
BY FileNames, Names DEF FileInv

(* A pass only unlinks what is due and was not purged.                     *)
LEMMA UnlinkedIsDue ==
  ASSUME FileInv, BatchInv, PurgeInv, TypeOK, NEW f \in purge.unlink
  PROVE  /\ f \in Files /\ ToBePurged(f[1]) /\ f[2] # "input"
         /\ writing[f[1]] \in {"idle", "over"}
<1>1. PICK b \in purge.done : f \in refs[b]
  BY DEF PurgeInv
<1>2. b \in Batches /\ b \in due \ purged
  BY <1>1 DEF PurgeInv, TypeOK
<1>3. f \in Files /\ f[1] = b /\ f[2] # "input"
  BY <1>1, <1>2, RefNames, ResultNames
<1> QED  BY <1>2, <1>3 DEF BatchInv, ToBePurged

(* Nothing of a pass is under way while a finalization has the lock.       *)
LEMMA LockExcludes ==
  ASSUME LockInv, NEW b \in Batches, writing[b] \in Finalizing
  PROVE  lock = b /\ purge.done = {} /\ purge.at # "unlink"
BY FilesAssumption DEF LockInv

-----------------------------------------------------------------------------
(* Nothing is written yet.                                                 *)
LEMMA Initially == Init => IndInv
<1> SUFFICES ASSUME Init PROVE IndInv
  OBVIOUS
<1>1. TypeOK
  BY FilesAssumption DEF Init, TypeOK, Idle, NoFile
<1>2. LockInv
  BY FilesAssumption DEF Init, LockInv, Finalizing, Idle
<1>3. BatchInv
  BY DEF Init, BatchInv, Written, Finalizing, Terminal
<1>4. PurgeInv
  BY DEF Init, PurgeInv, Idle
<1>5. FileInv
  BY DEF Init, FileInv, MissingBlobIsDue
<1>6. OrphanInv /\ ReadInv
  BY DEF Init, OrphanInv, ReadInv, Idle, NoFile
<1> QED  BY <1>1, <1>2, <1>3, <1>4, <1>5, <1>6 DEF IndInv

(* The types.                                                              *)
LEMMA TypeStep ==
  ASSUME IndInv, [Next]_vars
  PROVE  TypeOK'
<1>1. ASSUME NEW b \in Batches, Upload(b) PROVE TypeOK'
  BY <1>1, Names DEF IndInv, TypeOK, storeVars, Fault, Terminal, Idle, NoFile, Upload
<1>2. ASSUME NEW b \in Batches, UploadCommit(b) PROVE TypeOK'
  BY <1>2, Names DEF IndInv, TypeOK, storeVars, Fault, Terminal, Idle, NoFile, UploadCommit
<1>3. ASSUME NEW b \in Batches, Submit(b) PROVE TypeOK'
  BY <1>3 DEF IndInv, TypeOK, storeVars, Fault, Terminal, Idle, NoFile, Submit
<1>4. ASSUME NEW b \in Batches, Settle(b) PROVE TypeOK'
  BY <1>4 DEF IndInv, TypeOK, storeVars, Fault, Terminal, Idle, NoFile, Settle
<1>5. ASSUME NEW b \in Batches, Finalize(b) PROVE TypeOK'
  BY <1>5 DEF IndInv, TypeOK, storeVars, Fault, Terminal, Idle, NoFile, Finalize
<1>6. ASSUME NEW b \in Batches, WriteOutput(b) PROVE TypeOK'
  BY <1>6, Names DEF IndInv, TypeOK, storeVars, Fault, Terminal, Idle, NoFile, WriteOutput
<1>7. ASSUME NEW b \in Batches, WriteError(b) PROVE TypeOK'
  BY <1>7, Names DEF IndInv, TypeOK, storeVars, Fault, Terminal, Idle, NoFile, WriteError
<1>8. ASSUME NEW b \in Batches, FinalizeCommit(b) PROVE TypeOK'
  BY <1>8, ResultNames DEF IndInv, TypeOK, storeVars, Fault, Terminal, Idle, NoFile, FinalizeCommit
<1>9. ASSUME NEW b \in Batches, WriteFails(b) PROVE TypeOK'
  BY <1>9, FilesAssumption DEF IndInv, TypeOK, storeVars, Fault, Terminal, Idle, NoFile, WriteFails
<1>10. ASSUME NEW b \in Batches, StopRead(b) PROVE TypeOK'
  BY <1>10 DEF IndInv, TypeOK, storeVars, Fault, Terminal, Idle, NoFile, StopRead
<1>11. ASSUME NEW b \in Batches, StopCommit(b) PROVE TypeOK'
  BY <1>11 DEF IndInv, TypeOK, storeVars, Fault, Terminal, Idle, NoFile, StopCommit
<1>12. ASSUME NEW b \in Batches, Age(b) PROVE TypeOK'
  BY <1>12 DEF IndInv, TypeOK, storeVars, Fault, Terminal, Idle, NoFile, Age
<1>13. ASSUME PurgeBegin PROVE TypeOK'
  BY <1>13 DEF IndInv, TypeOK, storeVars, Fault, Terminal, Idle, NoFile, PurgeBegin, Candidates
<1>14. ASSUME NEW b \in Batches, PurgeFlush(b) PROVE TypeOK'
  BY <1>14 DEF IndInv, TypeOK, storeVars, Fault, Terminal, Idle, NoFile, PurgeFlush, NamedFiles
<1>15. ASSUME NEW f \in Files, PurgeUnlink(f) PROVE TypeOK'
  BY <1>15, FilesAssumption DEF IndInv, TypeOK, storeVars, Fault, Terminal, Idle, NoFile, PurgeUnlink
<1>16. ASSUME PurgeNext PROVE TypeOK'
  BY <1>16 DEF IndInv, TypeOK, storeVars, Fault, Terminal, Idle, NoFile, PurgeNext
<1>17. ASSUME PurgeCommit PROVE TypeOK'
  BY <1>17 DEF IndInv, TypeOK, storeVars, Fault, Terminal, Idle, NoFile, PurgeCommit
<1>18. ASSUME PurgeFails PROVE TypeOK'
  BY <1>18, FilesAssumption DEF IndInv, TypeOK, storeVars, Fault, Terminal, Idle, NoFile, PurgeFails
<1>19. ASSUME NEW r \in Readers, NEW f \in Files, Lookup(r, f) PROVE TypeOK'
  BY <1>19 DEF IndInv, TypeOK, storeVars, Fault, Terminal, Idle, NoFile, Lookup
<1>20. ASSUME NEW r \in Readers, Download(r) PROVE TypeOK'
  BY <1>20 DEF IndInv, TypeOK, storeVars, Fault, Terminal, Idle, NoFile, Download
<1>21. ASSUME Restart PROVE TypeOK'
  BY <1>21, FilesAssumption DEF IndInv, TypeOK, storeVars, Fault, Terminal, Idle, NoFile, Restart
<1>22. CASE UNCHANGED vars
  BY <1>22 DEF IndInv, TypeOK, storeVars, Fault, Terminal, Idle, NoFile, vars, storeVars
<1> QED
  BY <1>1, <1>2, <1>3, <1>4, <1>5, <1>6, <1>7, <1>8, <1>9, <1>10, <1>11, <1>12, <1>13, <1>14, <1>15, <1>16, <1>17, <1>18, <1>19, <1>20, <1>21, <1>22
     DEF Next, FinalizerStep, PurgeStep

(* A finalization and a pass take the lock when nobody has it.             *)
LEMMA LockStep ==
  ASSUME IndInv, [Next]_vars
  PROVE  LockInv'
<1>1. ASSUME NEW b \in Batches, Upload(b) PROVE LockInv'
  BY <1>1, FilesAssumption DEF IndInv, TypeOK, LockInv, storeVars, Finalizing, Idle, Fault, Upload
<1>2. ASSUME NEW b \in Batches, UploadCommit(b) PROVE LockInv'
  BY <1>2, FilesAssumption DEF IndInv, TypeOK, LockInv, storeVars, Finalizing, Idle, Fault, UploadCommit
<1>3. ASSUME NEW b \in Batches, Submit(b) PROVE LockInv'
  BY <1>3, FilesAssumption DEF IndInv, TypeOK, LockInv, storeVars, Finalizing, Idle, Fault, Submit
<1>4. ASSUME NEW b \in Batches, Settle(b) PROVE LockInv'
  BY <1>4, FilesAssumption DEF IndInv, TypeOK, LockInv, storeVars, Finalizing, Idle, Fault, Settle
<1>5. ASSUME NEW b \in Batches, Finalize(b) PROVE LockInv'
  BY <1>5, FilesAssumption DEF IndInv, TypeOK, LockInv, storeVars, Finalizing, Idle, Fault, Finalize
<1>6. ASSUME NEW b \in Batches, WriteOutput(b) PROVE LockInv'
  BY <1>6, FilesAssumption DEF IndInv, TypeOK, LockInv, storeVars, Finalizing, Idle, Fault, WriteOutput
<1>7. ASSUME NEW b \in Batches, WriteError(b) PROVE LockInv'
  BY <1>7, FilesAssumption DEF IndInv, TypeOK, LockInv, storeVars, Finalizing, Idle, Fault, WriteError
<1>8. ASSUME NEW b \in Batches, FinalizeCommit(b) PROVE LockInv'
  BY <1>8, FilesAssumption DEF IndInv, TypeOK, LockInv, storeVars, Finalizing, Idle, Fault, FinalizeCommit
<1>9. ASSUME NEW b \in Batches, WriteFails(b) PROVE LockInv'
  BY <1>9, FilesAssumption DEF IndInv, TypeOK, LockInv, storeVars, Finalizing, Idle, Fault, WriteFails
<1>10. ASSUME NEW b \in Batches, StopRead(b) PROVE LockInv'
  BY <1>10, FilesAssumption DEF IndInv, TypeOK, LockInv, storeVars, Finalizing, Idle, Fault, StopRead
<1>11. ASSUME NEW b \in Batches, StopCommit(b) PROVE LockInv'
  BY <1>11, FilesAssumption DEF IndInv, TypeOK, LockInv, storeVars, Finalizing, Idle, Fault, StopCommit
<1>12. ASSUME NEW b \in Batches, Age(b) PROVE LockInv'
  BY <1>12, FilesAssumption DEF IndInv, TypeOK, LockInv, storeVars, Finalizing, Idle, Fault, Age
<1>13. ASSUME PurgeBegin PROVE LockInv'
  BY <1>13, FilesAssumption DEF IndInv, TypeOK, LockInv, storeVars, Finalizing, Idle, Fault, PurgeBegin
<1>14. ASSUME NEW b \in Batches, PurgeFlush(b) PROVE LockInv'
  BY <1>14, FilesAssumption DEF IndInv, TypeOK, LockInv, storeVars, Finalizing, Idle, Fault, PurgeFlush
<1>15. ASSUME NEW f \in Files, PurgeUnlink(f) PROVE LockInv'
  BY <1>15, FilesAssumption DEF IndInv, TypeOK, LockInv, storeVars, Finalizing, Idle, Fault, PurgeUnlink
<1>16. ASSUME PurgeNext PROVE LockInv'
  BY <1>16, FilesAssumption DEF IndInv, TypeOK, LockInv, storeVars, Finalizing, Idle, Fault, PurgeNext
<1>17. ASSUME PurgeCommit PROVE LockInv'
  BY <1>17, FilesAssumption DEF IndInv, TypeOK, LockInv, storeVars, Finalizing, Idle, Fault, PurgeCommit, PurgeInv
<1>18. ASSUME PurgeFails PROVE LockInv'
  BY <1>18, FilesAssumption DEF IndInv, TypeOK, LockInv, storeVars, Finalizing, Idle, Fault, PurgeFails
<1>19. ASSUME NEW r \in Readers, NEW f \in Files, Lookup(r, f) PROVE LockInv'
  BY <1>19, FilesAssumption DEF IndInv, TypeOK, LockInv, storeVars, Finalizing, Idle, Fault, Lookup
<1>20. ASSUME NEW r \in Readers, Download(r) PROVE LockInv'
  BY <1>20, FilesAssumption DEF IndInv, TypeOK, LockInv, storeVars, Finalizing, Idle, Fault, Download
<1>21. ASSUME Restart PROVE LockInv'
  BY <1>21, FilesAssumption DEF IndInv, TypeOK, LockInv, storeVars, Finalizing, Idle, Fault, Restart
<1>22. CASE UNCHANGED vars
  BY <1>22 DEF IndInv, TypeOK, LockInv, storeVars, Finalizing, Idle, Fault, vars, storeVars
<1> QED
  BY <1>1, <1>2, <1>3, <1>4, <1>5, <1>6, <1>7, <1>8, <1>9, <1>10, <1>11, <1>12, <1>13, <1>14, <1>15, <1>16, <1>17, <1>18, <1>19, <1>20, <1>21, <1>22
     DEF Next, FinalizerStep, PurgeStep

(* A batch that is due has no finalization and no stop to come.            *)
LEMMA BatchStep ==
  ASSUME IndInv, [Next]_vars
  PROVE  BatchInv'
<1>1. ASSUME NEW b \in Batches, Upload(b) PROVE BatchInv'
  BY <1>1 DEF IndInv, TypeOK, BatchInv, Written, storeVars, Finalizing, Terminal, Fault, Upload
<1>2. ASSUME NEW b \in Batches, UploadCommit(b) PROVE BatchInv'
  BY <1>2, Names DEF IndInv, TypeOK, BatchInv, Written, storeVars, Finalizing, Terminal, Fault, UploadCommit
<1>3. ASSUME NEW b \in Batches, Submit(b) PROVE BatchInv'
  BY <1>3 DEF IndInv, TypeOK, BatchInv, Written, storeVars, Finalizing, Terminal, Fault, Submit
<1>4. ASSUME NEW b \in Batches, Settle(b) PROVE BatchInv'
  BY <1>4 DEF IndInv, TypeOK, BatchInv, Written, storeVars, Finalizing, Terminal, Fault, Settle
<1>5. ASSUME NEW b \in Batches, Finalize(b) PROVE BatchInv'
  BY <1>5 DEF IndInv, TypeOK, BatchInv, Written, storeVars, Finalizing, Terminal, Fault, Finalize
<1>6. ASSUME NEW b \in Batches, WriteOutput(b) PROVE BatchInv'
  BY <1>6 DEF IndInv, TypeOK, BatchInv, Written, storeVars, Finalizing, Terminal, Fault, WriteOutput, ResultsOf
<1>7. ASSUME NEW b \in Batches, WriteError(b) PROVE BatchInv'
  BY <1>7 DEF IndInv, TypeOK, BatchInv, Written, storeVars, Finalizing, Terminal, Fault, WriteError, ResultsOf
<1>8. ASSUME NEW b \in Batches, FinalizeCommit(b) PROVE BatchInv'
  <2> USE <1>8 DEF FinalizeCommit
  <2>1. ResultsOf(b) # {} /\ \A c \in Batches : Input(c) \notin ResultsOf(b)
    BY Names, ResultNames DEF ResultsOf
  <2>2. b \notin due /\ b \notin purged /\ status[b] # "none"
    BY DEF IndInv, TypeOK, BatchInv, Finalizing
  <2>3. \A c \in Batches : Written(c)' \subseteq Written(c)
    BY DEF IndInv, TypeOK, Written
  <2> QED
    BY <2>1, <2>2, <2>3 DEF IndInv, TypeOK, BatchInv, Finalizing, Terminal
<1>9. ASSUME NEW b \in Batches, WriteFails(b) PROVE BatchInv'
  BY <1>9 DEF IndInv, TypeOK, BatchInv, Written, storeVars, Finalizing, Terminal, Fault, WriteFails
<1>10. ASSUME NEW b \in Batches, StopRead(b) PROVE BatchInv'
  BY <1>10 DEF IndInv, TypeOK, BatchInv, Written, storeVars, Finalizing, Terminal, Fault, StopRead
<1>11. ASSUME NEW b \in Batches, StopCommit(b) PROVE BatchInv'
  BY <1>11 DEF IndInv, TypeOK, BatchInv, Written, storeVars, Finalizing, Terminal, Fault, StopCommit
<1>12. ASSUME NEW b \in Batches, Age(b) PROVE BatchInv'
  BY <1>12 DEF IndInv, TypeOK, BatchInv, Written, storeVars, Finalizing, Terminal, Fault, Age
<1>13. ASSUME PurgeBegin PROVE BatchInv'
  BY <1>13 DEF IndInv, TypeOK, BatchInv, Written, storeVars, Finalizing, Terminal, Fault, PurgeBegin
<1>14. ASSUME NEW b \in Batches, PurgeFlush(b) PROVE BatchInv'
  BY <1>14 DEF IndInv, TypeOK, BatchInv, Written, storeVars, Finalizing, Terminal, Fault, PurgeFlush
<1>15. ASSUME NEW f \in Files, PurgeUnlink(f) PROVE BatchInv'
  <2> USE <1>15 DEF PurgeUnlink
  <2>1. writing[f[1]] \in {"idle", "over"} /\ f[1] \in Batches
    BY UnlinkedIsDue, FileNames DEF IndInv
  <2>2. \A c \in Batches : f \notin Written(c)
    BY <2>1, WrittenNames
  <2>3. \A c \in Batches : Written(c)' = Written(c)
    BY DEF Written
  <2> QED
    BY <2>2, <2>3 DEF IndInv, BatchInv, Finalizing, Terminal
<1>16. ASSUME PurgeNext PROVE BatchInv'
  BY <1>16 DEF IndInv, TypeOK, BatchInv, Written, storeVars, Finalizing, Terminal, Fault, PurgeNext
<1>17. ASSUME PurgeCommit PROVE BatchInv'
  BY <1>17 DEF IndInv, TypeOK, BatchInv, Written, storeVars, Finalizing, Terminal, Fault, PurgeCommit, PurgeInv
<1>18. ASSUME PurgeFails PROVE BatchInv'
  BY <1>18 DEF IndInv, TypeOK, BatchInv, Written, storeVars, Finalizing, Terminal, Fault, PurgeFails
<1>19. ASSUME NEW r \in Readers, NEW f \in Files, Lookup(r, f) PROVE BatchInv'
  BY <1>19 DEF IndInv, TypeOK, BatchInv, Written, storeVars, Finalizing, Terminal, Fault, Lookup
<1>20. ASSUME NEW r \in Readers, Download(r) PROVE BatchInv'
  BY <1>20 DEF IndInv, TypeOK, BatchInv, Written, storeVars, Finalizing, Terminal, Fault, Download
<1>21. ASSUME Restart PROVE BatchInv'
  BY <1>21 DEF IndInv, TypeOK, BatchInv, Written, storeVars, Finalizing, Terminal, Fault, Restart
<1>22. CASE UNCHANGED vars
  BY <1>22 DEF IndInv, TypeOK, BatchInv, Written, storeVars, Finalizing, Terminal, Fault, vars, storeVars
<1> QED
  BY <1>1, <1>2, <1>3, <1>4, <1>5, <1>6, <1>7, <1>8, <1>9, <1>10, <1>11, <1>12, <1>13, <1>14, <1>15, <1>16, <1>17, <1>18, <1>19, <1>20, <1>21, <1>22
     DEF Next, FinalizerStep, PurgeStep

(* A pass unlinks files of the batches it has nulled, all of them due.     *)
LEMMA PurgeInvStep ==
  ASSUME IndInv, [Next]_vars
  PROVE  PurgeInv'
<1>1. ASSUME NEW b \in Batches, Upload(b) PROVE PurgeInv'
  BY <1>1 DEF IndInv, TypeOK, PurgeInv, storeVars, Idle, Fault, Upload
<1>2. ASSUME NEW b \in Batches, UploadCommit(b) PROVE PurgeInv'
  BY <1>2 DEF IndInv, TypeOK, PurgeInv, storeVars, Idle, Fault, UploadCommit
<1>3. ASSUME NEW b \in Batches, Submit(b) PROVE PurgeInv'
  BY <1>3 DEF IndInv, TypeOK, PurgeInv, storeVars, Idle, Fault, Submit
<1>4. ASSUME NEW b \in Batches, Settle(b) PROVE PurgeInv'
  BY <1>4 DEF IndInv, TypeOK, PurgeInv, storeVars, Idle, Fault, Settle
<1>5. ASSUME NEW b \in Batches, Finalize(b) PROVE PurgeInv'
  BY <1>5 DEF IndInv, TypeOK, PurgeInv, storeVars, Idle, Fault, Finalize
<1>6. ASSUME NEW b \in Batches, WriteOutput(b) PROVE PurgeInv'
  BY <1>6 DEF IndInv, TypeOK, PurgeInv, storeVars, Idle, Fault, WriteOutput
<1>7. ASSUME NEW b \in Batches, WriteError(b) PROVE PurgeInv'
  BY <1>7 DEF IndInv, TypeOK, PurgeInv, storeVars, Idle, Fault, WriteError
<1>8. ASSUME NEW b \in Batches, FinalizeCommit(b) PROVE PurgeInv'
  BY <1>8, LockExcludes DEF IndInv, TypeOK, PurgeInv, storeVars, Idle, Fault, FinalizeCommit, Finalizing
<1>9. ASSUME NEW b \in Batches, WriteFails(b) PROVE PurgeInv'
  BY <1>9 DEF IndInv, TypeOK, PurgeInv, storeVars, Idle, Fault, WriteFails
<1>10. ASSUME NEW b \in Batches, StopRead(b) PROVE PurgeInv'
  BY <1>10 DEF IndInv, TypeOK, PurgeInv, storeVars, Idle, Fault, StopRead
<1>11. ASSUME NEW b \in Batches, StopCommit(b) PROVE PurgeInv'
  BY <1>11 DEF IndInv, TypeOK, PurgeInv, storeVars, Idle, Fault, StopCommit
<1>12. ASSUME NEW b \in Batches, Age(b) PROVE PurgeInv'
  BY <1>12 DEF IndInv, TypeOK, PurgeInv, storeVars, Idle, Fault, Age
<1>13. ASSUME PurgeBegin PROVE PurgeInv'
  BY <1>13 DEF IndInv, TypeOK, PurgeInv, storeVars, Idle, Fault, PurgeBegin, Candidates
<1>14. ASSUME NEW b \in Batches, PurgeFlush(b) PROVE PurgeInv'
  BY <1>14 DEF IndInv, TypeOK, PurgeInv, storeVars, Idle, Fault, PurgeFlush, NamedFiles
<1>15. ASSUME NEW f \in Files, PurgeUnlink(f) PROVE PurgeInv'
  BY <1>15 DEF IndInv, TypeOK, PurgeInv, storeVars, Idle, Fault, PurgeUnlink
<1>16. ASSUME PurgeNext PROVE PurgeInv'
  BY <1>16 DEF IndInv, TypeOK, PurgeInv, storeVars, Idle, Fault, PurgeNext
<1>17. ASSUME PurgeCommit PROVE PurgeInv'
  BY <1>17 DEF IndInv, TypeOK, PurgeInv, storeVars, Idle, Fault, PurgeCommit
<1>18. ASSUME PurgeFails PROVE PurgeInv'
  BY <1>18 DEF IndInv, TypeOK, PurgeInv, storeVars, Idle, Fault, PurgeFails
<1>19. ASSUME NEW r \in Readers, NEW f \in Files, Lookup(r, f) PROVE PurgeInv'
  BY <1>19 DEF IndInv, TypeOK, PurgeInv, storeVars, Idle, Fault, Lookup
<1>20. ASSUME NEW r \in Readers, Download(r) PROVE PurgeInv'
  BY <1>20 DEF IndInv, TypeOK, PurgeInv, storeVars, Idle, Fault, Download
<1>21. ASSUME Restart PROVE PurgeInv'
  BY <1>21 DEF IndInv, TypeOK, PurgeInv, storeVars, Idle, Fault, Restart
<1>22. CASE UNCHANGED vars
  BY <1>22 DEF IndInv, TypeOK, PurgeInv, storeVars, Idle, Fault, vars, storeVars
<1> QED
  BY <1>1, <1>2, <1>3, <1>4, <1>5, <1>6, <1>7, <1>8, <1>9, <1>10, <1>11, <1>12, <1>13, <1>14, <1>15, <1>16, <1>17, <1>18, <1>19, <1>20, <1>21, <1>22
     DEF Next, FinalizerStep, PurgeStep

(* Rows come with their blobs and go with their references.                *)
LEMMA FileStep ==
  ASSUME IndInv, [Next]_vars
  PROVE  FileInv'
<1>1. ASSUME NEW b \in Batches, Upload(b) PROVE FileInv'
  BY <1>1 DEF IndInv, TypeOK, FileInv, MissingBlobIsDue, ToBePurged, storeVars, Fault, Upload
<1>2. ASSUME NEW b \in Batches, UploadCommit(b) PROVE FileInv'
  BY <1>2, Names DEF IndInv, TypeOK, FileInv, MissingBlobIsDue, ToBePurged, storeVars, Fault, UploadCommit, BatchInv, Written
<1>3. ASSUME NEW b \in Batches, Submit(b) PROVE FileInv'
  BY <1>3, FileNames DEF IndInv, TypeOK, FileInv, MissingBlobIsDue, ToBePurged, storeVars, Fault, Submit, BatchInv, Terminal
<1>4. ASSUME NEW b \in Batches, Settle(b) PROVE FileInv'
  BY <1>4 DEF IndInv, TypeOK, FileInv, MissingBlobIsDue, ToBePurged, storeVars, Fault, Settle
<1>5. ASSUME NEW b \in Batches, Finalize(b) PROVE FileInv'
  BY <1>5 DEF IndInv, TypeOK, FileInv, MissingBlobIsDue, ToBePurged, storeVars, Fault, Finalize
<1>6. ASSUME NEW b \in Batches, WriteOutput(b) PROVE FileInv'
  BY <1>6 DEF IndInv, TypeOK, FileInv, MissingBlobIsDue, ToBePurged, storeVars, Fault, WriteOutput
<1>7. ASSUME NEW b \in Batches, WriteError(b) PROVE FileInv'
  BY <1>7 DEF IndInv, TypeOK, FileInv, MissingBlobIsDue, ToBePurged, storeVars, Fault, WriteError
<1>8. ASSUME NEW b \in Batches, FinalizeCommit(b) PROVE FileInv'
  <2> USE <1>8 DEF FinalizeCommit
  <2>1. ResultsOf(b) \subseteq disk /\ refs[b] = {} /\ b \notin due /\ status[b] # "none"
    BY DEF IndInv, BatchInv, Written, Finalizing
  <2>2. \A c \in Batches : rows' \cap {Output(c), Error(c)} = refs'[c]
    <3> TAKE c \in Batches
    <3>1. CASE c = b
      BY <2>1, <3>1, ResultNames DEF IndInv, TypeOK, FileInv
    <3>2. CASE c # b
      <4>1. Output(c) \notin ResultsOf(b) /\ Error(c) \notin ResultsOf(b)
        BY <3>2, Names, ResultNames
      <4> QED  BY <3>2, <4>1 DEF IndInv, TypeOK, FileInv
    <3> QED  BY <3>1, <3>2
  <2>3. MissingBlobIsDue'
    BY <2>1, FileNames DEF IndInv, TypeOK, FileInv, MissingBlobIsDue, ToBePurged
  <2> QED
    BY <2>1, <2>2, <2>3 DEF IndInv, TypeOK, FileInv
<1>9. ASSUME NEW b \in Batches, WriteFails(b) PROVE FileInv'
  BY <1>9 DEF IndInv, TypeOK, FileInv, MissingBlobIsDue, ToBePurged, storeVars, Fault, WriteFails
<1>10. ASSUME NEW b \in Batches, StopRead(b) PROVE FileInv'
  BY <1>10 DEF IndInv, TypeOK, FileInv, MissingBlobIsDue, ToBePurged, storeVars, Fault, StopRead
<1>11. ASSUME NEW b \in Batches, StopCommit(b) PROVE FileInv'
  BY <1>11, FileNames DEF IndInv, TypeOK, FileInv, MissingBlobIsDue, ToBePurged, storeVars, Fault, StopCommit, BatchInv, Terminal
<1>12. ASSUME NEW b \in Batches, Age(b) PROVE FileInv'
  BY <1>12 DEF IndInv, TypeOK, FileInv, MissingBlobIsDue, ToBePurged, storeVars, Fault, Age
<1>13. ASSUME PurgeBegin PROVE FileInv'
  BY <1>13 DEF IndInv, TypeOK, FileInv, MissingBlobIsDue, ToBePurged, storeVars, Fault, PurgeBegin
<1>14. ASSUME NEW b \in Batches, PurgeFlush(b) PROVE FileInv'
  BY <1>14 DEF IndInv, TypeOK, FileInv, MissingBlobIsDue, ToBePurged, storeVars, Fault, PurgeFlush
<1>15. ASSUME NEW f \in Files, PurgeUnlink(f) PROVE FileInv'
  <2>1. ToBePurged(f[1]) /\ f[2] # "input"
    BY <1>15, UnlinkedIsDue DEF IndInv, PurgeUnlink
  <2> QED
    BY <1>15, <2>1 DEF IndInv, FileInv, MissingBlobIsDue, ToBePurged, PurgeUnlink
<1>16. ASSUME PurgeNext PROVE FileInv'
  BY <1>16 DEF IndInv, TypeOK, FileInv, MissingBlobIsDue, ToBePurged, storeVars, Fault, PurgeNext
<1>17. ASSUME PurgeCommit PROVE FileInv'
  <2> USE <1>17 DEF PurgeCommit
  <2> DEFINE gone == UNION {refs[b] : b \in purge.done}
  <2>1. \A f \in gone : f \in Files /\ f[2] # "input" /\ f[1] \in purge.done /\ f \in refs[f[1]]
    BY RefNames, ResultNames DEF IndInv, TypeOK
  <2>2. \A c \in Batches : Input(c) \notin gone
    BY <2>1, Names
  <2>3. \A c \in Batches : rows' \cap {Output(c), Error(c)} = refs'[c]
    BY <2>1, Names DEF IndInv, TypeOK, FileInv
  <2>4. MissingBlobIsDue'
    <3> SUFFICES ASSUME NEW f \in rows' \ disk
                 PROVE  f[2] # "input" /\ ToBePurged(f[1])'
      BY DEF MissingBlobIsDue
    <3>1. f[2] # "input" /\ ToBePurged(f[1])
      BY DEF IndInv, FileInv, MissingBlobIsDue
    <3>2. f[1] \in Batches /\ f \in refs[f[1]]
      BY <3>1, RowIsNamed DEF IndInv, TypeOK
    <3> QED  BY <3>1, <3>2 DEF ToBePurged
  <2> QED
    BY <2>2, <2>3, <2>4 DEF IndInv, TypeOK, FileInv
<1>18. ASSUME PurgeFails PROVE FileInv'
  BY <1>18 DEF IndInv, TypeOK, FileInv, MissingBlobIsDue, ToBePurged, storeVars, Fault, PurgeFails
<1>19. ASSUME NEW r \in Readers, NEW f \in Files, Lookup(r, f) PROVE FileInv'
  BY <1>19 DEF IndInv, TypeOK, FileInv, MissingBlobIsDue, ToBePurged, storeVars, Fault, Lookup
<1>20. ASSUME NEW r \in Readers, Download(r) PROVE FileInv'
  BY <1>20 DEF IndInv, TypeOK, FileInv, MissingBlobIsDue, ToBePurged, storeVars, Fault, Download
<1>21. ASSUME Restart PROVE FileInv'
  BY <1>21 DEF IndInv, TypeOK, FileInv, MissingBlobIsDue, ToBePurged, storeVars, Fault, Restart
<1>22. CASE UNCHANGED vars
  BY <1>22 DEF IndInv, TypeOK, FileInv, MissingBlobIsDue, ToBePurged, storeVars, Fault, vars, storeVars
<1> QED
  BY <1>1, <1>2, <1>3, <1>4, <1>5, <1>6, <1>7, <1>8, <1>9, <1>10, <1>11, <1>12, <1>13, <1>14, <1>15, <1>16, <1>17, <1>18, <1>19, <1>20, <1>21, <1>22
     DEF Next, FinalizerStep, PurgeStep

(* Blobs come before their rows, and a pass has its rows deleted.          *)
LEMMA OrphanStep ==
  ASSUME IndInv, [Next]_vars
  PROVE  OrphanInv'
<1>1. ASSUME NEW b \in Batches, Upload(b) PROVE OrphanInv'
  <2> USE <1>1 DEF Upload
  <2> SUFFICES ASSUME faults = 0
               PROVE  /\ \A f \in disk' \ rows : f \in Written(f[1])'
                      /\ \A c \in purge.done : refs[c] \cap disk' \subseteq purge.unlink
    BY DEF OrphanInv
  <2>1. ASSUME NEW f \in disk' \ rows PROVE f \in Written(f[1])'
    BY <2>1, FileNames, Names DEF IndInv, TypeOK, OrphanInv, Written
  <2>2. ASSUME NEW c \in purge.done PROVE refs[c] \cap disk' \subseteq purge.unlink
    BY <2>2, Names, RefNames, ResultNames DEF IndInv, TypeOK, OrphanInv
  <2> QED  BY <2>1, <2>2
<1>2. ASSUME NEW b \in Batches, UploadCommit(b) PROVE OrphanInv'
  BY <1>2 DEF IndInv, TypeOK, OrphanInv, Written, storeVars, Fault, UploadCommit
<1>3. ASSUME NEW b \in Batches, Submit(b) PROVE OrphanInv'
  BY <1>3 DEF IndInv, TypeOK, OrphanInv, Written, storeVars, Fault, Submit
<1>4. ASSUME NEW b \in Batches, Settle(b) PROVE OrphanInv'
  BY <1>4 DEF IndInv, TypeOK, OrphanInv, Written, storeVars, Fault, Settle
<1>5. ASSUME NEW b \in Batches, Finalize(b) PROVE OrphanInv'
  BY <1>5 DEF IndInv, TypeOK, OrphanInv, Written, storeVars, Fault, Finalize
<1>6. ASSUME NEW b \in Batches, WriteOutput(b) PROVE OrphanInv'
  <2> USE <1>6 DEF WriteOutput
  <2> SUFFICES ASSUME faults = 0, NEW f \in disk' \ rows
               PROVE  f \in Written(f[1])'
    BY Names, LockExcludes DEF IndInv, TypeOK, OrphanInv, Finalizing
  <2>1. CASE f = Output(b)
    BY <2>1, Names DEF IndInv, TypeOK, BatchInv, Written, ResultsOf
  <2>2. CASE f # Output(b)
    BY <2>2, FileNames DEF IndInv, TypeOK, OrphanInv, BatchInv, Written, ResultsOf
  <2> QED  BY <2>1, <2>2
<1>7. ASSUME NEW b \in Batches, WriteError(b) PROVE OrphanInv'
  <2> USE <1>7 DEF WriteError
  <2> SUFFICES ASSUME faults = 0, NEW f \in disk' \ rows
               PROVE  f \in Written(f[1])'
    BY Names, LockExcludes DEF IndInv, TypeOK, OrphanInv, Finalizing
  <2>1. CASE f = Error(b)
    BY <2>1, Names DEF IndInv, TypeOK, BatchInv, Written, ResultsOf
  <2>2. CASE f # Error(b)
    BY <2>2, FileNames DEF IndInv, TypeOK, OrphanInv, BatchInv, Written, ResultsOf
  <2> QED  BY <2>1, <2>2
<1>8. ASSUME NEW b \in Batches, FinalizeCommit(b) PROVE OrphanInv'
  BY <1>8, FileNames, LockExcludes DEF IndInv, TypeOK, OrphanInv, Written, storeVars, Fault, FinalizeCommit, Finalizing
<1>9. ASSUME NEW b \in Batches, WriteFails(b) PROVE OrphanInv'
  BY <1>9 DEF IndInv, TypeOK, OrphanInv, Written, storeVars, Fault, WriteFails
<1>10. ASSUME NEW b \in Batches, StopRead(b) PROVE OrphanInv'
  BY <1>10 DEF IndInv, TypeOK, OrphanInv, Written, storeVars, Fault, StopRead
<1>11. ASSUME NEW b \in Batches, StopCommit(b) PROVE OrphanInv'
  BY <1>11 DEF IndInv, TypeOK, OrphanInv, Written, storeVars, Fault, StopCommit
<1>12. ASSUME NEW b \in Batches, Age(b) PROVE OrphanInv'
  BY <1>12 DEF IndInv, TypeOK, OrphanInv, Written, storeVars, Fault, Age
<1>13. ASSUME PurgeBegin PROVE OrphanInv'
  BY <1>13 DEF IndInv, TypeOK, OrphanInv, Written, storeVars, Fault, PurgeBegin, PurgeInv
<1>14. ASSUME NEW b \in Batches, PurgeFlush(b) PROVE OrphanInv'
  BY <1>14 DEF IndInv, TypeOK, OrphanInv, Written, storeVars, Fault, PurgeFlush, PurgeInv, FileInv, NamedFiles
<1>15. ASSUME NEW f \in Files, PurgeUnlink(f) PROVE OrphanInv'
  BY <1>15 DEF IndInv, TypeOK, OrphanInv, Written, storeVars, Fault, PurgeUnlink
<1>16. ASSUME PurgeNext PROVE OrphanInv'
  BY <1>16 DEF IndInv, TypeOK, OrphanInv, Written, storeVars, Fault, PurgeNext
<1>17. ASSUME PurgeCommit PROVE OrphanInv'
  <2> USE <1>17 DEF PurgeCommit
  <2> SUFFICES ASSUME faults = 0, NEW f \in disk \ rows'
               PROVE  f \in Written(f[1])'
    BY DEF OrphanInv, Idle
  <2>1. f \notin rows
    <3>1. ASSUME NEW c \in purge.done PROVE refs[c] \cap disk = {}
      BY <3>1 DEF IndInv, OrphanInv, PurgeInv
    <3> QED  BY <3>1
  <2> QED
    BY <2>1 DEF IndInv, OrphanInv, Written
<1>18. ASSUME PurgeFails PROVE OrphanInv'
  BY <1>18 DEF IndInv, TypeOK, OrphanInv, Written, storeVars, Fault, PurgeFails
<1>19. ASSUME NEW r \in Readers, NEW f \in Files, Lookup(r, f) PROVE OrphanInv'
  BY <1>19 DEF IndInv, TypeOK, OrphanInv, Written, storeVars, Fault, Lookup
<1>20. ASSUME NEW r \in Readers, Download(r) PROVE OrphanInv'
  BY <1>20 DEF IndInv, TypeOK, OrphanInv, Written, storeVars, Fault, Download
<1>21. ASSUME Restart PROVE OrphanInv'
  BY <1>21 DEF IndInv, TypeOK, OrphanInv, Written, storeVars, Fault, Restart
<1>22. CASE UNCHANGED vars
  BY <1>22 DEF IndInv, TypeOK, OrphanInv, Written, storeVars, Fault, vars, storeVars
<1> QED
  BY <1>1, <1>2, <1>3, <1>4, <1>5, <1>6, <1>7, <1>8, <1>9, <1>10, <1>11, <1>12, <1>13, <1>14, <1>15, <1>16, <1>17, <1>18, <1>19, <1>20, <1>21, <1>22
     DEF Next, FinalizerStep, PurgeStep

(* A blob only goes when its batch is due.                                 *)
LEMMA ReadStep ==
  ASSUME IndInv, [Next]_vars
  PROVE  ReadInv'
<1>1. ASSUME NEW b \in Batches, Upload(b) PROVE ReadInv'
  BY <1>1 DEF IndInv, TypeOK, ReadInv, storeVars, Fault, Upload
<1>2. ASSUME NEW b \in Batches, UploadCommit(b) PROVE ReadInv'
  BY <1>2 DEF IndInv, TypeOK, ReadInv, storeVars, Fault, UploadCommit
<1>3. ASSUME NEW b \in Batches, Submit(b) PROVE ReadInv'
  BY <1>3 DEF IndInv, TypeOK, ReadInv, storeVars, Fault, Submit
<1>4. ASSUME NEW b \in Batches, Settle(b) PROVE ReadInv'
  BY <1>4 DEF IndInv, TypeOK, ReadInv, storeVars, Fault, Settle
<1>5. ASSUME NEW b \in Batches, Finalize(b) PROVE ReadInv'
  BY <1>5 DEF IndInv, TypeOK, ReadInv, storeVars, Fault, Finalize
<1>6. ASSUME NEW b \in Batches, WriteOutput(b) PROVE ReadInv'
  BY <1>6 DEF IndInv, TypeOK, ReadInv, storeVars, Fault, WriteOutput
<1>7. ASSUME NEW b \in Batches, WriteError(b) PROVE ReadInv'
  BY <1>7 DEF IndInv, TypeOK, ReadInv, storeVars, Fault, WriteError
<1>8. ASSUME NEW b \in Batches, FinalizeCommit(b) PROVE ReadInv'
  BY <1>8 DEF IndInv, TypeOK, ReadInv, storeVars, Fault, FinalizeCommit
<1>9. ASSUME NEW b \in Batches, WriteFails(b) PROVE ReadInv'
  BY <1>9 DEF IndInv, TypeOK, ReadInv, storeVars, Fault, WriteFails
<1>10. ASSUME NEW b \in Batches, StopRead(b) PROVE ReadInv'
  BY <1>10 DEF IndInv, TypeOK, ReadInv, storeVars, Fault, StopRead
<1>11. ASSUME NEW b \in Batches, StopCommit(b) PROVE ReadInv'
  BY <1>11 DEF IndInv, TypeOK, ReadInv, storeVars, Fault, StopCommit
<1>12. ASSUME NEW b \in Batches, Age(b) PROVE ReadInv'
  BY <1>12 DEF IndInv, TypeOK, ReadInv, storeVars, Fault, Age
<1>13. ASSUME PurgeBegin PROVE ReadInv'
  BY <1>13 DEF IndInv, TypeOK, ReadInv, storeVars, Fault, PurgeBegin
<1>14. ASSUME NEW b \in Batches, PurgeFlush(b) PROVE ReadInv'
  BY <1>14 DEF IndInv, TypeOK, ReadInv, storeVars, Fault, PurgeFlush
<1>15. ASSUME NEW f \in Files, PurgeUnlink(f) PROVE ReadInv'
  BY <1>15, UnlinkedIsDue DEF IndInv, TypeOK, ReadInv, storeVars, Fault, PurgeUnlink, ToBePurged
<1>16. ASSUME PurgeNext PROVE ReadInv'
  BY <1>16 DEF IndInv, TypeOK, ReadInv, storeVars, Fault, PurgeNext
<1>17. ASSUME PurgeCommit PROVE ReadInv'
  BY <1>17 DEF IndInv, TypeOK, ReadInv, storeVars, Fault, PurgeCommit
<1>18. ASSUME PurgeFails PROVE ReadInv'
  BY <1>18 DEF IndInv, TypeOK, ReadInv, storeVars, Fault, PurgeFails
<1>19. ASSUME NEW r \in Readers, NEW f \in Files, Lookup(r, f) PROVE ReadInv'
  BY <1>19 DEF IndInv, TypeOK, ReadInv, storeVars, Fault, Lookup, FileInv, MissingBlobIsDue, ToBePurged
<1>20. ASSUME NEW r \in Readers, Download(r) PROVE ReadInv'
  BY <1>20 DEF IndInv, TypeOK, ReadInv, storeVars, Fault, Download
<1>21. ASSUME Restart PROVE ReadInv'
  BY <1>21 DEF IndInv, TypeOK, ReadInv, storeVars, Fault, Restart, NoFile
<1>22. CASE UNCHANGED vars
  BY <1>22 DEF IndInv, TypeOK, ReadInv, storeVars, Fault, vars, storeVars
<1> QED
  BY <1>1, <1>2, <1>3, <1>4, <1>5, <1>6, <1>7, <1>8, <1>9, <1>10, <1>11, <1>12, <1>13, <1>14, <1>15, <1>16, <1>17, <1>18, <1>19, <1>20, <1>21, <1>22
     DEF Next, FinalizerStep, PurgeStep

-----------------------------------------------------------------------------
(* The inductive invariant of rows, blobs, batches and passes.             *)
THEOREM Invariant == Spec => []IndInv
<1>1. IndInv /\ [Next]_vars => IndInv'
  BY TypeStep, LockStep, BatchStep, PurgeInvStep, FileStep, OrphanStep, ReadStep DEF IndInv
<1> QED  BY <1>1, Initially, PTL DEF Spec

(* The rows, the blobs and the threads stay typed.                         *)
THEOREM TypeCorrect == Spec => []TypeOK
<1>1. IndInv => TypeOK
  BY DEF IndInv
<1> QED  BY <1>1, Invariant, PTL

(* A row without a blob is one that the purge is about to delete           *)
(* (purge_expired_results).                                                *)
THEOREM NoResultIsLost == Spec => []MissingBlobIsDue
<1>1. IndInv => MissingBlobIsDue
  BY DEF IndInv, FileInv
<1> QED  BY <1>1, Invariant, PTL

(* Rows and references appear and go together (_maybe_finalize_batch).     *)
THEOREM RowsStayWhole == Spec => []RowsAreWhole
<1>1. IndInv => RowsAreWhole
  BY DEF IndInv, FileInv, BatchInv, RowsAreWhole
<1> QED  BY <1>1, Invariant, PTL

(* Only a fault leaves a blob behind (write_blob, _delete_file).           *)
THEOREM NoFaultNoOrphan == Spec => []OrphansAreFaults
<1>1. IndInv => OrphansAreFaults
  BY FileNames, WrittenNames DEF IndInv, TypeOK, OrphanInv, OrphansAreFaults
<1> QED  BY <1>1, Invariant, PTL

(* A download fails only when its file is due (get_file_content).          *)
THEOREM DownloadsFailLate == Spec => []FailedDownloadWasDue
<1>1. IndInv => FailedDownloadWasDue
  BY DEF IndInv, ReadInv, FailedDownloadWasDue
<1> QED  BY <1>1, Invariant, PTL
===============================================================================
