------------------------------ MODULE Signing -------------------------------
(***************************************************************************)
(* Signing a log with several copies of TQSL on one computer.              *)
(*                                                                         *)
(* Each copy runs UploadLogFile or ConvertLogFile (apps/tqsl.cpp), which   *)
(* call ConvertLogToString, which drives a converter of the library        *)
(* (src/tqslconvert.cpp).  The copies share the lock file "dblock", the    *)
(* duplicates database (LMDB: one write transaction at a time, guarded by  *)
(* a mutex that lives in the database's lock file) and the LoTW server.    *)
(*                                                                         *)
(* A record of a log is reduced to the QSO it is the duplicate key of and  *)
(* to what the converter makes of it: "good" signs, "bad" is refused with  *)
(* an error, "range" lies outside the date filter.  A duplicate key that is *)
(* found counts as a duplicate: the station details stored with it are     *)
(* taken to be those of the new record.                                    *)
(***************************************************************************)
EXTENDS Integers, Sequences, FiniteSets

CONSTANTS
    Procs,      \* the copies of TQSL
    Batch,      \* the copies that run with -q or -x, one process per job
    Qsos,       \* duplicate keys
    Jobs,       \* the signing jobs that can be asked for
    NoProc,     \* nobody
    MaxJobs,    \* bound: signing jobs asked for, all copies together
    MaxTries,   \* bound: times the user asks to repeat a failed upload
    MaxGen,     \* bound: times the database files are removed
    DbMayFail   \* whether opening or using the database can fail

Kinds   == {"good", "bad", "range"}
Records == [qso : Qsos, kind : Kinds]

\* TQSL_ACTION_*: what to do about duplicates and errors (-a on the command
\* line).  ASK also stands for UNSPEC, which differs only in the wording of
\* the dialog.
Actions == {"ABORT", "NEW", "ALL", "ASK"}

\* upload: UploadLogFile rather than ConvertLogFile; show: show_dupes.
AnyJob == [log : Seq(Records), action : Actions, upload : BOOLEAN, show : BOOLEAN]
NoJob  == [log |-> << >>, action |-> "ASK", upload |-> FALSE, show |-> FALSE]

ASSUME ProcsAssumption == Batch \subseteq Procs /\ NoProc \notin Procs
ASSUME JobsAssumption  == Jobs \subseteq AnyJob
ASSUME BoundAssumption == MaxJobs \in Nat /\ MaxTries \in Nat /\ MaxGen \in Nat
ASSUME FailAssumption  == DbMayFail \in BOOLEAN

Statuses == {"SUCCESS", "CANCEL", "REJECTED", "UNEXP_RESP", "TQSL_ERROR",
             "LIB_ERROR", "ERR_OPEN_OUTPUT", "NO_QSOS", "QSOS_SUPPRESSED",
             "CONNECTION_FAILED", "BUSY", "NONE"}

\* The generations of the database files: remove_db starts a new one.
Gens   == 0..MaxGen
NoFile == -1

VARIABLES
    pc,         \* where the copy is in its job
    job,        \* arguments of the job
    jobs,       \* jobs started so far
    rest,       \* records the converter has not read yet
    out,        \* QSOs signed into the output string; {} when numrecs = 0
    seen,       \* what else was met: duplicates, errors, out_of_range > 0
    ignore,     \* ignore_err
    allow,      \* allow_dupes
    tries,      \* uploads repeated at the user's request
    verify,     \* verifyCA: a TLS verification failure is retried once
    busy,       \* this job found the lock taken in batch mode
    status,     \* exit status of the job, once it is done
    conv,       \* logConv: NULL, open, or open with its input files closed
    file,       \* generation of the database the converter has open
    txn,        \* the converter holds a write transaction
    pend,       \* QSOs put in that transaction
    flock,      \* holder of the lock on "dblock"
    cur,        \* generation of the database files on disk
    db,         \* db[g]: committed contents of generation g
    writer,     \* writer[g]: holder of the write mutex of generation g
    lotw,       \* QSOs the LoTW server has received
    files       \* QSOs written to signed log files

work  == <<job, jobs, rest, out, seen, ignore, allow, tries, verify, busy>>
store == <<conv, file, txn, pend, cur, db, writer>>
world == <<lotw, files>>
vars  == <<pc, work, status, store, flock, world>>

PCs == {"idle", "lockwait", "begin", "converting", "txnwait", "error",
        "errdlg", "cancelled", "aborted", "finished", "dupes", "deliver", "uploading",
        "retry", "handed", "failed", "done"}

Init ==
    /\ pc     = [p \in Procs |-> "idle"]
    /\ job    = [p \in Procs |-> NoJob]
    /\ jobs   = 0
    /\ rest   = [p \in Procs |-> << >>]
    /\ out    = [p \in Procs |-> {}]
    /\ seen   = [p \in Procs |-> {}]
    /\ ignore = [p \in Procs |-> FALSE]
    /\ allow  = [p \in Procs |-> FALSE]
    /\ tries  = [p \in Procs |-> 0]
    /\ verify = [p \in Procs |-> TRUE]
    /\ busy   = [p \in Procs |-> FALSE]
    /\ status = [p \in Procs |-> "NONE"]
    /\ conv   = [p \in Procs |-> "null"]
    /\ file   = [p \in Procs |-> NoFile]
    /\ txn    = [p \in Procs |-> FALSE]
    /\ pend   = [p \in Procs |-> {}]
    /\ flock  = NoProc
    /\ cur    = 0
    /\ db     = [g \in Gens |-> {}]
    /\ writer = [g \in Gens |-> NoProc]
    /\ lotw   = {}
    /\ files  = {}

-----------------------------------------------------------------------------
Goto(p, label) == pc' = [pc EXCEPT ![p] = label]
Finish(p, st)  == Goto(p, "done") /\ status' = [status EXCEPT ![p] = st]

\* unlock_db closes the lock file, which gives up the lock.
Unlock(p) == flock' = IF flock = p THEN NoProc ELSE flock

\* tqsl_endConverter: aborts the transaction, closes the database, sets
\* logConv to NULL.
EndConverter(p) ==
    /\ conv'   = [conv EXCEPT ![p] = "null"]
    /\ file'   = [file EXCEPT ![p] = NoFile]
    /\ txn'    = [txn  EXCEPT ![p] = FALSE]
    /\ pend'   = [pend EXCEPT ![p] = {}]
    /\ writer' = IF txn[p] THEN [writer EXCEPT ![file[p]] = NoProc] ELSE writer
    /\ UNCHANGED cur

RollBackAndEnd(p) == EndConverter(p) /\ UNCHANGED db

\* Mutant: the commit comes after the converter was ended, and does nothing.
CommitTooLate(p) == EndConverter(p) /\ UNCHANGED db

\* tqsl_converterCommit does nothing when the database was never opened, and
\* does not look at what mdb_txn_commit returns.
CommitAndEnd(p) ==
    /\ EndConverter(p)
    /\ \/ db' = IF txn[p] THEN [db EXCEPT ![file[p]] = @ \cup pend[p]] ELSE db
       \/ DbMayFail /\ UNCHANGED db

-----------------------------------------------------------------------------
(* Starting a job: the checks before the lock, and lock_db.                *)

NewJob(p) ==
    /\ pc[p] = "idle"
    /\ jobs < MaxJobs
    /\ jobs' = jobs + 1
    /\ \E j \in Jobs : job' = [job EXCEPT ![p] = j]
    /\ UNCHANGED <<rest, out, seen, ignore, allow, tries, verify, store, world>>

\* The output file cannot be opened, or there is no certificate, or the user
\* gives up choosing one.  With no record signed the callers turn every
\* status but CANCEL and QSOS_SUPPRESSED into NO_QSOS.
Refuse(p) ==
    /\ NewJob(p)
    /\ \/ Finish(p, "CANCEL")
       \/ Finish(p, "NO_QSOS")
       \/ ~job'[p].upload /\ Finish(p, "ERR_OPEN_OUTPUT")
    /\ UNCHANGED <<busy, flock>>

\* lock_db(false) succeeds, or the lock file cannot be opened at all, in
\* which case signing goes on without the lock.
StartSigning(p) ==
    /\ NewJob(p)
    /\ Goto(p, "begin")
    /\ \/ flock \in {NoProc, p} /\ flock' = p
       \/ UNCHANGED flock
    /\ UNCHANGED <<busy, status>>

\* The lock is taken: in batch mode TQSL_EXIT_BUSY, which the callers turn
\* into NO_QSOS.
LockBusy(p) ==
    /\ NewJob(p)
    /\ flock \notin {NoProc, p}
    /\ p \in Batch
    /\ busy' = [busy EXCEPT ![p] = TRUE]
    /\ Finish(p, "NO_QSOS")
    /\ UNCHANGED flock

LockWait(p) ==
    /\ NewJob(p)
    /\ flock \notin {NoProc, p}
    /\ p \notin Batch
    /\ Goto(p, "lockwait")
    /\ UNCHANGED <<busy, status, flock>>

GetLock(p) ==
    /\ pc[p] = "lockwait"
    /\ flock = NoProc
    /\ flock' = p
    /\ Goto(p, "begin")
    /\ UNCHANGED <<work, status, store, world>>

-----------------------------------------------------------------------------
(* The restart label of ConvertLogToString.                                *)

\* A fresh converter goes into logConv.  If logConv still held a converter,
\* that one is lost with its transaction open: its mutex stays taken.
NewConverter(p) ==
    /\ conv' = [conv EXCEPT ![p] = "open"]
    /\ file' = [file EXCEPT ![p] = NoFile]
    /\ txn'  = [txn  EXCEPT ![p] = FALSE]
    /\ pend' = [pend EXCEPT ![p] = {}]
    /\ UNCHANGED <<cur, db, writer>>

BeginConverter(p) ==
    /\ pc[p] = "begin"
    /\ NewConverter(p)
    /\ rest' = [rest EXCEPT ![p] = job[p].log]
    /\ out'  = [out  EXCEPT ![p] = {}]
    /\ seen' = [seen EXCEPT ![p] = {}]
    /\ Goto(p, "converting")
    /\ UNCHANGED <<job, jobs, ignore, allow, tries, verify, busy, status, flock, world>>

\* The log is neither Cabrillo nor ADIF or cannot be read: the exception
\* handler rolls back and ends whatever logConv holds.
BeginFails(p) ==
    /\ pc[p] = "begin"
    /\ RollBackAndEnd(p)
    /\ Unlock(p)
    /\ Finish(p, "LIB_ERROR")
    /\ out' = [out EXCEPT ![p] = {}]
    /\ UNCHANGED <<job, jobs, rest, seen, ignore, allow, tries, verify, busy, world>>

\* Cancelling the date range dialog returns without ending the converter.
\* The dialog is not shown again when the conversion restarts.
DateRangeCancelled(p) ==
    /\ pc[p] = "begin"
    /\ ~allow[p]
    /\ NewConverter(p)
    /\ Unlock(p)
    /\ Finish(p, "CANCEL")
    /\ UNCHANGED <<work, world>>

-----------------------------------------------------------------------------
(* open_db.  It is called by tqsl_getConverterGABBI before the first record *)
(* when duplicates are not allowed.                                         *)

NeedsDb(p) == pc[p] = "converting" /\ ~allow[p] /\ file[p] = NoFile

\* remove_db unlinks the database files; whoever has them open keeps the old
\* files.  open_db does so after mdb_env_open failed twice and on EINVAL.
AfterRemoval == IF DbMayFail THEN {cur, cur + 1} \cap Gens ELSE {cur}

\* Mutant: a lock file found on disk is always taken for a stale one.
OpenEnvResets(p) ==
    /\ NeedsDb(p)
    /\ cur'    \in AfterRemoval
    /\ file'   = [file EXCEPT ![p] = cur']
    /\ writer' = [writer EXCEPT ![cur'] = NoProc]
    /\ Goto(p, "txnwait")
    /\ UNCHANGED <<work, status, conv, txn, pend, db, flock, world>>

\* mdb_env_open.  A process that opens an environment it already has open,
\* with no other process in it, takes the lock file for its own and
\* initialises the mutex again; otherwise the mutex keeps its holder.
OpenEnv(p) ==
    /\ NeedsDb(p)
    /\ cur'    \in AfterRemoval
    /\ file'   = [file EXCEPT ![p] = cur']
    /\ writer' = IF writer[cur'] = p /\ \A q \in Procs \ {p} : file[q] # cur'
                 THEN [writer EXCEPT ![cur'] = NoProc]
                 ELSE writer
    /\ Goto(p, "txnwait")
    /\ UNCHANGED <<work, status, conv, txn, pend, db, flock, world>>

\* Mutant: the environment is opened with MDB_NOLOCK.
BeginTxnAnyway(p) ==
    /\ pc[p] = "txnwait"
    /\ writer' = [writer EXCEPT ![file[p]] = p]
    /\ txn'    = [txn EXCEPT ![p] = TRUE]
    /\ Goto(p, "converting")
    /\ UNCHANGED <<work, status, conv, file, pend, cur, db, flock, world>>

\* mdb_txn_begin blocks until the mutex is free.
BeginTxn(p) ==
    /\ pc[p] = "txnwait"
    /\ writer[file[p]] = NoProc
    /\ writer' = [writer EXCEPT ![file[p]] = p]
    /\ txn'    = [txn EXCEPT ![p] = TRUE]
    /\ Goto(p, "converting")
    /\ UNCHANGED <<work, status, conv, file, pend, cur, db, flock, world>>

-----------------------------------------------------------------------------
(* The loop over tqsl_getConverterGABBI.                                   *)

\* tqsl_getConverterGABBI returned NULL with an error that is reported.  Batch
\* mode decides by the action, and otherwise the user is asked once.
HandleError(p) ==
    LET quietly == p \in Batch /\ job[p].action # "ASK" IN
    /\ pc[p] = "error"
    /\ ignore' = [ignore EXCEPT ![p] = @ \/ quietly]
    /\ Goto(p, IF quietly /\ job[p].action = "ABORT" THEN "aborted"
               ELSE IF ignore'[p] THEN "converting" ELSE "errdlg")
    /\ UNCHANGED <<job, jobs, rest, out, seen, allow, tries, verify, busy, status,
                   store, flock, world>>

Note(p, what) == seen' = [seen EXCEPT ![p] = @ \cup {what}]

\* open_db gives up: TQSL_DB_ERROR.  The converter is as before, so the next
\* call tries again.
OpenFails(p) ==
    /\ DbMayFail
    /\ NeedsDb(p)
    /\ cur' \in AfterRemoval
    /\ Note(p, "err")
    /\ Goto(p, "error")
    /\ UNCHANGED <<job, jobs, rest, out, ignore, allow, tries, verify, busy, status,
                   conv, file, txn, pend, db, writer, flock, world>>

\* The converter is past open_db and has its input file.
Reading(p) == pc[p] = "converting" /\ (allow[p] \/ txn[p]) /\ conv[p] = "open"
Next1(p)   == Head(rest[p])
HasRecord(p, kind) == Reading(p) /\ rest[p] # << >> /\ Next1(p).kind = kind
Consume(p) == rest' = [rest EXCEPT ![p] = Tail(@)]

\* Mutant: only repetitions inside the log are looked for.
IsRepetition(p) == ~allow[p] /\ Next1(p).qso \in pend[p]

IsDuplicate(p) == ~allow[p] /\ Next1(p).qso \in db[file[p]] \cup pend[p]

\* A tCONTACT record comes back; its key is put in the transaction.
SignRecord(p) ==
    /\ HasRecord(p, "good")
    /\ ~IsDuplicate(p)
    /\ out'  = [out EXCEPT ![p] = @ \cup {Next1(p).qso}]
    /\ pend' = IF allow[p] THEN pend
               ELSE [pend EXCEPT ![p] = @ \cup {Next1(p).qso}]
    /\ Consume(p)
    /\ UNCHANGED <<pc, job, jobs, seen, ignore, allow, tries, verify, busy, status,
                   conv, file, txn, cur, db, writer, flock, world>>

\* TQSL_DUPLICATE_QSO: only counted, unless duplicates are to be displayed.
FindDuplicate(p) ==
    /\ HasRecord(p, "good")
    /\ IsDuplicate(p)
    /\ Note(p, "dup")
    /\ Consume(p)
    /\ IF job[p].show THEN Goto(p, "error") ELSE UNCHANGED pc
    /\ UNCHANGED <<job, jobs, out, ignore, allow, tries, verify, busy, status, store, flock, world>>

\* TQSL_DATE_OUT_OF_RANGE
OutOfRange(p) ==
    /\ HasRecord(p, "range")
    /\ Note(p, "range")
    /\ Consume(p)
    /\ UNCHANGED <<pc, job, jobs, out, ignore, allow, tries, verify, busy, status,
                   store, flock, world>>

BadRecord(p) ==
    /\ HasRecord(p, "bad")
    /\ Note(p, "err")
    /\ Consume(p)
    /\ Goto(p, "error")
    /\ UNCHANGED <<job, jobs, out, ignore, allow, tries, verify, busy, status, store, flock, world>>

\* A database call fails on a record.  EINVAL makes the library close the
\* database and the input file and remove the database files; any other
\* error only costs the record.
DbRefuses(p) ==
    /\ DbMayFail
    /\ HasRecord(p, "good")
    /\ ~allow[p]
    /\ Note(p, "err")
    /\ Consume(p)
    /\ Goto(p, "error")
    /\ UNCHANGED <<job, jobs, out, ignore, allow, tries, verify, busy, status, store, flock, world>>

\* Mutant: the files are removed under the open transaction.
DbBreaksKeepingTxn(p) ==
    /\ DbMayFail
    /\ HasRecord(p, "good")
    /\ ~allow[p]
    /\ cur + 1 \in Gens
    /\ cur'    = cur + 1
    /\ conv'   = [conv EXCEPT ![p] = "closed"]
    /\ writer' = [writer EXCEPT ![file[p]] = NoProc]
    /\ Note(p, "err")
    /\ Consume(p)
    /\ Goto(p, "error")
    /\ UNCHANGED <<job, jobs, out, ignore, allow, tries, verify, busy, status, file, txn, pend,
                   db, flock, world>>

DbBreaks(p) ==
    /\ DbMayFail
    /\ HasRecord(p, "good")
    /\ ~allow[p]
    /\ cur + 1 \in Gens
    /\ cur'    = cur + 1
    /\ conv'   = [conv EXCEPT ![p] = "closed"]
    /\ file'   = [file EXCEPT ![p] = NoFile]
    /\ txn'    = [txn  EXCEPT ![p] = FALSE]
    /\ pend'   = [pend EXCEPT ![p] = {}]
    /\ writer' = [writer EXCEPT ![file[p]] = NoProc]
    /\ Note(p, "err")
    /\ Consume(p)
    /\ Goto(p, "error")
    /\ UNCHANGED <<job, jobs, out, ignore, allow, tries, verify, busy, status, db, flock, world>>

\* With neither an ADIF nor a Cabrillo file left every call finds an empty
\* record and refuses it.
ReadClosed(p) ==
    /\ pc[p] = "converting"
    /\ txn[p]
    /\ conv[p] = "closed"
    /\ Note(p, "err")
    /\ Goto(p, "error")
    /\ UNCHANGED <<job, jobs, rest, out, ignore, allow, tries, verify, busy, status, store, flock, world>>

\* Mutant: the exception handler forgets unlock_db.
KeyUnavailableLocked(p) ==
    /\ HasRecord(p, "good")
    /\ RollBackAndEnd(p)
    /\ Finish(p, "LIB_ERROR")
    /\ out' = [out EXCEPT ![p] = {}]
    /\ UNCHANGED <<job, jobs, rest, seen, ignore, allow, tries, verify, busy, flock, world>>

\* TQSL_SIGNINIT_ERROR and the key cannot be unlocked: an exception.
KeyUnavailable(p) ==
    /\ HasRecord(p, "good")
    /\ RollBackAndEnd(p)
    /\ Unlock(p)
    /\ Finish(p, "LIB_ERROR")
    /\ out' = [out EXCEPT ![p] = {}]
    /\ UNCHANGED <<job, jobs, rest, seen, ignore, allow, tries, verify, busy, world>>

\* The Cancel button of the progress dialog, which batch mode does not show.
UserCancels(p) ==
    /\ pc[p] = "converting"
    /\ p \notin Batch
    /\ Goto(p, "cancelled")
    /\ UNCHANGED <<work, status, store, flock, world>>

EndOfLog(p) ==
    /\ Reading(p)
    /\ rest[p] = << >>
    /\ Goto(p, "finished")
    /\ UNCHANGED <<work, status, store, flock, world>>

\* ErrorsDialog
IgnoreErrors(p) ==
    /\ pc[p] = "errdlg"
    /\ ignore' = [ignore EXCEPT ![p] = TRUE]
    /\ Goto(p, "converting")
    /\ UNCHANGED <<job, jobs, rest, out, seen, allow, tries, verify, busy, status,
                   store, flock, world>>

CancelOnError(p) ==
    /\ pc[p] = "errdlg"
    /\ Goto(p, "cancelled")
    /\ UNCHANGED <<work, status, store, flock, world>>

-----------------------------------------------------------------------------
(* The end of ConvertLogToString.                                          *)

\* Cancelled, or aborted after duplicates were met: roll back, unlock.
Abandon(p) ==
    /\ \/ pc[p] = "cancelled"
       \/ pc[p] = "aborted" /\ "dup" \in seen[p]
    /\ RollBackAndEnd(p)
    /\ Unlock(p)
    /\ out' = [out EXCEPT ![p] = {}]
    /\ Finish(p, "CANCEL")
    /\ UNCHANGED <<job, jobs, rest, seen, ignore, allow, tries, verify, busy, world>>

\* Aborted on an error with no duplicate met: numrecs is 0, processed is not,
\* and the converter is left open.
AbortUnsigned(p) ==
    /\ pc[p] = "aborted"
    /\ "dup" \notin seen[p]
    /\ Unlock(p)
    /\ out' = [out EXCEPT ![p] = {}]
    /\ Finish(p, "NO_QSOS")
    /\ UNCHANGED <<job, jobs, rest, seen, ignore, allow, tries, verify, busy, store, world>>

AskAboutDupes(p) ==
    /\ pc[p] = "finished"
    /\ "dup" \in seen[p]
    /\ job[p].action = "ASK"
    /\ Goto(p, "dupes")
    /\ UNCHANGED <<work, status, store, flock, world>>

\* -a abort, or the Cancel button of DupesDialog.
RefuseDupes(p) ==
    /\ \/ pc[p] = "finished" /\ "dup" \in seen[p] /\ job[p].action = "ABORT"
                             /\ Finish(p, "NO_QSOS")
       \/ pc[p] = "dupes" /\ Finish(p, "CANCEL")
    /\ RollBackAndEnd(p)
    /\ Unlock(p)
    /\ out' = [out EXCEPT ![p] = {}]
    /\ UNCHANGED <<job, jobs, rest, seen, ignore, allow, tries, verify, busy, world>>

\* -a all, or the Re-Upload button: convert again from the start, still
\* holding the lock, with duplicates allowed.
RestartAllowingDupes(p) ==
    /\ \/ pc[p] = "finished" /\ "dup" \in seen[p] /\ job[p].action = "ALL"
       \/ pc[p] = "dupes"
    /\ RollBackAndEnd(p)
    /\ allow' = [allow EXCEPT ![p] = TRUE]
    /\ out'   = [out EXCEPT ![p] = {}]
    /\ Goto(p, "begin")
    /\ UNCHANGED <<job, jobs, rest, seen, ignore, tries, verify, busy, status, flock, world>>

\* Mutant: the commit that is commented out at the end of ConvertLogToString.
ReturnOutputCommitted(p) ==
    /\ \/ pc[p] = "finished" /\ ("dup" \in seen[p] => job[p].action = "NEW")
       \/ pc[p] = "dupes" /\ out[p] # {}
    /\ CommitAndEnd(p)
    /\ Unlock(p)
    /\ IF out[p] = {} THEN Finish(p, "NO_QSOS")
                      ELSE Goto(p, "deliver") /\ UNCHANGED status
    /\ UNCHANGED <<work, world>>

\* The lock goes here, the transaction stays open for the caller to commit
\* or roll back.  processed = 0 only if nothing at all was met.  DupesDialog
\* offers New QSOs Only when there are any.
ReturnOutput(p) ==
    /\ \/ pc[p] = "finished" /\ ("dup" \in seen[p] => job[p].action = "NEW")
       \/ pc[p] = "dupes" /\ out[p] # {}
    /\ IF out[p] = {} /\ seen[p] = {} THEN RollBackAndEnd(p) ELSE UNCHANGED store
    /\ Unlock(p)
    /\ IF out[p] = {} THEN Finish(p, "NO_QSOS")
                      ELSE Goto(p, "deliver") /\ UNCHANGED status
    /\ UNCHANGED <<work, world>>

-----------------------------------------------------------------------------
(* ConvertLogFile, UploadLogFile and UploadFile after the conversion.      *)

WriteFile(p) ==
    /\ pc[p] = "deliver"
    /\ ~job[p].upload
    /\ files' = files \cup out[p]
    /\ Goto(p, "handed")
    /\ UNCHANGED <<work, status, store, flock, lotw>>

WriteFails(p) ==
    /\ pc[p] = "deliver"
    /\ ~job[p].upload
    /\ RollBackAndEnd(p)
    /\ Finish(p, "LIB_ERROR")
    /\ UNCHANGED <<work, flock, world>>

Compress(p) ==
    /\ pc[p] = "deliver"
    /\ job[p].upload
    /\ Goto(p, "uploading")
    /\ UNCHANGED <<work, status, store, flock, world>>

\* Returns with the converter left open.
CompressFails(p) ==
    /\ pc[p] = "deliver"
    /\ job[p].upload
    /\ Finish(p, "TQSL_ERROR")
    /\ UNCHANGED <<work, store, flock, world>>

\* LoTW takes the log and its answer says so.
PostAccepted(p) ==
    /\ pc[p] = "uploading"
    /\ lotw' = lotw \cup out[p]
    /\ Goto(p, "handed")
    /\ UNCHANGED <<work, status, store, flock, files>>

\* Mutant: the code of the library is returned instead of an exit status.
PostFailsRaw(p) ==
    /\ pc[p] = "uploading"
    /\ status' = [status EXCEPT ![p] = "CURLE_COULDNT_CONNECT"]
    /\ Goto(p, IF p \in Batch THEN "failed" ELSE "retry")
    /\ UNCHANGED <<work, store, flock, world>>

\* The post fails as far as TQSL can tell: LoTW refuses the log, or there is
\* no answer or one that makes no sense, and then the log may have arrived.
\* Outside batch mode the user is asked whether to try again.
PostFails(p) ==
    /\ pc[p] = "uploading"
    /\ \/ /\ status' = [status EXCEPT ![p] = "REJECTED"]
          /\ UNCHANGED lotw
       \/ /\ \E st \in {"UNEXP_RESP", "CONNECTION_FAILED", "TQSL_ERROR"} :
                status' = [status EXCEPT ![p] = st]
          /\ lotw' \in {lotw, lotw \cup out[p]}
    /\ Goto(p, IF p \in Batch THEN "failed" ELSE "retry")
    /\ UNCHANGED <<work, store, flock, files>>

\* The user cancels the transfer, or curl or the upload thread cannot start:
\* no retry is offered.
PostStopped(p) ==
    /\ pc[p] = "uploading"
    /\ \/ /\ p \notin Batch
          /\ status' = [status EXCEPT ![p] = "CANCEL"]
          /\ lotw' \in {lotw, lotw \cup out[p]}
       \/ /\ status' = [status EXCEPT ![p] = "TQSL_ERROR"]
          /\ UNCHANGED lotw
    /\ Goto(p, "failed")
    /\ UNCHANGED <<work, store, flock, files>>

\* CURLE_PEER_FAILED_VERIFICATION is retried at once, the first time.
PeerUnverified(p) ==
    /\ pc[p] = "uploading"
    /\ verify[p]
    /\ verify' = [verify EXCEPT ![p] = FALSE]
    /\ UNCHANGED <<pc, job, jobs, rest, out, seen, ignore, allow, tries, busy, status,
                   store, flock, world>>

RetryUpload(p) ==
    /\ pc[p] = "retry"
    /\ tries[p] < MaxTries
    /\ tries' = [tries EXCEPT ![p] = @ + 1]
    /\ Goto(p, "uploading")
    /\ UNCHANGED <<job, jobs, rest, out, seen, ignore, allow, verify, busy, status,
                   store, flock, world>>

GiveUpUpload(p) ==
    /\ pc[p] = "retry"
    /\ Goto(p, "failed")
    /\ UNCHANGED <<work, status, store, flock, world>>

\* Mutant: what was left out is not reported.
CommitJobSilently(p) ==
    /\ pc[p] = "handed"
    /\ CommitAndEnd(p)
    /\ Finish(p, "SUCCESS")
    /\ UNCHANGED <<work, flock, world>>

\* The log has been handed over: record it.  A file job reports whether
\* anything was left out; an upload reports UploadFile's result.
CommitJob(p) ==
    /\ pc[p] = "handed"
    /\ CommitAndEnd(p)
    /\ Finish(p, IF ~job[p].upload /\ seen[p] # {} THEN "QSOS_SUPPRESSED" ELSE "SUCCESS")
    /\ UNCHANGED <<work, flock, world>>

\* Mutant: a failed upload is committed too.
CommitFailedJob(p) ==
    /\ pc[p] = "failed"
    /\ CommitAndEnd(p)
    /\ Goto(p, "done")
    /\ UNCHANGED <<work, status, flock, world>>

RollBackJob(p) ==
    /\ pc[p] = "failed"
    /\ RollBackAndEnd(p)
    /\ Goto(p, "done")
    /\ UNCHANGED <<work, status, flock, world>>

-----------------------------------------------------------------------------
(* Leaving a job.                                                          *)

ForgetJob(p) ==
    /\ pc'     = [pc     EXCEPT ![p] = "idle"]
    /\ job'    = [job    EXCEPT ![p] = NoJob]
    /\ rest'   = [rest   EXCEPT ![p] = << >>]
    /\ out'    = [out    EXCEPT ![p] = {}]
    /\ seen'   = [seen   EXCEPT ![p] = {}]
    /\ ignore' = [ignore EXCEPT ![p] = FALSE]
    /\ allow'  = [allow  EXCEPT ![p] = FALSE]
    /\ tries'  = [tries  EXCEPT ![p] = 0]
    /\ busy'   = [busy   EXCEPT ![p] = FALSE]
    /\ status' = [status EXCEPT ![p] = "NONE"]
    /\ UNCHANGED <<jobs, world>>

\* The end of the process, by exitNow, OnExit or a crash: the file lock and
\* every transaction of the process go with it, uncommitted.
ProcessEnds(p) ==
    /\ ForgetJob(p)
    /\ Unlock(p)
    /\ conv'   = [conv EXCEPT ![p] = "null"]
    /\ file'   = [file EXCEPT ![p] = NoFile]
    /\ txn'    = [txn  EXCEPT ![p] = FALSE]
    /\ pend'   = [pend EXCEPT ![p] = {}]
    /\ writer' = [g \in Gens |-> IF writer[g] = p THEN NoProc ELSE writer[g]]
    /\ verify' = [verify EXCEPT ![p] = TRUE]
    /\ UNCHANGED <<cur, db>>

ExitNow(p) == pc[p] = "done" /\ p \in Batch /\ ProcessEnds(p)

\* Outside batch mode TQSL goes back to its window.
BackToWindow(p) ==
    /\ pc[p] = "done"
    /\ p \notin Batch
    /\ ForgetJob(p)
    /\ UNCHANGED <<verify, store, flock>>

OnExit(p) == pc[p] = "idle" /\ p \notin Batch /\ ProcessEnds(p)
Crash(p)  == pc[p] # "idle" /\ ProcessEnds(p)

-----------------------------------------------------------------------------
\* What a copy does by itself or with the user's answer to a dialog.
Step(p) ==
    \/ GetLock(p) \/ BeginConverter(p) \/ BeginFails(p)
    \/ OpenEnv(p) \/ BeginTxn(p) \/ OpenFails(p)
    \/ SignRecord(p) \/ FindDuplicate(p) \/ OutOfRange(p) \/ BadRecord(p)
    \/ DbRefuses(p) \/ DbBreaks(p) \/ ReadClosed(p) \/ KeyUnavailable(p)
    \/ EndOfLog(p) \/ HandleError(p) \/ IgnoreErrors(p) \/ CancelOnError(p)
    \/ Abandon(p) \/ AbortUnsigned(p) \/ AskAboutDupes(p) \/ RefuseDupes(p)
    \/ RestartAllowingDupes(p) \/ ReturnOutput(p)
    \/ WriteFile(p) \/ WriteFails(p) \/ Compress(p) \/ CompressFails(p)
    \/ PostAccepted(p) \/ PostFails(p) \/ PostStopped(p) \/ PeerUnverified(p)
    \/ RetryUpload(p) \/ GiveUpUpload(p) \/ CommitJob(p) \/ RollBackJob(p)
    \/ ExitNow(p) \/ BackToWindow(p)

\* What nobody has to do.
MayDo(p) ==
    \/ Refuse(p) \/ StartSigning(p) \/ LockBusy(p) \/ LockWait(p)
    \/ DateRangeCancelled(p) \/ UserCancels(p) \/ OnExit(p) \/ Crash(p)

Next == \E p \in Procs : Step(p) \/ MayDo(p)

Spec == Init /\ [][Next]_vars

\* Each copy keeps running and its dialogs are answered.
FairSpec == Spec /\ \A p \in Procs : WF_vars(Step(p))

-----------------------------------------------------------------------------
TypeOK ==
    /\ pc     \in [Procs -> PCs]
    /\ job    \in [Procs -> AnyJob]
    /\ jobs   \in 0..MaxJobs
    /\ rest   \in [Procs -> Seq(Records)]
    /\ out    \in [Procs -> SUBSET Qsos]
    /\ seen   \in [Procs -> SUBSET {"dup", "err", "range"}]
    /\ ignore \in [Procs -> BOOLEAN]
    /\ allow  \in [Procs -> BOOLEAN]
    /\ tries  \in [Procs -> 0..MaxTries]
    /\ verify \in [Procs -> BOOLEAN]
    /\ busy   \in [Procs -> BOOLEAN]
    /\ status \in [Procs -> Statuses]
    /\ conv   \in [Procs -> {"null", "open", "closed"}]
    /\ file   \in [Procs -> Gens \cup {NoFile}]
    /\ txn    \in [Procs -> BOOLEAN]
    /\ pend   \in [Procs -> SUBSET Qsos]
    /\ flock  \in Procs \cup {NoProc}
    /\ cur    \in Gens
    /\ db     \in [Gens -> SUBSET Qsos]
    /\ writer \in [Gens -> Procs \cup {NoProc}]
    /\ lotw   \in SUBSET Qsos
    /\ files  \in SUBSET Qsos

\* ConvertLogToString has returned records to hand over.
Delivering(p) == pc[p] \in {"deliver", "uploading", "retry", "handed", "failed"}

\* The duplicates database never calls a QSO already uploaded that was not
\* handed over: whatever fails or crashes between signing and committing,
\* resubmitting the log signs the QSO again (tqsl_converterRollBack).
RecordedWasDelivered == \A g \in Gens : db[g] \subseteq lotw \cup files

\* The lock file is given up before the log is uploaded and committed
\* (unlock_db at the end of ConvertLogToString).  Even so the duplicate check
\* stays true until the commit: what is being handed over is not recorded,
\* by this or any other copy.
DupCheckFresh ==
    \A p \in Procs : Delivering(p) /\ ~allow[p] => out[p] \cap db[file[p]] = {}

\* Two copies that check against the same database never hand over the same
\* QSO, although their uploads are not covered by the lock file.
NoSharedClaim ==
    \A p, q \in Procs :
        /\ p # q
        /\ Delivering(p) /\ ~allow[p]
        /\ Delivering(q) /\ ~allow[q]
        /\ file[p] = file[q]
        => out[p] \cap out[q] = {}

\* The database changes only by the commit of one job, and then by all the
\* QSOs that job handed over: no partial conversion and no other copy's
\* transaction gets in.
OnlyWholeJobsRecorded ==
    [][db' # db => \E p \in Procs :
          /\ pc[p] = "handed" /\ pc'[p] = "done"
          /\ out[p] \subseteq lotw \cup files
          /\ db' = [db EXCEPT ![file[p]] = @ \cup out[p]]]_vars

\* A job that saved or uploaded new QSOs leaves them recorded, so that the
\* next copy reports them as duplicates.
SuccessIsRecorded ==
    \A p \in Procs :
        /\ pc[p] = "done"
        /\ status[p] \in {"SUCCESS", "QSOS_SUPPRESSED"}
        /\ ~allow[p]
        => \E g \in Gens : out[p] \subseteq db[g]

\* Exit status 0 of a job that saves a file means every record of the log was
\* signed and written (README.MD, exit status 0).
SavedMeansAllSigned ==
    \A p \in Procs :
        pc[p] = "done" /\ ~job[p].upload /\ status[p] = "SUCCESS" =>
            /\ out[p] \subseteq files
            /\ \A i \in 1..Len(job[p].log) :
                  job[p].log[i].kind = "good" /\ job[p].log[i].qso \in out[p]

\* A write transaction of p that no step of p will end: its converter was left
\* open when the job ended, or logConv has been overwritten since.
Abandoned(p) ==
    \E g \in Gens : writer[g] = p /\ (pc[p] = "idle" \/ file[p] # g \/ ~txn[p])

\* If no copy keeps an abandoned transaction for ever, every job that is
\* started comes to an end: nobody waits for ever for the lock file (lock_db),
\* for the database (mdb_txn_begin) or in a loop.
EveryJobEnds ==
    (\A p \in Procs : []<>~Abandoned(p)) =>
        \A p \in Procs : pc[p] # "idle" ~> pc[p] = "idle"

Ledger == INSTANCE UploadLedger WITH
    Copies    <- Procs,
    Books     <- Gens,
    recorded  <- {e \in Gens \X Qsos : e[2] \in db[e[1]]},
    delivered <- lotw \cup files,
    claim     <- [p \in Procs |-> {e \in Gens \X Qsos : e[1] = file[p] /\ e[2] \in pend[p]}]

\* The copies together keep the promise of the duplicates database: a QSO is
\* claimed by one copy at a time and recorded only after it was handed over.
ImplementsLedger == Ledger!Spec

-----------------------------------------------------------------------------
(* The inductive invariant behind the safety properties.                   *)

\* A converter with a transaction holds the mutex of the files it has open.
\* This is what excludes the other copies, not the lock file.
TxnHoldsMutex ==
    \A p \in Procs :
        /\ txn[p] => file[p] \in Gens /\ writer[file[p]] = p
        /\ pc[p] = "txnwait" => file[p] \in Gens

\* Keys are put only in an open transaction, and only keys that are new.
PendIsNew ==
    \A p \in Procs :
        /\ ~txn[p] => pend[p] = {}
        /\ txn[p]  => pend[p] \cap db[file[p]] = {}

Working(p) ==
    Delivering(p) \/ pc[p] \in {"converting", "txnwait", "error", "errdlg", "finished", "dupes"}

\* While its input file is open a converter has put exactly the keys of the
\* records it returned, or none if duplicates are allowed.
PendIsOut ==
    \A p \in Procs :
        /\ Working(p) /\ conv[p] = "open" => pend[p] = IF allow[p] THEN {} ELSE out[p]
        /\ Delivering(p) \/ pc[p] \in {"finished", "dupes"} => conv[p] = "open"

HandedIsDelivered ==
    \A p \in Procs : pc[p] = "handed" => out[p] \subseteq lotw \cup files

\* What the steps of a signing job keep true between them: transactions exclude
\* one another, hold exactly the new keys of the output, and are committed only
\* when that output has been handed over.
SigningInv ==
    /\ TxnHoldsMutex
    /\ PendIsNew
    /\ PendIsOut
    /\ HandedIsDelivered
    /\ RecordedWasDelivered
=============================================================================
