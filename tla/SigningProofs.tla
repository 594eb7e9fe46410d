--------------------------- MODULE SigningProofs ----------------------------
(***************************************************************************)
(* Proofs about module Signing, for any number of copies, QSOs, jobs and   *)
(* generations of the database files.                                      *)
(***************************************************************************)
EXTENDS Signing, TLAPS

\* The state of a copy with no job is well typed.
LEMMA NoJobType == NoJob \in AnyJob /\ << >> \in Seq(Records)
BY DEF NoJob, AnyJob, Actions

\* Asking for a job keeps the job variables typed.
LEMMA NewJobType ==
  ASSUME TypeOK, NEW p \in Procs, NewJob(p)
  PROVE  /\ job' \in [Procs -> AnyJob]
         /\ jobs' \in 0..MaxJobs
         /\ job'[p] \in Jobs
<1>1. PICK j \in Jobs : job' = [job EXCEPT ![p] = j]
  BY DEF NewJob
<1>2. job' \in [Procs -> AnyJob] /\ job'[p] \in Jobs
  BY <1>1, JobsAssumption DEF TypeOK
<1>3. jobs' \in 0..MaxJobs
  BY BoundAssumption DEF NewJob, TypeOK
<1> QED
  BY <1>2, <1>3

\* Reading a record takes a well typed record off the log.
LEMMA ConsumeType ==
  ASSUME TypeOK, NEW p \in Procs, NEW k, HasRecord(p, k), Consume(p)
  PROVE  /\ Next1(p).qso \in Qsos
         /\ rest' \in [Procs -> Seq(Records)]
<1>1. rest \in [Procs -> Seq(Records)] /\ rest[p] \in Seq(Records) /\ rest[p] # << >>
  BY DEF TypeOK, HasRecord
<1>2. Head(rest[p]) \in Records /\ Tail(rest[p]) \in Seq(Records)
  BY <1>1
<1>3. Next1(p).qso \in Qsos
  BY <1>2 DEF Next1, Records
<1>4. rest' \in [Procs -> Seq(Records)]
  BY <1>1, <1>2 DEF Consume
<1> QED
  BY <1>3, <1>4

\* Every step of Signing keeps every variable in its type.
LEMMA TypeStep == TypeOK /\ [Next]_vars => TypeOK'
<1> SUFFICES ASSUME TypeOK, [Next]_vars PROVE TypeOK'
  OBVIOUS
<1> USE ProcsAssumption DEF TypeOK, PCs, Statuses
<1>1. CASE UNCHANGED vars
  BY <1>1 DEF vars, work, store, world
<1>2. ASSUME NEW p \in Procs, Step(p) PROVE TypeOK'
  <2>1. CASE GetLock(p)
    BY <2>1
      DEF GetLock, Goto, work, store, world
  <2>2. CASE BeginConverter(p)
    BY <2>2
      DEF BeginConverter, Goto, NewConverter, world, AnyJob
  <2>3. CASE BeginFails(p)
    BY <2>3
      DEF BeginFails, Finish, Goto, Unlock, RollBackAndEnd, EndConverter,
        world
  <2>4. CASE OpenEnv(p)
    BY <2>4, BoundAssumption
      DEF OpenEnv, Goto, NeedsDb, AfterRemoval, work, world, Gens
  <2>5. CASE BeginTxn(p)
    BY <2>5
      DEF BeginTxn, Goto, work, world, Gens
  <2>6. CASE OpenFails(p)
    BY <2>6, BoundAssumption
      DEF OpenFails, Goto, NeedsDb, AfterRemoval, Note, world, Gens
  <2>7. CASE SignRecord(p)
    BY <2>7, ConsumeType
      DEF SignRecord, world, Gens
  <2>8. CASE FindDuplicate(p)
    BY <2>8, ConsumeType
      DEF FindDuplicate, Goto, Note, store, world
  <2>9. CASE OutOfRange(p)
    BY <2>9, ConsumeType
      DEF OutOfRange, Note, store, world
  <2>10. CASE BadRecord(p)
    BY <2>10, ConsumeType
      DEF BadRecord, Goto, Note, store, world
  <2>11. CASE DbRefuses(p)
    BY <2>11, ConsumeType
      DEF DbRefuses, Goto, Note, store, world
  <2>12. CASE DbBreaks(p)
    BY <2>12, ConsumeType, BoundAssumption
      DEF DbBreaks, Goto, Note, world, Gens
  <2>13. CASE ReadClosed(p)
    BY <2>13
      DEF ReadClosed, Goto, Note, store, world
  <2>14. CASE KeyUnavailable(p)
    BY <2>14
      DEF KeyUnavailable, Finish, Goto, Unlock, RollBackAndEnd, EndConverter,
        HasRecord, Reading, Next1, world
  <2>15. CASE EndOfLog(p)
    BY <2>15
      DEF EndOfLog, Goto, Reading, work, store, world
  <2>16. CASE HandleError(p)
    BY <2>16
      DEF HandleError, Goto, store, world
  <2>17. CASE IgnoreErrors(p)
    BY <2>17
      DEF IgnoreErrors, Goto, store, world
  <2>18. CASE CancelOnError(p)
    BY <2>18
      DEF CancelOnError, Goto, work, store, world
  <2>19. CASE Abandon(p)
    BY <2>19
      DEF Abandon, Finish, Goto, Unlock, RollBackAndEnd, EndConverter, world
  <2>20. CASE AbortUnsigned(p)
    BY <2>20
      DEF AbortUnsigned, Finish, Goto, Unlock, store, world
  <2>21. CASE AskAboutDupes(p)
    BY <2>21
      DEF AskAboutDupes, Goto, work, store, world
  <2>22. CASE RefuseDupes(p)
    <3>1. pc' = [pc EXCEPT ![p] = "done"]
      BY <2>22 DEF RefuseDupes, Finish, Goto
    <3>2. PICK st \in {"NO_QSOS", "CANCEL"} : status' = [status EXCEPT ![p] = st]
      BY <2>22 DEF RefuseDupes, Finish
    <3> QED
      BY <2>22, <3>1, <3>2
        DEF RefuseDupes, Unlock, RollBackAndEnd, EndConverter,
        world
  <2>23. CASE RestartAllowingDupes(p)
    BY <2>23
      DEF RestartAllowingDupes, Goto, RollBackAndEnd, EndConverter, world
  <2>24. CASE ReturnOutput(p)
    <3>1. pc' \in [Procs -> PCs] /\ status' \in [Procs -> Statuses]
      BY <2>24 DEF ReturnOutput, Finish, Goto
    <3>2. CASE RollBackAndEnd(p)
      BY <2>24, <3>1, <3>2
        DEF ReturnOutput, RollBackAndEnd, EndConverter, Unlock, work, world
    <3>3. CASE UNCHANGED store
      BY <2>24, <3>1, <3>3 DEF ReturnOutput, Unlock, work, store, world
    <3> QED
      BY <2>24, <3>2, <3>3 DEF ReturnOutput
  <2>25. CASE WriteFile(p)
    BY <2>25
      DEF WriteFile, Goto, work, store
  <2>26. CASE WriteFails(p)
    BY <2>26
      DEF WriteFails, Finish, Goto, RollBackAndEnd, EndConverter, work,
        world
  <2>27. CASE Compress(p)
    BY <2>27
      DEF Compress, Goto, work, store, world
  <2>28. CASE CompressFails(p)
    BY <2>28
      DEF CompressFails, Finish, Goto, work, store, world
  <2>29. CASE PostAccepted(p)
    BY <2>29
      DEF PostAccepted, Goto, work, store
  <2>30. CASE PostFails(p)
    <3>1. PICK st \in {"REJECTED", "UNEXP_RESP", "CONNECTION_FAILED", "TQSL_ERROR"} :
               status' = [status EXCEPT ![p] = st]
      BY <2>30 DEF PostFails
    <3>2. lotw' \in SUBSET Qsos
      BY <2>30 DEF PostFails
    <3> QED
      BY <2>30, <3>1, <3>2 DEF PostFails, Goto, work, store
  <2>31. CASE PostStopped(p)
    BY <2>31
      DEF PostStopped, Goto, work, store
  <2>32. CASE PeerUnverified(p)
    BY <2>32
      DEF PeerUnverified, store, world
  <2>33. CASE RetryUpload(p)
    BY <2>33, BoundAssumption
      DEF RetryUpload, Goto, store, world
  <2>34. CASE GiveUpUpload(p)
    BY <2>34
      DEF GiveUpUpload, Goto, work, store, world
  <2>35. CASE CommitJob(p)
    <3>1. db' \in [Gens -> SUBSET Qsos]
      <4>1. CASE UNCHANGED db
        BY <4>1
      <4>2. CASE db' = [db EXCEPT ![file[p]] = @ \cup pend[p]]
        BY <4>2
      <4> QED
        BY <2>35, <4>1, <4>2 DEF CommitJob, CommitAndEnd
    <3> QED
      BY <2>35, <3>1
        DEF CommitJob, Finish, Goto, CommitAndEnd, EndConverter, work, world
  <2>36. CASE RollBackJob(p)
    BY <2>36
      DEF RollBackJob, Goto, RollBackAndEnd, EndConverter, work, world
  <2>37. CASE ExitNow(p)
    BY <2>37, NoJobType, BoundAssumption
      DEF ExitNow, ProcessEnds, Unlock, ForgetJob, world
  <2>38. CASE BackToWindow(p)
    BY <2>38, NoJobType, BoundAssumption
      DEF BackToWindow, ForgetJob, world, store
  <2> QED
    BY <1>2,
      <2>1, <2>2, <2>3, <2>4, <2>5, <2>6, <2>7, <2>8, <2>9, <2>10, <2>11,
        <2>12, <2>13, <2>14, <2>15, <2>16, <2>17, <2>18, <2>19, <2>20,
        <2>21, <2>22, <2>23, <2>24, <2>25, <2>26, <2>27, <2>28, <2>29,
        <2>30, <2>31, <2>32, <2>33, <2>34, <2>35, <2>36, <2>37, <2>38 DEF Step
<1>3. ASSUME NEW p \in Procs, MayDo(p) PROVE TypeOK'
  <2>1. CASE Refuse(p)
    <3>1. pc' = [pc EXCEPT ![p] = "done"]
      BY <2>1 DEF Refuse, Finish, Goto
    <3>2. PICK st \in {"CANCEL", "NO_QSOS", "ERR_OPEN_OUTPUT"} :
               status' = [status EXCEPT ![p] = st]
      BY <2>1 DEF Refuse, Finish
    <3> QED
      BY <2>1, <3>1, <3>2, NewJobType DEF Refuse, NewJob, store, world
  <2>2. CASE StartSigning(p)
    BY <2>2, NewJobType
      DEF StartSigning, Goto, NewJob, store, world
  <2>3. CASE LockBusy(p)
    BY <2>3, NewJobType
      DEF LockBusy, Finish, Goto, NewJob, store, world
  <2>4. CASE LockWait(p)
    BY <2>4, NewJobType
      DEF LockWait, Goto, NewJob, store, world
  <2>5. CASE DateRangeCancelled(p)
    BY <2>5
      DEF DateRangeCancelled, Finish, Goto, Unlock, NewConverter, work,
        world
  <2>6. CASE UserCancels(p)
    BY <2>6
      DEF UserCancels, Goto, work, store, world
  <2>7. CASE OnExit(p)
    BY <2>7, NoJobType, BoundAssumption
      DEF OnExit, ProcessEnds, Unlock, ForgetJob, world
  <2>8. CASE Crash(p)
    BY <2>8, NoJobType, BoundAssumption
      DEF Crash, ProcessEnds, Unlock, ForgetJob, world
  <2> QED
    BY <1>3,
      <2>1, <2>2, <2>3, <2>4, <2>5, <2>6, <2>7, <2>8 DEF MayDo
<1> QED
  BY <1>1, <1>2, <1>3 DEF Next

\* Every state of every run of any number of copies is well typed.
THEOREM TypeCorrect == Spec => []TypeOK
<1>1. Init => TypeOK
  BY NoJobType, ProcsAssumption, BoundAssumption
    DEF Init, TypeOK, PCs, Statuses, Gens, NoFile
<1>2. TypeOK /\ [Next]_vars => TypeOK'
  BY TypeStep
<1> QED
  BY <1>1, <1>2, PTL DEF Spec

-----------------------------------------------------------------------------
(* The inductive invariant.  Most steps either leave the store alone or     *)
(* close a converter; the two lemmas below settle those at once.            *)

\* A step of p that leaves every converter, transaction and database alone
\* keeps the invariant, if p enters no phase it is not ready for.
LEMMA QuietKeeps ==
  ASSUME TypeOK, SigningInv, NEW p \in Procs, NEW l \in PCs,
         pc' = [pc EXCEPT ![p] = l],
         UNCHANGED <<conv, file, txn, pend, db, writer, out, allow>>,
         lotw \subseteq lotw', files \subseteq files',
         l # "txnwait",
         l = "handed" => out[p] \subseteq lotw' \cup files',
         Working(p)' => Working(p) /\ (conv[p] = "open" \/ l \in {"converting", "error", "errdlg"})
  PROVE  SigningInv'
<1>1. TxnHoldsMutex'
  BY DEF SigningInv, TxnHoldsMutex, TypeOK
<1>2. PendIsNew'
  BY DEF SigningInv, PendIsNew
<1>3. PendIsOut'
  <2> SUFFICES ASSUME NEW q \in Procs
               PROVE  /\ Working(q)' /\ conv'[q] = "open" =>
                            pend'[q] = IF allow'[q] THEN {} ELSE out'[q]
                      /\ Delivering(q)' \/ pc'[q] \in {"finished", "dupes"} => conv'[q] = "open"
    BY DEF PendIsOut
  <2>1. CASE q = p
    BY <2>1 DEF SigningInv, PendIsOut, TypeOK, Working, Delivering
  <2>2. CASE q # p
    BY <2>2 DEF SigningInv, PendIsOut, TypeOK, Working, Delivering
  <2> QED
    BY <2>1, <2>2
<1>4. HandedIsDelivered'
  BY DEF SigningInv, HandedIsDelivered, TypeOK
<1>5. RecordedWasDelivered'
  BY DEF SigningInv, RecordedWasDelivered
<1> QED
  BY <1>1, <1>2, <1>3, <1>4, <1>5 DEF SigningInv

\* A step of p that gives up its converter, or takes a new one, and touches
\* no mutex but its own keeps the invariant: tqsl_endConverter, the restart
\* label and the end of the process.
LEMMA ClosedKeeps ==
  ASSUME TypeOK, SigningInv, NEW p \in Procs,
         NEW l \in {"begin", "done", "idle", "converting"},
         pc'   = [pc   EXCEPT ![p] = l],
         file' = [file EXCEPT ![p] = NoFile],
         txn'  = [txn  EXCEPT ![p] = FALSE],
         pend' = [pend EXCEPT ![p] = {}],
         \A q \in Procs \ {p} :
             conv'[q] = conv[q] /\ out'[q] = out[q] /\ allow'[q] = allow[q],
         l = "converting" => out'[p] = {},
         \A g \in Gens : writer[g] # p => writer'[g] = writer[g],
         UNCHANGED <<db, lotw, files>>
  PROVE  SigningInv'
<1>1. TxnHoldsMutex'
  BY DEF SigningInv, TxnHoldsMutex, TypeOK
<1>2. PendIsNew'
  BY DEF SigningInv, PendIsNew, TypeOK
<1>3. PendIsOut'
  <2> SUFFICES ASSUME NEW q \in Procs
               PROVE  /\ Working(q)' /\ conv'[q] = "open" =>
                            pend'[q] = IF allow'[q] THEN {} ELSE out'[q]
                      /\ Delivering(q)' \/ pc'[q] \in {"finished", "dupes"} => conv'[q] = "open"
    BY DEF PendIsOut
  <2>1. CASE q = p
    BY <2>1 DEF TypeOK, Working, Delivering
  <2>2. CASE q # p
    BY <2>2 DEF SigningInv, PendIsOut, TypeOK, Working, Delivering
  <2> QED
    BY <2>1, <2>2
<1>4. HandedIsDelivered'
  BY DEF SigningInv, HandedIsDelivered, TypeOK
<1>5. RecordedWasDelivered'
  BY DEF SigningInv, RecordedWasDelivered
<1> QED
  BY <1>1, <1>2, <1>3, <1>4, <1>5 DEF SigningInv

\* tqsl_converterRollBack and tqsl_endConverter together, on the way to a
\* phase in which p has no converter.
LEMMA EndKeeps ==
  ASSUME TypeOK, SigningInv, NEW p \in Procs, RollBackAndEnd(p),
         NEW l \in {"begin", "done"},
         pc' = [pc EXCEPT ![p] = l],
         \A q \in Procs \ {p} : out'[q] = out[q] /\ allow'[q] = allow[q],
         UNCHANGED <<lotw, files>>
  PROVE  SigningInv'
<1>1. /\ file' = [file EXCEPT ![p] = NoFile]
      /\ txn'  = [txn  EXCEPT ![p] = FALSE]
      /\ pend' = [pend EXCEPT ![p] = {}]
      /\ \A q \in Procs \ {p} : conv'[q] = conv[q]
      /\ db' = db
  BY DEF RollBackAndEnd, EndConverter, TypeOK
<1>2. \A g \in Gens : writer[g] # p => writer'[g] = writer[g]
  BY DEF RollBackAndEnd, EndConverter, TypeOK, SigningInv, TxnHoldsMutex
<1> QED
  BY <1>1, <1>2, ClosedKeeps

\* Every step of Signing keeps the invariant.
LEMMA InvStep == TypeOK /\ SigningInv /\ [Next]_vars => SigningInv'
<1> SUFFICES ASSUME TypeOK, SigningInv, [Next]_vars PROVE SigningInv'
  OBVIOUS
<1>1. CASE UNCHANGED vars
  BY <1>1 DEF vars, work, store, world, SigningInv, TxnHoldsMutex, PendIsNew,
    PendIsOut, HandedIsDelivered, RecordedWasDelivered, Working, Delivering
<1>2. ASSUME NEW p \in Procs, Step(p) PROVE SigningInv'
  <2>1. CASE GetLock(p)
    BY <2>1, QuietKeeps
      DEF GetLock, work, store, world, Goto, Working, Delivering, PCs, TypeOK,
            SigningInv, PendIsOut
  <2>2. CASE BeginConverter(p)
    BY <2>2, ClosedKeeps
      DEF BeginConverter, NewConverter, Goto, world, TypeOK
  <2>3. CASE BeginFails(p)
    BY <2>3, EndKeeps
      DEF BeginFails, world, Goto, Finish, TypeOK
  <2>4. CASE OpenEnv(p)
    <3>1. /\ cur' \in Gens /\ UNCHANGED <<conv, txn, pend, db, out, allow, lotw, files>>
          /\ pc' = [pc EXCEPT ![p] = "txnwait"]
          /\ file' = [file EXCEPT ![p] = cur']
      BY <2>4, BoundAssumption
        DEF OpenEnv, Goto, AfterRemoval, Gens, TypeOK, work, world
    <3>2. \A q \in Procs \ {p} : txn[q] => writer'[file[q]] = writer[file[q]]
      BY <2>4 DEF OpenEnv, SigningInv, TxnHoldsMutex, TypeOK
    <3>3. ~txn[p]
      BY <2>4 DEF OpenEnv, NeedsDb, SigningInv, TxnHoldsMutex, Gens, NoFile
    <3>4. TxnHoldsMutex'
      BY <3>1, <3>2, <3>3 DEF SigningInv, TxnHoldsMutex, TypeOK
    <3>5. PendIsNew'
      BY <3>1, <3>3 DEF SigningInv, PendIsNew, TypeOK
    <3>6. PendIsOut'
      BY <2>4, <3>1 DEF OpenEnv, NeedsDb, SigningInv, PendIsOut, TypeOK, Working, Delivering
    <3>7. HandedIsDelivered' /\ RecordedWasDelivered'
      BY <3>1 DEF SigningInv, HandedIsDelivered, RecordedWasDelivered, TypeOK
    <3> QED
      BY <3>4, <3>5, <3>6, <3>7 DEF SigningInv
  <2>5. CASE BeginTxn(p)
    <3>1. /\ file[p] \in Gens /\ writer[file[p]] = NoProc
          /\ UNCHANGED <<conv, file, pend, db, out, allow, lotw, files>>
          /\ pc' = [pc EXCEPT ![p] = "converting"]
          /\ writer' = [writer EXCEPT ![file[p]] = p]
          /\ txn' = [txn EXCEPT ![p] = TRUE]
      BY <2>5 DEF BeginTxn, Goto, work, world, SigningInv, TxnHoldsMutex
    <3>2. ~txn[p] /\ \A q \in Procs : txn[q] => file[q] # file[p]
      BY <3>1, ProcsAssumption DEF SigningInv, TxnHoldsMutex
    <3>3. TxnHoldsMutex'
      BY <3>1, <3>2 DEF SigningInv, TxnHoldsMutex, TypeOK
    <3>4. PendIsNew'
      BY <3>1, <3>2 DEF SigningInv, PendIsNew, TypeOK
    <3>5. HandedIsDelivered' /\ RecordedWasDelivered'
      BY <3>1 DEF SigningInv, HandedIsDelivered, RecordedWasDelivered, TypeOK
    <3>6. PendIsOut'
      BY <2>5, <3>1, <3>2 DEF BeginTxn, SigningInv, PendIsOut, TypeOK, Working, Delivering
    <3> QED
      BY <3>3, <3>4, <3>5, <3>6 DEF SigningInv
  <2>6. CASE OpenFails(p)
    BY <2>6, QuietKeeps
      DEF OpenFails, NeedsDb, world, Goto, Working, Delivering, PCs, TypeOK,
            SigningInv, PendIsOut
  <2>7. CASE SignRecord(p)
    <3> DEFINE x == Next1(p).qso
    <3>1. /\ UNCHANGED <<pc, conv, file, txn, db, writer, allow, lotw, files>>
          /\ pc[p] = "converting" /\ conv[p] = "open"
          /\ out' = [out EXCEPT ![p] = @ \cup {x}]
          /\ pend' = IF allow[p] THEN pend ELSE [pend EXCEPT ![p] = @ \cup {x}]
      BY <2>7 DEF SignRecord, HasRecord, Reading, world
    <3>0. ~allow[p] => txn[p] /\ x \notin db[file[p]]
      BY <2>7 DEF SignRecord, HasRecord, Reading, IsDuplicate, TypeOK
    <3> HIDE DEF x
    <3>2. TxnHoldsMutex'
      BY <3>1 DEF SigningInv, TxnHoldsMutex
    <3>3. PendIsNew'
      BY <3>0, <3>1 DEF SigningInv, PendIsNew, TypeOK
    <3>4. PendIsOut'
      BY <3>1 DEF SigningInv, PendIsOut, TypeOK, Working, Delivering
    <3>5. HandedIsDelivered' /\ RecordedWasDelivered'
      BY <3>1 DEF SigningInv, HandedIsDelivered, RecordedWasDelivered, TypeOK
    <3> QED
      BY <3>2, <3>3, <3>4, <3>5 DEF SigningInv
  <2>8. CASE FindDuplicate(p)
    BY <2>8, QuietKeeps
      DEF FindDuplicate, HasRecord, Reading, store, world, Goto, Working,
            Delivering, PCs, TypeOK, SigningInv, PendIsOut
  <2>9. CASE OutOfRange(p)
    BY <2>9, QuietKeeps
      DEF OutOfRange, HasRecord, Reading, store, world, Goto, Working,
            Delivering, PCs, TypeOK, SigningInv, PendIsOut
  <2>10. CASE BadRecord(p)
    BY <2>10, QuietKeeps
      DEF BadRecord, HasRecord, Reading, store, world, Goto, Working,
            Delivering, PCs, TypeOK, SigningInv, PendIsOut
  <2>11. CASE DbRefuses(p)
    BY <2>11, QuietKeeps
      DEF DbRefuses, HasRecord, Reading, store, world, Goto, Working,
            Delivering, PCs, TypeOK, SigningInv, PendIsOut
  <2>12. CASE DbBreaks(p)
    <3>1. /\ UNCHANGED <<db, out, allow, lotw, files>>
          /\ pc' = [pc EXCEPT ![p] = "error"]
          /\ conv' = [conv EXCEPT ![p] = "closed"]
          /\ file' = [file EXCEPT ![p] = NoFile]
          /\ txn'  = [txn  EXCEPT ![p] = FALSE]
          /\ pend' = [pend EXCEPT ![p] = {}]
          /\ writer' = [writer EXCEPT ![file[p]] = NoProc]
          /\ txn[p]
      BY <2>12 DEF DbBreaks, HasRecord, Reading, Goto, world
    <3>2. \A q \in Procs \ {p} : txn[q] => file[q] # file[p]
      BY <3>1 DEF SigningInv, TxnHoldsMutex
    <3>3. TxnHoldsMutex'
      BY <3>1, <3>2 DEF SigningInv, TxnHoldsMutex, TypeOK
    <3>4. PendIsNew'
      BY <3>1 DEF SigningInv, PendIsNew, TypeOK
    <3>5. PendIsOut'
      BY <3>1 DEF SigningInv, PendIsOut, TypeOK, Working, Delivering
    <3>6. HandedIsDelivered' /\ RecordedWasDelivered'
      BY <3>1 DEF SigningInv, HandedIsDelivered, RecordedWasDelivered, TypeOK
    <3> QED
      BY <3>3, <3>4, <3>5, <3>6 DEF SigningInv
  <2>13. CASE ReadClosed(p)
    BY <2>13, QuietKeeps
      DEF ReadClosed, store, world, Goto, Working, Delivering, PCs, TypeOK,
            SigningInv, PendIsOut
  <2>14. CASE KeyUnavailable(p)
    BY <2>14, EndKeeps
      DEF KeyUnavailable, world, Goto, Finish, TypeOK
  <2>15. CASE EndOfLog(p)
    BY <2>15, QuietKeeps
      DEF EndOfLog, Reading, work, store, world, Goto, Working, Delivering,
            PCs, TypeOK, SigningInv, PendIsOut
  <2>16. CASE HandleError(p)
    BY <2>16, QuietKeeps
      DEF HandleError, store, world, Goto, Working, Delivering, PCs, TypeOK,
            SigningInv, PendIsOut
  <2>17. CASE IgnoreErrors(p)
    BY <2>17, QuietKeeps
      DEF IgnoreErrors, store, world, Goto, Working, Delivering, PCs, TypeOK,
            SigningInv, PendIsOut
  <2>18. CASE CancelOnError(p)
    BY <2>18, QuietKeeps
      DEF CancelOnError, work, store, world, Goto, Working, Delivering, PCs,
            TypeOK, SigningInv, PendIsOut
  <2>19. CASE Abandon(p)
    BY <2>19, EndKeeps
      DEF Abandon, world, Goto, Finish, TypeOK
  <2>20. CASE AbortUnsigned(p)
    <3>1. /\ UNCHANGED <<conv, file, txn, pend, db, writer, allow, lotw, files>>
          /\ pc' = [pc EXCEPT ![p] = "done"]
          /\ out' = [out EXCEPT ![p] = {}]
      BY <2>20 DEF AbortUnsigned, Finish, Goto, store, world
    <3>2. TxnHoldsMutex' /\ PendIsNew'
      BY <3>1 DEF SigningInv, TxnHoldsMutex, PendIsNew, TypeOK
    <3>3. PendIsOut'
      BY <3>1 DEF SigningInv, PendIsOut, TypeOK, Working, Delivering
    <3>4. HandedIsDelivered' /\ RecordedWasDelivered'
      BY <3>1 DEF SigningInv, HandedIsDelivered, RecordedWasDelivered, TypeOK
    <3> QED
      BY <3>2, <3>3, <3>4 DEF SigningInv
  <2>21. CASE AskAboutDupes(p)
    BY <2>21, QuietKeeps
      DEF AskAboutDupes, work, store, world, Goto, Working, Delivering, PCs,
            TypeOK, SigningInv, PendIsOut
  <2>22. CASE RefuseDupes(p)
    BY <2>22, EndKeeps
      DEF RefuseDupes, world, Goto, Finish, TypeOK
  <2>23. CASE RestartAllowingDupes(p)
    BY <2>23, EndKeeps
      DEF RestartAllowingDupes, world, Goto, Finish, TypeOK
  <2>24. CASE ReturnOutput(p)
    <3>1. PICK l \in {"done", "deliver"} : pc' = [pc EXCEPT ![p] = l]
      BY <2>24 DEF ReturnOutput, Finish, Goto
    <3>2. CASE out[p] = {} /\ seen[p] = {}
      BY <2>24, <3>1, <3>2, EndKeeps DEF ReturnOutput, Finish, Goto, work, world
    <3>3. CASE ~(out[p] = {} /\ seen[p] = {})
      BY <2>24, <3>1, <3>3, QuietKeeps
        DEF ReturnOutput, work, store, world, Working, Delivering, PCs, TypeOK,
            SigningInv, PendIsOut
    <3> QED
      BY <3>2, <3>3
  <2>25. CASE WriteFile(p)
    BY <2>25, QuietKeeps
      DEF WriteFile, work, store, Goto, Working, Delivering, PCs, TypeOK,
            SigningInv, PendIsOut
  <2>26. CASE WriteFails(p)
    BY <2>26, EndKeeps
      DEF WriteFails, work, world, Goto, Finish, TypeOK
  <2>27. CASE Compress(p)
    BY <2>27, QuietKeeps
      DEF Compress, work, store, world, Goto, Working, Delivering, PCs,
            TypeOK, SigningInv, PendIsOut
  <2>28. CASE CompressFails(p)
    BY <2>28, QuietKeeps
      DEF CompressFails, Finish, work, store, world, Goto, Working,
            Delivering, PCs, TypeOK, SigningInv, PendIsOut
  <2>29. CASE PostAccepted(p)
    BY <2>29, QuietKeeps
      DEF PostAccepted, work, store, Goto, Working, Delivering, PCs, TypeOK,
            SigningInv, PendIsOut
  <2>30. CASE PostFails(p)
    BY <2>30, QuietKeeps
      DEF PostFails, work, store, Goto, Working, Delivering, PCs, TypeOK,
            SigningInv, PendIsOut
  <2>31. CASE PostStopped(p)
    BY <2>31, QuietKeeps
      DEF PostStopped, work, store, Goto, Working, Delivering, PCs, TypeOK,
            SigningInv, PendIsOut
  <2>32. CASE PeerUnverified(p)
    BY <2>32, QuietKeeps
      DEF PeerUnverified, store, world, Goto, Working, Delivering, PCs,
            TypeOK, SigningInv, PendIsOut
  <2>33. CASE RetryUpload(p)
    BY <2>33, QuietKeeps
      DEF RetryUpload, store, world, Goto, Working, Delivering, PCs, TypeOK,
            SigningInv, PendIsOut
  <2>34. CASE GiveUpUpload(p)
    BY <2>34, QuietKeeps
      DEF GiveUpUpload, work, store, world, Goto, Working, Delivering, PCs,
            TypeOK, SigningInv, PendIsOut
  <2>35. CASE CommitJob(p)
    <3>1. conv[p] = "open" /\ pend[p] = IF allow[p] THEN {} ELSE out[p]
      BY <2>35 DEF CommitJob, SigningInv, PendIsOut, Working, Delivering
    <3>2. out[p] \subseteq lotw \cup files
      BY <2>35 DEF CommitJob, SigningInv, HandedIsDelivered
    <3>3. /\ pc' = [pc EXCEPT ![p] = "done"]
          /\ \A q \in Procs \ {p} : txn[q] => txn'[q] /\ file'[q] = file[q] /\ pend'[q] = pend[q]
          /\ UNCHANGED <<out, allow, lotw, files>>
      BY <2>35 DEF CommitJob, CommitAndEnd, EndConverter, Finish, Goto, work, world, TypeOK
    <3>4. CASE txn[p] /\ db' # db
      <4>1. /\ file[p] \in Gens /\ writer[file[p]] = p
            /\ db' = [db EXCEPT ![file[p]] = @ \cup pend[p]]
            /\ writer' = [writer EXCEPT ![file[p]] = NoProc]
            /\ conv' = [conv EXCEPT ![p] = "null"]
            /\ file' = [file EXCEPT ![p] = NoFile]
            /\ txn'  = [txn  EXCEPT ![p] = FALSE]
            /\ pend' = [pend EXCEPT ![p] = {}]
        BY <2>35, <3>4 DEF CommitJob, CommitAndEnd, EndConverter, SigningInv, TxnHoldsMutex
      <4>2. \A q \in Procs \ {p} : txn[q] => file[q] # file[p]
        BY <4>1 DEF SigningInv, TxnHoldsMutex
      <4>3. TxnHoldsMutex'
        BY <3>3, <4>1, <4>2 DEF SigningInv, TxnHoldsMutex, TypeOK
      <4>4. PendIsNew'
        BY <4>1, <4>2 DEF SigningInv, PendIsNew, TxnHoldsMutex, TypeOK
      <4>5. PendIsOut'
        BY <3>3, <4>1 DEF SigningInv, PendIsOut, TypeOK, Working, Delivering
      <4>6. HandedIsDelivered'
        BY <3>3 DEF SigningInv, HandedIsDelivered, TypeOK
      <4>7. RecordedWasDelivered'
        BY <3>1, <3>2, <3>3, <4>1 DEF SigningInv, RecordedWasDelivered, TypeOK
      <4> QED
        BY <4>3, <4>4, <4>5, <4>6, <4>7 DEF SigningInv
    <3>5. CASE ~txn[p] \/ db' = db
      <4>1. RollBackAndEnd(p)
        BY <2>35, <3>5 DEF CommitJob, CommitAndEnd, RollBackAndEnd
      <4> QED
        BY <3>3, <4>1, EndKeeps
    <3> QED
      BY <3>4, <3>5
  <2>36. CASE RollBackJob(p)
    BY <2>36, EndKeeps
      DEF RollBackJob, work, world, Goto, Finish, TypeOK
  <2>37. CASE ExitNow(p)
    BY <2>37, ClosedKeeps
      DEF ExitNow, ProcessEnds, ForgetJob, world, TypeOK
  <2>38. CASE BackToWindow(p)
    <3>1. /\ UNCHANGED <<conv, file, txn, pend, db, writer, lotw, files>>
          /\ pc' = [pc EXCEPT ![p] = "idle"]
          /\ out' = [out EXCEPT ![p] = {}]
          /\ allow' = [allow EXCEPT ![p] = FALSE]
      BY <2>38 DEF BackToWindow, ForgetJob, store, world
    <3>2. TxnHoldsMutex' /\ PendIsNew'
      BY <3>1 DEF SigningInv, TxnHoldsMutex, PendIsNew, TypeOK
    <3>3. PendIsOut'
      BY <3>1 DEF SigningInv, PendIsOut, TypeOK, Working, Delivering
    <3>4. HandedIsDelivered' /\ RecordedWasDelivered'
      BY <3>1 DEF SigningInv, HandedIsDelivered, RecordedWasDelivered, TypeOK
    <3> QED
      BY <3>2, <3>3, <3>4 DEF SigningInv
  <2> QED
    BY <1>2, <2>1, <2>2, <2>3, <2>4, <2>5, <2>6, <2>7, <2>8, <2>9, <2>10,
         <2>11, <2>12, <2>13, <2>14, <2>15, <2>16, <2>17, <2>18, <2>19, <2>20,
         <2>21, <2>22, <2>23, <2>24, <2>25, <2>26, <2>27, <2>28, <2>29, <2>30,
         <2>31, <2>32, <2>33, <2>34, <2>35, <2>36, <2>37, <2>38 DEF Step
<1>3. ASSUME NEW p \in Procs, MayDo(p) PROVE SigningInv'
  <2>1. CASE Refuse(p)
    BY <2>1, QuietKeeps
      DEF Refuse, NewJob, Finish, store, world, Goto, Working, Delivering,
            PCs, TypeOK, SigningInv, PendIsOut
  <2>2. CASE StartSigning(p)
    BY <2>2, QuietKeeps
      DEF StartSigning, NewJob, store, world, Goto, Working, Delivering, PCs,
            TypeOK, SigningInv, PendIsOut
  <2>3. CASE LockBusy(p)
    BY <2>3, QuietKeeps
      DEF LockBusy, NewJob, Finish, store, world, Goto, Working, Delivering,
            PCs, TypeOK, SigningInv, PendIsOut
  <2>4. CASE LockWait(p)
    BY <2>4, QuietKeeps
      DEF LockWait, NewJob, store, world, Goto, Working, Delivering, PCs,
            TypeOK, SigningInv, PendIsOut
  <2>5. CASE DateRangeCancelled(p)
    BY <2>5, ClosedKeeps
      DEF DateRangeCancelled, NewConverter, work, world, Goto, Finish, TypeOK
  <2>6. CASE UserCancels(p)
    BY <2>6, QuietKeeps
      DEF UserCancels, work, store, world, Goto, Working, Delivering, PCs,
            TypeOK, SigningInv, PendIsOut
  <2>7. CASE OnExit(p)
    BY <2>7, ClosedKeeps
      DEF OnExit, ProcessEnds, ForgetJob, world, TypeOK
  <2>8. CASE Crash(p)
    BY <2>8, ClosedKeeps
      DEF Crash, ProcessEnds, ForgetJob, world, TypeOK
  <2> QED
    BY <1>3, <2>1, <2>2, <2>3, <2>4, <2>5, <2>6, <2>7, <2>8 DEF MayDo
<1> QED
  BY <1>1, <1>2, <1>3 DEF Next

\* Whatever the copies do, transactions exclude one another, hold exactly the
\* new keys of the output, and are committed only after it is handed over.
THEOREM SigningInvariant == Spec => []SigningInv
<1>1. Init => SigningInv
  BY DEF Init, SigningInv, TxnHoldsMutex, PendIsNew, PendIsOut,
    HandedIsDelivered, RecordedWasDelivered, Working, Delivering
<1>2. TypeOK /\ SigningInv /\ [Next]_vars => SigningInv'
  BY InvStep
<1> QED
  BY <1>1, <1>2, TypeCorrect, PTL DEF Spec

\* tqsl_converterCommit never records a QSO that was not handed over, whatever
\* fails, crashes or is removed.
THEOREM RecordedIsDelivered == Spec => []RecordedWasDelivered
<1>1. SigningInv => RecordedWasDelivered
  BY DEF SigningInv
<1> QED
  BY <1>1, SigningInvariant, PTL

\* In SigningInv a copy that is handing over checked records has them all in
\* its transaction.
LEMMA DeliveringHoldsTxn ==
  ASSUME TypeOK, SigningInv, NEW p \in Procs, Delivering(p), ~allow[p], out[p] # {}
  PROVE  txn[p] /\ pend[p] = out[p] /\ file[p] \in Gens /\ writer[file[p]] = p
<1>1. pend[p] = out[p]
  BY DEF SigningInv, PendIsOut, Working
<1>2. txn[p]
  BY <1>1 DEF SigningInv, PendIsNew, TypeOK
<1> QED
  BY <1>1, <1>2 DEF SigningInv, TxnHoldsMutex

\* The duplicate check is still true when the log is handed over and recorded,
\* although the lock file was given up before.
THEOREM CheckStaysFresh == Spec => []DupCheckFresh
<1>1. TypeOK /\ SigningInv => DupCheckFresh
  <2> SUFFICES ASSUME TypeOK, SigningInv, NEW p \in Procs, Delivering(p), ~allow[p]
               PROVE  out[p] \cap db[file[p]] = {}
    BY DEF DupCheckFresh
  <2>1. CASE out[p] = {}
    BY <2>1
  <2>2. CASE out[p] # {}
    <3>1. txn[p] /\ pend[p] = out[p]
      BY <2>2, DeliveringHoldsTxn
    <3> QED
      BY <3>1 DEF SigningInv, PendIsNew
  <2> QED
    BY <2>1, <2>2
<1> QED
  BY <1>1, SigningInvariant, TypeCorrect, PTL

\* No two copies hand over the same QSO checked against the same database.
THEOREM ClaimsAreDisjoint == Spec => []NoSharedClaim
<1>1. TypeOK /\ SigningInv => NoSharedClaim
  <2> SUFFICES ASSUME TypeOK, SigningInv, NEW p \in Procs, NEW q \in Procs, p # q,
                      Delivering(p), ~allow[p], Delivering(q), ~allow[q],
                      file[p] = file[q]
               PROVE  out[p] \cap out[q] = {}
    BY DEF NoSharedClaim
  <2>1. CASE out[p] = {} \/ out[q] = {}
    BY <2>1
  <2>2. CASE out[p] # {} /\ out[q] # {}
    <3>1. writer[file[p]] = p /\ writer[file[q]] = q
      BY <2>2, DeliveringHoldsTxn
    <3> QED
      BY <3>1
  <2> QED
    BY <2>1, <2>2
<1> QED
  BY <1>1, SigningInvariant, TypeCorrect, PTL

-----------------------------------------------------------------------------
(* What a job reports.  The exit status of a copy follows from what it did   *)
(* alone, so the invariant is one of each copy by itself.                   *)

\* Record r of the log of p is still to be read, or was signed, or something
\* was noted that the exit status tells.
AccountedFor(p, r) ==
    \/ \E i \in 1..Len(rest[p]) : rest[p][i] = r
    \/ r.kind = "good" /\ r.qso \in out[p]
    \/ seen[p] # {}

LogAccountedFor(p) == \A i \in 1..Len(job[p].log) : AccountedFor(p, job[p].log[i])

\* What a step of a copy leaves true of its own job.
JobInv(p) ==
    /\ status[p] \in {"SUCCESS", "QSOS_SUPPRESSED"} => pc[p] = "done"
    /\ Working(p) => LogAccountedFor(p)
    /\ Delivering(p) \/ pc[p] \in {"finished", "dupes"} => rest[p] = << >>
    /\ pc[p] \in {"uploading", "retry"} => job[p].upload
    /\ pc[p] = "handed" /\ ~job[p].upload => out[p] \subseteq files
    /\ pc[p] = "done" /\ ~job[p].upload /\ status[p] = "SUCCESS" =>
          /\ out[p] \subseteq files
          /\ \A i \in 1..Len(job[p].log) :
                job[p].log[i].kind = "good" /\ job[p].log[i].qso \in out[p]

JobsInv == \A p \in Procs : JobInv(p)

\* A step of p writes only its own part of the variables that describe jobs,
\* and takes back nothing that was written to a signed log or recorded.
LEMMA OnlyOwnJob ==
  ASSUME TypeOK, NEW p \in Procs, Step(p) \/ MayDo(p)
  PROVE  /\ \A q \in Procs \ {p} :
               /\ pc'[q] = pc[q] /\ job'[q] = job[q] /\ rest'[q] = rest[q]
               /\ out'[q] = out[q] /\ seen'[q] = seen[q] /\ status'[q] = status[q]
               /\ allow'[q] = allow[q]
         /\ files \subseteq files'
<1> DEFINE Goal ==
      /\ \A q \in Procs \ {p} :
            /\ pc'[q] = pc[q] /\ job'[q] = job[q] /\ rest'[q] = rest[q]
            /\ out'[q] = out[q] /\ seen'[q] = seen[q] /\ status'[q] = status[q]
            /\ allow'[q] = allow[q]
      /\ files \subseteq files'
<1> USE DEF TypeOK
<1>1. ASSUME Step(p) PROVE Goal
  <2>1. CASE GetLock(p)
    BY <2>1 DEF GetLock, Goto, work, store, world
  <2>2. CASE BeginConverter(p)
    BY <2>2 DEF BeginConverter, Goto, NewConverter, world
  <2>3. CASE BeginFails(p)
    BY <2>3 DEF BeginFails, Finish, Goto, Unlock, RollBackAndEnd, EndConverter,
        world
  <2>4. CASE OpenEnv(p)
    BY <2>4 DEF OpenEnv, Goto, NeedsDb, work, world, AfterRemoval
  <2>5. CASE BeginTxn(p)
    BY <2>5 DEF BeginTxn, Goto, work, world
  <2>6. CASE OpenFails(p)
    BY <2>6 DEF OpenFails, Goto, NeedsDb, Note, world, AfterRemoval
  <2>7. CASE SignRecord(p)
    BY <2>7 DEF SignRecord, HasRecord, Reading, Next1, Consume, IsDuplicate, world
  <2>8. CASE FindDuplicate(p)
    BY <2>8 DEF FindDuplicate, Goto, Note, HasRecord, Reading, Next1, Consume,
        IsDuplicate, store, world
  <2>9. CASE OutOfRange(p)
    BY <2>9 DEF OutOfRange, Note, HasRecord, Reading, Next1, Consume, store, world
  <2>10. CASE BadRecord(p)
    BY <2>10 DEF BadRecord, Goto, Note, HasRecord, Reading, Next1, Consume, store,
        world
  <2>11. CASE DbRefuses(p)
    BY <2>11 DEF DbRefuses, Goto, Note, HasRecord, Reading, Next1, Consume, store,
        world
  <2>12. CASE DbBreaks(p)
    BY <2>12 DEF DbBreaks, Goto, Note, HasRecord, Reading, Next1, Consume, world
  <2>13. CASE ReadClosed(p)
    BY <2>13 DEF ReadClosed, Goto, Note, store, world
  <2>14. CASE KeyUnavailable(p)
    BY <2>14 DEF KeyUnavailable, Finish, Goto, Unlock, RollBackAndEnd,
        EndConverter, HasRecord, Reading, Next1, world
  <2>15. CASE EndOfLog(p)
    BY <2>15 DEF EndOfLog, Goto, Reading, work, store, world
  <2>16. CASE HandleError(p)
    BY <2>16 DEF HandleError, Goto, store, world
  <2>17. CASE IgnoreErrors(p)
    BY <2>17 DEF IgnoreErrors, Goto, store, world
  <2>18. CASE CancelOnError(p)
    BY <2>18 DEF CancelOnError, Goto, work, store, world
  <2>19. CASE Abandon(p)
    BY <2>19 DEF Abandon, Finish, Goto, Unlock, RollBackAndEnd, EndConverter,
        world
  <2>20. CASE AbortUnsigned(p)
    BY <2>20 DEF AbortUnsigned, Finish, Goto, Unlock, store, world
  <2>21. CASE AskAboutDupes(p)
    BY <2>21 DEF AskAboutDupes, Goto, work, store, world
  <2>22. CASE RefuseDupes(p)
    BY <2>22 DEF RefuseDupes, Finish, Goto, Unlock, RollBackAndEnd, EndConverter,
        world
  <2>23. CASE RestartAllowingDupes(p)
    BY <2>23 DEF RestartAllowingDupes, Goto, RollBackAndEnd, EndConverter, world
  <2>24. CASE ReturnOutput(p)
    BY <2>24 DEF ReturnOutput, Goto, Finish, Unlock, RollBackAndEnd, EndConverter,
        work, store, world
  <2>25. CASE WriteFile(p)
    BY <2>25 DEF WriteFile, Goto, work, store
  <2>26. CASE WriteFails(p)
    BY <2>26 DEF WriteFails, Finish, Goto, RollBackAndEnd, EndConverter, work,
        world
  <2>27. CASE Compress(p)
    BY <2>27 DEF Compress, Goto, work, store, world
  <2>28. CASE CompressFails(p)
    BY <2>28 DEF CompressFails, Finish, Goto, work, store, world
  <2>29. CASE PostAccepted(p)
    BY <2>29 DEF PostAccepted, Goto, work, store
  <2>30. CASE PostFails(p)
    BY <2>30 DEF PostFails, Goto, work, store
  <2>31. CASE PostStopped(p)
    BY <2>31 DEF PostStopped, Goto, work, store
  <2>32. CASE PeerUnverified(p)
    BY <2>32 DEF PeerUnverified, store, world
  <2>33. CASE RetryUpload(p)
    BY <2>33 DEF RetryUpload, Goto, store, world
  <2>34. CASE GiveUpUpload(p)
    BY <2>34 DEF GiveUpUpload, Goto, work, store, world
  <2>35. CASE CommitJob(p)
    BY <2>35 DEF CommitJob, Finish, Goto, CommitAndEnd, EndConverter, work, world
  <2>36. CASE RollBackJob(p)
    BY <2>36 DEF RollBackJob, Goto, RollBackAndEnd, EndConverter, work, world
  <2>37. CASE ExitNow(p)
    BY <2>37 DEF ExitNow, ProcessEnds, Unlock, ForgetJob, world
  <2>38. CASE BackToWindow(p)
    BY <2>38 DEF BackToWindow, ForgetJob, world, store
  <2> QED
    BY <1>1, <2>1, <2>2, <2>3, <2>4, <2>5, <2>6, <2>7, <2>8, <2>9, <2>10, <2>11,
        <2>12, <2>13, <2>14, <2>15, <2>16, <2>17, <2>18, <2>19, <2>20, <2>21,
        <2>22, <2>23, <2>24, <2>25, <2>26, <2>27, <2>28, <2>29, <2>30, <2>31,
        <2>32, <2>33, <2>34, <2>35, <2>36, <2>37, <2>38 DEF Step
<1>2. ASSUME MayDo(p) PROVE Goal
  <2>1. CASE Refuse(p)
    BY <2>1 DEF Refuse, Finish, Goto, NewJob, store, world
  <2>2. CASE StartSigning(p)
    BY <2>2 DEF StartSigning, Goto, NewJob, store, world
  <2>3. CASE LockBusy(p)
    BY <2>3 DEF LockBusy, Finish, Goto, NewJob, store, world
  <2>4. CASE LockWait(p)
    BY <2>4 DEF LockWait, Goto, NewJob, store, world
  <2>5. CASE DateRangeCancelled(p)
    BY <2>5 DEF DateRangeCancelled, Finish, Goto, Unlock, NewConverter, work,
        world
  <2>6. CASE UserCancels(p)
    BY <2>6 DEF UserCancels, Goto, work, store, world
  <2>7. CASE OnExit(p)
    BY <2>7 DEF OnExit, ProcessEnds, Unlock, ForgetJob, world
  <2>8. CASE Crash(p)
    BY <2>8 DEF Crash, ProcessEnds, Unlock, ForgetJob, world
  <2> QED
    BY <1>2, <2>1, <2>2, <2>3, <2>4, <2>5, <2>6, <2>7, <2>8 DEF MayDo
<1> QED
  BY <1>1, <1>2

\* A step that leaves the log, its unread rest and the output of p alone keeps
\* every record accounted for.
LEMMA ToldStill ==
  ASSUME NEW p \in Procs, LogAccountedFor(p), job'[p] = job[p], rest'[p] = rest[p],
         out'[p] = out[p], seen[p] \subseteq seen'[p]
  PROVE  LogAccountedFor(p)'
BY DEF LogAccountedFor, AccountedFor

\* At the restart label the whole log is still to be read.
LEMMA FreshLog ==
  ASSUME NEW p \in Procs, job'[p] = job[p], rest'[p] = job[p].log
  PROVE  LogAccountedFor(p)'
BY DEF LogAccountedFor, AccountedFor

\* Reading a record keeps the log accounted for, if the record read was signed
\* or something was noted.
LEMMA ReadOneRecord ==
  ASSUME TypeOK, NEW p \in Procs, NEW k, HasRecord(p, k), Consume(p),
         LogAccountedFor(p), job'[p] = job[p], out[p] \subseteq out'[p],
         seen[p] \subseteq seen'[p],
         \/ Next1(p).kind = "good" /\ Next1(p).qso \in out'[p]
         \/ seen'[p] # {}
  PROVE  LogAccountedFor(p)'
<1>1. rest[p] \in Seq(Records) /\ rest[p] # << >> /\ rest'[p] = Tail(rest[p])
  BY DEF TypeOK, HasRecord, Consume
<1> SUFFICES ASSUME NEW n \in 1..Len(job[p].log)
             PROVE  AccountedFor(p, job[p].log[n])'
  BY DEF LogAccountedFor
<1> DEFINE r == job[p].log[n]
<1>2. AccountedFor(p, r)
  BY DEF LogAccountedFor
<1>3. job'[p].log[n] = r
  OBVIOUS
<1> HIDE DEF r
<1>4. CASE \E i \in 1..Len(rest[p]) : rest[p][i] = r
  <2>1. PICK i \in 1..Len(rest[p]) : rest[p][i] = r
    BY <1>4
  <2>2. CASE i = 1
    BY <2>1, <2>2, <1>1, <1>3 DEF Next1, AccountedFor
  <2>3. CASE i # 1
    <3>1. i - 1 \in 1..Len(rest'[p]) /\ rest'[p][i - 1] = r
      BY <2>1, <2>3, <1>1
    <3> QED
      BY <3>1, <1>3 DEF AccountedFor
  <2> QED
    BY <2>2, <2>3
<1>5. CASE ~ \E i \in 1..Len(rest[p]) : rest[p][i] = r
  BY <1>2, <1>3, <1>5 DEF AccountedFor
<1> QED
  BY <1>4, <1>5

\* A step of p keeps the invariant of p.
LEMMA JobStep ==
  ASSUME TypeOK, SigningInv, NEW p \in Procs, JobInv(p), Step(p) \/ MayDo(p)
  PROVE  JobInv(p)'
<1> USE DEF TypeOK, JobInv, Working, Delivering
<1>1. ASSUME Step(p) PROVE JobInv(p)'
  <2>1. CASE GetLock(p)
    BY <2>1, ToldStill DEF GetLock, Goto, work, store, world
  <2>2. CASE BeginConverter(p)
    BY <2>2, FreshLog DEF BeginConverter, Goto, NewConverter, world
  <2>3. CASE BeginFails(p)
    BY <2>3, ToldStill DEF BeginFails, Finish, Goto, Unlock, RollBackAndEnd,
        EndConverter, world
  <2>4. CASE OpenEnv(p)
    BY <2>4, ToldStill DEF OpenEnv, Goto, NeedsDb, work, world, AfterRemoval
  <2>5. CASE BeginTxn(p)
    BY <2>5, ToldStill DEF BeginTxn, Goto, work, world
  <2>6. CASE OpenFails(p)
    BY <2>6, ToldStill DEF OpenFails, Goto, NeedsDb, Note, world, AfterRemoval
  <2>7. CASE SignRecord(p)
    BY <2>7, ReadOneRecord DEF SignRecord, HasRecord, Reading, IsDuplicate, world
  <2>8. CASE FindDuplicate(p)
    BY <2>8, ReadOneRecord, ZenonT(60) DEF FindDuplicate, Goto, Note, HasRecord, Reading,
        IsDuplicate, store, world
  <2>9. CASE OutOfRange(p)
    BY <2>9, ReadOneRecord DEF OutOfRange, Note, HasRecord, Reading, store, world
  <2>10. CASE BadRecord(p)
    BY <2>10, ReadOneRecord DEF BadRecord, Goto, Note, HasRecord, Reading, store,
        world
  <2>11. CASE DbRefuses(p)
    BY <2>11, ReadOneRecord DEF DbRefuses, Goto, Note, HasRecord, Reading, store,
        world
  <2>12. CASE DbBreaks(p)
    BY <2>12, ReadOneRecord DEF DbBreaks, Goto, Note, HasRecord, Reading, world
  <2>13. CASE ReadClosed(p)
    BY <2>13, ToldStill DEF ReadClosed, Goto, Note, store, world
  <2>14. CASE KeyUnavailable(p)
    BY <2>14, ToldStill DEF KeyUnavailable, Finish, Goto, Unlock, RollBackAndEnd,
        EndConverter, HasRecord, Reading, Next1, world
  <2>15. CASE EndOfLog(p)
    BY <2>15, ToldStill DEF EndOfLog, Goto, Reading, work, store, world
  <2>16. CASE HandleError(p)
    BY <2>16, ToldStill DEF HandleError, Goto, store, world
  <2>17. CASE IgnoreErrors(p)
    BY <2>17, ToldStill DEF IgnoreErrors, Goto, store, world
  <2>18. CASE CancelOnError(p)
    BY <2>18, ToldStill DEF CancelOnError, Goto, work, store, world
  <2>19. CASE Abandon(p)
    BY <2>19, ToldStill DEF Abandon, Finish, Goto, Unlock, RollBackAndEnd,
        EndConverter, world
  <2>20. CASE AbortUnsigned(p)
    BY <2>20, ToldStill DEF AbortUnsigned, Finish, Goto, Unlock, store, world
  <2>21. CASE AskAboutDupes(p)
    BY <2>21, ToldStill DEF AskAboutDupes, Goto, work, store, world
  <2>22. CASE RefuseDupes(p)
    BY <2>22, ToldStill DEF RefuseDupes, Finish, Goto, Unlock, RollBackAndEnd,
        EndConverter, world
  <2>23. CASE RestartAllowingDupes(p)
    BY <2>23, ToldStill DEF RestartAllowingDupes, Goto, RollBackAndEnd,
        EndConverter, world
  <2>24. CASE ReturnOutput(p)
    BY <2>24, ToldStill DEF ReturnOutput, Goto, Finish, Unlock, RollBackAndEnd,
        EndConverter, work, store, world
  <2>25. CASE WriteFile(p)
    BY <2>25, ToldStill DEF WriteFile, Goto, work, store
  <2>26. CASE WriteFails(p)
    BY <2>26, ToldStill DEF WriteFails, Finish, Goto, RollBackAndEnd, EndConverter,
        work, world
  <2>27. CASE Compress(p)
    BY <2>27, ToldStill DEF Compress, Goto, work, store, world
  <2>28. CASE CompressFails(p)
    BY <2>28, ToldStill DEF CompressFails, Finish, Goto, work, store, world
  <2>29. CASE PostAccepted(p)
    BY <2>29, ToldStill DEF PostAccepted, Goto, work, store
  <2>30. CASE PostFails(p)
    BY <2>30, ToldStill DEF PostFails, Goto, work, store
  <2>31. CASE PostStopped(p)
    BY <2>31, ToldStill DEF PostStopped, Goto, work, store
  <2>32. CASE PeerUnverified(p)
    BY <2>32, ToldStill DEF PeerUnverified, store, world
  <2>33. CASE RetryUpload(p)
    BY <2>33, ToldStill DEF RetryUpload, Goto, store, world
  <2>34. CASE GiveUpUpload(p)
    BY <2>34, ToldStill DEF GiveUpUpload, Goto, work, store, world
  <2>35. CASE CommitJob(p)
    <3>1. /\ pc[p] = "handed" /\ pc'[p] = "done"
          /\ job'[p] = job[p] /\ out'[p] = out[p] /\ files' = files
      BY <2>35 DEF CommitJob, Finish, Goto, work, world
    <3>2. CASE ~job[p].upload /\ seen[p] = {}
      <4>1. \A i \in 1..Len(job[p].log) :
                job[p].log[i].kind = "good" /\ job[p].log[i].qso \in out[p]
        <5>1. LogAccountedFor(p) /\ rest[p] = << >>
          BY <3>1
        <5> QED
          BY <3>2, <5>1 DEF LogAccountedFor, AccountedFor
      <4> QED
        BY <3>1, <3>2, <4>1
    <3>3. CASE ~(~job[p].upload /\ seen[p] = {})
      <4>1. job[p].upload \/ status'[p] = "QSOS_SUPPRESSED"
        BY <2>35, <3>3 DEF CommitJob, Finish
      <4> QED
        BY <3>1, <4>1
    <3> QED
      BY <3>2, <3>3
  <2>36. CASE RollBackJob(p)
    BY <2>36, ToldStill DEF RollBackJob, Goto, RollBackAndEnd, EndConverter, work,
        world
  <2>37. CASE ExitNow(p)
    BY <2>37, ToldStill DEF ExitNow, ProcessEnds, Unlock, ForgetJob, world
  <2>38. CASE BackToWindow(p)
    BY <2>38, ToldStill DEF BackToWindow, ForgetJob, world, store
  <2> QED
    BY <1>1, <2>1, <2>2, <2>3, <2>4, <2>5, <2>6, <2>7, <2>8, <2>9, <2>10, <2>11,
        <2>12, <2>13, <2>14, <2>15, <2>16, <2>17, <2>18, <2>19, <2>20, <2>21,
        <2>22, <2>23, <2>24, <2>25, <2>26, <2>27, <2>28, <2>29, <2>30, <2>31,
        <2>32, <2>33, <2>34, <2>35, <2>36, <2>37, <2>38 DEF Step
<1>2. ASSUME MayDo(p) PROVE JobInv(p)'
  <2>1. CASE Refuse(p)
    BY <2>1, ToldStill DEF Refuse, Finish, Goto, NewJob, store, world
  <2>2. CASE StartSigning(p)
    BY <2>2, ToldStill DEF StartSigning, Goto, NewJob, store, world
  <2>3. CASE LockBusy(p)
    BY <2>3, ToldStill DEF LockBusy, Finish, Goto, NewJob, store, world
  <2>4. CASE LockWait(p)
    BY <2>4, ToldStill DEF LockWait, Goto, NewJob, store, world
  <2>5. CASE DateRangeCancelled(p)
    BY <2>5, ToldStill DEF DateRangeCancelled, Finish, Goto, Unlock, NewConverter,
        work, world
  <2>6. CASE UserCancels(p)
    BY <2>6, ToldStill DEF UserCancels, Goto, work, store, world
  <2>7. CASE OnExit(p)
    BY <2>7, ToldStill DEF OnExit, ProcessEnds, Unlock, ForgetJob, world
  <2>8. CASE Crash(p)
    BY <2>8, ToldStill DEF Crash, ProcessEnds, Unlock, ForgetJob, world
  <2> QED
    BY <1>2, <2>1, <2>2, <2>3, <2>4, <2>5, <2>6, <2>7, <2>8 DEF MayDo
<1> QED
  BY <1>1, <1>2

\* Every copy keeps the invariant of its own job.
THEOREM JobInvariant == Spec => []JobsInv
<1>1. Init => JobsInv
  BY DEF Init, JobsInv, JobInv, Working, Delivering
<1>2. TypeOK /\ SigningInv /\ JobsInv /\ [Next]_vars => JobsInv'
  <2> SUFFICES ASSUME TypeOK, SigningInv, JobsInv, [Next]_vars, NEW q \in Procs
               PROVE  JobInv(q)'
    BY DEF JobsInv
  <2>1. CASE UNCHANGED vars
    BY <2>1 DEF JobsInv, JobInv, LogAccountedFor, AccountedFor, Working, Delivering, vars,
      work, store, world
  <2>2. CASE Next
    <3>1. PICK p \in Procs : Step(p) \/ MayDo(p)
      BY <2>2 DEF Next
    <3>2. CASE p = q
      BY <3>1, <3>2, JobStep DEF JobsInv
    <3>3. CASE p # q
      <4>1. /\ pc'[q] = pc[q] /\ job'[q] = job[q] /\ rest'[q] = rest[q]
            /\ out'[q] = out[q] /\ seen'[q] = seen[q] /\ status'[q] = status[q]
            /\ files \subseteq files'
        BY <3>1, <3>3, OnlyOwnJob
      <4>2. LogAccountedFor(q) => LogAccountedFor(q)'
        BY <4>1, ToldStill
      <4> QED
        BY <4>1, <4>2 DEF JobsInv, JobInv, Working, Delivering
    <3> QED
      BY <3>2, <3>3
  <2> QED
    BY <2>1, <2>2
<1> QED
  BY <1>1, <1>2, TypeCorrect, SigningInvariant, PTL DEF Spec

\* Exit status 0 of a job that saves a file means that every record of the log
\* was signed and written, however often the job was interrupted by dialogs or
\* converted again.
THEOREM SavedIsComplete == Spec => []SavedMeansAllSigned
<1>1. JobsInv => SavedMeansAllSigned
  BY DEF JobsInv, JobInv, SavedMeansAllSigned
<1> QED
  BY <1>1, JobInvariant, PTL

-----------------------------------------------------------------------------
(* What the database keeps.                                                 *)

\* No step takes a QSO out of any generation of the database files, and one
\* that cannot fail leaves the files in place.
LEMMA DatabasesGrow ==
  ASSUME TypeOK, NEW p \in Procs, Step(p) \/ MayDo(p)
  PROVE  /\ \A g \in Gens : db[g] \subseteq db'[g]
         /\ ~DbMayFail => cur' = cur
<1> DEFINE Goal == /\ \A g \in Gens : db[g] \subseteq db'[g]
                   /\ ~DbMayFail => cur' = cur
<1> USE DEF TypeOK, Gens
<1>1. ASSUME Step(p) PROVE Goal
  <2>1. CASE GetLock(p)
    BY <2>1 DEF GetLock, Goto, work, store, world
  <2>2. CASE BeginConverter(p)
    BY <2>2 DEF BeginConverter, Goto, NewConverter, world
  <2>3. CASE BeginFails(p)
    BY <2>3 DEF BeginFails, Finish, Goto, Unlock, RollBackAndEnd, EndConverter,
        world
  <2>4. CASE OpenEnv(p)
    BY <2>4 DEF OpenEnv, Goto, NeedsDb, work, world, AfterRemoval
  <2>5. CASE BeginTxn(p)
    BY <2>5 DEF BeginTxn, Goto, work, world
  <2>6. CASE OpenFails(p)
    BY <2>6 DEF OpenFails, Goto, NeedsDb, Note, world, AfterRemoval
  <2>7. CASE SignRecord(p)
    BY <2>7 DEF SignRecord, HasRecord, Reading, Next1, Consume, IsDuplicate, world
  <2>8. CASE FindDuplicate(p)
    BY <2>8 DEF FindDuplicate, Goto, Note, HasRecord, Reading, Next1, Consume,
        IsDuplicate, store, world
  <2>9. CASE OutOfRange(p)
    BY <2>9 DEF OutOfRange, Note, HasRecord, Reading, Next1, Consume, store, world
  <2>10. CASE BadRecord(p)
    BY <2>10 DEF BadRecord, Goto, Note, HasRecord, Reading, Next1, Consume, store,
        world
  <2>11. CASE DbRefuses(p)
    BY <2>11 DEF DbRefuses, Goto, Note, HasRecord, Reading, Next1, Consume, store,
        world
  <2>12. CASE DbBreaks(p)
    BY <2>12 DEF DbBreaks, Goto, Note, HasRecord, Reading, Next1, Consume, world
  <2>13. CASE ReadClosed(p)
    BY <2>13 DEF ReadClosed, Goto, Note, store, world
  <2>14. CASE KeyUnavailable(p)
    BY <2>14 DEF KeyUnavailable, Finish, Goto, Unlock, RollBackAndEnd,
        EndConverter, HasRecord, Reading, Next1, world
  <2>15. CASE EndOfLog(p)
    BY <2>15 DEF EndOfLog, Goto, Reading, work, store, world
  <2>16. CASE HandleError(p)
    BY <2>16 DEF HandleError, Goto, store, world
  <2>17. CASE IgnoreErrors(p)
    BY <2>17 DEF IgnoreErrors, Goto, store, world
  <2>18. CASE CancelOnError(p)
    BY <2>18 DEF CancelOnError, Goto, work, store, world
  <2>19. CASE Abandon(p)
    BY <2>19 DEF Abandon, Finish, Goto, Unlock, RollBackAndEnd, EndConverter,
        world
  <2>20. CASE AbortUnsigned(p)
    BY <2>20 DEF AbortUnsigned, Finish, Goto, Unlock, store, world
  <2>21. CASE AskAboutDupes(p)
    BY <2>21 DEF AskAboutDupes, Goto, work, store, world
  <2>22. CASE RefuseDupes(p)
    BY <2>22 DEF RefuseDupes, Finish, Goto, Unlock, RollBackAndEnd, EndConverter,
        world
  <2>23. CASE RestartAllowingDupes(p)
    BY <2>23 DEF RestartAllowingDupes, Goto, RollBackAndEnd, EndConverter, world
  <2>24. CASE ReturnOutput(p)
    BY <2>24 DEF ReturnOutput, Goto, Finish, Unlock, RollBackAndEnd, EndConverter,
        work, store, world
  <2>25. CASE WriteFile(p)
    BY <2>25 DEF WriteFile, Goto, work, store
  <2>26. CASE WriteFails(p)
    BY <2>26 DEF WriteFails, Finish, Goto, RollBackAndEnd, EndConverter, work,
        world
  <2>27. CASE Compress(p)
    BY <2>27 DEF Compress, Goto, work, store, world
  <2>28. CASE CompressFails(p)
    BY <2>28 DEF CompressFails, Finish, Goto, work, store, world
  <2>29. CASE PostAccepted(p)
    BY <2>29 DEF PostAccepted, Goto, work, store
  <2>30. CASE PostFails(p)
    BY <2>30 DEF PostFails, Goto, work, store
  <2>31. CASE PostStopped(p)
    BY <2>31 DEF PostStopped, Goto, work, store
  <2>32. CASE PeerUnverified(p)
    BY <2>32 DEF PeerUnverified, store, world
  <2>33. CASE RetryUpload(p)
    BY <2>33 DEF RetryUpload, Goto, store, world
  <2>34. CASE GiveUpUpload(p)
    BY <2>34 DEF GiveUpUpload, Goto, work, store, world
  <2>35. CASE CommitJob(p)
    <3>1. UNCHANGED cur
      BY <2>35 DEF CommitJob, CommitAndEnd, EndConverter
    <3>2. CASE UNCHANGED db
      BY <3>1, <3>2
    <3>3. CASE db' = [db EXCEPT ![file[p]] = @ \cup pend[p]]
      <4>1. \A g \in Gens : db[g] \subseteq db'[g]
        BY <3>3
      <4> QED
        BY <3>1, <4>1
    <3> QED
      BY <2>35, <3>2, <3>3 DEF CommitJob, CommitAndEnd
  <2>36. CASE RollBackJob(p)
    BY <2>36 DEF RollBackJob, Goto, RollBackAndEnd, EndConverter, work, world
  <2>37. CASE ExitNow(p)
    BY <2>37 DEF ExitNow, ProcessEnds, Unlock, ForgetJob, world
  <2>38. CASE BackToWindow(p)
    BY <2>38 DEF BackToWindow, ForgetJob, world, store
  <2> QED
    BY <1>1, <2>1, <2>2, <2>3, <2>4, <2>5, <2>6, <2>7, <2>8, <2>9, <2>10, <2>11,
        <2>12, <2>13, <2>14, <2>15, <2>16, <2>17, <2>18, <2>19, <2>20, <2>21,
        <2>22, <2>23, <2>24, <2>25, <2>26, <2>27, <2>28, <2>29, <2>30, <2>31,
        <2>32, <2>33, <2>34, <2>35, <2>36, <2>37, <2>38 DEF Step
<1>2. ASSUME MayDo(p) PROVE Goal
  <2>1. CASE Refuse(p)
    BY <2>1 DEF Refuse, Finish, Goto, NewJob, store, world
  <2>2. CASE StartSigning(p)
    BY <2>2 DEF StartSigning, Goto, NewJob, store, world
  <2>3. CASE LockBusy(p)
    BY <2>3 DEF LockBusy, Finish, Goto, NewJob, store, world
  <2>4. CASE LockWait(p)
    BY <2>4 DEF LockWait, Goto, NewJob, store, world
  <2>5. CASE DateRangeCancelled(p)
    BY <2>5 DEF DateRangeCancelled, Finish, Goto, Unlock, NewConverter, work,
        world
  <2>6. CASE UserCancels(p)
    BY <2>6 DEF UserCancels, Goto, work, store, world
  <2>7. CASE OnExit(p)
    BY <2>7 DEF OnExit, ProcessEnds, Unlock, ForgetJob, world
  <2>8. CASE Crash(p)
    BY <2>8 DEF Crash, ProcessEnds, Unlock, ForgetJob, world
  <2> QED
    BY <1>2, <2>1, <2>2, <2>3, <2>4, <2>5, <2>6, <2>7, <2>8 DEF MayDo
<1> QED
  BY <1>1, <1>2

\* Only CommitJob reports success.
LEMMA SuccessByCommit ==
  ASSUME TypeOK, NEW p \in Procs, JobInv(p), Step(p) \/ MayDo(p), ~CommitJob(p)
  PROVE  ~(pc'[p] = "done" /\ status'[p] \in {"SUCCESS", "QSOS_SUPPRESSED"})
<1> DEFINE Goal == ~(pc'[p] = "done" /\ status'[p] \in {"SUCCESS", "QSOS_SUPPRESSED"})
<1> USE DEF TypeOK, JobInv
<1>1. ASSUME Step(p) PROVE Goal
  <2>1. CASE GetLock(p)
    BY <2>1 DEF GetLock, Goto, work, store, world
  <2>2. CASE BeginConverter(p)
    BY <2>2 DEF BeginConverter, Goto, NewConverter, world
  <2>3. CASE BeginFails(p)
    BY <2>3 DEF BeginFails, Finish, Goto, Unlock, RollBackAndEnd, EndConverter,
        world
  <2>4. CASE OpenEnv(p)
    BY <2>4 DEF OpenEnv, Goto, NeedsDb, work, world, AfterRemoval
  <2>5. CASE BeginTxn(p)
    BY <2>5 DEF BeginTxn, Goto, work, world
  <2>6. CASE OpenFails(p)
    BY <2>6 DEF OpenFails, Goto, NeedsDb, Note, world, AfterRemoval
  <2>7. CASE SignRecord(p)
    BY <2>7 DEF SignRecord, HasRecord, Reading, Next1, Consume, IsDuplicate, world
  <2>8. CASE FindDuplicate(p)
    BY <2>8 DEF FindDuplicate, Goto, Note, HasRecord, Reading, Next1, Consume,
        IsDuplicate, store, world
  <2>9. CASE OutOfRange(p)
    BY <2>9 DEF OutOfRange, Note, HasRecord, Reading, Next1, Consume, store, world
  <2>10. CASE BadRecord(p)
    BY <2>10 DEF BadRecord, Goto, Note, HasRecord, Reading, Next1, Consume, store,
        world
  <2>11. CASE DbRefuses(p)
    BY <2>11 DEF DbRefuses, Goto, Note, HasRecord, Reading, Next1, Consume, store,
        world
  <2>12. CASE DbBreaks(p)
    BY <2>12 DEF DbBreaks, Goto, Note, HasRecord, Reading, Next1, Consume, world
  <2>13. CASE ReadClosed(p)
    BY <2>13 DEF ReadClosed, Goto, Note, store, world
  <2>14. CASE KeyUnavailable(p)
    BY <2>14 DEF KeyUnavailable, Finish, Goto, Unlock, RollBackAndEnd,
        EndConverter, HasRecord, Reading, Next1, world
  <2>15. CASE EndOfLog(p)
    BY <2>15 DEF EndOfLog, Goto, Reading, work, store, world
  <2>16. CASE HandleError(p)
    BY <2>16 DEF HandleError, Goto, store, world
  <2>17. CASE IgnoreErrors(p)
    BY <2>17 DEF IgnoreErrors, Goto, store, world
  <2>18. CASE CancelOnError(p)
    BY <2>18 DEF CancelOnError, Goto, work, store, world
  <2>19. CASE Abandon(p)
    BY <2>19 DEF Abandon, Finish, Goto, Unlock, RollBackAndEnd, EndConverter,
        world
  <2>20. CASE AbortUnsigned(p)
    BY <2>20 DEF AbortUnsigned, Finish, Goto, Unlock, store, world
  <2>21. CASE AskAboutDupes(p)
    BY <2>21 DEF AskAboutDupes, Goto, work, store, world
  <2>22. CASE RefuseDupes(p)
    BY <2>22 DEF RefuseDupes, Finish, Goto, Unlock, RollBackAndEnd, EndConverter,
        world
  <2>23. CASE RestartAllowingDupes(p)
    BY <2>23 DEF RestartAllowingDupes, Goto, RollBackAndEnd, EndConverter, world
  <2>24. CASE ReturnOutput(p)
    BY <2>24 DEF ReturnOutput, Goto, Finish, Unlock, RollBackAndEnd, EndConverter,
        work, store, world
  <2>25. CASE WriteFile(p)
    BY <2>25 DEF WriteFile, Goto, work, store
  <2>26. CASE WriteFails(p)
    BY <2>26 DEF WriteFails, Finish, Goto, RollBackAndEnd, EndConverter, work,
        world
  <2>27. CASE Compress(p)
    BY <2>27 DEF Compress, Goto, work, store, world
  <2>28. CASE CompressFails(p)
    BY <2>28 DEF CompressFails, Finish, Goto, work, store, world
  <2>29. CASE PostAccepted(p)
    BY <2>29 DEF PostAccepted, Goto, work, store
  <2>30. CASE PostFails(p)
    BY <2>30 DEF PostFails, Goto, work, store
  <2>31. CASE PostStopped(p)
    BY <2>31 DEF PostStopped, Goto, work, store
  <2>32. CASE PeerUnverified(p)
    BY <2>32 DEF PeerUnverified, store, world
  <2>33. CASE RetryUpload(p)
    BY <2>33 DEF RetryUpload, Goto, store, world
  <2>34. CASE GiveUpUpload(p)
    BY <2>34 DEF GiveUpUpload, Goto, work, store, world
  <2>35. CASE CommitJob(p)
    BY <2>35
  <2>36. CASE RollBackJob(p)
    BY <2>36 DEF RollBackJob, Goto, RollBackAndEnd, EndConverter, work, world
  <2>37. CASE ExitNow(p)
    BY <2>37 DEF ExitNow, ProcessEnds, Unlock, ForgetJob, world
  <2>38. CASE BackToWindow(p)
    BY <2>38 DEF BackToWindow, ForgetJob, world, store
  <2> QED
    BY <1>1, <2>1, <2>2, <2>3, <2>4, <2>5, <2>6, <2>7, <2>8, <2>9, <2>10, <2>11,
        <2>12, <2>13, <2>14, <2>15, <2>16, <2>17, <2>18, <2>19, <2>20, <2>21,
        <2>22, <2>23, <2>24, <2>25, <2>26, <2>27, <2>28, <2>29, <2>30, <2>31,
        <2>32, <2>33, <2>34, <2>35, <2>36, <2>37, <2>38 DEF Step
<1>2. ASSUME MayDo(p) PROVE Goal
  <2>1. CASE Refuse(p)
    BY <2>1 DEF Refuse, Finish, Goto, NewJob, store, world
  <2>2. CASE StartSigning(p)
    BY <2>2 DEF StartSigning, Goto, NewJob, store, world
  <2>3. CASE LockBusy(p)
    BY <2>3 DEF LockBusy, Finish, Goto, NewJob, store, world
  <2>4. CASE LockWait(p)
    BY <2>4 DEF LockWait, Goto, NewJob, store, world
  <2>5. CASE DateRangeCancelled(p)
    BY <2>5 DEF DateRangeCancelled, Finish, Goto, Unlock, NewConverter, work,
        world
  <2>6. CASE UserCancels(p)
    BY <2>6 DEF UserCancels, Goto, work, store, world
  <2>7. CASE OnExit(p)
    BY <2>7 DEF OnExit, ProcessEnds, Unlock, ForgetJob, world
  <2>8. CASE Crash(p)
    BY <2>8 DEF Crash, ProcessEnds, Unlock, ForgetJob, world
  <2> QED
    BY <1>2, <2>1, <2>2, <2>3, <2>4, <2>5, <2>6, <2>7, <2>8 DEF MayDo
<1> QED
  BY <1>1, <1>2

\* A job that saved or uploaded new QSOs leaves them recorded, whatever the
\* other copies do, as long as the database does not fail.
THEOREM SuccessRecorded == ~DbMayFail => (Spec => []SuccessIsRecorded)
<1> SUFFICES ASSUME ~DbMayFail
             PROVE  Spec => []SuccessIsRecorded
  OBVIOUS
<1>1. Init => SuccessIsRecorded
  BY DEF Init, SuccessIsRecorded
<1>2. TypeOK /\ SigningInv /\ JobsInv /\ SuccessIsRecorded /\ [Next]_vars
        => SuccessIsRecorded'
  <2> SUFFICES ASSUME TypeOK, SigningInv, JobsInv, SuccessIsRecorded, [Next]_vars,
                      NEW q \in Procs, pc'[q] = "done",
                      status'[q] \in {"SUCCESS", "QSOS_SUPPRESSED"}, ~allow'[q]
               PROVE  \E g \in Gens : out'[q] \subseteq db'[g]
    BY DEF SuccessIsRecorded
  <2>1. CASE UNCHANGED vars
    BY <2>1 DEF SuccessIsRecorded, vars, work, store
  <2>2. CASE Next
    <3>1. PICK p \in Procs : Step(p) \/ MayDo(p)
      BY <2>2 DEF Next
    <3>2. CASE p # q
      <4>1. /\ pc[q] = "done" /\ status[q] = status'[q] /\ ~allow[q] /\ out'[q] = out[q]
            /\ \A g \in Gens : db[g] \subseteq db'[g]
        BY <3>1, <3>2, OnlyOwnJob, DatabasesGrow
      <4> QED
        BY <4>1 DEF SuccessIsRecorded
    <3>3. CASE p = q
      <4>1. CommitJob(q)
        BY <3>1, <3>3, SuccessByCommit DEF JobsInv
      <4>2. out'[q] = out[q] /\ ~allow[q] /\ Delivering(q)
        BY <4>1 DEF CommitJob, work, Delivering
      <4>3. CASE out[q] = {}
        BY <4>2, <4>3, BoundAssumption DEF Gens
      <4>4. CASE out[q] # {}
        <5>1. txn[q] /\ pend[q] = out[q] /\ file[q] \in Gens
          BY <4>2, <4>4, DeliveringHoldsTxn
        <5>2. db' = [db EXCEPT ![file[q]] = @ \cup pend[q]]
          BY <4>1, <5>1 DEF CommitJob, CommitAndEnd
        <5> QED
          BY <4>2, <5>1, <5>2 DEF TypeOK
      <4> QED
        BY <4>3, <4>4
    <3> QED
      BY <3>2, <3>3
  <2> QED
    BY <2>1, <2>2
<1> QED
  BY <1>1, <1>2, TypeCorrect, SigningInvariant, JobInvariant, PTL DEF Spec
-----------------------------------------------------------------------------
(* Signing implements UploadLedger, and the database only changes by the   *)
(* commit of a whole job.                                                  *)

\* The state of the ledger that a state of Signing stands for.
Recorded  == {e \in Gens \X Qsos : e[2] \in db[e[1]]}
Delivered == lotw \cup files
ClaimOf(p) == {e \in Gens \X Qsos : e[1] = file[p] /\ e[2] \in pend[p]}
Claims    == [p \in Procs |-> ClaimOf(p)]

-----------------------------------------------------------------------------
(* How the steps of a copy look from the ledger.                           *)

\* A step that leaves the databases, the claims and the world alone.
LEMMA LedgerStutters ==
  ASSUME UNCHANGED <<db, lotw, files>>,
         \A q \in Procs : ClaimOf(q)' = ClaimOf(q)
  PROVE  UNCHANGED Ledger!vars
<1>1. Claims' = Claims
  BY DEF Claims
<1> QED
  BY <1>1 DEF Ledger!vars, Claims, ClaimOf

\* A step that empties the transaction of p.
LEMMA LedgerDrops ==
  ASSUME NEW p \in Procs,
         UNCHANGED <<db, lotw, files>>,
         ClaimOf(p)' = {},
         \A q \in Procs \ {p} : ClaimOf(q)' = ClaimOf(q)
  PROVE  [Ledger!Next]_(Ledger!vars)
<1>1. Claims' = [Claims EXCEPT ![p] = {}]
  BY DEF Claims
<1>2. Ledger!Drop(p)
  BY <1>1 DEF Ledger!Drop, Claims, ClaimOf
<1> QED
  BY <1>2 DEF Ledger!Next

\* A step that hands QSOs over.
LEMMA LedgerDelivers ==
  ASSUME TypeOK', UNCHANGED db,
         lotw \subseteq lotw', files \subseteq files',
         \A q \in Procs : ClaimOf(q)' = ClaimOf(q)
  PROVE  [Ledger!Next]_(Ledger!vars)
<1>1. Claims' = Claims
  BY DEF Claims
<1>2. Delivered' = Delivered \cup Delivered' /\ Delivered' \in SUBSET Qsos
  BY DEF Delivered, TypeOK
<1>3. Ledger!Deliver
  BY <1>1, <1>2 DEF Ledger!Deliver, Claims, ClaimOf, Delivered
<1> QED
  BY <1>3 DEF Ledger!Next

\* A step that changes neither databases nor transactions nor the world.
LEMMA QuietStutters ==
  ASSUME UNCHANGED <<db, lotw, files, file, pend>>
  PROVE  [Ledger!Next]_(Ledger!vars)
<1>1. \A q \in Procs : ClaimOf(q)' = ClaimOf(q)
  BY DEF ClaimOf
<1> QED
  BY <1>1, LedgerStutters

\* Handing over leaves databases and transactions alone.
LEMMA DeliverRefines ==
  ASSUME TypeOK', UNCHANGED <<db, file, pend>>,
         lotw \subseteq lotw', files \subseteq files'
  PROVE  [Ledger!Next]_(Ledger!vars)
<1>1. \A q \in Procs : ClaimOf(q)' = ClaimOf(q)
  BY DEF ClaimOf
<1> QED
  BY <1>1, LedgerDelivers

\* Closing or replacing a converter drops what it had claimed.
LEMMA ClosedDrops ==
  ASSUME TypeOK, NEW p \in Procs, UNCHANGED <<db, lotw, files>>,
         file' = [file EXCEPT ![p] = NoFile],
         pend' = [pend EXCEPT ![p] = {}]
  PROVE  [Ledger!Next]_(Ledger!vars)
<1>1. ClaimOf(p)' = {}
  BY DEF ClaimOf, TypeOK
<1>2. \A q \in Procs \ {p} : ClaimOf(q)' = ClaimOf(q)
  BY DEF ClaimOf, TypeOK
<1> QED
  BY <1>1, <1>2, LedgerDrops

\* Every step of Signing is a step of the ledger or leaves it alone.
LEMMA StepRefines ==
  TypeOK /\ SigningInv /\ TypeOK' /\ [Next]_vars => [Ledger!Next]_(Ledger!vars)
<1> SUFFICES ASSUME TypeOK, SigningInv, TypeOK', [Next]_vars
             PROVE  [Ledger!Next]_(Ledger!vars)
  OBVIOUS
<1>1. CASE UNCHANGED vars
  BY <1>1, QuietStutters DEF vars, work, store, world
<1>2. ASSUME NEW p \in Procs, Step(p) PROVE [Ledger!Next]_(Ledger!vars)
  <2>1. CASE GetLock(p)
    BY <2>1, QuietStutters
      DEF GetLock, work, store, world
  <2>2. CASE BeginConverter(p)
    BY <2>2, ClosedDrops
      DEF BeginConverter, NewConverter, work, world
  <2>3. CASE BeginFails(p)
    BY <2>3, ClosedDrops
      DEF BeginFails, RollBackAndEnd, EndConverter, work, world
  <2>4. CASE OpenEnv(p)
    <3>0. ~txn[p]
      BY <2>4 DEF OpenEnv, NeedsDb, SigningInv, TxnHoldsMutex, Gens, NoFile
    <3>1. /\ UNCHANGED <<db, lotw, files, pend>>
          /\ pend[p] = {}
          /\ \A q \in Procs \ {p} : file'[q] = file[q]
      BY <2>4, <3>0 DEF OpenEnv, work, world, TypeOK, SigningInv, PendIsNew
    <3>2. ClaimOf(p)' = {} /\ ClaimOf(p) = {}
      BY <3>1 DEF ClaimOf
    <3>3. \A q \in Procs \ {p} : ClaimOf(q)' = ClaimOf(q)
      BY <3>1 DEF ClaimOf
    <3> QED
      BY <3>1, <3>2, <3>3, LedgerStutters
  <2>5. CASE BeginTxn(p)
    BY <2>5, QuietStutters
      DEF BeginTxn, work, store, world
  <2>6. CASE OpenFails(p)
    BY <2>6, QuietStutters
      DEF OpenFails, work, store, world
  <2>7. CASE SignRecord(p)
    <3> DEFINE x == Next1(p).qso
    <3>1. CASE allow[p]
      BY <2>7, <3>1, QuietStutters DEF SignRecord, world
    <3>2. CASE ~allow[p]
      <4>1. /\ UNCHANGED <<db, lotw, files, file>>
            /\ pend' = [pend EXCEPT ![p] = @ \cup {x}]
            /\ x \in Qsos
        BY <2>7, <3>2, ConsumeType DEF SignRecord, world
      <4>2. txn[p] /\ x \notin db[file[p]] /\ x \notin pend[p]
        BY <2>7, <3>2 DEF SignRecord, HasRecord, Reading, IsDuplicate, TypeOK
      <4> HIDE DEF x
      <4>3. file[p] \in Gens /\ \A q \in Procs \ {p} : txn[q] => file[q] # file[p]
        BY <4>2 DEF SigningInv, TxnHoldsMutex
      <4>4. <<file[p], x>> \in Gens \X Qsos
        BY <4>1, <4>3
      <4>5. <<file[p], x>> \notin Recorded
        BY <4>2 DEF Recorded
      <4>6. \A q \in Procs : <<file[p], x>> \notin ClaimOf(q)
        BY <4>2, <4>3 DEF ClaimOf, SigningInv, PendIsNew, TypeOK
      <4>7. ClaimOf(p)' = ClaimOf(p) \cup {<<file[p], x>>}
        BY <4>1, <4>4 DEF ClaimOf, TypeOK
      <4>8. \A q \in Procs \ {p} : ClaimOf(q)' = ClaimOf(q)
        BY <4>1 DEF ClaimOf, TypeOK
      <4>9. Claims' = [Claims EXCEPT ![p] = @ \cup {<<file[p], x>>}]
        BY <4>7, <4>8 DEF Claims
      <4>10. <<file[p], x>> \notin UNION {Claims[q] : q \in Procs}
        BY <4>6 DEF Claims
      <4> DEFINE e == <<file[p], x>>
      <4>11. e \in (Gens \X Qsos) \ (Recorded \cup UNION {Claims[q] : q \in Procs})
        BY <4>4, <4>5, <4>10
      <4>12. Claims' = [Claims EXCEPT ![p] = @ \cup {e}]
        BY <4>9
      <4>13. Recorded' = Recorded /\ Delivered' = Delivered
        BY <4>1 DEF Recorded, Delivered
      <4> HIDE DEF e
      <4>14. Ledger!Claim(p)
        BY <4>11, <4>12, <4>13
          DEF Ledger!Claim, Ledger!Entries, Ledger!Claimed, Recorded, Claims, ClaimOf, Delivered
      <4> QED
        BY <4>14 DEF Ledger!Next
    <3> QED
      BY <3>1, <3>2
  <2>8. CASE FindDuplicate(p)
    BY <2>8, QuietStutters
      DEF FindDuplicate, work, store, world
  <2>9. CASE OutOfRange(p)
    BY <2>9, QuietStutters
      DEF OutOfRange, work, store, world
  <2>10. CASE BadRecord(p)
    BY <2>10, QuietStutters
      DEF BadRecord, work, store, world
  <2>11. CASE DbRefuses(p)
    BY <2>11, QuietStutters
      DEF DbRefuses, work, store, world
  <2>12. CASE DbBreaks(p)
    BY <2>12, ClosedDrops
      DEF DbBreaks, work, world
  <2>13. CASE ReadClosed(p)
    BY <2>13, QuietStutters
      DEF ReadClosed, work, store, world
  <2>14. CASE KeyUnavailable(p)
    BY <2>14, ClosedDrops
      DEF KeyUnavailable, RollBackAndEnd, EndConverter, work, world
  <2>15. CASE EndOfLog(p)
    BY <2>15, QuietStutters
      DEF EndOfLog, work, store, world
  <2>16. CASE HandleError(p)
    BY <2>16, QuietStutters
      DEF HandleError, work, store, world
  <2>17. CASE IgnoreErrors(p)
    BY <2>17, QuietStutters
      DEF IgnoreErrors, work, store, world
  <2>18. CASE CancelOnError(p)
    BY <2>18, QuietStutters
      DEF CancelOnError, work, store, world
  <2>19. CASE Abandon(p)
    BY <2>19, ClosedDrops
      DEF Abandon, RollBackAndEnd, EndConverter, work, world
  <2>20. CASE AbortUnsigned(p)
    BY <2>20, QuietStutters
      DEF AbortUnsigned, work, store, world
  <2>21. CASE AskAboutDupes(p)
    BY <2>21, QuietStutters
      DEF AskAboutDupes, work, store, world
  <2>22. CASE RefuseDupes(p)
    BY <2>22, ClosedDrops
      DEF RefuseDupes, RollBackAndEnd, EndConverter, work, world
  <2>23. CASE RestartAllowingDupes(p)
    BY <2>23, ClosedDrops
      DEF RestartAllowingDupes, RollBackAndEnd, EndConverter, work, world
  <2>24. CASE ReturnOutput(p)
    <3>1. CASE RollBackAndEnd(p)
      BY <2>24, <3>1, ClosedDrops
        DEF ReturnOutput, RollBackAndEnd, EndConverter, work, world
    <3>2. CASE UNCHANGED store
      BY <2>24, <3>2, QuietStutters DEF ReturnOutput, work, store, world
    <3> QED
      BY <2>24, <3>1, <3>2 DEF ReturnOutput
  <2>25. CASE WriteFile(p)
    BY <2>25, DeliverRefines DEF WriteFile, work, store
  <2>26. CASE WriteFails(p)
    BY <2>26, ClosedDrops
      DEF WriteFails, RollBackAndEnd, EndConverter, work, world
  <2>27. CASE Compress(p)
    BY <2>27, QuietStutters
      DEF Compress, work, store, world
  <2>28. CASE CompressFails(p)
    BY <2>28, QuietStutters
      DEF CompressFails, work, store, world
  <2>29. CASE PostAccepted(p)
    BY <2>29, DeliverRefines DEF PostAccepted, work, store
  <2>30. CASE PostFails(p)
    BY <2>30, DeliverRefines DEF PostFails, work, store
  <2>31. CASE PostStopped(p)
    BY <2>31, DeliverRefines DEF PostStopped, work, store
  <2>32. CASE PeerUnverified(p)
    BY <2>32, QuietStutters
      DEF PeerUnverified, work, store, world
  <2>33. CASE RetryUpload(p)
    BY <2>33, QuietStutters
      DEF RetryUpload, work, store, world
  <2>34. CASE GiveUpUpload(p)
    BY <2>34, QuietStutters
      DEF GiveUpUpload, work, store, world
  <2>35. CASE CommitJob(p)
    <3>1. /\ file' = [file EXCEPT ![p] = NoFile]
          /\ pend' = [pend EXCEPT ![p] = {}]
          /\ UNCHANGED <<lotw, files>>
      BY <2>35 DEF CommitJob, CommitAndEnd, EndConverter, world
    <3>2. CASE ~txn[p] \/ db' = db
      BY <2>35, <3>1, <3>2, ClosedDrops DEF CommitJob, CommitAndEnd
    <3>3. CASE txn[p] /\ db' # db
      <4>1. file[p] \in Gens /\ db' = [db EXCEPT ![file[p]] = @ \cup pend[p]]
        BY <2>35, <3>3 DEF CommitJob, CommitAndEnd, SigningInv, TxnHoldsMutex
      <4>2. pend[p] \subseteq lotw \cup files
        BY <2>35 DEF CommitJob, SigningInv, PendIsOut, HandedIsDelivered, Working, Delivering
      <4>3. Recorded' = Recorded \cup ClaimOf(p)
        BY <4>1 DEF Recorded, ClaimOf, TypeOK
      <4>4. ClaimOf(p)' = {}
        BY <3>1 DEF ClaimOf, TypeOK
      <4>5. \A q \in Procs \ {p} : ClaimOf(q)' = ClaimOf(q)
        BY <3>1 DEF ClaimOf, TypeOK
      <4>6. Claims' = [Claims EXCEPT ![p] = {}]
        BY <4>4, <4>5 DEF Claims
      <4>7. \A e \in ClaimOf(p) : e[2] \in Delivered
        BY <4>2 DEF ClaimOf, Delivered
      <4>8. Ledger!Record(p)
        BY <3>1, <4>3, <4>6, <4>7
          DEF Ledger!Record, Recorded, Claims, ClaimOf, Delivered
      <4> QED
        BY <4>8 DEF Ledger!Next
    <3> QED
      BY <3>2, <3>3
  <2>36. CASE RollBackJob(p)
    BY <2>36, ClosedDrops
      DEF RollBackJob, RollBackAndEnd, EndConverter, work, world
  <2>37. CASE ExitNow(p)
    BY <2>37, ClosedDrops
      DEF ExitNow, ProcessEnds, ForgetJob, work, world
  <2>38. CASE BackToWindow(p)
    BY <2>38, QuietStutters
      DEF BackToWindow, ForgetJob, work, store, world
  <2> QED
    BY <1>2, <2>1, <2>2, <2>3, <2>4, <2>5, <2>6, <2>7, <2>8, <2>9, <2>10,
         <2>11, <2>12, <2>13, <2>14, <2>15, <2>16, <2>17, <2>18, <2>19, <2>20,
         <2>21, <2>22, <2>23, <2>24, <2>25, <2>26, <2>27, <2>28, <2>29, <2>30,
         <2>31, <2>32, <2>33, <2>34, <2>35, <2>36, <2>37, <2>38 DEF Step
<1>3. ASSUME NEW p \in Procs, MayDo(p) PROVE [Ledger!Next]_(Ledger!vars)
  <2>1. CASE Refuse(p)
    BY <2>1, QuietStutters
      DEF Refuse, NewJob, work, store, world
  <2>2. CASE StartSigning(p)
    BY <2>2, QuietStutters
      DEF StartSigning, NewJob, work, store, world
  <2>3. CASE LockBusy(p)
    BY <2>3, QuietStutters
      DEF LockBusy, NewJob, work, store, world
  <2>4. CASE LockWait(p)
    BY <2>4, QuietStutters
      DEF LockWait, NewJob, work, store, world
  <2>5. CASE DateRangeCancelled(p)
    BY <2>5, ClosedDrops
      DEF DateRangeCancelled, NewConverter, work, world
  <2>6. CASE UserCancels(p)
    BY <2>6, QuietStutters
      DEF UserCancels, work, store, world
  <2>7. CASE OnExit(p)
    BY <2>7, ClosedDrops
      DEF OnExit, ProcessEnds, ForgetJob, work, world
  <2>8. CASE Crash(p)
    BY <2>8, ClosedDrops
      DEF Crash, ProcessEnds, ForgetJob, work, world
  <2> QED
    BY <1>3, <2>1, <2>2, <2>3, <2>4, <2>5, <2>6, <2>7, <2>8 DEF MayDo
<1> QED
  BY <1>1, <1>2, <1>3 DEF Next

\* Signing implements UploadLedger: through failures, retries and crashes of
\* any copies a QSO is claimed by one of them at a time and recorded only after
\* it was handed over.
THEOREM Refinement == Spec => ImplementsLedger
<1>1. Init => Ledger!Init
  BY DEF Init, Ledger!Init, Gens, NoFile
<1>2. TypeOK /\ SigningInv /\ TypeOK' /\ [Next]_vars => [Ledger!Next]_(Ledger!vars)
  BY StepRefines
<1> QED
  BY <1>1, <1>2, TypeCorrect, SigningInvariant, PTL
    DEF Spec, ImplementsLedger, Ledger!Spec

\* The database changes only when a copy that has handed its log over commits
\* it, and then by exactly the QSOs of that log.
THEOREM WholeJobsOnly == Spec => OnlyWholeJobsRecorded
<1> DEFINE Whole ==
      db' # db => \E p \in Procs :
          /\ pc[p] = "handed" /\ pc'[p] = "done"
          /\ out[p] \subseteq lotw \cup files
          /\ db' = [db EXCEPT ![file[p]] = @ \cup out[p]]
<1>1. ASSUME TypeOK, SigningInv, NEW p \in Procs, CommitJob(p) PROVE Whole
  <2> SUFFICES ASSUME db' # db PROVE Whole
    OBVIOUS
  <2>1. pc[p] = "handed" /\ pc'[p] = "done" /\ out[p] \subseteq lotw \cup files
    BY <1>1 DEF CommitJob, Finish, Goto, TypeOK, SigningInv, HandedIsDelivered
  <2>2. db' = [db EXCEPT ![file[p]] = @ \cup pend[p]] /\ txn[p] /\ file[p] \in Gens
    BY <1>1 DEF CommitJob, CommitAndEnd, SigningInv, TxnHoldsMutex
  <2>3. pend[p] # {}
    <3> SUFFICES ASSUME pend[p] = {} PROVE FALSE
      OBVIOUS
    <3>1. db[file[p]] \cup pend[p] = db[file[p]]
      OBVIOUS
    <3>2. db' = [db EXCEPT ![file[p]] = db[file[p]]]
      BY <2>2, <3>1
    <3> QED
      BY <1>1, <3>2 DEF TypeOK
  <2>4. pend[p] = out[p]
    BY <1>1, <2>1, <2>3 DEF SigningInv, PendIsOut, Working, Delivering
  <2> QED
    BY <2>1, <2>2, <2>4
<1>2. ASSUME NEW p \in Procs, Step(p), ~CommitJob(p) PROVE UNCHANGED db
  BY <1>2
    DEF Step, GetLock, BeginConverter, BeginFails, OpenEnv, BeginTxn,
          OpenFails, SignRecord, FindDuplicate, OutOfRange, BadRecord,
          DbRefuses, DbBreaks, ReadClosed, KeyUnavailable, EndOfLog,
          HandleError, IgnoreErrors, CancelOnError, Abandon, AbortUnsigned,
          AskAboutDupes, RefuseDupes, RestartAllowingDupes, ReturnOutput,
          WriteFile, WriteFails, Compress, CompressFails, PostAccepted,
          PostFails, PostStopped, PeerUnverified, RetryUpload, GiveUpUpload,
          RollBackJob, ExitNow, BackToWindow, NewConverter, RollBackAndEnd,
          ProcessEnds, store
<1>3. ASSUME NEW p \in Procs, MayDo(p) PROVE UNCHANGED db
  BY <1>3
    DEF MayDo, Refuse, StartSigning, LockBusy, LockWait, DateRangeCancelled,
          UserCancels, OnExit, Crash, NewJob, NewConverter, ProcessEnds, store
<1>4. TypeOK /\ SigningInv /\ [Next]_vars => [Whole]_vars
  BY <1>1, <1>2, <1>3 DEF Next
<1> QED
  BY <1>4, TypeCorrect, SigningInvariant, PTL DEF Spec, OnlyWholeJobsRecorded
==============================================================================
