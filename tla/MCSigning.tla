----------------------------- MODULE MCSigning ------------------------------
(* Instances of Signing for TLC.                                           *)
EXTENDS Signing

CONSTANTS q1, q2, gui, gui2, bat

Good(q)   == [qso |-> q, kind |-> "good"]
Bad(q)    == [qso |-> q, kind |-> "bad"]
Range(q)  == [qso |-> q, kind |-> "range"]
Upload(log, action, show) ==
    [log |-> log, action |-> action, upload |-> TRUE, show |-> show]
Save(log, action, show) ==
    [log |-> log, action |-> action, upload |-> FALSE, show |-> show]

New == <<Good(q1), Good(q2)>>       \* two new QSOs
Rep == <<Good(q1), Good(q1)>>       \* a QSO and its repetition
Err == <<Bad(q1), Good(q2)>>        \* an unusable record first
Out == <<Range(q1)>>                \* outside the date range

\* Each action of -a meets new, repeated, unusable and filtered records.
MCJobs == { Upload(New, "NEW", FALSE), Save(New, "ASK", TRUE),
            Upload(Rep, "ASK", FALSE), Upload(Err, "ALL", TRUE),
            Save(Err, "ABORT", FALSE), Upload(Out, "NEW", TRUE) }

\* The database may fail or be removed under another copy.
MCJobsDbFails == { Upload(New, "NEW", FALSE), Save(Rep, "ASK", TRUE) }

\* The dialogs and the waiting that a job can meet.
MCJobsLive == { Upload(Rep, "ASK", TRUE), Save(Err, "ASK", FALSE),
                Upload(Out, "NEW", FALSE) }
=============================================================================
