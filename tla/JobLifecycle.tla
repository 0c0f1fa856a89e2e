---------------------------- MODULE JobLifecycle ----------------------------
(***************************************************************************)
(* What the broker promises about one entry of its registry, whoever asks  *)
(* and whatever fails: the life of a job record, with no request, lock,    *)
(* adapter or disk in it.  Whether closing is final depends on what may    *)
(* fail: the user of this module says.                                     *)
(***************************************************************************)

EXTENDS JobRecords

CONSTANTS
    Jobs,
    ClosedIsFinal  \* can a closed job no more be doubted?

VARIABLE jobs

Init == jobs = [j \in Jobs |-> NoRecord]

Become(j, record) == jobs' = [jobs EXCEPT ![j] = record]

Create(j) == jobs[j].state = "absent" /\ Become(j, Blank("ready"))

Prompt(j) ==
    /\ jobs[j].state = "ready"
    /\ \E s \in Observable : Become(j, [jobs[j] EXCEPT !.state = s])

\* job_status, and recover_job of a job without hand-off evidence.
Observe(j) ==
    /\ jobs[j].state \in Observable
    /\ \E s \in Observable : Become(j, [jobs[j] EXCEPT !.state = s])

\* A checkpoint of a hand-off: evidence is added, the state is kept.
Gather(j) ==
    /\ jobs[j].state \in {"ready", "unknown"}
    /\ \E record \in JobRecord :
         /\ record.state = jobs[j].state
         /\ EvidenceGrows(jobs[j], record)
         /\ Become(j, record)

HandOver(j) ==
    /\ jobs[j].state \in {"ready", "unknown"}
    /\ Become(j, HandedOff)

Close(j) ==
    /\ jobs[j].state = "handoff_ready"
    /\ HasEvidence(jobs[j])
    /\ Become(j, [jobs[j] EXCEPT !.state = "closed"])

\* A mutation whose outcome is uncertain.
Doubt(j) ==
    /\ jobs[j].state # "absent"
    /\ jobs[j].state = "closed" => ~ClosedIsFinal
    /\ Become(j, [jobs[j] EXCEPT !.state = "unknown"])

Next == \E j \in Jobs : \/ Create(j) \/ Prompt(j) \/ Observe(j) \/ Gather(j)
                        \/ HandOver(j) \/ Close(j) \/ Doubt(j)

Spec == Init /\ [][Next]_jobs
=============================================================================
