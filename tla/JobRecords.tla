----------------------------- MODULE JobRecords -----------------------------
(***************************************************************************)
(* The record the broker keeps of a job, LocalJob of src/src/broker.ts:8,  *)
(* with its three pieces of hand-off evidence reduced to whether they are  *)
(* there: commitSha, prUrl, and `phase' for handoffPhase or remoteSha.     *)
(***************************************************************************)

States == {"absent", "ready", "working", "unknown", "handoff_ready", "closed"}

\* What Herdr may report of a session, and the states in which it is asked.
Observable == {"ready", "working", "unknown"}

JobRecord == [state : States, sha : BOOLEAN, pr : BOOLEAN, phase : BOOLEAN]

Blank(s) == [state |-> s, sha |-> FALSE, pr |-> FALSE, phase |-> FALSE]

NoRecord == Blank("absent")

HandedOff == [state |-> "handoff_ready", sha |-> TRUE, pr |-> TRUE, phase |-> TRUE]

HasEvidence(record) == record.sha /\ record.pr

EvidenceGrows(old, new) ==
    /\ old.sha => new.sha
    /\ old.pr => new.pr
    /\ old.phase => new.phase
=============================================================================
