--------------------------- MODULE ProcessExecutor ---------------------------
(***************************************************************************)
(* SpawnProcessExecutor.run (processExecutor.ts:5) and its twin            *)
(* SpawnQueryProcess.run (repositoryQuery.ts:48-57): one child, a time     *)
(* limit, a bound on its output, and one promise.  A step is one event of  *)
(* Node's loop or something the operating system does.                     *)
(***************************************************************************)

CONSTANT Runs

VARIABLE run   \* run -> the child, its time limit, and what the promise says

\* child: not there, running, sent SIGKILL, or at its end: by itself, with
\* whatever exit code, or by the signal.  exit: has the exit event been seen.
NoRun == [child |-> "none", timer |-> "off", exit |-> FALSE, outcome |-> "pending"]

Ended == {"ended", "dead"}

\* exited: the exit code and the output that has come so far are reported.
Outcomes == {"pending", "exited", "timeout", "too_large", "no_start"}

RunTypes ==
    run \in [Runs -> [child : {"none", "running", "killed"} \cup Ended,
                      timer : {"off", "armed", "fired"},
                      exit : BOOLEAN,
                      outcome : Outcomes]]

Settled(r) == run[r].outcome # "pending"

\* Nothing more will happen to it.
Finished(r) == Settled(r) /\ (run[r].child = "none" \/ run[r].exit)

Kill(record) == IF record.child = "running" THEN [record EXCEPT !.child = "killed"] ELSE record

\* spawn; an `error' event when there is no such program.
Spawn(r) ==
    \/ run' = [run EXCEPT ![r] = [NoRun EXCEPT !.child = "running", !.timer = "armed"]]
    \/ run' = [run EXCEPT ![r] = [NoRun EXCEPT !.timer = "armed", !.outcome = "no_start"]]

\* More output than the bound: fail() kills and rejects, and leaves the timer.
OutputTooLarge(r) ==
    /\ run[r].child \in {"running", "killed"} \cup Ended
    /\ ~run[r].exit
    /\ ~Settled(r)
    /\ run' = [run EXCEPT ![r] = [Kill(@) EXCEPT !.outcome = "too_large"]]

\* The limit is noted and left to the exit event.
MutantTimerFires(r) ==
    /\ run[r].timer = "armed"
    /\ run' = [run EXCEPT ![r].timer = "fired"]

TimerFires(r) ==
    /\ run[r].timer = "armed"
    /\ run' = [run EXCEPT ![r] = [Kill(@) EXCEPT !.timer = "fired"]]

\* The operating system: a child may end whenever it likes, or never.
ChildEnds(r) ==
    /\ run[r].child = "running"
    /\ run' = [run EXCEPT ![r].child = "ended"]

ChildDies(r) ==
    /\ run[r].child = "killed"
    /\ run' = [run EXCEPT ![r].child = "dead"]

\* What the exit handler settles with.
Result(record) ==
    IF record.outcome # "pending" THEN record.outcome
    ELSE IF record.timer = "fired" THEN "timeout" ELSE "exited"

\* The timer is cleared if it has not fired.
Exited(record) ==
    [record EXCEPT !.exit = TRUE,
                   !.timer = IF record.timer = "armed" THEN "off" ELSE record.timer,
                   !.outcome = Result(record)]

OnExit(r) ==
    /\ run[r].child \in Ended
    /\ ~run[r].exit
    /\ run' = [run EXCEPT ![r] = Exited(@)]

\* What must happen, and what only may.
Events(r) == TimerFires(r) \/ ChildDies(r) \/ OnExit(r)
Running(r) == Events(r) \/ OutputTooLarge(r) \/ ChildEnds(r)

=============================================================================
