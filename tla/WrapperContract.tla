--------------------------- MODULE WrapperContract ---------------------------
(***************************************************************************)
(* What the legacy runner may expect of the wrapper process it starts in a *)
(* worktree (src/src/worktreeTaskHandler.ts:167-219): while it runs, the   *)
(* task's branch may gain commits, and the agent may check out another     *)
(* branch; once it has exited, with either code, both stand still.         *)
(* AgentWrapper shows that the wrappers of src/scripts keep it;            *)
(* LegacyRunner runs one such process per worktree.                        *)
(***************************************************************************)
VARIABLES
    run,     \* the process: not started, running, or its exit
    commit,  \* what the commits of the task's branch hold since the worktree was made
    head,    \* what is checked out: the task's branch, or another one that is
             \* ahead of the base branch or not
    ignored  \* whether the target repository ignores the files that the runner
             \* and the wrapper themselves write into a worktree

vars == <<run, commit, head, ignored>>

Runs == {"none", "running", "ok", "failed"}

\* No commit, only files of runner and wrapper, or work of the agent.
Commits == {"none", "context", "work"}

Heads == {"branch", "ahead", "bare"}

TypeOK == run \in Runs /\ commit \in Commits /\ head \in Heads /\ ignored \in BOOLEAN

Init == run = "running" /\ commit = "none" /\ head = "branch" /\ ignored \in BOOLEAN

\* One more commit of the task's branch: by the agent, or by the wrapper's
\* auto-commit.
Adds ==
    /\ run = "running" /\ head = "branch"
    /\ \/ commit' = "work"
       \/ ~ignored /\ commit = "none" /\ commit' = "context"
    /\ UNCHANGED <<run, head, ignored>>

\* The agent checks out a branch, or another one gains a commit.
Switches == run = "running" /\ head' \in Heads /\ UNCHANGED <<run, commit, ignored>>

Exits == run = "running" /\ run' \in {"ok", "failed"} /\ UNCHANGED <<commit, head, ignored>>

Next == Adds \/ Switches \/ Exits

Spec == Init /\ [][Next]_vars
=============================================================================
