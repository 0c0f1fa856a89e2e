---------------------------- MODULE AgentWrapper ----------------------------
(***************************************************************************)
(* One wrapper process in one worktree: src/scripts/pi-wrapper.mjs, which  *)
(* runs the phases planner, implementor and reviewer, and                  *)
(* src/scripts/codex-wrapper.mjs, which runs one.  Both announce what they *)
(* do on Discord, commit what is left in the worktree, and exit; an error  *)
(* anywhere is announced too and ends the process with an error code.      *)
(*                                                                         *)
(* A wrapper follows a script, a sequence of steps; one action is the end  *)
(* of an await of a step.  The texts of posts, plans and questions and the *)
(* quoting of commands are left out.                                       *)
(***************************************************************************)
EXTENDS Naturals, Sequences

CONSTANTS
    Faults  \* what may fail: "discord" posts, "lost" answers of Discord,
            \* "git" commands, "disk" writes

ASSUME WrapperAssumption == Faults \subseteq {"discord", "lost", "git", "disk"}

VARIABLES
    config,   \* the environment the wrapper was started with, and whether the
              \* repository ignores the context files, the task's file can be read,
              \* Discord loses answers and git's outputs are cut short
    at,       \* the step of the script, or one past its end in the catch
    run,      \* the process: running, or its exit
    dirty,    \* what the worktree holds that is not committed: files of runner and
              \* wrapper, work, or work inside a nested repository
    commit,   \* what the commits of the task's branch hold
    head,     \* what is checked out (WrapperContract)
    target,   \* whether discordTargetState names the task's thread
    threads,  \* how many threads Discord has of the task
    done      \* history: the phases that have succeeded

vars == <<config, at, run, dirty, commit, head, target, threads, done>>
worktree == <<dirty, commit, head, done>>

PiPhases == {"planner", "implementor", "reviewer"}

\* Where posts go: nowhere, to the task's thread or a webhook, or to a thread
\* that the bot makes below the tasks channel.
Destinations == {"off", "given", "channel"}

Config == [codex : BOOLEAN, configured : SUBSET PiPhases, autoCommit : BOOLEAN,
           discord : Destinations, ignored : BOOLEAN, payload : BOOLEAN,
           lossy : BOOLEAN, cut : BOOLEAN]

-----------------------------------------------------------------------------
(* The scripts *)

Step(op, phase) == [op |-> op, phase |-> phase]
Post == Step("post", "")
Commit == Step("commit", "")

\* A plan or questions are posted when the phase wrote new ones.
MayPost == Step("may_post", "")

\* runPhase with its posts; a phase without a command is skipped.
RunPhase(p) ==
    IF p \in config.configured THEN <<Post, Step("phase", p), Post>> ELSE <<>>

\* The work is committed before it is reviewed.
MutantPiScript ==
    <<Post>>
    \o RunPhase("planner") \o <<MayPost, MayPost>>
    \o RunPhase("implementor") \o <<MayPost>>
    \o <<Commit>>
    \o RunPhase("reviewer") \o <<MayPost, Post>>

PiScript ==
    <<Post>>
    \o RunPhase("planner") \o <<MayPost, MayPost>>
    \o RunPhase("implementor") \o <<MayPost>>
    \o RunPhase("reviewer") \o <<MayPost>>
    \o <<Commit, Post>>

CodexScript ==
    <<Post, Step("write", ""), Post, Step("phase", "codex"), Post, Commit, Post>>

Script == IF config.codex THEN CodexScript ELSE PiScript

Phases == IF config.codex THEN {"codex"} ELSE config.configured

Catch == Len(Script) + 1

\* The type invariant.
TypeOK ==
    /\ config \in Config
    /\ at \in 1..Catch
    /\ run \in {"running", "ok", "failed"}
    /\ dirty \subseteq {"context", "work", "nested"}
    /\ commit \in {"none", "context", "work"}
    /\ head \in {"branch", "ahead", "bare"}
    /\ target \in BOOLEAN
    /\ threads \in 0..2
    /\ done \subseteq Phases

\* The handler has written luminos-task.json, TASK_BRIEF.md and
\* luminos-runner.json, the wrapper its .luminos directory.
Init ==
    /\ config \in Config
    /\ at = 1 /\ run = "running"
    /\ dirty = {"context"} /\ commit = "none" /\ head = "branch"
    /\ target = FALSE /\ threads = 0
    /\ done = {}

-----------------------------------------------------------------------------
At(op) == run = "running" /\ at < Catch /\ Script[at].op = op
InCatch == run = "running" /\ at = Catch

\* Neither the end of the script nor its catch ends the process.
MutantReturn == at' = at + 1 /\ UNCHANGED run

\* A step returns: the script goes on, and exits after its last step.
Return ==
    \/ at < Len(Script) /\ at' = at + 1 /\ UNCHANGED run
    \/ at = Len(Script) /\ run' = "ok" /\ UNCHANGED at
    \/ at = Catch /\ run' = "failed" /\ UNCHANGED at

\* A step throws: the script goes to its catch, which swallows an error of
\* its own post and rethrows the one it caught.
Throw ==
    \/ at < Catch /\ at' = Catch /\ UNCHANGED run
    \/ at = Catch /\ run' = "failed" /\ UNCHANGED at

MayThrow(kind) == kind \in Faults /\ Throw

-----------------------------------------------------------------------------
(* Posting *)

Posting == At("post") \/ At("may_post") \/ InCatch
NeedsThread == config.discord = "channel" /\ ~target

\* Whether there is something new to post is read from the worktree.
SkipPost ==
    /\ Posting
    /\ \/ (config.discord = "off" \/ At("may_post")) /\ Return
       \/ At("may_post") /\ MayThrow("disk")
    /\ UNCHANGED <<config, worktree, target, threads>>

\* The name is cached before it is remembered.
MutantMakeThread ==
    /\ Posting /\ NeedsThread
    /\ \/ threads' = threads + 1 /\ target' = TRUE /\ UNCHANGED <<at, run>>
       \/ MayThrow("disk") /\ threads' = threads + 1 /\ UNCHANGED target
       \/ MayThrow("discord") /\ UNCHANGED <<threads, target>>
    /\ UNCHANGED <<config, worktree>>

\* resolveDiscordDestination makes the thread, remembers it, and then caches
\* its name in the worktree.  Before that it writes the name into the task, and
\* a TypeError is thrown if the task's file could not be read.
MakeThread ==
    /\ Posting /\ NeedsThread
    /\ \/ /\ config.payload /\ threads' = threads + 1 /\ target' = TRUE
          /\ (UNCHANGED <<at, run>> \/ MayThrow("disk"))
       \/ ~config.payload /\ Throw /\ threads' = threads + 1 /\ UNCHANGED target
       \/ config.lossy /\ MayThrow("lost") /\ threads' = threads + 1 /\ UNCHANGED target
       \/ MayThrow("discord") /\ UNCHANGED <<threads, target>>
    /\ UNCHANGED <<config, worktree>>

SendPost ==
    /\ Posting /\ config.discord # "off" /\ ~NeedsThread
    /\ Return \/ MayThrow("discord")
    /\ UNCHANGED <<config, worktree, target, threads>>

-----------------------------------------------------------------------------
(* Phases and the commit *)

\* What is checked out gains a commit.
Gains(content) ==
    \/ head = "branch" /\ commit' = content /\ UNCHANGED head
    \/ head # "branch" /\ head' = "ahead" /\ UNCHANGED commit

\* The agent of a phase (external) edits, commits and checks out as it likes.
AgentEdits ==
    /\ At("phase")
    /\ \E what \in {"work", "nested"} : dirty' = dirty \cup {what}
    /\ UNCHANGED <<config, at, run, commit, head, target, threads, done>>

AgentCommits ==
    /\ At("phase") /\ "work" \in dirty
    /\ Gains("work") /\ dirty' \in {dirty \ {"work"}, {}}
    /\ UNCHANGED <<config, at, run, target, threads, done>>

AgentSwitches ==
    /\ At("phase")
    /\ head' \in {"branch", "ahead", "bare"}
    /\ UNCHANGED <<config, at, run, dirty, commit, target, threads, done>>

\* Codex is given its prompt in a file, and leaves its last message in one.
WritePrompt ==
    /\ At("write")
    /\ Return \/ MayThrow("disk")
    /\ UNCHANGED <<config, worktree, target, threads>>

LastMessage == IF config.codex THEN {"context"} ELSE {}

\* Codex exits before it has read its prompt: the error of the write has no
\* listener, and ends the wrapper without its catch.
Dies == config.codex /\ run' = "failed" /\ UNCHANGED at

\* The command of a phase exits, with 0 or not; there is no time limit.
EndPhase ==
    /\ At("phase")
    /\ \/ Return /\ done' = done \cup {Script[at].phase}
       \/ (Throw \/ Dies) /\ UNCHANGED done
    /\ dirty' = dirty \cup LastMessage
    /\ UNCHANGED <<config, commit, head, target, threads>>

\* What `git status' sees, and what `git add -A' stages of it.
Visible == IF config.ignored THEN dirty \ {"context"} ELSE dirty
Stageable == Visible \ {"nested"}

Committed ==
    IF "work" \in dirty THEN "work"
    ELSE IF commit = "none" THEN "context" ELSE commit

CommitAll == dirty' = dirty \ Stageable /\ Gains(Committed)

\* The commit is not awaited, and made after the exit.
MutantAutoCommit ==
    /\ \/ At("commit") /\ Return /\ UNCHANGED <<dirty, commit, head>>
       \/ run = "ok" /\ Stageable # {} /\ CommitAll /\ UNCHANGED <<at, run>>
    /\ UNCHANGED <<config, target, threads, done>>

\* autoCommit: nothing is committed when the worktree is clean or nothing could
\* be staged, or looks so in an output that was cut short; an error before or
\* after `git commit' took effect throws.
AutoCommit ==
    /\ At("commit")
    /\ \/ /\ config.autoCommit => Stageable = {} \/ config.cut
          /\ Return /\ UNCHANGED <<dirty, commit, head>>
       \/ config.autoCommit /\ Stageable # {} /\ (Return \/ MayThrow("git")) /\ CommitAll
       \/ config.autoCommit /\ MayThrow("git") /\ UNCHANGED <<dirty, commit, head>>
    /\ UNCHANGED <<config, target, threads, done>>

Exited == run # "running" /\ UNCHANGED vars

Next ==
    \/ SkipPost \/ MakeThread \/ SendPost
    \/ AgentEdits \/ AgentCommits \/ AgentSwitches \/ WritePrompt \/ EndPhase \/ AutoCommit
    \/ Exited

Spec == Init /\ [][Next]_vars

-----------------------------------------------------------------------------
(* Properties *)

\* Exit code 0 stands for the whole script: every configured phase has
\* succeeded and, with auto-commit, nothing it left behind that git can stage
\* is uncommitted for the runner to overlook, whatever posts failed.  Work
\* inside a nested repository may be (pi-wrapper.mjs:187, nothing_staged), and
\* any work after an output of git that was cut short.
OkMeansFinished ==
    run = "ok" => /\ done = Phases
                  /\ config.autoCommit /\ ~config.cut => dirty \ {"nested"} \subseteq
                                                           (IF config.ignored THEN {"context"} ELSE {})

\* All posts of a run go to one thread, the one that announces the failure
\* too, even when the thread's name cannot be written to the worktree.  Only
\* an answer lost by Discord makes a second one, and a task whose file could
\* not be read: its first thread is forgotten (pi-wrapper.mjs:378), and the
\* announcement of that failure makes another.
OneThread == ~config.lossy /\ config.payload => threads <= 1

\* The wrapper keeps what the runner expects of it.
Contract == INSTANCE WrapperContract WITH ignored <- config.ignored
KeepsContract == Contract!Spec
=============================================================================
