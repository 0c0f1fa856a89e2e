---------------------------- MODULE LegacyRunner ----------------------------
(***************************************************************************)
(* The polling runner of src/src/runner.ts with the handler of             *)
(* src/src/worktreeTaskHandler.ts: it claims a task from the task service, *)
(* makes a branch and a worktree for the attempt, lets a wrapper process   *)
(* work there, verifies that the branch holds a commit, and reports.       *)
(*                                                                         *)
(* One step is the return of one call to the service, of one git command   *)
(* or of the wrapper.  There is one runner process at a time               *)
(* (PROJECT_CONTEXT_AND_HANDOFF.md:163), which may be stopped and started  *)
(* again; its wrapper then lives on.  Heartbeats change only the presence  *)
(* list and swallow their errors: they are left out.                       *)
(***************************************************************************)
EXTENDS Naturals

CONSTANTS
    Tasks,
    MaxAttempts,     \* bound: the largest attempt number the service gives out
    MaxBase,         \* bound: how often people move the base branch
    Push,            \* pushOnSuccess of the configuration
    Faults           \* whether calls and commands fail, and processes die

ASSUME RunnerAssumption ==
    /\ MaxAttempts \in Nat \ {0}
    /\ MaxBase \in Nat
    /\ {Push, Faults} \subseteq BOOLEAN

VARIABLES
    queue,   \* the task service: status, lease and attempt of every task
    runner,  \* the runner's memory: where it is, its task, attempt and base commit
    base,    \* the commit of the base branch in the repository
    repo,    \* branch and worktree of every attempt, and what the remote has of it;
             \* late: the base branch moved while the worktree was made
    wrapper, \* the wrapper process of every worktree
    ignored, \* see WrapperContract
    calm     \* whether failures have come to rest

vars == <<queue, runner, base, repo, wrapper, ignored, calm>>
environment == <<ignored, calm>>

Attempts == 1..MaxAttempts
Trees == Tasks \X Attempts

Contract(w) == INSTANCE WrapperContract WITH
    run <- wrapper[w], commit <- repo[w].commit, head <- repo[w].head
Runs == {"none", "running", "ok", "failed"}
Commits == {"none", "context", "work"}
Heads == {"branch", "ahead", "bare"}

Statuses == {"approved", "working", "in_review", "failed"}

Labels == {"down", "poll", "prepare", "add", "launch", "wait", "verify", "push",
           "complete", "fail", "release"}

\* The type invariant.
TypeOK ==
    /\ queue \in [Tasks -> [status : Statuses, expired : BOOLEAN, attempt : 0..MaxAttempts]]
    /\ runner \in [pc : Labels, tree : Trees \cup {<<>>}, base : 0..MaxBase]
    /\ base \in 0..MaxBase
    /\ repo \in [Trees -> [made : BOOLEAN, late : BOOLEAN, commit : Commits, head : Heads,
                           pushed : BOOLEAN, runs : Nat]]
    /\ wrapper \in [Trees -> Runs]
    /\ {ignored, calm} \subseteq BOOLEAN

Init ==
    /\ queue = [t \in Tasks |-> [status |-> "approved", expired |-> FALSE, attempt |-> 0]]
    /\ runner = [pc |-> "poll", tree |-> <<>>, base |-> 0]
    /\ base = 0
    /\ repo = [w \in Trees |-> [made |-> FALSE, late |-> FALSE, commit |-> "none",
                                head |-> "branch", pushed |-> FALSE, runs |-> 0]]
    /\ wrapper = [w \in Trees |-> "none"]
    /\ ignored \in BOOLEAN
    /\ calm = ~Faults

-----------------------------------------------------------------------------
(* The task service (external): a Convex deployment reached by mutations,   *)
(* whose answers may be lost.                                               *)

Claimable(t) ==
    \/ queue[t].status = "approved"
    \/ queue[t].status = "working" /\ queue[t].expired

\* The service takes a report of a task only while it is claimed.
Holds(t) == queue[t].status = "working"

Report(t, status) ==
    queue' = [queue EXCEPT ![t].status = status, ![t].expired = FALSE]

\* A lease of five minutes, never renewed, runs out while the work lasts.
LeaseExpires ==
    \E t \in Tasks : /\ queue[t].status = "working" /\ ~queue[t].expired
                     /\ queue' = [queue EXCEPT ![t].expired = TRUE]
                     /\ UNCHANGED <<runner, base, repo, wrapper, environment>>

-----------------------------------------------------------------------------
At(l) == runner.pc = l
Goto(l) == runner' = [runner EXCEPT !.pc = l]
MayFail == ~calm

\* The attempt the runner works on, and its task.
Tree == runner.tree
Task == Tree[1]

\* A mutation of the service: it takes effect and its answer arrives, or the
\* call throws, with or without an effect.
Mutation(t, status, success, failure) ==
    \/ Holds(t) /\ Report(t, status) /\ Goto(success)
    \/ MayFail /\ Holds(t) /\ Report(t, status) /\ Goto(failure)
    \/ (MayFail \/ ~Holds(t)) /\ UNCHANGED queue /\ Goto(failure)

\* claimNextApprovedTask; a task claimed by a call whose answer was lost is
\* nobody's until its lease expires.
Claim ==
    /\ At("poll")
    /\ \E t \in Tasks, a \in Attempts :
        /\ Claimable(t)
        /\ a \in {queue[t].attempt, queue[t].attempt + 1}
        /\ queue' = [queue EXCEPT ![t] = [status |-> "working", expired |-> FALSE, attempt |-> a]]
        /\ \/ runner' = [runner EXCEPT !.pc = "prepare", !.tree = <<t, a>>]
           \/ MayFail /\ UNCHANGED runner
    /\ UNCHANGED <<base, repo, wrapper, environment>>

\* The path and branch checks are forgotten, and `add' reuses what is there.
MutantTaken(w) == FALSE

\* Branch or path of the attempt exist: nothing ever removes them.
Taken(w) == repo[w].made

\* A failed check returns instead of throwing: nothing is reported.
MutantPrepare ==
    /\ At("prepare")
    /\ \/ ~Taken(Tree) /\ runner' = [runner EXCEPT !.pc = "add", !.base = base]
       \/ (MayFail \/ Taken(Tree)) /\ Goto("poll")
    /\ UNCHANGED <<queue, base, repo, wrapper, environment>>

\* The checks before the worktree is made, all of them reads.
Prepare ==
    /\ At("prepare")
    /\ \/ ~Taken(Tree) /\ runner' = [runner EXCEPT !.pc = "add", !.base = base]
       \/ (MayFail \/ Taken(Tree)) /\ Goto("fail")
    /\ UNCHANGED <<queue, base, repo, wrapper, environment>>

\* `git worktree add -b': names the base branch, not the commit read before.
AddWorktree ==
    /\ At("add")
    /\ \/ /\ repo' = [repo EXCEPT ![Tree].made = TRUE, ![Tree].late = base # runner.base]
          /\ Goto("launch") \/ (MayFail /\ Goto("fail"))
       \/ MayFail /\ Goto("fail") /\ UNCHANGED repo
    /\ UNCHANGED <<queue, base, wrapper, environment>>

\* Write the context files and start the wrapper.
Launch ==
    /\ At("launch")
    /\ \/ /\ wrapper' = [wrapper EXCEPT ![Tree] = "running"]
          /\ repo' = [repo EXCEPT ![Tree].runs = @ + 1]
          /\ Goto("wait")
       \/ MayFail /\ Goto("fail") /\ UNCHANGED <<repo, wrapper>>
    /\ UNCHANGED <<queue, base, environment>>

\* The exit of the wrapper is not awaited.
MutantWait ==
    /\ At("wait") /\ Goto(IF wrapper[Tree] = "failed" THEN "fail" ELSE "verify")
    /\ UNCHANGED <<queue, base, repo, wrapper, environment>>

\* The wrapper has exited; there is no time limit.
Wait ==
    /\ At("wait")
    /\ \/ wrapper[Tree] = "ok" /\ Goto("verify")
       \/ wrapper[Tree] = "failed" /\ Goto("fail")
    /\ UNCHANGED <<queue, base, repo, wrapper, environment>>

\* `rev-list --count <base>..HEAD' in the worktree is not 0: what is checked
\* out has commits that the base commit read at first has not.
Counted(w) ==
    \/ repo[w].head = "ahead"
    \/ repo[w].head = "branch" /\ (repo[w].late \/ repo[w].commit # "none")

\* A failed rev-list is taken for a commit.
MutantVerify ==
    /\ At("verify") /\ Goto(IF Push THEN "push" ELSE "complete")
    /\ UNCHANGED <<queue, base, repo, wrapper, environment>>

Verify ==
    /\ At("verify")
    /\ \/ Counted(Tree) /\ Goto(IF Push THEN "push" ELSE "complete")
       \/ (MayFail \/ ~Counted(Tree)) /\ Goto("fail")
    /\ UNCHANGED <<queue, base, repo, wrapper, environment>>

\* A failed push is only logged.
MutantPushBranch ==
    /\ At("push") /\ Goto("complete")
    /\ \/ repo' = [repo EXCEPT ![Tree].pushed = TRUE]
       \/ MayFail /\ UNCHANGED repo
    /\ UNCHANGED <<queue, base, wrapper, environment>>

\* The task's branch is pushed, whatever is checked out.
PushBranch ==
    /\ At("push")
    /\ \/ /\ repo' = [repo EXCEPT ![Tree].pushed = TRUE]
          /\ Goto("complete") \/ (MayFail /\ Goto("fail"))
       \/ MayFail /\ Goto("fail") /\ UNCHANGED repo
    /\ UNCHANGED <<queue, base, wrapper, environment>>

\* The other status that completeClaimedTask takes.
MutantComplete ==
    /\ At("complete") /\ Mutation(Task, "done", "poll", "fail")
    /\ UNCHANGED <<base, repo, wrapper, environment>>

Complete ==
    /\ At("complete") /\ Mutation(Task, "in_review", "poll", "fail")
    /\ UNCHANGED <<base, repo, wrapper, environment>>

\* The handler or completeClaimedTask threw.
Fail ==
    /\ At("fail") /\ Mutation(Task, "failed", "poll", "release")
    /\ UNCHANGED <<base, repo, wrapper, environment>>

\* releaseClaimAfterFailure; what it throws ends the iteration of the loop.
Release ==
    /\ At("release") /\ Mutation(Task, "approved", "poll", "poll")
    /\ UNCHANGED <<base, repo, wrapper, environment>>

Step ==
    \/ Claim \/ Prepare \/ AddWorktree \/ Launch \/ Wait \/ Verify \/ PushBranch
    \/ Complete \/ Fail \/ Release

-----------------------------------------------------------------------------
(* Processes and people *)

\* stop() gives nothing back: the process exits at once, as in a crash, and
\* its task stays `working'.  The wrappers live on, or go with the machine.
Stop ==
    /\ MayFail /\ ~At("down")
    /\ runner' = [runner EXCEPT !.pc = "down", !.tree = <<>>]
    /\ \/ UNCHANGED wrapper
       \/ wrapper' = [w \in Trees |-> IF wrapper[w] = "running" THEN "failed" ELSE wrapper[w]]
    /\ UNCHANGED <<queue, base, repo, environment>>

Start == At("down") /\ Goto("poll") /\ UNCHANGED <<queue, base, repo, wrapper, environment>>

WrapperActs(w) ==
    /\ wrapper[w] = "running"
    /\ \/ \E r \in Runs : wrapper' = [wrapper EXCEPT ![w] = r] /\ UNCHANGED repo
       \/ \E c \in Commits, h \in Heads :
             repo' = [repo EXCEPT ![w].commit = c, ![w].head = h] /\ UNCHANGED wrapper
    /\ Contract(w)!Next
    /\ UNCHANGED <<queue, runner, base, environment>>

WrapperEnds(w) == WrapperActs(w) /\ Contract(w)!Exits

BaseMoves ==
    /\ base < MaxBase /\ base' = base + 1
    /\ UNCHANGED <<queue, runner, repo, wrapper, environment>>

Rest == ~calm /\ calm' = TRUE /\ UNCHANGED <<queue, runner, base, repo, wrapper, ignored>>

Next ==
    \/ Step \/ Stop \/ Start \/ LeaseExpires \/ BaseMoves \/ Rest
    \/ \E w \in Trees : WrapperActs(w)

Spec == Init /\ [][Next]_vars

\* The loop of start() goes on, the service manager starts the runner again,
\* leases expire, and every wrapper ends: that is not the code's doing, it
\* sets no time limit.
FairSpec ==
    /\ Spec
    /\ WF_vars(Step) /\ WF_vars(Start) /\ WF_vars(LeaseExpires)
    /\ \A w \in Trees : WF_vars(WrapperEnds(w))

-----------------------------------------------------------------------------
(* Properties *)

\* The attempt that the service shows for a task.
Current(t) == <<t, queue[t].attempt>>

\* What is in review can be reviewed: the attempt of the task has its branch
\* at the remote when pushing is configured, although the service may have
\* given the task out again after answers were lost and runners stopped.
InReviewIsPublished ==
    \A t \in Tasks : queue[t].status = "in_review" =>
        /\ repo[Current(t)].made
        /\ Push => repo[Current(t)].pushed

\* The commits counted for an attempt are its work, with the exceptions that
\* InReviewHoldsWork names.
HoldsWork(attempt) ==
    /\ attempt.commit = "none" =>
          attempt.head = "ahead" \/ (attempt.head = "branch" /\ attempt.late)
    /\ attempt.commit = "context" => ~ignored

\* "left committed work ready for review" (worktreeTaskHandler.ts:90; the
\* test at worktreeTaskHandler.test.ts:97 demands a failure otherwise).  Not
\* always: a branch in review without a commit is one whose base moved between
\* the reading of the base and the making of the worktree (:45, :49), or one
\* that the agent left for another, which is what was counted (:74) while the
\* task's branch was pushed (:231); and one without work holds the context
\* files, which the target does not ignore and the wrapper committed.  Nothing
\* else gets an attempt without work into review: no restart, no lost answer
\* and no wrapper that was left behind.
InReviewHoldsWork ==
    \A t \in Tasks : queue[t].status = "in_review" => HoldsWork(repo[Current(t)])

\* No wrapper is started in a worktree another one has worked in, be it
\* stopped, failed or still running without its runner, even when the
\* service gives out one attempt twice.
WorktreesAreFresh == \A w \in Trees : repo[w].runs <= 1

\* The reviewed branch stands still: no wrapper works on it any more, not
\* even one that a stopped runner left behind.
ReviewedBranchStands ==
    [][\A t \in Tasks : queue[t].status = "in_review" => repo'[Current(t)] = repo[Current(t)]]_vars

\* No task is stranded in `working' (a review concern of
\* PROJECT_CONTEXT_AND_HANDOFF.md:158): once failures rest, every task is
\* reviewed or reported failed, although stop() abandons its claim and any
\* answer of the service may have been lost before.
TasksSettle ==
    \A t \in Tasks : <>calm => <>[](queue[t].status \in {"in_review", "failed"})
=============================================================================
