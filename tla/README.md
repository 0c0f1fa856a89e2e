# Luminos runner: a TLA+ development

This directory models the parts of the repository that carry its own logic as
TLA+ modules, checks them with TLC on small instances, and proves the safety
properties the passing runs check with TLAPS, for every instance.
`PROJECT.json` lists components, runs, hazards, findings and theorems, and maps
every definition to the lines it stands for.

    tlc -config broker_concurrent.cfg MCHostBroker    # a run: module and cfg
    tlapm HostBrokerProofs.tla                        # the proofs of a module *Proofs

## 1. The system and its parts

A coordinator sends JSON commands to a *host broker*, which runs coding agents
for it on one machine: it makes a Git worktree and a Herdr (terminal) workspace
per job, sends prompts, and hands the result off as a branch and a pull
request. An older *polling runner* is still in the source as migration
evidence (README.md, last section); it shares only the worktree idea.

| Component | State it keeps | Operations | Talks to |
|---|---|---|---|
| HostBroker (`broker.ts`) | none of its own; the record of a job in memory during a command | `create_job`, `prompt_job`, `job_status`, `read_job`, `handoff_job`, `recover_job`, `close_job` | registry, Git and Herdr adapters |
| FileJobRegistry (`fileJobRegistry.ts`) | `jobs.json`: one record per job; lock directories | `get`, `put` (read, change, write aside, rename), `withLock` (mkdir, finally rmdir) | file system, shared by all broker processes |
| GitCliWorkspaceAdapter (`gitWorkspaceAdapter.ts`) | worktree, branch, remote branch, pull requests: all outside | `create`, `handoff` with checkpoints, `cleanup` | git, gh |
| HerdrCliAdapter (`herdrCliAdapter.ts`) | workspaces and panes: outside | create, prompt, status, read, close | herdr CLI |
| SpawnProcessExecutor (`processExecutor.ts`) | one child: output, timers | run with time limit and output bound | processes |
| Pilot broker IPC (`pilotBroker*.ts`) | sockets, their state, the time limit of a request | receive, execute, respond, shut down | HostBroker, local clients |
| Broker entry points (`hostBroker*.ts`, `brokerStdio.ts`, `brokerCommandMain.ts`) | none | one command per process, or lines of one process | HostBroker |
| RepositoryQueryService | none | one read-only child per query | git, rg |
| ProjectPolicies | a parsed file | load, overlap check, effective policies | protected file |
| Protected configuration, redaction | none | permission checks, text filters | files |
| Legacy runner (`runner.ts`, `convexRunnerClient.ts`) | the task in work, `processing`, `stopped` | poll, claim, complete, fail, release, stop | task service (Convex) |
| WorktreeTaskHandler | branch and worktree per attempt | `run` | git, the wrapper process |
| Agent wrappers (`scripts/*.mjs`) | the worktree, the remembered Discord thread | phases, posts, auto-commit | agent commands, Discord |
| Service scripts | none | validate templates | files |

What is hard, and what must be true:

* **Broker and registry.** Commands run in processes of their own or on
  sockets of one process. They exclude each other by try-locks, one per job and
  one per project, but the registry file has no lock of its own, and the catch
  block of `execute` runs after the locks are gone. Any adapter call may fail
  after its effect; any process may die between two awaits and leave its lock.
  Must hold: the locks exclude; a destroyed workspace belonged to a job that was
  handed off; a job handed off keeps its evidence; an uncertain outcome is
  neither repeated nor forgotten; a job keeps to its life; everybody gets an
  answer.
* **Git adapter.** A hand-off is twelve commands among an agent that may still
  commit and people who push, merge and delete. Must hold: what is handed off
  was shown to reviewers; nobody's commits are overwritten; retries find their
  own traces; only shown work is removed.
* **Creation: Git `create` and the Herdr adapter.** Every attempt uses the same
  branch, worktree and agent name; anything an earlier attempt left is found
  again. A start may have taken effect although it was reported as failed, and
  become visible later. Must hold: a recorded job has a fresh worktree and an
  agent that was seen alive; a prompt is typed to an agent and not to the shell
  it left behind; closing a job ends its agent; retries get there.
* **Process executor, pilot IPC.** Three time limits that know nothing of each
  other (socket, client, child); an answer that says "timeout" while the command
  goes on; a stop while clients hold their connections; a process that fails
  half-way or dies and leaves its files. Must hold: one request of a connection
  is executed and answered once; no phase and no call lasts for ever; a stop
  completes; the ready file announces a complete descriptor.
* **Legacy runner, handler, wrappers.** Claims with leases that are not
  renewed, answers that are lost, wrappers that outlive the runner, a check for
  a commit made from a base that moves. Must hold: what is in review is
  reviewable work, and stands still; worktrees are not reused; no task is
  stranded.
* **Query service, policies, configuration, redaction.** Sequential functions
  over data.

`PROJECT.json` lists these as hazards, each at its line, with the
properties that would catch it.

## 2. The modules

| Module | Models | Composition |
|---|---|---|
| `JobRecords` | the records of `LocalJob`, their evidence, how it grows | extended by the two below |
| `JobLifecycle` | abstract: what the broker promises about one entry of the registry | implemented by `HostBroker` |
| `HostBroker` | `HostBroker.execute` and `dispatch` over the registry's locks and put | `Lifecycle == INSTANCE JobLifecycle WITH jobs <- file` |
| `MCHostBroker` | symmetry sets for TLC | extends `HostBroker` |
| `HostBrokerProofs` | the theorems about `HostBroker` that hold under all circumstances | extends `HostBroker` |
| `HostBrokerWorkspaceProofs` | the theorem about workspaces and worktrees of live jobs | extends `HostBrokerProofs` |
| `HostBrokerSequenceProofs` | the theorems about one request at a time, among them the refinement of `JobLifecycle` | extends `HostBrokerProofs` |
| `GitHandoff` | `handoff` and `cleanup` of the Git adapter with the broker around them | details the calls that `HostBroker` sees as one |
| `GitHandoffProofs` | the theorems about `GitHandoff` | extends `GitHandoff` |
| `JobCommand` | what the commands of the adapters share: one command as the list of awaits before it, its record, its failures | extended by the two below |
| `WorktreeCreate` | `create` of the Git adapter and `validateReusableWorktree` | one half of `JobCreation` |
| `HerdrAdapter` | create with its probes, prompt with its two looks, status, close | the other half |
| `JobCreation` | one job through both adapters from its first create to its closing, with the broker's record and catch block | extends `WorktreeCreate` and `HerdrAdapter` |
| `JobCreationProofs` | the theorems about `JobCreation` | extends `JobCreation` |
| `ProcessExecutor` | one child with its time limit and output bound: `SpawnProcessExecutor`, `SpawnQueryProcess` | instantiated by `PilotHost`, one run per socket |
| `PilotServer` | the pilot broker's process and files, its sockets, its clients | extended by `PilotHost` |
| `PilotHost` | the server with the calls its requests make | extends `PilotServer`, `Executor == INSTANCE ProcessExecutor WITH Runs <- Sockets` |
| `WrapperContract` | abstract: what a runner may expect of a wrapper process | implemented by `AgentWrapper`, run by `LegacyRunner` |
| `PilotProofs` | the theorems about `PilotHost` | extends `PilotHost` |
| `LegacyRunner` | the polling runner and the worktree handler | `Contract(w) == INSTANCE WrapperContract`, one per worktree |
| `LegacyRunnerProofs` | the theorems about `LegacyRunner` | extends `LegacyRunner` |
| `AgentWrapper` | the scripts of both wrappers, posts and auto-commit | `Contract == INSTANCE WrapperContract` |
| `AgentWrapperProofs` | the theorems about `AgentWrapper`, among them the refinement of `WrapperContract` | extends `AgentWrapper` |

A definition named `Mutant...` is a plausible slip of the code; a property of a
run is only kept if one of them breaks it.

### HostBroker

A *request* is one call of `execute`; `pc[r]` is the await it is at, and one
action runs from one await to the next. `file` is `jobs.json`, `dirs` the lock
directories, `held` the locks a request's `withLock` calls will release. `rec`
is the variable `job`, `table` what a put has loaded and not yet written.
`session`, `agent` and `tree` are Herdr and Git as far as jobs can tell: the
workspace created last, the agent of the job's name, which is in that workspace
or `outside` it when a retried create adopted it, and the worktree. Prompt,
status and read address the agent by its name only. `doubt` is history. Every
adapter call may throw before or after its effect (`CallFails`). `DiskFaults` says
what of the registry's files may throw: a get or a load, a put with the old table
in place or after the rename, a lock that is not made, not marked with its owner
(`LockFails`) or not removed (`UnlockFails`, after everything else was done). A
process may die anywhere (`Crash`) and its lock directory be removed by an
operator (`OperatorUnlock`). A put takes two
steps, load and rename, because that is where two jobs interleave. All jobs are
in one project, so that creations contend.

Evidence is abstract: a record has the phase, the commit and the pull request or
has them not; which commit it is matters to `GitHandoff`.

### JobLifecycle

The life of a record with no request, lock or disk in it: create, prompt,
observe, gather evidence, hand over, close, doubt. `FollowsLifecycle` says that
one request at a time keeps the registry on it, under every disk fault and
crashes. Whether a closed job may be doubted is the constant `ClosedIsFinal`, which
`HostBroker` sets to "nothing throws but a put before its rename": a get, a put
after its rename or the removal of a lock that throws leads to the catch block,
which writes `unknown` over `closed`. Two requests do not keep to it, by the two
findings about the catch block and the registry file below.

### GitHandoff

One step is the return of one git, gh or herdr command with the checkpoint put
after it. Commits of the job's branch are numbered from its base; one foreign
commit stands for whatever people push. `HostBroker` shows that requests for one
job exclude each other, so there is one request; its record is the registry's
throughout, because everything assigned to it is put at once. Each command may
fail before or after its effect until `calm`, which is also when people come to
rest. `shown` is history: the commits that a pull request into the base branch
has shown. `fetched` is what the base branch, as last fetched into the shared
repository, contains of the job's commits: `Fetch` (the creation of another job)
moves it to a merged pull request, after which `rev-list --count` finds nothing to
hand off. `session` is `stays` when the recorded workspace was closed and an
adopted agent works on in another one. Until `calm`, the output of a command may also be missing although
its exit code is 0 (`CutShort`): the executor settles at the exit event, when
the pipes need not have been read to their end. A dirty worktree then looks
clean, a remote branch absent.

### JobCommand, WorktreeCreate, HerdrAdapter, JobCreation

`todo` is the list of the awaits a command still has before it; a step takes
the first (`Proceed`), puts others in its place (`Branch`) or goes to the catch
block (`Throw`). `job` is the record in memory, `record` the one in the
registry. One command runs at a time: that commands of a job, and creations of a
project, exclude each other is proved for `HostBroker` (theorem `Exclusion`), and
so is not modelled here again.

In `WorktreeCreate` the base branch is a number that grows at the remote
(`upstream`) and is copied to the shared remote-tracking ref by anybody's fetch
(`tracking`); `tree` is the job's worktree, which an earlier attempt may have
left clean, incomplete (`dirty`) or been used for something else (`foreign`), and
`branched` its branch. `fetched` is history.

In `HerdrAdapter` `agent` is the agent of the job's durable name: launched and
not visible yet, visible and not ready (its process may be in front of the pane
already), live, or ended with its shell left in
the pane; `spaces` are the open workspaces somebody refers to, `probes` the
looks `startAgent` has left after a failed start. `vanished` and `typed` are
history. Assumed of Herdr, from how the adapter uses it: a name in use is
refused, the name of an ended agent is forgotten in time, closing a workspace
ends what runs in it, and a workspace id is not used again while the record or
the agent refers to it.

`JobCreation` starts with no job, or with one recorded before workspace ids were
kept. `adopted` is history: a create took over the agent of an earlier attempt
and recorded another workspace. Hand-off and the checks of `cleanup` are one step
each here, since `GitHandoff` details them.

### ProcessExecutor, PilotServer, PilotHost

A step is one callback of Node's loop, one step of the operating system, or one
await of the process. `run[r]` is one child: does it run, was it killed, has it
ended, has its exit event been seen, its timer, and what the promise says. The
descriptor and the ready file are `none`, being written, `full`, or `stale`: left
by a process that died. `server` is the place of the process in its start
(listen, descriptor, ready file) and its stop (destroy the sockets, wait for
`server.close`, remove the owned files). `socket[s]` is the phase of a connection,
`call[s]` the promise of `broker.execute`; `answers` and `begun` are history of the
connection. A client finds the pipe in the descriptor, sends, and leaves when it
likes. `PilotHost` gives a call one child, which stands for the children a
command runs in turn; a call may also return without one. The process may crash
anywhere, and be started again with the same paths.

### LegacyRunner, WrapperContract, AgentWrapper

`queue` is the task service, known only through the calls of the runner: its
rules (who may be claimed, that reports need a claim, leases) are external
definitions. `runner` is the memory of the one process, `repo` branch and
worktree of every attempt, `wrapper` its process. What is checked out (`head`) and
the task's branch (`commit`) are apart: `Verify` counts the one, `PushBranch` pushes
the other, and an agent may switch at any time. `Stop` is both `stop()`, which
exits at once without giving the task back, and a crash; the wrappers may
live on. `Prepare` puts the read-only checks in one step; `AddWorktree` is apart,
since the base branch may move in between.

`AgentWrapper` reads the scripts of both wrappers as sequences of steps built
from the configuration, which `Init` chooses freely. A post may make the
task's thread, and may throw like every step; the catch posts once more. A task
file that cannot be read (`payload`) makes the post throw after the thread was
made. The agent edits, commits and switches branches while its phase runs, and
may leave work in a nested repository, which `git status` shows and `git add -A`
does not stage. A codex that exits before it has read its prompt takes the
wrapper with it, without its catch (`Dies`). `cut` says whether outputs of git may
be cut short.

## 3. The runs

| Run | Shows | Bounds |
|---|---|---|
| `broker_sequential` | no uncertain prompt is repeated; answers are durable | 1 job, 1 request at a time; all verbs but `job_status`; a put may throw after the rename, a lock may fail; operators |
| `broker_lifecycle` | refinement of `JobLifecycle` under every disk fault; every request is answered | 1 job, 1 request, every verb, every disk fault, crashes, operators |
| `broker_concurrent` | typing, exclusion, evidence is complete, live jobs have agent, workspace and worktree, only handed-off jobs are destroyed | 1 job, 2 requests, every verb but `read_job`, everything may fail, operators |
| `handoff` | shown, one pull request, evidence in order, nothing overwritten, only shown work removed; a quiet, recoverable job's worktree goes in the end | 2 commits, 2 pull requests, 1 foreign commit, merges that are fetched, output may be cut short |
| `creation` | a recorded job has a fresh worktree and had a live agent; prompts reach agents; closing ends the agent unless it was adopted; retries succeed unless stuck | 1 job, the base moves twice, 2 workspace ids, 2 probes |
| `pilot` | one answer, one execution, nothing begins after the stop, the ready file means a descriptor; phases end, calls return, a stop completes | 2 sockets |
| `legacy` | what is in review is at the remote, holds work and stands still; worktrees are fresh; tasks settle | 1 task, 2 attempt numbers, base moves once |
| `wrapper` | exit 0 means finished; one thread per task; the contract | every configuration, every fault |

Why the bounds are enough. Jobs meet only in the project lock and in the
registry file. `finding_lost_record` has the two jobs that the file needs; the
exclusion of the creations of two jobs, and the refinement for any number of
them, are proved. Two requests show every pairwise race. The properties of
`broker_sequential` and `broker_lifecycle` are about one request at a time, where
nothing is gained by a second job; what two do to each other is the matter of the
findings. `read_job` writes nothing and is left out where it would double the
states. In `GitHandoff` a second commit gives every
"one was recorded, another is there", a second pull request every "the other one"; a third adds no
comparison the code makes. Two attempts give a wrapper left behind by one and a
claim of the other, in either order; the last number is given again and again,
the hardest case for settling and for fresh worktrees. In `JobCreation`
`MaxBase` 2 lets the base move once between an attempt's fetch and its
`worktree add` and once between two attempts. Two workspace ids are the agent's
and a new one: a third open workspace is one that neither the command nor the
agent refers to, so its id stands for the next new one. The code probes ten times;
two probes show one that is followed by another and the last. In `PilotHost` sockets
meet in the process that stops, and two show one that holds it up while the
other one ends. Tasks meet in nothing but
the one runner, which works on one at a time. The finite choices of the world
(context files ignored or not, Discord answers lost or not, the wrapper's
configuration) are all in one run, and the properties that need one of them
name it.
Symmetry is used for requests, in `broker_concurrent`, which checks no
liveness.

`CHECK_DEADLOCK FALSE` is said for `GitHandoff`, `JobCreation` and
`LegacyRunner`: a closed job, and a queue in which every task has settled, are
ends. The broker, pilot and wrapper runs check for deadlock.

### Fairness

* `HostBroker`: `WF` of every request's own steps (`Proceed`), but for the failures
  of locks, which nothing relies on. Locks are tried, never waited for; file operations end; adapters' commands are killed at their time limit.
  Issuing requests, crashes and operators have no fairness.
* `GitHandoff`: `WF` of a request's commands, for the same reason, and of
  starting one: the coordinator's part is to repeat recovery and closing.
  Properties are conditional on `<>calm`; agents and people have no fairness.
* `JobCreation`: `WF` of the command's steps (every command is killed at its
  time limit), of `CreateJob` (the coordinator repeats a creation whose outcome
  it does not know, which `recover_job` tells it to), and of Herdr bringing up what
  was launched and forgetting what ended. `RetriesSucceed` is conditional on
  `<>calm`.
* `PilotHost`: `WF` of the process's own awaits, of each socket's callbacks, of
  each child's timer, death and exit event, and of each call going on: Node's
  loop takes its events in turn, and a killed child ends. Clients, operators,
  the end of a child that just runs, and a signal to stop have no fairness.
* `LegacyRunner`: `WF` of the loop, of starting the runner again (a service
  manager), of leases and of the end of wrappers. The last is an assumption: the
  code sets no time limit, which is listed as a hazard.

### Findings

Runs that expect a violation each show one disagreement between the code and
what a document, comment or test says of it.

| Run | What happens |
|---|---|
| `finding_prompt` | the catch block writes `unknown` after the job lock is released; a second `prompt_job` in between finds `ready` and prompts again (`broker.ts:21`, `broker.test.ts:49`) |
| `finding_lost_record` | two puts of different jobs load the same table, the later rename undoes the first (`fileJobRegistry.ts:8`, `fileJobRegistry.test.ts:3`) |
| `finding_create` | a create that failed after it started the agent is retried: the retry makes a second workspace, adopts the agent in the first one and records the second; closing the job leaves the agent alive over a removed worktree (`broker.ts:28`, the comment at `31`-`33` calls create idempotent) |
| `finding_close` | the agent's workspace is closed before the worktree is verified (`broker.ts:41`, README.md:14) |

The passing runs leave out exactly what a finding needs, and say so: concurrent
requests for `NoPromptRepeated`, and `job_status` in `broker_sequential`.
`job_status` may overwrite the `unknown` that an uncertain prompt left
(`broker.ts:37`), and the prompt is then sent again.
`broker_sequential` has one client at a time, so it says nothing of the catch block
racing another request; that race is `finding_prompt`. `broker_lifecycle` has every
disk fault, so in it `unknown` may follow `closed`; that nothing else follows it,
and that nothing does where only a put before its rename throws, is theorem
`BrokerRefinesLifecycle`.

Some properties name the case in which they do not hold; the hazards say so too.

* `LiveJobsHaveWorkspaces` excepts adopted agents: one answers to its name after
  the recorded workspace was closed and the worktree removed, and `recover_job` of
  a closing that failed then records the job `ready` (`broker.ts:37`, `40`,
  `herdrCliAdapter.ts:69`-`82`).
* `InReviewHoldsWork` lets an attempt without a commit into review only if its
  base moved between rev-parse and `worktree add`, so that other people's commits
  are counted (`worktreeTaskHandler.ts:45`, against
  `worktreeTaskHandler.test.ts:11`), or if its agent left the task's branch for one
  that is ahead, which is counted while the task's branch is pushed (`:74`, `:231`);
  and one with the context files alone only where the target repository does not
  ignore them and the auto-commit took them for work (`pi-wrapper.mjs:185`, against
  `worktreeTaskHandler.test.ts:97`).
* `OkMeansFinished` excepts work in a nested repository (`pi-wrapper.mjs:187`,
  nothing_staged) and outputs of git that were cut short.
* `OneThread` excepts answers that Discord lost, and a task whose file could not
  be read: `pi-wrapper.mjs:378` then throws after the thread was made and before it
  is remembered, and the announcement of that failure makes a second one.
* `RemovesOnlyShown` excepts a worktree whose agent was adopted: it lives on after
  the closing, and may commit between the checks and the removal.
* `ClosedLeavesNoAgent` excepts adopted agents, which is `finding_create`.
* `AgentWasLive` and `PromptsOnlyAgents` except an agent that ends after it was
  last looked at: nothing the adapter asks Herdr could exclude that.
* `RetriesSucceed` excepts what an earlier attempt may leave and no later one
  gets out of (`Stuck`): the branch without its worktree, an incomplete or
  foreign checkout, a worktree the base has moved away from.
* `QuietJobsAreClosed` asks that the recorded commit is still the worktree's (a
  recorded commit is never cleared), and that the job is `Recoverable`: once its
  work is merged and the base branch fetched, `rev-list --count` is 0 and no
  hand-off or recovery succeeds any more (`gitWorkspaceAdapter.ts:12`-`13`), so that
  a job which is not handed off by then, or whose first closing fails or finds
  its branch deleted, stays `unknown` with its worktree.

## 4. The proofs

Every safety property of a passing run is a theorem; liveness is not. The
theorems assume only the constants' assumptions named in the modules, and where
a theorem has a hypothesis of its own it is stated below with what happens
without it. Each inductive invariant was first checked by TLC on the instance
of the component's run.

### HostBroker

`HostBrokerProofs` proves, for every set of jobs and requests, every subset of
the verbs and every combination of faults, crashes and operators:

| Theorem | States |
|---|---|
| `Invariance` | `Spec => []IInv` |
| `Typing` | `Spec => []TypeOK` |
| `Exclusion` | `Spec => []MutualExclusion` |
| `Evidence` | `Spec => []EvidenceComplete` |
| `Destruction` | `Spec => DestroysOnlyHandedOff` |

The only assumption is `BrokerAssumption`: the project's key is no job, verbs and
faults are among those of the code.

`IInv` is the conjunction of

* `TypeOK`;
* `CommandsPlaced`: which command can be at which await. Without it a checkpoint
  or a close could be that of a creation;
* `LocksHeld`: a lock has one holder, and a request has its locks exactly from
  taking them to the finally blocks. Mutual exclusion alone is not inductive: it
  does not say why the next request cannot get in, nor that a crash or an
  operator removes no lock in use;
* `EvidenceComplete` for the file and `EvidenceInMemory` for every record and
  table in memory. The file alone is not inductive: stale tables are written
  back, and the catch block writes a record it read without a lock.

The argument goes by moves. A step is a guard and a move (`Goto`, `Answer`,
`Put`, `Finish`, ...). The lemmas `MoveTypes`, `MoveCommands`, `MoveLocks` and
`MoveEvidence` say what each move keeps; `Inductive` takes the actions one by
one with the moves unexpanded. `Destroyers` shows that only `HerdrClose`,
`GitCleanup` and failing calls of them destroy anything; with `IInv` the record
in memory was handed off under the lock.

`HostBrokerWorkspaceProofs` and `HostBrokerSequenceProofs` prove what does not
hold under all circumstances:

| Theorem | States | Hypotheses |
|---|---|---|
| `LiveJobsAreHoused` | `Spec => []LiveJobsHaveWorkspaces` | `NoForeignWriters`: one job and any requests, or one request and any jobs |
| `Seriality` | `Spec => []SerialInv` | `OneRequest` |
| `BrokerRefinesLifecycle` | `Spec => FollowsLifecycle` | `OneRequest` |
| `AnswersLast` | `Spec => AnswersAreDurable` | `OneRequest`, `PutsAreDurable` (no crashes, reads succeed, a put that throws has replaced the file; locks may throw) |
| `PromptedOnce` | `Spec => []NoPromptRepeated` | the two above, `Reconciles` (no `job_status`) |

The number of jobs is free, and so are verbs, disk faults, crashes and operators
but for what a hypothesis says. Every hypothesis is needed: TLC refutes each
property on a small instance as soon as one of its hypotheses is dropped. Two
jobs with two requests bring back an old record of a live job
(`finding_lost_record`); two requests take a record off the lifecycle; a crash, a
failing read, a put that throws before the rename, or a second request leave an
answer that the file does not bear out; and `job_status` settles a doubt that was
not settled. The runs `broker_lifecycle` and `broker_sequential` are instances of
these hypotheses. `FollowsLifecycle` sets `ClosedIsFinal` by what may throw: the
theorem makes closing final for every instance with `DiskFaults \subseteq {"before"}`,
and allows nothing but a doubt after it in the others.

* `WorkspaceInv` adds to `IInv` what a request knows (`RequestSound`): a table
  that is about to be written differs from the file in the request's own job
  only, which is where `NoForeignWriters` is used; a put on the way out of the
  catch block writes `unknown`; a record in memory may be live only inside the
  job's lock and while its agent stands in its workspace, or was adopted.
* `SerialInv` says for each await which command with which record is there
  (`Fits`), that the record is the file's until it is changed, that a put leads
  to an answer the record bears out (`Leads`), and that the answer is then what
  the file says (`Stands`). `OrderInv` adds that a put under way is a lawful step
  of the life of a job and that a request which may still throw has not closed
  its job, where closing is final; the put's rename maps to a step of `JobLifecycle`, every other step to a
  stutter. `DoubtInv` adds that an unsure prompt is either marked in the file or
  its mark is the put under way.

### Pilot broker

`PilotProofs` proves, for any number of connections:

| Theorem | States |
|---|---|
| `PilotInvariance` | `Spec => []PilotInv` |
| `PilotTyping` | `Spec => []TypeOK` |
| `AnsweredOnce` | `Spec => []OneAnswer` |
| `OneExecution` | `Spec => []ExecutedOnce` |
| `Announcement` | `Spec => []ReadyMeansDescriptor` |
| `NothingAfterStop` | `Spec => NothingBeginsAfterStop` |

It assumes nothing of the constants. `PilotInv` adds to the types:
`PhasesCount`, which ties the phase of a connection to its numbers of answers and
executions (one answer alone is not inductive: a time limit must not find a phase
`executing` that has been answered); `OpenWhileServed`, since a socket can begin
only while it is open; and `FilesOwned`, what the process has made by each point
of its start and stop, without which the order of removal would not tell that
the ready file is gone before its descriptor. `ProcessKeeps` and `SocketKeeps`
take the actions of the process and of one socket; the children enter only
through their types (`ChildTypes`), so that what a child does cannot disturb the
rest.

### GitHandoff

`GitHandoffProofs` proves, for any number of commits and pull requests:

| Theorem | States |
|---|---|
| `HandoffInvariant` | `Spec => []HandoffInv` |
| `HandoffTypes` | `Spec => []TypeOK` |
| `HandedOffWasShown` | `Spec => []HandedOffIsShown` |
| `OnePullRequest` | `Spec => []OnePrByBroker` |
| `EvidenceHangsTogether` | `Spec => []EvidenceInOrder` |
| `NeverForced` | `Spec => NeverOverwritesRemote` |
| `NothingUnshownGoes` | `Spec => RemovesOnlyShown` |

`HandoffInv` says what a request may rely on at each of its awaits: the state of
the record (`StateAtLabel`), the evidence it has collected by then
(`EvidenceAtLabel`), that once the agent's workspace is closed the verified
worktree does not change unless the agent `stays` (`StandsStill`), and that where a pull request is
created the broker has made none (`NoneByBroker`). Evidence in order and shown
commits are stated of any record (`EvidenceHolds`), since a command that fails
leaves a partial one. How a command ends is reduced to the evidence it leaves
and the label it leads to.

### Creation

`JobCreationProofs` proves, for any set of at least two workspace ids, any number
of probes and of moves of the base branch:

| Theorem | States |
|---|---|
| `CreationInvariant` | `Spec => []CreationInv` |
| `CreationTypes` | `Spec => []TypeOK` |
| `ClosedIsClosed` | `Spec => []ClosedLeavesNoAgent` |
| `RecordedFresh` | `Spec => FreshTree` |
| `RecordedLive` | `Spec => AgentWasLive` |
| `NoTypingIntoShells` | `Spec => PromptsOnlyAgents` |

A command is a list of awaits, so its history is what is *not* on the list any
more. The proofs first name what is left at each await (`ToRemote`, ...,
`ToPut`); `PlanSteps`, `PlanAt` and `NextAwait` say what each list begins with and
leads to, and from then on only the name of the await is used. `CreationInv`
consists of `PlanInv` (which await goes with which record: the two looks before
the text of a prompt are not those of a creation), `TreeInv` (the fetched base is
no newer than the tracking ref, nor than the commit rev-parse gave, nor in the
end than the worktree: `worktree add` names the ref, which may have moved on, but
never back), `AgentInv` (the last look at the agent stands unless it vanished)
and `SpaceInv` (an agent that is not in the recorded workspace was adopted; a
closing has resolved the workspace before it closes it).

### Legacy runner and wrappers

`LegacyRunnerProofs`, for any tasks, attempts and moves of the base branch, and
`AgentWrapperProofs`, for every configuration of both scripts:

| Theorem | States |
|---|---|
| `RunnerInvariant` | `Spec => []RunnerInv` |
| `RunnerTypes` | `Spec => []TypeOK` |
| `ReviewsArePublished` | `Spec => []InReviewIsPublished` |
| `ReviewsHoldWork` | `Spec => []InReviewHoldsWork` |
| `WorktreesUsedOnce` | `Spec => []WorktreesAreFresh` |
| `ReviewsStand` | `Spec => ReviewedBranchStands` |
| `WrapperInvariant` | `Spec => []WrapperInv` |
| `WrapperTypes` | `Spec => []TypeOK` |
| `OkIsFinished` | `Spec => []OkMeansFinished` |
| `OneThreadOnly` | `Spec => []OneThread` |
| `WrapperRefines` | `Spec => KeepsContract`, that is `Spec => Contract!Spec` |

`RunnerInv` needs `HoldsItsTask` (a runner past its claim works on the attempt the
service shows for the task, since a lease that expires and a claim lost would
otherwise let it report for another), `Progress` (what was found or made before
each await), `UsedOnce` and `ReviewedIsOver` (the wrapper of a reviewed attempt
has exited with 0, so that nothing can move its branch). A wrapper's step is
reduced to what `WrapperContract` allows; that both scripts keep this contract is
`WrapperRefines`. `WrapperInv` follows the script: the phases behind have
succeeded, and after the commit nothing that git can stage is left over. That a script has one
commit, at its last step but one, is a lemma about the sequences both scripts
are built from (`StepKinds`), for every configuration.

### Only model-checked

Liveness under fairness is beyond the prover: `EveryRequestAnswered`,
`QuietJobsAreClosed`, `RetriesSucceed`, `PhasesEnd`, `CallsReturn`, `StopCompletes` and
`TasksSettle` stay with TLC. The `finding_` runs check properties that do not hold.

## 5. Not modelled

* The temporary file of put, which is named after the process and the
  millisecond: it needs a clock, and what goes wrong with it is a put that fails,
  which `HostBroker` has. Listed as a hazard.
* ProjectPolicies: loading and the overlap check are sequential functions over
  paths; a model would repeat their conditions and show nothing about them.
* The query service but for its child (`ProcessExecutor`), protected
  configuration, redaction, diagnostics, the installers and validation scripts:
  no state and no control that a model would tell apart. A query agent that exits
  before it has read its prompt kills the pilot broker through a stream without
  an error listener; what such a death leaves is checked as a crash.
* Contents: prompts, transcripts, titles, messages, JSON framing, the form of
  branch names and paths. Identifiers are model values; that `safeJob` maps two
  job ids to one branch when they differ in case is listed as a hazard.
* Of the executor: that the timers of different children share one loop, and
  the text of outputs. That an output may be cut short is modelled where it is
  used, in `GitHandoff`.
* Of the pilot IPC: the byte limits and the parsing of a request, which decide
  only between `Begin` and `Reject`, and the permissions of the pipe.
* Heartbeats and configuration of the legacy runner; the start of a wrapper
  before its `try` (missing arguments, an unwritable worktree), which ends in an
  error code like every throw.
* `MemoryJobRegistry`, which serves tests.

## 6. Plan

Done: every part of the repository that keeps state and runs concurrently is
modelled, with what section 5 leaves out of it, and every safety property of a
passing run is proved. Left:

1. `ProcessExecutor` on its own: that a promise settles once and agrees with what
   became of its child, as a lemma about any number of runs.
2. The steps the liveness properties rest on, as far as they are safety: which
   awaits of a `PilotHost` phase can only be left forwards, and that the states
   `RetriesSucceed` excepts are entered only by the steps it names.
3. `GitHandoff` as a refinement of the hand-off steps of `HostBroker`.
