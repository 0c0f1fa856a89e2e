----------------------------- MODULE HostBroker -----------------------------
(***************************************************************************)
(* The host broker: src/src/broker.ts over the locks and the atomic        *)
(* read-modify-write of src/src/fileJobRegistry.ts.  Every request is one  *)
(* call of HostBroker.execute; one step of this module runs from one await *)
(* to the next.  Git and Herdr are seen through their adapters only: an    *)
(* external call answers, or throws before or after it took effect.        *)
(* GitHandoff details the hand-off.                                        *)
(*                                                                         *)
(* All jobs belong to one project, so that creations contend for its lock. *)
(***************************************************************************)
EXTENDS Naturals, JobRecords

CONSTANTS
    Jobs,            \* job ids
    Requests,        \* concurrent calls of execute: processes or pilot sockets
    Project,         \* the lock key of the jobs' project
    Verbs,           \* the commands clients send
    DiskFaults,      \* where registry I/O may throw, see below
    Crashes,         \* whether a process may die
    OperatorUnlocks  \* whether somebody deletes orphaned lock directories

AllVerbs == {"create_job", "prompt_job", "job_status", "read_job",
             "handoff_job", "recover_job", "close_job"}

\* A get or the load of a put throws; a put throws with the old table in
\* place, or after the rename (the fsync of the directory); a lock is not
\* made, not marked with its owner, or not removed.
AllDiskFaults == {"read", "before", "after", "lock"}

ASSUME BrokerAssumption ==
    /\ Project \notin Jobs
    /\ Verbs \subseteq AllVerbs
    /\ DiskFaults \subseteq AllDiskFaults
    /\ Crashes \in BOOLEAN
    /\ OperatorUnlocks \in BOOLEAN

Keys == Jobs \cup {Project}
MutantMutating == {"create_job", "handoff_job", "close_job"}

Mutating == {"create_job", "prompt_job", "handoff_job", "close_job"}

EmptyTable == [j \in Jobs |-> NoRecord]
NoCommand == [verb |-> "none", job |-> Project]

(* A name that starts with Mutant is a variant of the definition after it, *)
(* a plausible slip of the code that the properties below must catch.      *)

VARIABLES
    file,     \* jobs.json: the record of every job
    dirs,     \* the lock directories that exist
    held,     \* request -> the lock keys its withLock calls created
    pc,       \* request -> the await it is at
    cmd,      \* request -> the command
    rec,      \* request -> `job', the record in memory
    table,    \* request -> the table its put loaded and changed
    next,     \* request -> where to go when the put returns
    reply,    \* request -> the category it will answer, or that it is throwing
    session,  \* job -> the Herdr workspace last created for it
    agent,    \* job -> where the agent of its name lives: inside that workspace or outside
    tree,     \* job -> its Git worktree
    doubt     \* history: job -> is the outcome of a prompt uncertain, was it repeated

registryVars == <<file, dirs, held>>
requestVars == <<pc, cmd, rec, table, next, reply>>
worldVars == <<session, agent, tree>>
vars == <<registryVars, requestVars, worldVars, doubt>>

Calls == {"git_create", "herdr_create", "herdr_prompt", "herdr_status",
          "herdr_read", "validate", "local_sha", "pr_validate", "returns",
          "herdr_close", "git_cleanup"}

Labels == Calls \cup {"idle", "lock", "dispatch", "project", "repeated",
                      "load", "write", "unlock", "catch"}

\* Where a put may lead: to a client's answer, to the finally blocks, or to
\* the next step of a hand-off.
Afterwards == {"idle", "unlock", "local_sha", "pr_validate", "returns"}

Replies == {"none", "ok", "refused", "busy", "unknown", "throws", "throws_registry"}

Throwing(r) == reply[r] \in {"throws", "throws_registry"}

RegistryTypes ==
    /\ file \in [Jobs -> JobRecord]
    /\ dirs \subseteq Keys
    /\ held \in [Requests -> SUBSET Keys]

RequestTypes ==
    /\ pc \in [Requests -> Labels]
    /\ cmd \in [Requests -> [verb : AllVerbs \cup {"none"}, job : Keys]]
    /\ rec \in [Requests -> JobRecord]
    /\ table \in [Requests -> [Jobs -> JobRecord]]
    /\ next \in [Requests -> Afterwards]
    /\ reply \in [Requests -> Replies]

WorldTypes ==
    /\ session \in [Jobs -> {"none", "open", "closed"}]
    /\ agent \in [Jobs -> {"none", "inside", "outside"}]
    /\ tree \in [Jobs -> {"none", "present", "removed"}]
    /\ doubt \in [Jobs -> {"none", "unsure", "repeated"}]

\* The type invariant.
TypeOK == RegistryTypes /\ RequestTypes /\ WorldTypes

Init ==
    /\ file = EmptyTable
    /\ dirs = {}
    /\ held = [r \in Requests |-> {}]
    /\ pc = [r \in Requests |-> "idle"]
    /\ cmd = [r \in Requests |-> NoCommand]
    /\ rec = [r \in Requests |-> NoRecord]
    /\ table = [r \in Requests |-> EmptyTable]
    /\ next = [r \in Requests |-> "idle"]
    /\ reply = [r \in Requests |-> "none"]
    /\ session = [j \in Jobs |-> "none"]
    /\ agent = [j \in Jobs |-> "none"]
    /\ tree = [j \in Jobs |-> "none"]
    /\ doubt = [j \in Jobs |-> "none"]

-----------------------------------------------------------------------------
(* Moves of a request *)

At(r, label) == pc[r] = label

Goto(r, label) ==
    /\ pc' = [pc EXCEPT ![r] = label]
    /\ UNCHANGED <<cmd, rec, table, next, reply>>

\* return or throw: the locals of dispatch and put go out of scope, and the
\* finally blocks of the locks run next.
Answer(r, category) ==
    /\ pc' = [pc EXCEPT ![r] = "unlock"]
    /\ rec' = [rec EXCEPT ![r] = NoRecord]
    /\ table' = [table EXCEPT ![r] = EmptyTable]
    /\ next' = [next EXCEPT ![r] = "idle"]
    /\ reply' = [reply EXCEPT ![r] = category]
    /\ UNCHANGED cmd

Throw(r, what) == Answer(r, what)

\* The lock itself fails, with an error that replaces any answer.
Reject(r, label) ==
    /\ pc' = [pc EXCEPT ![r] = label]
    /\ reply' = [reply EXCEPT ![r] = "throws_registry"]
    /\ UNCHANGED <<cmd, rec, table, next>>

\* await registry.put(job), and then on to `after'.
Put(r, record, after, category) ==
    /\ rec' = [rec EXCEPT ![r] = record]
    /\ pc' = [pc EXCEPT ![r] = "load"]
    /\ next' = [next EXCEPT ![r] = after]
    /\ reply' = [reply EXCEPT ![r] = category]
    /\ UNCHANGED <<cmd, table>>

\* execute answers its client: what it decided in `reply', or `busy' or
\* `failed'.  Its variables go out of scope.
Finish(r) ==
    /\ pc' = [pc EXCEPT ![r] = "idle"]
    /\ cmd' = [cmd EXCEPT ![r] = NoCommand]
    /\ rec' = [rec EXCEPT ![r] = NoRecord]
    /\ table' = [table EXCEPT ![r] = EmptyTable]
    /\ next' = [next EXCEPT ![r] = "idle"]
    /\ reply' = [reply EXCEPT ![r] = "none"]

-----------------------------------------------------------------------------
(* execute: the command, the job lock, the first get *)

Issue(r) ==
    /\ At(r, "idle")
    /\ \E v \in Verbs, j \in Jobs : cmd' = [cmd EXCEPT ![r] = [verb |-> v, job |-> j]]
    /\ pc' = [pc EXCEPT ![r] = "lock"]
    /\ UNCHANGED <<registryVars, rec, table, next, reply, worldVars, doubt>>

\* mkdir fails when the directory exists.
Take(r, key) ==
    /\ key \notin dirs
    /\ dirs' = dirs \cup {key}
    /\ held' = [held EXCEPT ![r] = @ \cup {key}]

LockJob(r) ==
    /\ At(r, "lock")
    /\ Take(r, cmd[r].job)
    /\ Goto(r, "dispatch")
    /\ UNCHANGED <<file, worldVars, doubt>>

\* Waiting for the lock instead of answering busy.
MutantJobBusy(r) ==
    /\ At(r, "lock")
    /\ cmd[r].job \in dirs
    /\ UNCHANGED vars

\* mkdir says EEXIST: "busy" is answered, nobody waits.
JobBusy(r) ==
    /\ At(r, "lock")
    /\ cmd[r].job \in dirs
    /\ Finish(r)
    /\ UNCHANGED <<registryVars, worldVars, doubt>>

\* withLock throws what is not `busy': no directory is made, or its owner
\* file cannot be written and the finally blocks run.
LockFails(r) ==
    LET key == IF At(r, "lock") THEN cmd[r].job ELSE Project IN
    /\ "lock" \in DiskFaults
    /\ pc[r] \in {"lock", "project"}
    /\ \/ At(r, "lock") /\ Reject(r, "catch") /\ UNCHANGED <<dirs, held>>
       \/ At(r, "project") /\ Throw(r, "throws_registry") /\ UNCHANGED <<dirs, held>>
       \/ Take(r, key) /\ Throw(r, "throws_registry")
    /\ UNCHANGED <<file, worldVars, doubt>>

\* A get that throws inside the locks.
GetFails(r) ==
    /\ pc[r] \in {"dispatch", "repeated"}
    /\ "read" \in DiskFaults
    /\ Throw(r, "throws_registry")
    /\ UNCHANGED <<registryVars, worldVars, doubt>>

\* dispatch has read the record of the command's job.
Reads(r, verb) ==
    /\ At(r, "dispatch")
    /\ cmd[r].verb = verb
    /\ UNCHANGED <<registryVars, worldVars, doubt>>

Found(r) == file[cmd[r].job]

Absent(r) == Found(r).state = "absent"

\* The record just read is kept for the next calls.
Keep(r, label) ==
    /\ pc' = [pc EXCEPT ![r] = label]
    /\ rec' = [rec EXCEPT ![r] = Found(r)]
    /\ UNCHANGED <<cmd, table, next, reply>>

CreateJob(r) ==
    /\ Reads(r, "create_job")
    /\ \/ ~Absent(r) /\ Answer(r, "ok")
       \/ Absent(r) /\ Answer(r, "refused")     \* unknown project or profile
       \/ Absent(r) /\ Keep(r, "project")

\* recover_job of an absent job: "safe to recreate".
AbsentJob(r) ==
    /\ Reads(r, cmd[r].verb)
    /\ Absent(r)
    /\ \/ cmd[r].verb = "recover_job" /\ Answer(r, "ok")
       \/ cmd[r].verb \notin {"create_job", "recover_job"} /\ Answer(r, "refused")

\* Any job that exists is prompted.
MutantPromptJob(r) ==
    /\ Reads(r, "prompt_job")
    /\ ~Absent(r)
    /\ Keep(r, "herdr_prompt")

PromptJob(r) ==
    /\ Reads(r, "prompt_job")
    /\ ~Absent(r)
    /\ IF Found(r).state = "ready" THEN Keep(r, "herdr_prompt") ELSE Answer(r, "refused")

JobStatus(r) ==
    /\ Reads(r, "job_status")
    /\ ~Absent(r)
    /\ IF Found(r).state \in Observable THEN Keep(r, "herdr_status") ELSE Answer(r, "ok")

ReadJob(r) ==
    /\ Reads(r, "read_job")
    /\ ~Absent(r)
    /\ IF Found(r).state \in Observable THEN Keep(r, "herdr_read") ELSE Answer(r, "refused")

\* The policy of the job's project may be gone since the job was created.
HandoffJob(r) ==
    /\ Reads(r, "handoff_job")
    /\ ~Absent(r)
    /\ \/ Found(r).state = "handoff_ready" /\ Answer(r, "ok")
       \/ Found(r).state # "handoff_ready" /\ Answer(r, "refused")
       \/ Found(r).state \in {"ready", "unknown"} /\ Keep(r, "validate")

\* With any evidence of a hand-off it is resumed, else Herdr is asked.
RecoverJob(r) ==
    LET evidence == Found(r).sha \/ Found(r).pr \/ Found(r).phase IN
    /\ Reads(r, "recover_job")
    /\ ~Absent(r)
    /\ \/ Found(r).state = "handoff_ready" /\ Answer(r, "ok")
       \/ Found(r).state \notin {"handoff_ready", "unknown"} /\ Answer(r, "refused")
       \/ Found(r).state = "unknown" /\ evidence /\ Answer(r, "refused")
       \/ Found(r).state = "unknown" /\ evidence /\ Keep(r, "validate")
       \/ Found(r).state = "unknown" /\ ~evidence /\ Keep(r, "herdr_status")

\* An uncertain job may be closed too.
MutantCloseJob(r) ==
    /\ Reads(r, "close_job")
    /\ ~Absent(r)
    /\ IF Found(r).state \in {"handoff_ready", "unknown"}
       THEN Keep(r, "herdr_close") ELSE Answer(r, "refused")

CloseJob(r) ==
    /\ Reads(r, "close_job")
    /\ ~Absent(r)
    /\ \/ Answer(r, "refused")
       \/ Found(r).state = "handoff_ready" /\ Keep(r, "herdr_close")

Dispatch(r) ==
    \/ CreateJob(r) \/ AbsentJob(r) \/ PromptJob(r) \/ JobStatus(r) \/ ReadJob(r)
    \/ HandoffJob(r) \/ RecoverJob(r) \/ CloseJob(r)

-----------------------------------------------------------------------------
(* create_job *)

LockProject(r) ==
    /\ At(r, "project")
    /\ Take(r, Project)
    /\ Goto(r, "repeated")
    /\ UNCHANGED <<file, worldVars, doubt>>

\* "busy" leaves through the job lock: the answer is refused, not unknown.
ProjectBusy(r) ==
    /\ At(r, "project")
    /\ Project \in dirs
    /\ Answer(r, "busy")
    /\ UNCHANGED <<registryVars, worldVars, doubt>>

RepeatedGet(r) ==
    /\ At(r, "repeated")
    /\ IF Absent(r) THEN Keep(r, "git_create") ELSE Answer(r, "ok")
    /\ UNCHANGED <<registryVars, worldVars, doubt>>

\* A worktree left clean at the base by an earlier attempt is reused.
GitCreate(r) ==
    /\ At(r, "git_create")
    /\ tree' = [tree EXCEPT ![cmd[r].job] = "present"]
    /\ \/ Goto(r, "herdr_create")
       \/ Throw(r, "throws")
    /\ UNCHANGED <<registryVars, session, agent, doubt>>

\* Where the agent may be once another workspace was made: not started yet,
\* in the new one, or, of an earlier attempt, where it was.
Places(j) == {"none", "inside"} \cup IF agent[j] = "none" THEN {} ELSE {"outside"}

\* `workspace create' never reuses one: a second call makes a second one.  An
\* agent that has the name already is adopted.
HerdrCreate(r) ==
    LET j == cmd[r].job IN
    /\ At(r, "herdr_create")
    /\ session' = [session EXCEPT ![j] = "open"]
    /\ \E place \in Places(j) :
         /\ agent' = [agent EXCEPT ![j] = place]
         /\ \/ place # "none" /\ Put(r, Blank("ready"), "unlock", "ok")
            \/ Throw(r, "throws")
    /\ UNCHANGED <<registryVars, tree, doubt>>

-----------------------------------------------------------------------------
(* prompt_job, job_status, read_job *)

Category(state) == IF state = "unknown" THEN "unknown" ELSE "ok"

\* Herdr finds the agent by its name, whatever became of the workspace.
Named(r) == agent[cmd[r].job] # "none"

\* The text is sent; doubt remembers that its outcome is not durable yet.
HerdrPrompt(r) ==
    LET j == cmd[r].job IN
    /\ At(r, "herdr_prompt")
    /\ Named(r)
    /\ doubt' = [doubt EXCEPT ![j] = IF @ = "none" THEN "unsure" ELSE "repeated"]
    /\ \/ \E s \in Observable : Put(r, [rec[r] EXCEPT !.state = s], "unlock", Category(s))
       \/ Throw(r, "throws")
    /\ UNCHANGED <<registryVars, worldVars>>

\* Herdr's answer settles an uncertain prompt only in recover_job, the
\* reconciliation its coordinator asks for.
HerdrStatus(r) ==
    LET j == cmd[r].job IN
    /\ At(r, "herdr_status")
    /\ Named(r)
    /\ \E s \in Observable :
         /\ Put(r, [rec[r] EXCEPT !.state = s], "unlock", Category(s))
         /\ doubt' = [doubt EXCEPT ![j] =
              IF @ = "unsure" /\ s # "unknown" /\ cmd[r].verb = "recover_job" THEN "none" ELSE @]
    /\ UNCHANGED <<registryVars, worldVars>>

HerdrRead(r) ==
    /\ At(r, "herdr_read")
    /\ Named(r)
    /\ Answer(r, "ok")
    /\ UNCHANGED <<registryVars, worldVars, doubt>>

-----------------------------------------------------------------------------
(* handoff_job and recover_job *)

\* Three checkpoints stand for the eight of git.handoff: the evidence grows
\* at these only, and every one of them is an Object.assign and a put.
Checkpoint(r) ==
    /\ \/ At(r, "validate") /\ Put(r, [rec[r] EXCEPT !.phase = TRUE], "local_sha", "none")
       \/ At(r, "local_sha") /\ Put(r, [rec[r] EXCEPT !.sha = TRUE], "pr_validate", "none")
       \/ At(r, "pr_validate") /\ Put(r, [rec[r] EXCEPT !.pr = TRUE], "returns", "none")
    /\ UNCHANGED <<registryVars, worldVars, doubt>>

\* The record is rebuilt instead of changed.
MutantHandoffReturns(r) ==
    /\ At(r, "returns")
    /\ Put(r, [state |-> "handoff_ready", sha |-> TRUE, pr |-> TRUE], "unlock", "ok")
    /\ UNCHANGED <<registryVars, worldVars, doubt>>

HandoffReturns(r) ==
    /\ At(r, "returns")
    /\ Put(r, HandedOff, "unlock", "ok")
    /\ UNCHANGED <<registryVars, worldVars, doubt>>

-----------------------------------------------------------------------------
(* close_job *)

\* Only the agent inside the workspace goes with it.
HerdrClose(r) ==
    LET j == cmd[r].job IN
    /\ At(r, "herdr_close")
    /\ session' = [session EXCEPT ![j] = "closed"]
    /\ agent' = [agent EXCEPT ![j] = IF @ = "inside" THEN "none" ELSE @]
    /\ \/ Goto(r, "git_cleanup")
       \/ Throw(r, "throws")
    /\ UNCHANGED <<registryVars, tree, doubt>>

GitCleanup(r) ==
    LET j == cmd[r].job IN
    /\ At(r, "git_cleanup")
    /\ tree[j] = "present"
    /\ tree' = [tree EXCEPT ![j] = "removed"]
    /\ \/ Put(r, [rec[r] EXCEPT !.state = "closed"], "unlock", "ok")
       \/ Throw(r, "throws")                   \* removed, and then the prune failed
    /\ UNCHANGED <<registryVars, session, agent, doubt>>

\* Any adapter call may throw without having had an effect.
CallFails(r) ==
    /\ pc[r] \in Calls
    /\ Throw(r, "throws")
    /\ UNCHANGED <<registryVars, worldVars, doubt>>

-----------------------------------------------------------------------------
(* registry.put: load the whole table, change one record, replace the file *)

\* In the catch block of execute a failing put is swallowed.
PutThrows(r) ==
    \/ next[r] = "idle" /\ Finish(r)
    \/ next[r] # "idle" /\ Throw(r, "throws_registry")

Load(r) ==
    /\ table' = [table EXCEPT ![r] = [file EXCEPT ![cmd[r].job] = rec[r]]]
    /\ pc' = [pc EXCEPT ![r] = "write"]
    /\ UNCHANGED <<cmd, rec, next, reply>>

PutLoad(r) ==
    /\ At(r, "load")
    /\ \/ Load(r)
       \/ "read" \in DiskFaults /\ PutThrows(r)
    /\ UNCHANGED <<registryVars, worldVars, doubt>>

Resume(r) ==
    /\ next[r] \notin {"idle", "unlock"}
    /\ pc' = [pc EXCEPT ![r] = next[r]]
    /\ table' = [table EXCEPT ![r] = EmptyTable]
    /\ next' = [next EXCEPT ![r] = "idle"]
    /\ UNCHANGED <<cmd, rec, reply>>

PutReturns(r) ==
    \/ next[r] = "idle" /\ Finish(r)
    \/ next[r] = "unlock" /\ Answer(r, reply[r])
    \/ Resume(r)

\* A prompt's outcome is certain once it is in the file.
PutReplaces(r) ==
    LET j == cmd[r].job
        settled == cmd[r].verb = "prompt_job" /\ next[r] = "unlock" /\ rec[r].state # "unknown" IN
    /\ At(r, "write")
    /\ file' = table[r]
    /\ doubt' = [doubt EXCEPT ![j] = IF settled /\ @ = "unsure" THEN "none" ELSE @]
    /\ \/ PutReturns(r)
       \/ "after" \in DiskFaults /\ PutThrows(r)
    /\ UNCHANGED <<dirs, held, worldVars>>

PutFails(r) ==
    /\ At(r, "write")
    /\ "before" \in DiskFaults
    /\ PutThrows(r)
    /\ UNCHANGED <<registryVars, worldVars, doubt>>

-----------------------------------------------------------------------------
(* The way out: the finally blocks, then the catch of execute *)

Uncertain(r) == cmd[r].verb \in Mutating \/ reply[r] = "throws_registry"

\* The project lock is the inner one.
Innermost(r) == IF Project \in held[r] THEN Project ELSE cmd[r].job
\* rm of the lock root, not of the lock.
MutantUnlock(r) ==
    /\ At(r, "unlock")
    /\ dirs' = {}
    /\ held' = [held EXCEPT ![r] = @ \ {Innermost(r)}]
    /\ \/ held[r] # {Innermost(r)} /\ Goto(r, "unlock")
       \/ held[r] = {Innermost(r)} /\ Throwing(r) /\ Goto(r, "catch")
       \/ held[r] = {Innermost(r)} /\ ~Throwing(r) /\ Finish(r)
    /\ UNCHANGED <<file, worldVars, doubt>>

Unlock(r) ==
    LET key == Innermost(r) IN
    /\ At(r, "unlock")
    /\ dirs' = dirs \ {key}
    /\ held' = [held EXCEPT ![r] = @ \ {key}]
    /\ \/ held[r] # {key} /\ Goto(r, "unlock")
       \/ held[r] = {key} /\ Throwing(r) /\ Goto(r, "catch")
       \/ held[r] = {key} /\ ~Throwing(r) /\ Finish(r)
    /\ UNCHANGED <<file, worldVars, doubt>>

\* rm throws, with the directory still there or not, and execute learns
\* nothing else of what was done.
UnlockFails(r) ==
    LET key == Innermost(r) IN
    /\ At(r, "unlock")
    /\ "lock" \in DiskFaults
    /\ dirs' \in {dirs, dirs \ {key}}
    /\ held' = [held EXCEPT ![r] = @ \ {key}]
    /\ Reject(r, IF held[r] = {key} THEN "catch" ELSE "unlock")
    /\ UNCHANGED <<file, worldVars, doubt>>

\* No lock is held here.  Only a mutation, or an error whose message names
\* the registry (some of those a disk throws do), is uncertain.
CatchCertain(r) ==
    /\ At(r, "catch")
    /\ cmd[r].verb \notin Mutating
    /\ Finish(r)
    /\ UNCHANGED <<registryVars, worldVars, doubt>>

\* The record is written back as it was read.
MutantCatchUncertain(r) ==
    /\ At(r, "catch")
    /\ Uncertain(r)
    /\ IF Absent(r) THEN Finish(r) ELSE Put(r, Found(r), "idle", "unknown")
    /\ UNCHANGED <<registryVars, worldVars, doubt>>

\* The record is put back to where the next prompt may be tried.
MutantCatchReady(r) ==
    /\ At(r, "catch")
    /\ Uncertain(r)
    /\ IF Absent(r) THEN Finish(r)
       ELSE Put(r, [Found(r) EXCEPT !.state = "ready"], "idle", "unknown")
    /\ UNCHANGED <<registryVars, worldVars, doubt>>

CatchUncertain(r) ==
    /\ At(r, "catch")
    /\ Uncertain(r)
    /\ \/ Absent(r) /\ Finish(r)
       \/ ~Absent(r) /\ Put(r, [Found(r) EXCEPT !.state = "unknown"], "idle", "unknown")
       \/ "read" \in DiskFaults /\ Finish(r)
    /\ UNCHANGED <<registryVars, worldVars, doubt>>

-----------------------------------------------------------------------------
(* Outside: a process dies, an operator removes an orphaned lock *)

Crash(r) ==
    /\ Crashes
    /\ pc[r] # "idle"
    /\ Finish(r)
    /\ held' = [held EXCEPT ![r] = {}]
    /\ UNCHANGED <<file, dirs, worldVars, doubt>>

OperatorUnlock(key) ==
    /\ OperatorUnlocks
    /\ key \in dirs
    /\ \A r \in Requests : key \notin held[r]
    /\ dirs' = dirs \ {key}
    /\ UNCHANGED <<file, held, requestVars, worldVars, doubt>>

-----------------------------------------------------------------------------
\* What a request does once it has been issued, with locks that work or throw.
Proceed(r) ==
    \/ LockJob(r) \/ JobBusy(r) \/ GetFails(r) \/ Dispatch(r)
    \/ LockProject(r) \/ ProjectBusy(r) \/ RepeatedGet(r)
    \/ GitCreate(r) \/ HerdrCreate(r) \/ HerdrPrompt(r) \/ HerdrStatus(r) \/ HerdrRead(r)
    \/ Checkpoint(r) \/ HandoffReturns(r) \/ HerdrClose(r) \/ GitCleanup(r) \/ CallFails(r)
    \/ PutLoad(r) \/ PutReplaces(r) \/ PutFails(r)
    \/ Unlock(r) \/ CatchCertain(r) \/ CatchUncertain(r)

Step(r) == Proceed(r) \/ LockFails(r) \/ UnlockFails(r)

Next ==
    \/ \E r \in Requests : Issue(r) \/ Step(r) \/ Crash(r)
    \/ \E key \in Keys : OperatorUnlock(key)

Spec == Init /\ [][Next]_vars

\* Locks are try-locks, and every adapter call and file operation ends: the
\* executor kills a command at its time limit.  That a lock throws is never
\* relied on.
FairSpec == Spec /\ \A r \in Requests : WF_vars(Proceed(r))
-----------------------------------------------------------------------------
(* Safety *)

\* Where a request works under its job lock, and under the project lock too.
Inside(r) ==
    \/ pc[r] \in Calls \cup {"dispatch", "project", "repeated"}
    \/ pc[r] \in {"load", "write"} /\ next[r] # "idle"

Creating(r) ==
    \/ pc[r] \in {"repeated", "git_create", "herdr_create"}
    \/ pc[r] \in {"load", "write"} /\ next[r] # "idle" /\ cmd[r].verb = "create_job"

\* The lock discipline of execute (broker.ts:20-28): two requests are never
\* both inside the same job, and never both create in the project, whatever
\* died holding a lock and whichever orphaned lock an operator removed.
MutualExclusion ==
    \A r, s \in Requests : r # s =>
        /\ Inside(r) /\ Inside(s) => cmd[r].job # cmd[s].job
        /\ ~(Creating(r) /\ Creating(s))

\* Why it holds: a lock has one holder, and a directory while it has one;
\* and a request holds its locks exactly from where it took them until the
\* finally blocks are through.
LocksHeld ==
    /\ \A r \in Requests :
         /\ held[r] \subseteq dirs
         /\ held[r] \subseteq {cmd[r].job, Project}
         /\ IF Inside(r) \/ At(r, "unlock") THEN cmd[r].job \in held[r] ELSE held[r] = {}
         /\ Creating(r) => Project \in held[r]
    /\ \A r, s \in Requests : r # s => held[r] \cap held[s] = {}

\* Which command is where: a request that is not idle has one, and only a
\* creation is in the steps of create_job.
CommandsPlaced ==
    \A r \in Requests :
       /\ pc[r] # "idle" => cmd[r] \in [verb : AllVerbs, job : Jobs]
       /\ \/ pc[r] \in Calls \ {"git_create", "herdr_create"}
          \/ pc[r] \in {"load", "write"} /\ next[r] \notin {"idle", "unlock"}
          => cmd[r].verb # "create_job"

\* No put is ever refused by validate (fileJobRegistry.ts:16), not even one
\* of a stale record: whoever reads a handed-off or closed job finds the
\* commit and the pull request that close_job verifies.
Complete(record) == record.state \in {"handoff_ready", "closed"} => HasEvidence(record)

EvidenceComplete == \A j \in Jobs : Complete(file[j])

\* Why it holds: so is every record in memory, and only the record of a job
\* that was handed off reaches the two calls of close_job.
EvidenceInMemory ==
    \A r \in Requests :
       /\ Complete(rec[r])
       /\ \A j \in Jobs : Complete(table[r][j])
       /\ pc[r] \in {"herdr_close", "git_cleanup"} => rec[r].state = "handoff_ready"

\* The inductive invariant of the broker: see HostBrokerProofs.
IInv == TypeOK /\ CommandsPlaced /\ LocksHeld /\ EvidenceComplete /\ EvidenceInMemory

\* A job that is ready or working has an agent, in the open workspace and the
\* worktree of its record, although a close may fail between destroying them
\* and recording it, and job_status may overwrite `unknown'.  An agent adopted
\* from an earlier attempt is excepted: it answers to its name after both of
\* them have gone (herdrCliAdapter.ts:82, :90-96; finding_create).
LiveJobsHaveWorkspaces ==
    \A j \in Jobs : file[j].state \in {"ready", "working"} =>
        \/ agent[j] = "inside" /\ session[j] = "open" /\ tree[j] = "present"
        \/ agent[j] = "outside"

\* Sequential clients never prompt twice when the first outcome is uncertain
\* (README.md:11), unless recover_job settled it in between.
NoPromptRepeated == \A j \in Jobs : doubt[j] # "repeated"

-----------------------------------------------------------------------------
(* What a step may never do *)

\* A workspace is closed and a worktree removed only under the job's lock,
\* for a record that was handed off (README.md:14), even if the file meanwhile
\* says otherwise.
DestroysOnlyHandedOff ==
    [][\A j \in Jobs :
         \/ session[j] # "closed" /\ session'[j] = "closed"
         \/ tree[j] # "removed" /\ tree'[j] = "removed"
         => \E r \in Requests : /\ j \in held[r]
                               /\ rec[r].state = "handoff_ready"
                               /\ HasEvidence(rec[r])]_vars

\* What execute answers is what a later process will read: `unknown' of a
\* mutation and of recover_job is durable (broker.test.ts:49), and so is what
\* an `ok' says was done.
AnswersAreDurable ==
    [][\A r \in Requests :
         LET verb == cmd[r].verb
             state == file'[cmd[r].job].state IN
         pc[r] # "idle" /\ pc'[r] = "idle" =>
           /\ reply[r] = "unknown" => state \in {"absent", "unknown"}
           /\ reply[r] = "ok" /\ verb = "create_job" => state # "absent"
           /\ reply[r] = "ok" /\ verb = "prompt_job" => state \in {"ready", "working"}
           /\ reply[r] = "ok" /\ verb = "handoff_job" => state = "handoff_ready"
           /\ reply[r] = "ok" /\ verb = "close_job" => state = "closed"]_vars

\* A put changes the record of its own job only (fileJobRegistry.test.ts:3:
\* "preserves unrelated records").
PutsPreserveOthers ==
    [][\A r \in Requests : At(r, "write") /\ ~(At(r, "write"))' =>
         \A j \in Jobs \ {cmd[r].job} : file'[j] = file[j]]_vars

-----------------------------------------------------------------------------
(* Liveness and refinement *)

\* Every request is answered: no lock is waited for, and a process that died
\* leaves others a `busy', never a wait.
EveryRequestAnswered == \A r \in Requests : pc[r] # "idle" ~> pc[r] = "idle"

\* A closed job is doubted again when a read or a lock fails, or a put after
\* its rename: the catch of execute writes `unknown' over `closed'.
Lifecycle == INSTANCE JobLifecycle WITH
    jobs <- file, ClosedIsFinal <- DiskFaults \subseteq {"before"}

\* One request at a time, the registry file goes through the lifecycle of
\* JobLifecycle under every disk fault, crashes and throwing locks included;
\* a closed job stays closed when nothing throws but puts that left the old
\* file in place.
FollowsLifecycle == Lifecycle!Spec
=============================================================================
