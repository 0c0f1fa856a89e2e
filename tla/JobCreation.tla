---------------------------- MODULE JobCreation -----------------------------
(***************************************************************************)
(* One job through both adapters: create_job is tried until it is recorded *)
(* (recover_job answers "safe to recreate"), then it is prompted, asked,   *)
(* handed over and closed.  Steps are the adapters' commands; the hand-off *)
(* and the checks of cleanup, which GitHandoff details, are one step each. *)
(***************************************************************************)
EXTENDS WorktreeCreate, HerdrAdapter

VARIABLES
    record,   \* the job in the registry
    adopted   \* history: the recorded workspace is not the agent's

recordVars == <<record, adopted>>
vars == <<commandVars, gitVars, herdrVars, recordVars>>

Absent == [state |-> "absent", space |-> NoSpace]
Blank == [state |-> "none", space |-> NoSpace]

\* Every await of a command.
Awaits == {"remote", "fetch", "base", "stat", "branch", "head", "status", "add",
           "space", "snapshot", "start", "probe", "get", "process", "type",
           "observe", "resolve", "close", "cleanup", "put", "catch"}

JobStates == {"ready", "working", "unknown", "handoff_ready", "closed"}
Jobs == [state : JobStates \cup {"none"}, space : Spaces \cup {NoSpace}]
Records == [state : JobStates \cup {"absent"}, space : Spaces \cup {NoSpace}]

\* The type invariant.
TypeOK ==
    /\ todo \in Seq(Awaits)
    /\ job \in Jobs
    /\ calm \in BOOLEAN
    /\ GitTypes
    /\ HerdrTypes
    /\ record \in Records
    /\ adopted \in BOOLEAN

\* Nothing yet, or a job recorded before workspace ids were.
Init ==
    /\ todo = <<>>
    /\ job = Blank
    /\ calm = FALSE
    /\ adopted = FALSE
    /\ \/ GitInit /\ HerdrInit /\ record = Absent
       \/ \E space \in Spaces :
          /\ record = [state |-> "ready", space |-> NoSpace]
          /\ spaces = {space}
          /\ agent = [space |-> space, state |-> "live"]
          /\ probes = 0 /\ vanished = FALSE /\ typed = "nowhere"
          /\ upstream = 0 /\ tracking = 0 /\ baseSha = 0 /\ fetched = 0
          /\ branched = TRUE
          /\ tree = [state |-> "clean", head |-> 0]

-----------------------------------------------------------------------------
(* Commands *)

Start(steps, found) ==
    /\ todo = <<>>
    /\ todo' = steps
    /\ job' = found
    /\ vanished' = FALSE
    /\ UNCHANGED <<calm, gitVars, spaces, agent, probes, typed, recordVars>>

\* The locals of the last attempt are gone.
CreateJob ==
    /\ record.state = "absent"
    /\ Start(GitCreate \o HerdrCreate \o <<"put">>, [state |-> "ready", space |-> NoSpace])

PromptJob ==
    /\ record.state = "ready"
    /\ Start(HerdrPrompt \o <<"put">>, record)

\* job_status, or recover_job of an unknown job without hand-off evidence.
JobStatus ==
    /\ record.state \in {"ready", "working", "unknown"}
    /\ Start(<<"observe", "put">>, record)

\* handoff_job, or recover_job with evidence: see GitHandoff.
HandoffJob ==
    /\ record.state \in {"ready", "unknown"}
    /\ tree.state # "none"
    /\ Start(<<"put">>, [record EXCEPT !.state = "handoff_ready"])

CloseJob ==
    /\ record.state = "handoff_ready"
    /\ Start(<<"resolve", "close", "cleanup", "put">>, record)

\* git.cleanup, which keeps a worktree that does not stand up to its checks.
Cleanup ==
    /\ At("cleanup")
    /\ \/ tree' = NoTree /\ Proceed /\ job' = [job EXCEPT !.state = "closed"]
       \/ tree' = NoTree /\ Fails /\ UNCHANGED job
       \/ Throw /\ UNCHANGED <<tree, job>>
    /\ UNCHANGED <<calm, upstream, tracking, baseSha, fetched, branched, herdrVars, recordVars>>

Adopted == IF record.state = "absent" THEN agent.space \notin {job.space, NoSpace} ELSE adopted

\* registry.put, which may throw with the old record in place or the new one.
Put ==
    /\ At("put")
    /\ \/ Proceed /\ record' = job /\ adopted' = Adopted
       \/ Fails /\ record' = job /\ adopted' = Adopted
       \/ Fails /\ UNCHANGED recordVars
    /\ UNCHANGED <<job, calm, gitVars, herdrVars>>

\* The catch block of execute writes unknown over what is recorded, if it can
\* and the command is mutating (a job_status whose put failed is not).
Catch ==
    /\ At("catch")
    /\ Proceed
    /\ \/ record.state # "absent" /\ record' = [record EXCEPT !.state = "unknown"]
       \/ (record.state = "absent" \/ ~calm) /\ UNCHANGED record
    /\ UNCHANGED <<job, calm, gitVars, herdrVars, adopted>>

-----------------------------------------------------------------------------
\* After the last failure has been dealt with.
BecomeCalm ==
    /\ ~calm /\ ~At("catch")
    /\ calm' = TRUE
    /\ UNCHANGED <<todo, job, gitVars, herdrVars, recordVars>>

Command == CreateJob \/ PromptJob \/ JobStatus \/ HandoffJob \/ CloseJob

Step ==
    \/ GitStep /\ UNCHANGED <<herdrVars, recordVars>>
    \/ HerdrStep /\ UNCHANGED <<gitVars, recordVars>>
    \/ Cleanup \/ Put \/ Catch

GitOthers == UpstreamMoves \/ OtherFetch \/ (record.state = "absent" /\ Meddle)
HerdrOthers == AgentComesUp \/ AgentEnds \/ NameDropped \/ ClosedByHand

Next ==
    \/ Command \/ Step \/ BecomeCalm
    \/ GitOthers /\ UNCHANGED <<herdrVars, recordVars>>
    \/ HerdrOthers /\ UNCHANGED <<gitVars, recordVars>>

Spec == Init /\ [][Next]_vars

\* Every command ends, the coordinator repeats a creation whose outcome it does
\* not know, and Herdr brings up what was launched and forgets what ended.
Herdr == (AgentComesUp \/ NameDropped) /\ UNCHANGED <<gitVars, recordVars>>
FairSpec == Spec /\ WF_vars(Step) /\ WF_vars(CreateJob) /\ WF_vars(Herdr)

-----------------------------------------------------------------------------
(* Properties *)

Recorded == record.state = "absent" /\ record'.state # "absent"

\* A job is recorded with a worktree that is clean, on the job's branch and no
\* older than the base branch was when this attempt fetched it ("freshly created
\* and clean from that verified, protected LMNS origin and base",
\* docs/windows-greg-pilot-setup.md:114), whatever earlier attempts left.
FreshTree == [][Recorded => tree.state = "clean" /\ tree.head >= fetched]_vars

\* ... and with an agent whose process was there when it was last looked at, be
\* it one that an earlier attempt started, and be it ready yet or not.
AgentWasLive == [][Recorded => agent.state \in {"starting", "live"} \/ vanished]_vars

\* The text of a prompt is not typed into the shell an agent left behind, except
\* when the agent ended after the second look (herdrCliAdapter.ts:70-72).
PromptsOnlyAgents == [][typed' = "shell" => typed = "shell" \/ vanished]_vars

\* Closing a job ends its agent, unless create had taken over the agent of an
\* earlier attempt.
ClosedLeavesNoAgent == record.state = "closed" /\ ~adopted => agent.state = "none"

\* A retried create is as good as one that succeeded at once: what a job that is
\* closed had running is gone (the comment at broker.ts:31-33: "safely retry the
\* idempotent create").
ClosedJobsHaveNoAgent == record.state = "closed" => agent.state = "none"

\* Once nothing fails any more, retries get the job recorded, if the worktree
\* left behind by an earlier attempt can still be reused.
RetriesSucceed == <>calm => <>[](record.state # "absent" \/ Stuck)

=============================================================================
