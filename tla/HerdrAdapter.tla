---------------------------- MODULE HerdrAdapter ----------------------------
(***************************************************************************)
(* The Herdr adapter (herdrCliAdapter.ts): create, prompt, status and      *)
(* close, one herdr command per step.  A workspace is a terminal with one  *)
(* pane.  The agent of a job has a durable name, made from the label and   *)
(* the job id, so every attempt to create the job asks for the same name;  *)
(* a name in use cannot be started again.                                  *)
(*                                                                         *)
(* An agent is launching when its start took effect and `agent get' does   *)
(* not know it yet, starting when it is known and not ready (its process   *)
(* may be in front of the pane or not), live, or ended: a shell is in      *)
(* front of the pane and the name may still resolve.                       *)
(***************************************************************************)
EXTENDS JobCommand

CONSTANTS
    Spaces,  \* workspace ids
    Probes   \* how often startAgent looks for the name after a failed start

NoSpace == 0

ASSUME HerdrAssumption ==
    /\ NoSpace \notin Spaces
    /\ \E s, t \in Spaces : s # t   \* the agent's and a new one
    /\ Probes \in Nat \ {0}

VARIABLES
    spaces,    \* the open workspaces anybody still refers to
    agent,     \* the agent of the job's name: where it is and how
    probes,    \* the probes startAgent has left
    vanished,  \* history: the agent ended in this command, after its last look
    typed      \* history: where the text of the last prompt went

herdrVars == <<spaces, agent, probes, vanished, typed>>

NoAgent == [space |-> NoSpace, state |-> "none"]

HerdrTypes ==
    /\ spaces \subseteq Spaces
    /\ agent \in [space : Spaces \cup {NoSpace},
                  state : {"none", "launching", "starting", "live", "ended"}]
    /\ probes \in 0..Probes
    /\ vanished \in BOOLEAN
    /\ typed \in {"nowhere", "agent", "shell"}

HerdrInit ==
    /\ spaces = {}
    /\ agent = NoAgent
    /\ probes = 0
    /\ vanished = FALSE
    /\ typed = "nowhere"

\* assertAgentLive, and the pause between two of them.
AssertAgentLive == <<"get", "process">>

\* agent start is trusted.
MutantHerdrCreate == <<"space", "snapshot", "start">>

HerdrCreate == <<"space", "snapshot", "start">> \o AssertAgentLive
HerdrPrompt == AssertAgentLive \o AssertAgentLive \o <<"type">>

Known == agent.state \in {"starting", "live", "ended"}

-----------------------------------------------------------------------------
(* create *)

\* `workspace create' never finds an earlier one.  A workspace that neither
\* the command nor the agent is in is nobody's: its id stands for a new one.
NewSpace == CHOOSE space \in Spaces : space # agent.space

WorkspaceCreate ==
    /\ At("space")
    /\ \/ /\ spaces' = (spaces \cap {agent.space}) \cup {NewSpace}
          /\ \/ Proceed /\ job' = [job EXCEPT !.space = NewSpace]
             \/ Fails /\ UNCHANGED job
       \/ Fails /\ UNCHANGED <<job, spaces>>
    /\ UNCHANGED <<calm, agent, probes, vanished, typed>>

\* The pane is looked up by the workspace.
Snapshot ==
    /\ At("snapshot")
    /\ IF job.space \in spaces THEN Proceed \/ Fails ELSE Throw
    /\ UNCHANGED <<job, calm, herdrVars>>

\* The only call of `agent start'.  Its error may come after the launch, or
\* because the name is in use, or the pane is not there.
AgentStart ==
    /\ At("start")
    /\ \/ /\ agent.state = "none" /\ job.space \in spaces
          /\ \/ /\ agent' = [space |-> job.space, state |-> "live"]
                /\ Proceed
                /\ UNCHANGED probes
             \/ /\ ~calm
                /\ agent' = [space |-> job.space, state |-> "launching"]
                /\ Branch(<<"probe">>)
                /\ probes' = Probes
       \/ /\ ~calm \/ agent.state # "none" \/ job.space \notin spaces
          /\ Branch(<<"probe">>)
          /\ probes' = Probes
          /\ UNCHANGED agent
    /\ UNCHANGED <<job, calm, spaces, vanished, typed>>

\* Without the probes: whatever went wrong with the start is an error.
MutantProbe ==
    /\ At("probe")
    /\ Throw
    /\ probes' = 0
    /\ UNCHANGED <<job, calm, spaces, agent, vanished, typed>>

\* One probe too many.
MutantProbes ==
    /\ At("probe")
    /\ \/ Known /\ Proceed /\ probes' = 0
       \/ /\ ~Known \/ ~calm
          /\ probes' = probes - 1
          /\ IF probes >= 0 THEN UNCHANGED todo ELSE Throw
    /\ UNCHANGED <<job, calm, spaces, agent, vanished, typed>>

\* A failed start is never repeated; the name is looked for instead, and an
\* agent of that name counts as started.
Probe ==
    /\ At("probe")
    /\ \/ Known /\ Proceed /\ probes' = 0
       \/ /\ ~Known \/ ~calm
          /\ probes' = probes - 1
          /\ IF probes > 1 THEN UNCHANGED todo ELSE Throw
    /\ UNCHANGED <<job, calm, spaces, agent, vanished, typed>>

-----------------------------------------------------------------------------
(* assertAgentLive *)

\* Herdr 0.7 does not say whether the agent is ready, 0.8 does.
AgentGet ==
    /\ At("get")
    /\ \/ agent.state \in {"live", "ended"} /\ Proceed
       \/ agent.state = "starting" /\ (Proceed \/ Throw)
       \/ ~Known /\ Throw
       \/ Fails
    /\ UNCHANGED <<job, calm, herdrVars>>

\* The process in front of the pane is not looked at.
MutantProcessInfo ==
    /\ At("process")
    /\ Proceed
    /\ vanished' = FALSE
    /\ UNCHANGED <<job, calm, spaces, agent, probes, typed>>

ProcessInfo ==
    /\ At("process")
    /\ \/ agent.state \in {"starting", "live"} /\ Proceed /\ vanished' = FALSE
       \/ agent.state # "live" /\ Throw /\ UNCHANGED vanished
       \/ Fails /\ UNCHANGED vanished
    /\ UNCHANGED <<job, calm, spaces, agent, probes, typed>>

-----------------------------------------------------------------------------
(* prompt, status, close *)

\* `agent prompt' types the text into the agent's pane, whatever is in front
\* of it.  An error that Herdr gives a code is an answer too, that the state is
\* unknown; only a command that fails otherwise throws.
AgentPrompt ==
    /\ At("type")
    /\ \/ /\ Known
          /\ typed' = IF agent.state = "ended" THEN "shell" ELSE "agent"
          /\ \/ Proceed /\ \E s \in {"working", "ready", "unknown"} : job' = [job EXCEPT !.state = s]
             \/ Fails /\ UNCHANGED job
       \/ /\ ~Known \/ ~calm
          /\ \/ Proceed /\ job' = [job EXCEPT !.state = "unknown"]
             \/ Throw /\ UNCHANGED job
          /\ UNCHANGED typed
    /\ UNCHANGED <<calm, spaces, agent, probes, vanished>>

Status ==
    /\ At("observe")
    /\ \/ Known /\ Proceed /\ \E s \in {"working", "ready", "unknown"} : job' = [job EXCEPT !.state = s]
       \/ (~Known \/ ~calm) /\ Answer /\ UNCHANGED job
    /\ UNCHANGED <<calm, herdrVars>>

\* A record from before workspace ids were kept is resolved by the name.
Resolve ==
    /\ At("resolve")
    /\ \/ job.space # NoSpace /\ Proceed /\ UNCHANGED job
       \/ job.space = NoSpace /\ Known /\ Proceed /\ job' = [job EXCEPT !.space = agent.space]
       \/ job.space = NoSpace /\ ~Known /\ Throw /\ UNCHANGED job
       \/ Fails /\ UNCHANGED job
    /\ UNCHANGED <<calm, herdrVars>>

\* Closing a workspace ends what runs in it.
Closed(space) ==
    /\ spaces' = spaces \ {space}
    /\ agent' = IF agent.space = space THEN NoAgent ELSE agent

\* Any refusal is taken for a workspace that is gone.
MutantWorkspaceClose ==
    /\ At("close")
    /\ \/ Closed(job.space) /\ (Proceed \/ Fails)
       \/ Proceed /\ UNCHANGED <<spaces, agent>>
    /\ UNCHANGED <<job, calm, probes, vanished, typed>>

\* A workspace that is gone already (workspace_not_found) is closed.
WorkspaceClose ==
    /\ At("close")
    /\ \/ Closed(job.space) /\ (Proceed \/ Fails)
       \/ Fails /\ UNCHANGED <<spaces, agent>>
    /\ UNCHANGED <<job, calm, probes, vanished, typed>>

HerdrStep ==
    \/ WorkspaceCreate \/ Snapshot \/ AgentStart \/ Probe \/ AgentGet \/ ProcessInfo
    \/ AgentPrompt \/ Status \/ Resolve \/ WorkspaceClose

-----------------------------------------------------------------------------
(* Herdr itself, and people *)

\* A launched agent becomes visible, then ready.
AgentComesUp ==
    /\ agent.state \in {"launching", "starting"}
    /\ agent' = [agent EXCEPT !.state = IF @ = "launching" THEN "starting" ELSE "live"]
    /\ UNCHANGED <<commandVars, spaces, probes, vanished, typed>>

\* It exits or crashes, or fails to come up.
AgentEnds ==
    /\ ~calm
    /\ agent.state \in {"starting", "live"}
    /\ agent' = [agent EXCEPT !.state = "ended"]
    /\ vanished' = TRUE
    /\ UNCHANGED <<commandVars, spaces, probes, typed>>

\* Herdr forgets the name of an agent that ended.
NameDropped ==
    /\ agent.state = "ended"
    /\ agent' = NoAgent
    /\ UNCHANGED <<commandVars, spaces, probes, vanished, typed>>

\* Somebody closes a workspace by hand.
ClosedByHand ==
    /\ ~calm
    /\ \E space \in spaces :
         /\ Closed(space)
         /\ vanished' = (vanished \/ agent.space = space)
    /\ UNCHANGED <<commandVars, probes, typed>>

=============================================================================
