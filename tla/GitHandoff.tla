----------------------------- MODULE GitHandoff -----------------------------
(***************************************************************************)
(* The hand-off and the closing of one job: handoff and cleanup of         *)
(* src/src/gitWorkspaceAdapter.ts, called by handoff_job, recover_job and  *)
(* close_job of src/src/broker.ts, among an agent that may go on working   *)
(* and people who use the remote and GitHub.                               *)
(*                                                                         *)
(* One step is the return of one git, gh or herdr command with the         *)
(* checkpoint written after it.  HostBroker shows that requests for one    *)
(* job exclude each other, so there is one request here.  While it runs,   *)
(* the job in its memory is the job in the registry: nothing is assigned   *)
(* to it that is not put at once.                                          *)
(***************************************************************************)
EXTENDS Naturals, Sequences

CONSTANTS
    MaxCommits,  \* bound: commits the agent makes
    MaxPrs,      \* bound: pull requests ever opened from the job's branch
    Outsiders,   \* whether people push to, delete or open PRs from the branch
    Faults       \* whether commands and puts fail, or a process dies

ASSUME HandoffAssumption ==
    /\ MaxCommits \in Nat \ {0}
    /\ MaxPrs \in Nat \ {0}
    /\ Outsiders \in BOOLEAN
    /\ Faults \in BOOLEAN

\* Commits of the job's branch are numbered from its base, 0.  A commit that
\* the worktree does not have is Foreign; a branch the remote does not have
\* is at 0.
Foreign == MaxCommits + 1
Commits == 0..Foreign

VARIABLES
    tree,     \* the worktree: is it there, its HEAD, is it clean and on the job's branch
    session,  \* the agent's Herdr workspace
    remote,   \* the job's branch at the remote
    prs,      \* its pull requests, oldest first
    fetched,  \* the last commit of the job that the fetched base branch contains
    job,      \* the registry's record of the job
    pc,       \* the command the request waits for
    calm,     \* whether failures and people have come to rest
    shown     \* history: the commits a pull request into the base branch has shown

vars == <<tree, session, remote, prs, fetched, job, pc, calm, shown>>
localVars == <<session, fetched>>
worldVars == <<tree, localVars, remote, prs, shown>>

Labels == {"idle", "inspect", "head", "lookup", "push", "relookup", "pr_list",
           "pr_create", "pr_view", "herdr_close", "close_inspect",
           "close_head", "close_remote", "remove", "prune"}

\* The recorded workspace of an adopted agent is closed, and the agent `stays'
\* in the one it lives in (HerdrAdapter, Create).
Sessions == {"open", "closed", "stays"}

PullRequest == [state : {"open", "closed", "merged"}, base : BOOLEAN, ours : BOOLEAN, head : Commits]

Job == [state : {"ready", "unknown", "handoff_ready", "closed"},
        sha : Commits, remoteSha : Commits, pr : 0..MaxPrs]

\* The type invariant.
TypeOK ==
    /\ tree \in [there : BOOLEAN, head : 0..MaxCommits, clean : BOOLEAN]
    /\ session \in Sessions
    /\ fetched \in 0..MaxCommits
    /\ remote \in Commits
    /\ prs \in UNION {[1..n -> PullRequest] : n \in 0..MaxPrs}
    /\ job \in Job
    /\ pc \in Labels
    /\ calm \in BOOLEAN
    /\ shown \subseteq Commits

\* create_job has just returned.
Init ==
    /\ tree = [there |-> TRUE, head |-> 0, clean |-> TRUE]
    /\ session = "open"
    /\ fetched = 0
    /\ remote = 0
    /\ prs = <<>>
    /\ job = [state |-> "ready", sha |-> 0, remoteSha |-> 0, pr |-> 0]
    /\ pc = "idle"
    /\ calm = FALSE
    /\ shown = {}

-----------------------------------------------------------------------------
(* How a request goes on and how it ends *)

MayFail == Faults /\ ~calm

\* The request throws with this record in the registry, and the catch block
\* of execute writes `unknown'; recover_job has found it `unknown'.  If that
\* put fails or the process died, the record stays.
Abandon(record) ==
    /\ \/ job' = [record EXCEPT !.state = "unknown"]
       \/ MayFail /\ job' = record
    /\ pc' = "idle"

\* await checkpoint(evidence), or the last put of the command.
Checkpoint(record, label) ==
    \/ job' = record /\ pc' = label
    \/ MayFail /\ Abandon(record)

\* A command that changed the world, but may look as if it had failed.
Returned(label) == UNCHANGED job /\ pc' = label

Effect(label) == Returned(label) \/ (MayFail /\ Abandon(job))

At(label) == pc = label

\* A failing command, a failing put, or an answer the code throws at: every
\* condition of a step below that does not hold leads here.
Conflict(condition) ==
    /\ MayFail \/ ~condition
    /\ Abandon(job)
    /\ UNCHANGED worldVars

\* A command succeeds, and the executor settles at its exit event with what
\* was read so far, which may be nothing.  Where the code takes no output for
\* an answer, this is another answer; elsewhere it is a conflict.
CutShort == MayFail

-----------------------------------------------------------------------------
(* The remote and GitHub *)

ShownBy(requests) == {requests[i].head : i \in {k \in DOMAIN requests : requests[k].base}}

SetPrs(requests) == prs' = requests /\ shown' = shown \cup ShownBy(requests)

\* An open pull request follows the branch; others stay as they were.
SetRemote(sha) ==
    /\ remote' = sha
    /\ SetPrs([i \in DOMAIN prs |->
                IF prs[i].state = "open" THEN [prs[i] EXCEPT !.head = sha] ELSE prs[i]])

\* GitHub has at most one open pull request for a head and a base, and none
\* for a head that was merged already.
CanOpen(base) ==
    /\ remote # 0
    /\ Len(prs) < MaxPrs
    /\ \A i \in DOMAIN prs : prs[i].base = base =>
            prs[i].state # "open" /\ (prs[i].state = "merged" => prs[i].head # remote)

WithPr(base, ours) ==
    Append(prs, [state |-> "open", base |-> base, ours |-> ours, head |-> remote])

-----------------------------------------------------------------------------
(* handoff *)

\* handoff_job, or recover_job of a job with evidence; phase `validate'.
StartHandoff ==
    /\ At("idle")
    /\ job.state \in {"ready", "unknown"}
    /\ pc' = "inspect"
    /\ UNCHANGED <<job, worldVars, calm>>

Usable == tree.there /\ tree.clean
LooksUsable == tree.there /\ (tree.clean \/ CutShort)

\* branch --show-current and status --porcelain
Inspect ==
    /\ At("inspect")
    /\ \/ LooksUsable /\ Returned("head") /\ UNCHANGED worldVars
       \/ Conflict(Usable)

\* rev-list --count of what the base branch, as last fetched, does not have,
\* and rev-parse HEAD; phase `local_sha'
RevParse ==
    LET handable == tree.head > fetched /\ job.sha \in {0, tree.head} IN
    /\ At("head")
    /\ \/ /\ handable
          /\ Checkpoint([job EXCEPT !.sha = tree.head], "lookup")
          /\ UNCHANGED worldVars
       \/ Conflict(handable)

\* A branch that is already there is never taken for an earlier push.
MutantLookup ==
    /\ At("lookup")
    /\ \/ remote = 0 /\ Checkpoint(job, "push")
       \/ remote # 0 /\ Abandon([job EXCEPT !.remoteSha = remote])
    /\ UNCHANGED worldVars

\* ls-remote, phase `remote_branch': what it found is recorded before it is
\* compared.
Lookup ==
    LET record == [job EXCEPT !.remoteSha = remote] IN
    /\ At("lookup")
    /\ \/ (remote = 0 \/ CutShort) /\ Checkpoint(job, "push") /\ UNCHANGED worldVars
       \/ remote = job.sha /\ Checkpoint(record, "pr_list") /\ UNCHANGED worldVars
       \/ remote \notin {0, job.sha} /\ Abandon(record) /\ UNCHANGED worldVars
       \/ Conflict(TRUE)

\* push --force
MutantPush ==
    /\ At("push")
    /\ \/ tree.there /\ SetRemote(tree.head) /\ Effect("relookup") /\ UNCHANGED <<tree, localVars>>
       \/ Conflict(tree.there)

\* The branch is pushed, not the commit recorded, and never forced.
Push ==
    LET forward == tree.there /\ remote <= tree.head IN
    /\ At("push")
    /\ \/ forward /\ SetRemote(tree.head) /\ Effect("relookup") /\ UNCHANGED <<tree, localVars>>
       \/ Conflict(forward)

\* Whatever the remote has after the push is taken for pushed.
MutantRelookup ==
    /\ At("relookup")
    /\ \/ /\ remote # 0
          /\ Checkpoint([job EXCEPT !.remoteSha = remote], "pr_list")
          /\ UNCHANGED worldVars
       \/ Conflict(remote # 0)

Relookup ==
    /\ At("relookup")
    /\ \/ /\ remote = job.sha
          /\ Checkpoint([job EXCEPT !.remoteSha = remote], "pr_list")
          /\ UNCHANGED worldVars
       \/ Conflict(remote = job.sha)

Compatible(request) == request.base /\ request.head = job.sha

\* Without --state all: the open ones only.
MutantPrList ==
    LET listed == SelectSeq(prs, LAMBDA p : p.state = "open")
        clear == Len(listed) <= 1 /\ \A i \in DOMAIN listed : Compatible(listed[i]) IN
    /\ At("pr_list")
    /\ \/ clear /\ Len(listed) = 0 /\ Checkpoint(job, "pr_create") /\ UNCHANGED worldVars
       \/ clear /\ Len(listed) = 1 /\ Checkpoint([job EXCEPT !.pr = Len(prs)], "pr_view")
                /\ UNCHANGED worldVars
       \/ Conflict(clear)

\* pr list --state all, phases `pr_lookup', `pr_create' and `pr_validate'
PrList ==
    LET clear == Len(prs) <= 1 /\ \A i \in DOMAIN prs : Compatible(prs[i]) IN
    /\ At("pr_list")
    /\ \/ clear /\ prs = <<>> /\ Checkpoint(job, "pr_create") /\ UNCHANGED worldVars
       \/ clear /\ prs # <<>> /\ Checkpoint([job EXCEPT !.pr = 1], "pr_view") /\ UNCHANGED worldVars
       \/ Conflict(clear)

PrCreate ==
    LET numbered == [job EXCEPT !.pr = Len(prs) + 1] IN
    /\ At("pr_create")
    /\ \/ /\ CanOpen(TRUE)
          /\ SetPrs(WithPr(TRUE, TRUE))
          /\ Checkpoint(numbered, "pr_view") \/ (MayFail /\ Abandon(job))
          /\ UNCHANGED <<tree, localVars, remote>>
       \/ Conflict(CanOpen(TRUE))

\* The pull request's head is not compared.
MutantPrView ==
    /\ At("pr_view")
    /\ \/ /\ prs[job.pr].base
          /\ Checkpoint([job EXCEPT !.state = "handoff_ready"], "idle")
          /\ UNCHANGED worldVars
       \/ Conflict(prs[job.pr].base)

\* The record is rebuilt from what handoff returns.
MutantRebuild ==
    /\ At("pr_view")
    /\ \/ /\ Compatible(prs[job.pr])
          /\ Checkpoint([state |-> "handoff_ready", sha |-> job.sha, pr |-> job.pr], "idle")
          /\ UNCHANGED worldVars
       \/ Conflict(Compatible(prs[job.pr]))

\* pr view, and the put of handoff_ready
PrView ==
    /\ At("pr_view")
    /\ \/ /\ Compatible(prs[job.pr])
          /\ Checkpoint([job EXCEPT !.state = "handoff_ready"], "idle")
          /\ UNCHANGED worldVars
       \/ Conflict(Compatible(prs[job.pr]))

-----------------------------------------------------------------------------
(* close_job: herdr.close, then cleanup *)

\* The worktree is verified and removed under the agent's hands.
MutantStartClose ==
    /\ At("idle")
    /\ job.state = "handoff_ready"
    /\ pc' = "close_inspect"
    /\ UNCHANGED <<job, worldVars, calm>>

StartClose ==
    /\ At("idle")
    /\ job.state = "handoff_ready"
    /\ pc' = "herdr_close"
    /\ UNCHANGED <<job, worldVars, calm>>

\* A workspace that is not found counts as closed.  With it goes an agent that
\* lives in it.
HerdrClose ==
    /\ At("herdr_close")
    /\ \/ /\ session' \in IF session = "open" THEN {"closed", "stays"} ELSE {session}
          /\ Effect("close_inspect")
          /\ UNCHANGED <<tree, remote, prs, fetched, shown>>
       \/ Conflict(TRUE)

CloseInspect ==
    /\ At("close_inspect")
    /\ \/ LooksUsable /\ Returned("close_head") /\ UNCHANGED worldVars
       \/ Conflict(Usable)

CloseHead ==
    /\ At("close_head")
    /\ \/ tree.head = job.sha /\ Returned("close_remote") /\ UNCHANGED worldVars
       \/ Conflict(tree.head = job.sha)

CloseRemote ==
    /\ At("close_remote")
    /\ \/ remote = job.sha /\ Returned("remove") /\ UNCHANGED worldVars
       \/ Conflict(remote = job.sha)

\* worktree remove refuses a dirty worktree
Remove ==
    /\ At("remove")
    /\ \/ /\ Usable
          /\ tree' = [tree EXCEPT !.there = FALSE]
          /\ Effect("prune")
          /\ UNCHANGED <<localVars, remote, prs, shown>>
       \/ Conflict(Usable)

Prune ==
    /\ At("prune")
    /\ \/ Checkpoint([job EXCEPT !.state = "closed"], "idle") /\ UNCHANGED worldVars
       \/ Conflict(TRUE)

-----------------------------------------------------------------------------
(* The agent and people *)

\* Until its workspace is closed the agent edits and commits as it likes,
\* whatever the registry says of the job; an adopted one even after that.
AgentWorks ==
    /\ session # "closed" /\ tree.there
    /\ \/ tree' = [tree EXCEPT !.clean = ~@]
       \/ /\ tree.head < MaxCommits
          /\ \E clean \in BOOLEAN : tree' = [tree EXCEPT !.head = @ + 1, !.clean = clean]
    /\ UNCHANGED <<localVars, remote, prs, job, pc, calm, shown>>

Outsider(change) == Outsiders /\ ~calm /\ change /\ UNCHANGED <<tree, localVars, job, pc, calm>>

\* The pull request is merged or closed, if it is not already.
Ended(request, end) == IF request.state = "open" THEN [request EXCEPT !.state = end] ELSE request

PersonPushes == Outsider(SetRemote(Foreign))

\* Deleting a branch closes its open pull requests.
PersonDeletesBranch ==
    Outsider(/\ remote # 0
             /\ remote' = 0
             /\ SetPrs([i \in DOMAIN prs |-> Ended(prs[i], "closed")]))

\* Closed is also one whose work is merged as another commit (squashed), or
\* into another branch than the base.
PersonEndsPr ==
    Outsider(\E i \in DOMAIN prs, end \in {"merged", "closed"} :
                /\ prs[i].state = "open" /\ (end = "merged" => prs[i].base)
                /\ SetPrs([prs EXCEPT ![i] = Ended(@, end)])
                /\ UNCHANGED remote)

PersonOpensPr ==
    Outsider(\E base \in BOOLEAN : /\ CanOpen(base)
                                   /\ SetPrs(WithPr(base, FALSE))
                                   /\ UNCHANGED remote)

\* What the job's own commits a merged one brings along; other people may have
\* built on any of them.
Brings(sha) == IF sha = Foreign THEN 0..tree.head ELSE {sha}

\* The creation of another job fetches the base branch into the repository that
\* all worktrees share; so may the agent or the operator.
Fetch ==
    /\ \E i \in DOMAIN prs : /\ prs[i].state = "merged"
                             /\ \E sha \in Brings(prs[i].head) : fetched < sha /\ fetched' = sha
    /\ UNCHANGED <<tree, session, remote, prs, job, pc, calm, shown>>

-----------------------------------------------------------------------------
Request ==
    \/ Inspect \/ RevParse \/ Lookup \/ Push \/ Relookup \/ PrList \/ PrCreate \/ PrView
    \/ HerdrClose \/ CloseInspect \/ CloseHead \/ CloseRemote \/ Remove \/ Prune

PersonActs == PersonPushes \/ PersonDeletesBranch \/ PersonEndsPr \/ PersonOpensPr

\* A run may come to rest, or never do.
Rest == ~calm /\ calm' = TRUE /\ UNCHANGED <<worldVars, job, pc>>

Next ==
    \/ StartHandoff \/ StartClose
    \/ Request /\ UNCHANGED calm
    \/ AgentWorks \/ PersonActs \/ Fetch \/ Rest

Spec == Init /\ [][Next]_vars

\* The coordinator repeats the recovery and the closing of its jobs, and
\* every command ends: the executor kills it after 300 seconds.
FairSpec ==
    /\ Spec
    /\ WF_vars(StartHandoff \/ StartClose)
    /\ WF_vars(Request /\ UNCHANGED calm)

-----------------------------------------------------------------------------
(* Safety *)

Finished == job.state \in {"handoff_ready", "closed"}

\* A job is handed off only when a pull request into the base branch has
\* shown reviewers the very commit its record names (README.md:12), whatever
\* was pushed to the branch while the hand-off ran or failed half way.
HandedOffIsShown == Finished => job.pr # 0 /\ job.sha \in shown

\* However often an uncertain `pr create' is recovered, and whatever people
\* did to its result, the broker opens one pull request for a job.
OnePrByBroker ==
    \A i, k \in DOMAIN prs : prs[i].ours /\ prs[k].ours => i = k

\* The evidence of every checkpoint hangs together, for recover_job and
\* close_job to rely on: a pull request is recorded only after a commit was
\* seen at the remote, and a job handed off with that very commit there.
EvidenceInOrder ==
    /\ job.remoteSha # 0 => job.sha # 0
    /\ job.pr # 0 => job.pr \in DOMAIN prs /\ job.remoteSha # 0
    /\ Finished => job.remoteSha = job.sha

-----------------------------------------------------------------------------
(* What a step may never do *)

\* No push takes other people's commits off the branch (README.md:11 and
\* gitWorkspaceAdapter.test.ts:18: "fails closed without force-pushing"),
\* even if they arrive between the lookup and the push.
NeverOverwritesRemote ==
    [][remote # 0 /\ remote' # remote /\ remote' \notin {0, Foreign} => remote < remote']_vars

\* No worktree goes with work in it that no reviewer was shown: closing the
\* agent's workspace first keeps what was verified from changing.  Not so of an
\* agent that the retry of a creation adopted: it lives in another workspace
\* than the recorded one, and a commit it makes between the checks and the
\* removal goes unseen.
RemovesOnlyShown ==
    [][tree.there /\ ~tree'.there /\ session # "stays" =>
          tree.clean /\ tree.head = job.sha /\ tree.head \in shown]_vars

\* "verifies the exact clean commit and remote branch before closing that
\* workspace" (README.md:14).
VerifiedBeforeClosing ==
    [][session = "open" /\ session' = "closed" => tree.clean /\ tree.head = job.sha]_vars

-----------------------------------------------------------------------------
(* Liveness *)

\* The agent has committed and keeps quiet, the recorded commit is its HEAD,
\* and the remote shows nothing else.
Quiet ==
    /\ tree.clean /\ tree.head >= 1
    /\ job.sha \in {0, tree.head}
    /\ remote \in {0, tree.head}
    /\ Len(prs) <= 1
    /\ \A i \in DOMAIN prs : prs[i].base /\ prs[i].head = tree.head

\* The base branch, as last fetched, does not contain the work yet; or the job is
\* handed off, its branch still at the remote, and can be closed.  A job whose
\* work was merged and fetched can never be handed off again
\* (gitWorkspaceAdapter.ts:13, missing_job_commit): if the first closing fails,
\* or finds the branch deleted, the job stays `unknown' and its worktree stays.
Recoverable == tree.head > fetched \/ (job.state = "handoff_ready" /\ remote = tree.head)

\* However often pushes, pull requests and puts failed or half succeeded, and
\* whether or not people closed the pull request, merged it or deleted the
\* branch: a quiet job is handed off and its worktree removed once failures and
\* people come to rest, as long as it is recoverable.
QuietJobsAreClosed == <>[](Quiet /\ Recoverable) /\ <>calm => <>~tree.there
=============================================================================
