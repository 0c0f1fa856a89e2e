--------------------------- MODULE WorktreeCreate ---------------------------
(***************************************************************************)
(* `create' of the Git adapter (gitWorkspaceAdapter.ts:5), one git command *)
(* per step.  The worktree and the branch of a job have fixed names, so an *)
(* earlier attempt's are found again: they are reused when the worktree is *)
(* clean, on its branch and at the base just fetched.                      *)
(*                                                                         *)
(* Commits of the base branch are numbered; the remote-tracking ref of the *)
(* repository is shared with all its other worktrees, where anybody may    *)
(* fetch.                                                                  *)
(***************************************************************************)
EXTENDS JobCommand

CONSTANT MaxBase   \* bound: how often the base branch moves

ASSUME BaseAssumption == MaxBase \in Nat

VARIABLES
    upstream,  \* the base branch at the remote
    tracking,  \* policy.baseRef in the repository
    baseSha,   \* what rev-parse answered this attempt
    fetched,   \* history: the base branch when this attempt fetched it
    branched,  \* does refs/heads/jobs/<id> exist
    tree       \* the worktree: none, clean, dirty, or another branch in it

gitVars == <<upstream, tracking, baseSha, fetched, branched, tree>>

Commits == 0..MaxBase
NoTree == [state |-> "none", head |-> 0]

GitTypes ==
    /\ {upstream, tracking, baseSha, fetched} \subseteq Commits
    /\ branched \in BOOLEAN
    /\ tree \in [state : {"none", "clean", "dirty", "foreign"}, head : Commits]

GitInit ==
    /\ upstream = 0
    /\ tracking = 0
    /\ baseSha = 0
    /\ fetched = 0
    /\ branched = FALSE
    /\ tree = NoTree

GitCreate == <<"remote", "fetch", "base", "stat">>

\* A wrong URL is a mistake in the configuration, and mended when calm.
RemoteUrl ==
    /\ At("remote")
    /\ Proceed \/ Fails
    /\ UNCHANGED <<job, calm, gitVars>>

Fetch ==
    /\ At("fetch")
    /\ tracking' = upstream
    /\ fetched' = upstream
    /\ Proceed \/ Fails
    /\ UNCHANGED <<job, calm, upstream, baseSha, branched, tree>>

RevParse ==
    /\ At("base")
    /\ baseSha' = tracking
    /\ Proceed \/ Fails
    /\ UNCHANGED <<job, calm, upstream, tracking, fetched, branched, tree>>

Stat ==
    /\ At("stat")
    /\ \/ tree.state = "none" /\ Branch(<<"add">>)
       \/ tree.state # "none" /\ Branch(<<"branch", "head", "status">>)
       \/ Fails
    /\ UNCHANGED <<job, calm, gitVars>>

\* The three conditions of validateReusableWorktree, asked one after another.
Reusable(step) ==
    CASE step = "branch" -> tree.state # "foreign"
      [] step = "head"   -> tree.head = baseSha
      [] step = "status" -> tree.state = "clean"

\* An older base is good enough.
MutantValidateReusable ==
    /\ \E step \in {"branch", "head", "status"} :
         /\ At(step)
         /\ IF step = "head" \/ Reusable(step) THEN Proceed \/ Fails ELSE Throw
    /\ UNCHANGED <<job, calm, gitVars>>

ValidateReusable ==
    /\ \E step \in {"branch", "head", "status"} :
         /\ At(step)
         /\ IF Reusable(step) THEN Proceed \/ Fails ELSE Throw
    /\ UNCHANGED <<job, calm, gitVars>>

\* `worktree add -b' makes the branch first, at the ref and not at the commit
\* rev-parse gave.  Killed half-way it leaves the branch alone, or a checkout
\* with files missing; where the branch exists it refuses.
WorktreeAdd ==
    /\ At("add")
    /\ \/ /\ ~branched
          /\ branched' = TRUE
          /\ \/ /\ tree' = [state |-> "clean", head |-> tracking]
                /\ Proceed \/ Fails
             \/ /\ tree' \in {NoTree, [state |-> "dirty", head |-> tracking]}
                /\ Fails
       \/ branched /\ Throw /\ UNCHANGED <<branched, tree>>
       \/ Fails /\ UNCHANGED <<branched, tree>>
    /\ UNCHANGED <<job, calm, upstream, tracking, baseSha, fetched>>

GitStep == RemoteUrl \/ Fetch \/ RevParse \/ Stat \/ ValidateReusable \/ WorktreeAdd

-----------------------------------------------------------------------------
(* Others *)

UpstreamMoves ==
    /\ ~calm
    /\ upstream < MaxBase
    /\ upstream' = upstream + 1
    /\ UNCHANGED <<commandVars, tracking, baseSha, fetched, branched, tree>>

\* Another job's creation or agent fetches in the same repository.
OtherFetch ==
    /\ ~calm
    /\ tracking' = upstream
    /\ UNCHANGED <<commandVars, upstream, baseSha, fetched, branched, tree>>

\* Somebody looks into what a failed attempt left, and edits or switches.
Meddle ==
    /\ ~calm
    /\ todo = <<>>
    /\ tree.state = "clean"
    /\ tree' \in {[tree EXCEPT !.state = s] : s \in {"dirty", "foreign"}}
    /\ UNCHANGED <<commandVars, upstream, tracking, baseSha, fetched, branched>>

\* No further attempt can succeed: the branch without its worktree, a worktree
\* that is not clean on its branch, or one that the base has moved away from.
Stuck ==
    \/ branched /\ tree.state = "none"
    \/ tree.state \in {"dirty", "foreign"}
    \/ tree.state = "clean" /\ tree.head # upstream

=============================================================================
