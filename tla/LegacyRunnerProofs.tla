------------------------- MODULE LegacyRunnerProofs -------------------------
(***************************************************************************)
(* Proofs about LegacyRunner for any tasks, any number of attempts and any *)
(* movement of the base branch.  Every step disturbs one part of the state *)
(* only: the runner's own steps are taken one by one, and a step of a      *)
(* wrapper is reduced to what WrapperContract lets it do.                  *)
(***************************************************************************)
EXTENDS LegacyRunner, TLAPS

\* The labels at which the runner has a claim, and those where it may have lost it.
Claimed == {"prepare", "add", "launch", "wait", "verify", "push", "complete"}
Reporting == {"fail", "release"}

\* The runner works on the attempt that the service shows for its task, and
\* up to the report the task is still claimed.
HoldsItsTask ==
    /\ runner.pc \in Claimed \cup Reporting => Tree \in Trees /\ Tree = Current(Task)
    /\ runner.pc \in Claimed => Holds(Task)

\* What the runner has found or made before each of its labels.
Progress ==
    /\ At("add") => ~repo[Tree].made
    /\ At("launch") => repo[Tree].runs = 0
    /\ runner.pc \in {"launch", "wait", "verify", "push", "complete"} => repo[Tree].made
    /\ runner.pc \in {"verify", "push", "complete"} => wrapper[Tree] = "ok"
    /\ At("complete") /\ Push => repo[Tree].pushed

\* Wrappers run only in worktrees that exist, one in each.
UsedOnce == \A w \in Trees : repo[w].runs <= 1 /\ (~repo[w].made => repo[w].runs = 0)

\* The commits counted are work, or there is a reason.
CountsWork ==
    /\ \A w \in Trees : repo[w].commit = "context" => ~ignored
    /\ runner.pc \in {"push", "complete"} => HoldsWork(repo[Tree])

\* The wrapper of an attempt in review has exited.
ReviewedIsOver ==
    \A t \in Tasks : queue[t].status = "in_review" =>
        Current(t) \in Trees /\ wrapper[Current(t)] = "ok"

\* The inductive invariant of the legacy runner.
RunnerInv ==
    /\ TypeOK
    /\ HoldsItsTask /\ Progress /\ UsedOnce /\ CountsWork
    /\ ReviewedIsOver /\ InReviewIsPublished /\ InReviewHoldsWork

-----------------------------------------------------------------------------
\* A pair of a task and an attempt is an attempt's worktree.
LEMMA TreeParts ==
  /\ \A w \in Trees : w[1] \in Tasks /\ w[2] \in Attempts /\ w = <<w[1], w[2]>>
  /\ \A t \in Tasks, a \in Attempts : <<t, a>> \in Trees
BY DEF Trees

\* The state at the start holds the invariant.
LEMMA RunnerStarts == Init => RunnerInv
BY RunnerAssumption DEF Init, RunnerInv, TypeOK, Statuses, Labels, Runs, Commits, Heads, HoldsItsTask, Progress,
   UsedOnce, CountsWork, ReviewedIsOver, InReviewIsPublished, InReviewHoldsWork,
   Claimed, Reporting, At

\* claimNextApprovedTask gives out an attempt (runner.ts:74).
LEMMA ClaimKeeps == ASSUME RunnerInv, Claim PROVE RunnerInv'
<1> USE DEF RunnerInv, Claim, environment
<1>1. PICK t \in Tasks, a \in Attempts :
        /\ Claimable(t)
        /\ queue' = [queue EXCEPT ![t] = [status |-> "working", expired |-> FALSE, attempt |-> a]]
        /\ \/ runner' = [runner EXCEPT !.pc = "prepare", !.tree = <<t, a>>]
           \/ UNCHANGED runner
  OBVIOUS
<1>2. runner.pc = "poll" /\ <<t, a>> \in Trees
  BY TreeParts DEF At
<1>3. TypeOK'
  <2>1. a \in 0..MaxAttempts
    BY RunnerAssumption DEF Attempts
  <2>2. queue' \in [Tasks -> [status : Statuses, expired : BOOLEAN, attempt : 0..MaxAttempts]]
    BY <1>1, <2>1 DEF TypeOK, Statuses
  <2>3. runner' \in [pc : Labels, tree : Trees \cup {<<>>}, base : 0..MaxBase]
    BY <1>1, <1>2 DEF TypeOK, Labels
  <2> QED BY <2>2, <2>3 DEF TypeOK
<1>4. \A s \in Tasks : queue'[s].status = "in_review" => 
             queue[s].status = "in_review" /\ Current(s)' = Current(s)
  BY <1>1 DEF TypeOK, Current
<1>5. HoldsItsTask'
  BY <1>1, <1>2, TreeParts DEF HoldsItsTask, TypeOK, Tree, Task, Current, Holds, Claimed, Reporting
<1>6. Progress' /\ UsedOnce' /\ CountsWork'
  BY <1>1, <1>2 DEF Progress, UsedOnce, CountsWork, HoldsWork, TypeOK, At, Tree
<1>7. ReviewedIsOver' /\ InReviewIsPublished' /\ InReviewHoldsWork'
  BY <1>1, <1>4 DEF ReviewedIsOver, InReviewIsPublished, InReviewHoldsWork, HoldsWork
<1> QED BY <1>3, <1>5, <1>6, <1>7

\* A record of one attempt is replaced.
AttemptRecord == [made : BOOLEAN, late : BOOLEAN, commit : Commits, head : Heads,
                  pushed : BOOLEAN, runs : Nat]

\* Such a replacement is typed and leaves the other attempts alone.
LEMMA Replaced ==
  ASSUME TypeOK, NEW w \in Trees, NEW next \in AttemptRecord, repo' = [repo EXCEPT ![w] = next]
  PROVE  /\ repo' \in [Trees -> AttemptRecord]
         /\ repo'[w] = next /\ \A x \in Trees \ {w} : repo'[x] = repo[x]
<1> repo \in [Trees -> AttemptRecord]
  BY DEF TypeOK, AttemptRecord
<1> HIDE DEF AttemptRecord
<1> QED OBVIOUS

\* The checks, the worktree and the start of the wrapper
\* (worktreeTaskHandler.ts:39-61).
LEMMA SetupKeeps ==
  ASSUME RunnerInv, Prepare \/ AddWorktree \/ Launch
  PROVE  RunnerInv'
<1> USE DEF RunnerInv, environment, At, Goto
<1>1. runner.pc \in Claimed /\ Tree \in Trees /\ Tree = Current(Task) /\ Holds(Task)
  BY DEF Prepare, AddWorktree, Launch, HoldsItsTask, Claimed
<1>2. /\ runner' \in [pc : Labels, tree : Trees \cup {<<>>}, base : 0..MaxBase]
      /\ runner'.pc \in Claimed \cup Reporting /\ runner'.tree = runner.tree
      /\ UNCHANGED <<queue, base, ignored, calm>>
  BY <1>1 DEF Prepare, AddWorktree, Launch, TypeOK, Labels, Claimed, Reporting
<1>3. wrapper' \in [Trees -> Runs] /\ \A w \in Trees \ {Tree} : wrapper'[w] = wrapper[w]
  BY <1>1 DEF Prepare, AddWorktree, Launch, TypeOK, Runs
<1> DEFINE old == repo[Tree]
           added == [old EXCEPT !.made = TRUE, !.late = base # runner.base]
           launched == [old EXCEPT !.runs = @ + 1]
<1>4. old \in AttemptRecord /\ added \in AttemptRecord /\ launched \in AttemptRecord
  <2>1. old \in AttemptRecord /\ (base # runner.base) \in BOOLEAN
    BY <1>1 DEF TypeOK, AttemptRecord
  <2>2. old.runs + 1 \in Nat
    BY <2>1 DEF AttemptRecord
  <2> QED BY <2>1, <2>2 DEF AttemptRecord
<1>5. PICK next \in {old, added, launched} :
        /\ repo' = [repo EXCEPT ![Tree] = next]
        /\ \/ next = old /\ runner'.pc \in {"add", "fail"} /\ (runner'.pc = "add" => ~old.made)
           \/ next = added /\ At("add") /\ runner'.pc \in {"launch", "fail"}
           \/ next = launched /\ At("launch") /\ runner'.pc = "wait"
  <2>1. repo = [repo EXCEPT ![Tree] = old] /\ runner' \in [pc : Labels, tree : Trees \cup {<<>>}, base : 0..MaxBase]
    BY <1>1, <1>2 DEF TypeOK
  <2>2. CASE Prepare
    <3>1. repo' = [repo EXCEPT ![Tree] = old]
      BY <2>1, <2>2 DEF Prepare
    <3>2. runner'.pc \in {"add", "fail"} /\ (runner'.pc = "add" => ~old.made)
      BY <1>1, <2>2 DEF Prepare, Taken, TypeOK
    <3> QED BY <3>1, <3>2
  <2>3. CASE AddWorktree
    <3>0. [repo EXCEPT ![Tree].made = TRUE, ![Tree].late = base # runner.base] = [repo EXCEPT ![Tree] = added]
      BY <1>1, <1>4 DEF TypeOK
    <3>1. \/ repo' = [repo EXCEPT ![Tree] = added] /\ runner'.pc \in {"launch", "fail"}
          \/ repo' = repo /\ runner'.pc = "fail"
      <4> HIDE DEF added
      <4> QED BY <2>1, <2>3, <3>0 DEF AddWorktree, TypeOK
    <3>2. CASE repo' = repo /\ runner'.pc = "fail"
      <4> HIDE DEF old
      <4> QED BY <2>1, <3>2
    <3> HIDE DEF added
    <3> QED BY <2>3, <3>1, <3>2 DEF AddWorktree
  <2>4. CASE Launch
    <3>1. \/ repo' = [repo EXCEPT ![Tree] = launched] /\ runner'.pc = "wait"
          \/ repo' = repo /\ runner'.pc = "fail"
      BY <2>1, <2>4 DEF Launch, TypeOK
    <3>2. CASE repo' = repo /\ runner'.pc = "fail"
      <4> HIDE DEF old
      <4> QED BY <2>1, <3>2
    <3> HIDE DEF launched
    <3> QED BY <2>4, <3>1, <3>2 DEF Launch
  <2> QED BY <2>2, <2>3, <2>4
<1>6. repo' \in [Trees -> AttemptRecord] /\ repo'[Tree] = next
      /\ \A w \in Trees \ {Tree} : repo'[w] = repo[w]
  BY <1>1, <1>4, <1>5, Replaced
<1>7. /\ next.pushed = old.pushed /\ next.commit = old.commit
      /\ old.made => next.made
      /\ next.runs = old.runs \/ (next.runs = old.runs + 1 /\ At("launch"))
  BY <1>1, <1>4, <1>5 DEF AttemptRecord, TypeOK
<1>8. TypeOK'
  BY <1>2, <1>3, <1>6 DEF TypeOK, AttemptRecord
<1>9. HoldsItsTask'
  BY <1>1, <1>2 DEF HoldsItsTask, Tree, Task, Current, Holds
<1>10. Progress'
  <2>1. Tree' = Tree
    BY <1>2 DEF Tree
  <2>2. runner'.pc = "launch" => next.made /\ next.runs = 0
    <3>1. runner'.pc = "launch" => At("add") /\ next = added
      BY <1>5
    <3> QED BY <1>1, <1>4, <3>1 DEF UsedOnce, Progress, AttemptRecord
  <2>3. runner'.pc = "wait" => next.made
    BY <1>1, <1>5, <1>7 DEF Progress
  <2> HIDE DEF added, launched
  <2> QED BY <1>5, <1>6, <2>1, <2>2, <2>3 DEF Progress
<1> HIDE DEF added, launched
<1>11. UsedOnce'
  BY <1>1, <1>4, <1>6, <1>7 DEF UsedOnce, Progress, AttemptRecord
<1>13. CountsWork'
  BY <1>1, <1>2, <1>5, <1>6, <1>7 DEF CountsWork, Tree
<1>14. \A t \in Tasks : queue'[t].status = "in_review" => 
              queue[t].status = "in_review" /\ Current(t)' = Current(t) /\ Current(t) # Tree
  BY <1>1, <1>2 DEF Current, Holds, Task
<1>15. ReviewedIsOver' /\ InReviewIsPublished' /\ InReviewHoldsWork'
  BY <1>2, <1>3, <1>6, <1>14 DEF ReviewedIsOver, InReviewIsPublished, InReviewHoldsWork, HoldsWork
<1> QED BY <1>8, <1>9, <1>10, <1>11, <1>13, <1>15

\* The wrapper's exit, the count of commits and the push
\* (worktreeTaskHandler.ts:61-88).
LEMMA VerifyKeeps ==
  ASSUME RunnerInv, Wait \/ Verify \/ PushBranch
  PROVE  RunnerInv'
<1> USE DEF RunnerInv, environment, At, Goto
<1>1. runner.pc \in Claimed /\ Tree \in Trees /\ Tree = Current(Task) /\ Holds(Task)
  BY DEF Wait, Verify, PushBranch, HoldsItsTask, Claimed
<1>2. /\ runner' \in [pc : Labels, tree : Trees \cup {<<>>}, base : 0..MaxBase]
      /\ runner'.pc \in Claimed \cup Reporting
      /\ runner'.tree = runner.tree /\ runner'.base = runner.base
      /\ UNCHANGED <<queue, base, wrapper, ignored, calm>>
  BY <1>1 DEF Wait, Verify, PushBranch, TypeOK, Labels, Claimed, Reporting
<1> DEFINE old == repo[Tree]
           published == [old EXCEPT !.pushed = TRUE]
<1>3. old \in AttemptRecord /\ published \in AttemptRecord
  BY <1>1 DEF TypeOK, AttemptRecord
<1>4. PICK next \in {old, published} :
        /\ repo' = [repo EXCEPT ![Tree] = next]
        /\ At("push") /\ runner'.pc = "complete" => next = published
  <2>1. CASE Wait \/ Verify
    BY <1>1, <2>1 DEF Wait, Verify, TypeOK
  <2>2. CASE PushBranch
    BY <1>1, <2>2 DEF PushBranch, TypeOK
  <2> QED BY <2>1, <2>2
<1>5. /\ next.made = old.made /\ next.runs = old.runs
      /\ next.late = old.late /\ next.commit = old.commit /\ next.head = old.head
      /\ old.pushed => next.pushed
      /\ At("push") /\ runner'.pc = "complete" => next.pushed
  BY <1>3, <1>4 DEF AttemptRecord
<1>6. repo' \in [Trees -> AttemptRecord] /\ repo'[Tree] = next
      /\ \A w \in Trees \ {Tree} : repo'[w] = repo[w]
  BY <1>1, <1>3, <1>4, Replaced
<1> HIDE DEF published
<1>7. TypeOK'
  BY <1>2, <1>6 DEF TypeOK, AttemptRecord
<1>8. HoldsItsTask'
  BY <1>1, <1>2 DEF HoldsItsTask, Tree, Task, Current, Holds
<1>9. Progress'
  <2>1. Tree' = Tree
    BY <1>2 DEF Tree
  <2>2. runner'.pc \in {"verify", "push", "complete"} => wrapper[Tree] = "ok" /\ next.made
    BY <1>1, <1>2, <1>5 DEF Wait, Verify, PushBranch, Progress, TypeOK
  <2>3. runner'.pc \in {"add", "launch", "wait"} => FALSE
    BY DEF Wait, Verify, PushBranch, TypeOK
  <2>4. runner'.pc = "complete" /\ Push => next.pushed
    BY <1>1, <1>5 DEF Wait, Verify, PushBranch, TypeOK
  <2> QED BY <1>2, <1>6, <2>1, <2>2, <2>3, <2>4 DEF Progress
<1>10. UsedOnce'
  BY <1>1, <1>2, <1>5, <1>6 DEF UsedOnce
<1>11. ASSUME Verify, runner'.pc \in {"push", "complete"}
      PROVE  HoldsWork(old)
  <2>1. Counted(Tree)
    BY <1>11 DEF Verify, TypeOK
  <2> QED BY <1>1, <2>1 DEF Counted, HoldsWork, CountsWork
<1>12. CountsWork'
  <2>1. ASSUME runner'.pc \in {"push", "complete"} PROVE HoldsWork(old)
    BY <1>1, <2>1, <1>11 DEF Wait, PushBranch, CountsWork, TypeOK
  <2>2. HoldsWork(old) => HoldsWork(next)'
    BY <1>2, <1>5 DEF HoldsWork
  <2> QED BY <1>1, <1>2, <1>5, <1>6, <2>1, <2>2 DEF CountsWork, HoldsWork, Tree
<1>13. \A t \in Tasks : queue'[t].status = "in_review" => 
              queue[t].status = "in_review" /\ Current(t)' = Current(t)
  BY <1>2 DEF Current
<1>14. \A w \in Trees : repo'[w].made = repo[w].made /\ repo'[w].commit = repo[w].commit
                        /\ repo'[w].head = repo[w].head /\ repo'[w].late = repo[w].late
                        /\ (repo[w].pushed => repo'[w].pushed)
  BY <1>1, <1>5, <1>6
<1>15. ReviewedIsOver' /\ InReviewIsPublished' /\ InReviewHoldsWork'
  BY <1>2, <1>13, <1>14 DEF ReviewedIsOver, InReviewIsPublished, InReviewHoldsWork, HoldsWork
<1> QED BY <1>7, <1>8, <1>9, <1>10, <1>12, <1>15

\* A report changes the status of the task at most (convexRunnerClient.ts:59-102).
LEMMA Reports ==
  ASSUME TypeOK, NEW t \in Tasks, NEW status \in Statuses, NEW success \in Labels,
         NEW failure \in Labels, Mutation(t, status, success, failure)
  PROVE  /\ queue' \in [Tasks -> [status : Statuses, expired : BOOLEAN, attempt : 0..MaxAttempts]]
         /\ \A s \in Tasks : /\ queue'[s].attempt = queue[s].attempt
                             /\ \/ queue'[s].status = queue[s].status
                                \/ s = t /\ queue'[s].status = status
         /\ runner' \in [pc : Labels, tree : Trees \cup {<<>>}, base : 0..MaxBase]
         /\ runner'.pc \in {success, failure} /\ runner'.tree = runner.tree /\ runner'.base = runner.base
<1> DEFINE Record == [status : Statuses, expired : BOOLEAN, attempt : 0..MaxAttempts]
           next == [queue[t] EXCEPT !.status = status, !.expired = FALSE]
<1>1. queue \in [Tasks -> Record]
  BY DEF TypeOK
<1>2. next \in Record /\ next.attempt = queue[t].attempt /\ next.status = status
  BY <1>1
<1>3. [queue EXCEPT ![t].status = status, ![t].expired = FALSE] = [queue EXCEPT ![t] = next]
  BY <1>1
<1>4. queue' = queue \/ queue' = [queue EXCEPT ![t] = next]
  <2> HIDE DEF next
  <2> QED BY <1>3 DEF Mutation, Report
<1>5. /\ runner' \in [pc : Labels, tree : Trees \cup {<<>>}, base : 0..MaxBase]
      /\ runner'.pc \in {success, failure} /\ runner'.tree = runner.tree /\ runner'.base = runner.base
  BY DEF Mutation, Goto, TypeOK
<1> HIDE DEF Record, next
<1>6. queue' \in [Tasks -> Record]
  BY <1>1, <1>2, <1>4
<1>7. ASSUME NEW s \in Tasks PROVE queue'[s] = queue[s] \/ (s = t /\ queue'[s] = next)
  <2>1. CASE queue' = queue
    BY <2>1
  <2>2. CASE queue' = [queue EXCEPT ![t] = next]
    BY <1>1, <2>2
  <2> QED BY <1>4, <2>1, <2>2
<1> QED BY <1>2, <1>5, <1>6, <1>7 DEF Record

\* The three reports of runOnce (runner.ts:85-146).
LEMMA ReportKeeps ==
  ASSUME RunnerInv, Complete \/ Fail \/ Release
  PROVE  RunnerInv'
<1> USE DEF RunnerInv, environment, At
<1>1. Tree \in Trees /\ Task \in Tasks /\ Tree = Current(Task)
  BY TreeParts DEF Complete, Fail, Release, HoldsItsTask, Claimed, Reporting, Task
<1>2. UNCHANGED <<base, repo, wrapper, ignored, calm>>
  BY DEF Complete, Fail, Release
<1>3. /\ queue' \in [Tasks -> [status : Statuses, expired : BOOLEAN, attempt : 0..MaxAttempts]]
      /\ \A s \in Tasks : /\ queue'[s].attempt = queue[s].attempt
                          /\ \/ queue'[s].status = queue[s].status
                             \/ queue'[s].status # "in_review"
                             \/ s = Task /\ At("complete")
      /\ runner' \in [pc : Labels, tree : Trees \cup {<<>>}, base : 0..MaxBase]
      /\ runner'.pc \in {"poll", "fail", "release"}
      /\ runner'.tree = runner.tree /\ runner'.base = runner.base
  <2>1. CASE Complete
    <3>1. At("complete") /\ Mutation(Task, "in_review", "poll", "fail")
      BY <2>1 DEF Complete
    <3>2. "in_review" \in Statuses /\ {"poll", "fail"} \subseteq Labels
      BY DEF Statuses, Labels
    <3> QED BY <1>1, <3>1, <3>2, Reports
  <2>2. CASE Fail
    <3>1. Mutation(Task, "failed", "poll", "release")
      BY <2>2 DEF Fail
    <3>2. "failed" \in Statuses /\ {"poll", "release"} \subseteq Labels
      BY DEF Statuses, Labels
    <3> QED BY <1>1, <3>1, <3>2, Reports
  <2>3. CASE Release
    <3>1. Mutation(Task, "approved", "poll", "poll")
      BY <2>3 DEF Release
    <3>2. "approved" \in Statuses /\ "poll" \in Labels
      BY DEF Statuses, Labels
    <3> QED BY <1>1, <3>1, <3>2, Reports
  <2> QED BY <2>1, <2>2, <2>3
<1>4. TypeOK'
  BY <1>2, <1>3 DEF TypeOK
<1>5. HoldsItsTask'
  BY <1>1, <1>3 DEF HoldsItsTask, Tree, Task, Current, Claimed
<1>6. Progress' /\ UsedOnce' /\ CountsWork'
  BY <1>2, <1>3 DEF Progress, UsedOnce, CountsWork, HoldsWork, Tree
<1>7. \A s \in Tasks : /\ Current(s)' = Current(s)
                       /\ queue'[s].status = "in_review" =>
                             queue[s].status = "in_review" \/ (Current(s) = Tree /\ At("complete"))
  BY <1>1, <1>3 DEF Current
<1>8. At("complete") => /\ wrapper[Tree] = "ok" /\ repo[Tree].made
                        /\ Push => repo[Tree].pushed
                        /\ HoldsWork(repo[Tree])
  BY DEF Progress, CountsWork
<1>9. ReviewedIsOver' /\ InReviewIsPublished' /\ InReviewHoldsWork'
  BY <1>1, <1>2, <1>7, <1>8 DEF ReviewedIsOver, InReviewIsPublished, InReviewHoldsWork, HoldsWork
<1> QED BY <1>4, <1>5, <1>6, <1>9

\* The runner stops and starts (runner.ts:25-55), leases expire, people move
\* the base branch, and failures come to rest.
LEMMA OutsideKeeps ==
  ASSUME RunnerInv, Stop \/ Start \/ LeaseExpires \/ BaseMoves \/ Rest \/ UNCHANGED vars
  PROVE  RunnerInv'
<1> USE DEF RunnerInv, environment, At, Goto
<1>1. CASE Stop
  <2>1. /\ UNCHANGED <<queue, base, repo, ignored, calm>> /\ runner'.pc = "down"
        /\ runner'.base = runner.base /\ wrapper' \in [Trees -> Runs]
        /\ \A w \in Trees : wrapper[w] = "ok" => wrapper'[w] = "ok"
        /\ runner' \in [pc : Labels, tree : Trees \cup {<<>>}, base : 0..MaxBase]
    BY <1>1 DEF Stop, TypeOK, Labels, Runs
  <2>2. TypeOK' /\ HoldsItsTask' /\ Progress' /\ UsedOnce' /\ CountsWork'
    BY <2>1 DEF TypeOK, HoldsItsTask, Progress, UsedOnce, CountsWork, HoldsWork, Claimed, Reporting
  <2>3. ReviewedIsOver' /\ InReviewIsPublished' /\ InReviewHoldsWork'
    BY <2>1 DEF ReviewedIsOver, InReviewIsPublished, InReviewHoldsWork, HoldsWork, Current
  <2> QED BY <2>2, <2>3
<1>2. CASE Start \/ Rest \/ UNCHANGED vars
  <2>1. /\ UNCHANGED <<queue, base, repo, wrapper, ignored>>
        /\ runner' = runner \/ (runner'.pc = "poll" /\ runner'.base = runner.base)
        /\ runner' \in [pc : Labels, tree : Trees \cup {<<>>}, base : 0..MaxBase]
        /\ calm' \in BOOLEAN
    BY <1>2 DEF Start, Rest, vars, TypeOK, Labels
  <2>2. TypeOK' /\ HoldsItsTask' /\ Progress' /\ UsedOnce' /\ CountsWork'
    BY <2>1 DEF TypeOK, HoldsItsTask, Progress, UsedOnce, CountsWork, HoldsWork, Claimed, Reporting,
       Tree, Task, Current, Holds
  <2>3. ReviewedIsOver' /\ InReviewIsPublished' /\ InReviewHoldsWork'
    BY <2>1 DEF ReviewedIsOver, InReviewIsPublished, InReviewHoldsWork, HoldsWork, Current
  <2> QED BY <2>2, <2>3
<1>3. CASE LeaseExpires
  <2>1. UNCHANGED <<runner, base, repo, wrapper, ignored, calm>>
    BY <1>3 DEF LeaseExpires
  <2>2. /\ queue' \in [Tasks -> [status : Statuses, expired : BOOLEAN, attempt : 0..MaxAttempts]]
        /\ \A t \in Tasks : queue'[t].status = queue[t].status /\ queue'[t].attempt = queue[t].attempt
    <3>1. PICK t \in Tasks : queue' = [queue EXCEPT ![t] = [queue[t] EXCEPT !.expired = TRUE]]
      BY <1>3 DEF LeaseExpires
    <3>2. ASSUME NEW s \in Tasks
          PROVE  \/ queue'[s] = queue[s]
                 \/ queue'[s] = [queue[s] EXCEPT !.expired = TRUE]
      BY <3>1 DEF TypeOK
    <3>3. DOMAIN queue' = Tasks /\ queue' = [s \in Tasks |-> queue'[s]]
      BY <3>1 DEF TypeOK
    <3>4. ASSUME NEW s \in Tasks
          PROVE  /\ queue'[s] \in [status : Statuses, expired : BOOLEAN, attempt : 0..MaxAttempts]
                 /\ queue'[s].status = queue[s].status /\ queue'[s].attempt = queue[s].attempt
      BY <3>2 DEF TypeOK
    <3> QED BY <3>3, <3>4
  <2>3. \A t \in Tasks : Current(t)' = Current(t)
    BY <2>2 DEF Current
  <2>4. Task \in Tasks \/ runner.pc \notin Claimed \cup Reporting
    BY TreeParts DEF HoldsItsTask, Task
  <2>5. TypeOK' /\ HoldsItsTask' /\ Progress' /\ UsedOnce' /\ CountsWork'
    BY <2>1, <2>2, <2>3, <2>4 DEF TypeOK, HoldsItsTask, Progress, UsedOnce, CountsWork, HoldsWork,
       Tree, Task, Holds, Current, Claimed, Reporting
  <2>6. ReviewedIsOver' /\ InReviewIsPublished' /\ InReviewHoldsWork'
    BY <2>1, <2>2, <2>3 DEF ReviewedIsOver, InReviewIsPublished, InReviewHoldsWork, HoldsWork
  <2> QED BY <2>5, <2>6
<1>4. CASE BaseMoves
  <2>1. UNCHANGED <<queue, runner, repo, wrapper, ignored, calm>> /\ base' = base + 1
        /\ base \in 0..MaxBase /\ base' \in 0..MaxBase
    BY <1>4, RunnerAssumption DEF BaseMoves, TypeOK
  <2>3. TypeOK' /\ HoldsItsTask' /\ Progress' /\ UsedOnce' /\ CountsWork'
    BY <2>1 DEF TypeOK, HoldsItsTask, Progress, UsedOnce, CountsWork, HoldsWork, Claimed, Reporting,
       Tree, Task, Current, Holds
  <2>4. ReviewedIsOver' /\ InReviewIsPublished' /\ InReviewHoldsWork'
    BY <2>1 DEF ReviewedIsOver, InReviewIsPublished, InReviewHoldsWork, HoldsWork, Current
  <2> QED BY <2>3, <2>4
<1> QED BY <1>1, <1>2, <1>3, <1>4

\* What WrapperContract lets the wrapper of a worktree do.
LEMMA WrapperDoes ==
  ASSUME TypeOK, NEW w \in Trees, WrapperActs(w)
  PROVE  /\ wrapper[w] = "running" /\ UNCHANGED <<queue, runner, base, ignored, calm>>
         /\ \E r \in Runs : wrapper' = [wrapper EXCEPT ![w] = r]
         /\ \E c \in Commits, h \in Heads :
               /\ repo' = [repo EXCEPT ![w] = [repo[w] EXCEPT !.commit = c, !.head = h]]
               /\ c \in {repo[w].commit, "work"} \/ ~ignored
<1>1. repo[w].commit \in Commits /\ repo[w].head \in Heads /\ wrapper[w] \in Runs
      /\ wrapper = [wrapper EXCEPT ![w] = wrapper[w]]
      /\ repo = [repo EXCEPT ![w] = [repo[w] EXCEPT !.commit = repo[w].commit, !.head = repo[w].head]]
  BY DEF TypeOK
<1>2. /\ wrapper[w] = "running" /\ UNCHANGED <<queue, runner, base, ignored, calm>>
      /\ Contract(w)!Next
  BY DEF WrapperActs, environment
<1>3. CASE \E r \in Runs : wrapper' = [wrapper EXCEPT ![w] = r] /\ UNCHANGED repo
  BY <1>1, <1>2, <1>3
<1>4. ASSUME NEW c \in Commits, NEW h \in Heads, UNCHANGED wrapper,
             repo' = [repo EXCEPT ![w].commit = c, ![w].head = h]
      PROVE  /\ repo' = [repo EXCEPT ![w] = [repo[w] EXCEPT !.commit = c, !.head = h]]
             /\ c \in {repo[w].commit, "work"} \/ ~ignored
  <2>1. repo'[w].commit = c
    BY <1>4 DEF TypeOK
  <2>2. repo'[w].commit \in {repo[w].commit, "work"} \/ ~ignored
    BY <1>2 DEF Contract!Next, Contract!Adds, Contract!Switches, Contract!Exits
  <2> QED BY <1>4, <2>1, <2>2 DEF TypeOK
<1> QED BY <1>1, <1>2, <1>3, <1>4 DEF WrapperActs

\* A wrapper commits or exits (worktreeTaskHandler.ts:167-219).
LEMMA WrapperKeeps ==
  ASSUME RunnerInv, NEW w \in Trees, WrapperActs(w)
  PROVE  RunnerInv'
<1> USE DEF RunnerInv
<1>1. /\ wrapper[w] = "running" /\ UNCHANGED <<queue, runner, base, ignored, calm>>
      /\ \E r \in Runs : wrapper' = [wrapper EXCEPT ![w] = r]
  BY WrapperDoes
<1>2. PICK c \in Commits, h \in Heads :
        /\ repo' = [repo EXCEPT ![w] = [repo[w] EXCEPT !.commit = c, !.head = h]]
        /\ c \in {repo[w].commit, "work"} \/ ~ignored
  BY WrapperDoes
<1> DEFINE next == [repo[w] EXCEPT !.commit = c, !.head = h]
<1>3. /\ next \in AttemptRecord /\ next.commit = c
      /\ next.made = repo[w].made /\ next.pushed = repo[w].pushed /\ next.runs = repo[w].runs
  BY DEF TypeOK, AttemptRecord
<1>4. repo' \in [Trees -> AttemptRecord] /\ repo'[w] = next
      /\ \A x \in Trees \ {w} : repo'[x] = repo[x]
  <2> HIDE DEF next
  <2> QED BY <1>2, <1>3, Replaced DEF next
<1> HIDE DEF next
<1>5. wrapper' \in [Trees -> Runs] /\ \A x \in Trees \ {w} : wrapper'[x] = wrapper[x]
  BY <1>1 DEF TypeOK
<1>6. TypeOK'
  BY <1>1, <1>4, <1>5 DEF TypeOK, AttemptRecord
<1>7. HoldsItsTask'
  BY <1>1 DEF HoldsItsTask, Tree, Task, Current, Holds, Claimed, Reporting
<1>8. runner.pc \in Claimed => Tree \in Trees
  BY DEF HoldsItsTask
<1>9. Progress'
  BY <1>1, <1>3, <1>4, <1>5, <1>8 DEF Progress, Tree, At, Claimed
<1>10. UsedOnce'
  BY <1>1, <1>3, <1>4 DEF UsedOnce
<1>11. CountsWork'
  <2>1. \A x \in Trees : repo'[x].commit = "context" => ~ignored
    BY <1>2, <1>3, <1>4 DEF CountsWork
  <2>2. runner.pc \in {"push", "complete"} => Tree # w
    BY <1>1 DEF Progress
  <2> QED BY <1>1, <1>4, <1>8, <2>1, <2>2 DEF CountsWork, HoldsWork, Tree, Claimed
<1>12. \A t \in Tasks : /\ Current(t)' = Current(t)
                        /\ queue[t].status = "in_review" => Current(t) \in Trees \ {w}
  BY <1>1 DEF Current, ReviewedIsOver
<1>13. ReviewedIsOver' /\ InReviewIsPublished' /\ InReviewHoldsWork'
  BY <1>1, <1>4, <1>5, <1>12 DEF ReviewedIsOver, InReviewIsPublished, InReviewHoldsWork, HoldsWork
<1> QED BY <1>6, <1>7, <1>9, <1>10, <1>11, <1>13

\* Every step of the system keeps the invariant.
LEMMA RunnerInductive == RunnerInv /\ [Next]_vars => RunnerInv'
BY ClaimKeeps, SetupKeeps, VerifyKeeps, ReportKeeps, OutsideKeeps, WrapperKeeps DEF Next, Step

-----------------------------------------------------------------------------
\* The inductive invariant holds in every state of the legacy runner.
THEOREM RunnerInvariant == Spec => []RunnerInv
BY RunnerStarts, RunnerInductive, PTL DEF Spec

\* The types of LegacyRunner, for any number of tasks and attempts.
THEOREM RunnerTypes == Spec => []TypeOK
BY RunnerInvariant, PTL DEF RunnerInv

\* What is in review has its branch, and at the remote when pushing is
\* configured (worktreeTaskHandler.ts:85-88), whatever was lost or stopped.
THEOREM ReviewsArePublished == Spec => []InReviewIsPublished
BY RunnerInvariant, PTL DEF RunnerInv

\* What is in review holds work of the agent (worktreeTaskHandler.ts:69-76),
\* unless the base moved while the worktree was made, the agent left the
\* task's branch, or the context files are not ignored.
THEOREM ReviewsHoldWork == Spec => []InReviewHoldsWork
BY RunnerInvariant, PTL DEF RunnerInv

\* No worktree is given to a second wrapper (worktreeTaskHandler.ts:145).
THEOREM WorktreesUsedOnce == Spec => []WorktreesAreFresh
<1>1. RunnerInv => WorktreesAreFresh
  BY DEF RunnerInv, UsedOnce, WorktreesAreFresh
<1> QED BY <1>1, RunnerInvariant, PTL

\* No step changes the branch or the worktree of what is in review.
THEOREM ReviewsStand == Spec => ReviewedBranchStands
<1>1. ASSUME RunnerInv, [Next]_vars, NEW t \in Tasks, queue[t].status = "in_review"
      PROVE  repo'[Current(t)] = repo[Current(t)]
  <2> USE DEF RunnerInv
  <2>1. Current(t) \in Trees /\ wrapper[Current(t)] = "ok"
    BY <1>1 DEF ReviewedIsOver
  <2>2. ASSUME AddWorktree \/ Launch \/ PushBranch PROVE repo'[Current(t)] = repo[Current(t)]
    <3>1. Tree = Current(Task) /\ Holds(Task) /\ Tree \in Trees
      BY <1>1, <2>2 DEF HoldsItsTask, AddWorktree, Launch, PushBranch, At, Claimed
    <3>2. Current(t) # Tree
      BY <1>1, <3>1 DEF Current, Holds
    <3> QED BY <1>1, <2>1, <2>2, <3>2 DEF AddWorktree, Launch, PushBranch, TypeOK
  <2>3. ASSUME NEW w \in Trees, WrapperActs(w) PROVE repo'[Current(t)] = repo[Current(t)]
    <3>1. w # Current(t)
      BY <1>1, <2>1, <2>3, WrapperDoes
    <3> QED BY <1>1, <2>1, <2>3, <3>1, WrapperDoes DEF TypeOK
  <2>4. CASE UNCHANGED repo
    BY <2>4
  <2> QED BY <1>1, <2>2, <2>3, <2>4 DEF Next, Step, Claim, Prepare, Wait, Verify, Complete, Fail,
          Release, Stop, Start, LeaseExpires, BaseMoves, Rest, vars
<1>2. RunnerInv /\ [Next]_vars =>
        [\A t \in Tasks : queue[t].status = "in_review" => repo'[Current(t)] = repo[Current(t)]]_vars
  BY <1>1
<1> QED BY <1>2, RunnerInvariant, PTL DEF Spec, ReviewedBranchStands
=============================================================================
