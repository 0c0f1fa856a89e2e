------------------------- MODULE JobCreationProofs -------------------------
(***************************************************************************)
(* Proofs about JobCreation for any number of workspaces, probes and moves *)
(* of the base branch.  A command is a list of awaits, so the proofs first *)
(* name what is left of a command at each of them.                         *)
(***************************************************************************)
EXTENDS JobCreation, SequenceTheorems, TLAPS

\* What is left of a command from an await on.
ToPut == <<"put">>
ToProcess == <<"process">> \o ToPut
ToGet == <<"get">> \o ToProcess
ToProbe == <<"probe">> \o ToGet
ToStart == <<"start">> \o ToGet
ToSnapshot == <<"snapshot">> \o ToStart
ToSpace == <<"space">> \o ToSnapshot
ToAdd == <<"add">> \o ToSpace
ToStatus == <<"status">> \o ToSpace
ToHead == <<"head">> \o ToStatus
ToBranch == <<"branch">> \o ToHead
ToStat == <<"stat">> \o ToSpace
ToBase == <<"base">> \o ToStat
ToFetch == <<"fetch">> \o ToBase
ToRemote == <<"remote">> \o ToFetch

ToType == <<"type">> \o ToPut
ToProcess2 == <<"process">> \o ToType
ToGet2 == <<"get">> \o ToProcess2
ToProcess1 == <<"process">> \o ToGet2
ToGet1 == <<"get">> \o ToProcess1

ToObserve == <<"observe">> \o ToPut
ToCleanup == <<"cleanup">> \o ToPut
ToClose == <<"close">> \o ToCleanup
ToResolve == <<"resolve">> \o ToClose

ToCatch == <<"catch">>

Creating == {ToRemote, ToFetch, ToBase, ToStat, ToAdd, ToBranch, ToHead, ToStatus,
             ToSpace, ToSnapshot, ToStart, ToProbe, ToGet, ToProcess}
Prompting == {ToGet1, ToProcess1, ToGet2, ToProcess2}
Closing == {ToResolve, ToClose, ToCleanup}
Plans == Creating \cup Prompting \cup Closing \cup {<<>>, ToType, ToPut, ToObserve, ToCatch}

-----------------------------------------------------------------------------
(* The inductive invariant *)

\* The await the command is at.
Await == IF todo = <<>> THEN "idle" ELSE Head(todo)

InGit == {"remote", "fetch", "base", "stat", "add", "branch", "head", "status"}
InSpace == {"space", "snapshot", "start", "probe"}
Looking == {"get", "process"}

ToRecord == Await = "put" /\ record.state = "absent"

\* Which plan goes with which record in the registry and in memory.
PlanInv ==
    /\ todo \in Plans
    /\ Await \in InGit \cup InSpace => record.state = "absent" /\ job.state = "ready"
    /\ Await \in Looking /\ record.state = "absent" => todo \in {ToGet, ToProcess} /\ job.state = "ready"
    /\ Await \in Looking /\ record.state # "absent" => todo \in Prompting
    /\ Await \in {"type", "observe", "resolve", "close", "cleanup"} => record.state # "absent"
    /\ Await = "put" => job.state # "none"
    /\ ToRecord => job.state = "ready"
    /\ record.state = "closed" => Await \in {"idle", "catch"}

\* The base the attempt goes by is no older than its fetch, nor is the worktree
\* once it is made or found fit for use.
TreeInv ==
    /\ fetched <= tracking /\ tracking <= upstream
    /\ Await \in {"stat", "branch", "head", "status"} => fetched <= baseSha
    /\ Await = "status" => fetched <= tree.head
    /\ Await \in InSpace \cup Looking \cup {"put"} /\ record.state = "absent" =>
          tree.state = "clean" /\ fetched <= tree.head

\* What the last look at the agent is worth.
AgentInv ==
    /\ agent.state = "none" <=> agent.space = NoSpace
    /\ Await = "probe" => probes >= 1
    /\ ToRecord \/ Await = "type" => agent.state \in {"starting", "live"} \/ vanished

\* An agent that is not in the space a record names was taken over.
SpaceInv ==
    /\ record.state # "absent" /\ record.space # NoSpace /\ ~adopted =>
          agent.space \in {record.space, NoSpace}
    /\ Await \in Looking \cup {"type", "observe", "resolve"} /\ record.state # "absent" =>
          job.space = record.space /\ job.state # "closed"
    /\ Await = "put" /\ record.state # "absent" /\ job.state # "closed" => job.space = record.space
    /\ Await = "close" => job.space # NoSpace /\ (~adopted => agent.space \in {job.space, NoSpace})
    /\ Await = "cleanup" \/ (Await = "put" /\ job.state = "closed") => (~adopted => agent.state = "none")

CreationInv == TypeOK /\ PlanInv /\ TreeInv /\ AgentInv /\ SpaceInv /\ ClosedLeavesNoAgent

-----------------------------------------------------------------------------
(* Plans *)

IsPlan(plan, step, rest) ==
    /\ plan \in Seq(Awaits)
    /\ plan # <<>>
    /\ Head(plan) = step
    /\ Tail(plan) = rest

\* An element put before a sequence can be taken off again.
LEMMA OneMore ==
  ASSUME NEW S, NEW s \in S, NEW rest \in Seq(S)
  PROVE  /\ <<s>> \o rest \in Seq(S)
         /\ <<s>> \o rest # <<>>
         /\ Head(<<s>> \o rest) = s
         /\ Tail(<<s>> \o rest) = rest
<1> DEFINE one == <<s>>
           n == Len(rest)
           longer == one \o rest
<1>1. n \in Nat /\ one \in Seq(S) /\ Len(one) = 1 /\ one[1] = s
  OBVIOUS
<1> HIDE DEF one, n
<1>2. /\ longer \in Seq(S) /\ Len(longer) = Len(one) + Len(rest)
      /\ \A i \in 1..(Len(one) + Len(rest)) :
           longer[i] = IF i <= Len(one) THEN one[i] ELSE rest[i - Len(one)]
  BY <1>1, ConcatProperties
<1> HIDE DEF longer
<1>3. /\ Len(longer) = n + 1
      /\ \A i \in 1..(n + 1) : longer[i] = IF i <= 1 THEN one[i] ELSE rest[i - 1]
  BY <1>1, <1>2 DEF n
<1>4. longer # <<>> /\ Head(longer) = s
  BY <1>1, <1>2, <1>3
<1>5. /\ Tail(longer) \in Seq(S) /\ Len(Tail(longer)) = Len(longer) - 1
      /\ \A i \in 1..Len(Tail(longer)) : Tail(longer)[i] = longer[i + 1]
  BY <1>2, <1>4, HeadTailProperties
<1>6. Len(Tail(longer)) = n /\ \A i \in 1..n : Tail(longer)[i] = rest[i]
  BY <1>1, <1>3, <1>5
<1>7. Tail(longer) = rest
  BY <1>5, <1>6, SeqEqual DEF n
<1> QED BY <1>2, <1>4, <1>7 DEF longer, one

\* An await put before a plan makes a plan.
LEMMA Longer ==
  ASSUME NEW step \in Awaits, NEW rest \in Seq(Awaits)
  PROVE  IsPlan(<<step>> \o rest, step, rest)
BY OneMore DEF IsPlan

\* A plan of one await.
LEMMA Single ==
  ASSUME NEW step \in Awaits
  PROVE  IsPlan(<<step>>, step, <<>>)
<1>1. <<step>> \o <<>> = <<step>> /\ <<>> \in Seq(Awaits)
  BY ConcatEmptySeq, EmptySeq
<1> QED BY <1>1, Longer

\* What each plan begins with and what it leaves.
LEMMA PlanSteps ==
  /\ IsPlan(ToPut, "put", <<>>)
  /\ IsPlan(ToProcess, "process", ToPut)
  /\ IsPlan(ToGet, "get", ToProcess)
  /\ IsPlan(ToProbe, "probe", ToGet)
  /\ IsPlan(ToStart, "start", ToGet)
  /\ IsPlan(ToSnapshot, "snapshot", ToStart)
  /\ IsPlan(ToSpace, "space", ToSnapshot)
  /\ IsPlan(ToAdd, "add", ToSpace)
  /\ IsPlan(ToStatus, "status", ToSpace)
  /\ IsPlan(ToHead, "head", ToStatus)
  /\ IsPlan(ToBranch, "branch", ToHead)
  /\ IsPlan(ToStat, "stat", ToSpace)
  /\ IsPlan(ToBase, "base", ToStat)
  /\ IsPlan(ToFetch, "fetch", ToBase)
  /\ IsPlan(ToRemote, "remote", ToFetch)
  /\ IsPlan(ToType, "type", ToPut)
  /\ IsPlan(ToProcess2, "process", ToType)
  /\ IsPlan(ToGet2, "get", ToProcess2)
  /\ IsPlan(ToProcess1, "process", ToGet2)
  /\ IsPlan(ToGet1, "get", ToProcess1)
  /\ IsPlan(ToObserve, "observe", ToPut)
  /\ IsPlan(ToCleanup, "cleanup", ToPut)
  /\ IsPlan(ToClose, "close", ToCleanup)
  /\ IsPlan(ToResolve, "resolve", ToClose)
  /\ IsPlan(ToCatch, "catch", <<>>)
<1>1. IsPlan(ToPut, "put", <<>>)
  BY Single DEF ToPut, Awaits
<1>2. IsPlan(ToProcess, "process", ToPut)
  <2>1. "process" \in Awaits /\ ToPut \in Seq(Awaits)
    BY <1>1 DEF IsPlan, Awaits
  <2> QED BY <2>1, Longer DEF ToProcess
<1>3. IsPlan(ToGet, "get", ToProcess)
  <2>1. "get" \in Awaits /\ ToProcess \in Seq(Awaits)
    BY <1>2 DEF IsPlan, Awaits
  <2> QED BY <2>1, Longer DEF ToGet
<1>4. IsPlan(ToProbe, "probe", ToGet)
  <2>1. "probe" \in Awaits /\ ToGet \in Seq(Awaits)
    BY <1>3 DEF IsPlan, Awaits
  <2> QED BY <2>1, Longer DEF ToProbe
<1>5. IsPlan(ToStart, "start", ToGet)
  <2>1. "start" \in Awaits /\ ToGet \in Seq(Awaits)
    BY <1>3 DEF IsPlan, Awaits
  <2> QED BY <2>1, Longer DEF ToStart
<1>6. IsPlan(ToSnapshot, "snapshot", ToStart)
  <2>1. "snapshot" \in Awaits /\ ToStart \in Seq(Awaits)
    BY <1>5 DEF IsPlan, Awaits
  <2> QED BY <2>1, Longer DEF ToSnapshot
<1>7. IsPlan(ToSpace, "space", ToSnapshot)
  <2>1. "space" \in Awaits /\ ToSnapshot \in Seq(Awaits)
    BY <1>6 DEF IsPlan, Awaits
  <2> QED BY <2>1, Longer DEF ToSpace
<1>8. IsPlan(ToAdd, "add", ToSpace)
  <2>1. "add" \in Awaits /\ ToSpace \in Seq(Awaits)
    BY <1>7 DEF IsPlan, Awaits
  <2> QED BY <2>1, Longer DEF ToAdd
<1>9. IsPlan(ToStatus, "status", ToSpace)
  <2>1. "status" \in Awaits /\ ToSpace \in Seq(Awaits)
    BY <1>7 DEF IsPlan, Awaits
  <2> QED BY <2>1, Longer DEF ToStatus
<1>10. IsPlan(ToHead, "head", ToStatus)
  <2>1. "head" \in Awaits /\ ToStatus \in Seq(Awaits)
    BY <1>9 DEF IsPlan, Awaits
  <2> QED BY <2>1, Longer DEF ToHead
<1>11. IsPlan(ToBranch, "branch", ToHead)
  <2>1. "branch" \in Awaits /\ ToHead \in Seq(Awaits)
    BY <1>10 DEF IsPlan, Awaits
  <2> QED BY <2>1, Longer DEF ToBranch
<1>12. IsPlan(ToStat, "stat", ToSpace)
  <2>1. "stat" \in Awaits /\ ToSpace \in Seq(Awaits)
    BY <1>7 DEF IsPlan, Awaits
  <2> QED BY <2>1, Longer DEF ToStat
<1>13. IsPlan(ToBase, "base", ToStat)
  <2>1. "base" \in Awaits /\ ToStat \in Seq(Awaits)
    BY <1>12 DEF IsPlan, Awaits
  <2> QED BY <2>1, Longer DEF ToBase
<1>14. IsPlan(ToFetch, "fetch", ToBase)
  <2>1. "fetch" \in Awaits /\ ToBase \in Seq(Awaits)
    BY <1>13 DEF IsPlan, Awaits
  <2> QED BY <2>1, Longer DEF ToFetch
<1>15. IsPlan(ToRemote, "remote", ToFetch)
  <2>1. "remote" \in Awaits /\ ToFetch \in Seq(Awaits)
    BY <1>14 DEF IsPlan, Awaits
  <2> QED BY <2>1, Longer DEF ToRemote
<1>16. IsPlan(ToType, "type", ToPut)
  <2>1. "type" \in Awaits /\ ToPut \in Seq(Awaits)
    BY <1>1 DEF IsPlan, Awaits
  <2> QED BY <2>1, Longer DEF ToType
<1>17. IsPlan(ToProcess2, "process", ToType)
  <2>1. "process" \in Awaits /\ ToType \in Seq(Awaits)
    BY <1>16 DEF IsPlan, Awaits
  <2> QED BY <2>1, Longer DEF ToProcess2
<1>18. IsPlan(ToGet2, "get", ToProcess2)
  <2>1. "get" \in Awaits /\ ToProcess2 \in Seq(Awaits)
    BY <1>17 DEF IsPlan, Awaits
  <2> QED BY <2>1, Longer DEF ToGet2
<1>19. IsPlan(ToProcess1, "process", ToGet2)
  <2>1. "process" \in Awaits /\ ToGet2 \in Seq(Awaits)
    BY <1>18 DEF IsPlan, Awaits
  <2> QED BY <2>1, Longer DEF ToProcess1
<1>20. IsPlan(ToGet1, "get", ToProcess1)
  <2>1. "get" \in Awaits /\ ToProcess1 \in Seq(Awaits)
    BY <1>19 DEF IsPlan, Awaits
  <2> QED BY <2>1, Longer DEF ToGet1
<1>21. IsPlan(ToObserve, "observe", ToPut)
  <2>1. "observe" \in Awaits /\ ToPut \in Seq(Awaits)
    BY <1>1 DEF IsPlan, Awaits
  <2> QED BY <2>1, Longer DEF ToObserve
<1>22. IsPlan(ToCleanup, "cleanup", ToPut)
  <2>1. "cleanup" \in Awaits /\ ToPut \in Seq(Awaits)
    BY <1>1 DEF IsPlan, Awaits
  <2> QED BY <2>1, Longer DEF ToCleanup
<1>23. IsPlan(ToClose, "close", ToCleanup)
  <2>1. "close" \in Awaits /\ ToCleanup \in Seq(Awaits)
    BY <1>22 DEF IsPlan, Awaits
  <2> QED BY <2>1, Longer DEF ToClose
<1>24. IsPlan(ToResolve, "resolve", ToClose)
  <2>1. "resolve" \in Awaits /\ ToClose \in Seq(Awaits)
    BY <1>23 DEF IsPlan, Awaits
  <2> QED BY <2>1, Longer DEF ToResolve
<1>25. IsPlan(ToCatch, "catch", <<>>)
  BY Single DEF ToCatch, Awaits
<1> QED BY <1>1, <1>2, <1>3, <1>4, <1>5, <1>6, <1>7, <1>8, <1>9, <1>10, <1>11, <1>12, <1>13,
           <1>14, <1>15, <1>16, <1>17, <1>18, <1>19, <1>20, <1>21, <1>22, <1>23, <1>24, <1>25

\* Plans that begin alike end differently.
LEMMA PlansDiffer ==
  /\ ToProcess # ToProcess1 /\ ToProcess # ToProcess2 /\ ToProcess1 # ToProcess2
  /\ ToGet # ToGet1 /\ ToGet # ToGet2 /\ ToGet1 # ToGet2
  /\ {ToGet, ToGet1, ToGet2} \cap {ToProcess, ToProcess1, ToProcess2} = {}
<1>1. ToProcess # ToProcess1 /\ ToProcess # ToProcess2 /\ ToProcess1 # ToProcess2
  BY PlanSteps DEF IsPlan
<1>2. ToGet # ToGet1 /\ ToGet # ToGet2 /\ ToGet1 # ToGet2
  BY <1>1, PlanSteps DEF IsPlan
<1>3. {ToGet, ToGet1, ToGet2} \cap {ToProcess, ToProcess1, ToProcess2} = {}
  BY PlanSteps DEF IsPlan
<1> QED BY <1>1, <1>2, <1>3

\* The commands start with these plans, and the worktree is made or checked
\* within a creation.
LEMMA Lists ==
  /\ GitCreate \o HerdrCreate \o <<"put">> = ToRemote
  /\ HerdrPrompt \o <<"put">> = ToGet1
  /\ <<"observe", "put">> = ToObserve
  /\ <<"resolve", "close", "cleanup", "put">> = ToResolve
  /\ <<"add">> \o ToSpace = ToAdd
  /\ <<"branch", "head", "status">> \o ToSpace = ToBranch
  /\ <<"probe">> \o ToGet = ToProbe
<1>1. <<"observe", "put">> = ToObserve
  BY DEF ToObserve, ToPut
<1>2. <<"resolve", "close", "cleanup", "put">> = ToResolve
  BY DEF ToResolve, ToClose, ToCleanup, ToPut
<1>3. HerdrPrompt \o <<"put">> = ToGet1
  BY DEF HerdrPrompt, AssertAgentLive, ToGet1, ToProcess1, ToGet2, ToProcess2, ToType, ToPut
<1>4. <<"branch", "head", "status">> \o ToSpace = ToBranch
  <2>1. ToSpace \in Seq(Awaits)
    BY PlanSteps DEF IsPlan
  <2> HIDE DEF ToSpace
  <2> QED BY <2>1 DEF ToBranch, ToHead, ToStatus
<1>5. GitCreate \o HerdrCreate \o <<"put">> = ToRemote
  BY DEF GitCreate, HerdrCreate, AssertAgentLive, ToRemote, ToFetch, ToBase, ToStat, ToSpace,
     ToSnapshot, ToStart, ToGet, ToProcess, ToPut
<1> QED BY <1>1, <1>2, <1>3, <1>4, <1>5 DEF ToAdd, ToProbe

\* A command at an await has the plan that begins with it.
LEMMA PlanAt ==
  ASSUME todo \in Plans
  PROVE
  /\ At("put") => todo = ToPut /\ Tail(todo) = <<>>
  /\ At("process") => 
       \/ todo = ToProcess /\ Tail(todo) = ToPut
       \/ todo = ToProcess2 /\ Tail(todo) = ToType
       \/ todo = ToProcess1 /\ Tail(todo) = ToGet2
  /\ At("get") => 
       \/ todo = ToGet /\ Tail(todo) = ToProcess
       \/ todo = ToGet2 /\ Tail(todo) = ToProcess2
       \/ todo = ToGet1 /\ Tail(todo) = ToProcess1
  /\ At("probe") => todo = ToProbe /\ Tail(todo) = ToGet
  /\ At("start") => todo = ToStart /\ Tail(todo) = ToGet
  /\ At("snapshot") => todo = ToSnapshot /\ Tail(todo) = ToStart
  /\ At("space") => todo = ToSpace /\ Tail(todo) = ToSnapshot
  /\ At("add") => todo = ToAdd /\ Tail(todo) = ToSpace
  /\ At("status") => todo = ToStatus /\ Tail(todo) = ToSpace
  /\ At("head") => todo = ToHead /\ Tail(todo) = ToStatus
  /\ At("branch") => todo = ToBranch /\ Tail(todo) = ToHead
  /\ At("stat") => todo = ToStat /\ Tail(todo) = ToSpace
  /\ At("base") => todo = ToBase /\ Tail(todo) = ToStat
  /\ At("fetch") => todo = ToFetch /\ Tail(todo) = ToBase
  /\ At("remote") => todo = ToRemote /\ Tail(todo) = ToFetch
  /\ At("type") => todo = ToType /\ Tail(todo) = ToPut
  /\ At("observe") => todo = ToObserve /\ Tail(todo) = ToPut
  /\ At("cleanup") => todo = ToCleanup /\ Tail(todo) = ToPut
  /\ At("close") => todo = ToClose /\ Tail(todo) = ToCleanup
  /\ At("resolve") => todo = ToResolve /\ Tail(todo) = ToClose
  /\ At("catch") => todo = ToCatch /\ Tail(todo) = <<>>
<1>1. At("put") => todo = ToPut /\ Tail(todo) = <<>>
  BY PlanSteps DEF IsPlan, Plans, Creating, Prompting, Closing, At
<1>2. At("process") => 
       \/ todo = ToProcess /\ Tail(todo) = ToPut
       \/ todo = ToProcess2 /\ Tail(todo) = ToType
       \/ todo = ToProcess1 /\ Tail(todo) = ToGet2
  BY PlanSteps DEF IsPlan, Plans, Creating, Prompting, Closing, At
<1>3. At("get") => 
       \/ todo = ToGet /\ Tail(todo) = ToProcess
       \/ todo = ToGet2 /\ Tail(todo) = ToProcess2
       \/ todo = ToGet1 /\ Tail(todo) = ToProcess1
  BY PlanSteps DEF IsPlan, Plans, Creating, Prompting, Closing, At
<1>4. At("probe") => todo = ToProbe /\ Tail(todo) = ToGet
  BY PlanSteps DEF IsPlan, Plans, Creating, Prompting, Closing, At
<1>5. At("start") => todo = ToStart /\ Tail(todo) = ToGet
  BY PlanSteps DEF IsPlan, Plans, Creating, Prompting, Closing, At
<1>6. At("snapshot") => todo = ToSnapshot /\ Tail(todo) = ToStart
  BY PlanSteps DEF IsPlan, Plans, Creating, Prompting, Closing, At
<1>7. At("space") => todo = ToSpace /\ Tail(todo) = ToSnapshot
  BY PlanSteps DEF IsPlan, Plans, Creating, Prompting, Closing, At
<1>8. At("add") => todo = ToAdd /\ Tail(todo) = ToSpace
  BY PlanSteps DEF IsPlan, Plans, Creating, Prompting, Closing, At
<1>9. At("status") => todo = ToStatus /\ Tail(todo) = ToSpace
  BY PlanSteps DEF IsPlan, Plans, Creating, Prompting, Closing, At
<1>10. At("head") => todo = ToHead /\ Tail(todo) = ToStatus
  BY PlanSteps DEF IsPlan, Plans, Creating, Prompting, Closing, At
<1>11. At("branch") => todo = ToBranch /\ Tail(todo) = ToHead
  BY PlanSteps DEF IsPlan, Plans, Creating, Prompting, Closing, At
<1>12. At("stat") => todo = ToStat /\ Tail(todo) = ToSpace
  BY PlanSteps DEF IsPlan, Plans, Creating, Prompting, Closing, At
<1>13. At("base") => todo = ToBase /\ Tail(todo) = ToStat
  BY PlanSteps DEF IsPlan, Plans, Creating, Prompting, Closing, At
<1>14. At("fetch") => todo = ToFetch /\ Tail(todo) = ToBase
  BY PlanSteps DEF IsPlan, Plans, Creating, Prompting, Closing, At
<1>15. At("remote") => todo = ToRemote /\ Tail(todo) = ToFetch
  BY PlanSteps DEF IsPlan, Plans, Creating, Prompting, Closing, At
<1>16. At("type") => todo = ToType /\ Tail(todo) = ToPut
  BY PlanSteps DEF IsPlan, Plans, Creating, Prompting, Closing, At
<1>17. At("observe") => todo = ToObserve /\ Tail(todo) = ToPut
  BY PlanSteps DEF IsPlan, Plans, Creating, Prompting, Closing, At
<1>18. At("cleanup") => todo = ToCleanup /\ Tail(todo) = ToPut
  BY PlanSteps DEF IsPlan, Plans, Creating, Prompting, Closing, At
<1>19. At("close") => todo = ToClose /\ Tail(todo) = ToCleanup
  BY PlanSteps DEF IsPlan, Plans, Creating, Prompting, Closing, At
<1>20. At("resolve") => todo = ToResolve /\ Tail(todo) = ToClose
  BY PlanSteps DEF IsPlan, Plans, Creating, Prompting, Closing, At
<1>21. At("catch") => todo = ToCatch /\ Tail(todo) = <<>>
  BY PlanSteps DEF IsPlan, Plans, Creating, Prompting, Closing, At
<1> QED BY <1>1, <1>2, <1>3, <1>4, <1>5, <1>6, <1>7, <1>8, <1>9, <1>10, <1>11, <1>12, <1>13,
           <1>14, <1>15, <1>16, <1>17, <1>18, <1>19, <1>20, <1>21

\* Having arrived at a plan, the command is at its first await.
LEMMA Arrives ==
  ASSUME NEW plan \in Plans, NEW step, NEW rest, IsPlan(plan, step, rest), todo' = plan
  PROVE  Await' = step /\ todo' \in Plans
BY DEF IsPlan, Await

\* What is next after an await, and that the catch block is.
LEMMA NextAwait ==
  ASSUME todo \in Plans
  PROVE
  /\ (At("remote") /\ Proceed) => Await' = "fetch" /\ todo' \in Plans
  /\ (At("fetch") /\ Proceed) => Await' = "base" /\ todo' \in Plans
  /\ (At("base") /\ Proceed) => Await' = "stat" /\ todo' \in Plans
  /\ (At("add") /\ Proceed) => Await' = "space" /\ todo' \in Plans
  /\ (At("branch") /\ Proceed) => Await' = "head" /\ todo' \in Plans
  /\ (At("head") /\ Proceed) => Await' = "status" /\ todo' \in Plans
  /\ (At("status") /\ Proceed) => Await' = "space" /\ todo' \in Plans
  /\ (At("space") /\ Proceed) => Await' = "snapshot" /\ todo' \in Plans
  /\ (At("snapshot") /\ Proceed) => Await' = "start" /\ todo' \in Plans
  /\ (At("start") /\ Proceed) => Await' = "get" /\ todo' \in Plans
  /\ (At("probe") /\ Proceed) => Await' = "get" /\ todo' \in Plans
  /\ (At("type") /\ Proceed) => Await' = "put" /\ todo' \in Plans
  /\ (At("observe") /\ Proceed) => Await' = "put" /\ todo' \in Plans
  /\ (At("cleanup") /\ Proceed) => Await' = "put" /\ todo' \in Plans
  /\ (At("resolve") /\ Proceed) => Await' = "close" /\ todo' \in Plans
  /\ (At("close") /\ Proceed) => Await' = "cleanup" /\ todo' \in Plans
  /\ (At("put") /\ Proceed) => Await' = "idle" /\ todo' \in Plans
  /\ (At("catch") /\ Proceed) => Await' = "idle" /\ todo' \in Plans
<1>1. (At("remote") /\ Proceed) => Await' = "fetch" /\ todo' \in Plans
  BY PlanAt, PlanSteps, Arrives DEF Plans, Creating, Prompting, Closing, Proceed
<1>2. (At("fetch") /\ Proceed) => Await' = "base" /\ todo' \in Plans
  BY PlanAt, PlanSteps, Arrives DEF Plans, Creating, Prompting, Closing, Proceed
<1>3. (At("base") /\ Proceed) => Await' = "stat" /\ todo' \in Plans
  BY PlanAt, PlanSteps, Arrives DEF Plans, Creating, Prompting, Closing, Proceed
<1>4. (At("add") /\ Proceed) => Await' = "space" /\ todo' \in Plans
  BY PlanAt, PlanSteps, Arrives DEF Plans, Creating, Prompting, Closing, Proceed
<1>5. (At("branch") /\ Proceed) => Await' = "head" /\ todo' \in Plans
  BY PlanAt, PlanSteps, Arrives DEF Plans, Creating, Prompting, Closing, Proceed
<1>6. (At("head") /\ Proceed) => Await' = "status" /\ todo' \in Plans
  BY PlanAt, PlanSteps, Arrives DEF Plans, Creating, Prompting, Closing, Proceed
<1>7. (At("status") /\ Proceed) => Await' = "space" /\ todo' \in Plans
  BY PlanAt, PlanSteps, Arrives DEF Plans, Creating, Prompting, Closing, Proceed
<1>8. (At("space") /\ Proceed) => Await' = "snapshot" /\ todo' \in Plans
  BY PlanAt, PlanSteps, Arrives DEF Plans, Creating, Prompting, Closing, Proceed
<1>9. (At("snapshot") /\ Proceed) => Await' = "start" /\ todo' \in Plans
  BY PlanAt, PlanSteps, Arrives DEF Plans, Creating, Prompting, Closing, Proceed
<1>10. (At("start") /\ Proceed) => Await' = "get" /\ todo' \in Plans
  BY PlanAt, PlanSteps, Arrives DEF Plans, Creating, Prompting, Closing, Proceed
<1>11. (At("probe") /\ Proceed) => Await' = "get" /\ todo' \in Plans
  BY PlanAt, PlanSteps, Arrives DEF Plans, Creating, Prompting, Closing, Proceed
<1>12. (At("type") /\ Proceed) => Await' = "put" /\ todo' \in Plans
  BY PlanAt, PlanSteps, Arrives DEF Plans, Creating, Prompting, Closing, Proceed
<1>13. (At("observe") /\ Proceed) => Await' = "put" /\ todo' \in Plans
  BY PlanAt, PlanSteps, Arrives DEF Plans, Creating, Prompting, Closing, Proceed
<1>14. (At("cleanup") /\ Proceed) => Await' = "put" /\ todo' \in Plans
  BY PlanAt, PlanSteps, Arrives DEF Plans, Creating, Prompting, Closing, Proceed
<1>15. (At("resolve") /\ Proceed) => Await' = "close" /\ todo' \in Plans
  BY PlanAt, PlanSteps, Arrives DEF Plans, Creating, Prompting, Closing, Proceed
<1>16. (At("close") /\ Proceed) => Await' = "cleanup" /\ todo' \in Plans
  BY PlanAt, PlanSteps, Arrives DEF Plans, Creating, Prompting, Closing, Proceed
<1>17. (At("put") /\ Proceed) => Await' = "idle" /\ todo' \in Plans
  BY PlanAt DEF Plans, Proceed, Await
<1>18. (At("catch") /\ Proceed) => Await' = "idle" /\ todo' \in Plans
  BY PlanAt DEF Plans, Proceed, Await
<1> QED BY <1>1, <1>2, <1>3, <1>4, <1>5, <1>6, <1>7, <1>8, <1>9, <1>10, <1>11, <1>12, <1>13,
           <1>14, <1>15, <1>16, <1>17, <1>18

\* What throws is at the catch block next.
LEMMA ToTheCatch == Throw => Await' = "catch" /\ todo' \in Plans
<1>1. ToCatch # <<>> /\ Head(ToCatch) = "catch"
  BY PlanSteps DEF IsPlan
<1>2. Throw => todo' = ToCatch
  BY DEF Throw, ToCatch
<1> QED BY <1>1, <1>2 DEF Await, Plans

\* What answers an error is over.
LEMMA AnswerEnds == Answer => Await' = "idle" /\ todo' \in Plans
BY DEF Answer, Await, Plans

\* Every plan is a list of awaits.
LEMMA PlansAreLists == Plans \subseteq Seq(Awaits)
BY PlanSteps, EmptySeq DEF IsPlan, Plans, Creating, Prompting, Closing

\* The workspace made is one of the workspaces, and not the agent's.
LEMMA NewSpaceIsOne == NewSpace \in Spaces /\ NewSpace # agent.space
BY HerdrAssumption DEF HerdrAssumption, NewSpace

-----------------------------------------------------------------------------
(* The steps of the Git adapter *)

\* What a step of create does not disturb in the Git part.
LEMMA GitMoves ==
  ASSUME CreationInv, Await \in InGit, Await' \in InGit \cup {"space", "catch"}, todo' \in Plans,
         UNCHANGED <<job, calm, herdrVars, recordVars>>
  PROVE  PlanInv' /\ AgentInv' /\ SpaceInv' /\ ClosedLeavesNoAgent'
<1> USE DEF CreationInv, Jobs, Records, JobStates, InGit, recordVars, herdrVars
<1>1. PlanInv'
  BY DEF PlanInv, InSpace, Looking, ToRecord
<1>2. AgentInv'
  BY DEF AgentInv, ToRecord
<1>3. SpaceInv'
  BY DEF SpaceInv, Looking, ToRecord
<1>4. ClosedLeavesNoAgent'
  BY DEF ClosedLeavesNoAgent
<1> QED BY <1>1, <1>2, <1>3, <1>4

\* The steps of the Git adapter keep the invariant: the worktree is made at, or
\* found to be at, a base no older than the fetch.
LEMMA GitKeeps ==
  ASSUME CreationInv, GitStep, UNCHANGED <<herdrVars, recordVars>>
  PROVE  CreationInv'
<1> USE DEF CreationInv, Jobs, Records, JobStates
<1>0. todo \in Plans
  BY DEF PlanInv
<1> SUFFICES /\ Await \in InGit /\ Await' \in InGit \cup {"space", "catch"} /\ todo' \in Plans
             /\ UNCHANGED <<job, calm>>
             /\ GitTypes' /\ TreeInv'
  <2>1. TypeOK'
    BY PlansAreLists DEF TypeOK, HerdrTypes, herdrVars, recordVars
  <2> QED BY <2>1, GitMoves
<1>1. CASE RemoteUrl
  <2>3. Await = "remote" /\ Await' \in {"fetch", "catch"} /\ todo' \in Plans
    BY <1>0, <1>1, NextAwait, ToTheCatch DEF RemoteUrl, Fails, At, Await
  <2>4. UNCHANGED <<job, calm, gitVars>>
    BY <1>1 DEF RemoteUrl, gitVars
  <2>5. GitTypes'
    BY <1>1, <2>4 DEF RemoteUrl, TypeOK, GitTypes, gitVars
  <2>6. TreeInv'
    BY <1>1, <2>3, <2>4 DEF RemoteUrl, TypeOK, GitTypes, Commits, TreeInv, InSpace, Looking,
       recordVars, gitVars
  <2> QED BY <2>3, <2>4, <2>5, <2>6 DEF InGit
<1>2. CASE Fetch
  <2>3. Await = "fetch" /\ Await' \in {"base", "catch"} /\ todo' \in Plans
    BY <1>0, <1>2, NextAwait, ToTheCatch DEF Fetch, Fails, At, Await
  <2>4. UNCHANGED <<job, calm, baseSha, upstream, branched, tree>>
    BY <1>2 DEF Fetch, gitVars
  <2>5. GitTypes'
    BY <1>2, <2>4 DEF Fetch, TypeOK, GitTypes, gitVars
  <2>6. TreeInv'
    BY <1>2, <2>3, <2>4 DEF Fetch, TypeOK, GitTypes, Commits, TreeInv, InSpace, Looking,
       recordVars, gitVars
  <2> QED BY <2>3, <2>4, <2>5, <2>6 DEF InGit
<1>3. CASE RevParse
  <2>3. Await = "base" /\ Await' \in {"stat", "catch"} /\ todo' \in Plans
    BY <1>0, <1>3, NextAwait, ToTheCatch DEF RevParse, Fails, At, Await
  <2>4. UNCHANGED <<job, calm, upstream, branched, tree>>
    BY <1>3 DEF RevParse, gitVars
  <2>5. GitTypes'
    BY <1>3, <2>4 DEF RevParse, TypeOK, GitTypes, gitVars
  <2>6. TreeInv'
    BY <1>3, <2>3, <2>4 DEF RevParse, TypeOK, GitTypes, Commits, TreeInv, InSpace, Looking,
       recordVars, gitVars
  <2> QED BY <2>3, <2>4, <2>5, <2>6 DEF InGit
<1>4. CASE Stat
  <2>1. Await = "stat" /\ todo = ToStat /\ Tail(todo) = ToSpace
    BY <1>0, <1>4, PlanAt DEF Stat, At, Await
  <2>2. /\ IsPlan(ToAdd, "add", ToSpace) /\ IsPlan(ToBranch, "branch", ToHead)
        /\ ToAdd \in Plans /\ ToBranch \in Plans
    BY PlanSteps DEF Plans, Creating
  <2>3. Await' \in {"add", "branch", "catch"} /\ todo' \in Plans
    BY <1>4, <2>1, <2>2, Lists, Arrives, ToTheCatch DEF Stat, Branch, Fails
  <2>4. UNCHANGED <<job, calm, gitVars>>
    BY <1>4 DEF Stat
  <2>5. GitTypes'
    BY <1>4, <2>4 DEF Stat, TypeOK, GitTypes, gitVars
  <2>6. TreeInv'
    BY <2>1, <2>3, <2>4 DEF TreeInv, InSpace, Looking, recordVars, gitVars
  <2> QED BY <2>1, <2>3, <2>4, <2>5, <2>6 DEF InGit
<1>5. CASE ValidateReusable
  <2>1. PICK step \in {"branch", "head", "status"} :
          /\ At(step)
          /\ IF Reusable(step) THEN Proceed \/ Fails ELSE Throw
    BY <1>5 DEF ValidateReusable
  <2>2. Await = step /\ todo' \in Plans /\ Await' \in {"head", "status", "space", "catch"}
    BY <1>0, <2>1, NextAwait, ToTheCatch DEF Fails, At, Await
  <2>3. Await' # "catch" => /\ Reusable(step)
                            /\ Await' = CASE step = "branch" -> "head"
                                          [] step = "head" -> "status"
                                          [] step = "status" -> "space"
    BY <1>0, <2>1, NextAwait, ToTheCatch DEF Fails, At, Await
  <2>4. UNCHANGED <<job, calm, gitVars>>
    BY <1>5 DEF ValidateReusable
  <2>5. GitTypes'
    BY <2>4 DEF TypeOK, GitTypes, gitVars
  <2>6. TreeInv'
    BY <2>2, <2>3, <2>4 DEF Reusable, TreeInv, InSpace, Looking, recordVars, gitVars, PlanInv,
       InGit, InSpace
  <2> QED BY <2>2, <2>4, <2>5, <2>6 DEF InGit
<1>6. CASE WorktreeAdd
  <2>3. Await = "add" /\ Await' \in {"space", "catch"} /\ todo' \in Plans
    BY <1>0, <1>6, NextAwait, ToTheCatch DEF WorktreeAdd, Fails, At, Await
  <2>4. Await' = "space" => tree' = [state |-> "clean", head |-> tracking]
    BY <1>6, ToTheCatch DEF WorktreeAdd, Fails
  <2>5. UNCHANGED <<job, calm, upstream, tracking, baseSha, fetched>>
    BY <1>6 DEF WorktreeAdd
  <2>6. GitTypes'
    <3>1. branched' \in BOOLEAN
      BY <1>6 DEF WorktreeAdd, TypeOK, GitTypes
    <3>2. 0 \in Commits
      BY BaseAssumption DEF BaseAssumption, Commits
    <3>3. tree' \in {tree, NoTree} \cup [state : {"clean", "dirty"}, head : {tracking}]
      BY <1>6 DEF WorktreeAdd
    <3>4. tree' \in [state : {"none", "clean", "dirty", "foreign"}, head : Commits]
      BY <3>2, <3>3 DEF TypeOK, GitTypes, NoTree
    <3> QED BY <2>5, <3>1, <3>4 DEF TypeOK, GitTypes
  <2>7. TreeInv'
    BY <2>3, <2>4, <2>5 DEF TreeInv, InSpace, Looking, recordVars
  <2> QED BY <2>3, <2>5, <2>6, <2>7 DEF InGit
<1> QED BY <1>1, <1>2, <1>3, <1>4, <1>5, <1>6 DEF GitStep

-----------------------------------------------------------------------------
(* The steps of the Herdr adapter *)

\* A look at the agent goes on with the creation or the prompt it belongs to.
LEMMA NextLook ==
  ASSUME PlanInv, Proceed
  PROVE  /\ At("get") => /\ Await' = "process" /\ todo' \in Plans
                         /\ record.state = "absent" => todo' = ToProcess
                         /\ record.state # "absent" => todo' \in {ToProcess1, ToProcess2}
         /\ At("process") => /\ record.state = "absent" => Await' = "put"
                             /\ record.state # "absent" => \/ Await' = "get" /\ todo' = ToGet2
                                                           \/ Await' = "type"
                             /\ todo' \in Plans
<1>0. todo \in Plans
  BY DEF PlanInv
<1>1. ASSUME At("get")
      PROVE  /\ record.state = "absent" => todo' = ToProcess
             /\ record.state # "absent" => todo' \in {ToProcess1, ToProcess2}
  <2>1. Await = "get"
    BY <1>1 DEF At, Await
  <2> QED BY <1>0, <1>1, <2>1, PlanAt, PlansDiffer DEF PlanInv, Looking, Proceed, Prompting
<1>2. ASSUME At("process")
      PROVE  /\ record.state = "absent" => todo' = ToPut
             /\ record.state # "absent" => todo' \in {ToGet2, ToType}
  <2>1. Await = "process"
    BY <1>2 DEF At, Await
  <2> QED BY <1>0, <1>2, <2>1, PlanAt, PlansDiffer DEF PlanInv, Looking, Proceed, Prompting
<1>3. /\ todo' \in {ToProcess, ToProcess1, ToProcess2} => Await' = "process" /\ todo' \in Plans
      /\ todo' = ToPut => Await' = "put" /\ todo' \in Plans
      /\ todo' = ToGet2 => Await' = "get" /\ todo' \in Plans
      /\ todo' = ToType => Await' = "type" /\ todo' \in Plans
  BY PlanSteps, Arrives DEF Plans, Creating, Prompting
<1> QED BY <1>1, <1>2, <1>3

\* The steps of the Herdr adapter keep it: what lies before the record is the
\* second look of create, before the text that of prompt.
LEMMA HerdrKeeps ==
  ASSUME CreationInv, HerdrStep, UNCHANGED <<gitVars, recordVars>>
  PROVE  CreationInv'
<1> USE DEF CreationInv, Jobs, Records, JobStates
<1>0. todo \in Plans
  BY DEF PlanInv
<1> SUFFICES /\ todo' \in Plans /\ job' \in Jobs
             /\ UNCHANGED calm /\ HerdrTypes'
             /\ PlanInv' /\ TreeInv' /\ AgentInv' /\ SpaceInv' /\ ClosedLeavesNoAgent'
  BY PlansAreLists DEF TypeOK, GitTypes, gitVars, recordVars
<1> USE DEF gitVars, recordVars
<1>1. CASE WorkspaceCreate
  <2>1. Await = "space" /\ Await' \in {"snapshot", "catch"} /\ todo' \in Plans
    BY <1>0, <1>1, NextAwait, ToTheCatch DEF WorkspaceCreate, Fails, At, Await
  <2>2. UNCHANGED <<calm, agent, probes, vanished, typed>> /\ job'.state = job.state /\ record.state = "absent"
    BY <1>1, <2>1 DEF WorkspaceCreate, TypeOK, PlanInv, InSpace
  <2>3. HerdrTypes' /\ job' \in Jobs
    BY <1>1, <2>2, NewSpaceIsOne DEF WorkspaceCreate, TypeOK, HerdrTypes
  <2>4. PlanInv'
    BY <2>1, <2>2 DEF PlanInv, InGit, InSpace, Looking, ToRecord
  <2>5. TreeInv'
    BY <2>1, <2>2 DEF TreeInv, InSpace, Looking
  <2>6. AgentInv'
    BY <2>1, <2>2 DEF AgentInv, ToRecord
  <2>7. SpaceInv'
    BY <2>1, <2>2 DEF SpaceInv, Looking
  <2>8. ClosedLeavesNoAgent'
    BY <2>2 DEF ClosedLeavesNoAgent
  <2> QED BY <2>1, <2>2, <2>3, <2>4, <2>5, <2>6, <2>7, <2>8
<1>2. CASE Snapshot
  <2>1. Await = "snapshot" /\ Await' \in {"start", "catch"} /\ todo' \in Plans
    BY <1>0, <1>2, NextAwait, ToTheCatch DEF Snapshot, Fails, At, Await
  <2>2. UNCHANGED <<job, calm, spaces, agent, probes, vanished, typed>>
    BY <1>2 DEF Snapshot, herdrVars
  <2>3. HerdrTypes'
    BY <2>2 DEF TypeOK, HerdrTypes
  <2>4. PlanInv'
    BY <2>1, <2>2 DEF PlanInv, InGit, InSpace, Looking, ToRecord
  <2>5. TreeInv'
    BY <2>1, <2>2 DEF TreeInv, InSpace, Looking
  <2>6. AgentInv'
    BY <2>1, <2>2 DEF AgentInv, ToRecord
  <2>7. SpaceInv'
    BY <2>1, <2>2 DEF SpaceInv, Looking
  <2>8. ClosedLeavesNoAgent'
    BY <2>2 DEF ClosedLeavesNoAgent
  <2> QED BY <2>1, <2>2, <2>3, <2>4, <2>5, <2>6, <2>7, <2>8 DEF TypeOK
<1>3. CASE AgentStart
  <2>1. Await = "start" /\ todo = ToStart /\ Tail(todo) = ToGet
    BY <1>0, <1>3, PlanAt DEF AgentStart, At, Await, IsPlan
  <2>2. /\ IsPlan(ToGet, "get", ToProcess) /\ IsPlan(ToProbe, "probe", ToGet)
        /\ ToGet \in Plans /\ ToProbe \in Plans
    BY PlanSteps DEF Plans, Creating
  <2>3. \/ Await' = "get" /\ todo' = ToGet
        \/ Await' = "probe" /\ todo' = ToProbe /\ probes' = Probes
    BY <1>3, <2>1, <2>2, Lists, Arrives DEF AgentStart, Branch, Proceed
  <2>4. UNCHANGED <<job, calm, spaces, vanished, typed>> /\ record.state = "absent" /\ probes' \in {probes, Probes}
    BY <1>3, <2>1 DEF AgentStart, PlanInv, InSpace
  <2>5. \/ agent' = agent
        \/ /\ agent' \in [space : {job.space}, state : {"live", "launching"}]
           /\ job.space \in Spaces
    BY <1>3 DEF AgentStart, TypeOK, HerdrTypes
  <2>6. HerdrTypes'
    BY <2>4, <2>5, HerdrAssumption DEF HerdrAssumption, TypeOK, HerdrTypes
  <2>7. PlanInv'
    BY <2>1, <2>2, <2>3, <2>4 DEF PlanInv, InGit, InSpace, Looking, ToRecord
  <2>8. TreeInv'
    BY <2>1, <2>3, <2>4 DEF TreeInv, InSpace, Looking
  <2>9. AgentInv'
    BY <2>3, <2>4, <2>5, HerdrAssumption DEF HerdrAssumption, AgentInv, ToRecord
  <2>10. SpaceInv'
    BY <2>3, <2>4 DEF SpaceInv, Looking
  <2>11. ClosedLeavesNoAgent'
    BY <2>4 DEF ClosedLeavesNoAgent
  <2> QED BY <2>2, <2>3, <2>4, <2>6, <2>7, <2>8, <2>9, <2>10, <2>11 DEF TypeOK
<1>4. CASE Probe
  <2>1. Await = "probe" /\ todo = ToProbe /\ Tail(todo) = ToGet
    BY <1>0, <1>4, PlanAt DEF Probe, At, Await
  <2>2. IsPlan(ToGet, "get", ToProcess) /\ ToGet \in Plans
    BY PlanSteps DEF Plans, Creating
  <2>3. /\ todo' \in Plans
        /\ \/ Await' = "get" /\ todo' = ToGet /\ probes' = 0
           \/ Await' = "probe" /\ probes > 1 /\ probes' = probes - 1
           \/ Await' = "catch" /\ probes' = probes - 1
    BY <1>0, <1>4, <2>1, <2>2, Arrives, ToTheCatch DEF Probe, Proceed, Await
  <2>4. UNCHANGED <<job, calm, spaces, agent, vanished, typed>> /\ record.state = "absent" /\ probes >= 1
    BY <1>4, <2>1 DEF Probe, PlanInv, InSpace, AgentInv
  <2>5. HerdrTypes'
    BY <2>3, <2>4, HerdrAssumption DEF HerdrAssumption, TypeOK, HerdrTypes
  <2>6. PlanInv'
    BY <2>1, <2>3, <2>4 DEF PlanInv, InGit, InSpace, Looking, ToRecord
  <2>7. TreeInv'
    BY <2>1, <2>3, <2>4 DEF TreeInv, InSpace, Looking
  <2>8. AgentInv'
    BY <2>3, <2>4 DEF AgentInv, ToRecord, TypeOK, HerdrTypes
  <2>9. SpaceInv'
    BY <2>3, <2>4 DEF SpaceInv, Looking
  <2>10. ClosedLeavesNoAgent'
    BY <2>4 DEF ClosedLeavesNoAgent
  <2> QED BY <2>3, <2>4, <2>5, <2>6, <2>7, <2>8, <2>9, <2>10 DEF TypeOK
<1>5. CASE AgentGet
  <2>1. Await = "get"
    BY <1>5 DEF AgentGet, At, Await
  <2>2. /\ todo' \in Plans
        /\ \/ Await' = "catch"
           \/ /\ Await' = "process"
              /\ record.state = "absent" => todo' = ToProcess
              /\ record.state # "absent" => todo' \in {ToProcess1, ToProcess2}
    BY <1>5, NextLook, ToTheCatch DEF AgentGet, Fails
  <2>3. UNCHANGED <<job, calm, spaces, agent, probes, vanished, typed>>
    BY <1>5 DEF AgentGet, herdrVars
  <2>4. HerdrTypes'
    BY <2>3 DEF TypeOK, HerdrTypes
  <2>5. PlanInv'
    BY <2>1, <2>2, <2>3 DEF PlanInv, InGit, InSpace, Looking, ToRecord, Prompting
  <2>6. TreeInv'
    BY <2>1, <2>2, <2>3 DEF TreeInv, InSpace, Looking
  <2>7. AgentInv'
    BY <2>1, <2>2, <2>3 DEF AgentInv, ToRecord
  <2>8. SpaceInv'
    BY <2>1, <2>2, <2>3 DEF SpaceInv, Looking
  <2>9. ClosedLeavesNoAgent'
    BY <2>3 DEF ClosedLeavesNoAgent
  <2> QED BY <2>2, <2>3, <2>4, <2>5, <2>6, <2>7, <2>8, <2>9 DEF TypeOK
<1>6. CASE ProcessInfo
  <2>1. Await = "process"
    BY <1>6 DEF ProcessInfo, At, Await
  <2>2. /\ todo' \in Plans
        /\ \/ Await' = "catch"
           \/ /\ agent.state \in {"starting", "live"}
              /\ record.state = "absent" => Await' = "put"
              /\ record.state # "absent" => \/ Await' = "get" /\ todo' = ToGet2
                                            \/ Await' = "type"
    BY <1>6, NextLook, ToTheCatch DEF ProcessInfo, Fails
  <2>3. UNCHANGED <<job, calm, spaces, agent, probes, typed>> /\ vanished' \in BOOLEAN
    BY <1>6 DEF ProcessInfo, TypeOK, HerdrTypes
  <2>4. HerdrTypes'
    BY <2>3 DEF TypeOK, HerdrTypes
  <2>5. PlanInv'
    BY <2>1, <2>2, <2>3 DEF PlanInv, InGit, InSpace, Looking, ToRecord, Prompting
  <2>6. TreeInv'
    BY <2>1, <2>2, <2>3 DEF TreeInv, InSpace, Looking
  <2>7. AgentInv'
    BY <2>1, <2>2, <2>3 DEF AgentInv, ToRecord
  <2>8. SpaceInv'
    BY <2>1, <2>2, <2>3 DEF SpaceInv, Looking, PlanInv
  <2>9. ClosedLeavesNoAgent'
    BY <2>3 DEF ClosedLeavesNoAgent
  <2> QED BY <2>2, <2>3, <2>4, <2>5, <2>6, <2>7, <2>8, <2>9 DEF TypeOK
<1>7. ASSUME AgentPrompt \/ Status
      PROVE  /\ Await \in {"type", "observe"} /\ Await' \in {"put", "catch", "idle"} /\ todo' \in Plans
             /\ job' \in {job} \cup {[job EXCEPT !.state = s] : s \in {"working", "ready", "unknown"}}
             /\ Await' = "put" => job'.state \in {"working", "ready", "unknown"}
             /\ UNCHANGED <<calm, spaces, agent, probes, vanished>>
             /\ typed' \in {typed, "shell", "agent"}
  <2>1. CASE AgentPrompt
    BY <1>0, <2>1, NextAwait, ToTheCatch DEF AgentPrompt, Fails, At, Await, TypeOK
  <2>2. CASE Status
    BY <1>0, <2>2, NextAwait, AnswerEnds DEF Status, At, Await, herdrVars, TypeOK
  <2> QED BY <1>7, <2>1, <2>2
<1>8. CASE AgentPrompt \/ Status
  <2>1. /\ job' \in Jobs
        /\ job'.space = job.space
        /\ job'.state \in {job.state, "working", "ready", "unknown"}
    BY <1>7, <1>8 DEF TypeOK
  <2>2. record.state # "absent" /\ record.state # "closed"
    BY <1>7, <1>8 DEF PlanInv
  <2>3. HerdrTypes'
    BY <1>7, <1>8 DEF TypeOK, HerdrTypes
  <2>4. PlanInv'
    BY <1>7, <1>8, <2>1, <2>2 DEF PlanInv, InGit, InSpace, Looking, ToRecord
  <2>5. TreeInv'
    BY <1>7, <1>8, <2>2 DEF TreeInv, InSpace, Looking
  <2>6. AgentInv'
    BY <1>7, <1>8, <2>2 DEF AgentInv, ToRecord
  <2>7. SpaceInv'
    BY <1>7, <1>8, <2>1, <2>2 DEF SpaceInv, Looking
  <2>8. ClosedLeavesNoAgent'
    BY <2>2 DEF ClosedLeavesNoAgent
  <2> QED BY <1>7, <1>8, <2>1, <2>3, <2>4, <2>5, <2>6, <2>7, <2>8
<1>9. CASE Resolve
  <2>1. Await = "resolve" /\ Await' \in {"close", "catch"} /\ todo' \in Plans
    BY <1>0, <1>9, NextAwait, ToTheCatch DEF Resolve, Fails, At, Await
  <2>2. /\ UNCHANGED <<calm, spaces, agent, probes, vanished, typed>>
        /\ record.state # "absent" /\ record.state # "closed"
        /\ job.space = record.space /\ job.state # "closed"
    BY <1>9, <2>1 DEF Resolve, herdrVars, PlanInv, SpaceInv
  <2>3. \/ UNCHANGED job /\ (Await' = "close" => job.space # NoSpace)
        \/ job.space = NoSpace /\ agent.state # "none" /\ job' = [job EXCEPT !.space = agent.space]
    BY <1>9, ToTheCatch DEF Resolve, Known, Fails
  <2>4. /\ job' \in Jobs
        /\ job'.state = job.state
        /\ Await' = "close" => job'.space # NoSpace /\ (~adopted => agent.space \in {job'.space, NoSpace})
    BY <2>2, <2>3 DEF TypeOK, HerdrTypes, SpaceInv, AgentInv
  <2>5. HerdrTypes'
    BY <2>2 DEF TypeOK, HerdrTypes
  <2>6. PlanInv'
    BY <2>1, <2>2, <2>4 DEF PlanInv, InGit, InSpace, Looking, ToRecord
  <2>7. TreeInv'
    BY <2>1, <2>2 DEF TreeInv, InSpace, Looking
  <2>8. AgentInv'
    BY <2>1, <2>2 DEF AgentInv, ToRecord
  <2>9. SpaceInv'
    BY <2>1, <2>2, <2>4 DEF SpaceInv, Looking
  <2>10. ClosedLeavesNoAgent'
    BY <2>2 DEF ClosedLeavesNoAgent
  <2> QED BY <2>1, <2>2, <2>4, <2>5, <2>6, <2>7, <2>8, <2>9, <2>10
<1>10. CASE WorkspaceClose
  <2>1. Await = "close" /\ Await' \in {"cleanup", "catch"} /\ todo' \in Plans
    BY <1>0, <1>10, NextAwait, ToTheCatch DEF WorkspaceClose, Fails, At, Await
  <2>2. /\ UNCHANGED <<job, calm, probes, vanished, typed>>
        /\ record.state # "absent" /\ record.state # "closed"
    BY <1>10, <2>1 DEF WorkspaceClose, PlanInv
  <2>3. /\ spaces' \subseteq spaces
        /\ agent' \in {agent, NoAgent}
        /\ Await' = "cleanup" => agent' = IF agent.space = job.space THEN NoAgent ELSE agent
    BY <1>10, ToTheCatch DEF WorkspaceClose, Closed, Fails
  <2>4. HerdrTypes'
    BY <2>2, <2>3 DEF TypeOK, HerdrTypes, NoAgent
  <2>5. PlanInv'
    BY <2>1, <2>2 DEF PlanInv, InGit, InSpace, Looking, ToRecord
  <2>6. TreeInv'
    BY <2>1, <2>2 DEF TreeInv, InSpace, Looking
  <2>7. AgentInv'
    BY <2>1, <2>2, <2>3 DEF AgentInv, ToRecord, NoAgent
  <2>8. SpaceInv'
    BY <2>1, <2>2, <2>3 DEF SpaceInv, AgentInv, Looking, NoAgent
  <2>9. ClosedLeavesNoAgent'
    BY <2>2 DEF ClosedLeavesNoAgent
  <2> QED BY <2>1, <2>2, <2>4, <2>5, <2>6, <2>7, <2>8, <2>9 DEF TypeOK
<1> QED BY <1>1, <1>2, <1>3, <1>4, <1>5, <1>6, <1>8, <1>9, <1>10 DEF HerdrStep

-----------------------------------------------------------------------------
(* Others *)

\* What none but a command does.
LEMMA OthersMove ==
  ASSUME CreationInv, UNCHANGED <<commandVars, recordVars>>
  PROVE  /\ PlanInv'
         /\ Await' = Await
<1>1. Await' = Await
  BY DEF Await, commandVars
<1> QED BY <1>1 DEF CreationInv, PlanInv, ToRecord, commandVars, recordVars

\* So do pushes, other fetches and people in the worktree,
LEMMA GitOthersKeep ==
  ASSUME CreationInv, GitOthers, UNCHANGED <<herdrVars, recordVars>>
  PROVE  CreationInv'
<1> USE DEF CreationInv, Jobs, Records, JobStates
<1>1. UNCHANGED <<commandVars, baseSha, fetched, branched>> /\ tracking' \in {tracking, upstream}
  BY DEF GitOthers, UpstreamMoves, OtherFetch, Meddle
<1>2. PlanInv' /\ Await' = Await
  BY <1>1, OthersMove
<1>3. AgentInv' /\ SpaceInv' /\ ClosedLeavesNoAgent'
  BY <1>1, <1>2 DEF AgentInv, SpaceInv, ToRecord, ClosedLeavesNoAgent, commandVars, herdrVars,
     recordVars
<1>4. GitTypes' /\ TreeInv'
  <2>1. CASE UpstreamMoves
    <3>1. upstream' = upstream + 1 /\ upstream' \in Commits /\ UNCHANGED <<tracking, tree>>
      BY <2>1, BaseAssumption DEF BaseAssumption, UpstreamMoves, TypeOK, GitTypes, Commits
    <3>2. GitTypes'
      BY <1>1, <3>1 DEF TypeOK, GitTypes
    <3>3. TreeInv'
      BY <1>1, <1>2, <3>1 DEF TreeInv, recordVars, TypeOK, GitTypes, Commits
    <3> QED BY <3>2, <3>3
  <2>2. CASE OtherFetch
    <3>1. tracking' = upstream /\ UNCHANGED <<upstream, tree>>
      BY <2>2 DEF OtherFetch
    <3>2. GitTypes'
      BY <1>1, <3>1 DEF TypeOK, GitTypes
    <3>3. TreeInv'
      BY <1>1, <1>2, <3>1 DEF TreeInv, recordVars, TypeOK, GitTypes, Commits
    <3> QED BY <3>2, <3>3
  <2>3. CASE Meddle
    <3>1. Await = "idle" /\ UNCHANGED <<upstream, tracking>>
      BY <2>3 DEF Meddle, Await
    <3>2. tree' \in [state : {"none", "clean", "dirty", "foreign"}, head : Commits]
      BY <2>3 DEF Meddle, TypeOK, GitTypes
    <3>3. GitTypes'
      BY <1>1, <3>1, <3>2 DEF TypeOK, GitTypes
    <3>4. TreeInv'
      BY <1>1, <1>2, <3>1 DEF TreeInv, InSpace, Looking
    <3> QED BY <3>3, <3>4
  <2> QED BY <2>1, <2>2, <2>3 DEF GitOthers
<1>5. TypeOK'
  BY <1>1, <1>4 DEF TypeOK, HerdrTypes, commandVars, herdrVars, recordVars
<1> QED BY <1>2, <1>3, <1>4, <1>5

\* An agent of its name comes up, ends and is forgotten where it is, and what is
\* no longer there was noticed to have ended.
AgentOnly ==
    /\ agent' \in [space : Spaces \cup {NoSpace},
                   state : {"none", "launching", "starting", "live", "ended"}]
    /\ agent'.space \in {agent.space, NoSpace}
    /\ agent'.state = "none" <=> agent'.space = NoSpace
    /\ vanished' \in BOOLEAN
    /\ agent.state \in {"starting", "live"} \/ vanished =>
          agent'.state \in {"starting", "live"} \/ vanished'
    /\ spaces' \subseteq spaces
    /\ UNCHANGED <<commandVars, probes, typed>>

\* which is all that Herdr, the agent and people do,
LEMMA OthersAgent == ASSUME CreationInv, HerdrOthers PROVE AgentOnly
<1> USE DEF CreationInv, Jobs, Records, JobStates, AgentOnly, TypeOK, HerdrTypes, AgentInv
<1>1. ASSUME AgentComesUp PROVE AgentOnly
  BY <1>1 DEF AgentComesUp
<1>2. ASSUME AgentEnds PROVE AgentOnly
  BY <1>2 DEF AgentEnds
<1>3. ASSUME NameDropped PROVE AgentOnly
  BY <1>3 DEF NameDropped, NoAgent
<1>4. ASSUME ClosedByHand PROVE AgentOnly
  <2>1. PICK space \in spaces : Closed(space) /\ vanished' = (vanished \/ agent.space = space)
    BY <1>4 DEF ClosedByHand
  <2> QED BY <1>4, <2>1 DEF ClosedByHand, Closed, NoAgent
<1> QED BY <1>1, <1>2, <1>3, <1>4 DEF HerdrOthers

\* and it keeps the invariant.
LEMMA HerdrOthersKeep ==
  ASSUME CreationInv, HerdrOthers, UNCHANGED <<gitVars, recordVars>>
  PROVE  CreationInv'
<1> USE DEF CreationInv, Jobs, Records, JobStates
<1>1. AgentOnly
  BY OthersAgent
<1>2. PlanInv' /\ Await' = Await /\ UNCHANGED job
  BY <1>1, OthersMove DEF AgentOnly, commandVars
<1>3. TreeInv'
  BY <1>2 DEF TreeInv, gitVars, recordVars
<1>4. AgentInv'
  BY <1>1, <1>2 DEF AgentOnly, AgentInv, ToRecord, recordVars
<1>5. SpaceInv' /\ ClosedLeavesNoAgent'
  BY <1>1, <1>2 DEF AgentOnly, AgentInv, SpaceInv, ClosedLeavesNoAgent, recordVars, TypeOK,
     HerdrTypes
<1>6. TypeOK'
  BY <1>1 DEF AgentOnly, TypeOK, GitTypes, HerdrTypes, commandVars, gitVars, recordVars
<1> QED BY <1>2, <1>3, <1>4, <1>5, <1>6

-----------------------------------------------------------------------------
(* Commands, and the registry *)

\* A command starts with a plan that suits the record.
LEMMA CommandKeeps ==
  ASSUME CreationInv, Command
  PROVE  CreationInv'
<1> USE DEF CreationInv, Jobs, Records, JobStates
<1>1. /\ Await = "idle" /\ Await' \in {"remote", "get", "observe", "put", "resolve"}
      /\ todo' \in Plans
      /\ Await' = "remote" => record.state = "absent" /\ job'.state = "ready"
      /\ Await' # "remote" => record.state \in {"ready", "working", "unknown", "handoff_ready"}
      /\ Await' = "get" => todo' = ToGet1
      /\ Await' # "remote" => /\ job'.space = record.space
                              /\ job'.state \in {"ready", "working", "unknown", "handoff_ready"}
      /\ job' \in Jobs
      /\ vanished' = FALSE /\ UNCHANGED <<calm, gitVars, spaces, agent, probes, typed, recordVars>>
  <2>1. /\ IsPlan(ToRemote, "remote", ToFetch) /\ IsPlan(ToGet1, "get", ToProcess1)
        /\ IsPlan(ToObserve, "observe", ToPut) /\ IsPlan(ToResolve, "resolve", ToClose)
        /\ IsPlan(ToPut, "put", <<>>)
        /\ {ToRemote, ToGet1, ToObserve, ToResolve, ToPut} \subseteq Plans
    BY PlanSteps DEF Plans, Creating, Prompting, Closing
  <2>2. Await = "idle" /\ vanished' = FALSE /\ UNCHANGED <<calm, gitVars, spaces, agent, probes, typed, recordVars>>
    BY DEF Command, CreateJob, PromptJob, JobStatus, HandoffJob, CloseJob, Start, Await
  <2>3. CASE CreateJob
    <3>1. todo' = ToRemote /\ record.state = "absent" /\ job' = [state |-> "ready", space |-> NoSpace]
      BY <2>3, Lists DEF CreateJob, Start
    <3>2. Await' = "remote" /\ todo' \in Plans
      BY <2>1, <3>1, Arrives
    <3> QED BY <2>2, <3>1, <3>2
  <2>4. CASE PromptJob
    <3>1. todo' = ToGet1 /\ record.state = "ready" /\ job' = record
      BY <2>4, Lists DEF PromptJob, Start
    <3>2. Await' = "get" /\ todo' \in Plans
      BY <2>1, <3>1, Arrives
    <3> QED BY <2>2, <3>1, <3>2 DEF TypeOK
  <2>5. CASE JobStatus
    BY <2>1, <2>2, <2>5, Lists, Arrives DEF JobStatus, Start, TypeOK
  <2>6. CASE HandoffJob
    <3>1. /\ todo' = ToPut /\ record.state \in {"ready", "unknown"}
          /\ job' = [record EXCEPT !.state = "handoff_ready"]
      BY <2>6 DEF HandoffJob, Start, ToPut
    <3>2. Await' = "put" /\ todo' \in Plans
      BY <2>1, <3>1, Arrives
    <3> QED BY <2>2, <3>1, <3>2 DEF TypeOK
  <2>7. CASE CloseJob
    BY <2>1, <2>2, <2>7, Lists, Arrives DEF CloseJob, Start, TypeOK
  <2> QED BY <2>3, <2>4, <2>5, <2>6, <2>7 DEF Command
<1>2. TypeOK'
  <2>1. todo' \in Seq(Awaits) /\ job' \in Jobs /\ GitTypes' /\ HerdrTypes'
    BY <1>1, PlansAreLists DEF TypeOK, GitTypes, HerdrTypes, gitVars
  <2> QED BY <1>1, <2>1 DEF TypeOK, recordVars
<1>3. PlanInv'
  BY <1>1 DEF PlanInv, InGit, InSpace, Looking, ToRecord, Prompting, recordVars
<1>4. TreeInv'
  BY <1>1 DEF TreeInv, InSpace, Looking, gitVars, recordVars
<1>5. AgentInv'
  BY <1>1 DEF AgentInv, ToRecord, recordVars
<1>6. SpaceInv'
  BY <1>1 DEF SpaceInv, Looking, recordVars
<1>7. ClosedLeavesNoAgent'
  BY <1>1 DEF ClosedLeavesNoAgent, recordVars
<1> QED BY <1>2, <1>3, <1>4, <1>5, <1>6, <1>7

\* The end of close, before the record is written.
LEMMA CleanupKeeps ==
  ASSUME CreationInv, Cleanup
  PROVE  CreationInv'
<1> USE DEF CreationInv, Jobs, Records, JobStates
<1>1. Await = "cleanup" /\ Await' \in {"put", "catch"} /\ todo' \in Plans
  BY NextAwait, ToTheCatch DEF Cleanup, Fails, At, Await, PlanInv
<1>2. /\ UNCHANGED <<calm, upstream, tracking, baseSha, fetched, branched, herdrVars, recordVars>>
      /\ tree' \in {tree, NoTree}
      /\ job' \in {job, [job EXCEPT !.state = "closed"]}
      /\ Await' = "put" => job' = [job EXCEPT !.state = "closed"]
  BY ToTheCatch DEF Cleanup, Fails
<1>3. /\ record.state # "absent" /\ record.state # "closed"
      /\ Await' = "put" => job'.state = "closed"
  BY <1>1, <1>2 DEF PlanInv, TypeOK
<1>4. TypeOK'
  <2>1. tree' \in [state : {"none", "clean", "dirty", "foreign"}, head : Commits]
    BY <1>2, BaseAssumption DEF BaseAssumption, TypeOK, GitTypes, NoTree, Commits
  <2>2. job' \in Jobs
    BY <1>2 DEF TypeOK
  <2> QED BY <1>1, <1>2, <2>1, <2>2, PlansAreLists DEF TypeOK, GitTypes, HerdrTypes,
             herdrVars, recordVars
<1>5. PlanInv'
  BY <1>1, <1>2, <1>3 DEF PlanInv, InGit, InSpace, Looking, ToRecord, recordVars
<1>6. TreeInv'
  BY <1>1, <1>2, <1>3 DEF TreeInv, InSpace, Looking, recordVars
<1>7. AgentInv'
  BY <1>1, <1>2, <1>3 DEF AgentInv, ToRecord, herdrVars, recordVars
<1>8. SpaceInv'
  BY <1>1, <1>2, <1>3 DEF SpaceInv, Looking, herdrVars, recordVars
<1>9. ClosedLeavesNoAgent'
  BY <1>2, <1>3 DEF ClosedLeavesNoAgent, recordVars
<1> QED BY <1>4, <1>5, <1>6, <1>7, <1>8, <1>9

\* The write of the record, where a creation or a closing becomes visible.
LEMMA PutKeeps ==
  ASSUME CreationInv, Put
  PROVE  CreationInv'
<1> USE DEF CreationInv, Jobs, Records, JobStates
<1>1. Await = "put" /\ Await' \in {"idle", "catch"} /\ todo' \in Plans
  BY NextAwait, ToTheCatch DEF Put, Fails, At, Await, PlanInv
<1>2. /\ UNCHANGED <<job, calm, gitVars, herdrVars>>
      /\ \/ record' = job /\ adopted' = Adopted
         \/ UNCHANGED recordVars
  BY NextAwait DEF Put, PlanInv
<1>3. job.state # "none" /\ record.state # "closed"
  BY <1>1 DEF PlanInv
<1>4. TypeOK'
  <2>1. record' \in Records
    BY <1>2, <1>3 DEF TypeOK, recordVars
  <2>2. adopted' \in BOOLEAN
    BY <1>2 DEF TypeOK, recordVars, Adopted
  <2> QED BY <1>1, <1>2, <2>1, <2>2, PlansAreLists DEF TypeOK, GitTypes, HerdrTypes, gitVars,
             herdrVars
<1>5. PlanInv'
  BY <1>1, <1>2, <1>3 DEF PlanInv, InGit, InSpace, Looking, ToRecord, recordVars
<1>6. TreeInv'
  BY <1>1, <1>2 DEF TreeInv, InSpace, Looking, gitVars
<1>7. AgentInv'
  BY <1>1, <1>2 DEF AgentInv, ToRecord, herdrVars
<1>8. CASE record' = job /\ adopted' = Adopted
  <2>1. SpaceInv'
    BY <1>1, <1>2, <1>3, <1>8 DEF SpaceInv, AgentInv, Looking, herdrVars, Adopted, PlanInv,
       ToRecord
  <2>2. ClosedLeavesNoAgent'
    BY <1>1, <1>2, <1>3, <1>8 DEF SpaceInv, ClosedLeavesNoAgent, herdrVars, Adopted, PlanInv,
       ToRecord
  <2> QED BY <1>4, <1>5, <1>6, <1>7, <2>1, <2>2
<1>9. CASE UNCHANGED recordVars
  <2>1. SpaceInv'
    BY <1>1, <1>2, <1>9 DEF SpaceInv, Looking, herdrVars, recordVars
  <2>2. ClosedLeavesNoAgent'
    BY <1>2, <1>9 DEF ClosedLeavesNoAgent, herdrVars, recordVars
  <2> QED BY <1>4, <1>5, <1>6, <1>7, <2>1, <2>2
<1> QED BY <1>2, <1>8, <1>9

\* The catch block changes no record but to unknown.
LEMMA CatchKeeps ==
  ASSUME CreationInv, Catch
  PROVE  CreationInv'
<1> USE DEF CreationInv, Jobs, Records, JobStates
<1>1. Await = "catch" /\ Await' = "idle" /\ todo' \in Plans
  BY NextAwait DEF Catch, At, Await, PlanInv
<1>2. /\ UNCHANGED <<job, calm, gitVars, herdrVars, adopted>>
      /\ record' \in {record, [record EXCEPT !.state = "unknown"]}
      /\ record.state = "absent" => record' = record
  BY <1>1 DEF Catch, PlanInv
<1>3. /\ record' \in Records
      /\ record'.space = record.space /\ (record'.state = "closed" => record.state = "closed")
      /\ record'.state = "absent" <=> record.state = "absent"
  BY <1>2 DEF TypeOK
<1>4. TypeOK'
  BY <1>1, <1>2, <1>3, PlansAreLists DEF TypeOK, GitTypes, HerdrTypes, gitVars, herdrVars
<1>5. PlanInv'
  BY <1>1, <1>2, <1>3 DEF PlanInv, InGit, InSpace, Looking, ToRecord
<1>6. TreeInv'
  BY <1>1, <1>2 DEF TreeInv, InSpace, Looking, gitVars
<1>7. AgentInv'
  BY <1>1, <1>2 DEF AgentInv, ToRecord, herdrVars
<1>8. SpaceInv'
  BY <1>1, <1>2, <1>3 DEF SpaceInv, Looking, herdrVars
<1>9. ClosedLeavesNoAgent'
  BY <1>2, <1>3 DEF ClosedLeavesNoAgent, herdrVars
<1> QED BY <1>4, <1>5, <1>6, <1>7, <1>8, <1>9

\* Steps that change nothing here.
LEMMA QuietKeeps ==
  ASSUME CreationInv, BecomeCalm \/ UNCHANGED vars
  PROVE  CreationInv'
<1>1. UNCHANGED <<todo, job, gitVars, herdrVars, recordVars>> /\ calm' \in BOOLEAN
  BY DEF BecomeCalm, vars, commandVars, CreationInv, TypeOK
<1>2. Await' = Await
  BY <1>1 DEF Await
<1> USE DEF CreationInv, Jobs, Records, JobStates, gitVars, herdrVars, recordVars
<1>3. TypeOK'
  BY <1>1 DEF TypeOK, GitTypes, HerdrTypes
<1>4. PlanInv' /\ TreeInv'
  BY <1>1, <1>2 DEF PlanInv, TreeInv, ToRecord
<1>5. AgentInv' /\ SpaceInv' /\ ClosedLeavesNoAgent'
  BY <1>1, <1>2 DEF AgentInv, SpaceInv, ToRecord, ClosedLeavesNoAgent
<1> QED BY <1>3, <1>4, <1>5

-----------------------------------------------------------------------------
(* The theorems *)

\* Nothing yet, or an old record of a job that runs.
LEMMA InitialCreation == Init => CreationInv
<1> SUFFICES ASSUME Init PROVE CreationInv
  OBVIOUS
<1> USE DEF Jobs, Records, JobStates
<1>1. /\ todo = <<>> /\ Await = "idle" /\ job = Blank /\ calm = FALSE /\ adopted = FALSE
      /\ upstream = 0 /\ tracking = 0 /\ baseSha = 0 /\ fetched = 0
      /\ branched \in BOOLEAN
      /\ tree \in {NoTree, [state |-> "clean", head |-> 0]}
      /\ probes = 0 /\ vanished = FALSE /\ typed = "nowhere"
  BY DEF Init, Await, GitInit, HerdrInit
<1>2. /\ spaces \subseteq Spaces
      /\ agent \in [space : Spaces \cup {NoSpace},
                    state : {"none", "launching", "starting", "live", "ended"}]
      /\ record.space = NoSpace /\ record.state \in {"absent", "ready"}
      /\ record \in Records
      /\ agent.state = "none" <=> agent.space = NoSpace
  BY HerdrAssumption DEF HerdrAssumption, Init, HerdrInit, Absent, NoAgent
<1>3. 0 \in Commits /\ 0 \in 0..Probes
  BY BaseAssumption, HerdrAssumption DEF BaseAssumption, HerdrAssumption, Commits
<1>4. TypeOK
  <2>1. todo \in Seq(Awaits) /\ adopted \in BOOLEAN /\ calm \in BOOLEAN
    BY <1>1, EmptySeq
  <2>2. job \in Jobs
    BY <1>1 DEF Blank
  <2>3. GitTypes
    BY <1>1, <1>3 DEF GitTypes, NoTree
  <2>4. HerdrTypes
    BY <1>1, <1>2, <1>3 DEF HerdrTypes
  <2> QED BY <1>2, <2>1, <2>2, <2>3, <2>4 DEF TypeOK
<1>5. PlanInv
  BY <1>1, <1>2 DEF PlanInv, Plans, InGit, InSpace, Looking, ToRecord
<1>6. TreeInv
  BY <1>1 DEF TreeInv, InSpace, Looking
<1>7. AgentInv /\ SpaceInv /\ ClosedLeavesNoAgent
  BY <1>1, <1>2 DEF AgentInv, SpaceInv, ClosedLeavesNoAgent, ToRecord, Looking
<1> QED BY <1>4, <1>5, <1>6, <1>7 DEF CreationInv

\* Every step keeps the invariant.
LEMMA CreationInductive == CreationInv /\ [Next]_vars => CreationInv'
<1> SUFFICES ASSUME CreationInv, [Next]_vars PROVE CreationInv'
  OBVIOUS
<1>1. CASE Command
  BY <1>1, CommandKeeps
<1>2. CASE Step
  BY <1>2, GitKeeps, HerdrKeeps, CleanupKeeps, PutKeeps, CatchKeeps DEF Step
<1>3. CASE BecomeCalm \/ UNCHANGED vars
  BY <1>3, QuietKeeps
<1>4. CASE GitOthers /\ UNCHANGED <<herdrVars, recordVars>>
  BY <1>4, GitOthersKeep
<1>5. CASE HerdrOthers /\ UNCHANGED <<gitVars, recordVars>>
  BY <1>5, HerdrOthersKeep
<1> QED BY <1>1, <1>2, <1>3, <1>4, <1>5 DEF Next

\* The invariant of the creation of a job and of its later commands.
THEOREM CreationInvariant == Spec => []CreationInv
BY InitialCreation, CreationInductive, PTL DEF Spec

\* Every variable keeps its type: the plan of a command is made of the adapters'
\* awaits, and startAgent never looks more often than it means to.
THEOREM CreationTypes == Spec => []TypeOK
<1>1. CreationInv => TypeOK
  BY DEF CreationInv
<1> QED BY <1>1, CreationInvariant, PTL

\* A job that is closed has no agent left, unless create took over the agent of
\* an earlier attempt, which runs in another workspace than the one recorded.
THEOREM ClosedIsClosed == Spec => []ClosedLeavesNoAgent
<1>1. CreationInv => ClosedLeavesNoAgent
  BY DEF CreationInv
<1> QED BY <1>1, CreationInvariant, PTL

\* Only the put at the end of create makes a record.
LEMMA RecordedByPut ==
  ASSUME CreationInv, [Next]_vars, Recorded
  PROVE  ToRecord /\ UNCHANGED <<gitVars, herdrVars>>
<1>1. Put
  <2>1. record' # record
    BY DEF Recorded
  <2> QED BY <2>1 DEF Recorded, Next, Command, CreateJob, PromptJob, JobStatus, HandoffJob,
             CloseJob, Start,
             Step, Cleanup, Catch, BecomeCalm, recordVars, vars
<1> QED BY <1>1 DEF Put, At, Await, ToRecord, Recorded

\* A job is recorded with a clean worktree on its own branch that is no older
\* than the base branch was when this attempt fetched it, whatever the earlier
\* attempts left and whoever else fetches.
THEOREM RecordedFresh == Spec => FreshTree
<1>1. CreationInv /\ [Next]_vars => [Recorded => tree.state = "clean" /\ tree.head >= fetched]_vars
  BY RecordedByPut DEF CreationInv, TypeOK, GitTypes, Commits, TreeInv, ToRecord
<1> QED BY <1>1, CreationInvariant, PTL DEF Spec, FreshTree

\* A job is recorded with an agent whose process was there when it was last
\* looked at.
THEOREM RecordedLive == Spec => AgentWasLive
<1>1. CreationInv /\ [Next]_vars => [Recorded => agent.state \in {"starting", "live"} \/ vanished]_vars
  BY RecordedByPut DEF CreationInv, AgentInv
<1> QED BY <1>1, CreationInvariant, PTL DEF Spec, AgentWasLive

\* The text of a prompt reaches a shell only if the agent ended after the second
\* look at it.
THEOREM NoTypingIntoShells == Spec => PromptsOnlyAgents
<1>1. ASSUME CreationInv, [Next]_vars, typed' = "shell", typed # "shell"
      PROVE  vanished
  <2>1. AgentPrompt
    BY <1>1 DEF Next, Command, CreateJob, PromptJob, JobStatus, HandoffJob, CloseJob, Start,
       Step, HerdrStep,
      WorkspaceCreate, Snapshot, AgentStart, Probe, AgentGet, ProcessInfo, Status, Resolve, WorkspaceClose,
      Cleanup, Put, Catch, BecomeCalm, HerdrOthers, AgentComesUp, AgentEnds, NameDropped, ClosedByHand,
      herdrVars, vars
  <2>2. Await = "type" /\ agent.state = "ended"
    BY <1>1, <2>1 DEF AgentPrompt, At, Await
  <2> QED BY <1>1, <2>2 DEF CreationInv, AgentInv
<1>2. CreationInv /\ [Next]_vars => [typed' = "shell" => typed = "shell" \/ vanished]_vars
  BY <1>1
<1> QED BY <1>2, CreationInvariant, PTL DEF Spec, PromptsOnlyAgents
=============================================================================
