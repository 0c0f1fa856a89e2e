---------------------- MODULE HostBrokerWorkspaceProofs ----------------------
(***************************************************************************)
(* LiveJobsHaveWorkspaces: a job that is ready or working has an agent, in *)
(* the open Herdr workspace and the worktree of its record unless it was   *)
(* adopted.  It is proved for any number of requests on one job, and for   *)
(* any number of jobs served one request at a time; with several of both a *)
(* put may bring back an old record of another job (finding_lost_record),  *)
(* and it does not hold.                                                   *)
(***************************************************************************)
EXTENDS HostBrokerProofs

\* Where no put can carry an old record of somebody else's job.
NoForeignWriters ==
    \/ \A i, j \in Jobs : i = j
    \/ \A r, s \in Requests : r = s

Live(record) == record.state \in {"ready", "working"}

\* The agent lives where the record says, or was adopted where it is.
Housed(j) ==
    \/ agent[j] = "inside" /\ session[j] = "open" /\ tree[j] = "present"
    \/ agent[j] = "outside"

\* What a request knows between two of its steps.  Only a request inside the
\* job's lock may hold a live record, and then the workspace stands; a put
\* outside the lock writes `unknown'.
RequestSound(r) ==
    /\ At(r, "write") =>
         \A j \in Jobs : table[r][j] = IF j = cmd[r].job THEN rec[r] ELSE file[j]
    /\ pc[r] \in {"load", "write"} /\ next[r] = "idle" => rec[r].state = "unknown"
    /\ Live(rec[r]) => Inside(r) /\ Housed(cmd[r].job)
    /\ pc[r] \in {"git_create", "herdr_create"} => ~Live(file[cmd[r].job])
    /\ At(r, "herdr_create") => tree[cmd[r].job] = "present"
    /\ pc[r] \in {"herdr_close", "git_cleanup"} => ~Live(file[cmd[r].job])
    /\ At(r, "git_cleanup") => session[cmd[r].job] = "closed"

JobSound(j) ==
    /\ agent[j] = "inside" => session[j] = "open"
    /\ session[j] = "open" => tree[j] = "present"
    /\ Live(file[j]) => Housed(j)

WorkspaceInv ==
    /\ IInv
    /\ NoForeignWriters
    /\ \A r \in Requests : RequestSound(r)
    /\ \A j \in Jobs : JobSound(j)

-----------------------------------------------------------------------------
(* One step of a request *)

\* The step is one of request r: the others keep their place and variables.
StepOf(r) == \A s \in Requests \ {r} :
    /\ pc'[s] = pc[s]
    /\ cmd'[s] = cmd[s]
    /\ rec'[s] = rec[s]
    /\ table'[s] = table[s]
    /\ next'[s] = next[s]

\* Every move is one of its own request.
LEMMA MovesAreOwn ==
  ASSUME RequestTypes, NEW r \in Requests
  PROVE  /\ \A l : Goto(r, l) => StepOf(r)
         /\ \A c : Answer(r, c) => StepOf(r)
         /\ \A c : Throw(r, c) => StepOf(r)
         /\ Finish(r) => StepOf(r)
         /\ \A x : \A l : \A c : Put(r, x, l, c) => StepOf(r)
         /\ \A l : Keep(r, l) => StepOf(r)
         /\ \A l : Reject(r, l) => StepOf(r)
         /\ Load(r) => StepOf(r)
         /\ PutThrows(r) => StepOf(r)
         /\ PutReturns(r) => StepOf(r)
  BY DEF StepOf, RequestTypes, Goto, Answer, Throw, Finish, Put, Keep, Reject, Load, PutThrows,
         PutReturns, Resume

\* Another request stays sound when the step respects the locks: what it may
\* change of the job the other one is inside of is nothing but a doubt.
LEMMA OthersStaySound ==
  ASSUME NEW r \in Requests, NEW s \in Requests, s # r, StepOf(r), RequestSound(s),
         cmd[s].job \in Jobs \/ pc[s] = "idle",
         Inside(s) => /\ session'[cmd[s].job] = session[cmd[s].job]
                      /\ agent'[cmd[s].job] = agent[cmd[s].job]
                      /\ tree'[cmd[s].job] = tree[cmd[s].job]
                      /\ Live(file'[cmd[s].job]) => Live(file[cmd[s].job]),
         At(s, "write") => \A j \in Jobs : j # cmd[s].job => file'[j] = file[j]
  PROVE  RequestSound(s)'
  BY DEF StepOf, RequestSound, Inside, At, Calls, Housed, Live

\* The moves of a request that leave the world and the file alone, or change
\* nothing of them that it relies on.
LEMMA MovesStaySound ==
  ASSUME WorkspaceInv, NEW r \in Requests, pc[r] # "idle", UNCHANGED <<session, agent, tree>>
  PROVE  /\ \A l \in {"dispatch", "repeated"} : Inside(r) \/ At(r, "lock") =>
              (Goto(r, l) => RequestSound(r)')
         /\ \A l \in {"unlock", "catch"} : At(r, "unlock") /\ Goto(r, l) => RequestSound(r)'
         /\ \A c : Answer(r, c) => RequestSound(r)'
         /\ \A c : Throw(r, c) => RequestSound(r)'
         /\ \A l \in {"unlock", "catch"} :
              pc[r] \in {"lock", "unlock"} /\ Reject(r, l) => RequestSound(r)'
         /\ Finish(r) => RequestSound(r)'
         /\ \A x \in JobRecord : \A l \in Afterwards : \A c :
              /\ (Live(x) => l # "idle" /\ Housed(cmd[r].job))
              /\ (l = "idle" => x.state = "unknown")
              /\ Put(r, x, l, c)
              => RequestSound(r)'
         /\ \A l \in Calls \cup {"project"} :
              /\ l \notin {"herdr_create", "git_cleanup"}
              /\ file' = file
              /\ (l \in {"git_create", "herdr_close"} => ~Live(Found(r)))
              /\ Keep(r, l)
              => RequestSound(r)'
         /\ At(r, "load") /\ file' = file /\ Load(r) => RequestSound(r)'
         /\ At(r, "write") /\ Resume(r) => RequestSound(r)'
         /\ PutThrows(r) => RequestSound(r)'
         /\ At(r, "write") /\ PutReturns(r) => RequestSound(r)'
<1> USE DEF WorkspaceInv, IInv, TypeOK
<1>0. cmd[r] \in [verb : AllVerbs, job : Jobs] /\ RequestSound(r)
  BY DEF CommandsPlaced
<1>1. ASSUME NEW l \in {"dispatch", "repeated"}, Inside(r) \/ At(r, "lock"), Goto(r, l)
      PROVE  RequestSound(r)'
  BY <1>0, <1>1 DEF Goto, RequestSound, Inside, At, Calls, Housed, RequestTypes
<1>2. ASSUME NEW l \in {"unlock", "catch"}, At(r, "unlock"), Goto(r, l) PROVE RequestSound(r)'
  BY <1>0, <1>2 DEF Goto, RequestSound, Inside, At, Calls, Housed, RequestTypes
<1>3. ASSUME NEW c, Answer(r, c) PROVE RequestSound(r)'
  BY <1>3 DEF Answer, RequestSound, At, RequestTypes, Live, NoRecord, Blank
<1>4. ASSUME NEW c, Throw(r, c) PROVE RequestSound(r)'
  BY <1>3, <1>4 DEF Throw
<1>5. ASSUME Finish(r) PROVE RequestSound(r)'
  BY <1>5 DEF Finish, RequestSound, At, RequestTypes, Live, NoRecord, Blank
<1>6. ASSUME NEW x \in JobRecord, NEW l \in Afterwards, NEW c,
             Live(x) => l # "idle" /\ Housed(cmd[r].job),
             l = "idle" => x.state = "unknown",
             Put(r, x, l, c)
      PROVE  RequestSound(r)'
  BY <1>0, <1>6 DEF Put, RequestSound, Inside, At, Housed, RequestTypes
<1>7. ASSUME NEW l \in Calls \cup {"project"}, l \notin {"herdr_create", "git_cleanup"},
             file' = file, l \in {"git_create", "herdr_close"} => ~Live(Found(r)), Keep(r, l)
      PROVE  RequestSound(r)'
  <2>1. JobSound(cmd[r].job)
    BY <1>0
  <2> QED
    BY <1>0, <1>7, <2>1
    DEF Keep, Found, JobSound, RequestSound, Inside, At, Calls, Housed, RequestTypes
<1>8. ASSUME At(r, "load"), file' = file, Load(r) PROVE RequestSound(r)'
  BY <1>0, <1>8
  DEF Load, RequestSound, Inside, At, Calls, Housed, RequestTypes, RegistryTypes
<1>9. ASSUME At(r, "write"), Resume(r) PROVE RequestSound(r)'
  BY <1>0, <1>9
  DEF Resume, RequestSound, Inside, At, Calls, Housed, RequestTypes, Afterwards
<1>10. ASSUME PutThrows(r) PROVE RequestSound(r)'
  BY <1>10, <1>4, <1>5 DEF PutThrows
<1>11. ASSUME At(r, "write"), PutReturns(r) PROVE RequestSound(r)'
  BY <1>11, <1>3, <1>5, <1>9 DEF PutReturns
<1>12. ASSUME NEW l \in {"unlock", "catch"}, pc[r] \in {"lock", "unlock"}, Reject(r, l)
      PROVE  RequestSound(r)'
  BY <1>0, <1>12 DEF Reject, RequestSound, Inside, At, Calls, RequestTypes
<1> QED BY <1>1, <1>2, <1>3, <1>4, <1>5, <1>6, <1>7, <1>8, <1>9, <1>10, <1>11, <1>12

\* A step that leaves the registry file and the world alone only has to keep
\* its own request sound.
LEMMA QuietStepKeeps ==
  ASSUME WorkspaceInv, [Next]_vars, NEW r \in Requests, StepOf(r), RequestSound(r)',
         UNCHANGED <<file, session, agent, tree>>
  PROVE  WorkspaceInv'
<1>1. IInv'
  BY Inductive DEF WorkspaceInv
<1>2. ASSUME NEW s \in Requests PROVE RequestSound(s)'
  BY <1>2, OthersStaySound DEF WorkspaceInv, IInv, CommandsPlaced
<1>3. ASSUME NEW j \in Jobs PROVE JobSound(j)'
  BY <1>3 DEF WorkspaceInv, JobSound, Housed
<1> QED BY <1>1, <1>2, <1>3 DEF WorkspaceInv, NoForeignWriters

-----------------------------------------------------------------------------
(* The actions *)

\* A step inside a job's lock is alone inside that job.
LEMMA AloneInside ==
  ASSUME IInv, NEW r \in Requests, NEW s \in Requests, s # r, Inside(r), Inside(s)
  PROVE  cmd[s].job # cmd[r].job
  BY DEF IInv, LocksHeld

\* A step inside the lock of its job that changes the job's workspace or its
\* worktree, and not the file, has to keep its request and its job sound.
LEMMA WorldStepKeeps ==
  ASSUME WorkspaceInv, [Next]_vars, NEW r \in Requests, Inside(r), StepOf(r), file' = file,
         cmd'[r] = cmd[r], RequestSound(r)', JobSound(cmd[r].job)',
         \A j \in Jobs : j # cmd[r].job =>
             session'[j] = session[j] /\ agent'[j] = agent[j] /\ tree'[j] = tree[j]
  PROVE  WorkspaceInv'
<1> USE DEF WorkspaceInv
<1>1. IInv'
  BY Inductive
<1>2. ASSUME NEW s \in Requests PROVE RequestSound(s)'
  <2>1. cmd[s].job \in Jobs \/ pc[s] = "idle"
    BY DEF IInv, CommandsPlaced
  <2>2. Inside(s) => pc[s] # "idle"
    BY DEF Inside, Calls
  <2> QED BY <2>1, <2>2, AloneInside, OthersStaySound
<1>3. ASSUME NEW j \in Jobs PROVE JobSound(j)'
  BY <1>3 DEF JobSound, Housed
<1> QED BY <1>1, <1>2, <1>3 DEF NoForeignWriters

\* create_job makes the worktree before the workspace.
LEMMA GitCreateKeeps ==
  ASSUME WorkspaceInv, [Next]_vars, NEW r \in Requests, GitCreate(r) PROVE WorkspaceInv'
<1> USE DEF WorkspaceInv, IInv, TypeOK, GitCreate, registryVars, At
<1>1. cmd[r].job \in Jobs /\ Inside(r) /\ RequestSound(r)
  BY DEF CommandsPlaced, Inside, Calls
<1>2. StepOf(r)
  BY MovesAreOwn
<1>3. cmd'[r] = cmd[r]
  BY DEF Goto, Throw, Answer
<1>4. JobSound(cmd[r].job)'
  <2>1. JobSound(cmd[r].job)
    BY <1>1
  <2> QED BY <1>1, <1>3, <2>1 DEF JobSound, Housed, WorldTypes
<1>5. RequestSound(r)'
  <2>1. CASE Goto(r, "herdr_create")
    BY <1>1, <2>1 DEF Goto, RequestSound, Inside, Calls, Housed, WorldTypes, RequestTypes
  <2>2. CASE Throw(r, "throws")
    BY <2>2 DEF Throw, Answer, RequestSound, RequestTypes, Live, NoRecord, Blank
  <2> QED BY <2>1, <2>2
<1> HIDE DEF WorkspaceInv
<1> QED BY <1>1, <1>2, <1>3, <1>4, <1>5, WorldStepKeeps DEF WorldTypes

\* The workspace is made in a worktree that stands, and then put as ready.
LEMMA HerdrCreateKeeps ==
  ASSUME WorkspaceInv, [Next]_vars, NEW r \in Requests, HerdrCreate(r) PROVE WorkspaceInv'
<1> USE DEF WorkspaceInv, IInv, TypeOK, HerdrCreate, registryVars, At
<1>1. cmd[r].job \in Jobs /\ Inside(r) /\ RequestSound(r)
  BY DEF CommandsPlaced, Inside, Calls
<1>2. StepOf(r)
  BY MovesAreOwn
<1>3. cmd'[r] = cmd[r] /\ tree' = tree /\ tree[cmd[r].job] = "present"
  BY <1>1 DEF Put, Throw, Answer, RequestSound
<1>4. PICK place \in Places(cmd[r].job) :
        /\ agent' = [agent EXCEPT ![cmd[r].job] = place]
        /\ (place # "none" /\ Put(r, Blank("ready"), "unlock", "ok")) \/ Throw(r, "throws")
  OBVIOUS
<1>5. JobSound(cmd[r].job)'
  <2>1. JobSound(cmd[r].job) /\ session'[cmd[r].job] = "open" /\ agent'[cmd[r].job] = place
    BY <1>1, <1>4 DEF WorldTypes
  <2>2. place = "outside" \/ place \in {"none", "inside"}
    BY DEF Places
  <2>3. Live(file[cmd[r].job]) => place \in {"inside", "outside"}
    BY <1>1 DEF RequestSound
  <2> QED BY <1>3, <2>1, <2>2, <2>3 DEF JobSound, Housed
<1>6. RequestSound(r)'
  <2>1. CASE place # "none" /\ Put(r, Blank("ready"), "unlock", "ok")
    <3>1. Housed(cmd[r].job)'
      BY <1>1, <1>3, <1>4, <2>1 DEF Housed, WorldTypes, Places
    <3> QED BY <1>1, <1>3, <2>1, <3>1 DEF Put, RequestSound, Inside, RequestTypes
  <2>2. CASE Throw(r, "throws")
    BY <2>2 DEF Throw, Answer, RequestSound, RequestTypes, Live, NoRecord, Blank
  <2> QED BY <1>4, <2>1, <2>2
<1> HIDE DEF WorkspaceInv
<1> QED BY <1>1, <1>2, <1>3, <1>5, <1>6, WorldStepKeeps DEF WorldTypes

\* close_job closes a workspace whose job is not live any more.
LEMMA HerdrCloseKeeps ==
  ASSUME WorkspaceInv, [Next]_vars, NEW r \in Requests, HerdrClose(r) PROVE WorkspaceInv'
<1> USE DEF WorkspaceInv, IInv, TypeOK, HerdrClose, registryVars, At
<1>1. cmd[r].job \in Jobs /\ Inside(r) /\ RequestSound(r) /\ JobSound(cmd[r].job)
  BY DEF CommandsPlaced, Inside, Calls
<1>2. StepOf(r)
  BY MovesAreOwn
<1>3. cmd'[r] = cmd[r] /\ file' = file /\ tree' = tree /\ ~Live(file[cmd[r].job])
  BY <1>1 DEF Goto, Throw, Answer, RequestSound
<1>4. session'[cmd[r].job] = "closed" /\ agent'[cmd[r].job] # "inside"
  BY <1>1 DEF WorldTypes
<1>5. JobSound(cmd[r].job)'
  BY <1>1, <1>3, <1>4 DEF JobSound, Housed
<1>6. RequestSound(r)'
  <2>1. CASE Goto(r, "git_cleanup")
    <3>1. rec'[r] = rec[r] /\ ~Live(rec[r])
      BY <2>1 DEF Goto, EvidenceInMemory, Live
    <3> QED BY <1>3, <1>4, <2>1, <3>1 DEF Goto, RequestSound, RequestTypes
  <2>2. CASE Throw(r, "throws")
    BY <2>2 DEF Throw, Answer, RequestSound, RequestTypes, Live, NoRecord, Blank
  <2> QED BY <2>1, <2>2
<1> HIDE DEF WorkspaceInv
<1> QED BY <1>1, <1>2, <1>3, <1>5, <1>6, WorldStepKeeps DEF WorldTypes

\* The worktree is removed when the workspace is closed.
LEMMA GitCleanupKeeps ==
  ASSUME WorkspaceInv, [Next]_vars, NEW r \in Requests, GitCleanup(r) PROVE WorkspaceInv'
<1> USE DEF WorkspaceInv, IInv, TypeOK, GitCleanup, registryVars, At
<1>1. cmd[r].job \in Jobs /\ Inside(r) /\ RequestSound(r) /\ JobSound(cmd[r].job)
  BY DEF CommandsPlaced, Inside, Calls
<1>2. StepOf(r)
  BY MovesAreOwn
<1>3. /\ cmd'[r] = cmd[r] /\ file' = file /\ session' = session /\ agent' = agent
      /\ ~Live(file[cmd[r].job]) /\ session[cmd[r].job] = "closed"
  BY <1>1 DEF Put, Throw, Answer, RequestSound
<1>4. JobSound(cmd[r].job)'
  BY <1>1, <1>3 DEF JobSound, Housed
<1>5. RequestSound(r)'
  <2>1. CASE Put(r, [rec[r] EXCEPT !.state = "closed"], "unlock", "ok")
    BY <2>1 DEF Put, RequestSound, RequestTypes, Live, JobRecord
  <2>2. CASE Throw(r, "throws")
    BY <2>2 DEF Throw, Answer, RequestSound, RequestTypes, Live, NoRecord, Blank
  <2> QED BY <2>1, <2>2
<1> HIDE DEF WorkspaceInv
<1> QED BY <1>1, <1>2, <1>3, <1>4, <1>5, WorldStepKeeps DEF WorldTypes

\* The rename of a put: the file becomes what it was, but for the record of
\* the command's job.
LEMMA PutReplacesKeeps ==
  ASSUME WorkspaceInv, [Next]_vars, NEW r \in Requests, PutReplaces(r) PROVE WorkspaceInv'
<1> USE DEF WorkspaceInv, PutReplaces, worldVars, At
<1>1. cmd[r].job \in Jobs /\ RequestSound(r)
  BY DEF IInv, CommandsPlaced
<1>2. \A j \in Jobs : file'[j] = IF j = cmd[r].job THEN rec[r] ELSE file[j]
  BY <1>1 DEF RequestSound
<1>3. StepOf(r)
  BY MovesAreOwn DEF IInv, TypeOK
<1>4. RequestSound(r)'
  <2> HIDE DEF WorkspaceInv
  <2>1. pc[r] # "idle" /\ UNCHANGED <<session, agent, tree>>
    OBVIOUS
  <2>2. PutReturns(r) \/ PutThrows(r)
    OBVIOUS
  <2> QED BY <2>1, <2>2, MovesStaySound
<1>5. ASSUME NEW s \in Requests, s # r PROVE RequestSound(s)'
  <2>1. cmd[s].job \in Jobs \/ pc[s] = "idle"
    BY DEF IInv, CommandsPlaced
  <2>2. Inside(s) /\ cmd[s].job = cmd[r].job => ~Live(rec[r])
    BY <1>1, <1>5, AloneInside DEF RequestSound
  <2>3. Inside(s) => pc[s] # "idle"
    BY DEF Inside, Calls
  <2>4. At(s, "write") => \A j \in Jobs : j # cmd[s].job => file'[j] = file[j]
    BY <1>1, <1>2, <1>5, <2>1 DEF NoForeignWriters
  <2>5. Inside(s) => (Live(file'[cmd[s].job]) => Live(file[cmd[s].job]))
    BY <1>2, <2>1, <2>2, <2>3
  <2> QED BY <1>3, <1>5, <2>1, <2>4, <2>5, OthersStaySound
<1>6. ASSUME NEW j \in Jobs PROVE JobSound(j)'
  BY <1>1, <1>2, <1>6 DEF JobSound, Housed, RequestSound
<1>7. IInv'
  BY Inductive
<1> QED BY <1>4, <1>5, <1>6, <1>7 DEF NoForeignWriters

\* Every other step leaves the world and the file alone.
LEMMA QuietStepsKeep ==
  ASSUME WorkspaceInv, [Next]_vars, NEW r \in Requests,
         \/ Issue(r) \/ LockJob(r) \/ LockFails(r) \/ JobBusy(r) \/ GetFails(r)
         \/ Dispatch(r) \/ LockProject(r)
         \/ ProjectBusy(r) \/ RepeatedGet(r) \/ HerdrPrompt(r) \/ HerdrStatus(r) \/ HerdrRead(r)
         \/ Checkpoint(r) \/ HandoffReturns(r) \/ CallFails(r) \/ PutLoad(r) \/ PutFails(r)
         \/ Unlock(r) \/ UnlockFails(r) \/ CatchCertain(r) \/ CatchUncertain(r) \/ Crash(r)
  PROVE  WorkspaceInv'
<1> SUFFICES StepOf(r) /\ RequestSound(r)' /\ UNCHANGED <<file, session, agent, tree>>
  BY QuietStepKeeps
<1>0. RequestSound(r) /\ RequestTypes /\ RegistryTypes
  BY DEF WorkspaceInv, IInv, TypeOK
<1>1. CASE Issue(r)
  <2>1. UNCHANGED <<file, session, agent, tree>>
    BY <1>1 DEF Issue, registryVars, worldVars
  <2>2. StepOf(r)
    BY <1>0, <1>1 DEF Issue, StepOf, RequestTypes
  <2>3. RequestSound(r)'
    BY <1>0, <1>1 DEF Issue, RequestSound, Inside, At, Calls, RequestTypes
  <2> QED BY <2>1, <2>2, <2>3
<1>2. CASE Dispatch(r)
  <2> USE DEF Reads, At, Found, Absent, registryVars, worldVars
  <2>1. UNCHANGED <<file, session, agent, tree>> /\ pc[r] = "dispatch"
    BY <1>2 DEF Dispatch, CreateJob, AbsentJob, PromptJob, JobStatus, ReadJob, HandoffJob,
                RecoverJob, CloseJob
  <2>2. \/ \E c : Answer(r, c)
        \/ Keep(r, "herdr_close") /\ ~Live(Found(r))
        \/ \E l \in {"project", "herdr_prompt", "herdr_status", "herdr_read", "validate"} :
              Keep(r, l)
    BY <1>2
    DEF Dispatch, CreateJob, AbsentJob, PromptJob, JobStatus, ReadJob, HandoffJob, RecoverJob,
        CloseJob, Live
  <2>3. RequestSound(r)'
    BY <2>1, <2>2, MovesStaySound DEF Calls
  <2> QED BY <1>0, <2>1, <2>2, <2>3, MovesAreOwn
<1>3. CASE LockJob(r) \/ LockFails(r) \/ LockProject(r) \/ Unlock(r) \/ UnlockFails(r)
  <2>1. /\ UNCHANGED <<file, session, agent, tree>>
        /\ pc[r] # "idle"
        /\ \/ Finish(r)
           \/ (Inside(r) \/ At(r, "lock")) /\ \E l \in {"dispatch", "repeated"} : Goto(r, l)
           \/ At(r, "unlock") /\ \E l \in {"unlock", "catch"} : Goto(r, l)
           \/ pc[r] \in {"lock", "unlock"} /\ \E l \in {"unlock", "catch"} : Reject(r, l)
           \/ \E c : Throw(r, c)
    BY <1>3
    DEF LockJob, LockFails, LockProject, Unlock, UnlockFails, worldVars, At, Inside, Calls
  <2>2. RequestSound(r)'
    BY <2>1, MovesStaySound
  <2> QED BY <1>0, <2>1, <2>2, MovesAreOwn
<1>4. CASE JobBusy(r) \/ GetFails(r) \/ ProjectBusy(r) \/ HerdrRead(r) \/ CallFails(r)
           \/ CatchCertain(r) \/ Crash(r)
  <2>1. /\ UNCHANGED <<file, session, agent, tree>>
        /\ pc[r] # "idle"
        /\ Finish(r) \/ \E c : Answer(r, c)
    BY <1>4
    DEF JobBusy, GetFails, ProjectBusy, HerdrRead, CallFails, CatchCertain, Crash, Throw,
        registryVars, worldVars, At, Calls
  <2>2. RequestSound(r)'
    BY <2>1, MovesStaySound
  <2> QED BY <1>0, <2>1, <2>2, MovesAreOwn
<1>5. CASE RepeatedGet(r)
  <2>1. UNCHANGED <<file, session, agent, tree>> /\ pc[r] # "idle"
    BY <1>5 DEF RepeatedGet, registryVars, worldVars, At
  <2>2. (Keep(r, "git_create") /\ ~Live(Found(r))) \/ Answer(r, "ok")
    BY <1>5 DEF RepeatedGet, Absent, Live
  <2>3. RequestSound(r)'
    BY <2>1, <2>2, MovesStaySound DEF Calls
  <2> QED BY <1>0, <2>1, <2>2, <2>3, MovesAreOwn
<1>6. CASE HerdrPrompt(r) \/ HerdrStatus(r)
  <2>1. /\ UNCHANGED <<file, session, agent, tree>>
        /\ pc[r] # "idle" /\ Inside(r)
        /\ agent[cmd[r].job] # "none"
    BY <1>6 DEF HerdrPrompt, HerdrStatus, Named, registryVars, worldVars, At, Inside, Calls
  <2>2. PICK s \in Observable, c \in {"ok", "unknown"} :
          Put(r, [rec[r] EXCEPT !.state = s], "unlock", c) \/ Throw(r, "throws")
    BY <1>6 DEF HerdrPrompt, HerdrStatus, Category, Observable
  <2>3. Housed(cmd[r].job)
    BY <2>1 DEF WorkspaceInv, JobSound, Housed, IInv, CommandsPlaced, TypeOK, WorldTypes
  <2>4. [rec[r] EXCEPT !.state = s] \in JobRecord
    BY <1>0, RecordTypes DEF RequestTypes, Observable, States
  <2>5. RequestSound(r)'
    BY <2>1, <2>2, <2>3, <2>4, MovesStaySound DEF Afterwards
  <2> QED BY <1>0, <2>1, <2>2, <2>5, MovesAreOwn
<1>7. CASE Checkpoint(r) \/ HandoffReturns(r)
  <2>1. /\ UNCHANGED <<file, session, agent, tree>>
        /\ pc[r] # "idle" /\ Inside(r)
    BY <1>7 DEF Checkpoint, HandoffReturns, registryVars, worldVars, At, Inside, Calls
  <2> DEFINE Puts(x, l, c) == Put(r, x, l, c) /\ (Live(x) => Live(rec[r]))
  <2>2. \E x \in JobRecord, l \in Afterwards \ {"idle"}, c \in {"none", "ok"} : Puts(x, l, c)
    <3>1. ASSUME Put(r, [rec[r] EXCEPT !.phase = TRUE], "local_sha", "none")
          PROVE  Puts([rec[r] EXCEPT !.phase = TRUE], "local_sha", "none")
      BY <1>0, <3>1 DEF RequestTypes, Live, JobRecord
    <3>2. ASSUME Put(r, [rec[r] EXCEPT !.sha = TRUE], "pr_validate", "none")
          PROVE  Puts([rec[r] EXCEPT !.sha = TRUE], "pr_validate", "none")
      BY <1>0, <3>2 DEF RequestTypes, Live, JobRecord
    <3>3. ASSUME Put(r, [rec[r] EXCEPT !.pr = TRUE], "returns", "none")
          PROVE  Puts([rec[r] EXCEPT !.pr = TRUE], "returns", "none")
      BY <1>0, <3>3 DEF RequestTypes, Live, JobRecord
    <3>4. ASSUME Put(r, HandedOff, "unlock", "ok") PROVE Puts(HandedOff, "unlock", "ok")
      BY <3>4 DEF Live, HandedOff
    <3>5. rec[r] \in JobRecord
      BY <1>0 DEF RequestTypes
    <3> HIDE DEF Puts
    <3> QED
      BY <1>7, <3>1, <3>2, <3>3, <3>4, <3>5, RecordTypes DEF Checkpoint, HandoffReturns, Afterwards
  <2>3. RequestSound(r)'
    BY <1>0, <2>1, <2>2, MovesStaySound DEF RequestSound
  <2> QED BY <1>0, <2>1, <2>2, <2>3, MovesAreOwn
<1>8. CASE PutLoad(r) \/ PutFails(r)
  <2>1. /\ UNCHANGED <<file, session, agent, tree>>
        /\ pc[r] # "idle"
        /\ (At(r, "load") /\ Load(r)) \/ PutThrows(r)
    BY <1>8 DEF PutLoad, PutFails, registryVars, worldVars, At
  <2>2. RequestSound(r)'
    BY <2>1, MovesStaySound
  <2> QED BY <1>0, <2>1, <2>2, MovesAreOwn
<1>9. CASE CatchUncertain(r)
  <2>1. UNCHANGED <<file, session, agent, tree>> /\ pc[r] # "idle"
    BY <1>9 DEF CatchUncertain, registryVars, worldVars, At
  <2> DEFINE unknown == [Found(r) EXCEPT !.state = "unknown"]
  <2>2. Put(r, unknown, "idle", "unknown") \/ Finish(r)
    BY <1>9 DEF CatchUncertain
  <2>3. unknown \in JobRecord /\ unknown.state = "unknown"
    <3>1. Found(r) \in JobRecord
      BY <1>0, <2>1 DEF Found, RegistryTypes, WorkspaceInv, IInv, CommandsPlaced
    <3> QED BY <3>1 DEF JobRecord, States
  <2> HIDE DEF unknown
  <2>4. RequestSound(r)'
    BY <2>1, <2>2, <2>3, MovesStaySound DEF Live, Afterwards
  <2> QED BY <1>0, <2>1, <2>2, <2>4, MovesAreOwn
<1> QED BY <1>1, <1>2, <1>3, <1>4, <1>5, <1>6, <1>7, <1>8, <1>9

\* Every step of the broker preserves the invariant.
LEMMA WorkspaceInductive == ASSUME WorkspaceInv, [Next]_vars PROVE WorkspaceInv'
<1>1. ASSUME NEW r \in Requests, Issue(r) \/ Step(r) \/ Crash(r) PROVE WorkspaceInv'
  BY <1>1, QuietStepsKeep, GitCreateKeeps, HerdrCreateKeeps, HerdrCloseKeeps, GitCleanupKeeps,
     PutReplacesKeeps
  DEF Step, Proceed
<1>2. ASSUME NEW key \in Keys, OperatorUnlock(key) PROVE WorkspaceInv'
  BY <1>2, Inductive
  DEF OperatorUnlock, requestVars, worldVars, WorkspaceInv, NoForeignWriters, RequestSound,
      JobSound, Housed, Inside, At
<1>3. ASSUME UNCHANGED vars PROVE WorkspaceInv'
  BY <1>3, Inductive
  DEF vars, registryVars, requestVars, worldVars, WorkspaceInv, NoForeignWriters, RequestSound,
      JobSound, Housed, Inside, At
<1> QED BY <1>1, <1>2, <1>3 DEF Next

\* A ready or working job (broker.ts:33-40) has an agent, in its open Herdr
\* workspace and its worktree unless the agent was adopted, whatever fails,
\* dies or is unlocked: with any number of requests on one job, and with any
\* number of jobs one request at a time.
THEOREM LiveJobsAreHoused ==
  ASSUME NoForeignWriters
  PROVE  Spec => []LiveJobsHaveWorkspaces
<1>1. Init => WorkspaceInv
  <2>1. Init => IInv
    BY InitialInvariant
  <2> QED
    BY <2>1
    DEF Init, WorkspaceInv, RequestSound, JobSound, Housed, Live, At, NoRecord, Blank, EmptyTable
<1>2. WorkspaceInv /\ [Next]_vars => WorkspaceInv'
  BY WorkspaceInductive
<1>3. WorkspaceInv => LiveJobsHaveWorkspaces
  BY DEF WorkspaceInv, JobSound, Housed, Live, LiveJobsHaveWorkspaces
<1> QED BY <1>1, <1>2, <1>3, PTL DEF Spec
=============================================================================
