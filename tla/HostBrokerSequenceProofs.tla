---------------------- MODULE HostBrokerSequenceProofs ----------------------
(***************************************************************************)
(* The broker served one request at a time: what the file says of a job    *)
(* between two requests, and what a client may conclude from an answer.    *)
(* Serial is the shared part, for every disk fault and crash; the theorems *)
(* add what they need of both:                                             *)
(*   - FollowsLifecycle nothing, but a closed job stays closed only when   *)
(*     no read and no lock fails and a put throws only before its rename;  *)
(*   - AnswersAreDurable and NoPromptRepeated, when nothing crashes, no    *)
(*     read fails and a put throws only after it has replaced the file.    *)
(* These are the hypotheses of the runs broker_lifecycle and               *)
(* broker_sequential; TLC refutes the properties under weaker ones.        *)
(***************************************************************************)
EXTENDS HostBrokerProofs

OneRequest == \A r, s \in Requests : r = s

HandoffCalls == {"validate", "local_sha", "pr_validate", "returns"}

\* Which command is where, with a record in which state.
Fits(label, verb, state) ==
    /\ label \in {"project", "repeated"} => verb = "create_job"
    /\ label \in {"git_create", "herdr_create"} => verb = "create_job" /\ state = "absent"
    /\ label = "herdr_prompt" => verb = "prompt_job" /\ state = "ready"
    /\ label = "herdr_status" => verb \in {"job_status", "recover_job"} /\ state \in Observable
    /\ label = "herdr_read" => verb = "read_job" /\ state \in Observable
    /\ label \in HandoffCalls =>
         verb \in {"handoff_job", "recover_job"} /\ state \in {"ready", "unknown"}
    /\ label \in {"herdr_close", "git_cleanup"} => verb = "close_job" /\ state = "handoff_ready"

\* A client that is given this answer finds the job in this state.
Stands(answer, verb, state) ==
    /\ answer = "unknown" => state \in {"absent", "unknown"}
    /\ answer = "ok" /\ verb = "create_job" => state # "absent"
    /\ answer = "ok" /\ verb = "prompt_job" => state \in {"ready", "working"}
    /\ answer = "ok" /\ verb = "handoff_job" => state = "handoff_ready"
    /\ answer = "ok" /\ verb = "close_job" => state = "closed"

\* A put of this record goes on to `label', and to this answer.
Leads(label, answer, verb, state) ==
    /\ state # "absent"
    /\ \/ label = "idle" /\ answer = "unknown" /\ state = "unknown"
       \/ label = "unlock" /\ answer \in {"ok", "unknown"} /\ Stands(answer, verb, state)
       \/ label \in HandoffCalls /\ answer = "none" /\ Fits(label, verb, state)

\* What a request knows while nobody else is served: its record is the one of
\* the file until it is changed, and its answer is what the file says.
Serial(r) ==
    LET verb == cmd[r].verb
        state == rec[r].state IN
    /\ verb \in Verbs \cup {"none"}
    /\ Fits(pc[r], verb, state)
    /\ pc[r] \in Calls => rec[r] = file[cmd[r].job]
    /\ pc[r] \in {"load", "write"} => Leads(next[r], reply[r], verb, state)
    /\ At(r, "write") => table[r] = [file EXCEPT ![cmd[r].job] = rec[r]]
    /\ At(r, "unlock") => Stands(reply[r], verb, file[cmd[r].job].state)
    /\ At(r, "catch") => Throwing(r)
    /\ pc[r] \notin {"load", "write", "unlock", "catch"} => reply[r] = "none"

SerialInv ==
    /\ IInv
    /\ OneRequest
    /\ \A r \in Requests : Serial(r)

-----------------------------------------------------------------------------
(* The moves of a request *)

\* Every move keeps what a request knows, when what it puts or answers fits.
LEMMA MovesStaySerial ==
  ASSUME SerialInv, NEW r \in Requests, pc[r] # "idle"
  PROVE  /\ \A l \in {"dispatch", "repeated", "herdr_create", "git_cleanup"} :
              /\ file' = file
              /\ (l \in Calls => pc[r] \in Calls)
              /\ reply[r] = "none"
              /\ Fits(l, cmd[r].verb, rec[r].state)
              /\ Goto(r, l)
              => Serial(r)'
         /\ At(r, "unlock") /\ file' = file /\ Goto(r, "unlock") => Serial(r)'
         /\ At(r, "unlock") /\ Throwing(r) /\ Goto(r, "catch") => Serial(r)'
         /\ \A c \in Replies :
              Stands(c, cmd[r].verb, file'[cmd[r].job].state) /\ Answer(r, c) => Serial(r)'
         /\ \A c \in {"throws", "throws_registry"} : Throw(r, c) => Serial(r)'
         /\ \A l \in {"unlock", "catch"} : Reject(r, l) => Serial(r)'
         /\ Finish(r) => Serial(r)'
         /\ \A x \in JobRecord : \A l \in Afterwards : \A c \in Replies :
              Leads(l, c, cmd[r].verb, x.state) /\ Put(r, x, l, c) => Serial(r)'
         /\ \A l \in Calls \cup {"project"} :
              /\ file' = file
              /\ reply[r] = "none"
              /\ Fits(l, cmd[r].verb, Found(r).state)
              /\ Keep(r, l)
              => Serial(r)'
         /\ At(r, "load") /\ file' = file /\ Load(r) => Serial(r)'
         /\ At(r, "write") /\ file' = table[r] /\ PutReturns(r) => Serial(r)'
         /\ PutThrows(r) => Serial(r)'
<1> USE DEF SerialInv, IInv, TypeOK
<1>0. cmd[r] \in [verb : AllVerbs, job : Jobs] /\ Serial(r)
  BY DEF CommandsPlaced
<1>1. ASSUME NEW l \in {"dispatch", "repeated", "herdr_create", "git_cleanup"}, file' = file,
             l \in Calls => pc[r] \in Calls, reply[r] = "none",
             Fits(l, cmd[r].verb, rec[r].state), Goto(r, l)
      PROVE  Serial(r)'
  BY <1>0, <1>1 DEF Goto, Serial, At, Calls, RequestTypes
<1>2. ASSUME At(r, "unlock"), file' = file, Goto(r, "unlock") PROVE Serial(r)'
  BY <1>0, <1>2 DEF Goto, Serial, At, Calls, RequestTypes
<1>3. ASSUME At(r, "unlock"), Throwing(r), Goto(r, "catch") PROVE Serial(r)'
  BY <1>0, <1>3 DEF Goto, Serial, At, Calls, RequestTypes, Throwing, Fits, HandoffCalls
<1>4. ASSUME NEW c \in Replies, Stands(c, cmd[r].verb, file'[cmd[r].job].state), Answer(r, c)
      PROVE  Serial(r)'
  BY <1>0, <1>4 DEF Answer, Serial, At, Calls, RequestTypes, Fits, HandoffCalls
<1>5. ASSUME NEW c \in {"throws", "throws_registry"}, Throw(r, c) PROVE Serial(r)'
  BY <1>4, <1>5 DEF Throw, Stands, Replies
<1>6. ASSUME Finish(r) PROVE Serial(r)'
  BY <1>6 DEF Finish, Serial, At, Calls, RequestTypes, Fits, HandoffCalls, NoCommand
<1>7. ASSUME NEW x \in JobRecord, NEW l \in Afterwards, NEW c \in Replies,
             Leads(l, c, cmd[r].verb, x.state), Put(r, x, l, c)
      PROVE  Serial(r)'
  BY <1>0, <1>7 DEF Put, Serial, At, Calls, RequestTypes, Fits, HandoffCalls
<1>8. ASSUME NEW l \in Calls \cup {"project"}, file' = file, reply[r] = "none",
             Fits(l, cmd[r].verb, Found(r).state), Keep(r, l)
      PROVE  Serial(r)'
  BY <1>0, <1>8 DEF Keep, Found, Serial, At, Calls, RequestTypes
<1>9. ASSUME At(r, "load"), file' = file, Load(r) PROVE Serial(r)'
  BY <1>0, <1>9 DEF Load, Serial, At, Calls, RequestTypes, Fits, HandoffCalls
<1>10. ASSUME PutThrows(r) PROVE Serial(r)'
  BY <1>5, <1>6, <1>10 DEF PutThrows
<1>11. ASSUME At(r, "write"), file' = table[r], PutReturns(r) PROVE Serial(r)'
  <2>1. file'[cmd[r].job] = rec[r] /\ Leads(next[r], reply[r], cmd[r].verb, rec[r].state)
    BY <1>0, <1>11 DEF Serial, At, RegistryTypes
  <2>2. CASE next[r] = "unlock" /\ Answer(r, reply[r])
    BY <1>4, <2>1, <2>2 DEF Leads, RequestTypes, HandoffCalls
  <2>3. CASE Resume(r)
    <3>1. reply[r] = "none" /\ Fits(next[r], cmd[r].verb, rec[r].state) /\ next[r] \in Calls
      BY <2>1, <2>3 DEF Resume, Leads, Calls, HandoffCalls
    <3> QED BY <1>0, <2>1, <2>3, <3>1 DEF Resume, Serial, At, Calls, RequestTypes
  <2> QED BY <1>6, <1>11, <2>2, <2>3 DEF PutReturns
<1>12. ASSUME NEW l \in {"unlock", "catch"}, Reject(r, l) PROVE Serial(r)'
  BY <1>0, <1>12
  DEF Reject, Serial, At, Calls, RequestTypes, Fits, HandoffCalls, Stands, Throwing
<1> QED BY <1>1, <1>2, <1>3, <1>4, <1>5, <1>6, <1>7, <1>8, <1>9, <1>10, <1>11, <1>12

-----------------------------------------------------------------------------
(* The steps of a request *)

\* No read of the registry fails, no lock does, and no put throws once it has
\* replaced the file: only then does the catch of execute never meet a closed
\* job.
PutsAreAtomic == DiskFaults \subseteq {"before"}

\* What the file may say of a job after a record: JobLifecycle, as a relation.
Lawful(old, new) ==
    \/ old.state = "absent" /\ new = Blank("ready")
    \/ old.state \in Observable /\ \E s \in Observable : new = [old EXCEPT !.state = s]
    \/ /\ old.state \in {"ready", "unknown"}
       /\ new.state = old.state
       /\ EvidenceGrows(old, new)
    \/ old.state \in {"ready", "unknown"} /\ new = HandedOff
    \/ /\ old.state = "handoff_ready"
       /\ HasEvidence(old)
       /\ new = [old EXCEPT !.state = "closed"]
    \/ /\ old.state # "absent"
       /\ old.state = "closed" => ~PutsAreAtomic
       /\ new = [old EXCEPT !.state = "unknown"]

\* The steps before the put and the way out, told apart by what they do to
\* the request and, but for a prompt and a status, to no doubt.
Moves(r) ==
    /\ UNCHANGED <<file, doubt>>
    /\ pc[r] \in {"lock", "project"} \cup Calls
    /\ \E l \in {"dispatch", "repeated", "herdr_create", "git_cleanup"} :
         /\ l \in Calls => pc[r] \in Calls
         /\ Fits(l, cmd[r].verb, rec[r].state)
         /\ Goto(r, l)

Keeps(r) ==
    /\ UNCHANGED <<file, doubt>>
    /\ pc[r] \in {"dispatch", "repeated"}
    /\ \E l \in Calls \cup {"project"} :
         Fits(l, cmd[r].verb, Found(r).state) /\ Keep(r, l)

Decides(r) ==
    /\ UNCHANGED <<file, doubt>>
    /\ pc[r] \in {"dispatch", "project", "repeated", "herdr_read"}
    /\ \E c \in {"ok", "refused", "busy"} :
         Stands(c, cmd[r].verb, Found(r).state) /\ Answer(r, c)

Fails(r) ==
    /\ file' = file
    /\ doubt' = doubt \/ HerdrPrompt(r)
    /\ \/ pc[r] \in Calls /\ Throw(r, "throws")
       \/ pc[r] \in {"dispatch", "repeated"} /\ "read" \in DiskFaults /\ Throw(r, "throws_registry")
       \/ pc[r] \in {"lock", "project"} /\ "lock" \in DiskFaults /\ Throw(r, "throws_registry")

Rejects(r) ==
    /\ UNCHANGED <<file, doubt>>
    /\ pc[r] \in {"lock", "unlock"}
    /\ "lock" \in DiskFaults
    /\ \E l \in {"unlock", "catch"} : Reject(r, l)

Saves(r) ==
    /\ file' = file
    /\ pc[r] \in Calls
    /\ \E x \in JobRecord, l \in Afterwards \ {"idle"}, c \in Replies :
         /\ Lawful(rec[r], x)
         /\ Leads(l, c, cmd[r].verb, x.state)
         /\ Put(r, x, l, c)
         /\ \/ HerdrPrompt(r) \/ HerdrStatus(r)
            \/ /\ doubt' = doubt
               /\ rec[r].state = "absent" \/ x.state \in {rec[r].state, "handoff_ready", "closed"}

Ends(r) ==
    /\ UNCHANGED <<file, doubt>>
    /\ pc[r] = "lock" \/ Crashes
    /\ Finish(r)

\* What dispatch does with the record it has read.
LEMMA DispatchForms ==
  ASSUME SerialInv, NEW r \in Requests, Dispatch(r)
  PROVE  Keeps(r) \/ Decides(r)
<1> USE DEF Reads, At, Absent, registryVars
<1>1. file' = file /\ doubt' = doubt /\ pc[r] = "dispatch"
  BY DEF Dispatch, CreateJob, AbsentJob, PromptJob, JobStatus, ReadJob, HandoffJob, RecoverJob,
         CloseJob
<1>2. ASSUME NEW c \in {"ok", "refused", "busy"}, Stands(c, cmd[r].verb, Found(r).state), Answer(r, c)
      PROVE  Decides(r)
  BY <1>1, <1>2 DEF Decides
<1>3. ASSUME NEW l \in Calls \cup {"project"}, Fits(l, cmd[r].verb, Found(r).state), Keep(r, l)
      PROVE  Keeps(r)
  BY <1>1, <1>3 DEF Keeps
<1>4. ASSUME CreateJob(r) \/ AbsentJob(r) PROVE Keeps(r) \/ Decides(r)
  BY <1>2, <1>3, <1>4 DEF CreateJob, AbsentJob, Stands, Fits, HandoffCalls
<1>5. ASSUME PromptJob(r) \/ JobStatus(r) \/ ReadJob(r) PROVE Keeps(r) \/ Decides(r)
  BY <1>2, <1>3, <1>5 DEF PromptJob, JobStatus, ReadJob, Stands, Fits, HandoffCalls, Calls
<1>6. ASSUME HandoffJob(r) PROVE Keeps(r) \/ Decides(r)
  BY <1>2, <1>3, <1>6 DEF HandoffJob, Stands, Fits, HandoffCalls, Calls
<1>7. ASSUME RecoverJob(r) PROVE Keeps(r) \/ Decides(r)
  BY <1>2, <1>3, <1>7 DEF RecoverJob, Stands, Fits, HandoffCalls, Calls, Observable
<1>8. ASSUME CloseJob(r) PROVE Keeps(r) \/ Decides(r)
  BY <1>2, <1>3, <1>8 DEF CloseJob, Stands, Fits, HandoffCalls, Calls
<1> QED BY <1>4, <1>5, <1>6, <1>7, <1>8 DEF Dispatch

\* A call of an adapter ends in a lawful put, or throws.
LEMMA SaveForms ==
  ASSUME SerialInv, NEW r \in Requests,
         \/ HerdrCreate(r) \/ HerdrPrompt(r) \/ HerdrStatus(r)
         \/ Checkpoint(r) \/ HandoffReturns(r) \/ GitCleanup(r)
  PROVE  Saves(r) \/ Fails(r)
<1> DEFINE old == rec[r]
           verb == cmd[r].verb
           Doubted(x) == \/ HerdrPrompt(r) \/ HerdrStatus(r)
                         \/ /\ doubt' = doubt
                            /\ \/ old.state = "absent"
                               \/ x.state \in {old.state, "handoff_ready", "closed"}
<1>1. /\ Serial(r) /\ old \in JobRecord /\ Fits(pc[r], verb, old.state)
      /\ (pc[r] = "git_cleanup" => HasEvidence(old))
  BY DEF SerialInv, Serial, IInv, TypeOK, RequestTypes, EvidenceInMemory, Complete
<1>2. file' = file /\ pc[r] \in Calls
  BY DEF HerdrCreate, HerdrPrompt, HerdrStatus, Checkpoint, HandoffReturns, GitCleanup,
         registryVars, At, Calls
<1>3. ASSUME NEW x \in JobRecord, NEW l \in Afterwards \ {"idle"}, NEW c \in Replies,
             Lawful(old, x), Leads(l, c, verb, x.state), Put(r, x, l, c), Doubted(x)
      PROVE  Saves(r)
  BY <1>2, <1>3 DEF Saves
<1>4. Throw(r, "throws") /\ (doubt' = doubt \/ HerdrPrompt(r)) => Fails(r)
  BY <1>2 DEF Fails
<1>5. CASE HerdrCreate(r)
  <2>1. /\ Lawful(old, Blank("ready"))
        /\ Leads("unlock", "ok", verb, Blank("ready").state)
        /\ Doubted(Blank("ready"))
    BY <1>1, <1>5 DEF HerdrCreate, At, Fits, Lawful, Leads, Stands, Blank
  <2> QED BY <1>3, <1>4, <1>5, <2>1, RecordTypes DEF HerdrCreate, Afterwards, Replies
<1>6. CASE HerdrPrompt(r) \/ HerdrStatus(r)
  <2>1. ASSUME NEW s \in Observable, Put(r, [old EXCEPT !.state = s], "unlock", Category(s))
        PROVE  Saves(r)
    <3>1. [old EXCEPT !.state = s] \in JobRecord /\ [old EXCEPT !.state = s].state = s
      BY <1>1 DEF JobRecord, Observable, States
    <3>2. Lawful(old, [old EXCEPT !.state = s])
      BY <1>1, <1>6 DEF HerdrPrompt, HerdrStatus, At, Fits, Lawful, Observable
    <3>3. Leads("unlock", Category(s), verb, s)
      BY <1>1, <1>6 DEF HerdrPrompt, HerdrStatus, At, Fits, Leads, Stands, Category, Observable
    <3>4. Category(s) \in Replies /\ "unlock" \in Afterwards
      BY DEF Category, Replies, Afterwards
    <3>5. Doubted([old EXCEPT !.state = s])
      BY <1>6
    <3> HIDE DEF old, verb, Doubted
    <3> QED BY <1>3, <2>1, <3>1, <3>2, <3>3, <3>4, <3>5
  <2> QED BY <1>4, <1>6, <2>1 DEF HerdrPrompt, HerdrStatus
<1>7. CASE Checkpoint(r)
  <2>1. ASSUME NEW x \in JobRecord, x.state = old.state, EvidenceGrows(old, x),
               doubt' = doubt, NEW l \in HandoffCalls, Put(r, x, l, "none"), pc[r] \in HandoffCalls
        PROVE  Saves(r)
    <3>1. Lawful(old, x) /\ Leads(l, "none", verb, x.state)
      BY <1>1, <2>1 DEF Fits, Lawful, Leads, HandoffCalls
    <3>2. "none" \in Replies
      BY DEF Replies
    <3>3. ASSUME l = "validate" PROVE FALSE
      BY <1>7, <2>1, <3>3 DEF Checkpoint, Put, SerialInv, IInv, TypeOK, RequestTypes
    <3>4. l \in Afterwards \ {"idle"}
      BY <3>3 DEF Afterwards, HandoffCalls
    <3> QED BY <1>3, <2>1, <3>1, <3>2, <3>4
  <2>2. /\ [old EXCEPT !.phase = TRUE] \in JobRecord
        /\ [old EXCEPT !.phase = TRUE].state = old.state
        /\ EvidenceGrows(old, [old EXCEPT !.phase = TRUE])
    BY <1>1 DEF JobRecord, EvidenceGrows
  <2>3. /\ [old EXCEPT !.sha = TRUE] \in JobRecord
        /\ [old EXCEPT !.sha = TRUE].state = old.state
        /\ EvidenceGrows(old, [old EXCEPT !.sha = TRUE])
    BY <1>1 DEF JobRecord, EvidenceGrows
  <2>4. /\ [old EXCEPT !.pr = TRUE] \in JobRecord
        /\ [old EXCEPT !.pr = TRUE].state = old.state
        /\ EvidenceGrows(old, [old EXCEPT !.pr = TRUE])
    BY <1>1 DEF JobRecord, EvidenceGrows
  <2> QED BY <1>7, <2>1, <2>2, <2>3, <2>4 DEF Checkpoint, At, HandoffCalls
<1>8. CASE HandoffReturns(r)
  <2>1. Lawful(old, HandedOff) /\ Leads("unlock", "ok", verb, HandedOff.state)
    BY <1>1, <1>8 DEF HandoffReturns, At, Fits, Lawful, Leads, Stands, HandedOff, HandoffCalls
  <2>2. Doubted(HandedOff)
    BY <1>8 DEF HandoffReturns, HandedOff
  <2> QED BY <1>3, <1>8, <2>1, <2>2, RecordTypes DEF HandoffReturns, Afterwards, Replies
<1>9. CASE GitCleanup(r)
  <2>1. [old EXCEPT !.state = "closed"] \in JobRecord /\ [old EXCEPT !.state = "closed"].state = "closed"
    BY <1>1 DEF JobRecord, States
  <2>2. Lawful(old, [old EXCEPT !.state = "closed"]) /\ Leads("unlock", "ok", verb, "closed")
    BY <1>1, <1>9 DEF GitCleanup, At, Fits, Lawful, Leads, Stands
  <2> QED BY <1>3, <1>4, <1>9, <2>1, <2>2 DEF GitCleanup, Afterwards, Replies
<1> QED BY <1>5, <1>6, <1>7, <1>8, <1>9

\* Every step of a request is one of these.
LEMMA Forms ==
  ASSUME SerialInv, NEW r \in Requests, Issue(r) \/ Step(r) \/ Crash(r)
  PROVE  \/ Issue(r) \/ Moves(r) \/ Keeps(r) \/ Decides(r) \/ Fails(r) \/ Rejects(r)
         \/ Saves(r) \/ Ends(r)
         \/ PutLoad(r) \/ PutReplaces(r) \/ PutFails(r)
         \/ Unlock(r) \/ CatchCertain(r) \/ CatchUncertain(r)
<1> USE DEF registryVars, At
<1>1. Serial(r)
  BY DEF SerialInv
<1>2. ASSUME LockJob(r) \/ LockProject(r) PROVE Moves(r)
  BY <1>1, <1>2 DEF LockJob, LockProject, Moves, Serial, Fits, HandoffCalls, Calls
<1>3. ASSUME JobBusy(r) \/ Crash(r) PROVE Ends(r)
  BY <1>3 DEF JobBusy, Crash, Ends
<1>4. ASSUME GetFails(r) \/ CallFails(r) PROVE Fails(r)
  BY <1>4 DEF GetFails, CallFails, Fails
<1>5. ASSUME ProjectBusy(r) PROVE Decides(r)
  BY <1>5 DEF ProjectBusy, Decides, Stands
<1>6. ASSUME HerdrRead(r) PROVE Decides(r)
  BY <1>1, <1>6 DEF HerdrRead, Decides, Serial, Fits, Stands
<1>7. ASSUME RepeatedGet(r) PROVE Keeps(r) \/ Decides(r)
  BY <1>1, <1>7
  DEF RepeatedGet, Absent, Keeps, Decides, Serial, Fits, Stands, HandoffCalls, Calls
<1>8. ASSUME GitCreate(r) PROVE Moves(r) \/ Fails(r)
  BY <1>1, <1>8 DEF GitCreate, Moves, Fails, Serial, Fits, HandoffCalls, Calls
<1>9. ASSUME HerdrClose(r) PROVE Moves(r) \/ Fails(r)
  BY <1>1, <1>9 DEF HerdrClose, Moves, Fails, Serial, Fits, HandoffCalls, Calls
<1>10. ASSUME LockFails(r) \/ UnlockFails(r) PROVE Fails(r) \/ Rejects(r)
  BY <1>10 DEF LockFails, UnlockFails, Fails, Rejects
<1> QED BY <1>2, <1>3, <1>4, <1>5, <1>6, <1>7, <1>8, <1>9, <1>10, DispatchForms, SaveForms
    DEF Step, Proceed

\* Every step of a request keeps what it knows.
LEMMA SerialSteps ==
  ASSUME SerialInv, NEW r \in Requests, Issue(r) \/ Step(r) \/ Crash(r)
  PROVE  Serial(r)'
<1>0. Serial(r) /\ RequestTypes
  BY DEF SerialInv, IInv, TypeOK
<1>1. CASE Issue(r)
  <2>1. PICK v \in Verbs, j \in Jobs : cmd' = [cmd EXCEPT ![r] = [verb |-> v, job |-> j]]
    BY <1>1 DEF Issue
  <2> QED
    BY <1>0, <1>1, <2>1
    DEF Issue, registryVars, At, Serial, Fits, HandoffCalls, Calls, RequestTypes
<1>2. CASE Moves(r)
  BY <1>0, <1>2, MovesStaySerial DEF Moves, Serial, Calls
<1>3. CASE Keeps(r)
  BY <1>0, <1>3, MovesStaySerial DEF Keeps, Serial
<1>4. CASE Decides(r)
  BY <1>4, MovesStaySerial DEF Decides, Found, Replies
<1>5. CASE Fails(r)
  BY <1>5, MovesStaySerial DEF Fails, Calls
<1>6. CASE Saves(r)
  <2>1. pc[r] # "idle"
    BY <1>6 DEF Saves, Calls
  <2> QED BY <1>6, <2>1, MovesStaySerial DEF Saves
<1>7. CASE Ends(r) \/ CatchCertain(r)
  BY <1>0, <1>7 DEF Ends, CatchCertain, Finish, Serial, At, Calls, RequestTypes, Fits,
                     HandoffCalls, NoCommand
<1>8. CASE PutLoad(r) \/ PutFails(r)
  BY <1>8, MovesStaySerial DEF PutLoad, PutFails, At, registryVars
<1>9. CASE PutReplaces(r)
  BY <1>9, MovesStaySerial DEF PutReplaces, At
<1>10. CASE Unlock(r)
  BY <1>10, MovesStaySerial DEF Unlock, At
<1>11. CASE CatchUncertain(r)
  <2> DEFINE unknown == [Found(r) EXCEPT !.state = "unknown"]
  <2>1. Put(r, unknown, "idle", "unknown") \/ Finish(r)
    BY <1>11 DEF CatchUncertain
  <2>2. unknown \in JobRecord /\ unknown.state = "unknown"
    <3>1. Found(r) \in JobRecord
      BY <1>11 DEF CatchUncertain, At, Found, RegistryTypes, SerialInv, IInv, TypeOK, CommandsPlaced
    <3> QED BY <3>1 DEF JobRecord, States
  <2>3. Leads("idle", "unknown", cmd[r].verb, "unknown")
    BY DEF Leads
  <2>4. pc[r] # "idle"
    BY <1>11 DEF CatchUncertain, At
  <2> HIDE DEF unknown
  <2> QED BY <2>1, <2>2, <2>3, <2>4, MovesStaySerial DEF Afterwards, Replies
<1>12. CASE Rejects(r)
  BY <1>12, MovesStaySerial DEF Rejects
<1> QED BY <1>1, <1>2, <1>3, <1>4, <1>5, <1>6, <1>7, <1>8, <1>9, <1>10, <1>11, <1>12, Forms

\* Nobody else is served, so every step is the request's own.
LEMMA SerialInductive == ASSUME SerialInv, [Next]_vars PROVE SerialInv'
<1>1. IInv' /\ OneRequest'
  BY Inductive DEF SerialInv, OneRequest
<1>2. ASSUME NEW s \in Requests PROVE Serial(s)'
  <2>1. ASSUME NEW r \in Requests, Issue(r) \/ Step(r) \/ Crash(r) PROVE Serial(s)'
    BY <2>1, SerialSteps DEF SerialInv, OneRequest
  <2>2. ASSUME NEW key \in Keys, OperatorUnlock(key) PROVE Serial(s)'
    BY <2>2 DEF OperatorUnlock, requestVars, SerialInv, Serial, At, Throwing
  <2>3. ASSUME UNCHANGED vars PROVE Serial(s)'
    BY <2>3 DEF vars, registryVars, requestVars, SerialInv, Serial, At, Throwing
  <2> QED BY <2>1, <2>2, <2>3 DEF Next
<1> QED BY <1>1, <1>2 DEF SerialInv

\* An idle request knows nothing.
LEMMA SerialInitially == ASSUME OneRequest PROVE Init => SerialInv
  BY InitialInvariant
  DEF Init, SerialInv, Serial, Fits, HandoffCalls, Calls, At, NoCommand

\* What a request knows while nobody else is served holds always, whatever
\* throws and whenever the process dies (broker.ts:15-45).
THEOREM Seriality == ASSUME OneRequest PROVE Spec => []SerialInv
<1>1. Init => SerialInv
  BY SerialInitially
<1>2. SerialInv /\ [Next]_vars => SerialInv'
  BY SerialInductive
<1> QED BY <1>1, <1>2, PTL DEF Spec

-----------------------------------------------------------------------------
(* The registry file goes through the lifecycle *)

\* A put under way is lawful; and a request that will throw has not closed its
\* job, or something failed after it did.
Orderly(r) ==
    LET old == file[cmd[r].job] IN
    /\ pc[r] \in {"load", "write"} => Lawful(old, rec[r])
    /\ pc[r] \in {"load", "write"} /\ next[r] # "idle" => old.state # "closed"
    /\ pc[r] \in {"unlock", "catch"} /\ Throwing(r) /\ PutsAreAtomic => old.state # "closed"

OrderInv == SerialInv /\ \A r \in Requests : Orderly(r)

\* Every step of a request keeps its put lawful.
LEMMA OrderlySteps ==
  ASSUME OrderInv, NEW r \in Requests, Issue(r) \/ Step(r) \/ Crash(r)
  PROVE  Orderly(r)'
<1> USE DEF OrderInv
<1>0. Serial(r) /\ Orderly(r) /\ RequestTypes
  BY DEF SerialInv, IInv, TypeOK
<1>1. ASSUME Finish(r) PROVE Orderly(r)'
  BY <1>0, <1>1 DEF Finish, Orderly, RequestTypes
<1>2. ASSUME NEW c, PutsAreAtomic => file'[cmd[r].job].state # "closed", Answer(r, c)
      PROVE  Orderly(r)'
  BY <1>0, <1>2 DEF Answer, Orderly, RequestTypes
<1>3. ASSUME NEW c, c \notin {"throws", "throws_registry"}, Answer(r, c) PROVE Orderly(r)'
  BY <1>0, <1>3 DEF Answer, Orderly, RequestTypes, Throwing
<1>4. ASSUME NEW l, l \notin {"load", "write", "unlock", "catch"}, Goto(r, l) \/ Keep(r, l)
      PROVE  Orderly(r)'
  BY <1>0, <1>4 DEF Goto, Keep, Orderly, RequestTypes
<1>5. pc[r] \in Calls => file[cmd[r].job].state \notin {"closed"}
  BY <1>0 DEF Serial, Fits, HandoffCalls, Calls, Observable
<1>6. CASE Issue(r)
  BY <1>0, <1>6 DEF Issue, Orderly, RequestTypes
<1>7. CASE Moves(r) \/ Keeps(r)
  BY <1>4, <1>7 DEF Moves, Keeps, Calls
<1>8. CASE Decides(r)
  BY <1>3, <1>8 DEF Decides
<1>9. CASE Fails(r)
  BY <1>2, <1>5, <1>9 DEF Fails, Throw, PutsAreAtomic
<1>10. CASE Saves(r)
  <2>1. PICK x \in JobRecord, l \in Afterwards \ {"idle"}, c \in Replies :
          Lawful(rec[r], x) /\ Put(r, x, l, c)
    BY <1>10 DEF Saves
  <2>2. file' = file /\ rec[r] = file[cmd[r].job] /\ file[cmd[r].job].state # "closed"
    BY <1>0, <1>5, <1>10 DEF Saves, Serial
  <2> QED BY <1>0, <2>1, <2>2 DEF Put, Orderly, RequestTypes
<1>11. CASE Ends(r) \/ CatchCertain(r)
  BY <1>1, <1>11 DEF Ends, CatchCertain
<1>12. CASE PutLoad(r)
  <2>1. file' = file /\ pc[r] = "load"
    BY <1>12 DEF PutLoad, registryVars, At
  <2>2. CASE Load(r)
    BY <1>0, <2>1, <2>2 DEF Load, Orderly, RequestTypes
  <2>3. CASE PutThrows(r)
    BY <1>0, <1>1, <1>2, <2>1, <2>3 DEF PutThrows, Throw, Orderly
  <2> QED BY <1>12, <2>2, <2>3 DEF PutLoad
<1>13. CASE PutReplaces(r)
  <2>1. PutReturns(r) \/ (PutThrows(r) /\ ~PutsAreAtomic)
    BY <1>13 DEF PutReplaces, PutsAreAtomic
  <2>2. CASE Resume(r)
    BY <1>0, <2>2 DEF Resume, Orderly, RequestTypes, Afterwards
  <2>3. CASE next[r] = "unlock" /\ Answer(r, reply[r])
    <3>1. reply[r] \notin {"throws", "throws_registry"}
      BY <1>0, <1>13, <2>3 DEF PutReplaces, At, Serial, Leads, HandoffCalls
    <3> QED BY <1>3, <2>3, <3>1
  <2>4. CASE PutThrows(r) /\ ~PutsAreAtomic
    BY <1>1, <1>2, <2>4 DEF PutThrows, Throw
  <2> QED BY <1>1, <2>1, <2>2, <2>3, <2>4 DEF PutReturns
<1>14. CASE PutFails(r)
  BY <1>0, <1>1, <1>2, <1>14 DEF PutFails, At, PutThrows, Throw, Orderly, registryVars
<1>15. CASE Unlock(r)
  <2>1. file' = file /\ (Finish(r) \/ Goto(r, "unlock") \/ (Throwing(r) /\ Goto(r, "catch")))
    BY <1>15 DEF Unlock
  <2> QED BY <1>0, <1>1, <1>15, <2>1 DEF Unlock, At, Goto, Orderly, RequestTypes, Throwing
<1>16. CASE CatchUncertain(r)
  <2>1. file' = file /\ (PutsAreAtomic => file[cmd[r].job].state # "closed")
    BY <1>0, <1>16 DEF CatchUncertain, At, Orderly, Serial, registryVars
  <2>2. CASE ~Absent(r) /\ Put(r, [Found(r) EXCEPT !.state = "unknown"], "idle", "unknown")
    BY <1>0, <2>1, <2>2 DEF Put, Orderly, RequestTypes, Absent, Found, Lawful
  <2> QED BY <1>1, <1>16, <2>2 DEF CatchUncertain
<1>17. CASE Rejects(r)
  BY <1>0, <1>17 DEF Rejects, Reject, PutsAreAtomic, Orderly, RequestTypes
<1> QED BY <1>6, <1>7, <1>8, <1>9, <1>10, <1>11, <1>12, <1>13, <1>14, <1>15, <1>16, <1>17, Forms

\* And so does every step of the broker.
LEMMA OrderInductive == ASSUME OrderInv, [Next]_vars PROVE OrderInv'
<1>1. SerialInv'
  BY SerialInductive DEF OrderInv
<1>2. ASSUME NEW s \in Requests PROVE Orderly(s)'
  <2>1. ASSUME NEW r \in Requests, Issue(r) \/ Step(r) \/ Crash(r) PROVE Orderly(s)'
    BY <2>1, OrderlySteps DEF OrderInv, SerialInv, OneRequest
  <2>2. ASSUME NEW key \in Keys, OperatorUnlock(key) PROVE Orderly(s)'
    BY <2>2 DEF OperatorUnlock, requestVars, OrderInv, Orderly, Throwing
  <2>3. ASSUME UNCHANGED vars PROVE Orderly(s)'
    BY <2>3 DEF vars, registryVars, requestVars, OrderInv, Orderly, Throwing
  <2> QED BY <2>1, <2>2, <2>3 DEF Next
<1> QED BY <1>1, <1>2 DEF OrderInv

\* A lawful change of one record is a step of JobLifecycle.
LEMMA LawfulIsAStep ==
  ASSUME NEW j \in Jobs, NEW x \in JobRecord, Lawful(file[j], x),
         file' = [file EXCEPT ![j] = x]
  PROVE  Lifecycle!Next
<1> USE DEF Lifecycle!Next, Lifecycle!Become
<1>1. CASE file[j].state = "absent" /\ x = Blank("ready")
  BY <1>1 DEF Lifecycle!Create, Lifecycle!Blank, Blank
<1>2. CASE file[j].state \in Observable /\ \E s \in Observable : x = [file[j] EXCEPT !.state = s]
  BY <1>2 DEF Lifecycle!Observe, Lifecycle!Observable, Observable
<1>3. CASE /\ file[j].state \in {"ready", "unknown"}
           /\ x.state = file[j].state
           /\ EvidenceGrows(file[j], x)
  BY <1>3
  DEF Lifecycle!Gather, Lifecycle!EvidenceGrows, EvidenceGrows, Lifecycle!JobRecord, JobRecord,
      Lifecycle!States, States
<1>4. CASE file[j].state \in {"ready", "unknown"} /\ x = HandedOff
  BY <1>4 DEF Lifecycle!HandOver, Lifecycle!HandedOff, HandedOff
<1>5. CASE /\ file[j].state = "handoff_ready"
           /\ HasEvidence(file[j])
           /\ x = [file[j] EXCEPT !.state = "closed"]
  BY <1>5 DEF Lifecycle!Close, Lifecycle!HasEvidence, HasEvidence
<1>6. CASE /\ file[j].state # "absent"
           /\ file[j].state = "closed" => ~PutsAreAtomic
           /\ x = [file[j] EXCEPT !.state = "unknown"]
  BY <1>6 DEF Lifecycle!Doubt, PutsAreAtomic
<1> QED BY <1>1, <1>2, <1>3, <1>4, <1>5, <1>6 DEF Lawful

\* Served one request at a time, the broker implements JobLifecycle on its
\* registry file, whenever the process dies and whichever read, put or lock
\* throws (broker.ts:15-45, fileJobRegistry.ts:8-14).  By the instance of
\* JobLifecycle a closed job is in addition closed for good when nothing but a
\* put before its rename can throw.
THEOREM BrokerRefinesLifecycle ==
  ASSUME OneRequest
  PROVE  Spec => FollowsLifecycle
<1>1. Init => OrderInv /\ Lifecycle!Init
  BY SerialInitially
  DEF OrderInv, Init, Orderly, Lifecycle!Init, EmptyTable, Lifecycle!NoRecord, NoRecord,
      Lifecycle!Blank, Blank
<1>2. OrderInv /\ [Next]_vars => OrderInv'
  BY OrderInductive
<1>3. OrderInv /\ [Next]_vars => [Lifecycle!Next]_file
  <2> SUFFICES ASSUME OrderInv, [Next]_vars PROVE Lifecycle!Next \/ file' = file
    OBVIOUS
  <2>1. ASSUME NEW r \in Requests, Issue(r) \/ Step(r) \/ Crash(r), ~PutReplaces(r)
        PROVE  file' = file
    BY <2>1, Forms
    DEF OrderInv, Issue, Moves, Keeps, Decides, Fails, Rejects, Saves, Ends, PutLoad, PutFails,
        Unlock, CatchCertain, CatchUncertain, registryVars
  <2>2. ASSUME NEW r \in Requests, PutReplaces(r) PROVE Lifecycle!Next
    <3>1. cmd[r].job \in Jobs /\ rec[r] \in JobRecord
      BY <2>2 DEF PutReplaces, At, OrderInv, SerialInv, IInv, TypeOK, RequestTypes, CommandsPlaced
    <3>2. Lawful(file[cmd[r].job], rec[r]) /\ file' = [file EXCEPT ![cmd[r].job] = rec[r]]
      BY <2>2 DEF PutReplaces, At, OrderInv, SerialInv, Serial, Orderly
    <3> QED BY <3>1, <3>2, LawfulIsAStep
  <2> QED BY <2>1, <2>2 DEF Next, vars, registryVars, OperatorUnlock
<1> QED BY <1>1, <1>2, <1>3, PTL DEF Spec, FollowsLifecycle, Lifecycle!Spec

-----------------------------------------------------------------------------
(* Answers *)

\* Nothing dies, no read fails, and a put throws only once it has replaced the
\* file.
PutsAreDurable == ~Crashes /\ DiskFaults \subseteq {"after", "lock"}

\* A request that ends has told its client what the file says.
LEMMA AnswersStand ==
  ASSUME SerialInv, PutsAreDurable, NEW r \in Requests, Issue(r) \/ Step(r) \/ Crash(r),
         pc[r] # "idle", pc'[r] = "idle"
  PROVE  Stands(reply[r], cmd[r].verb, file'[cmd[r].job].state)
<1>0. Serial(r) /\ RequestTypes /\ RegistryTypes /\ cmd[r].job \in Jobs
  BY DEF SerialInv, IInv, TypeOK, CommandsPlaced
<1>1. Throwing(r) \/ reply[r] = "none" => Stands(reply[r], cmd[r].verb, file'[cmd[r].job].state)
  BY DEF Throwing, Stands
<1>2. ASSUME NEW l, l # "idle", Goto(r, l) \/ Keep(r, l) \/ \E c : Answer(r, c) PROVE FALSE
  BY <1>0, <1>2 DEF Goto, Keep, Answer, RequestTypes
<1>3. ASSUME NEW x, NEW l, NEW c, Put(r, x, l, c) PROVE FALSE
  BY <1>0, <1>3 DEF Put, RequestTypes
<1>4. CASE Moves(r) \/ Keeps(r) \/ Decides(r) \/ Fails(r) \/ Saves(r) \/ Issue(r)
  BY <1>2, <1>3, <1>4 DEF Moves, Keeps, Decides, Fails, Saves, Issue, Throw, Calls, At
<1>5. CASE Ends(r) \/ CatchCertain(r) \/ CatchUncertain(r)
  BY <1>0, <1>1, <1>5 DEF Ends, CatchCertain, CatchUncertain, At, Serial, PutsAreDurable
<1>6. CASE PutLoad(r)
  BY <1>0, <1>6 DEF PutLoad, PutsAreDurable, Load, RequestTypes
<1>7. CASE PutFails(r)
  BY <1>7 DEF PutFails, PutsAreDurable
<1>8. CASE PutReplaces(r)
  <2>1. file'[cmd[r].job] = rec[r] /\ Leads(next[r], reply[r], cmd[r].verb, rec[r].state)
    BY <1>0, <1>8 DEF PutReplaces, At, Serial, RegistryTypes
  <2>2. next[r] = "idle"
    BY <1>0, <1>2, <1>8
    DEF PutReplaces, PutReturns, PutThrows, Throw, Resume, RequestTypes
  <2> QED BY <2>1, <2>2 DEF Leads, Stands, HandoffCalls
<1>9. CASE Unlock(r)
  BY <1>0, <1>9 DEF Unlock, At, Serial
<1>10. CASE Rejects(r)
  BY <1>0, <1>10 DEF Rejects, Reject, RequestTypes
<1> QED BY <1>4, <1>5, <1>6, <1>7, <1>8, <1>9, <1>10, Forms

\* What a client is told is what the next reader of the registry finds
\* (broker.ts:42-45): one request at a time, without crashes, even when a put
\* throws after it has replaced the file or a lock fails.
THEOREM AnswersLast ==
  ASSUME OneRequest, PutsAreDurable
  PROVE  Spec => AnswersAreDurable
<1> DEFINE Claims == \A r \in Requests :
              pc[r] # "idle" /\ pc'[r] = "idle"
              => Stands(reply[r], cmd[r].verb, file'[cmd[r].job].state)
<1>1. SerialInv /\ [Next]_vars => [Claims]_vars
  <2> SUFFICES ASSUME SerialInv, Next, NEW r \in Requests, pc[r] # "idle", pc'[r] = "idle"
               PROVE  Stands(reply[r], cmd[r].verb, file'[cmd[r].job].state)
    OBVIOUS
  <2>1. ASSUME NEW s \in Requests, Issue(s) \/ Step(s) \/ Crash(s)
        PROVE  Stands(reply[r], cmd[r].verb, file'[cmd[r].job].state)
    BY <2>1, AnswersStand DEF SerialInv, OneRequest
  <2>2. ASSUME NEW key \in Keys, OperatorUnlock(key) PROVE FALSE
    BY <2>2 DEF OperatorUnlock, requestVars
  <2> QED BY <2>1, <2>2 DEF Next
<1>2. [Claims]_vars => [\A r \in Requests :
         LET verb == cmd[r].verb
             state == file'[cmd[r].job].state IN
         pc[r] # "idle" /\ pc'[r] = "idle" =>
           /\ reply[r] = "unknown" => state \in {"absent", "unknown"}
           /\ reply[r] = "ok" /\ verb = "create_job" => state # "absent"
           /\ reply[r] = "ok" /\ verb = "prompt_job" => state \in {"ready", "working"}
           /\ reply[r] = "ok" /\ verb = "handoff_job" => state = "handoff_ready"
           /\ reply[r] = "ok" /\ verb = "close_job" => state = "closed"]_vars
  BY DEF Stands
<1> HIDE DEF Claims
<1> QED BY <1>1, <1>2, Seriality, PTL DEF Spec, AnswersAreDurable

-----------------------------------------------------------------------------
(* Prompts *)

\* A prompt whose outcome is still to be written.
Pending(r) ==
    /\ cmd[r].verb = "prompt_job"
    /\ \/ pc[r] \in {"load", "write"}
       \/ pc[r] \in {"unlock", "catch"} /\ Throwing(r)

Unprompted(record) == record.state \in {"absent", "ready", "working"}

\* While the outcome of a prompt is uncertain, the file does not invite to
\* another one, or the request that sent it has yet to say so.
Marked(r, j) ==
    doubt[j] = "unsure" =>
      /\ file[j].state # "absent"
      /\ Unprompted(file[j]) => cmd[r].job = j /\ Pending(r)

\* No other command writes the job back to where it may be prompted.
NotErased(r) ==
    pc[r] \in {"load", "write"} /\ cmd[r].verb # "prompt_job" /\ doubt[cmd[r].job] = "unsure"
    => ~Unprompted(rec[r])

\* Clients that settle an uncertain prompt with recover_job only.
Reconciles == "job_status" \notin Verbs

DoubtInv ==
    /\ SerialInv
    /\ PutsAreDurable
    /\ Reconciles
    /\ NoPromptRepeated
    /\ \A r \in Requests : NotErased(r) /\ \A j \in Jobs : Marked(r, j)

\* Nothing is pending but a put and the way out of one.
LEMMA NotPending ==
  ASSUME DoubtInv, NEW r \in Requests, NEW j \in Jobs, doubt[j] = "unsure", ~Pending(r)
  PROVE  file[j].state # "absent" /\ ~Unprompted(file[j])
  BY DEF DoubtInv, Marked

\* A step before the put that raises no doubt.
LEMMA CalmStepKeepsMarks ==
  ASSUME DoubtInv, NEW r \in Requests, ~Pending(r), UNCHANGED <<file, doubt>>
  PROVE  \A j \in Jobs : Marked(r, j)'
  BY NotPending DEF Marked, Unprompted

\* A prompt is only sent where none is uncertain, and is pending afterwards.
LEMMA PromptKeepsDoubt ==
  ASSUME DoubtInv, NEW r \in Requests, HerdrPrompt(r)
  PROVE  NoPromptRepeated' /\ NotErased(r)' /\ \A j \in Jobs : Marked(r, j)'
<1> DEFINE job == cmd[r].job
<1>0. /\ Serial(r) /\ RequestTypes /\ WorldTypes /\ job \in Jobs /\ file' = file
      /\ pc[r] = "herdr_prompt" /\ file[job].state = "ready" /\ cmd[r].verb = "prompt_job"
  BY DEF DoubtInv, SerialInv, IInv, TypeOK, CommandsPlaced, HerdrPrompt, At, Serial, Fits, Calls,
         registryVars
<1>1. ~Pending(r)
  BY <1>0 DEF Pending
<1>2. doubt[job] = "none"
  BY <1>0, <1>1, NotPending DEF DoubtInv, NoPromptRepeated, WorldTypes, Unprompted
<1>3. doubt' = [doubt EXCEPT ![job] = "unsure"]
  BY <1>2 DEF HerdrPrompt
<1>4. cmd' = cmd /\ Pending(r)'
  <2>1. CASE Throw(r, "throws")
    BY <1>0, <2>1 DEF Throw, Answer, Pending, RequestTypes, Throwing
  <2>2. CASE \E s \in Observable : Put(r, [rec[r] EXCEPT !.state = s], "unlock", Category(s))
    BY <1>0, <2>2 DEF Put, Pending, RequestTypes
  <2> QED BY <2>1, <2>2 DEF HerdrPrompt
<1>5. ASSUME NEW j \in Jobs PROVE Marked(r, j)'
  <2>1. CASE j = job
    BY <1>0, <1>4, <2>1 DEF Marked
  <2>2. CASE j # job
    <3>1. doubt'[j] = doubt[j]
      BY <1>0, <1>3, <2>2 DEF WorldTypes
    <3> QED BY <1>0, <1>1, <3>1, NotPending DEF Marked, Unprompted
  <2> QED BY <2>1, <2>2
<1> QED BY <1>0, <1>3, <1>4, <1>5 DEF NotErased, NoPromptRepeated, DoubtInv, WorldTypes

\* The status that recover_job asks for settles a prompt or keeps it unknown.
LEMMA StatusKeepsDoubt ==
  ASSUME DoubtInv, NEW r \in Requests, HerdrStatus(r)
  PROVE  NoPromptRepeated' /\ NotErased(r)' /\ \A j \in Jobs : Marked(r, j)'
<1> DEFINE job == cmd[r].job
<1>0. /\ Serial(r) /\ RequestTypes /\ WorldTypes /\ job \in Jobs /\ file' = file
      /\ pc[r] = "herdr_status" /\ cmd[r].verb = "recover_job" /\ rec[r] \in JobRecord
  BY DEF DoubtInv, SerialInv, IInv, TypeOK, CommandsPlaced, HerdrStatus, At, Serial, Fits, Calls,
         registryVars, Reconciles, RequestTypes
<1>1. PICK s \in Observable :
        /\ Put(r, [rec[r] EXCEPT !.state = s], "unlock", Category(s))
        /\ doubt' = [doubt EXCEPT ![job] =
             IF @ = "unsure" /\ s # "unknown" /\ cmd[r].verb = "recover_job" THEN "none" ELSE @]
  BY DEF HerdrStatus
<1>2. /\ \A j \in Jobs : doubt'[j] = doubt[j] \/ doubt'[j] = "none"
      /\ doubt'[job] = "unsure" => s = "unknown"
  BY <1>0, <1>1 DEF WorldTypes
<1>3. ASSUME NEW j \in Jobs PROVE Marked(r, j)'
  BY <1>0, <1>2, NotPending DEF Marked, Pending, Unprompted
<1>4. cmd'[r] = cmd[r] /\ rec'[r].state = s
  BY <1>0, <1>1 DEF Put, RequestTypes, JobRecord
<1> QED BY <1>0, <1>2, <1>3, <1>4 DEF NotErased, Unprompted, NoPromptRepeated, DoubtInv

\* No other call leads an uncertain job back to a state to prompt it in.
LEMMA SaveKeepsDoubt ==
  ASSUME DoubtInv, NEW r \in Requests, Saves(r)
  PROVE  NoPromptRepeated' /\ NotErased(r)' /\ \A j \in Jobs : Marked(r, j)'
<1>0. Serial(r) /\ RequestTypes /\ cmd[r].job \in Jobs /\ ~Pending(r)
  BY DEF DoubtInv, SerialInv, IInv, TypeOK, CommandsPlaced, Saves, Calls, Pending
<1>1. CASE HerdrPrompt(r) \/ HerdrStatus(r)
  BY <1>1, PromptKeepsDoubt, StatusKeepsDoubt
<1>2. ASSUME NEW x \in JobRecord, NEW l, NEW c, Put(r, x, l, c), doubt' = doubt,
             rec[r].state = "absent" \/ x.state \in {rec[r].state, "handoff_ready", "closed"}
      PROVE  NotErased(r)'
  <2>1. rec[r] = file[cmd[r].job]
    BY <1>0 DEF Saves, Serial
  <2>2. doubt[cmd[r].job] = "unsure" => ~Unprompted(rec[r])
    BY <1>0, <2>1, NotPending
  <2>3. doubt[cmd[r].job] = "unsure" => ~Unprompted(x)
    BY <1>2, <2>2 DEF Unprompted
  <2> QED BY <1>0, <1>2, <2>3 DEF Put, NotErased, RequestTypes
<1> QED BY <1>0, <1>1, <1>2, CalmStepKeepsMarks DEF Saves, DoubtInv, NoPromptRepeated

\* The rename of a put settles a prompt, or leaves `unknown' in the file.
LEMMA ReplaceKeepsDoubt ==
  ASSUME DoubtInv, NEW r \in Requests, PutReplaces(r)
  PROVE  NoPromptRepeated' /\ NotErased(r)' /\ \A j \in Jobs : Marked(r, j)'
<1> DEFINE job == cmd[r].job
           settled == cmd[r].verb = "prompt_job" /\ next[r] = "unlock" /\ rec[r].state # "unknown"
<1>0. /\ Serial(r) /\ NotErased(r) /\ RequestTypes /\ RegistryTypes /\ WorldTypes
      /\ job \in Jobs /\ pc[r] = "write"
  BY DEF DoubtInv, SerialInv, IInv, TypeOK, CommandsPlaced, PutReplaces, At
<1>1. /\ Leads(next[r], reply[r], cmd[r].verb, rec[r].state)
      /\ \A j \in Jobs : file'[j] = IF j = job THEN rec[r] ELSE file[j]
  BY <1>0 DEF PutReplaces, Serial, At, RegistryTypes
<1>2. /\ \A j \in Jobs : doubt'[j] = doubt[j] \/ doubt'[j] = "none"
      /\ settled => doubt'[job] # "unsure"
      /\ \A j \in Jobs : j # job => doubt'[j] = doubt[j]
  BY <1>0 DEF PutReplaces, WorldTypes
<1>3. rec[r].state # "absent"
  BY <1>1 DEF Leads
<1>4. doubt'[job] = "unsure" => ~Unprompted(rec[r])
  <2>1. CASE cmd[r].verb = "prompt_job"
    BY <1>1, <1>2, <2>1 DEF Leads, Fits, Unprompted, HandoffCalls
  <2>2. CASE cmd[r].verb # "prompt_job"
    BY <1>0, <1>2, <2>2 DEF NotErased
  <2> QED BY <2>1, <2>2
<1>5. ASSUME NEW j \in Jobs PROVE Marked(r, j)'
  <2>1. CASE j = job
    BY <1>1, <1>3, <1>4, <2>1 DEF Marked, Unprompted
  <2>2. CASE j # job
    BY <1>1, <1>2, <2>2 DEF DoubtInv, Marked, Unprompted
  <2> QED BY <2>1, <2>2
<1>6. pc'[r] \notin {"load", "write"}
  BY <1>0
  DEF PutReplaces, PutReturns, PutThrows, Throw, Answer, Finish, Resume, RequestTypes, Afterwards
<1> QED BY <1>2, <1>5, <1>6 DEF NotErased, NoPromptRepeated, DoubtInv

\* Every step of a request keeps uncertain prompts marked.
LEMMA DoubtSteps ==
  ASSUME DoubtInv, NEW r \in Requests, Issue(r) \/ Step(r) \/ Crash(r)
  PROVE  NoPromptRepeated' /\ NotErased(r)' /\ \A j \in Jobs : Marked(r, j)'
<1> USE DEF DoubtInv
<1>0. /\ Serial(r) /\ RequestTypes /\ NotErased(r)
      /\ pc[r] # "idle" => cmd[r].job \in Jobs
  BY DEF SerialInv, IInv, TypeOK, CommandsPlaced
<1>1. CASE doubt' # doubt
  BY <1>1, PromptKeepsDoubt, StatusKeepsDoubt, SaveKeepsDoubt, ReplaceKeepsDoubt, Forms
  DEF Issue, Moves, Keeps, Decides, Fails, Rejects, Saves, Ends, PutLoad, PutFails, Unlock,
      CatchCertain, CatchUncertain
<1>2. CASE Saves(r) \/ PutReplaces(r)
  BY <1>2, SaveKeepsDoubt, ReplaceKeepsDoubt
<1>3. ASSUME UNCHANGED <<file, doubt>>, pc[r] \notin {"load", "write", "unlock", "catch"},
             pc'[r] \notin {"load", "write"}
      PROVE  NotErased(r)' /\ \A j \in Jobs : Marked(r, j)'
  BY <1>3, CalmStepKeepsMarks DEF Pending, NotErased
<1>4. CASE doubt' = doubt /\ (Issue(r) \/ Moves(r) \/ Keeps(r) \/ Decides(r) \/ Fails(r) \/ Ends(r))
  <2>1. file' = file /\ pc[r] \notin {"load", "write", "unlock", "catch"}
    BY <1>4
    DEF Issue, Moves, Keeps, Decides, Fails, Ends, registryVars, At, Calls, PutsAreDurable
  <2>2. pc'[r] \notin {"load", "write"}
    BY <1>0, <1>4
    DEF Issue, Moves, Keeps, Decides, Fails, Ends, Goto, Keep, Throw, Answer, Finish,
        RequestTypes, Calls
  <2> QED BY <1>3, <1>4, <2>1, <2>2 DEF NoPromptRepeated
<1>5. CASE PutLoad(r)
  BY <1>0, <1>5
  DEF PutLoad, PutsAreDurable, Load, At, registryVars, RequestTypes, NotErased, Marked, Pending,
      Unprompted, NoPromptRepeated
<1>6. CASE PutFails(r)
  BY <1>6 DEF PutFails, PutsAreDurable
<1>7. CASE Unlock(r)
  <2>1. /\ UNCHANGED <<file, doubt>> /\ pc[r] = "unlock"
        /\ \/ cmd' = cmd /\ reply' = reply /\ pc'[r] = "unlock"
           \/ cmd' = cmd /\ reply' = reply /\ pc'[r] = "catch"
           \/ ~Throwing(r) /\ pc'[r] = "idle"
    BY <1>0, <1>7 DEF Unlock, At, Goto, Finish, RequestTypes
  <2>2. NotErased(r)'
    BY <2>1 DEF NotErased
  <2>3. CASE ~Throwing(r)
    BY <2>1, <2>2, <2>3, CalmStepKeepsMarks DEF Pending, NoPromptRepeated
  <2>4. CASE cmd' = cmd /\ reply' = reply /\ pc'[r] \in {"unlock", "catch"}
    BY <2>1, <2>2, <2>4 DEF Pending, Marked, Throwing, Unprompted, NoPromptRepeated
  <2> QED BY <2>1, <2>3, <2>4
<1>8. CASE CatchCertain(r)
  <2>1. UNCHANGED <<file, doubt>> /\ ~Pending(r) /\ pc'[r] = "idle"
    BY <1>0, <1>8 DEF CatchCertain, At, Finish, registryVars, Pending, Mutating, RequestTypes
  <2> QED BY <2>1, CalmStepKeepsMarks DEF NotErased, NoPromptRepeated
<1>9. CASE CatchUncertain(r)
  <2>1. UNCHANGED <<file, doubt>> /\ pc[r] = "catch"
    BY <1>9 DEF CatchUncertain, At, registryVars
  <2>2. CASE Absent(r) /\ Finish(r)
    <3>1. pc'[r] = "idle"
      BY <1>0, <2>2 DEF Finish, RequestTypes
    <3>2. ASSUME NEW j \in Jobs PROVE Marked(r, j)'
      BY <2>1, <2>2 DEF Marked, Absent, Found, Unprompted, Pending
    <3> QED BY <2>1, <3>1, <3>2 DEF NotErased, NoPromptRepeated
  <2>3. CASE Put(r, [Found(r) EXCEPT !.state = "unknown"], "idle", "unknown")
    <3>1. Found(r) \in JobRecord
      BY <1>0, <2>1 DEF Found, RegistryTypes, SerialInv, IInv, TypeOK
    <3>2. pc'[r] = "load" /\ cmd' = cmd /\ rec'[r].state = "unknown"
      BY <1>0, <2>3, <3>1 DEF Put, RequestTypes, JobRecord
    <3> QED BY <2>1, <3>2 DEF NotErased, Marked, Pending, Unprompted, NoPromptRepeated
  <2> QED BY <1>9, <2>2, <2>3 DEF CatchUncertain, PutsAreDurable
<1>10. CASE Rejects(r)
  <2>1. UNCHANGED <<file, doubt>> /\ cmd' = cmd /\ Throwing(r)'
    BY <1>0, <1>10 DEF Rejects, Reject, Throwing, RequestTypes
  <2>2. pc[r] \in {"lock", "unlock"} /\ pc'[r] \in {"unlock", "catch"}
    BY <1>0, <1>10 DEF Rejects, Reject, RequestTypes
  <2>3. Pending(r) => Pending(r)'
    BY <2>1, <2>2 DEF Pending
  <2>4. ASSUME NEW j \in Jobs PROVE Marked(r, j)'
    BY <2>1, <2>3 DEF Marked, Unprompted
  <2> QED BY <2>1, <2>2, <2>4 DEF NotErased, NoPromptRepeated
<1> QED BY <1>1, <1>2, <1>4, <1>5, <1>6, <1>7, <1>8, <1>9, <1>10, Forms

\* And so does every step of the broker.
LEMMA DoubtInductive == ASSUME DoubtInv, [Next]_vars PROVE DoubtInv'
<1>1. SerialInv' /\ PutsAreDurable' /\ Reconciles'
  BY SerialInductive DEF DoubtInv, PutsAreDurable, Reconciles
<1>2. ASSUME NEW r \in Requests, Issue(r) \/ Step(r) \/ Crash(r) PROVE DoubtInv'
  BY <1>1, <1>2, DoubtSteps DEF DoubtInv, SerialInv, OneRequest
<1>3. ASSUME NEW key \in Keys, OperatorUnlock(key) PROVE DoubtInv'
  BY <1>1, <1>3
  DEF OperatorUnlock, requestVars, DoubtInv, NoPromptRepeated, NotErased, Marked, Pending, Throwing
<1>4. ASSUME UNCHANGED vars PROVE DoubtInv'
  BY <1>1, <1>4
  DEF vars, registryVars, requestVars, DoubtInv, NoPromptRepeated, NotErased, Marked, Pending,
      Throwing
<1> QED BY <1>2, <1>3, <1>4 DEF Next

\* A client that asks one thing at a time and settles an uncertain prompt with
\* recover_job never prompts twice (README.md:11, broker.ts:33-45), even when a
\* put throws after it has replaced the file or a lock fails.
THEOREM PromptedOnce ==
  ASSUME OneRequest, PutsAreDurable, Reconciles
  PROVE  Spec => []NoPromptRepeated
<1>1. Init => DoubtInv
  BY SerialInitially DEF DoubtInv, Init, NoPromptRepeated, NotErased, Marked
<1>2. DoubtInv /\ [Next]_vars => DoubtInv'
  BY DoubtInductive
<1>3. DoubtInv => NoPromptRepeated
  BY DEF DoubtInv
<1> QED BY <1>1, <1>2, <1>3, PTL DEF Spec
=============================================================================
