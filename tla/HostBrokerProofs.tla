-------------------------- MODULE HostBrokerProofs --------------------------
(***************************************************************************)
(* Proofs about HostBroker for every set of jobs and requests.  A step of  *)
(* a request is a guard and a move (Goto, Answer, Put, ...); the four Move *)
(* lemmas say what a move keeps, the lemma Inductive goes through the      *)
(* actions.                                                                *)
(***************************************************************************)
EXTENDS HostBroker, TLAPS

\* The records and tables the broker writes have the types of LocalJob.
LEMMA RecordTypes ==
         /\ NoRecord \in JobRecord
         /\ Blank("ready") \in JobRecord
         /\ HandedOff \in JobRecord
         /\ \A x \in JobRecord, s \in States : [x EXCEPT !.state = s] \in JobRecord
         /\ \A x \in JobRecord : /\ [x EXCEPT !.phase = TRUE] \in JobRecord
                                 /\ [x EXCEPT !.sha = TRUE] \in JobRecord
                                 /\ [x EXCEPT !.pr = TRUE] \in JobRecord
         /\ EmptyTable \in [Jobs -> JobRecord]
         /\ NoCommand \in [verb : AllVerbs \cup {"none"}, job : Keys]
  BY DEF NoRecord, Blank, HandedOff, JobRecord, States, EmptyTable, NoCommand, Keys

\* The records the broker writes keep complete evidence complete.
LEMMA RecordsComplete ==
  /\ Complete(NoRecord) /\ Complete(Blank("ready")) /\ Complete(HandedOff)
  /\ \A j \in Jobs : Complete(EmptyTable[j])
  /\ \A x \in JobRecord, s \in Observable : Complete([x EXCEPT !.state = s])
  /\ \A x \in JobRecord : Complete(x) => /\ Complete([x EXCEPT !.phase = TRUE])
                                       /\ Complete([x EXCEPT !.sha = TRUE])
                                       /\ Complete([x EXCEPT !.pr = TRUE])
  /\ \A x \in JobRecord :
       Complete(x) /\ x.state = "handoff_ready" => Complete([x EXCEPT !.state = "closed"])
  BY DEF Complete, HasEvidence, NoRecord, Blank, HandedOff, EmptyTable, Observable, JobRecord

\* What the moves of a request do to each part of the invariant.  The four
\* lemmas let the proof of a step leave the moves unexpanded.
LEMMA MoveTypes ==
  ASSUME RequestTypes, NEW r \in Requests
  PROVE  /\ \A l \in Labels : Goto(r, l) => RequestTypes'
         /\ \A c \in Replies : Answer(r, c) => RequestTypes'
         /\ \A c \in Replies : Throw(r, c) => RequestTypes'
         /\ Finish(r) => RequestTypes'
         /\ \A x \in JobRecord : \A c \in Replies : \A l \in Afterwards :
              Put(r, x, l, c)
              => RequestTypes'
         /\ \A l \in Labels :
              /\ file \in [Jobs -> JobRecord]
              /\ cmd[r].job \in Jobs
              /\ Keep(r, l)
              => RequestTypes'
         /\ file \in [Jobs -> JobRecord] /\ Load(r) => RequestTypes'
         /\ Resume(r) => RequestTypes'
         /\ PutThrows(r) => RequestTypes'
         /\ PutReturns(r) => RequestTypes'
<1>1. ASSUME NEW l \in Labels, Goto(r, l) PROVE RequestTypes'
  BY <1>1, RecordTypes DEF Goto, RequestTypes, Labels, Replies, Afterwards, Calls
<1>2. ASSUME NEW c \in Replies, Answer(r, c) PROVE RequestTypes'
  BY <1>2, RecordTypes DEF Answer, RequestTypes, Labels, Replies, Afterwards, Calls
<1>3. ASSUME NEW c \in Replies, Throw(r, c) PROVE RequestTypes'
  BY <1>3, RecordTypes DEF Throw, Answer, RequestTypes, Labels, Replies, Afterwards, Calls
<1>4. ASSUME Finish(r) PROVE RequestTypes'
  BY <1>4, RecordTypes DEF Finish, RequestTypes, Labels, Replies, Afterwards, Calls
<1>5. ASSUME NEW x \in JobRecord, NEW c \in Replies, NEW l \in Afterwards, Put(r, x, l, c)
      PROVE  RequestTypes'
  BY <1>5, RecordTypes DEF Put, RequestTypes, Labels, Replies, Afterwards, Calls
<1>6. ASSUME NEW l \in Labels, file \in [Jobs -> JobRecord], cmd[r].job \in Jobs, Keep(r, l)
      PROVE  RequestTypes'
  BY <1>6, RecordTypes DEF Keep, Found, RequestTypes, Labels, Replies, Afterwards, Calls
<1>7. ASSUME file \in [Jobs -> JobRecord], Load(r) PROVE RequestTypes'
  BY <1>7, RecordTypes DEF Load, RequestTypes, Labels, Replies, Afterwards, Calls
<1>8. ASSUME Resume(r) PROVE RequestTypes'
  BY <1>8, RecordTypes DEF Resume, RequestTypes, Labels, Replies, Afterwards, Calls
<1>9. ASSUME PutThrows(r) PROVE RequestTypes'
  BY <1>9, <1>3, <1>4, RecordTypes
  DEF PutThrows, RequestTypes, Labels, Replies, Afterwards, Calls
<1>10. ASSUME PutReturns(r) PROVE RequestTypes'
  BY <1>10, <1>2, <1>4, <1>8, RecordTypes
  DEF PutReturns, RequestTypes, Labels, Replies, Afterwards, Calls
<1> QED BY <1>1, <1>2, <1>3, <1>4, <1>5, <1>6, <1>7, <1>8, <1>9, <1>10

\* ... to the place of commands,
LEMMA MoveCommands ==
  ASSUME RequestTypes, CommandsPlaced, NEW r \in Requests, pc[r] # "idle"
  PROVE  /\ \A l \in Labels \ {"load", "write"} :
              /\ (l \in Calls \ {"git_create", "herdr_create"} => cmd[r].verb # "create_job")
              /\ Goto(r, l)
              => CommandsPlaced'
         /\ \A c : Answer(r, c) => CommandsPlaced'
         /\ \A c : Throw(r, c) => CommandsPlaced'
         /\ Finish(r) => CommandsPlaced'
         /\ \A x : \A c : \A l \in Afterwards :
              /\ (l \notin {"idle", "unlock"} => cmd[r].verb # "create_job")
              /\ Put(r, x, l, c)
              => CommandsPlaced'
         /\ \A l \in Labels \ {"load", "write"} :
              /\ (l \in Calls \ {"git_create", "herdr_create"} => cmd[r].verb # "create_job")
              /\ Keep(r, l)
              => CommandsPlaced'
         /\ pc[r] = "load" /\ Load(r) => CommandsPlaced'
         /\ pc[r] = "write" /\ Resume(r) => CommandsPlaced'
         /\ PutThrows(r) => CommandsPlaced'
         /\ pc[r] = "write" /\ PutReturns(r) => CommandsPlaced'
<1>1. ASSUME NEW l \in Labels \ {"load", "write"},
             (l \in Calls \ {"git_create", "herdr_create"} => cmd[r].verb # "create_job"),
             Goto(r, l)
      PROVE  CommandsPlaced'
  BY <1>1 DEF Goto, CommandsPlaced, RequestTypes, Calls, Labels, Afterwards
<1>2. ASSUME NEW c, Answer(r, c) PROVE CommandsPlaced'
  BY <1>2 DEF Answer, CommandsPlaced, RequestTypes, Calls, Labels, Afterwards
<1>3. ASSUME NEW c, Throw(r, c) PROVE CommandsPlaced'
  BY <1>3 DEF Throw, Answer, CommandsPlaced, RequestTypes, Calls, Labels, Afterwards
<1>4. ASSUME Finish(r) PROVE CommandsPlaced'
  BY <1>4 DEF Finish, CommandsPlaced, RequestTypes, Calls, Labels, Afterwards
<1>5. ASSUME NEW x, NEW c, NEW l \in Afterwards,
             (l \notin {"idle", "unlock"} => cmd[r].verb # "create_job"), Put(r, x, l, c)
      PROVE  CommandsPlaced'
  BY <1>5 DEF Put, CommandsPlaced, RequestTypes, Calls, Labels, Afterwards
<1>6. ASSUME NEW l \in Labels \ {"load", "write"},
             (l \in Calls \ {"git_create", "herdr_create"} => cmd[r].verb # "create_job"),
             Keep(r, l)
      PROVE  CommandsPlaced'
  BY <1>6 DEF Keep, Found, CommandsPlaced, RequestTypes, Calls, Labels, Afterwards
<1>7. ASSUME pc[r] = "load", Load(r) PROVE CommandsPlaced'
  BY <1>7 DEF Load, CommandsPlaced, RequestTypes, Calls, Labels, Afterwards
<1>8. ASSUME pc[r] = "write", Resume(r) PROVE CommandsPlaced'
  BY <1>8 DEF Resume, CommandsPlaced, RequestTypes, Calls, Labels, Afterwards
<1>9. ASSUME PutThrows(r) PROVE CommandsPlaced'
  BY <1>9, <1>3, <1>4 DEF PutThrows, CommandsPlaced, RequestTypes, Calls, Labels, Afterwards
<1>10. ASSUME pc[r] = "write", PutReturns(r) PROVE CommandsPlaced'
  BY <1>10, <1>2, <1>4, <1>8
  DEF PutReturns, CommandsPlaced, RequestTypes, Calls, Labels, Afterwards
<1> QED BY <1>1, <1>2, <1>3, <1>4, <1>5, <1>6, <1>7, <1>8, <1>9, <1>10

\* ... to the locks,
LEMMA MoveLocks ==
  ASSUME RequestTypes, RegistryTypes, CommandsPlaced, LocksHeld, UNCHANGED <<dirs, held>>,
         NEW r \in Requests, pc[r] # "idle"
  PROVE  /\ \A l \in Calls \cup {"dispatch", "project", "repeated"} :
              /\ Inside(r)
              /\ (l \in {"repeated", "git_create", "herdr_create"} => Project \in held[r])
              /\ Goto(r, l)
              => LocksHeld'
         /\ \A c : Inside(r) /\ Answer(r, c) => LocksHeld'
         /\ \A c : Inside(r) /\ Throw(r, c) => LocksHeld'
         /\ ~Inside(r) /\ pc[r] # "unlock" /\ Finish(r) => LocksHeld'
         /\ \A x : \A c : \A l \in Afterwards :
              /\ Inside(r)
              /\ l # "idle"
              /\ (cmd[r].verb = "create_job" => Project \in held[r])
              /\ Put(r, x, l, c)
              => LocksHeld'
         /\ \A l \in Calls \cup {"dispatch", "project", "repeated"} :
              /\ Inside(r)
              /\ (l \in {"repeated", "git_create", "herdr_create"} => Project \in held[r])
              /\ Keep(r, l)
              => LocksHeld'
         /\ pc[r] = "load" /\ Load(r) => LocksHeld'
         /\ pc[r] = "write" /\ Resume(r) => LocksHeld'
         /\ pc[r] \in {"load", "write"} /\ PutThrows(r) => LocksHeld'
         /\ pc[r] = "write" /\ PutReturns(r) => LocksHeld'
         /\ \A x : \A c : ~Inside(r) /\ pc[r] # "unlock" /\ Put(r, x, "idle", c) => LocksHeld'
<1>1. ASSUME NEW l \in Calls \cup {"dispatch", "project", "repeated"}, Inside(r),
             (l \in {"repeated", "git_create", "herdr_create"} => Project \in held[r]),
             Goto(r, l)
      PROVE  LocksHeld'
  BY <1>1
  DEF Goto, CommandsPlaced, LocksHeld, Inside, Creating, At, RequestTypes, RegistryTypes,
      Calls, Afterwards
<1>2. ASSUME NEW c, Inside(r), Answer(r, c) PROVE LocksHeld'
  BY <1>2
  DEF Answer, CommandsPlaced, LocksHeld, Inside, Creating, At, RequestTypes, RegistryTypes,
      Calls, Afterwards
<1>3. ASSUME NEW c, Inside(r), Throw(r, c) PROVE LocksHeld'
  BY <1>3
  DEF Throw, Answer, CommandsPlaced, LocksHeld, Inside, Creating, At, RequestTypes,
      RegistryTypes, Calls, Afterwards
<1>4. ASSUME ~Inside(r), pc[r] # "unlock", Finish(r) PROVE LocksHeld'
  BY <1>4
  DEF Finish, CommandsPlaced, LocksHeld, Inside, Creating, At, RequestTypes, RegistryTypes,
      Calls, Afterwards
<1>5. ASSUME NEW x, NEW c, NEW l \in Afterwards, Inside(r), l # "idle",
             (cmd[r].verb = "create_job" => Project \in held[r]), Put(r, x, l, c)
      PROVE  LocksHeld'
  BY <1>5
  DEF Put, CommandsPlaced, LocksHeld, Inside, Creating, At, RequestTypes, RegistryTypes,
      Calls, Afterwards
<1>6. ASSUME NEW l \in Calls \cup {"dispatch", "project", "repeated"}, Inside(r),
             (l \in {"repeated", "git_create", "herdr_create"} => Project \in held[r]),
             Keep(r, l)
      PROVE  LocksHeld'
  BY <1>6
  DEF Keep, Found, CommandsPlaced, LocksHeld, Inside, Creating, At, RequestTypes,
      RegistryTypes, Calls, Afterwards
<1>7. ASSUME pc[r] = "load", Load(r) PROVE LocksHeld'
  BY <1>7
  DEF Load, CommandsPlaced, LocksHeld, Inside, Creating, At, RequestTypes, RegistryTypes,
      Calls, Afterwards
<1>8. ASSUME pc[r] = "write", Resume(r) PROVE LocksHeld'
  BY <1>8
  DEF Resume, CommandsPlaced, LocksHeld, Inside, Creating, At, RequestTypes, RegistryTypes,
      Calls, Afterwards
<1>9. ASSUME pc[r] \in {"load", "write"}, PutThrows(r) PROVE LocksHeld'
  BY <1>9, <1>3, <1>4
  DEF PutThrows, CommandsPlaced, LocksHeld, Inside, Creating, At, RequestTypes, RegistryTypes,
      Calls, Afterwards
<1>10. ASSUME pc[r] = "write", PutReturns(r) PROVE LocksHeld'
  BY <1>10, <1>2, <1>4, <1>8
  DEF PutReturns, CommandsPlaced, LocksHeld, Inside, Creating, At, RequestTypes,
      RegistryTypes, Calls, Afterwards
<1>11. ASSUME NEW x, NEW c, ~Inside(r), pc[r] # "unlock", Put(r, x, "idle", c) PROVE LocksHeld'
  BY <1>11
  DEF Put, CommandsPlaced, LocksHeld, Inside, Creating, At, RequestTypes, RegistryTypes,
      Calls, Afterwards
<1> QED BY <1>1, <1>2, <1>3, <1>4, <1>5, <1>6, <1>7, <1>8, <1>9, <1>10, <1>11

\* ... and to the evidence in memory.
LEMMA MoveEvidence ==
  ASSUME RequestTypes, EvidenceComplete, EvidenceInMemory, NEW r \in Requests
  PROVE  /\ \A l \in Labels :
              /\ (l \in {"herdr_close", "git_cleanup"} => rec[r].state = "handoff_ready")
              /\ Goto(r, l)
              => EvidenceInMemory'
         /\ \A c : Answer(r, c) => EvidenceInMemory'
         /\ \A c : Throw(r, c) => EvidenceInMemory'
         /\ Finish(r) => EvidenceInMemory'
         /\ \A x : \A c : \A l \in Afterwards :
              /\ Complete(x)
              /\ Put(r, x, l, c)
              => EvidenceInMemory'
         /\ \A l \in Labels :
              /\ cmd[r].job \in Jobs
              /\ (l \in {"herdr_close", "git_cleanup"} => Found(r).state = "handoff_ready")
              /\ Keep(r, l)
              => EvidenceInMemory'
         /\ RegistryTypes /\ Load(r) => EvidenceInMemory'
         /\ Resume(r) => EvidenceInMemory'
         /\ PutThrows(r) => EvidenceInMemory'
         /\ PutReturns(r) => EvidenceInMemory'
<1>1. ASSUME NEW l \in Labels,
             (l \in {"herdr_close", "git_cleanup"} => rec[r].state = "handoff_ready"),
             Goto(r, l)
      PROVE  EvidenceInMemory'
  BY <1>1, RecordsComplete DEF Goto, EvidenceInMemory, RequestTypes, Afterwards, Labels, Calls
<1>2. ASSUME NEW c, Answer(r, c) PROVE EvidenceInMemory'
  BY <1>2, RecordsComplete DEF Answer, EvidenceInMemory, RequestTypes, Afterwards, Labels, Calls
<1>3. ASSUME NEW c, Throw(r, c) PROVE EvidenceInMemory'
  BY <1>3, RecordsComplete
  DEF Throw, Answer, EvidenceInMemory, RequestTypes, Afterwards, Labels, Calls
<1>4. ASSUME Finish(r) PROVE EvidenceInMemory'
  BY <1>4, RecordsComplete DEF Finish, EvidenceInMemory, RequestTypes, Afterwards, Labels, Calls
<1>5. ASSUME NEW x, NEW c, NEW l \in Afterwards, Complete(x), Put(r, x, l, c)
      PROVE  EvidenceInMemory'
  BY <1>5, RecordsComplete DEF Put, EvidenceInMemory, RequestTypes, Afterwards, Labels, Calls
<1>6. ASSUME NEW l \in Labels, cmd[r].job \in Jobs,
             (l \in {"herdr_close", "git_cleanup"} => Found(r).state = "handoff_ready"),
             Keep(r, l)
      PROVE  EvidenceInMemory'
  BY <1>6, RecordsComplete
  DEF Keep, Found, EvidenceComplete, EvidenceInMemory, RequestTypes, Afterwards, Labels, Calls
<1>7. ASSUME RegistryTypes, Load(r) PROVE EvidenceInMemory'
  BY <1>7, RecordsComplete
  DEF Load, EvidenceComplete, RegistryTypes, EvidenceInMemory, RequestTypes, Afterwards,
      Labels, Calls
<1>8. ASSUME Resume(r) PROVE EvidenceInMemory'
  BY <1>8, RecordsComplete DEF Resume, EvidenceInMemory, RequestTypes, Afterwards, Labels, Calls
<1>9. ASSUME PutThrows(r) PROVE EvidenceInMemory'
  BY <1>9, <1>3, <1>4, RecordsComplete
  DEF PutThrows, EvidenceInMemory, RequestTypes, Afterwards, Labels, Calls
<1>10. ASSUME PutReturns(r) PROVE EvidenceInMemory'
  BY <1>10, <1>2, <1>4, <1>8, RecordsComplete
  DEF PutReturns, EvidenceInMemory, RequestTypes, Afterwards, Labels, Calls
<1> QED BY <1>1, <1>2, <1>3, <1>4, <1>5, <1>6, <1>7, <1>8, <1>9, <1>10

\* Every step of the broker preserves the invariant.
LEMMA Inductive == ASSUME IInv, [Next]_vars PROVE IInv'
<1> USE DEF IInv, TypeOK
<1>1. ASSUME NEW r \in Requests, Issue(r) PROVE IInv'
  <2> USE <1>1
  DEF Issue, At, Reads, Found, Absent, Take, registryVars, worldVars, Goto, Answer, Throw,
      Put, PutThrows, PutReturns, Finish, Keep
  <2>1. RegistryTypes'
    BY DEF RegistryTypes, RequestTypes, CommandsPlaced, Keys
  <2>2. RequestTypes'
    BY BrokerAssumption
    DEF RequestTypes, RegistryTypes, CommandsPlaced, Keys, Labels, Calls, Afterwards, Replies,
        Observable, States, BrokerAssumption
  <2>3. WorldTypes'
    BY BrokerAssumption DEF WorldTypes, BrokerAssumption, CommandsPlaced, RequestTypes
  <2>4. CommandsPlaced'
    BY BrokerAssumption
    DEF CommandsPlaced, RequestTypes, Labels, Calls, Afterwards, Replies, Observable, States,
        BrokerAssumption
  <2>5. LocksHeld'
    BY DEF CommandsPlaced, LocksHeld, Inside, Creating, RequestTypes, RegistryTypes,
           Labels, Calls, Afterwards, Replies, Observable, States
  <2>6. EvidenceComplete'
    BY DEF EvidenceComplete, EvidenceInMemory, RequestTypes, CommandsPlaced
  <2>7. EvidenceInMemory'
    BY RecordTypes, RecordsComplete
    DEF EvidenceComplete, EvidenceInMemory, RequestTypes, RegistryTypes, CommandsPlaced,
        Labels, Calls, Afterwards, Replies, Observable, States
  <2> QED BY <2>1, <2>2, <2>3, <2>4, <2>5, <2>6, <2>7
<1>2. ASSUME NEW r \in Requests, LockJob(r) PROVE IInv'
  <2> USE <1>2 DEF LockJob, At, Reads, Found, Absent, Take, registryVars, worldVars
  <2>1. RegistryTypes'
    BY DEF RegistryTypes, RequestTypes, CommandsPlaced, Keys
  <2>2. RequestTypes'
    BY RecordTypes, MoveTypes
    DEF RequestTypes, RegistryTypes, CommandsPlaced, Keys, Labels, Calls, Afterwards, Replies,
        Observable, States
  <2>3. WorldTypes'
    BY BrokerAssumption DEF WorldTypes, BrokerAssumption, CommandsPlaced, RequestTypes
  <2>4. CommandsPlaced'
    BY MoveCommands
    DEF CommandsPlaced, RequestTypes, Labels, Calls, Afterwards, Replies, Observable, States
  <2>5. LocksHeld'
    BY DEF CommandsPlaced, LocksHeld, Inside, Creating, RequestTypes, RegistryTypes,
           Labels, Calls, Afterwards, Replies, Observable, States, Finish, Goto
  <2>6. EvidenceComplete'
    BY DEF EvidenceComplete, EvidenceInMemory, RequestTypes, CommandsPlaced
  <2>7. EvidenceInMemory'
    BY RecordTypes, MoveEvidence, RecordsComplete
    DEF EvidenceComplete, EvidenceInMemory, RequestTypes, RegistryTypes, CommandsPlaced,
        Labels, Calls, Afterwards, Replies, Observable, States
  <2> QED BY <2>1, <2>2, <2>3, <2>4, <2>5, <2>6, <2>7
<1>3. ASSUME NEW r \in Requests, JobBusy(r) PROVE IInv'
  <2> USE <1>3 DEF JobBusy, At, Reads, Found, Absent, Take, registryVars, worldVars
  <2>1. RegistryTypes'
    BY DEF RegistryTypes, RequestTypes, CommandsPlaced, Keys
  <2>2. RequestTypes'
    BY RecordTypes, MoveTypes
    DEF RequestTypes, RegistryTypes, CommandsPlaced, Keys, Labels, Calls, Afterwards, Replies,
        Observable, States
  <2>3. WorldTypes'
    BY BrokerAssumption DEF WorldTypes, BrokerAssumption, CommandsPlaced, RequestTypes
  <2>4. CommandsPlaced'
    BY MoveCommands
    DEF CommandsPlaced, RequestTypes, Labels, Calls, Afterwards, Replies, Observable, States
  <2>5. LocksHeld'
    BY MoveLocks
    DEF CommandsPlaced, LocksHeld, Inside, Creating, RequestTypes, RegistryTypes, Labels,
        Calls, Afterwards, Replies, Observable, States
  <2>6. EvidenceComplete'
    BY DEF EvidenceComplete, EvidenceInMemory, RequestTypes, CommandsPlaced
  <2>7. EvidenceInMemory'
    BY RecordTypes, MoveEvidence, RecordsComplete
    DEF EvidenceComplete, EvidenceInMemory, RequestTypes, RegistryTypes, CommandsPlaced,
        Labels, Calls, Afterwards, Replies, Observable, States
  <2> QED BY <2>1, <2>2, <2>3, <2>4, <2>5, <2>6, <2>7
<1>4. ASSUME NEW r \in Requests, GetFails(r) PROVE IInv'
  <2> USE <1>4 DEF GetFails, At, Reads, Found, Absent, Take, registryVars, worldVars
  <2>1. RegistryTypes'
    BY DEF RegistryTypes, RequestTypes, CommandsPlaced, Keys
  <2>2. RequestTypes'
    BY RecordTypes, MoveTypes
    DEF RequestTypes, RegistryTypes, CommandsPlaced, Keys, Labels, Calls, Afterwards, Replies,
        Observable, States
  <2>3. WorldTypes'
    BY BrokerAssumption DEF WorldTypes, BrokerAssumption, CommandsPlaced, RequestTypes
  <2>4. CommandsPlaced'
    BY MoveCommands
    DEF CommandsPlaced, RequestTypes, Labels, Calls, Afterwards, Replies, Observable, States
  <2>5. LocksHeld'
    BY MoveLocks
    DEF CommandsPlaced, LocksHeld, Inside, Creating, RequestTypes, RegistryTypes, Labels,
        Calls, Afterwards, Replies, Observable, States
  <2>6. EvidenceComplete'
    BY DEF EvidenceComplete, EvidenceInMemory, RequestTypes, CommandsPlaced
  <2>7. EvidenceInMemory'
    BY RecordTypes, MoveEvidence, RecordsComplete
    DEF EvidenceComplete, EvidenceInMemory, RequestTypes, RegistryTypes, CommandsPlaced,
        Labels, Calls, Afterwards, Replies, Observable, States
  <2> QED BY <2>1, <2>2, <2>3, <2>4, <2>5, <2>6, <2>7
<1>5. ASSUME NEW r \in Requests, CreateJob(r) PROVE IInv'
  <2> USE <1>5 DEF CreateJob, At, Reads, Found, Absent, Take, registryVars, worldVars
  <2>1. RegistryTypes'
    BY DEF RegistryTypes, RequestTypes, CommandsPlaced, Keys
  <2>2. RequestTypes'
    BY RecordTypes, MoveTypes
    DEF RequestTypes, RegistryTypes, CommandsPlaced, Keys, Labels, Calls, Afterwards, Replies,
        Observable, States
  <2>3. WorldTypes'
    BY BrokerAssumption DEF WorldTypes, BrokerAssumption, CommandsPlaced, RequestTypes
  <2>4. CommandsPlaced'
    BY MoveCommands
    DEF CommandsPlaced, RequestTypes, Labels, Calls, Afterwards, Replies, Observable, States
  <2>5. LocksHeld'
    BY MoveLocks
    DEF CommandsPlaced, LocksHeld, Inside, Creating, RequestTypes, RegistryTypes, Labels,
        Calls, Afterwards, Replies, Observable, States
  <2>6. EvidenceComplete'
    BY DEF EvidenceComplete, EvidenceInMemory, RequestTypes, CommandsPlaced
  <2>7. EvidenceInMemory'
    BY RecordTypes, MoveEvidence, RecordsComplete
    DEF EvidenceComplete, EvidenceInMemory, RequestTypes, RegistryTypes, CommandsPlaced,
        Labels, Calls, Afterwards, Replies, Observable, States
  <2> QED BY <2>1, <2>2, <2>3, <2>4, <2>5, <2>6, <2>7
<1>6. ASSUME NEW r \in Requests, AbsentJob(r) PROVE IInv'
  <2> USE <1>6 DEF AbsentJob, At, Reads, Found, Absent, Take, registryVars, worldVars
  <2>1. RegistryTypes'
    BY DEF RegistryTypes, RequestTypes, CommandsPlaced, Keys
  <2>2. RequestTypes'
    BY RecordTypes, MoveTypes
    DEF RequestTypes, RegistryTypes, CommandsPlaced, Keys, Labels, Calls, Afterwards, Replies,
        Observable, States
  <2>3. WorldTypes'
    BY BrokerAssumption DEF WorldTypes, BrokerAssumption, CommandsPlaced, RequestTypes
  <2>4. CommandsPlaced'
    BY MoveCommands
    DEF CommandsPlaced, RequestTypes, Labels, Calls, Afterwards, Replies, Observable, States
  <2>5. LocksHeld'
    BY MoveLocks
    DEF CommandsPlaced, LocksHeld, Inside, Creating, RequestTypes, RegistryTypes, Labels,
        Calls, Afterwards, Replies, Observable, States
  <2>6. EvidenceComplete'
    BY DEF EvidenceComplete, EvidenceInMemory, RequestTypes, CommandsPlaced
  <2>7. EvidenceInMemory'
    BY RecordTypes, MoveEvidence, RecordsComplete
    DEF EvidenceComplete, EvidenceInMemory, RequestTypes, RegistryTypes, CommandsPlaced,
        Labels, Calls, Afterwards, Replies, Observable, States
  <2> QED BY <2>1, <2>2, <2>3, <2>4, <2>5, <2>6, <2>7
<1>7. ASSUME NEW r \in Requests, PromptJob(r) PROVE IInv'
  <2> USE <1>7 DEF PromptJob, At, Reads, Found, Absent, Take, registryVars, worldVars
  <2>1. RegistryTypes'
    BY DEF RegistryTypes, RequestTypes, CommandsPlaced, Keys
  <2>2. RequestTypes'
    BY RecordTypes, MoveTypes
    DEF RequestTypes, RegistryTypes, CommandsPlaced, Keys, Labels, Calls, Afterwards, Replies,
        Observable, States
  <2>3. WorldTypes'
    BY BrokerAssumption DEF WorldTypes, BrokerAssumption, CommandsPlaced, RequestTypes
  <2>4. CommandsPlaced'
    BY MoveCommands
    DEF CommandsPlaced, RequestTypes, Labels, Calls, Afterwards, Replies, Observable, States
  <2>5. LocksHeld'
    BY MoveLocks
    DEF CommandsPlaced, LocksHeld, Inside, Creating, RequestTypes, RegistryTypes, Labels,
        Calls, Afterwards, Replies, Observable, States
  <2>6. EvidenceComplete'
    BY DEF EvidenceComplete, EvidenceInMemory, RequestTypes, CommandsPlaced
  <2>7. EvidenceInMemory'
    BY RecordTypes, MoveEvidence, RecordsComplete
    DEF EvidenceComplete, EvidenceInMemory, RequestTypes, RegistryTypes, CommandsPlaced,
        Labels, Calls, Afterwards, Replies, Observable, States
  <2> QED BY <2>1, <2>2, <2>3, <2>4, <2>5, <2>6, <2>7
<1>8. ASSUME NEW r \in Requests, JobStatus(r) PROVE IInv'
  <2> USE <1>8 DEF JobStatus, At, Reads, Found, Absent, Take, registryVars, worldVars
  <2>1. RegistryTypes'
    BY DEF RegistryTypes, RequestTypes, CommandsPlaced, Keys
  <2>2. RequestTypes'
    BY RecordTypes, MoveTypes
    DEF RequestTypes, RegistryTypes, CommandsPlaced, Keys, Labels, Calls, Afterwards, Replies,
        Observable, States
  <2>3. WorldTypes'
    BY BrokerAssumption DEF WorldTypes, BrokerAssumption, CommandsPlaced, RequestTypes
  <2>4. CommandsPlaced'
    BY MoveCommands
    DEF CommandsPlaced, RequestTypes, Labels, Calls, Afterwards, Replies, Observable, States
  <2>5. LocksHeld'
    BY MoveLocks
    DEF CommandsPlaced, LocksHeld, Inside, Creating, RequestTypes, RegistryTypes, Labels,
        Calls, Afterwards, Replies, Observable, States
  <2>6. EvidenceComplete'
    BY DEF EvidenceComplete, EvidenceInMemory, RequestTypes, CommandsPlaced
  <2>7. EvidenceInMemory'
    BY RecordTypes, MoveEvidence, RecordsComplete
    DEF EvidenceComplete, EvidenceInMemory, RequestTypes, RegistryTypes, CommandsPlaced,
        Labels, Calls, Afterwards, Replies, Observable, States
  <2> QED BY <2>1, <2>2, <2>3, <2>4, <2>5, <2>6, <2>7
<1>9. ASSUME NEW r \in Requests, ReadJob(r) PROVE IInv'
  <2> USE <1>9 DEF ReadJob, At, Reads, Found, Absent, Take, registryVars, worldVars
  <2>1. RegistryTypes'
    BY DEF RegistryTypes, RequestTypes, CommandsPlaced, Keys
  <2>2. RequestTypes'
    BY RecordTypes, MoveTypes
    DEF RequestTypes, RegistryTypes, CommandsPlaced, Keys, Labels, Calls, Afterwards, Replies,
        Observable, States
  <2>3. WorldTypes'
    BY BrokerAssumption DEF WorldTypes, BrokerAssumption, CommandsPlaced, RequestTypes
  <2>4. CommandsPlaced'
    BY MoveCommands
    DEF CommandsPlaced, RequestTypes, Labels, Calls, Afterwards, Replies, Observable, States
  <2>5. LocksHeld'
    BY MoveLocks
    DEF CommandsPlaced, LocksHeld, Inside, Creating, RequestTypes, RegistryTypes, Labels,
        Calls, Afterwards, Replies, Observable, States
  <2>6. EvidenceComplete'
    BY DEF EvidenceComplete, EvidenceInMemory, RequestTypes, CommandsPlaced
  <2>7. EvidenceInMemory'
    BY RecordTypes, MoveEvidence, RecordsComplete
    DEF EvidenceComplete, EvidenceInMemory, RequestTypes, RegistryTypes, CommandsPlaced,
        Labels, Calls, Afterwards, Replies, Observable, States
  <2> QED BY <2>1, <2>2, <2>3, <2>4, <2>5, <2>6, <2>7
<1>10. ASSUME NEW r \in Requests, HandoffJob(r) PROVE IInv'
  <2> USE <1>10 DEF HandoffJob, At, Reads, Found, Absent, Take, registryVars, worldVars
  <2>1. RegistryTypes'
    BY DEF RegistryTypes, RequestTypes, CommandsPlaced, Keys
  <2>2. RequestTypes'
    BY RecordTypes, MoveTypes
    DEF RequestTypes, RegistryTypes, CommandsPlaced, Keys, Labels, Calls, Afterwards, Replies,
        Observable, States
  <2>3. WorldTypes'
    BY BrokerAssumption DEF WorldTypes, BrokerAssumption, CommandsPlaced, RequestTypes
  <2>4. CommandsPlaced'
    BY MoveCommands
    DEF CommandsPlaced, RequestTypes, Labels, Calls, Afterwards, Replies, Observable, States
  <2>5. LocksHeld'
    BY MoveLocks
    DEF CommandsPlaced, LocksHeld, Inside, Creating, RequestTypes, RegistryTypes, Labels,
        Calls, Afterwards, Replies, Observable, States
  <2>6. EvidenceComplete'
    BY DEF EvidenceComplete, EvidenceInMemory, RequestTypes, CommandsPlaced
  <2>7. EvidenceInMemory'
    BY RecordTypes, MoveEvidence, RecordsComplete
    DEF EvidenceComplete, EvidenceInMemory, RequestTypes, RegistryTypes, CommandsPlaced,
        Labels, Calls, Afterwards, Replies, Observable, States
  <2> QED BY <2>1, <2>2, <2>3, <2>4, <2>5, <2>6, <2>7
<1>11. ASSUME NEW r \in Requests, RecoverJob(r) PROVE IInv'
  <2> USE <1>11 DEF RecoverJob, At, Reads, Found, Absent, Take, registryVars, worldVars
  <2>1. RegistryTypes'
    BY DEF RegistryTypes, RequestTypes, CommandsPlaced, Keys
  <2>2. RequestTypes'
    BY RecordTypes, MoveTypes
    DEF RequestTypes, RegistryTypes, CommandsPlaced, Keys, Labels, Calls, Afterwards, Replies,
        Observable, States
  <2>3. WorldTypes'
    BY BrokerAssumption DEF WorldTypes, BrokerAssumption, CommandsPlaced, RequestTypes
  <2>4. CommandsPlaced'
    BY MoveCommands
    DEF CommandsPlaced, RequestTypes, Labels, Calls, Afterwards, Replies, Observable, States
  <2>5. LocksHeld'
    BY MoveLocks
    DEF CommandsPlaced, LocksHeld, Inside, Creating, RequestTypes, RegistryTypes, Labels,
        Calls, Afterwards, Replies, Observable, States
  <2>6. EvidenceComplete'
    BY DEF EvidenceComplete, EvidenceInMemory, RequestTypes, CommandsPlaced
  <2>7. EvidenceInMemory'
    BY RecordTypes, MoveEvidence, RecordsComplete
    DEF EvidenceComplete, EvidenceInMemory, RequestTypes, RegistryTypes, CommandsPlaced,
        Labels, Calls, Afterwards, Replies, Observable, States
  <2> QED BY <2>1, <2>2, <2>3, <2>4, <2>5, <2>6, <2>7
<1>12. ASSUME NEW r \in Requests, CloseJob(r) PROVE IInv'
  <2> USE <1>12 DEF CloseJob, At, Reads, Found, Absent, Take, registryVars, worldVars
  <2>1. RegistryTypes'
    BY DEF RegistryTypes, RequestTypes, CommandsPlaced, Keys
  <2>2. RequestTypes'
    BY RecordTypes, MoveTypes
    DEF RequestTypes, RegistryTypes, CommandsPlaced, Keys, Labels, Calls, Afterwards, Replies,
        Observable, States
  <2>3. WorldTypes'
    BY BrokerAssumption DEF WorldTypes, BrokerAssumption, CommandsPlaced, RequestTypes
  <2>4. CommandsPlaced'
    BY MoveCommands
    DEF CommandsPlaced, RequestTypes, Labels, Calls, Afterwards, Replies, Observable, States
  <2>5. LocksHeld'
    BY MoveLocks
    DEF CommandsPlaced, LocksHeld, Inside, Creating, RequestTypes, RegistryTypes, Labels,
        Calls, Afterwards, Replies, Observable, States
  <2>6. EvidenceComplete'
    BY DEF EvidenceComplete, EvidenceInMemory, RequestTypes, CommandsPlaced
  <2>7. EvidenceInMemory'
    BY RecordTypes, MoveEvidence, RecordsComplete
    DEF EvidenceComplete, EvidenceInMemory, RequestTypes, RegistryTypes, CommandsPlaced,
        Labels, Calls, Afterwards, Replies, Observable, States
  <2> QED BY <2>1, <2>2, <2>3, <2>4, <2>5, <2>6, <2>7
<1>13. ASSUME NEW r \in Requests, LockProject(r) PROVE IInv'
  <2> USE <1>13 DEF LockProject, At, Reads, Found, Absent, Take, registryVars, worldVars
  <2>1. RegistryTypes'
    BY DEF RegistryTypes, RequestTypes, CommandsPlaced, Keys
  <2>2. RequestTypes'
    BY RecordTypes, MoveTypes
    DEF RequestTypes, RegistryTypes, CommandsPlaced, Keys, Labels, Calls, Afterwards, Replies,
        Observable, States
  <2>3. WorldTypes'
    BY BrokerAssumption DEF WorldTypes, BrokerAssumption, CommandsPlaced, RequestTypes
  <2>4. CommandsPlaced'
    BY MoveCommands
    DEF CommandsPlaced, RequestTypes, Labels, Calls, Afterwards, Replies, Observable, States
  <2>5. LocksHeld'
    BY DEF CommandsPlaced, LocksHeld, Inside, Creating, RequestTypes, RegistryTypes,
           Labels, Calls, Afterwards, Replies, Observable, States, Finish, Goto
  <2>6. EvidenceComplete'
    BY DEF EvidenceComplete, EvidenceInMemory, RequestTypes, CommandsPlaced
  <2>7. EvidenceInMemory'
    BY RecordTypes, MoveEvidence, RecordsComplete
    DEF EvidenceComplete, EvidenceInMemory, RequestTypes, RegistryTypes, CommandsPlaced,
        Labels, Calls, Afterwards, Replies, Observable, States
  <2> QED BY <2>1, <2>2, <2>3, <2>4, <2>5, <2>6, <2>7
<1>14. ASSUME NEW r \in Requests, ProjectBusy(r) PROVE IInv'
  <2> USE <1>14 DEF ProjectBusy, At, Reads, Found, Absent, Take, registryVars, worldVars
  <2>1. RegistryTypes'
    BY DEF RegistryTypes, RequestTypes, CommandsPlaced, Keys
  <2>2. RequestTypes'
    BY RecordTypes, MoveTypes
    DEF RequestTypes, RegistryTypes, CommandsPlaced, Keys, Labels, Calls, Afterwards, Replies,
        Observable, States
  <2>3. WorldTypes'
    BY BrokerAssumption DEF WorldTypes, BrokerAssumption, CommandsPlaced, RequestTypes
  <2>4. CommandsPlaced'
    BY MoveCommands
    DEF CommandsPlaced, RequestTypes, Labels, Calls, Afterwards, Replies, Observable, States
  <2>5. LocksHeld'
    BY MoveLocks
    DEF CommandsPlaced, LocksHeld, Inside, Creating, RequestTypes, RegistryTypes, Labels,
        Calls, Afterwards, Replies, Observable, States
  <2>6. EvidenceComplete'
    BY DEF EvidenceComplete, EvidenceInMemory, RequestTypes, CommandsPlaced
  <2>7. EvidenceInMemory'
    BY RecordTypes, MoveEvidence, RecordsComplete
    DEF EvidenceComplete, EvidenceInMemory, RequestTypes, RegistryTypes, CommandsPlaced,
        Labels, Calls, Afterwards, Replies, Observable, States
  <2> QED BY <2>1, <2>2, <2>3, <2>4, <2>5, <2>6, <2>7
<1>15. ASSUME NEW r \in Requests, RepeatedGet(r) PROVE IInv'
  <2> USE <1>15 DEF RepeatedGet, At, Reads, Found, Absent, Take, registryVars, worldVars
  <2>1. RegistryTypes'
    BY DEF RegistryTypes, RequestTypes, CommandsPlaced, Keys
  <2>2. RequestTypes'
    BY RecordTypes, MoveTypes
    DEF RequestTypes, RegistryTypes, CommandsPlaced, Keys, Labels, Calls, Afterwards, Replies,
        Observable, States
  <2>3. WorldTypes'
    BY BrokerAssumption DEF WorldTypes, BrokerAssumption, CommandsPlaced, RequestTypes
  <2>4. CommandsPlaced'
    BY MoveCommands
    DEF CommandsPlaced, RequestTypes, Labels, Calls, Afterwards, Replies, Observable, States
  <2>5. LocksHeld'
    BY MoveLocks
    DEF CommandsPlaced, LocksHeld, Inside, Creating, RequestTypes, RegistryTypes, Labels,
        Calls, Afterwards, Replies, Observable, States
  <2>6. EvidenceComplete'
    BY DEF EvidenceComplete, EvidenceInMemory, RequestTypes, CommandsPlaced
  <2>7. EvidenceInMemory'
    BY RecordTypes, MoveEvidence, RecordsComplete
    DEF EvidenceComplete, EvidenceInMemory, RequestTypes, RegistryTypes, CommandsPlaced,
        Labels, Calls, Afterwards, Replies, Observable, States
  <2> QED BY <2>1, <2>2, <2>3, <2>4, <2>5, <2>6, <2>7
<1>16. ASSUME NEW r \in Requests, GitCreate(r) PROVE IInv'
  <2> USE <1>16 DEF GitCreate, At, Reads, Found, Absent, Take, registryVars, worldVars
  <2>1. RegistryTypes'
    BY DEF RegistryTypes, RequestTypes, CommandsPlaced, Keys
  <2>2. RequestTypes'
    BY RecordTypes, MoveTypes
    DEF RequestTypes, RegistryTypes, CommandsPlaced, Keys, Labels, Calls, Afterwards, Replies,
        Observable, States
  <2>3. WorldTypes'
    BY BrokerAssumption DEF WorldTypes, BrokerAssumption, CommandsPlaced, RequestTypes
  <2>4. CommandsPlaced'
    BY MoveCommands
    DEF CommandsPlaced, RequestTypes, Labels, Calls, Afterwards, Replies, Observable, States
  <2>5. LocksHeld'
    BY MoveLocks
    DEF CommandsPlaced, LocksHeld, Inside, Creating, RequestTypes, RegistryTypes, Labels,
        Calls, Afterwards, Replies, Observable, States
  <2>6. EvidenceComplete'
    BY DEF EvidenceComplete, EvidenceInMemory, RequestTypes, CommandsPlaced
  <2>7. EvidenceInMemory'
    BY RecordTypes, MoveEvidence, RecordsComplete
    DEF EvidenceComplete, EvidenceInMemory, RequestTypes, RegistryTypes, CommandsPlaced,
        Labels, Calls, Afterwards, Replies, Observable, States
  <2> QED BY <2>1, <2>2, <2>3, <2>4, <2>5, <2>6, <2>7
<1>17. ASSUME NEW r \in Requests, HerdrCreate(r) PROVE IInv'
  <2> USE <1>17 DEF HerdrCreate, At, Reads, Found, Absent, Take, registryVars, worldVars
  <2>1. RegistryTypes'
    BY DEF RegistryTypes, RequestTypes, CommandsPlaced, Keys
  <2>2. RequestTypes'
    BY RecordTypes, MoveTypes
    DEF RequestTypes, RegistryTypes, CommandsPlaced, Keys, Labels, Calls, Afterwards, Replies,
        Observable, States
  <2>3. WorldTypes'
    BY DEF WorldTypes, Places, CommandsPlaced
  <2>4. CommandsPlaced'
    BY MoveCommands
    DEF CommandsPlaced, RequestTypes, Labels, Calls, Afterwards, Replies, Observable, States
  <2>5. LocksHeld'
    BY MoveLocks
    DEF CommandsPlaced, LocksHeld, Inside, Creating, RequestTypes, RegistryTypes, Labels,
        Calls, Afterwards, Replies, Observable, States
  <2>6. EvidenceComplete'
    BY DEF EvidenceComplete, EvidenceInMemory, RequestTypes, CommandsPlaced
  <2>7. EvidenceInMemory'
    BY RecordTypes, MoveEvidence, RecordsComplete
    DEF EvidenceComplete, EvidenceInMemory, RequestTypes, RegistryTypes, CommandsPlaced,
        Labels, Calls, Afterwards, Replies, Observable, States
  <2> QED BY <2>1, <2>2, <2>3, <2>4, <2>5, <2>6, <2>7
<1>18. ASSUME NEW r \in Requests, HerdrPrompt(r) PROVE IInv'
  <2> USE <1>18
  DEF HerdrPrompt, At, Reads, Found, Absent, Take, registryVars, worldVars, Category
  <2>1. RegistryTypes'
    BY DEF RegistryTypes, RequestTypes, CommandsPlaced, Keys
  <2>2. RequestTypes'
    BY RecordTypes, MoveTypes
    DEF RequestTypes, RegistryTypes, CommandsPlaced, Keys, Labels, Calls, Afterwards, Replies,
        Observable, States
  <2>3. WorldTypes'
    BY BrokerAssumption DEF WorldTypes, BrokerAssumption, CommandsPlaced, RequestTypes
  <2>4. CommandsPlaced'
    BY MoveCommands
    DEF CommandsPlaced, RequestTypes, Labels, Calls, Afterwards, Replies, Observable, States
  <2>5. LocksHeld'
    <3>1. Inside(r) /\ cmd[r].verb # "create_job" /\ pc[r] # "idle"
      BY DEF CommandsPlaced, Inside, Calls
    <3>2. UNCHANGED <<dirs, held>>
      OBVIOUS
    <3> QED BY <3>1, <3>2, MoveLocks DEF Afterwards, Calls
  <2>6. EvidenceComplete'
    BY DEF EvidenceComplete, EvidenceInMemory, RequestTypes, CommandsPlaced
  <2>7. EvidenceInMemory'
    BY RecordTypes, MoveEvidence, RecordsComplete
    DEF EvidenceComplete, EvidenceInMemory, RequestTypes, RegistryTypes, CommandsPlaced,
        Labels, Calls, Afterwards, Replies, Observable, States
  <2> QED BY <2>1, <2>2, <2>3, <2>4, <2>5, <2>6, <2>7
<1>19. ASSUME NEW r \in Requests, HerdrStatus(r) PROVE IInv'
  <2> USE <1>19
  DEF HerdrStatus, At, Reads, Found, Absent, Take, registryVars, worldVars, Category
  <2>1. RegistryTypes'
    BY DEF RegistryTypes, RequestTypes, CommandsPlaced, Keys
  <2>2. RequestTypes'
    BY RecordTypes, MoveTypes
    DEF RequestTypes, RegistryTypes, CommandsPlaced, Keys, Labels, Calls, Afterwards, Replies,
        Observable, States
  <2>3. WorldTypes'
    BY BrokerAssumption DEF WorldTypes, BrokerAssumption, CommandsPlaced, RequestTypes
  <2>4. CommandsPlaced'
    BY MoveCommands
    DEF CommandsPlaced, RequestTypes, Labels, Calls, Afterwards, Replies, Observable, States
  <2>5. LocksHeld'
    <3>1. Inside(r) /\ cmd[r].verb # "create_job" /\ pc[r] # "idle"
      BY DEF CommandsPlaced, Inside, Calls
    <3>2. UNCHANGED <<dirs, held>>
      OBVIOUS
    <3> QED BY <3>1, <3>2, MoveLocks DEF Afterwards, Calls
  <2>6. EvidenceComplete'
    BY DEF EvidenceComplete, EvidenceInMemory, RequestTypes, CommandsPlaced
  <2>7. EvidenceInMemory'
    BY RecordTypes, MoveEvidence, RecordsComplete
    DEF EvidenceComplete, EvidenceInMemory, RequestTypes, RegistryTypes, CommandsPlaced,
        Labels, Calls, Afterwards, Replies, Observable, States
  <2> QED BY <2>1, <2>2, <2>3, <2>4, <2>5, <2>6, <2>7
<1>20. ASSUME NEW r \in Requests, HerdrRead(r) PROVE IInv'
  <2> USE <1>20 DEF HerdrRead, At, Reads, Found, Absent, Take, registryVars, worldVars
  <2>1. RegistryTypes'
    BY DEF RegistryTypes, RequestTypes, CommandsPlaced, Keys
  <2>2. RequestTypes'
    BY RecordTypes, MoveTypes
    DEF RequestTypes, RegistryTypes, CommandsPlaced, Keys, Labels, Calls, Afterwards, Replies,
        Observable, States
  <2>3. WorldTypes'
    BY BrokerAssumption DEF WorldTypes, BrokerAssumption, CommandsPlaced, RequestTypes
  <2>4. CommandsPlaced'
    BY MoveCommands
    DEF CommandsPlaced, RequestTypes, Labels, Calls, Afterwards, Replies, Observable, States
  <2>5. LocksHeld'
    BY MoveLocks
    DEF CommandsPlaced, LocksHeld, Inside, Creating, RequestTypes, RegistryTypes, Labels,
        Calls, Afterwards, Replies, Observable, States
  <2>6. EvidenceComplete'
    BY DEF EvidenceComplete, EvidenceInMemory, RequestTypes, CommandsPlaced
  <2>7. EvidenceInMemory'
    BY RecordTypes, MoveEvidence, RecordsComplete
    DEF EvidenceComplete, EvidenceInMemory, RequestTypes, RegistryTypes, CommandsPlaced,
        Labels, Calls, Afterwards, Replies, Observable, States
  <2> QED BY <2>1, <2>2, <2>3, <2>4, <2>5, <2>6, <2>7
<1>21. ASSUME NEW r \in Requests, Checkpoint(r) PROVE IInv'
  <2> USE <1>21 DEF Checkpoint, At, Reads, Found, Absent, Take, registryVars, worldVars
  <2>1. RegistryTypes'
    BY DEF RegistryTypes, RequestTypes, CommandsPlaced, Keys
  <2>2. RequestTypes'
    BY RecordTypes, MoveTypes
    DEF RequestTypes, RegistryTypes, CommandsPlaced, Keys, Labels, Calls, Afterwards, Replies,
        Observable, States
  <2>3. WorldTypes'
    BY BrokerAssumption DEF WorldTypes, BrokerAssumption, CommandsPlaced, RequestTypes
  <2>4. CommandsPlaced'
    BY MoveCommands
    DEF CommandsPlaced, RequestTypes, Labels, Calls, Afterwards, Replies, Observable, States
  <2>5. LocksHeld'
    <3>1. Inside(r) /\ cmd[r].verb # "create_job" /\ pc[r] # "idle"
      BY DEF CommandsPlaced, Inside, Calls
    <3>2. UNCHANGED <<dirs, held>>
      OBVIOUS
    <3> QED BY <3>1, <3>2, MoveLocks DEF Afterwards, Calls
  <2>6. EvidenceComplete'
    BY DEF EvidenceComplete, EvidenceInMemory, RequestTypes, CommandsPlaced
  <2>7. EvidenceInMemory'
    BY RecordTypes, MoveEvidence, RecordsComplete
    DEF EvidenceComplete, EvidenceInMemory, RequestTypes, RegistryTypes, CommandsPlaced,
        Labels, Calls, Afterwards, Replies, Observable, States
  <2> QED BY <2>1, <2>2, <2>3, <2>4, <2>5, <2>6, <2>7
<1>22. ASSUME NEW r \in Requests, HandoffReturns(r) PROVE IInv'
  <2> USE <1>22 DEF HandoffReturns, At, Reads, Found, Absent, Take, registryVars, worldVars
  <2>1. RegistryTypes'
    BY DEF RegistryTypes, RequestTypes, CommandsPlaced, Keys
  <2>2. RequestTypes'
    BY RecordTypes, MoveTypes
    DEF RequestTypes, RegistryTypes, CommandsPlaced, Keys, Labels, Calls, Afterwards, Replies,
        Observable, States
  <2>3. WorldTypes'
    BY BrokerAssumption DEF WorldTypes, BrokerAssumption, CommandsPlaced, RequestTypes
  <2>4. CommandsPlaced'
    BY MoveCommands
    DEF CommandsPlaced, RequestTypes, Labels, Calls, Afterwards, Replies, Observable, States
  <2>5. LocksHeld'
    <3>1. Inside(r) /\ cmd[r].verb # "create_job" /\ pc[r] # "idle"
      BY DEF CommandsPlaced, Inside, Calls
    <3>2. UNCHANGED <<dirs, held>>
      OBVIOUS
    <3> QED BY <3>1, <3>2, MoveLocks DEF Afterwards, Calls
  <2>6. EvidenceComplete'
    BY DEF EvidenceComplete, EvidenceInMemory, RequestTypes, CommandsPlaced
  <2>7. EvidenceInMemory'
    BY RecordTypes, MoveEvidence, RecordsComplete
    DEF EvidenceComplete, EvidenceInMemory, RequestTypes, RegistryTypes, CommandsPlaced,
        Labels, Calls, Afterwards, Replies, Observable, States
  <2> QED BY <2>1, <2>2, <2>3, <2>4, <2>5, <2>6, <2>7
<1>23. ASSUME NEW r \in Requests, HerdrClose(r) PROVE IInv'
  <2> USE <1>23 DEF HerdrClose, At, Reads, Found, Absent, Take, registryVars, worldVars
  <2>1. RegistryTypes'
    BY DEF RegistryTypes, RequestTypes, CommandsPlaced, Keys
  <2>2. RequestTypes'
    BY RecordTypes, MoveTypes
    DEF RequestTypes, RegistryTypes, CommandsPlaced, Keys, Labels, Calls, Afterwards, Replies,
        Observable, States
  <2>3. WorldTypes'
    BY BrokerAssumption DEF WorldTypes, BrokerAssumption, CommandsPlaced, RequestTypes
  <2>4. CommandsPlaced'
    BY MoveCommands
    DEF CommandsPlaced, RequestTypes, Labels, Calls, Afterwards, Replies, Observable, States
  <2>5. LocksHeld'
    BY MoveLocks
    DEF CommandsPlaced, LocksHeld, Inside, Creating, RequestTypes, RegistryTypes, Labels,
        Calls, Afterwards, Replies, Observable, States
  <2>6. EvidenceComplete'
    BY DEF EvidenceComplete, EvidenceInMemory, RequestTypes, CommandsPlaced
  <2>7. EvidenceInMemory'
    BY RecordTypes, MoveEvidence, RecordsComplete
    DEF EvidenceComplete, EvidenceInMemory, RequestTypes, RegistryTypes, CommandsPlaced,
        Labels, Calls, Afterwards, Replies, Observable, States
  <2> QED BY <2>1, <2>2, <2>3, <2>4, <2>5, <2>6, <2>7
<1>24. ASSUME NEW r \in Requests, GitCleanup(r) PROVE IInv'
  <2> USE <1>24 DEF GitCleanup, At, Reads, Found, Absent, Take, registryVars, worldVars
  <2>1. RegistryTypes'
    BY DEF RegistryTypes, RequestTypes, CommandsPlaced, Keys
  <2>2. RequestTypes'
    BY RecordTypes, MoveTypes
    DEF RequestTypes, RegistryTypes, CommandsPlaced, Keys, Labels, Calls, Afterwards, Replies,
        Observable, States
  <2>3. WorldTypes'
    BY BrokerAssumption DEF WorldTypes, BrokerAssumption, CommandsPlaced, RequestTypes
  <2>4. CommandsPlaced'
    BY MoveCommands
    DEF CommandsPlaced, RequestTypes, Labels, Calls, Afterwards, Replies, Observable, States
  <2>5. LocksHeld'
    <3>1. Inside(r) /\ cmd[r].verb # "create_job" /\ pc[r] # "idle"
      BY DEF CommandsPlaced, Inside, Calls
    <3>2. UNCHANGED <<dirs, held>>
      OBVIOUS
    <3> QED BY <3>1, <3>2, MoveLocks DEF Afterwards, Calls
  <2>6. EvidenceComplete'
    BY DEF EvidenceComplete, EvidenceInMemory, RequestTypes, CommandsPlaced
  <2>7. EvidenceInMemory'
    BY RecordTypes, MoveEvidence, RecordsComplete
    DEF EvidenceComplete, EvidenceInMemory, RequestTypes, RegistryTypes, CommandsPlaced,
        Labels, Calls, Afterwards, Replies, Observable, States
  <2> QED BY <2>1, <2>2, <2>3, <2>4, <2>5, <2>6, <2>7
<1>25. ASSUME NEW r \in Requests, CallFails(r) PROVE IInv'
  <2> USE <1>25 DEF CallFails, At, Reads, Found, Absent, Take, registryVars, worldVars
  <2>1. RegistryTypes'
    BY DEF RegistryTypes, RequestTypes, CommandsPlaced, Keys
  <2>2. RequestTypes'
    BY RecordTypes, MoveTypes
    DEF RequestTypes, RegistryTypes, CommandsPlaced, Keys, Labels, Calls, Afterwards, Replies,
        Observable, States
  <2>3. WorldTypes'
    BY BrokerAssumption DEF WorldTypes, BrokerAssumption, CommandsPlaced, RequestTypes
  <2>4. CommandsPlaced'
    BY MoveCommands
    DEF CommandsPlaced, RequestTypes, Labels, Calls, Afterwards, Replies, Observable, States
  <2>5. LocksHeld'
    BY MoveLocks
    DEF CommandsPlaced, LocksHeld, Inside, Creating, RequestTypes, RegistryTypes, Labels,
        Calls, Afterwards, Replies, Observable, States
  <2>6. EvidenceComplete'
    BY DEF EvidenceComplete, EvidenceInMemory, RequestTypes, CommandsPlaced
  <2>7. EvidenceInMemory'
    BY RecordTypes, MoveEvidence, RecordsComplete
    DEF EvidenceComplete, EvidenceInMemory, RequestTypes, RegistryTypes, CommandsPlaced,
        Labels, Calls, Afterwards, Replies, Observable, States
  <2> QED BY <2>1, <2>2, <2>3, <2>4, <2>5, <2>6, <2>7
<1>26. ASSUME NEW r \in Requests, PutLoad(r) PROVE IInv'
  <2> USE <1>26 DEF PutLoad, At, Reads, Found, Absent, Take, registryVars, worldVars
  <2>1. RegistryTypes'
    BY DEF RegistryTypes, RequestTypes, CommandsPlaced, Keys
  <2>2. RequestTypes'
    BY RecordTypes, MoveTypes
    DEF RequestTypes, RegistryTypes, CommandsPlaced, Keys, Labels, Calls, Afterwards, Replies,
        Observable, States
  <2>3. WorldTypes'
    BY BrokerAssumption DEF WorldTypes, BrokerAssumption, CommandsPlaced, RequestTypes
  <2>4. CommandsPlaced'
    BY MoveCommands
    DEF CommandsPlaced, RequestTypes, Labels, Calls, Afterwards, Replies, Observable, States
  <2>5. LocksHeld'
    BY MoveLocks
    DEF CommandsPlaced, LocksHeld, Inside, Creating, RequestTypes, RegistryTypes, Labels,
        Calls, Afterwards, Replies, Observable, States
  <2>6. EvidenceComplete'
    BY DEF EvidenceComplete, EvidenceInMemory, RequestTypes, CommandsPlaced
  <2>7. EvidenceInMemory'
    BY RecordTypes, MoveEvidence, RecordsComplete
    DEF EvidenceComplete, EvidenceInMemory, RequestTypes, RegistryTypes, CommandsPlaced,
        Labels, Calls, Afterwards, Replies, Observable, States
  <2> QED BY <2>1, <2>2, <2>3, <2>4, <2>5, <2>6, <2>7
<1>27. ASSUME NEW r \in Requests, PutReplaces(r) PROVE IInv'
  <2> USE <1>27 DEF PutReplaces, At, Reads, Found, Absent, Take, registryVars, worldVars
  <2>1. RegistryTypes'
    BY DEF RegistryTypes, RequestTypes, CommandsPlaced, Keys
  <2>2. RequestTypes'
    BY RecordTypes, MoveTypes
    DEF RequestTypes, RegistryTypes, CommandsPlaced, Keys, Labels, Calls, Afterwards, Replies,
        Observable, States
  <2>3. WorldTypes'
    BY BrokerAssumption DEF WorldTypes, BrokerAssumption, CommandsPlaced, RequestTypes
  <2>4. CommandsPlaced'
    BY MoveCommands
    DEF CommandsPlaced, RequestTypes, Labels, Calls, Afterwards, Replies, Observable, States
  <2>5. LocksHeld'
    BY MoveLocks
    DEF CommandsPlaced, LocksHeld, Inside, Creating, RequestTypes, RegistryTypes, Labels,
        Calls, Afterwards, Replies, Observable, States
  <2>6. EvidenceComplete'
    BY DEF EvidenceComplete, EvidenceInMemory, RequestTypes, CommandsPlaced
  <2>7. EvidenceInMemory'
    BY RecordTypes, MoveEvidence, RecordsComplete
    DEF EvidenceComplete, EvidenceInMemory, RequestTypes, RegistryTypes, CommandsPlaced,
        Labels, Calls, Afterwards, Replies, Observable, States
  <2> QED BY <2>1, <2>2, <2>3, <2>4, <2>5, <2>6, <2>7
<1>28. ASSUME NEW r \in Requests, PutFails(r) PROVE IInv'
  <2> USE <1>28 DEF PutFails, At, Reads, Found, Absent, Take, registryVars, worldVars
  <2>1. RegistryTypes'
    BY DEF RegistryTypes, RequestTypes, CommandsPlaced, Keys
  <2>2. RequestTypes'
    BY RecordTypes, MoveTypes
    DEF RequestTypes, RegistryTypes, CommandsPlaced, Keys, Labels, Calls, Afterwards, Replies,
        Observable, States
  <2>3. WorldTypes'
    BY BrokerAssumption DEF WorldTypes, BrokerAssumption, CommandsPlaced, RequestTypes
  <2>4. CommandsPlaced'
    BY MoveCommands
    DEF CommandsPlaced, RequestTypes, Labels, Calls, Afterwards, Replies, Observable, States
  <2>5. LocksHeld'
    BY MoveLocks
    DEF CommandsPlaced, LocksHeld, Inside, Creating, RequestTypes, RegistryTypes, Labels,
        Calls, Afterwards, Replies, Observable, States
  <2>6. EvidenceComplete'
    BY DEF EvidenceComplete, EvidenceInMemory, RequestTypes, CommandsPlaced
  <2>7. EvidenceInMemory'
    BY RecordTypes, MoveEvidence, RecordsComplete
    DEF EvidenceComplete, EvidenceInMemory, RequestTypes, RegistryTypes, CommandsPlaced,
        Labels, Calls, Afterwards, Replies, Observable, States
  <2> QED BY <2>1, <2>2, <2>3, <2>4, <2>5, <2>6, <2>7
<1>29. ASSUME NEW r \in Requests, Unlock(r) PROVE IInv'
  <2> USE <1>29
  DEF Unlock, At, Reads, Found, Absent, Take, registryVars, worldVars, Innermost, Throwing
  <2>1. RegistryTypes'
    BY DEF RegistryTypes, RequestTypes, CommandsPlaced, Keys
  <2>2. RequestTypes'
    BY RecordTypes, MoveTypes
    DEF RequestTypes, RegistryTypes, CommandsPlaced, Keys, Labels, Calls, Afterwards, Replies,
        Observable, States
  <2>3. WorldTypes'
    BY BrokerAssumption DEF WorldTypes, BrokerAssumption, CommandsPlaced, RequestTypes
  <2>4. CommandsPlaced'
    BY MoveCommands
    DEF CommandsPlaced, RequestTypes, Labels, Calls, Afterwards, Replies, Observable, States
  <2>5. LocksHeld'
    BY DEF CommandsPlaced, LocksHeld, Inside, Creating, RequestTypes, RegistryTypes,
           Labels, Calls, Afterwards, Replies, Observable, States, Finish, Goto
  <2>6. EvidenceComplete'
    BY DEF EvidenceComplete, EvidenceInMemory, RequestTypes, CommandsPlaced
  <2>7. EvidenceInMemory'
    BY RecordTypes, MoveEvidence, RecordsComplete
    DEF EvidenceComplete, EvidenceInMemory, RequestTypes, RegistryTypes, CommandsPlaced,
        Labels, Calls, Afterwards, Replies, Observable, States
  <2> QED BY <2>1, <2>2, <2>3, <2>4, <2>5, <2>6, <2>7
<1>30. ASSUME NEW r \in Requests, CatchCertain(r) PROVE IInv'
  <2> USE <1>30 DEF CatchCertain, At, Reads, Found, Absent, Take, registryVars, worldVars
  <2>1. RegistryTypes'
    BY DEF RegistryTypes, RequestTypes, CommandsPlaced, Keys
  <2>2. RequestTypes'
    BY RecordTypes, MoveTypes
    DEF RequestTypes, RegistryTypes, CommandsPlaced, Keys, Labels, Calls, Afterwards, Replies,
        Observable, States
  <2>3. WorldTypes'
    BY BrokerAssumption DEF WorldTypes, BrokerAssumption, CommandsPlaced, RequestTypes
  <2>4. CommandsPlaced'
    BY MoveCommands
    DEF CommandsPlaced, RequestTypes, Labels, Calls, Afterwards, Replies, Observable, States
  <2>5. LocksHeld'
    BY MoveLocks
    DEF CommandsPlaced, LocksHeld, Inside, Creating, RequestTypes, RegistryTypes, Labels,
        Calls, Afterwards, Replies, Observable, States
  <2>6. EvidenceComplete'
    BY DEF EvidenceComplete, EvidenceInMemory, RequestTypes, CommandsPlaced
  <2>7. EvidenceInMemory'
    BY RecordTypes, MoveEvidence, RecordsComplete
    DEF EvidenceComplete, EvidenceInMemory, RequestTypes, RegistryTypes, CommandsPlaced,
        Labels, Calls, Afterwards, Replies, Observable, States
  <2> QED BY <2>1, <2>2, <2>3, <2>4, <2>5, <2>6, <2>7
<1>31. ASSUME NEW r \in Requests, CatchUncertain(r) PROVE IInv'
  <2> USE <1>31 DEF CatchUncertain, At, Reads, Found, Absent, Take, registryVars, worldVars
  <2>1. RegistryTypes'
    BY DEF RegistryTypes, RequestTypes, CommandsPlaced, Keys
  <2>2. RequestTypes'
    BY RecordTypes, MoveTypes
    DEF RequestTypes, RegistryTypes, CommandsPlaced, Keys, Labels, Calls, Afterwards, Replies,
        Observable, States
  <2>3. WorldTypes'
    BY BrokerAssumption DEF WorldTypes, BrokerAssumption, CommandsPlaced, RequestTypes
  <2>4. CommandsPlaced'
    BY MoveCommands
    DEF CommandsPlaced, RequestTypes, Labels, Calls, Afterwards, Replies, Observable, States
  <2>5. LocksHeld'
    BY MoveLocks
    DEF CommandsPlaced, LocksHeld, Inside, Creating, RequestTypes, RegistryTypes, Labels,
        Calls, Afterwards, Replies, Observable, States
  <2>6. EvidenceComplete'
    BY DEF EvidenceComplete, EvidenceInMemory, RequestTypes, CommandsPlaced
  <2>7. EvidenceInMemory'
    BY RecordTypes, MoveEvidence, RecordsComplete
    DEF EvidenceComplete, EvidenceInMemory, RequestTypes, RegistryTypes, CommandsPlaced,
        Labels, Calls, Afterwards, Replies, Observable, States
  <2> QED BY <2>1, <2>2, <2>3, <2>4, <2>5, <2>6, <2>7
<1>32. ASSUME NEW r \in Requests, Crash(r) PROVE IInv'
  <2> USE <1>32 DEF Crash, At, Reads, Found, Absent, Take, registryVars, worldVars
  <2>1. RegistryTypes'
    BY DEF RegistryTypes, RequestTypes, CommandsPlaced, Keys
  <2>2. RequestTypes'
    BY RecordTypes, MoveTypes
    DEF RequestTypes, RegistryTypes, CommandsPlaced, Keys, Labels, Calls, Afterwards, Replies,
        Observable, States
  <2>3. WorldTypes'
    BY BrokerAssumption DEF WorldTypes, BrokerAssumption, CommandsPlaced, RequestTypes
  <2>4. CommandsPlaced'
    BY MoveCommands
    DEF CommandsPlaced, RequestTypes, Labels, Calls, Afterwards, Replies, Observable, States
  <2>5. LocksHeld'
    BY DEF CommandsPlaced, LocksHeld, Inside, Creating, RequestTypes, RegistryTypes,
           Labels, Calls, Afterwards, Replies, Observable, States, Finish, Goto
  <2>6. EvidenceComplete'
    BY DEF EvidenceComplete, EvidenceInMemory, RequestTypes, CommandsPlaced
  <2>7. EvidenceInMemory'
    BY RecordTypes, MoveEvidence, RecordsComplete
    DEF EvidenceComplete, EvidenceInMemory, RequestTypes, RegistryTypes, CommandsPlaced,
        Labels, Calls, Afterwards, Replies, Observable, States
  <2> QED BY <2>1, <2>2, <2>3, <2>4, <2>5, <2>6, <2>7
<1>33. ASSUME NEW r \in Requests, LockFails(r) PROVE IInv'
  <2> USE <1>33 DEF LockFails, At, registryVars, worldVars
  <2>0. Reject(r, "catch") \/ Throw(r, "throws_registry")
    OBVIOUS
  <2>1. RegistryTypes'
    BY DEF RegistryTypes, CommandsPlaced, Keys, Take
  <2>2. RequestTypes'
    <3>1. Reject(r, "catch") => RequestTypes'
      BY DEF Reject, RequestTypes, Labels, Replies
    <3> QED BY <2>0, <3>1, MoveTypes DEF Replies
  <2>3. WorldTypes'
    BY DEF WorldTypes
  <2>4. CommandsPlaced'
    <3>1. Reject(r, "catch") => CommandsPlaced'
      BY DEF Reject, CommandsPlaced, RequestTypes, Calls
    <3> QED BY <2>0, <3>1, MoveCommands
  <2>5. LocksHeld'
    <3>1. CASE pc[r] = "lock" /\ Reject(r, "catch") /\ UNCHANGED <<dirs, held>>
      BY <3>1 DEF Reject, LocksHeld, Inside, Creating, RequestTypes, RegistryTypes, Calls
    <3>2. CASE pc[r] = "project" /\ Throw(r, "throws_registry") /\ UNCHANGED <<dirs, held>>
      BY <3>2, MoveLocks DEF Inside
    <3>3. CASE pc[r] = "lock" /\ Take(r, cmd[r].job) /\ Throw(r, "throws_registry")
      BY <3>3 DEF Take, Throw, Answer, CommandsPlaced, LocksHeld, Inside, Creating, RequestTypes,
                  RegistryTypes, Calls
    <3>4. CASE pc[r] = "project" /\ Take(r, Project) /\ Throw(r, "throws_registry")
      BY <3>4 DEF Take, Throw, Answer, CommandsPlaced, LocksHeld, Inside, Creating, RequestTypes,
                  RegistryTypes, Calls
    <3> QED BY <3>1, <3>2, <3>3, <3>4
  <2>6. EvidenceComplete'
    BY DEF EvidenceComplete
  <2>7. EvidenceInMemory'
    <3>1. Reject(r, "catch") => EvidenceInMemory'
      BY DEF Reject, EvidenceInMemory, RequestTypes
    <3> QED BY <2>0, <3>1, MoveEvidence
  <2> QED BY <2>1, <2>2, <2>3, <2>4, <2>5, <2>6, <2>7
<1>34. ASSUME NEW r \in Requests, UnlockFails(r) PROVE IInv'
  <2> USE <1>34 DEF UnlockFails, At, Innermost, registryVars, worldVars, Reject
  <2>1. RegistryTypes'
    BY DEF RegistryTypes, CommandsPlaced, Keys
  <2>2. RequestTypes'
    BY DEF RequestTypes, Labels, Replies
  <2>3. WorldTypes'
    BY DEF WorldTypes
  <2>4. CommandsPlaced'
    BY DEF CommandsPlaced, RequestTypes, Calls
  <2>5. LocksHeld'
    BY DEF CommandsPlaced, LocksHeld, Inside, Creating, RequestTypes, RegistryTypes, Calls
  <2>6. EvidenceComplete'
    BY DEF EvidenceComplete
  <2>7. EvidenceInMemory'
    BY DEF EvidenceInMemory, RequestTypes
  <2> QED BY <2>1, <2>2, <2>3, <2>4, <2>5, <2>6, <2>7
<1>35. ASSUME NEW key \in Keys, OperatorUnlock(key) PROVE IInv'
  BY <1>35
  DEF OperatorUnlock, requestVars, worldVars, TypeOK, RegistryTypes, RequestTypes, WorldTypes,
      CommandsPlaced, LocksHeld, EvidenceInMemory, EvidenceComplete, Inside, Creating, At
<1>36. CASE UNCHANGED vars
  BY <1>36
  DEF vars, registryVars, requestVars, worldVars, TypeOK, RegistryTypes, RequestTypes,
      WorldTypes, CommandsPlaced, LocksHeld, EvidenceInMemory, EvidenceComplete, Inside,
      Creating, At
<1> QED BY <1>1, <1>2, <1>3, <1>4, <1>5, <1>6, <1>7, <1>8, <1>9, <1>10, <1>11, <1>12,
           <1>13, <1>14, <1>15, <1>16, <1>17, <1>18, <1>19, <1>20, <1>21, <1>22, <1>23, <1>24,
           <1>25, <1>26, <1>27, <1>28, <1>29, <1>30, <1>31, <1>32, <1>33, <1>34, <1>35, <1>36,
           [Next]_vars
DEF Next, Step, Proceed, Dispatch

\* The invariant holds when nothing has been asked of the broker yet.
LEMMA InitialInvariant == Init => IInv
<1> USE DEF Init
<1>1. Init => TypeOK
  BY RecordTypes, BrokerAssumption
  DEF TypeOK, RegistryTypes, RequestTypes, WorldTypes, BrokerAssumption, Labels, Afterwards, Replies
<1>2. Init => CommandsPlaced /\ LocksHeld
  BY DEF CommandsPlaced, LocksHeld, Inside, Creating, At, Calls
<1>3. Init => EvidenceComplete /\ EvidenceInMemory
  BY RecordsComplete DEF EvidenceComplete, EvidenceInMemory, EmptyTable
<1> QED BY <1>1, <1>2, <1>3 DEF IInv

\* The invariant holds of every behaviour of the broker (broker.ts:15-45), for
\* any number of jobs and concurrent requests, any disk faults, crashes and
\* removed locks.
THEOREM Invariance == Spec => []IInv
<1>1. Init => IInv
  BY InitialInvariant
<1>2. IInv /\ [Next]_vars => IInv'
  BY Inductive
<1> QED BY <1>1, <1>2, PTL DEF Spec

\* The variables of the broker keep their types (broker.ts:8).
THEOREM Typing == Spec => []TypeOK
<1>1. IInv => TypeOK
  BY DEF IInv
<1> QED BY <1>1, Invariance, PTL

\* The locks of execute and create_job (broker.ts:20, 28) exclude: two requests
\* are never inside one job, nor creating in one project.
THEOREM Exclusion == Spec => []MutualExclusion
<1>1. IInv => MutualExclusion
  BY DEF IInv, LocksHeld, MutualExclusion, TypeOK, RegistryTypes
<1> QED BY <1>1, Invariance, PTL

\* A handed-off or closed record in the registry has a commit and a pull
\* request: validate (fileJobRegistry.ts:16) never refuses what the broker puts.
THEOREM Evidence == Spec => []EvidenceComplete
<1>1. IInv => EvidenceComplete
  BY DEF IInv
<1> QED BY <1>1, Invariance, PTL

\* Who closes a workspace or removes a worktree is a close_job of a job that
\* was handed off.
LEMMA Destroyers ==
  ASSUME IInv, [Next]_vars, NEW j \in Jobs,
         \/ session[j] # "closed" /\ session'[j] = "closed"
         \/ tree[j] # "removed" /\ tree'[j] = "removed"
  PROVE  \E r \in Requests : /\ j \in held[r]
                            /\ rec[r].state = "handoff_ready"
                            /\ HasEvidence(rec[r])
<1> DEFINE Goal == \E r \in Requests : /\ j \in held[r]
                                       /\ rec[r].state = "handoff_ready"
                                       /\ HasEvidence(rec[r])
<1>1. ASSUME NEW r \in Requests, HerdrClose(r) \/ GitCleanup(r) PROVE Goal
  <2>1. cmd[r].job = j
    BY <1>1 DEF HerdrClose, GitCleanup, IInv, TypeOK, WorldTypes, worldVars
  <2>2. j \in held[r]
    BY <1>1, <2>1 DEF HerdrClose, GitCleanup, IInv, LocksHeld, Inside, Calls, At
  <2>3. rec[r].state = "handoff_ready" /\ HasEvidence(rec[r])
    BY <1>1 DEF HerdrClose, GitCleanup, IInv, EvidenceInMemory, Complete, At
  <2> QED BY <2>2, <2>3
<1>2. ASSUME NEW r \in Requests, HerdrCreate(r) \/ GitCreate(r) PROVE FALSE
  BY <1>2 DEF HerdrCreate, GitCreate, IInv, TypeOK, WorldTypes, worldVars
<1>3. CASE UNCHANGED <<session, tree>>
  BY <1>3
<1>4. ASSUME NEW r \in Requests, Step(r) PROVE Goal \/ UNCHANGED <<session, tree>>
  <2> USE DEF worldVars
  <2>1. ASSUME Dispatch(r) PROVE UNCHANGED <<session, tree>>
    BY <2>1 DEF Dispatch, CreateJob, AbsentJob, PromptJob, JobStatus, ReadJob, HandoffJob,
                RecoverJob, CloseJob, Reads
  <2>2. ASSUME \/ LockJob(r) \/ LockFails(r) \/ JobBusy(r) \/ GetFails(r) \/ LockProject(r)
               \/ ProjectBusy(r) \/ RepeatedGet(r) \/ HerdrPrompt(r) \/ HerdrStatus(r) \/ HerdrRead(r)
        PROVE  UNCHANGED <<session, tree>>
    BY <2>2 DEF LockJob, LockFails, JobBusy, GetFails, LockProject, ProjectBusy, RepeatedGet,
                HerdrPrompt, HerdrStatus, HerdrRead
  <2>3. ASSUME \/ Checkpoint(r) \/ HandoffReturns(r) \/ CallFails(r) \/ PutLoad(r)
               \/ PutReplaces(r) \/ PutFails(r) \/ Unlock(r) \/ UnlockFails(r)
               \/ CatchCertain(r) \/ CatchUncertain(r)
        PROVE  UNCHANGED <<session, tree>>
    BY <2>3 DEF Checkpoint, HandoffReturns, CallFails, PutLoad, PutReplaces, PutFails, Unlock,
                UnlockFails, CatchCertain, CatchUncertain
  <2> QED BY <1>1, <1>2, <1>4, <2>1, <2>2, <2>3 DEF Step, Proceed
<1>5. ASSUME NEW r \in Requests, Issue(r) \/ Crash(r) PROVE UNCHANGED <<session, tree>>
  BY <1>5 DEF Issue, Crash, worldVars
<1>6. ASSUME NEW key \in Keys, OperatorUnlock(key) PROVE UNCHANGED <<session, tree>>
  BY <1>6 DEF OperatorUnlock, worldVars
<1>7. CASE UNCHANGED vars
  BY <1>3, <1>7 DEF vars, worldVars
<1> QED BY <1>3, <1>4, <1>5, <1>6, <1>7 DEF Next

\* A workspace is closed and a worktree removed (broker.ts:41) only under the
\* job's lock, for a record that was handed off with its evidence.
THEOREM Destruction == Spec => DestroysOnlyHandedOff
<1>1. IInv /\ [Next]_vars => [\A j \in Jobs :
         \/ session[j] # "closed" /\ session'[j] = "closed"
         \/ tree[j] # "removed" /\ tree'[j] = "removed"
         => \E r \in Requests : /\ j \in held[r]
                               /\ rec[r].state = "handoff_ready"
                               /\ HasEvidence(rec[r])]_vars
  BY Destroyers
<1> QED BY <1>1, Invariance, PTL DEF Spec, DestroysOnlyHandedOff
=============================================================================
