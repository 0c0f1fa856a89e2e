-------------------------- MODULE GitHandoffProofs --------------------------
(***************************************************************************)
(* Proofs about GitHandoff for any number of commits, pull requests and    *)
(* outside interventions.  How a command ends is reduced to the evidence   *)
(* it leaves in the record and the label it leads to; what happens to the  *)
(* pull requests is reduced to the few facts that all their steps share.   *)
(***************************************************************************)
EXTENDS GitHandoff, SequenceTheorems, TLAPS

Handing == {"inspect", "head", "lookup", "push", "relookup", "pr_list", "pr_create", "pr_view"}
Closing == {"herdr_close", "close_inspect", "close_head", "close_remote", "remove", "prune"}

\* A job is handed over before it is handed off, and closed after it.
StateAtLabel(record, label) ==
    /\ label \in Handing => record.state \in {"ready", "unknown"}
    /\ label \in Closing => record.state = "handoff_ready"

\* What a hand-off has recorded before each of its commands.
EvidenceAtLabel(record, label) ==
    /\ label \in {"lookup", "push", "relookup", "pr_list", "pr_create", "pr_view"} => record.sha # 0
    /\ label \in {"pr_list", "pr_create", "pr_view"} => record.remoteSha = record.sha
    /\ label = "pr_view" => record.pr # 0

\* Once the agent's workspace is closed, what was verified stays, unless the
\* agent lives in another one.
StandsStill(record, label) ==
    /\ label \in Closing \ {"herdr_close"} => session # "open"
    /\ label \in {"close_remote", "remove", "prune"} =>
          session = "stays" \/ tree.head = record.sha

\* The broker creates a pull request where it found none; whatever people have
\* opened since is not its own.
NoneByBroker(label) == label = "pr_create" => \A i \in DOMAIN prs : ~prs[i].ours

\* EvidenceInOrder and HandedOffIsShown, of any record.
EvidenceHolds(record) ==
    /\ record.remoteSha # 0 => record.sha # 0
    /\ record.pr # 0 => record.pr \in DOMAIN prs /\ record.remoteSha # 0
    /\ record.state \in {"handoff_ready", "closed"} =>
          record.remoteSha = record.sha /\ record.pr # 0 /\ record.sha \in shown

\* A request may go on at this label with this record.
Sound(record, label) ==
    /\ StateAtLabel(record, label) /\ EvidenceAtLabel(record, label)
    /\ StandsStill(record, label) /\ NoneByBroker(label) /\ EvidenceHolds(record)

\* The history holds what the pull requests show.
ShownKept == ShownBy(prs) \subseteq shown

\* The inductive invariant of hand-off and closing.
HandoffInv == TypeOK /\ Sound(job, pc) /\ ShownKept /\ OnePrByBroker

-----------------------------------------------------------------------------
(* Pull requests *)

Lists == UNION {[1..n -> PullRequest] : n \in 0..MaxPrs}

\* A list of pull requests is a sequence of bounded length.
LEMMA ListFacts ==
  ASSUME NEW list \in Lists
  PROVE  /\ Len(list) \in 0..MaxPrs /\ DOMAIN list = 1..Len(list)
         /\ list \in [1..Len(list) -> PullRequest] /\ list \in Seq(PullRequest)
<1>1. PICK n \in 0..MaxPrs : list \in [1..n -> PullRequest]
  BY DEF Lists
<1>2. n \in Nat /\ list \in Seq(PullRequest)
  BY <1>1, SeqDef, HandoffAssumption
<1>3. Len(list) = n
  <2>1. DOMAIN list = 1..Len(list) /\ Len(list) \in Nat
    BY <1>2, LenProperties
  <2>2. DOMAIN list = 1..n
    BY <1>1
  <2>3. ASSUME NEW m \in Nat, 1..m = 1..n PROVE m = n
    <3>1. m \in 1..m \/ m = 0
      OBVIOUS
    <3>2. n \in 1..n \/ n = 0
      BY <1>2
    <3> QED BY <1>2, <2>3, <3>1, <3>2
  <2> QED BY <2>1, <2>2, <2>3
<1> QED BY <1>1, <1>2, <1>3

\* What every change of the pull requests keeps.
Evolved ==
    /\ prs' \in Lists /\ DOMAIN prs \subseteq DOMAIN prs'
    /\ shown \subseteq shown' /\ shown' \subseteq Commits /\ ShownKept'

\* No pull request becomes the broker's.
NoneAdded == \A i \in DOMAIN prs' : prs'[i].ours => i \in DOMAIN prs /\ prs[i].ours

\* The history follows the pull requests.
LEMMA SetPrsDoes ==
  ASSUME TypeOK, NEW list \in Lists, SetPrs(list), DOMAIN prs \subseteq DOMAIN list
  PROVE  Evolved /\ prs' = list
<1>1. list \in [DOMAIN list -> PullRequest]
  BY ListFacts
<1>2. ShownBy(list) \subseteq Commits
  BY <1>1 DEF ShownBy, PullRequest
<1>3. shown \subseteq Commits /\ prs' = list /\ shown' = shown \cup ShownBy(list)
  BY DEF TypeOK, SetPrs
<1>4. ShownBy(prs)' = ShownBy(list)
  BY <1>3 DEF ShownBy
<1> HIDE DEF ShownBy
<1> QED BY <1>2, <1>3, <1>4 DEF Evolved, ShownKept

\* A push or a deletion changes pull requests in place.
LEMMA InPlace ==
  ASSUME TypeOK, NEW list, SetPrs(list), list \in [DOMAIN prs -> PullRequest],
         \A i \in DOMAIN prs : list[i].ours = prs[i].ours
  PROVE  Evolved /\ NoneAdded /\ list \in Lists
<1>0. prs \in Lists
  BY DEF TypeOK, Lists
<1>1. DOMAIN prs = 1..Len(prs) /\ Len(prs) \in 0..MaxPrs
  BY <1>0, ListFacts
<1>2. list \in Lists /\ DOMAIN list = DOMAIN prs
  BY <1>1 DEF Lists
<1>3. Evolved /\ prs' = list
  BY <1>2, SetPrsDoes
<1> QED BY <1>2, <1>3 DEF NoneAdded

\* A push moves the remote branch and the heads of its open pull requests.
LEMMA SetRemoteDoes ==
  ASSUME TypeOK, NEW sha \in Commits, SetRemote(sha)
  PROVE  remote' = sha /\ Evolved /\ NoneAdded
<1> DEFINE list == [i \in DOMAIN prs |-> IF prs[i].state = "open" THEN [prs[i] EXCEPT !.head = sha] ELSE prs[i]]
<1>1. prs \in [DOMAIN prs -> PullRequest]
  BY ListFacts DEF TypeOK, Lists
<1>2. \A i \in DOMAIN prs : /\ [prs[i] EXCEPT !.head = sha] \in PullRequest
                            /\ [prs[i] EXCEPT !.head = sha].ours = prs[i].ours
  BY <1>1 DEF PullRequest
<1>3. list \in [DOMAIN prs -> PullRequest] /\ \A i \in DOMAIN prs : list[i].ours = prs[i].ours
  BY <1>1, <1>2
<1>4. remote' = sha /\ SetPrs(list)
  BY DEF SetRemote
<1> HIDE DEF list
<1> QED BY <1>3, <1>4, InPlace

\* Opening a pull request adds one at the end of the list.
LEMMA OpenDoes ==
  ASSUME TypeOK, NEW base \in BOOLEAN, NEW ours \in BOOLEAN, CanOpen(base), SetPrs(WithPr(base, ours))
  PROVE  /\ Evolved /\ Len(prs) + 1 \in DOMAIN prs' /\ Len(prs) + 1 \in 1..MaxPrs
         /\ \A i \in DOMAIN prs : prs'[i] = prs[i]
         /\ \A i \in DOMAIN prs' : i \in DOMAIN prs \/ (i = Len(prs) + 1 /\ prs'[i].ours = ours)
<1> DEFINE request == [state |-> "open", base |-> base, ours |-> ours, head |-> remote]
           n == Len(prs)
<1>1. request \in PullRequest
  BY DEF PullRequest, TypeOK
<1>2. prs \in Seq(PullRequest) /\ n \in 0..MaxPrs /\ DOMAIN prs = 1..n
  BY ListFacts DEF TypeOK, Lists
<1>3. n < MaxPrs /\ SetPrs(Append(prs, request))
  BY DEF CanOpen, WithPr
<1> HIDE DEF request, n
<1>4. /\ Append(prs, request) \in Seq(PullRequest)
      /\ Len(Append(prs, request)) = n + 1
      /\ \A i \in 1..n : Append(prs, request)[i] = prs[i]
      /\ Append(prs, request)[n + 1] = request
  BY <1>1, <1>2, AppendProperties DEF n
<1> DEFINE list == Append(prs, request)
<1> HIDE DEF list
<1>5. list \in Seq(PullRequest) /\ Len(list) = n + 1 /\ list[n + 1] = request
      /\ \A i \in 1..n : list[i] = prs[i]
  BY <1>4 DEF list
<1>6. n + 1 \in 1..MaxPrs /\ n + 1 \in 0..MaxPrs
  BY <1>2, <1>3, HandoffAssumption
<1>7. list \in [1..(n + 1) -> PullRequest] /\ DOMAIN list = 1..(n + 1)
  BY <1>5, LenProperties
<1>8. list \in Lists
  BY <1>6, <1>7 DEF Lists
<1>9. DOMAIN prs \subseteq DOMAIN list
  BY <1>2, <1>7
<1>10. Evolved /\ prs' = list
  BY <1>3, <1>8, <1>9, SetPrsDoes DEF list
<1>11. request.ours = ours
  BY DEF request
<1>12. \A i \in 1..(n + 1) : i \in 1..n \/ i = n + 1
  BY <1>2
<1> QED BY <1>2, <1>5, <1>6, <1>7, <1>10, <1>11, <1>12 DEF n

-----------------------------------------------------------------------------
(* How a command ends *)

\* The record and the label that a command leads to; a request that ends may
\* leave the job `unknown'.
Recorded(record, label) ==
    /\ job' \in Job
    /\ job'.sha = record.sha /\ job'.remoteSha = record.remoteSha /\ job'.pr = record.pr
    /\ \/ pc' = "idle" /\ job'.state \in {record.state, "unknown"}
       \/ pc' = label /\ job'.state = record.state

\* Checkpoints, effects and conflicts (gitWorkspaceAdapter.ts, broker.ts:40).
LEMMA CommandEnds ==
  ASSUME NEW record \in Job, NEW label, Checkpoint(record, label) \/ Abandon(record)
  PROVE  Recorded(record, label)
<1>1. job' \in {record, [record EXCEPT !.state = "unknown"]} /\ pc' \in {label, "idle"}
      /\ (pc' = "idle" \/ job' = record)
  BY DEF Checkpoint, Abandon
<1>2. /\ [record EXCEPT !.state = "unknown"] \in Job
      /\ [record EXCEPT !.state = "unknown"].sha = record.sha
      /\ [record EXCEPT !.state = "unknown"].remoteSha = record.remoteSha
      /\ [record EXCEPT !.state = "unknown"].pr = record.pr
      /\ [record EXCEPT !.state = "unknown"].state = "unknown"
  BY DEF Job
<1> QED BY <1>1, <1>2 DEF Recorded

\* A command that ended leaves a record and the place to go on, or gave up.
LEMMA EffectEnds ==
  ASSUME TypeOK, NEW label, Returned(label) \/ Effect(label)
  PROVE  Recorded(job, label)
<1>1. job \in Job
  BY DEF TypeOK
<1>2. CASE Returned(label)
  BY <1>1, <1>2 DEF Returned, Recorded
<1>3. CASE Abandon(job)
  BY <1>1, <1>3, CommandEnds
<1> QED BY <1>2, <1>3 DEF Effect

\* A record that is sound where the request goes on keeps the invariant,
\* whatever others have done to a world that only evolves.
LEMMA Settles ==
  ASSUME HandoffInv, NEW record \in Job, NEW label \in Labels,
         Recorded(record, label), Sound(record, label)',
         calm' \in BOOLEAN, remote' \in Commits, session' \in Sessions,
         fetched' \in 0..MaxCommits,
         tree' \in [there : BOOLEAN, head : 0..MaxCommits, clean : BOOLEAN],
         Evolved, OnePrByBroker'
  PROVE  HandoffInv'
<1>1. TypeOK'
  <2>1. "idle" \in Labels
    BY DEF Labels
  <2> QED BY <2>1 DEF TypeOK, Recorded, Evolved, Lists
<1>2. Sound(job, pc)'
  <2>1. CASE pc' = "idle" /\ job'.state \in {record.state, "unknown"}
    BY <2>1 DEF Recorded, Sound, StateAtLabel, EvidenceAtLabel, StandsStill, NoneByBroker,
       EvidenceHolds, Handing, Closing
  <2>2. CASE pc' = label /\ job'.state = record.state
    BY <2>2 DEF Recorded, Sound, StateAtLabel, EvidenceAtLabel, StandsStill, NoneByBroker,
       EvidenceHolds
  <2> QED BY <2>1, <2>2 DEF Recorded
<1> QED BY <1>1, <1>2 DEF HandoffInv, Evolved

\* The same when nobody has changed the world.
LEMMA QuietSettles ==
  ASSUME HandoffInv, NEW record \in Job, NEW label \in Labels,
         Recorded(record, label), Sound(record, label), UNCHANGED worldVars, calm' \in BOOLEAN
  PROVE  HandoffInv'
<1>1. UNCHANGED <<tree, session, fetched, remote, prs, shown>> /\ TypeOK
  BY DEF worldVars, localVars, HandoffInv
<1>2. Evolved /\ OnePrByBroker'
  BY <1>1 DEF HandoffInv, Evolved, TypeOK, Lists, ShownKept, ShownBy, OnePrByBroker
<1>3. Sound(record, label)'
  BY <1>1 DEF Sound, StateAtLabel, EvidenceAtLabel, StandsStill, NoneByBroker, EvidenceHolds
<1> QED BY <1>1, <1>2, <1>3, Settles DEF TypeOK

\* At rest every record of a request is sound.
LEMMA SoundAtRest ==
  ASSUME NEW record, NEW label, Sound(record, label)
  PROVE  Sound(record, "idle")
BY DEF Sound, StateAtLabel, EvidenceAtLabel, StandsStill, NoneByBroker, Handing, Closing

\* A command that conflicts leaves the world and the evidence alone.
LEMMA ConflictKeeps ==
  ASSUME HandoffInv, NEW condition, Conflict(condition), calm' = calm
  PROVE  HandoffInv'
<1>1. job \in Job /\ "idle" \in Labels /\ calm \in BOOLEAN /\ Sound(job, "idle")
  BY SoundAtRest DEF HandoffInv, TypeOK, Labels
<1>2. Recorded(job, "idle") /\ UNCHANGED worldVars
  BY <1>1, CommandEnds DEF Conflict
<1> QED BY <1>1, <1>2, QuietSettles

-----------------------------------------------------------------------------
(* The commands *)

\* A request starts (broker.ts:67-87).
LEMMA StartKeeps == ASSUME HandoffInv, StartHandoff \/ StartClose PROVE HandoffInv'
<1> USE DEF HandoffInv, Sound, StateAtLabel, EvidenceAtLabel, StandsStill, NoneByBroker, Handing, Closing, Labels
<1>1. job \in Job /\ calm \in BOOLEAN /\ "inspect" \in Labels /\ "herdr_close" \in Labels
  BY DEF TypeOK
<1>2. CASE StartHandoff
  <2>1. Sound(job, "inspect") /\ UNCHANGED worldVars /\ calm' = calm
    BY <1>2 DEF StartHandoff
  <2>2. Recorded(job, "inspect")
    BY <1>1, <1>2 DEF StartHandoff, Recorded
  <2> HIDE DEF HandoffInv, Sound
  <2> QED BY <1>1, <2>1, <2>2, QuietSettles
<1>3. CASE StartClose
  <2>1. Sound(job, "herdr_close") /\ UNCHANGED worldVars /\ calm' = calm
    BY <1>3 DEF StartClose
  <2>2. Recorded(job, "herdr_close")
    BY <1>1, <1>3 DEF StartClose, Recorded
  <2> HIDE DEF HandoffInv, Sound
  <2> QED BY <1>1, <2>1, <2>2, QuietSettles
<1> QED BY <1>2, <1>3

\* The commands that look and record (gitWorkspaceAdapter.ts:16-33).
LEMMA LookKeeps ==
  ASSUME HandoffInv, Inspect \/ RevParse \/ Lookup \/ Relookup, calm' = calm
  PROVE  HandoffInv'
<1>1. job \in Job /\ calm' \in BOOLEAN /\ TypeOK /\ Sound(job, pc)
      /\ {"head", "lookup", "push", "pr_list", "idle"} \subseteq Labels
  BY DEF HandoffInv, TypeOK, Labels
<1>2. CASE Inspect
  <2>1. CASE LooksUsable /\ Returned("head") /\ UNCHANGED worldVars
    <3>1. Recorded(job, "head")
      BY <1>1, <2>1, EffectEnds
    <3>2. Sound(job, "head")
      BY <1>1, <1>2 DEF Inspect, At, Sound, StateAtLabel, EvidenceAtLabel, StandsStill, NoneByBroker, Handing, Closing
    <3> QED BY <1>1, <2>1, <3>1, <3>2, QuietSettles
  <2> QED BY <1>2, <2>1, ConflictKeeps DEF Inspect
<1>3. CASE RevParse
  <2> DEFINE record == [job EXCEPT !.sha = tree.head]
  <2>1. CASE /\ tree.head > fetched /\ job.sha \in {0, tree.head}
             /\ Checkpoint(record, "lookup") /\ UNCHANGED worldVars
    <3>1. tree.head \in Commits /\ tree.head # 0
      BY <1>1, <2>1, HandoffAssumption DEF TypeOK, Commits, Foreign
    <3>2. /\ record \in Job /\ record.sha = tree.head /\ record.remoteSha = job.remoteSha
          /\ record.pr = job.pr /\ record.state = job.state
      BY <1>1, <3>1 DEF Job
    <3>3. Recorded(record, "lookup")
      BY <2>1, <3>2, CommandEnds
    <3>4. Sound(record, "lookup")
      <4>1. job.state \in {"ready", "unknown"} /\ EvidenceHolds(job)
        BY <1>1, <1>3 DEF RevParse, At, Sound, StateAtLabel, Handing
      <4> HIDE DEF record
      <4> QED BY <3>1, <3>2, <4>1 DEF Sound, StateAtLabel, EvidenceAtLabel, StandsStill, NoneByBroker,
                 EvidenceHolds, Handing, Closing
    <3> QED BY <1>1, <2>1, <3>2, <3>3, <3>4, QuietSettles
  <2> QED BY <1>3, <2>1, ConflictKeeps DEF RevParse
<1>4. ASSUME Lookup \/ Relookup
      PROVE  job.state \in {"ready", "unknown"} /\ EvidenceHolds(job) /\ job.sha # 0
  BY <1>1, <1>4 DEF Lookup, Relookup, At, Sound, StateAtLabel, EvidenceAtLabel, Handing
<1> DEFINE found == [job EXCEPT !.remoteSha = remote]
<1>5. /\ found \in Job /\ found.remoteSha = remote /\ found.sha = job.sha
      /\ found.pr = job.pr /\ found.state = job.state
  BY <1>1 DEF TypeOK, Job
<1>6. ASSUME Lookup \/ Relookup, remote # 0
      PROVE  /\ Sound(found, "idle")
             /\ remote = job.sha => Sound(found, "pr_list")
  <2> HIDE DEF found
  <2> QED BY <1>4, <1>5, <1>6 DEF Sound, StateAtLabel, EvidenceAtLabel, StandsStill, NoneByBroker,
             EvidenceHolds, Handing, Closing
<1>7. CASE Lookup
  <2>1. CASE Checkpoint(job, "push") /\ UNCHANGED worldVars
    <3>1. Sound(job, "push")
      BY <1>4, <1>7 DEF Sound, StateAtLabel, EvidenceAtLabel, StandsStill, NoneByBroker, Handing, Closing
    <3> QED BY <1>1, <2>1, <3>1, CommandEnds, QuietSettles
  <2>2. CASE remote = job.sha /\ Checkpoint(found, "pr_list") /\ UNCHANGED worldVars
    <3>1. Sound(found, "pr_list")
      BY <1>4, <1>6, <1>7, <2>2
    <3> HIDE DEF found
    <3> QED BY <1>1, <1>5, <2>2, <3>1, CommandEnds, QuietSettles
  <2>3. CASE remote \notin {0, job.sha} /\ Abandon(found) /\ UNCHANGED worldVars
    <3>1. Sound(found, "idle")
      BY <1>6, <1>7, <2>3
    <3> HIDE DEF found
    <3> QED BY <1>1, <1>5, <2>3, <3>1, CommandEnds, QuietSettles
  <2> QED BY <1>1, <1>7, <2>1, <2>2, <2>3, ConflictKeeps DEF Lookup
<1>8. CASE Relookup
  <2>1. CASE remote = job.sha /\ Checkpoint(found, "pr_list") /\ UNCHANGED worldVars
    <3>1. Sound(found, "pr_list")
      BY <1>4, <1>6, <1>8, <2>1
    <3> HIDE DEF found
    <3> QED BY <1>1, <1>5, <2>1, <3>1, CommandEnds, QuietSettles
  <2> QED BY <1>8, <2>1, ConflictKeeps DEF Relookup
<1> QED BY <1>2, <1>3, <1>7, <1>8

\* Evidence outlives every change of the pull requests.
LEMMA EvidenceStays ==
  ASSUME NEW record, EvidenceHolds(record), Evolved
  PROVE  EvidenceHolds(record)'
BY DEF EvidenceHolds, Evolved

\* No pull request of the broker's is added: there is still at most one.
LEMMA OneStays == ASSUME OnePrByBroker, NoneAdded PROVE OnePrByBroker'
BY DEF OnePrByBroker, NoneAdded

\* The branch is pushed (gitWorkspaceAdapter.ts:27).
LEMMA PushKeeps == ASSUME HandoffInv, Push, calm' = calm PROVE HandoffInv'
<1>1. TypeOK /\ Sound(job, pc) /\ job \in Job /\ calm' \in BOOLEAN /\ "relookup" \in Labels
  BY DEF HandoffInv, TypeOK, Labels
<1>2. CASE SetRemote(tree.head) /\ Effect("relookup") /\ UNCHANGED <<tree, session, fetched>>
  <2>1. tree.head \in Commits
    BY <1>1, HandoffAssumption DEF TypeOK, Commits, Foreign
  <2>2. remote' = tree.head /\ Evolved /\ NoneAdded
    BY <1>1, <1>2, <2>1, SetRemoteDoes
  <2>3. Recorded(job, "relookup")
    BY <1>1, <1>2, EffectEnds
  <2>4. job.state \in {"ready", "unknown"} /\ job.sha # 0 /\ EvidenceHolds(job)
    BY <1>1 DEF Push, At, Sound, StateAtLabel, EvidenceAtLabel, Handing
  <2>5. PICK record \in Job : record = job
    BY <1>1
  <2>6. EvidenceHolds(record)'
    BY <2>2, <2>4, <2>5, EvidenceStays
  <2>7. Sound(record, "relookup")'
    BY <2>4, <2>5, <2>6 DEF Sound, StateAtLabel, EvidenceAtLabel, StandsStill, NoneByBroker, Handing, Closing
  <2>8. Recorded(record, "relookup") /\ OnePrByBroker'
    BY <2>2, <2>3, <2>5, OneStays DEF HandoffInv
  <2> QED BY <1>1, <1>2, <2>1, <2>2, <2>7, <2>8, Settles DEF TypeOK
<1> QED BY <1>2, ConflictKeeps DEF Push, localVars

\* The pull request is looked for and read again (gitWorkspaceAdapter.ts:29-33).
LEMMA PrReadKeeps == ASSUME HandoffInv, PrList \/ PrView, calm' = calm PROVE HandoffInv'
<1>1. /\ TypeOK /\ Sound(job, pc) /\ job \in Job /\ calm' \in BOOLEAN
      /\ {"pr_create", "pr_view", "idle"} \subseteq Labels
  BY DEF HandoffInv, TypeOK, Labels
<1>2. /\ job.state \in {"ready", "unknown"} /\ EvidenceHolds(job)
      /\ job.sha # 0 /\ job.remoteSha = job.sha
      /\ PrView => job.pr # 0
  BY <1>1 DEF PrList, PrView, At, Sound, StateAtLabel, EvidenceAtLabel, Handing
<1>3. CASE PrList
  <2> DEFINE found == [job EXCEPT !.pr = 1]
  <2>1. CASE prs = <<>> /\ Checkpoint(job, "pr_create") /\ UNCHANGED worldVars
    <3>1. Sound(job, "pr_create")
      BY <1>2, <2>1 DEF Sound, StateAtLabel, EvidenceAtLabel, StandsStill, NoneByBroker, Handing, Closing
    <3> QED BY <1>1, <2>1, <3>1, CommandEnds, QuietSettles
  <2>2. CASE prs # <<>> /\ Checkpoint(found, "pr_view") /\ UNCHANGED worldVars
    <3>1. 1 \in DOMAIN prs /\ 1 \in 0..MaxPrs
      <4>1. prs \in Seq(PullRequest) /\ DOMAIN prs = 1..Len(prs)
        BY <1>1, ListFacts DEF TypeOK, Lists
      <4>2. Len(prs) \in Nat \ {0}
        BY <2>2, <4>1, EmptySeq
      <4> QED BY <4>1, <4>2, HandoffAssumption
    <3>2. /\ found \in Job /\ found.pr = 1 /\ found.sha = job.sha
          /\ found.remoteSha = job.remoteSha /\ found.state = job.state
      BY <1>1, <3>1 DEF Job
    <3> HIDE DEF found
    <3>3. Sound(found, "pr_view")
      BY <1>2, <3>1, <3>2 DEF Sound, StateAtLabel, EvidenceAtLabel, StandsStill, NoneByBroker,
         EvidenceHolds, Handing, Closing
    <3> QED BY <1>1, <2>2, <3>2, <3>3, CommandEnds, QuietSettles
  <2> QED BY <1>3, <2>1, <2>2, ConflictKeeps DEF PrList
<1>4. CASE PrView
  <2> DEFINE ready == [job EXCEPT !.state = "handoff_ready"]
  <2>1. CASE Compatible(prs[job.pr]) /\ Checkpoint(ready, "idle") /\ UNCHANGED worldVars
    <3>1. job.pr # 0 /\ job.pr \in DOMAIN prs
      BY <1>2, <1>4 DEF EvidenceHolds
    <3>2. job.sha \in shown
      BY <2>1, <3>1 DEF Compatible, HandoffInv, ShownKept, ShownBy
    <3>3. /\ ready \in Job /\ ready.pr = job.pr /\ ready.sha = job.sha
          /\ ready.remoteSha = job.remoteSha /\ ready.state = "handoff_ready"
      BY <1>1 DEF Job
    <3> HIDE DEF ready
    <3>4. Sound(ready, "idle")
      BY <1>2, <3>1, <3>2, <3>3 DEF Sound, StateAtLabel, EvidenceAtLabel, StandsStill, NoneByBroker,
         EvidenceHolds, Handing, Closing
    <3> QED BY <1>1, <2>1, <3>3, <3>4, CommandEnds, QuietSettles
  <2> QED BY <1>4, <2>1, ConflictKeeps DEF PrView
<1> QED BY <1>3, <1>4

\* The pull request is created (gitWorkspaceAdapter.ts:31).
LEMMA PrCreateKeeps == ASSUME HandoffInv, PrCreate, calm' = calm PROVE HandoffInv'
<1>1. /\ TypeOK /\ Sound(job, pc) /\ job \in Job /\ calm' \in BOOLEAN
      /\ {"pr_view", "idle"} \subseteq Labels
  BY DEF HandoffInv, TypeOK, Labels
<1>2. /\ job.state \in {"ready", "unknown"} /\ EvidenceHolds(job)
      /\ job.sha # 0 /\ job.remoteSha = job.sha /\ \A i \in DOMAIN prs : ~prs[i].ours
  BY <1>1 DEF PrCreate, At, Sound, StateAtLabel, EvidenceAtLabel, NoneByBroker, Handing
<1> DEFINE numbered == [job EXCEPT !.pr = Len(prs) + 1]
<1>3. CASE /\ CanOpen(TRUE) /\ SetPrs(WithPr(TRUE, TRUE)) /\ UNCHANGED <<tree, session, fetched, remote>>
           /\ Checkpoint(numbered, "pr_view") \/ Abandon(job)
  <2>1. /\ Evolved /\ Len(prs) + 1 \in DOMAIN prs' /\ Len(prs) + 1 \in 1..MaxPrs
        /\ \A i \in DOMAIN prs : prs'[i] = prs[i]
        /\ \A i \in DOMAIN prs' : i \in DOMAIN prs \/ i = Len(prs) + 1
    BY <1>1, <1>3, OpenDoes
  <2>2. OnePrByBroker'
    BY <1>2, <2>1 DEF OnePrByBroker
  <2> DEFINE number == Len(prs) + 1
  <2> HIDE DEF number
  <2>3. number # 0 /\ number \in 0..MaxPrs /\ number \in DOMAIN prs' /\ numbered = [job EXCEPT !.pr = number]
    BY <2>1 DEF number
  <2>4. /\ numbered \in Job /\ numbered.pr = number /\ numbered.sha = job.sha
        /\ numbered.remoteSha = job.remoteSha /\ numbered.state = job.state
    BY <1>1, <2>3 DEF Job
  <2> HIDE DEF numbered
  <2>5. CASE Checkpoint(numbered, "pr_view")
    <3>1. PICK record \in Job : record = numbered
      BY <2>4
    <3>2. Sound(record, "pr_view")'
      <4>1. record.state \in {"ready", "unknown"} /\ record.sha # 0 /\ record.remoteSha = record.sha
            /\ record.pr # 0 /\ record.pr \in DOMAIN prs'
        BY <1>2, <2>3, <2>4, <3>1
      <4> QED BY <4>1 DEF Sound, StateAtLabel, EvidenceAtLabel, StandsStill, NoneByBroker,
                 EvidenceHolds, Handing, Closing
    <3>3. Recorded(record, "pr_view")
      BY <2>5, <3>1, CommandEnds
    <3> QED BY <1>1, <1>3, <2>1, <2>2, <3>2, <3>3, Settles DEF TypeOK
  <2>6. CASE Abandon(job)
    <3>1. PICK record \in Job : record = job
      BY <1>1
    <3>2. EvidenceHolds(record)'
      BY <1>2, <2>1, <3>1, EvidenceStays
    <3>3. Sound(record, "idle")'
      BY <1>2, <3>1, <3>2 DEF Sound, StateAtLabel, EvidenceAtLabel, StandsStill, NoneByBroker, Handing, Closing
    <3>4. Recorded(record, "idle")
      BY <2>6, <3>1, CommandEnds
    <3> QED BY <1>1, <1>3, <2>1, <2>2, <3>3, <3>4, Settles DEF TypeOK
  <2> QED BY <1>3, <2>5, <2>6
<1> QED BY <1>3, ConflictKeeps DEF PrCreate, localVars

\* The agent's workspace is closed, and what is left is verified again
\* (broker.ts:81-87, gitWorkspaceAdapter.ts:35-40).
LEMMA VerifyKeeps ==
  ASSUME HandoffInv, HerdrClose \/ CloseInspect \/ CloseHead \/ CloseRemote, calm' = calm
  PROVE  HandoffInv'
<1>1. /\ TypeOK /\ Sound(job, pc) /\ job \in Job /\ calm' \in BOOLEAN
      /\ {"close_inspect", "close_head", "close_remote", "remove"} \subseteq Labels
  BY DEF HandoffInv, TypeOK, Labels
<1>2. job.state = "handoff_ready" /\ EvidenceHolds(job)
  BY <1>1 DEF HerdrClose, CloseInspect, CloseHead, CloseRemote, At, Sound, StateAtLabel, Closing
<1> USE DEF StateAtLabel, EvidenceAtLabel, StandsStill, NoneByBroker, Handing, Closing
<1>3. CASE HerdrClose
  <2>1. CASE /\ session' \in IF session = "open" THEN {"closed", "stays"} ELSE {session}
             /\ Effect("close_inspect") /\ UNCHANGED <<tree, remote, prs, fetched, shown>>
    <3>0. session' \in Sessions \ {"open"}
      BY <1>1, <2>1 DEF TypeOK, Sessions
    <3>1. Evolved /\ NoneAdded /\ OnePrByBroker'
      BY <2>1, OneStays DEF HandoffInv, TypeOK, Lists, Evolved, NoneAdded, ShownKept, ShownBy
    <3>2. PICK record \in Job : record = job
      BY <1>1
    <3>3. EvidenceHolds(record)'
      BY <1>2, <3>1, <3>2, EvidenceStays
    <3>4. Sound(record, "close_inspect")'
      BY <1>2, <2>1, <3>0, <3>2, <3>3 DEF Sound
    <3>5. Recorded(record, "close_inspect")
      BY <1>1, <2>1, <3>2, EffectEnds
    <3> QED BY <1>1, <2>1, <3>0, <3>1, <3>4, <3>5, Settles DEF TypeOK
  <2> QED BY <1>3, <2>1, ConflictKeeps DEF HerdrClose
<1>4. ASSUME NEW label, Returned(label), UNCHANGED worldVars,
             \/ CloseInspect /\ label = "close_head"
             \/ CloseHead /\ label = "close_remote" /\ tree.head = job.sha
             \/ CloseRemote /\ label = "remove"
      PROVE  HandoffInv'
  <2>1. Sound(job, label) /\ label \in Labels
    BY <1>1, <1>2, <1>4 DEF Sound, CloseInspect, CloseHead, CloseRemote, At
  <2> QED BY <1>1, <1>4, <2>1, EffectEnds, QuietSettles
<1> QED BY <1>3, <1>4, ConflictKeeps DEF CloseInspect, CloseHead, CloseRemote

\* The worktree goes and the job is closed (gitWorkspaceAdapter.ts:40, broker.ts:86).
LEMMA RemoveKeeps == ASSUME HandoffInv, Remove \/ Prune, calm' = calm PROVE HandoffInv'
<1>1. /\ TypeOK /\ Sound(job, pc) /\ job \in Job /\ calm' \in BOOLEAN
      /\ {"prune", "idle"} \subseteq Labels
  BY DEF HandoffInv, TypeOK, Labels
<1> USE DEF StateAtLabel, EvidenceAtLabel, StandsStill, NoneByBroker, Handing, Closing
<1>2. /\ job.state = "handoff_ready" /\ EvidenceHolds(job) /\ session # "open"
      /\ session = "stays" \/ tree.head = job.sha
  BY <1>1 DEF Remove, Prune, At, Sound
<1>3. CASE Remove
  <2>1. CASE /\ tree' = [tree EXCEPT !.there = FALSE] /\ Effect("prune")
             /\ UNCHANGED <<session, fetched, remote, prs, shown>>
    <3>1. Evolved /\ NoneAdded /\ OnePrByBroker'
      BY <2>1, OneStays DEF HandoffInv, TypeOK, Lists, Evolved, NoneAdded, ShownKept, ShownBy
    <3>2. tree' \in [there : BOOLEAN, head : 0..MaxCommits, clean : BOOLEAN] /\ tree'.head = tree.head
      BY <1>1, <2>1 DEF TypeOK
    <3>3. PICK record \in Job : record = job
      BY <1>1
    <3>4. EvidenceHolds(record)'
      BY <1>2, <3>1, <3>3, EvidenceStays
    <3>5. Sound(record, "prune")'
      BY <1>2, <2>1, <3>2, <3>3, <3>4 DEF Sound
    <3>6. Recorded(record, "prune")
      BY <1>1, <2>1, <3>3, EffectEnds
    <3> QED BY <1>1, <2>1, <3>1, <3>2, <3>5, <3>6, Settles DEF TypeOK
  <2> QED BY <1>3, <2>1, ConflictKeeps DEF Remove, localVars
<1>4. CASE Prune
  <2> DEFINE over == [job EXCEPT !.state = "closed"]
  <2>1. CASE Checkpoint(over, "idle") /\ UNCHANGED worldVars
    <3>1. /\ over \in Job /\ over.pr = job.pr /\ over.sha = job.sha
          /\ over.remoteSha = job.remoteSha /\ over.state = "closed"
      BY <1>1 DEF Job
    <3> HIDE DEF over
    <3>2. Sound(over, "idle")
      BY <1>2, <3>1 DEF Sound, EvidenceHolds
    <3> QED BY <1>1, <2>1, <3>1, <3>2, CommandEnds, QuietSettles
  <2> QED BY <1>4, <2>1, ConflictKeeps DEF Prune
<1> QED BY <1>3, <1>4

\* The agent works on while its workspace is open.
LEMMA AgentKeeps == ASSUME HandoffInv, AgentWorks PROVE HandoffInv'
<1>1. /\ TypeOK /\ Sound(job, pc) /\ job \in Job /\ pc \in Labels /\ session \in {"open", "stays"}
      /\ UNCHANGED <<session, fetched, remote, prs, job, pc, calm, shown>>
  BY DEF HandoffInv, TypeOK, AgentWorks, Sessions, localVars
<1>2. tree' \in [there : BOOLEAN, head : 0..MaxCommits, clean : BOOLEAN]
  <2>1. CASE tree' = [tree EXCEPT !.clean = ~@]
    BY <1>1, <2>1 DEF TypeOK
  <2>2. ASSUME tree.head < MaxCommits, NEW clean \in BOOLEAN,
               tree' = [tree EXCEPT !.head = @ + 1, !.clean = clean]
        PROVE  tree' \in [there : BOOLEAN, head : 0..MaxCommits, clean : BOOLEAN]
    <3>1. tree.head + 1 \in 0..MaxCommits
      BY <1>1, <2>2, HandoffAssumption DEF TypeOK
    <3> QED BY <1>1, <2>2, <3>1 DEF TypeOK
  <2> QED BY <2>1, <2>2 DEF AgentWorks
<1>3. Evolved /\ NoneAdded /\ OnePrByBroker'
  BY <1>1, OneStays DEF HandoffInv, TypeOK, Lists, Evolved, NoneAdded, ShownKept, ShownBy
<1>4. PICK record \in Job, label \in Labels : record = job /\ label = pc
  BY <1>1
<1>5. EvidenceHolds(record)'
  BY <1>1, <1>3, <1>4, EvidenceStays DEF Sound
<1>6. Sound(record, label)'
  BY <1>1, <1>4, <1>5 DEF Sound, StateAtLabel, EvidenceAtLabel, StandsStill, NoneByBroker, Closing
<1>7. Recorded(record, label)
  BY <1>1, <1>4 DEF Recorded
<1> QED BY <1>1, <1>2, <1>3, <1>6, <1>7, Settles DEF TypeOK

\* A pull request that ends stays whose it is.
LEMMA EndedStays ==
  ASSUME NEW request \in PullRequest, NEW end \in {"merged", "closed"}
  PROVE  Ended(request, end) \in PullRequest /\ Ended(request, end).ours = request.ours
BY DEF Ended, PullRequest

\* People change the branch and its pull requests at the remote.
LEMMA PeopleDo ==
  ASSUME TypeOK, PersonActs
  PROVE  /\ UNCHANGED <<tree, session, fetched, job, pc, calm>> /\ remote' \in Commits
         /\ remote' \in {0, Foreign, remote}
         /\ Evolved /\ NoneAdded
<1>1. prs \in [DOMAIN prs -> PullRequest]
  BY ListFacts DEF TypeOK, Lists
<1>2. Foreign \in Commits /\ 0 \in Commits
  BY HandoffAssumption DEF Commits, Foreign
<1>3. CASE PersonPushes
  BY <1>2, <1>3, SetRemoteDoes DEF PersonPushes, Outsider, localVars
<1>4. CASE PersonDeletesBranch
  <2> DEFINE list == [i \in DOMAIN prs |-> Ended(prs[i], "closed")]
  <2>1. \A i \in DOMAIN prs : /\ Ended(prs[i], "closed") \in PullRequest
                              /\ Ended(prs[i], "closed").ours = prs[i].ours
    BY <1>1, EndedStays
  <2>2. list \in [DOMAIN prs -> PullRequest] /\ \A i \in DOMAIN prs : list[i].ours = prs[i].ours
    BY <2>1
  <2>3. SetPrs(list) /\ remote' = 0 /\ UNCHANGED <<tree, session, fetched, job, pc, calm>>
    BY <1>4 DEF PersonDeletesBranch, Outsider, localVars
  <2> HIDE DEF list
  <2> QED BY <1>2, <2>2, <2>3, InPlace
<1>5. CASE PersonEndsPr
  <2>1. PICK k \in DOMAIN prs, end \in {"merged", "closed"} :
            SetPrs([prs EXCEPT ![k] = Ended(@, end)]) /\ UNCHANGED remote
    BY <1>5 DEF PersonEndsPr, Outsider
  <2> DEFINE list == [prs EXCEPT ![k] = Ended(@, end)]
  <2>2. Ended(prs[k], end) \in PullRequest /\ Ended(prs[k], end).ours = prs[k].ours
    BY <1>1, EndedStays
  <2>3. list \in [DOMAIN prs -> PullRequest] /\ \A i \in DOMAIN prs : list[i].ours = prs[i].ours
    BY <1>1, <2>2
  <2>4. UNCHANGED <<tree, session, fetched, job, pc, calm>> /\ remote \in Commits
    BY <1>5 DEF PersonEndsPr, Outsider, localVars, TypeOK
  <2> HIDE DEF list
  <2> QED BY <2>1, <2>3, <2>4, InPlace DEF list
<1>6. CASE PersonOpensPr
  <2>1. PICK base \in BOOLEAN : CanOpen(base) /\ SetPrs(WithPr(base, FALSE)) /\ UNCHANGED remote
    BY <1>6 DEF PersonOpensPr, Outsider
  <2>2. /\ Evolved
        /\ \A i \in DOMAIN prs : prs'[i] = prs[i]
        /\ \A i \in DOMAIN prs' : i \in DOMAIN prs \/ prs'[i].ours = FALSE
    BY <2>1, OpenDoes
  <2>3. UNCHANGED <<tree, session, fetched, job, pc, calm>> /\ remote \in Commits
    BY <1>6 DEF PersonOpensPr, Outsider, localVars, TypeOK
  <2> QED BY <2>1, <2>2, <2>3 DEF NoneAdded
<1> QED BY <1>3, <1>4, <1>5, <1>6 DEF PersonActs

\* What the agent, a reviewer and others do keeps the invariant.
LEMMA PeopleKeep == ASSUME HandoffInv, PersonActs PROVE HandoffInv'
<1>1. TypeOK /\ Sound(job, pc) /\ job \in Job /\ pc \in Labels
  BY DEF HandoffInv, TypeOK
<1>2. /\ UNCHANGED <<tree, session, fetched, job, pc, calm>> /\ remote' \in Commits
      /\ Evolved /\ NoneAdded
  BY <1>1, PeopleDo
<1>3. PICK record \in Job, label \in Labels : record = job /\ label = pc
  BY <1>1
<1>4. EvidenceHolds(record)'
  BY <1>1, <1>2, <1>3, EvidenceStays DEF Sound
<1>5. Sound(record, label)'
  BY <1>1, <1>2, <1>3, <1>4 DEF Sound, StateAtLabel, EvidenceAtLabel, StandsStill, NoneByBroker, NoneAdded
<1>6. Recorded(record, label) /\ OnePrByBroker'
  BY <1>1, <1>2, <1>3, OneStays DEF Recorded, HandoffInv
<1> QED BY <1>1, <1>2, <1>5, <1>6, Settles DEF TypeOK

\* The base branch is fetched, which no command but rev-list looks at.
LEMMA FetchKeeps == ASSUME HandoffInv, Fetch PROVE HandoffInv'
<1>1. /\ TypeOK /\ Sound(job, pc) /\ job \in Job /\ pc \in Labels
      /\ UNCHANGED <<tree, session, remote, prs, job, pc, calm, shown>>
  BY DEF HandoffInv, TypeOK, Fetch
<1>2. fetched' \in 0..MaxCommits
  <2>1. PICK i \in DOMAIN prs : \E sha \in Brings(prs[i].head) : fetched < sha /\ fetched' = sha
    BY DEF Fetch
  <2>2. PICK sha \in Brings(prs[i].head) : fetched' = sha
    BY <2>1
  <2>3. prs[i].head \in Commits
    BY <1>1, ListFacts DEF TypeOK, Lists, PullRequest
  <2> QED BY <1>1, <2>2, <2>3, HandoffAssumption DEF Brings, TypeOK, Commits, Foreign
<1>3. Evolved /\ NoneAdded /\ OnePrByBroker'
  BY <1>1, OneStays DEF HandoffInv, TypeOK, Lists, Evolved, NoneAdded, ShownKept, ShownBy
<1>4. PICK record \in Job, label \in Labels : record = job /\ label = pc
  BY <1>1
<1>5. EvidenceHolds(record)'
  BY <1>1, <1>3, <1>4, EvidenceStays DEF Sound
<1>6. Sound(record, label)'
  BY <1>1, <1>4, <1>5 DEF Sound, StateAtLabel, EvidenceAtLabel, StandsStill, NoneByBroker
<1>7. Recorded(record, label)
  BY <1>1, <1>4 DEF Recorded
<1> QED BY <1>1, <1>2, <1>3, <1>6, <1>7, Settles DEF TypeOK

\* The job as create_job leaves it.
LEMMA HandoffStarts == Init => HandoffInv
<1> SUFFICES ASSUME Init PROVE HandoffInv
  OBVIOUS
<1>1. 0 \in 0..MaxCommits /\ 0 \in Commits /\ 0 \in 0..MaxPrs
  BY HandoffAssumption DEF Commits, Foreign
<1>2. prs \in [1..0 -> PullRequest]
  BY DEF Init
<1>3. TypeOK
  BY <1>1, <1>2 DEF Init, TypeOK, Job, Labels, Sessions
<1>4. Sound(job, pc)
  BY DEF Init, Sound, StateAtLabel, EvidenceAtLabel, StandsStill, NoneByBroker, EvidenceHolds, Handing, Closing
<1>5. ShownKept /\ OnePrByBroker
  BY DEF Init, ShownKept, ShownBy, OnePrByBroker
<1> QED BY <1>3, <1>4, <1>5 DEF HandoffInv

\* Every step keeps the invariant.
LEMMA HandoffInductive == HandoffInv /\ [Next]_vars => HandoffInv'
<1> SUFFICES ASSUME HandoffInv, [Next]_vars PROVE HandoffInv'
  OBVIOUS
<1>1. CASE Request /\ UNCHANGED calm
  BY <1>1, LookKeeps, PushKeeps, PrReadKeeps, PrCreateKeeps, VerifyKeeps, RemoveKeeps DEF Request
<1>2. CASE Rest \/ UNCHANGED vars
  <2>1. UNCHANGED <<worldVars, job, pc>> /\ calm' \in BOOLEAN /\ job \in Job /\ pc \in Labels /\ Sound(job, pc)
    BY <1>2 DEF Rest, vars, worldVars, localVars, HandoffInv, TypeOK
  <2>2. Recorded(job, pc)
    BY <2>1 DEF Recorded
  <2> QED BY <2>1, <2>2, QuietSettles
<1> QED BY <1>1, <1>2, StartKeeps, AgentKeeps, PeopleKeep, FetchKeeps DEF Next

-----------------------------------------------------------------------------
\* The inductive invariant holds in every state of a hand-off.
THEOREM HandoffInvariant == Spec => []HandoffInv
BY HandoffStarts, HandoffInductive, PTL DEF Spec

\* The types of GitHandoff.
THEOREM HandoffTypes == Spec => []TypeOK
BY HandoffInvariant, PTL DEF HandoffInv

\* A job is handed off only when a pull request into the base branch has shown
\* the commit its record names (README.md:12), whatever happened in between.
THEOREM HandedOffWasShown == Spec => []HandedOffIsShown
<1>1. HandoffInv => HandedOffIsShown
  BY DEF HandoffInv, Sound, EvidenceHolds, HandedOffIsShown, Finished
<1> QED BY <1>1, HandoffInvariant, PTL

\* The broker opens one pull request for a job (gitWorkspaceAdapter.ts:29-31).
THEOREM OnePullRequest == Spec => []OnePrByBroker
BY HandoffInvariant, PTL DEF HandoffInv

\* The evidence that recover_job and close_job rely on hangs together.
THEOREM EvidenceHangsTogether == Spec => []EvidenceInOrder
<1>1. HandoffInv => EvidenceInOrder
  BY DEF HandoffInv, Sound, EvidenceHolds, EvidenceInOrder, Finished
<1> QED BY <1>1, HandoffInvariant, PTL

\* No push takes commits of other people off the branch (README.md:11).
THEOREM NeverForced == Spec => NeverOverwritesRemote
<1>1. ASSUME HandoffInv, [Next]_vars, remote # 0, remote' # remote, remote' \notin {0, Foreign}
      PROVE  remote < remote'
  <2>1. TypeOK
    BY <1>1 DEF HandoffInv
  <2>2. ~PersonActs
    BY <1>1, <2>1, PeopleDo
  <2>3. ~UNCHANGED remote
    BY <1>1
  <2>4. SetRemote(tree.head) /\ remote <= tree.head
    BY <1>1, <2>2, <2>3 DEF Next, StartHandoff, StartClose, AgentWorks, Fetch, Rest, vars, worldVars, Request, Conflict,
       Inspect, RevParse, Lookup, Push, Relookup, PrList, PrCreate, PrView,
       HerdrClose, CloseInspect, CloseHead, CloseRemote, Remove, Prune
  <2> QED BY <1>1, <2>1, <2>4, HandoffAssumption DEF SetRemote, TypeOK, Commits, Foreign
<1>2. HandoffInv /\ [Next]_vars =>
        [remote # 0 /\ remote' # remote /\ remote' \notin {0, Foreign} => remote < remote']_vars
  BY <1>1
<1> QED BY <1>2, HandoffInvariant, PTL DEF Spec, NeverOverwritesRemote

\* No worktree goes with work that no reviewer was shown
\* (gitWorkspaceAdapter.ts:35-40).
THEOREM NothingUnshownGoes == Spec => RemovesOnlyShown
<1>1. ASSUME HandoffInv, [Next]_vars, tree.there, ~tree'.there, session # "stays"
      PROVE  tree.clean /\ tree.head = job.sha /\ tree.head \in shown
  <2>1. TypeOK /\ Sound(job, pc)
    BY <1>1 DEF HandoffInv
  <2>2. ~AgentWorks
    <3>1. AgentWorks => tree'.there = tree.there
      BY <2>1 DEF AgentWorks, TypeOK
    <3> QED BY <1>1, <3>1
  <2>3. ~UNCHANGED tree
    BY <1>1
  <2>4. ~PersonActs
    BY <2>1, <2>3, PeopleDo
  <2>5. At("remove") /\ tree.clean
    BY <1>1, <2>2, <2>3, <2>4 DEF Next, StartHandoff, StartClose, Fetch, Rest, vars, worldVars, Request, Conflict,
       Inspect, RevParse, Lookup, Push, Relookup, PrList, PrCreate, PrView,
       HerdrClose, CloseInspect, CloseHead, CloseRemote, Remove, Prune, Usable
  <2>6. tree.head = job.sha /\ job.state = "handoff_ready"
    BY <1>1, <2>1, <2>5 DEF At, Sound, StandsStill, StateAtLabel, Closing
  <2> QED BY <2>1, <2>5, <2>6 DEF Sound, EvidenceHolds
<1>2. HandoffInv /\ [Next]_vars =>
        [tree.there /\ ~tree'.there /\ session # "stays" =>
            tree.clean /\ tree.head = job.sha /\ tree.head \in shown]_vars
  BY <1>1
<1> QED BY <1>2, HandoffInvariant, PTL DEF Spec, RemovesOnlyShown
=============================================================================
