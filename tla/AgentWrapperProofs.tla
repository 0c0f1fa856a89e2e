------------------------- MODULE AgentWrapperProofs -------------------------
(***************************************************************************)
(* Proofs about AgentWrapper: what the two scripts of the wrappers have in *)
(* common, the invariant that a run keeps along its script, and that a     *)
(* wrapper refines the contract the legacy runner relies on.               *)
(***************************************************************************)
EXTENDS AgentWrapper, SequenceTheorems, TLAPS

Occurs(x, s) == \E i \in 1..Len(s) : s[i] = x

\* Steps in the order of a concatenation are steps of its parts.
LEMMA OccursInConcat ==
  ASSUME NEW S, NEW s \in Seq(S), NEW t \in Seq(S), NEW x, Occurs(x, s) \/ Occurs(x, t)
  PROVE  Occurs(x, s \o t)
<1>1. CASE Occurs(x, s)
  BY <1>1, ConcatProperties DEF Occurs
<1>2. CASE Occurs(x, t)
  <2>1. PICK i \in 1..Len(t) : t[i] = x
    BY <1>2 DEF Occurs
  <2>2. Len(s) \in Nat /\ Len(t) \in Nat
    OBVIOUS
  <2>3. Len(s) + i \in 1..Len(s \o t) /\ (s \o t)[Len(s) + i] = t[i]
    BY <2>2, ConcatProperties
  <2> QED BY <2>1, <2>3 DEF Occurs
<1> QED BY <1>1, <1>2

\* The steps before the commit.
Body == {Post, MayPost, Step("write", "")} \cup {Step("phase", p) : p \in Phases}

\* Every script has its phases before the commit, and one post after it.
ScriptShape ==
    LET last == Len(Script) IN
    /\ last \in Nat /\ last >= 3
    /\ Script[last - 1] = Commit /\ Script[last] = Post
    /\ \A i \in 1..(last - 2) : Script[i] \in Body
    /\ \A p \in Phases : \E i \in 1..(last - 2) : Script[i] = Step("phase", p)

\* The script of codex-wrapper.mjs.
LEMMA CodexShape == ASSUME config.codex PROVE ScriptShape
<1>1. Script = <<Post, Step("write", ""), Post, Step("phase", "codex"), Post, Commit, Post>>
  BY DEF Script, CodexScript
<1>2. {Post, Step("write", ""), Step("phase", "codex")} \subseteq Body /\ Phases = {"codex"}
  BY DEF Body, Phases
<1>3. /\ Len(Script) = 7 /\ Script[6] = Commit /\ Script[7] = Post
      /\ Script[1] = Post /\ Script[2] = Step("write", "") /\ Script[3] = Post
      /\ Script[4] = Step("phase", "codex") /\ Script[5] = Post
  BY <1>1
<1>4. \A i \in 1..5 : Script[i] \in Body
  <2>1. \A i \in 1..5 : i \in {1, 2, 3, 4, 5}
    OBVIOUS
  <2> QED BY <1>2, <1>3, <2>1
<1>5. Len(Script) - 1 = 6 /\ Len(Script) - 2 = 5 /\ Len(Script) >= 3 /\ Len(Script) \in Nat /\ 4 \in 1..5
  <2>1. Len(Script) = 7
    BY <1>3
  <2> HIDE DEF Script
  <2> QED BY <2>1
<1> QED BY <1>2, <1>3, <1>4, <1>5 DEF ScriptShape

\* The script of pi-wrapper.mjs, with any of its phases configured.
LEMMA PiShape == ASSUME ~config.codex, config \in Config PROVE ScriptShape
<1> DEFINE a == <<Post>> \o RunPhase("planner")
           b == a \o <<MayPost, MayPost>>
           c == b \o RunPhase("implementor")
           d == c \o <<MayPost>>
           e == d \o RunPhase("reviewer")
           body == e \o <<MayPost>>
           X(p) == Step("phase", p)
<1>1. ASSUME NEW p PROVE RunPhase(p) \in Seq(Body)
  <2>1. Post \in Body /\ (p \in config.configured => Step("phase", p) \in Body)
    BY DEF Body, Phases
  <2>2. CASE p \in config.configured
    <3> HIDE DEF Body
    <3>1. RunPhase(p) = <<Post, Step("phase", p), Post>>
      BY <2>2 DEF RunPhase
    <3> QED BY <2>1, <2>2, <3>1
  <2>3. CASE p \notin config.configured
    BY <2>3 DEF RunPhase
  <2> QED BY <2>2, <2>3
<1>2. \A p \in config.configured : Occurs(X(p), RunPhase(p))
  BY DEF RunPhase, Occurs
<1>3. <<Post>> \in Seq(Body) /\ <<MayPost>> \in Seq(Body) /\ <<MayPost, MayPost>> \in Seq(Body)
  BY DEF Body
<1> HIDE DEF X
<1>4. /\ a \in Seq(Body) /\ ("planner" \in config.configured => Occurs(X("planner"), a))
  BY <1>1, <1>2, <1>3, OccursInConcat, ConcatProperties
<1> HIDE DEF a
<1>5. /\ b \in Seq(Body) /\ ("planner" \in config.configured => Occurs(X("planner"), b))
  BY <1>3, <1>4, OccursInConcat, ConcatProperties
<1> HIDE DEF b
<1>6. /\ c \in Seq(Body) 
      /\ \A p \in config.configured \cap {"planner", "implementor"} : Occurs(X(p), c)
  BY <1>1, <1>2, <1>5, OccursInConcat, ConcatProperties
<1> HIDE DEF c
<1>7. /\ d \in Seq(Body) 
      /\ \A p \in config.configured \cap {"planner", "implementor"} : Occurs(X(p), d)
  BY <1>3, <1>6, OccursInConcat, ConcatProperties
<1> HIDE DEF d
<1>8. e \in Seq(Body) /\ \A p \in config.configured : Occurs(X(p), e)
  BY <1>1, <1>2, <1>7, OccursInConcat, ConcatProperties DEF Config, PiPhases
<1> HIDE DEF e
<1>9. body \in Seq(Body) /\ \A p \in config.configured : Occurs(X(p), body)
  BY <1>3, <1>8, OccursInConcat, ConcatProperties
<1>10. Len(body) \in Nat /\ Len(body) >= 1
  BY <1>3, <1>8, ConcatProperties
<1>11. Script = body \o <<Commit, Post>>
  BY DEF Script, PiScript, a, b, c, d, e
<1> HIDE DEF body
<1>12. /\ Len(Script) = Len(body) + 2
       /\ \A i \in 1..Len(body) : Script[i] = body[i]
       /\ Script[Len(body) + 1] = Commit /\ Script[Len(body) + 2] = Post
  <2> DEFINE All == Body \cup {Commit}
             tail == <<Commit, Post>>
  <2>1. body \in Seq(All) /\ tail \in Seq(All)
    <3>1. Body \subseteq All /\ Post \in Body /\ Commit \in All
      BY DEF Body
    <3> HIDE DEF All
    <3> QED BY <1>9, <3>1, SeqMonotonic
  <2>2. Len(tail) = 2 /\ tail[1] = Commit /\ tail[2] = Post
    OBVIOUS
  <2> HIDE DEF All, tail
  <2>3. Script = body \o tail
    BY <1>11 DEF tail
  <2>4. /\ Len(Script) = Len(body) + 2 /\ Len(body) \in Nat
        /\ \A i \in 1..(Len(body) + 2) : Script[i] = IF i <= Len(body) THEN body[i] ELSE tail[i - Len(body)]
    <3>1. /\ Len(body \o tail) = Len(body) + Len(tail)
          /\ \A i \in 1..(Len(body) + Len(tail)) :
                (body \o tail)[i] = IF i <= Len(body) THEN body[i] ELSE tail[i - Len(body)]
      BY <2>1, ConcatProperties
    <3> QED BY <1>10, <2>2, <2>3, <3>1
  <2>5. /\ Script[Len(body) + 1] = tail[(Len(body) + 1) - Len(body)]
        /\ Script[Len(body) + 2] = tail[(Len(body) + 2) - Len(body)]
    BY <1>10, <2>4
  <2>6. (Len(body) + 1) - Len(body) = 1 /\ (Len(body) + 2) - Len(body) = 2
    BY <1>10
  <2> QED BY <1>10, <2>2, <2>4, <2>5, <2>6
<1>13. Len(Script) - 2 = Len(body) /\ Len(Script) - 1 = Len(body) + 1 /\ Len(Script) >= 3 /\ Len(Script) \in Nat
  BY <1>10, <1>12
<1>14. \A i \in 1..Len(body) : Script[i] \in Body
  BY <1>9, <1>12
<1>15. \A p \in Phases : \E i \in 1..Len(body) : Script[i] = Step("phase", p)
  BY <1>9, <1>12 DEF Occurs, Phases, X
<1> QED BY <1>12, <1>13, <1>14, <1>15 DEF ScriptShape

\* What a script does at each of its steps.
LEMMA StepKinds ==
  ASSUME config \in Config
  PROVE  /\ ScriptShape
         /\ Script[Len(Script) - 1].op = "commit" /\ Script[Len(Script)].op = "post"
         /\ \A i \in 1..Len(Script) :
               /\ Script[i].op = "phase" => i <= Len(Script) - 2 /\ Script[i].phase \in Phases
               /\ Script[i].op = "commit" => i = Len(Script) - 1
<1>1. ScriptShape
  BY CodexShape, PiShape
<1>2. Post.op = "post" /\ MayPost.op = "may_post" /\ Commit.op = "commit" /\ Step("write", "").op = "write"
  BY DEF Post, MayPost, Commit, Step
<1>3. \A p : Step("phase", p).op = "phase" /\ Step("phase", p).phase = p
  BY DEF Step
<1>4. \A i \in 1..(Len(Script) - 2) :
         /\ Script[i].op = "phase" => Script[i].phase \in Phases
         /\ Script[i].op # "commit"
  <2>1. \A x \in Body : (x.op = "phase" => x.phase \in Phases) /\ x.op # "commit"
    BY <1>2, <1>3 DEF Body
  <2> QED BY <1>1, <2>1 DEF ScriptShape
<1>5. Script[Len(Script) - 1].op = "commit" /\ Script[Len(Script)].op = "post"
  BY <1>1, <1>2 DEF ScriptShape
<1>6. \A i \in 1..Len(Script) : i \in 1..(Len(Script) - 2) \/ i = Len(Script) - 1 \/ i = Len(Script)
  BY <1>1 DEF ScriptShape
<1>7. \A i \in 1..(Len(Script) - 2) : i <= Len(Script) - 2
  BY <1>1 DEF ScriptShape
<1> QED BY <1>1, <1>4, <1>5, <1>6, <1>7

-----------------------------------------------------------------------------
\* The phases that the script has left behind have succeeded.
PhasesBehind ==
    at < Catch => \A i \in 1..(at - 1) : Script[i].op = "phase" => Script[i].phase \in done

\* Only the last step exits with 0, and after the commit nothing is left to
\* stage, unless its commands' outputs were cut short.
LeavesClean ==
    /\ run = "ok" => at = Len(Script)
    /\ at = Len(Script) /\ config.autoCommit /\ ~config.cut => Stageable = {}

\* A thread that Discord has and the wrapper does not know was lost by a post
\* that threw.
ThreadsKnown ==
    /\ ~config.lossy /\ config.payload => threads = IF target THEN 1 ELSE 0
    /\ ~target /\ at < Catch => threads = 0
    /\ ~target /\ run = "running" => threads <= 1

\* The inductive invariant of a wrapper.
WrapperInv == TypeOK /\ PhasesBehind /\ LeavesClean /\ ThreadsKnown

\* A wrapper starts in the invariant.
LEMMA WrapperStarts == Init => WrapperInv
<1> SUFFICES ASSUME Init PROVE WrapperInv
  OBVIOUS
<1>1. Len(Script) \in Nat /\ Len(Script) >= 3
  BY StepKinds DEF Init, ScriptShape
<1> HIDE DEF Script
<1>2. 1 \in 1..Catch /\ 1 # Len(Script)
  <2> DEFINE n == Len(Script)
  <2>1. n \in Nat /\ n >= 3 /\ Catch = n + 1
    BY <1>1 DEF Catch
  <2> HIDE DEF n
  <2>2. 1 \in 1..(n + 1) /\ 1 # n
    BY <2>1
  <2> QED BY <2>1, <2>2 DEF n
<1>3. TypeOK
  <2>1. at \in 1..Catch
    BY <1>2, Zenon DEF Init
  <2>2. dirty \subseteq {"context", "work", "nested"} /\ threads \in 0..2 /\ done \subseteq Phases
    BY DEF Init
  <2> QED BY <2>1, <2>2 DEF Init, TypeOK
<1>4. PhasesBehind /\ LeavesClean
  BY <1>2 DEF Init, PhasesBehind, LeavesClean
<1>5. ThreadsKnown
  BY DEF Init, ThreadsKnown
<1> QED BY <1>3, <1>4, <1>5 DEF WrapperInv

\* The script goes on, exits or is caught (pi-wrapper.mjs:54-103).
LEMMA Moves ==
  ASSUME TypeOK, run = "running", Return \/ Throw
  PROVE  \/ at < Len(Script) /\ at' = at + 1 /\ run' = "running"
         \/ at = Len(Script) /\ at' = at /\ run' = "ok"
         \/ at < Catch /\ at' = Catch /\ run' = "running"
         \/ at = Catch /\ at' = at /\ run' = "failed"
BY DEF Return, Throw

\* The script is the same at every step of a run.
LEMMA ScriptStays ==
  ASSUME TypeOK, UNCHANGED config
  PROVE  /\ Script' = Script /\ Catch' = Catch /\ Phases' = Phases
         /\ Len(Script) \in Nat /\ Len(Script) >= 3
         /\ Catch = Len(Script) + 1 /\ Catch \in Nat /\ Len(Script) < Catch
<1>1. Script' = Script /\ Catch' = Catch /\ Phases' = Phases
  BY DEF Script, Catch, Phases, PiScript, CodexScript, RunPhase
<1>2. Len(Script) \in Nat /\ Len(Script) >= 3
  BY StepKinds DEF TypeOK, ScriptShape
<1> DEFINE n == Len(Script)
<1>3. n \in Nat /\ Catch = n + 1
  BY <1>2 DEF Catch
<1>4. ASSUME NEW k \in Nat PROVE k + 1 \in Nat /\ k < k + 1
  OBVIOUS
<1> QED BY <1>1, <1>2, <1>3, <1>4

\* A step ends on the script, at its catch block, or is over.
LEMMA PlaceTypes ==
  ASSUME TypeOK, run = "running", Return \/ Throw \/ UNCHANGED <<at, run>>, UNCHANGED config
  PROVE  /\ at' \in 1..Catch' /\ run' \in {"running", "ok", "failed"}
         /\ Script' = Script /\ Catch' = Catch /\ Phases' = Phases
         /\ Len(Script) \in Nat /\ Len(Script) >= 3
         /\ Catch = Len(Script) + 1 /\ Catch \in Nat /\ Len(Script) < Catch
<1>1. /\ Script' = Script /\ Catch' = Catch /\ Phases' = Phases
      /\ Len(Script) \in Nat /\ Len(Script) >= 3
      /\ Catch = Len(Script) + 1 /\ Catch \in Nat /\ Len(Script) < Catch
  BY ScriptStays
<1> HIDE DEF Script
<1>2. at' \in 1..Catch /\ run' \in {"running", "ok", "failed"}
  BY <1>1, Moves DEF TypeOK, Catch
<1> QED BY <1>1, <1>2

\* Posts move through the script and make threads (pi-wrapper.mjs:275-448).
LEMMA PostKeeps ==
  ASSUME WrapperInv, SkipPost \/ MakeThread \/ SendPost
  PROVE  WrapperInv'
<1> USE DEF WrapperInv
<1>1. UNCHANGED <<config, dirty, commit, head, done>> /\ Posting /\ run = "running"
  BY DEF SkipPost, MakeThread, SendPost, worktree, Posting, At, InCatch
<1>2. Return \/ Throw \/ UNCHANGED <<at, run>>
  BY DEF SkipPost, MakeThread, SendPost, MayThrow
<1>3. /\ at' \in 1..Catch' /\ run' \in {"running", "ok", "failed"}
      /\ Script' = Script /\ Catch' = Catch /\ Phases' = Phases
      /\ Len(Script) \in Nat /\ Len(Script) >= 3
      /\ Catch = Len(Script) + 1 /\ Catch \in Nat /\ Len(Script) < Catch
  BY <1>1, <1>2, PlaceTypes
<1>4. \/ at < Len(Script) /\ at' = at + 1 /\ run' = "running"
      \/ at = Len(Script) /\ at' = at /\ run' = "ok"
      \/ at < Catch /\ at' = Catch /\ run' = "running"
      \/ at = Catch /\ at' = at /\ run' = "failed"
      \/ at' = at /\ run' = run
  BY <1>1, <1>2, Moves
<1>5. at < Catch => Script[at].op \in {"post", "may_post"}
  BY <1>1, <1>3 DEF Posting, At, InCatch, TypeOK
<1>6. PhasesBehind'
  <2> SUFFICES ASSUME at' < Catch, NEW i \in 1..(at' - 1), Script[i].op = "phase" 
               PROVE  Script[i].phase \in done
    BY <1>1, <1>3 DEF PhasesBehind
  <2>1. at \in Nat /\ Catch \in Nat
    BY <1>3 DEF TypeOK
  <2>2. at < Catch /\ (i \in 1..(at - 1) \/ i = at)
    <3> HIDE DEF Catch
    <3>1. at' < Catch /\ i \in 1..(at' - 1) /\ Len(Script) < Catch
      BY <1>3
    <3>2. at' = at \/ (at' = at + 1 /\ at < Catch)
      BY <1>3, <1>4, <2>1, <3>1
    <3> QED BY <2>1, <3>1, <3>2
  <2> QED BY <1>5, <2>2 DEF PhasesBehind
<1>7. LeavesClean'
  <2>1. Stageable' = Stageable
    BY <1>1 DEF Stageable, Visible
  <2>2. at' = Len(Script) => at = Len(Script)
    <3>1. at # Len(Script) - 1
      BY <1>3, <1>5, StepKinds DEF TypeOK
    <3> QED BY <1>3, <1>4, <3>1 DEF TypeOK
  <2> QED BY <1>1, <1>3, <1>4, <2>1, <2>2 DEF LeavesClean, TypeOK
<1>8. \/ UNCHANGED <<threads, target>>
      \/ ~target /\ threads' = threads + 1 /\ target' = TRUE
      \/ /\ ~target /\ (config.lossy \/ ~config.payload)
         /\ threads' = threads + 1 /\ target' = target /\ Throw
  BY DEF SkipPost, MakeThread, SendPost, NeedsThread, MayThrow, TypeOK
<1>9. ThreadsKnown' /\ threads' \in 0..2 /\ target' \in BOOLEAN
  <2>1. CASE UNCHANGED <<threads, target>>
    BY <1>1, <1>3, <1>4, <2>1 DEF ThreadsKnown, TypeOK
  <2>2. CASE ~target /\ threads' = threads + 1 /\ target' = TRUE
    BY <1>1, <2>2 DEF ThreadsKnown, TypeOK
  <2>3. CASE ~target /\ (config.lossy \/ ~config.payload) /\ threads' = threads + 1 /\ target' = target /\ Throw
    BY <1>1, <1>3, <2>3 DEF ThreadsKnown, TypeOK, Throw
  <2> QED BY <1>8, <2>1, <2>2, <2>3
<1>10. TypeOK'
  BY <1>1, <1>3, <1>9 DEF TypeOK
<1> QED BY <1>6, <1>7, <1>9, <1>10

\* The agent of a phase works and its command exits; codex is given its
\* prompt (pi-wrapper.mjs:105-171, codex-wrapper.mjs:63-80).
LEMMA PhaseKeeps ==
  ASSUME WrapperInv, AgentEdits \/ AgentCommits \/ AgentSwitches \/ WritePrompt \/ EndPhase
  PROVE  WrapperInv'
<1> USE DEF WrapperInv
<1>1. /\ UNCHANGED <<config, target, threads>> /\ run = "running"
      /\ at < Catch /\ Script[at].op \in {"phase", "write"}
  BY DEF AgentEdits, AgentCommits, AgentSwitches, WritePrompt, EndPhase, worktree, At
<1>2. Return \/ Throw \/ Dies \/ UNCHANGED <<at, run>>
  BY DEF AgentEdits, AgentCommits, AgentSwitches, WritePrompt, EndPhase, MayThrow
<1>3. /\ Script' = Script /\ Catch' = Catch /\ Phases' = Phases
      /\ Len(Script) \in Nat /\ Len(Script) >= 3
      /\ Catch = Len(Script) + 1 /\ Catch \in Nat /\ Len(Script) < Catch
  BY <1>1, ScriptStays
<1>4. /\ at \in 1..Len(Script) /\ at # Len(Script) - 1 /\ at # Len(Script)
      /\ Script[at].op = "phase" => Script[at].phase \in Phases
  <2>1. at \in 1..Len(Script)
    BY <1>1, <1>3 DEF TypeOK
  <2> QED BY <1>1, <2>1, StepKinds DEF TypeOK
<1>5. /\ \/ at' = at + 1 /\ run' = "running"
         \/ at' = Catch /\ run' = "running"
         \/ at' = at /\ run' \in {"running", "failed"}
      /\ at' \in 1..Catch' /\ run' \in {"running", "ok", "failed"}
  <2>1. CASE Return \/ Throw \/ UNCHANGED <<at, run>>
    <3>1. at' \in 1..Catch' /\ run' \in {"running", "ok", "failed"}
      BY <1>1, <2>1, PlaceTypes
    <3>2. \/ at' = at + 1 /\ run' = "running"
          \/ at' = Catch /\ run' = "running"
          \/ at' = at /\ run' = run
      BY <1>1, <1>3, <1>4, <2>1, Moves
    <3> QED BY <1>1, <3>1, <3>2
  <2>2. CASE Dies
    <3>1. at' = at /\ run' = "failed"
      BY <2>2 DEF Dies
    <3> QED BY <1>3, <3>1 DEF TypeOK
  <2> QED BY <1>2, <2>1, <2>2
<1>6. /\ done \subseteq done' /\ done' \subseteq Phases
      /\ at' = at + 1 /\ Script[at].op = "phase" => Script[at].phase \in done'
  <2>1. CASE EndPhase
    <3>1. Throw \/ Dies => at' = Catch \/ at' = at
      BY <1>1 DEF Throw, Dies
    <3>2. at + 1 # Catch /\ at + 1 # at
      BY <1>3, <1>4
    <3>3. done' = done \cup {Script[at].phase} \/ (done' = done /\ (at' = Catch \/ at' = at))
      BY <2>1, <3>1 DEF EndPhase
    <3>4. Script[at].op = "phase" /\ done \subseteq Phases
      BY <2>1 DEF EndPhase, At, TypeOK
    <3> QED BY <1>4, <3>2, <3>3, <3>4
  <2>2. CASE AgentEdits \/ AgentCommits \/ AgentSwitches
    <3>1. done' = done /\ at' = at
      BY <2>2 DEF AgentEdits, AgentCommits, AgentSwitches
    <3>2. at + 1 # at /\ done \subseteq Phases
      BY <1>4 DEF TypeOK
    <3> QED BY <3>1, <3>2
  <2>3. CASE WritePrompt
    BY <2>3 DEF WritePrompt, worktree, At, TypeOK
  <2> QED BY <2>1, <2>2, <2>3
<1>7. PhasesBehind'
  <2> SUFFICES ASSUME at' < Catch, NEW i \in 1..(at' - 1), Script[i].op = "phase" 
               PROVE  Script[i].phase \in done'
    BY <1>3 DEF PhasesBehind
  <2>1. at' = at \/ at' = at + 1
    BY <1>3, <1>5
  <2>2. i \in 1..(at - 1) \/ (i = at /\ at' = at + 1)
    BY <1>4, <2>1
  <2> QED BY <1>1, <1>6, <2>2 DEF PhasesBehind
<1>8. LeavesClean'
  <2>1. at' # Len(Script)
    BY <1>3, <1>4, <1>5
  <2> QED BY <1>1, <1>3, <1>4, <1>5, <2>1 DEF LeavesClean
<1>9. ThreadsKnown'
  <2>1. at' < Catch => at < Catch
    BY <1>1
  <2> QED BY <1>1, <1>3, <2>1 DEF ThreadsKnown
<1>10. /\ dirty' \subseteq {"context", "work", "nested"} /\ commit' \in {"none", "context", "work"}
       /\ head' \in {"branch", "ahead", "bare"}
  BY DEF Gains, AgentEdits, AgentCommits, AgentSwitches, WritePrompt, EndPhase, worktree, LastMessage, TypeOK
<1>11. TypeOK'
  BY <1>1, <1>3, <1>5, <1>6, <1>10 DEF TypeOK
<1> QED BY <1>7, <1>8, <1>9, <1>11

\* autoCommit (pi-wrapper.mjs:173-208) changes the branch only by a commit of
\* what the repository sees.
LEMMA CommitDoes ==
  ASSUME TypeOK, AutoCommit
  PROVE  /\ UNCHANGED <<config, target, threads, done>>
         /\ run = "running" /\ at < Catch /\ Script[at].op = "commit" /\ (Return \/ Throw)
         /\ \/ UNCHANGED <<dirty, commit, head>>
            \/ Stageable # {} /\ CommitAll
         /\ Return /\ config.autoCommit /\ ~config.cut => dirty' = dirty \ Stageable
<1>0. ~(Return /\ Throw /\ at < Catch)
  <2> DEFINE n == Len(Script)
  <2>1. n \in Nat /\ Catch = n + 1 /\ at \in 1..Catch
    BY StepKinds DEF Catch, TypeOK, ScriptShape
  <2> HIDE DEF n
  <2>2. SUFFICES ASSUME at < Catch, at' = Catch,
                        (at < n /\ at' = at + 1) \/ (at = n /\ at' = at) \/ at = Catch
                 PROVE  FALSE
    BY DEF Return, Throw, n
  <2> QED BY <2>1, <2>2
<1>1. run = "running" /\ at < Catch /\ Script[at].op = "commit" /\ (Return \/ Throw)
  BY DEF AutoCommit, At, MayThrow
<1>2. UNCHANGED <<config, target, threads, done>>
  BY DEF AutoCommit
<1>3. CASE /\ config.autoCommit => Stageable = {} \/ config.cut
           /\ Return /\ UNCHANGED <<dirty, commit, head>>
  BY <1>1, <1>2, <1>3
<1>4. CASE config.autoCommit /\ Stageable # {} /\ CommitAll
  BY <1>1, <1>2, <1>4 DEF CommitAll
<1>5. CASE Throw /\ UNCHANGED <<dirty, commit, head>>
  BY <1>0, <1>1, <1>2, <1>5
<1> QED BY <1>3, <1>4, <1>5 DEF AutoCommit, MayThrow

\* The automatic commit of the wrapper (pi-wrapper.mjs).
LEMMA CommitKeeps == ASSUME WrapperInv, AutoCommit PROVE WrapperInv'
<1> USE DEF WrapperInv
<1>1. /\ UNCHANGED <<config, target, threads, done>>
      /\ run = "running" /\ at < Catch /\ Script[at].op = "commit" /\ (Return \/ Throw)
      /\ UNCHANGED <<dirty, commit, head>> \/ (Stageable # {} /\ CommitAll)
      /\ Return /\ config.autoCommit /\ ~config.cut => dirty' = dirty \ Stageable
  BY CommitDoes
<1>2. /\ at' \in 1..Catch' /\ run' \in {"running", "ok", "failed"}
      /\ Script' = Script /\ Catch' = Catch /\ Phases' = Phases
      /\ Len(Script) \in Nat /\ Len(Script) >= 3
      /\ Catch = Len(Script) + 1 /\ Catch \in Nat /\ Len(Script) < Catch
  BY <1>1, PlaceTypes
<1>3. at = Len(Script) - 1
  <2>1. at \in 1..Len(Script)
    BY <1>1, <1>2 DEF TypeOK
  <2> QED BY <1>1, <2>1, StepKinds DEF TypeOK
<1>4. /\ run' = "running"
      /\ (Return /\ at' = Len(Script)) \/ at' = Catch
  BY <1>1, <1>2, <1>3 DEF Return, Throw
<1>5. PhasesBehind'
  <2> SUFFICES ASSUME at' < Catch, NEW i \in 1..(at' - 1), Script[i].op = "phase" 
               PROVE  Script[i].phase \in done
    BY <1>1, <1>2 DEF PhasesBehind
  <2>1. at \in Nat /\ at' = at + 1
    <3> DEFINE n == Len(Script)
    <3>1. n \in Nat /\ n >= 3 /\ at = n - 1 /\ at' = n
      BY <1>2, <1>3, <1>4
    <3> HIDE DEF n
    <3> QED BY <3>1
  <2>2. i \in 1..(at - 1) \/ i = at
    BY <2>1
  <2> QED BY <1>1, <2>2 DEF PhasesBehind
<1>6. LeavesClean'
  <2>1. Return /\ config.autoCommit /\ ~config.cut => Stageable' = {}
    BY <1>1 DEF Stageable, Visible
  <2>2. Catch # Len(Script)
    BY <1>2
  <2> QED BY <1>1, <1>2, <1>4, <2>1, <2>2 DEF LeavesClean
<1>7. ThreadsKnown'
  BY <1>1, <1>2, <1>4 DEF ThreadsKnown
<1>8. /\ dirty' \subseteq {"context", "work", "nested"} /\ commit' \in {"none", "context", "work"}
      /\ head' \in {"branch", "ahead", "bare"}
  BY <1>1 DEF CommitAll, Committed, Gains, TypeOK
<1>9. TypeOK'
  BY <1>1, <1>2, <1>8 DEF TypeOK
<1> QED BY <1>5, <1>6, <1>7, <1>9

\* Every step of a wrapper preserves the invariant.
LEMMA WrapperInductive == WrapperInv /\ [Next]_vars => WrapperInv'
<1>1. ASSUME WrapperInv, UNCHANGED vars PROVE WrapperInv'
  <2>1. /\ UNCHANGED <<config, at, run, dirty, commit, head, target, threads, done>>
        /\ Script' = Script /\ Catch' = Catch /\ Phases' = Phases
    BY <1>1, ScriptStays DEF WrapperInv, vars
  <2>2. Stageable' = Stageable
    BY <2>1 DEF Stageable, Visible
  <2>3. TypeOK' /\ LeavesClean'
    BY <1>1, <2>1, <2>2 DEF WrapperInv, TypeOK, LeavesClean
  <2>4. PhasesBehind' /\ ThreadsKnown'
    BY <1>1, <2>1 DEF WrapperInv, PhasesBehind, ThreadsKnown
  <2> QED BY <2>3, <2>4 DEF WrapperInv
<1> QED BY <1>1, PostKeeps, PhaseKeeps, CommitKeeps DEF Next, Exited

-----------------------------------------------------------------------------
\* The inductive invariant holds in every state of a wrapper.
THEOREM WrapperInvariant == Spec => []WrapperInv
BY WrapperStarts, WrapperInductive, PTL DEF Spec

\* The types of AgentWrapper.
THEOREM WrapperTypes == Spec => []TypeOK
BY WrapperInvariant, PTL DEF WrapperInv

\* Exit code 0 means that every configured phase has succeeded and, with
\* auto-commit and whole outputs of git, that nothing git can stage is left
\* uncommitted (pi-wrapper.mjs:54-94, 187-208).
THEOREM OkIsFinished == Spec => []OkMeansFinished
<1>1. ASSUME WrapperInv PROVE OkMeansFinished
  <2> USE DEF WrapperInv
  <2> SUFFICES ASSUME run = "ok"
               PROVE  done = Phases /\ (config.autoCommit /\ ~config.cut => Stageable = {})
    BY DEF OkMeansFinished, Stageable, Visible
  <2>1. at = Len(Script) /\ (config.autoCommit /\ ~config.cut => Stageable = {})
    BY <1>1 DEF LeavesClean
  <2>2. ScriptShape /\ Len(Script) \in Nat /\ at < Catch
    BY <1>1, <2>1, StepKinds DEF TypeOK, ScriptShape, Catch
  <2>3. ASSUME NEW p \in Phases PROVE p \in done
    <3>1. PICK i \in 1..(Len(Script) - 2) : Script[i] = Step("phase", p)
      BY <2>2 DEF ScriptShape
    <3>2. Script[i].op = "phase" /\ Script[i].phase = p
      BY <3>1 DEF Step
    <3>3. i \in 1..(at - 1)
      BY <2>1, <2>2
    <3> QED BY <1>1, <2>2, <3>2, <3>3 DEF PhasesBehind
  <2> QED BY <1>1, <2>1, <2>3 DEF TypeOK
<1> QED BY <1>1, WrapperInvariant, PTL

\* A run posts to one thread, unless Discord loses an answer or the task's file
\* could not be read (pi-wrapper.mjs:351-382).
THEOREM OneThreadOnly == Spec => []OneThread
<1>1. WrapperInv => OneThread
  BY DEF WrapperInv, ThreadsKnown, OneThread
<1> QED BY <1>1, WrapperInvariant, PTL

\* The wrappers of both scripts implement WrapperContract: the branch gains
\* commits only while the process runs and the branch is checked out, and with
\* ignored files only work.
THEOREM WrapperRefines == Spec => KeepsContract
<1>1. Init => Contract!Init
  BY DEF Init, Contract!Init, Config
<1>2. ASSUME WrapperInv, [Next]_vars PROVE [Contract!Next]_(Contract!vars)
  <2> USE DEF WrapperInv
  <2>1. UNCHANGED config /\ UNCHANGED config.ignored
    BY <1>2 DEF Next, SkipPost, MakeThread, SendPost, AgentEdits, AgentCommits, AgentSwitches,
       WritePrompt, EndPhase, AutoCommit, Exited, vars, worktree
  <2>2. ASSUME UNCHANGED <<commit, head>>, run = "running",
               Return \/ Throw \/ Dies \/ UNCHANGED <<at, run>>
        PROVE  [Contract!Next]_(Contract!vars)
    <3>1. run' \in {"running", "ok", "failed"}
      BY <1>2, <2>1, <2>2, PlaceTypes DEF Dies
    <3> QED BY <2>1, <2>2, <3>1 DEF Contract!Next, Contract!Exits, Contract!vars
  <2>3. CASE SkipPost \/ MakeThread \/ SendPost \/ WritePrompt \/ EndPhase
    <3>1. UNCHANGED <<commit, head>> /\ run = "running"
      BY <2>3 DEF SkipPost, MakeThread, SendPost, WritePrompt, EndPhase, worktree, Posting, At, InCatch
    <3>2. Return \/ Throw \/ Dies \/ UNCHANGED <<at, run>>
      BY <2>3 DEF SkipPost, MakeThread, SendPost, WritePrompt, EndPhase, MayThrow
    <3> QED BY <2>2, <3>1, <3>2
  <2>4. ASSUME run = "running", run' = run,
               UNCHANGED commit \/ commit' = "work" \/ (~config.ignored /\ commit = "none" /\ commit' = "context"),
               UNCHANGED <<commit, head>>
               \/ (head = "branch" /\ UNCHANGED head)
               \/ (head' \in {"branch", "ahead", "bare"} /\ UNCHANGED commit)
        PROVE  [Contract!Next]_(Contract!vars)
    BY <2>1, <2>4 DEF Contract!Next, Contract!Adds, Contract!Switches, Contract!Heads, Contract!vars
  <2>5. CASE AgentEdits \/ AgentCommits \/ AgentSwitches
    BY <2>4, <2>5 DEF AgentEdits, AgentCommits, AgentSwitches, Gains, At
  <2>6. CASE AutoCommit
    <3>1. run = "running" /\ at < Catch /\ Script[at].op = "commit" /\ (Return \/ Throw)
      BY <1>2, <2>6, CommitDoes
    <3>2. CASE UNCHANGED <<commit, head>>
      BY <2>2, <3>1, <3>2
    <3>3. CASE Stageable # {} /\ CommitAll
      <4>1. at # Len(Script) /\ at # Catch
        <5>1. Len(Script) \in Nat /\ at \in 1..Catch /\ Catch = Len(Script) + 1
          BY <1>2, StepKinds DEF TypeOK, ScriptShape, Catch
        <5>2. at \in 1..Len(Script)
          BY <3>1, <5>1
        <5> QED BY <1>2, <3>1, <5>1, <5>2, StepKinds DEF TypeOK
      <4>2. run' = run
        BY <3>1, <4>1 DEF Return, Throw
      <4>3. "work" \notin dirty => ~config.ignored
        BY <1>2, <3>3 DEF Stageable, Visible, TypeOK
      <4>4. Committed = "work" \/ (~config.ignored /\ commit = "none" /\ Committed = "context")
            \/ Committed = commit
        BY <4>3 DEF Committed
      <4> QED BY <2>4, <3>1, <3>3, <4>2, <4>4 DEF CommitAll, Gains
    <3> QED BY <1>2, <2>6, <3>2, <3>3, CommitDoes
  <2>7. CASE Exited \/ UNCHANGED vars
    BY <2>7 DEF Exited, vars, Contract!vars
  <2> QED BY <1>2, <2>3, <2>5, <2>6, <2>7 DEF Next
<1> QED BY <1>1, <1>2, WrapperInvariant, PTL DEF Spec, KeepsContract, Contract!Spec
=============================================================================
