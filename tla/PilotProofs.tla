----------------------------- MODULE PilotProofs -----------------------------
(***************************************************************************)
(* Proofs about PilotHost for any number of connections.  The process acts *)
(* on files and on all sockets at once, the other actions on one socket;   *)
(* the three parts of the invariant are kept by one lemma each, and the    *)
(* children only have types.                                               *)
(***************************************************************************)
EXTENDS PilotHost, TLAPS

\* A connection in the phase `executing' has had its one request and no
\* answer; with any answer it is in the phase `responded'.
PhasesCount ==
    \A s \in Sockets :
       /\ socket[s] \notin {"executing", "responded"} => answers[s] = 0 /\ begun[s] = 0
       /\ socket[s] = "executing" => answers[s] = 0 /\ begun[s] = 1
       /\ socket[s] = "responded" => answers[s] = 1 /\ begun[s] <= 1

\* An open socket has a server that has not been closed yet.
OpenWhileServed ==
    \A s \in Sockets : socket[s] \in Open => server \in Accepting \cup {"stopping"}

\* What the process has made stands, and the ready file last; a ready file that
\* is not its own came with a descriptor that is not its own.
FilesOwned ==
    /\ server \in {"down", "listening"} => owned = {}
    /\ server = "describing" => owned = {"descriptor"}
    /\ server = "announcing" => descriptor = "full" /\ owned = {"descriptor"}
    /\ "ready" \in owned => "descriptor" \in owned /\ descriptor = "full"
    /\ "descriptor" \in owned /\ "ready" \notin owned => ready = "none"
    /\ "descriptor" \in owned => descriptor \in {"empty", "full"}
    /\ ReadyMeansDescriptor

\* The inductive invariant of the pilot broker.
PilotInv == TypeOK /\ PhasesCount /\ OpenWhileServed /\ FilesOwned

-----------------------------------------------------------------------------
\* An event of a child (processExecutor.ts:5) leaves a child of the right type.
LEMMA ChildTypes ==
  ASSUME Executor!RunTypes, NEW s \in Sockets, Executor!Running(s) \/ Executor!Spawn(s)
  PROVE  Executor!RunTypes'
<1> DEFINE Record == [child : {"none", "running", "killed"} \cup Executor!Ended,
                      timer : {"off", "armed", "fired"},
                      exit : BOOLEAN,
                      outcome : Executor!Outcomes]
           Sets(next) == next \in Record /\ run' = [run EXCEPT ![s] = next]
<1>0. run \in [Sockets -> Record] /\ run[s] \in Record
  BY DEF Executor!RunTypes
<1> USE DEF Executor!Ended, Executor!Outcomes
<1>1. ASSUME Executor!Spawn(s) PROVE \E next : Sets(next)
  <2> DEFINE started == [Executor!NoRun EXCEPT !.child = "running", !.timer = "armed"]
             failed == [Executor!NoRun EXCEPT !.timer = "armed", !.outcome = "no_start"]
  <2>1. started \in Record /\ failed \in Record
    BY DEF Executor!NoRun
  <2>2. run' = [run EXCEPT ![s] = started] \/ run' = [run EXCEPT ![s] = failed]
    BY <1>1 DEF Executor!Spawn
  <2> QED BY <2>1, <2>2
<1>2. ASSUME Executor!OutputTooLarge(s) PROVE \E next : Sets(next)
  <2>1. [Executor!Kill(run[s]) EXCEPT !.outcome = "too_large"] \in Record
    BY <1>0 DEF Executor!Kill
  <2> QED BY <1>2, <2>1 DEF Executor!OutputTooLarge
<1>3. ASSUME Executor!TimerFires(s) PROVE \E next : Sets(next)
  <2>1. [Executor!Kill(run[s]) EXCEPT !.timer = "fired"] \in Record
    BY <1>0 DEF Executor!Kill
  <2> QED BY <1>3, <2>1 DEF Executor!TimerFires
<1>4. ASSUME Executor!ChildEnds(s) PROVE \E next : Sets(next)
  <2>1. [run[s] EXCEPT !.child = "ended"] \in Record
    BY <1>0
  <2> QED BY <1>4, <2>1 DEF Executor!ChildEnds
<1>5. ASSUME Executor!ChildDies(s) PROVE \E next : Sets(next)
  <2>1. [run[s] EXCEPT !.child = "dead"] \in Record
    BY <1>0
  <2> QED BY <1>5, <2>1 DEF Executor!ChildDies
<1>6. ASSUME Executor!OnExit(s) PROVE \E next : Sets(next)
  <2> DEFINE timer == IF run[s].timer = "armed" THEN "off" ELSE run[s].timer
             outcome == Executor!Result(run[s])
  <2>1. timer \in {"off", "armed", "fired"} /\ outcome \in Executor!Outcomes
    BY <1>0 DEF Executor!Result
  <2>2. Executor!Exited(run[s]) = [run[s] EXCEPT !.exit = TRUE, !.timer = timer, !.outcome = outcome]
    BY DEF Executor!Exited
  <2> HIDE DEF timer, outcome
  <2>3. Executor!Exited(run[s]) \in Record
    BY <1>0, <2>1, <2>2
  <2> QED BY <1>6, <2>3 DEF Executor!OnExit
<1>7. ASSUME NEW next, Sets(next) PROVE Executor!RunTypes'
  <2> HIDE DEF Record
  <2>1. run' \in [Sockets -> Record]
    BY <1>0, <1>7
  <2> QED BY <2>1 DEF Executor!RunTypes, Record
<1> QED BY <1>1, <1>2, <1>3, <1>4, <1>5, <1>6, <1>7 DEF Executor!Running, Executor!Events

\* The process and its end (pilotBrokerServerMain.ts:22-41).
LEMMA ProcessKeeps ==
  ASSUME PilotInv, Listen \/ Signal \/ ClearFiles \/ Process \/ Crash
  PROVE  PilotTypes' /\ PhasesCount' /\ OpenWhileServed' /\ FilesOwned'
<1> USE DEF PilotInv, TypeOK, PilotTypes, PhasesCount, OpenWhileServed, FilesOwned,
      ReadyMeansDescriptor, Accepting, Stopping, Open, fileVars, socketVars, callVars
<1>1. CASE Listen \/ Signal
  BY <1>1 DEF Listen, Signal
<1>2. CASE ClearFiles
  BY <1>2 DEF ClearFiles
<1>3. CASE OpenDescriptor
  BY <1>3 DEF OpenDescriptor
<1>4. CASE WriteDescriptor
  BY <1>4 DEF WriteDescriptor
<1>5. CASE WriteReady
  BY <1>5 DEF WriteReady
<1>6. CASE Close
  BY <1>6 DEF Close
<1>7. CASE ServerClosed
  BY <1>7 DEF ServerClosed
<1>8. CASE Remove
  BY <1>8 DEF Remove
<1>9. CASE Crash
  BY <1>9 DEF Crash, Left
<1> QED BY <1>1, <1>2, <1>3, <1>4, <1>5, <1>6, <1>7, <1>8, <1>9 DEF Process

\* A socket and its client (pilotBrokerServer.ts:12-78, pilotBrokerClient.ts).
LEMMA SocketKeeps ==
  ASSUME PilotInv, NEW s \in Sockets,
         \/ Accept(s) \/ OnTimeout(s) \/ Begin(s) \/ Reject(s)
         \/ Returns(s) \/ Connect(s) \/ Settles(s)
  PROVE  PilotTypes' /\ PhasesCount' /\ OpenWhileServed' /\ FilesOwned'
<1> USE DEF PilotInv, TypeOK, PilotTypes, PhasesCount, OpenWhileServed,
      Accepting, Stopping, Open, fileVars, serverVars, callVars, socketVars
<1>1. serverVars' = serverVars
  BY DEF Accept, OnTimeout, Begin, Reject, Returns, Connect, Settles
<1>2. FilesOwned'
  BY <1>1 DEF FilesOwned, ReadyMeansDescriptor
<1>3. PilotTypes' /\ PhasesCount' /\ OpenWhileServed'
  <2>1. CASE Accept(s)
    BY <2>1 DEF Accept
  <2>2. CASE OnTimeout(s)
    BY <2>2 DEF OnTimeout, Answer, Destroy
  <2>3. CASE Begin(s)
    BY <2>3 DEF Begin, Receives
  <2>4. CASE Reject(s)
    BY <2>4 DEF Reject, Receives, Answer, Destroy
  <2>5. CASE Returns(s)
    BY <2>5 DEF Returns, Answer
  <2>6. CASE Connect(s)
    BY <2>6 DEF Connect
  <2>7. CASE Settles(s)
    BY <2>7 DEF Settles, Destroy
  <2> QED BY <2>1, <2>2, <2>3, <2>4, <2>5, <2>6, <2>7
<1> QED BY <1>2, <1>3

\* A step that leaves the broker alone, or does nothing at all.
LEMMA OthersKeep ==
  ASSUME PilotInv, UNCHANGED <<serverVars, socketVars, callVars>>
  PROVE  PilotTypes' /\ PhasesCount' /\ OpenWhileServed' /\ FilesOwned'
BY DEF PilotInv, TypeOK, PilotTypes, PhasesCount, OpenWhileServed, FilesOwned,
       ReadyMeansDescriptor, serverVars, socketVars, callVars, fileVars

\* Every step of the server and its clients preserves the invariant.
LEMMA PilotInductive == ASSUME PilotInv, [Next]_vars PROVE PilotInv'
<1> DEFINE Rest == PilotTypes' /\ PhasesCount' /\ OpenWhileServed' /\ FilesOwned'
<1>0. Executor!RunTypes
  BY DEF PilotInv, TypeOK
<1>1. CASE (Listen \/ Signal \/ ClearFiles \/ Process) /\ UNCHANGED run
  BY <1>0, <1>1, ProcessKeeps DEF PilotInv, TypeOK, Executor!RunTypes
<1>2. CASE Killed
  <2>1. Executor!RunTypes'
    BY <1>2 DEF Killed, Executor!RunTypes, Executor!NoRun, Executor!Outcomes
  <2> QED BY <1>2, <2>1, ProcessKeeps DEF Killed, PilotInv, TypeOK
<1>3. ASSUME NEW s \in Sockets, Requested(s) \/ Completes(s)
      PROVE  PilotInv'
  <2>1. Rest
    BY <1>3, SocketKeeps DEF Requested, Completes
  <2>2. Executor!RunTypes'
    <3>1. PICK next : run' = [run EXCEPT ![s] = next] /\ next \in {run[s], Executor!NoRun}
      BY <1>3 DEF Requested, Completes
    <3>2. CASE next = run[s]
      BY <1>0, <3>1, <3>2 DEF Executor!RunTypes
    <3>3. CASE next = Executor!NoRun
      BY <1>0, <3>1, <3>3 DEF Executor!RunTypes, Executor!NoRun, Executor!Outcomes
    <3> QED BY <3>1, <3>2, <3>3
  <2> QED BY <2>1, <2>2 DEF PilotInv, TypeOK
<1>4. ASSUME NEW s \in Sockets, Starts(s) \/ ChildMoves(s)
      PROVE  PilotInv'
  BY <1>0, <1>4, ChildTypes, OthersKeep DEF Starts, ChildMoves, PilotInv, TypeOK
<1>5. ASSUME NEW s \in Sockets, SocketEvents(s) \/ ClientMoves(s)
      PROVE  PilotInv'
  <2>1. Rest
    BY <1>5, SocketKeeps DEF SocketEvents, ClientMoves
  <2>2. Executor!RunTypes'
    BY <1>0, <1>5 DEF SocketEvents, ClientMoves, Executor!RunTypes
  <2> QED BY <2>1, <2>2 DEF PilotInv, TypeOK
<1>6. CASE UNCHANGED vars
  BY <1>0, <1>6, OthersKeep DEF vars, PilotInv, TypeOK, Executor!RunTypes
<1> QED BY <1>1, <1>2, <1>3, <1>4, <1>5, <1>6 DEF Next

\* The invariant holds of every behaviour of the pilot broker
\* (pilotBrokerServerMain.ts, pilotBrokerServer.ts), for any number of connections.
THEOREM PilotInvariance == Spec => []PilotInv
<1>1. Init => PilotInv
  BY DEF Init, PilotInit, PilotInv, TypeOK, PilotTypes, PhasesCount, OpenWhileServed, FilesOwned,
         ReadyMeansDescriptor, Open, Executor!RunTypes, Executor!NoRun, Executor!Outcomes
<1>2. PilotInv /\ [Next]_vars => PilotInv'
  BY PilotInductive
<1> QED BY <1>1, <1>2, PTL DEF Spec

\* The variables of the pilot broker and of its children keep their types
\* (pilotBrokerServer.ts:16, processExecutor.ts:5).
THEOREM PilotTyping == Spec => []TypeOK
<1>1. PilotInv => TypeOK
  BY DEF PilotInv
<1> QED BY <1>1, PilotInvariance, PTL

\* The request of a connection is answered once (pilotBrokerServer.ts:46-65), by
\* its result or an error, whichever of the time limits fires first.
THEOREM AnsweredOnce == Spec => []OneAnswer
<1>1. ASSUME PilotInv, NEW s \in Sockets PROVE answers[s] <= 1
  <2>1. answers[s] \in 0..2
    BY <1>1 DEF PilotInv, TypeOK, PilotTypes
  <2> QED BY <1>1, <2>1 DEF PilotInv, PhasesCount
<1>2. PilotInv => OneAnswer
  BY <1>1 DEF OneAnswer
<1> QED BY <1>2, PilotInvariance, PTL

\* ... and executed once (pilotBrokerServer.ts:34-37), however it arrives.
THEOREM OneExecution == Spec => []ExecutedOnce
<1>1. ASSUME PilotInv, NEW s \in Sockets PROVE begun[s] <= 1
  <2>1. begun[s] \in 0..2
    BY <1>1 DEF PilotInv, TypeOK, PilotTypes
  <2> QED BY <1>1, <2>1 DEF PilotInv, PhasesCount
<1>2. PilotInv => ExecutedOnce
  BY <1>1 DEF ExecutedOnce
<1> QED BY <1>2, PilotInvariance, PTL

\* A ready file shows only beside a complete descriptor
\* (pilotBrokerServerMain.ts:30-41), through failures and crashes.
THEOREM Announcement == Spec => []ReadyMeansDescriptor
<1>1. PilotInv => ReadyMeansDescriptor
  BY DEF PilotInv, FilesOwned
<1> QED BY <1>1, PilotInvariance, PTL

\* Nothing is executed once the server has been closed (pilotBrokerServer.ts:13,
\* 81-85), not even for a connection that was waiting to be accepted.
THEOREM NothingAfterStop == Spec => NothingBeginsAfterStop
<1>1. ASSUME PilotInv, [Next]_vars, NEW s \in Sockets, begun'[s] > begun[s]
      PROVE  server \in Accepting \cup {"stopping"}
  <2> USE DEF PilotInv, TypeOK, PilotTypes
  <2>1. CASE \E x \in Sockets : Begin(x)
    BY <1>1, <2>1 DEF Begin, Receives, OpenWhileServed, Open
  <2>2. CASE begun' = begun \/ \E x \in Sockets : begun' = [begun EXCEPT ![x] = 0]
    BY <1>1, <2>2
  <2>3. CASE begun' = [x \in Sockets |-> 0]
    BY <1>1, <2>3
  <2>4. \/ \E x \in Sockets : Begin(x)
        \/ begun' = begun
        \/ \E x \in Sockets : begun' = [begun EXCEPT ![x] = 0]
        \/ begun' = [x \in Sockets |-> 0]
    <3>1. ASSUME Listen \/ Signal \/ ClearFiles \/ Process
          PROVE  begun' = begun \/ begun' = [x \in Sockets |-> 0]
      BY <3>1 DEF Listen, Signal, ClearFiles, Process, OpenDescriptor, WriteDescriptor, WriteReady,
                  Close, ServerClosed, Remove, callVars
    <3>2. ASSUME Killed PROVE begun' = [x \in Sockets |-> 0]
      BY <3>2 DEF Killed, Crash
    <3>3. ASSUME NEW x \in Sockets, Starts(x) \/ ChildMoves(x) PROVE begun' = begun
      BY <3>3 DEF Starts, ChildMoves, callVars
    <3>4. ASSUME NEW x \in Sockets, Completes(x) \/ SocketEvents(x) \/ ClientMoves(x)
          PROVE  begun' = begun \/ begun' = [begun EXCEPT ![x] = 0]
      BY <3>4 DEF Completes, SocketEvents, ClientMoves, Returns, Accept, OnTimeout, Connect, Reject,
                  Settles, Answer, Destroy, callVars
    <3>5. ASSUME UNCHANGED vars PROVE begun' = begun
      BY <3>5 DEF vars, callVars
    <3> QED BY <1>1, <3>1, <3>2, <3>3, <3>4, <3>5 DEF Next, Requested
  <2> QED BY <2>1, <2>2, <2>3, <2>4
<1>2. PilotInv /\ [Next]_vars =>
        [\A s \in Sockets : begun'[s] > begun[s] => server \in Accepting \cup {"stopping"}]_vars
  BY <1>1
<1> QED BY <1>2, PilotInvariance, PTL DEF Spec, NothingBeginsAfterStop

=============================================================================
