------------------------------ MODULE PilotHost ------------------------------
(***************************************************************************)
(* The pilot broker with what its requests do: broker.execute of a command *)
(* or RepositoryQueryService.execute of a query (pilotBrokerServerMain.ts, *)
(* line 27).  A call is refused at once, or runs children through the      *)
(* process executor; one child stands for them.  The time limits of the    *)
(* socket, of the client and of the child know nothing of each other.      *)
(***************************************************************************)
EXTENDS PilotServer

VARIABLE run   \* socket -> the child of its call

Executor == INSTANCE ProcessExecutor WITH Runs <- Sockets

vars == <<serverVars, socketVars, callVars, run>>

\* The type invariant.
TypeOK == PilotTypes /\ Executor!RunTypes

Init ==
    /\ PilotInit
    /\ run = [s \in Sockets |-> Executor!NoRun]

-----------------------------------------------------------------------------
\* The last call of this socket's number has nothing left in the process.
Requested(s) ==
    /\ Begin(s)
    /\ run[s] = Executor!NoRun \/ Executor!Finished(s)
    /\ run' = [run EXCEPT ![s] = Executor!NoRun]

Starts(s) ==
    /\ call[s] = "pending"
    /\ run[s] = Executor!NoRun
    /\ Executor!Spawn(s)
    /\ UNCHANGED <<serverVars, socketVars, callVars>>

\* Refused before anything is run, or the child's promise has settled.
Completes(s) ==
    /\ run[s] = Executor!NoRun \/ Executor!Settled(s)
    /\ Returns(s)
    /\ run' = [run EXCEPT ![s] = IF Executor!Finished(s) THEN Executor!NoRun ELSE @]

ChildMoves(s) == Executor!Running(s) /\ UNCHANGED <<serverVars, socketVars, callVars>>
ChildEvents(s) == Executor!Events(s) /\ UNCHANGED <<serverVars, socketVars, callVars>>

\* The children of a process that is killed run on, and nobody hears of them.
Killed == Crash /\ run' = [s \in Sockets |-> Executor!NoRun]

SocketEvents(s) == (Accept(s) \/ OnTimeout(s)) /\ UNCHANGED run
ClientMoves(s) == (Connect(s) \/ Reject(s) \/ Settles(s)) /\ UNCHANGED run

Next ==
    \/ (Listen \/ Signal \/ ClearFiles \/ Process) /\ UNCHANGED run
    \/ Killed
    \/ \E s \in Sockets :
         \/ Requested(s) \/ Starts(s) \/ Completes(s) \/ ChildMoves(s)
         \/ SocketEvents(s) \/ ClientMoves(s)

Spec == Init /\ [][Next]_vars

\* Node's loop takes its events in turn and a killed child ends.  Clients, an
\* operator and a child that just runs on have no fairness.
FairSpec ==
    /\ Spec
    /\ WF_vars(Process /\ UNCHANGED run)
    /\ \A s \in Sockets :
         /\ WF_vars(SocketEvents(s))
         /\ WF_vars(ChildEvents(s))
         /\ WF_vars(Starts(s) \/ Completes(s))

-----------------------------------------------------------------------------
(* Properties *)

\* A request is answered once: not by its result and by the error of its time
\* limit, in whichever order they come (pilotBrokerServer.ts:17, 47, 54).
OneAnswer == \A s \in Sockets : answers[s] <= 1

\* One request is executed once, however its bytes and the end of the stream
\* arrive: commands are not idempotent (handled, stopReceiving).
ExecutedOnce == \A s \in Sockets : begun[s] <= 1

\* Nothing begins once the server has been closed, not even for a connection
\* that was made before (pilotBrokerServer.ts:13).
NothingBeginsAfterStop ==
    [][\A s \in Sockets : begun'[s] > begun[s] => server \in Accepting \cup {"stopping"}]_vars

\* Who sees the ready file finds a complete descriptor, while the process
\* starts, stops, fails half-way or dies.
ReadyMeansDescriptor == ready # "none" => descriptor \in {"full", "stale"}

\* No request keeps the server receiving or executing for ever, whether its
\* client says nothing more or its child hangs.
PhasesEnd ==
    \A s \in Sockets : socket[s] \in {"receiving", "executing"} ~> socket[s] \notin {"receiving", "executing"}

\* Every call returns, also one whose socket is gone.
CallsReturn == \A s \in Sockets : call[s] = "pending" ~> call[s] = "none"

\* A stop comes to its end although clients may hold their connections.
StopCompletes == server \in Stopping ~> server = "down"

=============================================================================
