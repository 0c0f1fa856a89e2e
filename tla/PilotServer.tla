----------------------------- MODULE PilotServer -----------------------------
(***************************************************************************)
(* The pilot broker: pilotBrokerServer.ts (a socket takes one request, is  *)
(* answered once, and has a time limit per phase), pilotBrokerServerMain   *)
(* .ts (the process: it listens, then writes the descriptor and the ready  *)
(* file, and undoes that when it is told to stop) and pilotBrokerClient.ts *)
(* (a client finds the pipe in the descriptor and waits for one answer).   *)
(*                                                                         *)
(* The server process may crash and be started again with the same paths.  *)
(* What a request does is left to the caller of Begin: see PilotHost.      *)
(***************************************************************************)
EXTENDS Naturals

CONSTANT Sockets   \* connections that exist at a time, one client each

VARIABLES
    server,      \* where the process is
    descriptor,  \* the descriptor file: none, empty, full, or a full one that a crash left
    ready,       \* the ready file
    owned,       \* the files this process will remove
    socket,      \* socket -> its phase
    call,        \* socket -> the promise of broker.execute
    answers,     \* history: socket -> answers written to it
    begun        \* history: socket -> calls of broker.execute for its request

fileVars == <<descriptor, ready, owned>>
socketVars == <<socket, answers>>
callVars == <<call, begun>>
serverVars == <<server, fileVars>>

\* Before the pipe listens, and after it is closed.
Accepting == {"listening", "describing", "announcing", "up"}
Stopping == {"stopping", "closing", "removing"}

Open == {"receiving", "executing", "responded"}

PilotTypes ==
    /\ server \in {"down"} \cup Accepting \cup Stopping
    /\ descriptor \in {"none", "empty", "full", "stale"}
    /\ ready \in {"none", "full", "stale"}
    /\ owned \subseteq {"descriptor", "ready"}
    /\ socket \in [Sockets -> {"none", "queued"} \cup Open]
    /\ call \in [Sockets -> {"none", "pending"}]
    /\ answers \in [Sockets -> 0..2]
    /\ begun \in [Sockets -> 0..2]

PilotInit ==
    /\ server = "down"
    /\ descriptor = "none"
    /\ ready = "none"
    /\ owned = {}
    /\ socket = [s \in Sockets |-> "none"]
    /\ call = [s \in Sockets |-> "none"]
    /\ answers = [s \in Sockets |-> 0]
    /\ begun = [s \in Sockets |-> 0]

-----------------------------------------------------------------------------
(* The process *)

Listen ==
    /\ server = "down"
    /\ server' = "listening"
    /\ UNCHANGED <<fileVars, socketVars, callVars>>

\* open "wx" throws for a file that is there, among other reasons, and the
\* finally block runs with what is owned so far.
OpenDescriptor ==
    /\ server = "listening"
    /\ \/ descriptor = "none" /\ descriptor' = "empty" /\ owned' = {"descriptor"} /\ server' = "describing"
       \/ server' = "stopping" /\ UNCHANGED <<descriptor, owned>>
    /\ UNCHANGED <<ready, socketVars, callVars>>

WriteDescriptor ==
    /\ server = "describing"
    /\ \/ descriptor' = "full" /\ server' = "announcing"
       \/ server' = "stopping" /\ UNCHANGED descriptor
    /\ UNCHANGED <<ready, owned, socketVars, callVars>>

WriteReady ==
    /\ server = "announcing"
    /\ \/ ready = "none" /\ ready' = "full" /\ owned' = owned \cup {"ready"} /\ server' \in {"up", "stopping"}
       \/ server' = "stopping" /\ UNCHANGED <<ready, owned>>
    /\ UNCHANGED <<descriptor, socketVars, callVars>>

\* SIGINT or SIGTERM; before that there is no handler for them.
Signal ==
    /\ server = "up"
    /\ server' = "stopping"
    /\ UNCHANGED <<fileVars, socketVars, callVars>>

\* The sockets are left to end by themselves.
MutantClose ==
    /\ server = "stopping"
    /\ server' = "closing"
    /\ UNCHANGED <<fileVars, socketVars, callVars>>

\* close(): stopping is set, the open sockets are destroyed, the pipe stops
\* listening.  A connection that was queued by then still gets its callback.
Close ==
    /\ server = "stopping"
    /\ server' = "closing"
    /\ socket' = [s \in Sockets |-> IF socket[s] \in Open THEN "none" ELSE socket[s]]
    /\ answers' = [s \in Sockets |-> 0]
    /\ begun' = [s \in Sockets |-> 0]
    /\ UNCHANGED <<fileVars, call>>

\* server.close calls back when no connection is left.
ServerClosed ==
    /\ server = "closing"
    /\ \A s \in Sockets : socket[s] = "none"
    /\ server' = "removing"
    /\ UNCHANGED <<fileVars, socketVars, callVars>>

\* The files go in the order they were made.
MutantRemove ==
    /\ server = "removing"
    /\ IF "descriptor" \in owned
       THEN descriptor' = "none" /\ owned' = owned \ {"descriptor"} /\ UNCHANGED <<server, ready>>
       ELSE IF "ready" \in owned
       THEN ready' = "none" /\ owned' = {} /\ UNCHANGED <<server, descriptor>>
       ELSE server' = "down" /\ UNCHANGED fileVars
    /\ UNCHANGED <<socketVars, callVars>>

\* for (const path of owned.reverse()) await rm(path): the ready file first.
\* Then nothing keeps the process but calls whose sockets are gone; it may be
\* started again before they have returned.
Remove ==
    /\ server = "removing"
    /\ \/ /\ "ready" \in owned
          /\ ready' = "none" /\ owned' = owned \ {"ready"}
          /\ UNCHANGED <<server, descriptor>>
       \/ /\ owned = {"descriptor"}
          /\ descriptor' = "none" /\ owned' = {}
          /\ UNCHANGED <<server, ready>>
       \/ owned = {} /\ server' = "down" /\ UNCHANGED fileVars
    /\ UNCHANGED <<socketVars, callVars>>

Process ==
    \/ OpenDescriptor \/ WriteDescriptor \/ WriteReady
    \/ Close \/ ServerClosed \/ Remove

\* Killed: the pipe is gone, the files stay.
Left(file) == IF file = "full" THEN "stale" ELSE file

Crash ==
    /\ server # "down"
    /\ server' = "down"
    /\ descriptor' = Left(descriptor)
    /\ ready' = Left(ready)
    /\ owned' = {}
    /\ socket' = [s \in Sockets |-> "none"]
    /\ call' = [s \in Sockets |-> "none"]
    /\ answers' = [s \in Sockets |-> 0]
    /\ begun' = [s \in Sockets |-> 0]

\* The operator clears what a crash left before the next start.
ClearFiles ==
    /\ server = "down"
    /\ descriptor # "none" \/ ready # "none"
    /\ descriptor' = "none"
    /\ ready' = "none"
    /\ UNCHANGED <<server, owned, socketVars, callVars>>

-----------------------------------------------------------------------------
(* A socket *)

\* Every connection is served.
MutantAccept(s) ==
    /\ socket[s] = "queued"
    /\ socket' = [socket EXCEPT ![s] = "receiving"]
    /\ UNCHANGED <<serverVars, answers, callVars>>

Accept(s) ==
    /\ socket[s] = "queued"
    /\ socket' = [socket EXCEPT ![s] = IF server \in Accepting \cup {"stopping"} THEN "receiving" ELSE "none"]
    /\ UNCHANGED <<serverVars, answers, callVars>>

\* The phase stays what it was.
MutantAnswer(s) ==
    /\ answers' = [answers EXCEPT ![s] = @ + 1]
    /\ UNCHANGED <<socket, begun>>

Answer(s) ==
    /\ socket' = [socket EXCEPT ![s] = "responded"]
    /\ answers' = [answers EXCEPT ![s] = @ + 1]
    /\ UNCHANGED begun

\* The histories are those of the connection.
Destroy(s) ==
    /\ socket' = [socket EXCEPT ![s] = "none"]
    /\ answers' = [answers EXCEPT ![s] = 0]
    /\ begun' = [begun EXCEPT ![s] = 0]

\* The listeners stay on: a second line, or the end of the stream, is taken
\* for a request too.
MutantReceives(s) == socket[s] \in {"receiving", "executing"}

\* handled and stopReceiving: nothing is taken after the first request.
Receives(s) == socket[s] = "receiving"

\* A chunk with a line feed, or the end of the stream: one request that can be
\* parsed is executed.
Begin(s) ==
    /\ Receives(s)
    /\ begun[s] < 2
    /\ socket' = [socket EXCEPT ![s] = "executing"]
    /\ call' = [call EXCEPT ![s] = "pending"]
    /\ begun' = [begun EXCEPT ![s] = @ + 1]
    /\ UNCHANGED <<serverVars, answers>>

\* ... anything else is answered with an error, or is too long.
Reject(s) ==
    /\ Receives(s)
    /\ Answer(s) \/ Destroy(s)
    /\ UNCHANGED <<serverVars, call>>

\* The phase is not asked about again after the await.
MutantReturns(s) ==
    /\ call[s] = "pending"
    /\ call' = [call EXCEPT ![s] = "none"]
    /\ \/ socket[s] \in Open /\ answers[s] < 2 /\ Answer(s)
       \/ socket[s] \notin Open /\ UNCHANGED <<socket, answers, begun>>
    /\ UNCHANGED serverVars

\* broker.execute returns or throws: the result, or an error in its place, is
\* written if the socket still waits for it, and dropped if it does not.
Returns(s) ==
    /\ call[s] = "pending"
    /\ call' = [call EXCEPT ![s] = "none"]
    /\ \/ socket[s] = "executing" /\ Answer(s)
       \/ socket[s] # "executing" /\ UNCHANGED <<socket, answers, begun>>
    /\ UNCHANGED serverVars

\* Only an execution has a time limit.
MutantOnTimeout(s) ==
    /\ socket[s] = "executing" /\ Answer(s)
    /\ UNCHANGED <<serverVars, call>>

\* The time limit of the phase: an error is written in the place of the
\* result, or an incomplete request is dropped.  After an answer there is none.
OnTimeout(s) ==
    /\ \/ socket[s] = "executing" /\ Answer(s)
       \/ socket[s] = "receiving" /\ Destroy(s)
    /\ UNCHANGED <<serverVars, call>>

-----------------------------------------------------------------------------
(* A client *)

\* The descriptor is read, whoever left it, and the pipe in it connected to.
Connect(s) ==
    /\ socket[s] = "none" /\ call[s] = "none"
    /\ descriptor \in {"full", "stale"}
    /\ server \in Accepting \cup {"stopping"}
    /\ socket' = [socket EXCEPT ![s] = "queued"]
    /\ UNCHANGED <<serverVars, answers, callVars>>

\* The promise of sendPilotRequest settles: the stream ended after an answer
\* or without one, or the client's own time limit is over, which runs from the
\* start and not from the last phase.  The connection is gone either way.
Settles(s) ==
    /\ socket[s] # "none"
    /\ Destroy(s)
    /\ UNCHANGED <<serverVars, call>>

=============================================================================
