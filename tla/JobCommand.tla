----------------------------- MODULE JobCommand -----------------------------
(***************************************************************************)
(* What the adapters' commands share: one broker command at a time on one  *)
(* job, as a list of the awaits that are still to come.  WorktreeCreate    *)
(* and HerdrAdapter take their steps from it, JobCreation composes them.   *)
(* That commands of one job, and creations of one project, exclude each    *)
(* other is shown in HostBroker.                                           *)
(***************************************************************************)
EXTENDS Naturals, Sequences

VARIABLES
    todo,   \* the awaits the command still has before it
    job,    \* the record in memory: its state and its Herdr workspace
    calm    \* from here on no call fails, nobody meddles and no agent ends

commandVars == <<todo, job, calm>>

At(step) == todo # <<>> /\ Head(todo) = step

Proceed == todo' = Tail(todo)

\* The next step turns out to be these.
Branch(steps) == todo' = steps \o Tail(todo)

\* To the catch block of HostBroker.execute.
Throw == todo' = <<"catch">>

\* What is not mutating answers the error and leaves the registry alone.
Answer == todo' = <<>>

\* A process that does not start, a time limit, a nonzero exit code.
Fails == ~calm /\ Throw

=============================================================================
