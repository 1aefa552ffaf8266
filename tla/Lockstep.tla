------------------------------ MODULE Lockstep ------------------------------
(***************************************************************************)
(* What ggml_barrier promises to the threads that compute one graph: they  *)
(* go through the phases of the graph together.  A thread that has arrived *)
(* at the end of a phase goes no further before all of them have arrived.  *)
(***************************************************************************)
EXTENDS Integers

CONSTANTS Threads

VARIABLES
    team,     \* the threads that compute the current graph
    arrived   \* barriers each thread has arrived at, since the pool was made

lockstepVars == <<team, arrived>>

Level(S) == \A t, u \in S : arrived[t] = arrived[u]

LockstepInit == team = {} /\ arrived = [t \in Threads |-> 0]

\* The team is chosen while no thread is ahead of another one.
Assemble(S) ==
    /\ Level(team) /\ Level(S)
    /\ team' = S /\ UNCHANGED arrived

\* A new pool counts from the start.
Restart(S) ==
    /\ Level(team)
    /\ team' = S /\ arrived' = [t \in Threads |-> 0]

Arrive(t) ==
    /\ t \in team
    /\ \A u \in team : arrived[t] <= arrived[u]
    /\ arrived' = [arrived EXCEPT ![t] = @ + 1]
    /\ UNCHANGED team

LockstepNext ==
    \/ \E S \in SUBSET Threads : Assemble(S) \/ Restart(S)
    \/ \E t \in Threads : Arrive(t)

LockstepSpec == LockstepInit /\ [][LockstepNext]_lockstepVars
=============================================================================
