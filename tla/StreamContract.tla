--------------------------- MODULE StreamContract ---------------------------
(***************************************************************************)
(* What startStreaming promises on both platforms (TranscriberEngine.kt):  *)
(* a stream reports partials while it is on; stop() ends it, at once or    *)
(* after at most MaxLate more partials.  Nothing else ends it.             *)
(***************************************************************************)
EXTENDS Naturals

CONSTANTS Streams, MaxLate

VARIABLES
    phase,  \* of each stream: "unborn", "on", "stopped" or "over"
    said,   \* partials that each stream has reported
    late    \* those it has reported after stop() returned

scVars == <<phase, said, late>>

SCInit ==
    /\ phase = [s \in Streams |-> "unborn"]
    /\ said = [s \in Streams |-> 0] /\ late = [s \in Streams |-> 0]

Goes(s, from, to) == phase[s] = from /\ phase' = [phase EXCEPT ![s] = to]

Start(s) == Goes(s, "unborn", "on") /\ UNCHANGED <<said, late>>

Stop(s) ==
    /\ Goes(s, "on", "stopped") \/ Goes(s, "on", "over")
    /\ UNCHANGED <<said, late>>

End(s) == Goes(s, "stopped", "over") /\ UNCHANGED <<said, late>>

Partial(s) ==
    /\ said' = [said EXCEPT ![s] = @ + 1]
    /\ \/ phase[s] = "on" /\ late' = late
       \/ phase[s] = "stopped" /\ late[s] < MaxLate /\ late' = [late EXCEPT ![s] = @ + 1]
    /\ UNCHANGED phase

SCNext == \E s \in Streams : Start(s) \/ Stop(s) \/ End(s) \/ Partial(s)

SCSpec == SCInit /\ [][SCNext]_scVars

=============================================================================
