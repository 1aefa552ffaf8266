--------------------------- MODULE IosStream_proofs ---------------------------
(***************************************************************************)
(* Proofs about IosStream for every set of view models and streams.        *)
(***************************************************************************)
EXTENDS IosStream, TLAPS

USE IosAssumption

Born(s) == loop[s] # "unborn"
Stopping == {"joining", "halting", "disposing"}

\* The types of what the proofs speak of.
IosTypeOK ==
    /\ store \in BOOLEAN /\ open \in BOOLEAN
    /\ {screen, clearing} \subseteq ViewModels \cup {None}
    /\ handle \in [ViewModels -> Streams \cup {None}]
    /\ main \in Stopping \cup {"free", "closing"}
    /\ subject \in Streams \cup {None}
    /\ loop \in [Streams -> {"unborn", "checking", "inferring", "reporting",
                             "waiting", "ended"}]
    /\ cancelled \subseteq Streams
    /\ held \in [Streams -> SUBSET Resources]

\* The main thread stops the subject, which has been cancelled, and clears a
\* view model only where there is a store and after its screen was left.
MainOK ==
    /\ subject # None <=> main \in Stopping
    /\ subject # None => subject \in cancelled /\ Born(subject)
    /\ main = "closing" => clearing # None
    /\ clearing # None => store /\ screen = None /\ main # "free"

\* A handle holds a started stream, and a stopped one only until stop returns.
HandlesOK ==
    \A v \in ViewModels : handle[v] # None =>
        /\ Born(handle[v])
        /\ handle[v] \in cancelled => handle[v] = subject

\* What native memory a stream has, and that its loop has ended before any of
\* it is given back.
MemoryOK ==
    \A s \in Streams :
        /\ ~Born(s) => held[s] = {} /\ s \notin cancelled
        /\ Born(s) /\ s \notin cancelled => held[s] = Resources
        /\ s \in cancelled /\ s # subject => held[s] = {} /\ loop[s] = "ended"
        /\ s = subject /\ main \in {"joining", "halting"} => held[s] = Resources
        /\ s = subject /\ main = "disposing" => held[s] = {"state", "holder"}
        /\ s = subject /\ main \in {"halting", "disposing"} => loop[s] = "ended"

\* With a store the only stream that goes on is the one of the screen; the
\* engine is closed when no stream goes on.
ScreenOK ==
    /\ \A s \in Streams : store /\ Born(s) /\ s \notin cancelled =>
           screen # None /\ handle[screen] = s
    /\ ~open => \A s \in Streams : Born(s) => loop[s] = "ended"

IInv == IosTypeOK /\ MainOK /\ HandlesOK /\ MemoryOK /\ ScreenOK

USE DEF Born, Stopping, Resources

-----------------------------------------------------------------------------
\* A step that touches nothing the invariant speaks of keeps it.
LEMMA Untouched ==
    ASSUME IInv, UNCHANGED <<store, open, screen, clearing, handle, main, subject, loop,
                             cancelled, held>>
    PROVE  IInv'
BY DEF IInv, IosTypeOK, MainOK, HandlesOK, MemoryOK, ScreenOK

\* A loop moves on, or ends if it was cancelled; it infers only while it may.
LEMMA LoopMoves ==
    ASSUME IInv, NEW s \in Streams, loop[s] \notin {"unborn", "ended"},
           NEW x \in {"checking", "inferring", "reporting", "waiting", "ended"},
           Moves(s, loop[s], x),
           UNCHANGED <<screens, stopping, cancelled, held>>
    PROVE  IInv'
<1> USE DEF Moves, screens, stopping
<1>0. open /\ (s \in cancelled => s = subject /\ main = "joining")
  BY DEF IInv, IosTypeOK, MainOK, MemoryOK, ScreenOK
<1>1. IosTypeOK' BY DEF IInv, IosTypeOK
<1>2. MainOK' BY DEF IInv, IosTypeOK, MainOK
<1>3. HandlesOK' BY DEF IInv, IosTypeOK, HandlesOK
<1>4. MemoryOK' BY <1>0 DEF IInv, IosTypeOK, MemoryOK
<1>5. ScreenOK' BY <1>0 DEF IInv, IosTypeOK, ScreenOK
<1> QED BY <1>1, <1>2, <1>3, <1>4, <1>5 DEF IInv

\* The main thread begins to stop the stream of a handle.
LEMMA StopBegins ==
    ASSUME IInv, NEW v \in ViewModels, main = "free", screen = v, handle[v] # None,
           BeginStop(v), UNCHANGED <<store, open, handle, loop, held>>,
           \/ UNCHANGED <<screen, clearing>>
           \/ store /\ screen' = None /\ clearing' = v
    PROVE  IInv'
<1> USE DEF BeginStop
<1>0. /\ handle[v] \in Streams /\ Born(handle[v]) /\ subject = None
      /\ handle[v] \notin cancelled /\ clearing = None
  BY DEF IInv, IosTypeOK, MainOK, HandlesOK
<1>1. IosTypeOK' BY <1>0 DEF IInv, IosTypeOK
<1>2. MainOK' BY <1>0 DEF IInv, IosTypeOK, MainOK
<1>3. HandlesOK' BY <1>0 DEF IInv, IosTypeOK, HandlesOK
<1>4. MemoryOK' BY <1>0 DEF IInv, IosTypeOK, MemoryOK
<1>5. ScreenOK' BY <1>0 DEF IInv, IosTypeOK, ScreenOK
<1> QED BY <1>1, <1>2, <1>3, <1>4, <1>5 DEF IInv

\* Every step keeps the invariant.
LEMMA StepInvariant == IInv /\ [Next]_vars => IInv'
<1> SUFFICES ASSUME IInv, [Next]_vars PROVE IInv' OBVIOUS
<1> USE DEF Alive
<1>1. ASSUME NEW v \in ViewModels, EnterScreen(v) PROVE IInv'
  <2>1. /\ main = "free" /\ screen = None /\ screen' = v
        /\ UNCHANGED <<store, open, clearing, handle, main, subject, loop, cancelled, held>>
    BY <1>1 DEF EnterScreen, stopping, streams
  <2>2. IosTypeOK' BY <2>1 DEF IInv, IosTypeOK
  <2>3. MainOK' BY <2>1 DEF IInv, MainOK
  <2>4. HandlesOK' /\ MemoryOK' BY <2>1 DEF IInv, HandlesOK, MemoryOK
  <2>5. ScreenOK' BY <2>1 DEF IInv, ScreenOK
  <2> QED BY <2>2, <2>3, <2>4, <2>5 DEF IInv
<1>2. ASSUME NEW v \in ViewModels, NEW s \in Streams, StartStreaming(v, s) PROVE IInv'
  <2>1. CASE UNCHANGED <<handle, loop, held>>
    BY <1>2, <2>1, Untouched DEF StartStreaming, screens
  <2>2. CASE ~UNCHANGED <<handle, loop, held>>
    <3>1. /\ main = "free" /\ screen = v /\ handle[v] = None /\ loop[s] = "unborn" /\ open
          /\ handle' = [handle EXCEPT ![v] = s]
          /\ loop' = [loop EXCEPT ![s] = "checking"]
          /\ held' = [held EXCEPT ![s] = Resources]
          /\ UNCHANGED <<store, open, screen, clearing, main, subject, cancelled>>
      BY <1>2, <2>2 DEF StartStreaming, screens
    <3>2. s \notin cancelled /\ subject = None
      BY <3>1 DEF IInv, MainOK, MemoryOK
    <3>3. \A z \in Streams : store /\ Born(z) => z \in cancelled
      BY <3>1 DEF IInv, ScreenOK
    <3>4. IosTypeOK' BY <3>1 DEF IInv, IosTypeOK
    <3>5. MainOK' BY <3>1, <3>2 DEF IInv, MainOK
    <3>6. HandlesOK' BY <3>1, <3>2 DEF IInv, IosTypeOK, HandlesOK
    <3>7. MemoryOK' BY <3>1, <3>2 DEF IInv, IosTypeOK, MemoryOK
    <3>8. ScreenOK' BY <3>1, <3>3 DEF IInv, IosTypeOK, ScreenOK
    <3> QED BY <3>4, <3>5, <3>6, <3>7, <3>8 DEF IInv
  <2> QED BY <2>1, <2>2
<1>3. ASSUME NEW v \in ViewModels, StopStreaming(v) PROVE IInv'
  BY <1>3, StopBegins DEF StopStreaming, screens
<1>4. ASSUME LeaveScreen PROVE IInv'
  <2>1. /\ main = "free" /\ screen \in ViewModels /\ screen' = None
        /\ UNCHANGED <<store, open, handle, loop, held>>
    BY <1>4 DEF LeaveScreen, IInv, IosTypeOK
  <2>2. CASE ~store
    <3>1. UNCHANGED <<main, subject, clearing, cancelled>>
      BY <1>4, <2>2 DEF LeaveScreen
    <3> QED
      BY <2>1, <2>2, <3>1
         DEF IInv, IosTypeOK, MainOK, HandlesOK, MemoryOK, ScreenOK
  <2>3. CASE store /\ handle[screen] = None
    <3>1. main' = "closing" /\ clearing' = screen /\ UNCHANGED <<subject, cancelled>>
      BY <1>4, <2>3 DEF LeaveScreen
    <3>2. subject = None BY <2>1 DEF IInv, MainOK
    <3>3. IosTypeOK' BY <2>1, <3>1 DEF IInv, IosTypeOK
    <3>4. MainOK' BY <2>1, <2>3, <3>1, <3>2 DEF IInv, MainOK
    <3>5. HandlesOK' /\ MemoryOK' BY <2>1, <3>1, <3>2 DEF IInv, IosTypeOK, HandlesOK, MemoryOK
    <3>6. ScreenOK' BY <2>1, <2>3, <3>1 DEF IInv, ScreenOK
    <3> QED BY <3>3, <3>4, <3>5, <3>6 DEF IInv
  <2>4. CASE store /\ handle[screen] # None
    <3>1. BeginStop(screen) /\ clearing' = screen
      BY <1>4, <2>4 DEF LeaveScreen
    <3> QED BY <2>1, <2>4, <3>1, StopBegins
  <2> QED BY <2>2, <2>3, <2>4, <2>1 DEF IInv, IosTypeOK
<1>5. ASSUME Joined PROVE IInv'
  <2>1. /\ main = "joining" /\ loop[subject] = "ended" /\ main' = "halting"
        /\ UNCHANGED <<store, open, screen, clearing, handle, subject, loop, cancelled, held>>
    BY <1>5 DEF Joined, screens, streams
  <2>2. IosTypeOK' BY <2>1 DEF IInv, IosTypeOK
  <2>3. MainOK' BY <2>1 DEF IInv, MainOK
  <2>4. HandlesOK' /\ MemoryOK' /\ ScreenOK'
    BY <2>1 DEF IInv, HandlesOK, MemoryOK, ScreenOK
  <2> QED BY <2>2, <2>3, <2>4 DEF IInv
<1>6. ASSUME Halt PROVE IInv'
  <2>1. /\ main = "halting" /\ main' = "disposing"
        /\ held' = [held EXCEPT ![subject] = @ \ {"queue"}]
        /\ UNCHANGED <<store, open, screen, clearing, handle, subject, loop, cancelled>>
    BY <1>6 DEF Halt, screens
  <2>2. subject \in Streams BY <2>1 DEF IInv, IosTypeOK, MainOK
  <2>3. IosTypeOK' BY <2>1 DEF IInv, IosTypeOK
  <2>4. MainOK' BY <2>1 DEF IInv, MainOK
  <2>5. HandlesOK' BY <2>1 DEF IInv, HandlesOK
  <2>6. MemoryOK' BY <2>1, <2>2, <2>4 DEF IInv, IosTypeOK, MemoryOK, MainOK
  <2>7. ScreenOK' BY <2>1 DEF IInv, ScreenOK
  <2> QED BY <2>3, <2>4, <2>5, <2>6, <2>7 DEF IInv
<1>7. ASSUME Dispose PROVE IInv'
  <2>1. /\ main = "disposing"
        /\ held' = [held EXCEPT ![subject] = {}]
        /\ handle' = [v \in ViewModels |-> IF handle[v] = subject THEN None ELSE handle[v]]
        /\ subject' = None
        /\ main' = IF clearing = None THEN "free" ELSE "closing"
        /\ UNCHANGED <<store, open, screen, clearing, loop, cancelled>>
    BY <1>7 DEF Dispose, screens
  <2>2. subject \in Streams /\ subject \in cancelled
    BY <2>1 DEF IInv, IosTypeOK, MainOK
  <2>3. IosTypeOK' BY <2>1 DEF IInv, IosTypeOK
  <2>4. MainOK' BY <2>1 DEF IInv, MainOK
  <2>5. HandlesOK' BY <2>1 DEF IInv, IosTypeOK, HandlesOK
  <2>6. MemoryOK' BY <2>1, <2>2 DEF IInv, IosTypeOK, MemoryOK
  <2>7. ScreenOK' BY <2>1, <2>2 DEF IInv, IosTypeOK, ScreenOK
  <2> QED BY <2>3, <2>4, <2>5, <2>6, <2>7 DEF IInv
<1>8. ASSUME Close PROVE IInv'
  <2>1. /\ main = "closing" /\ open' = FALSE /\ main' = "free" /\ clearing' = None
        /\ UNCHANGED <<store, screen, handle, subject, loop, cancelled, held>>
    BY <1>8 DEF Close, streams
  <2>2. store /\ screen = None /\ subject = None BY <2>1 DEF IInv, MainOK
  <2>3. IosTypeOK' BY <2>1 DEF IInv, IosTypeOK
  <2>4. MainOK' BY <2>1, <2>2 DEF IInv, MainOK
  <2>5. HandlesOK' /\ MemoryOK' BY <2>1, <2>2 DEF IInv, HandlesOK, MemoryOK
  <2>6. \A s \in Streams : Born(s) => s \in cancelled /\ loop[s] = "ended"
    BY <2>2 DEF IInv, MemoryOK, ScreenOK
  <2>7. ScreenOK' BY <2>1, <2>2, <2>6 DEF IInv, ScreenOK
  <2> QED BY <2>3, <2>4, <2>5, <2>7 DEF IInv
<1>9. ASSUME EmitLive PROVE IInv'
  BY <1>9, Untouched DEF EmitLive, screens, stopping, streams
<1>10. ASSUME NEW s \in Streams, Callback(s) PROVE IInv'
  BY <1>10, Untouched DEF Callback, screens, stopping
<1>11. ASSUME NEW s \in Streams, Check(s) PROVE IInv'
  BY <1>11, LoopMoves DEF Check, Moves
<1>12. ASSUME NEW s \in Streams, Infer(s) PROVE IInv'
  BY <1>12, LoopMoves DEF Infer, Moves
<1>13. ASSUME NEW s \in Streams, Report(s) PROVE IInv'
  BY <1>13, LoopMoves DEF Report, Moves
<1>14. ASSUME NEW s \in Streams, Wait(s) PROVE IInv'
  BY <1>14, LoopMoves DEF Wait, Moves
<1>15. CASE UNCHANGED vars
  BY <1>15, Untouched DEF vars, screens, stopping, streams
<1> QED
  BY <1>1, <1>2, <1>3, <1>4, <1>5, <1>6, <1>7, <1>8, <1>9, <1>10, <1>11, <1>12,
     <1>13, <1>14, <1>15 DEF Next

\* The invariant holds of every behaviour.
THEOREM ISInvariant == Spec => []IInv
<1>1. Init => IInv
  BY DEF Init, IInv, IosTypeOK, MainOK, HandlesOK, MemoryOK, ScreenOK
<1> QED BY <1>1, StepInvariant, PTL DEF Spec

\* No loop infers or reads tokens on a context or a state that was freed, and
\* the holder of a stream outlives its queue and the queue's callbacks.
THEOREM ISNoUseAfterFree == Spec => []NoUseAfterFree
<1>1. IInv => NoUseAfterFree
  BY DEF IInv, MainOK, MemoryOK, ScreenOK, NoUseAfterFree
<1> QED BY <1>1, ISInvariant, PTL

\* stop() gives back all native memory of its stream.
THEOREM ISNothingLeaks == Spec => []NothingLeaks
<1>1. IInv => NothingLeaks BY DEF IInv, MemoryOK, NothingLeaks
<1> QED BY <1>1, ISInvariant, PTL

-----------------------------------------------------------------------------
\* What the refinement looks at.
barVars == <<PhaseBar, reported, [s \in Streams |-> 0]>>

\* Only the loop of a stream that is on reports, and only starting and the end
\* of stop() change a phase.
LEMMA StepMaps ==
    ASSUME IInv, [Next]_vars
    PROVE  [Contract!SCNext]_barVars
<1> USE DEF Alive
<1>0. ASSUME UNCHANGED <<subject, cancelled, reported>>,
             \A s \in Streams : Born(s)' = Born(s)
      PROVE  UNCHANGED barVars
  BY <1>0 DEF barVars, PhaseBar
<1>1. ASSUME NEW v \in ViewModels, EnterScreen(v) PROVE UNCHANGED barVars
  BY <1>0, <1>1 DEF EnterScreen, stopping, streams
<1>2. ASSUME NEW v \in ViewModels, NEW s \in Streams, StartStreaming(v, s)
      PROVE  [Contract!SCNext]_barVars
  <2>1. CASE loop' = loop BY <1>0, <1>2, <2>1 DEF StartStreaming
  <2>2. CASE loop' # loop
    <3>1. /\ loop[s] = "unborn" /\ loop' = [loop EXCEPT ![s] = "checking"]
          /\ UNCHANGED <<subject, cancelled, reported>>
      BY <1>2, <2>2 DEF StartStreaming
    <3>2. s \notin cancelled BY <3>1 DEF IInv, MemoryOK
    <3>3. PhaseBar[s] = "unborn" /\ PhaseBar' = [PhaseBar EXCEPT ![s] = "on"]
      BY <3>1, <3>2 DEF IInv, IosTypeOK, PhaseBar
    <3> QED
      BY <3>1, <3>3 DEF Contract!SCNext, Contract!Start, Contract!Goes
  <2> QED BY <2>1, <2>2
<1>3. ASSUME NEW v \in ViewModels, main = "free", handle[v] # None, BeginStop(v),
             UNCHANGED <<loop, reported>>
      PROVE  UNCHANGED barVars
  <2>1. /\ handle[v] \in Streams /\ subject = None /\ handle[v] \notin cancelled
    BY <1>3 DEF IInv, IosTypeOK, MainOK, HandlesOK
  <2>2. PhaseBar' = PhaseBar BY <1>3, <2>1 DEF BeginStop, PhaseBar
  <2> QED BY <1>3, <2>2 DEF barVars
<1>4. ASSUME NEW v \in ViewModels, StopStreaming(v) PROVE UNCHANGED barVars
  BY <1>3, <1>4 DEF StopStreaming
<1>5. ASSUME LeaveScreen PROVE UNCHANGED barVars
  <2>1. /\ main = "free" /\ screen \in ViewModels /\ UNCHANGED <<loop, reported>>
    BY <1>5 DEF LeaveScreen, IInv, IosTypeOK
  <2>2. CASE UNCHANGED <<subject, cancelled>> BY <1>0, <2>1, <2>2
  <2>3. CASE BeginStop(screen) /\ handle[screen] # None BY <1>3, <2>1, <2>3
  <2> QED BY <1>5, <2>2, <2>3 DEF LeaveScreen, IInv, IosTypeOK
<1>6. ASSUME Joined \/ Halt \/ Close \/ EmitLive PROVE UNCHANGED barVars
  BY <1>0, <1>6 DEF Joined, Halt, Close, EmitLive, stopping, streams
<1>7. ASSUME Dispose PROVE [Contract!SCNext]_barVars
  <2>1. /\ main = "disposing" /\ subject' = None
        /\ UNCHANGED <<loop, cancelled, reported>>
    BY <1>7 DEF Dispose
  <2>2. subject \in Streams /\ subject \in cancelled /\ Born(subject)
    BY <2>1 DEF IInv, IosTypeOK, MainOK
  <2>3. PhaseBar[subject] = "on" BY <2>2 DEF PhaseBar
  <2>4. PhaseBar' = [PhaseBar EXCEPT ![subject] = "over"]
    BY <2>1, <2>2 DEF PhaseBar, IInv, IosTypeOK
  <2> QED
    BY <2>1, <2>2, <2>3, <2>4 DEF Contract!SCNext, Contract!Stop, Contract!Goes
<1>8. ASSUME NEW s \in Streams, Callback(s) PROVE UNCHANGED barVars
  BY <1>0, <1>8 DEF Callback, stopping
<1>9. ASSUME NEW s \in Streams, Check(s) \/ Infer(s) \/ Wait(s) PROVE UNCHANGED barVars
  <2>1. UNCHANGED <<subject, cancelled, reported>>
    BY <1>9 DEF Check, Infer, Wait, stopping
  <2>2. \E x \in {"checking", "inferring", "reporting", "waiting", "ended"} :
           loop[s] # "unborn" /\ loop' = [loop EXCEPT ![s] = x]
    BY <1>9 DEF Check, Infer, Wait, Moves
  <2> QED BY <1>0, <2>1, <2>2 DEF IInv, IosTypeOK
<1>10. ASSUME NEW s \in Streams, Report(s) PROVE [Contract!SCNext]_barVars
  <2>1. /\ loop[s] = "reporting" /\ loop' = [loop EXCEPT ![s] = "waiting"]
        /\ reported' = [reported EXCEPT ![s] = @ + 1]
        /\ UNCHANGED <<subject, cancelled>>
    BY <1>10 DEF Report, Moves, stopping
  <2>2. PhaseBar[s] = "on" BY <2>1 DEF PhaseBar, IInv, MemoryOK
  <2>3. PhaseBar' = PhaseBar BY <2>1 DEF PhaseBar, IInv, IosTypeOK
  <2> QED BY <2>1, <2>2, <2>3 DEF Contract!SCNext, Contract!Partial
<1>11. CASE UNCHANGED vars BY <1>0, <1>11 DEF vars, stopping, streams
<1> QED
  BY <1>1, <1>2, <1>4, <1>5, <1>6, <1>7, <1>8, <1>9, <1>10, <1>11 DEF Next, barVars

\* stop() on iOS is a barrier: the streams implement the contract of
\* startStreaming without a late partial.
THEOREM ISKeepsContract == Spec => KeepsContract
<1>1. Init => Contract!SCInit BY DEF Init, Contract!SCInit, PhaseBar
<1>2. IInv /\ [Next]_vars => [Contract!SCNext]_barVars BY StepMaps
<1> QED
  BY <1>1, <1>2, ISInvariant, PTL
     DEF Spec, KeepsContract, Contract!SCSpec, Contract!scVars, barVars

-----------------------------------------------------------------------------
\* What the types of the rest of the state rest on: a stream that was born has
\* the view model that started it, so that what it posts goes to somebody.
PostedOK ==
    /\ crashed \in BOOLEAN
    /\ created \subseteq ViewModels /\ scopes \subseteq created
    /\ owner \in [Streams -> ViewModels \cup {None}]
    /\ \A s \in Streams : Born(s) => owner[s] \in ViewModels
    /\ heard \subseteq Streams
    /\ reported \in [Streams -> 0..MaxPartials]
    /\ \A s \in Streams : loop[s] = "reporting" => reported[s] < MaxPartials
    /\ mainQueue \in Seq([vm : ViewModels, stream : Streams, n : 1..MaxPartials])
    /\ live \in [ViewModels -> [stream : Streams \cup {None}, n : 0..MaxPartials]]

\* Every step keeps them: an emission is posted to the owner of its stream.
LEMMA PostedKeeps == ASSUME IInv, PostedOK, [Next]_vars PROVE PostedOK'
<1> USE DEF Alive
<1>0. ASSUME UNCHANGED <<created, scopes, streams, mainQueue, live>>, crashed' \in BOOLEAN
      PROVE  PostedOK'
  BY <1>0 DEF PostedOK, streams
<1>1. ASSUME NEW v \in ViewModels, EnterScreen(v) PROVE PostedOK'
  BY <1>1 DEF EnterScreen, PostedOK, streams
<1>2. ASSUME NEW v \in ViewModels, NEW s \in Streams, StartStreaming(v, s) PROVE PostedOK'
  <2>1. /\ \/ UNCHANGED <<owner, loop>>
           \/ /\ owner' = [owner EXCEPT ![s] = v]
              /\ loop' = [loop EXCEPT ![s] = "checking"]
        /\ crashed' \in BOOLEAN
        /\ UNCHANGED <<created, scopes, heard, reported, mainQueue, live>>
    BY <1>2 DEF StartStreaming, PostedOK, screens
  <2>2. /\ DOMAIN loop = Streams
        /\ owner \in [Streams -> ViewModels \cup {None}]
        /\ \A z \in Streams : Born(z) => owner[z] \in ViewModels
    BY DEF PostedOK, IInv, IosTypeOK
  <2>3. /\ owner' \in [Streams -> ViewModels \cup {None}]
        /\ \A z \in Streams : Born(z)' => owner'[z] \in ViewModels
        /\ \A z \in Streams : loop'[z] = "reporting" => loop[z] = "reporting"
    BY <2>1, <2>2
  <2> QED BY <2>1, <2>3 DEF PostedOK
<1>3. ASSUME NEW v \in ViewModels, StopStreaming(v) PROVE PostedOK'
  BY <1>3 DEF StopStreaming, PostedOK, screens
<1>4. ASSUME LeaveScreen PROVE PostedOK' BY <1>4 DEF LeaveScreen, PostedOK
<1>5. ASSUME Joined \/ Halt \/ Dispose PROVE PostedOK'
  BY <1>5 DEF Joined, Halt, Dispose, PostedOK, screens, streams
<1>6. ASSUME Close PROVE PostedOK' BY <1>6 DEF Close, PostedOK, streams
<1>7. ASSUME EmitLive PROVE PostedOK'
  <2>1. /\ Head(mainQueue) \in [vm : ViewModels, stream : Streams, n : 1..MaxPartials]
        /\ Tail(mainQueue) \in Seq([vm : ViewModels, stream : Streams, n : 1..MaxPartials])
    <3> DEFINE E == [vm : ViewModels, stream : Streams, n : 1..MaxPartials]
    <3>1. mainQueue \in Seq(E) /\ mainQueue # <<>> BY <1>7 DEF EmitLive, PostedOK
    <3> HIDE DEF E
    <3>2. Head(mainQueue) \in E /\ Tail(mainQueue) \in Seq(E) BY <3>1
    <3> QED BY <3>2 DEF E
  <2>2. live' \in [ViewModels -> [stream : Streams \cup {None}, n : 0..MaxPartials]]
    BY <1>7, <2>1 DEF EmitLive, PostedOK
  <2> QED BY <1>7, <2>1, <2>2 DEF EmitLive, PostedOK, screens, streams
<1>8. ASSUME NEW s \in Streams, Callback(s) PROVE PostedOK'
  BY <1>8 DEF Callback, PostedOK, screens
<1>9. ASSUME NEW s \in Streams, Check(s) \/ Wait(s) PROVE PostedOK'
  BY <1>9 DEF Check, Wait, Moves, PostedOK, IInv, IosTypeOK, screens
<1>10. ASSUME NEW s \in Streams, Infer(s) PROVE PostedOK'
  BY <1>10 DEF Infer, Moves, PostedOK, IInv, IosTypeOK, screens
<1>11. ASSUME NEW s \in Streams, Report(s) PROVE PostedOK'
  <2>1. /\ owner[s] \in ViewModels /\ reported[s] + 1 \in 1..MaxPartials
        /\ reported' = [reported EXCEPT ![s] = reported[s] + 1]
    BY <1>11 DEF Report, Moves, PostedOK
  <2>2. mainQueue' \in Seq([vm : ViewModels, stream : Streams, n : 1..MaxPartials])
    <3>1. [vm |-> owner[s], stream |-> s, n |-> reported'[s]]
             \in [vm : ViewModels, stream : Streams, n : 1..MaxPartials]
      BY <2>1 DEF PostedOK
    <3> QED BY <1>11, <3>1 DEF Report, PostedOK
  <2> QED BY <1>11, <2>1, <2>2 DEF Report, Moves, PostedOK, IInv, IosTypeOK, screens
<1>12. CASE UNCHANGED vars BY <1>0, <1>12 DEF vars, screens, PostedOK
<1> QED
  BY <1>1, <1>2, <1>3, <1>4, <1>5, <1>6, <1>7, <1>8, <1>9, <1>10, <1>11, <1>12 DEF Next

\* The types of the streams, the view models and what is posted between them.
THEOREM ISTypeCorrect == Spec => []TypeOK
<1>1. Init => PostedOK
  <2> SUFFICES ASSUME Init PROVE PostedOK OBVIOUS
  <2>1. mainQueue \in Seq([vm : ViewModels, stream : Streams, n : 1..MaxPartials])
    BY DEF Init
  <2>2. live \in [ViewModels -> [stream : Streams \cup {None}, n : 0..MaxPartials]]
    BY DEF Init
  <2>3. /\ crashed \in BOOLEAN /\ created \subseteq ViewModels /\ scopes \subseteq created
        /\ owner \in [Streams -> ViewModels \cup {None}] /\ heard \subseteq Streams
    BY DEF Init
  <2>4. reported \in [Streams -> 0..MaxPartials]
    <3>1. 0 \in 0..MaxPartials OBVIOUS
    <3>2. reported = [s \in Streams |-> 0] BY DEF Init
    <3> QED BY <3>1, <3>2
  <2>5. \A s \in Streams : loop[s] = "unborn" BY DEF Init
  <2> QED BY <2>1, <2>2, <2>3, <2>4, <2>5 DEF PostedOK
<1>2. IInv /\ PostedOK => TypeOK
  <2> SUFFICES ASSUME IInv, PostedOK PROVE TypeOK OBVIOUS
  <2>1. \A i \in DOMAIN mainQueue :
           mainQueue[i] \in [vm : ViewModels, stream : Streams, n : 1..MaxPartials]
    <3> DEFINE E == [vm : ViewModels, stream : Streams, n : 1..MaxPartials]
    <3>1. mainQueue \in Seq(E) BY DEF PostedOK
    <3> HIDE DEF E
    <3>2. \A i \in DOMAIN mainQueue : mainQueue[i] \in E BY <3>1
    <3> QED BY <3>2 DEF E
  <2>2. /\ {store, open, crashed} \subseteq BOOLEAN
        /\ main \in {"free", "joining", "halting", "disposing", "closing"}
        /\ (subject # None) <=> main \in {"joining", "halting", "disposing"}
    BY DEF IInv, IosTypeOK, MainOK, PostedOK
  <2> QED BY <2>1, <2>2 DEF IInv, IosTypeOK, PostedOK, TypeOK
<1> QED BY <1>1, <1>2, PostedKeeps, ISInvariant, PTL DEF Spec

-----------------------------------------------------------------------------
\* How far the main thread still is from being free, and the loop it waits for
\* from its end once it is cancelled.
LoopRank == [checking |-> 3, inferring |-> 3, reporting |-> 2, waiting |-> 1,
             ended |-> 0]
MainRank == [joining |-> 4, halting |-> 3, disposing |-> 2, closing |-> 1, free |-> 0]
Distance == MainRank[main] + (IF main = "joining" THEN LoopRank[loop[subject]] ELSE 0)

\* The step that stop() or onCleared waits for: the loop's next one while it
\* joins the loop, otherwise its own.
NextOfStop ==
    IF main = "joining" /\ loop[subject] # "ended" THEN LoopStep(subject) ELSE StopStep

\* stop() goes on: while the main thread is not free, the step it waits for
\* stands at its guard, brings it closer to the end, and no other step puts it
\* further away.
Descends ==
    main # "free" =>
        /\ main = "joining" => subject \in Streams /\ loop[subject] # "unborn"
        /\ Distance' <= Distance
        /\ NextOfStop => Distance' < Distance

\* A step of a loop while stop() joins: that of the subject, which is cancelled,
\* never goes back to `while (isActive)` and infers again.
LEMMA LoopDescends ==
    ASSUME IInv, main = "joining", NEW s \in Streams, LoopStep(s)
    PROVE  /\ Distance' <= Distance
           /\ s = subject => Distance' < Distance
<1>1. /\ subject \in Streams /\ subject \in cancelled /\ loop[subject] # "unborn"
      /\ loop \in [Streams -> {"unborn", "checking", "inferring", "reporting",
                               "waiting", "ended"}]
  BY DEF IInv, IosTypeOK, MainOK
<1>2. main' = main /\ subject' = subject
  BY DEF LoopStep, Check, Infer, Report, Wait, stopping
<1>3. CASE s # subject
  <2>1. loop'[subject] = loop[subject]
    BY <1>1, <1>3 DEF LoopStep, Check, Infer, Report, Wait, Moves
  <2> QED BY <1>1, <1>2, <1>3, <2>1 DEF Distance, MainRank, LoopRank
<1>4. CASE s = subject
  <2>1. \/ loop[s] = "checking" /\ loop'[s] = "ended"
        \/ loop[s] = "inferring" /\ loop'[s] \in {"waiting", "reporting"}
        \/ loop[s] = "reporting" /\ loop'[s] = "waiting"
        \/ loop[s] = "waiting" /\ loop'[s] = "ended"
    BY <1>1, <1>4 DEF LoopStep, Check, Infer, Report, Wait, Moves
  <2> QED BY <1>2, <1>4, <2>1 DEF Distance, MainRank, LoopRank
<1> QED BY <1>3, <1>4

\* The safety core of StopReturns, for any number of streams: with WF of
\* StopStep and of each LoopStep, stop() and onCleared take at most seven steps of
\* those they wait for.
THEOREM ISStopDescends == Spec => [][Descends]_vars
<1>1. IInv /\ [Next]_vars => [Descends]_vars
  <2> SUFFICES ASSUME IInv, Next, main # "free" PROVE Descends
    BY DEF Descends
  <2> USE DEF Alive
  <2>1. /\ main \in {"joining", "halting", "disposing", "closing"}
        /\ main = "joining" => subject \in Streams /\ loop[subject] # "unborn"
        /\ loop \in [Streams -> {"unborn", "checking", "inferring", "reporting",
                                 "waiting", "ended"}]
    BY DEF IInv, IosTypeOK, MainOK
  <2>2. Distance \in Nat BY <2>1 DEF Distance, MainRank, LoopRank
  <2>3. CASE StopStep
    <3>1. Distance' < Distance /\ Distance' <= Distance
      BY <2>1, <2>3 DEF StopStep, Joined, Halt, Dispose, Close, Distance, MainRank, LoopRank
    <3> QED BY <2>1, <2>2, <2>3, <3>1 DEF Descends
  <2>4. ASSUME NEW s \in Streams, LoopStep(s) PROVE Descends
    <3>0. UNCHANGED <<main, subject>> /\ ~StopStep
      BY <2>1, <2>4 DEF LoopStep, Check, Infer, Report, Wait, stopping,
                        StopStep, Joined, Halt, Dispose, Close
    <3>1. CASE main # "joining"
      BY <2>1, <2>2, <3>0, <3>1 DEF Descends, NextOfStop, Distance, MainRank
    <3>2. CASE main = "joining"
      BY <2>1, <3>0, <3>2, <2>4, LoopDescends DEF Descends, NextOfStop
    <3> QED BY <3>1, <3>2
  <2> QED
    BY <2>3, <2>4 DEF Next, StopStep, LoopStep, EnterScreen, StartStreaming, StopStreaming,
                      LeaveScreen, EmitLive, Callback
<1> QED BY <1>1, ISInvariant, PTL DEF Spec

=============================================================================
