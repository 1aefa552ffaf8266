---------------------- MODULE AndroidTranscriber_proofs ----------------------
(***************************************************************************)
(* Proofs about AndroidTranscriber for every set of view models, streams   *)
(* and jobs, with and without a ViewModelStore.                            *)
(***************************************************************************)
EXTENDS AndroidTranscriber, TLAPS

USE ActorsAssumption, BoundsAssumption

\* The types of what the streams and their handles are made of.
StreamTypeOK ==
    /\ screen \in ViewModels \cup {None}
    /\ handle \in [ViewModels -> Streams \cup {None}]
    /\ owner \in [Streams -> ViewModels \cup {None}]
    /\ loop \in [Streams -> {"unborn", "listening", "asked", "resumed", "ended"}]
    /\ stopped \subseteq Streams
    /\ late \in [Streams -> Nat]

\* The view model that started a stream holds its handle until it stops it.
OwnerHolds ==
    \A s \in Streams : MicOn(s) => owner[s] \in ViewModels /\ handle[owner[s]] = s

\* A late partial is the last one: the loop cannot be resumed again.
LateOK ==
    \A s \in Streams :
        /\ late[s] <= 1
        /\ late[s] = 1 => s \in stopped /\ loop[s] # "resumed"

\* What a handle holds, and what was stopped, has been started.
BornOK ==
    /\ \A v \in ViewModels : handle[v] # None => loop[handle[v]] # "unborn"
    /\ \A s \in stopped : loop[s] # "unborn"

IInv == StreamTypeOK /\ OwnerHolds /\ LateOK /\ BornOK

-----------------------------------------------------------------------------
\* Stopping the stream of a handle leaves every other stream with its handle.
LEMMA StopKeeps ==
    ASSUME IInv, NEW v \in ViewModels, StopHandle(v),
           UNCHANGED <<owner, loop, late>>, screen' \in ViewModels \cup {None}
    PROVE  IInv'
<1>1. StreamTypeOK' BY DEF IInv, StreamTypeOK, StopHandle
<1>2. ASSUME NEW s \in Streams, MicOn(s)'
      PROVE  owner'[s] \in ViewModels /\ handle'[owner'[s]] = s
  <2>1. MicOn(s) /\ s # handle[v] BY <1>2 DEF IInv, StreamTypeOK, MicOn, StopHandle
  <2>2. owner[s] \in ViewModels /\ handle[owner[s]] = s
    BY <2>1 DEF IInv, OwnerHolds
  <2>3. owner[s] # v BY <2>1, <2>2
  <2> QED BY <2>2, <2>3 DEF IInv, StreamTypeOK, StopHandle
<1>3. LateOK' BY DEF IInv, LateOK, StopHandle
<1>4. BornOK' BY DEF IInv, StreamTypeOK, BornOK, StopHandle
<1> QED BY <1>1, <1>2, <1>3, <1>4 DEF IInv, OwnerHolds

\* A step that touches no stream and no handle keeps the invariant.
LEMMA StreamsKept ==
    ASSUME IInv, UNCHANGED <<handle, streams>>, screen' \in ViewModels \cup {None}
    PROVE  IInv'
BY DEF IInv, StreamTypeOK, OwnerHolds, LateOK, BornOK, MicOn, streams

\* A step of one loop that neither reports nor is resumed after a stop.
LEMMA LoopMoves ==
    ASSUME IInv, NEW s \in Streams, loop[s] # "unborn",
           NEW x \in {"listening", "asked", "resumed", "ended"},
           loop' = [loop EXCEPT ![s] = x], s \in stopped => x # "resumed",
           UNCHANGED <<screens, owner, stopped, late>>
    PROVE  IInv'
<1>1. StreamTypeOK' BY DEF IInv, StreamTypeOK, screens
<1>2. OwnerHolds'
  BY DEF IInv, StreamTypeOK, OwnerHolds, MicOn, screens
<1>3. LateOK' BY DEF IInv, StreamTypeOK, LateOK
<1>4. BornOK' BY DEF IInv, StreamTypeOK, BornOK, screens
<1> QED BY <1>1, <1>2, <1>3, <1>4 DEF IInv

\* Every step keeps the invariant.
LEMMA StepInvariant == IInv /\ [Next]_vars => IInv'
<1> SUFFICES ASSUME IInv, [Next]_vars PROVE IInv' OBVIOUS
<1>0. screen \in ViewModels \cup {None} BY DEF IInv, StreamTypeOK
<1>1. ASSUME NEW v \in ViewModels, EnterScreen(v) PROVE IInv'
  BY <1>1, StreamsKept DEF EnterScreen
<1>2. ASSUME LeaveScreen PROVE IInv'
  <2>1. screen \in ViewModels /\ screen' = None /\ UNCHANGED <<owner, loop, late>>
    BY <1>0, <1>2 DEF LeaveScreen
  <2>2. CASE ViewModelStore
    <3>1. StopHandle(screen) BY <1>2, <2>2 DEF LeaveScreen, OnCleared
    <3> QED BY <2>1, <3>1, StopKeeps
  <2>3. CASE ~ViewModelStore
    BY <1>2, <2>3, StreamsKept DEF LeaveScreen, streams
  <2> QED BY <2>2, <2>3
<1>3. ASSUME NEW v \in ViewModels, CloseReturns(v) PROVE IInv'
  BY <1>0, <1>3, StreamsKept DEF CloseReturns
<1>4. ASSUME NEW v \in ViewModels, NEW s \in Streams, StartStreaming(v, s) PROVE IInv'
  <2>1. CASE ctx
    <3>1. /\ handle[v] = None /\ loop[s] = "unborn"
          /\ handle' = [handle EXCEPT ![v] = s]
          /\ owner' = [owner EXCEPT ![s] = v]
          /\ loop' = [loop EXCEPT ![s] = "listening"]
          /\ UNCHANGED <<screen, stopped, late>>
      BY <1>4, <2>1 DEF StartStreaming
    <3>2. StreamTypeOK' BY <3>1 DEF IInv, StreamTypeOK
    <3>3. ASSUME NEW z \in Streams, MicOn(z)'
          PROVE  owner'[z] \in ViewModels /\ handle'[owner'[z]] = z
      <4>1. CASE z = s BY <3>1, <4>1 DEF IInv, StreamTypeOK
      <4>2. CASE z # s
        <5>1. MicOn(z) /\ owner'[z] = owner[z]
          BY <3>1, <3>3, <4>2 DEF IInv, StreamTypeOK, MicOn
        <5>2. owner[z] \in ViewModels /\ handle[owner[z]] = z
          BY <5>1 DEF IInv, OwnerHolds
        <5>3. owner[z] # v BY <3>1, <5>2
        <5> QED BY <3>1, <5>1, <5>2, <5>3 DEF IInv, StreamTypeOK
      <4> QED BY <4>1, <4>2
    <3>4. LateOK' BY <3>1 DEF IInv, StreamTypeOK, LateOK
    <3>5. BornOK' BY <3>1 DEF IInv, StreamTypeOK, BornOK
    <3> QED BY <3>2, <3>3, <3>4, <3>5 DEF IInv, OwnerHolds
  <2>2. CASE ~ctx
    BY <1>0, <1>4, <2>2, StreamsKept DEF StartStreaming, streams
  <2> QED BY <2>1, <2>2
<1>5. ASSUME NEW v \in ViewModels, StopStreaming(v) PROVE IInv'
  BY <1>0, <1>5, StopKeeps DEF StopStreaming
<1>6. ASSUME EmitLive PROVE IInv'
  BY <1>0, <1>6, StreamsKept DEF EmitLive, screens
<1>7. ASSUME NEW v \in ViewModels, NEW j \in Jobs, StopAndTranscribe(v, j) PROVE IInv'
  BY <1>0, <1>7, StreamsKept DEF StopAndTranscribe, screens
<1>8. ASSUME NEW j \in Jobs, JobStep(j) \/ JobResumes(j) PROVE IInv'
  BY <1>0, <1>8, StreamsKept DEF JobStep, JobEnters, JobAsks, JobResumes, screens
<1>9. ASSUME NEW s \in Streams, Tick(s) PROVE IInv'
  BY <1>9, LoopMoves DEF Tick
<1>10. ASSUME NEW s \in Streams, Resume(s) PROVE IInv'
  <2>1. /\ loop[s] = "asked" /\ UNCHANGED <<screens, owner, stopped, late>>
        /\ \E x \in {"listening", "resumed", "ended"} :
              loop' = [loop EXCEPT ![s] = x] /\ (s \in stopped => x = "ended")
    BY <1>10 DEF Resume
  <2> QED BY <2>1, LoopMoves
<1>11. ASSUME NEW s \in Streams, Report(s) PROVE IInv'
  <2>1. /\ loop[s] = "resumed" /\ loop' = [loop EXCEPT ![s] = "listening"]
        /\ late' = [late EXCEPT ![s] = IF s \in stopped THEN late[s] + 1 ELSE late[s]]
        /\ UNCHANGED <<screen, handle, owner, stopped>>
    BY <1>11 DEF Report, screens
  <2>2. late[s] = 0 BY <2>1 DEF IInv, StreamTypeOK, LateOK
  <2>3. StreamTypeOK' BY <2>1 DEF IInv, StreamTypeOK
  <2>4. OwnerHolds' BY <2>1 DEF IInv, StreamTypeOK, OwnerHolds, MicOn
  <2>5. LateOK' BY <2>1, <2>2 DEF IInv, StreamTypeOK, LateOK
  <2>6. BornOK' BY <2>1 DEF IInv, StreamTypeOK, BornOK
  <2> QED BY <2>3, <2>4, <2>5, <2>6 DEF IInv
<1>12. ASSUME NEW s \in Streams, SameText(s) PROVE IInv'
  BY <1>12, LoopMoves DEF SameText
<1>13. ASSUME Serve PROVE IInv'
  BY <1>0, <1>13, StreamsKept DEF Serve, screens
<1>14. CASE UNCHANGED vars BY <1>0, <1>14, StreamsKept DEF vars, screens
<1> QED
  BY <1>1, <1>2, <1>3, <1>4, <1>5, <1>6, <1>7, <1>8, <1>9, <1>10, <1>11, <1>12,
     <1>13, <1>14
     DEF Next, UserStep, MainStep, StreamStep, JobStep

\* The invariant holds of every behaviour.
THEOREM ATInvariant == Spec => []IInv
<1>1. Init => IInv
  BY DEF Init, IInv, StreamTypeOK, OwnerHolds, LateOK, BornOK, MicOn
<1> QED BY <1>1, StepInvariant, PTL DEF Spec

\* No stream loses its handle while its microphone is on, whatever the user
\* presses and however many view models are made.
THEOREM ATMicHasHandle == Spec => []MicHasHandle
<1>1. IInv => MicHasHandle BY DEF IInv, OwnerHolds, MicHasHandle
<1> QED BY <1>1, ATInvariant, PTL

\* A stopped stream reports at most once more.
THEOREM ATAtMostOneLatePartial == Spec => []AtMostOneLatePartial
<1>1. IInv => AtMostOneLatePartial BY DEF IInv, LateOK, AtMostOneLatePartial
<1> QED BY <1>1, ATInvariant, PTL

-----------------------------------------------------------------------------
\* A step that changes the stopped streams only is one stop, or a stutter.
LEMMA StopMaps ==
    ASSUME IInv, NEW v \in ViewModels, StopHandle(v), UNCHANGED <<loop, reported, late>>
    PROVE  [Contract!SCNext]_<<PhaseBar, reported, late>>
<1>1. CASE handle[v] \notin Streams \/ handle[v] \in stopped
  BY <1>1 DEF IInv, StreamTypeOK, StopHandle, PhaseBar
<1>2. CASE handle[v] \in Streams /\ handle[v] \notin stopped
  <2> DEFINE s == handle[v]
             p == IF loop[s] = "ended" THEN "over" ELSE "stopped"
  <2>1. loop[s] # "unborn" BY <1>2 DEF IInv, BornOK
  <2>2. PhaseBar[s] = "on" BY <1>2, <2>1 DEF PhaseBar
  <2>3. PhaseBar' = [PhaseBar EXCEPT ![s] = p]
    <3>1. stopped' = stopped \cup {s} BY <1>2 DEF StopHandle
    <3>2. PhaseBar'[s] = p BY <1>2, <2>1, <3>1 DEF PhaseBar
    <3>3. \A z \in Streams : z # s => PhaseBar'[z] = PhaseBar[z]
      BY <3>1 DEF PhaseBar
    <3> QED BY <1>2, <3>2, <3>3 DEF PhaseBar
  <2>4. Contract!Stop(s)
    BY <2>2, <2>3 DEF Contract!Stop, Contract!Goes
  <2> QED BY <1>2, <2>4 DEF Contract!SCNext
<1> QED BY <1>1, <1>2

\* A step of one loop that is no report moves the phase of its stream alone,
\* and only when it ends a stopped one.
LEMMA LoopMaps ==
    ASSUME IInv, NEW s \in Streams, loop[s] \notin {"unborn", "ended"},
           NEW x \in {"listening", "asked", "resumed", "ended"},
           loop' = [loop EXCEPT ![s] = x], UNCHANGED <<stopped, reported, late>>
    PROVE  [Contract!SCNext]_<<PhaseBar, reported, late>>
<1>0. \A z \in Streams : z # s => PhaseBar'[z] = PhaseBar[z] BY DEF PhaseBar
<1>1. CASE s \in stopped /\ x = "ended"
  <2>1. PhaseBar[s] = "stopped" /\ PhaseBar'[s] = "over"
    BY <1>1 DEF IInv, StreamTypeOK, PhaseBar
  <2>2. PhaseBar' = [PhaseBar EXCEPT ![s] = "over"]
    BY <1>0, <2>1 DEF PhaseBar
  <2> QED BY <2>1, <2>2 DEF Contract!SCNext, Contract!End, Contract!Goes
<1>2. CASE ~(s \in stopped /\ x = "ended")
  <2>1. PhaseBar'[s] = PhaseBar[s] BY <1>2 DEF IInv, StreamTypeOK, PhaseBar
  <2> QED BY <1>0, <2>1 DEF PhaseBar
<1> QED BY <1>1, <1>2

\* Every step maps to a step of StreamContract or to a stutter.
LEMMA StepMaps ==
    ASSUME IInv, IInv', [Next]_vars
    PROVE  [Contract!SCNext]_<<PhaseBar, reported, late>>
<1> DEFINE Stutter == UNCHANGED <<PhaseBar, reported, late>>
<1>0. ASSUME UNCHANGED <<loop, stopped, reported, late>> PROVE Stutter
  BY <1>0 DEF PhaseBar
<1>1. ASSUME NEW v \in ViewModels, EnterScreen(v) PROVE Stutter
  BY <1>0, <1>1 DEF EnterScreen, streams
<1>2. ASSUME LeaveScreen PROVE [Contract!SCNext]_<<PhaseBar, reported, late>>
  <2>1. screen \in ViewModels /\ UNCHANGED <<loop, reported, late>>
    BY <1>2 DEF IInv, StreamTypeOK, LeaveScreen
  <2>2. CASE ViewModelStore
    BY <1>2, <2>1, <2>2, StopMaps DEF LeaveScreen, OnCleared
  <2>3. CASE ~ViewModelStore BY <1>0, <1>2, <2>1, <2>3 DEF LeaveScreen
  <2> QED BY <2>2, <2>3
<1>3. ASSUME NEW v \in ViewModels, CloseReturns(v) PROVE Stutter
  BY <1>0, <1>3 DEF CloseReturns, streams
<1>4. ASSUME NEW v \in ViewModels, NEW s \in Streams, StartStreaming(v, s)
      PROVE  [Contract!SCNext]_<<PhaseBar, reported, late>>
  <2>1. CASE ctx
    <3>1. /\ loop[s] = "unborn" /\ s \notin stopped
          /\ loop' = [loop EXCEPT ![s] = "listening"]
          /\ UNCHANGED <<stopped, reported, late>>
      BY <1>4, <2>1 DEF StartStreaming, IInv, BornOK
    <3>2. PhaseBar[s] = "unborn" /\ PhaseBar'[s] = "on"
      BY <3>1 DEF IInv, StreamTypeOK, PhaseBar
    <3>3. PhaseBar' = [PhaseBar EXCEPT ![s] = "on"]
      <4>1. \A z \in Streams : z # s => PhaseBar'[z] = PhaseBar[z]
        BY <3>1 DEF PhaseBar
      <4> QED BY <3>2, <4>1 DEF PhaseBar
    <3> QED BY <3>1, <3>2, <3>3 DEF Contract!SCNext, Contract!Start, Contract!Goes
  <2>2. CASE ~ctx BY <1>0, <1>4, <2>2 DEF StartStreaming
  <2> QED BY <2>1, <2>2
<1>5. ASSUME NEW v \in ViewModels, StopStreaming(v)
      PROVE  [Contract!SCNext]_<<PhaseBar, reported, late>>
  BY <1>5, StopMaps DEF StopStreaming
<1>6. ASSUME EmitLive PROVE Stutter BY <1>0, <1>6 DEF EmitLive, streams
<1>7. ASSUME NEW v \in ViewModels, NEW j \in Jobs, StopAndTranscribe(v, j) PROVE Stutter
  BY <1>0, <1>7 DEF StopAndTranscribe, streams
<1>8. ASSUME NEW j \in Jobs, JobStep(j) \/ JobResumes(j) PROVE Stutter
  BY <1>0, <1>8 DEF JobStep, JobEnters, JobAsks, JobResumes, streams
<1>9. ASSUME NEW s \in Streams, Tick(s)
      PROVE  [Contract!SCNext]_<<PhaseBar, reported, late>>
  BY <1>9, LoopMaps DEF Tick
<1>10. ASSUME NEW s \in Streams, Resume(s)
       PROVE  [Contract!SCNext]_<<PhaseBar, reported, late>>
  <2>1. /\ loop[s] = "asked" /\ UNCHANGED <<stopped, reported, late>>
        /\ \E x \in {"listening", "resumed", "ended"} : loop' = [loop EXCEPT ![s] = x]
    BY <1>10 DEF Resume
  <2> QED BY <2>1, LoopMaps
<1>11. ASSUME NEW s \in Streams, Report(s)
       PROVE  [Contract!SCNext]_<<PhaseBar, reported, late>>
  <2>1. /\ loop[s] = "resumed" /\ loop' = [loop EXCEPT ![s] = "listening"]
        /\ reported' = [reported EXCEPT ![s] = @ + 1]
        /\ late' = [late EXCEPT ![s] = IF s \in stopped THEN late[s] + 1 ELSE late[s]]
        /\ UNCHANGED stopped
    BY <1>11 DEF Report
  <2>2. PhaseBar' = PhaseBar BY <2>1 DEF IInv, StreamTypeOK, PhaseBar
  <2>3. PhaseBar[s] = IF s \in stopped THEN "stopped" ELSE "on"
    BY <2>1 DEF PhaseBar
  <2>4. late[s] < 1 BY <2>1 DEF IInv, StreamTypeOK, LateOK
  <2>5. Contract!Partial(s)
    <3>1. CASE s \in stopped BY <2>1, <2>2, <2>3, <2>4, <3>1 DEF Contract!Partial
    <3>2. CASE s \notin stopped
      <4>1. late' = late BY <2>1, <3>2 DEF IInv, StreamTypeOK
      <4> QED BY <2>1, <2>2, <2>3, <3>2, <4>1 DEF Contract!Partial
    <3> QED BY <3>1, <3>2
  <2> QED BY <2>5 DEF Contract!SCNext
<1>12. ASSUME NEW s \in Streams, SameText(s)
       PROVE  [Contract!SCNext]_<<PhaseBar, reported, late>>
  BY <1>12, LoopMaps DEF SameText
<1>13. ASSUME Serve PROVE Stutter BY <1>0, <1>13 DEF Serve, streams
<1>14. CASE UNCHANGED vars BY <1>0, <1>14 DEF vars, streams
<1> QED
  BY <1>1, <1>2, <1>3, <1>4, <1>5, <1>6, <1>7, <1>8, <1>9, <1>10, <1>11, <1>12,
     <1>13, <1>14
     DEF Next, UserStep, MainStep, StreamStep, JobStep

\* The pipeline implements the contract of startStreaming with one late partial.
THEOREM ATKeepsContract == Spec => KeepsContract
<1>1. Init => Contract!SCInit
  BY DEF Init, Contract!SCInit, PhaseBar
<1> QED
  BY <1>1, StepMaps, ATInvariant, PTL DEF Spec, KeepsContract, Contract!SCSpec,
     Contract!scVars

-----------------------------------------------------------------------------
(* Partials are shown in order.                                            *)

Emissions == [vm : ViewModels \cup {None}, stream : Streams, n : Nat]

\* The queue of the main thread: what a stream has posted is numbered in the
\* order of the queue, after what is shown of it and up to what it has reported.
QueueOK ==
    /\ mainQueue \in Seq(Emissions)
    /\ reported \in [Streams -> Nat]
    /\ live \in [ViewModels -> [stream : Streams \cup {None}, n : Nat]]
    /\ \A i \in 1..Len(mainQueue) : mainQueue[i].n <= reported[mainQueue[i].stream]
    /\ \A i, k \in 1..Len(mainQueue) :
          i < k /\ mainQueue[i].stream = mainQueue[k].stream => mainQueue[i].n < mainQueue[k].n
    /\ \A v \in ViewModels : \A i \in 1..Len(mainQueue) :
          live[v].stream = mainQueue[i].stream => live[v].n < mainQueue[i].n
    /\ \A v \in ViewModels : live[v].stream # None => live[v].n <= reported[live[v].stream]

\* Only two steps touch the queue.
LEMMA QueueSteps ==
    ASSUME [Next]_vars
    PROVE  \/ UNCHANGED <<mainQueue, reported, live>>
           \/ EmitLive
           \/ \E s \in Streams : Report(s)
BY DEF Next, UserStep, MainStep, StreamStep, JobStep, Serve, EnterScreen, LeaveScreen,
       CloseReturns, StartStreaming, StopStreaming, StopAndTranscribe, JobEnters, JobAsks,
       JobResumes, Tick, Resume, SameText, vars, streams

\* The oldest emission is shown: it is newer than what was shown of its stream,
\* and older than what is left.
LEMMA EmitInOrder ==
    ASSUME QueueOK, EmitLive
    PROVE  /\ QueueOK'
           /\ \A v \in ViewModels :
                 live'[v] # live[v] /\ live'[v].stream = live[v].stream
                     => live'[v].n > live[v].n
<1> DEFINE e == mainQueue[1]
<1>1. /\ Len(mainQueue) >= 1 /\ mainQueue' = Tail(mainQueue) /\ reported' = reported
      /\ e \in Emissions
  <2>1. mainQueue \in Seq(Emissions) /\ mainQueue # <<>> BY DEF EmitLive, QueueOK
  <2>2. Len(mainQueue) \in Nat /\ Len(mainQueue) >= 1 BY <2>1
  <2>3. e \in Emissions BY <2>1, <2>2
  <2> QED BY <2>2, <2>3 DEF EmitLive, streams
<1>2. /\ mainQueue' \in Seq(Emissions)
      /\ \A i \in 1..Len(mainQueue') : i + 1 \in 1..Len(mainQueue) /\ mainQueue'[i] = mainQueue[i + 1]
  BY <1>1 DEF QueueOK
<1>3. \A v \in ViewModels :
          live'[v] = live[v] \/ (v = e.vm /\ live'[v] = [stream |-> e.stream, n |-> e.n])
  <2>1. Head(mainQueue) = e BY <1>1 DEF QueueOK
  <2>2. live' = IF e.vm \in scopes
                THEN [live EXCEPT ![e.vm] = [stream |-> e.stream, n |-> e.n]] ELSE live
    BY <2>1 DEF EmitLive
  <2> QED BY <2>2 DEF QueueOK
<1>4. live' \in [ViewModels -> [stream : Streams \cup {None}, n : Nat]]
  <2>1. Head(mainQueue) = e BY <1>1 DEF QueueOK
  <2>2. live' = IF e.vm \in scopes
                THEN [live EXCEPT ![e.vm] = [stream |-> e.stream, n |-> e.n]] ELSE live
    BY <2>1 DEF EmitLive
  <2>3. [stream |-> e.stream, n |-> e.n] \in [stream : Streams \cup {None}, n : Nat]
    BY <1>1 DEF Emissions
  <2> QED BY <2>2, <2>3 DEF QueueOK
<1>5. \A i \in 1..Len(mainQueue') : mainQueue'[i].n <= reported'[mainQueue'[i].stream]
  BY <1>1, <1>2 DEF QueueOK
<1>6. \A i, k \in 1..Len(mainQueue') :
          i < k /\ mainQueue'[i].stream = mainQueue'[k].stream => mainQueue'[i].n < mainQueue'[k].n
  <2> TAKE i, k \in 1..Len(mainQueue')
  <2>1. /\ i + 1 \in 1..Len(mainQueue) /\ k + 1 \in 1..Len(mainQueue)
        /\ mainQueue'[i] = mainQueue[i + 1] /\ mainQueue'[k] = mainQueue[k + 1]
        /\ i < k => i + 1 < k + 1
    BY <1>2
  <2> QED BY <2>1 DEF QueueOK
<1>7. \A v \in ViewModels : \A i \in 1..Len(mainQueue') :
          live'[v].stream = mainQueue'[i].stream => live'[v].n < mainQueue'[i].n
  <2> TAKE v \in ViewModels
  <2> TAKE i \in 1..Len(mainQueue')
  <2>1. i + 1 \in 1..Len(mainQueue) /\ 1 < i + 1 /\ mainQueue'[i] = mainQueue[i + 1] BY <1>2
  <2>2. CASE live'[v] = live[v] BY <2>1, <2>2 DEF QueueOK
  <2>3. CASE live'[v] = [stream |-> e.stream, n |-> e.n]
    <3>1. 1 \in 1..Len(mainQueue) BY <1>1, <2>1
    <3> QED BY <2>1, <2>3, <3>1 DEF QueueOK
  <2> QED BY <1>3, <2>2, <2>3
<1>8. \A v \in ViewModels : live'[v].stream # None => live'[v].n <= reported'[live'[v].stream]
  BY <1>1, <1>3 DEF QueueOK
<1>9. QueueOK' BY <1>1, <1>2, <1>4, <1>5, <1>6, <1>7, <1>8 DEF QueueOK
<1>10. \A v \in ViewModels :
          live'[v] # live[v] /\ live'[v].stream = live[v].stream => live'[v].n > live[v].n
  <2> TAKE v \in ViewModels
  <2>1. 1 \in 1..Len(mainQueue) BY <1>1 DEF QueueOK
  <2>2. live[v].stream = e.stream => live[v].n < e.n BY <2>1 DEF QueueOK
  <2> QED BY <1>3, <2>2, <1>1 DEF QueueOK
<1> QED BY <1>9, <1>10

\* What is posted is newer than all that its stream has posted before.
LEMMA ReportInOrder ==
    ASSUME QueueOK, IInv, NEW s \in Streams, Report(s) PROVE QueueOK' /\ live' = live
<1> DEFINE e == [vm |-> owner[s], stream |-> s, n |-> reported[s] + 1]
<1>1. /\ reported' = [reported EXCEPT ![s] = @ + 1] /\ mainQueue' = Append(mainQueue, e)
      /\ live' = live /\ reported[s] \in Nat
      /\ e \in Emissions
  <2>1. reported[s] \in Nat /\ owner[s] \in ViewModels \cup {None}
    BY DEF QueueOK, IInv, StreamTypeOK
  <2>2. reported' = [reported EXCEPT ![s] = @ + 1] /\ live' = live BY DEF Report
  <2>3. reported'[s] = reported[s] + 1 BY <2>2 DEF QueueOK
  <2>4. mainQueue' = Append(mainQueue, e) BY <2>3 DEF Report
  <2>5. e \in Emissions BY <2>1 DEF Emissions
  <2> QED BY <2>1, <2>2, <2>4, <2>5
<1>2. /\ mainQueue' \in Seq(Emissions)
      /\ Len(mainQueue') = Len(mainQueue) + 1
      /\ \A i \in 1..Len(mainQueue) : mainQueue'[i] = mainQueue[i]
      /\ mainQueue'[Len(mainQueue) + 1] = e
  BY <1>1 DEF QueueOK
<1>3. /\ reported' \in [Streams -> Nat] /\ reported'[s] = reported[s] + 1
      /\ \A z \in Streams : reported[z] <= reported'[z]
  BY <1>1 DEF QueueOK
<1>4. \A i \in 1..Len(mainQueue') :
          \/ i \in 1..Len(mainQueue) /\ mainQueue'[i] = mainQueue[i]
             /\ mainQueue[i].stream \in Streams /\ mainQueue[i].n \in Nat
          \/ i = Len(mainQueue) + 1 /\ mainQueue'[i] = e
  <2> TAKE i \in 1..Len(mainQueue')
  <2>1. Len(mainQueue) \in Nat BY DEF QueueOK
  <2>2. i \in 1..Len(mainQueue) \/ i = Len(mainQueue) + 1 BY <1>2, <2>1
  <2>3. i \in 1..Len(mainQueue) => mainQueue[i] \in Emissions BY DEF QueueOK
  <2> QED BY <1>2, <2>2, <2>3 DEF Emissions
<1>5. \A i \in 1..Len(mainQueue') : mainQueue'[i].n <= reported'[mainQueue'[i].stream]
  <2> TAKE i \in 1..Len(mainQueue')
  <2>1. CASE i \in 1..Len(mainQueue) /\ mainQueue'[i] = mainQueue[i]
    <3>0. mainQueue[i] \in Emissions BY <2>1 DEF QueueOK
    <3>1. /\ mainQueue[i].n \in Nat /\ mainQueue[i].stream \in Streams
          /\ mainQueue[i].n <= reported[mainQueue[i].stream]
      BY <2>1, <3>0 DEF QueueOK, Emissions
    <3>2. /\ reported[mainQueue[i].stream] \in Nat /\ reported'[mainQueue[i].stream] \in Nat
          /\ reported[mainQueue[i].stream] <= reported'[mainQueue[i].stream]
      BY <1>3, <3>1 DEF QueueOK
    <3> QED BY <2>1, <3>1, <3>2
  <2>2. CASE mainQueue'[i] = e BY <1>1, <1>3, <2>2
  <2> QED BY <1>4, <2>1, <2>2
<1>6. \A i, k \in 1..Len(mainQueue') :
          i < k /\ mainQueue'[i].stream = mainQueue'[k].stream => mainQueue'[i].n < mainQueue'[k].n
  <2> SUFFICES ASSUME NEW i \in 1..Len(mainQueue'), NEW k \in 1..Len(mainQueue'), i < k,
                      mainQueue'[i].stream = mainQueue'[k].stream
               PROVE  mainQueue'[i].n < mainQueue'[k].n
    OBVIOUS
  <2>0. Len(mainQueue) \in Nat BY DEF QueueOK
  <2>1. i \in 1..Len(mainQueue) /\ mainQueue'[i] = mainQueue[i]
    BY <1>2, <2>0
  <2>2. CASE k \in 1..Len(mainQueue) /\ mainQueue'[k] = mainQueue[k]
    BY <2>1, <2>2 DEF QueueOK
  <2>3. CASE mainQueue'[k] = e
    <3>0. mainQueue[i] \in Emissions BY <2>1 DEF QueueOK
    <3>1. mainQueue[i].stream = s /\ mainQueue[i].n \in Nat
      BY <2>1, <2>3, <3>0 DEF Emissions
    <3>2. mainQueue[i].n <= reported[s] BY <2>1, <3>1 DEF QueueOK
    <3>3. mainQueue[i].n < reported[s] + 1 BY <1>1, <3>1, <3>2
    <3> QED BY <2>1, <2>3, <3>3
  <2> QED BY <1>4, <2>2, <2>3
<1>7. \A v \in ViewModels : \A i \in 1..Len(mainQueue') :
          live[v].stream = mainQueue'[i].stream => live[v].n < mainQueue'[i].n
  <2> SUFFICES ASSUME NEW v \in ViewModels, NEW i \in 1..Len(mainQueue'),
                      live[v].stream = mainQueue'[i].stream
               PROVE  live[v].n < mainQueue'[i].n
    OBVIOUS
  <2>1. CASE i \in 1..Len(mainQueue) /\ mainQueue'[i] = mainQueue[i]
    BY <2>1 DEF QueueOK
  <2>2. CASE mainQueue'[i] = e
    <3>1. live[v].stream = s /\ live[v].n \in Nat BY <2>2 DEF QueueOK
    <3>2. live[v].n <= reported[s] BY <3>1 DEF QueueOK
    <3> QED BY <1>1, <2>2, <3>1, <3>2
  <2> QED BY <1>4, <2>1, <2>2
<1>8. \A v \in ViewModels : live[v].stream # None => live[v].n <= reported'[live[v].stream]
  <2> SUFFICES ASSUME NEW v \in ViewModels, live[v].stream # None
               PROVE  live[v].n <= reported'[live[v].stream]
    OBVIOUS
  <2>1. /\ live[v].stream \in Streams /\ live[v].n \in Nat
        /\ live[v].n <= reported[live[v].stream]
    BY DEF QueueOK
  <2>2. /\ reported[live[v].stream] \in Nat /\ reported'[live[v].stream] \in Nat
        /\ reported[live[v].stream] <= reported'[live[v].stream]
    BY <1>3, <2>1 DEF QueueOK
  <2> QED BY <2>1, <2>2
<1>9. QueueOK'
  BY <1>1, <1>2, <1>3, <1>5, <1>6, <1>7, <1>8 DEF QueueOK
<1> QED BY <1>1, <1>9

\* What is shown of a stream never goes back in time.
THEOREM ATLiveInOrder == Spec => LiveInOrder
<1> DEFINE Forward ==
        \A v \in ViewModels :
            live'[v] # live[v] /\ live'[v].stream = live[v].stream => live'[v].n > live[v].n
<1>1. Init => QueueOK
  BY DEF Init, QueueOK
<1>2. QueueOK /\ IInv /\ [Next]_vars => QueueOK' /\ Forward
  <2> SUFFICES ASSUME QueueOK, IInv, [Next]_vars PROVE QueueOK' /\ Forward OBVIOUS
  <2>1. CASE UNCHANGED <<mainQueue, reported, live>> BY <2>1 DEF QueueOK
  <2>2. CASE EmitLive BY <2>2, EmitInOrder
  <2>3. ASSUME NEW s \in Streams, Report(s) PROVE QueueOK' /\ Forward
    BY <2>3, ReportInOrder
  <2> QED BY <2>1, <2>2, <2>3, QueueSteps
<1>3. Forward => [Forward]_vars OBVIOUS
<1> QED BY <1>1, <1>2, <1>3, ATInvariant, PTL DEF Spec, LiveInOrder

-----------------------------------------------------------------------------
(* As the app is wired nobody closes the engine.                           *)

\* The engine is open, nobody waits to close it, and nobody was refused.
OpenOK ==
    /\ open /\ ctx /\ ~crashed
    /\ waiting \in Seq(Callers)
    /\ DOMAIN answer = Callers
    /\ \A c \in Callers : TS!Refused \notin answer[c]

\* Asking for a text, or taking one, closes nothing.
LEMMA AsksKeep ==
    ASSUME OpenOK, NEW c \in Callers, Asks(c) \/ TS!Take(c), UNCHANGED <<ctx, crashed>>
    PROVE  OpenOK'
<1>1. CASE Asks(c)
  <2>1. waiting' = Append(waiting, c) /\ UNCHANGED <<open, answer>>
    BY <1>1 DEF Asks, TS!Ask
  <2> QED BY <2>1 DEF OpenOK
<1>2. CASE TS!Take(c)
  <2>1. answer' = [answer EXCEPT ![c] = {}] /\ UNCHANGED <<open, waiting>>
    BY <1>2 DEF TS!Take
  <2> QED BY <2>1 DEF OpenOK
<1> QED BY <1>1, <1>2

\* The service refuses nobody while it is open, and no closer is in its queue.
LEMMA ServeKeeps == ASSUME OpenOK, Serve PROVE OpenOK'
<1>1. \A r \in ViewModels : ~TS!Close(r)
  <2> SUFFICES ASSUME NEW r \in ViewModels, TS!Close(r) PROVE FALSE OBVIOUS
  <2>1. waiting # <<>> /\ r = Head(waiting) BY DEF TS!Close, TS!ServeNext
  <2>2. r \in Callers BY <2>1 DEF OpenOK
  <2> QED BY <2>2 DEF Callers
<1>2. PICK c \in Callers : TS!Serve(c)
  BY <1>1 DEF Serve, TS!ServeAny
<1>3. waiting' = Tail(waiting) /\ waiting # <<>> /\ open' = open
  BY <1>2 DEF TS!Serve, TS!ServeNext
<1>4. PICK t : answer' = [answer EXCEPT ![c] = {TS!Answered(t)}]
  BY <1>2 DEF OpenOK, TS!Serve
<1>5. TS!Answered(t) # TS!Refused BY DEF TS!Answered, TS!Refused
<1>6. \A d \in Callers : TS!Refused \notin answer'[d]
  BY <1>4, <1>5 DEF OpenOK
<1>7. UNCHANGED <<ctx, crashed>> BY DEF Serve
<1> QED BY <1>3, <1>4, <1>6, <1>7 DEF OpenOK

\* Without a ViewModelStore no step throws what nobody catches.
THEOREM ATNoCrash == ASSUME ViewModelStore = FALSE PROVE Spec => []NoCrash
<1>1. Init => OpenOK
  BY DEF Init, OpenOK, TS!TSInit, TS!Refused
<1>2. OpenOK /\ [Next]_vars => OpenOK'
  <2> SUFFICES ASSUME OpenOK, [Next]_vars PROVE OpenOK' OBVIOUS
  <2>0. ASSUME UNCHANGED <<service, ctx, crashed>> PROVE OpenOK'
    BY <2>0 DEF service, OpenOK
  <2>1. ASSUME NEW v \in ViewModels,
               EnterScreen(v) \/ StopStreaming(v) \/ CloseReturns(v) PROVE OpenOK'
    BY <2>0, <2>1 DEF EnterScreen, StopStreaming, CloseReturns
  <2>2. ASSUME LeaveScreen PROVE OpenOK' BY <2>0, <2>2 DEF LeaveScreen
  <2>3. ASSUME NEW v \in ViewModels, NEW s \in Streams, StartStreaming(v, s) PROVE OpenOK'
    BY <2>0, <2>3 DEF StartStreaming, OpenOK
  <2>4. ASSUME NEW v \in ViewModels, NEW j \in Jobs, StopAndTranscribe(v, j) PROVE OpenOK'
    BY <2>0, <2>4 DEF StopAndTranscribe
  <2>5. ASSUME EmitLive PROVE OpenOK' BY <2>0, <2>5 DEF EmitLive
  <2>6. ASSUME NEW j \in Jobs, JobEnters(j) PROVE OpenOK' BY <2>0, <2>6 DEF JobEnters
  <2>7. ASSUME NEW j \in Jobs, JobAsks(j) \/ JobResumes(j) PROVE OpenOK'
    BY <2>7, AsksKeep DEF JobAsks, JobResumes, Callers
  <2>8. ASSUME NEW s \in Streams, Tick(s) PROVE OpenOK'
    BY <2>8, AsksKeep DEF Tick, Callers
  <2>9. ASSUME NEW s \in Streams, Resume(s) PROVE OpenOK'
    <3>1. s \in Callers /\ TS!Take(s) /\ ctx' = ctx BY <2>9 DEF Resume, Callers
    <3>2. PICK a \in answer[s] : crashed' = (a = TS!Refused) BY <2>9 DEF Resume
    <3>3. a # TS!Refused BY <3>1, <3>2 DEF OpenOK
    <3>4. crashed' = FALSE BY <3>2, <3>3
    <3>5. crashed' = crashed
      <4>1. crashed' <=> crashed BY <3>4 DEF OpenOK
      <4> QED BY <4>1
    <3> QED BY <3>1, <3>5, AsksKeep
  <2>10. ASSUME NEW s \in Streams, Report(s) \/ SameText(s) PROVE OpenOK'
    BY <2>0, <2>10 DEF Report, SameText
  <2>11. ASSUME Serve PROVE OpenOK' BY <2>11, ServeKeeps
  <2>12. CASE UNCHANGED vars BY <2>0, <2>12 DEF vars
  <2> QED
    BY <2>1, <2>2, <2>3, <2>4, <2>5, <2>6, <2>7, <2>8, <2>9, <2>10, <2>11, <2>12
       DEF Next, UserStep, MainStep, StreamStep, JobStep
<1>3. OpenOK => NoCrash BY DEF OpenOK, NoCrash
<1> QED BY <1>1, <1>2, <1>3, PTL DEF Spec

\* The pipeline uses the service as the service allows: every step is one of
\* the service's own actions, or leaves the service alone.
THEOREM ATUsesService == Spec => TS!TSInit /\ [][TS!TSNext]_service
<1>1. Init => TS!TSInit BY DEF Init
<1>2. IInv /\ [Next]_vars => [TS!TSNext]_service
  <2> SUFFICES ASSUME IInv, [Next]_vars PROVE TS!TSNext \/ UNCHANGED service OBVIOUS
  <2>1. ASSUME NEW c \in Callers, TS!Ask(c) \/ TS!Take(c) PROVE TS!TSNext
    BY <2>1 DEF TS!TSNext
  <2>2. CASE LeaveScreen
    <3>1. screen \in ViewModels BY <2>2 DEF LeaveScreen, IInv, StreamTypeOK
    <3>2. TS!AskToClose(screen) \/ UNCHANGED service
      BY <2>2 DEF LeaveScreen, OnCleared
    <3> QED BY <3>1, <3>2 DEF TS!TSNext
  <2>3. ASSUME NEW v \in ViewModels,
               \/ EnterScreen(v) \/ StopStreaming(v) \/ CloseReturns(v)
               \/ \E s \in Streams : StartStreaming(v, s)
               \/ \E j \in Jobs : StopAndTranscribe(v, j)
        PROVE  UNCHANGED service
    BY <2>3 DEF EnterScreen, StopStreaming, CloseReturns, StartStreaming, StopAndTranscribe
  <2>4. CASE EmitLive BY <2>4 DEF EmitLive
  <2>5. ASSUME NEW j \in Jobs, JobStep(j) \/ JobResumes(j) PROVE TS!TSNext \/ UNCHANGED service
    <3>1. j \in Callers BY DEF Callers
    <3> QED BY <2>1, <2>5, <3>1 DEF JobStep, JobEnters, JobAsks, JobResumes, Asks
  <2>6. ASSUME NEW s \in Streams, StreamStep(s) PROVE TS!TSNext \/ UNCHANGED service
    <3>1. s \in Callers BY DEF Callers
    <3> QED BY <2>1, <2>6, <3>1 DEF StreamStep, Tick, Resume, Report, SameText, Asks
  <2>7. CASE Serve BY <2>7 DEF Serve, TS!TSNext
  <2>8. CASE UNCHANGED vars BY <2>8 DEF vars, service
  <2> QED BY <2>2, <2>3, <2>4, <2>5, <2>6, <2>7, <2>8 DEF Next, UserStep, MainStep
<1> QED BY <1>1, <1>2, ATInvariant, PTL DEF Spec

-----------------------------------------------------------------------------
(* Types.                                                                  *)

\* What the types of the rest of the state rest on: streams that were born and
\* jobs that were launched have the view model they work for, and a stream has
\* reported whatever it has reported late.
PostedOK ==
    /\ ctx \in BOOLEAN /\ crashed \in BOOLEAN
    /\ closing \in ViewModels \cup {None}
    /\ created \subseteq ViewModels /\ scopes \subseteq created
    /\ \A s \in Streams : loop[s] # "unborn" => owner[s] \in ViewModels
    /\ reported \in [Streams -> 0..MaxPartials]
    /\ \A s \in Streams : late[s] <= reported[s]
    /\ mainQueue \in Seq([vm : ViewModels, stream : Streams, n : 1..MaxPartials])
    /\ live \in [ViewModels -> [stream : Streams \cup {None}, n : 0..MaxPartials]]
    /\ job \in [Jobs -> {"none", "recorder", "decoded", "asked", "ended"}]
    /\ jobOwner \in [Jobs -> ViewModels \cup {None}]
    /\ \A j \in Jobs : job[j] # "none" => jobOwner[j] \in ViewModels
    /\ transcription \in [ViewModels -> Jobs \cup {None}]

\* Every step keeps them: an emission is posted to the owner of its stream.
LEMMA PostedKeeps == ASSUME IInv, PostedOK, [Next]_vars PROVE PostedOK'
<1>1. ASSUME NEW v \in ViewModels, EnterScreen(v) PROVE PostedOK'
  BY <1>1 DEF EnterScreen, PostedOK, streams, jobs
<1>2. ASSUME LeaveScreen PROVE PostedOK'
  <2>1. screen \in ViewModels BY <1>2 DEF LeaveScreen, IInv, StreamTypeOK
  <2>2. /\ ctx' \in BOOLEAN /\ closing' \in ViewModels \cup {None}
        /\ scopes' \subseteq created
    BY <1>2, <2>1 DEF LeaveScreen, OnCleared, PostedOK
  <2> QED BY <1>2, <2>2 DEF LeaveScreen, PostedOK, jobs
<1>3. ASSUME NEW v \in ViewModels, CloseReturns(v) PROVE PostedOK'
  BY <1>3 DEF CloseReturns, PostedOK, streams, jobs
<1>4. ASSUME NEW v \in ViewModels, NEW s \in Streams, StartStreaming(v, s) PROVE PostedOK'
  <2>1. /\ \/ UNCHANGED <<owner, loop>>
           \/ /\ owner' = [owner EXCEPT ![s] = v]
              /\ loop' = [loop EXCEPT ![s] = "listening"]
        /\ crashed' \in BOOLEAN
        /\ UNCHANGED <<ctx, closing, created, scopes, reported, late, mainQueue, live, jobs>>
    BY <1>4 DEF StartStreaming, PostedOK
  <2>2. \A z \in Streams : loop'[z] # "unborn" => owner'[z] \in ViewModels
    BY <2>1 DEF PostedOK, IInv, StreamTypeOK
  <2> QED BY <2>1, <2>2 DEF PostedOK, jobs
<1>5. ASSUME NEW v \in ViewModels, StopStreaming(v) PROVE PostedOK'
  BY <1>5 DEF StopStreaming, PostedOK, jobs
<1>6. ASSUME EmitLive PROVE PostedOK'
  <2>1. /\ Head(mainQueue) \in [vm : ViewModels, stream : Streams, n : 1..MaxPartials]
        /\ Tail(mainQueue) \in Seq([vm : ViewModels, stream : Streams, n : 1..MaxPartials])
    <3> DEFINE E == [vm : ViewModels, stream : Streams, n : 1..MaxPartials]
    <3>1. mainQueue \in Seq(E) /\ mainQueue # <<>> BY <1>6 DEF EmitLive, PostedOK
    <3> HIDE DEF E
    <3>2. Head(mainQueue) \in E /\ Tail(mainQueue) \in Seq(E) BY <3>1
    <3> QED BY <3>2 DEF E
  <2>2. live' \in [ViewModels -> [stream : Streams \cup {None}, n : 0..MaxPartials]]
    BY <1>6, <2>1 DEF EmitLive, PostedOK
  <2>3. /\ mainQueue' = Tail(mainQueue)
        /\ UNCHANGED <<ctx, closing, created, scopes, crashed>>
        /\ UNCHANGED <<owner, loop, late, reported, job, jobOwner, transcription>>
    BY <1>6 DEF EmitLive, screens, streams, jobs
  <2> QED BY <2>1, <2>2, <2>3 DEF PostedOK
<1>7. ASSUME NEW v \in ViewModels, NEW j \in Jobs, StopAndTranscribe(v, j) PROVE PostedOK'
  BY <1>7 DEF StopAndTranscribe, PostedOK, screens, streams
<1>8. ASSUME NEW j \in Jobs, JobStep(j) \/ JobResumes(j) PROVE PostedOK'
  <2>1. /\ \E x \in {"decoded", "asked", "ended"} : job' = [job EXCEPT ![j] = x]
        /\ job[j] # "none"
        /\ transcription' = transcription \/
           \E v \in ViewModels : transcription' = [transcription EXCEPT ![v] = j]
    BY <1>8 DEF JobStep, JobEnters, JobAsks, JobResumes, JobEnds, PostedOK
  <2>2. UNCHANGED <<ctx, closing, created, scopes, crashed, owner, loop, late, reported,
                    mainQueue, live, jobOwner>>
    BY <1>8 DEF JobStep, JobEnters, JobAsks, JobResumes, screens, streams
  <2> QED BY <2>1, <2>2 DEF PostedOK
<1>9. ASSUME NEW s \in Streams, Tick(s) \/ Resume(s) \/ SameText(s) PROVE PostedOK'
  <2>1. /\ \E x \in {"listening", "asked", "resumed", "ended"} :
              loop' = [loop EXCEPT ![s] = x]
        /\ loop[s] # "unborn" /\ crashed' \in BOOLEAN
    BY <1>9 DEF Tick, Resume, SameText, PostedOK
  <2>2. UNCHANGED <<ctx, closing, created, scopes, owner, late, reported,
                    mainQueue, live, job, jobOwner, transcription>>
    BY <1>9 DEF Tick, Resume, SameText, screens, jobs
  <2>3. \A z \in Streams : loop'[z] # "unborn" => owner'[z] \in ViewModels
    BY <2>1, <2>2 DEF PostedOK, IInv, StreamTypeOK
  <2> QED BY <2>1, <2>2, <2>3 DEF PostedOK
<1>10. ASSUME NEW s \in Streams, Report(s) PROVE PostedOK'
  <2>1. /\ owner[s] \in ViewModels /\ reported[s] + 1 \in 1..MaxPartials
        /\ reported' = [reported EXCEPT ![s] = reported[s] + 1]
        /\ loop' = [loop EXCEPT ![s] = "listening"]
        /\ late' = [late EXCEPT ![s] = IF s \in stopped THEN late[s] + 1 ELSE late[s]]
        /\ UNCHANGED <<ctx, closing, created, scopes, owner, live, job, jobOwner,
                       transcription, crashed>>
    BY <1>10 DEF Report, PostedOK, screens, jobs
  <2>2. mainQueue' \in Seq([vm : ViewModels, stream : Streams, n : 1..MaxPartials])
    <3>1. [vm |-> owner[s], stream |-> s, n |-> reported'[s]]
             \in [vm : ViewModels, stream : Streams, n : 1..MaxPartials]
      BY <2>1 DEF PostedOK
    <3> QED BY <1>10, <3>1 DEF Report, PostedOK
  <2>3. \A z \in Streams : loop'[z] # "unborn" => owner'[z] \in ViewModels
    BY <2>1 DEF PostedOK, IInv, StreamTypeOK
  <2>4. \A z \in Streams : late'[z] <= reported'[z]
    BY <2>1 DEF PostedOK, IInv, StreamTypeOK
  <2>5. reported' \in [Streams -> 0..MaxPartials] BY <2>1 DEF PostedOK
  <2> QED BY <2>1, <2>2, <2>3, <2>4, <2>5 DEF PostedOK
<1>11. ASSUME Serve PROVE PostedOK' BY <1>11 DEF Serve, PostedOK, screens, streams, jobs
<1>12. CASE UNCHANGED vars BY <1>12 DEF vars, PostedOK, screens, streams, jobs
<1> QED
  BY <1>1, <1>2, <1>3, <1>4, <1>5, <1>6, <1>7, <1>8, <1>9, <1>10, <1>11, <1>12
     DEF Next, UserStep, MainStep, StreamStep

\* They hold of every behaviour.
LEMMA PostedAlways == Spec => []PostedOK
<1>1. Init => PostedOK
  <2> SUFFICES ASSUME Init PROVE PostedOK OBVIOUS
  <2>1. mainQueue \in Seq([vm : ViewModels, stream : Streams, n : 1..MaxPartials])
    BY DEF Init
  <2>2. live \in [ViewModels -> [stream : Streams \cup {None}, n : 0..MaxPartials]]
    BY DEF Init
  <2>3. /\ ctx \in BOOLEAN /\ crashed \in BOOLEAN /\ closing \in ViewModels \cup {None}
        /\ created \subseteq ViewModels /\ scopes \subseteq created
        /\ transcription \in [ViewModels -> Jobs \cup {None}]
    BY DEF Init
  <2>4. /\ reported \in [Streams -> 0..MaxPartials]
        /\ \A s \in Streams : late[s] <= reported[s] /\ loop[s] = "unborn"
    BY DEF Init
  <2>5. /\ job \in [Jobs -> {"none", "recorder", "decoded", "asked", "ended"}]
        /\ jobOwner \in [Jobs -> ViewModels \cup {None}]
        /\ \A j \in Jobs : job[j] = "none"
    BY DEF Init
  <2> QED BY <2>1, <2>2, <2>3, <2>4, <2>5 DEF PostedOK
<1> QED BY <1>1, PostedKeeps, ATInvariant, PTL DEF Spec

\* The types of the view models, the streams and the jobs, and of what is posted
\* between them.
THEOREM ATTypeCorrect == Spec => []TypeOK
<1>1. IInv /\ PostedOK => TypeOK
  <2> SUFFICES ASSUME IInv, PostedOK PROVE TypeOK OBVIOUS
  <2>1. \A i \in DOMAIN mainQueue :
           mainQueue[i] \in [vm : ViewModels, stream : Streams, n : 1..MaxPartials]
    <3> DEFINE E == [vm : ViewModels, stream : Streams, n : 1..MaxPartials]
    <3>1. mainQueue \in Seq(E) BY DEF PostedOK
    <3> HIDE DEF E
    <3>2. \A i \in DOMAIN mainQueue : mainQueue[i] \in E BY <3>1
    <3> QED BY <3>2 DEF E
  <2>2. late \in [Streams -> 0..MaxPartials]
    BY DEF IInv, StreamTypeOK, PostedOK
  <2> QED BY <2>1, <2>2 DEF IInv, StreamTypeOK, PostedOK, TypeOK
<1> QED BY <1>1, PostedAlways, ATInvariant, PTL

-----------------------------------------------------------------------------
(* The calls of the pipeline and the queue of the service.                 *)

\* Nobody is in a queue twice.
NoneTwice(q) == \A i, k \in 1..Len(q) : q[i] = q[k] => i = k
Members(q) == {q[i] : i \in 1..Len(q)}

\* Who was not in a queue stands at its end, once.
LEMMA Appended ==
    ASSUME NEW S, NEW q \in Seq(S), NEW x \in S, NoneTwice(q), x \notin Members(q)
    PROVE  /\ Append(q, x) \in Seq(S) /\ NoneTwice(Append(q, x))
           /\ Members(Append(q, x)) = Members(q) \cup {x}
<1> DEFINE r == Append(q, x)
<1>1. /\ r \in Seq(S) /\ Len(q) \in Nat /\ Len(r) = Len(q) + 1 /\ r[Len(q) + 1] = x
      /\ \A i \in 1..Len(q) : r[i] = q[i]
  OBVIOUS
<1> HIDE DEF r
<1>2. NoneTwice(r)
  <2> SUFFICES ASSUME NEW i \in 1..Len(r), NEW k \in 1..Len(r), r[i] = r[k] PROVE i = k
    BY DEF NoneTwice
  <2>1. CASE i \in 1..Len(q) /\ k \in 1..Len(q) BY <1>1, <2>1 DEF NoneTwice
  <2>2. CASE i \in 1..Len(q) /\ k = Len(q) + 1 BY <1>1, <2>2 DEF Members
  <2>3. CASE i = Len(q) + 1 /\ k \in 1..Len(q) BY <1>1, <2>3 DEF Members
  <2>4. CASE i = Len(q) + 1 /\ k = Len(q) + 1 BY <2>4
  <2> QED BY <1>1, <2>1, <2>2, <2>3, <2>4
<1>3. Members(r) = Members(q) \cup {x}
  <2>1. \A i \in 1..Len(r) : i \in 1..Len(q) \/ i = Len(q) + 1 BY <1>1
  <2>2. \A i \in 1..Len(q) : i \in 1..Len(r) BY <1>1
  <2>3. Len(q) + 1 \in 1..Len(r) BY <1>1
  <2> QED BY <1>1, <2>1, <2>2, <2>3 DEF Members
<1> QED BY <1>1, <1>2, <1>3 DEF r

\* The head of a queue leaves it, and nobody else does.
LEMMA Removed ==
    ASSUME NEW S, NEW q \in Seq(S), NoneTwice(q), q # <<>>
    PROVE  /\ Tail(q) \in Seq(S) /\ NoneTwice(Tail(q))
           /\ Head(q) \in Members(q) /\ Members(Tail(q)) = Members(q) \ {Head(q)}
<1> DEFINE r == Tail(q)
<1>1. /\ r \in Seq(S) /\ Len(q) \in Nat /\ Len(q) >= 1 /\ Len(r) = Len(q) - 1
      /\ Head(q) = q[1] /\ \A i \in 1..Len(r) : r[i] = q[i + 1]
  OBVIOUS
<1> HIDE DEF r
<1>2. \A i \in 1..Len(r) : i + 1 \in 1..Len(q) /\ i + 1 # 1 BY <1>1
<1>3. \A i \in 1..Len(q) : i # 1 => i - 1 \in 1..Len(r) /\ r[i - 1] = q[i]
  <2> SUFFICES ASSUME NEW i \in 1..Len(q), i # 1
               PROVE  i - 1 \in 1..Len(r) /\ r[i - 1] = q[i]
    OBVIOUS
  <2>1. i - 1 \in 1..Len(r) /\ (i - 1) + 1 = i BY <1>1
  <2> QED BY <1>1, <2>1
<1>4. NoneTwice(r)
  <2> SUFFICES ASSUME NEW i \in 1..Len(r), NEW k \in 1..Len(r), r[i] = r[k] PROVE i = k
    BY DEF NoneTwice
  <2>1. i + 1 = k + 1 BY <1>1, <1>2 DEF NoneTwice
  <2> QED BY <2>1
<1>5. 1 \in 1..Len(q) BY <1>1
<1>6. Members(r) = Members(q) \ {q[1]}
  <2>1. ASSUME NEW i \in 1..Len(r) PROVE r[i] \in Members(q) /\ r[i] # q[1]
    BY <1>1, <1>2, <1>5 DEF Members, NoneTwice
  <2>2. ASSUME NEW i \in 1..Len(q), q[i] # q[1] PROVE q[i] \in Members(r)
    <3>1. i # 1 BY <2>2
    <3> QED BY <1>3, <3>1 DEF Members
  <2> QED BY <2>1, <2>2 DEF Members
<1>7. Head(q) \in Members(q) BY <1>1, <1>5 DEF Members
<1> QED BY <1>1, <1>4, <1>6, <1>7 DEF r

\* A loop or a job is suspended in transcribeData.
InCall(c) == \/ c \in Streams /\ loop[c] = "asked"
             \/ c \in Jobs /\ job[c] = "asked"

\* A coroutine is suspended in transcribeData exactly as long as its call waits
\* for the executor or its answer waits for it, and never both; nobody is in the
\* queue twice; and the closer in it is the one the main thread waits for.
CallsMatch ==
    /\ waiting \in Seq(Callers \cup ViewModels)
    /\ NoneTwice(waiting)
    /\ DOMAIN answer = Callers
    /\ \A c \in Callers :
          /\ InCall(c) <=> c \in Members(waiting) \/ answer[c] # {}
          /\ c \in Members(waiting) => answer[c] = {}
    /\ \A v \in ViewModels : v \in Members(waiting) => closing = v

\* The service's own word for a member of its queue.
LEMMA WaitingIsMember ==
    ASSUME CallsMatch, NEW c PROVE TS!IsWaiting(c) <=> c \in Members(waiting)
<1>1. DOMAIN waiting = 1..Len(waiting) BY DEF CallsMatch
<1> QED BY <1>1 DEF TS!IsWaiting, Members

\* A call is queued once: its caller had neither a call nor an answer there.
LEMMA CallKeeps ==
    ASSUME CallsMatch, NEW c \in Callers, Asks(c), ~InCall(c), InCall(c)', closing' = closing,
           \A d \in Callers : d # c => (InCall(d)' <=> InCall(d))
    PROVE  CallsMatch'
<1>1. /\ waiting' = Append(waiting, c) /\ answer' = answer
      /\ c \notin Members(waiting) /\ answer[c] = {}
  BY WaitingIsMember DEF Asks, TS!Ask
<1>2. /\ waiting' \in Seq(Callers \cup ViewModels) /\ NoneTwice(waiting')
      /\ Members(waiting') = Members(waiting) \cup {c}
  BY <1>1, Appended DEF CallsMatch
<1>3. \A v \in ViewModels : v # c BY DEF Callers
<1> QED BY <1>1, <1>2, <1>3 DEF CallsMatch

\* Who takes an answer is in no call any more.
LEMMA TakeKeeps ==
    ASSUME CallsMatch, NEW c \in Callers, TS!Take(c), ~InCall(c)', closing' = closing,
           \A d \in Callers : d # c => (InCall(d)' <=> InCall(d))
    PROVE  CallsMatch'
<1>1. answer[c] # {} /\ answer' = [answer EXCEPT ![c] = {}] /\ waiting' = waiting
  BY DEF TS!Take
<1>2. c \notin Members(waiting) BY <1>1 DEF CallsMatch
<1> QED BY <1>1, <1>2 DEF CallsMatch

\* A closer is queued while nobody else is: the main thread was free.
LEMMA CloserKeeps ==
    ASSUME CallsMatch, NEW v \in ViewModels, TS!AskToClose(v), closing = None, closing' = v,
           \A d \in Callers : InCall(d)' <=> InCall(d)
    PROVE  CallsMatch'
<1>1. waiting' = Append(waiting, v) /\ answer' = answer /\ v \notin Members(waiting)
  BY WaitingIsMember DEF TS!AskToClose
<1>2. /\ waiting' \in Seq(Callers \cup ViewModels) /\ NoneTwice(waiting')
      /\ Members(waiting') = Members(waiting) \cup {v}
  BY <1>1, Appended DEF CallsMatch
<1>3. v \notin Callers /\ v # None BY DEF Callers
<1>4. \A w \in ViewModels : w \notin Members(waiting) BY DEF CallsMatch
<1> QED BY <1>1, <1>2, <1>3, <1>4 DEF CallsMatch

\* A service turns the oldest call into an answer, or ends the closer's wait.
LEMMA ServiceKeeps ==
    ASSUME CallsMatch, Serve PROVE CallsMatch'
<1>0. /\ closing' = closing /\ \A d \in Callers : InCall(d)' <=> InCall(d)
  BY DEF Serve, screens, streams, jobs, InCall
<1>1. PICK p : /\ waiting # <<>> /\ p = Head(waiting) /\ waiting' = Tail(waiting)
               /\ \/ p \in ViewModels /\ answer' = answer
                  \/ p \in Callers /\ \E a : answer' = [answer EXCEPT ![p] = {a}]
  BY DEF Serve, TS!ServeAny, TS!Serve, TS!Close, TS!ServeNext
<1>2. /\ waiting' \in Seq(Callers \cup ViewModels) /\ NoneTwice(waiting')
      /\ p \in Members(waiting) /\ Members(waiting') = Members(waiting) \ {p}
  BY <1>1, Removed DEF CallsMatch
<1>3. CASE p \in ViewModels /\ answer' = answer
  <2>1. p \notin Callers BY <1>3 DEF Callers
  <2> QED BY <1>0, <1>2, <1>3, <2>1 DEF CallsMatch
<1>4. CASE p \in Callers /\ \E a : answer' = [answer EXCEPT ![p] = {a}]
  <2>1. PICK a : answer' = [answer EXCEPT ![p] = {a}] BY <1>4
  <2>2. DOMAIN answer' = Callers /\ answer'[p] # {}
        /\ \A d \in Callers : d # p => answer'[d] = answer[d]
    BY <1>4, <2>1 DEF CallsMatch
  <2>3. InCall(p) BY <1>2, <1>4 DEF CallsMatch
  <2>4. p \notin Members(waiting') BY <1>2
  <2>5. \A d \in Callers :
           /\ InCall(d)' <=> d \in Members(waiting') \/ answer'[d] # {}
           /\ d \in Members(waiting') => answer'[d] = {}
    <3> TAKE d \in Callers
    <3>1. CASE d = p BY <1>0, <2>2, <2>3, <2>4, <3>1
    <3>2. CASE d # p BY <1>0, <1>2, <2>2, <3>2 DEF CallsMatch
    <3> QED BY <3>1, <3>2
  <2> QED BY <1>0, <1>2, <2>2, <2>5 DEF CallsMatch
<1> QED BY <1>1, <1>3, <1>4

\* Every step keeps them.
LEMMA CallsKeep == ASSUME IInv, PostedOK, CallsMatch, [Next]_vars PROVE CallsMatch'
<1>0. ASSUME UNCHANGED <<waiting, answer>>, closing' = closing,
             \A d \in Callers : InCall(d)' <=> InCall(d)
      PROVE  CallsMatch'
  BY <1>0 DEF CallsMatch
<1>a. ASSUME UNCHANGED <<loop, job>> PROVE \A d \in Callers : InCall(d)' <=> InCall(d)
  BY <1>a DEF InCall
<1>1. ASSUME NEW v \in ViewModels, \/ EnterScreen(v) \/ StopStreaming(v) PROVE CallsMatch'
  BY <1>0, <1>a, <1>1 DEF EnterScreen, StopStreaming, service, streams, jobs
<1>2. ASSUME LeaveScreen PROVE CallsMatch'
  <2>1. /\ screen \in ViewModels /\ closing = None /\ UNCHANGED <<loop, job>>
        /\ \/ TS!AskToClose(screen) /\ closing' = screen
           \/ UNCHANGED <<waiting, answer, closing>>
    BY <1>2 DEF LeaveScreen, MainFree, OnCleared, IInv, StreamTypeOK, service, jobs
  <2> QED BY <1>0, <1>a, <2>1, CloserKeeps
<1>3. ASSUME NEW v \in ViewModels, CloseReturns(v) PROVE CallsMatch'
  <2>1. /\ closing = v /\ v \notin Members(waiting) /\ closing' = None
        /\ UNCHANGED <<waiting, answer, loop, job>>
    BY <1>3, WaitingIsMember DEF CloseReturns, service, streams, jobs
  <2>2. \A w \in ViewModels : w \notin Members(waiting) BY <2>1 DEF CallsMatch
  <2> QED BY <1>a, <2>1, <2>2 DEF CallsMatch
<1>4. ASSUME NEW v \in ViewModels, NEW s \in Streams, StartStreaming(v, s) PROVE CallsMatch'
  <2>1. /\ loop' = loop \/ (loop[s] = "unborn" /\ loop' = [loop EXCEPT ![s] = "listening"])
        /\ UNCHANGED <<waiting, answer, closing, job>>
    BY <1>4 DEF StartStreaming, service, jobs
  <2>2. \A d \in Callers : InCall(d)' <=> InCall(d)
    BY <2>1 DEF InCall, IInv, StreamTypeOK
  <2> QED BY <1>0, <2>1, <2>2
<1>5. ASSUME EmitLive PROVE CallsMatch'
  BY <1>0, <1>a, <1>5 DEF EmitLive, service, screens, streams, jobs
<1>6. ASSUME NEW j \in Jobs, \/ JobEnters(j)
                             \/ \E v \in ViewModels : StopAndTranscribe(v, j)
      PROVE  CallsMatch'
  <2>1. /\ job[j] \in {"none", "recorder"}
        /\ \E x \in {"recorder", "decoded", "ended"} : job' = [job EXCEPT ![j] = x]
        /\ UNCHANGED <<waiting, answer, closing, loop>>
    BY <1>6 DEF JobEnters, JobEnds, StopAndTranscribe, service, screens, streams
  <2>2. \A d \in Callers : InCall(d)' <=> InCall(d)
    BY <2>1 DEF InCall, PostedOK
  <2> QED BY <1>0, <2>1, <2>2
<1>7. ASSUME NEW j \in Jobs, JobAsks(j) PROVE CallsMatch'
  <2>1. /\ j \in Callers /\ Asks(j) /\ job[j] = "decoded" /\ job' = [job EXCEPT ![j] = "asked"]
        /\ UNCHANGED <<closing, loop>>
    BY <1>7 DEF JobAsks, Callers, screens, streams
  <2>2. ~InCall(j) /\ InCall(j)' /\ \A d \in Callers : d # j => (InCall(d)' <=> InCall(d))
    BY <2>1 DEF InCall, PostedOK
  <2> QED BY <2>1, <2>2, CallKeeps
<1>8. ASSUME NEW j \in Jobs, JobResumes(j) PROVE CallsMatch'
  <2>1. /\ j \in Callers /\ TS!Take(j) /\ job' = [job EXCEPT ![j] = "ended"]
        /\ UNCHANGED <<closing, loop>>
    BY <1>8 DEF JobResumes, JobEnds, Callers, screens, streams
  <2>2. ~InCall(j)' /\ \A d \in Callers : d # j => (InCall(d)' <=> InCall(d))
    BY <2>1 DEF InCall, PostedOK
  <2> QED BY <2>1, <2>2, TakeKeeps
<1>9. ASSUME NEW s \in Streams, Tick(s) PROVE CallsMatch'
  <2>1. /\ s \in Callers /\ Asks(s) /\ loop[s] = "listening"
        /\ loop' = [loop EXCEPT ![s] = "asked"]
        /\ UNCHANGED <<closing, job>>
    BY <1>9 DEF Tick, Callers, screens, jobs
  <2>2. ~InCall(s) /\ InCall(s)' /\ \A d \in Callers : d # s => (InCall(d)' <=> InCall(d))
    BY <2>1 DEF InCall, IInv, StreamTypeOK
  <2> QED BY <2>1, <2>2, CallKeeps
<1>10. ASSUME NEW s \in Streams, Resume(s) PROVE CallsMatch'
  <2>1. /\ s \in Callers /\ TS!Take(s)
        /\ \E x \in {"listening", "resumed", "ended"} : loop' = [loop EXCEPT ![s] = x]
        /\ UNCHANGED <<closing, job>>
    BY <1>10 DEF Resume, Callers, screens, jobs
  <2>2. ~InCall(s)' /\ \A d \in Callers : d # s => (InCall(d)' <=> InCall(d))
    BY <2>1 DEF InCall, IInv, StreamTypeOK
  <2> QED BY <2>1, <2>2, TakeKeeps
<1>11. ASSUME NEW s \in Streams, Report(s) \/ SameText(s) PROVE CallsMatch'
  <2>1. /\ loop[s] = "resumed" /\ loop' = [loop EXCEPT ![s] = "listening"]
        /\ UNCHANGED <<waiting, answer, closing, job>>
    BY <1>11 DEF Report, SameText, service, screens, jobs
  <2>2. \A d \in Callers : InCall(d)' <=> InCall(d)
    BY <2>1 DEF InCall, IInv, StreamTypeOK
  <2> QED BY <1>0, <2>1, <2>2
<1>12. ASSUME Serve PROVE CallsMatch' BY <1>12, ServiceKeeps
<1>13. CASE UNCHANGED vars
  BY <1>0, <1>a, <1>13 DEF vars, service, screens, streams, jobs
<1> QED
  BY <1>1, <1>2, <1>3, <1>4, <1>5, <1>6, <1>7, <1>8, <1>9, <1>10, <1>11, <1>12, <1>13
     DEF Next, UserStep, MainStep, StreamStep, JobStep

\* Calls, answers and the queue of the service belong together, for any number
\* of streams and jobs: no call is lost and none is answered twice.
THEOREM ATCallsMatch == Spec => []CallsMatch
<1>1. Init => CallsMatch
  <2> SUFFICES ASSUME Init PROVE CallsMatch OBVIOUS
  <2>1. waiting = <<>> /\ answer = [c \in Callers |-> {}] BY DEF Init, TS!TSInit
  <2>2. Members(waiting) = {} /\ NoneTwice(waiting) BY <2>1 DEF Members, NoneTwice
  <2>3. \A c \in Callers : ~InCall(c) BY DEF Init, InCall
  <2>4. waiting \in Seq(Callers \cup ViewModels) BY <2>1
  <2> QED BY <2>1, <2>2, <2>3, <2>4 DEF CallsMatch
<1> QED BY <1>1, CallsKeep, PostedAlways, ATInvariant, PTL DEF Spec

-----------------------------------------------------------------------------
(* What WorkEnds and CloseGivesBackMain rest on.                           *)

\* How many of its own steps a stopped stream and a job are away from the end.
StreamRank == [unborn |-> 0, resumed |-> 3, listening |-> 2, asked |-> 1, ended |-> 0]
JobRank == [none |-> 0, recorder |-> 3, decoded |-> 2, asked |-> 1, ended |-> 0]

\* A stopped stream is closer to its end after each step of its own, and so is a
\* job; nobody else puts them further away; nobody overtakes a closer, who is
\* waited for until he has been served.
WorkDescends ==
    /\ \A s \in stopped :
          /\ StreamRank[loop'[s]] <= StreamRank[loop[s]]
          /\ StreamStep(s) => StreamRank[loop'[s]] < StreamRank[loop[s]]
    /\ \A j \in Jobs : job[j] # "none" =>
          /\ JobRank[job'[j]] <= JobRank[job[j]]
          /\ JobStep(j) \/ JobResumes(j) => JobRank[job'[j]] < JobRank[job[j]]
    /\ \A i \in 2..Len(waiting) :
          LET k == IF Serve THEN i - 1 ELSE i IN
          k \in 1..Len(waiting') /\ waiting'[k] = waiting[i]
    /\ closing # None /\ closing' # closing => closing' = None /\ ~TS!IsWaiting(closing)

\* Only its own steps move a stopped stream, each of them forward.
LEMMA StreamsDescend ==
    ASSUME IInv, [Next]_vars, NEW s \in stopped
    PROVE  /\ StreamRank[loop'[s]] <= StreamRank[loop[s]]
           /\ StreamStep(s) => StreamRank[loop'[s]] < StreamRank[loop[s]]
<1>0. /\ s \in Streams /\ loop[s] \in {"listening", "asked", "resumed", "ended"}
      /\ DOMAIN loop = Streams
  BY DEF IInv, StreamTypeOK, BornOK
<1>1. CASE StreamStep(s)
  <2>1. \/ loop[s] = "listening" /\ loop'[s] = "asked"
        \/ loop[s] = "asked" /\ loop'[s] = "ended"
        \/ loop[s] = "resumed" /\ loop'[s] = "listening"
    BY <1>0, <1>1 DEF StreamStep, Tick, Resume, Report, SameText
  <2> QED BY <2>1 DEF StreamRank
<1>2. CASE ~StreamStep(s)
  <2>1. loop'[s] = loop[s]
    <3>1. ASSUME NEW z \in Streams, StreamStep(z) PROVE loop'[s] = loop[s]
      <4>1. z # s BY <1>2, <3>1
      <4> QED BY <1>0, <3>1, <4>1 DEF StreamStep, Tick, Resume, Report, SameText
    <3>2. ASSUME NEW v \in ViewModels, NEW z \in Streams, StartStreaming(v, z)
          PROVE  loop'[s] = loop[s]
      BY <1>0, <3>2 DEF StartStreaming
    <3> QED
      BY <3>1, <3>2 DEF Next, UserStep, MainStep, JobStep, Serve, EnterScreen, LeaveScreen,
         CloseReturns, StopStreaming, StopAndTranscribe, JobEnters, JobAsks, JobResumes,
         EmitLive, vars, streams
  <2> QED BY <1>0, <1>2, <2>1 DEF StreamRank
<1> QED BY <1>1, <1>2

\* Only its own steps move a job that was launched, each of them forward.
LEMMA JobsDescend ==
    ASSUME PostedOK, [Next]_vars, NEW j \in Jobs, job[j] # "none"
    PROVE  /\ JobRank[job'[j]] <= JobRank[job[j]]
           /\ JobStep(j) \/ JobResumes(j) => JobRank[job'[j]] < JobRank[job[j]]
<1>0. job[j] \in {"recorder", "decoded", "asked", "ended"} /\ DOMAIN job = Jobs
  BY DEF PostedOK
<1>1. CASE JobStep(j) \/ JobResumes(j)
  <2>1. \/ job[j] = "recorder" /\ job'[j] \in {"decoded", "ended"}
        \/ job[j] = "decoded" /\ job'[j] = "asked"
        \/ job[j] = "asked" /\ job'[j] = "ended"
    BY <1>0, <1>1 DEF JobStep, JobEnters, JobAsks, JobResumes, JobEnds
  <2> QED BY <2>1 DEF JobRank
<1>2. CASE ~(JobStep(j) \/ JobResumes(j))
  <2>1. job'[j] = job[j]
    <3>1. ASSUME NEW z \in Jobs, JobStep(z) \/ JobResumes(z) PROVE job'[j] = job[j]
      <4>1. z # j BY <1>2, <3>1
      <4> QED BY <1>0, <3>1, <4>1 DEF JobStep, JobEnters, JobAsks, JobResumes, JobEnds
    <3>2. ASSUME NEW v \in ViewModels, NEW z \in Jobs, StopAndTranscribe(v, z)
          PROVE  job'[j] = job[j]
      BY <1>0, <3>2 DEF StopAndTranscribe
    <3> QED
      BY <3>1, <3>2 DEF Next, UserStep, MainStep, StreamStep, Serve, EnterScreen,
         LeaveScreen, CloseReturns, StartStreaming, StopStreaming, Tick, Resume, Report,
         SameText, EmitLive, vars, jobs
  <2> QED BY <1>0, <1>2, <2>1 DEF JobRank
<1> QED BY <1>1, <1>2

\* Who is in the queue of the service moves up with each service, and only then.
LEMMA QueueDescends ==
    ASSUME IInv, CallsMatch, [Next]_vars, NEW i \in 2..Len(waiting)
    PROVE  LET k == IF Serve THEN i - 1 ELSE i IN
           k \in 1..Len(waiting') /\ waiting'[k] = waiting[i]
<1>0. waiting \in Seq(Callers \cup ViewModels) BY DEF CallsMatch
<1>1. CASE Serve
  <2>1. waiting # <<>> /\ waiting' = Tail(waiting)
    BY <1>1 DEF Serve, TS!ServeAny, TS!Serve, TS!Close, TS!ServeNext
  <2> QED BY <1>0, <1>1, <2>1
<1>2. CASE ~Serve
  <2>1. waiting' = waiting \/ \E p \in Callers \cup ViewModels : waiting' = Append(waiting, p)
    <3>1. ASSUME NEW c \in Callers, Asks(c) \/ TS!Take(c)
          PROVE  waiting' = waiting \/ waiting' = Append(waiting, c)
      BY <3>1 DEF Asks, TS!Ask, TS!Take
    <3>2. CASE LeaveScreen
      <4>1. screen \in ViewModels BY <3>2 DEF LeaveScreen, IInv, StreamTypeOK
      <4>2. waiting' = waiting \/ waiting' = Append(waiting, screen)
        BY <3>2 DEF LeaveScreen, OnCleared, TS!AskToClose, service
      <4> QED BY <4>1, <4>2
    <3>3. ASSUME NEW s \in Streams, StreamStep(s)
          PROVE  waiting' = waiting \/ waiting' = Append(waiting, s)
      BY <3>1, <3>3 DEF StreamStep, Tick, Resume, Report, SameText, Callers, service
    <3>4. ASSUME NEW j \in Jobs, JobStep(j) \/ JobResumes(j)
          PROVE  waiting' = waiting \/ waiting' = Append(waiting, j)
      BY <3>1, <3>4 DEF JobStep, JobEnters, JobAsks, JobResumes, Callers, service
    <3>5. ASSUME NEW v \in ViewModels,
                 \/ EnterScreen(v) \/ StopStreaming(v) \/ CloseReturns(v)
                 \/ \E s \in Streams : StartStreaming(v, s)
                 \/ \E j \in Jobs : StopAndTranscribe(v, j)
          PROVE  waiting' = waiting
      BY <3>5 DEF EnterScreen, StopStreaming, CloseReturns, StartStreaming,
                  StopAndTranscribe, service
    <3>6. CASE EmitLive \/ UNCHANGED vars BY <3>6 DEF EmitLive, vars, service
    <3> QED BY <1>2, <3>2, <3>3, <3>4, <3>5, <3>6 DEF Next, UserStep, MainStep, Callers
  <2>2. CASE waiting' = waiting BY <1>0, <1>2, <2>2
  <2>3. ASSUME NEW p \in Callers \cup ViewModels, waiting' = Append(waiting, p)
        PROVE  i \in 1..Len(waiting') /\ waiting'[i] = waiting[i]
    BY <1>0, <2>3
  <2> QED BY <1>2, <2>1, <2>2, <2>3
<1> QED BY <1>1, <1>2

\* The safety core of WorkEnds and CloseGivesBackMain, for any number of streams,
\* jobs and view models.  A stopped stream has at most three steps left (if MaxPartials > 0,
\* it can take each), of which only the last one waits, for a call that by ATCallsMatch is queued or answered;
\* a queued call moves up with every service and is not overtaken.
THEOREM ATWorkDescends == Spec => [][WorkDescends]_vars
<1>1. IInv /\ PostedOK /\ CallsMatch /\ [Next]_vars => WorkDescends
  <2> SUFFICES ASSUME IInv, PostedOK, CallsMatch, [Next]_vars PROVE WorkDescends OBVIOUS
  <2>1. closing # None /\ closing' # closing => closing' = None /\ ~TS!IsWaiting(closing)
    <3> SUFFICES ASSUME closing # None, closing' # closing
                 PROVE  closing' = None /\ ~TS!IsWaiting(closing)
      OBVIOUS
    <3>1. \E v \in ViewModels : CloseReturns(v)
      BY DEF Next, UserStep, MainStep, JobStep, StreamStep, Serve, EnterScreen, LeaveScreen,
             StartStreaming, StopStreaming, StopAndTranscribe, JobEnters, JobAsks,
             JobResumes, Tick, Resume, Report, SameText, EmitLive, MainFree, vars, screens
    <3> QED BY <3>1 DEF CloseReturns
  <2>2. \A i \in 2..Len(waiting) :
           LET k == IF Serve THEN i - 1 ELSE i IN
           k \in 1..Len(waiting') /\ waiting'[k] = waiting[i]
    BY QueueDescends
  <2> QED BY <2>1, <2>2, StreamsDescend, JobsDescend DEF WorkDescends
<1>2. WorkDescends => [WorkDescends]_vars OBVIOUS
<1> QED BY <1>1, <1>2, ATInvariant, PostedAlways, ATCallsMatch, PTL DEF Spec

=============================================================================
