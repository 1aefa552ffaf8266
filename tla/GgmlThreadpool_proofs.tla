------------------------ MODULE GgmlThreadpool_proofs ------------------------
(***************************************************************************)
(* Theorems about GgmlThreadpool, for pools of any size, any graphs and    *)
(* any number of them.                                                     *)
(***************************************************************************)
EXTENDS GgmlThreadpool, FiniteSets, FiniteSetTheorems, TLAPS

-----------------------------------------------------------------------------
(* The inductive invariant.                                                *)

Width == Least(plan, n_threads_max)

\* The caller, the mutex and the life of the pool.
PoolInv ==
    /\ locked <=> pc[0] \in {"announce", "broadcast", "unpause"}
    /\ pool = "none" => pc[0] = "idle" /\ \A t \in Workers : pc[t] = "none"
    /\ \A t \in asleep : pc[t] \in {"top", "lock"}
    /\ pool # "none" => n_threads_cur \in {n_threads_max, Width} /\ n_threads_max > 0
    /\ stop /\ pool # "none" => pc[0] \in {"unpause", "join"}
    /\ pc[0] \in {"unpause", "join"} => stop
    /\ pc[0] = "join" => ~pause
    /\ pool # "none" /\ n_threads_cur # Width =>
        n_graph = 0 /\ pc[0] \in {"idle", "kickoff", "unpause", "join"}
    /\ n_graph = 0 /\ pool # "none" =>
        /\ pc[0] \in {"idle", "kickoff", "announce", "unpause", "join"}
        /\ \A t \in Workers : pc[t] \in WaitPcs \ {"active"} /\ last_graph[t] = 0

\* A member of the team that has a graph to compute.
Called(t) == IF t = 0 THEN pc[0] = "broadcast" ELSE ~Busy(t) /\ last_graph[t] # n_graph
Working(t) == Busy(t) \/ Called(t)

\* The phase of the graph that a working thread is in: a node, and 1 in the
\* chunks of a matrix product.
LastPhase(k) == <<k, IF IsMatMul(k) THEN 1 ELSE 0>>
EndPhase ==
    IF ec = "ABORTED" /\ abort < Len(cgraph) THEN <<abort, 0>>
    ELSE IF Len(cgraph) = 0 THEN <<0, 0>>
    ELSE LastPhase(Len(cgraph) - 1)
Released(t) == pc[t] = "spin" /\ n_passed[t] # n_barrier_passed
NextPhase(k) == IF k > 0 /\ k = Len(cgraph) THEN LastPhase(k - 1) ELSE <<k, 0>>
Phase(t) ==
    IF Called(t) \/ pc[t] = "enter" THEN <<0, 0>>
    ELSE IF pc[t] = "next" THEN NextPhase(node[t])
    ELSE IF pc[t] \in {"chunk", "grab"} THEN <<node[t], 1>>
    ELSE IF pc[t] = "computed" THEN LastPhase(node[t])
    ELSE IF Released(t) THEN <<node[t], IF after[t] = "chunk" THEN 1 ELSE 0>>
    ELSE IF after[t] = "chunk" THEN <<node[t], 0>>
    ELSE IF after[t] = "next" THEN LastPhase(node[t] - 1)
    ELSE EndPhase

\* The team computes a graph together or not at all, and in the same phase.
WorkInv ==
    /\ \A t, u \in Team : Working(t) => Working(u)
    /\ \A t, u \in Team : Working(t) => Phase(t) = Phase(u)

\* The node that a busy thread is at, for the place it is at.
PlaceInv(t) ==
    /\ pc[t] = "enter" \/ node[t] <= Len(cgraph)
    /\ pc[t] \in {"chunk", "grab", "computed"} => node[t] < Len(cgraph)
    /\ pc[t] \in {"chunk", "grab"} => IsMatMul(node[t])
    /\ pc[t] \in BarrierPcs /\ after[t] = "chunk" => node[t] < Len(cgraph) /\ IsMatMul(node[t])
    /\ pc[t] \in BarrierPcs /\ after[t] = "next" => node[t] > 0 /\ node[t] < Len(cgraph)

\* What a thread of the team knows of the graph, wherever it is in it.
ThreadInv ==
    /\ \A t \in Workers : t \notin Team => pc[t] \in WaitPcs
    /\ pool # "none" => 0 \in Team
    /\ \A t \in Workers : Busy(t) => last_graph[t] = n_graph
    /\ \A t \in Team \ {0} : pc[t] = "active" => new_graph[t] = n_graph /\ last_graph[t] # n_graph
    /\ \A t \in Threads : Busy(t) => PlaceInv(t)
    /\ \A t \in Threads : pc[t] \in BarrierPcs => after[t] # (IF t = 0 THEN "top" ELSE "return")

NotBeyond(t) ==
    /\ pc[t] = "enter" \/ node[t] <= abort
    /\ pc[t] \in {"chunk", "grab", "computed"} \/ (pc[t] \in BarrierPcs /\ after[t] = "chunk")
        => node[t] < abort

\* An aborted graph: thread 0 has stopped at node `abort` and nobody is beyond.
AbortInv ==
    /\ ec = "SUCCESS" => abort = -1
    /\ ec = "ABORTED" =>
        /\ abort \in 1..Len(cgraph)
        /\ \/ pc[0] \in CallerPcs \ {"kickoff", "announce", "broadcast"}
           \/ pc[0] = "next" /\ node[0] = abort
           \/ pc[0] \in BarrierPcs /\ (after[0] = "return" \/ (after[0] = "next" /\ node[0] = abort))
        /\ \A t \in Team : Busy(t) => NotBeyond(t)

\* ggml_barrier: the threads that have arrived at the barrier that is closed.
Ahead == {t \in Team : arrived[t] = n_barrier_passed + 1}
BarrierInv ==
    /\ \A t \in Team : arrived[t] \in {n_barrier_passed, n_barrier_passed + 1}
    /\ \A t \in Threads : pc[t] = "arrive" =>
        n_passed[t] = n_barrier_passed /\ arrived[t] = n_barrier_passed
    /\ \A t \in Threads : pc[t] = "spin" =>
        IF Released(t) THEN arrived[t] = n_barrier_passed ELSE arrived[t] = n_barrier_passed + 1
    /\ \A t \in Ahead : pc[t] \in {"spin", "last", "release"}
    /\ \A t \in Threads : pc[t] \in {"last", "release"} => Ahead = Team /\ t \in Team
    /\ \A t, u \in Threads : pc[t] \in {"last", "release"} /\ pc[u] \in {"last", "release"} => t = u
    /\ n_barrier = IF \E t \in Threads : pc[t] = "release" THEN 0 ELSE Cardinality(Ahead)
    /\ (\A t \in Threads : pc[t] \notin {"last", "release"}) /\ Team # {} => Ahead # Team

IInv == TypeOK /\ PoolInv /\ WorkInv /\ ThreadInv /\ AbortInv /\ BarrierInv

-----------------------------------------------------------------------------
(* Type correctness.                                                       *)

USE NThreadsAssumption, PlansAssumption, GraphsAssumption, MaxGraphsAssumption

AllPcs == CallerPcs \cup WaitPcs \cup ComputePcs \cup BarrierPcs

LEMMA InitType == Init => TypeOK
<1> SUFFICES ASSUME Init PROVE TypeOK OBVIOUS
<1> USE DEF Init
<1>1. PcTypeOK BY DEF PcTypeOK, Threads, Workers, CallerPcs, WaitPcs
<1>2. cgraph \in Seq(Nat) OBVIOUS
<1> QED BY <1>1, <1>2 DEF TypeOK, Threads

\* A thread goes to a place of its own kind.
LEMMA GotoType ==
    ASSUME PcTypeOK, NEW t \in Threads, NEW where \in AllPcs, pc' = [pc EXCEPT ![t] = where],
           t = 0 => where \notin WaitPcs, t # 0 => where \notin CallerPcs
    PROVE  PcTypeOK'
<1> DEFINE S == AllPcs
<1>0. pc \in [Threads -> S] BY DEF PcTypeOK, AllPcs
<1> HIDE DEF S
<1>1. pc' \in [Threads -> S] BY <1>0 DEF S
<1>2. pc'[0] \notin WaitPcs BY <1>0 DEF PcTypeOK, Threads
<1>3. \A u \in Workers : pc'[u] \notin CallerPcs BY <1>0 DEF PcTypeOK, Threads, Workers
<1> QED BY <1>1, <1>2, <1>3 DEF PcTypeOK, AllPcs, S

LEMMA ZeroIsThread == 0 \in Threads /\ \A t \in Workers : t \in Threads /\ t # 0
BY DEF Threads, Workers

\* The caller goes to one of its own places.
LEMMA CallerGotoType ==
    ASSUME PcTypeOK, NEW where \in CallerPcs \cup {"enter"}, pc' = [pc EXCEPT ![0] = where]
    PROVE  PcTypeOK'
BY GotoType, ZeroIsThread DEF AllPcs, CallerPcs, WaitPcs, ComputePcs

\* A new pool is well formed.
LEMMA NewImplType ==
    ASSUME TypeOK, NEW n \in 1..NThreads, NEW g \in Seq(Nat), NEW paused \in BOOLEAN,
           NEW callerPc \in {"idle", "kickoff"}, NewImpl(n, g, paused, callerPc),
           pool' \in {"disposable", "persistent"}, submitted' \in 0..MaxGraphs
    PROVE  TypeOK'
<1> USE DEF NewImpl
<1>1. PcTypeOK' BY DEF PcTypeOK, Threads, Workers, CallerPcs, WaitPcs
<1>2. /\ n_threads_max' \in 0..NThreads /\ n_threads_cur' \in 0..n_threads_max'
      /\ n_graph' \in Nat /\ n_barrier' \in Nat /\ n_barrier_passed' \in Nat
      /\ current_chunk' \in Nat /\ abort' \in Int
  OBVIOUS
<1>3. arrived' \in [Threads -> Nat] /\ last_graph' \in [Threads -> Nat] OBVIOUS
<1>4. asleep' \subseteq Workers /\ plan' \in Plans BY DEF TypeOK
<1>5. /\ node' \in [Threads -> Nat] /\ nth' \in [Threads -> Nat] /\ chunk' \in [Threads -> Nat]
      /\ n_passed' \in [Threads -> Nat] /\ new_graph' \in [Threads -> Nat]
      /\ after' \in [Threads -> {"next", "chunk", "return", "top"}]
  BY DEF TypeOK
<1>6. stop' \in BOOLEAN /\ pause' \in BOOLEAN /\ locked' \in BOOLEAN BY DEF TypeOK
<1> QED BY <1>1, <1>2, <1>3, <1>4, <1>5, <1>6 DEF TypeOK

LEMMA CallsType == TypeOK /\ Calls => TypeOK'
<1> SUFFICES ASSUME TypeOK, Calls PROVE TypeOK' OBVIOUS
<1>1. ASSUME NEW paused \in BOOLEAN, ThreadpoolNew(paused) PROVE TypeOK'
  <2>1. pool' = "persistent" /\ submitted' \in 0..MaxGraphs /\ <<>> \in Seq(Nat)
    BY <1>1 DEF ThreadpoolNew, TypeOK
  <2>2. NewImpl(NThreads, <<>>, paused, "idle") BY <1>1 DEF ThreadpoolNew
  <2>3. NThreads \in 1..NThreads OBVIOUS
  <2> QED BY <2>1, <2>2, <2>3, NewImplType
<1>2. ASSUME NEW g \in Graphs, GraphComputeDisposable(g) PROVE TypeOK'
  <2>1. pool' = "disposable" /\ submitted' \in 0..MaxGraphs /\ g \in Seq(Nat)
    BY <1>2 DEF GraphComputeDisposable, TypeOK
  <2>2. NewImpl(plan, g, FALSE, "kickoff") BY <1>2 DEF GraphComputeDisposable
  <2>3. plan \in 1..NThreads BY <1>2 DEF GraphComputeDisposable, TypeOK
  <2> QED BY <2>1, <2>2, <2>3, NewImplType
<1>3. ASSUME NEW g \in Graphs, GraphCompute(g) PROVE TypeOK'
  <2>1. g \in Seq(Nat) OBVIOUS
  <2>2. PcTypeOK' BY <1>3, CallerGotoType DEF GraphCompute, TypeOK, CallerPcs
  <2> QED BY <1>3, <2>1, <2>2 DEF TypeOK, GraphCompute, shared, barrier, waiting
<1>4. ASSUME Pause \/ Resume PROVE TypeOK'
  <2>1. PcTypeOK' BY <1>4 DEF Pause, Resume, TypeOK, PcTypeOK
  <2> QED BY <1>4, <2>1 DEF TypeOK, Pause, Resume, caller, result, barrier, work
<1>5. ASSUME ThreadpoolFree PROVE TypeOK'
  <2>1. PcTypeOK' BY <1>5, CallerGotoType DEF ThreadpoolFree, TypeOK, CallerPcs
  <2> QED BY <1>5, <2>1 DEF TypeOK, ThreadpoolFree, caller, result, barrier, waiting, work
<1> QED BY <1>1, <1>2, <1>3, <1>4, <1>5 DEF Calls

LEMMA InCallType == TypeOK /\ InCall => TypeOK'
<1> SUFFICES ASSUME TypeOK, InCall PROVE TypeOK' OBVIOUS
<1>0. PcTypeOK'
  <2>1. PcTypeOK BY DEF TypeOK
  <2>2. ASSUME Join PROVE PcTypeOK'
    BY <2>2 DEF Join, PcTypeOK, Threads, Workers, CallerPcs, WaitPcs
  <2>3. CASE Kickoff BY <2>1, <2>3, CallerGotoType DEF Kickoff, CallerPcs
  <2>4. CASE Announce BY <2>1, <2>4, CallerGotoType DEF Announce, CallerPcs
  <2>5. CASE Broadcast BY <2>1, <2>5, CallerGotoType DEF Broadcast
  <2>6. CASE Returned BY <2>1, <2>6, CallerGotoType DEF Returned, CallerPcs
  <2>7. CASE FreeBroadcast BY <2>1, <2>7, CallerGotoType DEF FreeBroadcast, CallerPcs
  <2> QED BY <2>2, <2>3, <2>4, <2>5, <2>6, <2>7 DEF InCall
<1> USE <1>0 DEF TypeOK, caller, shared, result, barrier, waiting, work
<1>1. CASE Kickoff BY <1>1 DEF Kickoff, Least
<1>2. CASE Announce BY <1>2 DEF Announce
<1>3. CASE Broadcast BY <1>3 DEF Broadcast
<1>4. CASE Returned BY <1>4 DEF Returned
<1>5. CASE FreeBroadcast BY <1>5 DEF FreeBroadcast
<1>6. CASE Join BY <1>6 DEF Join
<1> QED BY <1>1, <1>2, <1>3, <1>4, <1>5, <1>6 DEF InCall

LEMMA WaitType == ASSUME TypeOK, NEW t \in Workers, Wait(t) PROVE TypeOK'
<1>0. PcTypeOK'
  <2>1. PcTypeOK /\ t \in Threads /\ t # 0 BY ZeroIsThread DEF TypeOK
  <2>2. PICK where \in WaitPcs \cup {"enter"} : pc' = [pc EXCEPT ![t] = where]
    <3>1. CASE UNCHANGED pc
      <4>1. pc = [pc EXCEPT ![t] = pc[t]] BY <2>1 DEF PcTypeOK
      <4>2. pc[t] \in WaitPcs
        BY <3>1 DEF Wait, Goto, Top, PauseWait, StopCheck, PollForWork, ReadyFlags, ReadyGraph,
                    ReadyActive, PollAgain, PollEnds, CheckForWork, WaitPcs
      <4> QED BY <3>1, <4>1, <4>2
    <3> USE DEF Goto, WaitPcs
    <3>2. CASE Top(t) \/ StopCheck(t) \/ PollForWork(t) \/ ReadyFlags(t)
      BY <3>2 DEF Top, StopCheck, PollForWork, ReadyFlags
    <3>3. CASE PauseWait(t) \/ PollAgain(t) \/ PollEnds(t) \/ ReadyGraph(t)
      BY <3>3 DEF PauseWait, PollAgain, PollEnds, ReadyGraph
    <3>4. CASE ReadyActive(t) BY <3>4 DEF ReadyActive
    <3>5. CASE CheckForWork(t) BY <3>1, <3>5 DEF CheckForWork
    <3> QED BY <3>2, <3>3, <3>4, <3>5 DEF Wait
  <2> QED BY <2>1, <2>2, GotoType DEF AllPcs, CallerPcs, WaitPcs, ComputePcs
<1> USE <1>0 DEF TypeOK, Goto, Workers, caller, shared, result, barrier, waiting, work
<1>1. CASE Top(t) \/ StopCheck(t) \/ PollForWork(t) \/ ReadyFlags(t)
  BY <1>1 DEF Top, StopCheck, PollForWork, ReadyFlags
<1>2. CASE PauseWait(t) \/ PollAgain(t) \/ PollEnds(t)
  BY <1>2 DEF PauseWait, PollAgain, PollEnds
<1>3. CASE ReadyGraph(t) BY <1>3 DEF ReadyGraph
<1>4. CASE ReadyActive(t) BY <1>4 DEF ReadyActive
<1>5. CASE CheckForWork(t)
  <2>1. asleep' \subseteq Workers BY <1>5 DEF CheckForWork
  <2>2. last_graph' \in [Threads -> Nat] BY <1>5 DEF CheckForWork
  <2> QED BY <1>5, <2>1, <2>2 DEF CheckForWork
<1> QED BY <1>1, <1>2, <1>3, <1>4, <1>5 DEF Wait

\* Inside a graph every thread stays at the places of the computation, or
\* goes where its last barrier lets it.
LEMMA ComputeGoto ==
    ASSUME NEW t \in Threads, Compute(t)
    PROVE  \E where \in ComputePcs \cup {"barrier"} : pc' = [pc EXCEPT ![t] = where]
<1> USE DEF Goto, ComputePcs, BarrierPcs
<1>1. CASE Enter(t) BY <1>1 DEF Enter
<1>2. CASE Share(t) BY <1>2 DEF Share
<1>3. CASE ComputeChunk(t) BY <1>3 DEF ComputeChunk
<1>4. CASE GrabChunk(t) BY <1>4 DEF GrabChunk
<1>5. CASE NoMoreChunks(t) BY <1>5 DEF NoMoreChunks
<1>6. CASE NodeDone(t) BY <1>6 DEF NodeDone
<1>7. CASE Leave(t) BY <1>7 DEF Leave
<1> QED BY <1>1, <1>2, <1>3, <1>4, <1>5, <1>6, <1>7 DEF Compute

LEMMA ComputeType == ASSUME TypeOK, NEW t \in Threads, Compute(t) PROVE TypeOK'
<1>0. PcTypeOK'
  BY ComputeGoto, GotoType DEF TypeOK, AllPcs, CallerPcs, WaitPcs, ComputePcs, BarrierPcs
<1> USE <1>0 DEF TypeOK, Goto, caller, shared, result, barrier, waiting, work
<1>1. CASE Enter(t) BY <1>1 DEF Enter
<1>2. CASE Share(t)
  <2>1. current_chunk' \in Nat BY <1>2 DEF Share
  <2>0. t \in Nat BY DEF Threads
  <2>2. chunk' \in [Threads -> Nat]
    <3>1. chunk' = [chunk EXCEPT ![t] = t] \/ chunk' = chunk BY <1>2 DEF Share
    <3> QED BY <2>0, <3>1
  <2>3. after' \in [Threads -> {"next", "chunk", "return", "top"}] BY <1>2 DEF Share
  <2> QED BY <1>2, <2>1, <2>2, <2>3 DEF Share
<1>3. CASE ComputeChunk(t) BY <1>3 DEF ComputeChunk
<1>4. CASE GrabChunk(t) BY <1>4 DEF GrabChunk
<1>5. CASE NoMoreChunks(t) BY <1>5 DEF NoMoreChunks
<1>6. CASE NodeDone(t)
  <2>1. abort' \in Int /\ ec' \in {"SUCCESS", "ABORTED"} BY <1>6 DEF NodeDone
  <2>2. node' \in [Threads -> Nat] /\ chunk' \in [Threads -> Nat] BY <1>6 DEF NodeDone
  <2>3. after' \in [Threads -> {"next", "chunk", "return", "top"}] BY <1>6 DEF NodeDone
  <2> QED BY <1>6, <2>1, <2>2, <2>3 DEF NodeDone
<1>7. CASE Leave(t) BY <1>7 DEF Leave
<1> QED BY <1>1, <1>2, <1>3, <1>4, <1>5, <1>6, <1>7 DEF Compute

LEMMA BarrierType == ASSUME TypeOK, ThreadInv, NEW t \in Threads, Barrier(t) PROVE TypeOK'
<1>0. PcTypeOK'
  <2>1. pc[t] \in BarrierPcs => after[t] # (IF t = 0 THEN "top" ELSE "return")
    BY DEF ThreadInv
  <2>2. after[t] \in {"next", "chunk", "return", "top"} BY DEF TypeOK
  <2>3. PICK where \in BarrierPcs \cup {"next", "chunk", IF t = 0 THEN "return" ELSE "top"} :
            pc' = [pc EXCEPT ![t] = where]
    BY <2>1, <2>2 DEF Barrier, Goto, EnterBarrier, Arrive, ResetBarrier, ReleaseBarrier, Spin,
                      BarrierPcs
  <2> QED BY <2>3, GotoType DEF TypeOK, AllPcs, CallerPcs, WaitPcs, ComputePcs, BarrierPcs
<1> USE <1>0 DEF TypeOK, Goto, caller, shared, result, barrier, waiting, work
<1>1. CASE EnterBarrier(t) BY <1>1 DEF EnterBarrier
<1>2. CASE Arrive(t) BY <1>2 DEF Arrive
<1>3. CASE ResetBarrier(t) BY <1>3 DEF ResetBarrier
<1>4. CASE ReleaseBarrier(t) BY <1>4 DEF ReleaseBarrier
<1>5. CASE Spin(t) BY <1>5 DEF Spin
<1> QED BY <1>1, <1>2, <1>3, <1>4, <1>5 DEF Barrier

-----------------------------------------------------------------------------
(* What a step leaves alone.                                               *)

\* A thread whose own state and graph are unchanged is where it was.
LEMMA PhaseFrame ==
    ASSUME NEW u \in Threads,
           pc'[u] = pc[u], node'[u] = node[u], after'[u] = after[u], n_passed'[u] = n_passed[u],
           last_graph'[u] = last_graph[u],
           UNCHANGED <<n_barrier_passed, cgraph, ec, abort, n_graph>>
    PROVE  /\ Busy(u)' <=> Busy(u)
           /\ Working(u)' <=> Working(u)
           /\ Phase(u)' = Phase(u)
           /\ PlaceInv(u)' <=> PlaceInv(u)
           /\ NotBeyond(u)' <=> NotBeyond(u)
<1>1. Busy(u)' <=> Busy(u) BY DEF Busy
<1>2. Called(u)' <=> Called(u) BY <1>1 DEF Called
<1>3. Working(u)' <=> Working(u) BY <1>1, <1>2 DEF Working
<1>4. Released(u)' <=> Released(u) BY DEF Released
<1>5. EndPhase' = EndPhase BY DEF EndPhase, LastPhase, IsMatMul
<1>6. Phase(u)' = Phase(u) BY <1>2, <1>4, <1>5 DEF Phase, NextPhase, LastPhase, IsMatMul
<1>7. PlaceInv(u)' <=> PlaceInv(u) BY DEF PlaceInv, IsMatMul
<1>8. NotBeyond(u)' <=> NotBeyond(u) BY DEF NotBeyond
<1> QED BY <1>1, <1>3, <1>6, <1>7, <1>8

\* A step inside a phase: every member of the team works as before, in the
\* same phase.
Steady ==
    \A u \in Team : (Working(u)' <=> Working(u)) /\ (Working(u) => Phase(u)' = Phase(u))

\* The team stays together when every member works as before, in the same phase.
LEMMA WorkFrame ==
    ASSUME WorkInv, Team' = Team,
           \A u \in Team : Working(u)' <=> Working(u),
           \A u \in Team : Working(u) => Phase(u)' = Phase(u)
    PROVE  WorkInv'
BY DEF WorkInv

\* The barrier is not touched by a step that leaves its threads where they are.
LEMMA BarrierFrame ==
    ASSUME BarrierInv, Team' = Team, UNCHANGED barrier,
           \A u \in Threads : (pc[u] \in {"arrive", "spin", "last", "release"} \/
                               pc'[u] \in {"arrive", "spin", "last", "release"}) => pc'[u] = pc[u]
    PROVE  BarrierInv'
<1>1. Ahead' = Ahead BY DEF Ahead, barrier
<1>2. \A u \in Threads : Released(u)' <=> Released(u) BY DEF Released, barrier
<1>3. (\E t \in Threads : pc'[t] = "release") <=> (\E t \in Threads : pc[t] = "release")
  OBVIOUS
<1>4. Ahead \subseteq Threads BY DEF Ahead, Team
<1> QED BY <1>1, <1>2, <1>3, <1>4 DEF BarrierInv, barrier

\* The team is an interval, and thread 0 is in it while there is a pool.
LEMMA TeamFacts ==
    ASSUME TypeOK
    PROVE  /\ Team \subseteq Threads
           /\ IsFiniteSet(Team) /\ Cardinality(Team) = n_threads_cur
<1>1. n_threads_cur \in 0..NThreads BY DEF TypeOK
<1>2. Team = 0..(n_threads_cur - 1) BY <1>1 DEF Team, Threads
<1>3. IsFiniteSet(Team) /\ Cardinality(Team) = n_threads_cur
  BY <1>1, <1>2, FS_Interval
<1> QED BY <1>3 DEF Team

\* A thread that is not waiting for a graph is in the team of one.
LEMMA ComputingFacts ==
    ASSUME IInv, NEW t \in Threads, pc[t] \in ComputePcs \cup BarrierPcs
    PROVE  /\ pool # "none" /\ n_graph # 0 /\ n_threads_cur = Width
           /\ t \in Team /\ 0 \in Team
           /\ pc[t] \notin WaitPcs /\ pc[t] \notin CallerPcs
<1>1. pc[t] \notin WaitPcs /\ pc[t] \notin CallerPcs
  BY DEF WaitPcs, CallerPcs, ComputePcs, BarrierPcs
<1>2. pool # "none"
  BY <1>1 DEF IInv, PoolInv, Workers, CallerPcs, WaitPcs
<1>3. n_graph # 0
  BY <1>1, <1>2 DEF IInv, PoolInv, Workers, CallerPcs, WaitPcs
<1>4. n_threads_cur = Width BY <1>2, <1>3 DEF IInv, PoolInv
<1>5. 0 \in Team /\ t \in Team BY <1>1, <1>2 DEF IInv, ThreadInv, Workers
<1> QED BY <1>1, <1>2, <1>3, <1>4, <1>5

\* A busy thread has been called before.
LEMMA BusyFacts ==
    ASSUME IInv, NEW t \in Threads, Busy(t)
    PROVE  pc[t] \in ComputePcs \cup BarrierPcs /\ ~Called(t) /\ Working(t) /\ PlaceInv(t)
<1>1. pc[t] \in ComputePcs \cup BarrierPcs BY DEF Busy, BarrierPcs
<1>2. ~Called(t) BY <1>1 DEF Called, ComputePcs, BarrierPcs
<1>3. Working(t) BY DEF Working
<1>4. PlaceInv(t) BY DEF IInv, ThreadInv
<1> QED BY <1>1, <1>2, <1>3, <1>4

\* A busy thread moves on inside its phase, and the others stay where they are.
LEMMA InPhase ==
    ASSUME IInv, NEW t \in Threads, NEW where \in ComputePcs \cup BarrierPcs,
           Busy(t), pc' = [pc EXCEPT ![t] = where],
           UNCHANGED <<caller, shared, waiting, cgraph, locked>>,
           \A u \in Threads \ {t} :
              /\ Busy(u)' <=> Busy(u)
              /\ Working(u)' <=> Working(u)
              /\ Working(u) => Phase(u)' = Phase(u)
              /\ PlaceInv(u)' <=> PlaceInv(u)
              /\ after'[u] = after[u],
           Busy(t)', PlaceInv(t)', Phase(t)' = Phase(t),
           where \in BarrierPcs => after'[t] # (IF t = 0 THEN "top" ELSE "return")
    PROVE  PoolInv' /\ WorkInv' /\ ThreadInv'
<1>1. /\ pool # "none" /\ n_graph # 0 /\ n_threads_cur = Width /\ t \in Team
      /\ pc[t] \notin WaitPcs /\ pc[t] \notin CallerPcs
  BY BusyFacts, ComputingFacts
<1>2. pc \in [Threads -> AllPcs] BY DEF IInv, TypeOK, PcTypeOK, AllPcs
<1>3. pc'[t] = where /\ \A u \in Threads \ {t} : pc'[u] = pc[u] BY <1>2
<1>4. where \notin WaitPcs /\ where \notin CallerPcs
  BY DEF WaitPcs, CallerPcs, ComputePcs, BarrierPcs
<1>5. Team' = Team /\ Width' = Width BY DEF Team, Width, shared, caller
<1>6. PoolInv'
  <2>1. locked' <=> pc'[0] \in {"announce", "broadcast", "unpause"}
    BY <1>1, <1>3, <1>4 DEF IInv, PoolInv, CallerPcs, Threads
  <2>2. pc'[0] \in {"unpause", "join"} <=> pc[0] \in {"unpause", "join"}
    BY <1>1, <1>3, <1>4 DEF CallerPcs, Threads
  <2>3. pc'[0] = "join" <=> pc[0] = "join" BY <1>1, <1>3, <1>4 DEF CallerPcs, Threads
  <2>4. \A u \in asleep' : pc'[u] \in {"top", "lock"}
    BY <1>1, <1>3 DEF IInv, PoolInv, TypeOK, Workers, waiting, WaitPcs
  <2> QED BY <1>1, <1>5, <2>1, <2>2, <2>3, <2>4 DEF IInv, PoolInv, shared, caller, waiting
<1>7. WorkInv'
  <2>1. Working(t) /\ Working(t)' BY BusyFacts DEF Working
  <2>2. Team \subseteq Threads BY DEF Team
  <2>3. \A u \in Team : (Working(u)' <=> Working(u)) /\ (Working(u) => Phase(u)' = Phase(u))
    BY <2>1, <2>2
  <2> QED BY <1>5, <2>3, WorkFrame DEF IInv
<1>8. ThreadInv'
  <2>1. \A u \in Workers : u \notin Team' => pc'[u] \in WaitPcs
    BY <1>1, <1>3, <1>5 DEF IInv, ThreadInv, Workers
  <2>2. pool' # "none" => 0 \in Team' BY <1>5 DEF IInv, ThreadInv, caller
  <2>3. \A u \in Workers : Busy(u)' => last_graph'[u] = n_graph'
    BY DEF IInv, ThreadInv, Workers, shared, waiting
  <2>4. \A u \in Team' \ {0} : pc'[u] = "active" =>
            new_graph'[u] = n_graph' /\ last_graph'[u] # n_graph'
    BY <1>3, <1>4, <1>5 DEF IInv, ThreadInv, Team, shared, waiting, WaitPcs
  <2>5. \A u \in Threads : Busy(u)' => PlaceInv(u)' BY DEF IInv, ThreadInv
  <2>6. \A u \in Threads : pc'[u] \in BarrierPcs => after'[u] # (IF u = 0 THEN "top" ELSE "return")
    BY <1>3 DEF IInv, ThreadInv
  <2> QED BY <2>1, <2>2, <2>3, <2>4, <2>5, <2>6 DEF ThreadInv
<1> QED BY <1>6, <1>7, <1>8

\* The others are where they were when only one thread's own state changes.
LEMMA OthersFrame ==
    ASSUME NEW t \in Threads, NEW where, pc \in [Threads -> AllPcs], pc' = [pc EXCEPT ![t] = where],
           \A u \in Threads \ {t} :
               node'[u] = node[u] /\ after'[u] = after[u] /\ n_passed'[u] = n_passed[u],
           UNCHANGED <<n_barrier_passed, cgraph, ec, abort, n_graph, last_graph>>
    PROVE  \A u \in Threads \ {t} :
              /\ Busy(u)' <=> Busy(u)
              /\ Working(u)' <=> Working(u)
              /\ Phase(u)' = Phase(u)
              /\ PlaceInv(u)' <=> PlaceInv(u)
              /\ NotBeyond(u)' <=> NotBeyond(u)
              /\ after'[u] = after[u]
<1> TAKE u \in Threads \ {t}
<1>1. pc'[u] = pc[u] OBVIOUS
<1> QED BY <1>1, PhaseFrame

\* A step of the computation does not touch the barrier.
LEMMA ComputeBarrier ==
    ASSUME IInv, NEW t \in Threads, NEW where \in ComputePcs \cup {"barrier"},
           pc[t] \in ComputePcs, pc' = [pc EXCEPT ![t] = where], UNCHANGED <<barrier, shared>>
    PROVE  BarrierInv'
<1>1. Team' = Team BY DEF Team, shared
<1>2. pc \in [Threads -> AllPcs] BY DEF IInv, TypeOK, PcTypeOK, AllPcs
<1>3. \A u \in Threads : (pc[u] \in {"arrive", "spin", "last", "release"} \/
                          pc'[u] \in {"arrive", "spin", "last", "release"}) => pc'[u] = pc[u]
  BY <1>2 DEF ComputePcs
<1> QED BY <1>1, <1>3, BarrierFrame DEF IInv

\* The parts of an abort that a step of one thread can disturb.
LEMMA AbortFrame ==
    ASSUME IInv, NEW t \in Threads, UNCHANGED <<ec, abort, cgraph, n_threads_cur>>,
           \A u \in Threads \ {t} : (Busy(u)' <=> Busy(u)) /\ (NotBeyond(u)' <=> NotBeyond(u)),
           ec = "ABORTED" => NotBeyond(t)' \/ ~Busy(t)',
           t # 0 => pc'[0] = pc[0] /\ node'[0] = node[0] /\ after'[0] = after[0],
           t = 0 /\ ec = "ABORTED" =>
               \/ pc'[0] \in CallerPcs \ {"kickoff", "announce", "broadcast"}
               \/ pc'[0] = "next" /\ node'[0] = abort
               \/ pc'[0] \in BarrierPcs /\ (after'[0] = "return" \/ (after'[0] = "next" /\ node'[0] = abort))
    PROVE  AbortInv'
<1>1. Team' = Team BY DEF Team
<1>2. Team \subseteq Threads BY DEF Team
<1>3. ec = "ABORTED" => \A u \in Team : Busy(u)' => NotBeyond(u)'
  BY <1>2 DEF IInv, AbortInv
<1>4. ec = "ABORTED" =>
        \/ pc'[0] \in CallerPcs \ {"kickoff", "announce", "broadcast"}
        \/ pc'[0] = "next" /\ node'[0] = abort
        \/ pc'[0] \in BarrierPcs /\ (after'[0] = "return" \/ (after'[0] = "next" /\ node'[0] = abort))
  BY DEF IInv, AbortInv
<1> QED BY <1>1, <1>3, <1>4 DEF IInv, AbortInv

LEMMA EnterStep == ASSUME IInv, NEW t \in Threads, Enter(t) PROVE IInv' /\ Steady
<1> USE DEF Enter, Goto
<1>0. pc \in [Threads -> AllPcs] /\ node \in [Threads -> Nat]
  BY DEF IInv, TypeOK, PcTypeOK, AllPcs
<1>1. pc'[t] = "next" /\ node'[t] = 0 /\ pc[t] = "enter" BY <1>0
<1>2. Busy(t) /\ Busy(t)' BY <1>1 DEF Busy, ComputePcs
<1>3. \A u \in Threads \ {t} :
              /\ Busy(u)' <=> Busy(u)
              /\ Working(u)' <=> Working(u)
              /\ Phase(u)' = Phase(u)
              /\ PlaceInv(u)' <=> PlaceInv(u)
              /\ NotBeyond(u)' <=> NotBeyond(u)
              /\ after'[u] = after[u]
  BY <1>0, OthersFrame DEF result, shared, barrier, waiting
<1>4. PlaceInv(t)' BY <1>1 DEF PlaceInv, BarrierPcs
<1>5. ~Called(t)' BY <1>1, <1>2 DEF Called
<1>6. Phase(t)' = Phase(t) BY <1>1, <1>5 DEF Phase, NextPhase
<1>7. PoolInv' /\ WorkInv' /\ ThreadInv'
  BY <1>2, <1>3, <1>4, <1>6, InPhase DEF result, ComputePcs, BarrierPcs
<1>8. AbortInv'
  <2>1. NotBeyond(t)' \/ ec # "ABORTED"
    BY <1>1 DEF NotBeyond, IInv, AbortInv, result, BarrierPcs
  <2>2. t = 0 => ec # "ABORTED" BY <1>1 DEF IInv, AbortInv, CallerPcs, BarrierPcs
  <2> QED BY <1>0, <1>3, <2>1, <2>2, AbortFrame, ZeroIsThread DEF result, shared
<1>9. BarrierInv' BY <1>1, ComputeBarrier DEF ComputePcs
<1>10. TypeOK' BY ComputeType DEF Compute, IInv
<1>11. Steady BY <1>2, <1>3, <1>6 DEF Steady, Working, Team
<1> QED BY <1>7, <1>8, <1>9, <1>10, <1>11 DEF IInv

LEMMA ComputeChunkStep == ASSUME IInv, NEW t \in Threads, ComputeChunk(t) PROVE IInv' /\ Steady
<1> USE DEF ComputeChunk, Goto
<1>0. pc \in [Threads -> AllPcs] /\ node \in [Threads -> Nat] /\ chunk \in [Threads -> Nat]
      /\ after \in [Threads -> {"next", "chunk", "return", "top"}]
  BY DEF IInv, TypeOK, PcTypeOK, AllPcs
<1>1. node' = node /\ after' = after /\ pc'[t] \in {"computed", "grab"} /\ pc[t] = "chunk" BY <1>0 DEF work
<1>2. Busy(t) /\ Busy(t)' BY <1>1 DEF Busy, ComputePcs
<1>3. \A u \in Threads \ {t} :
              /\ Busy(u)' <=> Busy(u)
              /\ Working(u)' <=> Working(u)
              /\ Phase(u)' = Phase(u)
              /\ PlaceInv(u)' <=> PlaceInv(u)
              /\ NotBeyond(u)' <=> NotBeyond(u)
              /\ after'[u] = after[u]
  BY <1>0, <1>1, OthersFrame DEF result, shared, barrier, waiting
<1>p. PlaceInv(t) /\ ~Called(t) BY <1>2, BusyFacts
<1>4. PlaceInv(t)' BY <1>1, <1>p DEF PlaceInv, IsMatMul, BarrierPcs, result
<1>5. ~Called(t)' BY <1>1, <1>2 DEF Called
<1>6. Phase(t)' = Phase(t)
  BY <1>1, <1>5, <1>p DEF Phase, LastPhase, IsMatMul, PlaceInv, result
<1>7. PoolInv' /\ WorkInv' /\ ThreadInv'
  <2>1. pc'[t] \in ComputePcs BY <1>1 DEF ComputePcs
  <2>2. pc' = [pc EXCEPT ![t] = pc'[t]] BY <1>0
  <2> QED BY <1>2, <1>3, <1>4, <1>6, <2>1, <2>2, InPhase DEF result, ComputePcs, BarrierPcs
<1>8. AbortInv'
  <2>1. t \in Team BY <1>1, ComputingFacts DEF ComputePcs
  <2>2. NotBeyond(t)' \/ ec # "ABORTED"
    BY <1>1, <1>2, <2>1 DEF NotBeyond, IInv, AbortInv, result, BarrierPcs
  <2>3. t = 0 => ec # "ABORTED" BY <1>1 DEF IInv, AbortInv, CallerPcs, BarrierPcs
  <2> QED BY <1>0, <1>1, <1>3, <2>2, <2>3, AbortFrame, ZeroIsThread DEF result, shared
<1>9. BarrierInv' BY <1>0, <1>1, ComputeBarrier DEF ComputePcs
<1>10. TypeOK' BY ComputeType DEF Compute, IInv
<1>11. Steady BY <1>2, <1>3, <1>6 DEF Steady, Working, Team
<1> QED BY <1>7, <1>8, <1>9, <1>10, <1>11 DEF IInv

LEMMA GrabChunkStep == ASSUME IInv, NEW t \in Threads, GrabChunk(t) PROVE IInv' /\ Steady
<1> USE DEF GrabChunk, Goto
<1>0. pc \in [Threads -> AllPcs] /\ node \in [Threads -> Nat] /\ chunk \in [Threads -> Nat]
      /\ after \in [Threads -> {"next", "chunk", "return", "top"}]
  BY DEF IInv, TypeOK, PcTypeOK, AllPcs
<1>1. node' = node /\ after' = after /\ pc'[t] = "chunk" /\ pc[t] = "grab" BY <1>0 DEF work
<1>2. Busy(t) /\ Busy(t)' BY <1>1 DEF Busy, ComputePcs
<1>3. \A u \in Threads \ {t} :
              /\ Busy(u)' <=> Busy(u)
              /\ Working(u)' <=> Working(u)
              /\ Phase(u)' = Phase(u)
              /\ PlaceInv(u)' <=> PlaceInv(u)
              /\ NotBeyond(u)' <=> NotBeyond(u)
              /\ after'[u] = after[u]
  BY <1>0, <1>1, OthersFrame DEF result, shared, barrier, waiting
<1>p. PlaceInv(t) /\ ~Called(t) BY <1>2, BusyFacts
<1>4. PlaceInv(t)' BY <1>1, <1>p DEF PlaceInv, IsMatMul, BarrierPcs, result
<1>5. ~Called(t)' BY <1>1, <1>2 DEF Called
<1>6. Phase(t)' = Phase(t)
  BY <1>1, <1>5, <1>p DEF Phase, LastPhase, IsMatMul, PlaceInv, result
<1>7. PoolInv' /\ WorkInv' /\ ThreadInv'
  <2>1. pc'[t] \in ComputePcs BY <1>1 DEF ComputePcs
  <2>2. pc' = [pc EXCEPT ![t] = pc'[t]] BY <1>0
  <2> QED BY <1>2, <1>3, <1>4, <1>6, <2>1, <2>2, InPhase DEF result, ComputePcs, BarrierPcs
<1>8. AbortInv'
  <2>1. t \in Team BY <1>1, ComputingFacts DEF ComputePcs
  <2>2. NotBeyond(t)' \/ ec # "ABORTED"
    BY <1>1, <1>2, <2>1 DEF NotBeyond, IInv, AbortInv, result, BarrierPcs
  <2>3. t = 0 => ec # "ABORTED" BY <1>1 DEF IInv, AbortInv, CallerPcs, BarrierPcs
  <2> QED BY <1>0, <1>1, <1>3, <2>2, <2>3, AbortFrame, ZeroIsThread DEF result, shared
<1>9. BarrierInv' BY <1>0, <1>1, ComputeBarrier DEF ComputePcs
<1>10. TypeOK' BY ComputeType DEF Compute, IInv
<1>11. Steady BY <1>2, <1>3, <1>6 DEF Steady, Working, Team
<1> QED BY <1>7, <1>8, <1>9, <1>10, <1>11 DEF IInv

LEMMA NoMoreChunksStep == ASSUME IInv, NEW t \in Threads, NoMoreChunks(t) PROVE IInv' /\ Steady
<1> USE DEF NoMoreChunks, Goto
<1>0. pc \in [Threads -> AllPcs] /\ node \in [Threads -> Nat] /\ chunk \in [Threads -> Nat]
      /\ after \in [Threads -> {"next", "chunk", "return", "top"}]
  BY DEF IInv, TypeOK, PcTypeOK, AllPcs
<1>1. node' = node /\ after' = after /\ pc'[t] = "computed" /\ pc[t] = "chunk" BY <1>0 DEF work
<1>2. Busy(t) /\ Busy(t)' BY <1>1 DEF Busy, ComputePcs
<1>3. \A u \in Threads \ {t} :
              /\ Busy(u)' <=> Busy(u)
              /\ Working(u)' <=> Working(u)
              /\ Phase(u)' = Phase(u)
              /\ PlaceInv(u)' <=> PlaceInv(u)
              /\ NotBeyond(u)' <=> NotBeyond(u)
              /\ after'[u] = after[u]
  BY <1>0, <1>1, OthersFrame DEF result, shared, barrier, waiting
<1>p. PlaceInv(t) /\ ~Called(t) BY <1>2, BusyFacts
<1>4. PlaceInv(t)' BY <1>1, <1>p DEF PlaceInv, IsMatMul, BarrierPcs, result
<1>5. ~Called(t)' BY <1>1, <1>2 DEF Called
<1>6. Phase(t)' = Phase(t)
  BY <1>1, <1>5, <1>p DEF Phase, LastPhase, IsMatMul, PlaceInv, result
<1>7. PoolInv' /\ WorkInv' /\ ThreadInv'
  <2>1. pc'[t] \in ComputePcs BY <1>1 DEF ComputePcs
  <2>2. pc' = [pc EXCEPT ![t] = pc'[t]] BY <1>0
  <2> QED BY <1>2, <1>3, <1>4, <1>6, <2>1, <2>2, InPhase DEF result, ComputePcs, BarrierPcs
<1>8. AbortInv'
  <2>1. t \in Team BY <1>1, ComputingFacts DEF ComputePcs
  <2>2. NotBeyond(t)' \/ ec # "ABORTED"
    BY <1>1, <1>2, <2>1 DEF NotBeyond, IInv, AbortInv, result, BarrierPcs
  <2>3. t = 0 => ec # "ABORTED" BY <1>1 DEF IInv, AbortInv, CallerPcs, BarrierPcs
  <2> QED BY <1>0, <1>1, <1>3, <2>2, <2>3, AbortFrame, ZeroIsThread DEF result, shared
<1>9. BarrierInv' BY <1>0, <1>1, ComputeBarrier DEF ComputePcs
<1>10. TypeOK' BY ComputeType DEF Compute, IInv
<1>11. Steady BY <1>2, <1>3, <1>6 DEF Steady, Working, Team
<1> QED BY <1>7, <1>8, <1>9, <1>10, <1>11 DEF IInv

LEMMA ShareStep == ASSUME IInv, NEW t \in Threads, Share(t) PROVE IInv' /\ Steady
<1> USE DEF Share, Goto
<1>0. pc \in [Threads -> AllPcs] /\ node \in [Threads -> Nat] /\ chunk \in [Threads -> Nat]
      /\ after \in [Threads -> {"next", "chunk", "return", "top"}]
  BY DEF IInv, TypeOK, PcTypeOK, AllPcs
<1>1. /\ pc[t] = "next" /\ node' = node /\ node[t] < Len(cgraph) /\ abort # node[t]
      /\ IF IsMatMul(node[t]) THEN pc'[t] = "barrier" /\ after'[t] = "chunk"
         ELSE pc'[t] = "computed" /\ after' = after
  BY <1>0 DEF AtNode
<1>2. Busy(t) /\ Busy(t)' BY <1>1 DEF Busy, ComputePcs, BarrierPcs
<1>3. \A u \in Threads \ {t} :
              /\ Busy(u)' <=> Busy(u)
              /\ Working(u)' <=> Working(u)
              /\ Phase(u)' = Phase(u)
              /\ PlaceInv(u)' <=> PlaceInv(u)
              /\ NotBeyond(u)' <=> NotBeyond(u)
              /\ after'[u] = after[u]
  BY <1>0, <1>1, OthersFrame DEF result, shared, barrier, waiting
<1>p. PlaceInv(t) /\ ~Called(t) BY <1>2, BusyFacts
<1>4. PlaceInv(t)' BY <1>1, <1>p DEF PlaceInv, IsMatMul, BarrierPcs, result
<1>5. ~Called(t)' BY <1>1, <1>2 DEF Called
<1>6. Phase(t)' = Phase(t)
  <2>1. node[t] # Len(cgraph) BY <1>1
  <2>2. Phase(t) = <<node[t], 0>> BY <1>1, <1>p, <2>1 DEF Phase, NextPhase
  <2> QED BY <1>1, <1>5, <2>2 DEF Phase, LastPhase, IsMatMul, Released, result
<1>7. PoolInv' /\ WorkInv' /\ ThreadInv'
  <2>1. pc'[t] \in ComputePcs \cup BarrierPcs BY <1>1 DEF ComputePcs, BarrierPcs
  <2>2. pc' = [pc EXCEPT ![t] = pc'[t]] BY <1>0
  <2>3. pc'[t] \in BarrierPcs => after'[t] = "chunk" BY <1>1 DEF BarrierPcs
  <2> QED BY <1>2, <1>3, <1>4, <1>6, <2>1, <2>2, <2>3, InPhase DEF result
<1>8. AbortInv'
  <2>1. t \in Team BY <1>1, ComputingFacts DEF ComputePcs
  <2>2. NotBeyond(t)' \/ ec # "ABORTED"
    <3>1. ec = "ABORTED" => node[t] <= abort BY <1>1, <1>2, <2>1 DEF NotBeyond, IInv, AbortInv
    <3>2. ec = "ABORTED" => node[t] < abort BY <1>0, <1>1, <3>1 DEF IInv, TypeOK
    <3> QED BY <1>1, <3>1, <3>2 DEF NotBeyond, result
  <2>3. t = 0 => ec # "ABORTED" BY <1>1 DEF IInv, AbortInv, CallerPcs, BarrierPcs
  <2>4. t # 0 => pc'[0] = pc[0] /\ node'[0] = node[0] /\ after'[0] = after[0]
    BY <1>0, <1>1, ZeroIsThread
  <2> QED BY <1>3, <2>2, <2>3, <2>4, AbortFrame DEF result, shared
<1>9. BarrierInv'
  <2>1. pc' = [pc EXCEPT ![t] = pc'[t]] /\ pc'[t] \in ComputePcs \cup {"barrier"}
    BY <1>0, <1>1 DEF ComputePcs
  <2> QED BY <1>1, <2>1, ComputeBarrier DEF ComputePcs
<1>10. TypeOK' BY ComputeType DEF Compute, IInv
<1>11. Steady BY <1>2, <1>3, <1>6 DEF Steady, Working, Team
<1> QED BY <1>7, <1>8, <1>9, <1>10, <1>11 DEF IInv

LEMMA LeaveStep == ASSUME IInv, NEW t \in Threads, Leave(t) PROVE IInv' /\ Steady
<1> USE DEF Leave, Goto
<1>0. pc \in [Threads -> AllPcs] /\ node \in [Threads -> Nat] /\ chunk \in [Threads -> Nat]
      /\ after \in [Threads -> {"next", "chunk", "return", "top"}]
  BY DEF IInv, TypeOK, PcTypeOK, AllPcs
<1>1. /\ pc[t] = "next" /\ pc'[t] = "barrier" /\ node'[t] = 0
      /\ (node[t] >= Len(cgraph) \/ abort = node[t])
      /\ after'[t] = IF t = 0 THEN "return" ELSE "top"
  BY <1>0 DEF AtNode
<1>2. Busy(t) /\ Busy(t)' BY <1>1 DEF Busy, ComputePcs, BarrierPcs
<1>3. \A u \in Threads \ {t} :
              /\ Busy(u)' <=> Busy(u)
              /\ Working(u)' <=> Working(u)
              /\ Phase(u)' = Phase(u)
              /\ PlaceInv(u)' <=> PlaceInv(u)
              /\ NotBeyond(u)' <=> NotBeyond(u)
              /\ after'[u] = after[u]
  BY <1>0, <1>1, OthersFrame DEF result, shared, barrier, waiting
<1>p. PlaceInv(t) /\ ~Called(t) BY <1>2, BusyFacts
<1>q. t \in Team BY <1>1, ComputingFacts DEF ComputePcs
<1>n. ec = "ABORTED" => node[t] <= abort /\ abort \in 1..Len(cgraph)
  BY <1>1, <1>2, <1>q DEF IInv, AbortInv, NotBeyond
<1>l. Len(cgraph) \in Nat BY DEF IInv, TypeOK
<1>4. PlaceInv(t)' BY <1>1, <1>l DEF PlaceInv, IsMatMul, BarrierPcs, result
<1>5. ~Called(t)' BY <1>1, <1>2 DEF Called
<1>6. Phase(t)' = Phase(t)
  <2>1. Phase(t)' = EndPhase
    BY <1>1, <1>5 DEF Phase, Released, EndPhase, LastPhase, IsMatMul, result
  <2>2. Phase(t) = NextPhase(node[t]) BY <1>1, <1>p DEF Phase
  <2>3. ec = "SUCCESS" => abort = -1 BY DEF IInv, AbortInv
  <2>4. ec \in {"SUCCESS", "ABORTED"} /\ node[t] <= Len(cgraph) /\ node[t] \in Nat
    BY <1>0, <1>p DEF IInv, TypeOK, PlaceInv
  <2>5. CASE node[t] = Len(cgraph)
    <3>1. ~(ec = "ABORTED" /\ abort < Len(cgraph)) BY <2>5, <1>n, <1>l
    <3> QED BY <2>1, <2>2, <2>4, <2>5, <3>1, <1>l DEF NextPhase, EndPhase
  <2>6. CASE node[t] # Len(cgraph)
    <3>1. abort = node[t] /\ ec = "ABORTED" BY <1>1, <2>3, <2>4, <2>6, <1>l
    <3>2. abort < Len(cgraph) BY <3>1, <2>4, <2>6, <1>l
    <3> QED BY <2>1, <2>2, <2>6, <3>1, <3>2 DEF NextPhase, EndPhase
  <2> QED BY <2>5, <2>6
<1>7. PoolInv' /\ WorkInv' /\ ThreadInv'
  <2>1. pc'[t] \in ComputePcs \cup BarrierPcs BY <1>1 DEF ComputePcs, BarrierPcs
  <2>2. pc' = [pc EXCEPT ![t] = pc'[t]] BY <1>0
  <2>3. after'[t] # (IF t = 0 THEN "top" ELSE "return") BY <1>1
  <2> QED BY <1>2, <1>3, <1>4, <1>6, <2>1, <2>2, <2>3, InPhase DEF result
<1>8. AbortInv'
  <2>2. NotBeyond(t)' \/ ec # "ABORTED"
    BY <1>1, <1>n DEF NotBeyond, IInv, AbortInv, result, BarrierPcs
  <2>4. t # 0 => pc'[0] = pc[0] /\ node'[0] = node[0] /\ after'[0] = after[0]
    BY <1>0, <1>1, ZeroIsThread
  <2> QED BY <1>1, <1>3, <2>2, <2>4, AbortFrame DEF result, shared, BarrierPcs
<1>9. BarrierInv' BY <1>0, <1>1, ComputeBarrier DEF ComputePcs
<1>10. TypeOK' BY ComputeType DEF Compute, IInv
<1>11. Steady BY <1>2, <1>3, <1>6 DEF Steady, Working, Team
<1> QED BY <1>7, <1>8, <1>9, <1>10, <1>11 DEF IInv

\* An abort leaves the phases of the others alone: they are in the phase of
\* thread 0, so nobody has left for home before the last node.
LEMMA AbortPhase ==
    ASSUME IInv, NodeDone(0), ec' = "ABORTED", abort' = node[0] + 1, NEW u \in Workers, Busy(u)
    PROVE  Phase(u)' = Phase(u) /\ NotBeyond(u)'
<1> USE DEF NodeDone, Goto
<1>0. /\ pc \in [Threads -> AllPcs] /\ node \in [Threads -> Nat] /\ Len(cgraph) \in Nat
      /\ 0 \in Threads /\ u \in Threads /\ u # 0
      /\ after \in [Threads -> {"next", "chunk", "return", "top"}]
  <2>1. 0 \in Threads /\ u \in Threads /\ u # 0 BY ZeroIsThread
  <2>2. pc \in [Threads -> AllPcs] /\ node \in [Threads -> Nat] /\ Len(cgraph) \in Nat
    BY DEF IInv, TypeOK, PcTypeOK, AllPcs
  <2>3. after \in [Threads -> {"next", "chunk", "return", "top"}] BY DEF IInv, TypeOK
  <2> HIDE DEF NodeDone
  <2> QED BY <2>1, <2>2, <2>3
<1>1. pc[0] = "computed" /\ pc'[u] = pc[u] /\ node'[u] = node[u] /\ after'[u] = after[u]
      /\ UNCHANGED <<cgraph, barrier, waiting, shared>>
  <2>1. pc[0] = "computed" /\ pc'[u] = pc[u] /\ node'[u] = node[u] BY <1>0
  <2>2. after'[u] = after[u] BY <1>0
  <2> QED BY <2>1, <2>2
<1>2. Busy(0) /\ Phase(0) = LastPhase(node[0]) /\ node[0] < Len(cgraph) /\ 0 \in Team /\ u \in Team
  <2>1. Busy(0) BY <1>1 DEF Busy, ComputePcs
  <2>2. ~Called(0) /\ PlaceInv(0) BY <1>0, <2>1, BusyFacts
  <2>3. 0 \in Team BY <1>0, <1>1, ComputingFacts DEF ComputePcs
  <2>4. u \in Team BY <1>0, BusyFacts, ComputingFacts
  <2> QED BY <1>1, <2>1, <2>2, <2>3, <2>4 DEF Phase, PlaceInv
<1>3. Phase(u) = LastPhase(node[0]) BY <1>2 DEF IInv, WorkInv, Working
<1>4. ec # "ABORTED" BY <1>1 DEF IInv, AbortInv, CallerPcs, BarrierPcs
<1>5. EndPhase = LastPhase(Len(cgraph) - 1) BY <1>0, <1>2, <1>4 DEF EndPhase
<1>6. EndPhase' = EndPhase \/ Phase(u) # EndPhase
  <2>1. CASE node[0] + 1 = Len(cgraph)
    <3>1. ~(abort' < Len(cgraph')) BY <1>0, <1>1, <2>1
    <3>2. Len(cgraph') # 0 BY <1>0, <1>1, <1>2
    <3> QED BY <1>1, <1>5, <3>1, <3>2 DEF EndPhase, LastPhase, IsMatMul
  <2>2. CASE node[0] + 1 # Len(cgraph)
    <3>1. node[0] # Len(cgraph) - 1 BY <1>0, <2>2
    <3> QED BY <1>3, <1>5, <3>1 DEF LastPhase
  <2> QED BY <2>1, <2>2
<1>7. ~Called(u) /\ PlaceInv(u) /\ pc[u] \in ComputePcs \cup BarrierPcs BY <1>0, BusyFacts
<1>8. Busy(u)' /\ ~Called(u)'
  <2>1. Busy(u)' BY <1>1 DEF Busy, barrier
  <2> QED BY <2>1, <1>0 DEF Called
<1>9. Phase(u)' = Phase(u)
  <2>1. Released(u)' <=> Released(u) BY <1>1 DEF Released, barrier
  <2>2. pc'[u] = pc[u] /\ node'[u] = node[u] /\ after'[u] = after[u] /\ cgraph' = cgraph BY <1>1
  <2>3. \A k : NextPhase(k)' = NextPhase(k) /\ LastPhase(k)' = LastPhase(k)
    BY <2>2 DEF NextPhase, LastPhase, IsMatMul
  <2> HIDE DEF NodeDone
  <2> QED BY <1>6, <1>7, <1>8, <2>1, <2>2, <2>3 DEF Phase
<1>10. NotBeyond(u)'
  <2>1. node[u] <= Len(cgraph) \/ pc[u] = "enter" BY <1>7 DEF PlaceInv
  <2>2. CASE pc[u] = "enter" BY <1>1, <2>2 DEF NotBeyond, BarrierPcs
  <2>3. CASE pc[u] = "next"
    <3>1. NextPhase(node[u]) = LastPhase(node[0]) BY <1>3, <1>7, <2>3 DEF Phase
    <3>2. node[u] <= node[0] + 1
      BY <1>0, <3>1 DEF NextPhase, LastPhase
    <3> QED BY <1>1, <2>3, <3>2 DEF NotBeyond, BarrierPcs
  <2>4. CASE pc[u] \in {"chunk", "grab", "computed"}
    <3>1. node[u] = node[0] BY <1>3, <1>7, <2>4 DEF Phase, LastPhase
    <3> QED BY <1>0, <1>1, <3>1 DEF NotBeyond
  <2>5. CASE pc[u] \in BarrierPcs
    <3>0. pc[u] \notin ComputePcs BY <2>5 DEF BarrierPcs, ComputePcs
    <3>1. Released(u) => Phase(u) = <<node[u], IF after[u] = "chunk" THEN 1 ELSE 0>>
      BY <1>7, <3>0 DEF Phase, ComputePcs
    <3>2. ~Released(u) => Phase(u) = IF after[u] = "chunk" THEN <<node[u], 0>>
                                     ELSE IF after[u] = "next" THEN LastPhase(node[u] - 1)
                                     ELSE EndPhase
      BY <1>7, <3>0 DEF Phase, ComputePcs
    <3>3. CASE after[u] = "chunk"
      <4>1. node[u] = node[0] BY <1>3, <3>1, <3>2, <3>3 DEF LastPhase
      <4> QED BY <1>0, <1>1, <4>1 DEF NotBeyond
    <3>4. CASE after[u] # "chunk"
      <4>1. node[u] <= node[0] + 1
        <5>1. CASE Released(u) BY <1>0, <1>3, <3>1, <5>1 DEF LastPhase
        <5>2. CASE ~Released(u) /\ after[u] = "next"
          <6>1. LastPhase(node[u] - 1) = LastPhase(node[0]) BY <1>3, <3>2, <3>4, <5>2
          <6>2. node[u] - 1 = node[0] BY <6>1 DEF LastPhase
          <6> QED BY <1>0, <6>2
        <5>3. CASE ~Released(u) /\ after[u] # "next"
          <6>1. EndPhase = LastPhase(node[0]) BY <1>3, <3>2, <3>4, <5>3
          <6>2. Len(cgraph) - 1 = node[0] BY <1>5, <6>1 DEF LastPhase
          <6> QED BY <1>0, <2>1, <6>2, <3>0 DEF ComputePcs
        <5> QED BY <5>1, <5>2, <5>3
      <4> QED BY <1>1, <3>0, <3>4, <4>1 DEF NotBeyond, ComputePcs
    <3> QED BY <3>3, <3>4
  <2> QED BY <1>7, <2>2, <2>3, <2>4, <2>5 DEF ComputePcs
<1> QED BY <1>9, <1>10

LEMMA NodeDoneStep == ASSUME IInv, NEW t \in Threads, NodeDone(t) PROVE IInv' /\ Steady
<1> USE DEF NodeDone, Goto
<1>0. pc \in [Threads -> AllPcs] /\ node \in [Threads -> Nat] /\ chunk \in [Threads -> Nat]
      /\ after \in [Threads -> {"next", "chunk", "return", "top"}] /\ Len(cgraph) \in Nat
  BY DEF IInv, TypeOK, PcTypeOK, AllPcs
<1>1. /\ pc[t] = "computed" /\ node'[t] = node[t] + 1
      /\ \/ pc'[t] = "barrier" /\ after'[t] = "next" /\ node[t] + 1 < Len(cgraph)
         \/ pc'[t] = "next" /\ after' = after /\ node[t] + 1 >= Len(cgraph)
  BY <1>0
<1>2. Busy(t) /\ Busy(t)' BY <1>1 DEF Busy, ComputePcs, BarrierPcs
<1>p. PlaceInv(t) /\ ~Called(t) BY <1>2, BusyFacts
<1>l. node[t] < Len(cgraph) /\ t \in Team BY <1>1, <1>p, ComputingFacts DEF PlaceInv, ComputePcs
<1>c. (ec' = ec /\ abort' = abort) \/ (t = 0 /\ ec' = "ABORTED" /\ abort' = node[t] + 1) OBVIOUS
<1>b. t = 0 => ec # "ABORTED" BY <1>1 DEF IInv, AbortInv, CallerPcs, BarrierPcs
<1>3. \A u \in Threads \ {t} :
              /\ Busy(u)' <=> Busy(u)
              /\ Working(u)' <=> Working(u)
              /\ Working(u) => Phase(u)' = Phase(u)
              /\ PlaceInv(u)' <=> PlaceInv(u)
              /\ after'[u] = after[u]
  <2>1. CASE ec' = ec /\ abort' = abort
    BY <1>0, <1>1, <2>1, OthersFrame DEF shared, barrier, waiting
  <2>2. CASE t = 0 /\ ec' = "ABORTED" /\ abort' = node[t] + 1
    <3> SUFFICES ASSUME NEW u \in Threads \ {0}
                 PROVE  /\ Busy(u)' <=> Busy(u)
                        /\ Working(u)' <=> Working(u)
                        /\ Working(u) => Phase(u)' = Phase(u)
                        /\ PlaceInv(u)' <=> PlaceInv(u)
                        /\ after'[u] = after[u]
      BY <2>2
    <3>1. pc'[u] = pc[u] /\ node'[u] = node[u] /\ after'[u] = after[u] /\ u \in Workers
      BY <1>0, <2>2 DEF Workers
    <3>2. Busy(u)' <=> Busy(u) BY <3>1 DEF Busy, barrier
    <3>3. Called(u)' <=> Called(u) BY <3>1, <3>2 DEF Called, Workers, shared, waiting
    <3>4. PlaceInv(u)' <=> PlaceInv(u) BY <3>1 DEF PlaceInv, IsMatMul
    <3>5. Working(u) => Phase(u)' = Phase(u)
      <4>1. CASE Called(u) BY <3>3, <4>1 DEF Phase
      <4>2. CASE Busy(u) BY <2>2, <3>1, <4>2, AbortPhase
      <4> QED BY <4>1, <4>2 DEF Working
    <3> QED BY <3>1, <3>2, <3>3, <3>4, <3>5 DEF Working
  <2> QED BY <1>c, <2>1, <2>2
<1>4. PlaceInv(t)' BY <1>0, <1>1, <1>l DEF PlaceInv, BarrierPcs
<1>5. ~Called(t)' BY <1>1, <1>2 DEF Called
<1>6. Phase(t)' = Phase(t)
  <2>1. Phase(t) = LastPhase(node[t]) BY <1>1, <1>p DEF Phase
  <2>2. node'[t] - 1 = node[t] /\ node'[t] > 0 /\ cgraph' = cgraph
    <3>1. node[t] \in Nat BY <1>0
    <3> QED BY <1>1, <3>1
  <2>3. CASE pc'[t] = "barrier"
    <3>1. after'[t] = "next" BY <1>1, <2>3
    <3> QED BY <1>5, <2>1, <2>2, <2>3, <3>1 DEF Phase, Released, LastPhase, IsMatMul
  <2>4. CASE pc'[t] = "next"
    <3>1. node'[t] = Len(cgraph') BY <1>0, <1>1, <1>l, <2>4
    <3>2. Phase(t)' = NextPhase(node[t])' BY <1>5, <2>4 DEF Phase
    <3>3. NextPhase(node[t])' = LastPhase(node[t] + 1 - 1)
      BY <1>1, <2>2, <3>1 DEF NextPhase, LastPhase, IsMatMul
    <3>4. node[t] + 1 - 1 = node[t]
      <4>1. node[t] \in Nat BY <1>0
      <4> QED BY <4>1
    <3> QED BY <2>1, <3>2, <3>3, <3>4
  <2> QED BY <1>1, <2>3, <2>4
<1>7. PoolInv' /\ WorkInv' /\ ThreadInv'
  <2>1. pc'[t] \in ComputePcs \cup BarrierPcs BY <1>1 DEF ComputePcs, BarrierPcs
  <2>2. pc' = [pc EXCEPT ![t] = pc'[t]] BY <1>0
  <2>3. pc'[t] \in BarrierPcs => after'[t] = "next" BY <1>1 DEF BarrierPcs
  <2> QED BY <1>2, <1>3, <1>4, <1>6, <2>1, <2>2, <2>3, InPhase
<1>8. AbortInv'
  <2>1. CASE ec' = ec /\ abort' = abort
    <3>1. \A u \in Threads \ {t} : (Busy(u)' <=> Busy(u)) /\ (NotBeyond(u)' <=> NotBeyond(u))
      BY <1>0, <1>1, <2>1, OthersFrame DEF shared, barrier, waiting
    <3>2. NotBeyond(t)' \/ ec # "ABORTED"
      <4>1. ec = "ABORTED" => node[t] < abort
        BY <1>1, <1>2, <1>l DEF NotBeyond, IInv, AbortInv
      <4>2. ec = "ABORTED" => node'[t] <= abort'
        BY <1>0, <1>1, <2>1, <4>1 DEF IInv, TypeOK
      <4> QED BY <1>1, <4>2 DEF NotBeyond, BarrierPcs
    <3>3. t # 0 => pc'[0] = pc[0] /\ node'[0] = node[0] /\ after'[0] = after[0]
      BY <1>0, <1>1, ZeroIsThread
    <3> QED BY <1>b, <2>1, <3>1, <3>2, <3>3, AbortFrame DEF shared
  <2>2. CASE t = 0 /\ ec' = "ABORTED" /\ abort' = node[t] + 1
    <3>1. abort' \in 1..Len(cgraph') BY <1>0, <1>l, <2>2
    <3>2. \/ pc'[0] = "next" /\ node'[0] = abort'
          \/ pc'[0] \in BarrierPcs /\ (after'[0] = "return" \/ (after'[0] = "next" /\ node'[0] = abort'))
      BY <1>1, <2>2 DEF BarrierPcs
    <3>3. \A u \in Team' : Busy(u)' => NotBeyond(u)'
      <4> SUFFICES ASSUME NEW u \in Team', Busy(u)' PROVE NotBeyond(u)' OBVIOUS
      <4>1. u \in Threads BY DEF Team
      <4>2. CASE u = 0 BY <1>0, <1>1, <2>2, <4>2 DEF NotBeyond, BarrierPcs
      <4>3. CASE u # 0
        <5>1. u \in Workers /\ Busy(u) BY <1>3, <2>2, <4>1, <4>3 DEF Workers
        <5> QED BY <2>2, <5>1, AbortPhase
      <4> QED BY <4>2, <4>3
    <3> QED BY <2>2, <3>1, <3>2, <3>3 DEF AbortInv
  <2> QED BY <1>c, <2>1, <2>2
<1>9. BarrierInv'
  <2>1. pc' = [pc EXCEPT ![t] = pc'[t]] /\ pc'[t] \in ComputePcs \cup {"barrier"}
    BY <1>0, <1>1 DEF ComputePcs
  <2> QED BY <1>1, <2>1, ComputeBarrier DEF ComputePcs
<1>10. TypeOK' BY ComputeType DEF Compute, IInv
<1>11. Steady BY <1>2, <1>3, <1>6 DEF Steady, Working, Team
<1> QED BY <1>7, <1>8, <1>9, <1>10, <1>11 DEF IInv

\* A step inside the barrier or out of it goes no further in an aborted graph.
LEMMA AbortAtBarrier ==
    ASSUME IInv, NEW t \in Threads, pc[t] \in BarrierPcs,
           NEW where \in BarrierPcs \cup {after[t]}, pc' = [pc EXCEPT ![t] = where],
           UNCHANGED <<shared, result, node, after>>,
           \A u \in Threads : Busy(u)' => Busy(u)
    PROVE  AbortInv'
<1>0. pc \in [Threads -> AllPcs] /\ after \in [Threads -> {"next", "chunk", "return", "top"}]
  BY DEF IInv, TypeOK, PcTypeOK, AllPcs
<1>1. /\ pc'[t] = where /\ (\A u \in Threads \ {t} : pc'[u] = pc[u])
      /\ UNCHANGED <<ec, abort, cgraph, node, after, n_threads_cur>>
  BY <1>0 DEF shared, result
<1>2. Team' = Team /\ Team \subseteq Threads BY <1>1 DEF Team
<1>3. after[t] = "return" <=> (where = "return" \/ (where \in BarrierPcs /\ after[t] = "return"))
  BY <1>0 DEF BarrierPcs
<1>4. ec = "ABORTED" =>
        \/ pc'[0] \in CallerPcs \ {"kickoff", "announce", "broadcast"}
        \/ pc'[0] = "next" /\ node[0] = abort
        \/ pc'[0] \in BarrierPcs /\ (after[0] = "return" \/ (after[0] = "next" /\ node[0] = abort))
  <2>1. CASE t = 0
    <3>1. pc[0] \notin CallerPcs /\ pc[0] # "next" BY <2>1 DEF BarrierPcs, CallerPcs
    <3> QED BY <1>1, <2>1, <3>1 DEF IInv, AbortInv, CallerPcs
  <2>2. CASE t # 0
    <3>1. pc'[0] = pc[0] BY <1>1, <2>2, ZeroIsThread
    <3> QED BY <3>1 DEF IInv, AbortInv
  <2> QED BY <2>1, <2>2
<1>5. ASSUME ec = "ABORTED", NEW u \in Team, Busy(u)' PROVE NotBeyond(u)'
  <2>1. NotBeyond(u) BY <1>2, <1>5 DEF IInv, AbortInv
  <2>2. CASE u = t
    <3>1. pc[t] # "enter" /\ node[t] <= abort BY <2>1, <2>2 DEF NotBeyond, BarrierPcs
    <3>2. after[t] = "chunk" => node[t] < abort BY <2>1, <2>2 DEF NotBeyond
    <3>3. pc'[t] \in {"chunk", "grab", "computed"} => after[t] = "chunk"
      BY <1>0, <1>1 DEF BarrierPcs
    <3> QED BY <1>1, <2>2, <3>1, <3>2, <3>3 DEF NotBeyond
  <2>3. CASE u # t BY <1>1, <1>2, <2>1, <2>3 DEF NotBeyond
  <2> QED BY <2>2, <2>3
<1>6. AbortInv BY DEF IInv
<1> QED BY <1>1, <1>2, <1>4, <1>5, <1>6 DEF AbortInv

\* The only thread of its team passes the barrier without a stop.
LEMMA AloneStep ==
    ASSUME IInv, NEW t \in Threads, EnterBarrier(t), n_threads_cur = 1
    PROVE  IInv'
<1> USE DEF EnterBarrier, Goto
<1>0. pc \in [Threads -> AllPcs] /\ after \in [Threads -> {"next", "chunk", "return", "top"}]
  BY DEF IInv, TypeOK, PcTypeOK, AllPcs
<1>1. /\ pc[t] = "barrier" /\ pc' = [pc EXCEPT ![t] = after[t]]
      /\ UNCHANGED <<caller, shared, result, waiting, work, locked, after>> /\ UNCHANGED barrier
  BY DEF barrier
<1>2. Team = {0} /\ t = 0 /\ pool # "none" /\ n_graph # 0 /\ n_threads_cur = Width
  <2>1. t \in Team /\ pool # "none" /\ n_graph # 0 /\ 0 \in Team /\ n_threads_cur = Width
    BY <1>1, ComputingFacts DEF BarrierPcs
  <2> QED BY <2>1 DEF Team, Threads
<1>3. pc[0] = "barrier" /\ pc'[0] = after[0] /\ \A u \in Workers : pc'[u] = pc[u]
  BY <1>0, <1>1, <1>2, ZeroIsThread
<1>4. Busy(0) /\ PlaceInv(0) /\ after[0] # "top"
  BY <1>3, ZeroIsThread DEF Busy, IInv, ThreadInv, BarrierPcs
<1>5. after[0] \in {"next", "chunk", "return"} BY <1>0, <1>4, ZeroIsThread
<1> HIDE DEF EnterBarrier, Goto
<1>6. Team' = Team /\ Width' = Width BY <1>1 DEF Team, Width, shared, caller
<1>7. \A u \in Workers : Busy(u)' <=> Busy(u) BY <1>1, <1>3 DEF Busy, barrier
<1>8. PoolInv'
  <2>1. locked' <=> pc'[0] \in {"announce", "broadcast", "unpause"}
    BY <1>1, <1>3, <1>5 DEF IInv, PoolInv
  <2>2. pc'[0] \notin {"unpause", "join"} /\ pc[0] \notin {"unpause", "join"}
    BY <1>3, <1>5
  <2>4. \A u \in asleep' : pc'[u] \in {"top", "lock"}
    BY <1>1, <1>3 DEF IInv, PoolInv, TypeOK, waiting
  <2> QED BY <1>1, <1>2, <1>6, <2>1, <2>2, <2>4 DEF IInv, PoolInv, shared, caller
<1>9. WorkInv' BY <1>2, <1>6 DEF WorkInv
<1>10. ThreadInv'
  <2>1. \A u \in Workers : u \notin Team' => pc'[u] \in WaitPcs
    BY <1>3, <1>6 DEF IInv, ThreadInv
  <2>2. \A u \in Workers : Busy(u)' => last_graph'[u] = n_graph'
    BY <1>1, <1>7 DEF IInv, ThreadInv, shared, waiting
  <2>3. Team' \ {0} = {} BY <1>2, <1>6
  <2>4. \A u \in Workers : PlaceInv(u)' <=> PlaceInv(u)
    BY <1>1, <1>3 DEF PlaceInv, IsMatMul, work, result
  <2>5. Busy(0)' => PlaceInv(0)'
    <3>1. UNCHANGED <<node, cgraph, after>> BY <1>1 DEF work, result
    <3> QED BY <1>3, <1>4, <1>5, <3>1 DEF PlaceInv, IsMatMul, BarrierPcs, Busy, ComputePcs
  <2>6. \A u \in Threads : Busy(u)' => PlaceInv(u)'
    BY <1>7, <2>4, <2>5, ZeroIsThread DEF IInv, ThreadInv, Workers
  <2>7. \A u \in Threads : pc'[u] \in BarrierPcs => after'[u] # (IF u = 0 THEN "top" ELSE "return")
    <3>1. pc'[0] \notin BarrierPcs BY <1>3, <1>5 DEF BarrierPcs
    <3>2. \A u \in Workers : pc'[u] \in BarrierPcs => after'[u] # "return"
      BY <1>1, <1>3, ZeroIsThread DEF IInv, ThreadInv
    <3> QED BY <3>1, <3>2 DEF Workers
  <2> QED BY <1>2, <1>6, <2>1, <2>2, <2>3, <2>6, <2>7 DEF ThreadInv
<1>11. AbortInv'
  <2>1. \A u \in Threads : Busy(u)' => Busy(u) BY <1>4, <1>7 DEF Workers
  <2>2. pc[t] \in BarrierPcs /\ UNCHANGED <<shared, result, node, after>>
    BY <1>1 DEF BarrierPcs, work
  <2> QED BY <1>1, <2>1, <2>2, AbortAtBarrier
<1>12. BarrierInv'
  <2>1. \A u \in Threads : (pc[u] \in {"arrive", "spin", "last", "release"} \/
                            pc'[u] \in {"arrive", "spin", "last", "release"}) => pc'[u] = pc[u]
    BY <1>3, <1>5 DEF Workers
  <2> QED BY <1>1, <1>6, <2>1, BarrierFrame DEF IInv
<1>13. TypeOK' BY BarrierType DEF Barrier, IInv
<1> QED BY <1>8, <1>9, <1>10, <1>11, <1>12, <1>13 DEF IInv

\* A busy thread goes on inside the barrier that it is at, which stays closed.
LEMMA InBarrier ==
    ASSUME IInv, NEW t \in Threads, pc[t] \in {"barrier", "arrive", "last"},
           NEW where \in {"arrive", "spin", "last", "release"}, pc' = [pc EXCEPT ![t] = where],
           n_passed'[t] = n_barrier_passed \/ where # "spin",
           \A u \in Threads \ {t} : n_passed'[u] = n_passed[u],
           UNCHANGED <<caller, shared, result, n_barrier_passed, waiting, work, locked, after>>
    PROVE  PoolInv' /\ WorkInv' /\ ThreadInv' /\ AbortInv' /\ Steady
<1>0. pc \in [Threads -> AllPcs] BY DEF IInv, TypeOK, PcTypeOK, AllPcs
<1>1. /\ pc'[t] = where
      /\ UNCHANGED <<node, cgraph, after, ec, abort, n_graph, n_barrier_passed, last_graph>>
  BY <1>0 DEF work, result, shared, waiting
<1>2. Busy(t) /\ Busy(t)' BY <1>1 DEF Busy, BarrierPcs
<1>3. \A u \in Threads \ {t} :
              /\ Busy(u)' <=> Busy(u)
              /\ Working(u)' <=> Working(u)
              /\ Phase(u)' = Phase(u)
              /\ PlaceInv(u)' <=> PlaceInv(u)
              /\ NotBeyond(u)' <=> NotBeyond(u)
              /\ after'[u] = after[u]
  BY <1>0, <1>1, OthersFrame
<1>p. PlaceInv(t) /\ ~Called(t) BY <1>2, BusyFacts
<1>4. PlaceInv(t)' BY <1>1, <1>p DEF PlaceInv, IsMatMul, BarrierPcs
<1>5. ~Called(t)' BY <1>1, <1>2 DEF Called
<1>6. Phase(t)' = Phase(t)
  <2>1. ~Released(t) /\ ~Released(t)' BY <1>1 DEF Released
  <2>2. EndPhase' = EndPhase /\ \A k : LastPhase(k)' = LastPhase(k)
    BY <1>1 DEF EndPhase, LastPhase, IsMatMul
  <2> QED BY <1>1, <1>5, <1>p, <2>1, <2>2 DEF Phase
<1>7. PoolInv' /\ WorkInv' /\ ThreadInv'
  <2>1. where \in ComputePcs \cup BarrierPcs BY DEF BarrierPcs
  <2>2. after'[t] # (IF t = 0 THEN "top" ELSE "return")
    BY <1>1 DEF IInv, ThreadInv, BarrierPcs
  <2> QED BY <1>1, <1>2, <1>3, <1>4, <1>6, <2>1, <2>2, InPhase DEF result
<1>8. AbortInv'
  <2>1. pc[t] \in BarrierPcs /\ where \in BarrierPcs BY DEF BarrierPcs
  <2> QED BY <1>1, <1>2, <1>3, <2>1, AbortAtBarrier
<1>9. Steady BY <1>2, <1>3, <1>6 DEF Steady, Working, Team
<1> QED BY <1>7, <1>8, <1>9

LEMMA EnterBarrierStep == ASSUME IInv, NEW t \in Threads, EnterBarrier(t)
                      PROVE IInv' /\ (n_threads_cur # 1 => Steady)
<1>1. CASE n_threads_cur = 1 BY <1>1, AloneStep
<1>2. CASE n_threads_cur # 1
  <2>0. /\ pc \in [Threads -> AllPcs] /\ n_passed \in [Threads -> Nat]
    BY DEF IInv, TypeOK, PcTypeOK, AllPcs
  <2>1. /\ pc[t] = "barrier" /\ pc' = [pc EXCEPT ![t] = "arrive"]
        /\ n_passed' = [n_passed EXCEPT ![t] = n_barrier_passed]
        /\ UNCHANGED <<caller, shared, result, n_barrier, n_barrier_passed, arrived, waiting,
                       work, locked, after>>
    BY <1>2 DEF EnterBarrier, Goto
  <2>2. PoolInv' /\ WorkInv' /\ ThreadInv' /\ AbortInv' /\ Steady BY <2>0, <2>1, InBarrier
  <2>3. t \in Team BY <2>1, ComputingFacts DEF BarrierPcs
  <2>4. Team' = Team BY <2>1 DEF Team, shared
  <2>5. BarrierInv'
    <3>1. Ahead' = Ahead BY <2>1, <2>4 DEF Ahead
    <3>2. arrived[t] = n_barrier_passed
      <4>1. t \notin Ahead BY <2>1 DEF IInv, BarrierInv
      <4> QED BY <2>3, <4>1 DEF IInv, BarrierInv, Ahead
    <3>3. pc'[t] = "arrive" /\ n_passed'[t] = n_barrier_passed
          /\ \A u \in Threads \ {t} : pc'[u] = pc[u] /\ n_passed'[u] = n_passed[u]
      BY <2>0, <2>1
    <3>4. \A u \in Threads \ {t} : Released(u)' <=> Released(u) BY <2>1, <3>3 DEF Released
    <3>5. \A u \in Threads : (pc'[u] \in {"last", "release"} <=> pc[u] \in {"last", "release"})
                             /\ (pc'[u] = "release" <=> pc[u] = "release")
      BY <2>1, <3>3
    <3>6. \A u \in Ahead : pc'[u] \in {"spin", "last", "release"}
      BY <2>1, <3>3 DEF IInv, BarrierInv, Ahead, Team
    <3>7. n_barrier' = IF \E u \in Threads : pc'[u] = "release" THEN 0 ELSE Cardinality(Ahead)
      BY <2>1, <3>5 DEF IInv, BarrierInv
    <3>8. \A u \in Threads : pc'[u] = "arrive" =>
            n_passed'[u] = n_barrier_passed /\ arrived[u] = n_barrier_passed
      BY <3>2, <3>3 DEF IInv, BarrierInv
    <3>9. \A u \in Threads : pc'[u] = "spin" =>
            IF Released(u)' THEN arrived[u] = n_barrier_passed ELSE arrived[u] = n_barrier_passed + 1
      BY <3>3, <3>4 DEF IInv, BarrierInv
    <3> QED BY <2>1, <2>4, <3>1, <3>5, <3>6, <3>7, <3>8, <3>9 DEF IInv, BarrierInv
  <2>6. TypeOK' BY BarrierType DEF Barrier, IInv
  <2> QED BY <2>2, <2>5, <2>6 DEF IInv
<1> QED BY <1>1, <1>2

LEMMA ArriveStep == ASSUME IInv, NEW t \in Threads, Arrive(t) PROVE IInv' /\ Steady
<1>0. pc \in [Threads -> AllPcs] /\ arrived \in [Threads -> Nat] /\ n_barrier_passed \in Nat
      /\ n_barrier \in Nat /\ n_threads_cur \in Nat
  BY DEF IInv, TypeOK, PcTypeOK, AllPcs
<1>1. /\ pc[t] = "arrive" /\ n_barrier' = n_barrier + 1
      /\ arrived' = [arrived EXCEPT ![t] = @ + 1]
      /\ pc' = [pc EXCEPT ![t] = IF n_barrier = n_threads_cur - 1 THEN "last" ELSE "spin"]
      /\ UNCHANGED <<caller, shared, result, n_barrier_passed, n_passed, waiting, work,
                     locked, after>>
  BY DEF Arrive, Goto
<1>2. t \in Team BY <1>1, ComputingFacts DEF BarrierPcs
<1>3. Team' = Team /\ Team \subseteq Threads BY <1>1 DEF Team, shared
<1>4. n_passed[t] = n_barrier_passed /\ arrived[t] = n_barrier_passed
  BY <1>1 DEF IInv, BarrierInv
<1>5. PoolInv' /\ WorkInv' /\ ThreadInv' /\ AbortInv' /\ Steady
  <2> DEFINE where == IF n_barrier = n_threads_cur - 1 THEN "last" ELSE "spin"
  <2>1. where \in {"arrive", "spin", "last", "release"} OBVIOUS
  <2>2. pc' = [pc EXCEPT ![t] = where] BY <1>1
  <2> HIDE DEF where
  <2> QED BY <1>1, <1>4, <2>1, <2>2, InBarrier
<1>6. \A u \in Threads : pc[u] \notin {"last", "release"}
  BY <1>1, <1>2 DEF IInv, BarrierInv
<1>7. /\ arrived'[t] = n_barrier_passed + 1
      /\ \A u \in Threads \ {t} : arrived'[u] = arrived[u] /\ pc'[u] = pc[u]
  BY <1>0, <1>1, <1>4
<1>8. Ahead' = Ahead \cup {t} /\ t \notin Ahead
  <2>1. n_barrier_passed' = n_barrier_passed /\ arrived[t] # n_barrier_passed + 1
    BY <1>0, <1>1, <1>4
  <2> QED BY <1>2, <1>3, <1>7, <2>1 DEF Ahead
<1>9. /\ IsFiniteSet(Team) /\ Cardinality(Team) = n_threads_cur /\ Ahead \subseteq Team
      /\ IsFiniteSet(Ahead) /\ Cardinality(Ahead) = n_barrier
  <2>1. IsFiniteSet(Team) /\ Cardinality(Team) = n_threads_cur BY TeamFacts DEF IInv
  <2>2. Ahead \subseteq Team BY DEF Ahead
  <2>3. n_barrier = Cardinality(Ahead) BY <1>6 DEF IInv, BarrierInv
  <2> QED BY <2>1, <2>2, <2>3, FS_Subset
<1>10. Cardinality(Ahead') = n_barrier + 1 BY <1>8, <1>9, FS_AddElement
<1>11. Ahead' = Team <=> n_barrier = n_threads_cur - 1
  <2>1. Ahead' \subseteq Team BY <1>2, <1>8, <1>9
  <2>2. Cardinality(Ahead') = Cardinality(Team) => Ahead' = Team BY <1>9, <2>1, FS_Subset
  <2>3. Ahead' = Team => n_barrier + 1 = n_threads_cur BY <1>9, <1>10
  <2> QED BY <1>0, <1>9, <1>10, <2>2, <2>3
<1>12. pc'[t] = IF Ahead' = Team THEN "last" ELSE "spin" BY <1>0, <1>1, <1>11
<1>13. BarrierInv'
  <2>1. \A u \in Team' : arrived'[u] \in {n_barrier_passed', n_barrier_passed' + 1}
    BY <1>1, <1>3, <1>7 DEF IInv, BarrierInv
  <2>2. \A u \in Threads : pc'[u] = "arrive" =>
          n_passed'[u] = n_barrier_passed' /\ arrived'[u] = n_barrier_passed'
    BY <1>1, <1>7, <1>12 DEF IInv, BarrierInv
  <2>3. \A u \in Threads : pc'[u] = "spin" =>
          IF Released(u)' THEN arrived'[u] = n_barrier_passed' ELSE arrived'[u] = n_barrier_passed' + 1
    <3> SUFFICES ASSUME NEW u \in Threads, pc'[u] = "spin"
                 PROVE  IF Released(u)' THEN arrived'[u] = n_barrier_passed'
                                        ELSE arrived'[u] = n_barrier_passed' + 1
      OBVIOUS
    <3>1. CASE u = t BY <1>1, <1>4, <1>7, <3>1 DEF Released
    <3>2. CASE u # t
      <4>1. pc[u] = "spin" /\ arrived'[u] = arrived[u] BY <1>7, <3>2
      <4>2. Released(u)' <=> Released(u) BY <1>1, <1>7, <3>2 DEF Released
      <4> QED BY <1>1, <4>1, <4>2 DEF IInv, BarrierInv
    <3> QED BY <3>1, <3>2
  <2>4. \A u \in Ahead' : pc'[u] \in {"spin", "last", "release"}
    BY <1>3, <1>7, <1>8, <1>9, <1>12 DEF IInv, BarrierInv
  <2>5. \A u \in Threads : pc'[u] \in {"last", "release"} => u = t /\ pc'[u] = "last" /\ Ahead' = Team
    BY <1>6, <1>7, <1>12
  <2>6. n_barrier' = IF \E u \in Threads : pc'[u] = "release" THEN 0 ELSE Cardinality(Ahead')
    BY <1>1, <1>10, <2>5
  <2>7. (\A u \in Threads : pc'[u] \notin {"last", "release"}) => Ahead' # Team
    BY <1>12
  <2> HIDE DEF Ahead
  <2>8. \A u \in Threads : pc'[u] \in {"last", "release"} => Ahead' = Team' /\ u \in Team'
    BY <1>2, <1>3, <2>5
  <2>9. \A u, v \in Threads : pc'[u] \in {"last", "release"} /\ pc'[v] \in {"last", "release"} => u = v
    BY <2>5
  <2> QED BY <1>3, <2>1, <2>2, <2>3, <2>4, <2>6, <2>7, <2>8, <2>9 DEF BarrierInv
<1>14. TypeOK' BY BarrierType DEF Barrier, IInv
<1> QED BY <1>5, <1>13, <1>14 DEF IInv

LEMMA ResetBarrierStep == ASSUME IInv, NEW t \in Threads, ResetBarrier(t) PROVE IInv' /\ Steady
<1>0. pc \in [Threads -> AllPcs] BY DEF IInv, TypeOK, PcTypeOK, AllPcs
<1>1. /\ pc[t] = "last" /\ n_barrier' = 0 /\ pc' = [pc EXCEPT ![t] = "release"]
      /\ UNCHANGED <<caller, shared, result, n_barrier_passed, n_passed, arrived, waiting, work,
                     locked, after>>
  BY DEF ResetBarrier, Goto
<1>2. PoolInv' /\ WorkInv' /\ ThreadInv' /\ AbortInv' /\ Steady BY <1>1, InBarrier
<1>3. Team' = Team /\ Ahead' = Ahead BY <1>1 DEF Team, Ahead, shared
<1>4. pc'[t] = "release" /\ \A u \in Threads \ {t} : pc'[u] = pc[u] BY <1>0, <1>1
<1>5. BarrierInv'
  <2>1. \A u \in Threads : Released(u)' <=> Released(u) BY <1>1, <1>4 DEF Released
  <2>2. \A u \in Threads : pc'[u] \in {"last", "release"} => u = t
    BY <1>1, <1>4 DEF IInv, BarrierInv
  <2>3. Ahead = Team /\ t \in Team BY <1>1 DEF IInv, BarrierInv
  <2>4. \A u \in Ahead : pc'[u] \in {"spin", "last", "release"}
    BY <1>4 DEF IInv, BarrierInv, Ahead, Team
  <2>5. \A u \in Threads : pc'[u] = "arrive" =>
          n_passed'[u] = n_barrier_passed' /\ arrived'[u] = n_barrier_passed'
    BY <1>1, <1>4 DEF IInv, BarrierInv
  <2>6. \A u \in Threads : pc'[u] = "spin" =>
          IF Released(u)' THEN arrived'[u] = n_barrier_passed' ELSE arrived'[u] = n_barrier_passed' + 1
    BY <1>1, <1>4, <2>1 DEF IInv, BarrierInv
  <2>7. \A u \in Team' : arrived'[u] \in {n_barrier_passed', n_barrier_passed' + 1}
    BY <1>1, <1>3 DEF IInv, BarrierInv
  <2> QED BY <1>1, <1>3, <1>4, <2>2, <2>3, <2>4, <2>5, <2>6, <2>7 DEF BarrierInv
<1>6. TypeOK' BY BarrierType DEF Barrier, IInv
<1> QED BY <1>2, <1>5, <1>6 DEF IInv

\* Two threads that wait at one barrier go on to the same place of the graph.
LEMMA SamePlace ==
    ASSUME IInv, NEW t \in Team, NEW u \in Team, Phase(t) = Phase(u),
           pc[t] \in BarrierPcs, pc[u] \in BarrierPcs,
           Busy(t), Busy(u), ~Released(t), ~Released(u)
    PROVE  /\ after[t] = "chunk" <=> after[u] = "chunk"
           /\ after[t] = "next" <=> after[u] = "next"
           /\ after[t] \in {"chunk", "next"} => node[t] = node[u]
<1>0. t \in Threads /\ u \in Threads /\ node \in [Threads -> Nat] /\ Len(cgraph) \in Nat
      /\ abort \in Int
  BY DEF Team, IInv, TypeOK
<1>1. \A v \in {t, u} : pc[v] \notin ComputePcs /\ ~Called(v) /\ PlaceInv(v)
  BY <1>0, BusyFacts DEF ComputePcs, BarrierPcs
<1>2. \A v \in {t, u} : Phase(v) = IF after[v] = "chunk" THEN <<node[v], 0>>
                                 ELSE IF after[v] = "next" THEN LastPhase(node[v] - 1)
                                 ELSE EndPhase
  BY <1>1 DEF Phase, ComputePcs
<1>3. \A v \in {t, u} : after[v] = "chunk" => IsMatMul(node[v]) /\ node[v] < Len(cgraph)
  BY <1>1 DEF PlaceInv
<1>4. \A v \in {t, u} : after[v] = "next" => node[v] > 0 /\ node[v] < Len(cgraph)
  BY <1>1 DEF PlaceInv
<1>5. ASSUME NEW v \in {t, u}, NEW w \in {t, u}, after[v] = "chunk", after[w] # "chunk",
             Phase(v) = Phase(w)
      PROVE  FALSE
  <2>1. CASE after[w] = "next"
    <3>1. <<node[v], 0>> = LastPhase(node[w] - 1) BY <1>2, <1>5, <2>1
    <3>2. node[v] = node[w] - 1 /\ ~IsMatMul(node[w] - 1) BY <3>1 DEF LastPhase
    <3> QED BY <1>3, <1>5, <3>2
  <2>2. CASE after[w] # "next"
    <3>1. <<node[v], 0>> = EndPhase BY <1>2, <1>5, <2>2
    <3>2. CASE ec = "ABORTED" /\ abort < Len(cgraph)
      <4>1. node[v] = abort BY <3>1, <3>2 DEF EndPhase
      <4>2. node[v] < abort BY <1>5, <3>2 DEF IInv, AbortInv, NotBeyond
      <4> QED BY <1>0, <4>1, <4>2
    <3>3. CASE ~(ec = "ABORTED" /\ abort < Len(cgraph))
      <4>1. Len(cgraph) # 0 BY <1>0, <1>3, <1>5
      <4>2. <<node[v], 0>> = LastPhase(Len(cgraph) - 1) BY <3>1, <3>3, <4>1 DEF EndPhase
      <4>3. node[v] = Len(cgraph) - 1 /\ ~IsMatMul(Len(cgraph) - 1) BY <4>2 DEF LastPhase
      <4> QED BY <1>3, <1>5, <4>3
    <3> QED BY <3>2, <3>3
  <2> QED BY <2>1, <2>2
<1>6. ASSUME NEW v \in {t, u}, NEW w \in {t, u}, after[v] = "next", after[w] \notin {"next", "chunk"},
             Phase(v) = Phase(w)
      PROVE  FALSE
  <2>1. LastPhase(node[v] - 1) = EndPhase BY <1>2, <1>6
  <2>2. CASE ec = "ABORTED" /\ abort < Len(cgraph)
    <3>1. node[v] - 1 = abort BY <2>1, <2>2 DEF EndPhase, LastPhase
    <3>2. node[v] <= abort
      BY <1>1, <1>6, <2>2 DEF IInv, AbortInv, NotBeyond, ComputePcs
    <3> QED BY <1>0, <3>1, <3>2
  <2>3. CASE ~(ec = "ABORTED" /\ abort < Len(cgraph))
    <3>1. Len(cgraph) # 0 BY <1>0, <1>4, <1>6
    <3>2. LastPhase(node[v] - 1) = LastPhase(Len(cgraph) - 1) BY <2>1, <2>3, <3>1 DEF EndPhase
    <3>3. node[v] - 1 = Len(cgraph) - 1 BY <3>2 DEF LastPhase
    <3> QED BY <1>0, <1>4, <1>6, <3>3
  <2> QED BY <2>2, <2>3
<1>7. after[t] = "chunk" <=> after[u] = "chunk" BY <1>5
<1>8. after[t] = "next" <=> after[u] = "next" BY <1>6, <1>7
<1>9. ASSUME after[t] \in {"chunk", "next"} PROVE node[t] = node[u]
  <2>1. CASE after[t] = "chunk"
    <3>1. <<node[t], 0>> = <<node[u], 0>> BY <1>2, <1>7, <2>1
    <3> QED BY <3>1
  <2>2. CASE after[t] = "next"
    <3>1. LastPhase(node[t] - 1) = LastPhase(node[u] - 1) BY <1>2, <1>8, <2>2
    <3>2. node[t] - 1 = node[u] - 1 BY <3>1 DEF LastPhase
    <3> QED BY <1>0, <3>2
  <2> QED BY <1>9, <2>1, <2>2
<1> QED BY <1>7, <1>8, <1>9

LEMMA ReleaseBarrierStep == ASSUME IInv, NEW t \in Threads, ReleaseBarrier(t) PROVE IInv'
<1>0. /\ pc \in [Threads -> AllPcs] /\ after \in [Threads -> {"next", "chunk", "return", "top"}]
      /\ n_barrier_passed \in Nat /\ node \in [Threads -> Nat] /\ Len(cgraph) \in Nat
  BY DEF IInv, TypeOK, PcTypeOK, AllPcs
<1>1. /\ pc[t] = "release" /\ n_barrier_passed' = n_barrier_passed + 1
      /\ pc' = [pc EXCEPT ![t] = after[t]]
      /\ UNCHANGED <<caller, shared, result, n_barrier, n_passed, arrived, waiting, work,
                     locked, after>>
  BY DEF ReleaseBarrier, Goto
<1>e. UNCHANGED <<node, cgraph, ec, abort, after, n_passed, n_graph, last_graph, n_threads_cur>>
  BY <1>1 DEF work, result, shared, waiting
<1>2. /\ pool # "none" /\ n_graph # 0 /\ n_threads_cur = Width /\ t \in Team /\ 0 \in Team
  BY <1>1, ComputingFacts DEF BarrierPcs
<1>3. Team' = Team /\ Width' = Width /\ Team \subseteq Threads BY <1>1 DEF Team, Width, shared, caller
<1>4. pc'[t] = after[t] /\ \A u \in Threads \ {t} : pc'[u] = pc[u] BY <1>0, <1>1
\* Everybody else waits at the barrier that opens.
<1>5. Ahead = Team BY <1>1 DEF IInv, BarrierInv
<1>6. \A u \in Team : /\ arrived[u] = n_barrier_passed + 1
                      /\ u # t => pc[u] = "spin" /\ n_passed[u] = n_barrier_passed
  <2> SUFFICES ASSUME NEW u \in Team
               PROVE  /\ arrived[u] = n_barrier_passed + 1
                      /\ u # t => pc[u] = "spin" /\ n_passed[u] = n_barrier_passed
    OBVIOUS
  <2>1. arrived[u] = n_barrier_passed + 1 BY <1>5 DEF Ahead
  <2>2. u # t => pc[u] = "spin" BY <1>1, <1>3, <1>5 DEF IInv, BarrierInv
  <2>3. pc[u] = "spin" => ~Released(u) BY <1>0, <1>3, <2>1 DEF IInv, BarrierInv
  <2> QED BY <2>1, <2>2, <2>3 DEF Released
<1>7. \A u \in Team : Busy(u) /\ ~Released(u) /\ pc[u] \in BarrierPcs /\ Phase(u) = Phase(t)
                      /\ PlaceInv(u) /\ ~Called(u)
  <2>1. \A u \in Team : Busy(u) /\ ~Released(u) /\ pc[u] \in BarrierPcs
    BY <1>1, <1>6 DEF Busy, Released, BarrierPcs
  <2>2. \A u \in Team : Phase(u) = Phase(t)
    BY <1>2, <2>1 DEF Working, IInv, WorkInv
  <2>3. \A u \in Team : PlaceInv(u) /\ ~Called(u) BY <1>3, <2>1, BusyFacts
  <2> QED BY <2>1, <2>2, <2>3
<1>8. \A u \in Team : /\ after[u] = "chunk" <=> after[t] = "chunk"
                      /\ after[u] = "next" <=> after[t] = "next"
                      /\ after[t] \in {"chunk", "next"} => node[u] = node[t]
  BY <1>1, <1>2, <1>7, SamePlace
<1>9. \A u \in Team \ {t} : Released(u)' BY <1>0, <1>1, <1>4, <1>3, <1>6 DEF Released
<1>10. \A u \in Team : Busy(u)' <=> after[t] \in {"chunk", "next"}
  <2> SUFFICES ASSUME NEW u \in Team PROVE Busy(u)' <=> after[t] \in {"chunk", "next"} OBVIOUS
  <2>1. CASE u = t
    <3>1. pc'[t] \in {"next", "chunk", "return", "top"} /\ pc'[t] = after[t] BY <1>0, <1>3, <1>4
    <3> QED BY <2>1, <3>1 DEF Busy, ComputePcs, BarrierPcs
  <2>2. CASE u # t
    <3>1. pc'[u] = "spin" /\ n_barrier_passed' # n_passed'[u] /\ after'[u] = after[u]
      BY <1>3, <1>4, <1>6, <1>9, <1>e, <2>2 DEF Released
    <3> QED BY <1>8, <3>1 DEF Busy, ComputePcs, BarrierPcs
  <2> QED BY <2>1, <2>2
<1>11. \A u \in Workers : u \notin Team => ~Busy(u)' /\ pc[u] \in WaitPcs /\ pc'[u] = pc[u]
  <2>1. \A u \in Workers : u \notin Team => pc[u] \in WaitPcs /\ pc'[u] = pc[u]
    BY <1>2, <1>4, ZeroIsThread DEF IInv, ThreadInv
  <2> QED BY <2>1 DEF Busy, WaitPcs, ComputePcs, BarrierPcs
<1>12. \A u \in Threads : Busy(u)' => Busy(u)
  BY <1>2, <1>7, <1>11 DEF Workers
\* They all go on to the same phase, or all home.
<1>13. WorkInv'
  <2>1. \A u \in Team : ~Called(u)'
    <3>1. \A u \in Team : u # 0 => last_graph[u] = n_graph
      BY <1>7, <1>3 DEF IInv, ThreadInv, Workers
    <3>2. pc'[0] # "broadcast"
      <4>1. t = 0 => pc'[0] \in {"next", "chunk", "return", "top"} BY <1>0, <1>4
      <4>2. t # 0 => pc'[0] = "spin" BY <1>2, <1>4, <1>6, ZeroIsThread
      <4> QED BY <4>1, <4>2
    <3> QED BY <1>e, <3>1, <3>2 DEF Called
  <2>2. CASE after[t] \notin {"chunk", "next"}
    BY <1>3, <1>10, <2>1, <2>2 DEF WorkInv, Working
  <2>3. CASE after[t] \in {"chunk", "next"}
    <3>1. \A u \in Team : Phase(u)' = <<node[t], IF after[t] = "chunk" THEN 1 ELSE 0>>
      <4> SUFFICES ASSUME NEW u \in Team
                   PROVE  Phase(u)' = <<node[t], IF after[t] = "chunk" THEN 1 ELSE 0>>
        OBVIOUS
      <4>1. ~Called(u)' BY <2>1
      <4>2. CASE u = t
        <5>1. CASE after[t] = "chunk"
          BY <1>4, <1>e, <4>1, <4>2, <5>1 DEF Phase
        <5>2. CASE after[t] = "next"
          <6>1. node[t] < Len(cgraph) BY <1>2, <1>7, <5>2 DEF PlaceInv
          <6>2. Phase(t)' = NextPhase(node[t])' BY <1>4, <4>1, <4>2, <5>2 DEF Phase
          <6>3. NextPhase(node[t])' = <<node[t], 0>> BY <1>0, <1>e, <6>1 DEF NextPhase
          <6> QED BY <4>2, <5>2, <6>2, <6>3
        <5> QED BY <2>3, <5>1, <5>2
      <4>3. CASE u # t
        <5>1. Released(u)' /\ pc'[u] = "spin" BY <1>9, <4>3 DEF Released
        <5>2. after'[u] = after[u] /\ node'[u] = node[u] BY <1>e
        <5>3. Phase(u)' = <<node[u], IF after[u] = "chunk" THEN 1 ELSE 0>>
          BY <4>1, <5>1, <5>2 DEF Phase
        <5> QED BY <1>8, <2>3, <5>3
      <4> QED BY <4>2, <4>3
    <3> QED BY <1>3, <1>10, <2>3, <3>1 DEF WorkInv, Working
  <2> QED BY <2>2, <2>3
<1>14. PoolInv'
  <2>0. pc[0] \in BarrierPcs /\ pc'[0] \in {"next", "chunk", "return", "spin"}
    <3>1. t = 0 => pc'[0] \in {"next", "chunk", "return"}
      BY <1>0, <1>1, <1>4, ZeroIsThread DEF IInv, ThreadInv, BarrierPcs
    <3>2. t # 0 => pc'[0] = "spin" BY <1>2, <1>4, <1>6, ZeroIsThread
    <3> QED BY <1>2, <1>7, <3>1, <3>2
  <2>1. locked' <=> pc'[0] \in {"announce", "broadcast", "unpause"}
    BY <1>1, <2>0 DEF IInv, PoolInv, BarrierPcs
  <2>2. pc'[0] \notin {"unpause", "join"} /\ pc[0] \notin {"unpause", "join"}
    BY <2>0 DEF BarrierPcs
  <2>4. \A u \in asleep' : pc'[u] \in {"top", "lock"}
    BY <1>1, <1>4 DEF IInv, PoolInv, TypeOK, waiting, Workers
  <2> QED BY <1>1, <1>2, <1>3, <2>1, <2>2, <2>4 DEF IInv, PoolInv, shared, caller
<1>15. ThreadInv'
  <2>1. \A u \in Workers : u \notin Team' => pc'[u] \in WaitPcs BY <1>3, <1>11
  <2>2. \A u \in Workers : Busy(u)' => last_graph'[u] = n_graph'
    BY <1>12, <1>e, ZeroIsThread DEF IInv, ThreadInv
  <2>3. \A u \in Team' \ {0} : pc'[u] # "active"
    <3>1. \A u \in Team : pc'[u] \in {"next", "chunk", "return", "top", "spin"}
      BY <1>0, <1>3, <1>4, <1>6
    <3> QED BY <1>3, <3>1
  <2>4. \A u \in Threads : Busy(u)' => PlaceInv(u)'
    <3> SUFFICES ASSUME NEW u \in Threads, Busy(u)' PROVE PlaceInv(u)' OBVIOUS
    <3>1. u \in Team /\ PlaceInv(u) /\ pc[u] \in BarrierPcs
      BY <1>2, <1>7, <1>11 DEF Workers
    <3>2. CASE u # t
      <4>1. pc'[u] = pc[u] BY <1>4, <3>2
      <4> QED BY <1>e, <3>1, <4>1 DEF PlaceInv, IsMatMul
    <3>3. CASE u = t
      <4>1. pc'[u] = after[u] /\ after[u] \in {"next", "chunk"}
        BY <1>4, <1>10, <1>2, <3>3
      <4> QED BY <1>e, <3>1, <4>1 DEF PlaceInv, IsMatMul, BarrierPcs
    <3> QED BY <3>2, <3>3
  <2>5. \A u \in Threads : pc'[u] \in BarrierPcs => after'[u] # (IF u = 0 THEN "top" ELSE "return")
    <3>1. pc'[t] \notin BarrierPcs BY <1>0, <1>4 DEF BarrierPcs
    <3> QED BY <1>4, <1>e, <3>1 DEF IInv, ThreadInv
  <2> QED BY <1>2, <1>3, <2>1, <2>2, <2>3, <2>4, <2>5 DEF ThreadInv
<1>16. AbortInv'
  <2>1. pc[t] \in BarrierPcs /\ UNCHANGED <<shared, result, node, after>>
    BY <1>1 DEF BarrierPcs, work
  <2> QED BY <1>1, <1>12, <2>1, AbortAtBarrier
<1>17. BarrierInv'
  <2>1. \A u \in Team' : arrived'[u] = n_barrier_passed' BY <1>1, <1>3, <1>6
  <2>2. Ahead' = {} BY <1>0, <1>1, <2>1 DEF Ahead
  <2>3. \A u \in Threads : pc'[u] \notin {"arrive", "last", "release"}
    <3>1. pc'[t] \in {"next", "chunk", "return", "top"} BY <1>0, <1>4
    <3>2. \A u \in Team \ {t} : pc'[u] = "spin" BY <1>3, <1>4, <1>6
    <3>3. \A u \in Workers : u \notin Team => pc'[u] \notin {"arrive", "last", "release"}
      BY <1>11 DEF WaitPcs
    <3> QED BY <1>2, <3>1, <3>2, <3>3 DEF Workers
  <2>4. \A u \in Threads : pc'[u] = "spin" => u \in Team /\ Released(u)'
    <3>1. \A u \in Workers : u \notin Team => pc'[u] # "spin" BY <1>11 DEF WaitPcs
    <3>2. pc'[t] # "spin" BY <1>0, <1>4
    <3> QED BY <1>2, <1>9, <3>1, <3>2 DEF Workers
  <2>5. n_barrier' = 0 BY <1>1 DEF IInv, BarrierInv
  <2>6. Cardinality(Ahead') = 0 BY <2>2, FS_EmptySet
  <2>7. n_barrier' = IF \E u \in Threads : pc'[u] = "release" THEN 0 ELSE Cardinality(Ahead')
    BY <2>5, <2>6
  <2>8. Ahead' # Team' BY <1>2, <1>3, <2>2
  <2>9. \A u \in Ahead' : pc'[u] \in {"spin", "last", "release"} BY <2>2
  <2> QED BY <1>3, <2>1, <2>3, <2>4, <2>7, <2>8, <2>9 DEF BarrierInv
<1>18. TypeOK' BY BarrierType DEF Barrier, IInv
<1> QED BY <1>13, <1>14, <1>15, <1>16, <1>17, <1>18 DEF IInv

\* A thread that leaves its last barrier has nothing more to compute.
LEMMA SpinHome ==
    ASSUME IInv, NEW t \in Threads, Spin(t), after[t] \notin {"next", "chunk"}
    PROVE  PoolInv' /\ WorkInv' /\ ThreadInv' /\ AbortInv' /\ Steady
<1>0. pc \in [Threads -> AllPcs] /\ after \in [Threads -> {"next", "chunk", "return", "top"}]
  BY DEF IInv, TypeOK, PcTypeOK, AllPcs
<1>1. /\ pc[t] = "spin" /\ n_barrier_passed # n_passed[t] /\ pc' = [pc EXCEPT ![t] = after[t]]
      /\ UNCHANGED <<caller, shared, result, waiting, locked, n_barrier_passed>>
      /\ UNCHANGED <<node, cgraph, ec, abort, after, n_passed, n_graph, last_graph, n_threads_cur>>
  BY DEF Spin, Goto, barrier, work, result, shared, waiting
<1>2. /\ pool # "none" /\ n_graph # 0 /\ n_threads_cur = Width /\ t \in Team /\ 0 \in Team
  BY <1>1, ComputingFacts DEF BarrierPcs
<1>3. Team' = Team /\ Width' = Width /\ Team \subseteq Threads BY <1>1 DEF Team, Width, caller
<1>4. pc'[t] = (IF t = 0 THEN "return" ELSE "top") /\ \A u \in Threads \ {t} : pc'[u] = pc[u]
  <2>1. after[t] = IF t = 0 THEN "return" ELSE "top" BY <1>0, <1>1 DEF IInv, ThreadInv, BarrierPcs
  <2> QED BY <1>0, <1>1, <2>1
<1>5. \A u \in Threads \ {t} :
              /\ Busy(u)' <=> Busy(u)
              /\ Working(u)' <=> Working(u)
              /\ Phase(u)' = Phase(u)
              /\ PlaceInv(u)' <=> PlaceInv(u)
              /\ NotBeyond(u)' <=> NotBeyond(u)
              /\ after'[u] = after[u]
  BY <1>0, <1>1, OthersFrame
<1>6. ~Busy(t) /\ ~Busy(t)'
  <2>1. ~Busy(t) BY <1>1 DEF Busy, ComputePcs, BarrierPcs
  <2> QED BY <1>4, <2>1 DEF Busy, ComputePcs, BarrierPcs
<1>7. (Called(t)' <=> Called(t)) /\ (Called(t) => Phase(t)' = Phase(t))
  <2>1. Called(t)' <=> Called(t) BY <1>1, <1>4, <1>6 DEF Called
  <2> QED BY <2>1 DEF Phase
<1>8. PoolInv'
  <2>0. t = 0 => pc'[0] = "return" /\ pc[0] = "spin" BY <1>1, <1>4
  <2>a. t # 0 => pc'[0] = pc[0] BY <1>4, ZeroIsThread
  <2>1. locked' <=> pc'[0] \in {"announce", "broadcast", "unpause"}
    BY <1>1, <2>0, <2>a DEF IInv, PoolInv
  <2>2. pc'[0] \in {"unpause", "join"} <=> pc[0] \in {"unpause", "join"} BY <2>0, <2>a
  <2>3. pc'[0] = "join" <=> pc[0] = "join" BY <2>0, <2>a
  <2>4. \A u \in asleep' : pc'[u] \in {"top", "lock"}
    BY <1>1, <1>4 DEF IInv, PoolInv, TypeOK, waiting, Workers
  <2> QED BY <1>1, <1>2, <1>3, <2>1, <2>2, <2>3, <2>4 DEF IInv, PoolInv, shared, caller
<1>9. WorkInv'
  <2>1. \A u \in Team : (Working(u)' <=> Working(u)) /\ (Working(u) => Phase(u)' = Phase(u))
    BY <1>3, <1>5, <1>6, <1>7 DEF Working
  <2> QED BY <1>3, <2>1, WorkFrame DEF IInv
<1>10. ThreadInv'
  <2>1. \A u \in Workers : u \notin Team' => pc'[u] \in WaitPcs
    BY <1>2, <1>3, <1>4, ZeroIsThread DEF IInv, ThreadInv
  <2>2. \A u \in Workers : Busy(u)' => last_graph'[u] = n_graph'
    BY <1>1, <1>5, <1>6, ZeroIsThread DEF IInv, ThreadInv
  <2>3. \A u \in Team' \ {0} : pc'[u] = "active" =>
            new_graph'[u] = n_graph' /\ last_graph'[u] # n_graph'
    BY <1>1, <1>3, <1>4 DEF IInv, ThreadInv, waiting
  <2>4. \A u \in Threads : Busy(u)' => PlaceInv(u)' BY <1>5, <1>6 DEF IInv, ThreadInv
  <2>5. \A u \in Threads : pc'[u] \in BarrierPcs => after'[u] # (IF u = 0 THEN "top" ELSE "return")
    BY <1>1, <1>4 DEF IInv, ThreadInv, BarrierPcs
  <2> QED BY <1>2, <1>3, <2>1, <2>2, <2>3, <2>4, <2>5 DEF ThreadInv
<1>11. AbortInv'
  <2>1. pc[t] \in BarrierPcs /\ UNCHANGED <<shared, result, node, after>>
    BY <1>1 DEF BarrierPcs
  <2>2. \A u \in Threads : Busy(u)' => Busy(u) BY <1>5, <1>6
  <2> QED BY <1>1, <2>1, <2>2, AbortAtBarrier
<1>12. Steady BY <1>3, <1>5, <1>6, <1>7 DEF Steady, Working
<1> QED BY <1>8, <1>9, <1>10, <1>11, <1>12

LEMMA SpinStep == ASSUME IInv, NEW t \in Threads, Spin(t) PROVE IInv' /\ Steady
<1>0. pc \in [Threads -> AllPcs] /\ after \in [Threads -> {"next", "chunk", "return", "top"}]
      /\ node \in [Threads -> Nat] /\ n_barrier_passed \in Nat
  BY DEF IInv, TypeOK, PcTypeOK, AllPcs
<1>1. /\ pc[t] = "spin" /\ n_barrier_passed # n_passed[t] /\ pc' = [pc EXCEPT ![t] = after[t]]
      /\ UNCHANGED <<caller, shared, result, barrier, waiting, locked>>
      /\ UNCHANGED <<node, cgraph, ec, abort, after, n_passed, n_graph, last_graph, n_barrier_passed>>
  BY DEF Spin, Goto, barrier, work, result, shared, waiting
<1>2. t \in Team BY <1>1, ComputingFacts DEF BarrierPcs
<1>3. Team' = Team BY <1>1 DEF Team, shared
<1>4. pc'[t] = after[t] /\ \A u \in Threads \ {t} : pc'[u] = pc[u] BY <1>0, <1>1
<1>5. ASSUME after[t] \in {"next", "chunk"} PROVE PoolInv' /\ WorkInv' /\ ThreadInv' /\ AbortInv' /\ Steady
  <2>1. Busy(t) /\ Busy(t)' BY <1>1, <1>4, <1>5 DEF Busy, ComputePcs, BarrierPcs
  <2>2. PlaceInv(t) /\ ~Called(t) BY <2>1, BusyFacts
  <2>3. PlaceInv(t)' BY <1>1, <1>4, <1>5, <2>2 DEF PlaceInv, IsMatMul, BarrierPcs
  <2>4. ~Called(t)' BY <1>4, <1>5, <2>1 DEF Called
  <2>5. Phase(t)' = Phase(t)
    <3>1. Phase(t) = <<node[t], IF after[t] = "chunk" THEN 1 ELSE 0>>
      BY <1>1, <2>2 DEF Phase, Released
    <3>2. after[t] = "next" => node[t] < Len(cgraph) BY <1>1, <2>2 DEF PlaceInv, BarrierPcs
    <3>3. after[t] = "next" => NextPhase(node[t]) = <<node[t], 0>> BY <1>0, <3>2 DEF NextPhase
    <3> QED BY <1>1, <1>4, <1>5, <2>4, <3>1, <3>3 DEF Phase, NextPhase, LastPhase, IsMatMul
  <2>6. \A u \in Threads \ {t} :
              /\ Busy(u)' <=> Busy(u)
              /\ Working(u)' <=> Working(u)
              /\ Phase(u)' = Phase(u)
              /\ PlaceInv(u)' <=> PlaceInv(u)
              /\ NotBeyond(u)' <=> NotBeyond(u)
              /\ after'[u] = after[u]
    BY <1>0, <1>1, OthersFrame
  <2>7. PoolInv' /\ WorkInv' /\ ThreadInv'
    <3>1. after[t] \in ComputePcs \cup BarrierPcs /\ after[t] \notin BarrierPcs
      BY <1>5 DEF ComputePcs, BarrierPcs
    <3> QED BY <1>1, <2>1, <2>3, <2>5, <2>6, <3>1, InPhase
  <2>8. AbortInv'
    <3>1. pc[t] \in BarrierPcs BY <1>1 DEF BarrierPcs
    <3> QED BY <1>1, <2>1, <2>6, <3>1, AbortAtBarrier
  <2>9. Steady BY <2>1, <2>5, <2>6 DEF Steady, Working, Team
  <2> QED BY <2>7, <2>8, <2>9
<1>6. after[t] \notin {"next", "chunk"} => PoolInv' /\ WorkInv' /\ ThreadInv' /\ AbortInv' /\ Steady
  BY SpinHome
<1>7. BarrierInv'
  <2>1. Ahead' = Ahead BY <1>1, <1>3 DEF Ahead, barrier
  <2>2. t \notin Ahead
    <3>1. arrived[t] = n_barrier_passed BY <1>1 DEF IInv, BarrierInv, Released
    <3> QED BY <1>0, <3>1 DEF Ahead
  <2>3. pc'[t] \notin {"arrive", "spin", "last", "release"} BY <1>0, <1>4
  <2>4. \A u \in Threads : pc'[u] \in {"last", "release", "arrive"} <=> pc[u] \in {"last", "release", "arrive"}
    BY <1>1, <1>4, <2>3
  <2>5. \A u \in Ahead : pc'[u] \in {"spin", "last", "release"}
    BY <1>4, <2>2 DEF IInv, BarrierInv, Ahead, Team
  <2>6. (\E u \in Threads : pc'[u] = "release") <=> (\E u \in Threads : pc[u] = "release")
    BY <1>1, <1>4, <2>3
  <2>7. n_barrier' = IF \E u \in Threads : pc'[u] = "release" THEN 0 ELSE Cardinality(Ahead')
    BY <1>1, <2>1, <2>6 DEF IInv, BarrierInv, barrier
  <2>8. \A u \in Threads : pc'[u] = "spin" =>
          IF Released(u)' THEN arrived'[u] = n_barrier_passed' ELSE arrived'[u] = n_barrier_passed' + 1
    <3>1. \A u \in Threads \ {t} : Released(u)' <=> Released(u) BY <1>1, <1>4 DEF Released
    <3> QED BY <1>1, <1>4, <2>3, <3>1 DEF IInv, BarrierInv, barrier
  <2>9. \A u \in Threads : pc'[u] = "arrive" =>
          n_passed'[u] = n_barrier_passed' /\ arrived'[u] = n_barrier_passed'
    BY <1>1, <1>4, <2>3 DEF IInv, BarrierInv, barrier
  <2>10. \A u \in Threads : pc'[u] \in {"last", "release"} => pc[u] \in {"last", "release"}
    BY <1>4, <2>3
  <2>11. \A u \in Threads : pc[u] \in {"last", "release"} => pc'[u] \in {"last", "release"}
    BY <1>1, <1>4
  <2> QED BY <1>1, <1>3, <2>1, <2>5, <2>7, <2>8, <2>9, <2>10, <2>11 DEF IInv, BarrierInv, barrier
<1>8. TypeOK' BY BarrierType DEF Barrier, IInv
<1> QED BY <1>5, <1>6, <1>7, <1>8 DEF IInv

\* A worker between two graphs moves on: it is called or not as before, or it
\* has heard the call.
LEMMA WaitFrame ==
    ASSUME IInv, NEW t \in Workers, pc[t] \in WaitPcs, t \notin asleep, pool # "none",
           NEW where \in WaitPcs \cup {"enter"}, pc' = [pc EXCEPT ![t] = where],
           UNCHANGED <<caller, shared, result, barrier, work, locked, after>>,
           \A u \in Threads \ {t} : last_graph'[u] = last_graph[u] /\ new_graph'[u] = new_graph[u],
           t \in Team => \/ last_graph'[t] = last_graph[t]
                         \/ last_graph'[t] = n_graph /\ where = "enter" /\ last_graph[t] # n_graph,
           n_graph = 0 => where # "active" /\ last_graph'[t] = 0,
           where = "enter" => t \in Team /\ last_graph'[t] = n_graph /\ last_graph[t] # n_graph,
           t \in Team /\ where = "active" => new_graph'[t] = n_graph /\ last_graph'[t] # n_graph,
           asleep' \subseteq asleep \cup {t}, t \in asleep' => where \in {"top", "lock"}
    PROVE  PoolInv' /\ WorkInv' /\ ThreadInv' /\ AbortInv' /\ BarrierInv' /\ Steady
<1>0. /\ pc \in [Threads -> AllPcs] /\ t \in Threads /\ t # 0 /\ 0 \in Threads
  BY ZeroIsThread DEF IInv, TypeOK, PcTypeOK, AllPcs
<1>1. /\ UNCHANGED <<node, cgraph, ec, abort, after, n_passed, n_graph, n_barrier_passed,
                     n_threads_cur>>
      /\ UNCHANGED <<caller, shared, barrier, locked>>
  BY DEF work, result, barrier, shared
<1>2. pc'[t] = where /\ (\A u \in Threads \ {t} : pc'[u] = pc[u]) /\ pc'[0] = pc[0] BY <1>0
<1>3. Team' = Team /\ Width' = Width /\ Team \subseteq Threads BY <1>1 DEF Team, Width, caller
<1>4. \A u \in Threads \ {t} :
              /\ Busy(u)' <=> Busy(u)
              /\ Working(u)' <=> Working(u)
              /\ Phase(u)' = Phase(u)
              /\ PlaceInv(u)' <=> PlaceInv(u)
              /\ NotBeyond(u)' <=> NotBeyond(u)
              /\ after'[u] = after[u]
  <2> TAKE u \in Threads \ {t}
  <2>1. pc'[u] = pc[u] /\ last_graph'[u] = last_graph[u] BY <1>2
  <2> QED BY <1>1, <2>1, PhaseFrame
<1>5. ~Busy(t) /\ (Busy(t)' <=> where = "enter")
  <2>1. ~Busy(t) BY DEF Busy, WaitPcs, ComputePcs, BarrierPcs
  <2> QED BY <1>2, <2>1 DEF Busy, WaitPcs, ComputePcs, BarrierPcs
<1>6. t \in Team => (Working(t)' <=> Working(t)) /\ (Working(t) => Phase(t)' = Phase(t))
  <2> SUFFICES ASSUME t \in Team
               PROVE  (Working(t)' <=> Working(t)) /\ (Working(t) => Phase(t)' = Phase(t))
    OBVIOUS
  <2>1. CASE where = "enter"
    <3>1. Called(t) BY <1>0, <1>5, <2>1 DEF Called
    <3>2. Busy(t)' /\ pc'[t] = "enter" BY <1>2, <1>5, <2>1
    <3> QED BY <3>1, <3>2 DEF Working, Phase
  <2>2. CASE where # "enter"
    <3>1. last_graph'[t] = last_graph[t] BY <2>2
    <3>2. Called(t)' <=> Called(t) BY <1>0, <1>1, <1>5, <2>2, <3>1 DEF Called
    <3> QED BY <1>5, <2>2, <3>2 DEF Working, Phase
  <2> QED BY <2>1, <2>2
<1>7. WorkInv'
  <2>1. \A u \in Team : (Working(u)' <=> Working(u)) /\ (Working(u) => Phase(u)' = Phase(u))
    BY <1>3, <1>4, <1>6
  <2> QED BY <1>3, <2>1, WorkFrame DEF IInv
<1>8. PoolInv'
  <2>1. locked' <=> pc'[0] \in {"announce", "broadcast", "unpause"}
    BY <1>1, <1>2 DEF IInv, PoolInv
  <2>2. n_graph' = 0 => /\ pc'[0] \in {"idle", "kickoff", "announce", "unpause", "join"}
                        /\ \A u \in Workers : pc'[u] \in WaitPcs \ {"active"} /\ last_graph'[u] = 0
    <3> SUFFICES ASSUME n_graph = 0
                 PROVE  /\ pc'[0] \in {"idle", "kickoff", "announce", "unpause", "join"}
                        /\ \A u \in Workers : pc'[u] \in WaitPcs \ {"active"} /\ last_graph'[u] = 0
      BY <1>1
    <3>1. /\ pc[0] \in {"idle", "kickoff", "announce", "unpause", "join"}
          /\ \A u \in Workers : pc[u] \in WaitPcs \ {"active"} /\ last_graph[u] = 0
      BY DEF IInv, PoolInv
    <3>2. where \in WaitPcs \ {"active"} /\ last_graph'[t] = 0 BY <3>1
    <3> QED BY <1>2, <3>1, <3>2, ZeroIsThread
  <2>3. \A u \in asleep' : pc'[u] \in {"top", "lock"}
    BY <1>2 DEF IInv, PoolInv, TypeOK, Workers
  <2> QED BY <1>1, <1>2, <1>3, <2>1, <2>2, <2>3 DEF IInv, PoolInv, shared, caller
<1>9. ThreadInv'
  <2>1. \A u \in Workers : u \notin Team' => pc'[u] \in WaitPcs
    BY <1>2, <1>3, ZeroIsThread DEF IInv, ThreadInv
  <2>2. \A u \in Workers : Busy(u)' => last_graph'[u] = n_graph'
    BY <1>1, <1>4, <1>5, ZeroIsThread DEF IInv, ThreadInv
  <2>3. \A u \in Team' \ {0} : pc'[u] = "active" =>
            new_graph'[u] = n_graph' /\ last_graph'[u] # n_graph'
    BY <1>1, <1>2, <1>3 DEF IInv, ThreadInv
  <2>4. \A u \in Threads : Busy(u)' => PlaceInv(u)'
    <3>1. pc'[t] = "enter" => PlaceInv(t)' BY <1>2 DEF PlaceInv, BarrierPcs
    <3> QED BY <1>2, <1>4, <1>5, <3>1 DEF IInv, ThreadInv
  <2>5. \A u \in Threads : pc'[u] \in BarrierPcs => after'[u] # (IF u = 0 THEN "top" ELSE "return")
    <3>1. pc'[t] \notin BarrierPcs BY <1>2 DEF WaitPcs, BarrierPcs
    <3> QED BY <1>1, <1>2, <3>1 DEF IInv, ThreadInv
  <2> QED BY <1>1, <1>3, <2>1, <2>2, <2>3, <2>4, <2>5 DEF IInv, ThreadInv, caller
<1>10. AbortInv'
  <2>1. ec = "ABORTED" => NotBeyond(t)' \/ ~Busy(t)' BY <1>2, <1>5 DEF NotBeyond, BarrierPcs
  <2> QED BY <1>0, <1>1, <1>2, <1>4, <2>1, AbortFrame
<1>11. BarrierInv'
  <2>1. \A u \in Threads : (pc[u] \in {"arrive", "spin", "last", "release"} \/
                            pc'[u] \in {"arrive", "spin", "last", "release"}) => pc'[u] = pc[u]
    BY <1>2 DEF WaitPcs
  <2> QED BY <1>1, <1>3, <2>1, BarrierFrame DEF IInv
<1>12. Steady BY <1>3, <1>4, <1>6 DEF Steady
<1> QED BY <1>7, <1>8, <1>9, <1>10, <1>11, <1>12

LEMMA WaitStep == ASSUME IInv, NEW t \in Workers, Wait(t) PROVE IInv' /\ Steady
<1>0. /\ pc \in [Threads -> AllPcs] /\ t \in Threads /\ t # 0
      /\ last_graph \in [Threads -> Nat] /\ new_graph \in [Threads -> Nat] /\ n_threads_cur \in Nat
  BY ZeroIsThread DEF IInv, TypeOK, PcTypeOK, AllPcs
<1>1. pc[t] \in WaitPcs \ {"none", "exited"}
  BY DEF Wait, Top, PauseWait, StopCheck, PollForWork, ReadyFlags, ReadyGraph, ReadyActive,
         PollAgain, PollEnds, CheckForWork, WaitPcs
<1>2. pool # "none" BY <1>1 DEF IInv, PoolInv
<1>3. pc[t] \notin {"top", "lock"} => t \notin asleep BY DEF IInv, PoolInv
<1>4. t \in Team <=> t < n_threads_cur BY <1>0 DEF Team
<1>5. n_graph = 0 => pc[t] # "active" /\ last_graph[t] = 0 BY <1>2 DEF IInv, PoolInv
<1>t. TypeOK' BY WaitType DEF IInv
<1>6. ASSUME NEW where \in WaitPcs \ {"active"}, pc' = [pc EXCEPT ![t] = where], t \notin asleep,
             UNCHANGED <<caller, shared, result, barrier, waiting, work, locked, after>>
      PROVE  IInv' /\ Steady
  <2>1. UNCHANGED <<last_graph, new_graph, asleep>> BY <1>6 DEF waiting
  <2>2. UNCHANGED <<caller, shared, result, barrier, work, locked, after>> BY <1>6
  <2>3. where # "active" /\ where # "enter" BY DEF WaitPcs
  <2>4. pc[t] \in WaitPcs BY <1>1
  <2>5. PoolInv' /\ WorkInv' /\ ThreadInv' /\ AbortInv' /\ BarrierInv' /\ Steady
    BY <1>2, <1>5, <1>6, <2>1, <2>2, <2>3, <2>4, WaitFrame
  <2> QED BY <1>t, <2>5 DEF IInv
<1>7. CASE Top(t) \/ StopCheck(t) \/ PollForWork(t) \/ ReadyFlags(t) \/ PollAgain(t) \/ PollEnds(t)
  <2>1. t \notin asleep
        /\ UNCHANGED <<caller, shared, result, barrier, waiting, work, locked, after>>
    BY <1>3, <1>7 DEF Top, StopCheck, PollForWork, ReadyFlags, PollAgain, PollEnds
  <2>2. \E where \in WaitPcs \ {"active"} : pc' = [pc EXCEPT ![t] = where]
    BY <1>7 DEF Top, StopCheck, PollForWork, ReadyFlags, PollAgain, PollEnds, Goto, WaitPcs
  <2> QED BY <1>6, <2>1, <2>2
<1>8. CASE PauseWait(t)
  <2>1. /\ pc[t] = "paused" /\ pc' = [pc EXCEPT ![t] = "top"] /\ asleep' \subseteq asleep \cup {t}
        /\ UNCHANGED <<last_graph, new_graph>>
        /\ UNCHANGED <<caller, shared, result, barrier, work, locked, after>>
    BY <1>8 DEF PauseWait, Goto
  <2>2. t \notin asleep BY <1>3, <2>1
  <2> QED BY <1>1, <1>2, <1>5, <1>t, <2>1, <2>2, WaitFrame DEF IInv, WaitPcs
<1>9. CASE ReadyGraph(t)
  <2>1. /\ pc[t] = "ready" /\ UNCHANGED <<last_graph, asleep>>
        /\ UNCHANGED <<caller, shared, result, barrier, work, locked, after>>
    BY <1>9 DEF ReadyGraph
  <2>2. t \notin asleep BY <1>3, <2>1
  <2>3. CASE n_graph # last_graph[t]
    <3>1. pc' = [pc EXCEPT ![t] = "active"] /\ new_graph' = [new_graph EXCEPT ![t] = n_graph]
      BY <1>9, <2>3 DEF ReadyGraph, Goto
    <3>2. n_graph # 0 /\ new_graph'[t] = n_graph
          /\ \A u \in Threads \ {t} : new_graph'[u] = new_graph[u]
      BY <1>0, <1>5, <2>3, <3>1
    <3> QED BY <1>1, <1>2, <1>t, <2>1, <2>2, <2>3, <3>1, <3>2, WaitFrame DEF IInv, WaitPcs
  <2>4. CASE n_graph = last_graph[t]
    <3>1. pc' = [pc EXCEPT ![t] = "notready"] /\ UNCHANGED new_graph
      BY <1>9, <2>4 DEF ReadyGraph, Goto
    <3> QED BY <1>6, <2>1, <2>2, <3>1 DEF WaitPcs, waiting
  <2> QED BY <2>3, <2>4
<1>10. CASE ReadyActive(t)
  <2>1. /\ pc[t] = "active" /\ last_graph' = [last_graph EXCEPT ![t] = new_graph[t]]
        /\ new_graph' = [new_graph EXCEPT ![t] = 0]
        /\ pc' = [pc EXCEPT ![t] = IF t < n_threads_cur THEN "enter" ELSE "notready"]
        /\ UNCHANGED asleep
        /\ UNCHANGED <<caller, shared, result, barrier, work, locked, after>>
    BY <1>10 DEF ReadyActive, Goto
  <2>2. t \notin asleep /\ n_graph # 0 BY <1>3, <1>5, <2>1
  <2>3. /\ last_graph'[t] = new_graph[t]
        /\ \A u \in Threads \ {t} : last_graph'[u] = last_graph[u] /\ new_graph'[u] = new_graph[u]
    BY <1>0, <2>1
  <2>4. t \in Team => new_graph[t] = n_graph /\ last_graph[t] # n_graph
    BY <1>0, <2>1 DEF IInv, ThreadInv
  <2>5. CASE t \in Team
    <3>1. pc' = [pc EXCEPT ![t] = "enter"] BY <1>4, <2>1, <2>5
    <3> QED BY <1>1, <1>2, <1>t, <2>1, <2>2, <2>3, <2>4, <2>5, <3>1, WaitFrame DEF IInv
  <2>6. CASE t \notin Team
    <3>1. pc' = [pc EXCEPT ![t] = "notready"] BY <1>4, <2>1, <2>6
    <3> QED BY <1>1, <1>2, <1>t, <2>1, <2>2, <2>3, <2>6, <3>1, WaitFrame DEF IInv, WaitPcs
  <2> QED BY <2>5, <2>6
<1>11. CASE CheckForWork(t)
  <2>1. /\ pc[t] = "lock" /\ t \notin asleep /\ UNCHANGED new_graph
        /\ UNCHANGED <<caller, shared, result, barrier, work, locked, after>>
    BY <1>11 DEF CheckForWork
  <2>2. CASE stop \/ pause
    <3>1. pc' = [pc EXCEPT ![t] = "top"] /\ UNCHANGED <<last_graph, asleep>>
      BY <1>11, <2>2 DEF CheckForWork, Goto
    <3> QED BY <1>6, <2>1, <3>1 DEF WaitPcs, waiting
  <2>3. CASE ~(stop \/ pause)
    <3>1. last_graph' = [last_graph EXCEPT ![t] = n_graph] BY <1>11, <2>3 DEF CheckForWork
    <3>2. last_graph'[t] = n_graph /\ \A u \in Threads \ {t} : last_graph'[u] = last_graph[u]
      BY <1>0, <3>1
    <3>3. CASE n_graph # last_graph[t] /\ t \in Team
      <4>1. pc' = [pc EXCEPT ![t] = "enter"] /\ UNCHANGED asleep
        BY <1>4, <1>11, <2>3, <3>3 DEF CheckForWork, Goto
      <4>2. n_graph # 0 BY <1>5, <3>3
      <4> QED BY <1>1, <1>2, <1>t, <2>1, <3>2, <3>3, <4>1, <4>2, WaitFrame DEF IInv
    <3>4. CASE n_graph = last_graph[t] \/ t \notin Team
      <4>1. pc' = pc /\ asleep' = asleep \cup {t}
        BY <1>4, <1>11, <2>3, <3>4 DEF CheckForWork, Goto
      <4>2. pc' = [pc EXCEPT ![t] = "lock"] BY <1>0, <2>1, <4>1
      <4>3. t \in Team => last_graph'[t] = last_graph[t] BY <3>2, <3>4
      <4> QED BY <1>1, <1>2, <1>t, <2>1, <3>2, <4>1, <4>2, <4>3, WaitFrame DEF IInv, WaitPcs
    <3> QED BY <3>3, <3>4
  <2> QED BY <2>2, <2>3
<1> QED BY <1>7, <1>8, <1>9, <1>10, <1>11 DEF Wait

\* While the caller is outside of the computation nobody is inside.
LEMMA Quiet ==
    ASSUME IInv, pc[0] \in CallerPcs \ {"broadcast"}
    PROVE  /\ \A u \in Threads : ~Busy(u) /\ pc[u] \notin {"arrive", "last", "release"}
           /\ \A u \in Team : ~Working(u)
           /\ \A u \in Team \ {0} : last_graph[u] = n_graph /\ pc[u] # "active"
           /\ \A u \in Threads : pc[u] = "spin" => Released(u)
           /\ Ahead = {} /\ n_barrier = 0
<1>0. n_threads_cur \in Nat /\ Team \subseteq Threads /\ n_barrier_passed \in Nat
  BY DEF IInv, TypeOK, Team
<1>1. ~Busy(0) /\ ~Called(0) BY DEF Busy, Called, CallerPcs, ComputePcs, BarrierPcs
<1>2. \A u \in Team : ~Working(u)
  <2> SUFFICES ASSUME NEW u \in Team, Working(u) PROVE FALSE OBVIOUS
  <2>1. 0 \in Team BY <1>0 DEF Team, Threads
  <2> QED BY <1>1, <2>1 DEF IInv, WorkInv, Working
<1>3. \A u \in Threads : ~Busy(u)
  <2> SUFFICES ASSUME NEW u \in Threads, Busy(u) PROVE FALSE OBVIOUS
  <2>1. u \in Team BY BusyFacts, ComputingFacts
  <2> QED BY <1>2, <2>1 DEF Working
<1>4. \A u \in Threads : pc[u] \notin {"arrive", "last", "release"} BY <1>3 DEF Busy, BarrierPcs
<1>5. \A u \in Threads : pc[u] = "spin" => Released(u) BY <1>3 DEF Busy, Released
<1>6. Ahead = {}
  <2> SUFFICES ASSUME NEW u \in Ahead PROVE FALSE OBVIOUS
  <2>1. u \in Threads /\ pc[u] = "spin" BY <1>0, <1>4 DEF IInv, BarrierInv, Ahead
  <2>2. arrived[u] = n_barrier_passed BY <1>5, <2>1 DEF IInv, BarrierInv
  <2> QED BY <1>0, <2>2 DEF Ahead
<1>7. n_barrier = 0 BY <1>4, <1>6, FS_EmptySet DEF IInv, BarrierInv
<1>8. \A u \in Team \ {0} : last_graph[u] = n_graph BY <1>2 DEF Working, Called
<1>9. \A u \in Team \ {0} : pc[u] # "active" BY <1>8 DEF IInv, ThreadInv
<1> QED BY <1>2, <1>3, <1>4, <1>5, <1>6, <1>7, <1>8, <1>9

\* The caller goes on outside of the computation.
LEMMA QuietFrame ==
    ASSUME IInv, pc[0] \in CallerPcs \ {"broadcast"}, NEW where \in CallerPcs \ {"broadcast"},
           pc' = [pc EXCEPT ![0] = where],
           UNCHANGED <<pool, n_graph, last_graph, new_graph, barrier, after>>,
           Team' \subseteq Team, pool # "none" => 0 \in Team',
           \A u \in Workers : u \in Team \ Team' => pc[u] \in WaitPcs,
           \/ ec' = "SUCCESS" /\ abort' = -1
           \/ UNCHANGED <<ec, abort, cgraph>> /\ (ec = "SUCCESS" \/ where \notin {"kickoff", "announce"})
    PROVE  WorkInv' /\ ThreadInv' /\ AbortInv' /\ BarrierInv'
<1>0. pc \in [Threads -> AllPcs] /\ 0 \in Threads /\ n_barrier_passed \in Nat
  BY ZeroIsThread DEF IInv, TypeOK, PcTypeOK, AllPcs
<1>1. pc'[0] = where /\ \A u \in Threads \ {0} : pc'[u] = pc[u] BY <1>0
<1>2. \A u \in Threads : ~Busy(u)'
  <2>1. ~Busy(0)' BY <1>1 DEF Busy, CallerPcs, ComputePcs, BarrierPcs
  <2>2. \A u \in Threads \ {0} : Busy(u)' => Busy(u) BY <1>1 DEF Busy, barrier
  <2> QED BY <2>1, <2>2, Quiet
<1>3. \A u \in Team : ~Working(u)'
  <2>1. Team \subseteq Threads BY DEF Team
  <2>2. \A u \in Team \ {0} : last_graph[u] = n_graph BY Quiet
  <2> QED BY <1>1, <1>2, <2>1, <2>2 DEF Working, Called
<1>4. WorkInv' BY <1>3 DEF WorkInv
<1>5. ThreadInv'
  <2>1. \A u \in Workers : u \notin Team' => pc'[u] \in WaitPcs
    BY <1>1, ZeroIsThread DEF IInv, ThreadInv
  <2>2. \A u \in Team' \ {0} : pc'[u] # "active" BY <1>1, Quiet DEF Team
  <2>3. \A u \in Threads : pc'[u] \in BarrierPcs => after'[u] # (IF u = 0 THEN "top" ELSE "return")
    BY <1>1 DEF IInv, ThreadInv, CallerPcs, BarrierPcs
  <2> QED BY <1>2, <2>1, <2>2, <2>3, ZeroIsThread DEF ThreadInv
<1>6. AbortInv'
  <2>1. CASE ec' = "SUCCESS" /\ abort' = -1 BY <2>1 DEF AbortInv
  <2>2. CASE UNCHANGED <<ec, abort, cgraph>> /\ (ec = "SUCCESS" \/ where \notin {"kickoff", "announce"})
    <3>1. Team' \subseteq Threads BY DEF Team
    <3>2. ec = "SUCCESS" \/ pc'[0] \in CallerPcs \ {"kickoff", "announce", "broadcast"}
      BY <1>1, <2>2
    <3> QED BY <1>2, <2>2, <3>1, <3>2 DEF IInv, AbortInv
  <2> QED BY <2>1, <2>2
<1>7. BarrierInv'
  <2>1. Ahead' = {} BY Quiet DEF Ahead, barrier
  <2>2. n_barrier' = 0 BY Quiet DEF barrier
  <2>3. \A u \in Threads : pc'[u] \notin {"arrive", "last", "release"}
    BY <1>1, Quiet DEF CallerPcs
  <2>4. \A u \in Threads : pc'[u] = "spin" =>
          IF Released(u)' THEN arrived'[u] = n_barrier_passed' ELSE arrived'[u] = n_barrier_passed' + 1
    <3> SUFFICES ASSUME NEW u \in Threads, pc'[u] = "spin"
                 PROVE  IF Released(u)' THEN arrived'[u] = n_barrier_passed'
                                        ELSE arrived'[u] = n_barrier_passed' + 1
      OBVIOUS
    <3>1. pc[u] = "spin" BY <1>1 DEF CallerPcs
    <3>2. Released(u) /\ arrived[u] = n_barrier_passed BY <3>1, Quiet DEF IInv, BarrierInv
    <3> QED BY <3>2 DEF Released, barrier
  <2>5. \A u \in Team' : arrived'[u] \in {n_barrier_passed', n_barrier_passed' + 1}
    BY DEF IInv, BarrierInv, barrier
  <2>6. Cardinality(Ahead') = 0 BY <2>1, FS_EmptySet
  <2>7. n_barrier' = IF \E u \in Threads : pc'[u] = "release" THEN 0 ELSE Cardinality(Ahead')
    BY <2>2, <2>6
  <2>8. \A u \in Ahead' : pc'[u] \in {"spin", "last", "release"} BY <2>1
  <2>9. Team' # {} => Ahead' # Team' BY <2>1
  <2> QED BY <2>3, <2>4, <2>5, <2>7, <2>8, <2>9 DEF BarrierInv
<1> QED BY <1>4, <1>5, <1>6, <1>7

\* The invariant holds of every new pool, whose threads have nothing to do.
LEMMA NewPool ==
    ASSUME IInv, pool = "none", NEW n \in 1..NThreads, NEW g \in Seq(Nat), NEW paused \in BOOLEAN,
           NEW callerPc \in {"idle", "kickoff"}, NewImpl(n, g, paused, callerPc),
           pool' \in {"disposable", "persistent"}, submitted' \in 0..MaxGraphs
    PROVE  IInv'
<1>0. TypeOK' BY NewImplType DEF IInv
<1>1. /\ n_threads_max' = n /\ n_threads_cur' = n /\ n_graph' = 0 /\ n_barrier' = 0
      /\ n_barrier_passed' = 0 /\ ~stop' /\ abort' = -1 /\ ec' = "SUCCESS" /\ pool' # "none"
      /\ UNCHANGED <<locked, asleep>>
  BY DEF NewImpl
<1>2. /\ \A u \in Threads : last_graph'[u] = 0 /\ arrived'[u] = 0
      /\ pc'[0] = callerPc
      /\ \A u \in Workers : pc'[u] = IF u < n THEN "top" ELSE "none"
  BY ZeroIsThread DEF NewImpl
<1>3. Team' = 0..(n - 1) BY <1>1 DEF Team, Threads
<1>4. \A u \in Threads : pc'[u] \in {"idle", "kickoff", "top", "none"}
  BY <1>2 DEF Workers
<1>5. \A u \in Threads : ~Busy(u)' /\ ~Called(u)'
  <2>1. \A u \in Threads : ~Busy(u)' BY <1>4 DEF Busy, ComputePcs, BarrierPcs
  <2> QED BY <1>1, <1>2, <2>1 DEF Called
<1>6. Team' \subseteq Threads BY DEF Team
<1>7. PoolInv'
  <2>1. ~locked /\ asleep = {}
    BY DEF IInv, PoolInv, TypeOK
  <2>2. ~locked' /\ asleep' = {} BY <1>1, <2>1
  <2>3. pc'[0] \in {"idle", "kickoff"} BY <1>2
  <2>4. \A u \in Workers : pc'[u] \in WaitPcs \ {"active"} /\ last_graph'[u] = 0
    BY <1>2, ZeroIsThread DEF WaitPcs
  <2>5. n_threads_cur' = n_threads_max' /\ n_threads_max' > 0 BY <1>1
  <2> QED BY <1>1, <2>2, <2>3, <2>4, <2>5 DEF PoolInv
<1>8. WorkInv' BY <1>5, <1>6 DEF WorkInv, Working
<1>9. ThreadInv'
  <2>1. 0 \in Team' BY <1>3
  <2>2. \A u \in Threads : pc'[u] \notin BarrierPcs /\ pc'[u] # "active" BY <1>4 DEF BarrierPcs
  <2>3. \A u \in Workers : pc'[u] \in WaitPcs BY <1>2 DEF WaitPcs
  <2> QED BY <1>5, <1>6, <2>1, <2>2, <2>3, ZeroIsThread DEF ThreadInv
<1>10. AbortInv' BY <1>1 DEF AbortInv
<1>11. BarrierInv'
  <2>1. Ahead' = {} BY <1>1, <1>2, <1>6 DEF Ahead
  <2>2. Cardinality(Ahead') = 0 BY <2>1, FS_EmptySet
  <2>3. Ahead' # Team'
    <3>1. 0 \in Team' BY <1>3
    <3> QED BY <2>1, <3>1
  <2>4. \A u \in Team' : arrived'[u] = n_barrier_passed' BY <1>1, <1>2, <1>6
  <2>5. \A u \in Ahead' : FALSE BY <2>1
  <2>6. n_barrier' = IF \E u \in Threads : pc'[u] = "release" THEN 0 ELSE Cardinality(Ahead')
    BY <1>1, <2>2
  <2>7. \A u \in Threads : pc'[u] \notin {"arrive", "spin", "last", "release"} BY <1>4
  <2> QED BY <2>3, <2>4, <2>5, <2>6, <2>7 DEF BarrierInv
<1> QED BY <1>0, <1>7, <1>8, <1>9, <1>10, <1>11 DEF IInv

LEMMA CallsStep == IInv /\ Calls => IInv'
<1> SUFFICES ASSUME IInv, Calls PROVE IInv' OBVIOUS
<1>0. /\ pc \in [Threads -> AllPcs] /\ 0 \in Threads /\ plan \in Nat /\ TypeOK'
  BY CallsType, ZeroIsThread DEF IInv, TypeOK, PcTypeOK, AllPcs
<1>1. ASSUME NEW paused \in BOOLEAN, ThreadpoolNew(paused) PROVE IInv'
  <2>1. pool = "none" /\ pool' = "persistent" /\ submitted' \in 0..MaxGraphs /\ <<>> \in Seq(Nat)
    BY <1>1 DEF ThreadpoolNew, IInv, TypeOK
  <2>2. NewImpl(NThreads, <<>>, paused, "idle") BY <1>1 DEF ThreadpoolNew
  <2>3. NThreads \in 1..NThreads OBVIOUS
  <2> QED BY <2>1, <2>2, <2>3, NewPool
<1>2. ASSUME NEW g \in Graphs, GraphComputeDisposable(g) PROVE IInv'
  <2>1. pool = "none" /\ pool' = "disposable" /\ submitted' \in 0..MaxGraphs /\ g \in Seq(Nat)
    BY <1>2 DEF GraphComputeDisposable, IInv, TypeOK
  <2>2. NewImpl(plan, g, FALSE, "kickoff") BY <1>2 DEF GraphComputeDisposable
  <2>3. plan \in 1..NThreads BY <1>2 DEF GraphComputeDisposable, IInv, TypeOK
  <2> QED BY <2>1, <2>2, <2>3, NewPool
<1>3. ASSUME NEW g \in Graphs, GraphCompute(g) PROVE IInv'
  <2>1. /\ pc[0] = "idle" /\ pool = "persistent" /\ ec' = "SUCCESS" /\ abort' = -1
        /\ pc' = [pc EXCEPT ![0] = "kickoff"]
        /\ UNCHANGED <<plan, pool, n_threads_max, shared, barrier, waiting, locked, after>>
    BY <1>3 DEF GraphCompute
  <2>2. Team' = Team /\ Width' = Width BY <2>1 DEF Team, Width, shared
  <2>3. WorkInv' /\ ThreadInv' /\ AbortInv' /\ BarrierInv'
    <3>1. 0 \in Team' BY <2>1, <2>2 DEF IInv, ThreadInv
    <3> QED BY <2>1, <2>2, <3>1, QuietFrame DEF shared, waiting, CallerPcs
  <2>4. pc'[0] = "kickoff" /\ \A u \in Workers : pc'[u] = pc[u] BY <1>0, <2>1, ZeroIsThread
  <2>5. PoolInv'
    <3>1. \A u \in asleep' : pc'[u] \in {"top", "lock"}
      BY <2>1, <2>4 DEF IInv, PoolInv, TypeOK, waiting
    <3> QED BY <2>1, <2>2, <2>4, <3>1 DEF IInv, PoolInv, shared, waiting
  <2> QED BY <1>0, <2>3, <2>5 DEF IInv
<1>4. CASE Pause \/ Resume
  <2>1. /\ pc[0] = "idle" /\ pool = "persistent" /\ asleep' = {}
        /\ UNCHANGED <<caller, n_threads_cur, n_graph, stop, result, barrier, last_graph, new_graph,
                       locked, pc, after>>
    BY <1>4 DEF Pause, Resume
  <2>2. Team' = Team /\ Width' = Width BY <2>1 DEF Team, Width, caller
  <2>3. WorkInv' /\ ThreadInv' /\ AbortInv' /\ BarrierInv'
    <3>1. 0 \in Team' BY <2>1, <2>2 DEF IInv, ThreadInv
    <3>2. pc' = [pc EXCEPT ![0] = "idle"] BY <1>0, <2>1
    <3>3. ec \in {"SUCCESS", "ABORTED"} /\ (ec = "SUCCESS" => abort = -1)
      BY DEF IInv, TypeOK, AbortInv
    <3> QED BY <2>1, <2>2, <3>1, <3>2, QuietFrame DEF result, caller, CallerPcs
  <2>4. PoolInv' BY <2>1, <2>2 DEF IInv, PoolInv, caller
  <2> QED BY <1>0, <2>3, <2>4 DEF IInv
<1>5. CASE ThreadpoolFree
  <2>1. /\ pc[0] \in {"free", "idle"} /\ ~locked /\ locked' /\ stop'
        /\ pc' = [pc EXCEPT ![0] = "unpause"]
        /\ UNCHANGED <<caller, n_threads_cur, n_graph, pause, result, barrier, waiting, after>>
    BY <1>5 DEF ThreadpoolFree
  <2>0. pool # "none" BY <1>5 DEF ThreadpoolFree, IInv, PoolInv
  <2>2. Team' = Team /\ Width' = Width BY <2>1 DEF Team, Width, caller
  <2>3. WorkInv' /\ ThreadInv' /\ AbortInv' /\ BarrierInv'
    <3>1. 0 \in Team' BY <2>0, <2>2 DEF IInv, ThreadInv
    <3> QED BY <2>1, <2>2, <3>1, QuietFrame DEF result, caller, waiting, CallerPcs
  <2>4. pc'[0] = "unpause" /\ \A u \in Workers : pc'[u] = pc[u] BY <1>0, <2>1, ZeroIsThread
  <2>5. PoolInv'
    <3>1. \A u \in asleep' : pc'[u] \in {"top", "lock"}
      BY <2>1, <2>4 DEF IInv, PoolInv, TypeOK, waiting
    <3>2. pool' # "none" /\ pool' = pool /\ n_threads_max' = n_threads_max BY <2>0, <2>1 DEF caller
    <3> QED BY <2>1, <2>2, <2>4, <3>1, <3>2 DEF IInv, PoolInv, waiting
  <2> QED BY <1>0, <2>3, <2>5 DEF IInv
<1> QED BY <1>1, <1>2, <1>3, <1>4, <1>5 DEF Calls

LEMMA InCallStep == IInv /\ InCall => IInv'
<1> SUFFICES ASSUME IInv, InCall PROVE IInv' OBVIOUS
<1>0. /\ pc \in [Threads -> AllPcs] /\ 0 \in Threads /\ n_threads_cur \in Nat /\ n_graph \in Nat
      /\ n_threads_max \in Nat /\ plan \in Nat \ {0} /\ ec \in {"SUCCESS", "ABORTED"}
      /\ ec = "SUCCESS" => abort = -1
      /\ TypeOK' /\ locked \in BOOLEAN /\ last_graph \in [Threads -> Nat]
  <2>1. TypeOK' /\ 0 \in Threads BY InCallType, ZeroIsThread DEF IInv
  <2>2. pc \in [Threads -> AllPcs] BY DEF IInv, TypeOK, PcTypeOK, AllPcs
  <2>3. /\ n_threads_cur \in Nat /\ n_graph \in Nat /\ n_threads_max \in Nat /\ plan \in Nat \ {0}
        /\ ec \in {"SUCCESS", "ABORTED"} /\ locked \in BOOLEAN /\ last_graph \in [Threads -> Nat]
    BY DEF IInv, TypeOK
  <2>4. ec = "SUCCESS" => abort = -1 BY DEF IInv, AbortInv
  <2> QED BY <2>1, <2>2, <2>3, <2>4
<1>p. pool # "none"
  BY <1>0 DEF InCall, Kickoff, Announce, Broadcast, Returned, FreeBroadcast, Join, IInv, PoolInv
<1>z. 0 \in Team BY <1>p DEF IInv, ThreadInv
<1>1. CASE Kickoff
  <2>1. /\ pc[0] = "kickoff" /\ ~locked /\ locked' /\ n_threads_cur' = Least(plan, n_threads_max)
        /\ pc' = [pc EXCEPT ![0] = "announce"]
        /\ UNCHANGED <<caller, n_graph, stop, pause, result, barrier, waiting, after>>
    BY <1>1 DEF Kickoff
  <2>2. Width' = Width /\ n_threads_cur' = Width /\ Width > 0 /\ Width \in Nat /\ Width <= n_threads_max
    <3>1. n_threads_max > 0 BY <1>p DEF IInv, PoolInv
    <3> QED BY <1>0, <2>1, <3>1 DEF Width, Least, caller
  <2>3. Team' \subseteq Team /\ 0 \in Team'
    <3>1. n_threads_cur' <= n_threads_cur
      <4>1. n_threads_cur \in {n_threads_max, Width} BY <1>p DEF IInv, PoolInv
      <4> QED BY <1>0, <2>2, <4>1
    <3>2. \A u \in Threads : u \in Int BY DEF Threads
    <3> QED BY <1>0, <2>2, <3>1, <3>2 DEF Team
  <2>4. \A u \in Workers : u \in Team \ Team' => pc[u] \in WaitPcs
    <3>1. CASE n_threads_cur = Width BY <2>2, <3>1 DEF Team
    <3>2. CASE n_threads_cur # Width BY <1>p, <3>2 DEF IInv, PoolInv
    <3> QED BY <3>1, <3>2
  <2>5. ec = "SUCCESS" /\ abort = -1
    BY <1>0, <2>1 DEF IInv, AbortInv, BarrierPcs
  <2>6. WorkInv' /\ ThreadInv' /\ AbortInv' /\ BarrierInv'
    BY <2>1, <2>3, <2>4, <2>5, QuietFrame DEF caller, waiting, result, CallerPcs
  <2>7. pc'[0] = "announce" /\ \A u \in Workers : pc'[u] = pc[u] BY <1>0, <2>1, ZeroIsThread
  <2>8. PoolInv'
    <3>1. \A u \in asleep' : pc'[u] \in {"top", "lock"}
      BY <2>1, <2>7 DEF IInv, PoolInv, TypeOK, waiting
    <3>2. pool' = pool /\ n_threads_max' = n_threads_max /\ n_threads_max > 0
      BY <1>p, <2>1 DEF caller, IInv, PoolInv
    <3> QED BY <1>p, <2>1, <2>2, <2>7, <3>1, <3>2 DEF IInv, PoolInv, waiting
  <2> QED BY <1>0, <2>6, <2>8 DEF IInv
<1>2. CASE Announce
  <2>1. /\ pc[0] = "announce" /\ n_graph' = n_graph + 1 /\ pc' = [pc EXCEPT ![0] = "broadcast"]
        /\ UNCHANGED <<caller, n_threads_cur, stop, pause, result, barrier, waiting, locked, after>>
    BY <1>2 DEF Announce
  <2>2. Team' = Team /\ Width' = Width /\ Team \subseteq Threads BY <2>1 DEF Team, Width, caller
  <2>3. pc'[0] = "broadcast" /\ \A u \in Threads \ {0} : pc'[u] = pc[u] BY <1>0, <2>1
  <2>4. \A u \in Threads : ~Busy(u)'
    <3>1. ~Busy(0)' BY <2>3 DEF Busy, ComputePcs, BarrierPcs
    <3>2. \A u \in Threads \ {0} : Busy(u)' => Busy(u) BY <2>1, <2>3 DEF Busy, barrier
    <3> QED BY <2>1, <3>1, <3>2, Quiet DEF CallerPcs
  <2>5. \A u \in Team : Called(u)'
    <3>1. \A u \in Team \ {0} : last_graph'[u] = n_graph
      BY <2>1, Quiet DEF CallerPcs, waiting
    <3>2. \A u \in Team \ {0} : last_graph'[u] # n_graph' BY <1>0, <2>1, <3>1
    <3> QED BY <2>2, <2>3, <2>4, <3>2 DEF Called
  <2>6. WorkInv' BY <2>2, <2>5 DEF WorkInv, Working, Phase
  <2>7. ThreadInv'
    <3>1. \A u \in Team' \ {0} : pc'[u] # "active" BY <2>1, <2>2, <2>3, Quiet DEF CallerPcs
    <3>2. \A u \in Threads : pc'[u] \in BarrierPcs => after'[u] # (IF u = 0 THEN "top" ELSE "return")
      BY <2>1, <2>3 DEF IInv, ThreadInv, BarrierPcs
    <3>3. \A u \in Workers : u \notin Team' => pc'[u] \in WaitPcs
      BY <2>2, <2>3, ZeroIsThread DEF IInv, ThreadInv
    <3> QED BY <1>z, <2>2, <2>4, <3>1, <3>2, <3>3, ZeroIsThread DEF ThreadInv
  <2>8. AbortInv'
    <3>1. ec = "SUCCESS" /\ abort = -1 BY <1>0, <2>1 DEF IInv, AbortInv, BarrierPcs
    <3> QED BY <2>1, <3>1 DEF AbortInv, result
  <2>9. BarrierInv'
    <3>1. \A u \in Threads : (pc[u] \in {"arrive", "spin", "last", "release"} \/
                              pc'[u] \in {"arrive", "spin", "last", "release"}) => pc'[u] = pc[u]
      BY <2>1, <2>3
    <3> QED BY <2>1, <2>2, <3>1, BarrierFrame DEF IInv
  <2>10. PoolInv'
    <3>1. \A u \in asleep' : pc'[u] \in {"top", "lock"}
      BY <2>1, <2>3 DEF IInv, PoolInv, TypeOK, waiting, Workers
    <3>2. pool' = pool /\ n_threads_max' = n_threads_max BY <2>1 DEF caller
    <3>3. n_graph' # 0 BY <1>0, <2>1
    <3>4. n_threads_cur = Width BY <1>p, <2>1 DEF IInv, PoolInv
    <3> QED BY <1>p, <2>1, <2>2, <2>3, <3>1, <3>2, <3>3, <3>4 DEF IInv, PoolInv
  <2> QED BY <1>0, <2>6, <2>7, <2>8, <2>9, <2>10 DEF IInv
<1>3. CASE Broadcast
  <2>1. /\ pc[0] = "broadcast" /\ pc' = [pc EXCEPT ![0] = "enter"] /\ asleep' = {} /\ ~locked'
        /\ UNCHANGED <<caller, n_threads_cur, n_graph, stop, result, barrier,
                       last_graph, new_graph, work, after>>
    BY <1>3 DEF Broadcast
  <2>2. Team' = Team /\ Width' = Width /\ Team \subseteq Threads BY <2>1 DEF Team, Width, caller
  <2>3. pc'[0] = "enter" /\ \A u \in Threads \ {0} : pc'[u] = pc[u] BY <1>0, <2>1
  <2>4. \A u \in Threads \ {0} :
              /\ Busy(u)' <=> Busy(u)
              /\ Working(u)' <=> Working(u)
              /\ Phase(u)' = Phase(u)
              /\ PlaceInv(u)' <=> PlaceInv(u)
              /\ NotBeyond(u)' <=> NotBeyond(u)
    <3> TAKE u \in Threads \ {0}
    <3>1. pc'[u] = pc[u] /\ UNCHANGED <<node, after, n_passed, last_graph, n_barrier_passed, cgraph,
                                        ec, abort, n_graph>>
      BY <2>1, <2>3 DEF work, barrier, result
    <3> QED BY <3>1, PhaseFrame
  <2>5. Called(0) /\ Busy(0)' /\ Phase(0)' = Phase(0)
    BY <2>1, <2>3 DEF Called, Busy, Phase, ComputePcs
  <2>6. WorkInv'
    <3>1. \A u \in Team : (Working(u)' <=> Working(u)) /\ (Working(u) => Phase(u)' = Phase(u))
      BY <2>2, <2>4, <2>5 DEF Working
    <3> QED BY <2>2, <3>1, WorkFrame DEF IInv
  <2>7. ThreadInv'
    <3>1. \A u \in Team' \ {0} : pc'[u] = "active" =>
            new_graph'[u] = n_graph' /\ last_graph'[u] # n_graph'
      BY <2>1, <2>2, <2>3 DEF IInv, ThreadInv
    <3>2. \A u \in Threads : pc'[u] \in BarrierPcs => after'[u] # (IF u = 0 THEN "top" ELSE "return")
      BY <2>1, <2>3 DEF IInv, ThreadInv, BarrierPcs
    <3>3. \A u \in Workers : u \notin Team' => pc'[u] \in WaitPcs
      BY <2>2, <2>3, ZeroIsThread DEF IInv, ThreadInv
    <3>4. PlaceInv(0)' BY <2>3 DEF PlaceInv, BarrierPcs
    <3>5. \A u \in Threads : Busy(u)' => PlaceInv(u)' BY <2>4, <3>4 DEF IInv, ThreadInv
    <3>6. \A u \in Workers : Busy(u)' => last_graph'[u] = n_graph'
      BY <2>1, <2>4, ZeroIsThread DEF IInv, ThreadInv
    <3> QED BY <1>z, <2>2, <3>1, <3>2, <3>3, <3>5, <3>6 DEF ThreadInv
  <2>8. AbortInv'
    <3>1. ec = "SUCCESS" /\ abort = -1 BY <1>0, <2>1 DEF IInv, AbortInv, BarrierPcs
    <3> QED BY <2>1, <3>1 DEF AbortInv, result
  <2>9. BarrierInv'
    <3>1. \A u \in Threads : (pc[u] \in {"arrive", "spin", "last", "release"} \/
                              pc'[u] \in {"arrive", "spin", "last", "release"}) => pc'[u] = pc[u]
      BY <2>1, <2>3
    <3> QED BY <2>1, <2>2, <3>1, BarrierFrame DEF IInv
  <2>10. PoolInv'
    <3>1. n_graph # 0 BY <1>p, <2>1 DEF IInv, PoolInv
    <3>2. n_threads_cur = Width BY <1>p, <2>1 DEF IInv, PoolInv
    <3>3. ~stop BY <1>p, <2>1 DEF IInv, PoolInv
    <3> QED BY <1>p, <2>1, <2>2, <2>3, <3>1, <3>2, <3>3 DEF IInv, PoolInv, caller
  <2> QED BY <1>0, <2>6, <2>7, <2>8, <2>9, <2>10 DEF IInv
<1>4. CASE Returned \/ FreeBroadcast
  <2>1. PICK where \in {"free", "idle", "join"} :
        /\ pc[0] = (IF where = "join" THEN "unpause" ELSE "return") /\ pc' = [pc EXCEPT ![0] = where]
        /\ IF where = "join" THEN asleep' = {} /\ ~locked' /\ ~pause'
           ELSE UNCHANGED <<asleep, locked, pause>>
        /\ UNCHANGED <<caller, n_threads_cur, n_graph, stop, result, barrier,
                       last_graph, new_graph, after>>
    BY <1>4 DEF Returned, FreeBroadcast, waiting, shared, work
  <2>2. Team' = Team /\ Width' = Width BY <2>1 DEF Team, Width, caller
  <2>3. WorkInv' /\ ThreadInv' /\ AbortInv' /\ BarrierInv'
    <3>1. pc[0] \in CallerPcs \ {"broadcast"} /\ where \in CallerPcs \ {"broadcast"}
      BY <2>1 DEF CallerPcs
    <3>2. UNCHANGED <<ec, abort, cgraph>> /\ where \notin {"kickoff", "announce"}
      BY <2>1 DEF result
    <3> QED BY <1>z, <2>1, <2>2, <3>1, <3>2, QuietFrame DEF caller
  <2>4. pc'[0] = where /\ \A u \in Workers : pc'[u] = pc[u] BY <1>0, <2>1, ZeroIsThread
  <2>5. PoolInv'
    <3>1. \A u \in asleep' : pc'[u] \in {"top", "lock"}
      BY <2>1, <2>4 DEF IInv, PoolInv, TypeOK
    <3>2. pool' = pool /\ n_threads_max' = n_threads_max BY <2>1 DEF caller
    <3>3. where = "join" => stop BY <2>1 DEF IInv, PoolInv
    <3>4. where # "join" => n_graph # 0 /\ n_threads_cur = Width /\ ~stop /\ ~locked
      BY <1>p, <2>1 DEF IInv, PoolInv
    <3>5. locked' <=> pc'[0] \in {"announce", "broadcast", "unpause"} BY <2>1, <2>4, <3>4
    <3>6. n_threads_cur \in {n_threads_max, Width} /\ n_threads_max > 0 BY <1>p DEF IInv, PoolInv
    <3>7. n_graph = 0 => where = "join" /\ \A u \in Workers : pc[u] \in WaitPcs \ {"active"} /\ last_graph[u] = 0
      BY <1>p, <3>4 DEF IInv, PoolInv
    <3>8. n_threads_cur # Width => n_graph = 0 BY <1>p DEF IInv, PoolInv
    <3> QED BY <1>p, <2>1, <2>2, <2>4, <3>1, <3>2, <3>3, <3>4, <3>5, <3>6, <3>7, <3>8 DEF PoolInv
  <2> QED BY <1>0, <2>3, <2>5 DEF IInv
<1>5. CASE Join
  <2>1. /\ pc[0] = "join" /\ pool' = "none" /\ \A u \in Workers : pc[u] \in {"exited", "none"}
        /\ pc' = [u \in Threads |-> IF u = 0 THEN "idle" ELSE "none"]
        /\ UNCHANGED <<plan, submitted, n_threads_max, shared, result, barrier, waiting, locked, after>>
    BY <1>5 DEF Join
  <2>2. Team' = Team /\ Team \subseteq Threads BY <2>1 DEF Team, shared
  <2>3. pc'[0] = "idle" /\ \A u \in Workers : pc'[u] = "none" BY <2>1, ZeroIsThread
  <2>4. \A u \in Threads : pc'[u] \in {"idle", "none"} BY <2>3 DEF Workers
  <2>5. \A u \in Threads : ~Busy(u)' BY <2>4 DEF Busy, ComputePcs, BarrierPcs
  <2>6. WorkInv'
    <3>1. \A u \in Team \ {0} : last_graph'[u] = n_graph'
      BY <2>1, Quiet DEF CallerPcs, waiting, shared
    <3>2. \A u \in Team : ~Working(u)' BY <2>2, <2>3, <2>5, <3>1 DEF Working, Called
    <3> QED BY <2>2, <3>2 DEF WorkInv
  <2>7. ThreadInv'
    <3>1. \A u \in Threads : pc'[u] \notin BarrierPcs /\ pc'[u] # "active" BY <2>4 DEF BarrierPcs
    <3> QED BY <2>1, <2>2, <2>3, <2>5, <3>1, ZeroIsThread DEF ThreadInv, WaitPcs
  <2>8. AbortInv'
    <3>1. pc'[0] \in CallerPcs \ {"kickoff", "announce", "broadcast"} BY <2>3 DEF CallerPcs
    <3> QED BY <2>1, <2>2, <2>5, <3>1 DEF IInv, AbortInv, result
  <2>9. BarrierInv'
    <3>1. Ahead' = {} /\ n_barrier' = 0 BY <2>1, <2>2, Quiet DEF Ahead, barrier, CallerPcs
    <3>2. Cardinality(Ahead') = 0 BY <3>1, FS_EmptySet
    <3>3. \A u \in Threads : pc'[u] \notin {"arrive", "spin", "last", "release"} BY <2>4
    <3>4. \A u \in Team' : arrived'[u] \in {n_barrier_passed', n_barrier_passed' + 1}
      BY <2>1, <2>2 DEF IInv, BarrierInv, barrier
    <3>5. n_barrier' = IF \E u \in Threads : pc'[u] = "release" THEN 0 ELSE Cardinality(Ahead')
      BY <3>1, <3>2
    <3>6. \A u \in Ahead' : FALSE BY <3>1
    <3>7. Team' # {} => Ahead' # Team' BY <3>1
    <3> QED BY <3>3, <3>4, <3>5, <3>6, <3>7 DEF BarrierInv
  <2>10. PoolInv'
    <3>1. asleep = {} BY <2>1 DEF IInv, PoolInv, TypeOK
    <3>2. ~locked BY <2>1 DEF IInv, PoolInv
    <3> QED BY <2>1, <2>3, <3>1, <3>2 DEF PoolInv, waiting
  <2> QED BY <1>0, <2>6, <2>7, <2>8, <2>9, <2>10 DEF IInv
<1> QED BY <1>1, <1>2, <1>3, <1>4, <1>5 DEF InCall

-----------------------------------------------------------------------------
(* The theorems.                                                           *)

LEMMA InitStep == Init => IInv
<1> SUFFICES ASSUME Init PROVE IInv OBVIOUS
<1>1. TypeOK BY InitType
<1>2. Team = {} BY DEF Init, Team, Threads
<1>3. \A u \in Threads : pc[u] \in {"idle", "none"} BY DEF Init
<1>4. \A u \in Threads : ~Busy(u) BY <1>3 DEF Busy, ComputePcs, BarrierPcs
<1>5. PoolInv BY ZeroIsThread DEF Init, PoolInv
<1>6. WorkInv BY <1>2 DEF WorkInv
<1>7. ThreadInv
  <2>1. \A u \in Workers : pc[u] \in WaitPcs BY ZeroIsThread DEF Init, WaitPcs
  <2> QED BY <1>2, <1>3, <1>4, <2>1, ZeroIsThread DEF Init, ThreadInv, BarrierPcs
<1>8. AbortInv BY DEF Init, AbortInv
<1>9. BarrierInv
  <2>1. Ahead = {} BY <1>2 DEF Ahead
  <2>2. n_barrier = Cardinality(Ahead) BY <2>1, FS_EmptySet DEF Init
  <2> QED BY <1>2, <1>3, <2>1, <2>2 DEF BarrierInv
<1> QED BY <1>1, <1>5, <1>6, <1>7, <1>8, <1>9 DEF IInv

LEMMA StutterStep == ASSUME IInv, UNCHANGED vars PROVE IInv'
<1>1. /\ UNCHANGED <<plan, submitted, pool, n_threads_max, n_threads_cur, n_graph, stop, pause>>
      /\ UNCHANGED <<abort, ec, cgraph, n_barrier, n_barrier_passed, n_passed, arrived>>
      /\ UNCHANGED <<last_graph, new_graph, asleep, node, nth, chunk, current_chunk, computed>>
      /\ UNCHANGED <<locked, pc, after>> /\ UNCHANGED barrier
  BY DEF vars, caller, shared, result, barrier, waiting, work
<1>2. Team' = Team /\ Width' = Width /\ Team \subseteq Threads BY <1>1 DEF Team, Width
<1>3. TypeOK' BY <1>1 DEF IInv, TypeOK, PcTypeOK
<1>4. \A u \in Threads :
              /\ Busy(u)' <=> Busy(u)
              /\ Working(u)' <=> Working(u)
              /\ Phase(u)' = Phase(u)
              /\ PlaceInv(u)' <=> PlaceInv(u)
              /\ NotBeyond(u)' <=> NotBeyond(u)
  BY <1>1, PhaseFrame
<1>5. PoolInv' BY <1>1, <1>2 DEF IInv, PoolInv
<1>6. WorkInv' BY <1>2, <1>4, WorkFrame DEF IInv
<1>7. ThreadInv' BY <1>1, <1>2, <1>4, ZeroIsThread DEF IInv, ThreadInv
<1>8. AbortInv' BY <1>1, <1>2, <1>4 DEF IInv, AbortInv
<1>9. BarrierInv' BY <1>1, <1>2, BarrierFrame DEF IInv
<1> QED BY <1>3, <1>5, <1>6, <1>7, <1>8, <1>9 DEF IInv

LEMMA NextStep == IInv /\ [Next]_vars => IInv'
<1> SUFFICES ASSUME IInv, [Next]_vars PROVE IInv' OBVIOUS
<1>1. CASE Calls BY <1>1, CallsStep
<1>2. CASE InCall BY <1>2, InCallStep
<1>3. ASSUME NEW t \in Workers, Wait(t) PROVE IInv' BY <1>3, WaitStep
<1>4. ASSUME NEW t \in Threads, Compute(t) PROVE IInv'
  BY <1>4, EnterStep, ShareStep, ComputeChunkStep, GrabChunkStep, NoMoreChunksStep, NodeDoneStep,
     LeaveStep DEF Compute
<1>5. ASSUME NEW t \in Threads, Barrier(t) PROVE IInv'
  BY <1>5, EnterBarrierStep, ArriveStep, ResetBarrierStep, ReleaseBarrierStep, SpinStep DEF Barrier
<1>6. CASE UNCHANGED vars BY <1>6, StutterStep
<1> QED BY <1>1, <1>2, <1>3, <1>4, <1>5, <1>6 DEF Next

THEOREM GTInvariant == Spec => []IInv
<1>1. Init => IInv BY InitStep
<1>2. IInv /\ [Next]_vars => IInv' BY NextStep
<1> QED BY <1>1, <1>2, PTL DEF Spec

\* The state of the pool and of its threads is well formed (TypeOK).
THEOREM GTTypeCorrect == Spec => []TypeOK
<1>1. IInv => TypeOK BY DEF IInv
<1> QED BY <1>1, GTInvariant, PTL

\* The caller resets the graph, the chunk counter and abort, and reads ec, only
\* while no worker is inside of ggml_graph_compute_thread: nobody has to lock.
THEOREM GTResetAlone == Spec => []ResetAlone
<1>1. IInv => ResetAlone BY Quiet, ZeroIsThread DEF ResetAlone
<1> QED BY <1>1, GTInvariant, PTL

\* The barrier implements Lockstep: no thread of a graph is ever more than one
\* barrier ahead of another one, whatever the number of threads, the graphs,
\* the aborts and the pauses, and the team changes only between graphs.
THEOREM GTPhasesInLockstep == Spec => PhasesInLockstep
<1> DEFINE pvars == <<Team, arrived>>
<1>1. Init => Phases!LockstepInit
  BY DEF Init, Phases!LockstepInit, Team, Threads
<1>3. (IInv /\ pc[0] \in CallerPcs \ {"broadcast"} => Ahead = {})'
  <2>1. IInv /\ pc[0] \in CallerPcs \ {"broadcast"} => Ahead = {} BY Quiet
  <2> QED BY <2>1, PTL
<1>2. IInv /\ [Next]_vars => [Phases!LockstepNext]_pvars
  <2> SUFFICES ASSUME IInv, [Next]_vars PROVE Phases!LockstepNext \/ UNCHANGED pvars
    OBVIOUS
  <2>0. Team \in SUBSET Threads /\ Team' \in SUBSET Threads /\ n_barrier_passed \in Nat
    BY DEF Team, IInv, TypeOK
  <2>l. pc[0] \in CallerPcs \ {"broadcast"} => Phases!Level(Team)
    <3> SUFFICES ASSUME pc[0] \in CallerPcs \ {"broadcast"} PROVE Phases!Level(Team) OBVIOUS
    <3>1. \A u \in Team : arrived[u] = n_barrier_passed BY Quiet DEF Ahead, IInv, BarrierInv
    <3> QED BY <3>1 DEF Phases!Level
  <2>1. ASSUME NEW n, NEW g, NEW paused, NEW callerPc, NewImpl(n, g, paused, callerPc), pool = "none"
        PROVE  Phases!LockstepNext
    <3>1. arrived' = [u \in Threads |-> 0] BY <2>1 DEF NewImpl
    <3>2. pc[0] = "idle" BY <2>1 DEF IInv, PoolInv
    <3>3. Phases!Restart(Team') BY <2>l, <3>1, <3>2 DEF Phases!Restart, CallerPcs
    <3> QED BY <2>0, <3>3 DEF Phases!LockstepNext
  <2>2. CASE Calls
    <3>1. ASSUME NEW paused \in BOOLEAN, ThreadpoolNew(paused) PROVE Phases!LockstepNext
      BY <2>1, <3>1 DEF ThreadpoolNew
    <3>2. ASSUME NEW g \in Graphs, GraphComputeDisposable(g) PROVE Phases!LockstepNext
      BY <2>1, <3>2 DEF GraphComputeDisposable
    <3>3. ASSUME NEW g \in Graphs, GraphCompute(g) PROVE UNCHANGED pvars
      BY <3>3 DEF GraphCompute, Team, shared, barrier
    <3>4. CASE Pause \/ Resume \/ ThreadpoolFree
      BY <3>4 DEF Pause, Resume, ThreadpoolFree, Team, barrier
    <3> QED BY <2>2, <3>1, <3>2, <3>3, <3>4 DEF Calls
  <2>3. CASE InCall
    <3>1. CASE Kickoff
      <4>1. pc[0] = "kickoff" /\ pool # "none" /\ UNCHANGED <<arrived, n_graph>> /\ IInv'
            /\ pc'[0] = "announce"
        <5>1. 0 \in Threads /\ pc \in [Threads -> AllPcs]
          BY ZeroIsThread DEF IInv, TypeOK, PcTypeOK, AllPcs
        <5> QED BY <3>1, <5>1, NextStep DEF Kickoff, barrier, IInv, PoolInv
      <4>2. Phases!Level(Team) BY <2>l, <4>1 DEF CallerPcs
      <4>3. \A u \in Team' : arrived'[u] = n_barrier_passed'
        <5>1. /\ IInv' => /\ pc'[0] \in CallerPcs \ {"broadcast"} => Ahead' = {}
                          /\ \A u \in Team' : arrived'[u] \in {n_barrier_passed', n_barrier_passed' + 1}
          BY <1>3 DEF IInv, BarrierInv
        <5> QED BY <4>1, <5>1 DEF Ahead, CallerPcs
      <4>4. Phases!Level(Team') BY <4>1, <4>3 DEF Phases!Level
      <4>5. Phases!Assemble(Team') BY <4>1, <4>2, <4>4 DEF Phases!Assemble
      <4> QED BY <2>0, <4>5 DEF Phases!LockstepNext
    <3>2. CASE Announce \/ Broadcast \/ Returned \/ FreeBroadcast \/ Join
      BY <3>2 DEF Announce, Broadcast, Returned, FreeBroadcast, Join, Team, barrier, shared
    <3> QED BY <2>3, <3>1, <3>2 DEF InCall
  <2>4. ASSUME NEW t \in Workers, Wait(t) PROVE UNCHANGED pvars
    BY <2>4 DEF Wait, Top, PauseWait, StopCheck, PollForWork, ReadyFlags, ReadyGraph, ReadyActive,
                PollAgain, PollEnds, CheckForWork, Team, shared, barrier
  <2>5. ASSUME NEW t \in Threads, Compute(t) PROVE UNCHANGED pvars
    BY <2>5 DEF Compute, Enter, Share, ComputeChunk, GrabChunk, NoMoreChunks, NodeDone, Leave,
                Team, shared, barrier
  <2>6. ASSUME NEW t \in Threads, Arrive(t) PROVE Phases!LockstepNext
    <3>1. pc[t] = "arrive" /\ arrived' = [arrived EXCEPT ![t] = @ + 1] /\ Team' = Team
      BY <2>6 DEF Arrive, Team, shared
    <3>2. t \in Team BY <3>1, ComputingFacts DEF BarrierPcs
    <3>3. \A u \in Team : arrived[t] <= arrived[u]
      BY <2>0, <3>1 DEF IInv, BarrierInv
    <3>4. Phases!Arrive(t) BY <3>1, <3>2, <3>3 DEF Phases!Arrive
    <3> QED BY <3>4 DEF Phases!LockstepNext
  <2>7. ASSUME NEW t \in Threads,
               EnterBarrier(t) \/ ResetBarrier(t) \/ ReleaseBarrier(t) \/ Spin(t)
        PROVE  UNCHANGED pvars
    BY <2>7 DEF EnterBarrier, ResetBarrier, ReleaseBarrier, Spin, Team, shared, barrier
  <2>8. CASE UNCHANGED vars BY <2>8 DEF vars, Team, shared, barrier
  <2> QED BY <2>2, <2>3, <2>4, <2>5, <2>6, <2>7, <2>8 DEF Next, Barrier
<1> QED BY <1>1, <1>2, GTInvariant, PTL DEF Spec, PhasesInLockstep, Phases!LockstepSpec,
                                         Phases!lockstepVars

\* A worker is never asleep while there is a graph, a stop or a resume for it,
\* but for the moment in which the caller is about to wake it.
THEOREM GTSleepersHaveNoWork == Spec => []SleepersHaveNoWork
<1>1. Init => SleepersHaveNoWork BY DEF Init, SleepersHaveNoWork
<1>2. IInv /\ SleepersHaveNoWork /\ [Next]_vars => SleepersHaveNoWork'
  <2> SUFFICES ASSUME IInv, SleepersHaveNoWork, [Next]_vars PROVE SleepersHaveNoWork'
    OBVIOUS
  <2>0. /\ pc \in [Threads -> AllPcs] /\ 0 \in Threads /\ asleep \subseteq Workers
        /\ last_graph \in [Threads -> Nat]
    BY ZeroIsThread DEF IInv, TypeOK, PcTypeOK, AllPcs
  <2>1. CASE Calls
    <3>1. CASE \E paused \in BOOLEAN : ThreadpoolNew(paused)
      <4>1. asleep' = asleep /\ pool = "none" BY <3>1 DEF ThreadpoolNew, NewImpl
      <4>2. asleep = {} BY <4>1, <2>0 DEF IInv, PoolInv
      <4> QED BY <4>1, <4>2 DEF SleepersHaveNoWork
    <3>2. CASE \E g \in Graphs : GraphComputeDisposable(g)
      <4>1. asleep' = asleep /\ pool = "none" BY <3>2 DEF GraphComputeDisposable, NewImpl
      <4>2. asleep = {} BY <4>1, <2>0 DEF IInv, PoolInv
      <4> QED BY <4>1, <4>2 DEF SleepersHaveNoWork
    <3>3. CASE \E g \in Graphs : GraphCompute(g)
      BY <3>3 DEF GraphCompute, shared, waiting, SleepersHaveNoWork
    <3>4. CASE Pause \/ Resume BY <3>4 DEF Pause, Resume, SleepersHaveNoWork
    <3>5. CASE ThreadpoolFree
      <4>1. pc'[0] = "unpause" BY <2>0, <3>5 DEF ThreadpoolFree
      <4> QED BY <4>1 DEF SleepersHaveNoWork
    <3> QED BY <2>1, <3>1, <3>2, <3>3, <3>4, <3>5 DEF Calls
  <2>2. CASE InCall
    <3>1. CASE Kickoff \/ Announce
      <4>1. pc'[0] \in {"announce", "broadcast"} BY <2>0, <3>1 DEF Kickoff, Announce
      <4> QED BY <4>1 DEF SleepersHaveNoWork
    <3>2. CASE Broadcast \/ FreeBroadcast
      BY <3>2 DEF Broadcast, FreeBroadcast, SleepersHaveNoWork
    <3>3. CASE Returned \/ Join
      BY <3>3 DEF Returned, Join, SleepersHaveNoWork, shared, waiting
    <3> QED BY <2>2, <3>1, <3>2, <3>3 DEF InCall
  <2>3. ASSUME NEW t \in Workers, Wait(t) PROVE SleepersHaveNoWork'
    <3>0. /\ UNCHANGED <<stop, pause, n_graph>> /\ pc'[0] = pc[0]
      <4>1. t # 0 BY ZeroIsThread
      <4> QED BY <2>0, <2>3, <4>1 DEF Wait, Top, PauseWait, StopCheck, PollForWork, ReadyFlags,
            ReadyGraph, ReadyActive, PollAgain, PollEnds, CheckForWork, shared, Goto
    <3>1. CASE Top(t) \/ StopCheck(t) \/ PollForWork(t) \/ ReadyFlags(t) \/ ReadyGraph(t)
               \/ PollAgain(t) \/ PollEnds(t)
      <4>1. UNCHANGED <<last_graph, asleep>>
        BY <3>1 DEF Top, StopCheck, PollForWork, ReadyFlags, ReadyGraph, PollAgain, PollEnds, waiting
      <4> QED BY <3>0, <4>1 DEF SleepersHaveNoWork
    <3>2. CASE PauseWait(t)
      <4>1. UNCHANGED last_graph /\ ~locked /\ t \in Workers /\ pool # "none"
            /\ asleep' = IF pause THEN asleep \cup {t} ELSE asleep
        BY <3>2 DEF PauseWait, IInv, PoolInv
      <4>2. pause => ~stop BY <4>1 DEF IInv, PoolInv
      <4> QED BY <3>0, <4>1, <4>2 DEF SleepersHaveNoWork
    <3>3. CASE ReadyActive(t)
      <4>1. asleep' = asleep /\ t \notin asleep
            /\ \A u \in Threads \ {t} : last_graph'[u] = last_graph[u]
        BY <2>0, <3>3 DEF ReadyActive, IInv, PoolInv
      <4> QED BY <2>0, <3>0, <4>1, ZeroIsThread DEF SleepersHaveNoWork
    <3>4. CASE CheckForWork(t)
      <4>1. CASE stop \/ pause
        <5>1. UNCHANGED <<last_graph, asleep>> BY <3>4, <4>1 DEF CheckForWork
        <5> QED BY <3>0, <5>1 DEF SleepersHaveNoWork
      <4>2. CASE ~(stop \/ pause)
        <5>1. last_graph' = [last_graph EXCEPT ![t] = n_graph] /\ asleep' \subseteq asleep \cup {t}
          BY <3>4, <4>2 DEF CheckForWork
        <5>2. last_graph'[t] = n_graph /\ \A u \in Threads \ {t} : last_graph'[u] = last_graph[u]
          BY <2>0, <5>1, ZeroIsThread
        <5> QED BY <2>0, <3>0, <4>2, <5>1, <5>2, ZeroIsThread DEF SleepersHaveNoWork
      <4> QED BY <4>1, <4>2
    <3> QED BY <2>3, <3>1, <3>2, <3>3, <3>4 DEF Wait
  <2>4. ASSUME NEW t \in Threads, Compute(t) \/ Barrier(t) PROVE SleepersHaveNoWork'
    <3>1. UNCHANGED <<stop, pause, n_graph, last_graph, asleep>>
      BY <2>4 DEF Compute, Barrier, Enter, Share, ComputeChunk, GrabChunk, NoMoreChunks, NodeDone,
          Leave, EnterBarrier, Arrive, ResetBarrier, ReleaseBarrier, Spin, shared, waiting
    <3>2. t = 0 => pc[0] \notin CallerPcs
      BY <2>4 DEF Compute, Barrier, Enter, Share, ComputeChunk, GrabChunk, NoMoreChunks, NodeDone,
          Leave, EnterBarrier, Arrive, ResetBarrier, ReleaseBarrier, Spin, CallerPcs
    <3>3. t # 0 => pc'[0] = pc[0]
      BY <2>0, <2>4 DEF Compute, Barrier, Enter, Share, ComputeChunk, GrabChunk, NoMoreChunks, NodeDone,
          Leave, EnterBarrier, Arrive, ResetBarrier, ReleaseBarrier, Spin, Goto
    <3> QED BY <3>1, <3>2, <3>3 DEF SleepersHaveNoWork, CallerPcs
  <2>5. CASE UNCHANGED vars BY <2>5 DEF vars, shared, waiting, SleepersHaveNoWork
  <2> QED BY <2>1, <2>2, <2>3, <2>4, <2>5 DEF Next
<1> QED BY <1>1, <1>2, GTInvariant, PTL DEF Spec

-----------------------------------------------------------------------------
(* What has been computed.                                                 *)

\* The nodes before this one are computed when the graph is.
LastNode == IF ec = "ABORTED" THEN abort ELSE Len(cgraph)
AllParts == UNION {Parts(n_threads_cur, k) : k \in 0..(LastNode - 1)}

\* A thread that has done what it does in its phase, and one that has a chunk.
Finished(t) ==
    \/ pc[t] = "computed"
    \/ pc[t] = "next" /\ ~AtNode(t)
    \/ pc[t] \in BarrierPcs /\ ~Released(t)
Holds(t) == pc[t] = "chunk" \/ (Released(t) /\ after[t] = "chunk")

\* Which parts there are when a thread is in phase <<k, b>>.
Earlier(k) == \A j \in 0..(k - 1) : Parts(n_threads_cur, j) \subseteq computed
NothingElse(k) ==
    \A e \in computed : e[1] \in 0..k /\ e[1] < LastNode /\ e \in Parts(n_threads_cur, e[1])
Converted(k) == ({k} \X Shares(n_threads_cur)) \subseteq computed
OwnShare(t, k) ==
    /\ k < LastNode /\ Finished(t) => <<k, <<"share", t>>>> \in computed
    /\ Finished(t) /\ pc[t] \in BarrierPcs /\ after[t] = "chunk" =>
        chunk[t] = t /\ (t = 0 => current_chunk = n_threads_cur)
OwnChunk(t, k) ==
    /\ n_threads_cur <= current_chunk
    /\ Finished(t) => NChunks(n_threads_cur, k) <= current_chunk
    /\ Holds(t) => chunk[t] < current_chunk
EachChunk(k) ==
    \A c \in 0..(NChunks(n_threads_cur, k) - 1) :
        \/ <<k, <<"chunk", c>>>> \in computed
        \/ current_chunk <= c
        \/ \E u \in Team : Holds(u) /\ chunk[u] = c
PartsInv(t, k, b) ==
    /\ Earlier(k) /\ NothingElse(k)
    /\ b = 0 => OwnShare(t, k)
    /\ b = 1 => Converted(k) /\ OwnChunk(t, k) /\ EachChunk(k)

\* params.nth inside the loop over the nodes.
InLoop(t) ==
    \/ pc[t] \in ComputePcs \ {"enter"}
    \/ pc[t] \in BarrierPcs /\ after[t] \in {"next", "chunk"}

\* Thread 0 has left the last barrier.
Home == pc[0] = "return" \/ (Released(0) /\ after[0] = "return")

ComputedInv ==
    /\ \A t \in Team : Working(t) => PartsInv(t, Phase(t)[1], Phase(t)[2])
    /\ \A t \in Team : Busy(t) /\ InLoop(t) => nth[t] = n_threads_cur
    /\ Home => computed = AllParts
    /\ ~Home /\ ~Working(0) => computed = {}

\* A phase is a node and whether its chunks are computed.
LEMMA PhaseFacts ==
    ASSUME IInv, NEW t \in Team, Working(t)
    PROVE  /\ Phase(t)[1] \in Nat /\ Phase(t)[2] \in {0, 1}
           /\ Phase(t)[2] = 1 => Phase(t)[1] < LastNode /\ IsMatMul(Phase(t)[1])
           /\ LastNode \in 0..Len(cgraph)
<1>0. /\ t \in Threads /\ node[t] \in Nat /\ Len(cgraph) \in Nat /\ abort \in Int
      /\ after[t] \in {"next", "chunk", "return", "top"}
  BY DEF Team, IInv, TypeOK
<1>a. LastNode \in 0..Len(cgraph) BY <1>0 DEF LastNode, IInv, AbortInv
<1>1. \A k \in Nat : /\ LastPhase(k)[1] = k /\ LastPhase(k)[2] \in {0, 1}
                     /\ LastPhase(k)[2] = 1 => IsMatMul(k)
  BY DEF LastPhase
<1> DEFINE Good(p) == /\ p[1] \in Nat /\ p[2] \in {0, 1}
                      /\ p[2] = 1 => p[1] < LastNode /\ IsMatMul(p[1])
<1> SUFFICES Good(Phase(t)) BY <1>a
<1>2. Good(EndPhase)
  <2>1. CASE ec = "ABORTED" /\ abort < Len(cgraph)
    BY <1>0, <2>1 DEF EndPhase, IInv, AbortInv
  <2>2. CASE ~(ec = "ABORTED" /\ abort < Len(cgraph))
    <3>1. LastNode = Len(cgraph) BY <1>0, <2>2 DEF LastNode, IInv, AbortInv
    <3>2. CASE Len(cgraph) = 0 BY <2>2, <3>2 DEF EndPhase
    <3>3. CASE Len(cgraph) # 0
      <4>1. EndPhase = LastPhase(Len(cgraph) - 1) BY <2>2, <3>3 DEF EndPhase
      <4> QED BY <1>0, <1>1, <3>1, <3>3, <4>1
    <3> QED BY <3>2, <3>3
  <2> QED BY <2>1, <2>2
<1>4. CASE Called(t) BY <1>4 DEF Phase
<1>5. CASE Busy(t) /\ ~Called(t)
  <2>1. PlaceInv(t) /\ pc[t] \in ComputePcs \cup BarrierPcs /\ (ec = "ABORTED" => NotBeyond(t))
    BY <1>0, <1>5, BusyFacts DEF IInv, AbortInv
  <2>2. CASE pc[t] = "enter" BY <1>5, <2>2 DEF Phase
  <2>3. CASE pc[t] = "next"
    <3>1. Phase(t) = NextPhase(node[t]) BY <1>5, <2>3 DEF Phase
    <3>2. CASE node[t] > 0 /\ node[t] = Len(cgraph)
      <4>1. Phase(t) = LastPhase(node[t] - 1) BY <3>1, <3>2 DEF NextPhase
      <4>2. node[t] - 1 < LastNode BY <1>0, <2>1, <2>3, <3>2 DEF LastNode, NotBeyond, BarrierPcs
      <4> QED BY <1>0, <1>1, <3>2, <4>1, <4>2
    <3>3. CASE ~(node[t] > 0 /\ node[t] = Len(cgraph))
      BY <1>0, <3>1, <3>3 DEF NextPhase
    <3> QED BY <3>2, <3>3
  <2>4. CASE pc[t] \in {"chunk", "grab"}
    <3>1. Phase(t) = <<node[t], 1>> BY <1>5, <2>4 DEF Phase
    <3>2. node[t] < LastNode /\ IsMatMul(node[t])
      BY <2>1, <2>4 DEF PlaceInv, NotBeyond, LastNode, IInv, TypeOK
    <3> QED BY <1>0, <3>1, <3>2
  <2>5. CASE pc[t] = "computed"
    <3>1. Phase(t) = LastPhase(node[t]) BY <1>5, <2>5 DEF Phase
    <3>2. node[t] < LastNode
      BY <2>1, <2>5 DEF PlaceInv, NotBeyond, LastNode, IInv, TypeOK
    <3> QED BY <1>0, <1>1, <3>1, <3>2
  <2>6. CASE pc[t] \in BarrierPcs /\ Released(t)
    <3>1. Phase(t) = <<node[t], IF after[t] = "chunk" THEN 1 ELSE 0>>
      BY <1>5, <2>6 DEF Phase, BarrierPcs
    <3>2. after[t] = "chunk" => node[t] < LastNode /\ IsMatMul(node[t])
      BY <2>1, <2>6 DEF PlaceInv, NotBeyond, LastNode, IInv, TypeOK
    <3> QED BY <1>0, <3>1, <3>2
  <2>7. CASE pc[t] \in BarrierPcs /\ ~Released(t)
    <3>1. CASE after[t] = "chunk"
      <4>1. Phase(t) = <<node[t], 0>> BY <1>5, <2>7, <3>1 DEF Phase, BarrierPcs
      <4> QED BY <1>0, <4>1
    <3>2. CASE after[t] = "next"
      <4>1. Phase(t) = LastPhase(node[t] - 1) BY <1>5, <2>7, <3>2 DEF Phase, BarrierPcs
      <4>2. node[t] > 0 /\ node[t] < Len(cgraph) BY <2>1, <2>7, <3>2 DEF PlaceInv
      <4>3. ec = "ABORTED" => node[t] <= abort BY <2>1, <2>7 DEF NotBeyond, BarrierPcs
      <4>4. node[t] - 1 < LastNode BY <1>0, <4>2, <4>3 DEF LastNode
      <4> QED BY <1>0, <1>1, <4>1, <4>2, <4>4
    <3>3. CASE after[t] \notin {"chunk", "next"}
      <4>1. Phase(t) = EndPhase BY <1>5, <2>7, <3>3 DEF Phase, BarrierPcs
      <4> QED BY <1>2, <4>1
    <3> QED BY <3>1, <3>2, <3>3
  <2> QED BY <2>1, <2>2, <2>3, <2>4, <2>5, <2>6, <2>7 DEF ComputePcs
<1> QED BY <1>4, <1>5 DEF Working

\* How many chunks a node has.
LEMMA NChunksFacts ==
    ASSUME IInv, NEW k \in 0..(Len(cgraph) - 1), NEW n \in Nat
    PROVE  NChunks(n, k) \in Nat /\ n <= NChunks(n, k)
<1>1. Len(cgraph) \in Nat /\ cgraph \in Seq(Nat) BY DEF IInv, TypeOK
<1>2. cgraph[k + 1] \in Nat BY <1>1
<1> QED BY <1>2 DEF NChunks

\* A thread that works has not gone home, and its team works with it.
LEMMA NotHome ==
    ASSUME IInv, NEW t \in Team, Working(t), 0 \in Team
    PROVE  Working(0) /\ ~Home
<1>1. Working(0) BY DEF IInv, WorkInv
<1> QED BY <1>1 DEF Working, Called, Busy, Home, Released, ComputePcs, BarrierPcs

\* A step of thread t inside a phase: it is enough to look at t, at what it has
\* computed and at the chunks.
LEMMA InPhaseComputed ==
    ASSUME IInv, ComputedInv, Steady, 0 \in Team, NEW t \in Team, Working(t),
           IInv',
           \A u \in Team \ {t} :
              /\ pc'[u] = pc[u] /\ after'[u] = after[u] /\ n_passed'[u] = n_passed[u]
              /\ chunk'[u] = chunk[u] /\ nth'[u] = nth[u] /\ (Finished(u)' => Finished(u)),
           UNCHANGED <<cgraph, n_threads_cur, n_barrier_passed>>,
           computed \subseteq computed', LastNode' <= LastNode,
           LastNode \in Int, LastNode' \in Int,
           \/ current_chunk' = current_chunk
           \/ t = 0 /\ Phase(t)[2] = 0
           \/ Phase(t)[2] = 1 /\ current_chunk <= current_chunk',
           Busy(t)' /\ InLoop(t)' => nth'[t] = n_threads_cur,
           \A k \in Nat, b \in {0, 1} :
              Phase(t)[1] = k /\ Phase(t)[2] = b /\ PartsInv(t, k, b) =>
                 /\ NothingElse(k)'
                 /\ b = 0 => OwnShare(t, k)'
                 /\ b = 1 => OwnChunk(t, k)' /\ EachChunk(k)'
    PROVE  ComputedInv'
<1>0. Team' = Team /\ Team \subseteq Threads BY DEF Team
<1>1. Working(0) /\ Working(0)' /\ ~Home'
  <2>1. Working(0) /\ Working(0)' BY NotHome DEF Steady
  <2>2. pc'[0] # "return" BY <2>1 DEF Working, Called, Busy, ComputePcs, BarrierPcs
  <2>3. ~(Released(0)' /\ after'[0] = "return")
    BY <2>1 DEF Working, Called, Busy, Released, ComputePcs, BarrierPcs
  <2> QED BY <2>1, <2>2, <2>3 DEF Home
<1>2. PICK k \in Nat, b \in {0, 1} : Phase(t)[1] = k /\ Phase(t)[2] = b BY PhaseFacts
<1>3. PartsInv(t, k, b) BY <1>2 DEF ComputedInv
<1>4. /\ NothingElse(k)'
      /\ b = 0 => OwnShare(t, k)'
      /\ b = 1 => OwnChunk(t, k)' /\ EachChunk(k)'
  BY <1>2, <1>3
<1>5. ASSUME NEW u \in Team, Working(u)' PROVE PartsInv(u, Phase(u)[1], Phase(u)[2])'
  <2>1. Phase(u)' = Phase(t) BY <1>5 DEF Steady, IInv, WorkInv
  <2>2. Phase(u) = Phase(t) /\ Working(u) BY <1>5 DEF Steady, IInv, WorkInv
  <2>3. PartsInv(u, k, b) BY <1>2, <2>2 DEF ComputedInv
  <2>4. Earlier(k)' BY <2>3 DEF PartsInv, Earlier, Parts, IsMatMul, Chunks, NChunks
  <2>5. b = 0 => OwnShare(u, k)'
    <3>1. CASE u = t BY <1>4, <3>1
    <3>2. CASE u # t
      <4>1. /\ pc'[u] = pc[u] /\ after'[u] = after[u] /\ chunk'[u] = chunk[u]
            /\ Finished(u)' => Finished(u)
        BY <3>2
      <4>2. b = 0 /\ u = 0 => current_chunk' = current_chunk BY <1>2, <3>2
      <4>3. k < LastNode' => k < LastNode OBVIOUS
      <4> QED BY <2>3, <4>1, <4>2, <4>3 DEF PartsInv, OwnShare
    <3> QED BY <3>1, <3>2
  <2>6. b = 1 => Converted(k)' BY <2>3 DEF PartsInv, Converted
  <2>7. b = 1 => OwnChunk(u, k)'
    <3>1. CASE u = t BY <1>4, <3>1
    <3>2. CASE u # t
      <4>1. /\ pc'[u] = pc[u] /\ after'[u] = after[u] /\ chunk'[u] = chunk[u]
            /\ n_passed'[u] = n_passed[u] /\ (Finished(u)' => Finished(u))
        BY <3>2
      <4>2. Holds(u)' <=> Holds(u) BY <4>1 DEF Holds, Released
      <4>3. /\ n_threads_cur \in Nat /\ current_chunk \in Nat /\ current_chunk' \in Nat
            /\ chunk[u] \in Nat
        BY <1>0 DEF IInv, TypeOK
      <4>4. b = 1 => NChunks(n_threads_cur, k) \in Nat
        <5>1. b = 1 => k \in 0..(Len(cgraph) - 1) BY <1>2, PhaseFacts
        <5> QED BY <4>3, <5>1, NChunksFacts
      <4>5. NChunks(n_threads_cur, k)' = NChunks(n_threads_cur, k) BY DEF NChunks
      <4>6. b = 1 => current_chunk <= current_chunk' BY <1>2, <4>3
      <4> QED BY <2>3, <4>1, <4>2, <4>3, <4>4, <4>5, <4>6 DEF PartsInv, OwnChunk
    <3> QED BY <3>1, <3>2
  <2> QED BY <1>2, <1>4, <2>1, <2>4, <2>5, <2>6, <2>7 DEF PartsInv
<1>6. \A u \in Team : Busy(u)' /\ InLoop(u)' => nth'[u] = n_threads_cur
  <2> SUFFICES ASSUME NEW u \in Team, u # t, Busy(u)', InLoop(u)' PROVE nth'[u] = n_threads_cur
    OBVIOUS
  <2>1. pc'[u] = pc[u] /\ after'[u] = after[u] /\ n_passed'[u] = n_passed[u] /\ nth'[u] = nth[u]
    OBVIOUS
  <2>2. Busy(u) /\ InLoop(u) BY <2>1 DEF Busy, InLoop
  <2> QED BY <2>1, <2>2 DEF ComputedInv
<1> QED BY <1>0, <1>1, <1>5, <1>6 DEF ComputedInv

\* A thread that is where it was has finished as much as before.
LEMMA FinishedFrame ==
    ASSUME NEW u \in Threads, pc'[u] = pc[u], node'[u] = node[u], n_passed'[u] = n_passed[u],
           UNCHANGED <<n_barrier_passed, cgraph, abort>>
    PROVE  Finished(u)' <=> Finished(u)
BY DEF Finished, AtNode, Released

\* A thread at a place of the computation works with thread 0.
LEMMA AtWork ==
    ASSUME IInv, NEW t \in Threads, Busy(t)
    PROVE  t \in Team /\ 0 \in Team /\ Working(t) /\ ~Called(t)
BY BusyFacts, ComputingFacts

LEMMA EnterComputed == ASSUME IInv, ComputedInv, NEW t \in Threads, Enter(t) PROVE ComputedInv'
<1>0. /\ pc \in [Threads -> AllPcs] /\ node \in [Threads -> Nat] /\ nth \in [Threads -> Nat]
      /\ current_chunk \in Nat /\ abort \in Int
  BY DEF IInv, TypeOK, PcTypeOK, AllPcs
<1>1. /\ pc[t] = "enter" /\ pc'[t] = "next" /\ node'[t] = 0 /\ nth'[t] = n_threads_cur
      /\ \A u \in Threads \ {t} : pc'[u] = pc[u] /\ node'[u] = node[u] /\ nth'[u] = nth[u]
      /\ UNCHANGED <<after, n_passed, chunk, current_chunk, computed, cgraph, ec, abort,
                     n_threads_cur, n_barrier_passed>>
  BY <1>0 DEF Enter, Goto, shared, result, barrier
<1>2. IInv' /\ Steady BY EnterStep
<1>3. Busy(t) BY <1>1 DEF Busy, ComputePcs
<1>4. t \in Team /\ 0 \in Team /\ Working(t) /\ ~Called(t) BY <1>3, AtWork
<1>5. Phase(t) = <<0, 0>> BY <1>1 DEF Phase
<1>6. LastNode' = LastNode /\ LastNode \in 0..Len(cgraph) BY <1>1, <1>4, PhaseFacts DEF LastNode
<1>7. Team \subseteq Threads BY DEF Team
<1>8. \A u \in Team \ {t} : Finished(u)' => Finished(u) BY <1>1, <1>7, FinishedFrame
<1>9. NothingElse(0) => NothingElse(0)' BY <1>1, <1>6 DEF NothingElse, Parts, IsMatMul, Chunks, NChunks
<1>10. OwnShare(t, 0)'
  <2>1. 0 < LastNode => AtNode(t)' BY <1>1, <1>6 DEF AtNode, IInv, AbortInv, TypeOK
  <2> QED BY <1>1, <1>6, <2>1 DEF OwnShare, Finished, BarrierPcs
<1>11. \A k \in Nat, b \in {0, 1} :
          Phase(t)[1] = k /\ Phase(t)[2] = b /\ PartsInv(t, k, b) =>
             /\ NothingElse(k)'
             /\ b = 0 => OwnShare(t, k)'
             /\ b = 1 => OwnChunk(t, k)' /\ EachChunk(k)'
  BY <1>5, <1>9, <1>10 DEF PartsInv
<1>12. \A u \in Team \ {t} :
          /\ pc'[u] = pc[u] /\ after'[u] = after[u] /\ n_passed'[u] = n_passed[u]
          /\ chunk'[u] = chunk[u] /\ nth'[u] = nth[u] /\ (Finished(u)' => Finished(u))
  BY <1>1, <1>7, <1>8
<1>13. LastNode' <= LastNode /\ LastNode \in Int /\ LastNode' \in Int
       /\ computed \subseteq computed'
  BY <1>0, <1>1, <1>6
<1> QED BY <1>1, <1>2, <1>4, <1>11, <1>12, <1>13, InPhaseComputed

LEMMA ShareComputed == ASSUME IInv, ComputedInv, NEW t \in Threads, Share(t) PROVE ComputedInv'
<1>0. /\ pc \in [Threads -> AllPcs] /\ node \in [Threads -> Nat] /\ chunk \in [Threads -> Nat]
      /\ after \in [Threads -> {"next", "chunk", "return", "top"}]
      /\ current_chunk \in Nat /\ abort \in Int /\ Len(cgraph) \in Nat /\ n_threads_cur \in Nat
  BY DEF IInv, TypeOK, PcTypeOK, AllPcs
<1>1. /\ pc[t] = "next" /\ node[t] < Len(cgraph) /\ abort # node[t]
      /\ computed' = computed \cup {<<node[t], <<"share", t>>>>}
      /\ UNCHANGED <<node, nth, n_passed, cgraph, ec, abort, n_threads_cur, n_barrier_passed>>
  BY DEF Share, AtNode, shared, result, barrier
<1>2. /\ IsMatMul(node[t]) => /\ chunk'[t] = t /\ after'[t] = "chunk" /\ pc'[t] = "barrier"
                              /\ t = 0 => current_chunk' = nth[t]
                              /\ t # 0 => current_chunk' = current_chunk
      /\ ~IsMatMul(node[t]) => pc'[t] = "computed" /\ UNCHANGED <<current_chunk, chunk, after>>
      /\ \A u \in Threads \ {t} : pc'[u] = pc[u] /\ after'[u] = after[u] /\ chunk'[u] = chunk[u]
  BY <1>0 DEF Share, Goto
<1>3. IInv' /\ Steady BY ShareStep
<1>4. Busy(t) BY <1>1 DEF Busy, ComputePcs
<1>5. t \in Team /\ 0 \in Team /\ Working(t) /\ ~Called(t) BY <1>4, AtWork
<1>6. Phase(t) = <<node[t], 0>> BY <1>0, <1>1, <1>5 DEF Phase, NextPhase
<1>7. LastNode' = LastNode /\ LastNode \in 0..Len(cgraph) BY <1>1, <1>5, PhaseFacts DEF LastNode
<1>8. node[t] < LastNode
  <2>1. ec = "ABORTED" => node[t] <= abort BY <1>1, <1>4, <1>5 DEF IInv, AbortInv, NotBeyond
  <2> QED BY <1>0, <1>1, <2>1 DEF LastNode
<1>9. nth[t] = n_threads_cur BY <1>1, <1>4, <1>5 DEF ComputedInv, InLoop, ComputePcs
<1>10. Team \subseteq Threads /\ t \in 0..(n_threads_cur - 1) BY <1>0, <1>5 DEF Team, Threads
<1>11. NothingElse(node[t]) => NothingElse(node[t])'
  <2> SUFFICES ASSUME NothingElse(node[t]), NEW e \in computed'
               PROVE  /\ e[1] \in 0..node[t] /\ e[1] < LastNode
                      /\ e \in Parts(n_threads_cur, e[1])'
    BY <1>1, <1>7 DEF NothingElse
  <2>1. Parts(n_threads_cur, e[1])' = Parts(n_threads_cur, e[1])
    BY <1>1 DEF Parts, IsMatMul, Chunks, NChunks
  <2>2. CASE e \in computed BY <2>1, <2>2 DEF NothingElse
  <2>3. CASE e = <<node[t], <<"share", t>>>>
    <3>1. <<"share", t>> \in Shares(n_threads_cur) BY <1>10 DEF Shares
    <3>2. e \in Parts(n_threads_cur, node[t]) BY <2>3, <3>1 DEF Parts
    <3> QED BY <1>0, <1>8, <2>1, <2>3, <3>2
  <2> QED BY <1>1, <2>2, <2>3
<1>12. OwnShare(t, node[t])'
  <2>1. pc'[t] \in BarrierPcs => chunk'[t] = t /\ (t = 0 => current_chunk' = n_threads_cur)
    BY <1>2, <1>9 DEF BarrierPcs
  <2> QED BY <1>1, <2>1 DEF OwnShare
<1>13. \A k \in Nat, b \in {0, 1} :
          Phase(t)[1] = k /\ Phase(t)[2] = b /\ PartsInv(t, k, b) =>
             /\ NothingElse(k)'
             /\ b = 0 => OwnShare(t, k)'
             /\ b = 1 => OwnChunk(t, k)' /\ EachChunk(k)'
  BY <1>1, <1>6, <1>11, <1>12 DEF PartsInv
<1>14. \A u \in Team \ {t} : Finished(u)' => Finished(u) BY <1>1, <1>2, <1>10, FinishedFrame
<1>15. \A u \in Team \ {t} :
          /\ pc'[u] = pc[u] /\ after'[u] = after[u] /\ n_passed'[u] = n_passed[u]
          /\ chunk'[u] = chunk[u] /\ nth'[u] = nth[u] /\ (Finished(u)' => Finished(u))
  BY <1>1, <1>2, <1>10, <1>14
<1>16. /\ LastNode' <= LastNode /\ LastNode \in Int /\ LastNode' \in Int
       /\ computed \subseteq computed' /\ nth'[t] = n_threads_cur
       /\ current_chunk' = current_chunk \/ (t = 0 /\ Phase(t)[2] = 0)
  BY <1>1, <1>2, <1>6, <1>7, <1>9
<1> QED BY <1>1, <1>3, <1>5, <1>13, <1>15, <1>16, InPhaseComputed

\* A thread among the chunks of a node.
LEMMA AmongChunks ==
    ASSUME IInv, ComputedInv, NEW t \in Threads, pc[t] \in {"chunk", "grab"}
    PROVE  /\ Busy(t) /\ t \in Team /\ 0 \in Team /\ Working(t)
           /\ Phase(t) = <<node[t], 1>> /\ nth[t] = n_threads_cur
           /\ node[t] \in Nat /\ node[t] < LastNode /\ node[t] < Len(cgraph) /\ IsMatMul(node[t])
           /\ LastNode \in Int
           /\ NChunks(n_threads_cur, node[t]) \in Nat
           /\ n_threads_cur \in Nat /\ n_threads_cur <= NChunks(n_threads_cur, node[t])
<1>1. Busy(t) BY DEF Busy, ComputePcs
<1>2. t \in Team /\ 0 \in Team /\ Working(t) /\ ~Called(t) BY <1>1, AtWork
<1>3. Phase(t) = <<node[t], 1>> BY <1>2 DEF Phase
<1>4. nth[t] = n_threads_cur BY <1>1, <1>2 DEF ComputedInv, InLoop, ComputePcs
<1>5. node[t] \in Nat /\ Len(cgraph) \in Nat /\ n_threads_cur \in Nat BY DEF IInv, TypeOK
<1>6. node[t] < LastNode /\ LastNode \in 0..Len(cgraph) /\ IsMatMul(node[t])
  BY <1>2, <1>3, PhaseFacts
<1>7. node[t] \in 0..(Len(cgraph) - 1) BY <1>5, <1>6
<1>8. LastNode \in Int /\ node[t] < Len(cgraph) BY <1>6, <1>7
<1>9. /\ NChunks(n_threads_cur, node[t]) \in Nat
      /\ n_threads_cur <= NChunks(n_threads_cur, node[t])
  BY <1>5, <1>7, NChunksFacts
<1> QED BY <1>1, <1>2, <1>3, <1>4, <1>5, <1>6, <1>8, <1>9

LEMMA ComputeChunkComputed ==
    ASSUME IInv, ComputedInv, NEW t \in Threads, ComputeChunk(t) PROVE ComputedInv'
<1>0. /\ pc \in [Threads -> AllPcs] /\ chunk \in [Threads -> Nat] /\ current_chunk \in Nat
  BY DEF IInv, TypeOK, PcTypeOK, AllPcs
<1>1. /\ pc[t] = "chunk" /\ chunk[t] < NChunks(nth[t], node[t])
      /\ computed' = computed \cup {<<node[t], <<"chunk", chunk[t]>>>>}
      /\ pc'[t] = IF nth[t] >= NChunks(nth[t], node[t]) THEN "computed" ELSE "grab"
      /\ \A u \in Threads \ {t} : pc'[u] = pc[u]
      /\ UNCHANGED <<node, nth, chunk, current_chunk, after, n_passed, cgraph, ec, abort,
                     n_threads_cur, n_barrier_passed>>
  BY <1>0 DEF ComputeChunk, MoreChunks, Goto, shared, result, barrier
<1> DEFINE k == node[t]
           N == NChunks(n_threads_cur, k)
<1>2. IInv' /\ Steady BY ComputeChunkStep
<1>3. /\ t \in Team /\ 0 \in Team /\ Working(t) /\ Phase(t) = <<k, 1>> /\ nth[t] = n_threads_cur
      /\ k \in Nat /\ k < LastNode /\ IsMatMul(k) /\ LastNode \in Int
      /\ N \in Nat /\ n_threads_cur \in Nat /\ n_threads_cur <= N
  BY <1>1, AmongChunks
<1>4. LastNode' = LastNode BY <1>1 DEF LastNode
<1>5. N' = N BY <1>1 DEF NChunks
<1>6. Team' = Team /\ Team \subseteq Threads BY <1>1 DEF Team
<1>7. NothingElse(k) => NothingElse(k)'
  <2> SUFFICES ASSUME NothingElse(k), NEW e \in computed'
               PROVE  /\ e[1] \in 0..k /\ e[1] < LastNode
                      /\ e \in Parts(n_threads_cur, e[1])'
    BY <1>1, <1>4 DEF NothingElse
  <2>1. Parts(n_threads_cur, e[1])' = Parts(n_threads_cur, e[1])
    BY <1>1 DEF Parts, IsMatMul, Chunks, NChunks
  <2>2. CASE e \in computed BY <2>1, <2>2 DEF NothingElse
  <2>3. CASE e = <<k, <<"chunk", chunk[t]>>>>
    <3>1. chunk[t] \in 0..(N - 1) BY <1>0, <1>1, <1>3
    <3>2. <<"chunk", chunk[t]>> \in Chunks(n_threads_cur, k) BY <3>1 DEF Chunks
    <3>3. e \in Parts(n_threads_cur, k) BY <1>3, <2>3, <3>2 DEF Parts
    <3> QED BY <1>3, <2>1, <2>3, <3>3
  <2> QED BY <1>1, <2>2, <2>3
<1>8. OwnChunk(t, k) => OwnChunk(t, k)'
  <2>1. ~Holds(t)' BY <1>1 DEF Holds, Released
  <2>2. Finished(t)' => n_threads_cur >= N BY <1>1, <1>3 DEF Finished, Released, BarrierPcs
  <2> QED BY <1>0, <1>1, <1>3, <1>5, <2>1, <2>2 DEF OwnChunk
<1>9. EachChunk(k) => EachChunk(k)'
  <2> SUFFICES ASSUME EachChunk(k), NEW c \in 0..(N - 1)
               PROVE  \/ <<k, <<"chunk", c>>>> \in computed'
                      \/ current_chunk <= c
                      \/ \E u \in Team : Holds(u)' /\ chunk[u] = c
    BY <1>1, <1>5, <1>6 DEF EachChunk
  <2>1. CASE chunk[t] = c BY <1>1, <2>1
  <2>2. CASE chunk[t] # c
    <3>1. \A u \in Team : u # t => (Holds(u)' <=> Holds(u)) BY <1>1, <1>6 DEF Holds, Released
    <3> QED BY <1>1, <2>2, <3>1 DEF EachChunk
  <2> QED BY <2>1, <2>2
<1>10. \A j \in Nat, b \in {0, 1} :
          Phase(t)[1] = j /\ Phase(t)[2] = b /\ PartsInv(t, j, b) =>
             /\ NothingElse(j)'
             /\ b = 0 => OwnShare(t, j)'
             /\ b = 1 => OwnChunk(t, j)' /\ EachChunk(j)'
  BY <1>1, <1>3, <1>7, <1>8, <1>9 DEF PartsInv
<1>11. \A u \in Team \ {t} : Finished(u)' => Finished(u) BY <1>1, <1>6, FinishedFrame
<1>12. \A u \in Team \ {t} :
          /\ pc'[u] = pc[u] /\ after'[u] = after[u] /\ n_passed'[u] = n_passed[u]
          /\ chunk'[u] = chunk[u] /\ nth'[u] = nth[u] /\ (Finished(u)' => Finished(u))
  BY <1>1, <1>6, <1>11
<1>13. /\ LastNode' <= LastNode /\ LastNode \in Int /\ LastNode' \in Int
       /\ computed \subseteq computed' /\ nth'[t] = n_threads_cur
  BY <1>1, <1>3, <1>4
<1> QED BY <1>1, <1>2, <1>3, <1>10, <1>12, <1>13, InPhaseComputed

LEMMA GrabChunkComputed ==
    ASSUME IInv, ComputedInv, NEW t \in Threads, GrabChunk(t) PROVE ComputedInv'
<1>0. /\ pc \in [Threads -> AllPcs] /\ chunk \in [Threads -> Nat] /\ current_chunk \in Nat
  BY DEF IInv, TypeOK, PcTypeOK, AllPcs
<1>1. /\ pc[t] = "grab" /\ pc'[t] = "chunk" /\ chunk'[t] = current_chunk
      /\ current_chunk' = current_chunk + 1
      /\ \A u \in Threads \ {t} : pc'[u] = pc[u] /\ chunk'[u] = chunk[u]
      /\ UNCHANGED <<node, nth, computed, after, n_passed, cgraph, ec, abort,
                     n_threads_cur, n_barrier_passed>>
  BY <1>0 DEF GrabChunk, Goto, shared, result, barrier
<1> DEFINE k == node[t]
           N == NChunks(n_threads_cur, k)
<1>2. IInv' /\ Steady BY GrabChunkStep
<1>3. /\ t \in Team /\ 0 \in Team /\ Working(t) /\ Phase(t) = <<k, 1>> /\ nth[t] = n_threads_cur
      /\ LastNode \in Int /\ N \in Nat /\ n_threads_cur \in Nat
  BY <1>1, AmongChunks
<1>4. LastNode' = LastNode BY <1>1 DEF LastNode
<1>5. N' = N BY <1>1 DEF NChunks
<1>6. Team' = Team /\ Team \subseteq Threads BY <1>1 DEF Team
<1>7. NothingElse(k) => NothingElse(k)'
  BY <1>1, <1>4 DEF NothingElse, Parts, IsMatMul, Chunks, NChunks
<1>8. OwnChunk(t, k) => OwnChunk(t, k)'
  <2>1. ~Finished(t)' BY <1>1 DEF Finished, BarrierPcs
  <2> QED BY <1>0, <1>1, <1>3, <2>1 DEF OwnChunk
<1>9. EachChunk(k) => EachChunk(k)'
  <2> SUFFICES ASSUME EachChunk(k), NEW c \in 0..(N - 1)
               PROVE  \/ <<k, <<"chunk", c>>>> \in computed
                      \/ current_chunk' <= c
                      \/ \E u \in Team : Holds(u)' /\ chunk'[u] = c
    BY <1>1, <1>5, <1>6 DEF EachChunk
  <2>1. CASE current_chunk = c
    <3>1. Holds(t)' BY <1>1 DEF Holds
    <3> QED BY <1>1, <1>3, <2>1, <3>1
  <2>2. CASE current_chunk # c
    <3>1. current_chunk <= c => current_chunk' <= c BY <1>0, <1>1, <2>2
    <3>2. ~Holds(t) BY <1>1 DEF Holds, Released
    <3>3. \A u \in Team : u # t => (Holds(u)' <=> Holds(u)) BY <1>1, <1>6 DEF Holds, Released
    <3> QED BY <1>1, <1>6, <3>1, <3>2, <3>3 DEF EachChunk
  <2> QED BY <2>1, <2>2
<1>10. \A j \in Nat, b \in {0, 1} :
          Phase(t)[1] = j /\ Phase(t)[2] = b /\ PartsInv(t, j, b) =>
             /\ NothingElse(j)'
             /\ b = 0 => OwnShare(t, j)'
             /\ b = 1 => OwnChunk(t, j)' /\ EachChunk(j)'
  BY <1>1, <1>3, <1>7, <1>8, <1>9 DEF PartsInv
<1>11. \A u \in Team \ {t} : Finished(u)' => Finished(u) BY <1>1, <1>6, FinishedFrame
<1>12. \A u \in Team \ {t} :
          /\ pc'[u] = pc[u] /\ after'[u] = after[u] /\ n_passed'[u] = n_passed[u]
          /\ chunk'[u] = chunk[u] /\ nth'[u] = nth[u] /\ (Finished(u)' => Finished(u))
  BY <1>1, <1>6, <1>11
<1>13. /\ LastNode' <= LastNode /\ LastNode \in Int /\ LastNode' \in Int
       /\ computed \subseteq computed' /\ nth'[t] = n_threads_cur
       /\ Phase(t)[2] = 1 /\ current_chunk <= current_chunk'
  BY <1>0, <1>1, <1>3, <1>4
<1> QED BY <1>1, <1>2, <1>3, <1>10, <1>12, <1>13, InPhaseComputed

LEMMA NoMoreChunksComputed ==
    ASSUME IInv, ComputedInv, NEW t \in Threads, NoMoreChunks(t) PROVE ComputedInv'
<1>0. /\ pc \in [Threads -> AllPcs] /\ chunk \in [Threads -> Nat] /\ current_chunk \in Nat
  BY DEF IInv, TypeOK, PcTypeOK, AllPcs
<1>1. /\ pc[t] = "chunk" /\ pc'[t] = "computed" /\ ~(chunk[t] < NChunks(nth[t], node[t]))
      /\ \A u \in Threads \ {t} : pc'[u] = pc[u]
      /\ UNCHANGED <<node, nth, chunk, current_chunk, computed, after, n_passed, cgraph, ec, abort,
                     n_threads_cur, n_barrier_passed>>
  BY <1>0 DEF NoMoreChunks, MoreChunks, Goto, shared, result, barrier, work
<1> DEFINE k == node[t]
           N == NChunks(n_threads_cur, k)
<1>2. IInv' /\ Steady BY NoMoreChunksStep
<1>3. /\ t \in Team /\ 0 \in Team /\ Working(t) /\ Phase(t) = <<k, 1>> /\ nth[t] = n_threads_cur
      /\ LastNode \in Int /\ N \in Nat /\ n_threads_cur \in Nat
  BY <1>1, AmongChunks
<1>4. LastNode' = LastNode BY <1>1 DEF LastNode
<1>5. N' = N BY <1>1 DEF NChunks
<1>6. Team' = Team /\ Team \subseteq Threads BY <1>1 DEF Team
<1>7. NothingElse(k) => NothingElse(k)'
  BY <1>1, <1>4 DEF NothingElse, Parts, IsMatMul, Chunks, NChunks
<1>8. OwnChunk(t, k) => OwnChunk(t, k)'
  <2>1. ~Holds(t)' BY <1>1 DEF Holds, Released
  <2>2. Holds(t) BY <1>1 DEF Holds
  <2> QED BY <1>0, <1>1, <1>3, <1>5, <2>1, <2>2 DEF OwnChunk
<1>9. EachChunk(k) => EachChunk(k)'
  <2> SUFFICES ASSUME EachChunk(k), NEW c \in 0..(N - 1)
               PROVE  \/ <<k, <<"chunk", c>>>> \in computed
                      \/ current_chunk <= c
                      \/ \E u \in Team : Holds(u)' /\ chunk[u] = c
    BY <1>1, <1>5, <1>6 DEF EachChunk
  <2>1. chunk[t] # c BY <1>0, <1>1, <1>3
  <2>2. \A u \in Team : u # t => (Holds(u)' <=> Holds(u)) BY <1>1, <1>6 DEF Holds, Released
  <2> QED BY <2>1, <2>2 DEF EachChunk
<1>10. \A j \in Nat, b \in {0, 1} :
          Phase(t)[1] = j /\ Phase(t)[2] = b /\ PartsInv(t, j, b) =>
             /\ NothingElse(j)'
             /\ b = 0 => OwnShare(t, j)'
             /\ b = 1 => OwnChunk(t, j)' /\ EachChunk(j)'
  BY <1>1, <1>3, <1>7, <1>8, <1>9 DEF PartsInv
<1>11. \A u \in Team \ {t} : Finished(u)' => Finished(u) BY <1>1, <1>6, FinishedFrame
<1>12. \A u \in Team \ {t} :
          /\ pc'[u] = pc[u] /\ after'[u] = after[u] /\ n_passed'[u] = n_passed[u]
          /\ chunk'[u] = chunk[u] /\ nth'[u] = nth[u] /\ (Finished(u)' => Finished(u))
  BY <1>1, <1>6, <1>11
<1>13. /\ LastNode' <= LastNode /\ LastNode \in Int /\ LastNode' \in Int
       /\ computed \subseteq computed' /\ nth'[t] = n_threads_cur
  BY <1>1, <1>3, <1>4
<1> QED BY <1>1, <1>2, <1>3, <1>10, <1>12, <1>13, InPhaseComputed

\* A thread that has finished goes on to the end of its phase.
LEMMA StillFinished ==
    ASSUME IInv, ComputedInv, IInv', Steady, NEW t \in Threads, Busy(t),
           Finished(t), ~Holds(t), ~Holds(t)',
           pc'[t] \in BarrierPcs /\ after'[t] = "chunk" =>
              pc[t] \in BarrierPcs /\ after[t] = "chunk" /\ chunk'[t] = chunk[t],
           Busy(t)' /\ InLoop(t)' => nth'[t] = n_threads_cur,
           \A u \in Threads \ {t} :
              /\ pc'[u] = pc[u] /\ after'[u] = after[u] /\ n_passed'[u] = n_passed[u]
              /\ chunk'[u] = chunk[u] /\ nth'[u] = nth[u] /\ (Busy(u) /\ Finished(u)' => Finished(u)),
           UNCHANGED <<computed, current_chunk, cgraph, n_threads_cur, n_barrier_passed>>,
           LastNode \in Int, LastNode' \in Int, LastNode' <= LastNode,
           LastNode' = LastNode \/ Phase(t)[1] < LastNode'
    PROVE  ComputedInv'
<1>0. t \in Team /\ 0 \in Team /\ Working(t) BY AtWork
<1>1. Team' = Team /\ Team \subseteq Threads BY DEF Team
<1>2. ASSUME NEW k \in Nat, NEW b \in {0, 1}, Phase(t)[1] = k, Phase(t)[2] = b, PartsInv(t, k, b)
      PROVE  /\ NothingElse(k)'
             /\ b = 0 => OwnShare(t, k)'
             /\ b = 1 => OwnChunk(t, k)' /\ EachChunk(k)'
  <2>1. NothingElse(k)'
    <3> SUFFICES ASSUME NEW e \in computed
                 PROVE  /\ e[1] \in 0..k /\ e[1] < LastNode'
                        /\ e \in Parts(n_threads_cur, e[1])'
      BY DEF NothingElse
    <3>1. Parts(n_threads_cur, e[1])' = Parts(n_threads_cur, e[1])
      BY DEF Parts, IsMatMul, Chunks, NChunks
    <3>2. e[1] \in 0..k /\ e[1] < LastNode /\ e \in Parts(n_threads_cur, e[1])
      BY <1>2 DEF PartsInv, NothingElse
    <3> QED BY <1>2, <3>1, <3>2
  <2>2. b = 0 => OwnShare(t, k)'
    <3>1. k < LastNode' => k < LastNode OBVIOUS
    <3> QED BY <1>2, <3>1 DEF PartsInv, OwnShare
  <2>3. b = 1 => OwnChunk(t, k)' BY <1>2 DEF PartsInv, OwnChunk, NChunks
  <2>4. b = 1 => EachChunk(k)'
    <3>1. \A u \in Team : u # t => (Holds(u)' <=> Holds(u)) BY <1>1 DEF Holds, Released
    <3>2. NChunks(n_threads_cur, k)' = NChunks(n_threads_cur, k) BY DEF NChunks
    <3> QED BY <1>1, <1>2, <3>1, <3>2 DEF PartsInv, EachChunk
  <2> QED BY <2>1, <2>2, <2>3, <2>4
<1>3. ASSUME NEW u \in Team \ {t} PROVE Finished(u)' => Finished(u)
  <2>1. pc'[u] = pc[u] /\ n_passed'[u] = n_passed[u] BY <1>1
  <2>2. Finished(u)' => Busy(u) BY <2>1 DEF Finished, Busy, Released, ComputePcs, BarrierPcs
  <2> QED BY <1>1, <2>2
<1>4. \A u \in Team \ {t} :
          /\ pc'[u] = pc[u] /\ after'[u] = after[u] /\ n_passed'[u] = n_passed[u]
          /\ chunk'[u] = chunk[u] /\ nth'[u] = nth[u] /\ (Finished(u)' => Finished(u))
  BY <1>1, <1>3
<1>5. computed \subseteq computed' OBVIOUS
<1> QED BY <1>0, <1>2, <1>4, <1>5, InPhaseComputed

LEMMA NodeDoneComputed ==
    ASSUME IInv, ComputedInv, NEW t \in Threads, NodeDone(t) PROVE ComputedInv'
<1>0. /\ pc \in [Threads -> AllPcs] /\ chunk \in [Threads -> Nat] /\ node \in [Threads -> Nat]
      /\ after \in [Threads -> {"next", "chunk", "return", "top"}]
      /\ abort \in Int /\ Len(cgraph) \in Nat
  BY DEF IInv, TypeOK, PcTypeOK, AllPcs
<1>1. /\ pc[t] = "computed"
      /\ \/ pc'[t] = "barrier" /\ after'[t] = "next"
         \/ pc'[t] = "next"
      /\ \/ UNCHANGED <<abort, ec>>
         \/ t = 0 /\ abort' = node[t] + 1 /\ ec' = "ABORTED"
      /\ UNCHANGED <<nth, n_passed, computed, current_chunk, cgraph, n_threads_cur,
                     n_barrier_passed>>
  BY <1>0 DEF NodeDone, Goto, shared, barrier
<1>2. \A u \in Threads \ {t} : /\ pc'[u] = pc[u] /\ after'[u] = after[u]
                               /\ chunk'[u] = chunk[u] /\ node'[u] = node[u]
  BY <1>0 DEF NodeDone, Goto
<1>3. IInv' /\ Steady BY NodeDoneStep
<1>4. Busy(t) BY <1>1 DEF Busy, ComputePcs
<1>5. t \in Team /\ 0 \in Team /\ Working(t) /\ ~Called(t) BY <1>4, AtWork
<1>6. Finished(t) /\ ~Holds(t) /\ ~Holds(t)' BY <1>1 DEF Finished, Holds, Released
<1>7. nth'[t] = n_threads_cur BY <1>1, <1>4, <1>5 DEF ComputedInv, InLoop, ComputePcs
<1>8. Phase(t) = LastPhase(node[t]) /\ node[t] < Len(cgraph)
  BY <1>1, <1>4, <1>5, BusyFacts DEF Phase, PlaceInv
<1>9. Phase(t)[1] = node[t] BY <1>8 DEF LastPhase
<1>10. CASE UNCHANGED <<abort, ec>>
  <2>1. LastNode' = LastNode /\ LastNode \in Int BY <1>1, <1>5, <1>10, PhaseFacts DEF LastNode
  <2>2. \A u \in Threads \ {t} : Finished(u)' => Finished(u)
    BY <1>1, <1>2, <1>10, FinishedFrame
  <2>3. LastNode' <= LastNode /\ LastNode' \in Int BY <2>1
  <2>4. pc'[t] \in BarrierPcs => after'[t] # "chunk" BY <1>1 DEF BarrierPcs
  <2> QED BY <1>1, <1>2, <1>3, <1>4, <1>6, <1>7, <2>1, <2>2, <2>3, <2>4, StillFinished
<1>11. CASE t = 0 /\ abort' = node[t] + 1 /\ ec' = "ABORTED"
  <2>1. ec = "SUCCESS" /\ abort = -1
    BY <1>1, <1>11 DEF IInv, TypeOK, AbortInv, CallerPcs, BarrierPcs
  <2>2. LastNode = Len(cgraph) /\ LastNode' = node[t] + 1 BY <1>11, <2>1 DEF LastNode
  <2>3. /\ LastNode \in Int /\ LastNode' \in Int /\ LastNode' <= LastNode
        /\ Phase(t)[1] < LastNode'
    BY <1>0, <1>8, <1>9, <2>2
  <2>4. ASSUME NEW u \in Threads \ {t}, Busy(u), Finished(u)' PROVE Finished(u)
    <3>1. pc'[u] = pc[u] /\ node'[u] = node[u] /\ n_passed'[u] = n_passed[u] BY <1>1, <1>2
    <3>2. CASE pc[u] = "next"
      <4>1. u \in Team /\ Working(u) /\ ~Called(u) BY <2>4, AtWork
      <4>2. Phase(u) = LastPhase(node[t]) BY <1>5, <1>8, <4>1 DEF IInv, WorkInv
      <4>3. Phase(u) = NextPhase(node[u]) BY <3>2, <4>1 DEF Phase
      <4>4. node[u] # node[t] + 1 \/ node[u] >= Len(cgraph)
        <5> SUFFICES ASSUME node[u] = node[t] + 1, node[u] < Len(cgraph) PROVE FALSE
          BY <1>0
        <5>1. NextPhase(node[u]) = <<node[u], 0>> BY <1>0 DEF NextPhase
        <5>2. node[u] = node[t] BY <4>2, <4>3, <5>1 DEF LastPhase
        <5> QED BY <1>0, <5>2
      <4>5. ~(node[u] < Len(cgraph) /\ node[t] + 1 # node[u])
        BY <1>1, <1>11, <2>4, <3>1, <3>2 DEF Finished, AtNode, BarrierPcs
      <4>6. ~AtNode(u) BY <1>0, <4>4, <4>5 DEF AtNode
      <4> QED BY <3>2, <4>6 DEF Finished
    <3>3. CASE pc[u] # "next"
      BY <1>1, <2>4, <3>1, <3>3 DEF Finished, Released
    <3> QED BY <3>2, <3>3
  <2>5. pc'[t] \in BarrierPcs => after'[t] # "chunk" BY <1>1 DEF BarrierPcs
  <2> QED BY <1>1, <1>2, <1>3, <1>4, <1>6, <1>7, <2>3, <2>4, <2>5, StillFinished
<1> QED BY <1>1, <1>10, <1>11

LEMMA LeaveComputed ==
    ASSUME IInv, ComputedInv, NEW t \in Threads, Leave(t) PROVE ComputedInv'
<1>0. /\ pc \in [Threads -> AllPcs] /\ node \in [Threads -> Nat] /\ nth \in [Threads -> Nat]
      /\ after \in [Threads -> {"next", "chunk", "return", "top"}]
  BY DEF IInv, TypeOK, PcTypeOK, AllPcs
<1>1. /\ pc[t] = "next" /\ ~AtNode(t) /\ pc'[t] = "barrier" /\ after'[t] \in {"return", "top"}
      /\ UNCHANGED <<chunk, n_passed, computed, current_chunk, cgraph, ec, abort, n_threads_cur,
                     n_barrier_passed>>
  BY <1>0 DEF Leave, Goto, shared, barrier, result
<1>2. \A u \in Threads \ {t} : /\ pc'[u] = pc[u] /\ after'[u] = after[u]
                               /\ nth'[u] = nth[u] /\ node'[u] = node[u]
  BY <1>0 DEF Leave, Goto
<1>3. IInv' /\ Steady BY LeaveStep
<1>4. Busy(t) BY <1>1 DEF Busy, ComputePcs
<1>5. t \in Team /\ Working(t) BY <1>4, AtWork
<1>6. Finished(t) /\ ~Holds(t) /\ ~Holds(t)' BY <1>1 DEF Finished, Holds, Released
<1>7. ~InLoop(t)' BY <1>1 DEF InLoop, ComputePcs, BarrierPcs
<1>8. LastNode' = LastNode /\ LastNode \in Int BY <1>1, <1>5, PhaseFacts DEF LastNode
<1>9. LastNode' <= LastNode /\ LastNode' \in Int BY <1>8
<1>10. \A u \in Threads \ {t} : Finished(u)' => Finished(u) BY <1>1, <1>2, FinishedFrame
<1> QED BY <1>1, <1>2, <1>3, <1>4, <1>6, <1>7, <1>8, <1>9, <1>10, StillFinished

\* A thread goes on inside its barrier.
LEMMA InBarrierComputed ==
    ASSUME IInv, ComputedInv, IInv', Steady, NEW t \in Threads,
           pc[t] \in {"barrier", "arrive", "last"},
           NEW where \in {"arrive", "spin", "last", "release"}, pc' = [pc EXCEPT ![t] = where],
           n_passed'[t] = n_barrier_passed \/ where # "spin",
           \A u \in Threads \ {t} : n_passed'[u] = n_passed[u],
           UNCHANGED <<shared, result, n_barrier_passed, work, after>>
    PROVE  ComputedInv'
<1>0. pc \in [Threads -> AllPcs] BY DEF IInv, TypeOK, PcTypeOK, AllPcs
<1>1. /\ pc'[t] = where /\ \A u \in Threads \ {t} : pc'[u] = pc[u]
      /\ UNCHANGED <<node, nth, chunk, current_chunk, computed, cgraph, ec, abort, after,
                     n_threads_cur, n_barrier_passed>>
  BY <1>0 DEF shared, result, work
<1>2. Busy(t) BY DEF Busy, BarrierPcs
<1>3. t \in Team /\ Working(t) BY <1>2, AtWork
<1>4. Finished(t) /\ ~Holds(t) /\ ~Holds(t)' BY <1>1 DEF Finished, Holds, Released, BarrierPcs
<1>5. InLoop(t)' <=> InLoop(t) BY <1>1 DEF InLoop, ComputePcs, BarrierPcs
<1>6. InLoop(t) => nth[t] = n_threads_cur BY <1>2, <1>3 DEF ComputedInv
<1>7. LastNode' = LastNode /\ LastNode \in Int BY <1>1, <1>3, PhaseFacts DEF LastNode
<1>8. LastNode' <= LastNode /\ LastNode' \in Int BY <1>7
<1>9. \A u \in Threads \ {t} : Finished(u)' => Finished(u) BY <1>1, FinishedFrame
<1>10. pc[t] \in BarrierPcs BY DEF BarrierPcs
<1> QED BY <1>1, <1>2, <1>4, <1>5, <1>6, <1>7, <1>8, <1>9, <1>10, StillFinished

\* The loop over the nodes stops at the last one.
LEMMA StopsAtLast == ASSUME IInv, NEW u \in Threads, abort = node[u] PROVE LastNode = node[u]
<1>1. ec \in {"SUCCESS", "ABORTED"} /\ node[u] \in Nat BY DEF IInv, TypeOK
<1>2. ec = "ABORTED" BY <1>1 DEF IInv, AbortInv
<1> QED BY <1>2 DEF LastNode

\* A step that computes nothing, and after which everybody has in hand what
\* he had before.
LEMMA SameInHand ==
    ASSUME IInv, ComputedInv, Steady, Working(0)' <=> Working(0), Home' <=> Home,
           UNCHANGED <<cgraph, ec, abort, n_threads_cur, chunk, nth, current_chunk, computed>>,
           \A u \in Team :
              /\ Working(u)' /\ Finished(u)' =>
                    \/ Finished(u) /\ pc'[u] = pc[u] /\ after'[u] = after[u]
                    \/ Phase(u) = <<LastNode, 0>> /\ pc'[u] = "next"
              /\ Holds(u)' <=> Holds(u)
              /\ Busy(u)' /\ InLoop(u)' => Busy(u) /\ InLoop(u)
    PROVE  ComputedInv'
<1>1. Team' = Team /\ LastNode' = LastNode /\ AllParts' = AllParts
  BY DEF Team, LastNode, AllParts, Parts, IsMatMul, Chunks, NChunks
<1>2. ASSUME NEW u \in Team, Working(u)' PROVE PartsInv(u, Phase(u)[1], Phase(u)[2])'
  <2>1. Working(u) /\ Phase(u)' = Phase(u) BY <1>2 DEF Steady
  <2>2. PICK k \in Nat, b \in {0, 1} : Phase(u)[1] = k /\ Phase(u)[2] = b BY <2>1, PhaseFacts
  <2>3. PartsInv(u, k, b) BY <2>1, <2>2 DEF ComputedInv
  <2>4. Earlier(k)' /\ NothingElse(k)' /\ (Converted(k)' <=> Converted(k))
    BY <1>1, <2>3
       DEF PartsInv, Earlier, NothingElse, Converted, Parts, IsMatMul, Chunks, NChunks
  <2>5. OwnShare(u, k) => OwnShare(u, k)'
    <3>1. CASE Finished(u)' => Finished(u) /\ pc'[u] = pc[u] /\ after'[u] = after[u]
      BY <1>1, <3>1 DEF OwnShare
    <3>2. CASE Phase(u) = <<LastNode, 0>> /\ pc'[u] = "next"
      <4>1. k = LastNode BY <2>2, <3>2
      <4>2. LastNode \in Int BY <2>1, PhaseFacts
      <4> QED BY <1>1, <3>2, <4>1, <4>2 DEF OwnShare, BarrierPcs
    <3> QED BY <1>2, <3>1, <3>2
  <2>6. b = 1 /\ OwnChunk(u, k) => OwnChunk(u, k)'
    <3>1. b = 1 /\ Finished(u)' => Finished(u) BY <1>2, <2>2
    <3> QED BY <3>1 DEF OwnChunk, NChunks
  <2>7. EachChunk(k) => EachChunk(k)' BY <1>1 DEF EachChunk, NChunks
  <2>8. PartsInv(u, k, b)' BY <2>3, <2>4, <2>5, <2>6, <2>7 DEF PartsInv
  <2> QED BY <2>1, <2>2, <2>8
<1>3. \A u \in Team : Busy(u)' /\ InLoop(u)' => nth'[u] = n_threads_cur BY DEF ComputedInv
<1>4. Home' => computed' = AllParts' BY <1>1 DEF ComputedInv
<1>5. ~Home' /\ ~Working(0)' => computed' = {} BY DEF ComputedInv
<1> QED BY <1>1, <1>2, <1>3, <1>4, <1>5 DEF ComputedInv

\* A thread leaves a barrier that has been opened for it.
LEMMA SpinComputed == ASSUME IInv, ComputedInv, NEW t \in Threads, Spin(t) PROVE ComputedInv'
<1>0. /\ pc \in [Threads -> AllPcs] /\ after \in [Threads -> {"next", "chunk", "return", "top"}]
      /\ node \in [Threads -> Nat] /\ Len(cgraph) \in Nat
  BY DEF IInv, TypeOK, PcTypeOK, AllPcs
<1>1. /\ pc[t] = "spin" /\ n_barrier_passed # n_passed[t] /\ pc'[t] = after[t]
      /\ \A u \in Threads \ {t} : pc'[u] = pc[u]
      /\ UNCHANGED <<node, nth, chunk, current_chunk, computed, cgraph, ec, abort, after, n_passed,
                     n_threads_cur, n_barrier_passed, n_graph, last_graph>>
  BY <1>0 DEF Spin, Goto, shared, result, barrier, waiting, work
<1>2. IInv' /\ Steady BY SpinStep
<1>3. Released(t) BY <1>1 DEF Released
<1>4. t \in Team /\ 0 \in Team BY <1>1, ComputingFacts DEF BarrierPcs
<1>5. Team \subseteq Threads BY DEF Team
<1>6. \A u \in Threads \ {t} : /\ Finished(u)' <=> Finished(u)
                               /\ Holds(u)' <=> Holds(u)
                               /\ Busy(u)' <=> Busy(u)
                               /\ InLoop(u)' <=> InLoop(u)
  <2> SUFFICES ASSUME NEW u \in Threads \ {t}
               PROVE  /\ Finished(u)' <=> Finished(u)
                      /\ Holds(u)' <=> Holds(u)
                      /\ Busy(u)' <=> Busy(u)
                      /\ InLoop(u)' <=> InLoop(u)
    OBVIOUS
  <2>1. pc'[u] = pc[u] BY <1>1
  <2>2. Finished(u)' <=> Finished(u) BY <1>1, <2>1, FinishedFrame
  <2>3. Holds(u)' <=> Holds(u) BY <1>1, <2>1 DEF Holds, Released
  <2>4. (Busy(u)' <=> Busy(u)) /\ (InLoop(u)' <=> InLoop(u)) BY <1>1, <2>1 DEF Busy, InLoop
  <2> QED BY <2>2, <2>3, <2>4
<1>7. Holds(t)' <=> Holds(t)
  <2>1. ~Released(t)' BY <1>0, <1>1 DEF Released
  <2> QED BY <1>0, <1>1, <1>3, <2>1 DEF Holds
<1>8. (Working(0)' <=> Working(0)) BY <1>2, <1>4 DEF Steady
<1>9. Home' <=> Home
  <2>1. CASE t = 0
    <3>1. pc'[0] # "spin" BY <1>0, <1>1, <2>1
    <3> QED BY <1>1, <1>3, <2>1, <3>1 DEF Home, Released
  <2>2. CASE t # 0
    <3>1. pc'[0] = pc[0] BY <1>1, <2>2, ZeroIsThread
    <3> QED BY <1>1, <3>1 DEF Home, Released
  <2> QED BY <2>1, <2>2
<1>10. Busy(t)' /\ InLoop(t)' => Busy(t) /\ InLoop(t)
  BY <1>0, <1>1 DEF Busy, InLoop, ComputePcs, BarrierPcs
<1>11. ASSUME Working(t)', Finished(t)' PROVE Phase(t) = <<LastNode, 0>> /\ pc'[t] = "next"
  <2>1. Working(t) BY <1>2, <1>4, <1>11 DEF Steady
  <2>2. pc'[t] = "next" /\ ~AtNode(t)' BY <1>0, <1>1, <1>11 DEF Finished, BarrierPcs
  <2>3. Busy(t) /\ after[t] = "next" BY <1>1, <2>2 DEF Busy
  <2>4. ~Called(t) /\ PlaceInv(t) BY <2>3, BusyFacts
  <2>5. Phase(t) = <<node[t], 0>> BY <1>1, <1>3, <2>3, <2>4 DEF Phase
  <2>6. node[t] < Len(cgraph) BY <1>1, <2>3, <2>4 DEF PlaceInv, BarrierPcs
  <2>7. abort = node[t] BY <1>1, <2>2, <2>6 DEF AtNode
  <2>8. LastNode = node[t] BY <2>7, StopsAtLast
  <2> QED BY <2>2, <2>5, <2>8
<1>12. ASSUME NEW u \in Team
       PROVE  /\ Working(u)' /\ Finished(u)' =>
                    \/ Finished(u) /\ pc'[u] = pc[u] /\ after'[u] = after[u]
                    \/ Phase(u) = <<LastNode, 0>> /\ pc'[u] = "next"
              /\ Holds(u)' <=> Holds(u)
              /\ Busy(u)' /\ InLoop(u)' => Busy(u) /\ InLoop(u)
  BY <1>1, <1>5, <1>6, <1>7, <1>10, <1>11
<1> QED BY <1>1, <1>2, <1>8, <1>9, <1>12, SameInHand

\* A worker that waits for a graph has nothing in hand.
LEMMA WaitComputed == ASSUME IInv, ComputedInv, NEW t \in Workers, Wait(t) PROVE ComputedInv'
<1>0. pc \in [Threads -> AllPcs] /\ t \in Threads /\ t # 0 /\ 0 \in Threads
  BY ZeroIsThread DEF IInv, TypeOK, PcTypeOK, AllPcs
<1>1. pc[t] \in WaitPcs \ {"none", "exited"}
  BY DEF Wait, Top, PauseWait, StopCheck, PollForWork, ReadyFlags, ReadyGraph, ReadyActive,
         PollAgain, PollEnds, CheckForWork, WaitPcs
<1>2. /\ \A u \in Threads \ {t} : pc'[u] = pc[u]
      /\ pc'[t] \in WaitPcs \cup {"enter"}
  <2>1. CASE UNCHANGED pc BY <1>1, <2>1
  <2>2. CASE Top(t) \/ StopCheck(t) \/ PollForWork(t) \/ ReadyFlags(t)
    BY <1>0, <2>2 DEF Top, StopCheck, PollForWork, ReadyFlags, Goto, WaitPcs
  <2>3. CASE PauseWait(t) \/ PollAgain(t) \/ PollEnds(t) \/ ReadyGraph(t)
    BY <1>0, <2>3 DEF PauseWait, PollAgain, PollEnds, ReadyGraph, Goto, WaitPcs
  <2>4. CASE ReadyActive(t) BY <1>0, <2>4 DEF ReadyActive, Goto, WaitPcs
  <2>5. CASE CheckForWork(t) BY <1>0, <2>1, <2>5 DEF CheckForWork, Goto, WaitPcs
  <2> QED BY <2>2, <2>3, <2>4, <2>5 DEF Wait
<1>3. UNCHANGED <<shared, result, barrier, work, after>>
  BY DEF Wait, Top, PauseWait, StopCheck, PollForWork, ReadyFlags, ReadyGraph, ReadyActive,
         PollAgain, PollEnds, CheckForWork
<1>4. UNCHANGED <<node, nth, chunk, current_chunk, computed, cgraph, ec, abort, after, n_passed,
                  n_threads_cur, n_barrier_passed>>
  BY <1>3 DEF shared, result, barrier, work
<1>5. IInv' /\ Steady BY WaitStep
<1>6. pool # "none" BY <1>1 DEF IInv, PoolInv
<1>7. 0 \in Team BY <1>6 DEF IInv, ThreadInv
<1>8. (Working(0)' <=> Working(0)) BY <1>5, <1>7 DEF Steady
<1>9. Home' <=> Home BY <1>0, <1>2, <1>4 DEF Home, Released
<1>10. ASSUME NEW u \in Team
       PROVE  /\ Working(u)' /\ Finished(u)' =>
                    \/ Finished(u) /\ pc'[u] = pc[u] /\ after'[u] = after[u]
                    \/ Phase(u) = <<LastNode, 0>> /\ pc'[u] = "next"
              /\ Holds(u)' <=> Holds(u)
              /\ Busy(u)' /\ InLoop(u)' => Busy(u) /\ InLoop(u)
  <2>1. CASE u = t
    <3>1. ~Finished(t)' /\ ~InLoop(t)'
      BY <1>2 DEF Finished, InLoop, WaitPcs, ComputePcs, BarrierPcs
    <3>2. ~Holds(t)' /\ ~Holds(t) BY <1>1, <1>2 DEF Holds, Released, WaitPcs
    <3> QED BY <2>1, <3>1, <3>2
  <2>2. CASE u # t
    <3>1. pc'[u] = pc[u] /\ u \in Threads BY <1>2, <2>2 DEF Team
    <3>2. Finished(u)' <=> Finished(u) BY <1>4, <3>1, FinishedFrame
    <3> QED BY <1>4, <3>1, <3>2 DEF Holds, Released, Busy, InLoop
  <2> QED BY <2>1, <2>2
<1> QED BY <1>4, <1>5, <1>8, <1>9, <1>10, SameInHand

LEMMA StutterComputed == ASSUME IInv, ComputedInv, UNCHANGED vars PROVE ComputedInv'
<1>1. /\ UNCHANGED <<n_threads_cur, n_graph, abort, ec, cgraph, n_barrier_passed, n_passed>>
      /\ UNCHANGED <<last_graph, node, nth, chunk, current_chunk, computed, pc, after>>
  BY DEF vars, shared, result, barrier, waiting, work
<1>2. \A u \in Threads :
          (Busy(u)' <=> Busy(u)) /\ (Working(u)' <=> Working(u)) /\ Phase(u)' = Phase(u)
  BY <1>1, PhaseFrame
<1>3. Team \subseteq Threads /\ 0 \in Threads BY ZeroIsThread DEF Team
<1>4. Steady BY <1>2, <1>3 DEF Steady
<1>5. \A u \in Threads : Finished(u)' <=> Finished(u) BY <1>1, FinishedFrame
<1>6. Home' <=> Home BY <1>1 DEF Home, Released
<1>7. ASSUME NEW u \in Team
      PROVE  /\ Working(u)' /\ Finished(u)' =>
                    \/ Finished(u) /\ pc'[u] = pc[u] /\ after'[u] = after[u]
                    \/ Phase(u) = <<LastNode, 0>> /\ pc'[u] = "next"
             /\ Holds(u)' <=> Holds(u)
             /\ Busy(u)' /\ InLoop(u)' => Busy(u) /\ InLoop(u)
  BY <1>1, <1>2, <1>3, <1>5 DEF Holds, Released, InLoop
<1> QED BY <1>1, <1>2, <1>3, <1>4, <1>6, <1>7, SameInHand

\* While nobody computes, nothing has been computed.
LEMMA NobodyComputes ==
    ((\A u \in Threads : ~Busy(u)) /\ ~Home /\ computed = {} => ComputedInv)'
<1>1. (\A u \in Threads : ~Busy(u)) /\ ~Home /\ computed = {} => ComputedInv
  <2> SUFFICES ASSUME \A u \in Threads : ~Busy(u), ~Home, computed = {} PROVE ComputedInv
    OBVIOUS
  <2>1. Team \subseteq Threads BY DEF Team
  <2>2. ASSUME NEW u \in Team, Working(u) PROVE PartsInv(u, Phase(u)[1], Phase(u)[2])
    <3>1. Called(u) BY <2>1, <2>2 DEF Working
    <3>2. Phase(u) = <<0, 0>> BY <3>1 DEF Phase
    <3>3. ~Finished(u) BY <2>1 DEF Finished, Busy, Released, ComputePcs, BarrierPcs
    <3>4. PartsInv(u, 0, 0) BY <3>3 DEF PartsInv, Earlier, NothingElse, OwnShare
    <3> QED BY <3>2, <3>4
  <2> QED BY <2>1, <2>2 DEF ComputedInv
<1> QED BY <1>1, PTL

\* Nobody computes after a step to where the caller is outside.
LEMMA QuietNext ==
    (IInv /\ pc[0] \in CallerPcs \ {"broadcast"} => \A u \in Threads : ~Busy(u))'
<1>1. IInv /\ pc[0] \in CallerPcs \ {"broadcast"} => \A u \in Threads : ~Busy(u) BY Quiet
<1> QED BY <1>1, PTL

\* The caller goes on outside of the computation.
LEMMA CallerComputed ==
    ASSUME IInv, ComputedInv, IInv', pc[0] \in CallerPcs \ {"broadcast"},
           pc'[0] \in CallerPcs \ {"return"}, \A u \in Threads : ~Busy(u)',
           computed' = {} \/ (computed' = computed /\ pc[0] # "return")
    PROVE  ComputedInv'
<1>1. ~Home' BY DEF Home, Released, CallerPcs
<1>2. computed' = {}
  <2> SUFFICES ASSUME computed' = computed, pc[0] # "return" PROVE computed = {} OBVIOUS
  <2>1. ~Home BY DEF Home, Released, CallerPcs
  <2>2. ~Working(0) BY DEF Working, Busy, Called, CallerPcs, ComputePcs, BarrierPcs
  <2> QED BY <2>1, <2>2 DEF ComputedInv
<1> QED BY <1>1, <1>2, NobodyComputes

LEMMA CallsComputed == IInv /\ ComputedInv /\ Calls => ComputedInv'
<1> SUFFICES ASSUME IInv, ComputedInv, Calls PROVE ComputedInv' OBVIOUS
<1>1. IInv' BY CallsStep
<1>2. pc[0] \in {"idle", "free"} /\ computed' = computed
  BY DEF Calls, ThreadpoolNew, GraphComputeDisposable, GraphCompute, NewImpl, Pause, Resume,
         ThreadpoolFree, work
<1>3. pc'[0] \in {"idle", "kickoff", "unpause"}
  <2>1. pc \in [Threads -> AllPcs] /\ 0 \in Threads
    BY ZeroIsThread DEF IInv, TypeOK, PcTypeOK, AllPcs
  <2>2. CASE Pause \/ Resume BY <1>2, <2>2 DEF Pause, Resume
  <2>3. CASE ThreadpoolFree BY <2>1, <2>3 DEF ThreadpoolFree
  <2>4. CASE \E paused \in BOOLEAN : ThreadpoolNew(paused)
    BY <2>1, <2>4 DEF ThreadpoolNew, NewImpl
  <2>5. CASE \E g \in Graphs : GraphComputeDisposable(g)
    BY <2>1, <2>5 DEF GraphComputeDisposable, NewImpl
  <2>6. CASE \E g \in Graphs : GraphCompute(g) BY <2>1, <2>6 DEF GraphCompute
  <2> QED BY <2>2, <2>3, <2>4, <2>5, <2>6 DEF Calls
<1> QED BY <1>1, <1>2, <1>3, QuietNext, CallerComputed DEF CallerPcs

LEMMA InCallComputed == IInv /\ ComputedInv /\ InCall => ComputedInv'
<1> SUFFICES ASSUME IInv, ComputedInv, InCall PROVE ComputedInv' OBVIOUS
<1>0. pc \in [Threads -> AllPcs] /\ 0 \in Threads
  BY ZeroIsThread DEF IInv, TypeOK, PcTypeOK, AllPcs
<1>1. IInv' BY InCallStep
<1>2. CASE Broadcast
  <2>1. /\ pc[0] = "broadcast" /\ pc'[0] = "enter"
        /\ \A u \in Threads \ {0} : pc'[u] = pc[u]
        /\ UNCHANGED <<node, nth, chunk, current_chunk, computed, cgraph, ec, abort, after,
                       n_passed, n_threads_cur, n_barrier_passed, n_graph, last_graph>>
    BY <1>0, <1>2 DEF Broadcast, result, barrier, work
  <2>2. Team \subseteq Threads BY DEF Team
  <2>3. ASSUME NEW u \in Threads \ {0}
        PROVE  /\ Working(u)' <=> Working(u)
               /\ Phase(u)' = Phase(u)
               /\ Finished(u)' <=> Finished(u)
               /\ Holds(u)' <=> Holds(u)
               /\ Busy(u)' /\ InLoop(u)' => Busy(u) /\ InLoop(u)
               /\ pc'[u] = pc[u] /\ after'[u] = after[u]
    <3>1. pc'[u] = pc[u] BY <2>1
    <3>2. (Working(u)' <=> Working(u)) /\ Phase(u)' = Phase(u) /\ (Busy(u)' <=> Busy(u))
      BY <2>1, <3>1, PhaseFrame
    <3>3. Finished(u)' <=> Finished(u) BY <2>1, <3>1, FinishedFrame
    <3> QED BY <2>1, <3>1, <3>2, <3>3 DEF Holds, Released, InLoop
  <2>4. Called(0) /\ Busy(0)' BY <2>1 DEF Called, Busy, ComputePcs
  <2>5. Working(0) /\ Working(0)' /\ Phase(0)' = Phase(0) BY <2>1, <2>4 DEF Working, Phase
  <2>6. Steady BY <2>2, <2>3, <2>5 DEF Steady
  <2>7. ~Home /\ ~Home' BY <2>1 DEF Home, Released
  <2>8. /\ ~Finished(0)' /\ ~InLoop(0)' /\ ~Holds(0) /\ ~Holds(0)'
    BY <2>1 DEF Finished, InLoop, Holds, Released, ComputePcs, BarrierPcs
  <2>9. ASSUME NEW u \in Team
        PROVE  /\ Working(u)' /\ Finished(u)' =>
                    \/ Finished(u) /\ pc'[u] = pc[u] /\ after'[u] = after[u]
                    \/ Phase(u) = <<LastNode, 0>> /\ pc'[u] = "next"
               /\ Holds(u)' <=> Holds(u)
               /\ Busy(u)' /\ InLoop(u)' => Busy(u) /\ InLoop(u)
    BY <2>2, <2>3, <2>8
  <2> QED BY <2>1, <2>5, <2>6, <2>7, <2>9, SameInHand
<1>3. CASE Kickoff \/ Announce \/ Returned \/ FreeBroadcast \/ Join
  <2>1. /\ pc[0] \in CallerPcs \ {"broadcast"}
        /\ computed' = {} \/ (computed' = computed /\ pc[0] # "return")
    BY <1>3 DEF Kickoff, Announce, Returned, FreeBroadcast, Join, CallerPcs, work
  <2>2. pc'[0] \in CallerPcs \ {"return"}
    BY <1>0, <1>3 DEF Kickoff, Announce, Returned, FreeBroadcast, Join, CallerPcs
  <2>3. \A u \in Threads : ~Busy(u)'
    <3>1. CASE Join
      BY <3>1 DEF Join, Busy, ComputePcs, BarrierPcs
    <3>2. CASE Kickoff \/ Announce \/ Returned \/ FreeBroadcast
      <4>1. /\ \A u \in Threads \ {0} : pc'[u] = pc[u]
            /\ UNCHANGED <<barrier, after>>
        BY <1>0, <3>2 DEF Kickoff, Announce, Returned, FreeBroadcast
      <4>2. \A u \in Threads \ {0} : Busy(u)' => Busy(u) BY <4>1 DEF Busy, barrier
      <4>3. ~Busy(0)' BY <2>2 DEF Busy, CallerPcs, ComputePcs, BarrierPcs
      <4> QED BY <2>1, <4>2, <4>3, Quiet
    <3> QED BY <1>3, <3>1, <3>2
  <2> QED BY <1>1, <2>1, <2>2, <2>3, CallerComputed
<1> QED BY <1>2, <1>3 DEF InCall

\* The whole team waits at one barrier.
AllAtBarrier == \A u \in Team : Busy(u) /\ pc[u] \in BarrierPcs /\ ~Released(u)

\* Thread 0 can only release a barrier that everybody waits at.
LEMMA ReleasesAll ==
    ASSUME IInv, NEW t \in Threads, pc[t] = "release"
    PROVE  /\ AllAtBarrier /\ t \in Team /\ 0 \in Team
           /\ \A u \in Team \ {t} : pc[u] = "spin" /\ n_passed[u] = n_barrier_passed
<1>0. n_barrier_passed \in Nat /\ Team \subseteq Threads BY DEF IInv, TypeOK, Team
<1>1. t \in Team /\ 0 \in Team BY ComputingFacts DEF BarrierPcs
<1>2. Ahead = Team BY DEF IInv, BarrierInv
<1>3. ASSUME NEW u \in Team \ {t} PROVE pc[u] = "spin" /\ n_passed[u] = n_barrier_passed
  <2>1. arrived[u] = n_barrier_passed + 1 BY <1>2 DEF Ahead
  <2>2. pc[u] = "spin" BY <1>0, <1>2 DEF IInv, BarrierInv
  <2>3. ~Released(u) BY <1>0, <2>1, <2>2 DEF IInv, BarrierInv
  <2> QED BY <2>2, <2>3 DEF Released
<1>4. AllAtBarrier
  <2> SUFFICES ASSUME NEW u \in Team PROVE Busy(u) /\ pc[u] \in BarrierPcs /\ ~Released(u)
    BY DEF AllAtBarrier
  <2>1. pc[u] = "release" \/ (pc[u] = "spin" /\ n_passed[u] = n_barrier_passed) BY <1>3
  <2> QED BY <2>1 DEF Busy, Released, BarrierPcs
<1> QED BY <1>1, <1>3, <1>4

\* The team is at one place of the graph, and everybody has done his share.
LEMMA TeamFinished ==
    ASSUME IInv, ComputedInv, AllAtBarrier, NEW t \in Team
    PROVE  \A u \in Team :
              /\ u \in Threads /\ Finished(u) /\ ~Holds(u) /\ Phase(u) = Phase(t)
              /\ PartsInv(u, Phase(t)[1], Phase(t)[2])
              /\ ~Called(u) /\ PlaceInv(u) /\ Working(u)
              /\ after[u] = "chunk" <=> after[t] = "chunk"
              /\ after[u] = "next" <=> after[t] = "next"
              /\ after[t] \in {"chunk", "next"} => node[u] = node[t]
<1> SUFFICES ASSUME NEW u \in Team
             PROVE  /\ u \in Threads /\ Finished(u) /\ ~Holds(u) /\ Phase(u) = Phase(t)
                    /\ PartsInv(u, Phase(t)[1], Phase(t)[2])
                    /\ ~Called(u) /\ PlaceInv(u) /\ Working(u)
                    /\ after[u] = "chunk" <=> after[t] = "chunk"
                    /\ after[u] = "next" <=> after[t] = "next"
                    /\ after[t] \in {"chunk", "next"} => node[u] = node[t]
  OBVIOUS
<1>1. u \in Threads /\ t \in Threads BY DEF Team
<1>2. \A v \in {t, u} : Busy(v) /\ pc[v] \in BarrierPcs /\ ~Released(v) BY DEF AllAtBarrier
<1>3. Finished(u) /\ ~Holds(u) BY <1>2 DEF Finished, Holds, BarrierPcs
<1>4. ~Called(u) /\ PlaceInv(u) /\ Working(u) /\ Working(t) BY <1>1, <1>2, BusyFacts
<1>5. Phase(u) = Phase(t) BY <1>4 DEF IInv, WorkInv
<1>6. PartsInv(u, Phase(t)[1], Phase(t)[2]) BY <1>4, <1>5 DEF ComputedInv
<1>7. /\ after[u] = "chunk" <=> after[t] = "chunk"
      /\ after[u] = "next" <=> after[t] = "next"
      /\ after[t] \in {"chunk", "next"} => node[u] = node[t]
  BY <1>2, <1>5, SamePlace
<1> QED BY <1>1, <1>3, <1>4, <1>5, <1>6, <1>7

\* The members of the team are the shares of a node.
LEMMA SharesOfTeam ==
    ASSUME IInv, NEW k \in Nat, \A u \in Team : <<k, <<"share", u>>>> \in computed
    PROVE  Converted(k)
<1>1. n_threads_cur \in 0..NThreads BY DEF IInv, TypeOK
<1>2. Team = 0..(n_threads_cur - 1) BY <1>1 DEF Team, Threads
<1> QED BY <1>2 DEF Converted, Shares

\* When the whole team is at the end of a node, the node is computed.
LEMMA NodeComputed ==
    ASSUME IInv, ComputedInv, AllAtBarrier, NEW t \in Team, NEW k \in Nat,
           Phase(t) = LastPhase(k), k < LastNode, LastNode \in 0..Len(cgraph)
    PROVE  Earlier(k + 1) /\ NothingElse(k + 1)
<1>0. Len(cgraph) \in Nat /\ n_threads_cur \in Nat /\ current_chunk \in Nat
  BY DEF IInv, TypeOK
<1>1. /\ Phase(t)[1] = k /\ Phase(t)[2] = IF IsMatMul(k) THEN 1 ELSE 0 BY DEF LastPhase
<1>2. /\ \A u \in Team : Finished(u) /\ ~Holds(u)
      /\ \A u \in Team : PartsInv(u, k, IF IsMatMul(k) THEN 1 ELSE 0)
  BY <1>1, TeamFinished
<1>3. Earlier(k) /\ NothingElse(k) BY <1>2 DEF PartsInv
<1>4. Converted(k)
  <2>1. CASE IsMatMul(k) BY <1>2, <2>1 DEF PartsInv
  <2>2. CASE ~IsMatMul(k)
    <3>1. \A u \in Team : <<k, <<"share", u>>>> \in computed
      BY <1>2, <2>2 DEF PartsInv, OwnShare
    <3> QED BY <3>1, SharesOfTeam
  <2> QED BY <2>1, <2>2
<1>5. IsMatMul(k) => ({k} \X Chunks(n_threads_cur, k)) \subseteq computed
  <2> SUFFICES ASSUME IsMatMul(k), NEW c \in 0..(NChunks(n_threads_cur, k) - 1)
               PROVE  <<k, <<"chunk", c>>>> \in computed
    BY DEF Chunks
  <2>1. EachChunk(k) /\ OwnChunk(t, k) BY <1>2 DEF PartsInv
  <2>2. NChunks(n_threads_cur, k) <= current_chunk BY <1>2, <2>1 DEF OwnChunk
  <2>3. k \in 0..(Len(cgraph) - 1) BY <1>0
  <2>4. NChunks(n_threads_cur, k) \in Nat BY <1>0, <2>3, NChunksFacts
  <2>5. ~(current_chunk <= c) BY <1>0, <2>2, <2>4
  <2> QED BY <1>2, <2>1, <2>5 DEF EachChunk
<1>6. Parts(n_threads_cur, k) \subseteq computed
  <2> SUFFICES ASSUME NEW e \in Parts(n_threads_cur, k) PROVE e \in computed OBVIOUS
  <2>1. e \in {k} \X Shares(n_threads_cur)
        \/ (IsMatMul(k) /\ e \in {k} \X Chunks(n_threads_cur, k))
    BY DEF Parts
  <2> QED BY <1>4, <1>5, <2>1 DEF Converted
<1>7. Earlier(k + 1)
  <2> SUFFICES ASSUME NEW j \in 0..(k + 1 - 1) PROVE Parts(n_threads_cur, j) \subseteq computed
    BY DEF Earlier
  <2>1. j = k \/ j \in 0..(k - 1) OBVIOUS
  <2> QED BY <1>3, <1>6, <2>1 DEF Earlier
<1>8. NothingElse(k + 1)
  <2>1. 0..k \subseteq 0..(k + 1) OBVIOUS
  <2> QED BY <1>3, <2>1 DEF NothingElse
<1> QED BY <1>7, <1>8

\* When the whole team is at the last barrier, the graph is computed.
LEMMA GraphComputed ==
    ASSUME IInv, ComputedInv, AllAtBarrier, NEW t \in Team, after[t] \notin {"chunk", "next"}
    PROVE  computed = AllParts
<1>0. /\ Len(cgraph) \in Nat /\ abort \in Int /\ Working(t) /\ ~Called(t) /\ pc[t] \in BarrierPcs
      /\ ~Released(t)
  BY TeamFinished DEF IInv, TypeOK, AllAtBarrier
<1>1. Phase(t) = EndPhase BY <1>0 DEF Phase, BarrierPcs
<1>2. LastNode \in 0..Len(cgraph) BY <1>0, PhaseFacts
<1>3. \E k \in Nat : Earlier(LastNode) /\ NothingElse(k)
  <2>1. PartsInv(t, Phase(t)[1], Phase(t)[2]) BY TeamFinished
  <2>2. CASE ec = "ABORTED" /\ abort < Len(cgraph)
    <3>1. Phase(t) = <<LastNode, 0>> BY <1>1, <2>2 DEF EndPhase, LastNode
    <3>2. Earlier(LastNode) /\ NothingElse(LastNode) BY <2>1, <3>1 DEF PartsInv
    <3> QED BY <1>2, <3>2
  <2>3. CASE ~(ec = "ABORTED" /\ abort < Len(cgraph)) /\ Len(cgraph) = 0
    <3>1. Phase(t) = <<0, 0>> /\ LastNode = 0 BY <1>1, <1>2, <2>3 DEF EndPhase
    <3>2. Earlier(0) /\ NothingElse(0) BY <2>1, <3>1 DEF PartsInv
    <3> QED BY <3>1, <3>2
  <2>4. CASE ~(ec = "ABORTED" /\ abort < Len(cgraph)) /\ Len(cgraph) # 0
    <3>1. Phase(t) = LastPhase(Len(cgraph) - 1) BY <1>1, <2>4 DEF EndPhase
    <3>2. LastNode = Len(cgraph) BY <1>0, <2>4 DEF LastNode, IInv, AbortInv
    <3>3. Len(cgraph) - 1 \in Nat /\ Len(cgraph) - 1 < LastNode BY <1>0, <2>4, <3>2
    <3>4. Earlier(Len(cgraph) - 1 + 1) /\ NothingElse(Len(cgraph) - 1 + 1)
      BY <1>2, <3>1, <3>3, NodeComputed
    <3>5. Len(cgraph) - 1 + 1 = LastNode BY <1>0, <3>2
    <3> QED BY <1>0, <3>2, <3>4, <3>5
  <2> QED BY <2>2, <2>3, <2>4
<1>4. PICK k \in Nat : Earlier(LastNode) /\ NothingElse(k) BY <1>3
<1>5. AllParts \subseteq computed BY <1>4 DEF AllParts, Earlier
<1>6. computed \subseteq AllParts
  <2> SUFFICES ASSUME NEW e \in computed PROVE e \in AllParts OBVIOUS
  <2>1. e[1] \in 0..k /\ e[1] < LastNode /\ e \in Parts(n_threads_cur, e[1])
    BY <1>4 DEF NothingElse
  <2>2. e[1] \in 0..(LastNode - 1) BY <1>2, <2>1
  <2> QED BY <2>1, <2>2 DEF AllParts
<1> QED BY <1>5, <1>6

\* The barrier opens: the team goes on to the next node, to the chunks, or home.
LEMMA Opening ==
    ASSUME IInv, ComputedInv, AllAtBarrier, 0 \in Team, NEW t \in Team,
           \A u \in Team : pc'[u] = after[u] \/ Released(u)',
           UNCHANGED <<cgraph, ec, abort, n_threads_cur, n_graph, last_graph, node, nth, chunk,
                       after, current_chunk, computed>>
    PROVE  ComputedInv'
<1>0. /\ after \in [Threads -> {"next", "chunk", "return", "top"}] /\ Len(cgraph) \in Nat
      /\ node \in [Threads -> Nat] /\ n_threads_cur \in 0..NThreads /\ n_threads_cur \in Nat
  BY DEF IInv, TypeOK
<1>1. /\ Team' = Team /\ LastNode' = LastNode /\ AllParts' = AllParts
  BY DEF Team, LastNode, AllParts, Parts, IsMatMul, Chunks, NChunks
<1>2. Team = 0..(n_threads_cur - 1) /\ Team \subseteq Threads BY <1>0 DEF Team, Threads
<1>3. \A u \in Team :
              /\ Finished(u) /\ ~Holds(u) /\ Phase(u) = Phase(t)
              /\ PartsInv(u, Phase(t)[1], Phase(t)[2])
              /\ ~Called(u) /\ PlaceInv(u) /\ Working(u)
              /\ after[u] = "chunk" <=> after[t] = "chunk"
              /\ after[u] = "next" <=> after[t] = "next"
              /\ after[t] \in {"chunk", "next"} => node[u] = node[t]
  BY TeamFinished
<1>4. LastNode \in 0..Len(cgraph) BY <1>3, PhaseFacts
<1>5. \A u \in Team : Busy(u) /\ pc[u] \in BarrierPcs /\ ~Released(u) BY DEF AllAtBarrier
<1>6. \A u \in Team : ~Called(u)'
  <2> SUFFICES ASSUME NEW u \in Team PROVE ~Called(u)' OBVIOUS
  <2>1. CASE u = 0
    <3>1. pc'[0] # "broadcast" BY <1>0, <1>2, <2>1 DEF Released
    <3> QED BY <2>1, <3>1 DEF Called
  <2>2. CASE u # 0
    <3>1. last_graph[u] = n_graph BY <1>2, <1>5, <2>2 DEF IInv, ThreadInv, Workers
    <3> QED BY <2>2, <3>1 DEF Called
  <2> QED BY <2>1, <2>2
<1>7. \A k \in Nat : /\ Earlier(k)' <=> Earlier(k)
                     /\ NothingElse(k)' <=> NothingElse(k)
                     /\ Converted(k)' <=> Converted(k)
  BY <1>1 DEF Earlier, NothingElse, Converted, Parts, IsMatMul, Chunks, NChunks
\* What is to do in the phase that the team goes on to.
<1>8. ASSUME NEW k \in Nat, NEW b \in {0, 1}, after[t] \in {"chunk", "next"},
             \A u \in Team : Working(u)' => Phase(u)' = <<k, b>>,
             \A u \in Team : PartsInv(u, k, b)'
      PROVE  ComputedInv'
  <2>1. \A u \in Team : Working(u)' => PartsInv(u, Phase(u)[1], Phase(u)[2])' BY <1>8
  <2>2. \A u \in Team : nth[u] = n_threads_cur
    BY <1>3, <1>5, <1>8 DEF ComputedInv, InLoop
  <2>3. after[0] \in {"chunk", "next"} BY <1>3, <1>8
  <2>4. Busy(0)' BY <2>3 DEF Busy, Released, ComputePcs
  <2>5. ~Home' /\ Working(0)' BY <2>3, <2>4 DEF Home, Released, Working
  <2> QED BY <1>1, <2>1, <2>2, <2>5 DEF ComputedInv
<1>9. CASE after[t] = "chunk"
  <2> DEFINE k == node[t]
             N == NChunks(n_threads_cur, k)
  <2>0. k \in Nat BY <1>0, <1>2
  <2>1. Phase(t) = <<k, 0>> BY <1>3, <1>5, <1>9 DEF Phase, BarrierPcs
  <2>2. \A u \in Team : PartsInv(u, k, 0) BY <1>3, <2>1
  <2>3. k < LastNode /\ k < Len(cgraph)
    <3>1. ec = "ABORTED" => k < abort BY <1>5, <1>9 DEF IInv, AbortInv, NotBeyond
    <3>2. k < Len(cgraph) BY <1>3, <1>5, <1>9 DEF PlaceInv
    <3> QED BY <3>1, <3>2 DEF LastNode
  <2>4. \A u \in Team : /\ <<k, <<"share", u>>>> \in computed
                        /\ chunk[u] = u
                        /\ u = 0 => current_chunk = n_threads_cur
    BY <1>3, <1>5, <1>9, <2>2, <2>3 DEF PartsInv, OwnShare
  <2>5. Converted(k) BY <2>0, <2>4, SharesOfTeam
  <2>6. current_chunk = n_threads_cur BY <2>4
  <2>7. \A u \in Team : ~Finished(u)' /\ Holds(u)'
    <3>1. \A u \in Team : pc'[u] = "chunk" \/ (Released(u)' /\ after'[u] = "chunk")
      BY <1>3, <1>9
    <3>2. \A u \in Team : Released(u)' => pc'[u] = "spin" BY DEF Released
    <3> QED BY <3>1, <3>2 DEF Finished, Holds, BarrierPcs
  <2>8. N' = N /\ N \in Nat
    <3>1. k \in 0..(Len(cgraph) - 1) BY <1>0, <2>0, <2>3
    <3> QED BY <1>0, <3>1, NChunksFacts DEF NChunks
  <2>9. EachChunk(k)'
    <3> SUFFICES ASSUME NEW c \in 0..(N - 1)
                 PROVE  current_chunk <= c \/ \E u \in Team : Holds(u)' /\ chunk[u] = c
      BY <1>1, <2>8 DEF EachChunk
    <3>1. c \in Int /\ (c < n_threads_cur => c \in Team) BY <1>0, <1>2, <2>8
    <3>2. c \in Team => Holds(c)' /\ chunk[c] = c BY <2>4, <2>7
    <3> QED BY <1>0, <2>6, <3>1, <3>2
  <2>10. ASSUME NEW u \in Team PROVE PartsInv(u, k, 1)'
    <3>1. u < n_threads_cur BY <1>0, <1>2
    <3>2. OwnChunk(u, k)'
      <4>1. n_threads_cur' <= current_chunk' BY <1>0, <2>6
      <4>2. chunk'[u] < current_chunk' BY <2>4, <2>6, <3>1
      <4>3. ~Finished(u)' BY <2>7
      <4> QED BY <4>1, <4>2, <4>3 DEF OwnChunk
    <3>3. Earlier(k) /\ NothingElse(k) BY <2>2 DEF PartsInv
    <3>4. Earlier(k)' /\ NothingElse(k)' /\ Converted(k)' BY <1>7, <2>0, <2>5, <3>3
    <3> QED BY <2>9, <3>2, <3>4 DEF PartsInv
  <2>11. ASSUME NEW u \in Team PROVE Phase(u)' = <<k, 1>>
    <3>1. after'[u] = "chunk" /\ node'[u] = k /\ ~Called(u)' BY <1>3, <1>6, <1>9
    <3>2. pc'[u] = "chunk" \/ (Released(u)' /\ pc'[u] = "spin") BY <3>1 DEF Released
    <3> QED BY <3>1, <3>2 DEF Phase
  <2> QED BY <1>8, <1>9, <2>0, <2>10, <2>11
<1>10. CASE after[t] = "next"
  <2> DEFINE k == node[t]
  <2>1. k \in Nat /\ k > 0 /\ k < Len(cgraph)
    BY <1>0, <1>2, <1>3, <1>5, <1>10 DEF PlaceInv
  <2>2. k - 1 \in Nat /\ k - 1 + 1 = k BY <2>1
  <2>3. Phase(t) = LastPhase(k - 1) BY <1>3, <1>5, <1>10 DEF Phase, BarrierPcs
  <2>4. k - 1 < LastNode
    <3>1. ec = "ABORTED" => k <= abort
      BY <1>5 DEF IInv, AbortInv, NotBeyond, BarrierPcs
    <3> QED BY <1>0, <2>1, <3>1 DEF LastNode, IInv, TypeOK
  <2>5. Earlier(k) /\ NothingElse(k)
    <3>1. Earlier(k - 1 + 1) /\ NothingElse(k - 1 + 1)
      BY <1>4, <2>2, <2>3, <2>4, NodeComputed
    <3> QED BY <2>2, <3>1
  <2>6. \A u \in Team : after'[u] = "next" /\ node'[u] = k /\ ~Called(u)' BY <1>3, <1>6, <1>10
  <2>7. \A u \in Team : pc'[u] = "next" \/ (Released(u)' /\ pc'[u] = "spin")
    BY <2>6 DEF Released
  <2>8. ASSUME NEW u \in Team PROVE PartsInv(u, k, 0)'
    <3>1. Finished(u)' => LastNode = k
      <4> SUFFICES ASSUME Finished(u)' PROVE LastNode = k OBVIOUS
      <4>1. pc'[u] = "next" /\ ~AtNode(u)' BY <2>7 DEF Finished, BarrierPcs
      <4>2. node[u] = k BY <2>6
      <4>3. abort = node[u] BY <2>1, <4>1, <4>2 DEF AtNode
      <4> QED BY <1>2, <4>2, <4>3, StopsAtLast
    <3>2. OwnShare(u, k)' BY <1>1, <2>1, <2>6, <3>1 DEF OwnShare
    <3> QED BY <1>7, <2>1, <2>5, <3>2 DEF PartsInv
  <2>9. ASSUME NEW u \in Team PROVE Phase(u)' = <<k, 0>>
    <3>1. after'[u] = "next" /\ node'[u] = k /\ ~Called(u)' BY <2>6
    <3>2. pc'[u] = "next" => Phase(u)' = NextPhase(k)' BY <3>1 DEF Phase
    <3>3. NextPhase(k)' = <<k, 0>> BY <1>0, <2>1 DEF NextPhase
    <3>4. pc'[u] = "spin" /\ Released(u)' => Phase(u)' = <<k, 0>> BY <3>1 DEF Phase
    <3> QED BY <2>7, <3>2, <3>3, <3>4
  <2> QED BY <1>8, <1>10, <2>1, <2>8, <2>9
<1>11. CASE after[t] \notin {"chunk", "next"}
  <2>1. computed = AllParts BY <1>11, GraphComputed
  <2>2. \A u \in Team : after[u] \in {"return", "top"} BY <1>0, <1>2, <1>3, <1>11
  <2>3. \A u \in Team : ~Busy(u)'
    <3>1. \A u \in Team : pc'[u] \in {"return", "top"} \/ Released(u)' BY <2>2
    <3> QED BY <2>2, <3>1 DEF Busy, Released, ComputePcs, BarrierPcs
  <2>4. Home'
    <3>1. after[0] = "return" BY <1>2, <1>5, <2>2 DEF IInv, ThreadInv
    <3> QED BY <3>1 DEF Home
  <2> QED BY <1>1, <1>6, <2>1, <2>3, <2>4 DEF ComputedInv, Working
<1> QED BY <1>9, <1>10, <1>11

LEMMA ReleaseBarrierComputed ==
    ASSUME IInv, ComputedInv, NEW t \in Threads, ReleaseBarrier(t) PROVE ComputedInv'
<1>0. pc \in [Threads -> AllPcs] /\ n_barrier_passed \in Nat
  BY DEF IInv, TypeOK, PcTypeOK, AllPcs
<1>1. /\ pc[t] = "release" /\ pc'[t] = after[t] /\ n_barrier_passed' = n_barrier_passed + 1
      /\ \A u \in Threads \ {t} : pc'[u] = pc[u]
      /\ UNCHANGED <<cgraph, ec, abort, n_threads_cur, n_graph, last_graph, node, nth, chunk,
                     n_passed, after, current_chunk, computed>>
  BY <1>0 DEF ReleaseBarrier, Goto, shared, result, waiting, work
<1>2. /\ AllAtBarrier /\ t \in Team /\ 0 \in Team
      /\ \A u \in Team \ {t} : pc[u] = "spin" /\ n_passed[u] = n_barrier_passed
  BY <1>1, ReleasesAll
<1>3. \A u \in Team : pc'[u] = after[u] \/ Released(u)'
  BY <1>0, <1>1, <1>2 DEF Released, Team
<1> QED BY <1>1, <1>2, <1>3, Opening

LEMMA EnterBarrierComputed ==
    ASSUME IInv, ComputedInv, NEW t \in Threads, EnterBarrier(t) PROVE ComputedInv'
<1>0. pc \in [Threads -> AllPcs] /\ n_passed \in [Threads -> Nat]
  BY DEF IInv, TypeOK, PcTypeOK, AllPcs
<1>1. /\ pc[t] = "barrier"
      /\ UNCHANGED <<shared, result, n_barrier_passed, waiting, work, after>>
  BY DEF EnterBarrier
<1>2. CASE n_threads_cur = 1
  <2>1. pc'[t] = after[t] BY <1>0, <1>2 DEF EnterBarrier, Goto
  <2>2. t \in Team /\ 0 \in Team BY <1>1, ComputingFacts DEF BarrierPcs
  <2>3. Team = {t} BY <1>2, <2>2 DEF Team, Threads
  <2>4. AllAtBarrier BY <1>1, <2>3 DEF AllAtBarrier, Busy, Released, BarrierPcs
  <2>5. UNCHANGED <<cgraph, ec, abort, n_threads_cur, n_graph, last_graph, node, nth, chunk,
                    after, current_chunk, computed>>
    BY <1>1 DEF shared, result, waiting, work
  <2> QED BY <2>1, <2>2, <2>3, <2>4, <2>5, Opening
<1>3. CASE n_threads_cur # 1
  <2>1. /\ pc' = [pc EXCEPT ![t] = "arrive"]
        /\ n_passed' = [n_passed EXCEPT ![t] = n_barrier_passed]
    BY <1>3 DEF EnterBarrier, Goto
  <2>2. IInv' /\ Steady BY <1>3, EnterBarrierStep
  <2> QED BY <1>0, <1>1, <2>1, <2>2, InBarrierComputed
<1> QED BY <1>2, <1>3

LEMMA ComputedStep == IInv /\ ComputedInv /\ [Next]_vars => ComputedInv'
<1> SUFFICES ASSUME IInv, ComputedInv, [Next]_vars PROVE ComputedInv' OBVIOUS
<1>1. CASE Calls BY <1>1, CallsComputed
<1>2. CASE InCall BY <1>2, InCallComputed
<1>3. ASSUME NEW t \in Workers, Wait(t) PROVE ComputedInv' BY <1>3, WaitComputed
<1>4. ASSUME NEW t \in Threads, Compute(t) PROVE ComputedInv'
  BY <1>4, EnterComputed, ShareComputed, ComputeChunkComputed, GrabChunkComputed,
     NoMoreChunksComputed, NodeDoneComputed, LeaveComputed DEF Compute
<1>5. ASSUME NEW t \in Threads, Arrive(t) PROVE ComputedInv'
  <2>1. /\ pc[t] = "arrive" /\ UNCHANGED n_passed
        /\ UNCHANGED <<shared, result, n_barrier_passed, work, after>>
    BY <1>5 DEF Arrive
  <2>2. \E where \in {"last", "spin"} : pc' = [pc EXCEPT ![t] = where]
    BY <1>5 DEF Arrive, Goto
  <2>3. n_passed[t] = n_barrier_passed BY <2>1 DEF IInv, BarrierInv
  <2>4. IInv' /\ Steady BY <1>5, ArriveStep
  <2> QED BY <2>1, <2>2, <2>3, <2>4, InBarrierComputed
<1>6. ASSUME NEW t \in Threads, ResetBarrier(t) PROVE ComputedInv'
  <2>1. /\ pc[t] = "last" /\ UNCHANGED n_passed /\ pc' = [pc EXCEPT ![t] = "release"]
        /\ UNCHANGED <<shared, result, n_barrier_passed, work, after>>
    BY <1>6 DEF ResetBarrier, Goto
  <2>2. IInv' /\ Steady BY <1>6, ResetBarrierStep
  <2> QED BY <2>1, <2>2, InBarrierComputed
<1>7. ASSUME NEW t \in Threads, EnterBarrier(t) \/ ReleaseBarrier(t) \/ Spin(t) PROVE ComputedInv'
  BY <1>7, EnterBarrierComputed, ReleaseBarrierComputed, SpinComputed
<1>8. CASE UNCHANGED vars BY <1>8, StutterComputed
<1> QED BY <1>1, <1>2, <1>3, <1>4, <1>5, <1>6, <1>7, <1>8 DEF Next, Barrier

LEMMA ComputedAlways == Spec => [](IInv /\ ComputedInv)
<1>1. Init => IInv BY InitStep
<1>2. Init => ComputedInv
  <2> SUFFICES ASSUME Init PROVE ComputedInv OBVIOUS
  <2>1. Team = {} /\ pc[0] = "idle" /\ computed = {}
    BY ZeroIsThread DEF Init, Team, Threads
  <2>2. ~Home BY <2>1 DEF Home, Released
  <2> QED BY <2>1, <2>2 DEF ComputedInv
<1>3. IInv /\ [Next]_vars => IInv' BY NextStep
<1> QED BY <1>1, <1>2, <1>3, ComputedStep, PTL DEF Spec

\* When ggml_graph_compute returns, every part of every node has been computed,
\* or, after an abort, every part of the nodes before it and no part of a later
\* one, whatever the number of threads, the graph and the shares they took.
THEOREM GTReturnMeansComputed == Spec => []ReturnMeansComputed
<1>1. IInv /\ ComputedInv => ReturnMeansComputed
  BY DEF ReturnMeansComputed, ComputedInv, Home, AllParts, LastNode
<1> QED BY <1>1, ComputedAlways, PTL

\* A thread that works on a node finds all parts of the earlier nodes computed,
\* and one that computes chunks finds all of src1 converted: ggml_barrier is
\* the only thing that orders them.
THEOREM GTNodesInOrder == Spec => []NodesInOrder
<1>1. IInv /\ ComputedInv => NodesInOrder
  <2> SUFFICES ASSUME IInv, ComputedInv, NEW t \in Team,
                      pc[t] \in {"chunk", "grab", "computed"} \/ (pc[t] = "next" /\ AtNode(t))
               PROVE  /\ \A k \in 0..(node[t] - 1) : Parts(nth[t], k) \subseteq computed
                      /\ pc[t] \in {"chunk", "grab"} =>
                            ({node[t]} \X Shares(nth[t])) \subseteq computed
    BY DEF NodesInOrder
  <2>1. t \in Threads /\ node[t] \in Nat /\ Len(cgraph) \in Nat BY DEF Team, IInv, TypeOK
  <2>2. Busy(t) BY DEF Busy, ComputePcs
  <2>3. Working(t) /\ ~Called(t) BY <2>1, <2>2, AtWork
  <2>4. nth[t] = n_threads_cur BY <2>2 DEF ComputedInv, InLoop, ComputePcs
  <2>5. Phase(t)[1] = node[t] /\ (pc[t] \in {"chunk", "grab"} => Phase(t)[2] = 1)
    <3>1. CASE pc[t] = "next"
      <4>1. Phase(t) = <<node[t], 0>> BY <2>1, <2>3, <3>1 DEF Phase, NextPhase, AtNode
      <4> QED BY <3>1, <4>1
    <3>2. CASE pc[t] # "next" BY <2>3, <3>2 DEF Phase, LastPhase
    <3> QED BY <3>1, <3>2
  <2>6. PartsInv(t, Phase(t)[1], Phase(t)[2]) BY <2>3 DEF ComputedInv
  <2> QED BY <2>4, <2>5, <2>6 DEF PartsInv, Earlier, Converted
<1> QED BY <1>1, ComputedAlways, PTL

-----------------------------------------------------------------------------
(* Who computes which part.                                                *)

\* In phase <<k, b>>, nobody has computed what is still to be done by thread t,
\* and no chunk that has not been handed out.
Fresh(t, k, b) ==
    /\ b = 0 => /\ ~Finished(t) => <<k, <<"share", t>>>> \notin computed
                /\ \A c \in Nat : <<k, <<"chunk", c>>>> \notin computed
    /\ b = 1 => \A c \in Nat :
                    <<k, <<"chunk", c>>>> \in computed =>
                        c < current_chunk /\ (Holds(t) => chunk[t] # c)

\* A chunk is in one thread's hands.
Apart == \A t, u \in Team : Holds(t) /\ Holds(u) /\ t # u => chunk[t] # chunk[u]

FreshInv ==
    /\ \A t \in Team : Working(t) => Fresh(t, Phase(t)[1], Phase(t)[2])
    /\ Apart

\* A step inside a phase that computes nothing and takes no chunk.
LEMMA NothingNewFresh ==
    ASSUME IInv, FreshInv, Steady, UNCHANGED <<n_threads_cur, computed, current_chunk>>,
           \A u \in Team : Working(u) /\ Finished(u) => Finished(u)' \/ Phase(u)[2] = 1,
           \A u \in Team : Holds(u)' => Holds(u) /\ chunk'[u] = chunk[u]
    PROVE  FreshInv'
<1>1. Team' = Team BY DEF Team
<1>2. Apart' BY <1>1 DEF FreshInv, Apart
<1>3. ASSUME NEW u \in Team, Working(u)' PROVE Fresh(u, Phase(u)[1], Phase(u)[2])'
  <2>1. Working(u) /\ Phase(u)' = Phase(u) BY <1>3 DEF Steady
  <2>2. PICK k \in Nat, b \in {0, 1} : Phase(u)[1] = k /\ Phase(u)[2] = b BY <2>1, PhaseFacts
  <2>3. Fresh(u, k, b) BY <2>1, <2>2 DEF FreshInv
  <2>4. b = 0 /\ Finished(u) => Finished(u)' BY <2>1, <2>2
  <2>5. Fresh(u, k, b)' BY <2>3, <2>4 DEF Fresh
  <2> QED BY <2>1, <2>2, <2>5
<1> QED BY <1>1, <1>2, <1>3 DEF FreshInv

\* One thread goes on, and the others stay where they are.
LEMMA GoesOnFresh ==
    ASSUME IInv, FreshInv, Steady, NEW t \in Threads,
           \A u \in Threads \ {t} :
              /\ pc'[u] = pc[u] /\ node'[u] = node[u] /\ after'[u] = after[u]
              /\ n_passed'[u] = n_passed[u] /\ chunk'[u] = chunk[u],
           UNCHANGED <<n_threads_cur, n_barrier_passed, cgraph, abort, computed, current_chunk>>,
           Finished(t) => Finished(t)' \/ Phase(t)[2] = 1,
           Holds(t)' => Holds(t) /\ chunk'[t] = chunk[t]
    PROVE  FreshInv'
<1>1. Team \subseteq Threads BY DEF Team
<1>2. ASSUME NEW u \in Threads \ {t} PROVE (Finished(u)' <=> Finished(u)) /\ (Holds(u)' <=> Holds(u))
  <2>1. pc'[u] = pc[u] /\ node'[u] = node[u] /\ after'[u] = after[u] /\ n_passed'[u] = n_passed[u]
    OBVIOUS
  <2>2. Finished(u)' <=> Finished(u) BY <2>1, FinishedFrame
  <2>3. Holds(u)' <=> Holds(u) BY <2>1 DEF Holds, Released
  <2> QED BY <2>2, <2>3
<1>3. \A u \in Team : Working(u) /\ Finished(u) => Finished(u)' \/ Phase(u)[2] = 1
  BY <1>1, <1>2
<1>4. \A u \in Team : Holds(u)' => Holds(u) /\ chunk'[u] = chunk[u] BY <1>1, <1>2
<1> QED BY <1>3, <1>4, NothingNewFresh

LEMMA ShareFresh ==
    ASSUME IInv, ComputedInv, FreshInv, NEW t \in Threads, Share(t)
    PROVE  FreshInv' /\ <<node[t], <<"share", t>>>> \notin computed
<1>0. /\ pc \in [Threads -> AllPcs] /\ chunk \in [Threads -> Nat] /\ node \in [Threads -> Nat]
      /\ after \in [Threads -> {"next", "chunk", "return", "top"}]
  BY DEF IInv, TypeOK, PcTypeOK, AllPcs
<1>1. /\ pc[t] = "next" /\ AtNode(t) /\ pc'[t] \in {"barrier", "computed"}
      /\ computed' = computed \cup {<<node[t], <<"share", t>>>>}
      /\ \A u \in Threads \ {t} : pc'[u] = pc[u] /\ after'[u] = after[u] /\ chunk'[u] = chunk[u]
      /\ UNCHANGED <<node, n_passed, cgraph, abort, n_threads_cur, n_barrier_passed>>
  BY <1>0 DEF Share, Goto, shared, result, barrier
<1>2. Steady BY ShareStep
<1>3. Team' = Team /\ Team \subseteq Threads BY <1>1 DEF Team
<1>4. t \in Team /\ Working(t) /\ ~Called(t) BY <1>1, AtWork DEF Busy, ComputePcs
<1>5. Phase(t) = <<node[t], 0>> BY <1>0, <1>1, <1>4 DEF Phase, NextPhase, AtNode
<1>6. ~Finished(t) /\ Finished(t)' BY <1>1 DEF Finished, Released, BarrierPcs
<1>7. ~Holds(t)' BY <1>1 DEF Holds, Released
<1>8. \A u \in Team \ {t} : (Finished(u)' <=> Finished(u)) /\ (Holds(u)' <=> Holds(u))
  BY <1>1, <1>3, FinishedFrame DEF Holds, Released
<1>9. <<node[t], <<"share", t>>>> \notin computed BY <1>4, <1>5, <1>6 DEF FreshInv, Fresh
<1>10. ASSUME NEW u \in Team, Working(u)' PROVE Fresh(u, Phase(u)[1], Phase(u)[2])'
  <2>1. Working(u) /\ Phase(u)' = Phase(u) BY <1>10, <1>2 DEF Steady
  <2>2. Phase(u) = <<node[t], 0>> BY <1>4, <1>5, <2>1 DEF IInv, WorkInv
  <2>3. Fresh(u, node[t], 0) BY <2>1, <2>2 DEF FreshInv
  <2>4. \A c \in Nat : <<node[t], <<"chunk", c>>>> \notin computed' BY <1>1, <2>3 DEF Fresh
  <2>5. ~Finished(u)' => <<node[t], <<"share", u>>>> \notin computed'
    BY <1>1, <1>6, <1>8, <2>3 DEF Fresh
  <2>6. Fresh(u, Phase(u)[1], Phase(u)[2])' <=> Fresh(u, node[t], 0)' BY <1>1, <2>1, <2>2
  <2>7. Fresh(u, node[t], 0)' BY <1>1, <2>4, <2>5 DEF Fresh
  <2> QED BY <2>6, <2>7
<1>11. Apart' BY <1>1, <1>3, <1>7, <1>8 DEF FreshInv, Apart
<1> QED BY <1>3, <1>9, <1>10, <1>11 DEF FreshInv

LEMMA ComputeChunkFresh ==
    ASSUME IInv, ComputedInv, FreshInv, NEW t \in Threads, ComputeChunk(t)
    PROVE  FreshInv' /\ <<node[t], <<"chunk", chunk[t]>>>> \notin computed
<1>0. pc \in [Threads -> AllPcs] /\ chunk \in [Threads -> Nat]
  BY DEF IInv, TypeOK, PcTypeOK, AllPcs
<1>1. /\ pc[t] = "chunk" /\ pc'[t] \in {"computed", "grab"}
      /\ computed' = computed \cup {<<node[t], <<"chunk", chunk[t]>>>>}
      /\ \A u \in Threads \ {t} : pc'[u] = pc[u]
      /\ UNCHANGED <<node, chunk, current_chunk, after, n_passed, n_threads_cur, n_barrier_passed>>
  BY <1>0 DEF ComputeChunk, Goto, shared, result, barrier
<1>2. Steady BY ComputeChunkStep
<1>3. Team' = Team /\ Team \subseteq Threads BY <1>1 DEF Team
<1>4. t \in Team /\ Working(t) /\ Phase(t) = <<node[t], 1>> BY <1>1, AmongChunks
<1>5. Holds(t) /\ ~Holds(t)' BY <1>1 DEF Holds, Released
<1>6. \A u \in Team \ {t} : Holds(u)' <=> Holds(u) BY <1>1, <1>3 DEF Holds, Released
<1>7. Fresh(t, node[t], 1) BY <1>4 DEF FreshInv
<1>8. <<node[t], <<"chunk", chunk[t]>>>> \notin computed BY <1>0, <1>5, <1>7 DEF Fresh
<1>9. chunk[t] < current_chunk
  <2>1. PartsInv(t, node[t], 1) BY <1>4 DEF ComputedInv
  <2> QED BY <1>5, <2>1 DEF PartsInv, OwnChunk
<1>10. \A u \in Team \ {t} : Holds(u) => chunk[u] # chunk[t] BY <1>4, <1>5 DEF FreshInv, Apart
<1>11. ASSUME NEW u \in Team, Working(u)' PROVE Fresh(u, Phase(u)[1], Phase(u)[2])'
  <2>1. Working(u) /\ Phase(u)' = Phase(u) BY <1>11, <1>2 DEF Steady
  <2>2. Phase(u) = <<node[t], 1>> BY <1>4, <2>1 DEF IInv, WorkInv
  <2>3. Fresh(u, node[t], 1) BY <2>1, <2>2 DEF FreshInv
  <2>4. ASSUME NEW c \in Nat, <<node[t], <<"chunk", c>>>> \in computed'
        PROVE  c < current_chunk /\ (Holds(u)' => chunk[u] # c)
    <3>1. CASE c = chunk[t] BY <1>5, <1>6, <1>9, <1>10, <3>1
    <3>2. CASE c # chunk[t]
      <4>1. <<node[t], <<"chunk", c>>>> \in computed BY <1>1, <2>4, <3>2
      <4> QED BY <1>5, <1>6, <2>3, <4>1 DEF Fresh
    <3> QED BY <3>1, <3>2
  <2>5. Fresh(u, node[t], 1)' BY <1>1, <2>4 DEF Fresh
  <2> QED BY <1>1, <2>1, <2>2, <2>5
<1>12. Apart' BY <1>1, <1>3, <1>5, <1>6 DEF FreshInv, Apart
<1> QED BY <1>3, <1>8, <1>11, <1>12 DEF FreshInv

LEMMA GrabChunkFresh ==
    ASSUME IInv, ComputedInv, FreshInv, NEW t \in Threads, GrabChunk(t) PROVE FreshInv'
<1>0. pc \in [Threads -> AllPcs] /\ chunk \in [Threads -> Nat] /\ current_chunk \in Nat
  BY DEF IInv, TypeOK, PcTypeOK, AllPcs
<1>1. /\ pc[t] = "grab" /\ chunk'[t] = current_chunk /\ current_chunk' = current_chunk + 1
      /\ \A u \in Threads \ {t} : pc'[u] = pc[u] /\ chunk'[u] = chunk[u]
      /\ UNCHANGED <<node, computed, after, n_passed, n_threads_cur, n_barrier_passed>>
  BY <1>0 DEF GrabChunk, Goto, shared, result, barrier
<1>2. Steady BY GrabChunkStep
<1>3. Team' = Team /\ Team \subseteq Threads BY <1>1 DEF Team
<1>4. t \in Team /\ Working(t) /\ Phase(t) = <<node[t], 1>> BY <1>1, AmongChunks
<1>5. \A u \in Team \ {t} : Holds(u)' <=> Holds(u) BY <1>1, <1>3 DEF Holds, Released
<1>6. ASSUME NEW u \in Team, Holds(u) PROVE chunk[u] < current_chunk
  <2>1. Working(u) BY <1>6, <1>4 DEF IInv, WorkInv
  <2>2. Phase(u) = <<node[t], 1>> BY <1>4, <2>1 DEF IInv, WorkInv
  <2>3. PartsInv(u, node[t], 1) BY <2>1, <2>2 DEF ComputedInv
  <2> QED BY <1>6, <2>3 DEF PartsInv, OwnChunk
<1>7. ASSUME NEW u \in Team, Working(u)' PROVE Fresh(u, Phase(u)[1], Phase(u)[2])'
  <2>1. Working(u) /\ Phase(u)' = Phase(u) BY <1>7, <1>2 DEF Steady
  <2>2. Phase(u) = <<node[t], 1>> BY <1>4, <2>1 DEF IInv, WorkInv
  <2>3. Fresh(u, node[t], 1) BY <2>1, <2>2 DEF FreshInv
  <2>4. ASSUME NEW c \in Nat, <<node[t], <<"chunk", c>>>> \in computed
        PROVE  c < current_chunk' /\ (Holds(u)' => chunk'[u] # c)
    <3>1. c < current_chunk BY <2>3, <2>4 DEF Fresh
    <3>2. c < current_chunk' BY <1>0, <1>1, <3>1
    <3>3. CASE u = t BY <1>0, <1>1, <3>1, <3>2, <3>3
    <3>4. CASE u # t
      <4>1. Holds(u)' => Holds(u) /\ chunk'[u] = chunk[u] BY <1>1, <1>3, <1>5, <3>4
      <4> QED BY <2>3, <2>4, <3>2, <4>1 DEF Fresh
    <3> QED BY <3>3, <3>4
  <2>5. Fresh(u, node[t], 1)' BY <1>1, <2>4 DEF Fresh
  <2> QED BY <1>1, <2>1, <2>2, <2>5
<1>8. Apart'
  <2> SUFFICES ASSUME NEW u \in Team, NEW v \in Team, Holds(u)', Holds(v)', u # v
               PROVE  chunk'[u] # chunk'[v]
    BY <1>3 DEF Apart
  <2>1. \A w \in {u, v} : w # t => Holds(w) /\ chunk'[w] = chunk[w] /\ chunk[w] < current_chunk
    BY <1>1, <1>3, <1>5, <1>6
  <2>2. \A w \in {u, v} : chunk[w] \in Nat BY <1>0, <1>3
  <2>3. CASE u = t BY <1>0, <1>1, <2>1, <2>2, <2>3
  <2>4. CASE v = t BY <1>0, <1>1, <2>1, <2>2, <2>4
  <2>5. CASE u # t /\ v # t BY <2>1, <2>5 DEF FreshInv, Apart
  <2> QED BY <2>3, <2>4, <2>5
<1> QED BY <1>3, <1>7, <1>8 DEF FreshInv

\* The steps of a thread in the computation that compute nothing.
LEMMA ComputeFresh ==
    ASSUME IInv, ComputedInv, FreshInv, NEW t \in Threads, Compute(t) PROVE FreshInv'
<1>0. /\ pc \in [Threads -> AllPcs] /\ node \in [Threads -> Nat] /\ chunk \in [Threads -> Nat]
      /\ after \in [Threads -> {"next", "chunk", "return", "top"}] /\ Len(cgraph) \in Nat
  BY DEF IInv, TypeOK, PcTypeOK, AllPcs
<1>1. CASE Share(t) BY <1>1, ShareFresh
<1>2. CASE ComputeChunk(t) BY <1>2, ComputeChunkFresh
<1>3. CASE GrabChunk(t) BY <1>3, GrabChunkFresh
<1>4. CASE Enter(t)
  <2>1. Steady BY <1>4, EnterStep
  <2>2. /\ pc[t] = "enter" /\ pc'[t] = "next"
        /\ \A u \in Threads \ {t} : pc'[u] = pc[u] /\ node'[u] = node[u]
        /\ UNCHANGED <<after, n_passed, chunk, n_threads_cur, n_barrier_passed, cgraph, abort,
                       computed, current_chunk>>
    BY <1>0, <1>4 DEF Enter, Goto, shared, result, barrier
  <2>3. ~Finished(t) /\ ~Holds(t)' BY <2>2 DEF Finished, Holds, Released, BarrierPcs
  <2> QED BY <2>1, <2>2, <2>3, GoesOnFresh
<1>5. CASE NoMoreChunks(t)
  <2>1. Steady BY <1>5, NoMoreChunksStep
  <2>2. /\ pc[t] = "chunk" /\ pc'[t] = "computed"
        /\ \A u \in Threads \ {t} : pc'[u] = pc[u]
        /\ UNCHANGED <<node, after, n_passed, chunk, n_threads_cur, n_barrier_passed, cgraph, abort,
                       computed, current_chunk>>
    BY <1>0, <1>5 DEF NoMoreChunks, Goto, shared, result, barrier, work
  <2>3. ~Finished(t) /\ ~Holds(t)' BY <2>2 DEF Finished, Holds, Released, BarrierPcs
  <2> QED BY <2>1, <2>2, <2>3, GoesOnFresh
<1>6. CASE Leave(t)
  <2>1. Steady BY <1>6, LeaveStep
  <2>2. /\ pc[t] = "next" /\ pc'[t] = "barrier"
        /\ \A u \in Threads \ {t} : pc'[u] = pc[u] /\ node'[u] = node[u] /\ after'[u] = after[u]
        /\ UNCHANGED <<n_passed, chunk, n_threads_cur, n_barrier_passed, cgraph, abort,
                       computed, current_chunk>>
    BY <1>0, <1>6 DEF Leave, Goto, shared, result, barrier
  <2>3. Finished(t)' /\ ~Holds(t)' BY <2>2 DEF Finished, Holds, Released, BarrierPcs
  <2> QED BY <2>1, <2>2, <2>3, GoesOnFresh
<1>7. CASE NodeDone(t)
  <2>1. Steady BY <1>7, NodeDoneStep
  <2>2. /\ pc[t] = "computed" /\ node'[t] = node[t] + 1
        /\ \/ pc'[t] = "barrier" /\ node[t] + 1 < Len(cgraph)
           \/ pc'[t] = "next" /\ ~(node[t] + 1 < Len(cgraph))
        /\ \/ UNCHANGED <<abort, ec>>
           \/ t = 0 /\ abort' = node[t] + 1 /\ ec' = "ABORTED"
        /\ UNCHANGED <<n_passed, computed, current_chunk, cgraph, n_threads_cur, n_barrier_passed>>
    BY <1>0, <1>7 DEF NodeDone, Goto, shared, barrier
  <2>3. \A u \in Threads \ {t} : /\ pc'[u] = pc[u] /\ after'[u] = after[u]
                                 /\ chunk'[u] = chunk[u] /\ node'[u] = node[u]
    BY <1>0, <1>7 DEF NodeDone, Goto
  <2>4. Finished(t)' /\ ~Holds(t)' BY <2>2 DEF Finished, Holds, Released, AtNode, BarrierPcs
  <2>5. CASE UNCHANGED <<abort, ec>> BY <2>1, <2>2, <2>3, <2>4, <2>5, GoesOnFresh
  <2>6. CASE t = 0 /\ abort' = node[t] + 1 /\ ec' = "ABORTED"
    <3>1. abort = -1
      BY <2>2, <2>6 DEF IInv, TypeOK, AbortInv, CallerPcs, BarrierPcs
    <3>2. Team \subseteq Threads BY DEF Team
    <3>3. ASSUME NEW u \in Team, u # t, Finished(u) PROVE Finished(u)'
      <4>1. pc'[u] = pc[u] /\ node'[u] = node[u] /\ n_passed'[u] = n_passed[u]
        BY <2>2, <2>3, <3>2, <3>3
      <4>2. ~AtNode(u) => ~AtNode(u)' BY <1>0, <2>2, <3>1, <3>2, <4>1 DEF AtNode
      <4> QED BY <2>2, <3>3, <4>1, <4>2 DEF Finished, Released
    <3>4. ASSUME NEW u \in Team, Holds(u)' PROVE Holds(u) /\ chunk'[u] = chunk[u]
      BY <2>2, <2>3, <2>4, <3>2, <3>4 DEF Holds, Released
    <3>5. \A u \in Team : Working(u) /\ Finished(u) => Finished(u)' \/ Phase(u)[2] = 1
      BY <2>4, <3>3
    <3> QED BY <2>1, <2>2, <3>4, <3>5, NothingNewFresh
  <2> QED BY <2>2, <2>5, <2>6
<1> QED BY <1>1, <1>2, <1>3, <1>4, <1>5, <1>6, <1>7 DEF Compute

\* A thread goes on inside its barrier, or leaves one that has been opened.
LEMMA InBarrierFresh ==
    ASSUME IInv, ComputedInv, FreshInv, NEW t \in Threads,
           \/ EnterBarrier(t) /\ n_threads_cur # 1
           \/ Arrive(t) \/ ResetBarrier(t) \/ Spin(t)
    PROVE  FreshInv'
<1>0. /\ pc \in [Threads -> AllPcs] /\ n_passed \in [Threads -> Nat]
      /\ after \in [Threads -> {"next", "chunk", "return", "top"}]
  BY DEF IInv, TypeOK, PcTypeOK, AllPcs
<1>1. Steady BY EnterBarrierStep, ArriveStep, ResetBarrierStep, SpinStep
<1>2. /\ \A u \in Threads \ {t} : pc'[u] = pc[u] /\ n_passed'[u] = n_passed[u]
      /\ UNCHANGED <<node, after, chunk, n_threads_cur, n_barrier_passed, cgraph, abort,
                     computed, current_chunk>>
  BY <1>0 DEF EnterBarrier, Arrive, ResetBarrier, Spin, Goto, shared, result, barrier, work
<1>3. CASE Spin(t)
  <2>1. /\ pc[t] = "spin" /\ n_barrier_passed # n_passed[t] /\ pc'[t] = after[t]
    BY <1>0, <1>3 DEF Spin, Goto
  <2>2. ~Finished(t) BY <2>1 DEF Finished, Released
  <2>3. Holds(t)' => Holds(t) BY <1>0, <1>2, <2>1 DEF Holds, Released
  <2> QED BY <1>1, <1>2, <2>2, <2>3, GoesOnFresh
<1>4. CASE ~Spin(t)
  <2>1. pc[t] = "arrive" => n_passed[t] = n_barrier_passed BY DEF IInv, BarrierInv
  <2>2. \/ pc'[t] \in {"arrive", "last", "release"}
        \/ pc'[t] = "spin" /\ n_passed'[t] = n_barrier_passed
    BY <1>0, <1>4, <2>1 DEF EnterBarrier, Arrive, ResetBarrier, Goto
  <2>3. Finished(t)' /\ ~Holds(t)' BY <1>2, <2>2 DEF Finished, Holds, Released, BarrierPcs
  <2> QED BY <1>1, <1>2, <2>3, GoesOnFresh
<1> QED BY <1>3, <1>4

\* Between graphs nobody has anything to compute.
LEMMA QuietFresh == (IInv /\ pc[0] \in CallerPcs \ {"broadcast"} => FreshInv)'
<1>1. IInv /\ pc[0] \in CallerPcs \ {"broadcast"} => FreshInv
  <2> SUFFICES ASSUME IInv, pc[0] \in CallerPcs \ {"broadcast"} PROVE FreshInv OBVIOUS
  <2>1. \A u \in Team : ~Working(u) /\ ~Busy(u) BY Quiet DEF Working
  <2>2. \A u \in Team : ~Holds(u) BY <2>1 DEF Holds, Busy, Released, ComputePcs
  <2> QED BY <2>1, <2>2 DEF FreshInv, Apart
<1> QED BY <1>1, PTL

\* When a graph is announced, nothing of it has been computed.
LEMMA AnnounceFresh == ASSUME IInv, ComputedInv, Announce PROVE FreshInv'
<1>0. pc \in [Threads -> AllPcs] /\ 0 \in Threads /\ Team \subseteq Threads
  BY ZeroIsThread DEF IInv, TypeOK, PcTypeOK, AllPcs, Team
<1>1. /\ pc[0] = "announce" /\ pc'[0] = "broadcast" /\ \A u \in Threads \ {0} : pc'[u] = pc[u]
      /\ UNCHANGED <<n_passed, n_barrier_passed, after, computed, n_threads_cur>>
  BY <1>0 DEF Announce, barrier, work
<1>2. computed = {}
  <2>1. ~Home BY <1>1 DEF Home, Released
  <2>2. ~Working(0) BY <1>1 DEF Working, Busy, Called, ComputePcs, BarrierPcs
  <2> QED BY <2>1, <2>2 DEF ComputedInv
<1>3. \A u \in Threads : ~Busy(u) BY <1>1, Quiet DEF CallerPcs
<1>4. \A u \in Threads : ~Holds(u)'
  <2>1. ~Holds(0)' BY <1>1 DEF Holds, Released
  <2>2. \A u \in Threads \ {0} : ~Holds(u)'
    BY <1>1, <1>3 DEF Holds, Released, Busy, ComputePcs
  <2> QED BY <2>1, <2>2
<1>5. Team' = Team /\ computed' = {} BY <1>1, <1>2 DEF Team
<1> QED BY <1>0, <1>4, <1>5 DEF FreshInv, Fresh, Apart

LEMMA CallerFresh == IInv /\ ComputedInv /\ FreshInv /\ (Calls \/ InCall) => FreshInv'
<1> SUFFICES ASSUME IInv, ComputedInv, FreshInv, Calls \/ InCall PROVE FreshInv' OBVIOUS
<1>0. pc \in [Threads -> AllPcs] /\ 0 \in Threads
  BY ZeroIsThread DEF IInv, TypeOK, PcTypeOK, AllPcs
<1>1. IInv' BY CallsStep, InCallStep
<1>2. CASE Announce BY <1>2, AnnounceFresh
<1>3. CASE Broadcast
  <2>1. /\ pc[0] = "broadcast" /\ pc'[0] = "enter"
        /\ \A u \in Threads \ {0} : pc'[u] = pc[u]
        /\ UNCHANGED <<node, nth, chunk, current_chunk, computed, cgraph, ec, abort, after,
                       n_passed, n_threads_cur, n_barrier_passed, n_graph, last_graph>>
    BY <1>0, <1>3 DEF Broadcast, result, barrier, work
  <2>2. Team \subseteq Threads BY DEF Team
  <2>3. \A u \in Threads \ {0} : (Working(u)' <=> Working(u)) /\ Phase(u)' = Phase(u)
    BY <2>1, PhaseFrame
  <2>4. Called(0) /\ Busy(0)' BY <2>1 DEF Called, Busy, ComputePcs
  <2>5. Working(0) /\ Working(0)' /\ Phase(0)' = Phase(0) BY <2>1, <2>4 DEF Working, Phase
  <2>6. Steady BY <2>2, <2>3, <2>5 DEF Steady
  <2>7. ~Finished(0) /\ ~Holds(0)' BY <2>1 DEF Finished, Holds, Released, BarrierPcs
  <2> QED BY <1>0, <2>1, <2>6, <2>7, GoesOnFresh
<1>4. CASE Calls
  <2>1. pc[0] \in {"idle", "free"} BY <1>4
    DEF Calls, ThreadpoolNew, GraphComputeDisposable, GraphCompute, Pause, Resume, ThreadpoolFree
  <2>2. pc'[0] \in {"idle", "kickoff", "unpause"}
    <3>1. CASE Pause \/ Resume BY <2>1, <3>1 DEF Pause, Resume
    <3>2. CASE ThreadpoolFree BY <1>0, <3>2 DEF ThreadpoolFree
    <3>3. CASE \E paused \in BOOLEAN : ThreadpoolNew(paused)
      BY <1>0, <3>3 DEF ThreadpoolNew, NewImpl
    <3>4. CASE \E g \in Graphs : GraphComputeDisposable(g)
      BY <1>0, <3>4 DEF GraphComputeDisposable, NewImpl
    <3>5. CASE \E g \in Graphs : GraphCompute(g) BY <1>0, <3>5 DEF GraphCompute
    <3> QED BY <1>4, <3>1, <3>2, <3>3, <3>4, <3>5 DEF Calls
  <2> QED BY <1>1, <2>2, QuietFresh DEF CallerPcs
<1>5. CASE Kickoff \/ Returned \/ FreeBroadcast \/ Join
  <2>1. pc'[0] \in CallerPcs \ {"broadcast"}
    BY <1>0, <1>5 DEF Kickoff, Returned, FreeBroadcast, Join, CallerPcs
  <2> QED BY <1>1, <2>1, QuietFresh
<1> QED BY <1>2, <1>3, <1>4, <1>5 DEF InCall

\* A worker that waits for a graph has computed nothing of it.
LEMMA WaitFresh == ASSUME IInv, FreshInv, NEW t \in Workers, Wait(t) PROVE FreshInv'
<1>0. pc \in [Threads -> AllPcs] /\ t \in Threads
  BY ZeroIsThread DEF IInv, TypeOK, PcTypeOK, AllPcs
<1>1. pc[t] \in WaitPcs
  BY DEF Wait, Top, PauseWait, StopCheck, PollForWork, ReadyFlags, ReadyGraph, ReadyActive,
         PollAgain, PollEnds, CheckForWork, WaitPcs
<1>2. /\ \A u \in Threads \ {t} : pc'[u] = pc[u]
      /\ pc'[t] \in WaitPcs \cup {"enter"}
  <2>1. CASE UNCHANGED pc BY <1>1, <2>1
  <2>2. CASE Top(t) \/ StopCheck(t) \/ PollForWork(t) \/ ReadyFlags(t)
    BY <1>0, <2>2 DEF Top, StopCheck, PollForWork, ReadyFlags, Goto, WaitPcs
  <2>3. CASE PauseWait(t) \/ PollAgain(t) \/ PollEnds(t) \/ ReadyGraph(t)
    BY <1>0, <2>3 DEF PauseWait, PollAgain, PollEnds, ReadyGraph, Goto, WaitPcs
  <2>4. CASE ReadyActive(t) BY <1>0, <2>4 DEF ReadyActive, Goto, WaitPcs
  <2>5. CASE CheckForWork(t) BY <1>0, <2>1, <2>5 DEF CheckForWork, Goto, WaitPcs
  <2> QED BY <2>2, <2>3, <2>4, <2>5 DEF Wait
<1>3. UNCHANGED <<shared, result, barrier, work, after>>
  BY DEF Wait, Top, PauseWait, StopCheck, PollForWork, ReadyFlags, ReadyGraph, ReadyActive,
         PollAgain, PollEnds, CheckForWork
<1>4. UNCHANGED <<node, chunk, current_chunk, computed, cgraph, abort, after, n_passed,
                  n_threads_cur, n_barrier_passed>>
  BY <1>3 DEF shared, result, barrier, work
<1>5. Steady BY WaitStep
<1>6. ~Finished(t) BY <1>1 DEF Finished, WaitPcs, BarrierPcs
<1>7. ~Holds(t)' BY <1>2 DEF Holds, Released, WaitPcs
<1> QED BY <1>0, <1>2, <1>4, <1>5, <1>6, <1>7, GoesOnFresh

\* The barrier opens: nothing of the next node has been computed, no chunk of
\* this one, and each thread has a chunk of its own to begin with.
LEMMA OpeningFresh ==
    ASSUME IInv, ComputedInv, FreshInv, AllAtBarrier, 0 \in Team, NEW t \in Team,
           \A u \in Team : pc'[u] = after[u] \/ Released(u)',
           UNCHANGED <<cgraph, ec, abort, n_threads_cur, n_graph, last_graph, node, nth, chunk,
                       after, current_chunk, computed>>
    PROVE  FreshInv'
<1>0. /\ after \in [Threads -> {"next", "chunk", "return", "top"}] /\ Len(cgraph) \in Nat
      /\ node \in [Threads -> Nat]
  BY DEF IInv, TypeOK
<1>1. Team' = Team /\ Team \subseteq Threads BY DEF Team
<1>2. \A u \in Team :
              /\ Finished(u) /\ Phase(u) = Phase(t) /\ PartsInv(u, Phase(t)[1], Phase(t)[2])
              /\ ~Called(u) /\ PlaceInv(u) /\ Working(u)
              /\ after[u] = "chunk" <=> after[t] = "chunk"
              /\ after[u] = "next" <=> after[t] = "next"
              /\ after[t] \in {"chunk", "next"} => node[u] = node[t]
  BY TeamFinished
<1>3. \A u \in Team : Busy(u) /\ pc[u] \in BarrierPcs /\ ~Released(u) BY DEF AllAtBarrier
<1>4. \A u \in Team : Released(u)' => pc'[u] = "spin" BY DEF Released
<1>5. \A u \in Team : ~Called(u)'
  <2> SUFFICES ASSUME NEW u \in Team PROVE ~Called(u)' OBVIOUS
  <2>1. CASE u = 0
    <3>1. pc'[0] # "broadcast" BY <1>0, <1>1, <2>1 DEF Released
    <3> QED BY <2>1, <3>1 DEF Called
  <2>2. CASE u # 0
    <3>1. last_graph[u] = n_graph BY <1>1, <1>3, <2>2 DEF IInv, ThreadInv, Workers
    <3> QED BY <2>2, <3>1 DEF Called
  <2> QED BY <2>1, <2>2
<1>6. CASE after[t] = "chunk"
  <2> DEFINE k == node[t]
  <2>1. Phase(t) = <<k, 0>> BY <1>2, <1>3, <1>6 DEF Phase, BarrierPcs
  <2>2. \A c \in Nat : <<k, <<"chunk", c>>>> \notin computed
    <3>1. Fresh(t, k, 0) BY <1>2, <2>1 DEF FreshInv
    <3> QED BY <3>1 DEF Fresh
  <2>3. \A u \in Team : chunk[u] = u
    <3>1. \A u \in Team : PartsInv(u, k, 0) BY <1>2, <2>1
    <3>2. \A u \in Team : OwnShare(u, k) BY <3>1 DEF PartsInv
    <3> QED BY <1>2, <1>3, <1>6, <3>2 DEF OwnShare
  <2>4. ASSUME NEW u \in Team PROVE Phase(u)' = <<k, 1>>
    <3>1. after'[u] = "chunk" /\ node'[u] = k /\ ~Called(u)' BY <1>2, <1>5, <1>6
    <3>2. pc'[u] = "chunk" \/ (Released(u)' /\ pc'[u] = "spin") BY <3>1 DEF Released
    <3> QED BY <3>1, <3>2 DEF Phase
  <2>5. \A u \in Team : Fresh(u, k, 1)' BY <2>2 DEF Fresh
  <2>6. \A u \in Team : Fresh(u, Phase(u)[1], Phase(u)[2])' BY <2>4, <2>5
  <2>7. Apart' BY <1>1, <2>3 DEF Apart
  <2> QED BY <1>1, <2>6, <2>7 DEF FreshInv
<1>7. CASE after[t] # "chunk"
  <2>1. \A u \in Team : ~Holds(u)' BY <1>2, <1>4, <1>7 DEF Holds
  <2>2. Apart' BY <1>1, <2>1 DEF Apart
  <2>3. CASE after[t] = "next"
    <3> DEFINE k == node[t]
    <3>1. k \in Nat /\ k > 0 /\ k < Len(cgraph)
      BY <1>0, <1>1, <1>2, <1>3, <2>3 DEF PlaceInv
    <3>2. Phase(t) = LastPhase(k - 1) BY <1>2, <1>3, <2>3 DEF Phase, BarrierPcs
    <3>3. NothingElse(k - 1) BY <1>2, <3>2 DEF LastPhase, PartsInv
    <3>4. \A e \in computed : e[1] # k BY <3>1, <3>3 DEF NothingElse
    <3>5. ASSUME NEW u \in Team PROVE Phase(u)' = <<k, 0>>
      <4>1. after'[u] = "next" /\ node'[u] = k /\ ~Called(u)' BY <1>2, <1>5, <2>3
      <4>2. pc'[u] = "next" => Phase(u)' = NextPhase(k)' BY <4>1 DEF Phase
      <4>3. NextPhase(k)' = <<k, 0>> BY <1>0, <3>1 DEF NextPhase
      <4>4. pc'[u] = "spin" /\ Released(u)' => Phase(u)' = <<k, 0>> BY <4>1 DEF Phase
      <4>5. pc'[u] = "next" \/ (Released(u)' /\ pc'[u] = "spin") BY <4>1 DEF Released
      <4> QED BY <4>2, <4>3, <4>4, <4>5
    <3>6. \A u \in Team : Fresh(u, k, 0)'
      <4>1. \A p : <<k, p>> \notin computed
        <5> SUFFICES ASSUME NEW p, <<k, p>> \in computed PROVE FALSE OBVIOUS
        <5>1. <<k, p>>[1] = k OBVIOUS
        <5> QED BY <3>4, <5>1
      <4> QED BY <4>1 DEF Fresh
    <3>7. \A u \in Team : Fresh(u, Phase(u)[1], Phase(u)[2])' BY <3>5, <3>6
    <3> QED BY <1>1, <2>2, <3>7 DEF FreshInv
  <2>4. CASE after[t] # "next"
    <3>1. \A u \in Team : after[u] \in {"return", "top"} BY <1>0, <1>1, <1>2, <1>7, <2>4
    <3>2. \A u \in Team : pc'[u] \in {"return", "top"} \/ Released(u)' BY <3>1
    <3>3. \A u \in Team : ~Busy(u)' BY <3>1, <3>2 DEF Busy, Released, ComputePcs, BarrierPcs
    <3> QED BY <1>1, <1>5, <2>2, <3>3 DEF FreshInv, Working
  <2> QED BY <2>3, <2>4
<1> QED BY <1>6, <1>7

LEMMA BarrierFresh ==
    ASSUME IInv, ComputedInv, FreshInv, NEW t \in Threads, Barrier(t) PROVE FreshInv'
<1>0. pc \in [Threads -> AllPcs] /\ n_barrier_passed \in Nat
  BY DEF IInv, TypeOK, PcTypeOK, AllPcs
<1>1. CASE ReleaseBarrier(t)
  <2>1. /\ pc[t] = "release" /\ pc'[t] = after[t] /\ n_barrier_passed' = n_barrier_passed + 1
        /\ \A u \in Threads \ {t} : pc'[u] = pc[u]
        /\ UNCHANGED <<cgraph, ec, abort, n_threads_cur, n_graph, last_graph, node, nth, chunk,
                       n_passed, after, current_chunk, computed>>
    BY <1>0, <1>1 DEF ReleaseBarrier, Goto, shared, result, waiting, work
  <2>2. /\ AllAtBarrier /\ t \in Team /\ 0 \in Team
        /\ \A u \in Team \ {t} : pc[u] = "spin" /\ n_passed[u] = n_barrier_passed
    BY <2>1, ReleasesAll
  <2>3. \A u \in Team : pc'[u] = after[u] \/ Released(u)'
    BY <1>0, <2>1, <2>2 DEF Released, Team
  <2> QED BY <2>1, <2>2, <2>3, OpeningFresh
<1>2. CASE EnterBarrier(t) /\ n_threads_cur = 1
  <2>1. /\ pc[t] = "barrier" /\ pc'[t] = after[t]
        /\ UNCHANGED <<cgraph, ec, abort, n_threads_cur, n_graph, last_graph, node, nth, chunk,
                       after, current_chunk, computed>>
    BY <1>0, <1>2 DEF EnterBarrier, Goto, shared, result, waiting, work
  <2>2. t \in Team /\ 0 \in Team BY <2>1, ComputingFacts DEF BarrierPcs
  <2>3. Team = {t} BY <1>2, <2>2 DEF Team, Threads
  <2>4. AllAtBarrier BY <2>1, <2>3 DEF AllAtBarrier, Busy, Released, BarrierPcs
  <2> QED BY <2>1, <2>2, <2>3, <2>4, OpeningFresh
<1>3. CASE \/ EnterBarrier(t) /\ n_threads_cur # 1
           \/ Arrive(t) \/ ResetBarrier(t) \/ Spin(t)
  BY <1>3, InBarrierFresh
<1> QED BY <1>1, <1>2, <1>3 DEF Barrier

LEMMA FreshStep == IInv /\ ComputedInv /\ FreshInv /\ [Next]_vars => FreshInv'
<1> SUFFICES ASSUME IInv, ComputedInv, FreshInv, [Next]_vars PROVE FreshInv' OBVIOUS
<1>1. CASE Calls \/ InCall BY <1>1, CallerFresh
<1>2. ASSUME NEW t \in Workers, Wait(t) PROVE FreshInv' BY <1>2, WaitFresh
<1>3. ASSUME NEW t \in Threads, Compute(t) \/ Barrier(t) PROVE FreshInv'
  BY <1>3, ComputeFresh, BarrierFresh
<1>4. CASE UNCHANGED vars
  <2>1. /\ UNCHANGED <<n_threads_cur, n_graph, abort, ec, cgraph, n_barrier_passed, n_passed>>
        /\ UNCHANGED <<last_graph, node, nth, chunk, current_chunk, computed, pc, after>>
    BY <1>4 DEF vars, shared, result, barrier, waiting, work
  <2>2. \A u \in Threads : (Working(u)' <=> Working(u)) /\ Phase(u)' = Phase(u)
    BY <2>1, PhaseFrame
  <2>3. Steady BY <2>2 DEF Steady, Team
  <2>4. \A u \in Threads : (Finished(u)' <=> Finished(u)) /\ (Holds(u)' <=> Holds(u))
    BY <2>1, FinishedFrame DEF Holds, Released
  <2> QED BY <2>1, <2>3, <2>4, NothingNewFresh DEF Team
<1> QED BY <1>1, <1>2, <1>3, <1>4 DEF Next

\* A thread that is where it computes a part leaves it only by computing one.
LEMMA LeavesByComputing ==
    ASSUME IInv, [Next]_vars, NEW t \in Threads, Computes(t), pc'[t] # pc[t]
    PROVE  Share(t) \/ ComputeChunk(t)
<1>0. pc \in [Threads -> AllPcs] /\ pc[t] \in {"next", "chunk"}
  BY DEF IInv, TypeOK, PcTypeOK, AllPcs, Computes
<1>1. CASE Calls \/ InCall
  <2>1. pc[0] \in CallerPcs
    BY <1>1 DEF Calls, InCall, ThreadpoolNew, GraphComputeDisposable, GraphCompute, Pause, Resume,
                ThreadpoolFree, Kickoff, Announce, Broadcast, Returned, FreeBroadcast, Join,
                CallerPcs
  <2>2. t \in Workers BY <1>0, <2>1 DEF Workers, CallerPcs
  <2>3. CASE pool = "none" BY <1>0, <2>2, <2>3 DEF IInv, PoolInv
  <2>4. CASE Join BY <1>0, <2>2, <2>4 DEF Join
  <2>5. CASE pool # "none" /\ ~Join
    <3>1. \/ UNCHANGED pc
          \/ \E where \in CallerPcs \cup {"enter"} : pc' = [pc EXCEPT ![0] = where]
      <4>1. CASE Calls
        BY <2>5, <4>1 DEF Calls, ThreadpoolNew, GraphComputeDisposable, GraphCompute, Pause, Resume,
                          ThreadpoolFree, CallerPcs
      <4>2. CASE InCall
        BY <2>5, <4>2 DEF InCall, Kickoff, Announce, Broadcast, Returned, FreeBroadcast, CallerPcs
      <4> QED BY <1>1, <4>1, <4>2
    <3> QED BY <1>0, <2>2, <3>1 DEF Workers
  <2> QED BY <2>3, <2>4, <2>5
<1>2. ASSUME NEW u \in Workers, Wait(u) PROVE FALSE
  <2>1. pc[u] \in WaitPcs
    BY <1>2 DEF Wait, Top, PauseWait, StopCheck, PollForWork, ReadyFlags, ReadyGraph, ReadyActive,
                PollAgain, PollEnds, CheckForWork, WaitPcs
  <2>2. UNCHANGED pc \/ \E where \in WaitPcs \cup {"enter"} : pc' = [pc EXCEPT ![u] = where]
    BY <1>2 DEF Wait, Top, PauseWait, StopCheck, PollForWork, ReadyFlags, ReadyGraph, ReadyActive,
                PollAgain, PollEnds, CheckForWork, Goto, WaitPcs
  <2>3. u # t BY <1>0, <2>1 DEF WaitPcs
  <2> QED BY <1>0, <2>2, <2>3
<1>3. ASSUME NEW u \in Threads, Compute(u) \/ Barrier(u) PROVE Share(t) \/ ComputeChunk(t)
  <2>1. \E where \in AllPcs : pc' = [pc EXCEPT ![u] = where]
    <3>1. after[u] \in AllPcs
      BY DEF IInv, TypeOK, AllPcs, WaitPcs, CallerPcs, ComputePcs
    <3> QED BY <1>3, <3>1
      DEF Compute, Enter, Share, ComputeChunk, GrabChunk, NoMoreChunks, NodeDone, Leave, Barrier,
          EnterBarrier, Arrive, ResetBarrier, ReleaseBarrier, Spin, Goto, AllPcs, ComputePcs,
          BarrierPcs
  <2>2. u = t BY <1>0, <2>1
  <2>3. ~Barrier(t)
    BY <1>0 DEF Barrier, EnterBarrier, Arrive, ResetBarrier, ReleaseBarrier, Spin
  <2>4. ~Enter(t) /\ ~GrabChunk(t) /\ ~NoMoreChunks(t) /\ ~NodeDone(t) /\ ~Leave(t)
    BY <1>0 DEF Enter, GrabChunk, NoMoreChunks, NodeDone, Leave, Computes
  <2> QED BY <1>3, <2>2, <2>3, <2>4 DEF Compute
<1>4. CASE UNCHANGED vars BY <1>4 DEF vars
<1> QED BY <1>1, <1>2, <1>3, <1>4 DEF Next

\* No part of a node is computed twice: a share belongs to one thread, and
\* ggml_threadpool_chunk_add gives a chunk to one thread, from the first chunk
\* that nobody begins with.
THEOREM GTEachPartOnce == Spec => EachPartOnce
<1>1. Init => IInv BY InitStep
<1>2. Init => FreshInv
  <2> SUFFICES ASSUME Init PROVE FreshInv OBVIOUS
  <2>1. Team = {} BY DEF Init, Team, Threads
  <2> QED BY <2>1 DEF FreshInv, Apart
<1>3. IInv /\ ComputedInv /\ FreshInv /\ [Next]_vars =>
        [\A t \in Threads : Computes(t) /\ pc'[t] # pc[t] => computed' # computed]_vars
  <2> SUFFICES ASSUME IInv, ComputedInv, FreshInv, [Next]_vars,
                      NEW t \in Threads, Computes(t), pc'[t] # pc[t]
               PROVE  computed' # computed
    OBVIOUS
  <2>1. CASE Share(t)
    <3>1. <<node[t], <<"share", t>>>> \in computed' BY <2>1 DEF Share
    <3> QED BY <2>1, <3>1, ShareFresh
  <2>2. CASE ComputeChunk(t)
    <3>1. <<node[t], <<"chunk", chunk[t]>>>> \in computed' BY <2>2 DEF ComputeChunk
    <3> QED BY <2>2, <3>1, ComputeChunkFresh
  <2> QED BY <2>1, <2>2, LeavesByComputing
<1>4. Spec => [](IInv /\ ComputedInv /\ FreshInv)
  BY <1>2, ComputedAlways, FreshStep, PTL DEF Spec
<1> QED BY <1>3, <1>4, PTL DEF Spec, EachPartOnce

-----------------------------------------------------------------------------
(* Nobody waits for ever.                                                  *)

\* A thread that cannot take a step of its own: it sleeps, it does not run, it
\* waits for the mutex, or it spins at a barrier that is closed.
Stuck(t) ==
    \/ t \in asleep
    \/ pc[t] \in {"none", "exited"}
    \/ pc[t] \in {"paused", "lock"} /\ locked
    \/ pc[t] = "spin" /\ n_passed[t] = n_barrier_passed

\* While a graph is computed somebody who has to compute it can go on; a caller
\* that joins the workers waits for none that cannot exit; and a call that
\* begins finds the mutex free.
SomebodyGoesOn ==
    /\ Working(0) => \E t \in Team : Working(t) /\ ~Stuck(t)
    /\ pc[0] = "join" => \A t \in Workers : pc[t] \in {"none", "exited"} \/ ~Stuck(t)
    /\ pc[0] \in {"kickoff", "free"} => ~locked

\* A pool that computes is not paused, and its workers run.
RunningInv ==
    /\ pause => pc[0] \in {"idle", "kickoff", "announce", "broadcast", "unpause"}
    /\ \A t \in Workers : /\ pc[t] = "exited" => stop
                          /\ pc[t] = "none" /\ pool # "none" => t >= n_threads_max

\* Every step keeps that: the caller resumes a pool before it computes.
LEMMA RunningStep == IInv /\ RunningInv /\ [Next]_vars => RunningInv'
<1> SUFFICES ASSUME IInv, RunningInv, [Next]_vars PROVE RunningInv' OBVIOUS
<1>0. /\ pc \in [Threads -> AllPcs] /\ 0 \in Threads /\ NThreads \in Nat /\ plan \in Nat
      /\ \A t \in Workers : t \in Threads /\ t # 0 /\ t \in Nat
  BY ZeroIsThread DEF IInv, TypeOK, PcTypeOK, AllPcs, Workers, Threads
<1>1. CASE Calls
  <2>1. ASSUME NEW n \in Nat, NEW g, NEW paused \in BOOLEAN, NEW where \in {"idle", "kickoff"},
               NewImpl(n, g, paused, where)
        PROVE  RunningInv'
    BY <1>0, <2>1 DEF NewImpl, RunningInv
  <2>2. CASE \E paused \in BOOLEAN : ThreadpoolNew(paused)
    BY <1>0, <2>1, <2>2 DEF ThreadpoolNew
  <2>3. CASE \E g \in Graphs : GraphComputeDisposable(g)
    BY <1>0, <2>1, <2>3 DEF GraphComputeDisposable
  <2>4. CASE \E g \in Graphs : GraphCompute(g)
    BY <1>0, <2>4 DEF GraphCompute, RunningInv, shared
  <2>5. CASE Pause \/ Resume
    BY <1>0, <2>5 DEF Pause, Resume, RunningInv, caller
  <2>6. CASE ThreadpoolFree
    BY <1>0, <2>6 DEF ThreadpoolFree, RunningInv, caller
  <2> QED BY <1>1, <2>2, <2>3, <2>4, <2>5, <2>6 DEF Calls
<1>2. CASE InCall
  <2>1. CASE Join BY <1>0, <2>1 DEF Join, RunningInv, shared
  <2>2. CASE Kickoff \/ Announce \/ Returned
    BY <1>0, <2>2 DEF Kickoff, Announce, Returned, RunningInv, caller, shared
  <2>3. CASE Broadcast \/ FreeBroadcast
    BY <1>0, <2>3 DEF Broadcast, FreeBroadcast, RunningInv, caller
  <2> QED BY <1>2, <2>1, <2>2, <2>3 DEF InCall
<1>3. ASSUME NEW t \in Workers, Wait(t) PROVE RunningInv'
  <2>1. UNCHANGED <<caller, shared>>
    BY <1>3 DEF Wait, Top, PauseWait, StopCheck, PollForWork, ReadyFlags, ReadyGraph, ReadyActive,
                PollAgain, PollEnds, CheckForWork
  <2>2. \A u \in Threads \ {t} : pc'[u] = pc[u]
    BY <1>0, <1>3 DEF Wait, Top, PauseWait, StopCheck, PollForWork, ReadyFlags, ReadyGraph,
                      ReadyActive, PollAgain, PollEnds, CheckForWork, Goto
  <2>3. pc'[t] # "none" /\ (pc'[t] = "exited" => stop)
    <3>1. CASE Top(t) \/ StopCheck(t) \/ PollForWork(t) \/ ReadyFlags(t)
      BY <1>0, <3>1 DEF Top, StopCheck, PollForWork, ReadyFlags, Goto
    <3>2. CASE PauseWait(t) \/ PollAgain(t) \/ PollEnds(t) \/ ReadyGraph(t)
      BY <1>0, <3>2 DEF PauseWait, PollAgain, PollEnds, ReadyGraph, Goto
    <3>3. CASE ReadyActive(t) BY <1>0, <3>3 DEF ReadyActive, Goto
    <3>4. CASE CheckForWork(t) BY <1>0, <3>4 DEF CheckForWork, Goto
    <3> QED BY <1>3, <3>1, <3>2, <3>3, <3>4 DEF Wait
  <2> QED BY <1>0, <2>1, <2>2, <2>3 DEF RunningInv, caller, shared
<1>4. ASSUME NEW t \in Threads, Compute(t) \/ Barrier(t) PROVE RunningInv'
  <2>1. /\ UNCHANGED <<caller, shared>>
        /\ pc[t] \in ComputePcs \cup BarrierPcs
        /\ \E where \in AllPcs \ {"none", "exited"} : pc' = [pc EXCEPT ![t] = where]
    <3>1. after[t] \in AllPcs \ {"none", "exited"}
      BY DEF IInv, TypeOK, AllPcs, WaitPcs, CallerPcs, ComputePcs
    <3> QED BY <1>4, <3>1
      DEF Compute, Enter, Share, ComputeChunk, GrabChunk, NoMoreChunks, NodeDone, Leave, Barrier,
          EnterBarrier, Arrive, ResetBarrier, ReleaseBarrier, Spin, Goto, AllPcs, ComputePcs,
          BarrierPcs, CallerPcs, WaitPcs
  <2> QED BY <1>0, <2>1 DEF RunningInv, caller, shared, ComputePcs, BarrierPcs
<1>5. CASE UNCHANGED vars BY <1>5 DEF vars, RunningInv, caller, shared
<1> QED BY <1>1, <1>2, <1>3, <1>4, <1>5 DEF Next

\* The pool cannot deadlock, whatever its size: the team never waits at a barrier
\* that nobody opens, nobody the others wait for sleeps through its graph, and the
\* workers that are joined are awake.
THEOREM GTSomebodyGoesOn == Spec => []SomebodyGoesOn
<1>1. Init => RunningInv BY DEF Init, RunningInv, Workers, Threads
<1>2. IInv /\ SleepersHaveNoWork /\ RunningInv => SomebodyGoesOn
  <2> SUFFICES ASSUME IInv, SleepersHaveNoWork, RunningInv PROVE SomebodyGoesOn OBVIOUS
  <2>0. /\ asleep \subseteq Workers /\ 0 \in Threads /\ Team \subseteq Threads /\ 0 \notin Workers
        /\ n_threads_max \in Nat /\ n_threads_cur \in Nat /\ n_threads_cur <= n_threads_max
    BY ZeroIsThread DEF IInv, TypeOK, Team, Workers
  <2>1. ASSUME Working(0) PROVE \E t \in Team : Working(t) /\ ~Stuck(t)
    <3>1. pool # "none"
      BY <2>1 DEF Working, Busy, Called, IInv, PoolInv, ComputePcs, BarrierPcs
    <3>2. 0 \in Team BY <3>1 DEF IInv, ThreadInv
    <3>3. \A t \in Team : Working(t) BY <2>1, <3>2 DEF IInv, WorkInv
    <3>4. CASE pc[0] = "broadcast"
      <4>1. ~Stuck(0) BY <2>0, <3>4 DEF Stuck
      <4> QED BY <3>2, <3>3, <4>1
    <3>5. CASE pc[0] # "broadcast"
      <4>1. Busy(0) BY <2>1, <3>5 DEF Working, Called
      <4>2. pc[0] \in ComputePcs \cup BarrierPcs BY <2>0, <4>1, BusyFacts
      <4>3. ~locked /\ ~pause /\ ~stop
        BY <3>1, <4>2 DEF IInv, PoolInv, RunningInv, ComputePcs, BarrierPcs
      <4>4. PICK t \in Team : ~(pc[t] = "spin" /\ n_passed[t] = n_barrier_passed)
        <5> SUFFICES ASSUME \A t \in Team : pc[t] = "spin" /\ n_passed[t] = n_barrier_passed
                     PROVE  FALSE
          OBVIOUS
        <5>1. \A t \in Team : arrived[t] = n_barrier_passed + 1
          BY <2>0 DEF IInv, BarrierInv, Released
        <5>2. Ahead = Team BY <5>1 DEF Ahead
        <5>3. PICK u \in Threads : pc[u] \in {"last", "release"}
          BY <3>2, <5>2 DEF IInv, BarrierInv
        <5>4. u \in Team BY <5>3 DEF IInv, BarrierInv
        <5> QED BY <5>3, <5>4
      <4>5. pc[t] \notin {"none", "exited"}
        <5>1. CASE t = 0 BY <4>2, <5>1 DEF ComputePcs, BarrierPcs
        <5>2. CASE t # 0
          <6>1. t \in Workers /\ t \in Int /\ t < n_threads_cur
            BY <2>0, <5>2 DEF Workers, Team, Threads
          <6> QED BY <2>0, <3>1, <4>3, <6>1 DEF RunningInv
        <5> QED BY <5>1, <5>2
      <4>6. t \notin asleep
        <5> SUFFICES ASSUME t \in asleep PROVE FALSE OBVIOUS
        <5>1. pc[t] \in {"top", "lock"} /\ t # 0 BY <2>0 DEF IInv, PoolInv
        <5>2. last_graph[t] # n_graph
          BY <3>3, <5>1 DEF Working, Called, Busy, ComputePcs, BarrierPcs
        <5>3. pc[0] \notin {"announce", "broadcast", "unpause"}
          BY <4>2 DEF ComputePcs, BarrierPcs
        <5> QED BY <4>3, <5>2, <5>3 DEF SleepersHaveNoWork
      <4>7. ~Stuck(t) BY <4>3, <4>4, <4>5, <4>6 DEF Stuck
      <4> QED BY <3>3, <4>7
    <3> QED BY <3>4, <3>5
  <2>2. ASSUME pc[0] = "join", NEW t \in Workers, pc[t] \notin {"none", "exited"}
        PROVE  ~Stuck(t)
    <3>1. ~locked /\ stop BY <2>2 DEF IInv, PoolInv
    <3>2. t \notin asleep BY <2>2, <3>1 DEF SleepersHaveNoWork
    <3>3. ~(pc[t] = "spin" /\ n_passed[t] = n_barrier_passed)
      BY <2>2, ZeroIsThread, Quiet DEF CallerPcs, Released
    <3> QED BY <2>2, <3>1, <3>2, <3>3 DEF Stuck
  <2>3. pc[0] \in {"kickoff", "free"} => ~locked BY DEF IInv, PoolInv
  <2> QED BY <2>1, <2>2, <2>3 DEF SomebodyGoesOn
<1> QED BY <1>1, <1>2, RunningStep, GTInvariant, GTSleepersHaveNoWork, PTL DEF Spec
=============================================================================
