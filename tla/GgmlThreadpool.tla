--------------------------- MODULE GgmlThreadpool ---------------------------
(***************************************************************************)
(* The threads that compute the graphs of whisper.cpp (ggml-cpu.c, the     *)
(* build without OpenMP).  The caller of ggml_graph_compute is thread 0 of *)
(* the pool; the others are created by ggml_threadpool_new_impl, poll or   *)
(* sleep until n_graph changes, compute every node of the graph together   *)
(* with thread 0, meet at ggml_barrier after each node and inside a matrix *)
(* product, and go back to waiting.                                        *)
(*                                                                         *)
(* A graph is a sequence: for each node the number of chunks that its      *)
(* shape gives a matrix product, or 0 for an operation that each thread    *)
(* does its own share of.                                                  *)
(***************************************************************************)
EXTENDS Integers, Sequences

CONSTANTS
    NThreads,    \* threads in the largest pool
    Plans,       \* the numbers of threads that a caller asks for
    Graphs,      \* the graphs that are computed
    MaxGraphs    \* bound: graphs submitted

ASSUME NThreadsAssumption == NThreads \in Nat \ {0}
ASSUME PlansAssumption == Plans \subseteq Nat \ {0}
ASSUME GraphsAssumption == Graphs \subseteq Seq(Nat) /\ Graphs # {}
ASSUME MaxGraphsAssumption == MaxGraphs \in Nat

VARIABLES
    plan,               \* cplan->n_threads, what the caller asks for; it never changes
    submitted,          \* graphs submitted
    pool,               \* "none", "disposable" or "persistent"
    n_threads_max, n_threads_cur,
    n_graph, n_barrier, n_barrier_passed, current_chunk,
    stop, pause, abort, ec,
    cgraph,
    locked,             \* the caller holds the mutex
    asleep,             \* threads inside ggml_cond_wait
    pc,                 \* where each thread is
    node, nth, chunk,   \* node_n, params.nth and current_chunk of each thread
    n_passed,           \* what each thread read of n_barrier_passed
    after,              \* where each thread goes on after its barrier
    last_graph,         \* the n_graph each thread acted on last
    new_graph,          \* what each thread read of n_graph
    computed,           \* the parts of the current graph that have been computed
    arrived             \* barriers each thread has arrived at

caller == <<plan, submitted, pool, n_threads_max>>
shared == <<n_threads_cur, n_graph, stop, pause>>
result == <<abort, ec, cgraph>>
barrier == <<n_barrier, n_barrier_passed, n_passed, arrived>>
waiting == <<last_graph, new_graph, asleep>>
work == <<node, nth, chunk, current_chunk, computed>>
vars == <<caller, shared, result, barrier, waiting, work, locked, pc, after>>

Threads == 0..(NThreads - 1)
Workers == Threads \ {0}
Least(a, b) == IF a < b THEN a ELSE b

\* The threads that the current graph is computed by.
Team == {t \in Threads : t < n_threads_cur}

-----------------------------------------------------------------------------
(* The parts of a node.                                                    *)

IsMatMul(k) == cgraph[k + 1] > 0

\* Few chunks are replaced by one for each thread.
NChunks(n, k) == IF cgraph[k + 1] < n * 4 THEN n ELSE cgraph[k + 1]

Shares(n) == {<<"share", t>> : t \in 0..(n - 1)}
Chunks(n, k) == {<<"chunk", c>> : c \in 0..(NChunks(n, k) - 1)}

\* The parts of node k when n threads compute it.  A matrix product converts
\* src1 by shares, then computes the chunks.
Parts(n, k) == {k} \X (Shares(n) \cup (IF IsMatMul(k) THEN Chunks(n, k) ELSE {}))

-----------------------------------------------------------------------------
Init ==
    /\ plan \in Plans
    /\ submitted = 0 /\ pool = "none"
    /\ n_threads_max = 0 /\ n_threads_cur = 0
    /\ n_graph = 0 /\ n_barrier = 0 /\ n_barrier_passed = 0 /\ current_chunk = 0
    /\ stop = FALSE /\ pause = FALSE /\ abort = -1 /\ ec = "SUCCESS"
    /\ cgraph = <<>>
    /\ locked = FALSE /\ asleep = {}
    /\ pc = [t \in Threads |-> IF t = 0 THEN "idle" ELSE "none"]
    /\ node = [t \in Threads |-> 0]
    /\ nth = [t \in Threads |-> 0]
    /\ chunk = [t \in Threads |-> 0]
    /\ n_passed = [t \in Threads |-> 0]
    /\ after = [t \in Threads |-> "next"]
    /\ last_graph = [t \in Threads |-> 0]
    /\ new_graph = [t \in Threads |-> 0]
    /\ computed = {}
    /\ arrived = [t \in Threads |-> 0]

-----------------------------------------------------------------------------
(* The caller: thread 0 outside ggml_graph_compute_thread.                 *)

\* The state of a pool of n threads that is made with this graph.
NewImpl(n, g, paused, callerPc) ==
    /\ n_threads_max' = n /\ n_threads_cur' = n
    /\ n_graph' = 0 /\ n_barrier' = 0 /\ n_barrier_passed' = 0 /\ current_chunk' = 0
    /\ stop' = FALSE /\ pause' = paused /\ abort' = -1 /\ ec' = "SUCCESS"
    /\ cgraph' = g
    /\ pc' = [t \in Threads |-> IF t = 0 THEN callerPc
                                ELSE IF t < n THEN "top" ELSE "none"]
    /\ last_graph' = [t \in Threads |-> 0]
    /\ arrived' = [t \in Threads |-> 0]
    /\ UNCHANGED <<plan, locked, asleep, computed, node, nth, chunk, n_passed, after, new_graph>>

ThreadpoolNew(paused) ==
    /\ pc[0] = "idle" /\ pool = "none" /\ submitted < MaxGraphs
    /\ pool' = "persistent"
    /\ NewImpl(NThreads, <<>>, paused, "idle")
    /\ UNCHANGED submitted

\* A graph without a pool gets one of its own, of the size it asks for.
GraphComputeDisposable(g) ==
    /\ pc[0] = "idle" /\ pool = "none" /\ submitted < MaxGraphs
    /\ plan <= NThreads
    /\ pool' = "disposable" /\ submitted' = submitted + 1
    /\ NewImpl(plan, g, FALSE, "kickoff")

GraphCompute(g) ==
    /\ pc[0] = "idle" /\ pool = "persistent" /\ submitted < MaxGraphs
    /\ submitted' = submitted + 1
    /\ cgraph' = g /\ current_chunk' = 0 /\ abort' = -1 /\ ec' = "SUCCESS"
    /\ pc' = [pc EXCEPT ![0] = "kickoff"]
    /\ UNCHANGED <<plan, pool, n_threads_max, shared, barrier, waiting,
                   node, nth, chunk, computed, locked, after>>

\* ggml_graph_compute_kickoff: under the mutex, but the workers poll without it.
Kickoff ==
    /\ pc[0] = "kickoff" /\ ~locked
    /\ locked' = TRUE
    /\ n_threads_cur' = Least(plan, n_threads_max)
    /\ pc' = [pc EXCEPT ![0] = "announce"]
    /\ UNCHANGED <<caller, n_graph, stop, pause, result, barrier, waiting, work, after>>

Announce ==
    /\ pc[0] = "announce"
    /\ n_graph' = n_graph + 1
    /\ pc' = [pc EXCEPT ![0] = "broadcast"]
    /\ UNCHANGED <<caller, n_threads_cur, stop, pause, result, barrier, waiting, work,
                   locked, after>>

\* Fault: the sleeping threads are not woken.
Broadcast_Silent ==
    /\ pc[0] = "broadcast"
    /\ pause' = FALSE /\ locked' = FALSE
    /\ pc' = [pc EXCEPT ![0] = "enter"]
    /\ UNCHANGED <<caller, n_threads_cur, n_graph, stop, result, barrier, waiting, work, after>>

Broadcast ==
    /\ pc[0] = "broadcast"
    /\ pause' = FALSE /\ asleep' = {} /\ locked' = FALSE
    /\ pc' = [pc EXCEPT ![0] = "enter"]
    /\ UNCHANGED <<caller, n_threads_cur, n_graph, stop, result, barrier,
                   last_graph, new_graph, work, after>>

\* ggml_graph_compute returns ec, and a disposable pool is freed before it does.
Returned ==
    /\ pc[0] = "return"
    /\ pc' = [pc EXCEPT ![0] = IF pool = "disposable" THEN "free" ELSE "idle"]
    /\ computed' = {}
    /\ UNCHANGED <<caller, shared, result, barrier, waiting, node, nth, chunk, current_chunk,
                   locked, after>>

Pause ==
    /\ pc[0] = "idle" /\ pool = "persistent" /\ ~pause
    /\ pause' = TRUE /\ asleep' = {}
    /\ UNCHANGED <<caller, n_threads_cur, n_graph, stop, result, barrier,
                   last_graph, new_graph, work, locked, pc, after>>

Resume ==
    /\ pc[0] = "idle" /\ pool = "persistent" /\ pause
    /\ pause' = FALSE /\ asleep' = {}
    /\ UNCHANGED <<caller, n_threads_cur, n_graph, stop, result, barrier,
                   last_graph, new_graph, work, locked, pc, after>>

ThreadpoolFree ==
    /\ \/ pc[0] = "free"
       \/ pc[0] = "idle" /\ pool = "persistent"
    /\ ~locked
    /\ locked' = TRUE /\ stop' = TRUE
    /\ pc' = [pc EXCEPT ![0] = "unpause"]
    /\ UNCHANGED <<caller, n_threads_cur, n_graph, pause, result, barrier, waiting,
                   work, after>>

FreeBroadcast ==
    /\ pc[0] = "unpause"
    /\ pause' = FALSE /\ asleep' = {} /\ locked' = FALSE
    /\ pc' = [pc EXCEPT ![0] = "join"]
    /\ UNCHANGED <<caller, n_threads_cur, n_graph, stop, result, barrier,
                   last_graph, new_graph, work, after>>

\* Every worker has been joined and the pool's memory is given back.
Join ==
    /\ pc[0] = "join"
    /\ \A t \in Workers : pc[t] \in {"exited", "none"}
    /\ pool' = "none"
    /\ pc' = [t \in Threads |-> IF t = 0 THEN "idle" ELSE "none"]
    /\ UNCHANGED <<plan, submitted, n_threads_max, shared, result, barrier, waiting,
                   work, locked, after>>

-----------------------------------------------------------------------------
(* A worker between graphs.  A thread that sleeps does nothing.            *)

Goto(t, where) == pc' = [pc EXCEPT ![t] = where]

\* while (threadpool->pause), and if (threadpool->stop) break
Top(t) ==
    /\ pc[t] = "top" /\ t \notin asleep
    /\ Goto(t, IF pause THEN "paused" ELSE "stopcheck")
    /\ UNCHANGED <<caller, shared, result, barrier, waiting, work, locked, after>>

PauseWait(t) ==
    /\ pc[t] = "paused" /\ ~locked
    /\ asleep' = IF pause THEN asleep \cup {t} ELSE asleep
    /\ Goto(t, "top")
    /\ UNCHANGED <<caller, shared, result, barrier, last_graph, new_graph, work, locked, after>>

StopCheck(t) ==
    /\ pc[t] = "stopcheck"
    /\ Goto(t, IF stop THEN "exited" ELSE "poll")
    /\ UNCHANGED <<caller, shared, result, barrier, waiting, work, locked, after>>

\* ggml_graph_compute_poll_for_work: no polling by a thread that is not active.
PollForWork(t) ==
    /\ pc[t] = "poll"
    /\ Goto(t, IF t < n_threads_cur THEN "polling" ELSE "lock")
    /\ UNCHANGED <<caller, shared, result, barrier, waiting, work, locked, after>>

\* ggml_graph_compute_thread_ready, read after read, while polling.
ReadyFlags(t) ==
    /\ pc[t] = "polling"
    /\ Goto(t, IF stop \/ pause THEN "lock" ELSE "ready")
    /\ UNCHANGED <<caller, shared, result, barrier, waiting, work, locked, after>>

ReadyGraph(t) ==
    /\ pc[t] = "ready"
    /\ IF n_graph # last_graph[t]
       THEN new_graph' = [new_graph EXCEPT ![t] = n_graph] /\ Goto(t, "active")
       ELSE UNCHANGED new_graph /\ Goto(t, "notready")
    /\ UNCHANGED <<caller, shared, result, barrier, last_graph, asleep, work, locked, after>>

\* A worker whose pending is set goes on to compute, and pending is cleared.
ReadyActive(t) ==
    /\ pc[t] = "active"
    /\ last_graph' = [last_graph EXCEPT ![t] = new_graph[t]]
    /\ new_graph' = [new_graph EXCEPT ![t] = 0]
    /\ Goto(t, IF t < n_threads_cur THEN "enter" ELSE "notready")
    /\ UNCHANGED <<caller, shared, result, barrier, asleep, work, locked, after>>

PollAgain(t) ==
    /\ pc[t] = "notready"
    /\ Goto(t, "polling")
    /\ UNCHANGED <<caller, shared, result, barrier, waiting, work, locked, after>>

\* n_rounds polls have been made.
PollEnds(t) ==
    /\ pc[t] = "notready"
    /\ Goto(t, "lock")
    /\ UNCHANGED <<caller, shared, result, barrier, waiting, work, locked, after>>

\* Fault: the thread sleeps without looking again under the mutex.
CheckForWork_Unchecked(t) ==
    /\ pc[t] = "lock" /\ t \notin asleep /\ ~locked
    /\ asleep' = asleep \cup {t}
    /\ Goto(t, "polling")
    /\ UNCHANGED <<caller, shared, result, barrier, last_graph, new_graph, work, locked, after>>

\* ggml_graph_compute_check_for_work, under the mutex.
CheckForWork(t) ==
    /\ pc[t] = "lock" /\ t \notin asleep /\ ~locked
    /\ IF stop \/ pause THEN Goto(t, "top") /\ UNCHANGED <<last_graph, asleep>>
       ELSE /\ last_graph' = [last_graph EXCEPT ![t] = n_graph]
            /\ IF n_graph # last_graph[t] /\ t < n_threads_cur
               THEN Goto(t, "enter") /\ UNCHANGED asleep
               ELSE asleep' = asleep \cup {t} /\ UNCHANGED pc
    /\ UNCHANGED <<caller, shared, result, barrier, new_graph, work, locked, after>>

-----------------------------------------------------------------------------
(* ggml_graph_compute_thread, in every thread of the team.                 *)

Enter(t) ==
    /\ pc[t] = "enter"
    /\ node' = [node EXCEPT ![t] = 0]
    /\ nth' = [nth EXCEPT ![t] = n_threads_cur]
    /\ Goto(t, "next")
    /\ UNCHANGED <<caller, shared, result, barrier, waiting, chunk, current_chunk, computed,
                   locked, after>>

AtNode(t) == node[t] < Len(cgraph) /\ abort # node[t]

\* Fault: the chunks are handed out from the first one.
Share_FromZero(t) ==
    /\ pc[t] = "next" /\ AtNode(t)
    /\ computed' = computed \cup {<<node[t], <<"share", t>>>>}
    /\ IF IsMatMul(node[t])
       THEN /\ current_chunk' = IF t = 0 THEN 0 ELSE current_chunk
            /\ chunk' = [chunk EXCEPT ![t] = t]
            /\ after' = [after EXCEPT ![t] = "chunk"]
            /\ Goto(t, "barrier")
       ELSE Goto(t, "computed") /\ UNCHANGED <<current_chunk, chunk, after>>
    /\ UNCHANGED <<caller, shared, result, barrier, waiting, node, nth, locked>>

\* ggml_compute_forward: the thread's own share of the node.
Share(t) ==
    /\ pc[t] = "next" /\ AtNode(t)
    /\ computed' = computed \cup {<<node[t], <<"share", t>>>>}
    /\ IF IsMatMul(node[t])
       THEN /\ current_chunk' = IF t = 0 THEN nth[t] ELSE current_chunk
            /\ chunk' = [chunk EXCEPT ![t] = t]
            /\ after' = [after EXCEPT ![t] = "chunk"]
            /\ Goto(t, "barrier")
       ELSE Goto(t, "computed") /\ UNCHANGED <<current_chunk, chunk, after>>
    /\ UNCHANGED <<caller, shared, result, barrier, waiting, node, nth, locked>>

MoreChunks(t) == chunk[t] < NChunks(nth[t], node[t])

ComputeChunk(t) ==
    /\ pc[t] = "chunk" /\ MoreChunks(t)
    /\ computed' = computed \cup {<<node[t], <<"chunk", chunk[t]>>>>}
    /\ Goto(t, IF nth[t] >= NChunks(nth[t], node[t]) THEN "computed" ELSE "grab")
    /\ UNCHANGED <<caller, shared, result, barrier, waiting, node, nth, chunk, current_chunk,
                   locked, after>>

GrabChunk(t) ==
    /\ pc[t] = "grab"
    /\ chunk' = [chunk EXCEPT ![t] = current_chunk]
    /\ current_chunk' = current_chunk + 1
    /\ Goto(t, "chunk")
    /\ UNCHANGED <<caller, shared, result, barrier, waiting, node, nth, computed, locked, after>>

NoMoreChunks(t) ==
    /\ pc[t] = "chunk" /\ ~MoreChunks(t)
    /\ Goto(t, "computed")
    /\ UNCHANGED <<caller, shared, result, barrier, waiting, work, locked, after>>

\* Fault: no barrier between two nodes.
NodeDone_NoBarrier(t) ==
    /\ pc[t] = "computed"
    /\ \/ UNCHANGED <<abort, ec>>
       \/ t = 0 /\ abort' = node[t] + 1 /\ ec' = "ABORTED"
    /\ node' = [node EXCEPT ![t] = @ + 1]
    /\ chunk' = [chunk EXCEPT ![t] = 0]
    /\ Goto(t, "next")
    /\ UNCHANGED <<caller, shared, cgraph, barrier, waiting, nth, current_chunk, computed, locked,
                   after>>

\* Fault: the node that was just computed is the one that the loop stops at.
NodeDone_AbortHere(t) ==
    /\ pc[t] = "computed"
    /\ \/ UNCHANGED <<abort, ec>>
       \/ t = 0 /\ abort' = node[t] /\ ec' = "ABORTED"
    /\ node' = [node EXCEPT ![t] = @ + 1]
    /\ chunk' = [chunk EXCEPT ![t] = 0]
    /\ IF node[t] + 1 < Len(cgraph)
       THEN after' = [after EXCEPT ![t] = "next"] /\ Goto(t, "barrier")
       ELSE UNCHANGED after /\ Goto(t, "next")
    /\ UNCHANGED <<caller, shared, cgraph, barrier, waiting, nth, current_chunk, computed, locked>>

\* The abort callback is asked by thread 0 after each node.
NodeDone(t) ==
    /\ pc[t] = "computed"
    /\ \/ UNCHANGED <<abort, ec>>
       \/ t = 0 /\ abort' = node[t] + 1 /\ ec' = "ABORTED"
    /\ node' = [node EXCEPT ![t] = @ + 1]
    /\ chunk' = [chunk EXCEPT ![t] = 0]
    /\ IF node[t] + 1 < Len(cgraph)
       THEN after' = [after EXCEPT ![t] = "next"] /\ Goto(t, "barrier")
       ELSE UNCHANGED after /\ Goto(t, "next")
    /\ UNCHANGED <<caller, shared, cgraph, barrier, waiting, nth, current_chunk, computed, locked>>

\* Fault: no barrier after the last node.
Leave_NoBarrier(t) ==
    /\ pc[t] = "next" /\ ~AtNode(t)
    /\ node' = [node EXCEPT ![t] = 0]
    /\ nth' = [nth EXCEPT ![t] = 0]
    /\ Goto(t, IF t = 0 THEN "return" ELSE "top")
    /\ UNCHANGED <<caller, shared, result, barrier, waiting, chunk, current_chunk, computed, locked,
                   after>>

\* The loop ends, and so do the thread's locals after the last barrier.
Leave(t) ==
    /\ pc[t] = "next" /\ ~AtNode(t)
    /\ node' = [node EXCEPT ![t] = 0]
    /\ nth' = [nth EXCEPT ![t] = 0]
    /\ after' = [after EXCEPT ![t] = IF t = 0 THEN "return" ELSE "top"]
    /\ Goto(t, "barrier")
    /\ UNCHANGED <<caller, shared, result, barrier, waiting, chunk, current_chunk, computed, locked>>

-----------------------------------------------------------------------------
(* ggml_barrier.                                                           *)

EnterBarrier(t) ==
    /\ pc[t] = "barrier"
    /\ IF n_threads_cur = 1
       THEN UNCHANGED n_passed /\ Goto(t, after[t])
       ELSE n_passed' = [n_passed EXCEPT ![t] = n_barrier_passed] /\ Goto(t, "arrive")
    /\ UNCHANGED <<caller, shared, result, n_barrier, n_barrier_passed, arrived, waiting, work,
                   locked, after>>

\* Fault: the barrier opens one thread early.
Arrive_Early(t) ==
    /\ pc[t] = "arrive"
    /\ n_barrier' = n_barrier + 1
    /\ arrived' = [arrived EXCEPT ![t] = @ + 1]
    /\ Goto(t, IF n_barrier + 1 >= n_threads_cur - 1 THEN "last" ELSE "spin")
    /\ UNCHANGED <<caller, shared, result, n_barrier_passed, n_passed, waiting, work,
                   locked, after>>

Arrive(t) ==
    /\ pc[t] = "arrive"
    /\ n_barrier' = n_barrier + 1
    /\ arrived' = [arrived EXCEPT ![t] = @ + 1]
    /\ Goto(t, IF n_barrier = n_threads_cur - 1 THEN "last" ELSE "spin")
    /\ UNCHANGED <<caller, shared, result, n_barrier_passed, n_passed, waiting, work,
                   locked, after>>

ResetBarrier(t) ==
    /\ pc[t] = "last"
    /\ n_barrier' = 0
    /\ Goto(t, "release")
    /\ UNCHANGED <<caller, shared, result, n_barrier_passed, n_passed, arrived, waiting, work,
                   locked, after>>

ReleaseBarrier(t) ==
    /\ pc[t] = "release"
    /\ n_barrier_passed' = n_barrier_passed + 1
    /\ Goto(t, after[t])
    /\ UNCHANGED <<caller, shared, result, n_barrier, n_passed, arrived, waiting, work,
                   locked, after>>

Spin(t) ==
    /\ pc[t] = "spin" /\ n_barrier_passed # n_passed[t]
    /\ Goto(t, after[t])
    /\ UNCHANGED <<caller, shared, result, barrier, waiting, work, locked, after>>

-----------------------------------------------------------------------------
Calls ==
    \/ \E paused \in BOOLEAN : ThreadpoolNew(paused)
    \/ \E g \in Graphs : GraphComputeDisposable(g) \/ GraphCompute(g)
    \/ Pause \/ Resume \/ ThreadpoolFree

InCall == Kickoff \/ Announce \/ Broadcast \/ Returned \/ FreeBroadcast \/ Join

Wait(t) ==
    \/ Top(t) \/ PauseWait(t) \/ StopCheck(t) \/ PollForWork(t)
    \/ ReadyFlags(t) \/ ReadyGraph(t) \/ ReadyActive(t)
    \/ PollAgain(t) \/ PollEnds(t) \/ CheckForWork(t)

Compute(t) ==
    \/ Enter(t) \/ Share(t) \/ ComputeChunk(t) \/ GrabChunk(t) \/ NoMoreChunks(t)
    \/ NodeDone(t) \/ Leave(t)

Barrier(t) ==
    \/ EnterBarrier(t) \/ Arrive(t) \/ ResetBarrier(t) \/ ReleaseBarrier(t) \/ Spin(t)

Next ==
    \/ Calls \/ InCall
    \/ \E t \in Workers : Wait(t)
    \/ \E t \in Threads : Compute(t) \/ Barrier(t)

\* Every thread is scheduled, a poll has a last round (n_rounds), and a call
\* that is being made goes on.  Nobody has to call.
Fairness ==
    /\ WF_vars(InCall) /\ WF_vars(pc[0] = "free" /\ ThreadpoolFree)
    /\ \A t \in Workers : WF_vars(Wait(t)) /\ SF_vars(PollEnds(t))
    /\ \A t \in Threads : WF_vars(Compute(t) \/ Barrier(t))

Spec == Init /\ [][Next]_vars /\ Fairness

-----------------------------------------------------------------------------
CallerPcs == {"idle", "kickoff", "announce", "broadcast", "return", "free", "unpause", "join"}
WaitPcs == {"none", "exited", "top", "paused", "stopcheck", "poll", "polling", "ready",
            "active", "notready", "lock"}
ComputePcs == {"enter", "next", "chunk", "grab", "computed"}
BarrierPcs == {"barrier", "arrive", "last", "release", "spin"}

\* Only thread 0 calls, and only the workers wait for graphs.
PcTypeOK ==
    /\ pc \in [Threads -> CallerPcs \cup WaitPcs \cup ComputePcs \cup BarrierPcs]
    /\ pc[0] \notin WaitPcs
    /\ \A t \in Workers : pc[t] \notin CallerPcs

\* The state of the pool and of its threads is well formed.
TypeOK ==
    /\ plan \in Plans /\ submitted \in 0..MaxGraphs
    /\ pool \in {"none", "disposable", "persistent"}
    /\ n_threads_max \in 0..NThreads /\ n_threads_cur \in 0..n_threads_max
    /\ n_graph \in Nat /\ n_barrier \in Nat /\ n_barrier_passed \in Nat
    /\ current_chunk \in Nat
    /\ stop \in BOOLEAN /\ pause \in BOOLEAN /\ locked \in BOOLEAN
    /\ abort \in Int /\ ec \in {"SUCCESS", "ABORTED"}
    /\ cgraph \in Seq(Nat)
    /\ asleep \subseteq Workers
    /\ PcTypeOK
    /\ node \in [Threads -> Nat] /\ nth \in [Threads -> Nat] /\ chunk \in [Threads -> Nat]
    /\ n_passed \in [Threads -> Nat] /\ arrived \in [Threads -> Nat]
    /\ after \in [Threads -> {"next", "chunk", "return", "top"}]
    /\ last_graph \in [Threads -> Nat] /\ new_graph \in [Threads -> Nat]

\* Inside ggml_graph_compute_thread, and not only about to leave its last barrier.
Busy(t) ==
    \/ pc[t] \in ComputePcs \cup (BarrierPcs \ {"spin"})
    \/ pc[t] = "spin" /\ (n_barrier_passed = n_passed[t] \/ after[t] \in {"next", "chunk"})

\* While the caller is outside of the computation, where it resets the graph,
\* the chunk counter and abort and reads ec ("No worker threads should be
\* accessing the parameters below at this stage", ggml_graph_compute), no
\* worker is inside of it.
ResetAlone == pc[0] \in CallerPcs \ {"broadcast"} => \A t \in Workers : ~Busy(t)

\* A thread that works on a node finds all parts of the earlier nodes
\* computed, and one that computes chunks finds all of src1 converted.
NodesInOrder ==
    \A t \in Team :
        (pc[t] \in {"chunk", "grab", "computed"} \/ (pc[t] = "next" /\ AtNode(t))) =>
            /\ \A k \in 0..(node[t] - 1) : Parts(nth[t], k) \subseteq computed
            /\ pc[t] \in {"chunk", "grab"} => ({node[t]} \X Shares(nth[t])) \subseteq computed

\* A graph that succeeds has every part of every node computed; one that is
\* aborted has every part of the nodes up to the one it was aborted at, and
\* no part of a later one.
ReturnMeansComputed ==
    pc[0] = "return" =>
        LET last == IF ec = "ABORTED" THEN abort ELSE Len(cgraph)
        IN  computed = UNION {Parts(n_threads_cur, k) : k \in 0..(last - 1)}

Computes(t) ==
    \/ pc[t] = "next" /\ AtNode(t)
    \/ pc[t] = "chunk" /\ MoreChunks(t)

\* No part of a node is computed twice: the threads share out the work.
EachPartOnce ==
    [][\A t \in Threads : Computes(t) /\ pc'[t] # pc[t] => computed' # computed]_vars

\* A worker sleeps only while there is nothing for it to do, or while the
\* caller that has something is about to wake it.
SleepersHaveNoWork ==
    \A t \in asleep :
        \/ pc[0] \in {"announce", "broadcast", "unpause"}
        \/ ~stop /\ (pause \/ last_graph[t] = n_graph)

\* The threads of a graph go through its phases together.
Phases == INSTANCE Lockstep WITH team <- Team
PhasesInLockstep == Phases!LockstepSpec

\* Every graph that is submitted comes back, with all its threads, and freeing
\* the pool ends: each worker, asleep, paused or polling, exits.
CallsReturn ==
    /\ pc[0] = "kickoff" ~> pc[0] = "return"
    /\ pc[0] = "unpause" ~> pc[0] = "idle"
=============================================================================
