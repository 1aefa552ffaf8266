--------------------------- MODULE AndroidRecorder ---------------------------
(***************************************************************************)
(* Recording to a file on Android: the coroutines of the two buttons       *)
(* (MainScreenViewModel.kt), AndroidRecorder with its field outFile, the   *)
(* delegate Recorder with its single-thread executor, and one              *)
(* AudioRecordThread per start.                                            *)
(*                                                                         *)
(* The p-th press of Start makes the p-th output file and, when its task   *)
(* runs, the p-th thread; all three are named p.                           *)
(***************************************************************************)
EXTENDS Naturals, Sequences, FiniteSets

CONSTANT Presses  \* bound: how often each of the two buttons is pressed

ASSUME PressesAssumption == Presses \in Nat

VARIABLES
    outFile,   \* AndroidRecorder.outFile: the file of a start, 0 is null
    recorder,  \* Recorder.recorder: the thread of a start, 0 is null
    tasks,     \* the executor's queue of [kind, id]
    start,     \* the coroutine of each press of Start
    stop,      \* the coroutine of each press of Stop
    thread,    \* the AudioRecordThread of each start
    quit,      \* the threads whose flag quit is set
    file,      \* the output file of each start
    joined,    \* the thread that each stop has stopped, 0 for none
    result,    \* the file that each stop returns, 0 for an exception
    inTurns    \* history: Start and Stop have been pressed in turns so far

vars == <<outFile, recorder, tasks, start, stop, thread, quit, file, joined,
          result, inTurns>>

Ids == 1..Presses
NoneOr(S) == S \cup {0}

Init ==
    /\ outFile = 0 /\ recorder = 0 /\ tasks = <<>> /\ quit = {}
    /\ start = [p \in Ids |-> "none"] /\ stop = [q \in Ids |-> "none"]
    /\ thread = [p \in Ids |-> "none"] /\ file = [p \in Ids |-> "none"]
    /\ joined = [q \in Ids |-> 0] /\ result = [q \in Ids |-> 0]
    /\ inTurns = TRUE

Pressed(state) == {i \in Ids : state[i] # "none"}
Starts == Cardinality(Pressed(start))
Stops == Cardinality(Pressed(stop))

-----------------------------------------------------------------------------
\* startRecording: on the main thread a new file replaces outFile, then the
\* coroutine waits for its task on the executor.
PressStart ==
    /\ Starts < Presses
    /\ inTurns' = (inTurns /\ Starts = Stops)
    /\ LET p == Starts + 1 IN
          /\ outFile' = p
          /\ file' = [file EXCEPT ![p] = "empty"]
          /\ start' = [start EXCEPT ![p] = "queued"]
          /\ tasks' = Append(tasks, [kind |-> "start", id |-> p])
    /\ UNCHANGED <<recorder, stop, thread, quit, joined, result>>

\* stopAndTranscribe: the coroutine waits for its task on the executor.
PressStop ==
    /\ Stops < Presses
    /\ inTurns' = (inTurns /\ Starts = Stops + 1)
    /\ LET q == Stops + 1 IN
          /\ stop' = [stop EXCEPT ![q] = "queued"]
          /\ tasks' = Append(tasks, [kind |-> "stop", id |-> q])
    /\ UNCHANGED <<outFile, recorder, start, thread, quit, file, joined, result>>

\* The executor's thread is in join() for a stop.
Joining == \E q \in Ids : stop[q] = "joining"

\* The executor takes its oldest task.
Take(kind, i) ==
    /\ ~Joining /\ tasks # <<>> /\ Head(tasks) = [kind |-> kind, id |-> i]
    /\ tasks' = Tail(tasks)

\* The task of a start: a new thread replaces the field and is started.
RunStart(p) ==
    /\ Take("start", p)
    /\ recorder' = p
    /\ thread' = [thread EXCEPT ![p] = "recording"]
    /\ start' = [start EXCEPT ![p] = "done"]
    /\ UNCHANGED <<outFile, stop, quit, file, joined, result, inTurns>>

\* Fault: the flag is not set.
RunStop_NoQuit(q) ==
    /\ Take("stop", q)
    /\ joined' = [joined EXCEPT ![q] = recorder]
    /\ stop' = [stop EXCEPT ![q] = IF recorder = 0 THEN "resuming" ELSE "joining"]
    /\ UNCHANGED <<outFile, recorder, start, thread, quit, file, result, inTurns>>

\* Fault: no join.
RunStop_NoJoin(q) ==
    /\ Take("stop", q)
    /\ quit' = quit \cup ({recorder} \ {0})
    /\ joined' = [joined EXCEPT ![q] = recorder]
    /\ recorder' = 0
    /\ stop' = [stop EXCEPT ![q] = "resuming"]
    /\ UNCHANGED <<outFile, start, thread, file, result, inTurns>>

\* The task of a stop: set the thread's flag and wait for it; without a
\* thread there is nothing to do.
RunStop(q) ==
    /\ Take("stop", q)
    /\ quit' = quit \cup ({recorder} \ {0})
    /\ joined' = [joined EXCEPT ![q] = recorder]
    /\ stop' = [stop EXCEPT ![q] = IF recorder = 0 THEN "resuming" ELSE "joining"]
    /\ UNCHANGED <<outFile, recorder, start, thread, file, result, inTurns>>

\* Fault: join with a time-out.
Joined_TimesOut(q) ==
    /\ stop[q] = "joining"
    /\ recorder' = 0
    /\ stop' = [stop EXCEPT ![q] = "resuming"]
    /\ UNCHANGED <<outFile, tasks, start, thread, quit, file, joined, result, inTurns>>

\* join() returns and the field is cleared.
Joined(q) ==
    /\ stop[q] = "joining" /\ thread[joined[q]] = "finished"
    /\ recorder' = 0
    /\ stop' = [stop EXCEPT ![q] = "resuming"]
    /\ UNCHANGED <<outFile, tasks, start, thread, quit, file, joined, result, inTurns>>

\* The coroutine resumes on the main thread and only now reads outFile.
StopReturns(q) ==
    /\ stop[q] = "resuming"
    /\ result' = [result EXCEPT ![q] = outFile]
    /\ stop' = [stop EXCEPT ![q] = "done"]
    /\ UNCHANGED <<outFile, recorder, tasks, start, thread, quit, file, joined, inTurns>>

-----------------------------------------------------------------------------
\* The recording thread.

Finish(p) == thread' = [thread EXCEPT ![p] = "finished"]

\* The AudioRecord cannot be started, or read returns 0 or an error: onError
\* prints it and the file stays empty.
CaptureFails(p) ==
    /\ thread[p] = "recording"
    /\ Finish(p)
    /\ UNCHANGED <<outFile, recorder, tasks, start, stop, quit, file, joined, result, inTurns>>

\* `while (!quit.get())` ends; encodeWaveFile opens, and empties, the file.
SeesQuit(p) ==
    /\ thread[p] = "recording" /\ p \in quit
    /\ thread' = [thread EXCEPT ![p] = "encoding"]
    /\ UNCHANGED <<outFile, recorder, tasks, start, stop, quit, file, joined, result, inTurns>>

\* The samples are written, or headerBytes refuses so few of them.
Encode(p) ==
    /\ thread[p] = "encoding"
    /\ Finish(p)
    /\ \E f \in {"complete", "empty"} : file' = [file EXCEPT ![p] = f]
    /\ UNCHANGED <<outFile, recorder, tasks, start, stop, quit, joined, result, inTurns>>

-----------------------------------------------------------------------------
Executor == \E i \in Ids : RunStart(i) \/ RunStop(i) \/ Joined(i)
ThreadStep(p) == CaptureFails(p) \/ SeesQuit(p) \/ Encode(p)

Next ==
    \/ PressStart \/ PressStop \/ Executor
    \/ \E q \in Ids : StopReturns(q)
    \/ \E p \in Ids : ThreadStep(p)

\* The executor and the main thread run what is queued; read() returns, so a
\* recording thread gets to look at its flag, and encoding ends.
Fairness ==
    /\ WF_vars(Executor)
    /\ \A q \in Ids : WF_vars(StopReturns(q))
    /\ \A p \in Ids : WF_vars(SeesQuit(p)) /\ WF_vars(Encode(p))

Spec == Init /\ [][Next]_vars /\ Fairness

-----------------------------------------------------------------------------
TypeOK ==
    /\ {outFile, recorder} \subseteq NoneOr(Ids)
    /\ tasks \in Seq([kind : {"start", "stop"}, id : Ids])
    /\ start \in [Ids -> {"none", "queued", "done"}]
    /\ stop \in [Ids -> {"none", "queued", "joining", "resuming", "done"}]
    /\ thread \in [Ids -> {"none", "recording", "encoding", "finished"}]
    /\ quit \subseteq Ids
    /\ file \in [Ids -> {"none", "empty", "complete"}]
    /\ joined \in [Ids -> NoneOr(Ids)] /\ result \in [Ids -> NoneOr(Ids)]
    /\ inTurns \in BOOLEAN

\* A user who presses in turns, however fast, never has two threads on the
\* microphone: the next start waits on the executor behind join()
\* (Recorder.kt:23-33).  And the one that records can still be told to quit:
\* the field holds it, or its flag is already set.
AtMostOneCapture ==
    inTurns =>
        /\ Cardinality({p \in Ids : thread[p] \in {"recording", "encoding"}}) <= 1
        /\ \A p \in Ids : thread[p] = "recording" => p = recorder \/ p \in quit

\* A user who presses in turns gets from the q-th stop the file of the q-th
\* start, which this stop has ended and nobody writes any more, unless another
\* Start was pressed before the stop returned: outFile is read late
\* (AndroidRecorderImpl.kt:29-33).
StopReturnsItsRecording ==
    inTurns => \A q \in Ids :
        stop[q] = "done" =>
            /\ joined[q] = q /\ thread[q] = "finished"
            /\ result[q] = q \/ (result[q] > q /\ start[result[q]] # "none")

\* A stop returns a file only if there was a recording to stop; otherwise it
\* is refused: "Recorder no inicializado: llama a start() primero"
\* (AndroidRecorderImpl.kt:31).
StopHasRecording ==
    \A q \in Ids : stop[q] = "done" /\ result[q] # 0 => joined[q] # 0

\* Each press of Stop comes to an end whatever else is pressed: join() does
\* not wait for a thread that nobody has told to quit.
StopsReturn == \A q \in Ids : stop[q] = "queued" ~> stop[q] = "done"

=============================================================================
