--------------------------- MODULE WhisperContext ---------------------------
(***************************************************************************)
(* lib/src/main/java/com/romeodev/lib/WhsiperContext.kt over jni.c: one    *)
(* native whisper_context, one single-thread executor.  transcribeData and *)
(* release only queue a task; the tasks run one after the other, and every *)
(* task works on the same native list of result segments and the same      *)
(* field `ptr`.                                                            *)
(*                                                                         *)
(* A caller is a coroutine with at most one call outstanding; it may call  *)
(* again.  A closer is a coroutine that releases the context once: the     *)
(* engine's close() or the finalizer.                                      *)
(***************************************************************************)
EXTENDS Naturals, Sequences, FiniteSets

CONSTANTS
    Callers,        \* coroutines that call transcribeData
    Closers,        \* coroutines that call release
    MaxSegments,    \* bound: segments of speech in one piece of audio
    DetectLanguage, \* params.detect_language; the JNI sets it (jni.c:179)
    NoAudio         \* the native list before the first inference

ASSUME CallersAssumption == Callers \cap Closers = {}
ASSUME SegmentsAssumption == MaxSegments \in Nat /\ DetectLanguage \in BOOLEAN

VARIABLES
    ptr,       \* the Kotlin field: 1 the context's address, 0 released
    frees,     \* calls of freeContext on that address
    tasks,     \* the executor's queue, oldest first
    pc,        \* where the call of each caller or closer is
    audio,     \* the audio of the caller's current call
    segments,  \* result_all of the native context: whose audio, how many
    rc,        \* what whisper_full returned for the caller: 0 or not
    count,     \* textCount of the caller's task
    text       \* the string the caller's task builds

wcVars == <<ptr, frees, tasks, pc, audio, segments, rc, count, text>>

Actors == Callers \cup Closers

\* A piece of audio: who submitted it, a tag that differs from that caller's
\* previous audio (a bit is enough), and how many segments of speech it holds.
Audios == [by : Callers, tag : {0, 1}, speech : 0..MaxSegments]

ASSUME NoAudioAssumption == NoAudio \notin Audios

Fresh(c) == {a \in Audios : a.by = c /\ a.tag # audio[c].tag}

Segment(a, i) == [audio |-> a, index |-> i]

Phases == {"idle", "queued", "inferring", "reading", "answered", "refused",
           "freeing", "released"}
OnThread == {"inferring", "reading", "freeing"}

-----------------------------------------------------------------------------
\* createContextFromFile: the context exists and has transcribed nothing.
WCInit ==
    /\ ptr = 1 /\ frees = 0 /\ tasks = <<>>
    /\ pc = [p \in Actors |-> "idle"]
    /\ audio = [c \in Callers |-> [by |-> c, tag |-> 0, speech |-> 0]]
    /\ segments = [audio |-> NoAudio, n |-> 0]
    /\ rc = [c \in Callers |-> 0]
    /\ count = [c \in Callers |-> 0]
    /\ text = [c \in Callers |-> <<>>]

\* withContext(scope.coroutineContext) of transcribeData: queue the task and
\* suspend the caller.
Submit(c) ==
    /\ pc[c] = "idle"
    /\ pc' = [pc EXCEPT ![c] = "queued"]
    /\ tasks' = Append(tasks, c)
    /\ \E a \in Fresh(c) : audio' = [audio EXCEPT ![c] = a]
    /\ UNCHANGED <<ptr, frees, segments, rc, count, text>>

\* The same for release.
SubmitRelease(r) ==
    /\ pc[r] = "idle"
    /\ pc' = [pc EXCEPT ![r] = "queued"]
    /\ tasks' = Append(tasks, r)
    /\ UNCHANGED <<ptr, frees, audio, segments, rc, count, text>>

\* Fault: a pool of threads instead of the single one.
ThreadFree_Pool == TRUE

\* newSingleThreadExecutor: a task starts when no other one is running.
ThreadFree == \A p \in Actors : pc[p] \notin OnThread

\* Fault: the newest task first.
Dequeue_Newest(p) ==
    /\ ThreadFree /\ tasks # <<>> /\ p = tasks[Len(tasks)]
    /\ tasks' = SubSeq(tasks, 1, Len(tasks) - 1)

\* The thread takes the oldest task, p's.
Dequeue(p) == ThreadFree /\ tasks # <<>> /\ p = Head(tasks) /\ tasks' = Tail(tasks)

\* Fault: the require is missing.
Begin_NoRequire(c) ==
    /\ Dequeue(c)
    /\ pc' = [pc EXCEPT ![c] = "inferring"]
    /\ UNCHANGED <<ptr, frees, audio, segments, rc, count, text>>

\* require(ptr != 0L): an IllegalArgumentException ends the call, or the
\* inference starts.
Begin(c) ==
    /\ Dequeue(c)
    /\ pc' = [pc EXCEPT ![c] = IF ptr # 0 THEN "inferring" ELSE "refused"]
    /\ UNCHANGED <<ptr, frees, audio, segments, rc, count, text>>

\* How many segments the native list holds after whisper_full has returned r.
\* A failed run has cleared it; with detect_language a successful run returns
\* as soon as the language is known.
SegmentsFound(c, r) == IF r # 0 \/ DetectLanguage THEN 0 ELSE audio[c].speech

\* fullTranscribe replaces result_all and drops the return code;
\* getTextSegmentCount reads the length of the list.
FullTranscribe(c) ==
    /\ pc[c] = "inferring"
    /\ \E r \in {0, 1} :
          /\ rc' = [rc EXCEPT ![c] = r]
          /\ segments' = [audio |-> audio[c], n |-> SegmentsFound(c, r)]
          /\ count' = [count EXCEPT ![c] = SegmentsFound(c, r)]
    /\ pc' = [pc EXCEPT ![c] = "reading"]
    /\ UNCHANGED <<ptr, frees, tasks, audio, text>>

\* One turn of `for (i in 0 until textCount)`: the native list as it is now.
AppendSegment(c) ==
    /\ pc[c] = "reading" /\ Len(text[c]) < count[c]
    /\ text' = [text EXCEPT ![c] =
                   Append(@, Segment(segments.audio, Len(text[c]) + 1))]
    /\ UNCHANGED <<ptr, frees, tasks, pc, audio, segments, rc, count>>

\* buildString is done: the task ends and its caller may resume.
Answer(c) ==
    /\ pc[c] = "reading" /\ Len(text[c]) = count[c]
    /\ pc' = [pc EXCEPT ![c] = "answered"]
    /\ UNCHANGED <<ptr, frees, tasks, audio, segments, rc, count, text>>

\* The caller resumes with the text or the exception and drops its audio.
Return(c) ==
    /\ pc[c] \in {"answered", "refused"}
    /\ pc' = [pc EXCEPT ![c] = "idle"]
    /\ rc' = [rc EXCEPT ![c] = 0]
    /\ count' = [count EXCEPT ![c] = 0]
    /\ text' = [text EXCEPT ![c] = <<>>]
    /\ audio' = [audio EXCEPT ![c].speech = 0]
    /\ UNCHANGED <<ptr, frees, tasks, segments>>

\* Fault: release frees the context at once, from the caller's thread.
BeginRelease_Inline(r) ==
    /\ pc[r] = "queued"
    /\ tasks' = SelectSeq(tasks, LAMBDA p : p # r)
    /\ IF ptr # 0
       THEN frees' = frees + 1 /\ pc' = [pc EXCEPT ![r] = "freeing"]
       ELSE frees' = frees     /\ pc' = [pc EXCEPT ![r] = "released"]
    /\ UNCHANGED <<ptr, audio, segments, rc, count, text>>

\* release's task: `if (ptr != 0L) freeContext(ptr)`, or nothing to do.
BeginRelease(r) ==
    /\ Dequeue(r)
    /\ IF ptr # 0
       THEN frees' = frees + 1 /\ pc' = [pc EXCEPT ![r] = "freeing"]
       ELSE frees' = frees     /\ pc' = [pc EXCEPT ![r] = "released"]
    /\ UNCHANGED <<ptr, audio, segments, rc, count, text>>

\* ... and then `ptr = 0`.
ClearPtr(r) ==
    /\ pc[r] = "freeing"
    /\ ptr' = 0
    /\ pc' = [pc EXCEPT ![r] = "released"]
    /\ UNCHANGED <<frees, tasks, audio, segments, rc, count, text>>

\* What the executor's thread does by itself.
Work ==
    \/ \E c \in Callers : \/ Begin(c) \/ FullTranscribe(c)
                          \/ AppendSegment(c) \/ Answer(c)
    \/ \E r \in Closers : BeginRelease(r) \/ ClearPtr(r)

WCNext ==
    \/ Work
    \/ \E c \in Callers : Submit(c) \/ Return(c)
    \/ \E r \in Closers : SubmitRelease(r)

\* The executor's thread runs whatever is queued; nothing obliges a coroutine
\* to call, to resume or to release.
WCSpec == WCInit /\ [][WCNext]_wcVars /\ WF_wcVars(Work)

-----------------------------------------------------------------------------
TypeOK ==
    /\ ptr \in {0, 1} /\ frees \in Nat
    /\ tasks \in Seq(Actors)
    /\ pc \in [Actors -> Phases]
    /\ audio \in [Callers -> Audios] /\ \A c \in Callers : audio[c].by = c
    /\ segments \in [audio : Audios \cup {NoAudio}, n : 0..MaxSegments]
    /\ rc \in [Callers -> {0, 1}]
    /\ count \in [Callers -> 0..MaxSegments]
    /\ text \in [Callers -> Seq([audio : Audios \cup {NoAudio}, index : Nat])]

\* The answer to a call is made of segments of the audio of that call, in
\* order and all of them, although every call reads them from the one list
\* that the next call overwrites (transcribeData, lines 23-36).
AnswerIsOwn ==
    \A c \in Callers :
        pc[c] = "answered" =>
            /\ Len(text[c]) = count[c]
            /\ \A i \in 1..count[c] : text[c][i] = Segment(audio[c], i)

\* No task works on the native context after freeContext, whenever close() or
\* the finalizer releases it (lines 39-43): release waits for its turn.  Both
\* may release, and the context is freed once.
NoUseAfterFree ==
    /\ frees <= 1
    /\ \A c \in Callers : pc[c] \in {"inferring", "reading"} => frees = 0

\* Audio that holds speech and on which whisper_full succeeded has a text: no
\* count or list of an earlier inference takes its place, and no early return
\* leaves it out.
SpeechIsTranscribed ==
    \A c \in Callers :
        pc[c] = "answered" /\ rc[c] = 0 /\ audio[c].speech > 0 => text[c] # <<>>

\* Each call of transcribeData that was queued ends, with a text or with the
\* refusal, whatever the other callers and closers keep queueing; and release
\* returns: close(), which blocks the main thread on it, comes back.
EveryCallSettles ==
    /\ \A c \in Callers : pc[c] = "queued" ~> pc[c] \in {"answered", "refused"}
    /\ \A r \in Closers : pc[r] = "queued" ~> pc[r] = "released"

\* transcribeData and release look indivisible and are served in the order of
\* the calls: the whole module implements TranscriberService.  The task on
\* the thread is the oldest one waiting; the context is open until ptr = 0.
OpenBar == ptr # 0

WaitingBar ==
    IF \E p \in Actors : pc[p] \in OnThread
    THEN <<CHOOSE p \in Actors : pc[p] \in OnThread>> \o tasks
    ELSE tasks

AnswerBar ==
    [c \in Callers |->
        IF pc[c] = "answered" THEN {[refused |-> FALSE, text |-> text[c]]}
        ELSE IF pc[c] = "refused" THEN {[refused |-> TRUE, text |-> <<>>]}
        ELSE {}]

Service == INSTANCE TranscriberService WITH
    open <- OpenBar, waiting <- WaitingBar, asked <- audio, answer <- AnswerBar,
    Tags <- {0, 1}

ImplementsService == Service!TSSpec

=============================================================================
