------------------------- MODULE AndroidTranscriber -------------------------
(***************************************************************************)
(* The Android transcription pipeline: TranscribeViewModel, the streams    *)
(* and the close() of WhisperEngine (TranscriberEngine.android.kt), and    *)
(* the transcription service they share.  The service is used through its  *)
(* abstract specification, which WhisperContext implements.                *)
(*                                                                         *)
(* Actors: the main thread (one step per event or posted task), one loop   *)
(* coroutine per stream on Dispatchers.Default, one coroutine per press of *)
(* the stop-and-transcribe button, and the service's executor.             *)
(***************************************************************************)
EXTENDS Naturals, Sequences, FiniteSets

CONSTANTS
    ViewModels,      \* the view models the screen gets, one per composition
    Streams,         \* the streams that startStreaming creates
    Jobs,            \* the coroutines that stopAndTranscribe launches
    None,            \* no view model, no stream, no job
    MaxPartials,     \* bound: partials that one stream reports
    ViewModelStore   \* whether a ViewModelStore clears a view model that is
                     \* left; the app gets it with getKoin().get(): FALSE

ASSUME ActorsAssumption ==
    /\ Streams \cap Jobs = {} /\ (Streams \cup Jobs) \cap ViewModels = {}
    /\ None \notin Streams \cup Jobs \cup ViewModels
ASSUME BoundsAssumption == MaxPartials \in Nat /\ ViewModelStore \in BOOLEAN

VARIABLES
    open, waiting, asked, answer,   \* the service (TranscriberService)
    ctx,            \* WhisperEngine.ctx is not null
    screen,         \* the view model of the screen that is shown, if any
    created,        \* the view models that exist
    handle,         \* TranscribeViewModel.handle
    scopes,         \* the view models whose coroutine scope is not cancelled
    closing,        \* the view model whose onCleared blocks the main thread
    owner,          \* the view model that started a stream
    loop,           \* where the loop of a stream is
    stopped,        \* streams whose stopImpl has run: job and recorder
    reported,       \* partials a stream has passed to onPartial
    late,           \* those it has passed on after it was stopped
    mainQueue,      \* emissions that onPartial has posted to the main thread
    live,           \* the flow _live of each view model
    job,            \* where the coroutine of a stop-and-transcribe is
    jobOwner,       \* the view model that launched it
    transcription,  \* the flow _transcription of each view model
    crashed         \* an exception nobody catches has ended the process

service == <<open, waiting, asked, answer>>
screens == <<screen, created, handle, scopes, closing>>
streams == <<owner, loop, stopped, reported, late>>
jobs == <<job, jobOwner, transcription>>
vars == <<service, ctx, screens, streams, mainQueue, live, jobs, crashed>>

Callers == Streams \cup Jobs

TS == INSTANCE TranscriberService WITH
          Closers <- ViewModels, MaxSegments <- 1, Tags <- {0}

\* A call of transcribeData.  Audio without speech is answered like audio with
\* speech on which the model fails: with no text.
Asks(c) == TS!Ask(c) /\ asked'[c].speech = 1

Init ==
    /\ TS!TSInit
    /\ ctx = TRUE /\ crashed = FALSE
    /\ screen = None /\ created = {} /\ scopes = {} /\ closing = None
    /\ handle = [v \in ViewModels |-> None]
    /\ owner = [s \in Streams |-> None]
    /\ loop = [s \in Streams |-> "unborn"]
    /\ stopped = {}
    /\ reported = [s \in Streams |-> 0]
    /\ late = [s \in Streams |-> 0]
    /\ mainQueue = <<>>
    /\ live = [v \in ViewModels |-> [stream |-> None, n |-> 0]]
    /\ job = [j \in Jobs |-> "none"]
    /\ jobOwner = [j \in Jobs |-> None]
    /\ transcription = [v \in ViewModels |-> None]

MicOn(s) == loop[s] # "unborn" /\ s \notin stopped

-----------------------------------------------------------------------------
\* The main thread.  It is blocked while close() waits for release.

MainFree == closing = None

\* The screen is composed: Koin's factory makes a new view model.
EnterScreen(v) ==
    /\ MainFree /\ screen = None /\ v \notin created
    /\ screen' = v
    /\ created' = created \cup {v}
    /\ scopes' = scopes \cup {v}
    /\ UNCHANGED <<service, ctx, handle, closing, streams, mainQueue, live,
                   jobs, crashed>>

\* handle?.stop(); handle = null
StopHandle(v) ==
    /\ stopped' = stopped \cup ({handle[v]} \ {None})
    /\ handle' = [handle EXCEPT ![v] = None]

\* onCleared: stop the stream, close the engine, cancel the scope.  close()
\* does nothing the second time; the first time it waits for release.
OnCleared(v) ==
    /\ StopHandle(v)
    /\ IF ctx
       THEN TS!AskToClose(v) /\ ctx' = FALSE /\ closing' = v /\ scopes' = scopes
       ELSE UNCHANGED <<service, ctx, closing>> /\ scopes' = scopes \ {v}

\* The screen is left.  As the app is wired nobody clears the view model.
LeaveScreen ==
    /\ MainFree /\ screen # None
    /\ screen' = None
    /\ IF ViewModelStore
       THEN OnCleared(screen)
       ELSE UNCHANGED <<service, ctx, handle, scopes, closing, stopped>>
    /\ UNCHANGED <<created, owner, loop, reported, late, mainQueue, live, jobs,
                   crashed>>

\* Fault: close() first joins the emissions that wait for the main thread.
CloseReturns_Joins(v) ==
    /\ closing = v /\ ~TS!IsWaiting(v) /\ mainQueue = <<>>
    /\ closing' = None
    /\ scopes' = scopes \ {v}
    /\ UNCHANGED <<service, ctx, screen, created, handle, streams, mainQueue,
                   live, jobs, crashed>>

\* release has returned: close() returns and the scope is cancelled.
CloseReturns(v) ==
    /\ closing = v /\ ~TS!IsWaiting(v)
    /\ closing' = None
    /\ scopes' = scopes \ {v}
    /\ UNCHANGED <<service, ctx, screen, created, handle, streams, mainQueue,
                   live, jobs, crashed>>

\* Fault: no look at handle?.isActive.
StartStreaming_Again(v, s) ==
    /\ MainFree /\ screen = v /\ loop[s] = "unborn"
    /\ IF ctx
       THEN /\ handle' = [handle EXCEPT ![v] = s]
            /\ owner' = [owner EXCEPT ![s] = v]
            /\ loop' = [loop EXCEPT ![s] = "listening"]
            /\ crashed' = crashed
       ELSE crashed' = TRUE /\ UNCHANGED <<handle, owner, loop>>
    /\ UNCHANGED <<service, ctx, screen, created, scopes, closing, stopped,
                   reported, late, mainQueue, live, jobs>>

\* The Start button: nothing while a stream is active; requireNotNull(ctx)
\* throws in the click handler once the engine is closed.
StartStreaming(v, s) ==
    /\ MainFree /\ screen = v /\ handle[v] = None /\ loop[s] = "unborn"
    /\ IF ctx
       THEN /\ handle' = [handle EXCEPT ![v] = s]
            /\ owner' = [owner EXCEPT ![s] = v]
            /\ loop' = [loop EXCEPT ![s] = "listening"]
            /\ crashed' = crashed
       ELSE crashed' = TRUE /\ UNCHANGED <<handle, owner, loop>>
    /\ UNCHANGED <<service, ctx, screen, created, scopes, closing, stopped,
                   reported, late, mainQueue, live, jobs>>

\* Fault: the Stop button closes the engine, too.
StopStreaming_Closes(v) ==
    /\ MainFree /\ screen = v /\ handle[v] # None
    /\ OnCleared(v)
    /\ UNCHANGED <<screen, created, owner, loop,
                   reported, late, mainQueue, live, jobs, crashed>>

\* The Stop button: job.cancel(), recorder.stop(), recorder.release().
StopStreaming(v) ==
    /\ MainFree /\ screen = v /\ handle[v] # None
    /\ StopHandle(v)
    /\ UNCHANGED <<service, ctx, screen, created, scopes, closing, owner, loop,
                   reported, late, mainQueue, live, jobs, crashed>>

\* Fault: emissions run on a pool, in any order.
EmitLive_AnyOrder ==
    /\ MainFree
    /\ \E i \in 1..Len(mainQueue) : LET e == mainQueue[i] IN
          /\ live' = [live EXCEPT ![e.vm] = [stream |-> e.stream, n |-> e.n]]
          /\ mainQueue' = SubSeq(mainQueue, 1, i - 1)
                          \o SubSeq(mainQueue, i + 1, Len(mainQueue))
    /\ UNCHANGED <<service, ctx, screens, streams, jobs, crashed>>

\* The oldest posted emission runs, unless its scope has been cancelled.
EmitLive ==
    /\ MainFree /\ mainQueue # <<>>
    /\ LET e == Head(mainQueue) IN
          live' = IF e.vm \in scopes
                  THEN [live EXCEPT ![e.vm] = [stream |-> e.stream, n |-> e.n]]
                  ELSE live
    /\ mainQueue' = Tail(mainQueue)
    /\ UNCHANGED <<service, ctx, screens, streams, jobs, crashed>>

\* The other Stop button launches a coroutine, which waits for the recorder.
StopAndTranscribe(v, j) ==
    /\ MainFree /\ screen = v /\ job[j] = "none"
    /\ job' = [job EXCEPT ![j] = "recorder"]
    /\ jobOwner' = [jobOwner EXCEPT ![j] = v]
    /\ UNCHANGED <<service, ctx, screens, streams, mainQueue, live,
                   transcription, crashed>>

-----------------------------------------------------------------------------
\* The coroutine of a stop-and-transcribe.  It catches every Throwable.

JobEnds(j) == job' = [job EXCEPT ![j] = "ended"]

\* recorder.stop() has returned or thrown; engine.transcribe takes ctx and
\* decodes the file, which may fail too.
JobEnters(j) ==
    /\ job[j] = "recorder"
    /\ \/ JobEnds(j)
       \/ /\ ctx /\ jobOwner[j] \in scopes
          /\ job' = [job EXCEPT ![j] = "decoded"]
    /\ UNCHANGED <<service, ctx, screens, streams, mainQueue, live, jobOwner,
                   transcription, crashed>>

\* c.transcribeData, on the context that was taken before the decoding.
JobAsks(j) ==
    /\ job[j] = "decoded"
    /\ Asks(j)
    /\ job' = [job EXCEPT ![j] = "asked"]
    /\ UNCHANGED <<ctx, screens, streams, mainQueue, live, jobOwner,
                   transcription, crashed>>

\* The answer is emitted on the main thread; a refusal, or the cancellation
\* of the scope, is swallowed.
JobResumes(j) ==
    /\ MainFree /\ job[j] = "asked" /\ TS!Take(j)
    /\ JobEnds(j)
    /\ LET v == jobOwner[j] IN
          transcription' = IF v \in scopes /\ TS!Refused \notin answer[j]
                           THEN [transcription EXCEPT ![v] = j]
                           ELSE transcription
    /\ UNCHANGED <<ctx, screens, streams, mainQueue, live, jobOwner, crashed>>

-----------------------------------------------------------------------------
\* The loop of a stream: `while (isActive)` reads NonCancellable.isActive,
\* which is always true, so that only an exception ends it.

\* Fault: after release AudioRecord.read blocks for ever.
Tick_Blocks(s) ==
    /\ loop[s] = "listening" /\ s \notin stopped
    /\ Asks(s)
    /\ loop' = [loop EXCEPT ![s] = "asked"]
    /\ UNCHANGED <<ctx, screens, owner, stopped, reported, late, mainQueue,
                   live, jobs, crashed>>

\* intervalMs has passed: snapshot the window and call transcribeData.  A
\* cancelled job does not prevent the call from being queued.
Tick(s) ==
    /\ loop[s] = "listening"
    /\ Asks(s)
    /\ loop' = [loop EXCEPT ![s] = "asked"]
    /\ UNCHANGED <<ctx, screens, owner, stopped, reported, late, mainQueue,
                   live, jobs, crashed>>

\* Fault: the call cannot be cancelled (withContext(NonCancellable)).
Resume_NonCancellable(s) ==
    /\ loop[s] = "asked" /\ TS!Take(s)
    /\ \E a \in answer[s] :
          /\ crashed' = (a = TS!Refused)
          /\ loop' = [loop EXCEPT ![s] = IF a = TS!Refused THEN "ended"
                                        ELSE IF a.text = <<>> THEN "listening"
                                        ELSE "resumed"]
    /\ UNCHANGED <<ctx, screens, owner, stopped, reported, late, mainQueue,
                   live, jobs>>

\* The call returns.  A refusal is thrown into the loop and nobody catches
\* it; a text resumes the loop unless its job has been cancelled.
Resume(s) ==
    /\ loop[s] = "asked" /\ TS!Take(s)
    /\ \E a \in answer[s] :
          /\ crashed' = (a = TS!Refused)
          /\ loop' = [loop EXCEPT ![s] =
                         IF a = TS!Refused \/ s \in stopped THEN "ended"
                         ELSE IF a.text = <<>> THEN "listening" ELSE "resumed"]
    /\ UNCHANGED <<ctx, screens, owner, stopped, reported, late, mainQueue,
                   live, jobs>>

\* text != lastText: onPartial posts the emission to the main thread.  The
\* first text always differs from the empty one, a later one may or may not.
Report(s) ==
    /\ loop[s] = "resumed" /\ reported[s] < MaxPartials
    /\ loop' = [loop EXCEPT ![s] = "listening"]
    /\ reported' = [reported EXCEPT ![s] = @ + 1]
    /\ late' = [late EXCEPT ![s] = IF s \in stopped THEN @ + 1 ELSE @]
    /\ mainQueue' = Append(mainQueue,
                        [vm |-> owner[s], stream |-> s, n |-> reported'[s]])
    /\ UNCHANGED <<service, ctx, screens, owner, stopped, live, jobs, crashed>>

SameText(s) ==
    /\ loop[s] = "resumed" /\ reported[s] > 0
    /\ loop' = [loop EXCEPT ![s] = "listening"]
    /\ UNCHANGED <<service, ctx, screens, owner, stopped, reported, late,
                   mainQueue, live, jobs, crashed>>

-----------------------------------------------------------------------------
\* The executor serves the oldest call or release.
Serve ==
    /\ TS!ServeAny
    /\ UNCHANGED <<ctx, screens, streams, mainQueue, live, jobs, crashed>>

MainStep == EmitLive \/ (\E v \in ViewModels : CloseReturns(v))
                     \/ (\E j \in Jobs : JobResumes(j))

UserStep ==
    \/ LeaveScreen
    \/ \E v \in ViewModels :
          \/ EnterScreen(v) \/ StopStreaming(v)
          \/ \E s \in Streams : StartStreaming(v, s)
          \/ \E j \in Jobs : StopAndTranscribe(v, j)

StreamStep(s) == Tick(s) \/ Resume(s) \/ Report(s) \/ SameText(s)

JobStep(j) == JobEnters(j) \/ JobAsks(j)

Next == ~crashed /\ (\/ UserStep \/ MainStep \/ Serve
                     \/ \E s \in Streams : StreamStep(s)
                     \/ \E j \in Jobs : JobStep(j))

\* Threads run what they have to run: the executor, the main thread's queue,
\* the pool threads of loops and jobs.  AudioRecord.read always returns (with
\* an error code once the recorder is released), so every loop gets to its
\* next tick.  The user is free to do nothing.
Fairness ==
    /\ WF_vars(~crashed /\ Serve)
    /\ WF_vars(~crashed /\ EmitLive)
    /\ \A v \in ViewModels : WF_vars(~crashed /\ CloseReturns(v))
    /\ \A s \in Streams : WF_vars(~crashed /\ StreamStep(s))
    /\ \A j \in Jobs : WF_vars(~crashed /\ (JobStep(j) \/ JobResumes(j)))

Spec == Init /\ [][Next]_vars /\ Fairness

-----------------------------------------------------------------------------
TypeOK ==
    /\ ctx \in BOOLEAN /\ crashed \in BOOLEAN
    /\ {screen, closing} \subseteq ViewModels \cup {None}
    /\ created \subseteq ViewModels /\ scopes \subseteq created
    /\ handle \in [ViewModels -> Streams \cup {None}]
    /\ owner \in [Streams -> ViewModels \cup {None}]
    /\ loop \in [Streams -> {"unborn", "listening", "asked", "resumed", "ended"}]
    /\ stopped \subseteq Streams
    /\ reported \in [Streams -> 0..MaxPartials] /\ late \in [Streams -> 0..MaxPartials]
    /\ \A i \in DOMAIN mainQueue :
          mainQueue[i] \in [vm : ViewModels, stream : Streams, n : 1..MaxPartials]
    /\ live \in [ViewModels -> [stream : Streams \cup {None}, n : 0..MaxPartials]]
    /\ job \in [Jobs -> {"none", "recorder", "decoded", "asked", "ended"}]
    /\ jobOwner \in [Jobs -> ViewModels \cup {None}]
    /\ transcription \in [ViewModels -> Jobs \cup {None}]

\* Every microphone that is on has a view model that holds its handle:
\* startStreaming never overwrites the handle of an active stream
\* (MainScreenViewModel.kt:61).
MicHasHandle == \A s \in Streams : MicOn(s) => \E v \in ViewModels : handle[v] = s

\* The handle is one the user can reach: the view model that holds it is the
\* one of the screen.
MicCanBeStopped == \A s \in Streams : MicOn(s) => screen # None /\ handle[screen] = s

\* After stop() a stream reports at most once more: the loop may already be
\* past the resumption, but its next call only returns to be cancelled.
AtMostOneLatePartial == \A s \in Streams : late[s] <= 1

\* The whole keeps the contract of startStreaming, with one late partial.
PhaseBar ==
    [s \in Streams |->
        IF loop[s] = "unborn" THEN "unborn"
        ELSE IF s \notin stopped THEN "on"
        ELSE IF loop[s] = "ended" THEN "over" ELSE "stopped"]

Contract == INSTANCE StreamContract WITH
                phase <- PhaseBar, said <- reported, MaxLate <- 1

KeepsContract == Contract!SCSpec

\* Nothing is thrown that nobody catches: no loop finds its context released,
\* no button its engine closed.
NoCrash == ~crashed

\* The partials of a stream reach the screen in the order of their windows,
\* although a thread of the pool posts them and the main thread shows them.
LiveInOrder ==
    [][\A v \in ViewModels :
          live'[v] # live[v] /\ live'[v].stream = live[v].stream
              => live'[v].n > live[v].n]_vars

\* A stream that was stopped ends: its loop, which `isActive` does not end,
\* leaves at the call of its next tick and frees its thread.  So does a
\* stop-and-transcribe, with a result or without one.
WorkEnds ==
    /\ \A s \in Streams : s \in stopped ~> loop[s] = "ended" \/ crashed
    /\ \A j \in Jobs : job[j] = "recorder" ~> job[j] = "ended" \/ crashed

\* onCleared gives the main thread back: close() waits for release behind the
\* calls that are queued, and streams cannot keep it waiting.
CloseGivesBackMain == closing # None ~> closing = None \/ crashed

=============================================================================
