------------------------------ MODULE IosStream ------------------------------
(***************************************************************************)
(* Live transcription on iOS: TranscribeViewModel over the streams and the *)
(* close() of TranscriberEngine.ios.kt.                                    *)
(*                                                                         *)
(* Actors: the main thread, whose run loop also delivers the AudioQueue's  *)
(* callbacks, and one loop coroutine per stream on Dispatchers.Default.    *)
(* stop() is a sequence of steps of the main thread, which does nothing    *)
(* else meanwhile; AudioQueueStop may still deliver a callback.            *)
(***************************************************************************)
EXTENDS Naturals, Sequences

CONSTANTS
    ViewModels,  \* the view models the screen gets, one per composition
    Streams,     \* the streams that startStreaming creates
    None,        \* no view model, no stream
    MaxPartials  \* bound: partials that one stream reports

ASSUME IosAssumption ==
    None \notin ViewModels \cup Streams /\ MaxPartials \in Nat

VARIABLES
    store,      \* whether a ViewModelStore clears a view model that is left
                \* (as the app is wired: no); it never changes
    open,       \* WhisperEngine.ctx is not null and not freed
    screen,     \* the view model of the screen that is shown, if any
    created,    \* the view models that exist
    handle,     \* TranscribeViewModel.handle
    scopes,     \* the view models whose coroutine scope is not cancelled
    main,       \* where the main thread is: "free" or in stop() or close()
    subject,    \* the stream it is stopping
    clearing,   \* the view model whose onCleared it is in
    owner,      \* the view model that started a stream
    loop,       \* where the loop of a stream is
    cancelled,  \* streams whose job is cancelled and whose holder is closed
    heard,      \* streams with samples in the ring: total > 0
    held,       \* what of native memory each stream has: the whisper state,
                \* the StableRef of its AQHolder, the queue with its buffers
    reported,   \* partials a stream has passed to onPartial
    mainQueue,  \* emissions that onPartial has posted to the main thread
    live,       \* the flow _live of each view model
    crashed     \* an exception nobody catches has ended the process

screens == <<store, open, screen, created, scopes>>
stopping == <<handle, main, subject, clearing>>
streams == <<owner, loop, cancelled, heard, held, reported>>
vars == <<screens, stopping, streams, mainQueue, live, crashed>>

Resources == {"state", "holder", "queue"}

Init ==
    /\ store \in BOOLEAN /\ open = TRUE /\ crashed = FALSE
    /\ screen = None /\ created = {} /\ scopes = {}
    /\ handle = [v \in ViewModels |-> None]
    /\ main = "free" /\ subject = None /\ clearing = None
    /\ owner = [s \in Streams |-> None]
    /\ loop = [s \in Streams |-> "unborn"]
    /\ cancelled = {} /\ heard = {}
    /\ held = [s \in Streams |-> {}]
    /\ reported = [s \in Streams |-> 0]
    /\ mainQueue = <<>>
    /\ live = [v \in ViewModels |-> [stream |-> None, n |-> 0]]

-----------------------------------------------------------------------------
\* The main thread.

\* The screen is composed: Koin's factory makes a new view model.
EnterScreen(v) ==
    /\ main = "free" /\ screen = None /\ v \notin created
    /\ screen' = v
    /\ created' = created \cup {v} /\ scopes' = scopes \cup {v}
    /\ UNCHANGED <<store, open, stopping, streams, mainQueue, live, crashed>>

\* Fault: the failure paths forget the whisper state.
StartStreaming_Leaks(v, s) ==
    /\ main = "free" /\ screen = v /\ handle[v] = None /\ loop[s] = "unborn"
    /\ \/ /\ open
          /\ handle' = [handle EXCEPT ![v] = s]
          /\ owner' = [owner EXCEPT ![s] = v]
          /\ loop' = [loop EXCEPT ![s] = "checking"]
          /\ held' = [held EXCEPT ![s] = Resources]
          /\ crashed' = crashed
       \/ /\ crashed' = TRUE
          /\ held' = [held EXCEPT ![s] = IF open THEN {"state"} ELSE {}]
          /\ UNCHANGED <<handle, owner, loop>>
    /\ UNCHANGED <<screens, main, subject, clearing, cancelled, heard, reported,
                   mainQueue, live>>

\* The Start button: the stream gets its native memory, its queue and its
\* loop; or the engine is closed or an allocation fails, all is given back and
\* the exception leaves the click handler.
StartStreaming(v, s) ==
    /\ main = "free" /\ screen = v /\ handle[v] = None /\ loop[s] = "unborn"
    /\ \/ /\ open
          /\ handle' = [handle EXCEPT ![v] = s]
          /\ owner' = [owner EXCEPT ![s] = v]
          /\ loop' = [loop EXCEPT ![s] = "checking"]
          /\ held' = [held EXCEPT ![s] = Resources]
          /\ crashed' = crashed
       \/ crashed' = TRUE /\ UNCHANGED <<handle, owner, loop, held>>
    /\ UNCHANGED <<screens, main, subject, clearing, cancelled, heard, reported,
                   mainQueue, live>>

\* The AudioQueue's callback on the run loop: samples for the ring.
Callback(s) ==
    /\ main = "free" /\ "queue" \in held[s] /\ s \notin cancelled
    /\ heard' = heard \cup {s}
    /\ UNCHANGED <<screens, stopping, owner, loop, cancelled, held, reported,
                   mainQueue, live, crashed>>

\* The oldest posted emission runs, unless its scope has been cancelled.
EmitLive ==
    /\ main = "free" /\ mainQueue # <<>>
    /\ LET e == Head(mainQueue) IN
          live' = IF e.vm \in scopes
                  THEN [live EXCEPT ![e.vm] = [stream |-> e.stream, n |-> e.n]]
                  ELSE live
    /\ mainQueue' = Tail(mainQueue)
    /\ UNCHANGED <<screens, stopping, streams, crashed>>

\* stopImpl begins: holder.closed = true, job.cancel(), and then job.join().
BeginStop(v) ==
    /\ subject' = handle[v] /\ main' = "joining"
    /\ cancelled' = cancelled \cup {handle[v]}

\* The Stop button.
StopStreaming(v) ==
    /\ main = "free" /\ screen = v /\ handle[v] # None
    /\ BeginStop(v)
    /\ UNCHANGED <<screens, handle, clearing, owner, loop, heard, held, reported,
                   mainQueue, live, crashed>>

\* The screen is left.  onCleared, if it is called, stops the stream and then
\* closes the engine.
LeaveScreen ==
    /\ main = "free" /\ screen # None
    /\ screen' = None
    /\ CASE ~store -> UNCHANGED <<main, subject, clearing, cancelled>>
         [] store /\ handle[screen] = None ->
               /\ main' = "closing" /\ clearing' = screen
               /\ UNCHANGED <<subject, cancelled>>
         [] store /\ handle[screen] # None ->
               BeginStop(screen) /\ clearing' = screen
    /\ UNCHANGED <<store, open, created, handle, scopes, owner, loop, heard, held,
                   reported, mainQueue, live, crashed>>

\* Fault: the wait for the loop has a time-out.
Joined_TimesOut ==
    /\ main = "joining"
    /\ main' = "halting"
    /\ UNCHANGED <<screens, handle, subject, clearing, streams, mainQueue, live,
                   crashed>>

\* The loop has ended, so that isProcessing is false, too.
Joined ==
    /\ main = "joining" /\ loop[subject] = "ended"
    /\ main' = "halting"
    /\ UNCHANGED <<screens, handle, subject, clearing, streams, mainQueue, live,
                   crashed>>

\* Fault: the StableRef is disposed of before the queue.
Halt_HolderFirst ==
    /\ main = "halting"
    /\ held' = [held EXCEPT ![subject] = @ \ {"holder"}]
    /\ main' = "disposing"
    /\ UNCHANGED <<screens, handle, subject, clearing, owner, loop, cancelled, heard,
                   reported, mainQueue, live, crashed>>

\* AudioQueueStop, AudioQueueFreeBuffer, AudioQueueDispose.
Halt ==
    /\ main = "halting"
    /\ held' = [held EXCEPT ![subject] = @ \ {"queue"}]
    /\ main' = "disposing"
    /\ UNCHANGED <<screens, handle, subject, clearing, owner, loop, cancelled, heard,
                   reported, mainQueue, live, crashed>>

\* holderRef.dispose(), whisper_free_state(state); stop() returns and the
\* view model sets its handle to null.
Dispose ==
    /\ main = "disposing"
    /\ held' = [held EXCEPT ![subject] = {}]
    /\ handle' = [v \in ViewModels |-> IF handle[v] = subject THEN None ELSE handle[v]]
    /\ subject' = None
    /\ main' = IF clearing = None THEN "free" ELSE "closing"
    /\ UNCHANGED <<screens, clearing, owner, loop, cancelled, heard, reported,
                   mainQueue, live, crashed>>

\* The rest of onCleared: whisper_free, ctx = null, scope.cancel().
Close ==
    /\ main = "closing"
    /\ open' = FALSE
    /\ scopes' = scopes \ {clearing}
    /\ main' = "free" /\ clearing' = None
    /\ UNCHANGED <<store, screen, created, handle, subject, streams, mainQueue, live,
                   crashed>>

-----------------------------------------------------------------------------
\* The loop of a stream.

Moves(s, from, to) == loop[s] = from /\ loop' = [loop EXCEPT ![s] = to]

\* `while (isActive)`, and `if (total <= 0)` wait.
Check(s) ==
    /\ Moves(s, "checking", IF s \in cancelled THEN "ended"
                            ELSE IF s \in heard THEN "inferring" ELSE "waiting")
    /\ UNCHANGED <<screens, stopping, owner, cancelled, heard, held, reported,
                   mainQueue, live, crashed>>

\* The window is copied; whisper_full_with_state fails, finds nothing to say,
\* or finds the one segment of single_segment.
Infer(s) ==
    /\ \/ Moves(s, "inferring", "waiting")
       \/ Moves(s, "inferring", "reporting") /\ reported[s] < MaxPartials
    /\ UNCHANGED <<screens, stopping, owner, cancelled, heard, held, reported,
                   mainQueue, live, crashed>>

\* Fault: onPartial runs on the main thread and is waited for.
Report_OnMain(s) ==
    /\ Moves(s, "reporting", "waiting")
    /\ main = "free"
    /\ reported' = [reported EXCEPT ![s] = @ + 1]
    /\ live' = [live EXCEPT ![owner[s]] = [stream |-> s, n |-> reported'[s]]]
    /\ UNCHANGED <<screens, stopping, owner, cancelled, heard, held, mainQueue, crashed>>

\* onPartial posts the emission to the main thread.
Report(s) ==
    /\ Moves(s, "reporting", "waiting")
    /\ reported' = [reported EXCEPT ![s] = @ + 1]
    /\ mainQueue' = Append(mainQueue,
                        [vm |-> owner[s], stream |-> s, n |-> reported'[s]])
    /\ UNCHANGED <<screens, stopping, owner, cancelled, heard, held, live, crashed>>

\* delay(intervalMs), which a cancellation ends at once.
Wait(s) ==
    /\ Moves(s, "waiting", IF s \in cancelled THEN "ended" ELSE "checking")
    /\ UNCHANGED <<screens, stopping, owner, cancelled, heard, held, reported,
                   mainQueue, live, crashed>>

-----------------------------------------------------------------------------
StopStep == Joined \/ Halt \/ Dispose \/ Close
LoopStep(s) == Check(s) \/ Infer(s) \/ Report(s) \/ Wait(s)

Alive(A) == ~crashed /\ A

Next ==
    \/ \E v \in ViewModels : Alive(EnterScreen(v)) \/ Alive(StopStreaming(v))
    \/ \E v \in ViewModels, s \in Streams : Alive(StartStreaming(v, s))
    \/ Alive(LeaveScreen) \/ Alive(EmitLive)
    \/ Alive(Joined) \/ Alive(Halt) \/ Alive(Dispose) \/ Alive(Close)
    \/ \E s \in Streams : \/ Alive(Callback(s)) \/ Alive(Check(s))
                          \/ Alive(Infer(s)) \/ Alive(Report(s)) \/ Alive(Wait(s))

Spec == Init /\ [][Next]_vars
        /\ WF_vars(Alive(StopStep)) /\ \A s \in Streams : WF_vars(Alive(LoopStep(s)))

-----------------------------------------------------------------------------
TypeOK ==
    /\ {store, open, crashed} \subseteq BOOLEAN
    /\ {screen, clearing} \subseteq ViewModels \cup {None}
    /\ created \subseteq ViewModels /\ scopes \subseteq created
    /\ handle \in [ViewModels -> Streams \cup {None}]
    /\ main \in {"free", "joining", "halting", "disposing", "closing"}
    /\ subject \in Streams \cup {None}
    /\ (subject # None) <=> main \in {"joining", "halting", "disposing"}
    /\ owner \in [Streams -> ViewModels \cup {None}]
    /\ loop \in [Streams -> {"unborn", "checking", "inferring", "reporting",
                             "waiting", "ended"}]
    /\ cancelled \subseteq Streams /\ heard \subseteq Streams
    /\ held \in [Streams -> SUBSET Resources]
    /\ reported \in [Streams -> 0..MaxPartials]
    /\ \A i \in DOMAIN mainQueue :
          mainQueue[i] \in [vm : ViewModels, stream : Streams, n : 1..MaxPartials]
    /\ live \in [ViewModels -> [stream : Streams \cup {None}, n : 0..MaxPartials]]

\* stop() and close() take nothing away from under a loop: while it infers or
\* reads tokens the engine's context and the stream's state exist
\* (TranscriberEngine.ios.kt:458-477 against 251-254 and 551).
\* Nor from under a callback, which AudioQueueStop may still deliver: as long
\* as there is a queue, the StableRef it dereferences is not disposed of
\* (lines 150, 540-550).
NoUseAfterFree ==
    \A s \in Streams :
        /\ loop[s] \in {"inferring", "reporting"} => open /\ "state" \in held[s]
        /\ "queue" \in held[s] => "holder" \in held[s]

\* The native memory of a stream is given back by stop(), and at once by a
\* start that fails half way (lines 349-393, 540-551).
NothingLeaks ==
    \A s \in Streams :
        loop[s] = "unborn" \/ (s \in cancelled /\ subject # s) => held[s] = {}

\* stop() on iOS is a barrier: the stream is over when it returns, and nothing
\* is reported later.  A stream that is not stopped goes on.
PhaseBar ==
    [s \in Streams |->
        IF loop[s] = "unborn" THEN "unborn"
        ELSE IF s \in cancelled /\ subject # s THEN "over" ELSE "on"]

Contract == INSTANCE StreamContract WITH
    phase <- PhaseBar, said <- reported, late <- [s \in Streams |-> 0], MaxLate <- 0

KeepsContract == Contract!SCSpec

\* stop() and onCleared give the main thread back although they block it on a
\* loop that posts to that very thread.
StopReturns == main # "free" ~> main = "free" \/ crashed

=============================================================================
