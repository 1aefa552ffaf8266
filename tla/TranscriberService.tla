------------------------- MODULE TranscriberService -------------------------
(***************************************************************************)
(* What WhisperContext promises its callers: requests are served one at a  *)
(* time in the order they were made, each in one indivisible step.  While  *)
(* the service is open a caller gets a text of its own audio, once it is   *)
(* closed the caller is refused; serving a closer closes the service.      *)
(***************************************************************************)
EXTENDS Naturals, Sequences

CONSTANTS
    Callers, Closers,  \* who asks for a text, who asks to close
    MaxSegments,       \* bound: segments of speech in one piece of audio
    Tags               \* tells the audio of a caller's requests apart

VARIABLES
    open,     \* not released yet
    waiting,  \* callers and closers waiting to be served, oldest first
    asked,    \* the audio of each caller's latest request
    answer    \* each caller's answer that it has not taken yet, if any

tsVars == <<open, waiting, asked, answer>>

Audios == [by : Callers, tag : Tags, speech : 0..MaxSegments]

\* The transcript of a: as many segments as it has speech, or, when the model
\* fails on it, none.
Transcripts(a) ==
    {[i \in 1..n |-> [audio |-> a, index |-> i]] : n \in {0, a.speech}}

Answered(t) == [refused |-> FALSE, text |-> t]
Refused == [refused |-> TRUE, text |-> <<>>]

IsWaiting(p) == \E i \in DOMAIN waiting : waiting[i] = p

TSInit ==
    /\ open = TRUE /\ waiting = <<>>
    /\ asked \in [Callers -> Audios]
    /\ \A c \in Callers : asked[c].by = c /\ asked[c].speech = 0
    /\ answer = [c \in Callers |-> {}]

Ask(c) ==
    /\ ~IsWaiting(c) /\ answer[c] = {}
    /\ waiting' = Append(waiting, c)
    /\ \E a \in Audios : a.by = c /\ asked' = [asked EXCEPT ![c] = a]
    /\ UNCHANGED <<open, answer>>

AskToClose(r) ==
    /\ ~IsWaiting(r)
    /\ waiting' = Append(waiting, r)
    /\ UNCHANGED <<open, asked, answer>>

ServeNext(p) == waiting # <<>> /\ p = Head(waiting) /\ waiting' = Tail(waiting)

Serve(c) ==
    /\ ServeNext(c)
    /\ IF open
       THEN \E t \in Transcripts(asked[c]) : answer' = [answer EXCEPT ![c] = {Answered(t)}]
       ELSE answer' = [answer EXCEPT ![c] = {Refused}]
    /\ UNCHANGED <<open, asked>>

Close(r) == ServeNext(r) /\ open' = FALSE /\ UNCHANGED <<asked, answer>>

\* The caller takes its answer and drops its audio.
Take(c) ==
    /\ answer[c] # {}
    /\ answer' = [answer EXCEPT ![c] = {}]
    /\ asked' = [asked EXCEPT ![c].speech = 0]
    /\ UNCHANGED <<open, waiting>>

ServeAny == (\E c \in Callers : Serve(c)) \/ (\E r \in Closers : Close(r))

TSNext ==
    \/ ServeAny
    \/ \E c \in Callers : Ask(c) \/ Take(c)
    \/ \E r \in Closers : AskToClose(r)

TSSpec == TSInit /\ [][TSNext]_tsVars /\ WF_tsVars(ServeAny)

=============================================================================
