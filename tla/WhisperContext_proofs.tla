------------------------ MODULE WhisperContext_proofs ------------------------
(***************************************************************************)
(* Proofs about WhisperContext for every set of callers and closers and    *)
(* every number of segments.                                               *)
(***************************************************************************)
EXTENDS WhisperContext, TLAPS

USE CallersAssumption, SegmentsAssumption

\* The queue holds the queued actors, each once.
QueueOK ==
    /\ \A i \in 1..Len(tasks) : pc[tasks[i]] = "queued"
    /\ \A i, j \in 1..Len(tasks) : i # j => tasks[i] # tasks[j]

\* One task at a time is on the thread; callers and closers keep to their own
\* states.
ThreadOK ==
    /\ \A p, q \in Actors : pc[p] \in OnThread /\ pc[q] \in OnThread => p = q
    /\ \A c \in Callers : pc[c] \notin {"freeing", "released"}
    /\ \A r \in Closers : pc[r] \in {"idle", "queued", "freeing", "released"}

\* The context is freed at most once, and the field shows it except while the
\* closer that frees it is still on the thread.
PtrOK ==
    /\ ptr = 0 => frees = 1
    /\ ptr = 1 => frees = IF \E r \in Closers : pc[r] = "freeing" THEN 1 ELSE 0
    /\ \A p \in Actors : pc[p] \in OnThread => ptr = 1

\* What a call has read so far: the first segments of its own audio, from a
\* native list that is its own as long as it reads.
TextOKOf(c) ==
    /\ pc[c] \in {"reading", "answered"} =>
          /\ count[c] = SegmentsFound(c, rc[c])
          /\ Len(text[c]) <= count[c]
          /\ \A i \in 1..Len(text[c]) : text[c][i] = Segment(audio[c], i)
    /\ pc[c] \notin {"reading", "answered"} => text[c] = <<>>
    /\ pc[c] = "reading" => segments = [audio |-> audio[c], n |-> count[c]]
    /\ pc[c] = "answered" => Len(text[c]) = count[c]

TextOK == \A c \in Callers : TextOKOf(c)

IInv == TypeOK /\ QueueOK /\ ThreadOK /\ PtrOK /\ TextOK

-----------------------------------------------------------------------------
\* The number of segments found is within the bound of the model.
LEMMA SegmentsFoundType ==
    ASSUME TypeOK, NEW c \in Callers, NEW r \in {0, 1}
    PROVE  SegmentsFound(c, r) \in 0..MaxSegments
BY DEF TypeOK, SegmentsFound, Audios

\* Dropping a piece of audio leaves a piece of audio of the same caller.
LEMMA DroppedAudio ==
    ASSUME NEW a \in Audios
    PROVE  [a EXCEPT !.speech = 0] \in Audios /\ [a EXCEPT !.speech = 0].by = a.by
BY DEF Audios

\* The initial states have the types of the variables.
LEMMA InitType == WCInit => TypeOK
<1> SUFFICES ASSUME WCInit PROVE TypeOK OBVIOUS
<1>1. audio \in [Callers -> Audios] /\ \A c \in Callers : audio[c].by = c
  BY DEF WCInit, Audios
<1>2. segments \in [audio : Audios \cup {NoAudio}, n : 0..MaxSegments]
  BY DEF WCInit
<1> QED BY <1>1, <1>2 DEF WCInit, TypeOK, Actors, Phases

\* Every step keeps the types of the variables.
LEMMA StepType == TypeOK /\ [WCNext]_wcVars => TypeOK'
<1> SUFFICES ASSUME TypeOK, [WCNext]_wcVars PROVE TypeOK' OBVIOUS
<1> USE DEF TypeOK
<1>1. ASSUME NEW c \in Callers, Submit(c) PROVE TypeOK'
  <2>1. PICK a \in Fresh(c) : audio' = [audio EXCEPT ![c] = a] BY <1>1 DEF Submit
  <2>2. a \in Audios /\ a.by = c BY DEF Fresh
  <2>3. audio' \in [Callers -> Audios] /\ \A d \in Callers : audio'[d].by = d
    BY <2>1, <2>2
  <2>4. c \in Actors BY DEF Actors
  <2>5. tasks' \in Seq(Actors) BY <1>1, <2>4 DEF Submit
  <2>6. pc' \in [Actors -> Phases] BY <1>1 DEF Submit, Phases
  <2>7. UNCHANGED <<ptr, frees, segments, rc, count, text>> BY <1>1 DEF Submit
  <2> QED BY <2>3, <2>5, <2>6, <2>7
<1>2. ASSUME NEW c \in Callers, Begin(c) PROVE TypeOK'
  <2>1. tasks' \in Seq(Actors) BY <1>2 DEF Begin, Dequeue
  <2>2. pc' \in [Actors -> Phases] BY <1>2 DEF Begin, Phases
  <2> QED BY <1>2, <2>1, <2>2 DEF Begin
<1>3. ASSUME NEW c \in Callers, FullTranscribe(c) PROVE TypeOK'
  <2>1. PICK r \in {0, 1} :
           /\ rc' = [rc EXCEPT ![c] = r]
           /\ segments' = [audio |-> audio[c], n |-> SegmentsFound(c, r)]
           /\ count' = [count EXCEPT ![c] = SegmentsFound(c, r)]
    BY <1>3 DEF FullTranscribe
  <2>2. SegmentsFound(c, r) \in 0..MaxSegments BY SegmentsFoundType
  <2>3. segments' \in [audio : Audios \cup {NoAudio}, n : 0..MaxSegments]
    BY <2>1, <2>2
  <2>4. pc' \in [Actors -> Phases] BY <1>3 DEF FullTranscribe, Phases
  <2>5. rc' \in [Callers -> {0, 1}] /\ count' \in [Callers -> 0..MaxSegments]
    BY <2>1, <2>2
  <2> QED BY <1>3, <2>3, <2>4, <2>5 DEF FullTranscribe
<1>4. ASSUME NEW c \in Callers, AppendSegment(c) PROVE TypeOK'
  <2> DEFINE T == [audio : Audios \cup {NoAudio}, index : Nat]
             sg == Segment(segments.audio, Len(text[c]) + 1)
  <2>1. text \in [Callers -> Seq(T)] /\ text[c] \in Seq(T) OBVIOUS
  <2>2. sg \in T BY <2>1 DEF Segment
  <2>3. text' = [text EXCEPT ![c] = Append(text[c], sg)] BY <1>4 DEF AppendSegment
  <2> HIDE DEF T, sg
  <2>4. Append(text[c], sg) \in Seq(T) BY <2>1, <2>2
  <2>5. text' \in [Callers -> Seq(T)] BY <2>1, <2>3, <2>4
  <2> QED BY <1>4, <2>5 DEF AppendSegment, T
<1>5. ASSUME NEW c \in Callers, Answer(c) PROVE TypeOK'
  BY <1>5 DEF Answer, Phases
<1>6. ASSUME NEW c \in Callers, Return(c) PROVE TypeOK'
  <2> DEFINE T == [audio : Audios \cup {NoAudio}, index : Nat]
  <2>1. text \in [Callers -> Seq(T)] OBVIOUS
  <2> HIDE DEF T
  <2>2. text' \in [Callers -> Seq(T)]
    <3>1. <<>> \in Seq(T) OBVIOUS
    <3> QED BY <1>6, <2>1, <3>1 DEF Return
  <2>3. pc' \in [Actors -> Phases] BY <1>6 DEF Return, Phases
  <2>4. rc' \in [Callers -> {0, 1}] /\ count' \in [Callers -> 0..MaxSegments]
    BY <1>6 DEF Return
  <2>5. [audio[c] EXCEPT !.speech = 0] \in Audios
        /\ [audio[c] EXCEPT !.speech = 0].by = c
    BY DroppedAudio
  <2>6. audio' = [audio EXCEPT ![c] = [audio[c] EXCEPT !.speech = 0]]
    BY <1>6 DEF Return
  <2>7. audio' \in [Callers -> Audios] /\ \A d \in Callers : audio'[d].by = d
    BY <2>5, <2>6
  <2>8. UNCHANGED <<ptr, frees, tasks, segments>> BY <1>6 DEF Return
  <2> QED BY <2>2, <2>3, <2>4, <2>7, <2>8 DEF T
<1>7. ASSUME NEW r \in Closers, SubmitRelease(r) PROVE TypeOK'
  <2>1. r \in Actors BY DEF Actors
  <2>2. tasks' \in Seq(Actors) BY <1>7, <2>1 DEF SubmitRelease
  <2>3. pc' \in [Actors -> Phases] BY <1>7 DEF SubmitRelease, Phases
  <2> QED BY <1>7, <2>2, <2>3 DEF SubmitRelease
<1>8. ASSUME NEW r \in Closers, BeginRelease(r) PROVE TypeOK'
  <2>1. tasks' \in Seq(Actors) BY <1>8 DEF BeginRelease, Dequeue
  <2>2. pc' \in [Actors -> Phases] BY <1>8 DEF BeginRelease, Phases
  <2>3. frees' \in Nat BY <1>8 DEF BeginRelease
  <2> QED BY <1>8, <2>1, <2>2, <2>3 DEF BeginRelease
<1>9. ASSUME NEW r \in Closers, ClearPtr(r) PROVE TypeOK'
  BY <1>9 DEF ClearPtr, Phases
<1>10. CASE UNCHANGED wcVars BY <1>10 DEF wcVars
<1> QED
  BY <1>1, <1>2, <1>3, <1>4, <1>5, <1>6, <1>7, <1>8, <1>9, <1>10 DEF WCNext, Work

\* Every variable keeps its type, for any callers and any bound.
THEOREM WCTypeCorrect == WCSpec => []TypeOK
BY InitType, StepType, PTL DEF WCSpec

-----------------------------------------------------------------------------
\* Queueing an actor that is not queued keeps the queue in order.
LEMMA QueueAdd ==
    ASSUME TypeOK, QueueOK, NEW p \in Actors, pc[p] # "queued",
           tasks' = Append(tasks, p), pc' = [pc EXCEPT ![p] = "queued"]
    PROVE  QueueOK'
<1>1. Len(tasks') = Len(tasks) + 1 /\ tasks'[Len(tasks) + 1] = p
  BY DEF TypeOK
<1>2. \A i \in 1..Len(tasks) : tasks'[i] = tasks[i] /\ tasks[i] \in Actors
  BY DEF TypeOK
<1>3. \A i \in 1..Len(tasks) : tasks[i] # p BY DEF QueueOK
<1>4. \A i \in 1..Len(tasks') : pc'[tasks'[i]] = "queued"
  BY <1>1, <1>2, <1>3 DEF QueueOK, TypeOK
<1>5. \A i, j \in 1..Len(tasks') : i # j => tasks'[i] # tasks'[j]
  BY <1>1, <1>2, <1>3 DEF QueueOK, TypeOK
<1> QED BY <1>4, <1>5 DEF QueueOK

\* The task that is taken was queued, and what is left is still in order.
LEMMA QueueTake ==
    ASSUME TypeOK, QueueOK, NEW p \in Actors, Dequeue(p), NEW x,
           pc' = [pc EXCEPT ![p] = x]
    PROVE  pc[p] = "queued" /\ QueueOK'
<1>1. tasks # <<>> /\ p = tasks[1] /\ Len(tasks) \in Nat /\ Len(tasks) >= 1
  BY DEF Dequeue, TypeOK
<1>2. /\ Len(tasks') = Len(tasks) - 1
      /\ \A i \in 1..Len(tasks') : tasks'[i] = tasks[i + 1]
  BY DEF Dequeue, TypeOK
<1>3. \A i \in 1..Len(tasks') : /\ i + 1 \in 1..Len(tasks) /\ i + 1 # 1
                                /\ tasks[i + 1] \in Actors
  BY <1>1, <1>2 DEF TypeOK
<1>4. pc[p] = "queued" BY <1>1 DEF QueueOK
<1>5. \A i \in 1..Len(tasks') : tasks'[i] # p /\ pc[tasks'[i]] = "queued"
  BY <1>1, <1>2, <1>3 DEF QueueOK
<1>6. \A i \in 1..Len(tasks') : pc'[tasks'[i]] = "queued"
  BY <1>2, <1>3, <1>5 DEF TypeOK
<1>7. \A i, j \in 1..Len(tasks') : i # j => tasks'[i] # tasks'[j]
  BY <1>2, <1>3 DEF QueueOK
<1> QED BY <1>4, <1>6, <1>7 DEF QueueOK

\* An actor that is not queued may move while the queue stays.
LEMMA QueueKeep ==
    ASSUME TypeOK, QueueOK, NEW p \in Actors, pc[p] # "queued", NEW x,
           tasks' = tasks, pc' = [pc EXCEPT ![p] = x]
    PROVE  QueueOK'
BY DEF QueueOK, TypeOK

\* Every step keeps the queue in order.
LEMMA StepQueue == IInv /\ [WCNext]_wcVars => QueueOK'
<1> SUFFICES ASSUME IInv, [WCNext]_wcVars PROVE QueueOK' OBVIOUS
<1>0. TypeOK /\ QueueOK BY DEF IInv
<1>a. \A p \in Callers \cup Closers : p \in Actors BY DEF Actors
<1>1. ASSUME NEW c \in Callers, Submit(c) PROVE QueueOK'
  BY <1>0, <1>a, <1>1, QueueAdd DEF Submit
<1>2. ASSUME NEW c \in Callers, Begin(c) PROVE QueueOK'
  BY <1>0, <1>a, <1>2, QueueTake DEF Begin
<1>3. ASSUME NEW c \in Callers, FullTranscribe(c) PROVE QueueOK'
  BY <1>0, <1>a, <1>3, QueueKeep DEF FullTranscribe
<1>4. ASSUME NEW c \in Callers, AppendSegment(c) PROVE QueueOK'
  BY <1>0, <1>4 DEF AppendSegment, QueueOK
<1>5. ASSUME NEW c \in Callers, Answer(c) PROVE QueueOK'
  BY <1>0, <1>a, <1>5, QueueKeep DEF Answer
<1>6. ASSUME NEW c \in Callers, Return(c) PROVE QueueOK'
  BY <1>0, <1>a, <1>6, QueueKeep DEF Return
<1>7. ASSUME NEW r \in Closers, SubmitRelease(r) PROVE QueueOK'
  BY <1>0, <1>a, <1>7, QueueAdd DEF SubmitRelease
<1>8. ASSUME NEW r \in Closers, BeginRelease(r) PROVE QueueOK'
  BY <1>0, <1>a, <1>8, QueueTake DEF BeginRelease
<1>9. ASSUME NEW r \in Closers, ClearPtr(r) PROVE QueueOK'
  BY <1>0, <1>a, <1>9, QueueKeep DEF ClearPtr
<1>10. CASE UNCHANGED wcVars BY <1>0, <1>10 DEF wcVars, QueueOK
<1> QED
  BY <1>1, <1>2, <1>3, <1>4, <1>5, <1>6, <1>7, <1>8, <1>9, <1>10 DEF WCNext, Work

\* Every step leaves at most one task on the thread.
LEMMA StepThread == IInv /\ [WCNext]_wcVars => ThreadOK'
<1> SUFFICES ASSUME IInv, [WCNext]_wcVars PROVE ThreadOK' OBVIOUS
<1>0. TypeOK /\ QueueOK /\ ThreadOK BY DEF IInv
<1> USE DEF ThreadOK, OnThread, Actors, TypeOK
<1>1. ASSUME NEW c \in Callers, Submit(c) PROVE ThreadOK'
  BY <1>0, <1>1 DEF Submit
<1>2. ASSUME NEW c \in Callers, Begin(c) PROVE ThreadOK'
  BY <1>0, <1>2 DEF Begin, Dequeue, ThreadFree
<1>3. ASSUME NEW c \in Callers, FullTranscribe(c) PROVE ThreadOK'
  BY <1>0, <1>3 DEF FullTranscribe
<1>4. ASSUME NEW c \in Callers, AppendSegment(c) PROVE ThreadOK'
  BY <1>0, <1>4 DEF AppendSegment
<1>5. ASSUME NEW c \in Callers, Answer(c) PROVE ThreadOK'
  BY <1>0, <1>5 DEF Answer
<1>6. ASSUME NEW c \in Callers, Return(c) PROVE ThreadOK'
  BY <1>0, <1>6 DEF Return
<1>7. ASSUME NEW r \in Closers, SubmitRelease(r) PROVE ThreadOK'
  BY <1>0, <1>7 DEF SubmitRelease
<1>8. ASSUME NEW r \in Closers, BeginRelease(r) PROVE ThreadOK'
  <2>1. ThreadFree /\ \E x \in {"freeing", "released"} : pc' = [pc EXCEPT ![r] = x]
    BY <1>8 DEF BeginRelease, Dequeue
  <2> QED BY <1>0, <2>1 DEF ThreadFree
<1>9. ASSUME NEW r \in Closers, ClearPtr(r) PROVE ThreadOK'
  BY <1>0, <1>9 DEF ClearPtr
<1>10. CASE UNCHANGED wcVars BY <1>0, <1>10 DEF wcVars
<1> QED
  BY <1>1, <1>2, <1>3, <1>4, <1>5, <1>6, <1>7, <1>8, <1>9, <1>10 DEF WCNext, Work

\* Every step keeps the field and the native context together.
LEMMA StepPtr == IInv /\ [WCNext]_wcVars => PtrOK'
<1> SUFFICES ASSUME IInv, [WCNext]_wcVars PROVE PtrOK' OBVIOUS
<1>0. TypeOK /\ QueueOK /\ ThreadOK /\ PtrOK BY DEF IInv
<1> USE DEF PtrOK, OnThread, Actors, TypeOK
<1>1. ASSUME NEW c \in Callers, Submit(c) PROVE PtrOK'
  BY <1>0, <1>1 DEF Submit
<1>2. ASSUME NEW c \in Callers, Begin(c) PROVE PtrOK'
  BY <1>0, <1>2 DEF Begin, Dequeue, ThreadFree
<1>3. ASSUME NEW c \in Callers, FullTranscribe(c) PROVE PtrOK'
  BY <1>0, <1>3 DEF FullTranscribe
<1>4. ASSUME NEW c \in Callers, AppendSegment(c) PROVE PtrOK'
  BY <1>0, <1>4 DEF AppendSegment
<1>5. ASSUME NEW c \in Callers, Answer(c) PROVE PtrOK'
  BY <1>0, <1>5 DEF Answer
<1>6. ASSUME NEW c \in Callers, Return(c) PROVE PtrOK'
  BY <1>0, <1>6 DEF Return
<1>7. ASSUME NEW r \in Closers, SubmitRelease(r) PROVE PtrOK'
  BY <1>0, <1>7 DEF SubmitRelease
<1>8. ASSUME NEW r \in Closers, BeginRelease(r) PROVE PtrOK'
  <2>1. \A p \in Actors : pc[p] \notin OnThread
    BY <1>8 DEF BeginRelease, Dequeue, ThreadFree
  <2>2. CASE ptr = 0
    <3>1. frees' = 1 /\ pc' = [pc EXCEPT ![r] = "released"] /\ ptr' = 0
      BY <1>0, <1>8, <2>2 DEF BeginRelease
    <3> QED BY <1>0, <2>1, <3>1
  <2>3. CASE ptr = 1
    <3>1. frees = 0 BY <1>0, <2>1, <2>3
    <3>2. frees' = 1 /\ pc' = [pc EXCEPT ![r] = "freeing"] /\ ptr' = 1
      BY <1>0, <1>8, <2>3, <3>1 DEF BeginRelease
    <3>3. pc'[r] = "freeing" BY <1>0, <3>2
    <3> QED BY <3>2, <3>3
  <2> QED BY <1>0, <2>2, <2>3
<1>9. ASSUME NEW r \in Closers, ClearPtr(r) PROVE PtrOK'
  <2>1. pc[r] = "freeing" /\ ptr' = 0 /\ frees' = frees
        /\ pc' = [pc EXCEPT ![r] = "released"]
    BY <1>9 DEF ClearPtr
  <2>2. frees = 1 BY <1>0, <2>1
  <2>3. \A p \in Actors : pc'[p] \notin OnThread
    BY <1>0, <2>1 DEF ThreadOK
  <2> QED BY <2>1, <2>2, <2>3
<1>10. CASE UNCHANGED wcVars BY <1>0, <1>10 DEF wcVars
<1> QED
  BY <1>1, <1>2, <1>3, <1>4, <1>5, <1>6, <1>7, <1>8, <1>9, <1>10 DEF WCNext, Work

\* A caller whose call a step leaves alone keeps what it has read.
LEMMA TextKeep ==
    ASSUME TypeOK, TextOK, NEW d \in Callers,
           pc'[d] = pc[d], rc'[d] = rc[d], count'[d] = count[d],
           text'[d] = text[d], audio'[d] = audio[d],
           pc[d] = "reading" => segments' = segments
    PROVE  TextOKOf(d)'
BY DEF TextOK, TextOKOf, SegmentsFound

\* Every step keeps each caller to segments of its own audio.
LEMMA StepText == IInv /\ [WCNext]_wcVars => TextOK'
<1> SUFFICES ASSUME IInv, [WCNext]_wcVars, NEW d \in Callers PROVE TextOKOf(d)'
  BY DEF TextOK, TextOKOf
<1>0. TypeOK /\ QueueOK /\ ThreadOK /\ PtrOK /\ TextOK BY DEF IInv
<1>a. \A p \in Callers \cup Closers : p \in Actors BY DEF Actors
<1>b. TextOKOf(d) BY <1>0 DEF TextOK, TextOKOf
<1>c. d \in Actors /\ pc[d] \in Phases BY <1>0, <1>a DEF TypeOK
<1>1. ASSUME NEW c \in Callers, Submit(c) PROVE TextOKOf(d)'
  <2>1. CASE d # c
    <3>1. audio'[d] = audio[d] BY <1>0, <1>1, <2>1 DEF Submit, TypeOK
    <3> QED BY <1>0, <1>c, <1>1, <2>1, <3>1, TextKeep DEF Submit, TypeOK
  <2>2. CASE d = c
    <3>1. pc[d] = "idle" /\ pc'[d] = "queued" /\ text'[d] = text[d]
      BY <1>0, <1>c, <1>1, <2>2 DEF Submit, TypeOK
    <3> QED BY <1>b, <3>1 DEF TextOKOf
  <2> QED BY <2>1, <2>2
<1>2. ASSUME NEW c \in Callers, Begin(c) PROVE TextOKOf(d)'
  <2>1. CASE d # c
    BY <1>0, <1>c, <1>2, <2>1, TextKeep DEF Begin, TypeOK
  <2>2. CASE d = c
    <3>1. pc[d] = "queued" BY <1>0, <1>a, <1>2, <2>2, QueueTake DEF Begin
    <3>2. pc'[d] \in {"inferring", "refused"} /\ text'[d] = text[d]
      BY <1>0, <1>c, <1>2, <2>2 DEF Begin, TypeOK
    <3> QED BY <1>b, <3>1, <3>2 DEF TextOKOf
  <2> QED BY <2>1, <2>2
<1>3. ASSUME NEW c \in Callers, FullTranscribe(c) PROVE TextOKOf(d)'
  <2>1. PICK r \in {0, 1} :
           /\ rc' = [rc EXCEPT ![c] = r]
           /\ segments' = [audio |-> audio[c], n |-> SegmentsFound(c, r)]
           /\ count' = [count EXCEPT ![c] = SegmentsFound(c, r)]
    BY <1>3 DEF FullTranscribe
  <2>2. CASE d # c
    <3>1. pc[d] # "reading"
      BY <1>0, <1>3, <1>a, <2>2 DEF FullTranscribe, ThreadOK, OnThread
    <3> QED BY <1>0, <1>c, <1>3, <2>1, <2>2, <3>1, TextKeep
            DEF FullTranscribe, TypeOK
  <2>3. CASE d = c
    <3>1. pc[d] = "inferring" /\ pc'[d] = "reading" /\ text'[d] = text[d]
          /\ audio' = audio
      BY <1>0, <1>c, <1>3, <2>3 DEF FullTranscribe, TypeOK
    <3>2. text'[d] = <<>> BY <1>b, <3>1 DEF TextOKOf
    <3>3. rc'[d] = r /\ count'[d] = SegmentsFound(d, r)
      BY <1>0, <2>1, <2>3 DEF TypeOK
    <3>4. SegmentsFound(d, r) \in 0..MaxSegments BY <1>0, SegmentsFoundType
    <3>5. SegmentsFound(d, rc[d])' = SegmentsFound(d, r)
      BY <3>1, <3>3 DEF SegmentsFound
    <3> QED BY <2>1, <2>3, <3>1, <3>2, <3>3, <3>4, <3>5 DEF TextOKOf
  <2> QED BY <2>2, <2>3
<1>4. ASSUME NEW c \in Callers, AppendSegment(c) PROVE TextOKOf(d)'
  <2>1. CASE d # c
    BY <1>0, <1>c, <1>4, <2>1, TextKeep DEF AppendSegment, TypeOK
  <2>2. CASE d = c
    <3>1. /\ pc[d] = "reading" /\ Len(text[d]) < count[d]
          /\ UNCHANGED <<pc, audio, segments, rc, count>>
          /\ text'[d] = Append(text[d], Segment(segments.audio, Len(text[d]) + 1))
      BY <1>0, <1>4, <2>2 DEF AppendSegment, TypeOK
    <3>2. segments.audio = audio[d] BY <1>b, <3>1 DEF TextOKOf
    <3> DEFINE T == [audio : Audios \cup {NoAudio}, index : Nat]
               sg == Segment(audio[d], Len(text[d]) + 1)
    <3>3. text[d] \in Seq(T) /\ count[d] \in Nat
      <4>1. count[d] \in Nat BY <1>0 DEF TypeOK
      <4>2. text \in [Callers -> Seq(T)] BY <1>0 DEF TypeOK
      <4> HIDE DEF T
      <4> QED BY <4>1, <4>2
    <3> HIDE DEF T
    <3>4. Len(text[d]) \in Nat BY <3>3
    <3>5. text'[d] = Append(text[d], sg) BY <3>1, <3>2
    <3> HIDE DEF sg
    <3>6. /\ Len(text'[d]) = Len(text[d]) + 1
          /\ text'[d][Len(text[d]) + 1] = sg
          /\ \A i \in 1..Len(text[d]) : text'[d][i] = text[d][i]
      BY <3>3, <3>5
    <3>7. \A i \in 1..Len(text'[d]) : text'[d][i] = Segment(audio[d], i)
      BY <1>b, <3>1, <3>4, <3>6 DEF TextOKOf, sg
    <3>8. SegmentsFound(d, rc[d])' = SegmentsFound(d, rc[d])
      BY <3>1 DEF SegmentsFound
    <3> QED BY <1>b, <3>1, <3>3, <3>4, <3>6, <3>7, <3>8 DEF TextOKOf
  <2> QED BY <2>1, <2>2
<1>5. ASSUME NEW c \in Callers, Answer(c) PROVE TextOKOf(d)'
  <2>1. CASE d # c
    BY <1>0, <1>c, <1>5, <2>1, TextKeep DEF Answer, TypeOK
  <2>2. CASE d = c
    <3>1. /\ pc[d] = "reading" /\ pc'[d] = "answered" /\ Len(text[d]) = count[d]
          /\ UNCHANGED <<audio, rc, count, text>>
      BY <1>0, <1>c, <1>5, <2>2 DEF Answer, TypeOK
    <3> QED BY <1>b, <3>1 DEF TextOKOf, SegmentsFound
  <2> QED BY <2>1, <2>2
<1>6. ASSUME NEW c \in Callers, Return(c) PROVE TextOKOf(d)'
  <2>1. CASE d # c
    BY <1>0, <1>c, <1>6, <2>1, TextKeep DEF Return, TypeOK
  <2>2. CASE d = c
    BY <1>0, <1>c, <1>6, <2>2 DEF Return, TypeOK, TextOKOf
  <2> QED BY <2>1, <2>2
<1>7. ASSUME NEW r \in Closers, SubmitRelease(r) PROVE TextOKOf(d)'
  BY <1>0, <1>c, <1>7, TextKeep DEF SubmitRelease, TypeOK
<1>8. ASSUME NEW r \in Closers, BeginRelease(r) PROVE TextOKOf(d)'
  BY <1>0, <1>c, <1>8, TextKeep DEF BeginRelease, TypeOK
<1>9. ASSUME NEW r \in Closers, ClearPtr(r) PROVE TextOKOf(d)'
  BY <1>0, <1>c, <1>9, TextKeep DEF ClearPtr, TypeOK
<1>10. CASE UNCHANGED wcVars BY <1>0, <1>10, TextKeep DEF wcVars
<1> QED
  BY <1>1, <1>2, <1>3, <1>4, <1>5, <1>6, <1>7, <1>8, <1>9, <1>10 DEF WCNext, Work

-----------------------------------------------------------------------------
\* The inductive invariant holds of every behaviour.
THEOREM WCInvariant == WCSpec => []IInv
<1>1. WCInit => IInv
  <2> SUFFICES ASSUME WCInit PROVE IInv OBVIOUS
  <2>1. TypeOK BY InitType
  <2>2. \A p \in Actors : pc[p] = "idle" BY DEF WCInit
  <2>3. QueueOK BY DEF WCInit, QueueOK
  <2>4. ThreadOK BY <2>2 DEF ThreadOK, OnThread, Actors
  <2>5. PtrOK BY <2>2 DEF WCInit, PtrOK, OnThread, Actors
  <2>6. TextOK BY <2>2 DEF WCInit, TextOK, TextOKOf, Actors
  <2> QED BY <2>1, <2>3, <2>4, <2>5, <2>6 DEF IInv
<1>2. IInv /\ [WCNext]_wcVars => IInv'
  <2> SUFFICES ASSUME IInv, [WCNext]_wcVars PROVE IInv' OBVIOUS
  <2>1. TypeOK' BY StepType DEF IInv
  <2> QED BY <2>1, StepQueue, StepThread, StepPtr, StepText DEF IInv
<1> QED BY <1>1, <1>2, PTL DEF WCSpec

\* An answer is made of all the segments of its own audio, however many
\* callers share the native list.
THEOREM WCAnswerIsOwn == WCSpec => []AnswerIsOwn
<1>1. IInv => AnswerIsOwn BY DEF IInv, TextOK, TextOKOf, AnswerIsOwn
<1> QED BY <1>1, WCInvariant, PTL

\* The native context is freed at most once, and not used afterwards.
THEOREM WCNoUseAfterFree == WCSpec => []NoUseAfterFree
<1>1. IInv => NoUseAfterFree
  BY DEF IInv, TypeOK, ThreadOK, PtrOK, OnThread, Actors, NoUseAfterFree
<1> QED BY <1>1, WCInvariant, PTL

\* Without detect_language, speech that whisper_full ran on has a text.
THEOREM WCSpeechIsTranscribed ==
    ~DetectLanguage => (WCSpec => []SpeechIsTranscribed)
<1> SUFFICES ASSUME ~DetectLanguage PROVE WCSpec => []SpeechIsTranscribed OBVIOUS
<1>1. IInv => SpeechIsTranscribed
  BY DEF IInv, TypeOK, TextOK, TextOKOf, SegmentsFound, Audios, SpeechIsTranscribed
<1> QED BY <1>1, WCInvariant, PTL

-----------------------------------------------------------------------------
\* The oldest request waiting is the task on the thread, if there is one.
LEMMA WaitingBusy ==
    ASSUME ThreadOK, NEW p \in Actors, pc[p] \in OnThread
    PROVE  WaitingBar = <<p>> \o tasks
<1>1. (CHOOSE q \in Actors : pc[q] \in OnThread) = p BY DEF ThreadOK
<1> QED BY <1>1 DEF WaitingBar

\* An idle actor waits nowhere.
LEMMA IdleNotWaiting ==
    ASSUME IInv, NEW p \in Actors, pc[p] = "idle"
    PROVE  ~Service!IsWaiting(p)
<1>0. TypeOK /\ QueueOK /\ ThreadOK BY DEF IInv
<1>1. tasks \in Seq(Actors) /\ \A i \in 1..Len(tasks) : tasks[i] # p
  BY <1>0 DEF QueueOK, TypeOK
<1>2. CASE \E q \in Actors : pc[q] \in OnThread
  <2>1. PICK q \in Actors : pc[q] \in OnThread BY <1>2
  <2>2. WaitingBar = <<q>> \o tasks /\ q # p
    BY <1>0, <2>1, WaitingBusy DEF OnThread
  <2>3. \A i \in DOMAIN WaitingBar : WaitingBar[i] # p
    BY <1>1, <2>2
  <2> QED BY <2>3 DEF Service!IsWaiting
<1>3. CASE ~\E q \in Actors : pc[q] \in OnThread
  BY <1>1, <1>3 DEF WaitingBar, Service!IsWaiting
<1> QED BY <1>2, <1>3

\* Queueing a task appends it to the requests that wait.
LEMMA WaitingAdd ==
    ASSUME TypeOK, ThreadOK, NEW p \in Actors, pc[p] = "idle",
           tasks' = Append(tasks, p), pc' = [pc EXCEPT ![p] = "queued"]
    PROVE  WaitingBar' = Append(WaitingBar, p)
<1>1. \A q \in Actors : pc'[q] \in OnThread <=> pc[q] \in OnThread
  BY DEF TypeOK, OnThread
<1>2. CASE \E q \in Actors : pc[q] \in OnThread
  <2>1. PICK q \in Actors : pc[q] \in OnThread BY <1>2
  <2>2. WaitingBar = <<q>> \o tasks BY <2>1, WaitingBusy
  <2>3. ThreadOK' => WaitingBar' = <<q>> \o tasks'
    <3>1. SUFFICES ASSUME ThreadOK' PROVE WaitingBar' = <<q>> \o tasks' OBVIOUS
    <3>2. (CHOOSE x \in Actors : pc'[x] \in OnThread) = q
      BY <1>1, <2>1 DEF ThreadOK
    <3> QED BY <1>1, <2>1, <3>2 DEF WaitingBar
  <2>4. ThreadOK' BY DEF ThreadOK, TypeOK, OnThread, Actors
  <2>5. <<q>> \o Append(tasks, p) = Append(<<q>> \o tasks, p)
    BY <2>1 DEF TypeOK
  <2> QED BY <2>2, <2>3, <2>4, <2>5
<1>3. CASE ~\E q \in Actors : pc[q] \in OnThread
  BY <1>1, <1>3 DEF WaitingBar
<1> QED BY <1>2, <1>3

\* Moving the oldest task onto the thread leaves the same requests waiting;
\* ending it without running removes the first of them.
LEMMA WaitingTake ==
    ASSUME TypeOK, NEW p \in Actors, Dequeue(p), NEW x,
           pc' = [pc EXCEPT ![p] = x]
    PROVE  /\ WaitingBar = tasks /\ tasks # <<>> /\ p = Head(tasks)
           /\ x \in OnThread => WaitingBar' = tasks
           /\ x \notin OnThread => WaitingBar' = Tail(tasks)
<1>1. /\ \A q \in Actors : pc[q] \notin OnThread
      /\ tasks # <<>> /\ p = Head(tasks) /\ tasks' = Tail(tasks)
  BY DEF Dequeue, ThreadFree
<1>2. WaitingBar = tasks BY <1>1 DEF WaitingBar
<1>3. \A q \in Actors : pc'[q] \in OnThread <=> (q = p /\ x \in OnThread)
  BY <1>1 DEF TypeOK
<1>4. ASSUME x \in OnThread PROVE WaitingBar' = tasks
  <2>1. (CHOOSE q \in Actors : pc'[q] \in OnThread) = p BY <1>3, <1>4
  <2>2. WaitingBar' = <<p>> \o Tail(tasks) BY <1>1, <1>3, <1>4, <2>1 DEF WaitingBar
  <2>3. <<Head(tasks)>> \o Tail(tasks) = tasks BY <1>1 DEF TypeOK
  <2> QED BY <1>1, <2>2, <2>3
<1>5. ASSUME x \notin OnThread PROVE WaitingBar' = Tail(tasks)
  BY <1>1, <1>3, <1>5 DEF WaitingBar
<1> QED BY <1>1, <1>2, <1>4, <1>5

\* When the task on the thread ends, the first request is served.
LEMMA WaitingEnd ==
    ASSUME TypeOK, ThreadOK, NEW p \in Actors, pc[p] \in OnThread, NEW x,
           x \notin OnThread, tasks' = tasks, pc' = [pc EXCEPT ![p] = x]
    PROVE  WaitingBar # <<>> /\ p = Head(WaitingBar) /\ WaitingBar' = Tail(WaitingBar)
<1>1. WaitingBar = <<p>> \o tasks BY WaitingBusy
<1>2. \A q \in Actors : pc'[q] \notin OnThread BY DEF TypeOK, ThreadOK
<1>3. WaitingBar' = tasks BY <1>2 DEF WaitingBar
<1>4. /\ <<p>> \o tasks # <<>> /\ Head(<<p>> \o tasks) = p
      /\ Tail(<<p>> \o tasks) = tasks
  BY DEF TypeOK
<1> QED BY <1>1, <1>3, <1>4

\* The requests stay as they are while no actor enters or leaves the thread.
LEMMA WaitingKeep ==
    ASSUME tasks' = tasks,
           \A p \in Actors : pc'[p] \in OnThread <=> pc[p] \in OnThread
    PROVE  WaitingBar' = WaitingBar
<1>1. (CHOOSE p \in Actors : pc'[p] \in OnThread)
      = (CHOOSE p \in Actors : pc[p] \in OnThread)
  OBVIOUS
<1> QED BY <1>1 DEF WaitingBar

\* The answers stay as they are while no call is answered or handed over.
LEMMA AnswerKeep ==
    ASSUME \A c \in Callers :
              \/ pc'[c] = pc[c] /\ text'[c] = text[c]
              \/ /\ pc[c] \notin {"answered", "refused"}
                 /\ pc'[c] \notin {"answered", "refused"}
    PROVE  AnswerBar' = AnswerBar
BY DEF AnswerBar

\* A complete text of the caller's own audio is one of its transcripts.
LEMMA TextIsTranscript ==
    ASSUME TypeOK, NEW c \in Callers, TextOKOf(c), pc[c] = "reading",
           Len(text[c]) = count[c]
    PROVE  text[c] \in Service!Transcripts(audio[c])
<1> DEFINE T == [audio : Audios \cup {NoAudio}, index : Nat]
           n == count[c]
<1>0. n \in Nat BY DEF TypeOK
<1>1. text \in [Callers -> Seq(T)] BY DEF TypeOK
<1>2. n \in {0, audio[c].speech} BY DEF TextOKOf, SegmentsFound
<1> HIDE DEF T, n
<1>3. text[c] = [i \in 1..n |-> text[c][i]] BY <1>0, <1>1 DEF n
<1>4. \A i \in 1..n : text[c][i] = [audio |-> audio[c], index |-> i]
  BY DEF TextOKOf, Segment, n
<1>5. text[c] = [i \in 1..n |-> [audio |-> audio[c], index |-> i]]
  BY <1>3, <1>4
<1> QED BY <1>2, <1>5 DEF Service!Transcripts

-----------------------------------------------------------------------------
\* Every step is a step of the service or leaves it as it is.
LEMMA StepService ==
    IInv /\ [WCNext]_wcVars => [Service!TSNext]_(Service!tsVars)
<1> SUFFICES ASSUME IInv, [WCNext]_wcVars
             PROVE  Service!TSNext \/ UNCHANGED Service!tsVars
  OBVIOUS
<1>0. TypeOK /\ QueueOK /\ ThreadOK /\ PtrOK /\ TextOK BY DEF IInv
<1>a. \A p \in Callers \cup Closers : p \in Actors BY DEF Actors
<1>1. ASSUME NEW c \in Callers, Submit(c) PROVE Service!Ask(c)
  <2>1. pc[c] = "idle" /\ c \in Actors /\ pc' = [pc EXCEPT ![c] = "queued"]
        /\ tasks' = Append(tasks, c) /\ ptr' = ptr /\ text' = text
    BY <1>1, <1>a DEF Submit
  <2>2. ~Service!IsWaiting(c) /\ AnswerBar[c] = {}
    BY <2>1, IdleNotWaiting DEF AnswerBar
  <2>3. WaitingBar' = Append(WaitingBar, c) BY <1>0, <2>1, WaitingAdd
  <2>4. \E a \in Service!Audios : a.by = c /\ audio' = [audio EXCEPT ![c] = a]
    BY <1>1 DEF Submit, Fresh, Audios, Service!Audios
  <2>5. AnswerBar' = AnswerBar BY <1>0, <2>1, AnswerKeep DEF TypeOK
  <2> QED BY <2>1, <2>2, <2>3, <2>4, <2>5 DEF Service!Ask, OpenBar
<1>2. ASSUME NEW c \in Callers, Begin(c)
      PROVE  Service!Serve(c) \/ UNCHANGED Service!tsVars
  <2>1. /\ Dequeue(c) /\ c \in Actors /\ UNCHANGED <<ptr, audio, text>>
        /\ pc' = [pc EXCEPT ![c] = IF ptr # 0 THEN "inferring" ELSE "refused"]
    BY <1>2, <1>a DEF Begin
  <2>2. pc[c] = "queued" BY <1>0, <2>1, QueueTake
  <2>3. CASE ptr # 0
    <3>1. pc' = [pc EXCEPT ![c] = "inferring"] BY <2>1, <2>3
    <3>2. WaitingBar' = WaitingBar
      BY <1>0, <2>1, <3>1, WaitingTake DEF OnThread
    <3>3. AnswerBar' = AnswerBar BY <1>0, <2>1, <2>2, <3>1, AnswerKeep DEF TypeOK
    <3> QED BY <2>1, <3>2, <3>3 DEF Service!tsVars, OpenBar
  <2>4. CASE ptr = 0
    <3>1. pc' = [pc EXCEPT ![c] = "refused"] BY <2>1, <2>4
    <3>2. Service!ServeNext(c)
      <4>1. "refused" \notin OnThread BY DEF OnThread
      <4>2. /\ WaitingBar = tasks /\ tasks # <<>> /\ c = Head(tasks)
            /\ WaitingBar' = Tail(tasks)
        BY <1>0, <2>1, <3>1, <4>1, WaitingTake
      <4> QED BY <4>2 DEF Service!ServeNext
    <3>3. AnswerBar' = [AnswerBar EXCEPT ![c] = {Service!Refused}]
      BY <1>0, <2>1, <2>2, <3>1 DEF AnswerBar, Service!Refused, TypeOK, Actors
    <3> QED BY <2>1, <2>4, <3>2, <3>3 DEF Service!Serve, OpenBar
  <2> QED BY <1>0, <2>3, <2>4 DEF TypeOK
<1>3. ASSUME NEW c \in Callers, FullTranscribe(c) PROVE UNCHANGED Service!tsVars
  <2>1. /\ pc[c] = "inferring" /\ c \in Actors /\ UNCHANGED <<ptr, tasks, audio, text>>
        /\ pc' = [pc EXCEPT ![c] = "reading"]
    BY <1>3, <1>a DEF FullTranscribe
  <2>2. WaitingBar' = WaitingBar BY <1>0, <2>1, WaitingKeep DEF TypeOK, OnThread
  <2>3. AnswerBar' = AnswerBar BY <1>0, <2>1, AnswerKeep DEF TypeOK
  <2> QED BY <2>1, <2>2, <2>3 DEF Service!tsVars, OpenBar
<1>4. ASSUME NEW c \in Callers, AppendSegment(c) PROVE UNCHANGED Service!tsVars
  <2>1. /\ pc[c] = "reading" /\ UNCHANGED <<ptr, tasks, pc, audio>>
        /\ \A d \in Callers : d # c => text'[d] = text[d]
    BY <1>0, <1>4 DEF AppendSegment, TypeOK
  <2>2. WaitingBar' = WaitingBar BY <2>1, WaitingKeep
  <2>3. AnswerBar' = AnswerBar BY <1>0, <2>1, AnswerKeep
  <2> QED BY <2>1, <2>2, <2>3 DEF Service!tsVars, OpenBar
<1>5. ASSUME NEW c \in Callers, Answer(c) PROVE Service!Serve(c)
  <2>1. /\ pc[c] = "reading" /\ Len(text[c]) = count[c] /\ c \in Actors
        /\ UNCHANGED <<ptr, tasks, audio, text>>
        /\ pc' = [pc EXCEPT ![c] = "answered"]
    BY <1>5, <1>a DEF Answer
  <2>2. Service!ServeNext(c)
    BY <1>0, <2>1, WaitingEnd DEF OnThread, Service!ServeNext
  <2>3. ptr = 1 BY <1>0, <2>1 DEF PtrOK, OnThread, TypeOK
  <2>4. text[c] \in Service!Transcripts(audio[c])
    BY <1>0, <2>1, TextIsTranscript DEF TextOK
  <2>5. AnswerBar' = [AnswerBar EXCEPT ![c] = {Service!Answered(text[c])}]
    BY <1>0, <2>1 DEF AnswerBar, Service!Answered, TypeOK, Actors
  <2>6. OpenBar /\ OpenBar' = OpenBar /\ audio' = audio BY <2>1, <2>3 DEF OpenBar
  <2>7. \E t \in Service!Transcripts(audio[c]) :
           AnswerBar' = [AnswerBar EXCEPT ![c] = {Service!Answered(t)}]
    BY <2>4, <2>5
  <2> QED BY <2>2, <2>6, <2>7 DEF Service!Serve
<1>6. ASSUME NEW c \in Callers, Return(c) PROVE Service!Take(c)
  <2>1. /\ pc[c] \in {"answered", "refused"} /\ c \in Actors
        /\ UNCHANGED <<ptr, tasks>> /\ pc' = [pc EXCEPT ![c] = "idle"]
        /\ audio' = [audio EXCEPT ![c].speech = 0]
        /\ \A d \in Callers : d # c => text'[d] = text[d]
    BY <1>0, <1>6, <1>a DEF Return, TypeOK
  <2>2. WaitingBar' = WaitingBar BY <1>0, <2>1, WaitingKeep DEF TypeOK, OnThread
  <2>3. AnswerBar[c] # {} BY <2>1 DEF AnswerBar
  <2>4. AnswerBar' = [AnswerBar EXCEPT ![c] = {}]
    BY <1>0, <2>1 DEF AnswerBar, TypeOK, Actors
  <2> QED BY <2>1, <2>2, <2>3, <2>4 DEF Service!Take, OpenBar
<1>7. ASSUME NEW r \in Closers, SubmitRelease(r) PROVE Service!AskToClose(r)
  <2>1. pc[r] = "idle" /\ r \in Actors /\ pc' = [pc EXCEPT ![r] = "queued"]
        /\ tasks' = Append(tasks, r) /\ UNCHANGED <<ptr, audio, text>>
    BY <1>7, <1>a DEF SubmitRelease
  <2>2. ~Service!IsWaiting(r) BY <2>1, IdleNotWaiting
  <2>3. WaitingBar' = Append(WaitingBar, r) BY <1>0, <2>1, WaitingAdd
  <2>4. AnswerBar' = AnswerBar BY <1>0, <2>1, AnswerKeep DEF TypeOK
  <2> QED BY <2>1, <2>2, <2>3, <2>4 DEF Service!AskToClose, OpenBar
<1>8. ASSUME NEW r \in Closers, BeginRelease(r)
      PROVE  Service!Close(r) \/ UNCHANGED Service!tsVars
  <2>1. /\ Dequeue(r) /\ r \in Actors /\ UNCHANGED <<ptr, audio, text>>
        /\ pc' = [pc EXCEPT ![r] = IF ptr # 0 THEN "freeing" ELSE "released"]
    BY <1>8, <1>a DEF BeginRelease
  <2>2. pc[r] = "queued" BY <1>0, <2>1, QueueTake
  <2>3. AnswerBar' = AnswerBar BY <1>0, <2>1, <2>2, AnswerKeep DEF TypeOK
  <2>4. CASE ptr # 0
    <3>1. pc' = [pc EXCEPT ![r] = "freeing"] BY <2>1, <2>4
    <3>2. WaitingBar' = WaitingBar
      BY <1>0, <2>1, <3>1, WaitingTake DEF OnThread
    <3> QED BY <2>1, <2>3, <3>2 DEF Service!tsVars, OpenBar
  <2>5. CASE ptr = 0
    <3>1. pc' = [pc EXCEPT ![r] = "released"] BY <2>1, <2>5
    <3>2. Service!ServeNext(r)
      <4>1. "released" \notin OnThread BY DEF OnThread
      <4>2. /\ WaitingBar = tasks /\ tasks # <<>> /\ r = Head(tasks)
            /\ WaitingBar' = Tail(tasks)
        BY <1>0, <2>1, <3>1, <4>1, WaitingTake
      <4> QED BY <4>2 DEF Service!ServeNext
    <3> QED BY <2>1, <2>3, <2>5, <3>2 DEF Service!Close, OpenBar
  <2> QED BY <1>0, <2>4, <2>5 DEF TypeOK
<1>9. ASSUME NEW r \in Closers, ClearPtr(r) PROVE Service!Close(r)
  <2>1. /\ pc[r] = "freeing" /\ r \in Actors /\ ptr' = 0
        /\ UNCHANGED <<tasks, audio, text>> /\ pc' = [pc EXCEPT ![r] = "released"]
    BY <1>9, <1>a DEF ClearPtr
  <2>2. Service!ServeNext(r)
    BY <1>0, <2>1, WaitingEnd DEF OnThread, Service!ServeNext
  <2>3. AnswerBar' = AnswerBar BY <1>0, <2>1, AnswerKeep DEF TypeOK
  <2> QED BY <2>1, <2>2, <2>3 DEF Service!Close, OpenBar
<1>10. CASE UNCHANGED wcVars
  <2>1. UNCHANGED <<ptr, tasks, pc, audio, text>> BY <1>10 DEF wcVars
  <2> QED BY <2>1 DEF Service!tsVars, OpenBar, WaitingBar, AnswerBar
<1> QED
  BY <1>1, <1>2, <1>3, <1>4, <1>5, <1>6, <1>7, <1>8, <1>9, <1>10
     DEF WCNext, Work, Service!TSNext, Service!ServeAny

\* Safety part of ImplementsService: transcribeData and release look
\* indivisible and are served in the order of the calls.
THEOREM WCImplementsService ==
    WCSpec => Service!TSInit /\ [][Service!TSNext]_(Service!tsVars)
<1>1. WCInit => Service!TSInit
  <2> SUFFICES ASSUME WCInit PROVE Service!TSInit OBVIOUS
  <2>1. WaitingBar = <<>> BY DEF WCInit, WaitingBar, OnThread
  <2>2. AnswerBar = [c \in Callers |-> {}] BY DEF WCInit, AnswerBar, Actors
  <2>3. /\ audio \in [Callers -> Service!Audios]
        /\ \A c \in Callers : audio[c].by = c /\ audio[c].speech = 0
    BY DEF WCInit, Service!Audios
  <2> QED BY <2>1, <2>2, <2>3 DEF WCInit, Service!TSInit, OpenBar
<1> QED BY <1>1, WCInvariant, StepService, PTL DEF WCSpec

-----------------------------------------------------------------------------
(* What EveryCallSettles rests on.                                         *)

\* Who waits has a task in the queue.
AllQueued ==
    \A p \in Actors : pc[p] = "queued" => \E i \in 1..Len(tasks) : tasks[i] = p

\* How many steps the task on the thread still takes at most.
Remaining(p) ==
    CASE pc[p] = "inferring" -> MaxSegments + 2
      [] pc[p] = "reading"   -> (count[p] - Len(text[p])) + 1
      [] OTHER               -> 1

\* Whether the thread takes the oldest task.
Dequeues == \E p \in Actors : Dequeue(p)

\* A step of the executor brings the task on the thread closer to its end or ends
\* it, and takes the oldest task when there is none; whatever callers and closers
\* do, they neither hold it up nor overtake who waits.
CallsDescend ==
    /\ \A p \in Actors : pc[p] \in OnThread =>
          IF Work
          THEN \/ pc'[p] \in {"answered", "released"}
               \/ pc'[p] \in OnThread /\ Remaining(p)' < Remaining(p)
          ELSE pc'[p] = pc[p] /\ Remaining(p)' = Remaining(p)
    /\ ThreadFree /\ Work => Dequeues
    /\ \A i \in 2..Len(tasks) :
          LET k == IF Dequeues THEN i - 1 ELSE i IN
          k \in 1..Len(tasks') /\ tasks'[k] = tasks[i]

\* What a step does to the queue.
LEMMA QueueSteps ==
    ASSUME TypeOK, [WCNext]_wcVars
    PROVE  \/ ~Dequeues /\ tasks' = tasks /\ \A p \in Actors : pc'[p] = "queued" => pc[p] = "queued"
           \/ ~Dequeues /\ \E p \in Actors : /\ tasks' = Append(tasks, p)
                                             /\ pc' = [pc EXCEPT ![p] = "queued"]
           \/ \E p \in Actors : /\ Dequeue(p) /\ pc'[p] # "queued"
                                /\ \A q \in Actors : q # p => pc'[q] = pc[q]
<1> USE DEF TypeOK
<1>a. \A p \in Callers \cup Closers : p \in Actors BY DEF Actors
<1>0. ASSUME tasks' = tasks \/ \E p \in Actors : tasks' = Append(tasks, p) PROVE ~Dequeues
  <2> SUFFICES ASSUME NEW q \in Actors, Dequeue(q) PROVE FALSE BY DEF Dequeues
  <2>1. tasks # <<>> /\ tasks' = Tail(tasks) BY DEF Dequeue
  <2>2. Len(tasks) \in Nat /\ Len(tasks') = Len(tasks) - 1 BY <2>1
  <2>3. Len(tasks') = Len(tasks) \/ Len(tasks') = Len(tasks) + 1 BY <1>0
  <2> QED BY <2>2, <2>3
<1>1. ASSUME NEW c \in Callers, Submit(c) PROVE tasks' = Append(tasks, c) /\ pc' = [pc EXCEPT ![c] = "queued"]
  BY <1>1 DEF Submit
<1>2. ASSUME NEW r \in Closers, SubmitRelease(r) PROVE tasks' = Append(tasks, r) /\ pc' = [pc EXCEPT ![r] = "queued"]
  BY <1>2 DEF SubmitRelease
<1>3. ASSUME NEW c \in Callers, Begin(c)
      PROVE  /\ Dequeue(c) /\ pc'[c] # "queued"
             /\ \A q \in Actors : q # c => pc'[q] = pc[q]
  BY <1>a, <1>3 DEF Begin
<1>4. ASSUME NEW r \in Closers, BeginRelease(r)
      PROVE  /\ Dequeue(r) /\ pc'[r] # "queued"
             /\ \A q \in Actors : q # r => pc'[q] = pc[q]
  BY <1>a, <1>4 DEF BeginRelease
<1>5. ASSUME NEW c \in Callers, FullTranscribe(c) \/ AppendSegment(c) \/ Answer(c) \/ Return(c)
      PROVE  tasks' = tasks /\ \A p \in Actors : pc'[p] = "queued" => pc[p] = "queued"
  BY <1>a, <1>5 DEF FullTranscribe, AppendSegment, Answer, Return
<1>6. ASSUME NEW r \in Closers, ClearPtr(r)
      PROVE  tasks' = tasks /\ \A p \in Actors : pc'[p] = "queued" => pc[p] = "queued"
  BY <1>a, <1>6 DEF ClearPtr
<1>7. CASE UNCHANGED wcVars BY <1>0, <1>7 DEF wcVars
<1> QED
  BY <1>a, <1>0, <1>1, <1>2, <1>3, <1>4, <1>5, <1>6, <1>7 DEF WCNext, Work

\* Nobody who waits falls out of the queue.
LEMMA StepQueued == IInv /\ AllQueued /\ [WCNext]_wcVars => AllQueued'
<1> SUFFICES ASSUME IInv, AllQueued, [WCNext]_wcVars,
                    NEW p \in Actors, pc'[p] = "queued"
             PROVE  \E i \in 1..Len(tasks') : tasks'[i] = p
  BY DEF AllQueued
<1>t. tasks \in Seq(Actors) /\ DOMAIN pc = Actors BY DEF IInv, TypeOK
<1>l. Len(tasks) \in Nat BY <1>t
<1>0. TypeOK /\ tasks \in Seq(Actors) /\ Len(tasks) \in Nat /\ DOMAIN pc = Actors
  BY <1>t, <1>l DEF IInv
<1>1. CASE tasks' = tasks /\ pc[p] = "queued" BY <1>1 DEF AllQueued
<1>2. ASSUME NEW q \in Actors, tasks' = Append(tasks, q), pc' = [pc EXCEPT ![q] = "queued"]
      PROVE  \E i \in 1..Len(tasks') : tasks'[i] = p
  <2>1. /\ Len(tasks') = Len(tasks) + 1 /\ tasks'[Len(tasks) + 1] = q
        /\ \A i \in 1..Len(tasks) : tasks'[i] = tasks[i]
    BY <1>0, <1>2
  <2>2. CASE p = q
    <3>1. Len(tasks) + 1 \in 1..Len(tasks') BY <1>0, <2>1
    <3> QED BY <2>1, <2>2, <3>1
  <2>3. CASE p # q
    <3>1. pc[p] = "queued" BY <1>0, <1>2, <2>3
    <3>2. PICK i \in 1..Len(tasks) : tasks[i] = p BY <3>1 DEF AllQueued
    <3>3. i \in 1..Len(tasks') BY <1>0, <2>1
    <3> QED BY <2>1, <3>2, <3>3
  <2> QED BY <2>2, <2>3
<1>3. ASSUME NEW q \in Actors, Dequeue(q), p # q, pc'[p] = pc[p]
      PROVE  \E i \in 1..Len(tasks') : tasks'[i] = p
  <2>1. PICK i \in 1..Len(tasks) : tasks[i] = p BY <1>3 DEF AllQueued
  <2>2. tasks # <<>> /\ tasks[1] = q /\ tasks' = Tail(tasks) BY <1>0, <1>3 DEF Dequeue
  <2>3. i # 1 BY <1>3, <2>1, <2>2
  <2>4. /\ i - 1 \in 1..Len(tasks') /\ tasks'[i - 1] = tasks[i]
    BY <1>0, <2>2, <2>3
  <2> QED BY <2>1, <2>4
<1> QED BY <1>0, <1>1, <1>2, <1>3, QueueSteps

\* The task on the thread.
LEMMA ThreadDescends ==
    ASSUME IInv, [WCNext]_wcVars, NEW p \in Actors, pc[p] \in OnThread
    PROVE  IF Work
           THEN \/ pc'[p] \in {"answered", "released"}
                \/ pc'[p] \in OnThread /\ Remaining(p)' < Remaining(p)
           ELSE pc'[p] = pc[p] /\ Remaining(p)' = Remaining(p)
<1>0. /\ DOMAIN pc = Actors /\ ~ThreadFree
      /\ \A q \in Actors : pc[q] \in OnThread => q = p
      /\ \A q \in Actors : ~Dequeue(q)
      /\ \A q \in Callers \cup Closers : q \in Actors
      /\ "inferring" \in OnThread /\ "reading" \in OnThread /\ "freeing" \in OnThread
  BY DEF IInv, TypeOK, ThreadOK, ThreadFree, Dequeue, OnThread, Actors
<1>1. CASE Work
  <2>1. ASSUME NEW c \in Callers, FullTranscribe(c)
        PROVE  pc'[p] \in OnThread /\ Remaining(p)' < Remaining(p)
    <3>1. p = c /\ pc[p] = "inferring" /\ pc'[p] = "reading" BY <1>0, <2>1 DEF FullTranscribe
    <3>2. PICK r \in {0, 1} : count' = [count EXCEPT ![c] = SegmentsFound(c, r)]
      BY <2>1 DEF FullTranscribe
    <3>3. SegmentsFound(c, r) \in 0..MaxSegments BY SegmentsFoundType DEF IInv
    <3>4. count'[c] \in 0..MaxSegments BY <3>2, <3>3 DEF IInv, TypeOK
    <3>5. text'[c] = <<>> BY <2>1, <3>1 DEF FullTranscribe, IInv, TextOK, TextOKOf
    <3>6. Len(text'[c]) = 0 BY <3>5
    <3>7. Remaining(p)' = (count'[p] - Len(text'[p])) + 1 BY <3>1 DEF Remaining
    <3>8. Remaining(p) = MaxSegments + 2 BY <3>1 DEF Remaining
    <3> QED BY <1>0, <3>1, <3>4, <3>6, <3>7, <3>8
  <2>2. ASSUME NEW c \in Callers, AppendSegment(c)
        PROVE  pc'[p] \in OnThread /\ Remaining(p)' < Remaining(p)
    <3>1. p = c /\ pc[p] = "reading" /\ pc' = pc /\ count' = count
      BY <1>0, <2>2 DEF AppendSegment
    <3> DEFINE T == [audio : Audios \cup {NoAudio}, index : Nat]
               sg == Segment(segments.audio, Len(text[c]) + 1)
    <3>a. text \in [Callers -> Seq(T)] /\ count[c] \in Nat
          /\ segments.audio \in Audios \cup {NoAudio}
      <4>1. text \in [Callers -> Seq(T)] BY DEF IInv, TypeOK
      <4>2. count[c] \in 0..MaxSegments BY DEF IInv, TypeOK
      <4>3. count[c] \in Nat BY <4>2
      <4>4. segments.audio \in Audios \cup {NoAudio} BY DEF IInv, TypeOK
      <4> QED BY <4>1, <4>3, <4>4
    <3>b. text' = [text EXCEPT ![c] = Append(text[c], sg)] BY <2>2 DEF AppendSegment
    <3>c. \A x \in Audios \cup {NoAudio}, n \in Nat : Segment(x, n) \in T BY DEF Segment
    <3>d. sg = Segment(segments.audio, Len(text[c]) + 1) OBVIOUS
    <3> HIDE DEF T, sg
    <3>e. text[c] \in Seq(T) /\ text'[c] = Append(text[c], sg) BY <3>a, <3>b
    <3>f. Len(text[c]) \in Nat BY <3>e
    <3>g. sg \in T BY <3>a, <3>c, <3>d, <3>f
    <3>3. Len(text'[c]) = Len(text[c]) + 1 BY <3>e, <3>g
    <3>4. /\ Remaining(p)' = (count[p] - Len(text'[p])) + 1
          /\ Remaining(p) = (count[p] - Len(text[p])) + 1
      BY <3>1 DEF Remaining
    <3> QED BY <1>0, <3>1, <3>a, <3>f, <3>3, <3>4
  <2>3. ASSUME NEW c \in Callers, Answer(c) PROVE pc'[p] = "answered"
    BY <1>0, <2>3 DEF Answer
  <2>4. ASSUME NEW r \in Closers, ClearPtr(r) PROVE pc'[p] = "released"
    BY <1>0, <2>4 DEF ClearPtr
  <2> QED BY <1>0, <1>1, <2>1, <2>2, <2>3, <2>4 DEF Work, Begin, BeginRelease
<1>2. CASE ~Work
  <2>1. pc'[p] = pc[p]
        /\ (p \in Callers => count'[p] = count[p] /\ text'[p] = text[p])
    <3>1. ASSUME NEW c \in Callers, Submit(c) \/ Return(c)
          PROVE  pc'[p] = pc[p] /\ (p \in Callers => count'[p] = count[p] /\ text'[p] = text[p])
      <4>1. c # p BY <1>0, <3>1 DEF Submit, Return, OnThread
      <4> QED BY <1>0, <3>1, <4>1 DEF Submit, Return, IInv, TypeOK
    <3>2. ASSUME NEW r \in Closers, SubmitRelease(r)
          PROVE  pc'[p] = pc[p] /\ (p \in Callers => count'[p] = count[p] /\ text'[p] = text[p])
      <4>1. r # p BY <1>0, <3>2 DEF SubmitRelease, OnThread
      <4> QED BY <1>0, <3>2, <4>1 DEF SubmitRelease
    <3> QED BY <1>2, <3>1, <3>2 DEF WCNext, wcVars
  <2>2. p \notin Callers => pc[p] \notin {"inferring", "reading"}
    BY DEF IInv, ThreadOK, Actors
  <2>3. Remaining(p)' = Remaining(p) BY <2>1, <2>2 DEF Remaining
  <2> QED BY <1>2, <2>1, <2>3
<1> QED BY <1>1, <1>2

\* Who waits moves up when the oldest task is taken, and only then.
LEMMA QueueDescends ==
    ASSUME IInv, [WCNext]_wcVars, NEW i \in 2..Len(tasks)
    PROVE  LET k == IF Dequeues THEN i - 1 ELSE i IN
           k \in 1..Len(tasks') /\ tasks'[k] = tasks[i]
<1>t. tasks \in Seq(Actors) BY DEF IInv, TypeOK
<1>l. Len(tasks) \in Nat BY <1>t
<1>0. TypeOK /\ tasks \in Seq(Actors) /\ Len(tasks) \in Nat BY <1>t, <1>l DEF IInv
<1>1. CASE ~Dequeues /\ tasks' = tasks BY <1>0, <1>1
<1>2. ASSUME NEW p \in Actors, ~Dequeues, tasks' = Append(tasks, p)
      PROVE  i \in 1..Len(tasks') /\ tasks'[i] = tasks[i]
  BY <1>0, <1>2
<1>3. ASSUME NEW p \in Actors, Dequeue(p)
      PROVE  i - 1 \in 1..Len(tasks') /\ tasks'[i - 1] = tasks[i]
  <2>1. tasks # <<>> /\ tasks' = Tail(tasks) BY <1>3 DEF Dequeue
  <2> QED BY <1>0, <2>1
<1> QED BY <1>0, <1>1, <1>2, <1>3, QueueSteps DEF Dequeues

\* Who calls or releases has a task until it is taken.
THEOREM WCAllQueued == WCSpec => []AllQueued
<1>1. WCInit => AllQueued BY DEF WCInit, AllQueued
<1> QED BY <1>1, StepQueued, WCInvariant, PTL DEF WCSpec

\* The safety core of EveryCallSettles: with WF(Work) a call is over after
\* finitely many steps of the executor, its place in the queue and Remaining
\* say how many, whatever the others keep queueing.
THEOREM WCCallsDescend == WCSpec => [][CallsDescend]_wcVars
<1>1. IInv /\ [WCNext]_wcVars => CallsDescend
  <2> SUFFICES ASSUME IInv, [WCNext]_wcVars PROVE CallsDescend OBVIOUS
  <2>1. ThreadFree /\ Work => Dequeues
    <3> SUFFICES ASSUME ThreadFree, Work PROVE Dequeues OBVIOUS
    <3>1. \A c \in Callers : pc[c] \notin {"inferring", "reading"}
      BY DEF ThreadFree, OnThread, Actors
    <3>2. \A r \in Closers : pc[r] # "freeing" BY DEF ThreadFree, OnThread, Actors
    <3> QED BY <3>1, <3>2 DEF Work, Begin, BeginRelease, FullTranscribe, AppendSegment,
                              Answer, ClearPtr, Dequeues, Actors
  <2> QED BY <2>1, ThreadDescends, QueueDescends DEF CallsDescend
<1>2. CallsDescend => [CallsDescend]_wcVars OBVIOUS
<1> QED BY <1>1, <1>2, WCInvariant, PTL DEF WCSpec

=============================================================================
