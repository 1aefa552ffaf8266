----------------------- MODULE AndroidRecorder_proofs -----------------------
(***************************************************************************)
(* A user who presses Start and Stop in turns, for any number of presses   *)
(* and however they fall together with the executor, the threads and the   *)
(* main thread.                                                            *)
(***************************************************************************)
EXTENDS AndroidRecorder, FiniteSetTheorems, SequenceTheorems, TLAPS

USE PressesAssumption

Task == [kind : {"start", "stop"}, id : Ids]

\* The presses are numbered in their order, the last Start made outFile, and
\* only what was pressed is queued.
PressedOK ==
    /\ Starts \in 0..Presses /\ Pressed(start) = 1..Starts
    /\ Stops \in 0..Presses /\ Pressed(stop) = 1..Stops
    /\ outFile = Starts
    /\ \A i \in 1..Len(tasks) :
          tasks[i].id <= (IF tasks[i].kind = "start" THEN Starts ELSE Stops)

\* The place of a task among all tasks of a user who presses in turns, and how
\* many tasks the executor has taken.
Order(task) == IF task.kind = "start" THEN 2 * task.id - 1 ELSE 2 * task.id
Taken == (Starts + Stops) - Len(tasks)

\* The executor takes the tasks in turns.
QueueOK ==
    /\ Starts \in {Stops, Stops + 1} /\ Taken \in Nat
    /\ \A i \in 1..Len(tasks) : Order(tasks[i]) = Taken + i

\* Between the task of a start and the one of its stop the field holds its
\* thread.
FieldOK ==
    \A p \in Ids :
        /\ thread[p] = "none" <=> Taken < 2 * p - 1
        /\ Taken = 2 * p - 1 => recorder = p

\* How far each stop is.  While it waits in join() nothing else is taken.
StopOK(q) ==
    /\ stop[q] \in {"none", "queued"} <=> Taken < 2 * q
    /\ Taken >= 2 * q => joined[q] = q /\ q \in quit
    /\ stop[q] = "joining" => recorder = q /\ Taken = 2 * q
    /\ stop[q] \in {"resuming", "done"} => thread[q] = "finished"
    /\ stop[q] = "done" => result[q] \in q..Starts

TurnsOK == QueueOK /\ FieldOK /\ \A q \in Ids : StopOK(q)

IInv == TypeOK /\ PressedOK /\ (inTurns => TurnsOK)

-----------------------------------------------------------------------------
LEMMA IntervalSize == ASSUME NEW n \in Nat PROVE Cardinality(1..n) = n
BY FS_Interval

LEMMA Appended ==
    ASSUME TypeOK, NEW t \in Task, tasks' = Append(tasks, t)
    PROVE  /\ tasks' \in Seq(Task) /\ Len(tasks') = Len(tasks) + 1 /\ Len(tasks) \in Nat
           /\ tasks'[Len(tasks) + 1] = t
           /\ \A i \in 1..Len(tasks) : tasks'[i] = tasks[i]
BY DEF TypeOK, Task

\* What is taken is the first task; the others move up.
LEMMA TakenTask ==
    ASSUME TypeOK, NEW kind, NEW i \in Ids, Take(kind, i)
    PROVE  /\ tasks' \in Seq(Task) /\ Len(tasks') = Len(tasks) - 1 /\ Len(tasks) \in Nat \ {0}
           /\ tasks[1] = [kind |-> kind, id |-> i]
           /\ \A k \in 1..Len(tasks') : tasks'[k] = tasks[k + 1] /\ k + 1 \in 1..Len(tasks)
<1>1. tasks \in Seq(Task) /\ tasks # <<>> BY DEF TypeOK, Take, Task
<1>2. /\ tasks' = Tail(tasks) /\ Head(tasks) = [kind |-> kind, id |-> i] BY DEF Take
<1> HIDE DEF Task
<1>3. /\ tasks' \in Seq(Task) /\ Len(tasks') = Len(tasks) - 1
      /\ \A k \in 1..Len(tasks') : tasks'[k] = tasks[k + 1]
  BY <1>1, <1>2, HeadTailProperties
<1>4. Len(tasks) \in Nat \ {0} BY <1>1, EmptySeq, LenProperties
<1> QED BY <1>1, <1>2, <1>3, <1>4

LEMMA TypeInit == Init => TypeOK
BY DEF Init, TypeOK, Ids, NoneOr

LEMMA TypeKeeps == ASSUME TypeOK, PressedOK, [Next]_vars PROVE TypeOK'
<1> USE DEF NoneOr
<1>0. \A t \in Task : Append(tasks, t) \in Seq(Task) BY DEF TypeOK, Task
<1>1. ASSUME PressStart PROVE TypeOK'
  <2>1. Starts + 1 \in Ids BY <1>1 DEF PressStart, PressedOK, Ids
  <2>2. tasks' \in Seq(Task) BY <1>0, <1>1, <2>1 DEF PressStart, Task
  <2> QED BY <1>1, <2>1, <2>2 DEF PressStart, TypeOK, Task
<1>2. ASSUME PressStop PROVE TypeOK'
  <2>1. Stops + 1 \in Ids BY <1>2 DEF PressStop, PressedOK, Ids
  <2>2. tasks' \in Seq(Task) BY <1>0, <1>2, <2>1 DEF PressStop, Task
  <2> QED BY <1>2, <2>1, <2>2 DEF PressStop, TypeOK, Task
<1>3. ASSUME NEW p \in Ids, RunStart(p) PROVE TypeOK'
  <2>1. tasks' \in Seq(Task) BY <1>3, TakenTask DEF RunStart
  <2> QED BY <1>3, <2>1 DEF RunStart, TypeOK, Task
<1>4. ASSUME NEW q \in Ids, RunStop(q) PROVE TypeOK'
  <2>1. tasks' \in Seq(Task) BY <1>4, TakenTask DEF RunStop
  <2> QED BY <1>4, <2>1 DEF RunStop, TypeOK, Task
<1>5. ASSUME NEW q \in Ids, Joined(q) PROVE TypeOK' BY <1>5 DEF Joined, TypeOK
<1>6. ASSUME NEW q \in Ids, StopReturns(q) PROVE TypeOK' BY <1>6 DEF StopReturns, TypeOK
<1>7. ASSUME NEW p \in Ids, CaptureFails(p) PROVE TypeOK'
  BY <1>7 DEF CaptureFails, Finish, TypeOK
<1>8. ASSUME NEW p \in Ids, SeesQuit(p) PROVE TypeOK' BY <1>8 DEF SeesQuit, TypeOK
<1>9. ASSUME NEW p \in Ids, Encode(p) PROVE TypeOK' BY <1>9 DEF Encode, Finish, TypeOK
<1>10. ASSUME UNCHANGED vars PROVE TypeOK' BY <1>10 DEF vars, TypeOK
<1> QED BY <1>1, <1>2, <1>3, <1>4, <1>5, <1>6, <1>7, <1>8, <1>9, <1>10
    DEF Next, Executor, ThreadStep

-----------------------------------------------------------------------------
\* Init presses nothing.
LEMMA PressedInit == Init => PressedOK
<1> SUFFICES ASSUME Init PROVE PressedOK OBVIOUS
<1>1. Pressed(start) = {} /\ Pressed(stop) = {} BY DEF Init, Pressed
<1>2. Starts = 0 /\ Stops = 0 BY <1>1, FS_EmptySet DEF Starts, Stops
<1> QED BY <1>1, <1>2 DEF PressedOK, Init

\* The states of the presses may change, but not which ones were pressed.
LEMMA SamePresses ==
    ASSUME PressedOK, UNCHANGED outFile,
           Pressed(start') = Pressed(start), Pressed(stop') = Pressed(stop)
    PROVE  Starts' = Starts /\ Stops' = Stops
BY DEF Starts, Stops, Pressed

LEMMA StartPressed ==
    ASSUME TypeOK, PressedOK, PressStart
    PROVE  PressedOK' /\ Starts' = Starts + 1 /\ Stops' = Stops
<1>0. Starts \in Nat /\ Stops \in Nat BY DEF PressedOK
<1>a. tasks \in Seq(Task) BY DEF TypeOK, Task
<1> DEFINE p == Starts + 1
<1>1. p \in Ids /\ [kind |-> "start", id |-> p] \in Task
  BY <1>0 DEF PressStart, PressedOK, Ids, Task
<1>2. Pressed(start') = 1..p BY <1>0, <1>1 DEF PressStart, PressedOK, Pressed, TypeOK
<1>3. Starts' = p
  <2>1. Starts' = Cardinality(Pressed(start')) BY DEF Starts, Pressed
  <2>2. Cardinality(1..p) = p BY <1>0, IntervalSize
  <2> QED BY <1>2, <2>1, <2>2
<1>4. Stops' = Stops /\ Pressed(stop)' = Pressed(stop) BY DEF PressStart, Stops, Pressed
<1>5. Pressed(start)' = 1..p BY <1>2 DEF Pressed
<1>6. tasks' = Append(tasks, [kind |-> "start", id |-> p]) /\ outFile' = p
  BY DEF PressStart
<1>7. ASSUME NEW i \in 1..Len(tasks')
      PROVE  tasks'[i].id <= (IF tasks'[i].kind = "start" THEN Starts' ELSE Stops')
  <2>1. CASE i = Len(tasks) + 1 BY <1>0, <1>1, <1>3, <1>6, <2>1, Appended
  <2>2. CASE i \in 1..Len(tasks)
    <3>1. tasks'[i] = tasks[i] BY <1>1, <1>6, <2>2, Appended
    <3>2. tasks[i] \in Task BY <1>a, <2>2
    <3> QED BY <1>0, <1>3, <1>4, <2>2, <3>1, <3>2 DEF PressedOK, Task, Ids
  <2> QED BY <1>1, <1>6, <2>1, <2>2, Appended
<1> QED BY <1>1, <1>3, <1>4, <1>5, <1>6, <1>7 DEF PressedOK, Ids

LEMMA StopPressed ==
    ASSUME TypeOK, PressedOK, PressStop
    PROVE  PressedOK' /\ Stops' = Stops + 1 /\ Starts' = Starts
<1>0. Starts \in Nat /\ Stops \in Nat BY DEF PressedOK
<1>a. tasks \in Seq(Task) BY DEF TypeOK, Task
<1> DEFINE q == Stops + 1
<1>1. q \in Ids /\ [kind |-> "stop", id |-> q] \in Task
  BY <1>0 DEF PressStop, PressedOK, Ids, Task
<1>2. Pressed(stop') = 1..q BY <1>0, <1>1 DEF PressStop, PressedOK, Pressed, TypeOK
<1>3. Stops' = q
  <2>1. Stops' = Cardinality(Pressed(stop')) BY DEF Stops, Pressed
  <2>2. Cardinality(1..q) = q BY <1>0, IntervalSize
  <2> QED BY <1>2, <2>1, <2>2
<1>4. Starts' = Starts /\ Pressed(start)' = Pressed(start) BY DEF PressStop, Starts, Pressed
<1>5. Pressed(stop)' = 1..q BY <1>2 DEF Pressed
<1>6. tasks' = Append(tasks, [kind |-> "stop", id |-> q]) /\ outFile' = outFile
  BY DEF PressStop
<1>7. ASSUME NEW i \in 1..Len(tasks')
      PROVE  tasks'[i].id <= (IF tasks'[i].kind = "start" THEN Starts' ELSE Stops')
  <2>1. CASE i = Len(tasks) + 1 BY <1>0, <1>1, <1>3, <1>6, <2>1, Appended
  <2>2. CASE i \in 1..Len(tasks)
    <3>1. tasks'[i] = tasks[i] BY <1>1, <1>6, <2>2, Appended
    <3>2. tasks[i] \in Task BY <1>a, <2>2
    <3> QED BY <1>0, <1>3, <1>4, <2>2, <3>1, <3>2 DEF PressedOK, Task, Ids
  <2> QED BY <1>1, <1>6, <2>1, <2>2, Appended
<1> QED BY <1>1, <1>3, <1>4, <1>5, <1>6, <1>7 DEF PressedOK, Ids

\* Every other step leaves outFile alone and moves presses that were made.
Moves == Executor \/ (\E q \in Ids : StopReturns(q)) \/ (\E p \in Ids : ThreadStep(p))

LEMMA OthersPress ==
    ASSUME TypeOK, PressedOK, Moves \/ UNCHANGED vars
    PROVE  PressedOK' /\ Starts' = Starts /\ Stops' = Stops
<1> DEFINE Kept == PressedOK' /\ Starts' = Starts /\ Stops' = Stops
<1>0. Starts \in Nat /\ Stops \in Nat BY DEF PressedOK
<1>3. ASSUME NEW kind \in {"start", "stop"}, NEW i \in Ids, Take(kind, i),
             RunStart(i) \/ RunStop(i), UNCHANGED outFile,
             Pressed(start') = Pressed(start), Pressed(stop') = Pressed(stop)
      PROVE  Kept
  <2>1. Starts' = Starts /\ Stops' = Stops BY <1>3, SamePresses
  <2>2. /\ \A k \in 1..Len(tasks') : tasks'[k] = tasks[k + 1] /\ k + 1 \in 1..Len(tasks)
    BY <1>3, TakenTask
  <2>3. Pressed(start)' = Pressed(start) /\ Pressed(stop)' = Pressed(stop) BY <1>3 DEF Pressed
  <2> QED BY <1>3, <2>1, <2>2, <2>3 DEF PressedOK
<1>4. ASSUME NEW i \in Ids, RunStart(i) PROVE Kept
  <2>1. Take("start", i) BY <1>4 DEF RunStart
  <2>2. i <= Starts
    <3>1. tasks[1] = [kind |-> "start", id |-> i] /\ 1 \in 1..Len(tasks) BY <2>1, TakenTask
    <3> QED BY <3>1 DEF PressedOK
  <2>3. i \in Pressed(start) BY <1>0, <2>2 DEF PressedOK, Ids
  <2>4. Pressed(start') = Pressed(start) BY <1>4, <2>3 DEF RunStart, Pressed, TypeOK
  <2> QED BY <1>3, <1>4, <2>1, <2>4 DEF RunStart
<1>5. ASSUME NEW i \in Ids, RunStop(i) PROVE Kept
  <2>1. Take("stop", i) BY <1>5 DEF RunStop
  <2>2. i <= Stops
    <3>1. tasks[1] = [kind |-> "stop", id |-> i] /\ 1 \in 1..Len(tasks) BY <2>1, TakenTask
    <3> QED BY <3>1 DEF PressedOK
  <2>3. i \in Pressed(stop) BY <1>0, <2>2 DEF PressedOK, Ids
  <2>4. Pressed(stop') = Pressed(stop) BY <1>5, <2>3 DEF RunStop, Pressed, TypeOK
  <2> QED BY <1>3, <1>5, <2>1, <2>4 DEF RunStop
<1>6. ASSUME NEW q \in Ids, Joined(q) \/ StopReturns(q) PROVE Kept
  <2>1. Pressed(stop') = Pressed(stop)
    BY <1>6 DEF Joined, StopReturns, Pressed, TypeOK
  <2>2. UNCHANGED <<outFile, tasks, start>> BY <1>6 DEF Joined, StopReturns
  <2>3. Starts' = Starts /\ Stops' = Stops BY <2>1, <2>2, SamePresses
  <2>4. Pressed(start)' = Pressed(start) /\ Pressed(stop)' = Pressed(stop)
    BY <2>1, <2>2 DEF Pressed
  <2> QED BY <2>2, <2>3, <2>4 DEF PressedOK
<1>7. ASSUME UNCHANGED <<outFile, tasks, start, stop>> PROVE Kept
  <2>1. Starts' = Starts /\ Stops' = Stops BY <1>7 DEF Starts, Stops, Pressed
  <2>2. Pressed(start)' = Pressed(start) /\ Pressed(stop)' = Pressed(stop)
    BY <1>7 DEF Pressed
  <2> QED BY <1>7, <2>1, <2>2 DEF PressedOK
<1>8. ASSUME NEW p \in Ids, ThreadStep(p) PROVE Kept
  BY <1>7, <1>8 DEF ThreadStep, CaptureFails, SeesQuit, Encode, Finish
<1>9. ASSUME UNCHANGED vars PROVE Kept BY <1>7, <1>9 DEF vars
<1> QED BY <1>4, <1>5, <1>6, <1>8, <1>9 DEF Moves, Executor

LEMMA PressedKeeps == ASSUME TypeOK, PressedOK, [Next]_vars PROVE PressedOK'
BY StartPressed, StopPressed, OthersPress DEF Next, Moves

-----------------------------------------------------------------------------
(* Pressed in turns.                                                       *)

LEMMA TurnsInit == Init => TurnsOK
<1> SUFFICES ASSUME Init PROVE TurnsOK OBVIOUS
<1>1. Starts = 0 /\ Stops = 0
  <2>1. Pressed(start) = {} /\ Pressed(stop) = {} BY DEF Init, Pressed
  <2> QED BY <2>1, FS_EmptySet DEF Starts, Stops
<1>2. Taken = 0
  <2>1. Len(tasks) = 0 BY EmptySeq DEF Init
  <2> QED BY <1>1, <2>1 DEF Taken
<1> QED BY <1>1, <1>2 DEF Init, TurnsOK, QueueOK, FieldOK, StopOK, Ids

LEMMA TurnsOnPress ==
    ASSUME IInv, inTurns', PressStart \/ PressStop
    PROVE  TurnsOK'
<1>0. TypeOK /\ PressedOK BY DEF IInv
<1>1. /\ inTurns /\ UNCHANGED <<recorder, thread, quit, joined, result>>
      /\ PressStart => Starts = Stops
      /\ PressStop => Starts = Stops + 1
  BY DEF PressStart, PressStop, IInv, TypeOK
<1>2. QueueOK /\ FieldOK /\ \A q \in Ids : StopOK(q) BY <1>1 DEF IInv, TurnsOK
<1>3. Starts \in Nat /\ Stops \in Nat BY DEF IInv, PressedOK
<1>a. Starts' \in Nat /\ Stops' \in Nat BY <1>0, <1>3, StartPressed, StopPressed
<1>4. PICK t \in Task :
         /\ tasks' = Append(tasks, t)
         /\ Order(t) = Starts + Stops + 1
         /\ Starts' + Stops' = Starts + Stops + 1
         /\ Starts' >= Starts /\ Starts' \in {Stops', Stops' + 1}
         /\ PressStop => stop' = [stop EXCEPT ![Stops + 1] = "queued"] /\ Stops + 1 \in Ids
         /\ PressStart => stop' = stop
  <2>1. CASE PressStart
    <3>1. [kind |-> "start", id |-> Starts + 1] \in Task
      BY <1>3, <2>1 DEF PressStart, IInv, PressedOK, Task, Ids
    <3>2. Starts' = Starts + 1 /\ Stops' = Stops BY <1>0, <2>1, StartPressed
    <3>3. tasks' = Append(tasks, [kind |-> "start", id |-> Starts + 1]) /\ stop' = stop
      BY <2>1 DEF PressStart
    <3>4. ~PressStop BY <1>1, <1>3, <2>1
    <3> QED BY <1>1, <1>3, <2>1, <3>1, <3>2, <3>3, <3>4 DEF Order
  <2>2. CASE PressStop
    <3>1. [kind |-> "stop", id |-> Stops + 1] \in Task /\ Stops + 1 \in Ids
      BY <1>3, <2>2 DEF PressStop, IInv, PressedOK, Task, Ids
    <3>2. Stops' = Stops + 1 /\ Starts' = Starts BY <1>0, <2>2, StopPressed
    <3>3. /\ tasks' = Append(tasks, [kind |-> "stop", id |-> Stops + 1])
          /\ stop' = [stop EXCEPT ![Stops + 1] = "queued"]
      BY <2>2 DEF PressStop
    <3>4. ~PressStart BY <1>1, <1>3, <2>2
    <3> QED BY <1>1, <1>3, <2>2, <3>1, <3>2, <3>3, <3>4 DEF Order
  <2> QED BY <2>1, <2>2
<1>5. Taken' = Taken /\ Len(tasks) \in Nat
  <2>1. Len(tasks') = Len(tasks) + 1 /\ Len(tasks) \in Nat BY <1>0, <1>4, Appended
  <2>2. Starts' + Stops' = Starts + Stops + 1 BY <1>4
  <2>3. (Starts' + Stops') - Len(tasks') = (Starts + Stops) - Len(tasks)
    BY <1>3, <2>1, <2>2
  <2> QED BY <2>1, <2>3 DEF Taken
<1>6. QueueOK'
  <2>1. ASSUME NEW i \in 1..Len(tasks') PROVE Order(tasks'[i]) = Taken + i
    <3>1. CASE i = Len(tasks) + 1 BY <1>0, <1>3, <1>4, <1>5, <3>1, Appended DEF Taken
    <3>2. CASE i \in 1..Len(tasks) BY <1>0, <1>2, <1>4, <3>2, Appended DEF QueueOK
    <3> QED BY <1>0, <1>4, <3>1, <3>2, Appended
  <2> QED BY <1>2, <1>4, <1>5, <2>1 DEF QueueOK, Order
<1>7. FieldOK' BY <1>1, <1>2, <1>5 DEF FieldOK
<1>8. ASSUME NEW q \in Ids PROVE StopOK(q)'
  <2>1. stop'[q] = stop[q] \/ (stop'[q] = "queued" /\ q = Stops + 1)
    BY <1>0, <1>4 DEF TypeOK
  <2>2. q = Stops + 1 => Taken < 2 * q
    BY <1>2, <1>3, <1>5 DEF QueueOK, Taken
  <2>3. StopOK(q) BY <1>2
  <2> HIDE DEF IInv
  <2>4. result'[q] = result[q] /\ joined'[q] = joined[q] BY <1>1
  <2>5. \A r : r \in q..Starts => r \in q..Starts'
    <3>1. Starts' \in Nat BY <1>0, StartPressed, StopPressed, <1>3
    <3> QED BY <1>3, <1>4, <3>1 DEF Ids
  <2> QED BY <1>1, <1>5, <2>1, <2>2, <2>3, <2>5 DEF StopOK
<1> QED BY <1>6, <1>7, <1>8 DEF TurnsOK

\* The executor takes the next task: of which press it is says how many were
\* taken before.
LEMMA TakenInTurns ==
    ASSUME IInv, QueueOK, NEW kind \in {"start", "stop"}, NEW i \in Ids, Take(kind, i),
           Starts' = Starts, Stops' = Stops
    PROVE  /\ Taken' = Taken + 1 /\ QueueOK' /\ Taken \in Nat
           /\ Taken + 1 = Order([kind |-> kind, id |-> i])
<1>0. TypeOK /\ Starts \in Nat /\ Stops \in Nat /\ Taken \in Nat
  BY DEF IInv, PressedOK, QueueOK
<1>1. /\ Len(tasks') = Len(tasks) - 1 /\ Len(tasks) \in Nat \ {0}
      /\ tasks[1] = [kind |-> kind, id |-> i]
      /\ \A k \in 1..Len(tasks') : tasks'[k] = tasks[k + 1] /\ k + 1 \in 1..Len(tasks)
  BY <1>0, TakenTask
<1>2. Taken' = Taken + 1 BY <1>0, <1>1 DEF Taken
<1>3. Taken + 1 = Order([kind |-> kind, id |-> i]) BY <1>1 DEF QueueOK
<1>4. ASSUME NEW k \in 1..Len(tasks') PROVE Order(tasks'[k]) = Taken' + k
  <2>1. Order(tasks[k + 1]) = Taken + (k + 1) BY <1>1 DEF QueueOK
  <2> QED BY <1>0, <1>1, <1>2, <2>1
<1> QED BY <1>0, <1>2, <1>3, <1>4 DEF QueueOK, Order

LEMMA TurnsOnMove ==
    ASSUME IInv, inTurns', Moves \/ UNCHANGED vars
    PROVE  TurnsOK'
<1>0. TypeOK /\ PressedOK BY DEF IInv
<1>1. inTurns
  BY DEF Moves, vars, Executor, RunStart, RunStop, Joined, StopReturns, ThreadStep,
         CaptureFails, SeesQuit, Encode
<1>2. QueueOK /\ FieldOK /\ \A q \in Ids : StopOK(q) BY <1>1 DEF IInv, TurnsOK
<1>3. /\ Starts \in Nat /\ Stops \in Nat /\ Taken \in Nat
      /\ Starts' = Starts /\ Stops' = Stops
  BY <1>0, <1>2, OthersPress DEF PressedOK, QueueOK
<1>4. \A i \in Ids : i \in Nat BY DEF Ids
<1>5. ASSUME NEW p \in Ids, RunStart(p) PROVE TurnsOK'
  <2>1. Take("start", p) BY <1>5 DEF RunStart
  <2>2. Taken' = Taken + 1 /\ QueueOK' /\ Taken + 1 = 2 * p - 1
    BY <1>2, <1>3, <2>1, TakenInTurns DEF Order
  <2>3. /\ recorder' = p /\ thread' = [thread EXCEPT ![p] = "recording"]
        /\ UNCHANGED <<stop, quit, joined, result>>
    BY <1>5 DEF RunStart
  <2>4. FieldOK' BY <1>0, <1>2, <1>3, <1>4, <2>2, <2>3 DEF FieldOK, TypeOK
  <2>5. ASSUME NEW q \in Ids PROVE StopOK(q)'
    <3>1. StopOK(q) /\ stop[q] # "joining" BY <1>2, <2>1 DEF Take, Joining
    <3>2. Taken < 2 * q <=> Taken' < 2 * q BY <1>3, <1>4, <2>2
    <3>3. q = p => Taken' < 2 * q BY <1>3, <1>4, <2>2
    <3>4. q # p => thread'[q] = thread[q] BY <1>0, <2>3 DEF TypeOK
    <3>5. Taken >= 2 * q <=> Taken' >= 2 * q BY <1>3, <1>4, <2>2
    <3> QED BY <1>3, <2>3, <3>1, <3>2, <3>3, <3>4, <3>5 DEF StopOK
  <2> QED BY <2>2, <2>4, <2>5 DEF TurnsOK
<1>6. ASSUME NEW q \in Ids, RunStop(q) PROVE TurnsOK'
  <2>1. Take("stop", q) BY <1>6 DEF RunStop
  <2>2. Taken' = Taken + 1 /\ QueueOK' /\ Taken + 1 = 2 * q
    BY <1>2, <1>3, <2>1, TakenInTurns DEF Order
  <2>3. recorder = q /\ q # 0 BY <1>2, <1>3, <1>4, <2>2 DEF FieldOK, Ids
  <2>4. /\ joined' = [joined EXCEPT ![q] = q] /\ stop' = [stop EXCEPT ![q] = "joining"]
        /\ quit' = quit \cup {q} /\ UNCHANGED <<recorder, thread, result>>
    BY <1>6, <2>3 DEF RunStop
  <2>5. FieldOK' BY <1>2, <1>3, <1>4, <2>2, <2>4 DEF FieldOK
  <2>6. ASSUME NEW r \in Ids PROVE StopOK(r)'
    <3>1. StopOK(r) /\ stop[r] # "joining" BY <1>2, <2>1 DEF Take, Joining
    <3>2. CASE r = q BY <1>0, <1>3, <1>4, <2>2, <2>3, <2>4, <3>2 DEF StopOK, TypeOK
    <3>3. CASE r # q
      <4>1. Taken < 2 * r <=> Taken' < 2 * r BY <1>3, <1>4, <2>2, <3>3
      <4>2. Taken >= 2 * r <=> Taken' >= 2 * r BY <1>3, <1>4, <2>2, <3>3
      <4>3. stop'[r] = stop[r] /\ joined'[r] = joined[r] /\ thread'[r] = thread[r]
        BY <1>0, <2>4, <3>3 DEF TypeOK
      <4> QED BY <1>3, <2>4, <3>1, <4>1, <4>2, <4>3 DEF StopOK
    <3> QED BY <3>2, <3>3
  <2> QED BY <2>2, <2>5, <2>6 DEF TurnsOK
\* The other steps take nothing.
<1>7. tasks' = tasks => Taken' = Taken /\ QueueOK'
  BY <1>2, <1>3 DEF Taken, QueueOK, Order
<1>8. ASSUME NEW q \in Ids, Joined(q) PROVE TurnsOK'
  <2>1. /\ stop[q] = "joining" /\ thread[joined[q]] = "finished" /\ tasks' = tasks
        /\ stop' = [stop EXCEPT ![q] = "resuming"]
        /\ UNCHANGED <<thread, quit, joined, result>>
    BY <1>8 DEF Joined
  <2>2. recorder = q /\ Taken = 2 * q /\ joined[q] = q
    BY <1>2, <1>3, <1>4, <2>1 DEF StopOK
  <2>3. FieldOK' BY <1>2, <1>3, <1>4, <1>7, <2>1, <2>2 DEF FieldOK
  <2>4. ASSUME NEW r \in Ids PROVE StopOK(r)'
    <3>1. StopOK(r) BY <1>2
    <3>2. CASE r = q BY <1>0, <1>3, <1>7, <2>1, <2>2, <3>1, <3>2 DEF StopOK, TypeOK
    <3>3. CASE r # q
      <4>1. stop'[r] = stop[r] BY <1>0, <2>1, <3>3 DEF TypeOK
      <4>2. stop[r] # "joining" BY <2>2, <3>1, <3>3 DEF StopOK
      <4> QED BY <1>3, <1>7, <2>1, <3>1, <4>1, <4>2 DEF StopOK
    <3> QED BY <3>2, <3>3
  <2> QED BY <1>7, <2>1, <2>3, <2>4 DEF TurnsOK
<1>9. ASSUME NEW q \in Ids, StopReturns(q) PROVE TurnsOK'
  <2>1. /\ stop[q] = "resuming" /\ stop' = [stop EXCEPT ![q] = "done"] /\ tasks' = tasks
        /\ result' = [result EXCEPT ![q] = Starts]
        /\ UNCHANGED <<recorder, thread, quit, joined>>
    BY <1>0, <1>9 DEF StopReturns, PressedOK
  <2>2. q \in 1..Starts
    <3>1. q \in Pressed(stop) BY <2>1 DEF Pressed
    <3> QED BY <1>0, <1>2, <1>3, <3>1 DEF PressedOK, QueueOK
  <2>3. FieldOK' BY <1>2, <1>7, <2>1 DEF FieldOK
  <2>4. ASSUME NEW r \in Ids PROVE StopOK(r)'
    <3>1. StopOK(r) BY <1>2
    <3>2. CASE r = q BY <1>0, <1>3, <1>7, <2>1, <2>2, <3>1, <3>2 DEF StopOK, TypeOK
    <3>3. CASE r # q
      <4>1. stop'[r] = stop[r] /\ result'[r] = result[r] BY <1>0, <2>1, <3>3 DEF TypeOK
      <4> QED BY <1>3, <1>7, <2>1, <3>1, <4>1 DEF StopOK
    <3> QED BY <3>2, <3>3
  <2> QED BY <1>7, <2>1, <2>3, <2>4 DEF TurnsOK
<1>10. ASSUME NEW p \in Ids, ThreadStep(p) PROVE TurnsOK'
  <2>1. /\ thread[p] \in {"recording", "encoding"} /\ tasks' = tasks
        /\ \E s \in {"encoding", "finished"} : thread' = [thread EXCEPT ![p] = s]
        /\ UNCHANGED <<recorder, stop, quit, joined, result>>
    BY <1>10 DEF ThreadStep, CaptureFails, SeesQuit, Encode, Finish
  <2>2. \A r \in Ids : /\ thread'[r] = "none" <=> thread[r] = "none"
                       /\ thread[r] = "finished" => thread'[r] = "finished"
    BY <1>0, <2>1 DEF TypeOK
  <2>3. FieldOK' BY <1>2, <1>7, <2>1, <2>2 DEF FieldOK
  <2>4. ASSUME NEW r \in Ids PROVE StopOK(r)'
    <3>1. StopOK(r) BY <1>2
    <3> QED BY <1>3, <1>7, <2>1, <2>2, <3>1 DEF StopOK
  <2> QED BY <1>7, <2>1, <2>3, <2>4 DEF TurnsOK
<1>11. ASSUME UNCHANGED vars PROVE TurnsOK'
  BY <1>2, <1>3, <1>7, <1>11 DEF vars, TurnsOK, FieldOK, StopOK
<1> QED BY <1>5, <1>6, <1>8, <1>9, <1>10, <1>11 DEF Moves, Executor

LEMMA Invariant == Spec => []IInv
<1>1. Init => IInv BY TypeInit, PressedInit, TurnsInit DEF IInv
<1>2. IInv /\ [Next]_vars => IInv'
  <2> SUFFICES ASSUME IInv, [Next]_vars PROVE IInv' OBVIOUS
  <2>1. TypeOK' /\ PressedOK' BY TypeKeeps, PressedKeeps DEF IInv
  <2>2. inTurns' => TurnsOK' BY TurnsOnPress, TurnsOnMove DEF Next, Moves
  <2> QED BY <2>1, <2>2 DEF IInv
<1> QED BY <1>1, <1>2, PTL DEF Spec

-----------------------------------------------------------------------------
\* The variables have their types.
THEOREM ARTypeCorrect == Spec => []TypeOK
<1>1. IInv => TypeOK BY DEF IInv
<1> QED BY <1>1, Invariant, PTL

\* However fast a user presses in turns, there are never two threads on the
\* microphone, and the one that is can be told to quit: a thread whose stop
\* has not been taken is in the field, and a stop that has been taken keeps
\* the executor until its thread has finished.
THEOREM ARAtMostOneCapture == Spec => []AtMostOneCapture
<1>1. IInv => AtMostOneCapture
  <2> SUFFICES ASSUME IInv, inTurns PROVE AtMostOneCapture BY DEF AtMostOneCapture
  <2>0. /\ FieldOK /\ Taken \in Nat /\ \A q \in Ids : StopOK(q) /\ q \in Nat
        /\ \A q \in Ids : stop[q] \in {"none", "queued", "joining", "resuming", "done"}
    BY DEF IInv, TurnsOK, QueueOK, Ids, TypeOK
  <2> DEFINE Capturing == {p \in Ids : thread[p] \in {"recording", "encoding"}}
  <2>1. ASSUME NEW p \in Capturing
        PROVE  /\ Taken \in {2 * p - 1, 2 * p} /\ recorder = p
    <3>1. Taken >= 2 * p - 1 BY <2>0 DEF FieldOK
    <3>2. Taken >= 2 * p => stop[p] = "joining" BY <2>0 DEF StopOK
    <3>3. stop[p] = "joining" => recorder = p /\ Taken = 2 * p BY <2>0 DEF StopOK
    <3>4. Taken = 2 * p - 1 => recorder = p BY <2>0 DEF FieldOK
    <3> QED BY <2>0, <3>1, <3>2, <3>3, <3>4
  <2>2. Cardinality(Capturing) <= 1
    <3>1. CASE Capturing = {} BY <3>1, FS_EmptySet
    <3>2. CASE Capturing # {}
      <4>1. Capturing = {recorder} BY <2>1, <3>2
      <4>2. Cardinality(Capturing) = 1 BY <4>1, FS_Singleton
      <4> QED BY <4>2
    <3> QED BY <3>1, <3>2
  <2>3. \A p \in Ids : thread[p] = "recording" => p = recorder BY <2>1
  <2> QED BY <2>2, <2>3 DEF AtMostOneCapture
<1> QED BY <1>1, Invariant, PTL

\* A user who presses in turns gets from each stop the file of its own start,
\* which that stop has ended, or the one of a start that was pressed since.
THEOREM ARStopReturnsItsRecording == Spec => []StopReturnsItsRecording
<1>1. IInv => StopReturnsItsRecording
  <2> SUFFICES ASSUME IInv, inTurns, NEW q \in Ids, stop[q] = "done"
               PROVE  /\ joined[q] = q /\ thread[q] = "finished"
                      /\ result[q] = q \/ (result[q] > q /\ start[result[q]] # "none")
    BY DEF StopReturnsItsRecording
  <2>1. StopOK(q) /\ Taken \in Nat /\ q \in Nat BY DEF IInv, TurnsOK, QueueOK, Ids
  <2>2. joined[q] = q /\ thread[q] = "finished" /\ result[q] \in q..Starts
    BY <2>1 DEF StopOK
  <2>3. result[q] \in Pressed(start) /\ Starts \in Nat BY <2>1, <2>2 DEF IInv, PressedOK, Ids
  <2> QED BY <2>1, <2>2, <2>3 DEF Pressed
<1> QED BY <1>1, Invariant, PTL

-----------------------------------------------------------------------------
(* What StopsReturn rests on, in whatever order the buttons are pressed.   *)

\* A stop that waits for the executor has its task in the queue, and one that is
\* in join() waits for a thread that was started and has been told to quit; no
\* second stop is in join() meanwhile.
StopsGoOn ==
    /\ \A q \in Ids : stop[q] = "queued" =>
           \E i \in 1..Len(tasks) : tasks[i] = [kind |-> "stop", id |-> q]
    /\ \A q \in Ids : stop[q] = "joining" => joined[q] \in quit /\ thread[joined[q]] # "none"
    /\ \A q, r \in Ids : stop[q] = "joining" /\ stop[r] = "joining" => q = r
    /\ recorder # 0 => thread[recorder] # "none"

\* A press queues a task behind the others.
LEMMA GoesOnPress == ASSUME TypeOK, PressedOK, StopsGoOn, PressStart \/ PressStop PROVE StopsGoOn'
<1>0. Starts \in Nat /\ Stops \in Nat BY DEF PressedOK
<1>1. ASSUME NEW t \in Task, tasks' = Append(tasks, t), NEW q \in Ids,
             \E i \in 1..Len(tasks) : tasks[i] = [kind |-> "stop", id |-> q]
      PROVE  \E i \in 1..Len(tasks') : tasks'[i] = [kind |-> "stop", id |-> q]
  BY <1>1, Appended
<1>2. CASE PressStart
  <2>1. [kind |-> "start", id |-> Starts + 1] \in Task
    BY <1>0, <1>2 DEF PressStart, PressedOK, Ids, Task
  <2>2. /\ tasks' = Append(tasks, [kind |-> "start", id |-> Starts + 1])
        /\ UNCHANGED <<recorder, stop, thread, quit, joined>>
    BY <1>2 DEF PressStart
  <2> QED BY <1>1, <2>1, <2>2 DEF StopsGoOn
<1>3. CASE PressStop
  <2> DEFINE p == Stops + 1
  <2>1. p \in Ids /\ [kind |-> "stop", id |-> p] \in Task
    BY <1>0, <1>3 DEF PressStop, PressedOK, Ids, Task
  <2>2. /\ tasks' = Append(tasks, [kind |-> "stop", id |-> p])
        /\ stop' = [stop EXCEPT ![p] = "queued"]
        /\ UNCHANGED <<recorder, thread, quit, joined>>
    BY <1>3 DEF PressStop
  <2>3. \E i \in 1..Len(tasks') : tasks'[i] = [kind |-> "stop", id |-> p]
    <3>1. Len(tasks) + 1 \in 1..Len(tasks') BY <2>1, <2>2, Appended
    <3> QED BY <2>1, <2>2, <3>1, Appended
  <2>4. \A q \in Ids : q # p => stop'[q] = stop[q] BY <2>1, <2>2 DEF TypeOK
  <2>5. stop'[p] = "queued" BY <2>1, <2>2 DEF TypeOK
  <2>6. ASSUME NEW q \in Ids, stop'[q] = "queued"
        PROVE  \E i \in 1..Len(tasks') : tasks'[i] = [kind |-> "stop", id |-> q]
    BY <1>1, <2>1, <2>2, <2>3, <2>4, <2>6 DEF StopsGoOn
  <2>7. \A q \in Ids : stop'[q] = "joining" => stop[q] = "joining" BY <2>4, <2>5
  <2> QED BY <2>2, <2>6, <2>7 DEF StopsGoOn
<1> QED BY <1>2, <1>3

\* What the executor takes is the oldest task; the others stay in the queue.
LEMMA OthersStay ==
    ASSUME TypeOK, NEW kind, NEW i \in Ids, Take(kind, i), NEW q \in Ids,
           kind # "stop" \/ i # q,
           \E k \in 1..Len(tasks) : tasks[k] = [kind |-> "stop", id |-> q]
    PROVE  \E k \in 1..Len(tasks') : tasks'[k] = [kind |-> "stop", id |-> q]
<1>1. PICK k \in 1..Len(tasks) : tasks[k] = [kind |-> "stop", id |-> q] OBVIOUS
<1>2. tasks[1] # tasks[k]
  <2>1. tasks[1] = [kind |-> kind, id |-> i] BY TakenTask
  <2> QED BY <1>1, <2>1
<1>3. Len(tasks) \in Nat \ {0} /\ Len(tasks') = Len(tasks) - 1 BY TakenTask
<1>4. k # 1 BY <1>2
<1>5. k - 1 \in 1..Len(tasks') /\ (k - 1) + 1 = k BY <1>3, <1>4
<1>6. tasks'[k - 1] = tasks[k] BY <1>5, TakenTask
<1> QED BY <1>1, <1>5, <1>6

\* Neither a task on the executor nor a step of a recorder thread loses a stop.
LEMMA GoesOnMove == ASSUME TypeOK, StopsGoOn, Moves \/ UNCHANGED vars PROVE StopsGoOn'
<1> USE DEF NoneOr
<1>1. ASSUME NEW p \in Ids, RunStart(p) PROVE StopsGoOn'
  <2>1. /\ Take("start", p) /\ recorder' = p /\ thread' = [thread EXCEPT ![p] = "recording"]
        /\ UNCHANGED <<stop, quit, joined>>
    BY <1>1 DEF RunStart
  <2>2. \A i \in Ids : thread[i] # "none" => thread'[i] # "none" BY <2>1 DEF TypeOK
  <2>3. thread'[p] # "none" BY <2>1 DEF TypeOK
  <2>4. \A q \in Ids : stop'[q] # "joining" BY <2>1 DEF Take, Joining
  <2>5. ASSUME NEW q \in Ids, stop'[q] = "queued"
        PROVE  \E i \in 1..Len(tasks') : tasks'[i] = [kind |-> "stop", id |-> q]
    BY <2>1, <2>5, OthersStay DEF StopsGoOn
  <2> QED BY <2>1, <2>3, <2>4, <2>5 DEF StopsGoOn
<1>2. ASSUME NEW r \in Ids, RunStop(r) PROVE StopsGoOn'
  <2>1. /\ Take("stop", r) /\ joined' = [joined EXCEPT ![r] = recorder]
        /\ quit' = quit \cup ({recorder} \ {0})
        /\ stop' = [stop EXCEPT ![r] = IF recorder = 0 THEN "resuming" ELSE "joining"]
        /\ UNCHANGED <<recorder, thread>>
    BY <1>2 DEF RunStop
  <2>2. \A q \in Ids : q # r => stop'[q] = stop[q] /\ stop[q] # "joining"
    BY <2>1 DEF Take, Joining, TypeOK
  <2>3. stop'[r] # "queued" /\ joined'[r] = recorder /\ (stop'[r] = "joining" => recorder # 0)
    BY <2>1 DEF TypeOK
  <2>4. ASSUME NEW q \in Ids, stop'[q] = "queued"
        PROVE  \E i \in 1..Len(tasks') : tasks'[i] = [kind |-> "stop", id |-> q]
    BY <2>1, <2>2, <2>3, <2>4, OthersStay DEF StopsGoOn
  <2> QED BY <2>1, <2>2, <2>3, <2>4 DEF StopsGoOn
<1>3. ASSUME NEW r \in Ids, Joined(r) \/ StopReturns(r) PROVE StopsGoOn'
  <2>1. /\ \E x \in {"resuming", "done"} : stop' = [stop EXCEPT ![r] = x]
        /\ recorder' \in {0, recorder} /\ UNCHANGED <<tasks, thread, quit, joined>>
    BY <1>3 DEF Joined, StopReturns
  <2>2. \A q \in Ids : stop'[q] \in {"queued", "joining"} => stop[q] = stop'[q]
    BY <2>1 DEF TypeOK
  <2> QED BY <2>1, <2>2 DEF StopsGoOn
<1>4. ASSUME NEW p \in Ids, ThreadStep(p) PROVE StopsGoOn'
  <2>1. /\ \E x \in {"encoding", "finished"} : thread' = [thread EXCEPT ![p] = x]
        /\ UNCHANGED <<tasks, recorder, stop, quit, joined>>
    BY <1>4 DEF ThreadStep, CaptureFails, SeesQuit, Encode, Finish
  <2>2. \A i \in Ids : thread[i] # "none" => thread'[i] # "none" BY <2>1 DEF TypeOK
  <2>3. recorder \in Ids \cup {0} /\ quit \subseteq Ids BY DEF TypeOK
  <2> QED BY <2>1, <2>2, <2>3 DEF StopsGoOn
<1>5. CASE UNCHANGED vars BY <1>5 DEF vars, StopsGoOn
<1> QED BY <1>1, <1>2, <1>3, <1>4, <1>5 DEF Moves, Executor

\* The safety core of StopsReturn: no press of Stop is lost or waits for a thread
\* that nobody ends, for any number of presses in any order.
THEOREM ARStopsGoOn == Spec => []StopsGoOn
<1>1. Init => StopsGoOn BY DEF Init, StopsGoOn
<1>2. IInv /\ StopsGoOn /\ [Next]_vars => StopsGoOn'
  BY GoesOnPress, GoesOnMove DEF IInv, Next, Moves
<1> QED BY <1>1, <1>2, Invariant, PTL DEF Spec

=============================================================================
