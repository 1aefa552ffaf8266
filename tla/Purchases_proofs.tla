--------------------------- MODULE Purchases_proofs ---------------------------
(***************************************************************************)
(* The safety properties of PurchaseViewModel for any number of loads,     *)
(* restores and purchases.                                                 *)
(***************************************************************************)
EXTENDS Purchases, TLAPS

USE JobsAssumption

\* A job that is on its way and was not cancelled is the current one.
CurrentRuns ==
    \A k \in Jobs :
        job[k] \notin {"none", "done"} /\ k \notin cancelled => current[Kind(k)] = k

\* The invariant.
IInv == TypeOK /\ LoadingMeansWork /\ CurrentRuns /\ ListOrError /\ CompleteIsPaid

-----------------------------------------------------------------------------
\* The kinds of jobs are apart.
LEMMA KindsApart ==
    ASSUME NEW k \in Jobs
    PROVE  /\ Kind(k) \in Kinds
           /\ k \in Loads <=> Kind(k) = "load"
           /\ k \in Restores <=> Kind(k) = "restore"
           /\ k \in Buys <=> Kind(k) = "buy"
           /\ k # None
BY DEF Jobs, Kind, Kinds

\* What each step does to the jobs alone: a launch makes its job the current
\* one, every other step moves one job that was launched before.
LEMMA JobsKeep ==
    ASSUME TypeOK, CurrentRuns, NEW k \in Jobs, Launch(k) \/ Step(k)
    PROVE  CurrentRuns'
<1>1. CASE Launch(k)
  <2> SUFFICES ASSUME NEW j \in Jobs, job'[j] \notin {"none", "done"}, j \notin cancelled'
               PROVE  current'[Kind(j)] = j
    BY DEF CurrentRuns, Kind
  <2>1. CASE j = k BY <1>1, <2>1, KindsApart DEF Launch, TypeOK
  <2>2. CASE j # k
    <3>1. job'[j] = job[j] /\ j \notin cancelled
      BY <1>1, <2>2 DEF Launch, Goes, TypeOK
    <3>2. current[Kind(j)] = j BY <3>1 DEF CurrentRuns
    <3>3. Kind(j) # Kind(k)
      BY <1>1, <3>2, KindsApart DEF Launch
    <3> QED BY <1>1, <3>2, <3>3, KindsApart DEF Launch, TypeOK
  <2> QED BY <2>1, <2>2
<1>2. CASE Step(k)
  <2>1. UNCHANGED <<current, cancelled>>
    BY <1>2 DEF Step, Skip, Begin, Loaded, LoadFails, Restored, RestoreFails, Bought,
                BuyFails, Finally
  <2>2. ASSUME NEW j \in Jobs, job'[j] \notin {"none", "done"}
        PROVE  job[j] \notin {"none", "done"}
    BY <1>2, <2>2 DEF Step, Skip, Begin, Loaded, LoadFails, Restored, RestoreFails,
                      Bought, BuyFails, Finally, Goes, TypeOK
  <2> QED BY <2>1, <2>2 DEF CurrentRuns, Kind
<1> QED BY <1>1, <1>2

\* The types are kept.
LEMMA TypeKeeps == ASSUME TypeOK, Next PROVE TypeOK'
<1>1. ASSUME NEW k \in Jobs, Launch(k) PROVE TypeOK'
  BY <1>1, KindsApart DEF Launch, Goes, TypeOK
<1>2. ASSUME NEW k \in Jobs, Skip(k) PROVE TypeOK' BY <1>2 DEF Skip, Goes, TypeOK
<1>3. ASSUME NEW k \in Jobs, Begin(k) PROVE TypeOK' BY <1>3 DEF Begin, Goes, TypeOK
<1>4. ASSUME NEW k \in Jobs, Loaded(k) PROVE TypeOK' BY <1>4 DEF Loaded, Goes, TypeOK
<1>5. ASSUME NEW k \in Jobs, LoadFails(k) PROVE TypeOK'
  BY <1>5 DEF LoadFails, Goes, TypeOK
<1>6. ASSUME NEW k \in Jobs, Restored(k) PROVE TypeOK'
  BY <1>6 DEF Restored, Goes, TypeOK
<1>7. ASSUME NEW k \in Jobs, RestoreFails(k) PROVE TypeOK'
  BY <1>7 DEF RestoreFails, Goes, TypeOK
<1>8. ASSUME NEW k \in Jobs, Bought(k) PROVE TypeOK' BY <1>8 DEF Bought, Goes, TypeOK
<1>9. ASSUME NEW k \in Jobs, BuyFails(k) PROVE TypeOK'
  BY <1>9 DEF BuyFails, Goes, TypeOK
<1>10. ASSUME NEW k \in Jobs, Finally(k) PROVE TypeOK'
  BY <1>10 DEF Finally, Goes, TypeOK
<1>11. CASE SelectProduct BY <1>11 DEF SelectProduct, TypeOK
<1>12. CASE ClearErrorState BY <1>12 DEF ClearErrorState, TypeOK
<1>13. CASE ClearPurchaseState BY <1>13 DEF ClearPurchaseState, TypeOK
<1> QED BY <1>1, <1>2, <1>3, <1>4, <1>5, <1>6, <1>7, <1>8, <1>9, <1>10, <1>11,
           <1>12, <1>13 DEF Next, Step

\* Only the end of a load or a purchase takes it away from work, and each of
\* them clears isLoading.
LEMMA LoadingKeeps == ASSUME TypeOK, LoadingMeansWork, Next PROVE LoadingMeansWork'
<1>1. ASSUME NEW k \in Jobs, Launch(k) \/ Skip(k) PROVE LoadingMeansWork'
  <2>1. state' = state /\ \A j \in Jobs : Working(j) => Working(j)'
    BY <1>1 DEF Launch, Skip, Goes, Working, TypeOK
  <2> QED BY <2>1 DEF LoadingMeansWork, Jobs
<1>2. ASSUME NEW k \in Jobs, Begin(k) PROVE LoadingMeansWork'
  <2>1. \A j \in Jobs : Working(j) => Working(j)'
    BY <1>2 DEF Begin, Goes, Working, TypeOK
  <2>2. CASE k \in Restores
    BY <1>2, <2>1, <2>2 DEF Begin, LoadingMeansWork, Jobs
  <2>3. CASE k \notin Restores
    <3>1. k \in Loads \cup Buys /\ Working(k)'
      BY <1>2, <2>3 DEF Begin, Goes, Working, TypeOK, Jobs
    <3> QED BY <3>1 DEF LoadingMeansWork
  <2> QED BY <2>2, <2>3
<1>3. ASSUME NEW k \in Jobs, Loaded(k) \/ LoadFails(k) \/ Restored(k) \/ RestoreFails(k)
                             \/ Bought(k) \/ Finally(k)
      PROVE LoadingMeansWork'
  <2>1. state'.isLoading = FALSE
    <3>1. CASE Loaded(k) BY <3>1 DEF Loaded, TypeOK
    <3>2. CASE LoadFails(k) BY <3>2 DEF LoadFails, TypeOK
    <3>3. CASE Restored(k) BY <3>3 DEF Restored, TypeOK
    <3>4. CASE RestoreFails(k) BY <3>4 DEF RestoreFails, TypeOK
    <3>5. CASE Bought(k) BY <3>5 DEF Bought, TypeOK
    <3>6. CASE Finally(k) BY <3>6 DEF Finally, TypeOK
    <3> QED BY <1>3, <3>1, <3>2, <3>3, <3>4, <3>5, <3>6
  <2> QED BY <2>1 DEF LoadingMeansWork
<1>4. ASSUME NEW k \in Jobs, BuyFails(k) PROVE LoadingMeansWork'
  <2>1. state' = state /\ \A j \in Jobs : Working(j) => Working(j)'
    BY <1>4 DEF BuyFails, Goes, Working, TypeOK
  <2> QED BY <2>1 DEF LoadingMeansWork, Jobs
<1>5. CASE SelectProduct \/ ClearErrorState \/ ClearPurchaseState
  <2>1. state'.isLoading = state.isLoading /\ job' = job
    BY <1>5 DEF SelectProduct, ClearErrorState, ClearPurchaseState, TypeOK
  <2> QED BY <2>1 DEF LoadingMeansWork, Working
<1> QED BY <1>1, <1>2, <1>3, <1>4, <1>5 DEF Next, Step

\* Whoever writes one of the products and the two errors writes all three.
LEMMA ListKeeps == ASSUME TypeOK, ListOrError, Next PROVE ListOrError'
<1>1. ASSUME NEW k \in Jobs, Launch(k) \/ Skip(k) \/ BuyFails(k) PROVE ListOrError'
  BY <1>1 DEF Launch, Skip, BuyFails, ListOrError
<1>2. ASSUME NEW k \in Jobs, Begin(k) PROVE ListOrError'
  BY <1>2 DEF Begin, ListOrError, TypeOK
<1>3. ASSUME NEW k \in Jobs, Loaded(k) \/ LoadFails(k) PROVE ListOrError'
  BY <1>3 DEF Loaded, LoadFails, ListOrError, TypeOK
<1>4. ASSUME NEW k \in Jobs, Restored(k) \/ RestoreFails(k) PROVE ListOrError'
  BY <1>4 DEF Restored, RestoreFails, ListOrError, TypeOK
<1>5. ASSUME NEW k \in Jobs, Bought(k) \/ Finally(k) PROVE ListOrError'
  BY <1>5 DEF Bought, Finally, ListOrError, TypeOK
<1>6. CASE SelectProduct \/ ClearErrorState \/ ClearPurchaseState
  BY <1>6 DEF SelectProduct, ClearErrorState, ClearPurchaseState, ListOrError, TypeOK
<1> QED BY <1>1, <1>2, <1>3, <1>4, <1>5, <1>6 DEF Next, Step

\* Only a transaction completes a purchase.
LEMMA PaidKeeps == ASSUME TypeOK, CompleteIsPaid, Next PROVE CompleteIsPaid'
<1>1. ASSUME NEW k \in Jobs, Launch(k) \/ Skip(k) \/ BuyFails(k) PROVE CompleteIsPaid'
  BY <1>1 DEF Launch, Skip, BuyFails, CompleteIsPaid
<1>2. ASSUME NEW k \in Jobs, Begin(k) \/ Loaded(k) \/ LoadFails(k) PROVE CompleteIsPaid'
  <2>1. /\ state'.isPurchaseComplete = state.isPurchaseComplete
        /\ state'.subscribed = state.subscribed /\ paid' = paid
    <3>1. CASE Begin(k) BY <3>1 DEF Begin, TypeOK
    <3>2. CASE Loaded(k) BY <3>2 DEF Loaded, TypeOK
    <3>3. CASE LoadFails(k) BY <3>3 DEF LoadFails, TypeOK
    <3> QED BY <1>2, <3>1, <3>2, <3>3
  <2> QED BY <2>1 DEF CompleteIsPaid
<1>3. ASSUME NEW k \in Jobs, Restored(k) \/ RestoreFails(k) PROVE CompleteIsPaid'
  <2>1. /\ state'.isPurchaseComplete = state.isPurchaseComplete
        /\ state'.subscribed \notin Buys /\ paid' = paid
    <3>1. CASE Restored(k) BY <3>1, KindsApart DEF Restored, TypeOK
    <3>2. CASE RestoreFails(k) BY <3>2 DEF RestoreFails, TypeOK, Jobs
    <3> QED BY <1>3, <3>1, <3>2
  <2> QED BY <2>1 DEF CompleteIsPaid
<1>4. ASSUME NEW k \in Jobs, Bought(k) \/ Finally(k) PROVE CompleteIsPaid'
  BY <1>4 DEF Bought, Finally, CompleteIsPaid, TypeOK
<1>5. CASE SelectProduct \/ ClearErrorState \/ ClearPurchaseState
  BY <1>5 DEF SelectProduct, ClearErrorState, ClearPurchaseState, CompleteIsPaid, TypeOK
<1> QED BY <1>1, <1>2, <1>3, <1>4, <1>5 DEF Next, Step

-----------------------------------------------------------------------------
\* The invariant holds of every behaviour.
THEOREM PUInvariant == Spec => []IInv
<1>1. Init => IInv
  <2> SUFFICES ASSUME Init PROVE IInv OBVIOUS
  <2>1. TypeOK BY DEF Init, TypeOK, Jobs, Kinds
  <2>2. LoadingMeansWork /\ ListOrError /\ CompleteIsPaid
    BY DEF Init, LoadingMeansWork, ListOrError, CompleteIsPaid, Jobs
  <2>3. CurrentRuns BY KindsApart DEF Init, CurrentRuns, Kinds
  <2> QED BY <2>1, <2>2, <2>3 DEF IInv
<1>2. IInv /\ [Next]_vars => IInv'
  <2> SUFFICES ASSUME IInv, [Next]_vars PROVE IInv' OBVIOUS
  <2>1. CASE Next
    <3>1. TypeOK' /\ LoadingMeansWork' /\ ListOrError' /\ CompleteIsPaid'
      BY <2>1, TypeKeeps, LoadingKeeps, ListKeeps, PaidKeeps DEF IInv
    <3>2. CurrentRuns'
      <4>1. CASE SelectProduct \/ ClearErrorState \/ ClearPurchaseState
        BY <4>1 DEF SelectProduct, ClearErrorState, ClearPurchaseState, IInv,
                    CurrentRuns, Kind
      <4> QED BY <2>1, <4>1, JobsKeep DEF Next, IInv
    <3> QED BY <3>1, <3>2 DEF IInv
  <2>2. CASE UNCHANGED vars
    BY <2>2 DEF vars, IInv, TypeOK, LoadingMeansWork, Working, CurrentRuns, Kind,
                ListOrError, CompleteIsPaid
  <2> QED BY <2>1, <2>2
<1> QED BY <1>1, <1>2, PTL DEF Spec

\* The spinner turns only while a load or a purchase is at work, for any number
\* of jobs, cancelled or not.
THEOREM PULoadingMeansWork == Spec => []LoadingMeansWork
BY PUInvariant, PTL DEF IInv

\* The types of the state flow and of the jobs, for any number of them.
THEOREM PUTypeCorrect == Spec => []TypeOK
BY PUInvariant, PTL DEF IInv

\* At most one job of each kind is on its way and not cancelled.
THEOREM PUOneJobPerKind == Spec => []OneJobPerKind
<1>1. IInv => OneJobPerKind BY DEF IInv, CurrentRuns, OneJobPerKind
<1> QED BY <1>1, PUInvariant, PTL

\* No error is shown beside a list of products, and never two errors.
THEOREM PUListOrError == Spec => []ListOrError
BY PUInvariant, PTL DEF IInv

\* No purchase is complete without a transaction.
THEOREM PUCompleteIsPaid == Spec => []CompleteIsPaid
BY PUInvariant, PTL DEF IInv

-----------------------------------------------------------------------------
(* What LoadingEnds rests on.                                              *)

\* How far a coroutine has come.
Place(p) == CASE p = "none" -> 0 [] p = "launched" -> 1 [] p = "asking" -> 2
              [] p = "finally" -> 3 [] p = "done" -> 4

\* No job ever goes back, a step of one job moves no other, and every step of
\* a job moves it on: a job starts the spinner once in its life.
JobsAdvance ==
    /\ \A k \in Jobs : Place(job[k]) <= Place(job'[k])
    /\ \A k \in Jobs : Step(k) => /\ Place(job[k]) < Place(job'[k])
                                  /\ \A j \in Jobs \ {k} : job'[j] = job[j]
    /\ ~state.isLoading /\ state'.isLoading =>
           \E k \in Loads \cup Buys : job[k] = "launched" /\ job'[k] = "asking"

LEMMA PlaceType ==
    ASSUME NEW p \in {"none", "launched", "asking", "finally", "done"}
    PROVE  Place(p) \in 0..4
BY DEF Place

\* A job that moves on moves alone.
LEMMA GoesOn ==
    ASSUME TypeOK, NEW k \in Jobs, NEW from \in {"none", "launched", "asking", "finally"},
           NEW to \in {"launched", "asking", "finally", "done"},
           Place(from) < Place(to), Goes(k, from, to)
    PROVE  /\ Place(job[k]) < Place(job'[k])
           /\ \A j \in Jobs \ {k} : job'[j] = job[j]
           /\ \A j \in Jobs : Place(job[j]) <= Place(job'[j])
<1>1. job[k] = from /\ job' = [job EXCEPT ![k] = to] BY DEF Goes
<1>2. job'[k] = to /\ \A j \in Jobs \ {k} : job'[j] = job[j] BY <1>1 DEF TypeOK
<1>3. \A j \in Jobs : Place(job[j]) \in 0..4 BY PlaceType DEF TypeOK
<1>4. Place(from) \in 0..4 /\ Place(to) \in 0..4 BY PlaceType
<1>5. ASSUME NEW j \in Jobs PROVE Place(job[j]) <= Place(job'[j])
  <2>1. CASE j = k BY <1>1, <1>2, <1>4, <2>1
  <2>2. CASE j # k
    <3>1. job'[j] = job[j] BY <1>2, <2>2
    <3> QED BY <1>3, <3>1
  <2> QED BY <2>1, <2>2
<1> QED BY <1>1, <1>2, <1>5

\* What a step of a job does to all of them.
LEMMA StepGoesOn ==
    ASSUME TypeOK, NEW k \in Jobs, Step(k)
    PROVE  /\ Place(job[k]) < Place(job'[k])
           /\ \A j \in Jobs \ {k} : job'[j] = job[j]
           /\ \A j \in Jobs : Place(job[j]) <= Place(job'[j])
<1>1. \/ Goes(k, "launched", "done") \/ Goes(k, "launched", "asking")
      \/ Goes(k, "asking", "done") \/ Goes(k, "asking", "finally") \/ Goes(k, "finally", "done")
  BY DEF Step, Skip, Begin, Loaded, LoadFails, Restored, RestoreFails, Bought, BuyFails, Finally
<1>2. /\ Place("launched") < Place("done") /\ Place("launched") < Place("asking")
      /\ Place("asking") < Place("done") /\ Place("asking") < Place("finally")
      /\ Place("finally") < Place("done")
  BY DEF Place
<1> QED BY <1>1, <1>2, GoesOn

\* The safety core of LoadingEnds: with WF(Step(k)) a job that loads is over after
\* at most two of its steps, which no other job can undo or repeat.
THEOREM PUJobsAdvance == Spec => [][JobsAdvance]_vars
<1>1. ASSUME IInv, [Next]_vars PROVE JobsAdvance
  <2> USE <1>1
  <2>0. TypeOK BY DEF IInv
  <2>1. \A k \in Jobs : Place(job[k]) <= Place(job'[k])
    <3>0. \A k \in Jobs : Place(job[k]) \in 0..4 BY <2>0, PlaceType DEF TypeOK
    <3>1. ASSUME NEW k \in Jobs, Launch(k) PROVE \A j \in Jobs : Place(job[j]) <= Place(job'[j])
      <4>1. Goes(k, "none", "launched") BY <3>1 DEF Launch
      <4>2. Place("none") < Place("launched") BY DEF Place
      <4> QED BY <2>0, <4>1, <4>2, GoesOn
    <3>2. ASSUME job' = job PROVE \A j \in Jobs : Place(job[j]) <= Place(job'[j])
      BY <3>0, <3>2
    <3> QED BY <2>0, <3>1, <3>2, StepGoesOn
         DEF Next, SelectProduct, ClearErrorState, ClearPurchaseState, vars
  <2>2. \A k \in Jobs : Step(k) => /\ Place(job[k]) < Place(job'[k])
                                   /\ \A j \in Jobs \ {k} : job'[j] = job[j]
    BY <2>0, StepGoesOn
  <2>3. ASSUME ~state.isLoading, state'.isLoading
        PROVE  \E k \in Loads \cup Buys : job[k] = "launched" /\ job'[k] = "asking"
    <3>1. ASSUME NEW k \in Jobs, Begin(k), k \notin Restores
          PROVE  k \in Loads \cup Buys /\ job[k] = "launched" /\ job'[k] = "asking"
      BY <2>0, <3>1 DEF Begin, Goes, TypeOK, Jobs
    <3>2. ASSUME NEW k \in Jobs, Begin(k), k \in Restores PROVE FALSE
      BY <2>3, <3>2 DEF Begin
    <3>3. ASSUME NEW k \in Jobs,
                 Launch(k) \/ Skip(k) \/ Loaded(k) \/ LoadFails(k) \/ Restored(k)
                   \/ RestoreFails(k) \/ Bought(k) \/ BuyFails(k) \/ Finally(k)
          PROVE  FALSE
      <4>1. CASE Launch(k) \/ Skip(k) \/ BuyFails(k)
        BY <2>3, <4>1 DEF Launch, Skip, BuyFails
      <4>2. CASE Loaded(k) BY <2>0, <2>3, <4>2 DEF Loaded, TypeOK
      <4>3. CASE LoadFails(k) BY <2>0, <2>3, <4>3 DEF LoadFails, TypeOK
      <4>4. CASE Restored(k) BY <2>0, <2>3, <4>4 DEF Restored, TypeOK
      <4>5. CASE RestoreFails(k) BY <2>0, <2>3, <4>5 DEF RestoreFails, TypeOK
      <4>6. CASE Bought(k) \/ Finally(k) BY <2>0, <2>3, <4>6 DEF Bought, Finally, TypeOK
      <4> QED BY <3>3, <4>1, <4>2, <4>3, <4>4, <4>5, <4>6
    <3>4. CASE SelectProduct \/ ClearErrorState \/ ClearPurchaseState \/ UNCHANGED vars
      BY <2>0, <2>3, <3>4 DEF SelectProduct, ClearErrorState, ClearPurchaseState, vars, TypeOK
    <3> QED BY <3>1, <3>2, <3>3, <3>4 DEF Next, Step
  <2> QED BY <2>1, <2>2, <2>3 DEF JobsAdvance
<1>2. JobsAdvance => [JobsAdvance]_vars OBVIOUS
<1> QED BY <1>1, <1>2, PUInvariant, PTL DEF Spec

=============================================================================
