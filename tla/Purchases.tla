------------------------------ MODULE Purchases ------------------------------
(***************************************************************************)
(* PurchaseViewModel: three kinds of coroutines that update one state flow *)
(* while they wait for RevenueCat.  Loads and restores run on threads of   *)
(* Dispatchers.IO, purchases on the main thread; launching one cancels the *)
(* one of its kind that is still on its way.                               *)
(*                                                                         *)
(* RevenueCat is external: it answers or fails, and a cancelled caller     *)
(* gets the answer, too, or a CancellationException, which                 *)
(* `catch (e: Exception)` treats as any other failure.                     *)
(***************************************************************************)
EXTENDS Naturals

CONSTANTS
    Loads, Restores, Buys,  \* bound: the coroutines of each kind
    First,                  \* the load that the view model starts with
    None                    \* no coroutine, no list, no error

Jobs == Loads \cup Restores \cup Buys

ASSUME JobsAssumption ==
    /\ Loads \cap Restores = {} /\ Loads \cap Buys = {} /\ Restores \cap Buys = {}
    /\ First \in Loads /\ None \notin Jobs

VARIABLES
    state,      \* PurchaseState; what it got from a job is named by the job
    current,    \* getProductsJob, restorePurchaseJob, startPurchaseJob
    job,        \* where each coroutine is
    cancelled,  \* the coroutines that were cancelled
    loaded,     \* history: the loads that succeeded
    paid        \* history: the purchases with a transaction

vars == <<state, current, job, cancelled, loaded, paid>>

Kind(k) == IF k \in Loads THEN "load" ELSE IF k \in Restores THEN "restore" ELSE "buy"
Kinds == {"load", "restore", "buy"}

\* getProducts() is called by the constructor.
Init ==
    /\ state = [isLoading |-> FALSE, products |-> None, selectedProduct |-> None,
                subscribed |-> None, isPurchaseComplete |-> FALSE,
                restoreError |-> None, error |-> None]
    /\ current = [x \in Kinds |-> IF x = "load" THEN First ELSE None]
    /\ job = [k \in Jobs |-> IF k = First THEN "launched" ELSE "none"]
    /\ cancelled = {} /\ loaded = {} /\ paid = {}

Goes(k, from, to) == job[k] = from /\ job' = [job EXCEPT ![k] = to]

\* onEvent: cancel the job of this kind and launch a new one.
Launch(k) ==
    /\ Goes(k, "none", "launched")
    /\ current' = [current EXCEPT ![Kind(k)] = k]
    /\ cancelled' = cancelled \cup ({current[Kind(k)]} \ {None})
    /\ UNCHANGED <<state, loaded, paid>>

\* A coroutine that is cancelled before it is dispatched never runs.
Skip(k) ==
    /\ k \in cancelled /\ Goes(k, "launched", "done")
    /\ UNCHANGED <<state, current, cancelled, loaded, paid>>

\* It begins: a load or a purchase shows that it is loading.
Begin(k) ==
    /\ k \notin cancelled /\ Goes(k, "launched", "asking")
    /\ state' = IF k \in Restores THEN state
                ELSE [state EXCEPT !.isLoading = TRUE, !.error = None,
                                   !.restoreError = None]
    /\ UNCHANGED <<current, cancelled, loaded, paid>>

\* getProducts gets an offering with products.
Loaded(k) ==
    /\ k \in Loads /\ Goes(k, "asking", "done")
    /\ state' = [state EXCEPT !.products = k, !.selectedProduct = k,
                              !.isLoading = FALSE, !.error = None, !.restoreError = None]
    /\ loaded' = loaded \cup {k}
    /\ UNCHANGED <<current, cancelled, paid>>

\* Fault: the CancellationException of a superseded load is let through.
LoadFails_Rethrows(k) ==
    /\ k \in Loads /\ Goes(k, "asking", "done")
    /\ state' = IF k \in cancelled THEN state
                ELSE [state EXCEPT !.products = None, !.selectedProduct = None,
                                   !.isLoading = FALSE, !.error = k, !.restoreError = None]
    /\ UNCHANGED <<current, cancelled, loaded, paid>>

\* ... or an exception, be it of its own cancellation.
LoadFails(k) ==
    /\ k \in Loads /\ Goes(k, "asking", "done")
    /\ state' = [state EXCEPT !.products = None, !.selectedProduct = None,
                              !.isLoading = FALSE, !.error = k, !.restoreError = None]
    /\ UNCHANGED <<current, cancelled, loaded, paid>>

\* restorePurchase finds a subscription of the current offer.
Restored(k) ==
    /\ k \in Restores /\ Goes(k, "asking", "done")
    /\ state' = [state EXCEPT !.isLoading = FALSE, !.subscribed = k]
    /\ UNCHANGED <<current, cancelled, loaded, paid>>

\* Fault: the list of products is left alone.
RestoreFails_KeepsList(k) ==
    /\ k \in Restores /\ Goes(k, "asking", "done")
    /\ state' = [state EXCEPT !.selectedProduct = None, !.isLoading = FALSE,
                              !.subscribed = None, !.restoreError = k, !.error = None]
    /\ UNCHANGED <<current, cancelled, loaded, paid>>

\* ... or none, or an exception: the products go, too.
RestoreFails(k) ==
    /\ k \in Restores /\ Goes(k, "asking", "done")
    /\ state' = [state EXCEPT !.products = None, !.selectedProduct = None,
                              !.isLoading = FALSE, !.subscribed = None,
                              !.restoreError = k, !.error = None]
    /\ UNCHANGED <<current, cancelled, loaded, paid>>

\* Fault: any answer of the store counts as a purchase.
Bought_Unchecked(k) ==
    /\ k \in Buys /\ Goes(k, "asking", "finally")
    /\ \E transaction \in BOOLEAN :
          /\ state' = [state EXCEPT !.isPurchaseComplete = TRUE, !.isLoading = FALSE,
                                    !.subscribed = k]
          /\ paid' = IF transaction THEN paid \cup {k} ELSE paid
    /\ UNCHANGED <<current, cancelled, loaded>>

\* startPurchase gets an answer, with a transaction or without one.
Bought(k) ==
    /\ k \in Buys /\ Goes(k, "asking", "finally")
    /\ \/ /\ state' = [state EXCEPT !.isPurchaseComplete = TRUE, !.isLoading = FALSE,
                                    !.subscribed = k]
          /\ paid' = paid \cup {k}
       \/ /\ state' = [state EXCEPT !.isPurchaseComplete = FALSE, !.isLoading = FALSE]
          /\ paid' = paid
    /\ UNCHANGED <<current, cancelled, loaded>>

\* Fault: no finally clause.
BuyFails_NoFinally(k) ==
    /\ k \in Buys /\ Goes(k, "asking", "done")
    /\ UNCHANGED <<state, current, cancelled, loaded, paid>>

\* ... or an exception, which is only logged.
BuyFails(k) ==
    /\ k \in Buys /\ Goes(k, "asking", "finally")
    /\ UNCHANGED <<state, current, cancelled, loaded, paid>>

\* Its finally clause.
Finally(k) ==
    /\ Goes(k, "finally", "done")
    /\ state' = [state EXCEPT !.isLoading = FALSE]
    /\ UNCHANGED <<current, cancelled, loaded, paid>>

\* The user picks from a list; the screen may lag behind the state.
SelectProduct ==
    /\ \E k \in loaded : state' = [state EXCEPT !.selectedProduct = k]
    /\ UNCHANGED <<current, job, cancelled, loaded, paid>>

ClearErrorState ==
    /\ state' = [state EXCEPT !.error = None, !.restoreError = None]
    /\ UNCHANGED <<current, job, cancelled, loaded, paid>>

ClearPurchaseState ==
    /\ state' = [state EXCEPT !.isPurchaseComplete = FALSE]
    /\ UNCHANGED <<current, job, cancelled, loaded, paid>>

Step(k) == \/ Skip(k) \/ Begin(k) \/ Loaded(k) \/ LoadFails(k) \/ Restored(k)
           \/ RestoreFails(k) \/ Bought(k) \/ BuyFails(k) \/ Finally(k)

Next == \/ \E k \in Jobs : Launch(k) \/ Step(k)
        \/ SelectProduct \/ ClearErrorState \/ ClearPurchaseState

\* Coroutines are dispatched, and RevenueCat calls back.
Spec == Init /\ [][Next]_vars /\ \A k \in Jobs : WF_vars(Step(k))

-----------------------------------------------------------------------------
Working(k) == job[k] \in {"asking", "finally"}

TypeOK ==
    /\ state \in [isLoading : BOOLEAN, products : Loads \cup {None},
                  selectedProduct : Loads \cup {None},
                  subscribed : Restores \cup Buys \cup {None},
                  isPurchaseComplete : BOOLEAN,
                  restoreError : Restores \cup {None}, error : Loads \cup {None}]
    /\ current \in [Kinds -> Jobs \cup {None}]
    /\ job \in [Jobs -> {"none", "launched", "asking", "finally", "done"}]
    /\ cancelled \subseteq Jobs /\ loaded \subseteq Loads /\ paid \subseteq Buys

\* The spinner turns only while a load or a purchase is at work that will stop
\* it, however launches, cancellations and answers interleave.
LoadingMeansWork == state.isLoading => \E k \in Loads \cup Buys : Working(k)

\* ... so that it stops.
LoadingEnds == state.isLoading ~> ~state.isLoading

\* Of each kind at most one job is on its way that was not cancelled.
OneJobPerKind ==
    \A j, k \in Jobs :
        /\ Kind(j) = Kind(k) /\ {j, k} \cap cancelled = {}
        /\ job[j] \notin {"none", "done"} /\ job[k] \notin {"none", "done"}
        => j = k

\* An error and a list of products are never shown together, and never two
\* errors, though loads and restores write them from different threads.
ListOrError ==
    /\ state.error # None \/ state.restoreError # None => state.products = None
    /\ state.error = None \/ state.restoreError = None

\* A purchase is shown as complete only if one has a transaction, and a product
\* as subscribed only if it was bought with one or restored.
CompleteIsPaid ==
    /\ state.isPurchaseComplete => paid # {}
    /\ state.subscribed \in Buys => state.subscribed \in paid

\* getProducts "updates the state with products and discount information"
\* (PurchaseViewModel.kt:192): when the latest load has succeeded, nothing else
\* is on its way and nothing was restored, there are products.
LatestLoadIsShown ==
    /\ \A k \in Jobs : job[k] \in {"none", "done"}
    /\ \A k \in Restores : job[k] = "none"
    /\ current["load"] \in loaded
    => state.products # None

=============================================================================
