----------------------------- MODULE MCAccounts -----------------------------
(***************************************************************************)
(* The two view models whose coroutines wait for a remote service, for     *)
(* TLC: purchases over RevenueCat and accounts over Firebase.  They share  *)
(* nothing; subject says which one moves, and never changes.               *)
(***************************************************************************)
EXTENDS Purchases, AuthFlow

VARIABLE subject

allVars == <<subject, vars, authVars>>

AccountsInit == subject \in {"purchases", "auth"} /\ Init /\ AuthInit

PurchasesMove(A) == subject = "purchases" /\ A /\ UNCHANGED <<subject, authVars>>

AccountsNext ==
    \/ PurchasesMove(Next)
    \/ subject = "auth" /\ AuthNext /\ UNCHANGED <<subject, vars>>

AccountsSpec ==
    /\ AccountsInit /\ [][AccountsNext]_allVars
    /\ \A k \in Jobs : WF_allVars(PurchasesMove(Step(k)))
=============================================================================
