--------------------------- MODULE AuthFlow_proofs ---------------------------
(***************************************************************************)
(* For any number of users and presses: the spinner turns only while a job *)
(* is at work, no document outlives its account, and an account without a  *)
(* document has a job that explains it.                                    *)
(***************************************************************************)
EXTENDS AuthFlow, TLAPS

\* The job that will put the spinner out, or that never will.
Turns(i) ==
    \/ jobs[i].phase \in {"launched", "calling"} /\ ~jobs[i].cancelled
    \/ jobs[i].phase \in {"dropped", "crashed"}

SpinnerOK == authLoading => \E i \in AuthIds : Turns(i)

\* Nobody makes an account while one is being deleted.
ApartOK ==
    \A i, k \in AuthIds :
        Unfinished(i) /\ Unfinished(k) /\ jobs[i].button \in Makers
            => jobs[k].button # "deleteAccount"

\* The account comes before the document ...
MadeOK ==
    \A i \in AuthIds :
        /\ Unfinished(i) /\ jobs[i].button \in Makers
        /\ jobs[i].button = "google" \/ jobs[i].call = 2 \/ jobs[i].reply = "ok"
        => jobs[i].user \in accounts

\* ... and goes after it.
UnmadeOK ==
    \A i \in AuthIds :
        /\ Unfinished(i) /\ jobs[i].button = "deleteAccount"
        /\ jobs[i].call = 3 \/ (jobs[i].call = 2 /\ jobs[i].reply = "ok")
        => \A u \in Users : u = jobs[i].user => documents[u] = "none"

TogetherOK == \A u \in Users : documents[u] # "none" => u \in accounts

LaunchedOK ==
    \A i \in AuthIds :
        jobs[i].phase = "launched" => jobs[i].call = 1 /\ jobs[i].reply = "none"

LedgerOK == ~collided => ApartOK /\ MadeOK /\ UnmadeOK /\ TogetherOK

IInv == AuthTypeOK /\ LaunchedOK /\ SpinnerOK /\ LedgerOK

-----------------------------------------------------------------------------
\* The calls, one by one.
LEMMA CallsAre ==
    /\ Buttons = {"signUp", "signIn", "google", "signOut", "forgetPassword",
                  "changePassword", "deleteAccount"}
    /\ Calls["signUp"] = <<"createUser", "setDocument">>
    /\ Calls["signIn"] = <<"signInWithEmail">>
    /\ Calls["google"] = <<"getDocument", "setDocument">>
    /\ Calls["signOut"] = <<"getMethod", "signOut">>
    /\ Calls["forgetPassword"] = <<"sendResetEmail">>
    /\ Calls["changePassword"] = <<"reauthenticate", "updatePassword">>
    /\ Calls["deleteAccount"] = <<"reauthenticate", "deleteDocument", "deleteUser">>
BY DEF Calls, Buttons

\* Every flow has a first call, and its calls are numbered up to the last.
LEMMA CallNumbers ==
    ASSUME NEW b \in Buttons
    PROVE  /\ 1 \in DOMAIN Calls[b] /\ DOMAIN Calls[b] \subseteq 1..3
           /\ \A c \in DOMAIN Calls[b] :
                 c # Len(Calls[b]) => c + 1 \in DOMAIN Calls[b]
<1>1. CASE b \in {"signIn", "forgetPassword"}
  <2>1. DOMAIN Calls[b] = 1..1 /\ Len(Calls[b]) = 1 BY <1>1, CallsAre
  <2> QED BY <2>1
<1>2. CASE b \in {"signUp", "google", "signOut", "changePassword"}
  <2>1. DOMAIN Calls[b] = 1..2 /\ Len(Calls[b]) = 2 BY <1>2, CallsAre
  <2> QED BY <2>1
<1>3. CASE b = "deleteAccount"
  <2>1. DOMAIN Calls[b] = 1..3 /\ Len(Calls[b]) = 3 BY <1>3, CallsAre
  <2> QED BY <2>1
<1> QED BY <1>1, <1>2, <1>3, CallsAre

\* Who makes which call.
LEMMA WhoCalls ==
    ASSUME AuthTypeOK, NEW i \in AuthIds
    PROVE  /\ CallOf(i) = "createUser" => jobs[i].button = "signUp" /\ jobs[i].call = 1
           /\ CallOf(i) = "setDocument" => jobs[i].button \in Makers /\ jobs[i].call = 2
           /\ CallOf(i) = "deleteDocument"
                 => jobs[i].button = "deleteAccount" /\ jobs[i].call = 2
           /\ CallOf(i) = "deleteUser"
                 => jobs[i].button = "deleteAccount" /\ jobs[i].call = 3
           /\ CallOf(i) \in {"getDocument", "getMethod"}
                 => jobs[i].button \in {"google", "signOut"}
           /\ jobs[i].button = "signUp" /\ jobs[i].call = 1 => CallOf(i) = "createUser"
           /\ jobs[i].button = "deleteAccount" /\ jobs[i].call = 2
                 => CallOf(i) = "deleteDocument"
<1>1. jobs[i] \in JobRecords /\ jobs[i].call \in DOMAIN Calls[jobs[i].button]
  BY DEF AuthTypeOK, AuthIds
<1>2. jobs[i].button \in Buttons BY <1>1 DEF JobRecords
<1> QED BY <1>1, <1>2, CallsAre DEF CallOf, Makers

\* One record of the sequence is replaced.
LEMMA Replaced ==
    ASSUME AuthTypeOK, NEW i \in AuthIds, NEW r \in JobRecords,
           jobs' = [jobs EXCEPT ![i] = r]
    PROVE  /\ jobs' \in Seq(JobRecords) /\ AuthIds' = AuthIds /\ jobs'[i] = r
           /\ \A k \in AuthIds : k # i => jobs'[k] = jobs[k]
BY DEF AuthTypeOK, AuthIds

-----------------------------------------------------------------------------
LEMMA InitInv == AuthInit => IInv
<1> SUFFICES ASSUME AuthInit PROVE IInv OBVIOUS
<1>1. jobs \in Seq(JobRecords) /\ AuthIds = {} BY DEF AuthInit, AuthIds
<1>2. AuthTypeOK BY <1>1 DEF AuthInit, AuthTypeOK
<1>3. LaunchedOK /\ SpinnerOK BY <1>1 DEF AuthInit, LaunchedOK, SpinnerOK
<1>4. LedgerOK
  BY <1>1 DEF AuthInit, LedgerOK, ApartOK, MadeOK, UnmadeOK, TogetherOK
<1> QED BY <1>2, <1>3, <1>4 DEF IInv

\* A job that comes to an end, or to the delay of a sign-out, or that brought no
\* user, leaves the ledger as it is.
LEMMA PhaseKeeps ==
    ASSUME AuthTypeOK, LaunchedOK, LedgerOK, NEW i \in AuthIds,
           NEW p \in {"ended", "delay", "dropped", "crashed"},
           jobs[i].phase \notin {"ended", "dropped"},
           jobs' = [jobs EXCEPT ![i].phase = p],
           UNCHANGED <<firebase, firebaseUserId, collided>>,
           isLoggedIn' \in {"unread", "yes", "no"},
           authLoading' \in BOOLEAN, signOutWithGoogle' \in BOOLEAN
    PROVE  AuthTypeOK' /\ LaunchedOK' /\ LedgerOK'
<1> DEFINE r == [jobs[i] EXCEPT !.phase = p]
<1>1. jobs[i] \in JobRecords BY DEF AuthTypeOK, AuthIds
<1>2. /\ r \in JobRecords /\ r.phase = p /\ r.button = jobs[i].button
      /\ r.user = jobs[i].user /\ r.call = jobs[i].call /\ r.reply = jobs[i].reply
  BY <1>1 DEF JobRecords
<1>3. jobs' = [jobs EXCEPT ![i] = r] OBVIOUS
<1> HIDE DEF r
<1>4. /\ jobs' \in Seq(JobRecords) /\ AuthIds' = AuthIds /\ jobs'[i] = r
      /\ \A k \in AuthIds : k # i => jobs'[k] = jobs[k]
  BY <1>2, <1>3, Replaced
<1>5. AuthTypeOK' BY <1>2, <1>4 DEF AuthTypeOK, firebase
<1>6. LaunchedOK' BY <1>2, <1>4 DEF LaunchedOK
<1>7. \A k \in AuthIds : Unfinished(k)' => Unfinished(k)
  BY <1>2, <1>4 DEF Unfinished
<1>8. \A k \in AuthIds : /\ jobs'[k].button = jobs[k].button /\ jobs'[k].call = jobs[k].call
                        /\ jobs'[k].user = jobs[k].user /\ jobs'[k].reply = jobs[k].reply
  BY <1>2, <1>4
<1>9. LedgerOK'
  BY <1>4, <1>7, <1>8 DEF LedgerOK, ApartOK, MadeOK, UnmadeOK, TogetherOK, firebase
<1> QED BY <1>5, <1>6, <1>9

\* A first call is sent, for a user who exists if a Google sign-in names one.
LEMMA FirstKeeps ==
    ASSUME AuthTypeOK, LaunchedOK, LedgerOK, NEW i \in AuthIds,
           jobs[i].phase = "launched", NEW u \in Users \cup {Nobody},
           jobs[i].button = "google" => u = jobs[i].user,
           jobs[i].button # "signOut" => u \in Users,
           CallsFirst(i, u),
           UNCHANGED <<firebase, signOutWithGoogle, collided>>,
           firebaseUserId' \in Users \cup {Nobody},
           firebaseUserId # Nobody => firebaseUserId' = firebaseUserId,
           jobs[i].button \in {"google", "signOut"} => firebaseUserId' # Nobody,
           isLoggedIn' \in {"unread", "yes", "no"}
    PROVE  AuthTypeOK' /\ LaunchedOK' /\ LedgerOK'
<1> DEFINE r == [jobs[i] EXCEPT !.phase = "calling", !.user = u, !.reply = "sent"]
<1>1. jobs[i] \in JobRecords BY DEF AuthTypeOK, AuthIds
<1>2. /\ r \in JobRecords /\ r.phase = "calling" /\ r.button = jobs[i].button
      /\ r.user = u /\ r.call = jobs[i].call /\ r.reply = "sent"
  BY <1>1 DEF JobRecords
<1>3. jobs' = [jobs EXCEPT ![i] = r] /\ authLoading' = TRUE BY DEF CallsFirst
<1>4. jobs[i].call = 1 BY DEF LaunchedOK
<1> HIDE DEF r
<1>5. /\ jobs' \in Seq(JobRecords) /\ AuthIds' = AuthIds /\ jobs'[i] = r
      /\ \A k \in AuthIds : k # i => jobs'[k] = jobs[k]
  BY <1>2, <1>3, Replaced
<1>6. AuthTypeOK'
  <2>1. \A k \in AuthIds : jobs'[k].call \in DOMAIN Calls[jobs'[k].button]
    BY <1>2, <1>5 DEF AuthTypeOK
  <2>2. \A k \in AuthIds :
            jobs'[k].button \in {"google", "signOut"} /\ jobs'[k].reply # "none"
                => firebaseUserId' # Nobody
    BY <1>2, <1>5 DEF AuthTypeOK
  <2>3. \A k \in AuthIds :
            \/ jobs'[k].button = "google"
            \/ jobs'[k].button # "signOut" /\ jobs'[k].reply # "none"
            => jobs'[k].user \in Users
    BY <1>2, <1>5 DEF AuthTypeOK
  <2> QED BY <1>3, <1>5, <2>1, <2>2, <2>3 DEF AuthTypeOK, firebase
<1>7. LaunchedOK' BY <1>2, <1>5 DEF LaunchedOK
<1>8. Unfinished(i) BY DEF Unfinished
<1>9. \A k \in AuthIds : (Unfinished(k)' => Unfinished(k)) /\ jobs'[k].button = jobs[k].button
  BY <1>2, <1>5, <1>8 DEF Unfinished
<1>10. LedgerOK'
  <2> SUFFICES ASSUME ~collided PROVE ApartOK' /\ MadeOK' /\ UnmadeOK' /\ TogetherOK'
    BY DEF LedgerOK
  <2>1. ApartOK' BY <1>5, <1>9 DEF LedgerOK, ApartOK
  <2>2. MadeOK' BY <1>2, <1>4, <1>5, <1>8, <1>9 DEF LedgerOK, MadeOK, Makers, firebase
  <2>3. UnmadeOK' BY <1>2, <1>4, <1>5, <1>9 DEF LedgerOK, UnmadeOK, firebase
  <2>4. TogetherOK' BY DEF LedgerOK, TogetherOK, firebase
  <2> QED BY <2>1, <2>2, <2>3, <2>4
<1> QED BY <1>6, <1>7, <1>10

\* The next call is sent.
LEMMA NextKeeps ==
    ASSUME AuthTypeOK, LaunchedOK, LedgerOK, NEW i \in AuthIds, NextCall(i)
    PROVE  AuthTypeOK' /\ LaunchedOK' /\ LedgerOK'
<1> DEFINE r == [jobs[i] EXCEPT !.call = @ + 1, !.reply = "sent"]
<1>1. jobs[i] \in JobRecords /\ jobs[i].call \in DOMAIN Calls[jobs[i].button]
  BY DEF AuthTypeOK, AuthIds
<1>2. jobs[i].phase = "calling" /\ jobs[i].reply = "ok"
  BY DEF NextCall, Resumes
<1>3. jobs[i].call + 1 \in DOMAIN Calls[jobs[i].button] /\ jobs[i].call + 1 \in 1..3
  <2>1. jobs[i].button \in Buttons BY <1>1 DEF JobRecords
  <2>2. jobs[i].call # Len(Calls[jobs[i].button]) BY DEF NextCall, AtLastCall
  <2> QED BY <1>1, <2>1, <2>2, CallNumbers
<1>4. /\ r \in JobRecords /\ r.phase = "calling" /\ r.button = jobs[i].button
      /\ r.user = jobs[i].user /\ r.call = jobs[i].call + 1 /\ r.reply = "sent"
  BY <1>1, <1>2, <1>3 DEF JobRecords
<1>5. jobs' = [jobs EXCEPT ![i] = r] BY DEF NextCall
<1>6. UNCHANGED <<firebase, lazies, authState, collided>> BY DEF NextCall
<1> HIDE DEF r
<1>7. /\ jobs' \in Seq(JobRecords) /\ AuthIds' = AuthIds /\ jobs'[i] = r
      /\ \A k \in AuthIds : k # i => jobs'[k] = jobs[k]
  BY <1>4, <1>5, Replaced
<1>8. AuthTypeOK'
  <2>1. \A k \in AuthIds : jobs'[k].call \in DOMAIN Calls[jobs'[k].button]
    BY <1>3, <1>4, <1>7 DEF AuthTypeOK
  <2>2. \A k \in AuthIds :
            jobs'[k].button \in {"google", "signOut"} /\ jobs'[k].reply # "none"
                => firebaseUserId' # Nobody
    BY <1>2, <1>4, <1>6, <1>7 DEF AuthTypeOK, lazies
  <2>3. \A k \in AuthIds :
            \/ jobs'[k].button = "google"
            \/ jobs'[k].button # "signOut" /\ jobs'[k].reply # "none"
            => jobs'[k].user \in Users
    BY <1>2, <1>4, <1>7 DEF AuthTypeOK
  <2> QED BY <1>6, <1>7, <2>1, <2>2, <2>3 DEF AuthTypeOK, firebase, lazies, authState
<1>9. LaunchedOK' BY <1>4, <1>7 DEF LaunchedOK
<1>10. Unfinished(i) BY <1>2 DEF Unfinished
<1>11. \A k \in AuthIds : (Unfinished(k)' => Unfinished(k)) /\ jobs'[k].button = jobs[k].button
  BY <1>4, <1>7, <1>10 DEF Unfinished
<1>12. LedgerOK'
  <2> SUFFICES ASSUME ~collided PROVE ApartOK' /\ MadeOK' /\ UnmadeOK' /\ TogetherOK'
    BY <1>6 DEF LedgerOK
  <2>1. ApartOK' BY <1>7, <1>11 DEF LedgerOK, ApartOK
  <2>2. MadeOK'
    BY <1>2, <1>4, <1>6, <1>7, <1>10, <1>11 DEF LedgerOK, MadeOK, firebase
  <2>3. UnmadeOK'
    <3>1. jobs[i].call \in 1..3 BY <1>1 DEF JobRecords
    <3> QED BY <1>2, <1>4, <1>6, <1>7, <1>10, <1>11, <3>1 DEF LedgerOK, UnmadeOK, firebase
  <2>4. TogetherOK' BY <1>6 DEF LedgerOK, TogetherOK, firebase
  <2> QED BY <2>1, <2>2, <2>3, <2>4
<1> QED BY <1>8, <1>9, <1>12

\* Firebase serves a call: no document without an account, since whoever makes
\* one has the account and nobody deletes it meanwhile.
LEMMA ServeKeeps ==
    ASSUME AuthTypeOK, LaunchedOK, LedgerOK, NEW i \in AuthIds, Serve(i)
    PROVE  AuthTypeOK' /\ LaunchedOK' /\ LedgerOK'
<1> DEFINE u == jobs[i].user
           served == ServerDoes(i) /\ ~Refused(i)
<1>1. jobs[i] \in JobRecords /\ jobs[i].call \in DOMAIN Calls[jobs[i].button]
  BY DEF AuthTypeOK, AuthIds
<1>2. jobs[i].reply = "sent" BY DEF Serve
<1>3. UNCHANGED <<lazies, authState, collided>> BY DEF Serve
<1>4. PICK r \in JobRecords :
        /\ jobs' = [jobs EXCEPT ![i] = r]
        /\ r.phase = jobs[i].phase /\ r.button = jobs[i].button
        /\ r.user = u /\ r.call = jobs[i].call /\ r.cancelled = jobs[i].cancelled
        /\ \/ r.reply = "ok" /\ served /\ ClientDoes(i)
           \/ r.reply = "failed" /\ (UNCHANGED firebase \/ (served /\ UNCHANGED currentUser))
  <2> DEFINE found == IF CallOf(i) \in {"getDocument", "getMethod"}
                      THEN documents[firebaseUserId] ELSE jobs[i].found
             ok == [jobs[i] EXCEPT !.reply = "ok", !.found = found]
             failed == [jobs[i] EXCEPT !.reply = "failed"]
  <2>1. found \in {"none", "EMAIL", "GOOGLE"}
    <3>1. CASE CallOf(i) \in {"getDocument", "getMethod"}
      <4>1. jobs[i].button \in {"google", "signOut"} BY <3>1, WhoCalls
      <4>2. firebaseUserId \in Users BY <1>2, <4>1 DEF AuthTypeOK
      <4> QED BY <3>1, <4>2 DEF AuthTypeOK
    <3>2. CASE CallOf(i) \notin {"getDocument", "getMethod"} BY <1>1, <3>2 DEF JobRecords
    <3> QED BY <3>1, <3>2
  <2>2. ok \in JobRecords BY <1>1, <2>1 DEF JobRecords
  <2>3. failed \in JobRecords BY <1>1 DEF JobRecords
  <2>4. CASE ~Refused(i) /\ ServerDoes(i) /\ ClientDoes(i) /\ jobs' = [jobs EXCEPT ![i] = ok]
    <3>1. ok.reply = "ok" /\ ok.phase = jobs[i].phase /\ ok.button = jobs[i].button
          /\ ok.user = u /\ ok.call = jobs[i].call /\ ok.cancelled = jobs[i].cancelled
      BY <1>1 DEF JobRecords
    <3> QED BY <2>2, <2>4, <3>1
  <2>5. CASE /\ UNCHANGED firebase \/ (~Refused(i) /\ ServerDoes(i) /\ UNCHANGED currentUser)
             /\ jobs' = [jobs EXCEPT ![i] = failed]
    <3>1. failed.reply = "failed" /\ failed.phase = jobs[i].phase /\ failed.button = jobs[i].button
          /\ failed.user = u /\ failed.call = jobs[i].call /\ failed.cancelled = jobs[i].cancelled
      BY <1>1 DEF JobRecords
    <3> QED BY <2>3, <2>5, <3>1
  <2>6. jobs' = [jobs EXCEPT ![i] = ok] \/ jobs' = [jobs EXCEPT ![i] = failed]
    BY DEF Serve
  <2> QED BY <2>4, <2>5 DEF Serve
<1>5. /\ jobs' \in Seq(JobRecords) /\ AuthIds' = AuthIds /\ jobs'[i] = r
      /\ \A k \in AuthIds : k # i => jobs'[k] = jobs[k]
  BY <1>4, Replaced
<1>6. Unfinished(i) BY <1>2 DEF Unfinished
<1>7. \A k \in AuthIds : /\ Unfinished(k)' => Unfinished(k)
                        /\ jobs'[k].button = jobs[k].button /\ jobs'[k].call = jobs[k].call
                        /\ jobs'[k].user = jobs[k].user
  BY <1>4, <1>5, <1>6 DEF Unfinished
<1>8. UNCHANGED firebase \/ served BY <1>4
<1>9. jobs[i].button # "signOut" => u \in Users BY <1>2 DEF AuthTypeOK
<1>10. accounts' \subseteq Users
  <2>1. CallOf(i) = "createUser" => u \in Users BY <1>9, WhoCalls
  <2> QED BY <1>8, <2>1 DEF ServerDoes, AuthTypeOK, firebase
<1>11. documents' \in [Users -> {"none", "EMAIL", "GOOGLE"}]
  BY <1>8 DEF ServerDoes, AuthTypeOK, firebase
<1>12. currentUser' \in Users \cup {Nobody}
  <2>1. u \in Users \cup {Nobody} BY <1>1 DEF JobRecords
  <2> QED BY <1>4, <2>1 DEF ClientDoes, AuthTypeOK, firebase
<1>13. AuthTypeOK'
  <2>1. \A k \in AuthIds :
          /\ jobs'[k].call \in DOMAIN Calls[jobs'[k].button]
          /\ jobs'[k].button \in {"google", "signOut"} /\ jobs'[k].reply # "none"
                => firebaseUserId' # Nobody
          /\ jobs'[k].button = "google" \/ (jobs'[k].button # "signOut" /\ jobs'[k].reply # "none")
                => jobs'[k].user \in Users
    BY <1>2, <1>3, <1>4, <1>5, <1>7 DEF AuthTypeOK, lazies
  <2> QED BY <1>3, <1>5, <1>10, <1>11, <1>12, <2>1 DEF AuthTypeOK, lazies, authState
<1>14. LaunchedOK' BY <1>2, <1>4, <1>5 DEF LaunchedOK
<1>15. LedgerOK'
  <2> SUFFICES ASSUME ~collided PROVE ApartOK' /\ MadeOK' /\ UnmadeOK' /\ TogetherOK'
    BY <1>3 DEF LedgerOK
  <2>1. ApartOK' BY <1>5, <1>7 DEF LedgerOK, ApartOK
  <2>2. \A v : v \in accounts /\ v \notin accounts' => v = u /\ CallOf(i) = "deleteUser"
    BY <1>8 DEF ServerDoes, firebase
  <2>3. \A v \in Users :
            documents'[v] # documents[v] =>
                /\ v = u
                /\ CallOf(i) = "setDocument" \/ documents'[v] = "none"
    BY <1>8 DEF ServerDoes, firebase, AuthTypeOK
  <2>4. CallOf(i) = "deleteUser" =>
            \A k \in AuthIds : Unfinished(k) => jobs[k].button \notin Makers
    BY <1>6, WhoCalls DEF LedgerOK, ApartOK
  <2>5. CallOf(i) = "setDocument" =>
            /\ u \in accounts
            /\ \A k \in AuthIds : Unfinished(k) => jobs[k].button # "deleteAccount"
    BY <1>6, WhoCalls DEF LedgerOK, ApartOK, MadeOK
  <2>6. MadeOK'
    <3> SUFFICES ASSUME NEW k \in AuthIds, Unfinished(k)', jobs'[k].button \in Makers,
                        jobs'[k].button = "google" \/ jobs'[k].call = 2 \/ jobs'[k].reply = "ok"
                 PROVE  jobs'[k].user \in accounts'
      BY <1>5 DEF MadeOK
    <3>1. Unfinished(k) /\ jobs[k].button \in Makers BY <1>7
    <3>2. CASE jobs[k].button = "google" \/ jobs[k].call = 2 \/ jobs[k].reply = "ok"
      <4>1. jobs[k].user \in accounts BY <3>1, <3>2 DEF LedgerOK, MadeOK
      <4> QED BY <1>7, <2>2, <2>4, <3>1, <4>1
    <3>3. CASE ~(jobs[k].button = "google" \/ jobs[k].call = 2 \/ jobs[k].reply = "ok")
      <4>1. k = i /\ r.reply = "ok" BY <1>5, <1>7, <3>3
      <4>2. served BY <1>4, <4>1
      <4>3. jobs[i].button = "signUp" /\ jobs[i].call = 1
        BY <1>1, <3>1, <3>3, <4>1, CallsAre DEF Makers
      <4>4. CallOf(i) = "createUser" BY <4>3, WhoCalls
      <4> QED BY <1>7, <4>1, <4>2, <4>4 DEF ServerDoes
    <3> QED BY <3>2, <3>3
  <2>7. UnmadeOK'
    <3> SUFFICES ASSUME NEW k \in AuthIds, Unfinished(k)', jobs'[k].button = "deleteAccount",
                        jobs'[k].call = 3 \/ (jobs'[k].call = 2 /\ jobs'[k].reply = "ok"),
                        NEW v \in Users, v = jobs'[k].user
                 PROVE  documents'[v] = "none"
      BY <1>5 DEF UnmadeOK
    <3>1. Unfinished(k) /\ jobs[k].button = "deleteAccount" /\ v = jobs[k].user BY <1>7
    <3>2. CASE jobs[k].call = 3 \/ (jobs[k].call = 2 /\ jobs[k].reply = "ok")
      <4>1. documents[v] = "none" BY <3>1, <3>2 DEF LedgerOK, UnmadeOK
      <4>2. CallOf(i) # "setDocument" BY <2>5, <3>1
      <4> QED BY <2>3, <4>1, <4>2
    <3>3. CASE ~(jobs[k].call = 3 \/ (jobs[k].call = 2 /\ jobs[k].reply = "ok"))
      <4>1. k = i /\ r.reply = "ok" /\ jobs[i].call = 2 BY <1>5, <1>7, <3>3
      <4>2. served BY <1>4, <4>1
      <4>3. CallOf(i) = "deleteDocument" BY <3>1, <4>1, WhoCalls
      <4> QED BY <3>1, <4>1, <4>2, <4>3 DEF ServerDoes, AuthTypeOK
    <3> QED BY <3>2, <3>3
  <2>8. TogetherOK'
    <3> SUFFICES ASSUME NEW v \in Users, documents'[v] # "none" PROVE v \in accounts'
      BY DEF TogetherOK
    <3>1. CASE documents[v] # "none"
      <4>1. v \in accounts BY <3>1 DEF LedgerOK, TogetherOK
      <4>2. CallOf(i) = "deleteUser" /\ v = u => documents[v] = "none"
        BY <1>6, WhoCalls DEF LedgerOK, UnmadeOK
      <4> QED BY <2>2, <3>1, <4>1, <4>2
    <3>2. CASE documents[v] = "none"
      <4>1. CallOf(i) = "setDocument" /\ v = u BY <2>3, <3>2
      <4> QED BY <2>2, <2>5, <4>1
    <3> QED BY <3>1, <3>2
  <2> QED BY <2>1, <2>6, <2>7, <2>8
<1> QED BY <1>13, <1>14, <1>15

\* A button is pressed.  Whoever makes an account while another is deleted, or
\* deletes one while another is made, is noted.
LEMMA PressKeeps ==
    ASSUME IInv, NEW b \in Buttons, NEW u \in Users \cup {Nobody}, PressButton(b, u),
           b = "google" => u \in Users /\ u \in accounts',
           accounts \subseteq accounts', accounts' \subseteq Users,
           currentUser' \in Users \cup {Nobody}
    PROVE  IInv'
<1> DEFINE new == [button |-> b, user |-> u, phase |-> "launched", call |-> 1,
                   reply |-> "none", found |-> "none", cancelled |-> FALSE]
           old == [i \in AuthIds |->
                     IF jobs[i].button \in CancelledBy(b)
                     THEN [jobs[i] EXCEPT !.cancelled = TRUE] ELSE jobs[i]]
           n == Len(jobs) + 1
<1>1. jobs \in Seq(JobRecords) /\ AuthIds = 1..Len(jobs) BY DEF IInv, AuthTypeOK, AuthIds
<1>2. \A i \in AuthIds : jobs[i] \in JobRecords BY <1>1
<1>3. new \in JobRecords BY DEF JobRecords
<1>4. \A i \in AuthIds :
        /\ old[i] \in JobRecords
        /\ old[i].phase = jobs[i].phase /\ old[i].button = jobs[i].button
        /\ old[i].call = jobs[i].call /\ old[i].user = jobs[i].user
        /\ old[i].reply = jobs[i].reply
  BY <1>2 DEF JobRecords
<1>5. old \in Seq(JobRecords) /\ Len(old) = Len(jobs) BY <1>1, <1>4
<1>6. jobs' = Append(old, new) BY DEF PressButton
<1>7. /\ new.phase = "launched" /\ new.button = b /\ new.call = 1 /\ new.user = u
      /\ new.reply = "none" /\ new.cancelled = FALSE
  OBVIOUS
<1> HIDE DEF old, new
<1>8. /\ jobs' \in Seq(JobRecords) /\ AuthIds' = AuthIds \cup {n} /\ n \notin AuthIds
      /\ jobs'[n] = new /\ \A i \in AuthIds : jobs'[i] = old[i]
  BY <1>1, <1>3, <1>5, <1>6 DEF AuthIds
<1> HIDE DEF n
<1>9. UNCHANGED <<lazies, documents, authState>> BY DEF PressButton
<1>10. collided' \in BOOLEAN /\ (~collided' => ~collided)
  BY DEF PressButton, IInv, AuthTypeOK
<1>11. AuthTypeOK'
  <2>1. 1 \in DOMAIN Calls[b] BY CallNumbers
  <2>2. \A k \in AuthIds' :
          /\ jobs'[k].call \in DOMAIN Calls[jobs'[k].button]
          /\ jobs'[k].button \in {"google", "signOut"} /\ jobs'[k].reply # "none"
                => firebaseUserId' # Nobody
          /\ jobs'[k].button = "google" \/ (jobs'[k].button # "signOut" /\ jobs'[k].reply # "none")
                => jobs'[k].user \in Users
    BY <1>4, <1>7, <1>8, <1>9, <2>1 DEF IInv, AuthTypeOK, lazies
  <2> QED BY <1>8, <1>9, <1>10, <2>2 DEF IInv, AuthTypeOK, lazies, authState
<1>12. LaunchedOK' BY <1>4, <1>7, <1>8 DEF IInv, LaunchedOK
<1>13. SpinnerOK' BY <1>7, <1>8 DEF SpinnerOK, Turns
<1>14. \A i \in AuthIds : Unfinished(i)' = Unfinished(i) BY <1>4, <1>8 DEF Unfinished
<1>15. ASSUME ~collided' PROVE ApartOK' /\ MadeOK' /\ UnmadeOK' /\ TogetherOK'
  <2>1. ApartOK /\ MadeOK /\ UnmadeOK /\ TogetherOK BY <1>10, <1>15 DEF IInv, LedgerOK
  <2>2. \A i \in AuthIds :
            Unfinished(i) =>
                /\ ~(b \in Makers /\ jobs[i].button = "deleteAccount")
                /\ ~(b = "deleteAccount" /\ jobs[i].button \in Makers)
    BY <1>15 DEF PressButton, Makers
  <2>3. ApartOK'
    BY <1>4, <1>7, <1>8, <1>14, <2>1, <2>2 DEF ApartOK, Makers
  <2>4. MadeOK' BY <1>4, <1>7, <1>8, <1>14, <2>1 DEF MadeOK
  <2>5. UnmadeOK' BY <1>4, <1>7, <1>8, <1>9, <1>14, <2>1 DEF UnmadeOK
  <2>6. TogetherOK' BY <1>9, <2>1 DEF TogetherOK
  <2> QED BY <2>3, <2>4, <2>5, <2>6
<1> QED BY <1>11, <1>12, <1>13, <1>15 DEF IInv, LedgerOK

-----------------------------------------------------------------------------
\* Who turns the spinner goes on turning it, or puts it out.
LEMMA SpinnerKeeps ==
    ASSUME AuthTypeOK, LaunchedOK, SpinnerOK, NEW i \in AuthIds, JobStep(i)
    PROVE  SpinnerOK'
<1>1. jobs \in Seq(JobRecords) /\ AuthIds = 1..Len(jobs) /\ jobs[i] \in JobRecords
  BY DEF AuthTypeOK, AuthIds
<1>2. SUFFICES ASSUME authLoading' PROVE \E k \in AuthIds' : Turns(k)'
  BY DEF SpinnerOK
<1>3. ASSUME NEW r \in JobRecords, jobs' = [jobs EXCEPT ![i] = r]
      PROVE  /\ AuthIds' = AuthIds /\ jobs'[i] = r
             /\ \A k \in AuthIds : k # i => jobs'[k] = jobs[k]
  BY <1>3, Replaced
<1>4. CASE SkipJob(i)
  <2> DEFINE r == [jobs[i] EXCEPT !.phase = "ended"]
  <2>1. r \in JobRecords BY <1>1 DEF JobRecords
  <2>2. jobs' = [jobs EXCEPT ![i] = r] /\ authLoading' = authLoading /\ ~Turns(i)
    BY <1>4 DEF SkipJob, authState, Turns
  <2> HIDE DEF r
  <2>3. PICK k \in AuthIds : Turns(k) BY <1>2, <2>2 DEF SpinnerOK
  <2>4. jobs'[k] = jobs[k] /\ AuthIds' = AuthIds BY <1>3, <2>1, <2>2, <2>3
  <2> QED BY <2>3, <2>4 DEF Turns
<1>5. CASE BeginJob(i)
  <2>1. ~jobs[i].cancelled BY <1>5 DEF BeginJob
  <2>2. CASE Ends(i) BY <1>2, <2>2 DEF Ends
  <2>3. CASE \E u \in Users \cup {Nobody} : CallsFirst(i, u)
    <3>1. PICK u \in Users \cup {Nobody} : CallsFirst(i, u) BY <2>3
    <3> DEFINE r == [jobs[i] EXCEPT !.phase = "calling", !.user = u, !.reply = "sent"]
    <3>2. r \in JobRecords /\ r.phase = "calling" /\ r.cancelled = jobs[i].cancelled
      BY <1>1 DEF JobRecords
    <3>3. jobs' = [jobs EXCEPT ![i] = r] BY <3>1 DEF CallsFirst
    <3> HIDE DEF r
    <3>4. AuthIds' = AuthIds /\ jobs'[i] = r BY <1>3, <3>2, <3>3
    <3> QED BY <2>1, <3>2, <3>4 DEF Turns
  <2>4. CASE jobs' = [jobs EXCEPT ![i].phase = "crashed"]
    <3> DEFINE r == [jobs[i] EXCEPT !.phase = "crashed"]
    <3>1. r \in JobRecords /\ r.phase = "crashed" BY <1>1 DEF JobRecords
    <3>2. jobs' = [jobs EXCEPT ![i] = r] BY <2>4
    <3> HIDE DEF r
    <3>3. AuthIds' = AuthIds /\ jobs'[i] = r BY <1>3, <3>1, <3>2
    <3> QED BY <3>1, <3>3 DEF Turns
  <2>5. jobs[i].user \in Users \cup {Nobody} /\ currentUser \in Users \cup {Nobody}
    BY <1>1 DEF JobRecords, AuthTypeOK
  <2> QED BY <1>5, <2>2, <2>3, <2>4, <2>5
          DEF BeginJob, BeginForm, BeginLookup, BeginDelete, BeginChange
<1>6. CASE Serve(i) \/ NextCall(i)
  <2>1. /\ jobs'[i].phase = jobs[i].phase /\ jobs'[i].cancelled = jobs[i].cancelled
        /\ AuthIds' = AuthIds /\ \A k \in AuthIds : k # i => jobs'[k] = jobs[k]
    <3>1. CASE Serve(i) BY <1>1, <3>1 DEF Serve, AuthIds, JobRecords
    <3>2. CASE NextCall(i) BY <1>1, <3>2 DEF NextCall, AuthIds, JobRecords
    <3> QED BY <1>6, <3>1, <3>2
  <2>3. authLoading' = authLoading BY <1>6 DEF Serve, NextCall, authState
  <2>4. PICK k \in AuthIds : Turns(k) BY <1>2, <2>3 DEF SpinnerOK
  <2> QED BY <2>1, <2>4 DEF Turns
<1>7. CASE NoUser(i)
  <2> DEFINE r == [jobs[i] EXCEPT !.phase = "dropped"]
  <2>1. r \in JobRecords /\ r.phase = "dropped" BY <1>1 DEF JobRecords
  <2>2. jobs' = [jobs EXCEPT ![i] = r] BY <1>7 DEF NoUser
  <2> HIDE DEF r
  <2>3. AuthIds' = AuthIds /\ jobs'[i] = r BY <1>3, <2>1, <2>2
  <2> QED BY <2>1, <2>3 DEF Turns
<1>8. CASE Finish(i) \/ SignedOut(i) \/ AfterDelay(i)
  BY <1>2, <1>8 DEF Finish, SignedOut, AfterDelay, Ends
<1>9. CASE Abort(i)
  <2> DEFINE r == [jobs[i] EXCEPT !.phase = "ended"]
  <2>1. r \in JobRecords BY <1>1 DEF JobRecords
  <2>2. jobs' = [jobs EXCEPT ![i] = r] /\ authLoading' = authLoading /\ ~Turns(i)
    BY <1>2, <1>9 DEF Abort, Ends, Turns
  <2> HIDE DEF r
  <2>3. PICK k \in AuthIds : Turns(k) BY <1>2, <2>2 DEF SpinnerOK
  <2>4. jobs'[k] = jobs[k] /\ AuthIds' = AuthIds BY <1>3, <2>1, <2>2, <2>3
  <2> QED BY <2>3, <2>4 DEF Turns
<1> QED BY <1>4, <1>5, <1>6, <1>7, <1>8, <1>9 DEF JobStep

\* A job begins: with an error, a crash or its first call.
LEMMA BeginKeeps ==
    ASSUME AuthTypeOK, LaunchedOK, LedgerOK, NEW i \in AuthIds, BeginJob(i)
    PROVE  AuthTypeOK' /\ LaunchedOK' /\ LedgerOK'
<1>1. jobs[i] \in JobRecords BY DEF AuthTypeOK, AuthIds
<1>2. /\ jobs[i].phase = "launched"
      /\ UNCHANGED <<firebase, signOutWithGoogle, collided>>
  BY DEF BeginJob
<1>3. currentUser \in Users \cup {Nobody} /\ firebaseUserId \in Users \cup {Nobody}
      /\ isLoggedIn \in {"unread", "yes", "no"} /\ signOutWithGoogle \in BOOLEAN
      /\ jobs[i].user \in Users \cup {Nobody}
  BY <1>1 DEF AuthTypeOK, JobRecords
<1>4. CASE BeginForm(i)
  <2>1. PICK u \in Users : CallsFirst(i, u) BY <1>4 DEF BeginForm
  <2>2. jobs[i].button \notin {"google", "signOut"} /\ UNCHANGED lazies
    BY <1>4 DEF BeginForm
  <2> QED BY <1>2, <1>3, <2>1, <2>2, FirstKeeps DEF lazies
<1>5. CASE BeginLookup(i)
  <2>1. /\ jobs[i].button \in {"google", "signOut"} /\ isLoggedIn' = isLoggedIn
        /\ firebaseUserId' = IF firebaseUserId = Nobody THEN currentUser ELSE firebaseUserId
    BY <1>5 DEF BeginLookup
  <2>2. CASE firebaseUserId' = Nobody
    <3>1. Ends(i) /\ firebaseUserId' = firebaseUserId BY <1>5, <2>1, <2>2 DEF BeginLookup
    <3> QED BY <1>2, <1>3, <2>1, <3>1, PhaseKeeps DEF Ends
  <2>3. CASE firebaseUserId' # Nobody
    <3>1. CallsFirst(i, jobs[i].user) BY <1>5, <2>3 DEF BeginLookup
    <3>2. jobs[i].button = "google" => jobs[i].user \in Users BY DEF AuthTypeOK
    <3> QED BY <1>2, <1>3, <2>1, <2>3, <3>1, <3>2, FirstKeeps
  <2> QED BY <2>2, <2>3
<1>6. CASE BeginDelete(i)
  <2>1. jobs[i].button = "deleteAccount" /\ UNCHANGED lazies BY <1>6 DEF BeginDelete
  <2>2. CASE currentUser = Nobody
    <3>1. Ends(i) BY <1>6, <2>2 DEF BeginDelete
    <3> QED BY <1>2, <1>3, <2>1, <3>1, PhaseKeeps DEF Ends, lazies
  <2>3. CASE currentUser # Nobody
    <3>1. CallsFirst(i, currentUser) BY <1>6, <2>3 DEF BeginDelete
    <3> QED BY <1>2, <1>3, <2>1, <2>3, <3>1, FirstKeeps DEF lazies
  <2> QED BY <2>2, <2>3
<1>7. CASE BeginChange(i)
  <2>1. /\ jobs[i].button = "changePassword" /\ firebaseUserId' = firebaseUserId
        /\ isLoggedIn' \in {"unread", "yes", "no"}
    BY <1>3, <1>7 DEF BeginChange
  <2>2. CASE Ends(i) BY <1>2, <1>3, <2>1, <2>2, PhaseKeeps DEF Ends
  <2>3. CASE currentUser # Nobody /\ CallsFirst(i, currentUser)
    BY <1>2, <1>3, <2>1, <2>3, FirstKeeps
  <2>4. CASE jobs' = [jobs EXCEPT ![i].phase = "crashed"] /\ authLoading' = TRUE
    BY <1>2, <1>3, <2>1, <2>4, PhaseKeeps
  <2> QED BY <1>7, <2>2, <2>3, <2>4 DEF BeginChange
<1> QED BY <1>4, <1>5, <1>6, <1>7 DEF BeginJob

LEMMA JobKeeps ==
    ASSUME IInv, NEW i \in AuthIds, JobStep(i)
    PROVE  IInv'
<1>1. AuthTypeOK /\ LaunchedOK /\ LedgerOK /\ SpinnerOK BY DEF IInv
<1>2. SpinnerOK' BY <1>1, SpinnerKeeps
<1>3. AuthTypeOK' /\ LaunchedOK' /\ LedgerOK'
  <2>1. signOutWithGoogle \in BOOLEAN /\ authLoading \in BOOLEAN
        /\ isLoggedIn \in {"unread", "yes", "no"}
    BY <1>1 DEF AuthTypeOK
  <2>2. CASE SkipJob(i)
    BY <1>1, <2>1, <2>2, PhaseKeeps DEF SkipJob, lazies, authState
  <2>3. CASE BeginJob(i) BY <1>1, <2>3, BeginKeeps
  <2>4. CASE Serve(i) BY <1>1, <2>4, ServeKeeps
  <2>5. CASE NextCall(i) BY <1>1, <2>5, NextKeeps
  <2>6. CASE NoUser(i)
    BY <1>1, <2>1, <2>6, PhaseKeeps DEF NoUser, Resumes, lazies, authState
  <2>7. CASE Finish(i)
    BY <1>1, <2>1, <2>7, PhaseKeeps DEF Finish, Resumes, Ends, lazies
  <2>8. CASE SignedOut(i)
    <3>1. signOutWithGoogle' \in BOOLEAN BY <2>8 DEF SignedOut
    <3> QED BY <1>1, <2>1, <2>8, <3>1, PhaseKeeps DEF SignedOut, Resumes, lazies
  <2>9. CASE AfterDelay(i)
    BY <1>1, <2>1, <2>9, PhaseKeeps DEF AfterDelay, Ends, lazies
  <2>10. CASE Abort(i)
    <3>1. jobs' = [jobs EXCEPT ![i].phase = "ended"] /\ authLoading' \in BOOLEAN
      BY <2>1, <2>10 DEF Abort, Ends
    <3> QED BY <1>1, <2>1, <2>10, <3>1, PhaseKeeps DEF Abort, lazies
  <2> QED BY <2>2, <2>3, <2>4, <2>5, <2>6, <2>7, <2>8, <2>9, <2>10 DEF JobStep
<1> QED BY <1>2, <1>3 DEF IInv

LEMMA StepInv == IInv /\ [AuthNext]_authVars => IInv'
<1> SUFFICES ASSUME IInv, [AuthNext]_authVars PROVE IInv' OBVIOUS
<1>1. /\ accounts \subseteq Users /\ currentUser \in Users \cup {Nobody}
  BY DEF IInv, AuthTypeOK
<1>2. CASE Press
  <2>1. PICK b \in Buttons \ {"google"} :
            PressButton(b, Nobody) /\ UNCHANGED <<accounts, currentUser>>
    BY <1>2 DEF Press
  <2> QED BY <1>1, <2>1, PressKeeps
<1>3. CASE PressGoogle
  <2>1. PICK u \in Users : PressButton("google", u)
                          /\ accounts' = accounts \cup {u} /\ currentUser' = u
    BY <1>3 DEF PressGoogle
  <2>2. "google" \in Buttons BY CallsAre
  <2> QED BY <1>1, <2>1, <2>2, PressKeeps
<1>4. CASE \E i \in AuthIds : JobStep(i) BY <1>4, JobKeeps
<1>5. CASE UNCHANGED authVars
  BY <1>5 DEF authVars, firebase, lazies, authState, IInv, AuthTypeOK, LaunchedOK,
              SpinnerOK, Turns, LedgerOK, ApartOK, MadeOK, UnmadeOK, TogetherOK,
              Unfinished, AuthIds
<1> QED BY <1>2, <1>3, <1>4, <1>5 DEF AuthNext

\* The invariant holds of every behaviour.
THEOREM AUInvariant == AuthSpec => []IInv
BY InitInv, StepInv, PTL DEF AuthSpec

\* The types, for any users and any number of presses.
THEOREM AUTypeCorrect == AuthSpec => []AuthTypeOK
<1>1. IInv => AuthTypeOK BY DEF IInv
<1> QED BY <1>1, AUInvariant, PTL

\* isLoading is true only while a job is at work that will reset it, or when a
\* sign-up got no user.
THEOREM AULoadingMeansWork == AuthSpec => []AuthLoadingMeansWork
<1>1. IInv => AuthLoadingMeansWork
  BY DEF IInv, SpinnerOK, Turns, AuthLoadingMeansWork
<1> QED BY <1>1, AUInvariant, PTL

\* A document never outlives its account, whatever fails and is cancelled, unless
\* a deletion and a sign-up overlap.
THEOREM AUDocumentsHaveAccounts == AuthSpec => []DocumentsHaveAccounts
<1>1. IInv => DocumentsHaveAccounts
  BY DEF IInv, LedgerOK, TogetherOK, DocumentsHaveAccounts
<1> QED BY <1>1, AUInvariant, PTL
-----------------------------------------------------------------------------
(* Accounts without documents.                                             *)

\* Job i is about to give user u a document, or to delete u's account.
Owing(i, u) ==
    /\ jobs[i].phase = "calling" /\ jobs[i].user = u
    /\ \/ jobs[i].button = "signUp" /\ jobs[i].call = 1 /\ jobs[i].reply = "ok"
       \/ jobs[i].button \in Makers /\ jobs[i].call = 2 /\ jobs[i].reply = "sent"
       \/ jobs[i].button = "google" /\ jobs[i].call = 1 /\ jobs[i].reply = "sent"
       \/ /\ jobs[i].button = "google" /\ jobs[i].call = 1 /\ jobs[i].reply = "ok"
          /\ firebaseUserId = u => jobs[i].found = "none"
       \/ jobs[i].button = "deleteAccount" /\ jobs[i].call = 2 /\ jobs[i].reply = "ok"
       \/ jobs[i].button = "deleteAccount" /\ jobs[i].call = 3 /\ jobs[i].reply = "sent"

Explains(i, u) == Unmade(i, u) \/ Owing(i, u)

\* Who waits for an answer is where it was asked, unless cancelled.
SentOK ==
    \A i \in AuthIds : jobs[i].reply = "sent" => jobs[i].phase = "calling" \/ jobs[i].cancelled

ExplainedOK ==
    \A u \in accounts : documents[u] = "none" => \E i \in AuthIds : Explains(i, u)

\* The kinds of steps of a job, by what they do to its record.
LEMMA JobKinds ==
    ASSUME IInv, NEW i \in AuthIds, JobStep(i), ~Serve(i)
    PROVE  /\ AuthIds' = AuthIds /\ jobs'[i].button = jobs[i].button
           /\ jobs'[i].cancelled = jobs[i].cancelled
           /\ \A k \in AuthIds : k # i => jobs'[k] = jobs[k]
           /\ UNCHANGED <<accounts, documents>>
           /\ firebaseUserId # Nobody => firebaseUserId' = firebaseUserId
           /\ \/ /\ jobs'[i].user = jobs[i].user /\ jobs'[i].call = jobs[i].call
                 /\ jobs'[i].reply = jobs[i].reply
                 /\ \/ jobs[i].phase # "calling" /\ jobs[i].phase # "dropped"
                       /\ (jobs[i].reply = "none" \/ jobs[i].phase # "launched")
                    \/ jobs[i].cancelled /\ jobs[i].phase = "calling"
                    \/ jobs'[i].phase = "dropped" /\ jobs[i].button = "signUp"
                       /\ jobs[i].phase = "calling" /\ jobs[i].reply = "ok"
                    \/ jobs[i].phase = "calling" /\ jobs[i].reply = "failed"
                    \/ jobs[i].phase = "calling" /\ jobs[i].reply = "ok"
                       /\ (AtLastCall(i) \/ Found(i))
              \/ /\ jobs[i].phase = "launched" /\ jobs[i].reply = "none" /\ jobs[i].call = 1
                 /\ ~jobs[i].cancelled /\ jobs'[i].phase = "calling" /\ jobs'[i].call = 1
                 /\ jobs'[i].reply = "sent"
                 /\ jobs[i].button = "google" => jobs'[i].user = jobs[i].user
              \/ /\ jobs[i].phase = "calling" /\ jobs'[i].phase = "calling"
                 /\ jobs[i].reply = "ok" /\ jobs'[i].reply = "sent"
                 /\ ~jobs[i].cancelled
                 /\ jobs'[i].user = jobs[i].user /\ jobs'[i].call = jobs[i].call + 1
<1>1. jobs \in Seq(JobRecords) /\ AuthIds = 1..Len(jobs) /\ jobs[i] \in JobRecords
  BY DEF IInv, AuthTypeOK, AuthIds
<1>2. jobs[i].phase = "launched" => jobs[i].call = 1 /\ jobs[i].reply = "none"
  BY DEF IInv, LaunchedOK
<1>3. ASSUME NEW p \in {"ended", "delay", "dropped", "crashed"},
             jobs' = [jobs EXCEPT ![i].phase = p]
      PROVE  /\ AuthIds' = AuthIds /\ jobs'[i].button = jobs[i].button
             /\ jobs'[i].cancelled = jobs[i].cancelled
             /\ \A k \in AuthIds : k # i => jobs'[k] = jobs[k]
             /\ jobs'[i].user = jobs[i].user /\ jobs'[i].call = jobs[i].call
             /\ jobs'[i].reply = jobs[i].reply /\ jobs'[i].phase = p
  BY <1>1, <1>3 DEF AuthIds, JobRecords
<1>4. CASE SkipJob(i)
  <2>1. jobs' = [jobs EXCEPT ![i].phase = "ended"] BY <1>4 DEF SkipJob
  <2>2. jobs[i].phase = "launched" /\ UNCHANGED <<firebase, lazies>> BY <1>4 DEF SkipJob
  <2> QED BY <1>2, <1>3, <2>1, <2>2 DEF firebase, lazies
<1>5. CASE BeginJob(i)
  <2>1. /\ UNCHANGED firebase /\ jobs[i].phase = "launched" /\ ~jobs[i].cancelled
        /\ firebaseUserId # Nobody => firebaseUserId' = firebaseUserId
    BY <1>5 DEF BeginJob, BeginForm, BeginLookup, BeginDelete, BeginChange, lazies
  <2>2. CASE Ends(i)
    <3>1. jobs' = [jobs EXCEPT ![i].phase = "ended"] BY <2>2 DEF Ends
    <3> QED BY <1>2, <1>3, <2>1, <3>1 DEF firebase
  <2>3. CASE jobs' = [jobs EXCEPT ![i].phase = "crashed"]
    BY <1>2, <1>3, <2>1, <2>3 DEF firebase
  <2>4. ASSUME NEW u, CallsFirst(i, u), jobs[i].button = "google" => u = jobs[i].user
        PROVE  /\ AuthIds' = AuthIds /\ jobs'[i].button = jobs[i].button
               /\ jobs'[i].cancelled = jobs[i].cancelled
               /\ \A k \in AuthIds : k # i => jobs'[k] = jobs[k]
               /\ jobs'[i].phase = "calling" /\ jobs'[i].call = jobs[i].call
               /\ jobs'[i].reply = "sent" /\ jobs'[i].user = u
    BY <1>1, <2>4 DEF CallsFirst, AuthIds, JobRecords
  <2>5. \/ Ends(i) \/ jobs' = [jobs EXCEPT ![i].phase = "crashed"]
        \/ \E u : CallsFirst(i, u) /\ (jobs[i].button = "google" => u = jobs[i].user)
    BY <1>5 DEF BeginJob, BeginForm, BeginLookup, BeginDelete, BeginChange
  <2>6. CASE \E u : CallsFirst(i, u) /\ (jobs[i].button = "google" => u = jobs[i].user)
    <3>1. PICK u : CallsFirst(i, u) /\ (jobs[i].button = "google" => u = jobs[i].user) BY <2>6
    <3> QED BY <1>2, <2>1, <2>4, <3>1 DEF firebase
  <2> QED BY <2>2, <2>3, <2>5, <2>6
<1>6. CASE NextCall(i)
  <2>1. /\ jobs' = [jobs EXCEPT ![i].call = @ + 1, ![i].reply = "sent"]
        /\ jobs[i].phase = "calling" /\ jobs[i].reply = "ok" /\ ~jobs[i].cancelled
        /\ UNCHANGED <<firebase, lazies>>
    BY <1>6 DEF NextCall, Resumes
  <2>2. /\ AuthIds' = AuthIds /\ jobs'[i].button = jobs[i].button
        /\ jobs'[i].cancelled = jobs[i].cancelled
        /\ \A k \in AuthIds : k # i => jobs'[k] = jobs[k]
        /\ jobs'[i].user = jobs[i].user /\ jobs'[i].call = jobs[i].call + 1
        /\ jobs'[i].reply = "sent" /\ jobs'[i].phase = jobs[i].phase
    BY <1>1, <2>1 DEF AuthIds, JobRecords
  <2> QED BY <2>1, <2>2 DEF firebase, lazies
<1>7. CASE NoUser(i)
  <2>1. jobs[i].button = "signUp" BY <1>7, WhoCalls DEF NoUser, IInv
  <2>2. /\ jobs' = [jobs EXCEPT ![i].phase = "dropped"] /\ UNCHANGED <<firebase, lazies>>
        /\ jobs[i].phase = "calling" /\ jobs[i].reply = "ok"
    BY <1>7 DEF NoUser, Resumes
  <2> QED BY <1>3, <2>1, <2>2 DEF firebase, lazies
<1>8. CASE Finish(i)
  <2>1. jobs' = [jobs EXCEPT ![i].phase = "ended"] /\ UNCHANGED <<firebase, lazies>>
    BY <1>8 DEF Finish, Ends
  <2>2. /\ jobs[i].phase = "calling"
        /\ jobs[i].reply = "failed" \/ (jobs[i].reply = "ok" /\ (AtLastCall(i) \/ Found(i)))
    BY <1>8 DEF Finish, Resumes
  <2> QED BY <1>3, <2>1, <2>2 DEF firebase, lazies
<1>9. CASE SignedOut(i)
  <2>1. /\ jobs' = [jobs EXCEPT ![i].phase = "delay"] /\ UNCHANGED <<firebase, lazies>>
        /\ jobs[i].phase = "calling" /\ jobs[i].reply = "ok" /\ AtLastCall(i)
    BY <1>9 DEF SignedOut, Resumes
  <2> QED BY <1>3, <2>1 DEF firebase, lazies
<1>10. CASE AfterDelay(i)
  <2>1. /\ jobs' = [jobs EXCEPT ![i].phase = "ended"] /\ UNCHANGED <<firebase, lazies>>
        /\ jobs[i].phase = "delay"
    BY <1>10 DEF AfterDelay, Ends
  <2> QED BY <1>3, <2>1 DEF firebase, lazies
<1>11. CASE Abort(i)
  <2>1. jobs' = [jobs EXCEPT ![i].phase = "ended"] BY <1>11 DEF Abort, Ends
  <2>2. /\ jobs[i].phase \in {"calling", "delay"} /\ jobs[i].cancelled
        /\ UNCHANGED <<firebase, lazies>>
    BY <1>11 DEF Abort
  <2> QED BY <1>3, <2>1, <2>2 DEF firebase, lazies
<1> QED BY <1>4, <1>5, <1>6, <1>7, <1>8, <1>9, <1>10, <1>11 DEF JobStep

\* A job that does not move explains what it explained.
LEMMA OthersExplain ==
    ASSUME IInv, NEW k \in AuthIds, NEW u \in Users, Explains(k, u),
           jobs'[k] = jobs[k], firebaseUserId # Nobody => firebaseUserId' = firebaseUserId
    PROVE  Explains(k, u)'
<1>1. jobs[k].button = "google" /\ jobs[k].reply # "none" => firebaseUserId' = firebaseUserId
  BY DEF IInv, AuthTypeOK
<1> QED BY <1>1 DEF Explains, Unmade, Owing

\* Neither does one that moves without Firebase.
LEMMA MovesExplain ==
    ASSUME IInv, NEW i \in AuthIds, JobStep(i), ~Serve(i), NEW u \in Users, Explains(i, u)
    PROVE  Explains(i, u)'
<1>1. jobs[i].button = "google" /\ jobs[i].reply # "none" => firebaseUserId' = firebaseUserId
  BY JobKinds DEF IInv, AuthTypeOK
<1>2. jobs[i] \in JobRecords BY DEF IInv, AuthTypeOK, AuthIds
<1>3. jobs[i].button \in Buttons BY <1>2 DEF JobRecords
<1>4. ASSUME Owing(i, u), jobs[i].reply = "ok", AtLastCall(i) \/ Found(i)
      PROVE  Unmade(i, u)
  <2>0. /\ Len(Calls["signUp"]) = 2 /\ Len(Calls["google"]) = 2
        /\ Len(Calls["deleteAccount"]) = 3
    BY CallsAre
  <2>a. \/ jobs[i].button \in {"signUp", "google"} /\ jobs[i].call = 1
        \/ jobs[i].button = "deleteAccount" /\ jobs[i].call = 2
    BY <1>4 DEF Owing
  <2>b. jobs[i].call # Len(Calls[jobs[i].button])
    <3>1. CASE jobs[i].button = "signUp"
      <4>1. jobs[i].call = 1 BY <2>a, <3>1
      <4>2. Len(Calls[jobs[i].button]) = 2 BY <2>0, <3>1, Zenon
      <4> QED BY <4>1, <4>2
    <3>2. CASE jobs[i].button = "google" BY <2>0, <2>a, <3>2
    <3>3. CASE jobs[i].button = "deleteAccount"
      <4>1. jobs[i].call = 2 BY <2>a, <3>3
      <4>2. Len(Calls[jobs[i].button]) = 3 BY <2>0, <3>3, Zenon
      <4> QED BY <4>1, <4>2
    <3> QED BY <2>a, <3>1, <3>2, <3>3
  <2>1. ~AtLastCall(i) BY <2>b DEF AtLastCall
  <2>2. jobs[i].button = "google" /\ jobs[i].found # "none"
    BY <1>4, <2>1, CallsAre DEF Found, Owing, CallOf
  <2> QED BY <1>4, <2>2 DEF Owing, Unmade, Makers
<1>5. CASE Unmade(i, u)
  BY <1>1, <1>5, JobKinds DEF Explains, Unmade, Owing, Makers
<1>6. CASE Owing(i, u) /\ ~Unmade(i, u)
  <2>1. jobs[i].phase = "calling" /\ jobs[i].user = u
        /\ jobs[i].button \in Makers \cup {"deleteAccount"} /\ ~jobs[i].cancelled
        /\ jobs[i].reply \in {"sent", "ok"}
    BY <1>6 DEF Owing, Unmade, Makers
  <2>2. CASE jobs'[i].phase = "dropped"
    <3>1. jobs'[i].user = u /\ jobs'[i].button = jobs[i].button
      BY <2>1, <2>2, JobKinds
    <3> QED BY <2>1, <2>2, <3>1 DEF Explains, Unmade
  <2>3. CASE /\ jobs'[i].phase = "calling" /\ jobs[i].reply = "ok" /\ jobs'[i].reply = "sent"
             /\ jobs'[i].user = u /\ jobs'[i].call = jobs[i].call + 1
             /\ jobs'[i].button = jobs[i].button
    BY <1>6, <2>1, <2>3 DEF Explains, Owing, Makers
  <2> QED BY <1>4, <1>6, <2>1, <2>2, <2>3, JobKinds
<1> QED BY <1>5, <1>6 DEF Explains

\* A call that is served explains what it does.
LEMMA ServeExplains ==
    ASSUME IInv, SentOK, NEW i \in AuthIds, Serve(i), NEW u \in Users,
           u \in accounts', documents'[u] = "none",
           u \notin accounts \/ documents[u] # "none" \/ Explains(i, u)
    PROVE  Explains(i, u)'
<1>1. jobs \in Seq(JobRecords) /\ AuthIds = 1..Len(jobs) /\ jobs[i] \in JobRecords
  BY DEF IInv, AuthTypeOK, AuthIds
<1>2. jobs[i].reply = "sent" /\ firebaseUserId' = firebaseUserId BY DEF Serve, lazies
<1>3. /\ jobs'[i].button = jobs[i].button /\ jobs'[i].call = jobs[i].call
      /\ jobs'[i].user = jobs[i].user /\ jobs'[i].phase = jobs[i].phase
      /\ jobs'[i].cancelled = jobs[i].cancelled
  BY <1>1 DEF Serve, JobRecords
<1>4. \/ jobs'[i].reply = "failed" /\ (UNCHANGED <<accounts, documents>> \/ ServerDoes(i))
      \/ /\ jobs'[i].reply = "ok" /\ ServerDoes(i)
         /\ jobs'[i].found = IF CallOf(i) \in {"getDocument", "getMethod"}
                             THEN documents[firebaseUserId] ELSE jobs[i].found
  BY <1>1 DEF Serve, JobRecords, firebase
<1>5. jobs[i].phase = "calling" \/ jobs[i].cancelled BY <1>2 DEF SentOK
<1>6. AuthTypeOK BY DEF IInv
<1>7. documents \in [Users -> {"none", "EMAIL", "GOOGLE"}] /\ accounts \subseteq Users
  BY <1>6 DEF AuthTypeOK
<1>8. CASE u \notin accounts
  <2>1. CallOf(i) = "createUser" /\ u = jobs[i].user BY <1>4, <1>8 DEF ServerDoes
  <2>2. jobs[i].button = "signUp" /\ jobs[i].call = 1 BY <1>6, <2>1, WhoCalls
  <2> QED BY <1>3, <1>4, <1>5, <2>1, <2>2 DEF Explains, Unmade, Owing, Makers
<1>9. CASE documents[u] # "none"
  <2>1. CallOf(i) = "deleteDocument" /\ u = jobs[i].user
    BY <1>4, <1>7, <1>9 DEF ServerDoes
  <2>2. jobs[i].button = "deleteAccount" /\ jobs[i].call = 2 BY <1>6, <2>1, WhoCalls
  <2> QED BY <1>3, <1>4, <1>5, <2>1, <2>2 DEF Explains, Unmade, Owing
<1>10. CASE u \in accounts /\ documents[u] = "none" /\ Unmade(i, u)
  BY <1>2, <1>3, <1>5, <1>10, <1>4 DEF Explains, Unmade, Owing, Makers
<1>11. CASE u \in accounts /\ documents[u] = "none" /\ Owing(i, u)
  <2>1. jobs[i].button \in Makers \cup {"deleteAccount"} /\ jobs[i].user = u
        /\ jobs[i].phase = "calling"
    BY <1>11 DEF Owing, Makers
  <2>2. CASE jobs'[i].reply = "failed"
    BY <1>3, <2>1, <2>2 DEF Explains, Unmade
  <2>3. CASE jobs'[i].reply = "ok"
    <3>1. ServerDoes(i) BY <1>4, <2>3
    <3>2. CASE jobs[i].call = 2 /\ jobs[i].button \in Makers
      <4>1. CallOf(i) = "setDocument" BY <3>2, CallsAre DEF CallOf, Makers
      <4>2. documents'[u] # "none" BY <1>7, <2>1, <3>1, <4>1 DEF ServerDoes
      <4> QED BY <4>2
    <3>3. CASE jobs[i].call = 3 /\ jobs[i].button = "deleteAccount"
      <4>1. CallOf(i) = "deleteUser" BY <3>3, CallsAre DEF CallOf
      <4>2. u \notin accounts' BY <2>1, <3>1, <4>1 DEF ServerDoes
      <4> QED BY <4>2
    <3>4. CASE jobs[i].call = 1 /\ jobs[i].button = "google"
      <4>1. CallOf(i) = "getDocument" BY <3>4, CallsAre DEF CallOf
      <4>2. jobs'[i].found = documents[firebaseUserId] BY <1>4, <2>3, <4>1
      <4> QED BY <1>2, <1>3, <1>11, <2>1, <2>3, <3>4, <4>2 DEF Explains, Owing
    <3> QED BY <1>2, <1>11, <3>2, <3>3, <3>4 DEF Owing
  <2> QED BY <1>4, <2>2, <2>3
<1> QED BY <1>8, <1>9, <1>10, <1>11 DEF Explains

\* A job's step keeps every account explained.
LEMMA JobExplains ==
    ASSUME IInv, SentOK, ExplainedOK, NEW i \in AuthIds, JobStep(i)
    PROVE  SentOK' /\ ExplainedOK'
<1>1. jobs \in Seq(JobRecords) /\ AuthIds = 1..Len(jobs) /\ jobs[i] \in JobRecords
      /\ accounts \subseteq Users
  BY DEF IInv, AuthTypeOK, AuthIds
<1>2. CASE Serve(i)
  <2>1. /\ AuthIds' = AuthIds /\ \A k \in AuthIds : k # i => jobs'[k] = jobs[k]
        /\ jobs'[i].reply # "sent" /\ firebaseUserId' = firebaseUserId
    BY <1>1, <1>2 DEF Serve, AuthIds, JobRecords, lazies
  <2>2. SentOK' BY <2>1 DEF SentOK
  <2>3. accounts' \subseteq Users
    <3>1. AuthTypeOK' BY <1>2, ServeKeeps DEF IInv
    <3> QED BY <3>1 DEF AuthTypeOK
  <2>4. ASSUME NEW u \in accounts', documents'[u] = "none" PROVE \E k \in AuthIds' : Explains(k, u)'
    <3>1. u \in Users BY <2>3
    <3>2. CASE u \notin accounts \/ documents[u] # "none" \/ Explains(i, u)
      BY <1>2, <2>1, <2>4, <3>1, <3>2, ServeExplains
    <3>3. CASE u \in accounts /\ documents[u] = "none" /\ ~Explains(i, u)
      <4>1. PICK k \in AuthIds : Explains(k, u) BY <3>3 DEF ExplainedOK
      <4>2. jobs'[k] = jobs[k] BY <2>1, <3>3, <4>1
      <4> QED BY <2>1, <3>1, <4>1, <4>2, OthersExplain
    <3> QED BY <3>2, <3>3
  <2> QED BY <2>2, <2>4 DEF ExplainedOK
<1>3. CASE ~Serve(i)
  <2>1. /\ AuthIds' = AuthIds /\ UNCHANGED <<accounts, documents>>
        /\ \A k \in AuthIds : k # i => jobs'[k] = jobs[k]
        /\ firebaseUserId # Nobody => firebaseUserId' = firebaseUserId
    BY <1>3, JobKinds
  <2>2. jobs'[i].reply = "sent" => jobs'[i].phase = "calling" \/ jobs'[i].cancelled
    <3>1. jobs[i].phase = "calling" \/ jobs[i].reply # "sent" \/ jobs[i].cancelled
      BY DEF SentOK
    <3> QED BY <1>3, <3>1, JobKinds
  <2>3. SentOK' BY <2>1, <2>2 DEF SentOK
  <2>4. ASSUME NEW u \in accounts', documents'[u] = "none" PROVE \E k \in AuthIds' : Explains(k, u)'
    <3>1. u \in Users /\ u \in accounts /\ documents[u] = "none" BY <1>1, <2>1, <2>4
    <3>2. PICK k \in AuthIds : Explains(k, u) BY <3>1 DEF ExplainedOK
    <3>3. CASE k = i BY <1>3, <2>1, <3>1, <3>2, <3>3, MovesExplain
    <3>4. CASE k # i BY <2>1, <3>1, <3>2, <3>4, OthersExplain
    <3> QED BY <3>3, <3>4
  <2> QED BY <2>3, <2>4 DEF ExplainedOK
<1> QED BY <1>2, <1>3

\* A press explains the account that the Google button makes.
LEMMA PressExplains ==
    ASSUME IInv, SentOK, ExplainedOK,
           NEW b \in Buttons, NEW u \in Users \cup {Nobody}, PressButton(b, u),
           accounts' = accounts \/ (b = "google" /\ accounts' = accounts \cup {u})
    PROVE  SentOK' /\ ExplainedOK'
<1>1. jobs \in Seq(JobRecords) /\ AuthIds = 1..Len(jobs) /\ accounts \subseteq Users
  BY DEF IInv, AuthTypeOK, AuthIds
<1>2. \A k \in AuthIds : jobs[k] \in JobRecords BY <1>1
<1>0. PICK n \in Nat : n = Len(jobs) + 1 BY <1>1
<1> DEFINE old == [i \in AuthIds |->
                     IF jobs[i].button \in CancelledBy(b)
                     THEN [jobs[i] EXCEPT !.cancelled = TRUE] ELSE jobs[i]]
           new == [button |-> b, user |-> u, phase |-> "launched", call |-> 1,
                   reply |-> "none", found |-> "none", cancelled |-> FALSE]
<1>3. \A k \in AuthIds :
        /\ old[k] \in JobRecords
        /\ old[k].phase = jobs[k].phase /\ old[k].button = jobs[k].button
        /\ old[k].call = jobs[k].call /\ old[k].user = jobs[k].user
        /\ old[k].reply = jobs[k].reply /\ old[k].found = jobs[k].found
        /\ jobs[k].cancelled => old[k].cancelled
  BY <1>2 DEF JobRecords
<1>4. new \in JobRecords /\ new.button = b /\ new.user = u /\ new.reply = "none"
      /\ new.phase = "launched"
  BY CallsAre DEF JobRecords
<1>5. jobs' = Append(old, new) /\ UNCHANGED <<firebaseUserId, documents>>
  BY DEF PressButton, lazies
<1>6. old \in Seq(JobRecords) /\ Len(old) = Len(jobs) BY <1>1, <1>3
<1> HIDE DEF old, new
<1>7. /\ AuthIds' = AuthIds \cup {n} /\ jobs'[n] = new
      /\ \A k \in AuthIds : jobs'[k] = old[k]
  BY <1>0, <1>1, <1>4, <1>5, <1>6 DEF AuthIds
<1>8. SentOK' BY <1>3, <1>4, <1>7 DEF SentOK
<1>9. ASSUME NEW v \in accounts', documents'[v] = "none" PROVE \E k \in AuthIds' : Explains(k, v)'
  <2>1. CASE v \in accounts
    <3>1. PICK k \in AuthIds : Explains(k, v) BY <1>5, <1>9, <2>1 DEF ExplainedOK
    <3>0. jobs'[k] = old[k] /\ firebaseUserId' = firebaseUserId BY <1>5, <1>7
    <3>2. Explains(k, v)'
      <4>1. CASE Unmade(k, v) BY <1>3, <3>0, <4>1 DEF Explains, Unmade
      <4>2. CASE Owing(k, v) BY <1>3, <3>0, <4>2 DEF Explains, Owing
      <4> QED BY <3>1, <4>1, <4>2 DEF Explains
    <3> QED BY <1>7, <3>1, <3>2
  <2>2. CASE v \notin accounts
    <3>1. b = "google" /\ v = u BY <1>9, <2>2
    <3>2. Unmade(n, v)' BY <1>4, <1>7, <3>1 DEF Unmade, Makers
    <3> QED BY <1>7, <3>2 DEF Explains
  <2> QED BY <2>1, <2>2
<1> QED BY <1>8, <1>9 DEF ExplainedOK

\* When all is quiet, an account without a document has a job that explains it:
\* it failed, was cancelled, got no user or looked up somebody else.
THEOREM AUAccountsHaveDocuments == AuthSpec => []AccountsHaveDocuments
<1>1. AuthInit => SentOK /\ ExplainedOK
  BY DEF AuthInit, SentOK, ExplainedOK, AuthIds
<1>2. IInv /\ SentOK /\ ExplainedOK /\ [AuthNext]_authVars => SentOK' /\ ExplainedOK'
  <2> SUFFICES ASSUME IInv, SentOK, ExplainedOK, [AuthNext]_authVars
               PROVE  SentOK' /\ ExplainedOK'
    OBVIOUS
  <2>1. CASE Press
    <3>1. PICK b \in Buttons \ {"google"} : PressButton(b, Nobody) /\ UNCHANGED <<accounts, currentUser>>
      BY <2>1 DEF Press
    <3> QED BY <3>1, PressExplains
  <2>2. CASE PressGoogle
    <3>1. PICK u \in Users : PressButton("google", u) /\ accounts' = accounts \cup {u}
      BY <2>2 DEF PressGoogle
    <3>2. "google" \in Buttons BY CallsAre
    <3> QED BY <3>1, <3>2, PressExplains
  <2>3. CASE \E i \in AuthIds : JobStep(i) BY <2>3, JobExplains
  <2>4. CASE UNCHANGED authVars
    BY <2>4 DEF authVars, firebase, lazies, SentOK, ExplainedOK, Explains, Unmade, Owing, AuthIds
  <2> QED BY <2>1, <2>2, <2>3, <2>4 DEF AuthNext
<1>3. IInv /\ SentOK /\ ExplainedOK => AccountsHaveDocuments
  <2>1. \A i \in AuthIds : \A u \in Users : Owing(i, u) => Unfinished(i)
    BY DEF Owing, Unfinished
  <2> QED BY <2>1 DEF AccountsHaveDocuments, ExplainedOK, Explains, IInv, AuthTypeOK
<1> QED BY <1>1, <1>2, <1>3, AUInvariant, PTL DEF AuthSpec
=============================================================================
