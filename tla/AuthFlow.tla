------------------------------ MODULE AuthFlow ------------------------------
(***************************************************************************)
(* AuthViewModel over AuthRepositoryImpl: each button launches a coroutine *)
(* on Dispatchers.IO that collects a flow, which makes one call after      *)
(* another to Firebase Auth and Firestore.  A new job cancels the one that *)
(* its field holds, but not the call that this one has sent.               *)
(*                                                                         *)
(* Firebase is external: a call is served some time after it was sent,     *)
(* even if its sender is gone; it may fail, and it may seem to fail when   *)
(* its answer is lost.                                                     *)
(***************************************************************************)
EXTENDS Naturals, Sequences

CONSTANTS
    Users,       \* who may sign in, each with one email address
    MaxPresses,  \* bound: the buttons pressed
    Nobody       \* no user

ASSUME NobodyAssumption == Nobody \notin Users

VARIABLES
    accounts,           \* Firebase Auth: the users that exist
    documents,          \* Firestore, "users": each user's method, or "none"
    currentUser,        \* Firebase.auth.currentUser
    firebaseUserId,     \* AuthUtils: the lazy values, once they were read
    isLoggedIn,
    authLoading,        \* AuthState.isLoading
    signOutWithGoogle,  \* AuthState
    jobs,               \* the coroutines, in the order of their launch
    collided            \* history: an account was deleted and made at once

firebase == <<accounts, documents, currentUser>>
lazies == <<firebaseUserId, isLoggedIn>>
authState == <<authLoading, signOutWithGoogle>>
authVars == <<firebase, lazies, authState, jobs, collided>>

\* Fault: the account is deleted before its document.
Calls_UserFirst ==
    [signUp |-> <<"createUser", "setDocument">>,
     signIn |-> <<"signInWithEmail">>,
     google |-> <<"getDocument", "setDocument">>,
     signOut |-> <<"getMethod", "signOut">>,
     forgetPassword |-> <<"sendResetEmail">>,
     changePassword |-> <<"reauthenticate", "updatePassword">>,
     deleteAccount |-> <<"reauthenticate", "deleteUser", "deleteDocument">>]

\* The calls of each flow, and of the job that follows a Google sign-in.
Calls ==
    [signUp |-> <<"createUser", "setDocument">>,
     signIn |-> <<"signInWithEmail">>,
     google |-> <<"getDocument", "setDocument">>,
     signOut |-> <<"getMethod", "signOut">>,
     forgetPassword |-> <<"sendResetEmail">>,
     changePassword |-> <<"reauthenticate", "updatePassword">>,
     deleteAccount |-> <<"reauthenticate", "deleteDocument", "deleteUser">>]

Buttons == DOMAIN Calls
Makers == {"signUp", "google"}
AuthIds == DOMAIN jobs

CallOf(i) == Calls[jobs[i].button][jobs[i].call]
Unfinished(i) == jobs[i].phase \notin {"ended", "dropped"} \/ jobs[i].reply = "sent"
AppAlive == \A i \in AuthIds : jobs[i].phase # "crashed"

AuthInit ==
    /\ accounts = {} /\ documents = [u \in Users |-> "none"] /\ currentUser = Nobody
    /\ firebaseUserId = Nobody /\ isLoggedIn = "unread"
    /\ authLoading = FALSE /\ signOutWithGoogle = FALSE
    /\ jobs = <<>> /\ collided = FALSE

\* The jobs that a button cancels: the one its field holds; a Google sign-in,
\* whose field is that of the sign-in, also cancels a sign-up.
CancelledBy(button) ==
    CASE button = "google" -> {"signIn", "google", "signUp"}
      [] button = "signIn" -> {"signIn", "google"}
      [] OTHER -> {button}

\* onEvent: cancel the job in the field and launch another one.
PressButton(button, u) ==
    /\ Len(jobs) < MaxPresses
    /\ jobs' = Append(
          [i \in AuthIds |->
              IF jobs[i].button \in CancelledBy(button)
              THEN [jobs[i] EXCEPT !.cancelled = TRUE] ELSE jobs[i]],
          [button |-> button, user |-> u, phase |-> "launched", call |-> 1,
           reply |-> "none", found |-> "none", cancelled |-> FALSE])
    /\ collided' = (collided \/
          \E i \in AuthIds :
              Unfinished(i) /\ {button, jobs[i].button} \cap Makers # {}
                            /\ "deleteAccount" \in {button, jobs[i].button})
    /\ UNCHANGED <<lazies, documents, authState>>

Press ==
    \E button \in Buttons \ {"google"} :
        PressButton(button, Nobody) /\ UNCHANGED <<accounts, currentUser>>

\* The Google button signs in, with a new account if need be, before it tells
\* the view model.
PressGoogle ==
    \E u \in Users :
        PressButton("google", u) /\ accounts' = accounts \cup {u} /\ currentUser' = u

\* A job that is cancelled before it is dispatched never runs.
SkipJob(i) ==
    /\ jobs[i].phase = "launched" /\ jobs[i].cancelled
    /\ jobs' = [jobs EXCEPT ![i].phase = "ended"]
    /\ UNCHANGED <<firebase, lazies, authState, collided>>

\* Success and Error both put the spinner out.
Ends(i) ==
    /\ jobs' = [jobs EXCEPT ![i].phase = "ended"]
    /\ authLoading' = FALSE

CallsFirst(i, u) ==
    /\ jobs' = [jobs EXCEPT ![i].phase = "calling", ![i].user = u, ![i].reply = "sent"]
    /\ authLoading' = TRUE

\* emit(Loading) and the first call: with the email address that is in the
\* form now ...
BeginForm(i) ==
    /\ jobs[i].button \in {"signUp", "signIn", "forgetPassword"}
    /\ \E u \in Users : CallsFirst(i, u)
    /\ UNCHANGED lazies

\* ... with the id of whoever was signed in when it was first asked for, which
\* throws, inside the try, if there is nobody ...
BeginLookup(i) ==
    /\ jobs[i].button \in {"google", "signOut"}
    /\ firebaseUserId' = IF firebaseUserId = Nobody THEN currentUser ELSE firebaseUserId
    /\ IF firebaseUserId' = Nobody THEN Ends(i) ELSE CallsFirst(i, jobs[i].user)
    /\ UNCHANGED isLoggedIn

\* ... or for the user who is signed in.
BeginDelete(i) ==
    /\ jobs[i].button = "deleteAccount"
    /\ IF currentUser = Nobody THEN Ends(i) ELSE CallsFirst(i, currentUser)
    /\ UNCHANGED lazies

\* `currentUser!!` is outside the try: nobody catches what it throws.
BeginChange(i) ==
    /\ jobs[i].button = "changePassword"
    /\ isLoggedIn' = IF isLoggedIn # "unread" THEN isLoggedIn
                     ELSE IF currentUser # Nobody THEN "yes" ELSE "no"
    /\ \/ isLoggedIn' = "no" /\ Ends(i)
       \/ isLoggedIn' = "yes" /\ currentUser # Nobody /\ CallsFirst(i, currentUser)
       \/ /\ isLoggedIn' = "yes" /\ currentUser = Nobody
          /\ jobs' = [jobs EXCEPT ![i].phase = "crashed"] /\ authLoading' = TRUE
    /\ UNCHANGED firebaseUserId

BeginJob(i) ==
    /\ jobs[i].phase = "launched" /\ ~jobs[i].cancelled
    /\ BeginForm(i) \/ BeginLookup(i) \/ BeginDelete(i) \/ BeginChange(i)
    /\ UNCHANGED <<firebase, signOutWithGoogle, collided>>

\* What Firebase refuses, whoever asks.
Refused(i) ==
    \/ CallOf(i) = "createUser" /\ jobs[i].user \in accounts
    \/ CallOf(i) \in {"signInWithEmail", "sendResetEmail", "reauthenticate",
                      "updatePassword", "deleteUser"} /\ jobs[i].user \notin accounts
    \/ CallOf(i) = "getMethod" /\ documents[firebaseUserId] = "none"

\* What a call does on the server, and here if the answer arrives.
ServerDoes(i) ==
    LET u == jobs[i].user
        method == IF jobs[i].button = "google" THEN "GOOGLE" ELSE "EMAIL"
    IN  /\ accounts' = CASE CallOf(i) = "createUser" -> accounts \cup {u}
                         [] CallOf(i) = "deleteUser" -> accounts \ {u}
                         [] OTHER -> accounts
        /\ documents' = CASE CallOf(i) = "setDocument" -> [documents EXCEPT ![u] = method]
                          [] CallOf(i) = "deleteDocument" -> [documents EXCEPT ![u] = "none"]
                          [] OTHER -> documents

ClientDoes(i) ==
    currentUser' =
        CASE CallOf(i) \in {"createUser", "signInWithEmail"} -> jobs[i].user
          [] CallOf(i) = "signOut" -> Nobody
          [] CallOf(i) = "deleteUser" /\ currentUser = jobs[i].user -> Nobody
          [] OTHER -> currentUser

\* A call that was sent is served, sent back, or served with its answer lost.
Serve(i) ==
    /\ jobs[i].reply = "sent"
    /\ \/ /\ ~Refused(i) /\ ServerDoes(i) /\ ClientDoes(i)
          /\ jobs' = [jobs EXCEPT ![i].reply = "ok",
                                  ![i].found = IF CallOf(i) \in {"getDocument", "getMethod"}
                                               THEN documents[firebaseUserId] ELSE @]
       \/ /\ UNCHANGED firebase \/ (~Refused(i) /\ ServerDoes(i) /\ UNCHANGED currentUser)
          /\ jobs' = [jobs EXCEPT ![i].reply = "failed"]
    /\ UNCHANGED <<lazies, authState, collided>>

Resumes(i, reply) ==
    jobs[i].phase = "calling" /\ ~jobs[i].cancelled /\ jobs[i].reply = reply

\* Fault: the answer to the question whether the user exists is inverted.
Found_Inverted(i) == CallOf(i) = "getDocument" /\ jobs[i].found = "none"

\* checkIfUserAlreadyExistInDatabase: nothing is left to do.
Found(i) == CallOf(i) = "getDocument" /\ jobs[i].found # "none"
AtLastCall(i) == jobs[i].call = Len(Calls[jobs[i].button])

NextCall(i) ==
    /\ Resumes(i, "ok") /\ ~AtLastCall(i) /\ ~Found(i)
    /\ jobs' = [jobs EXCEPT ![i].call = @ + 1, ![i].reply = "sent"]
    /\ UNCHANGED <<firebase, lazies, authState, collided>>

\* An answer without a user ends the flow without a word.
NoUser(i) ==
    /\ Resumes(i, "ok") /\ CallOf(i) = "createUser"
    /\ jobs' = [jobs EXCEPT ![i].phase = "dropped"]
    /\ UNCHANGED <<firebase, lazies, authState, collided>>

\* Fault: only Success puts the spinner out.
Finish_NotOnError(i) ==
    /\ \/ Resumes(i, "failed")
       \/ Resumes(i, "ok") /\ (AtLastCall(i) \/ Found(i))
    /\ jobs[i].button = "signOut" => jobs[i].reply = "failed"
    /\ jobs' = [jobs EXCEPT ![i].phase = "ended"]
    /\ authLoading' = (authLoading /\ jobs[i].reply = "failed")
    /\ UNCHANGED <<firebase, lazies, signOutWithGoogle, collided>>

\* Success or Error; the success of a sign-out comes next.
Finish(i) ==
    /\ \/ Resumes(i, "failed")
       \/ Resumes(i, "ok") /\ (AtLastCall(i) \/ Found(i))
    /\ jobs[i].button = "signOut" => jobs[i].reply = "failed"
    /\ Ends(i)
    /\ UNCHANGED <<firebase, lazies, signOutWithGoogle, collided>>

SignedOut(i) ==
    /\ jobs[i].button = "signOut" /\ Resumes(i, "ok") /\ AtLastCall(i)
    /\ jobs' = [jobs EXCEPT ![i].phase = "delay"]
    /\ authLoading' = FALSE
    /\ signOutWithGoogle' = (jobs[i].found = "GOOGLE")
    /\ UNCHANGED <<firebase, lazies, collided>>

AfterDelay(i) ==
    /\ jobs[i].phase = "delay" /\ ~jobs[i].cancelled
    /\ Ends(i) /\ signOutWithGoogle' = FALSE
    /\ UNCHANGED <<firebase, lazies, collided>>

\* A cancelled job throws where it waits.  The flows may emit nothing more; the
\* Google job's catch takes the CancellationException for a failure.
Abort(i) ==
    /\ jobs[i].phase \in {"calling", "delay"} /\ jobs[i].cancelled
    /\ IF jobs[i].button = "google" THEN Ends(i)
       ELSE jobs' = [jobs EXCEPT ![i].phase = "ended"] /\ UNCHANGED authLoading
    /\ UNCHANGED <<firebase, lazies, signOutWithGoogle, collided>>

JobStep(i) ==
    \/ SkipJob(i) \/ BeginJob(i) \/ Serve(i) \/ NextCall(i) \/ NoUser(i)
    \/ Finish(i) \/ SignedOut(i) \/ AfterDelay(i) \/ Abort(i)

AuthNext ==
    AppAlive /\ (Press \/ PressGoogle \/ \E i \in AuthIds : JobStep(i))

AuthSpec == AuthInit /\ [][AuthNext]_authVars

-----------------------------------------------------------------------------
JobRecords ==
    [button : Buttons, user : Users \cup {Nobody}, call : 1..3, cancelled : BOOLEAN,
     phase : {"launched", "calling", "delay", "dropped", "crashed", "ended"},
     reply : {"none", "sent", "ok", "failed"}, found : {"none", "EMAIL", "GOOGLE"}]

\* Types; what was sent is a call of its flow, and a document is looked up
\* only under an id.
AuthTypeOK ==
    /\ accounts \subseteq Users /\ documents \in [Users -> {"none", "EMAIL", "GOOGLE"}]
    /\ {currentUser, firebaseUserId} \subseteq Users \cup {Nobody}
    /\ isLoggedIn \in {"unread", "yes", "no"}
    /\ authLoading \in BOOLEAN /\ signOutWithGoogle \in BOOLEAN /\ collided \in BOOLEAN
    /\ jobs \in Seq(JobRecords)
    /\ \A i \in AuthIds :
          /\ jobs[i].call \in DOMAIN Calls[jobs[i].button]
          /\ jobs[i].button \in {"google", "signOut"} /\ jobs[i].reply # "none"
                => firebaseUserId # Nobody
          /\ jobs[i].button = "google" \/ (jobs[i].button # "signOut" /\ jobs[i].reply # "none")
                => jobs[i].user \in Users

\* The spinner turns only while a job is at work that will stop it, whatever is
\* pressed, cancelled or lost, unless a sign-up got no user
\* (AuthRepositoryImpl.kt:35).
AuthLoadingMeansWork ==
    authLoading => \E i \in AuthIds : jobs[i].phase \notin {"delay", "ended"}

\* No document without its account, whichever call of a sign-up or a deletion
\* fails or is cancelled after it was sent, as long as the two do not overlap
\* (AuthRepositoryImpl.kt:34-42, 146-148).
DocumentsHaveAccounts ==
    ~collided => \A u \in Users : documents[u] # "none" => u \in accounts

\* When all is quiet, an account has no document only after a call of its own
\* failed, was cancelled or brought no user, or because a Google sign-in looked
\* up the cached id of another user, or of nobody (AuthUtils.kt:15-17).
Unmade(i, u) ==
    /\ jobs[i].button \in Makers \cup {"deleteAccount"} /\ jobs[i].user = u
    /\ \/ jobs[i].cancelled \/ jobs[i].phase = "dropped" \/ jobs[i].reply = "failed"
       \/ jobs[i].button = "google" /\ (firebaseUserId # u \/ jobs[i].reply = "none")

AccountsHaveDocuments ==
    (\A i \in AuthIds : ~Unfinished(i)) =>
        \A u \in accounts : documents[u] = "none" => \E i \in AuthIds : Unmade(i, u)
=============================================================================
