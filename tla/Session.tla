------------------------------- MODULE Session -------------------------------
(***************************************************************************)
(* Who is logged in.  AppState.isLoggedIn decides between the login and    *)
(* the landing screen.  It is written by AppState's start, by the bodies   *)
(* of two Firebase Auth state listeners (AppState and RootView), by the    *)
(* completion of a sign-in (LoginViewModel) and by the Log Out button      *)
(* (HomeView), all on the main queue, while Firebase Auth changes its      *)
(* current user on a queue of its own.                                     *)
(***************************************************************************)
EXTENDS Integers, Sequences, FiniteSets

CONSTANTS
    Accounts,     \* accounts that exist or can be created
    MaxRequest,   \* bound: number of Auth requests
    MaxLogout,    \* bound: number of times the user logs out
    MaxLaunch     \* bound: number of times the app is relaunched

ASSUME ConstantsAssumption ==
    /\ IsFiniteSet(Accounts) /\ "nil" \notin Accounts
    /\ MaxRequest \in Nat /\ MaxLogout \in Nat /\ MaxLaunch \in Nat

VARIABLES
    exists,    \* accounts of the Auth server
    confirmed, \* accounts whose e-mail address is verified on the server
    keychain,  \* the User that Auth has saved
    current,   \* Auth.currentUser
    locked,    \* the keychain could not be read when the app was started
    requests,  \* Auth requests that have not come back
    mainq,     \* blocks waiting on the main dispatch queue
    heard,     \* of each state listener: firstInvocation, previousUserID
    isLoggedIn,\* AppState.isLoggedIn
    splash,    \* RootView.showSplash
    screen,    \* what is drawn: "splash", "login" or "landing"
    model,     \* number of the LoginViewModel of the login screen
    isLoading, \* its isLoading
    message,   \* its errorMessage
    kept,      \* the last signOut failed and nobody has signed in since
    crossed,   \* the user was fetched while a completion that lets somebody
               \* else in was queued
    used       \* counters held against the bounds

vars == <<exists, confirmed, keychain, current, locked, requests, mainq, heard,
          isLoggedIn, splash, screen, model, isLoading, message, kept, crossed,
          used>>

serverVars == <<exists, confirmed>>
authVars   == <<keychain, current, locked>>
loginVars  == <<model, isLoading, message>>
rootVars   == <<isLoggedIn, splash, screen>>
pastVars   == <<kept, crossed>>

(* A User holds the flag it was given when it was fetched. *)
User == [uid : Accounts, verified : BOOLEAN]
NoUser == [uid |-> "nil", verified |-> FALSE]
Listeners == {"AppState", "RootView"}
Counters == {"request", "logout", "launch"}
Bump(c) == used' = [used EXCEPT ![c] = @ + 1]

-----------------------------------------------------------------------------
(* Blocks on the main queue. *)
FirstCall(n) == [kind |-> "first", listener |-> n]
Post == [kind |-> "post"]
StateBody(n, user) == [kind |-> "state", listener |-> n, user |-> user]
Completion(r, user, hop) ==
    [kind |-> r.kind, model |-> r.model, user |-> user, hop |-> hop]
Timer == [kind |-> "timer"]

(* user != nil && user.isEmailVerified *)
LoginCheck(user) == user # NoUser /\ user.verified

-----------------------------------------------------------------------------
(* AppState.init and RootView.onAppear: somebody is logged in when Auth    *)
(* has a user; both listeners are added and will be called a first time.   *)
FirstCalls == <<FirstCall("AppState"), FirstCall("RootView")>>
NothingHeard == [n \in Listeners |-> [first |-> TRUE, uid |-> "nil"]]

Init ==
    /\ exists \in SUBSET Accounts
    /\ confirmed \in SUBSET exists
    /\ keychain \in {u \in User : /\ u.uid \in exists
                                  /\ u.verified => u.uid \in confirmed}
                    \cup {NoUser}
    /\ locked \in BOOLEAN
    /\ current = IF locked THEN NoUser ELSE keychain
    /\ isLoggedIn = (current # NoUser)
    /\ mainq = FirstCalls
    /\ heard = NothingHeard
    /\ requests = {}
    /\ splash = TRUE
    /\ screen = "splash"
    /\ model = 1
    /\ isLoading = FALSE
    /\ message = "nil"
    /\ kept = FALSE
    /\ crossed = FALSE
    /\ used = [c \in Counters |-> 0]

(* The process is killed and started again: Auth's user comes from the     *)
(* keychain.                                                               *)
Relaunch ==
    /\ used["launch"] < MaxLaunch
    /\ Bump("launch")
    /\ locked' \in BOOLEAN
    /\ current' = IF locked' THEN NoUser ELSE keychain
    /\ isLoggedIn' = (current' # NoUser)
    /\ mainq' = FirstCalls
    /\ heard' = NothingHeard
    /\ requests' = {}
    /\ splash' = TRUE
    /\ screen' = "splash"
    /\ model' = model + 1
    /\ isLoading' = FALSE
    /\ message' = "nil"
    /\ kept' = FALSE
    /\ crossed' = FALSE
    /\ UNCHANGED <<serverVars, keychain>>

(* The two seconds of the splash screen are over. *)
SplashOver ==
    /\ splash
    /\ \A i \in DOMAIN mainq : mainq[i] # Timer
    /\ mainq' = Append(mainq, Timer)
    /\ UNCHANGED <<serverVars, authVars, requests, heard, rootVars, loginVars,
                   pastVars, used>>

(* SwiftUI draws what RootView.body asks for.  Leaving the login screen    *)
(* releases its view model; coming to it creates one.                      *)
Wanted == IF splash THEN "splash" ELSE IF isLoggedIn THEN "landing" ELSE "login"

(* Nothing is left to run or to draw. *)
Idle == mainq = <<>> /\ screen = Wanted

Render ==
    /\ screen # Wanted
    /\ screen' = Wanted
    /\ IF Wanted = "login"
       THEN model' = model + 1 /\ isLoading' = FALSE /\ message' = "nil"
       ELSE UNCHANGED loginVars
    /\ UNCHANGED <<serverVars, authVars, requests, mainq, heard, isLoggedIn,
                   splash, pastVars, used>>

-----------------------------------------------------------------------------
(* Firebase Auth. *)

(* The device is unlocked: the saved user is loaded after all. *)
Unlock ==
    /\ locked
    /\ locked' = FALSE
    /\ current' = keychain
    /\ mainq' = IF keychain = NoUser THEN mainq ELSE Append(mainq, Post)
    /\ UNCHANGED <<serverVars, keychain, requests, heard, rootVars, loginVars,
                   pastVars, used>>

(* The requests of the login screen and of the sign-up sheet over it.  The *)
(* sheet's button is not disabled while a sign-in is on its way.  Filling  *)
(* in a form takes longer than running the queue and drawing the screen.   *)
Send(r) ==
    /\ screen = "login" /\ Idle /\ ~locked
    /\ used["request"] < MaxRequest
    /\ Bump("request")
    /\ requests' = requests \cup {r}

SignInUser(a) ==
    /\ ~isLoading
    /\ Send([kind |-> "signIn", uid |-> a, model |-> model, n |-> used["request"]])
    /\ isLoading' = TRUE
    /\ message' = "nil"
    /\ UNCHANGED <<serverVars, authVars, mainq, heard, rootVars, model, pastVars>>

ResetPassword ==
    /\ Send([kind |-> "reset", uid |-> "nil", model |-> model, n |-> used["request"]])
    /\ UNCHANGED <<serverVars, authVars, mainq, heard, rootVars, loginVars, pastVars>>

CreateUser(a) ==
    /\ Send([kind |-> "create", uid |-> a, model |-> model, n |-> used["request"]])
    /\ UNCHANGED <<serverVars, authVars, mainq, heard, rootVars, loginVars, pastVars>>

(* Mutant of Fetched: every user counts as verified. *)
Fetched_Verified(a) == [uid |-> a, verified |-> TRUE]

Fetched(a) == [uid |-> a, verified |-> a \in confirmed]

(* A user has been fetched for a sign-in or a new account: he is saved and *)
(* made current, the change is posted, then the completion is queued.  The *)
(* sign-up sheet's completion does not touch the session.                  *)
SignedIn(r) ==
    /\ r \in requests
    /\ \/ r.kind = "signIn" /\ r.uid \in exists /\ UNCHANGED exists
       \/ r.kind = "create" /\ r.uid \notin exists /\ exists' = exists \cup {r.uid}
    /\ requests' = requests \ {r}
    /\ LET user == Fetched(r.uid) IN
       /\ current' = user
       /\ keychain' = user
       /\ mainq' = mainq \o
            IF r.kind = "signIn" THEN <<Post, Completion(r, user, 1)>> ELSE <<Post>>
    /\ kept' = FALSE
    /\ crossed' = \E i \in DOMAIN mainq :
                    mainq[i].kind = "signIn" /\ mainq[i].user.verified
    /\ UNCHANGED <<confirmed, locked, heard, rootVars, loginVars, used>>

(* Wrong password, account in use, no network, keychain error; and the     *)
(* answer to a password reset, good or bad.                                *)
Answered(r) ==
    /\ r \in requests
    /\ requests' = requests \ {r}
    /\ mainq' = IF r.kind = "create" THEN mainq
                ELSE Append(mainq, Completion(r, NoUser, 1))
    /\ UNCHANGED <<serverVars, authVars, heard, rootVars, loginVars, pastVars, used>>

(* The user follows the link of the verification e-mail. *)
Confirm(a) ==
    /\ a \in exists \ confirmed
    /\ confirmed' = confirmed \cup {a}
    /\ UNCHANGED <<exists, authVars, requests, mainq, heard, rootVars, loginVars,
                   pastVars, used>>

(* The hourly token refresh is refused (account disabled or deleted): Auth *)
(* drops the user.  The sign-in's blocks have long been run by then.       *)
ForcedSignOut ==
    /\ current # NoUser /\ Idle
    /\ current' = NoUser
    /\ keychain' = NoUser
    /\ mainq' = <<Post>>
    /\ kept' = FALSE
    /\ crossed' = FALSE
    /\ UNCHANGED <<serverVars, locked, requests, heard, rootVars, loginVars, used>>

(* The Log Out button; signOut throws when the keychain refuses, and the   *)
(* user stays.                                                             *)
LogOut ==
    /\ screen = "landing"
    /\ used["logout"] < MaxLogout
    /\ Bump("logout")
    /\ isLoggedIn' = FALSE
    /\ \/ /\ current = NoUser
          /\ UNCHANGED <<authVars, mainq, pastVars>>
       \/ /\ current # NoUser
          /\ current' = NoUser
          /\ keychain' = NoUser
          /\ mainq' = Append(mainq, Post)
          /\ crossed' = FALSE
          /\ UNCHANGED <<locked, kept>>
       \/ /\ current # NoUser
          /\ kept' = TRUE
          /\ UNCHANGED <<authVars, mainq, crossed>>
    /\ UNCHANGED <<serverVars, requests, heard, splash, screen, loginVars>>

-----------------------------------------------------------------------------
(* The main queue. *)

(* A state listener is called with the user there is now, and tells its    *)
(* owner only the first time and when the uid is another one.              *)
Tells(n) == heard[n].first \/ heard[n].uid # current.uid
Hears(ns) ==
    heard' = [n \in Listeners |->
                IF n \in ns THEN [first |-> FALSE, uid |-> current.uid] ELSE heard[n]]
Body(n, ns) == IF n \in ns /\ Tells(n) THEN <<StateBody(n, current)>> ELSE <<>>
Bodies(ns) == Body("AppState", ns) \o Body("RootView", ns)

RunListeners ==
    /\ mainq # <<>>
    /\ LET b == Head(mainq)
           ns == IF b.kind = "first" THEN {b.listener} ELSE Listeners
       IN  /\ b.kind \in {"first", "post"}
           /\ Hears(ns)
           /\ mainq' = Tail(mainq) \o Bodies(ns)
    /\ UNCHANGED <<serverVars, authVars, requests, rootVars, loginVars, pastVars, used>>

RunState ==
    /\ mainq # <<>>
    /\ Head(mainq).kind = "state"
    /\ isLoggedIn' = LoginCheck(Head(mainq).user)
    /\ mainq' = Tail(mainq)
    /\ UNCHANGED <<serverVars, authVars, requests, heard, splash, screen,
                   loginVars, pastVars, used>>

RunTimer ==
    /\ mainq # <<>>
    /\ Head(mainq) = Timer
    /\ splash' = FALSE
    /\ mainq' = Tail(mainq)
    /\ UNCHANGED <<serverVars, authVars, requests, heard, isLoggedIn, screen,
                   loginVars, pastVars, used>>

Redispatch ==
    /\ mainq # <<>>
    /\ LET b == Head(mainq) IN
       /\ b.kind \in {"signIn", "reset"} /\ b.hop = 1
       /\ mainq' = Append(Tail(mainq), [b EXCEPT !.hop = 2])
    /\ UNCHANGED <<serverVars, authVars, requests, heard, rootVars, loginVars,
                   pastVars, used>>

(* [weak self]: the view model is gone with its login screen. *)
Alive(m) == m = model /\ screen = "login"

(* Mutant of Verdict: the app waits for the listeners to let the user in. *)
Verdict_Listeners(user) == isLoggedIn

(* What the completion of a sign-in makes of isLoggedIn. *)
Verdict(user) == isLoggedIn \/ LoginCheck(user)

(* Mutant of Notice: an unverified user is told nothing. *)
Notice_Errors(user) == IF user = NoUser THEN "error" ELSE "nil"

Notice(user) ==
    IF user = NoUser THEN "error" ELSE IF user.verified THEN message ELSE "verify"

(* The body of signIn's completion. *)
RunSignIn ==
    /\ mainq # <<>>
    /\ LET b == Head(mainq) IN
       /\ b.kind = "signIn" /\ b.hop = 2
       /\ IF Alive(b.model)
          THEN /\ isLoading' = FALSE
               /\ isLoggedIn' = Verdict(b.user)
               /\ message' = Notice(b.user)
          ELSE UNCHANGED <<isLoading, isLoggedIn, message>>
    /\ mainq' = Tail(mainq)
    /\ UNCHANGED <<serverVars, authVars, requests, heard, splash, screen, model,
                   pastVars, used>>

(* The body of sendPasswordReset's completion. *)
RunReset ==
    /\ mainq # <<>>
    /\ LET b == Head(mainq) IN
       /\ b.kind = "reset" /\ b.hop = 2
       /\ \/ Alive(b.model) /\ message' \in {"error", "sent"}
          \/ ~Alive(b.model) /\ UNCHANGED message
    /\ mainq' = Tail(mainq)
    /\ UNCHANGED <<serverVars, authVars, requests, heard, rootVars, model,
                   isLoading, pastVars, used>>

-----------------------------------------------------------------------------
MainQueue ==
    RunListeners \/ RunState \/ RunTimer \/ Redispatch \/ RunSignIn \/ RunReset

Next ==
    \/ Relaunch \/ SplashOver \/ Render \/ Unlock
    \/ \E a \in Accounts : SignInUser(a) \/ CreateUser(a) \/ Confirm(a)
    \/ ResetPassword
    \/ \E r \in requests : SignedIn(r) \/ Answered(r)
    \/ ForcedSignOut \/ LogOut
    \/ MainQueue

Spec == Init /\ [][Next]_vars

(* The main queue runs, SwiftUI draws, the timer fires and a request ends  *)
(* in an answer or a timeout.                                              *)
Fairness ==
    /\ WF_vars(MainQueue) /\ WF_vars(Render) /\ WF_vars(SplashOver)
    /\ WF_vars(\E r \in requests : SignedIn(r) \/ Answered(r))

FairSpec == Spec /\ Fairness

-----------------------------------------------------------------------------
Request ==
    [kind : {"signIn", "create"}, uid : Accounts, model : Nat, n : Nat]
    \cup [kind : {"reset"}, uid : {"nil"}, model : Nat, n : Nat]

Block ==
    [kind : {"first"}, listener : Listeners]
    \cup {Post, Timer}
    \cup [kind : {"state"}, listener : Listeners, user : User \cup {NoUser}]
    \cup [kind : {"signIn", "reset"}, model : Nat, user : User \cup {NoUser},
          hop : {1, 2}]

(* Every variable has its type; only an account that exists is confirmed,  *)
(* and no user counts as verified before his address is confirmed.         *)
TypeOK ==
    /\ exists \subseteq Accounts /\ confirmed \subseteq exists
    /\ {keychain, current} \subseteq User \cup {NoUser}
    /\ \A u \in {keychain, current} : u.verified => u.uid \in confirmed
    /\ {locked, isLoggedIn, splash, isLoading, kept, crossed} \subseteq BOOLEAN
    /\ requests \subseteq Request
    /\ mainq \in Seq(Block)
    /\ heard \in [Listeners -> [first : BOOLEAN, uid : Accounts \cup {"nil"}]]
    /\ screen \in {"splash", "login", "landing"}
    /\ model \in Nat
    /\ message \in {"nil", "error", "verify", "sent"}
    /\ used \in [Counters -> Nat]

(* Once the queued blocks have run, whoever is logged in is Auth's current *)
(* user and verified, and such a user is logged in unless Auth refused to  *)
(* sign him out, however listeners, completions, sign-ups, log-outs and    *)
(* relaunches followed each other.  The one exception is that of crossed:  *)
(* a sign-up answered between a sign-in and its completion has made a new  *)
(* account current, which is not verified, and the completion still lets   *)
(* in the user of its own request.                                         *)
SettledLogin ==
    mainq = <<>> => /\ isLoggedIn => current.verified \/ crossed
                    /\ current.verified /\ ~kept => isLoggedIn

(* Somebody who waits for a sign-in is let in or told why not, with the    *)
(* button enabled again, even when listeners, sign-ups or a password reset *)
(* get in between, unless the app is restarted: [weak self] only drops the *)
(* completion when it is not needed.  A sign-up answered at that moment    *)
(* may put him out again before the landing screen is drawn.               *)
SignInEnds ==
    \A n \in 0 .. MaxRequest - 1 :
      (\E r \in requests : r.kind = "signIn" /\ r.n = n)
        ~> (\/ isLoggedIn \/ screen = "splash"
            \/ screen = "login" /\ ~isLoading /\ message \in {"error", "verify"})
=============================================================================
