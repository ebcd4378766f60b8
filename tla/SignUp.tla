-------------------------------- MODULE SignUp --------------------------------
(***************************************************************************)
(* The sign-up sheet.  Registering takes four steps that may each fail or  *)
(* come too late: Auth creates the account, Auth sends the verification    *)
(* e-mail, the location manager finds a position, and the profile          *)
(* document users/{uid} is written.  The button stays enabled and the      *)
(* fields stay editable throughout, the sheet can be closed at any time,   *)
(* and what the later steps use is what the view model holds by then.      *)
(*                                                                         *)
(* An account is named by its address.  The two hops of a completion to    *)
(* the main queue are one block here: they keep their order and read       *)
(* nothing in between.                                                     *)
(***************************************************************************)
EXTENDS Integers, Sequences, FiniteSets

CONSTANTS
    Addresses,  \* e-mail addresses that are typed
    MaxSheet,   \* bound: number of times the sheet is opened
    MaxPress,   \* bound: number of createUser calls
    MaxEdit,    \* bound: number of times the fields are changed
    MaxKill     \* bound: number of times the app is killed

ASSUME ConstantsAssumption ==
    /\ IsFiniteSet(Addresses) /\ "nil" \notin Addresses
    /\ MaxSheet \in Nat /\ MaxPress \in Nat /\ MaxEdit \in Nat /\ MaxKill \in Nat

VARIABLES
    exists,    \* accounts of the Auth server
    mailed,    \* verification e-mails that went out: which sheet, which account
    profiles,  \* users/{uid} on the server
    saves,     \* the setData calls that Firestore has not had answered, in order
    permitted, \* the user lets the app see the location
    requests,  \* Auth requests that have not come back
    mainq,     \* completions waiting on the main queue
    sheet,     \* the sheet on the screen, 0 when there is none
    vm,        \* the SignUpViewModel of each sheet
    used       \* counters held against the bounds

vars == <<exists, mailed, profiles, saves, permitted, requests, mainq, sheet, vm, used>>

Sheets == 1..MaxSheet
Counters == {"sheet", "press", "edit", "kill"}
Bump(c) == used' = [used EXCEPT ![c] = @ + 1]

(* The text fields: email is "" or an address; filled stands for the name  *)
(* and for the two passwords, which must be long enough and equal.         *)
Form == [email : Addresses \cup {""}, filled : BOOLEAN]

(* A profile: whose document it is, its e-mail field, the sheet that wrote *)
(* it.                                                                     *)
Profile == [uid : Addresses, email : Addresses \cup {""}, by : Sheets]
Messages == {"nil", "invalid", "create failed", "mail failed", "missing",
             "save failed"}

ViewModel == [form : Form, isLoading : BOOLEAN, errorMessage : Messages,
              showVerificationAlert : BOOLEAN,
              registeredUser : Addresses \cup {"nil"},
              updating : BOOLEAN,   \* locationManager is looking for a position
              located : BOOLEAN]    \* userLatitude and userLongitude are set
NewViewModel == [form |-> [email |-> "", filled |-> FALSE], isLoading |-> FALSE,
                 errorMessage |-> "nil", showVerificationAlert |-> FALSE,
                 registeredUser |-> "nil", updating |-> FALSE,
                 located |-> FALSE]

Request == [id : 1..MaxPress, kind : {"create", "mail"}, sheet : Sheets,
            uid : Addresses]
Block == [req : Request, ok : BOOLEAN]
(* A setData; its completion is lost with the process that made the call.  *)
Save == [doc : Profile, called : BOOLEAN]

-----------------------------------------------------------------------------
Init ==
    /\ exists \in SUBSET Addresses
    /\ mailed = {}
    /\ profiles = {}
    /\ saves = << >>
    /\ permitted \in BOOLEAN
    /\ requests = {}
    /\ mainq = << >>
    /\ sheet = 0
    /\ vm = [s \in Sheets |-> NewViewModel]
    /\ used = [c \in Counters |-> 0]

(* Who keeps a view model: the sheet on the screen, the closures of        *)
(* sendEmailVerification and of setData, which capture self strongly.      *)
(* createUser's closure captures it weakly.                                *)
Alive(s) ==
    \/ s = sheet
    \/ \E i \in DOMAIN saves : saves[i].called /\ saves[i].doc.by = s
    \/ \E r \in requests : r.kind = "mail" /\ r.sheet = s
    \/ \E i \in DOMAIN mainq : mainq[i].req.kind = "mail" /\ mainq[i].req.sheet = s

(* LoginView's full-screen cover is shown and closed. *)
OpenSheet ==
    /\ sheet = 0
    /\ used["sheet"] < MaxSheet
    /\ Bump("sheet")
    /\ sheet' = used["sheet"] + 1
    /\ UNCHANGED <<exists, mailed, profiles, saves, permitted, requests, mainq, vm>>

CloseSheet ==
    /\ sheet # 0
    /\ sheet' = 0
    /\ UNCHANGED <<exists, mailed, profiles, saves, permitted, requests, mainq, vm, used>>

(* The user types. *)
Edit(form) ==
    /\ sheet # 0
    /\ used["edit"] < MaxEdit
    /\ Bump("edit")
    /\ form # vm[sheet].form
    /\ vm' = [vm EXCEPT ![sheet].form = form]
    /\ UNCHANGED <<exists, mailed, profiles, saves, permitted, requests, mainq, sheet>>

(* The four guards of registerUser. *)
Valid(form) == form.email # "" /\ form.filled

RegisterUserInvalid ==
    /\ sheet # 0
    /\ ~Valid(vm[sheet].form)
    /\ vm' = [vm EXCEPT ![sheet].errorMessage = "invalid"]
    /\ UNCHANGED <<exists, mailed, profiles, saves, permitted, requests, mainq, sheet, used>>

(* The guards are dropped. *)
RegisterUser_NoGuards ==
    /\ sheet # 0
    /\ used["press"] < MaxPress
    /\ Bump("press")
    /\ vm' = [vm EXCEPT ![sheet].isLoading = TRUE, ![sheet].errorMessage = "nil"]
    /\ requests' = requests \cup
           {[id |-> used["press"] + 1, kind |-> "create", sheet |-> sheet,
             uid |-> vm[sheet].form.email]}
    /\ UNCHANGED <<exists, mailed, profiles, saves, permitted, mainq, sheet>>

RegisterUser ==
    /\ sheet # 0
    /\ Valid(vm[sheet].form)
    /\ used["press"] < MaxPress
    /\ Bump("press")
    /\ vm' = [vm EXCEPT ![sheet].isLoading = TRUE, ![sheet].errorMessage = "nil"]
    /\ requests' = requests \cup
           {[id |-> used["press"] + 1, kind |-> "create", sheet |-> sheet,
             uid |-> vm[sheet].form.email]}
    /\ UNCHANGED <<exists, mailed, profiles, saves, permitted, mainq, sheet>>

-----------------------------------------------------------------------------
(* Auth answers.  An address that is taken is refused; an answer that is   *)
(* lost is an error to the client although the account was created or the  *)
(* e-mail sent.                                                            *)
Answered(r, ok) ==
    /\ requests' = requests \ {r}
    /\ mainq' = Append(mainq, [req |-> r, ok |-> ok])
    /\ UNCHANGED <<profiles, saves, permitted, sheet, vm, used>>

AuthCreates(r, heard) ==
    /\ r.kind = "create" /\ r.uid \notin exists
    /\ exists' = exists \cup {r.uid}
    /\ Answered(r, heard)
    /\ UNCHANGED mailed

AuthMails(r, heard) ==
    /\ r.kind = "mail"
    /\ mailed' = mailed \cup {[sheet |-> r.sheet, uid |-> r.uid]}
    /\ Answered(r, heard)
    /\ UNCHANGED exists

AuthFails(r) == Answered(r, FALSE) /\ UNCHANGED <<exists, mailed>>

-----------------------------------------------------------------------------
(* The position is asked for before the e-mail is sent. *)
Created_Locates(b) ==
    IF ~b.ok
    THEN /\ vm' = [vm EXCEPT ![b.req.sheet].isLoading = FALSE,
                             ![b.req.sheet].errorMessage = "create failed"]
         /\ UNCHANGED requests
    ELSE /\ vm' = [vm EXCEPT ![b.req.sheet].isLoading = FALSE,
                             ![b.req.sheet].registeredUser = b.req.uid,
                             ![b.req.sheet].updating = TRUE]
         /\ requests' = requests \cup {[b.req EXCEPT !.kind = "mail"]}

(* createUser's completion, when the view model is still there. *)
Created(b) ==
    IF ~b.ok
    THEN /\ vm' = [vm EXCEPT ![b.req.sheet].isLoading = FALSE,
                             ![b.req.sheet].errorMessage = "create failed"]
         /\ UNCHANGED requests
    ELSE /\ vm' = [vm EXCEPT ![b.req.sheet].isLoading = FALSE,
                             ![b.req.sheet].registeredUser = b.req.uid]
         /\ requests' = requests \cup {[b.req EXCEPT !.kind = "mail"]}

(* The alert is shown and the position is never asked for. *)
Mailed_AlertOnly(b) ==
    /\ vm' = IF ~b.ok
             THEN [vm EXCEPT ![b.req.sheet].errorMessage = "mail failed"]
             ELSE [vm EXCEPT ![b.req.sheet].showVerificationAlert = TRUE]
    /\ UNCHANGED requests

(* sendEmailVerification's completion. *)
Mailed(b) ==
    /\ vm' = IF ~b.ok
             THEN [vm EXCEPT ![b.req.sheet].errorMessage = "mail failed"]
             ELSE [vm EXCEPT ![b.req.sheet].showVerificationAlert = TRUE,
                             ![b.req.sheet].updating = TRUE]
    /\ UNCHANGED requests

RunBlock ==
    /\ mainq # << >>
    /\ mainq' = Tail(mainq)
    /\ LET b == Head(mainq) IN
       CASE b.req.kind = "mail"                        -> Mailed(b)
         [] b.req.kind = "create" /\ Alive(b.req.sheet)  -> Created(b)
         [] b.req.kind = "create" /\ ~Alive(b.req.sheet) -> UNCHANGED <<vm, requests>>
    /\ UNCHANGED <<exists, mailed, profiles, saves, permitted, sheet, used>>

(* The alert's OK button. *)
DismissAlert ==
    /\ sheet # 0
    /\ vm[sheet].showVerificationAlert
    /\ vm' = [vm EXCEPT ![sheet].showVerificationAlert = FALSE]
    /\ UNCHANGED <<exists, mailed, profiles, saves, permitted, requests, mainq, sheet, used>>

-----------------------------------------------------------------------------
(* saveUserData, on the view model with its position set: the profile of   *)
(* registeredUser takes what the fields hold now.                          *)
SaveUserData(s, m) ==
    IF m.registeredUser = "nil" \/ ~m.located
    THEN /\ vm' = [vm EXCEPT ![s] = [m EXCEPT !.errorMessage = "missing"]]
         /\ UNCHANGED saves
    ELSE /\ vm' = [vm EXCEPT ![s] = m]
         /\ saves' = Append(saves,
                [doc |-> [uid |-> m.registeredUser, email |-> m.form.email, by |-> s],
                 called |-> TRUE])

DidUpdateLocations(s) ==
    /\ permitted
    /\ Alive(s)
    /\ vm[s].updating
    /\ SaveUserData(s, [vm[s] EXCEPT !.located = TRUE, !.updating = FALSE])
    /\ UNCHANGED <<exists, mailed, profiles, permitted, requests, mainq, sheet, used>>

(* didFailWithError prints the error and no more. *)
DidFailWithError(s) ==
    /\ Alive(s)
    /\ vm[s].updating
    /\ UNCHANGED vars

(* The server takes the oldest write or refuses it, and setData's          *)
(* completion reports a refusal.                                           *)
SaveAnswered(ok) ==
    /\ saves # << >>
    /\ saves' = Tail(saves)
    /\ LET d == Head(saves).doc IN
       /\ profiles' = IF ok THEN {p \in profiles : p.uid # d.uid} \cup {d}
                      ELSE profiles
       /\ vm' = IF ok \/ ~Head(saves).called THEN vm
                ELSE [vm EXCEPT ![d.by].errorMessage = "save failed"]
    /\ UNCHANGED <<exists, mailed, permitted, requests, mainq, sheet, used>>

(* The app is killed and started: the requests, the view models and the    *)
(* completions go, Firestore keeps the writes.                             *)
Kill ==
    /\ used["kill"] < MaxKill
    /\ Bump("kill")
    /\ requests' = {}
    /\ mainq' = << >>
    /\ sheet' = 0
    /\ vm' = [s \in Sheets |-> NewViewModel]
    /\ saves' = [i \in DOMAIN saves |-> [saves[i] EXCEPT !.called = FALSE]]
    /\ UNCHANGED <<exists, mailed, profiles, permitted>>

Answer(r) ==
    \/ \E heard \in BOOLEAN : AuthCreates(r, heard) \/ AuthMails(r, heard)
    \/ AuthFails(r)

Next ==
    \/ OpenSheet \/ CloseSheet \/ \E f \in Form : Edit(f)
    \/ RegisterUserInvalid \/ RegisterUser \/ DismissAlert
    \/ \E r \in requests : Answer(r)
    \/ RunBlock
    \/ \E s \in Sheets : DidUpdateLocations(s) \/ DidFailWithError(s)
    \/ \E ok \in BOOLEAN : SaveAnswered(ok)
    \/ Kill

(* Auth answers or gives up, the main queue runs, and a location manager   *)
(* that may see the position reports one.                                  *)
Fairness ==
    /\ WF_vars(RunBlock)
    /\ WF_vars(\E r \in requests : Answer(r))
    /\ \A s \in Sheets : WF_vars(DidUpdateLocations(s))

Spec == Init /\ [][Next]_vars /\ Fairness

-----------------------------------------------------------------------------
(* The types of the state; the unanswered requests have numbers of their   *)
(* own and the queues hold one entry per press at most.                    *)
TypeOK ==
    /\ exists \subseteq Addresses
    /\ mailed \subseteq [sheet : Sheets, uid : Addresses]
    /\ profiles \subseteq Profile
    /\ saves \in Seq(Save)
    /\ permitted \in BOOLEAN
    /\ requests \subseteq Request
    /\ \A r, q \in requests : r.id = q.id => r = q
    /\ mainq \in Seq(Block)
    /\ sheet \in Sheets \cup {0}
    /\ vm \in [Sheets -> ViewModel]
    /\ used \in [Counters -> Nat]

(* A profile is written for an existing account only, by a sheet that has  *)
(* had a verification e-mail sent.  (Not always that account's: when a     *)
(* second account is registered while the position for the first one is    *)
(* awaited, the position completes the second one.)                        *)
MailBeforeProfile ==
    \A p \in profiles \cup {saves[i].doc : i \in DOMAIN saves} :
        /\ p.uid \in exists
        /\ \E m \in mailed : m.sheet = p.by

(* The e-mail of an account has been asked for and not answered. *)
MailOut(s, a) ==
    \/ \E r \in requests : r.kind = "mail" /\ r.sheet = s /\ r.uid = a
    \/ \E i \in DOMAIN mainq : mainq[i].req.kind = "mail" /\ mainq[i].req.sheet = s
                               /\ mainq[i].req.uid = a

(* A registration that is left alone is completed: once the sheet has      *)
(* heard that the account exists, a profile with the account's address is  *)
(* handed to Firestore, unless the sheet is closed, the fields are         *)
(* changed, another account is registered on it, the e-mail fails, or the  *)
(* location is not permitted.                                              *)
LeftAlone ==
    \A s \in Sheets, a \in Addresses :
        (/\ permitted /\ sheet = s
         /\ vm[s].registeredUser = a /\ vm[s].form.email = a /\ MailOut(s, a))
        ~> \/ \E i \in DOMAIN saves : saves[i].doc.uid = a /\ saves[i].doc.email = a
           \/ sheet # s
           \/ vm[s].form.email # a
           \/ vm[s].registeredUser # a
           \/ vm[s].errorMessage = "mail failed"
=============================================================================
