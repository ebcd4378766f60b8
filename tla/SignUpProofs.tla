---------------------------- MODULE SignUpProofs ----------------------------
(***************************************************************************)
(* Theorems about SignUp, for any addresses and any number of sheets,      *)
(* presses, edits and kills: type correctness with requests told apart by  *)
(* their numbers, and no profile without an account and an e-mail.         *)
(***************************************************************************)
EXTENDS SignUp, SequenceTheorems, TLAPS

-----------------------------------------------------------------------------
(* A press has a number, carried by its create request, by the e-mail      *)
(* request that follows and by the completions of both; never by two of    *)
(* them at a time.                                                         *)
Apart(reqs, q, n) ==
    /\ \A r \in reqs : r.id <= n
    /\ \A i \in 1 .. Len(q) :
         /\ q[i].req.id <= n
         /\ \A r \in reqs : r.id # q[i].req.id
         /\ \A j \in 1 .. Len(q) : q[i].req.id = q[j].req.id => i = j

Numbered == Apart(requests, mainq, used["press"])

(* A verification e-mail went out for sheet s. *)
HasMailed(s) == \E m \in mailed : m.sheet = s

(* A completion that brings a success tells the truth. *)
Told(b) ==
    b.ok => IF b.req.kind = "create" THEN b.req.uid \in exists
            ELSE HasMailed(b.req.sheet)

(* What a view model knows of the account, and of the e-mail before it     *)
(* looks for a position.                                                   *)
Knows(s) ==
    /\ vm[s].registeredUser # "nil" => vm[s].registeredUser \in exists
    /\ vm[s].updating => HasMailed(s)

Backed(p) == p.uid \in exists /\ HasMailed(p.by)

Truthful ==
    /\ \A i \in 1 .. Len(mainq) : Told(mainq[i])
    /\ \A s \in Sheets : Knows(s)
    /\ \A p \in profiles : Backed(p)
    /\ \A i \in 1 .. Len(saves) : Backed(saves[i].doc)

IInv == TypeOK /\ Numbered /\ Truthful

-----------------------------------------------------------------------------
(* Queues, counters and view models.                                       *)

LEMMA Rest ==
    ASSUME NEW S, NEW s \in Seq(S), s # <<>>
    PROVE  /\ Tail(s) \in Seq(S) /\ Head(s) = s[1] /\ s[1] \in S
           /\ Len(s) \in Nat \ {0} /\ Len(Tail(s)) = Len(s) - 1
           /\ \A i \in 1 .. Len(s) - 1 : Tail(s)[i] = s[i + 1]
<1>1. Len(s) \in Nat /\ Len(s) # 0
  BY LenProperties, EmptySeq
<1>2. 1 \in 1 .. Len(s)
  BY <1>1
<1>3. QED
  BY <1>1, <1>2, HeadTailProperties, ElementOfSeq

LEMMA OneMore ==
    ASSUME NEW S, NEW s \in Seq(S), NEW e \in S
    PROVE  /\ Append(s, e) \in Seq(S)
           /\ Len(s) \in Nat /\ Len(Append(s, e)) = Len(s) + 1
           /\ \A i \in 1 .. Len(s) : Append(s, e)[i] = s[i]
           /\ Append(s, e)[Len(s) + 1] = e
BY AppendProperties, LenProperties

LEMMA EmptyQueue ==
    ASSUME NEW S
    PROVE  <<>> \in Seq(S) /\ Len(<<>>) = 0
BY EmptySeq

LEMMA FunctionIsSeq ==
    ASSUME NEW S, NEW n \in Nat, NEW f \in [1 .. n -> S]
    PROVE  f \in Seq(S) /\ Len(f) = n
<1>1. f \in Seq(S)
  BY IsASeq
<1>2. DOMAIN f = 1 .. n
  OBVIOUS
<1>3. Len(f) \in Nat /\ DOMAIN f = 1 .. Len(f)
  BY <1>1, LenProperties
<1>4. QED
  BY <1>1, <1>2, <1>3

LEMMA BumpType ==
    ASSUME used \in [Counters -> Nat], NEW k \in Counters, Bump(k)
    PROVE  /\ used' \in [Counters -> Nat] /\ used'[k] = used[k] + 1
           /\ \A d \in Counters : d # k => used'[d] = used[d]
BY DEF Bump

(* What the actions make of a view model.                                  *)
LEMMA MailedUpdate ==
    ASSUME NEW v \in ViewModel
    PROVE  LET m == [v EXCEPT !.showVerificationAlert = TRUE, !.updating = TRUE] IN
           m \in ViewModel /\ m.registeredUser = v.registeredUser
BY DEF ViewModel

LEMMA CreatedUpdate ==
    ASSUME NEW v \in ViewModel, NEW a \in Addresses
    PROVE  LET m == [v EXCEPT !.isLoading = FALSE, !.registeredUser = a] IN
           m \in ViewModel /\ m.registeredUser = a /\ m.updating = v.updating
BY DEF ViewModel

LEMMA ErrorUpdate ==
    ASSUME NEW v \in ViewModel
    PROVE  LET m == [v EXCEPT !.isLoading = FALSE, !.errorMessage = "create failed"] IN
           /\ m \in ViewModel /\ m.registeredUser = v.registeredUser
           /\ m.updating = v.updating
BY DEF ViewModel, Messages

LEMMA PressUpdate ==
    ASSUME NEW v \in ViewModel
    PROVE  LET m == [v EXCEPT !.isLoading = TRUE, !.errorMessage = "nil"] IN
           /\ m \in ViewModel /\ m.registeredUser = v.registeredUser
           /\ m.updating = v.updating
BY DEF ViewModel, Messages

LEMMA LocatedUpdate ==
    ASSUME NEW v \in ViewModel
    PROVE  LET m == [v EXCEPT !.located = TRUE, !.updating = FALSE] IN
           /\ m \in ViewModel /\ m.registeredUser = v.registeredUser
           /\ m.updating = FALSE
BY DEF ViewModel

LEMMA MessageUpdate ==
    ASSUME NEW v \in ViewModel, NEW e \in Messages
    PROVE  LET m == [v EXCEPT !.errorMessage = e] IN
           /\ m \in ViewModel /\ m.registeredUser = v.registeredUser
           /\ m.updating = v.updating
BY DEF ViewModel

LEMMA NewViewModelType ==
    NewViewModel \in ViewModel
BY DEF NewViewModel, ViewModel, Form, Messages

(* Who is told apart by numbers stays so while nobody presses or answers.  *)
LEMMA NumberedFrame ==
    ASSUME Numbered, UNCHANGED <<requests, mainq>>, used'["press"] = used["press"]
    PROVE  Numbered'
BY DEF Numbered, Apart

LEMMA InitInv ==
    ASSUME ConstantsAssumption, Init
    PROVE  IInv
<1>1. TypeOK
  <2>1. saves \in Seq(Save) /\ mainq \in Seq(Block)
    BY EmptyQueue DEF Init
  <2>2. vm \in [Sheets -> ViewModel]
    BY NewViewModelType DEF Init
  <2>3. QED
    BY <2>1, <2>2 DEF Init, TypeOK
<1>e. Len(mainq) = 0 /\ Len(saves) = 0
  BY EmptyQueue DEF Init
<1>2. Numbered
  BY <1>e DEF Init, Numbered, Apart
<1>3. Truthful
  <2>1. \A s \in Sheets : vm[s].registeredUser = "nil" /\ vm[s].updating = FALSE
    BY DEF Init, NewViewModel
  <2>2. QED
    BY <1>e, <2>1 DEF Init, Truthful, Knows
<1>4. QED
  BY <1>1, <1>2, <1>3 DEF IInv

-----------------------------------------------------------------------------
(* One lemma for each action.                                              *)

LEMMA OpenSheetStep ==
    ASSUME ConstantsAssumption, IInv, OpenSheet
    PROVE  IInv'
<1> USE DEF IInv
<1>1. used' \in [Counters -> Nat] /\ used'["press"] = used["press"]
  BY BumpType DEF OpenSheet, TypeOK, Counters
<1>2. TypeOK'
  <2>1. used["sheet"] \in Nat
    BY DEF TypeOK, Counters
  <2>2. sheet' \in Sheets \cup {0}
    BY <2>1 DEF OpenSheet, Sheets, ConstantsAssumption
  <2>3. QED
    BY <1>1, <2>2 DEF OpenSheet, TypeOK
<1>3. Numbered'
  BY <1>1, NumberedFrame DEF OpenSheet
<1>4. Truthful'
  BY DEF OpenSheet, Truthful, Told, Knows, Backed, HasMailed
<1>5. QED
  BY <1>2, <1>3, <1>4

LEMMA CloseSheetStep ==
    ASSUME ConstantsAssumption, IInv, CloseSheet
    PROVE  IInv'
<1> USE DEF IInv
<1>1. TypeOK'
  BY DEF CloseSheet, TypeOK
<1>2. Numbered'
  BY NumberedFrame DEF CloseSheet
<1>3. Truthful'
  BY DEF CloseSheet, Truthful, Told, Knows, Backed, HasMailed
<1>4. QED
  BY <1>1, <1>2, <1>3

(* A step that changes one view model, keeps what it knows of the account  *)
(* and the position, and touches nothing the server has.                   *)
LEMMA ViewModelStep ==
    ASSUME ConstantsAssumption, IInv, NEW s \in Sheets, NEW m \in ViewModel,
           vm' = [vm EXCEPT ![s] = m],
           m.registeredUser = vm[s].registeredUser,
           m.updating => vm[s].updating,
           UNCHANGED <<exists, mailed, profiles, saves, permitted, requests, mainq,
                       sheet>>,
           used' \in [Counters -> Nat], used'["press"] = used["press"]
    PROVE  IInv'
<1> USE DEF IInv
<1>1. TypeOK'
  BY DEF TypeOK
<1>2. Numbered'
  BY NumberedFrame
<1>3. \A t \in Sheets : Knows(t)'
  <2>1. \A t \in Sheets : Knows(t)
    BY DEF Truthful
  <2>2. vm \in [Sheets -> ViewModel]
    BY DEF TypeOK
  <2>3. QED
    BY <2>1, <2>2 DEF Knows, HasMailed
<1>4. Truthful'
  BY <1>3 DEF Truthful, Told, Backed, HasMailed
<1>5. QED
  BY <1>1, <1>2, <1>4

LEMMA EditStep ==
    ASSUME ConstantsAssumption, IInv, NEW f \in Form, Edit(f)
    PROVE  IInv'
<1> DEFINE m == [vm[sheet] EXCEPT !.form = f]
<1>1. vm \in [Sheets -> ViewModel] /\ sheet \in Sheets
  BY DEF IInv, TypeOK, Edit
<1>2. m \in ViewModel /\ m.registeredUser = vm[sheet].registeredUser
      /\ m.updating = vm[sheet].updating
  BY <1>1 DEF ViewModel
<1>3. vm' = [vm EXCEPT ![sheet] = m]
  BY <1>1 DEF Edit
<1>4. used' \in [Counters -> Nat] /\ used'["press"] = used["press"]
  BY BumpType DEF IInv, Edit, TypeOK, Counters
<1> HIDE DEF m
<1>5. QED
  BY <1>1, <1>2, <1>3, <1>4, ViewModelStep DEF Edit

LEMMA RegisterUserInvalidStep ==
    ASSUME ConstantsAssumption, IInv, RegisterUserInvalid
    PROVE  IInv'
<1> DEFINE m == [vm[sheet] EXCEPT !.errorMessage = "invalid"]
<1>1. vm \in [Sheets -> ViewModel] /\ sheet \in Sheets /\ used \in [Counters -> Nat]
  BY DEF IInv, TypeOK, RegisterUserInvalid
<1>2. m \in ViewModel /\ m.registeredUser = vm[sheet].registeredUser
      /\ m.updating = vm[sheet].updating
  BY <1>1 DEF ViewModel, Messages
<1>3. vm' = [vm EXCEPT ![sheet] = m]
  BY <1>1 DEF RegisterUserInvalid
<1> HIDE DEF m
<1>4. QED
  BY <1>1, <1>2, <1>3, ViewModelStep DEF RegisterUserInvalid

LEMMA DismissAlertStep ==
    ASSUME ConstantsAssumption, IInv, DismissAlert
    PROVE  IInv'
<1> DEFINE m == [vm[sheet] EXCEPT !.showVerificationAlert = FALSE]
<1>1. vm \in [Sheets -> ViewModel] /\ sheet \in Sheets /\ used \in [Counters -> Nat]
  BY DEF IInv, TypeOK, DismissAlert
<1>2. m \in ViewModel /\ m.registeredUser = vm[sheet].registeredUser
      /\ m.updating = vm[sheet].updating
  BY <1>1 DEF ViewModel
<1>3. vm' = [vm EXCEPT ![sheet] = m]
  BY <1>1 DEF DismissAlert
<1> HIDE DEF m
<1>4. QED
  BY <1>1, <1>2, <1>3, ViewModelStep DEF DismissAlert

LEMMA RegisterUserStep ==
    ASSUME ConstantsAssumption, IInv, RegisterUser
    PROVE  IInv'
<1> DEFINE n == used["press"] + 1
           r == [id |-> n, kind |-> "create", sheet |-> sheet, uid |-> vm[sheet].form.email]
<1>1. vm \in [Sheets -> ViewModel] /\ sheet \in Sheets /\ used \in [Counters -> Nat]
      /\ mainq \in Seq(Block) /\ requests \subseteq Request
  BY DEF IInv, TypeOK, RegisterUser
<1>2. used' \in [Counters -> Nat] /\ used'["press"] = n
  BY <1>1, BumpType DEF RegisterUser, Counters
<1>3. n \in 1 .. MaxPress
  <2>1. used["press"] \in Nat /\ used["press"] < MaxPress
    BY <1>1 DEF RegisterUser, Counters
  <2>2. QED
    BY <2>1 DEF ConstantsAssumption
<1>4. vm[sheet].form.email \in Addresses
  BY <1>1 DEF RegisterUser, Valid, ViewModel, Form
<1>5. r \in Request
  BY <1>1, <1>3, <1>4 DEF Request
<1>6. requests' = requests \cup {r}
  BY DEF RegisterUser
<1>7. vm' \in [Sheets -> ViewModel]
      /\ \A s \in Sheets : /\ vm'[s].registeredUser = vm[s].registeredUser
                           /\ vm'[s].updating = vm[s].updating
  <2> DEFINE m == [vm[sheet] EXCEPT !.isLoading = TRUE, !.errorMessage = "nil"]
  <2>1. m \in ViewModel /\ m.registeredUser = vm[sheet].registeredUser
        /\ m.updating = vm[sheet].updating
    BY <1>1, PressUpdate
  <2>2. vm' = [vm EXCEPT ![sheet] = m]
    BY <1>1 DEF RegisterUser
  <2> HIDE DEF m
  <2>3. QED
    BY <1>1, <2>1, <2>2
<1>8. \A q \in requests : q.id <= used["press"] /\ q.id \in Nat
  BY <1>1 DEF IInv, Numbered, Apart, Request
<1>9. \A i \in 1 .. Len(mainq) : mainq[i].req.id <= used["press"]
        /\ mainq[i].req.id \in Nat
  <2>1. \A i \in 1 .. Len(mainq) : mainq[i] \in Block
    BY <1>1, ElementOfSeq
  <2>2. \A b \in Block : b.req.id \in Nat
    BY DEF Block, Request
  <2>3. QED
    BY <2>1, <2>2 DEF IInv, Numbered, Apart
<1>10. used["press"] \in Nat /\ r.id = used["press"] + 1
  BY <1>1 DEF Counters
<1>11. \A q, p \in requests' : q.id = p.id => q = p
  <2>1. \A q \in requests : q.id # r.id
    BY <1>8, <1>10
  <2>2. QED
    BY <1>6, <2>1 DEF IInv, TypeOK
<1> HIDE DEF r
<1>12. TypeOK'
  BY <1>2, <1>5, <1>6, <1>7, <1>11 DEF IInv, TypeOK, RegisterUser
<1>13. Numbered'
  <2>1. \A q \in requests' : q.id <= used'["press"]
    BY <1>2, <1>6, <1>8, <1>10
  <2>2. \A i \in 1 .. Len(mainq) : mainq[i].req.id <= used'["press"]
    BY <1>2, <1>9, <1>10
  <2>3. \A i \in 1 .. Len(mainq) : \A q \in requests' : q.id # mainq[i].req.id
    BY <1>6, <1>9, <1>10 DEF IInv, Numbered, Apart
  <2>4. QED
    BY <2>1, <2>2, <2>3 DEF IInv, Numbered, Apart, RegisterUser
<1>14. Truthful'
  BY <1>7 DEF IInv, Truthful, RegisterUser, Told, Knows, Backed, HasMailed
<1>15. QED
  BY <1>12, <1>13, <1>14 DEF IInv

(* The answer to request r moves its number to the main queue.             *)
LEMMA AnsweredNumbered ==
    ASSUME ConstantsAssumption, IInv, NEW r \in requests, NEW ok \in BOOLEAN,
           Answered(r, ok)
    PROVE  /\ Numbered'
           /\ requests' \subseteq Request
           /\ \A q, p \in requests' : q.id = p.id => q = p
           /\ mainq' \in Seq(Block)
           /\ Len(mainq) \in Nat /\ Len(mainq') = Len(mainq) + 1
           /\ \A i \in 1 .. Len(mainq) : mainq'[i] = mainq[i]
           /\ mainq'[Len(mainq) + 1] = [req |-> r, ok |-> ok]
<1> DEFINE b == [req |-> r, ok |-> ok]
<1>1. requests \subseteq Request /\ mainq \in Seq(Block)
  BY DEF IInv, TypeOK
<1>2. b \in Block
  BY <1>1 DEF Block
<1>3. /\ mainq' \in Seq(Block)
      /\ Len(mainq) \in Nat /\ Len(mainq') = Len(mainq) + 1
      /\ \A i \in 1 .. Len(mainq) : mainq'[i] = mainq[i]
      /\ mainq'[Len(mainq) + 1] = b
  BY <1>1, <1>2, OneMore DEF Answered
<1>4. requests' = requests \ {r} /\ used' = used
  BY DEF Answered
<1>5. \A q, p \in requests : q.id = p.id => q = p
  BY DEF IInv, TypeOK
<1>6. b.req = r
  OBVIOUS
<1> HIDE DEF b
<1>7. Numbered'
  <2>1. \A q \in requests' : q.id <= used'["press"]
    BY <1>4 DEF IInv, Numbered, Apart
  <2>2. \A i \in 1 .. Len(mainq') : i = Len(mainq) + 1 \/ i \in 1 .. Len(mainq)
    BY <1>3
  <2>3. ASSUME NEW i \in 1 .. Len(mainq')
        PROVE  mainq'[i].req.id <= used'["press"]
               /\ \A q \in requests' : q.id # mainq'[i].req.id
    BY <1>3, <1>4, <1>5, <1>6, <2>2 DEF IInv, Numbered, Apart
  <2>4. ASSUME NEW i \in 1 .. Len(mainq'), NEW j \in 1 .. Len(mainq'),
               mainq'[i].req.id = mainq'[j].req.id
        PROVE  i = j
    BY <1>3, <1>6, <2>2, <2>4 DEF IInv, Numbered, Apart
  <2>5. QED
    BY <2>1, <2>3, <2>4 DEF Numbered, Apart
<1>8. QED
  BY <1>1, <1>3, <1>4, <1>5, <1>7 DEF b

(* An answer that tells the truth keeps everything truthful.               *)
LEMMA AnsweredTruthful ==
    ASSUME ConstantsAssumption, IInv, NEW r \in requests, NEW ok \in BOOLEAN,
           Answered(r, ok), exists \subseteq exists', mailed \subseteq mailed',
           ok => IF r.kind = "create" THEN r.uid \in exists'
                 ELSE \E m \in mailed' : m.sheet = r.sheet
    PROVE  Truthful'
<1>1. UNCHANGED <<profiles, saves, permitted, sheet, vm, used>>
  BY DEF Answered
<1>2. /\ Len(mainq) \in Nat /\ Len(mainq') = Len(mainq) + 1
      /\ \A i \in 1 .. Len(mainq) : mainq'[i] = mainq[i]
      /\ mainq'[Len(mainq) + 1] = [req |-> r, ok |-> ok]
  BY AnsweredNumbered
<1>3. ASSUME NEW i \in 1 .. Len(mainq')
      PROVE  Told(mainq[i])'
  <2>1. CASE i \in 1 .. Len(mainq)
    BY <1>2, <2>1 DEF IInv, Truthful, Told, HasMailed
  <2>2. CASE i = Len(mainq) + 1
    BY <1>2, <2>2 DEF Told, HasMailed
  <2>3. QED
    BY <1>2, <2>1, <2>2
<1>4. QED
  BY <1>1, <1>3 DEF IInv, Truthful, Knows, Backed, HasMailed

LEMMA AuthCreatesStep ==
    ASSUME ConstantsAssumption, IInv, NEW r \in requests, NEW ok \in BOOLEAN,
           AuthCreates(r, ok)
    PROVE  IInv'
<1>1. Answered(r, ok) /\ exists' = exists \cup {r.uid} /\ mailed' = mailed
      /\ r.kind = "create"
  BY DEF AuthCreates
<1>2. UNCHANGED <<profiles, saves, permitted, sheet, vm, used>>
  BY <1>1 DEF Answered
<1>3. r.uid \in Addresses
  BY DEF IInv, TypeOK, Request
<1>4. TypeOK'
  BY <1>1, <1>2, <1>3, AnsweredNumbered DEF IInv, TypeOK
<1>5. Truthful'
  BY <1>1, AnsweredTruthful
<1>6. QED
  BY <1>1, <1>4, <1>5, AnsweredNumbered DEF IInv

LEMMA AuthMailsStep ==
    ASSUME ConstantsAssumption, IInv, NEW r \in requests, NEW ok \in BOOLEAN,
           AuthMails(r, ok)
    PROVE  IInv'
<1> DEFINE e == [sheet |-> r.sheet, uid |-> r.uid]
<1>1. Answered(r, ok) /\ mailed' = mailed \cup {e} /\ exists' = exists
      /\ r.kind = "mail" /\ e.sheet = r.sheet
  BY DEF AuthMails
<1>2. UNCHANGED <<profiles, saves, permitted, sheet, vm, used>>
  BY <1>1 DEF Answered
<1>3. e \in [sheet : Sheets, uid : Addresses]
  BY DEF IInv, TypeOK, Request
<1> HIDE DEF e
<1>4. TypeOK'
  BY <1>1, <1>2, <1>3, AnsweredNumbered DEF IInv, TypeOK
<1>5. Truthful'
  BY <1>1, AnsweredTruthful
<1>6. QED
  BY <1>1, <1>4, <1>5, AnsweredNumbered DEF IInv

LEMMA AuthFailsStep ==
    ASSUME ConstantsAssumption, IInv, NEW r \in requests, AuthFails(r)
    PROVE  IInv'
<1>1. Answered(r, FALSE) /\ exists' = exists /\ mailed' = mailed
  BY DEF AuthFails
<1>2. UNCHANGED <<profiles, saves, permitted, sheet, vm, used>>
  BY <1>1 DEF Answered
<1>3. TypeOK'
  BY <1>1, <1>2, AnsweredNumbered DEF IInv, TypeOK
<1>4. Truthful'
  BY <1>1, AnsweredTruthful
<1>5. QED
  BY <1>1, <1>3, <1>4, AnsweredNumbered DEF IInv

(* Taking the first completion off the queue frees its number.             *)
LEMMA ApartTail ==
    ASSUME NEW reqs, NEW q \in Seq(Block), q # <<>>, NEW n, Apart(reqs, q, n)
    PROVE  /\ Apart(reqs, Tail(q), n)
           /\ Head(q).req.id <= n
           /\ \A r \in reqs : r.id # Head(q).req.id
           /\ \A i \in 1 .. Len(Tail(q)) : Tail(q)[i].req.id # Head(q).req.id
<1> DEFINE t == Tail(q)
<1>1. /\ Head(q) = q[1] /\ Len(q) \in Nat \ {0} /\ Len(t) = Len(q) - 1
      /\ \A i \in 1 .. Len(q) - 1 : t[i] = q[i + 1]
  BY Rest
<1> HIDE DEF t
<1>2. 1 \in 1 .. Len(q)
  BY <1>1
<1>3. \A i \in 1 .. Len(t) : i \in 1 .. Len(q) - 1 /\ i + 1 \in 1 .. Len(q) /\ i + 1 # 1
  BY <1>1
<1>4. \A i \in 1 .. Len(t) : t[i] = q[i + 1]
  BY <1>1, <1>3
<1>5. \A i, j \in 1 .. Len(t) : t[i].req.id = t[j].req.id => i = j
  <2>1. ASSUME NEW i \in 1 .. Len(t), NEW j \in 1 .. Len(t), t[i].req.id = t[j].req.id
        PROVE  i = j
    <3>1. i + 1 = j + 1
      BY <1>3, <1>4, <2>1 DEF Apart
    <3>2. QED
      BY <3>1
  <2>2. QED
    BY <2>1
<1>6. \A i \in 1 .. Len(t) : t[i].req.id # q[1].req.id
  BY <1>2, <1>3, <1>4 DEF Apart
<1>7. Apart(reqs, t, n)
  BY <1>3, <1>4, <1>5 DEF Apart
<1>8. QED
  BY <1>1, <1>2, <1>6, <1>7 DEF Apart, t

LEMMA ApartSends ==
    ASSUME NEW reqs, NEW q, NEW n, NEW r, Apart(reqs, q, n), r.id <= n,
           \A i \in 1 .. Len(q) : q[i].req.id # r.id
    PROVE  Apart(reqs \cup {r}, q, n)
BY DEF Apart

LEMMA TakenOff ==
    ASSUME ConstantsAssumption, IInv, mainq # <<>>, mainq' = Tail(mainq)
    PROVE  /\ Head(mainq) \in Block /\ Told(Head(mainq))
           /\ mainq' \in Seq(Block)
           /\ \A i \in 1 .. Len(mainq') : Told(mainq'[i])
<1>1. mainq \in Seq(Block)
  BY DEF IInv, TypeOK
<1>2. /\ mainq' \in Seq(Block) /\ Head(mainq) = mainq[1] /\ mainq[1] \in Block
      /\ Len(mainq) \in Nat \ {0} /\ Len(mainq') = Len(mainq) - 1
      /\ \A i \in 1 .. Len(mainq) - 1 : mainq'[i] = mainq[i + 1]
  BY <1>1, Rest
<1>3. 1 \in 1 .. Len(mainq)
  BY <1>2
<1>4. ASSUME NEW i \in 1 .. Len(mainq')
      PROVE  Told(mainq'[i])
  <2>1. i \in 1 .. Len(mainq) - 1 /\ i + 1 \in 1 .. Len(mainq)
    BY <1>2
  <2>2. mainq'[i] = mainq[i + 1]
    BY <1>2, <2>1
  <2>3. QED
    BY <2>1, <2>2 DEF IInv, Truthful
<1>5. QED
  BY <1>2, <1>3, <1>4 DEF IInv, Truthful

LEMMA TakenOffTruthful ==
    ASSUME ConstantsAssumption, IInv, mainq # <<>>, mainq' = Tail(mainq),
           UNCHANGED <<exists, mailed, profiles, saves>>,
           \A s \in Sheets : Knows(s)'
    PROVE  Truthful'
<1>1. \A i \in 1 .. Len(mainq') : Told(mainq'[i])
  BY TakenOff
<1>2. \A i \in 1 .. Len(mainq') : Told(mainq[i])'
  BY <1>1 DEF Told, HasMailed
<1>3. QED
  BY <1>2 DEF IInv, Truthful, Backed, HasMailed

(* A completion that sends nothing.                                        *)
LEMMA TakenOffNumbered ==
    ASSUME ConstantsAssumption, IInv, mainq # <<>>, mainq' = Tail(mainq),
           UNCHANGED <<requests, used>>
    PROVE  Numbered'
<1>1. mainq \in Seq(Block) /\ Apart(requests, mainq, used["press"])
  BY DEF IInv, TypeOK, Numbered
<1>2. Apart(requests, Tail(mainq), used["press"])
  BY <1>1, ApartTail
<1>3. QED
  BY <1>2 DEF Numbered

(* createUser has succeeded: the e-mail's request takes over the number.   *)
LEMMA TakenOffSends ==
    ASSUME ConstantsAssumption, IInv, mainq # <<>>, mainq' = Tail(mainq),
           requests' = requests \cup {[Head(mainq).req EXCEPT !.kind = "mail"]},
           used' = used
    PROVE  /\ Numbered'
           /\ requests' \subseteq Request
           /\ \A q, p \in requests' : q.id = p.id => q = p
<1> DEFINE b == Head(mainq)
           n == [b.req EXCEPT !.kind = "mail"]
<1>1. mainq \in Seq(Block) /\ Apart(requests, mainq, used["press"])
  BY DEF IInv, TypeOK, Numbered
<1>2. b.req \in Request
  BY TakenOff DEF Block
<1>3. n \in Request /\ n.id = b.req.id
  BY <1>2 DEF Request
<1>4. requests' = requests \cup {n} /\ requests \subseteq Request
  BY DEF IInv, TypeOK
<1>5. /\ Apart(requests, Tail(mainq), used["press"])
      /\ b.req.id <= used["press"]
      /\ \A r \in requests : r.id # b.req.id
      /\ \A i \in 1 .. Len(Tail(mainq)) : Tail(mainq)[i].req.id # b.req.id
  BY <1>1, ApartTail
<1> HIDE DEF b, n
<1>6. Apart(requests \cup {n}, Tail(mainq), used["press"])
  BY <1>3, <1>5, ApartSends
<1>7. \A q, p \in requests' : q.id = p.id => q = p
  BY <1>3, <1>4, <1>5 DEF IInv, TypeOK
<1>8. QED
  BY <1>3, <1>4, <1>6, <1>7 DEF Numbered

LEMMA MailedStep ==
    ASSUME ConstantsAssumption, IInv, mainq # <<>>, mainq' = Tail(mainq),
           Head(mainq).req.kind = "mail", Mailed(Head(mainq)),
           UNCHANGED <<exists, mailed, profiles, saves, permitted, sheet, used>>
    PROVE  IInv'
<1> DEFINE b == Head(mainq)
<1>1. b \in Block /\ Told(b) /\ mainq' \in Seq(Block)
  BY TakenOff
<1>2. b.req.sheet \in Sheets /\ vm \in [Sheets -> ViewModel] /\ b.ok \in BOOLEAN
  BY <1>1 DEF IInv, TypeOK, Block, Request
<1>3. requests' = requests /\ b.req.kind = "mail"
  BY DEF Mailed
<1> HIDE DEF b
<1>4. /\ vm' \in [Sheets -> ViewModel]
      /\ \A s \in Sheets : vm'[s].registeredUser = vm[s].registeredUser
      /\ \A s \in Sheets : vm'[s].updating => vm[s].updating \/ (s = b.req.sheet /\ b.ok)
  <2>1. CASE b.ok
    <3> DEFINE m == [vm[b.req.sheet] EXCEPT !.showVerificationAlert = TRUE,
                                            !.updating = TRUE]
    <3>1. m \in ViewModel /\ m.registeredUser = vm[b.req.sheet].registeredUser
      BY <1>2, MailedUpdate
    <3>2. vm' = [vm EXCEPT ![b.req.sheet] = m]
      BY <1>2, <2>1 DEF Mailed, b
    <3> HIDE DEF m
    <3>3. QED
      BY <1>2, <2>1, <3>1, <3>2
  <2>2. CASE ~b.ok
    <3> DEFINE m == [vm[b.req.sheet] EXCEPT !.errorMessage = "mail failed"]
    <3>1. "mail failed" \in Messages
      BY DEF Messages
    <3>2. m \in ViewModel /\ m.registeredUser = vm[b.req.sheet].registeredUser
          /\ m.updating = vm[b.req.sheet].updating
      BY <1>2, <3>1, MessageUpdate
    <3>3. vm' = [vm EXCEPT ![b.req.sheet] = m]
      BY <1>2, <2>2 DEF Mailed, b
    <3> HIDE DEF m
    <3>4. QED
      BY <1>2, <3>2, <3>3
  <2>3. QED
    BY <2>1, <2>2
<1>5. b.ok => HasMailed(b.req.sheet)
  BY <1>1, <1>3 DEF Told
<1>6. \A s \in Sheets : Knows(s)
  BY DEF IInv, Truthful
<1>7. \A s \in Sheets : Knows(s)'
  BY <1>4, <1>5, <1>6 DEF Knows, HasMailed
<1>8. TypeOK'
  BY <1>1, <1>3, <1>4 DEF IInv, TypeOK
<1>9. QED
  BY <1>3, <1>7, <1>8, TakenOffTruthful, TakenOffNumbered DEF IInv

LEMMA CreatedStep ==
    ASSUME ConstantsAssumption, IInv, mainq # <<>>, mainq' = Tail(mainq),
           Head(mainq).req.kind = "create", Created(Head(mainq)),
           UNCHANGED <<exists, mailed, profiles, saves, permitted, sheet, used>>
    PROVE  IInv'
<1> DEFINE b == Head(mainq)
<1>1. b \in Block /\ Told(b) /\ mainq' \in Seq(Block)
  BY TakenOff
<1>2. b.req.sheet \in Sheets /\ vm \in [Sheets -> ViewModel] /\ b.ok \in BOOLEAN
      /\ b.req.uid \in Addresses
  BY <1>1 DEF IInv, TypeOK, Block, Request
<1>3. b.req.kind = "create"
  OBVIOUS
<1> HIDE DEF b
<1>4. /\ vm' \in [Sheets -> ViewModel]
      /\ \A s \in Sheets : vm'[s].updating = vm[s].updating
      /\ \A s \in Sheets : \/ vm'[s].registeredUser = vm[s].registeredUser
                           \/ b.ok /\ vm'[s].registeredUser = b.req.uid
  <2>1. CASE b.ok
    <3> DEFINE m == [vm[b.req.sheet] EXCEPT !.isLoading = FALSE,
                                            !.registeredUser = b.req.uid]
    <3>1. m \in ViewModel /\ m.registeredUser = b.req.uid
          /\ m.updating = vm[b.req.sheet].updating
      BY <1>2, CreatedUpdate
    <3>2. vm' = [vm EXCEPT ![b.req.sheet] = m]
      BY <1>2, <2>1 DEF Created, b
    <3> HIDE DEF m
    <3>3. QED
      BY <1>2, <2>1, <3>1, <3>2
  <2>2. CASE ~b.ok
    <3> DEFINE m == [vm[b.req.sheet] EXCEPT !.isLoading = FALSE,
                                            !.errorMessage = "create failed"]
    <3>1. m \in ViewModel /\ m.registeredUser = vm[b.req.sheet].registeredUser
          /\ m.updating = vm[b.req.sheet].updating
      BY <1>2, ErrorUpdate
    <3>2. vm' = [vm EXCEPT ![b.req.sheet] = m]
      BY <1>2, <2>2 DEF Created, b
    <3> HIDE DEF m
    <3>3. QED
      BY <1>2, <3>1, <3>2
  <2>3. QED
    BY <2>1, <2>2
<1>5. b.ok => b.req.uid \in exists
  BY <1>1, <1>3 DEF Told
<1>6. \A s \in Sheets : Knows(s)
  BY DEF IInv, Truthful
<1>7. \A s \in Sheets : Knows(s)'
  BY <1>4, <1>5, <1>6 DEF Knows, HasMailed
<1>8. /\ Numbered' /\ requests' \subseteq Request
      /\ \A q, p \in requests' : q.id = p.id => q = p
  <2>1. CASE b.ok
    <3>1. requests' = requests \cup {[Head(mainq).req EXCEPT !.kind = "mail"]}
      BY <2>1 DEF Created, b
    <3>2. QED
      BY <3>1, TakenOffSends
  <2>2. CASE ~b.ok
    <3>1. requests' = requests
      BY <2>2 DEF Created, b
    <3>2. QED
      BY <3>1, TakenOffNumbered DEF IInv, TypeOK
  <2>3. QED
    BY <2>1, <2>2
<1>9. TypeOK'
  BY <1>1, <1>4, <1>8 DEF IInv, TypeOK
<1>10. QED
  BY <1>7, <1>8, <1>9, TakenOffTruthful DEF IInv

LEMMA RunBlockStep ==
    ASSUME ConstantsAssumption, IInv, RunBlock
    PROVE  IInv'
<1> DEFINE b == Head(mainq)
<1>1. mainq # <<>> /\ mainq' = Tail(mainq)
      /\ UNCHANGED <<exists, mailed, profiles, saves, permitted, sheet, used>>
  BY DEF RunBlock
<1>2. b \in Block /\ mainq' \in Seq(Block)
  BY <1>1, TakenOff
<1>3. b.req.kind = "create" \/ b.req.kind = "mail"
  BY <1>2 DEF Block, Request
<1>4. CASE b.req.kind = "mail"
  <2>1. Mailed(b)
    BY <1>4 DEF RunBlock
  <2>2. QED
    BY <1>1, <1>4, <2>1, MailedStep
<1>5. CASE b.req.kind = "create" /\ Alive(b.req.sheet)
  <2>1. Created(b)
    BY <1>5 DEF RunBlock
  <2>2. QED
    BY <1>1, <1>5, <2>1, CreatedStep
<1>6. CASE b.req.kind = "create" /\ ~Alive(b.req.sheet)
  <2>1. UNCHANGED <<vm, requests>>
    BY <1>6 DEF RunBlock
  <2>2. TypeOK'
    BY <1>1, <1>2, <2>1 DEF IInv, TypeOK
  <2>3. \A s \in Sheets : Knows(s)'
    BY <1>1, <2>1 DEF IInv, Truthful, Knows, HasMailed
  <2>4. QED
    BY <1>1, <2>1, <2>2, <2>3, TakenOffTruthful, TakenOffNumbered DEF IInv
<1>7. QED
  BY <1>3, <1>4, <1>5, <1>6

-----------------------------------------------------------------------------
(* The profile.                                                            *)

(* A save for the account and the sheet is truthful when the sheet knows   *)
(* the account and has had its e-mail.                                     *)
LEMMA SaveMade ==
    ASSUME ConstantsAssumption, IInv, NEW s \in Sheets, NEW m \in ViewModel,
           m.registeredUser # "nil", m.registeredUser = vm[s].registeredUser,
           vm[s].updating, m.updating = FALSE,
           vm' = [vm EXCEPT ![s] = m],
           saves' = Append(saves,
                      [doc |-> [uid |-> m.registeredUser, email |-> m.form.email,
                                by |-> s], called |-> TRUE]),
           UNCHANGED <<exists, mailed, profiles, permitted, requests, mainq, sheet, used>>
    PROVE  IInv'
<1> DEFINE d == [uid |-> m.registeredUser, email |-> m.form.email, by |-> s]
           e == [doc |-> d, called |-> TRUE]
<1>1. m.registeredUser \in Addresses /\ m.form.email \in Addresses \cup {""}
  BY DEF ViewModel, Form
<1>2. d \in Profile
  BY <1>1 DEF Profile
<1>3. e \in Save /\ e.doc = d
  BY <1>2 DEF Save
<1>4. vm \in [Sheets -> ViewModel] /\ saves \in Seq(Save)
  BY DEF IInv, TypeOK
<1>5. Knows(s)
  BY DEF IInv, Truthful
<1>6. d.uid \in exists /\ HasMailed(d.by)
  BY <1>5 DEF Knows
<1>7. saves' = Append(saves, e)
  OBVIOUS
<1> HIDE DEF d, e
<1>8. /\ saves' \in Seq(Save)
      /\ Len(saves) \in Nat /\ Len(saves') = Len(saves) + 1
      /\ \A i \in 1 .. Len(saves) : saves'[i] = saves[i]
      /\ saves'[Len(saves) + 1] = e
  BY <1>3, <1>4, <1>7, OneMore
<1>9. TypeOK'
  BY <1>4, <1>8 DEF IInv, TypeOK
<1>10. ASSUME NEW i \in 1 .. Len(saves')
       PROVE  Backed(saves[i].doc)'
  <2>1. CASE i \in 1 .. Len(saves)
    BY <1>8, <2>1 DEF IInv, Truthful, Backed, HasMailed
  <2>2. CASE i = Len(saves) + 1
    BY <1>3, <1>6, <1>8, <2>2 DEF Backed, HasMailed
  <2>3. QED
    BY <1>8, <2>1, <2>2
<1>11. \A t \in Sheets : Knows(t)'
  <2>1. \A t \in Sheets : Knows(t)
    BY DEF IInv, Truthful
  <2>2. QED
    BY <1>4, <2>1 DEF Knows, HasMailed
<1>12. Truthful'
  BY <1>10, <1>11 DEF IInv, Truthful, Told, Backed, HasMailed
<1>13. Numbered'
  BY NumberedFrame DEF IInv
<1>14. QED
  BY <1>9, <1>12, <1>13 DEF IInv

LEMMA DidUpdateLocationsStep ==
    ASSUME ConstantsAssumption, IInv, NEW s \in Sheets, DidUpdateLocations(s)
    PROVE  IInv'
<1> DEFINE m == [vm[s] EXCEPT !.located = TRUE, !.updating = FALSE]
           n == [m EXCEPT !.errorMessage = "missing"]
<1>1. vm \in [Sheets -> ViewModel] /\ vm[s] \in ViewModel
      /\ used \in [Counters -> Nat]
  BY DEF IInv, TypeOK
<1>2. m \in ViewModel /\ m.registeredUser = vm[s].registeredUser /\ m.updating = FALSE
  BY <1>1, LocatedUpdate
<1>3. "missing" \in Messages
  BY DEF Messages
<1>4. SaveUserData(s, m) /\ vm[s].updating
      /\ UNCHANGED <<exists, mailed, profiles, permitted, requests, mainq, sheet, used>>
  BY DEF DidUpdateLocations
<1>5. n \in ViewModel /\ n.registeredUser = vm[s].registeredUser /\ n.updating = FALSE
  <2> HIDE DEF m
  <2>1. QED
    BY <1>2, <1>3, MessageUpdate
<1> HIDE DEF m
<1>6. CASE m.registeredUser = "nil" \/ ~m.located
  <2>1. vm' = [vm EXCEPT ![s] = n] /\ UNCHANGED saves
    BY <1>4, <1>6 DEF SaveUserData
  <2> HIDE DEF n
  <2>2. QED
    BY <1>1, <1>4, <1>5, <2>1, ViewModelStep
<1>7. CASE ~(m.registeredUser = "nil" \/ ~m.located)
  <2>1. /\ vm' = [vm EXCEPT ![s] = m]
        /\ saves' = Append(saves,
                      [doc |-> [uid |-> m.registeredUser, email |-> m.form.email,
                                by |-> s], called |-> TRUE])
    BY <1>4, <1>7 DEF SaveUserData
  <2>2. QED
    BY <1>2, <1>4, <1>7, <2>1, SaveMade
<1>8. QED
  BY <1>6, <1>7

LEMMA SaveAnsweredStep ==
    ASSUME ConstantsAssumption, IInv, NEW ok \in BOOLEAN, SaveAnswered(ok)
    PROVE  IInv'
<1> DEFINE d == Head(saves).doc
           m == [vm[d.by] EXCEPT !.errorMessage = "save failed"]
<1>1. saves \in Seq(Save) /\ saves # <<>> /\ saves' = Tail(saves)
      /\ vm \in [Sheets -> ViewModel] /\ profiles \subseteq Profile
  BY DEF IInv, TypeOK, SaveAnswered
<1>2. /\ saves' \in Seq(Save) /\ Head(saves) = saves[1] /\ saves[1] \in Save
      /\ Len(saves) \in Nat \ {0} /\ Len(saves') = Len(saves) - 1
      /\ \A i \in 1 .. Len(saves) - 1 : saves'[i] = saves[i + 1]
  BY <1>1, Rest
<1>3. d \in Profile /\ d.by \in Sheets
  BY <1>2 DEF Save, Profile
<1>4. Backed(d)
  <2>1. 1 \in 1 .. Len(saves)
    BY <1>2
  <2>2. QED
    BY <1>2, <2>1 DEF IInv, Truthful
<1>5. "save failed" \in Messages
  BY DEF Messages
<1>6. m \in ViewModel /\ m.registeredUser = vm[d.by].registeredUser
      /\ m.updating = vm[d.by].updating
  <2> HIDE DEF d
  <2>1. QED
    BY <1>1, <1>3, <1>5, MessageUpdate
<1>7. profiles' \subseteq profiles \cup {d}
  BY DEF SaveAnswered
<1>8. vm' = vm \/ vm' = [vm EXCEPT ![d.by] = m]
  BY <1>1, <1>3 DEF SaveAnswered
<1>9. UNCHANGED <<exists, mailed, permitted, requests, mainq, sheet, used>>
  BY DEF SaveAnswered
<1> HIDE DEF d, m
<1>10. vm' \in [Sheets -> ViewModel]
       /\ \A s \in Sheets : /\ vm'[s].registeredUser = vm[s].registeredUser
                            /\ vm'[s].updating = vm[s].updating
  BY <1>1, <1>3, <1>6, <1>8
<1>11. TypeOK'
  BY <1>1, <1>2, <1>3, <1>7, <1>9, <1>10 DEF IInv, TypeOK
<1>12. ASSUME NEW i \in 1 .. Len(saves')
       PROVE  Backed(saves[i].doc)'
  <2>1. i \in 1 .. Len(saves) - 1 /\ i + 1 \in 1 .. Len(saves)
    BY <1>2
  <2>2. saves'[i] = saves[i + 1]
    BY <1>2, <2>1
  <2>3. Backed(saves[i + 1].doc)
    BY <2>1 DEF IInv, Truthful
  <2>4. QED
    BY <1>9, <2>2, <2>3 DEF Backed, HasMailed
<1>13. \A p \in profiles' : Backed(p)'
  <2>1. \A p \in profiles' : Backed(p)
    BY <1>4, <1>7 DEF IInv, Truthful
  <2>2. QED
    BY <1>9, <2>1 DEF Backed, HasMailed
<1>14. Truthful'
  BY <1>9, <1>10, <1>12, <1>13 DEF IInv, Truthful, Told, Knows, HasMailed
<1>15. Numbered'
  BY <1>9, NumberedFrame DEF IInv
<1>16. QED
  BY <1>11, <1>14, <1>15 DEF IInv

LEMMA KillStep ==
    ASSUME ConstantsAssumption, IInv, Kill
    PROVE  IInv'
<1>1. saves \in Seq(Save) /\ Len(saves) \in Nat /\ used \in [Counters -> Nat]
      /\ DOMAIN saves = 1 .. Len(saves) /\ \A i \in 1 .. Len(saves) : saves[i] \in Save
  BY LenProperties, ElementOfSeq DEF IInv, TypeOK
<1>2. used' \in [Counters -> Nat] /\ used'["press"] = used["press"]
  BY <1>1, BumpType DEF Kill, Counters
<1>3. \A v \in Save : [v EXCEPT !.called = FALSE] \in Save
                      /\ [v EXCEPT !.called = FALSE].doc = v.doc
  BY DEF Save
<1>4. saves' = [i \in 1 .. Len(saves) |-> [saves[i] EXCEPT !.called = FALSE]]
  BY <1>1 DEF Kill
<1>5. saves' \in [1 .. Len(saves) -> Save]
      /\ \A i \in 1 .. Len(saves) : saves'[i].doc = saves[i].doc
  BY <1>1, <1>3, <1>4
<1>6. saves' \in Seq(Save) /\ Len(saves') = Len(saves)
  BY <1>1, <1>5, FunctionIsSeq
<1>7. mainq' \in Seq(Block) /\ Len(mainq') = 0 /\ requests' = {}
  BY EmptyQueue DEF Kill
<1>8. vm' \in [Sheets -> ViewModel]
  BY NewViewModelType DEF Kill
<1>9. \A s \in Sheets : vm'[s].registeredUser = "nil" /\ vm'[s].updating = FALSE
  BY DEF Kill, NewViewModel
<1>10. UNCHANGED <<exists, mailed, profiles, permitted>> /\ sheet' = 0
  BY DEF Kill
<1>11. TypeOK'
  BY <1>2, <1>6, <1>7, <1>8, <1>10 DEF IInv, TypeOK
<1>12. Numbered'
  BY <1>7 DEF Numbered, Apart
<1>13. Truthful'
  BY <1>5, <1>6, <1>7, <1>9, <1>10 DEF IInv, Truthful, Knows, Backed, HasMailed
<1>14. QED
  BY <1>11, <1>12, <1>13 DEF IInv

LEMMA StutterStep ==
    ASSUME IInv, UNCHANGED vars
    PROVE  IInv'
BY DEF IInv, TypeOK, Numbered, Apart, Truthful, Told, Knows, Backed, HasMailed, vars

LEMMA StepInv ==
    ASSUME ConstantsAssumption, IInv, [Next]_vars
    PROVE  IInv'
<1>1. ASSUME NEW f \in Form, Edit(f) PROVE IInv'
  BY <1>1, EditStep
<1>2. ASSUME NEW r \in requests, Answer(r) PROVE IInv'
  BY <1>2, AuthCreatesStep, AuthMailsStep, AuthFailsStep DEF Answer
<1>3. ASSUME NEW s \in Sheets, DidUpdateLocations(s) \/ DidFailWithError(s) PROVE IInv'
  BY <1>3, DidUpdateLocationsStep, StutterStep DEF DidFailWithError
<1>4. ASSUME NEW ok \in BOOLEAN, SaveAnswered(ok) PROVE IInv'
  BY <1>4, SaveAnsweredStep
<1>5. CASE Next
  BY <1>1, <1>2, <1>3, <1>4, <1>5, OpenSheetStep, CloseSheetStep,
     RegisterUserInvalidStep, RegisterUserStep, DismissAlertStep, RunBlockStep,
     KillStep DEF Next
<1>6. QED
  BY <1>5, StutterStep

(* The invariant holds in every behaviour.                                 *)
THEOREM Invariance == Spec => []IInv
<1>1. Init => IInv
  BY ConstantsAssumption, InitInv
<1>2. IInv /\ [Next]_vars => IInv'
  BY ConstantsAssumption, StepInv
<1>3. QED
  BY <1>1, <1>2, PTL DEF Spec

(* Every variable has its type, and the requests that Auth has not         *)
(* answered are told apart by their numbers, however often the button is   *)
(* pressed, the sheet is closed or the app is killed.                      *)
THEOREM TypeCorrect == Spec => []TypeOK
<1>1. IInv => TypeOK
  BY DEF IInv
<1>2. QED
  BY <1>1, Invariance, PTL

(* saveUserData only writes the profile of an account that exists, from a  *)
(* sheet for which a verification e-mail went out, whatever is registered  *)
(* again, lost or killed in between.                                       *)
THEOREM MailBeforeProfileHolds == Spec => []MailBeforeProfile
<1>1. ASSUME IInv PROVE MailBeforeProfile
  <2>1. DOMAIN saves = 1 .. Len(saves)
    BY <1>1, LenProperties DEF IInv, TypeOK
  <2>2. QED
    BY <1>1, <2>1 DEF IInv, Truthful, Backed, HasMailed, MailBeforeProfile
<1>2. QED
  BY <1>1, Invariance, PTL

=============================================================================
