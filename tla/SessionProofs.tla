---------------------------- MODULE SessionProofs ----------------------------
(***************************************************************************)
(* Theorems about Session, for any accounts and any number of requests,    *)
(* log-outs and relaunches, and any number of requests on their way: type  *)
(* correctness and a login that settles.                                   *)
(***************************************************************************)
EXTENDS Session, SequenceTheorems, WellFoundedInduction, TLAPS

-----------------------------------------------------------------------------
(* What is said here of a queue q, of what the listeners have heard (h),   *)
(* of a current user u and of isLoggedIn (on) holds of the variables.      *)

Tell(h, n, u) == h[n].first \/ h[n].uid # u.uid

(* A listener that has something to tell is going to be called.            *)
Calls(q, n) == \E i \in 1 .. Len(q) : q[i] = Post \/ q[i] = FirstCall(n)
Called(q, h, u) == \A n \in Listeners : Tell(h, n, u) => Calls(q, n)

(* The last body a listener has queued is about the user it last saw.      *)
IsLast(q, n, i) ==
    /\ q[i].kind = "state" /\ q[i].listener = n
    /\ \A j \in 1 .. Len(q) :
         j > i => ~(q[j].kind = "state" /\ q[j].listener = n)

Followed(q, h) ==
    \A n \in Listeners : \A i \in 1 .. Len(q) :
      IsLast(q, n, i) => q[i].user.uid = h[n].uid

(* No completion of a sign-in, and nothing that logs anybody in.           *)
NoSignIn(q) == \A i \in 1 .. Len(q) : q[i].kind # "signIn"
LogsNobodyIn(q) ==
    \A i \in 1 .. Len(q) : q[i].kind = "state" => ~q[i].user.verified

(* Until the keychain is read nobody is current and nothing is asked.      *)
Shut ==
    locked =>
      /\ current = NoUser /\ requests = {} /\ ~crossed
      /\ \A n \in Listeners : heard[n].uid = "nil"
      /\ NoSignIn(mainq)

(* Auth holds and the listeners have heard of accounts that exist: of a    *)
(* new one they have something to tell.                                    *)
Known ==
    /\ \A u \in {keychain, current} : u.uid \in exists \cup {"nil"}
    /\ \A n \in Listeners : heard[n].uid \in exists \cup {"nil"}

(* While a sign-in is on its way the login screen stays, and nothing that  *)
(* is queued or can still be told logs anybody in.                         *)
Waiting(r) ==
    /\ screen = "login" /\ ~isLoggedIn /\ ~splash /\ isLoading
    /\ r.model = model
    /\ NoSignIn(mainq) /\ LogsNobodyIn(mainq)
    /\ (\E n \in Listeners : Tell(heard, n, current)) => ~current.verified

SignIns == {r \in requests : r.kind = "signIn"}

InFlight ==
    /\ \A r \in SignIns : Waiting(r)
    /\ \A r, q \in SignIns : r = q

(* A completion that will log somebody in: its view model, one of A, is    *)
(* there.  It is about the current user, and what does not log in comes    *)
(* before it and before all that does.                                     *)
LiveModels == IF screen = "login" THEN {model} ELSE {}
Live(q, A, i) == q[i].kind = "signIn" /\ q[i].user.verified /\ q[i].model \in A

Before(q, on, i) ==
    \A j \in 1 .. Len(q) :
      q[j].kind = "state" /\ ~q[j].user.verified =>
        /\ j < i /\ ~on
        /\ \A k \in 1 .. Len(q) :
             k < j /\ q[k].kind = "state" => ~q[k].user.verified

Honest(q, A, u, on) ==
    \A i \in 1 .. Len(q) : Live(q, A, i) => q[i].user = u /\ Before(q, on, i)

Old(q, m) == \A i \in 1 .. Len(q) : q[i].kind = "signIn" => q[i].model <= m

(* The bodies in queue q make v of isLoggedIn = on.                        *)
Ends(q, on, v) ==
    \/ \E i \in 1 .. Len(q) :
         /\ q[i].kind = "state" /\ q[i].user.verified = v
         /\ \A j \in 1 .. Len(q) : j > i => q[j].kind # "state"
    \/ /\ \A i \in 1 .. Len(q) : q[i].kind # "state"
       /\ on = v

(* The listeners, the queued bodies or a completion settle the login.      *)
Settling ==
    \/ \E n \in Listeners : Tell(heard, n, current)
    \/ Ends(mainq, isLoggedIn, current.verified)
    \/ /\ current.verified
       /\ kept \/ \E i \in 1 .. Len(mainq) : Live(mainq, LiveModels, i)

(* What settles the login while nobody has been overtaken; whom a new      *)
(* account has overtaken is not current, and that account is unverified.   *)
Settles ==
    IF crossed THEN ~current.verified
    ELSE Honest(mainq, LiveModels, current, isLoggedIn) /\ Settling

IInv ==
    /\ TypeOK
    /\ splash => screen = "splash"
    /\ Called(mainq, heard, current) /\ Followed(mainq, heard)
    /\ Shut /\ Known /\ InFlight /\ Old(mainq, model)
    /\ Settles

-----------------------------------------------------------------------------
(* Queues, blocks and counters.                                            *)

LEMMA Rest ==
    ASSUME NEW S, NEW s \in Seq(S), s # <<>>
    PROVE  /\ Tail(s) \in Seq(S) /\ Head(s) = s[1] /\ s[1] \in S
           /\ Len(s) \in Nat \ {0} /\ Len(Tail(s)) = Len(s) - 1
           /\ \A i \in 1 .. Len(s) - 1 : Tail(s)[i] = s[i + 1]
<1>1. Len(s) \in Nat /\ Len(s) # 0
  BY LenProperties, EmptySeq
<1>2. 1 \in 1 .. Len(s)
  BY <1>1
<1>3. QED
  BY <1>1, <1>2, HeadTailProperties, ElementOfSeq

LEMMA OneMore ==
    ASSUME NEW S, NEW s \in Seq(S), NEW e \in S
    PROVE  /\ Append(s, e) \in Seq(S)
           /\ Len(s) \in Nat /\ Len(Append(s, e)) = Len(s) + 1
           /\ \A i \in 1 .. Len(s) : Append(s, e)[i] = s[i]
           /\ Append(s, e)[Len(s) + 1] = e
BY AppendProperties, LenProperties

LEMMA EmptyQueue ==
    ASSUME NEW S
    PROVE  <<>> \in Seq(S) /\ Len(<<>>) = 0
BY EmptySeq

(* What is joined to a queue is appended, block by block. *)
LEMMA Joins ==
    ASSUME NEW S, NEW s \in Seq(S), NEW a \in S, NEW b \in S
    PROVE  /\ s \o <<>> = s
           /\ s \o <<a>> = Append(s, a)
           /\ s \o <<a, b>> = Append(Append(s, a), b)
<1>1. s \o <<>> = s
  BY ConcatEmptySeq
<1>2. s \o <<a>> = Append(s, a)
  BY AppendIsConcat
<1>3. s \o <<a, b>> = Append(Append(s, a), b)
  <2>1. <<a>> \in Seq(S) /\ <<b>> \in Seq(S)
    OBVIOUS
  <2>2. <<a, b>> = <<a>> \o <<b>>
    <3>1. <<a, b>> \in Seq(S) /\ Len(<<a, b>>) = 2
      OBVIOUS
    <3>2. /\ <<a>> \o <<b>> \in Seq(S) /\ Len(<<a>> \o <<b>>) = 2
          /\ (<<a>> \o <<b>>)[1] = a /\ (<<a>> \o <<b>>)[2] = b
      BY <2>1, ConcatProperties
    <3>3. <<a, b>>[1] = a /\ <<a, b>>[2] = b
      OBVIOUS
    <3>4. \A i \in 1 .. 2 : <<a, b>>[i] = (<<a>> \o <<b>>)[i]
      <4>1. \A i \in 1 .. 2 : i = 1 \/ i = 2
        OBVIOUS
      <4>2. QED
        BY <3>2, <3>3, <4>1, Zenon
    <3>5. QED
      BY <3>1, <3>2, <3>4, SeqEqual, Zenon
  <2>3. s \o (<<a>> \o <<b>>) = (s \o <<a>>) \o <<b>>
    BY <2>1, ConcatAssociative
  <2>4. Append(s, a) \in Seq(S)
    BY OneMore
  <2>5. Append(s, a) \o <<b>> = Append(Append(s, a), b)
    BY <2>4, AppendIsConcat
  <2>6. QED
    BY <1>2, <2>2, <2>3, <2>5
<1>4. QED
  BY <1>1, <1>2, <1>3

(* Who can be current. *)
Person == User \cup {NoUser}

LEMMA Blocks ==
    /\ Post \in Block /\ Timer \in Block
    /\ \A n \in Listeners : FirstCall(n) \in Block
    /\ \A n \in Listeners, u \in Person : StateBody(n, u) \in Block
    /\ \A r \in Request, u \in Person, h \in {1, 2} :
         r.kind # "create" => Completion(r, u, h) \in Block
BY DEF Block, Post, Timer, FirstCall, StateBody, Completion, Request, Person

LEMMA BlockFields ==
    ASSUME NEW b \in Block
    PROVE  /\ b.kind \in {"first", "post", "timer", "state", "signIn", "reset"}
           /\ b.kind = "first" => b.listener \in Listeners /\ b = FirstCall(b.listener)
           /\ b.kind = "post" => b = Post
           /\ b.kind = "timer" => b = Timer
           /\ b.kind = "state" => b.listener \in Listeners /\ b.user \in Person
           /\ b.kind \in {"signIn", "reset"} =>
                b.model \in Nat /\ b.user \in Person /\ b.hop \in {1, 2}
BY DEF Block, Post, Timer, FirstCall, Person

LEMMA Redispatched ==
    ASSUME NEW b \in Block, b.kind \in {"signIn", "reset"}
    PROVE  LET c == [b EXCEPT !.hop = 2] IN
           /\ c \in Block /\ c.kind = b.kind /\ c.model = b.model
           /\ c.user = b.user
BY DEF Block, Post, Timer

LEMMA People ==
    /\ NoUser \in Person
    /\ \A u \in Person : /\ u.verified \in BOOLEAN
                         /\ u.uid \in Accounts \cup {"nil"}
                         /\ LoginCheck(u) = u.verified
<1>1. NoUser.verified = FALSE /\ NoUser.uid = "nil"
  BY DEF NoUser
<1>2. \A u \in User : u.verified \in BOOLEAN /\ u.uid \in Accounts
  BY DEF User
<1>3. \A u \in Person : u.verified \in BOOLEAN /\ u.uid \in Accounts \cup {"nil"}
  BY <1>1, <1>2 DEF Person
<1>4. \A u \in Person : LoginCheck(u) = u.verified
  BY <1>1, <1>3 DEF LoginCheck
<1>5. QED
  BY <1>3, <1>4 DEF Person

LEMMA BumpType ==
    ASSUME used \in [Counters -> Nat], NEW k \in Counters, Bump(k)
    PROVE  used' \in [Counters -> Nat]
BY DEF Bump

LEMMA FetchedPerson ==
    ASSUME NEW a \in Accounts
    PROVE  /\ Fetched(a) \in Person /\ Fetched(a).uid = a
           /\ Fetched(a).verified = (a \in confirmed)
BY DEF Fetched, Person, User

-----------------------------------------------------------------------------
(* Types.                                                                  *)

LEMMA InitType ==
    ASSUME ConstantsAssumption, Init
    PROVE  TypeOK
<1>1. FirstCalls \in Seq(Block)
  <2>1. FirstCall("AppState") \in Block /\ FirstCall("RootView") \in Block
    BY Blocks DEF Listeners
  <2>2. QED
    BY <2>1 DEF FirstCalls
<1>2. NothingHeard \in [Listeners -> [first : BOOLEAN, uid : Accounts \cup {"nil"}]]
  BY DEF NothingHeard
<1>3. {keychain, current} \subseteq Person /\ \A u \in {keychain, current} : u.verified => u.uid \in confirmed
  BY DEF Init, Person, NoUser
<1>4. (current # NoUser) \in BOOLEAN
  OBVIOUS
<1>5. used \in [Counters -> Nat]
  BY DEF Init
<1>6. QED
  BY <1>1, <1>2, <1>3, <1>4, <1>5 DEF Init, TypeOK, Person

LEMMA NextType ==
    ASSUME ConstantsAssumption, TypeOK, [Next]_vars
    PROVE  TypeOK'
<1> USE DEF Person
<1>1. CASE Relaunch
  <2>1. FirstCalls \in Seq(Block)
    <3>1. FirstCall("AppState") \in Block /\ FirstCall("RootView") \in Block
      BY Blocks DEF Listeners
    <3>2. QED
      BY <3>1 DEF FirstCalls
  <2>2. NothingHeard \in [Listeners -> [first : BOOLEAN, uid : Accounts \cup {"nil"}]]
    BY DEF NothingHeard
  <2>3. used' \in [Counters -> Nat]
    BY <1>1, BumpType DEF Relaunch, TypeOK, Counters
  <2>4. /\ {keychain', current'} \subseteq Person
        /\ \A u \in {keychain', current'} : u.verified => u.uid \in confirmed'
    BY <1>1 DEF Relaunch, TypeOK, NoUser, serverVars
  <2>5. model' \in Nat
    BY <1>1 DEF Relaunch, TypeOK
  <2>6. QED
    BY <1>1, <2>1, <2>2, <2>3, <2>4, <2>5 DEF Relaunch, TypeOK, serverVars
<1>2. CASE SplashOver
  <2>1. mainq' \in Seq(Block)
    BY <1>2, Blocks, OneMore DEF SplashOver, TypeOK
  <2>2. QED
    BY <1>2, <2>1 DEF SplashOver, TypeOK, serverVars, authVars, rootVars, loginVars, pastVars
<1>3. CASE Render
  <2>1. model' \in Nat
    BY <1>3 DEF Render, TypeOK, loginVars, pastVars
  <2>2. QED
    BY <1>3, <2>1 DEF Render, Wanted, TypeOK, serverVars, authVars, loginVars, pastVars
<1>4. CASE Unlock
  <2>1. mainq' \in Seq(Block)
    BY <1>4, Blocks, OneMore DEF Unlock, TypeOK
  <2>2. QED
    BY <1>4, <2>1 DEF Unlock, TypeOK, serverVars, rootVars, loginVars, pastVars
<1>5. ASSUME NEW a \in Accounts, SignInUser(a)
      PROVE  TypeOK'
  <2>1. [kind |-> "signIn", uid |-> a, model |-> model, n |-> used["request"]] \in Request
    BY DEF Request, TypeOK, Counters
  <2>2. requests' \subseteq Request /\ used' \in [Counters -> Nat]
    BY <1>5, <2>1, BumpType DEF SignInUser, Send, TypeOK, Counters
  <2>3. QED
    BY <1>5, <2>2 DEF SignInUser, TypeOK, serverVars, authVars, rootVars, pastVars
<1>6. CASE ResetPassword
  <2>1. [kind |-> "reset", uid |-> "nil", model |-> model, n |-> used["request"]] \in Request
    BY DEF Request, TypeOK, Counters
  <2>2. requests' \subseteq Request /\ used' \in [Counters -> Nat]
    BY <1>6, <2>1, BumpType DEF ResetPassword, Send, TypeOK, Counters
  <2>3. QED
    BY <1>6, <2>2 DEF ResetPassword, TypeOK, serverVars, authVars, rootVars, loginVars, pastVars
<1>7. ASSUME NEW a \in Accounts, CreateUser(a)
      PROVE  TypeOK'
  <2>1. [kind |-> "create", uid |-> a, model |-> model, n |-> used["request"]] \in Request
    BY DEF Request, TypeOK, Counters
  <2>2. requests' \subseteq Request /\ used' \in [Counters -> Nat]
    BY <1>7, <2>1, BumpType DEF CreateUser, Send, TypeOK, Counters
  <2>3. QED
    BY <1>7, <2>2 DEF CreateUser, TypeOK, serverVars, authVars, rootVars, loginVars, pastVars
<1>8. ASSUME NEW a \in Accounts, Confirm(a)
      PROVE  TypeOK'
  BY <1>8 DEF Confirm, TypeOK, authVars, rootVars, loginVars, pastVars
<1>9. ASSUME NEW r \in requests, SignedIn(r)
      PROVE  TypeOK'
  <2>1. r \in Request
    BY DEF TypeOK
  <2>2. r.uid \in Accounts /\ exists' \subseteq Accounts /\ exists \subseteq exists'
    BY <1>9, <2>1 DEF SignedIn, TypeOK, Request
  <2>3. PICK u \in Person : u = Fetched(r.uid) /\ (u.verified => u.uid \in confirmed)
    BY <2>2, FetchedPerson
  <2>4. mainq' \in Seq(Block)
    <3>1. CASE r.kind = "signIn"
      <4>1. Post \in Block /\ Completion(r, u, 1) \in Block
        BY <2>1, <2>3, <3>1, Blocks
      <4>2. mainq' = mainq \o <<Post, Completion(r, u, 1)>>
        BY <1>9, <2>3, <3>1 DEF SignedIn
      <4>3. QED
        BY <4>1, <4>2, Joins, OneMore DEF TypeOK
    <3>2. CASE r.kind = "create"
      <4>1. mainq' = mainq \o <<Post>>
        BY <1>9, <3>2 DEF SignedIn
      <4>2. QED
        BY <4>1, Blocks, Joins, OneMore DEF TypeOK
    <3>3. QED
      BY <1>9, <3>1, <3>2 DEF SignedIn
  <2>5. keychain' = u /\ current' = u /\ requests' \subseteq requests /\ kept' = FALSE
    BY <1>9, <2>3 DEF SignedIn
  <2>6. QED
    BY <1>9, <2>2, <2>3, <2>4, <2>5 DEF SignedIn, TypeOK, rootVars, loginVars
<1>10. ASSUME NEW r \in requests, Answered(r)
       PROVE  TypeOK'
  <2>1. mainq' \in Seq(Block)
    <3>1. r \in Request
      BY DEF TypeOK
    <3>2. CASE r.kind = "create"
      BY <1>10, <3>2 DEF Answered, TypeOK
    <3>3. CASE r.kind # "create"
      <4>1. Completion(r, NoUser, 1) \in Block
        BY <3>1, <3>3, Blocks
      <4>2. mainq' = Append(mainq, Completion(r, NoUser, 1))
        BY <1>10, <3>3 DEF Answered
      <4>3. QED
        BY <4>1, <4>2, OneMore DEF TypeOK
    <3>4. QED
      BY <3>2, <3>3
  <2>2. QED
    BY <1>10, <2>1 DEF Answered, TypeOK, serverVars, authVars, rootVars, loginVars, pastVars
<1>11. CASE ForcedSignOut
  <2>1. mainq' \in Seq(Block)
    BY <1>11, Blocks DEF ForcedSignOut
  <2>2. QED
    <3>1. NoUser \in Person /\ NoUser.verified = FALSE
      BY DEF NoUser
    <3>2. QED
      BY <1>11, <2>1, <3>1 DEF ForcedSignOut, TypeOK, serverVars, rootVars, loginVars
<1>12. CASE LogOut
  <2>1. mainq' \in Seq(Block)
    BY <1>12, Blocks, OneMore, SMTT(30) DEF LogOut, TypeOK, authVars, pastVars
  <2>2. used' \in [Counters -> Nat]
    BY <1>12, BumpType DEF LogOut, TypeOK, Counters
  <2>3. /\ {keychain', current'} \subseteq Person /\ locked' \in BOOLEAN /\ kept' \in BOOLEAN
        /\ \A u \in {keychain', current'} : u.verified => u.uid \in confirmed
    <3>1. NoUser \in Person /\ NoUser.verified = FALSE
      BY DEF NoUser
    <3>2. CASE UNCHANGED authVars
      BY <1>12, <3>2 DEF LogOut, TypeOK, authVars, pastVars
    <3>3. CASE current' = NoUser /\ keychain' = NoUser /\ UNCHANGED <<locked, kept>>
      BY <3>1, <3>3 DEF TypeOK
    <3>4. QED
      BY <1>12, <3>2, <3>3 DEF LogOut
  <2>4. QED
    BY <1>12, <2>1, <2>2, <2>3 DEF LogOut, TypeOK, serverVars, loginVars, pastVars
<1>13. CASE RunListeners
  <2>1. PICK ns \in SUBSET Listeners :
          Hears(ns) /\ mainq' = Tail(mainq) \o Bodies(ns)
    <3>1. Head(mainq) \in Block
      BY <1>13, Rest DEF RunListeners, TypeOK
    <3>2. Head(mainq).kind = "first" => Head(mainq).listener \in Listeners
      BY <3>1, BlockFields
    <3>3. QED
      BY <1>13, <3>2 DEF RunListeners
  <2>2. current \in Person /\ current.uid \in Accounts \cup {"nil"}
    BY People DEF TypeOK
  <2>3. Tail(mainq) \in Seq(Block)
    BY <1>13, Rest DEF RunListeners, TypeOK
  <2>4. \A n \in Listeners : Body(n, ns) \in Seq(Block)
    BY <2>2, Blocks, EmptyQueue DEF Body
  <2>5. mainq' \in Seq(Block)
    BY <2>1, <2>3, <2>4, ConcatProperties DEF Bodies, Listeners
  <2>6. heard' \in [Listeners -> [first : BOOLEAN, uid : Accounts \cup {"nil"}]]
    BY <2>1, <2>2 DEF Hears, TypeOK
  <2>7. QED
    BY <1>13, <2>5, <2>6 DEF RunListeners, TypeOK, serverVars, authVars, rootVars, loginVars, pastVars
<1>14. CASE RunState
  <2>1. Tail(mainq) \in Seq(Block) /\ Head(mainq) \in Block
    BY <1>14, Rest DEF RunState, TypeOK
  <2>2. isLoggedIn' \in BOOLEAN
    BY <1>14, <2>1, BlockFields, People DEF RunState
  <2>3. QED
    BY <1>14, <2>1, <2>2 DEF RunState, TypeOK, serverVars, authVars, loginVars, pastVars
<1>15. CASE RunTimer
  <2>1. Tail(mainq) \in Seq(Block)
    BY <1>15, Rest DEF RunTimer, TypeOK
  <2>2. QED
    BY <1>15, <2>1 DEF RunTimer, TypeOK, serverVars, authVars, loginVars, pastVars
<1>16. CASE Redispatch
  <2>1. Tail(mainq) \in Seq(Block) /\ Head(mainq) \in Block
    BY <1>16, Rest DEF Redispatch, TypeOK
  <2>2. [Head(mainq) EXCEPT !.hop = 2] \in Block
    BY <1>16, <2>1, Redispatched DEF Redispatch
  <2>3. mainq' \in Seq(Block)
    BY <1>16, <2>1, <2>2, OneMore DEF Redispatch
  <2>4. QED
    BY <1>16, <2>3 DEF Redispatch, TypeOK, serverVars, authVars, rootVars, loginVars, pastVars
<1>17. CASE RunSignIn
  <2>1. Tail(mainq) \in Seq(Block) /\ Head(mainq) \in Block
    BY <1>17, Rest DEF RunSignIn, TypeOK
  <2>2. Head(mainq).user \in Person
    BY <1>17, <2>1, BlockFields DEF RunSignIn
  <2>3. isLoggedIn' \in BOOLEAN /\ isLoading' \in BOOLEAN
    BY <1>17, <2>2, People DEF RunSignIn, Verdict, TypeOK
  <2>4. message' \in {"nil", "error", "verify", "sent"}
    BY <1>17 DEF RunSignIn, Notice, TypeOK
  <2>5. QED
    BY <1>17, <2>1, <2>3, <2>4 DEF RunSignIn, TypeOK, serverVars, authVars, pastVars
<1>18. CASE RunReset
  <2>1. Tail(mainq) \in Seq(Block)
    BY <1>18, Rest DEF RunReset, TypeOK
  <2>2. QED
    BY <1>18, <2>1 DEF RunReset, TypeOK, serverVars, authVars, rootVars, pastVars
<1>19. CASE UNCHANGED vars
  BY <1>19 DEF vars, TypeOK
<1>20. QED
  BY <1>1, <1>2, <1>3, <1>4, <1>5, <1>6, <1>7, <1>8, <1>9, <1>10, <1>11, <1>12,
     <1>13, <1>14, <1>15, <1>16, <1>17, <1>18, <1>19 DEF Next, MainQueue

(* Type correctness: every variable keeps its type, only an account that   *)
(* exists is confirmed, and no user of Auth's counts as verified before    *)
(* his address is confirmed.                                               *)
THEOREM TypeCorrect == Spec => []TypeOK
<1>1. Init => TypeOK
  BY ConstantsAssumption, InitType
<1>2. TypeOK /\ [Next]_vars => TypeOK'
  BY ConstantsAssumption, NextType
<1>3. QED
  BY <1>1, <1>2, PTL DEF Spec

-----------------------------------------------------------------------------
(* What an appended block does to a queue.                                 *)

LEMMA CallsAppend ==
    ASSUME NEW q \in Seq(Block), NEW b \in Block, NEW n
    PROVE  /\ Calls(q, n) => Calls(Append(q, b), n)
           /\ b = Post => Calls(Append(q, b), n)
<1> DEFINE e == Append(q, b)
<1>1. /\ Len(q) \in Nat /\ Len(e) = Len(q) + 1 /\ e[Len(q) + 1] = b
      /\ \A i \in 1 .. Len(q) : e[i] = q[i]
  BY OneMore
<1>2. Len(q) + 1 \in 1 .. Len(e) /\ \A i \in 1 .. Len(q) : i \in 1 .. Len(e)
  BY <1>1
<1> HIDE DEF e
<1>3. Calls(q, n) => Calls(e, n)
  BY <1>1, <1>2 DEF Calls
<1>4. b = Post => Calls(e, n)
  BY <1>1, <1>2 DEF Calls
<1>5. QED
  BY <1>3, <1>4 DEF e

LEMMA CalledAppend ==
    ASSUME NEW q \in Seq(Block), NEW b \in Block, NEW h, NEW u
    PROVE  /\ Called(q, h, u) => Called(Append(q, b), h, u)
           /\ b = Post => Called(Append(q, b), h, u)
BY CallsAppend DEF Called

LEMMA FollowedAppend ==
    ASSUME NEW q \in Seq(Block), NEW b \in Block, b.kind # "state", NEW h,
           Followed(q, h)
    PROVE  Followed(Append(q, b), h)
<1> DEFINE e == Append(q, b)
<1>1. /\ Len(q) \in Nat /\ Len(e) = Len(q) + 1 /\ e[Len(q) + 1] = b
      /\ \A i \in 1 .. Len(q) : e[i] = q[i] /\ i \in 1 .. Len(e)
  BY OneMore
<1>2. \A i \in 1 .. Len(e) : i \in 1 .. Len(q) \/ i = Len(q) + 1
  BY <1>1
<1> HIDE DEF e
<1>3. ASSUME NEW n \in Listeners, NEW i \in 1 .. Len(e), IsLast(e, n, i)
      PROVE  e[i].user.uid = h[n].uid
  <2>1. i \in 1 .. Len(q)
    BY <1>1, <1>2, <1>3 DEF IsLast
  <2>2. IsLast(q, n, i)
    BY <1>1, <1>3, <2>1 DEF IsLast
  <2>3. QED
    BY <1>1, <2>1, <2>2 DEF Followed
<1>4. QED
  BY <1>3 DEF Followed, e

(* A listener is heard and queues its body. *)
LEMMA FollowedBody ==
    ASSUME NEW q \in Seq(Block), NEW b \in Block, b.kind = "state",
           NEW h, NEW g, Followed(q, h), g[b.listener].uid = b.user.uid,
           \A n \in Listeners : n # b.listener => g[n].uid = h[n].uid
    PROVE  Followed(Append(q, b), g)
<1> DEFINE e == Append(q, b)
<1>1. /\ Len(q) \in Nat /\ Len(e) = Len(q) + 1 /\ e[Len(q) + 1] = b
      /\ \A i \in 1 .. Len(q) : e[i] = q[i] /\ i \in 1 .. Len(e)
  BY OneMore
<1>2. /\ \A i \in 1 .. Len(e) : i \in 1 .. Len(q) \/ i = Len(q) + 1
      /\ Len(q) + 1 \in 1 .. Len(e) /\ \A i \in 1 .. Len(q) : Len(q) + 1 > i
  BY <1>1
<1> HIDE DEF e
<1>3. ASSUME NEW n \in Listeners, NEW i \in 1 .. Len(e), IsLast(e, n, i)
      PROVE  e[i].user.uid = g[n].uid
  <2>1. CASE i = Len(q) + 1
    BY <1>1, <1>3, <2>1 DEF IsLast
  <2>2. CASE i \in 1 .. Len(q)
    <3>1. n # b.listener
      BY <1>1, <1>2, <1>3, <2>2 DEF IsLast
    <3>2. IsLast(q, n, i)
      BY <1>1, <1>3, <2>2 DEF IsLast
    <3>3. QED
      BY <1>1, <2>2, <3>1, <3>2 DEF Followed
  <2>3. QED
    BY <1>2, <2>1, <2>2
<1>4. QED
  BY <1>3 DEF Followed, e

LEMMA NoSignInAppend ==
    ASSUME NEW q \in Seq(Block), NEW b \in Block, b.kind # "signIn", NoSignIn(q)
    PROVE  NoSignIn(Append(q, b))
BY OneMore DEF NoSignIn

LEMMA LogsNobodyInAppend ==
    ASSUME NEW q \in Seq(Block), NEW b \in Block, LogsNobodyIn(q),
           b.kind = "state" => ~b.user.verified
    PROVE  LogsNobodyIn(Append(q, b))
BY OneMore DEF LogsNobodyIn

LEMMA OldAppend ==
    ASSUME NEW q \in Seq(Block), NEW b \in Block, NEW m \in Nat, Old(q, m),
           b.kind = "signIn" => b.model <= m
    PROVE  Old(Append(q, b), m)
BY OneMore DEF Old

LEMMA LiveAppend ==
    ASSUME NEW q \in Seq(Block), NEW b \in Block, NEW A,
           \E i \in 1 .. Len(q) : Live(q, A, i)
    PROVE  \E i \in 1 .. Len(Append(q, b)) : Live(Append(q, b), A, i)
<1> DEFINE e == Append(q, b)
<1>1. \A i \in 1 .. Len(q) : e[i] = q[i] /\ i \in 1 .. Len(e)
  BY OneMore
<1> HIDE DEF e
<1>2. \E i \in 1 .. Len(e) : Live(e, A, i)
  BY <1>1 DEF Live
<1>3. QED
  BY <1>2 DEF e

(* Only a listener's body about the current user may follow a completion   *)
(* that logs in; a completion may follow bodies that log nobody in.        *)
LEMMA HonestAppend ==
    ASSUME NEW q \in Seq(Block), NEW b \in Block, NEW A, NEW u, NEW on,
           Honest(q, A, u, on),
           b.kind = "state" => b.user = u,
           b.kind = "signIn" /\ b.user.verified /\ b.model \in A =>
             /\ b.user = u
             /\ \/ ~on /\ LogsNobodyIn(q)
                \/ \A j \in 1 .. Len(q) : q[j].kind = "state" => q[j].user.verified
    PROVE  Honest(Append(q, b), A, u, on)
<1> DEFINE e == Append(q, b)
<1>1. /\ Len(q) \in Nat /\ Len(e) = Len(q) + 1 /\ e[Len(q) + 1] = b
      /\ \A i \in 1 .. Len(q) : e[i] = q[i] /\ i \in 1 .. Len(e)
  BY OneMore
<1>2. /\ \A i \in 1 .. Len(e) : i \in 1 .. Len(q) \/ i = Len(q) + 1
      /\ Len(q) + 1 \in 1 .. Len(e) /\ \A i \in 1 .. Len(q) : i < Len(q) + 1
  BY <1>1
<1>3. \A j \in 1 .. Len(q), k \in 1 .. Len(e) : k < j => k \in 1 .. Len(q)
  BY <1>1
<1> HIDE DEF e
<1>4. ASSUME NEW i \in 1 .. Len(e), Live(e, A, i)
      PROVE  e[i].user = u /\ Before(e, on, i)
  <2>1. CASE i \in 1 .. Len(q)
    <3>1. Live(q, A, i)
      BY <1>1, <1>4, <2>1 DEF Live
    <3>2. q[i].user = u /\ Before(q, on, i) /\ u.verified
      BY <2>1, <3>1 DEF Honest, Live
    <3>3. ASSUME NEW j \in 1 .. Len(e), e[j].kind = "state", ~e[j].user.verified
          PROVE  /\ j < i /\ ~on
                 /\ \A k \in 1 .. Len(e) :
                      k < j /\ e[k].kind = "state" => ~e[k].user.verified
      <4>1. j \in 1 .. Len(q)
        BY <1>1, <1>2, <3>2, <3>3
      <4>2. q[j].kind = "state" /\ ~q[j].user.verified
        BY <1>1, <3>3, <4>1
      <4>3. /\ j < i /\ ~on
            /\ \A k \in 1 .. Len(q) :
                 k < j /\ q[k].kind = "state" => ~q[k].user.verified
        BY <3>2, <4>1, <4>2 DEF Before
      <4>4. QED
        BY <1>1, <1>3, <4>1, <4>3
    <3>4. QED
      BY <1>1, <2>1, <3>2, <3>3 DEF Before
  <2>2. CASE i = Len(q) + 1
    <3>1. b.kind = "signIn" /\ b.user.verified /\ b.model \in A /\ e[i] = b
      BY <1>1, <1>4, <2>2 DEF Live
    <3>2. ASSUME NEW j \in 1 .. Len(e), e[j].kind = "state", ~e[j].user.verified
          PROVE  /\ j < i /\ ~on
                 /\ \A k \in 1 .. Len(e) :
                      k < j /\ e[k].kind = "state" => ~e[k].user.verified
      <4>1. j \in 1 .. Len(q) /\ j < i
        BY <1>1, <1>2, <2>2, <3>1, <3>2
      <4>2. ~on /\ LogsNobodyIn(q)
        BY <1>1, <3>1, <3>2, <4>1
      <4>3. QED
        BY <1>1, <1>3, <4>1, <4>2 DEF LogsNobodyIn
    <3>3. QED
      BY <3>1, <3>2 DEF Before
  <2>3. QED
    BY <1>2, <2>1, <2>2
<1>5. QED
  BY <1>4 DEF Honest, e

LEMMA EndsAppend ==
    ASSUME NEW q \in Seq(Block), NEW b \in Block, NEW on, NEW v,
           b.kind # "state", Ends(q, on, v)
    PROVE  Ends(Append(q, b), on, v)
<1> DEFINE e == Append(q, b)
<1>1. /\ Len(q) \in Nat /\ Len(e) = Len(q) + 1 /\ e[Len(q) + 1] = b
      /\ \A i \in 1 .. Len(q) : e[i] = q[i] /\ i \in 1 .. Len(e)
  BY OneMore
<1>2. \A i \in 1 .. Len(e) : i \in 1 .. Len(q) \/ i = Len(q) + 1
  BY <1>1
<1> HIDE DEF e
<1>3. ASSUME NEW i \in 1 .. Len(q), q[i].kind = "state", q[i].user.verified = v,
             \A j \in 1 .. Len(q) : j > i => q[j].kind # "state"
      PROVE  Ends(e, on, v)
  <2>1. \A j \in 1 .. Len(e) : j > i => e[j].kind # "state"
    BY <1>1, <1>2, <1>3
  <2>2. QED
    BY <1>1, <1>3, <2>1 DEF Ends
<1>4. ASSUME \A i \in 1 .. Len(q) : q[i].kind # "state", on = v
      PROVE  Ends(e, on, v)
  BY <1>1, <1>2, <1>4 DEF Ends
<1>5. Ends(e, on, v)
  BY <1>3, <1>4 DEF Ends
<1>6. QED
  BY <1>5 DEF e

LEMMA EndsBody ==
    ASSUME NEW q \in Seq(Block), NEW b \in Block, NEW on, b.kind = "state"
    PROVE  Ends(Append(q, b), on, b.user.verified)
<1> DEFINE e == Append(q, b)
<1>1. /\ Len(q) \in Nat /\ Len(e) = Len(q) + 1 /\ e[Len(q) + 1] = b
  BY OneMore
<1>2. Len(q) + 1 \in 1 .. Len(e) /\ \A j \in 1 .. Len(e) : ~(j > Len(q) + 1)
  BY <1>1
<1> HIDE DEF e
<1>3. Ends(e, on, b.user.verified)
  BY <1>1, <1>2 DEF Ends
<1>4. QED
  BY <1>3 DEF e

-----------------------------------------------------------------------------
(* What is left of a queue when its first block has run.                   *)

LEMMA CallsTail ==
    ASSUME NEW q \in Seq(Block), q # <<>>, NEW n, Calls(q, n),
           q[1] # Post, q[1] # FirstCall(n)
    PROVE  Calls(Tail(q), n)
<1> DEFINE t == Tail(q)
<1>1. /\ Len(q) \in Nat \ {0} /\ Len(t) = Len(q) - 1
      /\ \A i \in 1 .. Len(q) - 1 : t[i] = q[i + 1]
  BY Rest
<1> HIDE DEF t
<1>2. PICK i \in 1 .. Len(q) : q[i] = Post \/ q[i] = FirstCall(n)
  BY DEF Calls
<1>3. i # 1
  BY <1>2
<1>4. i - 1 \in 1 .. Len(t) /\ (i - 1) + 1 = i
  BY <1>1, <1>3
<1>5. t[i - 1] = q[i]
  BY <1>1, <1>4
<1>6. Calls(t, n)
  BY <1>2, <1>4, <1>5 DEF Calls
<1>7. QED
  BY <1>6 DEF t

LEMMA CalledTail ==
    ASSUME NEW q \in Seq(Block), q # <<>>, q[1].kind \notin {"first", "post"},
           NEW h, NEW u, Called(q, h, u)
    PROVE  Called(Tail(q), h, u)
<1>1. q[1] # Post /\ \A n \in Listeners : q[1] # FirstCall(n)
  <2>1. Post.kind = "post" /\ \A n \in Listeners : FirstCall(n).kind = "first"
    BY DEF Post, FirstCall
  <2>2. QED
    BY <2>1
<1>2. \A n \in Listeners : Calls(q, n) => Calls(Tail(q), n)
  BY <1>1, CallsTail
<1>3. QED
  BY <1>2 DEF Called

LEMMA FollowedTail ==
    ASSUME NEW q \in Seq(Block), q # <<>>, NEW h, Followed(q, h)
    PROVE  Followed(Tail(q), h)
<1> DEFINE t == Tail(q)
<1>1. /\ Len(q) \in Nat \ {0} /\ Len(t) = Len(q) - 1
      /\ \A i \in 1 .. Len(q) - 1 : t[i] = q[i + 1]
  BY Rest
<1> HIDE DEF t
<1>2. /\ \A i \in 1 .. Len(t) : t[i] = q[i + 1] /\ i + 1 \in 1 .. Len(q)
      /\ \A i \in 1 .. Len(t), j \in 1 .. Len(q) :
           j > i + 1 => j - 1 \in 1 .. Len(t) /\ j - 1 > i /\ t[j - 1] = q[j]
  <2>1. \A j \in 1 .. Len(q) : j > 1 => j - 1 \in 1 .. Len(q) - 1 /\ (j - 1) + 1 = j
    BY <1>1
  <2>2. \A j \in 1 .. Len(q) : j > 1 => t[j - 1] = q[j]
    BY <1>1, <2>1
  <2>3. QED
    BY <1>1, <2>1, <2>2
<1>3. ASSUME NEW n \in Listeners, NEW i \in 1 .. Len(t), IsLast(t, n, i)
      PROVE  t[i].user.uid = h[n].uid
  <2>1. IsLast(q, n, i + 1)
    BY <1>2, <1>3 DEF IsLast
  <2>2. QED
    BY <1>2, <2>1 DEF Followed
<1>4. QED
  BY <1>3 DEF Followed, t

LEMMA NoSignInTail ==
    ASSUME NEW q \in Seq(Block), q # <<>>, NoSignIn(q)
    PROVE  NoSignIn(Tail(q))
BY Rest DEF NoSignIn

LEMMA LogsNobodyInTail ==
    ASSUME NEW q \in Seq(Block), q # <<>>, LogsNobodyIn(q)
    PROVE  LogsNobodyIn(Tail(q))
BY Rest DEF LogsNobodyIn

LEMMA OldTail ==
    ASSUME NEW q \in Seq(Block), q # <<>>, NEW m, Old(q, m)
    PROVE  Old(Tail(q), m)
BY Rest DEF Old

LEMMA LiveTail ==
    ASSUME NEW q \in Seq(Block), q # <<>>, NEW A, ~Live(q, A, 1),
           \E i \in 1 .. Len(q) : Live(q, A, i)
    PROVE  \E i \in 1 .. Len(Tail(q)) : Live(Tail(q), A, i)
<1> DEFINE t == Tail(q)
<1>1. /\ Len(q) \in Nat \ {0} /\ Len(t) = Len(q) - 1
      /\ \A i \in 1 .. Len(q) - 1 : t[i] = q[i + 1]
  BY Rest
<1> HIDE DEF t
<1>2. PICK i \in 1 .. Len(q) : Live(q, A, i)
  OBVIOUS
<1>3. i # 1
  BY <1>2
<1>4. i - 1 \in 1 .. Len(t) /\ (i - 1) + 1 = i
  BY <1>1, <1>3
<1>5. t[i - 1] = q[i]
  BY <1>1, <1>4
<1>6. Live(t, A, i - 1)
  BY <1>2, <1>5 DEF Live
<1>7. QED
  BY <1>4, <1>6 DEF t

(* Running the first block does what the completions that log in expect.   *)
LEMMA HonestTail ==
    ASSUME NEW q \in Seq(Block), q # <<>>, NEW A, NEW u, NEW on \in BOOLEAN,
           NEW off \in BOOLEAN, Honest(q, A, u, on),
           \/ off = on
           \/ q[1].kind = "state" /\ off = q[1].user.verified
           \/ Live(q, A, 1)
    PROVE  Honest(Tail(q), A, u, off)
<1> DEFINE t == Tail(q)
<1>1. /\ Len(q) \in Nat \ {0} /\ Len(t) = Len(q) - 1 /\ 1 \in 1 .. Len(q)
      /\ \A i \in 1 .. Len(q) - 1 : t[i] = q[i + 1]
  BY Rest
<1> HIDE DEF t
<1>2. /\ \A i \in 1 .. Len(t) : t[i] = q[i + 1] /\ i + 1 \in 1 .. Len(q) /\ 1 < i + 1
      /\ \A i, j \in 1 .. Len(t) : i + 1 < j + 1 <=> i < j
  BY <1>1
<1>3. ASSUME NEW i \in 1 .. Len(t), Live(t, A, i)
      PROVE  t[i].user = u /\ Before(t, off, i)
  <2>1. Live(q, A, i + 1)
    BY <1>2, <1>3 DEF Live
  <2>2. q[i + 1].user = u /\ Before(q, on, i + 1)
    BY <1>2, <2>1 DEF Honest
  <2>3. ASSUME NEW j \in 1 .. Len(t), t[j].kind = "state", ~t[j].user.verified
        PROVE  /\ j < i /\ ~off
               /\ \A k \in 1 .. Len(t) :
                    k < j /\ t[k].kind = "state" => ~t[k].user.verified
    <3>1. q[j + 1].kind = "state" /\ ~q[j + 1].user.verified /\ j + 1 \in 1 .. Len(q)
      BY <1>2, <2>3
    <3>2. /\ j + 1 < i + 1 /\ ~on
          /\ \A k \in 1 .. Len(q) :
               k < j + 1 /\ q[k].kind = "state" => ~q[k].user.verified
      BY <2>2, <3>1 DEF Before
    <3>3. ~off
      <4>1. CASE off = on
        BY <3>2, <4>1
      <4>2. CASE q[1].kind = "state" /\ off = q[1].user.verified
        BY <1>1, <1>2, <3>2, <4>2
      <4>3. CASE Live(q, A, 1)
        <5>1. Before(q, on, 1)
          BY <1>1, <4>3 DEF Honest
        <5>2. j + 1 < 1
          BY <3>1, <5>1 DEF Before
        <5>3. QED
          BY <5>2
      <4>4. QED
        BY <4>1, <4>2, <4>3
    <3>4. j < i
      BY <1>2, <3>2
    <3>5. ASSUME NEW k \in 1 .. Len(t), k < j, t[k].kind = "state"
          PROVE  ~t[k].user.verified
      BY <1>2, <3>2, <3>5
    <3>6. QED
      BY <3>3, <3>4, <3>5
  <2>4. QED
    BY <1>2, <2>2, <2>3 DEF Before
<1>4. QED
  BY <1>3 DEF Honest, t

LEMMA EndsTail ==
    ASSUME NEW q \in Seq(Block), q # <<>>, NEW on \in BOOLEAN,
           NEW off \in BOOLEAN, NEW v \in BOOLEAN, Ends(q, on, v),
           IF q[1].kind = "state" THEN off = q[1].user.verified ELSE off = on
    PROVE  Ends(Tail(q), off, v)
<1> DEFINE t == Tail(q)
<1>1. /\ Len(q) \in Nat \ {0} /\ Len(t) = Len(q) - 1 /\ 1 \in 1 .. Len(q)
      /\ \A i \in 1 .. Len(q) - 1 : t[i] = q[i + 1]
  BY Rest
<1> HIDE DEF t
<1>2. \A i \in 1 .. Len(t) : t[i] = q[i + 1] /\ i + 1 \in 1 .. Len(q) /\ i + 1 > 1
  BY <1>1
<1>3. ASSUME NEW i \in 1 .. Len(q), q[i].kind = "state", q[i].user.verified = v,
             \A j \in 1 .. Len(q) : j > i => q[j].kind # "state"
      PROVE  Ends(t, off, v)
  <2>1. CASE i = 1
    <3>1. \A j \in 1 .. Len(t) : t[j].kind # "state"
      BY <1>2, <1>3, <2>1
    <3>2. off = v
      BY <1>3, <2>1
    <3>3. QED
      BY <3>1, <3>2 DEF Ends
  <2>2. CASE i # 1
    <3>1. i - 1 \in 1 .. Len(t) /\ (i - 1) + 1 = i
      BY <1>1, <2>2
    <3>2. t[i - 1] = q[i]
      BY <1>2, <3>1
    <3>3. \A j \in 1 .. Len(t) : j > i - 1 => t[j].kind # "state"
      BY <1>2, <1>3, SMTT(30)
    <3>4. QED
      BY <1>3, <3>1, <3>2, <3>3 DEF Ends
  <2>3. QED
    BY <2>1, <2>2
<1>4. ASSUME \A i \in 1 .. Len(q) : q[i].kind # "state", on = v
      PROVE  Ends(t, off, v)
  <2>1. off = v
    BY <1>1, <1>4
  <2>2. QED
    BY <1>2, <1>4, <2>1 DEF Ends
<1>5. Ends(t, off, v)
  BY <1>3, <1>4 DEF Ends
<1>6. QED
  BY <1>5 DEF t

-----------------------------------------------------------------------------
(* Where a queue leads.                                                    *)

(* A set of natural numbers with an element has a least one. *)
LEMMA Least ==
    ASSUME NEW S \in SUBSET Nat, S # {}
    PROVE  \E m \in S : \A k \in S : m <= k
<1>1. IsWellFoundedOn(OpToRel(<, Nat), Nat)
  BY NatLessThanWellFounded
<1>2. PICK m \in S : \A k \in S : ~(<<k, m>> \in OpToRel(<, Nat))
  BY <1>1, WFMin
<1>3. \A k \in S : ~(k < m)
  BY <1>2 DEF OpToRel
<1>4. QED
  BY <1>3

(* A set of positions with an element has a last one. *)
LEMMA LastOf ==
    ASSUME NEW n \in Nat, NEW S \in SUBSET (1 .. n), S # {}
    PROVE  \E i \in S : \A j \in S : j <= i
<1> DEFINE bounds == {m \in Nat : \A j \in S : j <= m}
<1>1. n \in bounds
  OBVIOUS
<1>2. PICK m \in bounds : \A k \in bounds : m <= k
  <2>1. bounds \in SUBSET Nat /\ bounds # {}
    BY <1>1
  <2> HIDE DEF bounds
  <2>2. QED
    BY <2>1, Least
<1>3. m \in S
  <2>1. SUFFICES ASSUME m \notin S PROVE FALSE
    OBVIOUS
  <2>2. m - 1 \in Nat /\ \A j \in S : j <= m - 1
    <3>1. PICK j \in S : j \in 1 .. n /\ j <= m
      BY <1>2
    <3>2. m \in Nat /\ \A k \in S : k \in Nat /\ k <= m /\ k # m
      BY <1>2, <2>1
    <3>3. QED
      BY <3>1, <3>2
  <2>3. m - 1 \in bounds
    BY <2>2
  <2>4. QED
    BY <1>2, <2>3
<1>4. QED
  BY <1>2, <1>3

(* A queue has no body of a listener, or a last one. *)
LEMMA LastBody ==
    ASSUME NEW q \in Seq(Block)
    PROVE  \/ \A i \in 1 .. Len(q) : q[i].kind # "state"
           \/ \E i \in 1 .. Len(q) :
                /\ q[i].kind = "state"
                /\ \A j \in 1 .. Len(q) : j > i => q[j].kind # "state"
<1> DEFINE S == {i \in 1 .. Len(q) : q[i].kind = "state"}
<1>1. Len(q) \in Nat
  BY LenProperties
<1>2. CASE S = {}
  BY <1>2
<1>3. CASE S # {}
  <2>1. PICK i \in S : \A j \in S : j <= i
    BY <1>1, <1>3, LastOf
  <2>2. \A j \in 1 .. Len(q) : j > i => j \notin S
    BY <1>1, <2>1
  <2>3. QED
    BY <2>1, <2>2
<1>4. QED
  BY <1>2, <1>3

LEMMA EndsLoggedOut ==
    ASSUME NEW q \in Seq(Block), LogsNobodyIn(q)
    PROVE  Ends(q, FALSE, FALSE)
<1>1. \A i \in 1 .. Len(q) : q[i].kind = "state" => q[i].user.verified = FALSE
  <2>1. ASSUME NEW i \in 1 .. Len(q), q[i].kind = "state"
        PROVE  q[i].user.verified = FALSE
    <3>1. q[i].user \in Person /\ ~q[i].user.verified
      BY <2>1, ElementOfSeq, BlockFields DEF LogsNobodyIn
    <3>2. QED
      BY <3>1, People
  <2>2. QED
    BY <2>1
<1>2. QED
  BY <1>1, LastBody DEF Ends

LEMMA EndsLoggedIn ==
    ASSUME NEW q \in Seq(Block),
           \A i \in 1 .. Len(q) : q[i].kind = "state" => q[i].user.verified
    PROVE  Ends(q, TRUE, TRUE)
<1>1. \A i \in 1 .. Len(q) : q[i].kind = "state" => q[i].user.verified = TRUE
  <2>1. ASSUME NEW i \in 1 .. Len(q), q[i].kind = "state"
        PROVE  q[i].user.verified = TRUE
    <3>1. q[i].user \in Person /\ q[i].user.verified
      BY <2>1, ElementOfSeq, BlockFields
    <3>2. QED
      BY <3>1, People
  <2>2. QED
    BY <2>1
<1>2. QED
  BY <1>1, LastBody DEF Ends

(* isLoggedIn is set to FALSE. *)
LEMMA EndsOff ==
    ASSUME NEW q \in Seq(Block), NEW on, Ends(q, on, FALSE)
    PROVE  Ends(q, FALSE, FALSE)
BY DEF Ends

-----------------------------------------------------------------------------
(* The steps of the invariant, which take the types of NextType.           *)

LEMMA PostFields ==
    /\ Post \in Block /\ Post.kind = "post"
    /\ Timer \in Block /\ Timer.kind = "timer"
BY Blocks DEF Post, Timer

LEMMA EmptyIsQuiet ==
    /\ \A n \in Listeners : ~Calls(<<>>, n)
    /\ NoSignIn(<<>>) /\ LogsNobodyIn(<<>>)
BY EmptyQueue DEF Calls, NoSignIn, LogsNobodyIn

(* The queue of a start calls both listeners and holds nothing else. *)
LEMMA FirstCallsQueue ==
    /\ FirstCalls \in Seq(Block) /\ Len(FirstCalls) = 2
    /\ \A i \in 1 .. 2 : FirstCalls[i].kind = "first"
    /\ \A n \in Listeners : Calls(FirstCalls, n)
<1>1. /\ FirstCall("AppState") \in Block /\ FirstCall("RootView") \in Block
      /\ FirstCall("AppState").kind = "first" /\ FirstCall("RootView").kind = "first"
  BY Blocks DEF Listeners, FirstCall
<1>2. FirstCalls = <<FirstCall("AppState"), FirstCall("RootView")>>
  BY DEF FirstCalls
<1>3. FirstCalls \in Seq(Block) /\ Len(FirstCalls) = 2
  BY <1>1, <1>2
<1>4. FirstCalls[1] = FirstCall("AppState") /\ FirstCalls[2] = FirstCall("RootView")
  BY <1>2
<1>5. \A i \in 1 .. 2 : i = 1 \/ i = 2
  OBVIOUS
<1>6. \A i \in 1 .. 2 : FirstCalls[i].kind = "first"
  BY <1>1, <1>4, <1>5, Zenon
<1>7. 1 \in 1 .. Len(FirstCalls) /\ 2 \in 1 .. Len(FirstCalls)
  BY <1>3
<1>8. \A n \in Listeners : Calls(FirstCalls, n)
  BY <1>4, <1>7 DEF Calls, Listeners
<1>9. QED
  BY <1>3, <1>6, <1>8

LEMMA FirstCallsQuiet ==
    ASSUME NEW h, NEW A, NEW u, NEW on, NEW m
    PROVE  /\ Called(FirstCalls, h, u) /\ Followed(FirstCalls, h)
           /\ NoSignIn(FirstCalls) /\ Old(FirstCalls, m)
           /\ Honest(FirstCalls, A, u, on)
<1>1. \A i \in 1 .. Len(FirstCalls) :
        FirstCalls[i].kind # "state" /\ FirstCalls[i].kind # "signIn"
  BY FirstCallsQueue
<1>2. Called(FirstCalls, h, u)
  BY FirstCallsQueue DEF Called
<1>3. QED
  BY <1>1, <1>2 DEF Followed, IsLast, NoSignIn, Old, Honest, Live

(* A start, of the first process or of a later one. *)
LEMMA Started ==
    ASSUME TypeOK', locked' => current' = NoUser, mainq' = FirstCalls,
           heard' = NothingHeard, requests' = {}, screen' = "splash", ~crossed',
           \A u \in {keychain', current'} : u.uid \in exists' \cup {"nil"}
    PROVE  IInv'
<1>1. /\ Called(mainq', heard', current') /\ Followed(mainq', heard')
      /\ NoSignIn(mainq') /\ Old(mainq', model')
      /\ Honest(mainq', LiveModels', current', isLoggedIn')
  BY FirstCallsQuiet
<1>2. /\ \A n \in Listeners : heard'[n].uid = "nil" /\ heard'[n].first = TRUE
      /\ "AppState" \in Listeners
  BY DEF NothingHeard, Listeners
<1>3. Shut'
  BY <1>1, <1>2 DEF Shut
<1>4. InFlight'
  BY DEF InFlight, SignIns
<1>5. Known'
  BY <1>2 DEF Known
<1>6. Settling'
  BY <1>2 DEF Settling, Tell
<1>7. QED
  BY <1>1, <1>3, <1>4, <1>5, <1>6 DEF IInv, Settles

LEMMA InitInv ==
    ASSUME ConstantsAssumption, Init
    PROVE  IInv
<1>1. TypeOK
  BY InitType
<1>2. /\ Called(mainq, heard, current) /\ Followed(mainq, heard)
      /\ NoSignIn(mainq) /\ Old(mainq, model)
      /\ Honest(mainq, LiveModels, current, isLoggedIn)
  BY FirstCallsQuiet DEF Init
<1>3. /\ \A n \in Listeners : heard[n].uid = "nil" /\ heard[n].first = TRUE
      /\ "AppState" \in Listeners
  BY DEF Init, NothingHeard, Listeners
<1>4. Shut
  BY <1>2, <1>3 DEF Shut, Init
<1>5. InFlight
  BY DEF InFlight, SignIns, Init
<1>6. Known
  BY <1>3 DEF Known, Init, NoUser
<1>7. Settling
  BY <1>3 DEF Settling, Tell
<1>8. QED
  BY <1>1, <1>2, <1>4, <1>5, <1>6, <1>7 DEF IInv, Init, Settles

LEMMA RelaunchStep ==
    ASSUME IInv, TypeOK', Relaunch
    PROVE  IInv'
<1>1. \A u \in {keychain', current'} : u.uid \in exists' \cup {"nil"}
  BY DEF Relaunch, serverVars, IInv, Known, NoUser
<1>2. QED
  BY <1>1, Started DEF Relaunch

(* Sign-ins that are answered or stay, and wait as before. *)
LEMMA InFlightFrame ==
    ASSUME InFlight, SignIns' \subseteq SignIns,
           \A r \in SignIns : r \in requests' /\ Waiting(r) => Waiting(r)'
    PROVE  InFlight'
<1>1. \A r \in SignIns' : r \in SignIns /\ r \in requests'
  BY DEF SignIns
<1>2. \A r \in SignIns' : Waiting(r)'
  BY <1>1 DEF InFlight
<1>3. QED
  BY <1>1, <1>2 DEF InFlight

(* The user and who has been overtaken stay as they are. *)
LEMMA SettlesFrame ==
    ASSUME Settles, UNCHANGED <<current, crossed>>,
           Honest(mainq, LiveModels, current, isLoggedIn) /\ Settling =>
             Honest(mainq', LiveModels', current', isLoggedIn') /\ Settling'
    PROVE  Settles'
BY DEF Settles

LEMMA SplashOverStep ==
    ASSUME IInv, TypeOK', SplashOver
    PROVE  IInv'
<1> USE DEF SplashOver, serverVars, authVars, rootVars, loginVars, pastVars
<1>1. mainq \in Seq(Block) /\ model \in Nat /\ mainq' = Append(mainq, Timer)
  BY DEF IInv, TypeOK
<1>2. LiveModels' = LiveModels
  BY DEF LiveModels
<1>3. /\ Called(mainq', heard, current) /\ Followed(mainq', heard)
      /\ Honest(mainq, LiveModels, current, isLoggedIn) =>
           Honest(mainq', LiveModels, current, isLoggedIn)
      /\ Old(mainq', model)
  BY <1>1, PostFields, CalledAppend, FollowedAppend, HonestAppend, OldAppend DEF IInv
<1>4. /\ NoSignIn(mainq) => NoSignIn(mainq')
      /\ LogsNobodyIn(mainq) => LogsNobodyIn(mainq')
  BY <1>1, PostFields, NoSignInAppend, LogsNobodyInAppend
<1>5. Shut'
  BY <1>4 DEF IInv, Shut
<1>6. InFlight'
  BY <1>4, InFlightFrame DEF IInv, Waiting, SignIns
<1>7. Settling => Settling'
  <2>1. Ends(mainq, isLoggedIn, current.verified) =>
          Ends(mainq', isLoggedIn, current.verified)
    BY <1>1, PostFields, EndsAppend
  <2>2. (\E i \in 1 .. Len(mainq) : Live(mainq, LiveModels, i)) =>
          \E i \in 1 .. Len(mainq') : Live(mainq', LiveModels, i)
    BY <1>1, PostFields, LiveAppend
  <2>3. QED
    BY <1>2, <2>1, <2>2 DEF Settling
<1>8. QED
  BY <1>2, <1>3, <1>5, <1>6, <1>7, SettlesFrame DEF IInv, Known

(* Where no completion finds its view model, none logs anybody in.         *)
LEMMA HonestNone ==
    ASSUME NEW q, NEW A, NEW u, NEW on,
           \A i \in 1 .. Len(q) : ~Live(q, A, i)
    PROVE  Honest(q, A, u, on)
BY DEF Honest

LEMMA NoSignInNoneLive ==
    ASSUME NEW q, NEW A, NoSignIn(q)
    PROVE  \A i \in 1 .. Len(q) : ~Live(q, A, i)
BY DEF NoSignIn, Live

(* No sign-in is on its way while the screen is not the login screen, or   *)
(* is about to go.                                                         *)
LEMMA NobodyAsks ==
    ASSUME InFlight, screen # "login" \/ screen # Wanted
    PROVE  SignIns = {}
BY DEF InFlight, Waiting, Wanted

LEMMA RenderStep ==
    ASSUME IInv, TypeOK', Render
    PROVE  IInv'
<1> USE DEF Render, serverVars, authVars, pastVars
<1>1. /\ mainq \in Seq(Block) /\ model \in Nat /\ Len(mainq) \in Nat
      /\ current \in Person
  BY LenProperties DEF IInv, TypeOK, Person
<1>2. Shut'
  BY DEF IInv, Shut
<1>3. InFlight'
  <2>1. SignIns = {} /\ SignIns' = SignIns
    BY NobodyAsks DEF IInv, SignIns
  <2>2. QED
    BY <2>1, InFlightFrame DEF IInv
<1>4. \A i \in 1 .. Len(mainq) : mainq[i].kind = "signIn" => mainq[i].model \in Nat
  BY <1>1, ElementOfSeq, BlockFields
<1>5. model' \in Nat /\ model' >= model /\ Old(mainq', model')
  <2>1. model' = model + 1 \/ model' = model
    BY DEF loginVars
  <2>2. model' \in Nat /\ model' >= model
    BY <1>1, <2>1
  <2>3. QED
    BY <1>1, <1>4, <2>2 DEF IInv, Old
<1>6. \A i \in 1 .. Len(mainq) : ~Live(mainq, LiveModels', i)
  <2>1. CASE screen' = "login"
    <3>1. LiveModels' = {model + 1}
      BY <2>1 DEF LiveModels
    <3>2. \A i \in 1 .. Len(mainq) : mainq[i].kind = "signIn" => mainq[i].model # model + 1
      BY <1>1, <1>4 DEF IInv, Old
    <3>3. QED
      BY <3>1, <3>2 DEF Live
  <2>2. CASE screen' # "login"
    BY <2>2 DEF LiveModels, Live
  <2>3. QED
    BY <2>1, <2>2
<1>7. Honest(mainq', LiveModels', current', isLoggedIn')
  BY <1>6, HonestNone
<1>8. Honest(mainq, LiveModels, current, isLoggedIn) /\ Settling => Settling'
  <2>1. ASSUME Honest(mainq, LiveModels, current, isLoggedIn),
                NEW i \in 1 .. Len(mainq), Live(mainq, LiveModels, i), current.verified
        PROVE  Ends(mainq, isLoggedIn, current.verified)
    <3>1. screen = "login"
      BY <2>1 DEF Live, LiveModels
    <3>2. ~splash /\ isLoggedIn
      BY <3>1 DEF IInv, Wanted
    <3>3. \A j \in 1 .. Len(mainq) : mainq[j].kind = "state" => mainq[j].user.verified
      BY <2>1, <3>2 DEF Honest, Before
    <3>4. Ends(mainq, TRUE, TRUE)
      BY <1>1, <3>3, EndsLoggedIn
    <3>5. isLoggedIn = TRUE /\ current.verified = TRUE
      BY <1>1, <2>1, <3>2, People DEF IInv, TypeOK
    <3>6. QED
      BY <3>4, <3>5
  <2>2. QED
    BY <2>1 DEF Settling
<1>9. splash' => screen' = "splash"
  BY DEF Wanted
<1>10. QED
  BY <1>2, <1>3, <1>5, <1>7, <1>8, <1>9, SettlesFrame DEF IInv, Known

(* A user who was saved is read: nobody has heard of him. *)
LEMMA UnlockStep ==
    ASSUME ConstantsAssumption, IInv, TypeOK', Unlock
    PROVE  IInv'
<1> USE DEF Unlock, serverVars, rootVars, loginVars, pastVars
<1>1. mainq \in Seq(Block) /\ model \in Nat /\ keychain \in Person
  BY DEF IInv, TypeOK, Person
<1>2. /\ current = NoUser /\ requests = {} /\ NoSignIn(mainq)
      /\ \A n \in Listeners : heard[n].uid = "nil"
  BY DEF IInv, Shut
<1>3. ~crossed' /\ Settling
  BY DEF IInv, Shut, Settles
<1>4. LiveModels' = LiveModels
  BY DEF LiveModels
<1>5. Shut'
  BY DEF Shut
<1>6. InFlight' /\ Known'
  BY <1>2 DEF IInv, InFlight, SignIns, Known
<1>7. CASE keychain = NoUser
  <2>1. Settling' /\ Honest(mainq', LiveModels', current', isLoggedIn')
    BY <1>2, <1>3, <1>4, <1>7, NoSignInNoneLive, HonestNone DEF Settling
  <2>2. QED
    BY <1>2, <1>3, <1>4, <1>5, <1>6, <1>7, <2>1 DEF IInv, Settles
<1>8. CASE keychain # NoUser
  <2>1. mainq' = Append(mainq, Post)
    BY <1>8
  <2>2. /\ Called(mainq', heard, current') /\ Followed(mainq', heard)
        /\ Old(mainq', model) /\ NoSignIn(mainq')
    BY <1>1, <1>2, <2>1, PostFields, CalledAppend, FollowedAppend, OldAppend, NoSignInAppend
       DEF IInv
  <2>3. Honest(mainq', LiveModels, current', isLoggedIn)
    BY <2>2, NoSignInNoneLive, HonestNone
  <2>4. keychain.uid # "nil"
    BY <1>1, <1>8 DEF Person, User, ConstantsAssumption
  <2>5. Settling'
    <3>1. "AppState" \in Listeners
      BY DEF Listeners
    <3>2. Tell(heard', "AppState", current')
      BY <1>2, <2>4, <3>1 DEF Tell
    <3>3. QED
      BY <3>1, <3>2 DEF Settling
  <2>6. QED
    BY <1>3, <1>4, <1>5, <1>6, <2>2, <2>3, <2>5 DEF IInv, Settles
<1>9. QED
  BY <1>7, <1>8

(* A request is sent: the queue is empty, so nothing is left to be told.   *)
LEMMA SendStep ==
    ASSUME IInv, TypeOK', NEW r, Send(r), InFlight',
           UNCHANGED <<serverVars, authVars, mainq, heard, rootVars, model, pastVars>>
    PROVE  IInv'
<1> USE DEF serverVars, authVars, rootVars, pastVars
<1>1. LiveModels' = LiveModels
  BY DEF LiveModels
<1>2. Shut' /\ Known'
  BY DEF Shut, Send, IInv, Known
<1>3. Settles'
  BY <1>1 DEF IInv, Settles, Settling
<1>4. QED
  BY <1>1, <1>2, <1>3 DEF IInv

(* The button is disabled while a sign-in is on its way: there is one.     *)
LEMMA SignInUserStep ==
    ASSUME IInv, TypeOK', NEW a \in Accounts, SignInUser(a)
    PROVE  IInv'
<1> USE DEF SignInUser, authVars, rootVars
<1>0. PICK r : r = [kind |-> "signIn", uid |-> a, model |-> model, n |-> used["request"]]
  OBVIOUS
<1>1. /\ screen = "login" /\ mainq = <<>> /\ ~isLoggedIn /\ ~splash
      /\ requests' = requests \cup {r} /\ r.model = model
  BY <1>0 DEF Send, Idle, Wanted
<1>2. SignIns' = {r}
  BY <1>0, <1>1 DEF IInv, InFlight, Waiting, SignIns
<1>3. \A n \in Listeners : ~Tell(heard, n, current)
  BY <1>1, EmptyIsQuiet DEF IInv, Called
<1>4. Waiting(r)'
  BY <1>1, <1>3, EmptyIsQuiet DEF Waiting
<1>5. InFlight'
  BY <1>2, <1>4 DEF InFlight
<1>6. QED
  BY <1>0, <1>5, SendStep

(* Requests that are no sign-in. *)
LEMMA OtherSendStep ==
    ASSUME IInv, TypeOK', NEW r, r.kind # "signIn", Send(r),
           UNCHANGED <<serverVars, authVars, mainq, heard, rootVars, loginVars, pastVars>>
    PROVE  IInv'
<1>1. SignIns' = SignIns
  BY DEF Send, SignIns
<1>2. InFlight'
  BY <1>1, InFlightFrame DEF IInv, Waiting, authVars, rootVars, loginVars
<1>3. QED
  BY <1>2, SendStep DEF loginVars

LEMMA CreateUserStep ==
    ASSUME IInv, TypeOK', NEW a \in Accounts, CreateUser(a)
    PROVE  IInv'
BY OtherSendStep DEF CreateUser

LEMMA ResetPasswordStep ==
    ASSUME IInv, TypeOK', ResetPassword
    PROVE  IInv'
BY OtherSendStep DEF ResetPassword

LEMMA ConfirmStep ==
    ASSUME IInv, TypeOK', NEW a \in Accounts, Confirm(a)
    PROVE  IInv'
<1> USE DEF Confirm, authVars, rootVars, loginVars, pastVars
<1>1. LiveModels' = LiveModels
  BY DEF LiveModels
<1>2. InFlight'
  BY InFlightFrame DEF IInv, Waiting, SignIns
<1>3. QED
  BY <1>1, <1>2 DEF IInv, Settles, Settling, Shut, Known

(* Once the only sign-in is answered none is on its way. *)
LEMMA AnsweredFree ==
    ASSUME InFlight, NEW r \in requests, r.kind = "signIn", requests' = requests \ {r}
    PROVE  InFlight'
BY DEF InFlight, SignIns

(* A new account is current: it is not verified, and nobody has heard of   *)
(* it.  A completion that would let somebody else in is overtaken.         *)
LEMMA CreatedStep ==
    ASSUME ConstantsAssumption, IInv, TypeOK', NEW r \in requests, SignedIn(r),
           r.kind = "create"
    PROVE  IInv'
<1> USE DEF SignedIn, rootVars, loginVars
<1>1. /\ mainq \in Seq(Block) /\ model \in Nat /\ r \in Request
      /\ confirmed \subseteq exists /\ DOMAIN mainq = 1 .. Len(mainq)
  BY LenProperties DEF IInv, TypeOK
<1>2. r.uid \in Accounts /\ r.uid # "nil" /\ r.uid \notin exists
      /\ exists' = exists \cup {r.uid} /\ mainq' = mainq \o <<Post>>
  BY <1>1 DEF Request, ConstantsAssumption
<1>3. current' = Fetched(r.uid) /\ keychain' = Fetched(r.uid) /\ current'.uid = r.uid
      /\ ~current'.verified
  BY <1>1, <1>2, FetchedPerson
<1>4. mainq' = Append(mainq, Post)
  BY <1>1, <1>2, PostFields, Joins
<1>5. /\ Called(mainq', heard, current') /\ Followed(mainq', heard) /\ Old(mainq', model)
      /\ NoSignIn(mainq) => NoSignIn(mainq')
      /\ LogsNobodyIn(mainq) => LogsNobodyIn(mainq')
  BY <1>1, <1>4, PostFields, CalledAppend, FollowedAppend, NoSignInAppend,
     LogsNobodyInAppend, OldAppend DEF IInv
<1>6. InFlight'
  <2>1. \A k \in SignIns : Waiting(k) => Waiting(k)'
    BY <1>3, <1>5 DEF Waiting
  <2>2. SignIns' \subseteq SignIns
    BY DEF SignIns
  <2>3. QED
    BY <2>1, <2>2, InFlightFrame DEF IInv
<1>7. Known' /\ Shut'
  BY <1>2, <1>3 DEF IInv, Known, Shut
<1>8. ASSUME ~crossed' PROVE Honest(mainq', LiveModels', current', isLoggedIn')
  <2>1. \A i \in 1 .. Len(mainq) : ~(mainq[i].kind = "signIn" /\ mainq[i].user.verified)
    BY <1>1, <1>8
  <2>2. \A i \in 1 .. Len(mainq) : ~Live(mainq, LiveModels', i)
    BY <2>1 DEF Live
  <2>3. Honest(mainq, LiveModels', current', isLoggedIn)
    BY <2>2, HonestNone
  <2>4. QED
    BY <1>1, <1>4, <2>3, PostFields, HonestAppend
<1>9. Settling'
  <2>1. "AppState" \in Listeners
    BY DEF Listeners
  <2>2. Tell(heard', "AppState", current')
    BY <1>2, <1>3, <2>1 DEF Tell, IInv, Known
  <2>3. QED
    BY <2>1, <2>2 DEF Settling
<1>10. Settles'
  BY <1>3, <1>8, <1>9 DEF Settles
<1>11. QED
  BY <1>5, <1>6, <1>7, <1>10 DEF IInv

(* The only sign-in is answered: nothing that is queued logs anybody in,   *)
(* and its completion is about the current user.                           *)
LEMMA SignedInStep ==
    ASSUME IInv, TypeOK', NEW r \in requests, SignedIn(r), r.kind = "signIn"
    PROVE  IInv'
<1> USE DEF SignedIn, rootVars, loginVars
<1>1. /\ mainq \in Seq(Block) /\ model \in Nat /\ r \in Request
      /\ DOMAIN mainq = 1 .. Len(mainq)
  BY LenProperties DEF IInv, TypeOK
<1>2. r \in SignIns /\ r.uid \in Accounts /\ r.uid \in exists /\ exists' = exists
  BY <1>1 DEF SignIns, Request
<1>3. /\ screen = "login" /\ ~isLoggedIn /\ NoSignIn(mainq) /\ LogsNobodyIn(mainq)
      /\ r.model = model
  BY <1>2 DEF IInv, InFlight, Waiting
<1>4. PICK u \in Person : /\ u = Fetched(r.uid) /\ current' = u /\ keychain' = u
                          /\ u.uid = r.uid /\ u.verified = (r.uid \in confirmed)
  BY <1>2, FetchedPerson
<1>5. LiveModels' = {model} /\ model' = model
  BY <1>3 DEF LiveModels
<1>6. InFlight'
  BY AnsweredFree DEF IInv
<1>7. Shut' /\ Known'
  BY <1>2, <1>4 DEF IInv, Shut, Known
<1>8. ~crossed'
  BY <1>1, <1>3 DEF NoSignIn
<1> DEFINE q == Append(mainq, Post)
<1>9. /\ q \in Seq(Block) /\ Called(q, heard, u) /\ Followed(q, heard)
      /\ NoSignIn(q) /\ LogsNobodyIn(q) /\ Old(q, model)
  BY <1>1, <1>3, PostFields, OneMore, CalledAppend, FollowedAppend, NoSignInAppend,
     LogsNobodyInAppend, OldAppend DEF IInv
<1>10. Honest(q, {model}, u, isLoggedIn)
  BY <1>9, NoSignInNoneLive, HonestNone
<1>11. isLoggedIn = FALSE
  BY <1>3 DEF IInv, TypeOK
<1>12. Ends(q, isLoggedIn, FALSE)
  BY <1>9, <1>11, EndsLoggedOut
<1> DEFINE c == Completion(r, u, 1)
<1>13. /\ c \in Block /\ c.kind = "signIn" /\ c.model = model /\ c.user = u
  <2>1. c \in Block
    BY <1>1, Blocks
  <2>2. QED
    BY <1>3, <2>1 DEF Completion
<1>14. mainq' = Append(q, c)
  <2>1. mainq' = mainq \o <<Post, c>>
    BY <1>4
  <2>2. QED
    BY <1>1, <1>13, <2>1, PostFields, Joins
<1> HIDE DEF q, c
<1>15. /\ Called(mainq', heard, u) /\ Followed(mainq', heard) /\ Old(mainq', model)
  <2>1. c.kind # "state" /\ c.model <= model
    BY <1>1, <1>13
  <2>2. Called(Append(q, c), heard, u) /\ Followed(Append(q, c), heard)
    BY <1>9, <1>13, <2>1, CalledAppend, FollowedAppend
  <2>3. Old(Append(q, c), model)
    BY <1>1, <1>9, <1>13, <2>1, OldAppend
  <2>4. QED
    BY <1>14, <2>2, <2>3
<1>16. Honest(mainq', {model}, u, isLoggedIn)
  BY <1>3, <1>9, <1>10, <1>13, <1>14, HonestAppend
<1>17. Settling'
  <2>1. CASE u.verified
    <3>1. Len(q) + 1 \in 1 .. Len(mainq') /\ mainq'[Len(q) + 1] = c
      BY <1>9, <1>13, <1>14, OneMore
    <3>2. Live(mainq', LiveModels', Len(q) + 1)
      BY <1>5, <1>13, <2>1, <3>1 DEF Live
    <3>3. QED
      BY <1>4, <2>1, <3>1, <3>2 DEF Settling
  <2>2. CASE ~u.verified
    <3>1. u.verified = FALSE
      BY <1>4, <2>2
    <3>2. Ends(mainq', isLoggedIn, FALSE)
      BY <1>9, <1>12, <1>13, <1>14, EndsAppend
    <3>3. QED
      BY <1>4, <3>1, <3>2 DEF Settling
  <2>3. QED
    BY <2>1, <2>2
<1>18. QED
  BY <1>4, <1>5, <1>6, <1>7, <1>8, <1>15, <1>16, <1>17 DEF IInv, Settles

LEMMA AnsweredStep ==
    ASSUME IInv, TypeOK', NEW r \in requests, Answered(r)
    PROVE  IInv'
<1> USE DEF Answered, serverVars, authVars, rootVars, loginVars, pastVars
<1>1. /\ mainq \in Seq(Block) /\ model \in Nat /\ r \in Request
  BY DEF IInv, TypeOK
<1>2. LiveModels' = LiveModels
  BY DEF LiveModels
<1>3. CASE r.kind = "create"
  <2>1. InFlight'
    BY <1>3, InFlightFrame DEF IInv, Waiting, SignIns
  <2>2. Shut' /\ Known'
    BY <1>3 DEF IInv, Shut, Known
  <2>3. QED
    BY <1>2, <1>3, <2>1, <2>2 DEF IInv, Settles, Settling
<1>4. CASE r.kind # "create"
  <2> DEFINE c == Completion(r, NoUser, 1)
  <2>1. /\ c \in Block /\ c.kind = r.kind /\ c.kind \in {"signIn", "reset"}
        /\ c.model = r.model /\ ~c.user.verified
    <3>1. c \in Block
      BY <1>1, <1>4, Blocks, People
    <3>2. r.kind \in {"signIn", "reset"}
      BY <1>1, <1>4 DEF Request
    <3>3. c.kind = r.kind /\ c.model = r.model /\ c.user = NoUser
      BY DEF Completion
    <3>4. ~NoUser.verified
      BY DEF NoUser
    <3>5. QED
      BY <3>1, <3>2, <3>3, <3>4
  <2>2. mainq' = Append(mainq, c)
    BY <1>4
  <2> HIDE DEF c
  <2>3. /\ Called(mainq', heard, current) /\ Followed(mainq', heard)
        /\ Honest(mainq, LiveModels, current, isLoggedIn) =>
             Honest(mainq', LiveModels, current, isLoggedIn)
    BY <1>1, <2>1, <2>2, CalledAppend, FollowedAppend, HonestAppend DEF IInv
  <2>4. Old(mainq', model)
    <3>1. r.kind = "signIn" => r.model = model
      BY DEF IInv, InFlight, SignIns, Waiting
    <3>2. c.kind = "signIn" => c.model <= model
      BY <1>1, <2>1, <3>1
    <3>3. QED
      BY <1>1, <2>1, <2>2, <3>2, OldAppend DEF IInv
  <2>5. InFlight'
    <3>1. CASE r.kind = "signIn"
      BY <3>1, AnsweredFree DEF IInv
    <3>2. CASE r.kind # "signIn"
      <4>1. /\ NoSignIn(mainq) => NoSignIn(mainq')
            /\ LogsNobodyIn(mainq) => LogsNobodyIn(mainq')
        BY <1>1, <2>1, <2>2, <3>2, NoSignInAppend, LogsNobodyInAppend
      <4>2. QED
        BY <4>1, InFlightFrame DEF IInv, Waiting, SignIns
    <3>3. QED
      BY <3>1, <3>2
  <2>6. Shut' /\ Known'
    BY DEF IInv, Shut, Known
  <2>7. Settling => Settling'
    <3>1. Ends(mainq, isLoggedIn, current.verified) =>
            Ends(mainq', isLoggedIn, current.verified)
      BY <1>1, <2>1, <2>2, EndsAppend
    <3>2. (\E i \in 1 .. Len(mainq) : Live(mainq, LiveModels, i)) =>
            \E i \in 1 .. Len(mainq') : Live(mainq', LiveModels, i)
      BY <1>1, <2>1, <2>2, LiveAppend
    <3>3. QED
      BY <1>2, <3>1, <3>2 DEF Settling
  <2>8. QED
    BY <1>2, <2>3, <2>4, <2>5, <2>6, <2>7, SettlesFrame DEF IInv
<1>5. QED
  BY <1>3, <1>4

(* The listeners have heard of the user Auth drops: they will tell. *)
LEMMA ForcedSignOutStep ==
    ASSUME ConstantsAssumption, IInv, TypeOK', ForcedSignOut
    PROVE  IInv'
<1> USE DEF ForcedSignOut, serverVars, rootVars, loginVars
<1>1. /\ mainq = <<>> /\ mainq' = <<Post>> /\ current' = NoUser
      /\ current \in User /\ LiveModels' = LiveModels
  BY DEF Idle, IInv, TypeOK, LiveModels
<1>2. mainq \in Seq(Block) /\ mainq' = Append(mainq, Post)
  BY <1>1, EmptyQueue
<1>3. /\ Called(mainq', heard, current') /\ Followed(mainq', heard)
      /\ NoSignIn(mainq') /\ LogsNobodyIn(mainq')
  BY <1>1, <1>2, EmptyIsQuiet, PostFields, CalledAppend, FollowedAppend, NoSignInAppend,
     LogsNobodyInAppend DEF IInv
<1>4. /\ Honest(mainq', LiveModels', current', isLoggedIn) /\ Old(mainq', model)
  BY <1>3, NoSignInNoneLive, HonestNone DEF NoSignIn, Old
<1>5. "AppState" \in Listeners
  BY DEF Listeners
<1>6. heard["AppState"].uid = current.uid /\ current.uid # "nil" /\ NoUser.uid = "nil"
  <2>1. ~Tell(heard, "AppState", current)
    BY <1>1, <1>5, EmptyIsQuiet DEF IInv, Called
  <2>2. QED
    BY <1>1, <2>1 DEF Tell, User, NoUser, ConstantsAssumption
<1>7. Settling'
  <2>1. Tell(heard', "AppState", current')
    BY <1>1, <1>6 DEF Tell
  <2>2. QED
    BY <1>5, <2>1 DEF Settling
<1>8. InFlight'
  <2>1. ~current'.verified
    BY <1>1 DEF NoUser
  <2>2. QED
    BY <1>3, <2>1, InFlightFrame DEF IInv, Waiting, SignIns
<1>9. Shut' /\ Known'
  BY <1>6 DEF IInv, Shut, Known
<1>10. QED
  BY <1>1, <1>3, <1>4, <1>7, <1>8, <1>9 DEF IInv, Settles

(* The last body that is queued is about nobody, or about a user whom its  *)
(* listener has heard of and will tell has gone.                           *)
LEMMA GoneSettles ==
    ASSUME ConstantsAssumption, NEW q \in Seq(Block), NEW h, Followed(q, h)
    PROVE  \/ \E n \in Listeners : Tell(h, n, NoUser)
           \/ Ends(q, FALSE, FALSE)
<1>1. CASE \A i \in 1 .. Len(q) : q[i].kind # "state"
  BY <1>1 DEF Ends
<1>2. ASSUME NEW i \in 1 .. Len(q), q[i].kind = "state",
             \A j \in 1 .. Len(q) : j > i => q[j].kind # "state"
      PROVE  \/ \E n \in Listeners : Tell(h, n, NoUser)
             \/ Ends(q, FALSE, FALSE)
  <2>1. q[i].user \in Person /\ q[i].listener \in Listeners
    BY <1>2, ElementOfSeq, BlockFields
  <2>2. CASE q[i].user.verified
    <3>1. q[i].user.uid # "nil" /\ NoUser.uid = "nil"
      BY <2>1, <2>2 DEF Person, User, NoUser, ConstantsAssumption
    <3>2. IsLast(q, q[i].listener, i)
      BY <1>2 DEF IsLast
    <3>3. h[q[i].listener].uid = q[i].user.uid
      BY <2>1, <3>2 DEF Followed
    <3>4. Tell(h, q[i].listener, NoUser)
      BY <3>1, <3>3 DEF Tell
    <3>5. QED
      BY <2>1, <3>4
  <2>3. CASE ~q[i].user.verified
    <3>1. q[i].user.verified = FALSE
      BY <2>1, <2>3, People
    <3>2. QED
      BY <1>2, <3>1 DEF Ends
  <2>4. QED
    BY <2>2, <2>3
<1>3. QED
  BY <1>1, <1>2, LastBody

LEMMA LogOutStep ==
    ASSUME ConstantsAssumption, IInv, TypeOK', LogOut
    PROVE  IInv'
<1> USE DEF LogOut, serverVars, loginVars, pastVars
<1>1. /\ mainq \in Seq(Block) /\ model \in Nat /\ current \in Person
      /\ screen = "landing" /\ LiveModels = {} /\ LiveModels' = {} /\ isLoggedIn' = FALSE
  BY DEF IInv, TypeOK, Person, LiveModels
<1>2. \A s \in {mainq, mainq'} : \A i \in 1 .. Len(s) : ~Live(s, {}, i)
  BY DEF Live
<1>3. Honest(mainq', LiveModels', current', isLoggedIn')
  BY <1>1, <1>2, HonestNone
<1>4. InFlight'
  <2>1. SignIns = {} /\ SignIns' = SignIns
    BY <1>1, NobodyAsks DEF IInv, SignIns
  <2>2. QED
    BY <2>1, InFlightFrame DEF IInv
<1>5. CASE UNCHANGED <<authVars, mainq, crossed>> /\ ((current = NoUser /\ UNCHANGED kept) \/ kept')
  <2> USE <1>5 DEF authVars
  <2>1. Shut' /\ Known'
    BY DEF IInv, Shut, Known
  <2>2. Settling => Settling'
    <3>1. CASE \E n \in Listeners : Tell(heard, n, current)
      BY <3>1 DEF Settling
    <3>2. CASE current.verified
      <4>1. kept'
        BY <3>2 DEF NoUser
      <4>2. QED
        BY <3>2, <4>1 DEF Settling
    <3>3. CASE Ends(mainq, isLoggedIn, current.verified) /\ ~current.verified
      <4>1. current.verified = FALSE
        BY <1>1, <3>3, People
      <4>2. Ends(mainq, FALSE, FALSE)
        BY <1>1, <3>3, <4>1, EndsOff
      <4>3. Ends(mainq', isLoggedIn', current'.verified)
        BY <1>1, <4>1, <4>2
      <4>4. QED
        BY <4>3 DEF Settling
    <3>4. QED
      BY <3>1, <3>2, <3>3 DEF Settling
  <2>3. QED
    BY <1>3, <1>4, <2>1, <2>2, SettlesFrame DEF IInv
<1>6. CASE /\ current' = NoUser /\ keychain' = NoUser /\ mainq' = Append(mainq, Post)
           /\ ~crossed' /\ UNCHANGED <<locked, kept>>
  <2>1. /\ Called(mainq', heard, current') /\ Followed(mainq', heard) /\ Old(mainq', model)
        /\ NoSignIn(mainq) => NoSignIn(mainq')
    BY <1>1, <1>6, PostFields, CalledAppend, FollowedAppend, OldAppend, NoSignInAppend
       DEF IInv
  <2>2. Shut' /\ Known'
    BY <1>6, <2>1 DEF IInv, Shut, Known, NoUser
  <2>3. Settling'
    <3>1. \/ \E n \in Listeners : Tell(heard, n, NoUser)
          \/ Ends(mainq, FALSE, FALSE)
      BY <1>1, GoneSettles DEF IInv
    <3>2. Ends(mainq, FALSE, FALSE) => Ends(mainq', FALSE, FALSE)
      BY <1>1, <1>6, PostFields, EndsAppend
    <3>3. current'.verified = FALSE /\ heard' = heard
      BY <1>6 DEF NoUser
    <3>4. QED
      BY <1>1, <1>6, <3>1, <3>2, <3>3 DEF Settling
  <2>4. QED
    BY <1>3, <1>4, <1>6, <2>1, <2>2, <2>3 DEF IInv, Settles
<1>7. QED
  BY <1>5, <1>6

-----------------------------------------------------------------------------
(* The main queue.                                                         *)

(* A block that is no listener's call, no listener's body and no           *)
(* completion that logs in has run, whatever else it did.                  *)
LEMMA QuietTail ==
    ASSUME IInv, TypeOK', mainq # <<>>,
           mainq[1].kind \notin {"first", "post", "state"},
           ~Live(mainq, LiveModels, 1), mainq' = Tail(mainq),
           splash' => splash,
           isLoading' = isLoading \/ mainq[1].kind = "signIn",
           UNCHANGED <<serverVars, authVars, requests, heard, isLoggedIn, screen,
                       model, pastVars>>
    PROVE  IInv'
<1> USE DEF serverVars, authVars, pastVars
<1>1. /\ mainq \in Seq(Block) /\ isLoggedIn \in BOOLEAN /\ current \in Person
  BY DEF IInv, TypeOK, Person
<1>2. LiveModels' = LiveModels /\ current.verified \in BOOLEAN
  BY <1>1, People DEF LiveModels
<1>3. /\ Called(mainq', heard, current) /\ Followed(mainq', heard)
      /\ Honest(mainq, LiveModels, current, isLoggedIn) =>
           Honest(mainq', LiveModels, current, isLoggedIn)
      /\ Old(mainq', model)
  BY <1>1, CalledTail, FollowedTail, HonestTail, OldTail DEF IInv
<1>4. /\ NoSignIn(mainq) => NoSignIn(mainq')
      /\ LogsNobodyIn(mainq) => LogsNobodyIn(mainq')
  BY <1>1, NoSignInTail, LogsNobodyInTail
<1>5. Shut' /\ Known'
  BY <1>4 DEF IInv, Shut, Known
<1>6. InFlight'
  <2>1. 1 \in 1 .. Len(mainq)
    BY <1>1, Rest
  <2>2. mainq[1].kind = "signIn" => ~NoSignIn(mainq)
    BY <2>1 DEF NoSignIn
  <2>3. QED
    BY <1>4, <2>2, InFlightFrame DEF IInv, Waiting, SignIns
<1>7. Settling => Settling'
  <2>1. Ends(mainq, isLoggedIn, current.verified) =>
          Ends(mainq', isLoggedIn, current.verified)
    BY <1>1, <1>2, EndsTail
  <2>2. (\E i \in 1 .. Len(mainq) : Live(mainq, LiveModels, i)) =>
          \E i \in 1 .. Len(mainq') : Live(mainq', LiveModels, i)
    BY <1>1, LiveTail
  <2>3. QED
    BY <1>2, <2>1, <2>2 DEF Settling
<1>8. QED
  BY <1>2, <1>3, <1>5, <1>6, <1>7, SettlesFrame DEF IInv

LEMMA RunTimerStep ==
    ASSUME IInv, TypeOK', RunTimer
    PROVE  IInv'
<1>1. mainq[1].kind = "timer"
  BY Rest, PostFields DEF IInv, TypeOK, RunTimer
<1>2. ~Live(mainq, LiveModels, 1)
  BY <1>1 DEF Live
<1>3. QED
  BY <1>1, <1>2, QuietTail DEF RunTimer, loginVars

LEMMA RunResetStep ==
    ASSUME IInv, TypeOK', RunReset
    PROVE  IInv'
<1>1. mainq[1].kind = "reset"
  BY Rest DEF IInv, TypeOK, RunReset
<1>2. ~Live(mainq, LiveModels, 1)
  BY <1>1 DEF Live
<1>3. QED
  BY <1>1, <1>2, QuietTail DEF RunReset, rootVars

LEMMA RunStateStep ==
    ASSUME IInv, TypeOK', RunState
    PROVE  IInv'
<1> USE DEF RunState, serverVars, authVars, loginVars, pastVars
<1>1. /\ mainq \in Seq(Block) /\ isLoggedIn \in BOOLEAN /\ current \in Person
      /\ mainq # <<>> /\ mainq[1].kind = "state" /\ mainq[1] = Head(mainq)
      /\ mainq[1] \in Block
  BY Rest DEF IInv, TypeOK, Person
<1>2. isLoggedIn' = mainq[1].user.verified /\ isLoggedIn' \in BOOLEAN
  BY <1>1, BlockFields, People
<1>3. LiveModels' = LiveModels /\ current.verified \in BOOLEAN
  BY <1>1, People DEF LiveModels
<1>4. /\ Called(mainq', heard, current) /\ Followed(mainq', heard)
      /\ Honest(mainq, LiveModels, current, isLoggedIn) =>
           Honest(mainq', LiveModels, current, isLoggedIn')
      /\ Old(mainq', model)
  BY <1>1, <1>2, CalledTail, FollowedTail, HonestTail, OldTail DEF IInv
<1>5. /\ NoSignIn(mainq) => NoSignIn(mainq')
      /\ LogsNobodyIn(mainq) => LogsNobodyIn(mainq')
  BY <1>1, NoSignInTail, LogsNobodyInTail
<1>6. Shut' /\ Known'
  BY <1>5 DEF IInv, Shut, Known
<1>7. InFlight'
  <2>1. LogsNobodyIn(mainq) => ~isLoggedIn'
    <3>1. 1 \in 1 .. Len(mainq)
      BY <1>1, Rest
    <3>2. QED
      BY <1>1, <1>2, <3>1 DEF LogsNobodyIn
  <2>2. QED
    BY <1>5, <2>1, InFlightFrame DEF IInv, Waiting, SignIns
<1>8. Settling => Settling'
  <2>1. Ends(mainq, isLoggedIn, current.verified) =>
          Ends(mainq', isLoggedIn', current.verified)
    BY <1>1, <1>2, <1>3, EndsTail
  <2>2. (\E i \in 1 .. Len(mainq) : Live(mainq, LiveModels, i)) =>
          \E i \in 1 .. Len(mainq') : Live(mainq', LiveModels, i)
    <3>1. ~Live(mainq, LiveModels, 1)
      BY <1>1 DEF Live
    <3>2. QED
      BY <1>1, <3>1, LiveTail
  <2>3. QED
    BY <1>3, <2>1, <2>2 DEF Settling
<1>9. QED
  BY <1>3, <1>4, <1>6, <1>7, <1>8, SettlesFrame DEF IInv

(* When a completion that logs in runs, no body that is queued logs out.   *)
LEMMA LiveFirst ==
    ASSUME NEW q \in Seq(Block), q # <<>>, NEW A, NEW u, NEW on,
           Honest(q, A, u, on), Live(q, A, 1)
    PROVE  /\ u.verified /\ q[1].user = u
           /\ \A i \in 1 .. Len(q) : q[i].kind = "state" => q[i].user.verified
           /\ \A i \in 1 .. Len(Tail(q)) :
                Tail(q)[i].kind = "state" => Tail(q)[i].user.verified
<1>1. /\ 1 \in 1 .. Len(q) /\ Len(Tail(q)) = Len(q) - 1 /\ Len(q) \in Nat
      /\ \A i \in 1 .. Len(q) - 1 : Tail(q)[i] = q[i + 1]
  BY Rest
<1>2. q[1].user = u /\ Before(q, on, 1) /\ u.verified
  BY <1>1 DEF Honest, Live
<1>3. \A i \in 1 .. Len(q) : ~(i < 1)
  BY <1>1
<1>4. \A i \in 1 .. Len(q) : q[i].kind = "state" => q[i].user.verified
  BY <1>2, <1>3 DEF Before
<1>5. \A i \in 1 .. Len(q) - 1 : i + 1 \in 1 .. Len(q)
  BY <1>1
<1>6. QED
  BY <1>1, <1>2, <1>4, <1>5

LEMMA RunSignInStep ==
    ASSUME IInv, TypeOK', RunSignIn
    PROVE  IInv'
<1> USE DEF RunSignIn, serverVars, authVars, pastVars
<1>1. /\ mainq \in Seq(Block) /\ isLoggedIn \in BOOLEAN /\ isLoggedIn' \in BOOLEAN
      /\ current \in Person /\ mainq # <<>> /\ mainq[1].kind = "signIn"
      /\ mainq[1] = Head(mainq) /\ mainq[1] \in Block /\ 1 \in 1 .. Len(mainq)
  BY Rest DEF IInv, TypeOK, Person
<1>2. mainq[1].user \in Person
  BY <1>1, BlockFields
<1>3. LiveModels' = LiveModels /\ current.verified \in BOOLEAN
  BY <1>1, People DEF LiveModels
<1>4. CASE ~Live(mainq, LiveModels, 1)
  <2>1. isLoggedIn' = isLoggedIn
    <3>1. CASE Alive(mainq[1].model)
      <4>1. ~mainq[1].user.verified
        BY <1>1, <1>4, <3>1 DEF Live, Alive, LiveModels
      <4>2. isLoggedIn' = (isLoggedIn \/ LoginCheck(mainq[1].user))
        BY <1>1, <3>1 DEF Verdict
      <4>3. LoginCheck(mainq[1].user) = FALSE
        BY <1>2, <4>1, People
      <4>4. QED
        BY <1>1, <4>2, <4>3
    <3>2. CASE ~Alive(mainq[1].model)
      BY <1>1, <3>2
    <3>3. QED
      BY <3>1, <3>2
  <2>2. QED
    BY <1>1, <1>4, <2>1, QuietTail
<1>5. CASE Live(mainq, LiveModels, 1)
  <2>1. mainq' = Tail(mainq) /\ mainq' \in Seq(Block)
    BY <1>1, Rest
  <2>2. isLoggedIn' = TRUE
    <3>1. Alive(mainq[1].model) /\ mainq[1].user.verified
      BY <1>5 DEF Live, LiveModels, Alive
    <3>2. isLoggedIn' = (isLoggedIn \/ LoginCheck(mainq[1].user))
      BY <1>1, <3>1 DEF Verdict
    <3>3. LoginCheck(mainq[1].user) = TRUE
      BY <1>2, <3>1, People
    <3>4. QED
      BY <3>2, <3>3
  <2>3. /\ Called(mainq', heard, current) /\ Followed(mainq', heard)
        /\ Honest(mainq, LiveModels, current, isLoggedIn) =>
             Honest(mainq', LiveModels, current, isLoggedIn')
        /\ Old(mainq', model)
    BY <1>1, <1>5, CalledTail, FollowedTail, HonestTail, OldTail DEF IInv
  <2>4. Shut' /\ Known'
    BY <1>1, <2>1, NoSignInTail DEF IInv, Shut, Known
  <2>5. InFlight'
    <3>1. ~NoSignIn(mainq)
      BY <1>1 DEF NoSignIn
    <3>2. QED
      BY <3>1, InFlightFrame DEF IInv, InFlight, Waiting, SignIns
  <2>6. Honest(mainq, LiveModels, current, isLoggedIn) => Settling'
    <3>1. ASSUME Honest(mainq, LiveModels, current, isLoggedIn)
          PROVE  /\ current.verified = TRUE
                 /\ \A i \in 1 .. Len(mainq') :
                      mainq'[i].kind = "state" => mainq'[i].user.verified
      BY <1>1, <1>3, <1>5, <3>1, LiveFirst
    <3>2. QED
      BY <2>1, <2>2, <3>1, EndsLoggedIn DEF Settling
  <2>7. QED
    BY <1>3, <2>3, <2>4, <2>5, <2>6, SettlesFrame DEF IInv
<1>6. QED
  BY <1>4, <1>5

(* The completion goes to the end of the queue; nothing there logs out.    *)
LEMMA RedispatchStep ==
    ASSUME IInv, TypeOK', Redispatch
    PROVE  IInv'
<1> USE DEF Redispatch, serverVars, authVars, rootVars, loginVars, pastVars
<1>1. /\ mainq \in Seq(Block) /\ isLoggedIn \in BOOLEAN /\ current \in Person
      /\ mainq # <<>> /\ mainq[1].kind \in {"signIn", "reset"}
      /\ mainq[1] = Head(mainq) /\ mainq[1] \in Block /\ model \in Nat
      /\ Tail(mainq) \in Seq(Block) /\ 1 \in 1 .. Len(mainq)
  BY Rest DEF IInv, TypeOK, Person
<1>2. LiveModels' = LiveModels /\ current.verified \in BOOLEAN
  BY <1>1, People DEF LiveModels
<1> DEFINE t == Tail(mainq)
           c == [mainq[1] EXCEPT !.hop = 2]
<1>3. /\ c \in Block /\ c.kind = mainq[1].kind /\ c.model = mainq[1].model
      /\ c.user = mainq[1].user
  BY <1>1, Redispatched
<1>4. t \in Seq(Block) /\ mainq' = Append(t, c)
  BY <1>1
<1>5. /\ Called(t, heard, current) /\ Followed(t, heard)
      /\ Honest(mainq, LiveModels, current, isLoggedIn) =>
           Honest(t, LiveModels, current, isLoggedIn)
      /\ Old(t, model)
  BY <1>1, CalledTail, FollowedTail, HonestTail, OldTail DEF IInv
<1>6. Honest(mainq, LiveModels, current, isLoggedIn) /\ Live(mainq, LiveModels, 1) =>
        /\ mainq[1].user = current
        /\ \A i \in 1 .. Len(t) : t[i].kind = "state" => t[i].user.verified
  BY <1>1, LiveFirst
<1>7. c.kind = "signIn" => c.model <= model
  BY <1>1, <1>3 DEF IInv, Old
<1>8. /\ NoSignIn(mainq) => NoSignIn(t)
      /\ LogsNobodyIn(mainq) => LogsNobodyIn(t)
      /\ Ends(mainq, isLoggedIn, current.verified) =>
           Ends(t, isLoggedIn, current.verified)
      /\ (\E i \in 1 .. Len(mainq) : Live(mainq, LiveModels, i)) /\ ~Live(mainq, LiveModels, 1)
           => \E i \in 1 .. Len(t) : Live(t, LiveModels, i)
  BY <1>1, <1>2, NoSignInTail, LogsNobodyInTail, EndsTail, LiveTail
<1> HIDE DEF t, c
<1>9. c.kind = "signIn" /\ c.user.verified /\ c.model \in LiveModels =>
        Live(mainq, LiveModels, 1)
  BY <1>3 DEF Live
<1>10. c.kind # "state"
  BY <1>1, <1>3
<1>11. /\ Called(mainq', heard, current) /\ Followed(mainq', heard) /\ Old(mainq', model)
  BY <1>1, <1>3, <1>4, <1>5, <1>7, <1>10, CalledAppend, FollowedAppend, OldAppend
<1>12. Honest(mainq, LiveModels, current, isLoggedIn) =>
         Honest(mainq', LiveModels, current, isLoggedIn)
  BY <1>3, <1>4, <1>5, <1>6, <1>9, <1>10, HonestAppend
<1>13. /\ NoSignIn(mainq) => NoSignIn(mainq')
       /\ LogsNobodyIn(mainq) => LogsNobodyIn(mainq')
  <2>1. NoSignIn(mainq) => c.kind # "signIn"
    BY <1>1, <1>3 DEF NoSignIn
  <2>2. QED
    BY <1>3, <1>4, <1>8, <1>10, <2>1, NoSignInAppend, LogsNobodyInAppend
<1>14. Shut' /\ Known'
  BY <1>13 DEF IInv, Shut, Known
<1>15. InFlight'
  BY <1>13, InFlightFrame DEF IInv, Waiting, SignIns
<1>16. Settling => Settling'
  <2>1. Ends(mainq, isLoggedIn, current.verified) =>
          Ends(mainq', isLoggedIn, current.verified)
    BY <1>3, <1>4, <1>8, <1>10, EndsAppend
  <2>2. ASSUME \E i \in 1 .. Len(mainq) : Live(mainq, LiveModels, i)
        PROVE  \E i \in 1 .. Len(mainq') : Live(mainq', LiveModels, i)
    <3>1. CASE Live(mainq, LiveModels, 1)
      <4>1. Len(t) + 1 \in 1 .. Len(mainq') /\ mainq'[Len(t) + 1] = c
        BY <1>3, <1>4, OneMore
      <4>2. Live(mainq', LiveModels, Len(t) + 1)
        BY <1>3, <3>1, <4>1 DEF Live
      <4>3. QED
        BY <4>1, <4>2
    <3>2. CASE ~Live(mainq, LiveModels, 1)
      BY <1>3, <1>4, <1>8, <2>2, <3>2, LiveAppend
    <3>3. QED
      BY <3>1, <3>2
  <2>3. QED
    BY <1>2, <2>1, <2>2 DEF Settling
<1>17. QED
  BY <1>2, <1>11, <1>12, <1>14, <1>15, <1>16, SettlesFrame DEF IInv

(* Queue e, with g heard, follows q and h when one listener is called.     *)
HeardInTurn(q, e, h, g, n, ns, u, A, on, m) ==
    /\ e \in Seq(Block)
    /\ Followed(q, h) => Followed(e, g)
    /\ \A k \in Listeners : Calls(q, k) => Calls(e, k)
    /\ NoSignIn(q) => NoSignIn(e)
    /\ LogsNobodyIn(q) /\ (Tell(h, n, u) => ~u.verified) => LogsNobodyIn(e)
    /\ Old(q, m) => Old(e, m)
    /\ Honest(q, A, u, on) => Honest(e, A, u, on)
    /\ (n \in ns /\ Tell(h, n, u)) \/ Ends(q, on, u.verified) =>
         Ends(e, on, u.verified)
    /\ (\E i \in 1 .. Len(q) : Live(q, A, i)) =>
         \E i \in 1 .. Len(e) : Live(e, A, i)

(* One listener of ns is called: with something to tell it queues a body   *)
(* about the current user, and it has heard of him.                        *)
LEMMA ListenerCalled ==
    ASSUME NEW q \in Seq(Block), NEW n \in Listeners, NEW ns, NEW u \in Person,
           NEW h, NEW g, NEW e,
           e = IF n \in ns /\ Tell(h, n, u) THEN Append(q, StateBody(n, u)) ELSE q,
           g[n].uid = IF n \in ns THEN u.uid ELSE h[n].uid,
           \A k \in Listeners : k # n => g[k].uid = h[k].uid,
           NEW A, NEW on, NEW m \in Nat
    PROVE  HeardInTurn(q, e, h, g, n, ns, u, A, on, m)
<1>1. CASE n \in ns /\ Tell(h, n, u)
  <2> DEFINE b == StateBody(n, u)
  <2>1. /\ b \in Block /\ b.kind = "state" /\ b.listener = n /\ b.user = u
    BY Blocks DEF StateBody
  <2>2. e = Append(q, b)
    BY <1>1
  <2> HIDE DEF b
  <2>3. e \in Seq(Block)
    BY <2>1, <2>2, OneMore
  <2>4. Followed(q, h) => Followed(e, g)
    BY <1>1, <2>1, <2>2, FollowedBody
  <2>5. /\ \A k \in Listeners : Calls(q, k) => Calls(e, k)
        /\ NoSignIn(q) => NoSignIn(e)
        /\ LogsNobodyIn(q) /\ (Tell(h, n, u) => ~u.verified) => LogsNobodyIn(e)
    BY <1>1, <2>1, <2>2, CallsAppend, NoSignInAppend, LogsNobodyInAppend
  <2>6. /\ Old(q, m) => Old(e, m)
        /\ Honest(q, A, u, on) => Honest(e, A, u, on)
    BY <2>1, <2>2, OldAppend, HonestAppend
  <2>7. Ends(e, on, u.verified)
    BY <2>1, <2>2, EndsBody
  <2>8. (\E i \in 1 .. Len(q) : Live(q, A, i)) =>
          \E i \in 1 .. Len(e) : Live(e, A, i)
    BY <2>1, <2>2, LiveAppend
  <2>9. QED
    BY <2>3, <2>4, <2>5, <2>6, <2>7, <2>8 DEF HeardInTurn
<1>2. CASE ~(n \in ns /\ Tell(h, n, u))
  <2>1. e = q
    BY <1>2
  <2>2. \A k \in Listeners : g[k].uid = h[k].uid
    BY <1>2 DEF Tell
  <2>3. Followed(q, h) => Followed(q, g)
    BY <2>2 DEF Followed
  <2>4. QED
    BY <1>2, <2>1, <2>3 DEF HeardInTurn
<1>3. QED
  BY <1>1, <1>2

LEMMA BodyJoins ==
    ASSUME TypeOK, NEW q \in Seq(Block), NEW n \in Listeners, NEW ns, NEW h,
           h[n] = heard[n]
    PROVE  q \o Body(n, ns) =
             IF n \in ns /\ Tell(h, n, current) THEN Append(q, StateBody(n, current)) ELSE q
<1>1. StateBody(n, current) \in Block
  BY Blocks DEF TypeOK, Person
<1>2. Tells(n) <=> Tell(h, n, current)
  BY DEF Tells, Tell
<1>3. CASE n \in ns /\ Tells(n)
  BY <1>1, <1>2, <1>3, Joins DEF Body
<1>4. CASE ~(n \in ns /\ Tells(n))
  BY <1>1, <1>2, <1>4, Joins DEF Body
<1>5. QED
  BY <1>3, <1>4

LEMMA RunListenersStep ==
    ASSUME IInv, TypeOK', RunListeners
    PROVE  IInv'
<1> USE DEF RunListeners, serverVars, authVars, rootVars, loginVars, pastVars
<1>1. /\ mainq \in Seq(Block) /\ isLoggedIn \in BOOLEAN /\ current \in Person
      /\ mainq # <<>> /\ mainq[1].kind \in {"first", "post"}
      /\ mainq[1] = Head(mainq) /\ mainq[1] \in Block /\ model \in Nat
      /\ Tail(mainq) \in Seq(Block)
  BY Rest DEF IInv, TypeOK, Person
<1>2. PICK ns \in SUBSET Listeners :
        /\ Hears(ns) /\ mainq' = Tail(mainq) \o Bodies(ns)
        /\ \/ ns = Listeners
           \/ \E k \in Listeners : ns = {k} /\ mainq[1] = FirstCall(k)
  BY <1>1, BlockFields
<1>3. LiveModels' = LiveModels /\ current.verified \in BOOLEAN
  BY <1>1, People DEF LiveModels
<1> DEFINE A == "AppState"
           R == "RootView"
           t == Tail(mainq)
           s == t \o Body(A, ns)
           h == [heard EXCEPT ![A] = heard'[A]]
<1>4. /\ A \in Listeners /\ R \in Listeners /\ A # R
      /\ \A n \in Listeners : n = A \/ n = R
  BY DEF Listeners
<1>5. /\ \A n \in Listeners : heard'[n] = IF n \in ns THEN [first |-> FALSE, uid |-> current.uid]
                                         ELSE heard[n]
      /\ h[A] = heard'[A] /\ h[R] = heard[R]
  BY <1>2, <1>4 DEF Hears, IInv, TypeOK
<1>6. \A n \in Listeners : heard'[n].uid = IF n \in ns THEN current.uid ELSE heard[n].uid
  BY <1>5
<1>7. /\ ~Live(mainq, LiveModels, 1)
      /\ Followed(t, heard) /\ Old(t, model)
      /\ Honest(mainq, LiveModels, current, isLoggedIn) =>
           Honest(t, LiveModels, current, isLoggedIn)
      /\ NoSignIn(mainq) => NoSignIn(t)
      /\ LogsNobodyIn(mainq) => LogsNobodyIn(t)
      /\ Ends(mainq, isLoggedIn, current.verified) =>
           Ends(t, isLoggedIn, current.verified)
      /\ (\E i \in 1 .. Len(mainq) : Live(mainq, LiveModels, i)) =>
           \E i \in 1 .. Len(t) : Live(t, LiveModels, i)
  <2>1. ~Live(mainq, LiveModels, 1)
    BY <1>1 DEF Live
  <2>2. QED
    BY <1>1, <1>3, <2>1, FollowedTail, HonestTail, OldTail, NoSignInTail,
       LogsNobodyInTail, EndsTail, LiveTail DEF IInv
<1>8. s = IF A \in ns /\ Tell(heard, A, current) THEN Append(t, StateBody(A, current)) ELSE t
  BY <1>1, <1>4, BodyJoins DEF IInv
<1>9. /\ s \in Seq(Block) /\ Followed(s, h)
      /\ \A k \in Listeners : Calls(t, k) => Calls(s, k)
      /\ NoSignIn(t) => NoSignIn(s)
      /\ LogsNobodyIn(t) /\ (Tell(heard, A, current) => ~current.verified) => LogsNobodyIn(s)
      /\ Old(s, model)
      /\ Honest(t, LiveModels, current, isLoggedIn) =>
           Honest(s, LiveModels, current, isLoggedIn)
      /\ (A \in ns /\ Tell(heard, A, current)) \/ Ends(t, isLoggedIn, current.verified) =>
           Ends(s, isLoggedIn, current.verified)
      /\ (\E i \in 1 .. Len(t) : Live(t, LiveModels, i)) =>
           \E i \in 1 .. Len(s) : Live(s, LiveModels, i)
  <2>1. /\ h[A].uid = IF A \in ns THEN current.uid ELSE heard[A].uid
        /\ \A k \in Listeners : k # A => h[k].uid = heard[k].uid
    BY <1>4, <1>5, <1>6
  <2> HIDE DEF A, R, t, s, h
  <2>2. t \in Seq(Block)
    BY <1>1 DEF t
  <2>3. HeardInTurn(t, s, heard, h, A, ns, current, LiveModels, isLoggedIn, model)
    BY <1>1, <1>4, <1>8, <2>1, <2>2, ListenerCalled
  <2>4. QED
    BY <1>7, <2>3 DEF HeardInTurn
<1>10. mainq' = s \o Body(R, ns)
  <2>1. Body(A, ns) \in Seq(Block) /\ Body(R, ns) \in Seq(Block)
    <3>1. \A n \in Listeners : StateBody(n, current) \in Block
      BY <1>1, Blocks
    <3>2. QED
      BY <1>4, <3>1, EmptyQueue DEF Body
  <2>2. mainq' = t \o (Body(A, ns) \o Body(R, ns))
    <3>1. Bodies(ns) = Body(A, ns) \o Body(R, ns)
      BY DEF Bodies
    <3>2. QED
      BY <1>2, <3>1
  <2>3. t \in Seq(Block)
    BY <1>1
  <2>4. (t \o Body(A, ns)) \o Body(R, ns) = t \o (Body(A, ns) \o Body(R, ns))
    <3> HIDE DEF A, R, t
    <3>1. QED
      BY <2>1, <2>3, ConcatAssociative
  <2>5. QED
    BY <2>2, <2>4
<1>11. mainq' = IF R \in ns /\ Tell(h, R, current) THEN Append(s, StateBody(R, current)) ELSE s
  <2> HIDE DEF s, h
  <2>1. QED
    BY <1>4, <1>5, <1>9, <1>10, BodyJoins DEF IInv
<1>12. Tell(h, R, current) <=> Tell(heard, R, current)
  BY <1>5 DEF Tell
<1>13. /\ mainq' \in Seq(Block) /\ Followed(mainq', heard')
       /\ \A k \in Listeners : Calls(s, k) => Calls(mainq', k)
       /\ NoSignIn(s) => NoSignIn(mainq')
       /\ LogsNobodyIn(s) /\ (Tell(heard, R, current) => ~current.verified) =>
            LogsNobodyIn(mainq')
       /\ Old(mainq', model)
       /\ Honest(s, LiveModels, current, isLoggedIn) =>
            Honest(mainq', LiveModels, current, isLoggedIn)
       /\ (R \in ns /\ Tell(heard, R, current)) \/ Ends(s, isLoggedIn, current.verified) =>
            Ends(mainq', isLoggedIn, current.verified)
       /\ (\E i \in 1 .. Len(s) : Live(s, LiveModels, i)) =>
            \E i \in 1 .. Len(mainq') : Live(mainq', LiveModels, i)
  <2>1. /\ heard'[R].uid = IF R \in ns THEN current.uid ELSE h[R].uid
        /\ \A k \in Listeners : k # R => heard'[k].uid = h[k].uid
    BY <1>4, <1>5, <1>6
  <2> HIDE DEF A, R, t, s, h
  <2>2. HeardInTurn(s, mainq', h, heard', R, ns, current, LiveModels, isLoggedIn, model)
    BY <1>1, <1>4, <1>9, <1>11, <2>1, ListenerCalled
  <2>3. QED
    BY <1>9, <1>12, <2>2 DEF HeardInTurn
<1>14. \A n \in Listeners : Tell(heard', n, current) => Tell(heard, n, current) /\ n \notin ns
  BY <1>5 DEF Tell
<1>15. \A n \in Listeners \ ns : Tell(heard', n, current) <=> Tell(heard, n, current)
  BY <1>5 DEF Tell
<1> HIDE DEF A, R, t, s, h
<1>16. Called(mainq', heard', current)
  <2>1. ASSUME NEW n \in Listeners, Tell(heard', n, current)
        PROVE  Calls(mainq', n)
    <3>1. n \notin ns /\ Calls(mainq, n)
      BY <1>14, <2>1 DEF IInv, Called
    <3>2. PICK k \in Listeners : k # n /\ mainq[1] = FirstCall(k)
      BY <1>2, <3>1
    <3>3. mainq[1] # Post /\ mainq[1] # FirstCall(n)
      <4>1. /\ FirstCall(k).kind = "first" /\ Post.kind = "post"
            /\ FirstCall(k).listener = k /\ FirstCall(n).listener = n
        BY DEF FirstCall, Post
      <4>2. QED
        BY <3>2, <4>1
    <3>4. Calls(t, n)
      BY <1>1, <3>1, <3>3, CallsTail DEF t
    <3>5. QED
      BY <1>9, <1>13, <3>4
  <2>2. QED
    BY <2>1 DEF Called
<1>17. Shut'
  <2>1. NoUser.uid = "nil"
    BY DEF NoUser
  <2>2. SUFFICES ASSUME locked PROVE Shut'
    BY DEF Shut
  <2>3. /\ current = NoUser /\ requests = {} /\ ~crossed /\ NoSignIn(mainq)
        /\ \A n \in Listeners : heard[n].uid = "nil"
    BY <2>2 DEF IInv, Shut
  <2>4. NoSignIn(mainq') /\ \A n \in Listeners : heard'[n].uid = "nil"
    BY <1>6, <1>7, <1>9, <1>13, <2>1, <2>3
  <2>5. QED
    BY <2>3, <2>4 DEF Shut, pastVars
<1>18. InFlight'
  <2>1. ASSUME NEW r \in SignIns, Waiting(r)
        PROVE  Waiting(r)'
    <3>1. NoSignIn(mainq') /\ LogsNobodyIn(mainq')
      BY <1>4, <1>7, <1>9, <1>13, <2>1 DEF Waiting
    <3>2. (\E n \in Listeners : Tell(heard', n, current)) => ~current.verified
      BY <1>14, <2>1 DEF Waiting
    <3>3. QED
      BY <2>1, <3>1, <3>2 DEF Waiting
  <2>2. QED
    BY <2>1, InFlightFrame DEF IInv, SignIns
<1>19. Settling => Settling'
  <2>1. CASE \E n \in Listeners \ ns : Tell(heard, n, current)
    BY <1>15, <2>1 DEF Settling
  <2>2. CASE \E n \in ns : Tell(heard, n, current)
    BY <1>4, <1>9, <1>13, <2>2 DEF Settling
  <2>3. CASE Ends(mainq, isLoggedIn, current.verified)
    BY <1>7, <1>9, <1>13, <2>3 DEF Settling
  <2>4. CASE current.verified /\ (kept \/ \E i \in 1 .. Len(mainq) : Live(mainq, LiveModels, i))
    BY <1>3, <1>7, <1>9, <1>13, <2>4 DEF Settling
  <2>5. QED
    BY <2>1, <2>2, <2>3, <2>4 DEF Settling
<1>20. Known'
  BY <1>6 DEF IInv, Known
<1>21. Settles'
  BY <1>3, <1>7, <1>9, <1>13, <1>19, SettlesFrame DEF IInv
<1>22. QED
  BY <1>13, <1>16, <1>17, <1>18, <1>20, <1>21 DEF IInv

LEMMA NextInv ==
    ASSUME ConstantsAssumption, IInv, [Next]_vars
    PROVE  IInv'
<1>1. TypeOK'
  BY NextType DEF IInv
<1>2. CASE UNCHANGED vars
  <2>1. LiveModels' = LiveModels
    BY <1>2 DEF vars, LiveModels
  <2>2. InFlight'
    BY <1>2, InFlightFrame DEF vars, IInv, Waiting, SignIns
  <2>3. QED
    BY <1>1, <1>2, <2>1, <2>2 DEF vars, IInv, Shut, Known, Settles, Settling
<1>3. ASSUME NEW r \in requests, SignedIn(r) PROVE IInv'
  BY <1>1, <1>3, SignedInStep, CreatedStep DEF SignedIn
<1>4. CASE Next
  BY <1>1, <1>3, <1>4, RelaunchStep, SplashOverStep, RenderStep, UnlockStep,
     SignInUserStep, CreateUserStep, ConfirmStep, ResetPasswordStep, AnsweredStep,
     ForcedSignOutStep, LogOutStep, RunListenersStep, RunStateStep, RunTimerStep,
     RedispatchStep, RunSignInStep, RunResetStep DEF Next, MainQueue
<1>5. QED
  BY <1>2, <1>4

(* A queue that is empty calls no listener and leads to isLoggedIn.        *)
LEMMA Settled ==
    ASSUME IInv
    PROVE  SettledLogin
<1>1. SUFFICES ASSUME mainq = <<>>
               PROVE  /\ isLoggedIn => current.verified \/ crossed
                      /\ current.verified /\ ~kept => isLoggedIn
  BY DEF SettledLogin
<1>2. \A n \in Listeners : ~Tell(heard, n, current)
  BY <1>1, EmptyIsQuiet DEF IInv, Called
<1>3. \A i \in 1 .. Len(mainq) : FALSE
  BY <1>1, EmptyQueue
<1>4. Ends(mainq, isLoggedIn, current.verified) => isLoggedIn = current.verified
  BY <1>3 DEF Ends
<1>5. QED
  BY <1>2, <1>3, <1>4 DEF IInv, Settles, Settling

(* Once the queued blocks have run, whoever is logged in is Auth's current *)
(* user and verified, and such a user is logged in unless Auth refused to  *)
(* sign him out, for any accounts and any number of requests, log-outs and *)
(* relaunches, however many requests are on their way.  Only a completion  *)
(* that a sign-up has overtaken lets in somebody who is not current.       *)
THEOREM SettledLoginHolds == Spec => []SettledLogin
<1>1. Init => IInv
  BY ConstantsAssumption, InitInv
<1>2. IInv /\ [Next]_vars => IInv'
  BY ConstantsAssumption, NextInv
<1>3. IInv => SettledLogin
  BY Settled
<1>4. QED
  BY <1>1, <1>2, <1>3, PTL DEF Spec

=============================================================================
