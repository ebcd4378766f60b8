------------------------------- MODULE Listens --------------------------------
(***************************************************************************)
(* How the vendored Firestore client answers getDocument and feeds         *)
(* snapshot listeners: the listeners of a query (EventManager,             *)
(* QueryListener), its view (SyncEngine, View), the watch stream           *)
(* (RemoteStore) and the guess whether the device is online                *)
(* (OnlineStateTracker).  An action is one operation of the client's       *)
(* worker queue, with all it calls, or one block of the app's main queue.  *)
(*                                                                         *)
(* A query is for one document; the document is a version number, 0 when   *)
(* there is none.  Pending writes are left to WritePipeline, and stale     *)
(* credentials, dropped by the same Stream class, are shown there.         *)
(***************************************************************************)
EXTENDS Integers, Sequences, FiniteSets

CONSTANTS
    Queries,      \* the documents asked for
    MaxVersion,   \* bound: versions of a document
    MaxListen,    \* bound: number of gets and listeners
    MaxFault      \* bound: number of broken streams, refused targets and
                  \* connectivity changes (failures to connect are unbounded)

ASSUME ConstantsAssumption ==
    /\ IsFiniteSet(Queries) /\ Queries # {}
    /\ MaxVersion \in Nat
    /\ MaxListen \in Nat
    /\ MaxFault \in Nat

VARIABLES
    server,    \* external: the version of each document on the server
    c,         \* the client (see Client)
    mainq,     \* events on the main queue
    muted,     \* listeners whose registration was removed
    removing,  \* removals the worker queue has not carried out
    answers,   \* history: what each get called back with
    faults     \* counter held against MaxFault

vars == <<server, c, mainq, muted, removing, answers, faults>>

Version == 0 .. MaxVersion
UNKNOWN == -1
NoView == [val |-> -2, synced |-> FALSE]

(* Mutant of Shown: a missing document is handed on as it is kept. *)
Shown_Raw(v) == v.val

(* The document a view snapshot shows. *)
Shown(v) == IF v.val < 0 THEN 0 ELSE v.val

(* What it listens to, whether it is a get, and two notes for the          *)
(* properties: the server's version at the call, and whether its own       *)
(* target had to be opened for it.                                         *)
Listener ==
    [query : Queries, get : BOOLEAN, at : Version, own : BOOLEAN]

(* online, failures (0 or more than 0) and timer: OnlineStateTracker.      *)
(* stream, idle, targets, and the version the server had when the target   *)
(* was requested on this stream: RemoteStore.  cache: the document on disk *)
(* with its resume token, UNKNOWN before the first.  view: the query's     *)
(* view snapshot while anybody listens.  table: the listeners made so far, *)
(* gets included; on: those of EventManager; raised: those that had their  *)
(* first event.                                                            *)
Client ==
    [online : {"Unknown", "Online", "Offline"}, failures : {0, 1},
     timer : BOOLEAN,
     stream : {"initial", "starting", "backoff", "open", "error"},
     idle : BOOLEAN, targets : SUBSET Queries,
     since : [Queries -> Version \cup {UNKNOWN}],
     cache : [Queries -> Version \cup {UNKNOWN}],
     view : [Queries -> [val : Version \cup {UNKNOWN}, synced : BOOLEAN]
                        \cup {NoView}],
     table : Seq(Listener),
     on : SUBSET (1 .. MaxListen), raised : SUBSET (1 .. MaxListen)]

Event(l, kind, v) ==
    [to |-> l, kind |-> kind, val |-> Shown(v), cached |-> ~v.synced]

(* One change of the client after another: F of s, with s evaluated once. *)
Then(s, F(_)) == CHOOSE t \in {F(x) : x \in {s}} : TRUE

(* The listeners of a set, in the order they were added. *)
InOrder(who) ==
    CHOOSE s \in [1 .. Cardinality(who) -> who] :
      \A i, j \in DOMAIN s : i < j => s[i] < s[j]

-----------------------------------------------------------------------------
(* QueryListener.                                                          *)

(* A get waits for the server unless the client believes it is offline; a  *)
(* listener takes what the cache has.                                      *)
ShouldRaiseInitialEvent(listener, v, online) ==
    v.synced \/ online = "Offline" \/ (~listener.get /\ v.val # UNKNOWN)

(* A change of the document is told to all, a change of from_cache alone   *)
(* only to gets, which include metadata changes.                           *)
ShouldRaiseEvent(listener, old, v) == Shown(v) # Shown(old) \/ listener.get

(* The client and the main queue (s.c, s.q) when an event of this kind was *)
(* raised for each of the listeners, with the view of its query.           *)
Raise(s, who, kind) ==
    IF who = {} THEN s ELSE
    [c |-> [s.c EXCEPT !.raised = @ \cup who],
     q |-> s.q \o [i \in 1 .. Cardinality(who) |->
                     LET l == InOrder(who)[i]
                     IN  Event(l, kind, s.c.view[s.c.table[l].query])]]

(* SyncEngine and EventManager hand the views that changed to their        *)
(* listeners.                                                              *)
OnViewSnapshots(s, views) ==
    LET raises(l) ==
          LET listener == s.c.table[l]
              old == s.c.view[listener.query]
              v == views[listener.query]
          IN  v # old /\ IF l \in s.c.raised
                          THEN ShouldRaiseEvent(listener, old, v)
                          ELSE ShouldRaiseInitialEvent(listener, v, s.c.online)
    IN  Raise([s EXCEPT !.c.view = views], {l \in s.c.on : raises(l)}, "snapshot")

(* Mutant of OnOnlineStateChanged: waiting listeners are not looked at. *)
OnOnlineStateChanged_Ignored(s, online) == [s EXCEPT !.c.online = online]

OnOnlineStateChanged(s, online) ==
    Raise([s EXCEPT !.c.online = online],
          {l \in s.c.on \ s.c.raised :
             LET listener == s.c.table[l] IN
             ShouldRaiseInitialEvent(listener, s.c.view[listener.query], online)},
          "snapshot")

-----------------------------------------------------------------------------
(* OnlineStateTracker.                                                     *)

(* SetAndBroadcast -> SyncEngine::HandleOnlineStateChange: going offline,  *)
(* every view is from cache again; then the listeners are told.            *)
SetAndBroadcast(s, online) ==
    IF online = s.c.online THEN s
    ELSE LET views == IF online # "Offline" THEN s.c.view
                      ELSE [q \in Queries |-> [s.c.view[q] EXCEPT !.synced = FALSE]]
         IN  Then(OnViewSnapshots(s, views),
                  LAMBDA t : OnOnlineStateChanged(t, online))

(* Mutant of UpdateState: the timer is left running. *)
UpdateState_TimerKept(s, online) ==
    SetAndBroadcast([s EXCEPT !.c.failures = 0], online)

UpdateState(s, online) ==
    Then([s EXCEPT !.c.timer = FALSE, !.c.failures = 0],
         LAMBDA t : SetAndBroadcast(t, online))

HandleWatchStreamStart(s) ==
    IF s.c.failures # 0 THEN s
    ELSE [SetAndBroadcast(s, "Unknown") EXCEPT !.c.timer = TRUE]

HandleWatchStreamFailure(s) ==
    IF s.c.online = "Online" THEN SetAndBroadcast(s, "Unknown")
    ELSE Then([s EXCEPT !.c.failures = 1, !.c.timer = FALSE],
              LAMBDA t : SetAndBroadcast(t, "Offline"))

-----------------------------------------------------------------------------
(* RemoteStore and the watch stream.                                       *)

IsStarted(s) == s.c.stream \in {"starting", "backoff", "open"}
NothingSent == [q \in Queries |-> UNKNOWN]

StartWatchStream(s) ==
    Then([s EXCEPT !.c.stream = IF @ = "error" THEN "backoff" ELSE "starting"],
         HandleWatchStreamStart)

(* Close and OnWatchStreamClose: an error counts as a failure and the      *)
(* stream is started again while there are targets.                        *)
Close(s, state) ==
    Then([s EXCEPT !.c.stream = state, !.c.idle = FALSE, !.c.since = NothingSent],
         LAMBDA t : IF state = "error" /\ t.c.targets # {}
                    THEN Then(HandleWatchStreamFailure(t), StartWatchStream)
                    ELSE UpdateState(t, "Unknown"))

(* Mutant of Listen: a request does not stop the idle timer. *)
Listen_IdleKept(s, q) ==
    Then([s EXCEPT !.c.targets = @ \cup {q}],
         LAMBDA t : IF t.c.stream = "open" THEN [t EXCEPT !.c.since[q] = server[q]]
                    ELSE IF IsStarted(t) THEN t ELSE StartWatchStream(t))

(* RemoteStore::Listen: the first target starts the stream, an open stream *)
(* is sent the request, which stops the idle timer.                        *)
Listen(s, q) ==
    Then([s EXCEPT !.c.targets = @ \cup {q}],
         LAMBDA t : IF t.c.stream = "open"
                    THEN [t EXCEPT !.c.since[q] = server[q], !.c.idle = FALSE]
                    ELSE IF IsStarted(t) THEN t ELSE StartWatchStream(t))

(* RemoteStore::StopListening: without targets an open stream goes idle,   *)
(* otherwise the online state is open again.                               *)
StopListening(s, q) ==
    Then([s EXCEPT !.c.targets = @ \ {q}, !.c.since[q] = UNKNOWN],
         LAMBDA t : IF t.c.targets # {} THEN t
                    ELSE IF t.c.stream = "open" THEN [t EXCEPT !.c.idle = TRUE]
                    ELSE UpdateState(t, "Unknown"))

-----------------------------------------------------------------------------
State == [c |-> c, q |-> mainq]

(* The client and the main queue become s. *)
Becomes(s) == \E t \in {s} : c' = t.c /\ mainq' = t.q

Init ==
    /\ server \in [Queries -> Version]
    /\ c = [online |-> "Unknown", failures |-> 0, timer |-> FALSE,
            stream |-> "initial", idle |-> FALSE, targets |-> {},
            since |-> NothingSent, cache |-> NothingSent,
            view |-> [q \in Queries |-> NoView], table |-> <<>>, on |-> {},
            raised |-> {}]
    /\ mainq = <<>>
    /\ muted = {}
    /\ removing = {}
    /\ answers = [l \in 1 .. MaxListen |-> <<>>]
    /\ faults = 0

-----------------------------------------------------------------------------
(* The app.                                                                *)

(* getDocument or addSnapshotListener -> EventManager::AddQueryListener.   *)
(* The first listener of a query makes its view from the cache and has the *)
(* target watched; a later one is handed the view there is.                *)
AddQueryListener(q, get) ==
    /\ Len(c.table) < MaxListen
    /\ LET l == Len(c.table) + 1
           first == c.view[q] = NoView
           listener == [query |-> q, get |-> get, at |-> server[q], own |-> first]
           s == [State EXCEPT !.c.table = Append(@, listener), !.c.on = @ \cup {l}]
           v == [val |-> c.cache[q], synced |-> FALSE]
       IN  IF first
           THEN Becomes(Then(OnViewSnapshots(s, [c.view EXCEPT ![q] = v]),
                             LAMBDA t : Listen(t, q)))
           ELSE Becomes(Raise(s, {k \in {l} :
                  ShouldRaiseInitialEvent(listener, c.view[q], c.online)}, "snapshot"))
    /\ UNCHANGED <<server, muted, removing, answers, faults>>

(* ListenerRegistration::Remove: muted at once, removed later. *)
Remove(l) ==
    /\ muted' = muted \cup {l}
    /\ removing' = removing \cup {l}

RemoveListener(l) ==
    /\ l \in DOMAIN c.table /\ ~c.table[l].get /\ l \notin muted
    /\ Remove(l)
    /\ UNCHANGED <<server, c, mainq, answers, faults>>

(* Mutant of Heard: an event is delivered although the listener is muted. *)
Heard_Always(e) == TRUE

Heard(e) == e.to \notin muted

(* An event on the main queue.  A get (ListenOnce) removes its             *)
(* registration and calls back with the document, or with an error when    *)
(* the cache has none; an error event is passed on as it is.               *)
RunEvent ==
    /\ mainq # <<>>
    /\ mainq' = Tail(mainq)
    /\ LET e == Head(mainq)
           result == IF e.kind = "error" THEN "error"
                     ELSE IF e.cached /\ e.val = 0 THEN "unavailable" ELSE "document"
       IN  IF Heard(e) /\ c.table[e.to].get
           THEN /\ IF e.kind = "error" THEN UNCHANGED <<muted, removing>>
                                       ELSE Remove(e.to)
                /\ answers' = [answers EXCEPT ![e.to] = Append(@,
                     [result |-> result, val |-> e.val, cached |-> e.cached])]
           ELSE UNCHANGED <<muted, removing, answers>>
    /\ UNCHANGED <<server, c, faults>>

(* EventManager::RemoveQueryListener: the last listener of a query ends    *)
(* its view and its target.  After an error the listener is gone already.  *)
RemoveQueryListener(l) ==
    /\ removing' = removing \ {l}
    /\ LET q == c.table[l].query
           s == [State EXCEPT !.c.on = @ \ {l}]
           last == l \in c.on /\ \A k \in c.on \ {l} : c.table[k].query # q
       IN  Becomes(IF last THEN StopListening([s EXCEPT !.c.view[q] = NoView], q)
                           ELSE s)
    /\ UNCHANGED <<server, muted, answers, faults>>

-----------------------------------------------------------------------------
(* The watch stream.                                                       *)

(* Credentials arrive and the call is started; OnWatchStreamOpen requests  *)
(* every target.                                                           *)
StreamOpen ==
    /\ c.stream = "starting"
    /\ c' = [c EXCEPT !.stream = "open",
              !.since = [q \in Queries |-> IF q \in c.targets THEN server[q]
                                                              ELSE UNKNOWN]]
    /\ UNCHANGED <<server, mainq, muted, removing, answers, faults>>

(* The stream cannot be set up: no credentials, no network. *)
StartFails ==
    /\ c.stream = "starting"
    /\ Becomes(Close(State, "error"))
    /\ UNCHANGED <<server, muted, removing, answers, faults>>

BackoffElapsed ==
    /\ c.stream = "backoff"
    /\ c' = [c EXCEPT !.stream = "starting"]
    /\ UNCHANGED <<server, mainq, muted, removing, answers, faults>>

StreamBroken ==
    /\ c.stream = "open"
    /\ faults < MaxFault /\ faults' = faults + 1
    /\ Becomes(Close(State, "error"))
    /\ UNCHANGED <<server, muted, removing, answers>>

IdleTimeout ==
    /\ c.idle
    /\ Becomes(Close(State, "initial"))
    /\ UNCHANGED <<server, muted, removing, answers, faults>>

OnlineTimeout ==
    /\ c.timer
    /\ Becomes(SetAndBroadcast([State EXCEPT !.c.timer = FALSE], "Offline"))
    /\ UNCHANGED <<server, muted, removing, answers, faults>>

(* RestartNetwork: stop, Unknown, no backoff, start again for the targets. *)
ConnectivityChange ==
    /\ faults < MaxFault /\ faults' = faults + 1
    /\ LET s == UpdateState([State EXCEPT !.c.stream = "initial", !.c.idle = FALSE,
                                          !.c.since = NothingSent], "Unknown")
       IN  Becomes(IF c.targets = {} THEN s ELSE Then(s, StartWatchStream))
    /\ UNCHANGED <<server, muted, removing, answers>>

(* The first message of a stream need not bring a document: the server     *)
(* acknowledges a target.                                                  *)
TargetAdded(q) ==
    /\ c.since[q] # UNKNOWN
    /\ Becomes(UpdateState(State, "Online"))
    /\ UNCHANGED <<server, muted, removing, answers, faults>>

(* Mutant of Deliverable: messages of an earlier request of the target are *)
(* taken for answers to the last one.                                      *)
Deliverable_Stale(q) == {v \in Version : v >= c.cache[q] /\ v <= server[q]}

(* Mutant of Deliverable: a snapshot older than the last one is applied. *)
Deliverable_Back(q) == {v \in Version : v >= c.since[q] /\ v <= server[q]}

(* What a snapshot of the target can bring: nothing older than the cache,  *)
(* nor than the request, since the responses to earlier requests of the    *)
(* target are skipped (WatchChangeAggregator).                             *)
Deliverable(q) ==
    {v \in Version : v >= c.cache[q] /\ v >= c.since[q] /\ v <= server[q]}

(* OnWatchStreamChange with a snapshot: online, then the cache and the     *)
(* view are brought up to date.                                            *)
WatchSnapshot(q) ==
    /\ c.since[q] # UNKNOWN
    /\ \E v \in Deliverable(q) :
         Becomes(Then([UpdateState(State, "Online") EXCEPT !.c.cache[q] = v],
           LAMBDA t : OnViewSnapshots(t,
                        [t.c.view EXCEPT ![q] = [val |-> v, synced |-> TRUE]])))
    /\ UNCHANGED <<server, muted, removing, answers, faults>>

(* ProcessTargetError: the target is refused.  Its listeners get the error *)
(* and are dropped, the stream stays open.                                 *)
TargetError(q) ==
    /\ c.since[q] # UNKNOWN
    /\ faults < MaxFault /\ faults' = faults + 1
    /\ LET s == UpdateState(State, "Online")
           who == {l \in c.on : c.table[l].query = q}
           told == Raise(s, who, "error")
       IN  Becomes([told EXCEPT !.c.raised = s.c.raised, !.c.on = @ \ who,
                     !.c.targets = @ \ {q}, !.c.since[q] = UNKNOWN,
                     !.c.view[q] = NoView])
    /\ UNCHANGED <<server, muted, removing, answers>>

(* External: somebody writes the document. *)
ServerChange(q) ==
    /\ server[q] < MaxVersion
    /\ server' = [server EXCEPT ![q] = @ + 1]
    /\ UNCHANGED <<c, mainq, muted, removing, answers, faults>>

-----------------------------------------------------------------------------
Connect == StreamOpen \/ StartFails

Next ==
    \/ \E q \in Queries, get \in BOOLEAN : AddQueryListener(q, get)
    \/ \E l \in 1 .. MaxListen : RemoveListener(l)
    \/ RunEvent
    \/ \E l \in removing : RemoveQueryListener(l)
    \/ Connect \/ BackoffElapsed \/ StreamBroken
    \/ IdleTimeout \/ OnlineTimeout \/ ConnectivityChange
    \/ \E q \in Queries :
         \/ TargetAdded(q) \/ WatchSnapshot(q) \/ TargetError(q)
         \/ ServerChange(q)

(* The main queue and the worker queue run, an attempt to connect ends one *)
(* way or the other, the backoff elapses, and an open stream that is not   *)
(* broken answers each request.  The timers need no fairness.              *)
Fairness ==
    /\ WF_vars(RunEvent)
    /\ WF_vars(\E l \in removing : RemoveQueryListener(l))
    /\ WF_vars(Connect) /\ WF_vars(BackoffElapsed)
    /\ \A q \in Queries : WF_vars(WatchSnapshot(q))

Spec == Init /\ [][Next]_vars /\ Fairness

-----------------------------------------------------------------------------
(* Every variable has its type. *)
TypeOK ==
    /\ server \in [Queries -> Version]
    /\ c \in Client
    /\ \A i \in DOMAIN mainq : mainq[i] \in
         [to : 1 .. MaxListen, kind : {"snapshot", "error"}, val : Version,
          cached : BOOLEAN]
    /\ muted \subseteq 1 .. MaxListen /\ removing \subseteq muted
    /\ faults \in 0 .. MaxFault

(* The assertions of the online state tracker: the timer only runs while   *)
(* the state is Unknown and nothing has failed, and a client that is       *)
(* Online has no failures to its name, so that a broken stream, a start    *)
(* and the timer find what they expect in whatever order they come.        *)
TrackerConsistent ==
    /\ c.timer => c.online = "Unknown" /\ c.failures = 0 /\ IsStarted(State)
    /\ c.online = "Online" => c.failures = 0 /\ c.stream = "open"
    /\ c.failures # 0 => c.online = "Offline"

(* A query is watched exactly while somebody listens to it (StopListening  *)
(* asserts it), the stream is on its way whenever a query is watched, and  *)
(* only goes idle when none is (asserted in OnWatchStreamClose).           *)
WatchedWhileNeeded ==
    /\ c.targets = {c.table[l].query : l \in c.on}
    /\ c.targets = {q \in Queries : c.view[q] # NoView}
    /\ c.targets # {} => IsStarted(State) /\ ~c.idle
    /\ \A q \in Queries :
         c.since[q] # UNKNOWN <=> q \in c.targets /\ c.stream = "open"

(* A get calls back once at most, although its listener may be raised      *)
(* again before the main queue has run the first event.                    *)
AnsweredOnce == \A l \in 1 .. MaxListen : Len(answers[l]) <= 1

(* A get that had to open its target and is answered by the server is not  *)
(* answered with a document older than the call.                           *)
FreshGet ==
    \A l \in DOMAIN c.table : \A i \in DOMAIN answers[l] :
      LET a == answers[l][i] IN
      c.table[l].own /\ a.result = "document" /\ ~a.cached
        => a.val >= c.table[l].at

(* The main queue never sees a document go back: events for one query come *)
(* in the order of the versions they carry.                                *)
MonotonicReads ==
    \A i, j \in DOMAIN mainq :
      LET e == mainq[i]
          f == mainq[j]
      IN  (i < j /\ e.kind = "snapshot" /\ f.kind = "snapshot"
             /\ c.table[e.to].query = c.table[f.to].query) => e.val <= f.val

-----------------------------------------------------------------------------
(* Every get is answered in the end, by the server, from the cache or with *)
(* an error, even if no attempt to connect ever succeeds.  An answer stays *)
(* and gets are finitely many, so each of them is answered if and only if  *)
(* time and again none is waiting.                                         *)
GetsAnswered ==
    []<>(\A l \in DOMAIN c.table : c.table[l].get => answers[l] # <<>>)
=============================================================================
