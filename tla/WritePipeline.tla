----------------------------- MODULE WritePipeline -----------------------------
(***************************************************************************)
(* How the vendored Firestore client gets updateData calls to the server:  *)
(* the mutation queue on disk (LevelDbMutationQueue), the completions held *)
(* in memory (SyncEngine), the write pipeline (RemoteStore) and the write  *)
(* stream with its credentials, handshake, backoff and idle timer (Stream, *)
(* WriteStream).  Every action is one operation of the client's worker     *)
(* queue, with all it calls; the server and the wire are external.         *)
(*                                                                         *)
(* The server reads the requests of a stream in order, answers each one,   *)
(* ends the stream at the first it refuses, and works on no request of a   *)
(* stream the client has given up.                                         *)
(***************************************************************************)
EXTENDS Integers, Sequences, FiniteSets

CONSTANTS
    Users,               \* accounts that use the app on this device
    kMaxPendingWrites,   \* size of the write pipeline (10 in the code)
    MaxWrite,            \* bound: number of updateData calls
    MaxFault             \* bound: number of stream and credential failures,
                         \* changes of connectivity or account, and relaunches

ASSUME ConstantsAssumption ==
    /\ IsFiniteSet(Users) /\ Users # {}
    /\ kMaxPendingWrites \in Nat \ {0}
    /\ MaxWrite \in Nat
    /\ MaxFault \in Nat

VARIABLES
    queue,      \* mutation queue of each user: batches [id, w], on disk
    nextBatchId,\* next_batch_id_ of the queue in use
    user,       \* current_user_
    callbacks,  \* mutation_callbacks_: [user, id, w]
    rs,         \* RemoteStore, its write stream and the wire (see RemoteStore)
    log,        \* external: the writes the server committed, in order
    settled,    \* history: how each write was answered
    told,       \* history: what each completion was called with
    used        \* counters held against the bounds

vars == <<queue, nextBatchId, user, callbacks, rs, log, settled, told, used>>

Writes == 1 .. MaxWrite
Outcome == {"ok", "error"}
Batch == [id : Nat, w : Writes]
HANDSHAKE == 0
Counters == {"write", "fault"}
Bump(c) == used' = [used EXCEPT ![c] = @ + 1]

(* RemoteStore::write_pipeline_; the state of the stream ("open" is Open   *)
(* or Healthy), handshake_complete_, whether the idle timer runs,          *)
(* close_count_, and the close counts of the credential requests not       *)
(* answered yet; the requests and the responses on the wire; whether the   *)
(* server has refused the first of the requests.                           *)
RemoteStore ==
    [pipeline : Seq(Batch),
     stream : {"initial", "starting", "backoff", "open", "error"},
     handshake : BOOLEAN, idle : BOOLEAN, closes : Nat, asked : SUBSET Nat,
     up : Seq(Writes \cup {HANDSHAKE}), down : Seq(Writes \cup {HANDSHAKE}),
     refused : BOOLEAN]

NewRemoteStore ==
    [pipeline |-> <<>>, stream |-> "initial", handshake |-> FALSE,
     idle |-> FALSE, closes |-> 0, asked |-> {}, up |-> <<>>, down |-> <<>>,
     refused |-> FALSE]

WritesIn(batches) == [i \in DOMAIN batches |-> batches[i].w]

-----------------------------------------------------------------------------
(* The stream.                                                             *)

IsOpen(r) == r.stream = "open"
IsStarted(r) == r.stream \in {"starting", "backoff", "open"}

(* Start: after an error it waits for the backoff first. *)
StartStream(r) ==
    IF r.stream = "error"
    THEN [r EXCEPT !.stream = "backoff"]
    ELSE [r EXCEPT !.stream = "starting", !.asked = @ \cup {r.closes}]

(* Mutant of Disconnected: the responses of the old call are still read. *)
Disconnected_ResponsesKept(r, state) ==
    [r EXCEPT !.stream = state, !.idle = FALSE, !.closes = @ + 1,
              !.up = <<>>, !.refused = FALSE]

(* Close: timers are cancelled, the close count grows, the wire is gone.   *)
(* A stream that is not started is not stopped again.                      *)
Disconnected(r, state) ==
    [r EXCEPT !.stream = state, !.idle = FALSE, !.closes = @ + 1,
              !.up = <<>>, !.down = <<>>, !.refused = FALSE]

(* Mutant of Stop: the idle timer survives the stop. *)
Stop_TimerKept(r) ==
    IF ~IsStarted(r) THEN r
    ELSE [Disconnected(r, "initial") EXCEPT !.handshake = FALSE, !.idle = r.idle]

Stop(r) ==
    IF ~IsStarted(r) THEN r
    ELSE [Disconnected(r, "initial") EXCEPT !.handshake = FALSE]

-----------------------------------------------------------------------------
(* The write pipeline.                                                     *)

LastBatchId(p) == IF p = <<>> THEN -1 ELSE p[Len(p)].id

ShouldStartWriteStream(r) == ~IsStarted(r) /\ r.pipeline # <<>>

(* NextMutationBatchAfterBatchId, as often as there is one: the batches of *)
(* a queue, which the disk keeps in the order of their ids, behind an id.  *)
Behind(q, id) ==
    LET k == CHOOSE k \in 0 .. Len(q) : \A i \in DOMAIN q : q[i].id > id <=> i > k
    IN  SubSeq(q, k + 1, Len(q))

(* Mutant of Addition: one batch more than there is room for. *)
Addition_OneMore(pipeline, q) ==
    LET behind == Behind(q, LastBatchId(pipeline))
        room == kMaxPendingWrites + 1 - Len(pipeline)
    IN  SubSeq(behind, 1, IF Len(behind) < room THEN Len(behind) ELSE room)

(* The batches FillWritePipeline adds: those of the queue behind the last  *)
(* one in the pipeline, while there is room.                               *)
Addition(pipeline, q) ==
    LET behind == Behind(q, LastBatchId(pipeline))
        room == kMaxPendingWrites - Len(pipeline)
    IN  SubSeq(behind, 1, IF Len(behind) < room THEN Len(behind) ELSE room)

(* Mutant of FillWritePipeline: what is added while the stream is being    *)
(* set up is sent as well, ahead of the handshake's resend.                *)
FillWritePipeline_NoHandshake(r, q) ==
    LET more == Addition(r.pipeline, q)
        added == [r EXCEPT !.pipeline = @ \o more,
                    !.up = IF IsOpen(r) THEN @ \o WritesIn(more) ELSE @,
                    !.idle = (@ /\ more = <<>>)
                             \/ (IsOpen(r) /\ more = <<>> /\ r.pipeline = <<>>)]
    IN  IF ShouldStartWriteStream(added) THEN StartStream(added) ELSE added

(* Each addition is sent at once when the handshake is over, which stops   *)
(* the idle timer; an empty pipeline with nothing to add starts it.        *)
FillWritePipeline(r, q) ==
    LET more == Addition(r.pipeline, q)
        live == IsOpen(r) /\ r.handshake
        added == [r EXCEPT !.pipeline = @ \o more,
                    !.up = IF live THEN @ \o WritesIn(more) ELSE @,
                    !.idle = (@ /\ ~(live /\ more # <<>>))
                             \/ (IsOpen(r) /\ more = <<>> /\ r.pipeline = <<>>)]
    IN  IF ShouldStartWriteStream(added) THEN StartStream(added) ELSE added

(* RestartNetwork: stop, forget the pipeline, no backoff, fill it again. *)
RestartNetwork(r, q) ==
    FillWritePipeline(
      [Stop(r) EXCEPT !.pipeline = <<>>, !.stream = "initial"], q)

-----------------------------------------------------------------------------
(* The mutation queue and the completions.                                 *)

(* LoadNextBatchIdFromDb: one more than any batch of any user, so the ids  *)
(* of answered batches are given out again.                                *)
LoadNextBatchId(qs) ==
    LET ids == {0} \cup UNION {{qs[u][i].id : i \in DOMAIN qs[u]} : u \in Users}
    IN  1 + CHOOSE m \in ids : \A n \in ids : n <= m

Waiting(id) == {c \in callbacks : c.user = user /\ c.id = id}

(* Mutant of NotifyUser: the completion is called and kept. *)
NotifyUser_Kept(id, outcome) ==
    /\ callbacks' = callbacks
    /\ told' = [w \in Writes |->
                  IF \E c \in Waiting(id) : c.w = w THEN outcome ELSE told[w]]

(* NotifyUser: the completion stored for the batch is called and erased. *)
NotifyUser(id, outcome) ==
    /\ callbacks' = callbacks \ Waiting(id)
    /\ told' = [w \in Writes |->
                  IF \E c \in Waiting(id) : c.w = w THEN outcome ELSE told[w]]

(* The batch with this id, which must be there, is deleted. *)
RemoveMutationBatch(b) ==
    LET q == queue[user]
        k == CHOOSE k \in DOMAIN q : q[k].id = b.id
    IN  [queue EXCEPT ![user] = SubSeq(q, 1, k - 1) \o SubSeq(q, k + 1, Len(q))]

-----------------------------------------------------------------------------
Init ==
    /\ queue = [u \in Users |-> <<>>]
    /\ nextBatchId = 1
    /\ user \in Users
    /\ callbacks = {}
    /\ rs = NewRemoteStore
    /\ log = <<>>
    /\ settled = [w \in Writes |-> "no"]
    /\ told = [w \in Writes |-> "no"]
    /\ used = [c \in Counters |-> 0]

(* updateData -> SyncEngine::WriteMutations: the batch is written to disk, *)
(* the completion stored, the pipeline filled.                             *)
WriteMutations ==
    /\ used["write"] < MaxWrite
    /\ Bump("write")
    /\ LET b == [id |-> nextBatchId, w |-> used["write"] + 1] IN
       /\ queue' = [queue EXCEPT ![user] = Append(@, b)]
       /\ callbacks' = callbacks \cup {[user |-> user, id |-> b.id, w |-> b.w]}
    /\ nextBatchId' = nextBatchId + 1
    /\ rs' = FillWritePipeline(rs, queue'[user])
    /\ UNCHANGED <<user, log, settled, told>>

-----------------------------------------------------------------------------
(* Setting up the stream.                                                  *)

Current(c) == c = rs.closes

(* The credentials asked for arrive: the call is started, which opens the  *)
(* stream and writes the handshake.  If the stream was stopped meanwhile   *)
(* the answer is dropped.                                                  *)
Credentials(c) ==
    /\ rs' = LET r == [rs EXCEPT !.asked = @ \ {c}]
             IN  IF Current(c)
                 THEN [r EXCEPT !.stream = "open", !.up = <<HANDSHAKE>>]
                 ELSE r
    /\ UNCHANGED <<queue, nextBatchId, user, callbacks, log, settled, told, used>>

(* They cannot be had (no network): the stream closes with that error and, *)
(* writes pending, is started again behind the backoff.                    *)
NoCredentials(c) ==
    /\ Current(c)
    /\ used["fault"] < MaxFault
    /\ Bump("fault")
    /\ rs' = StartStream([Disconnected(rs, "error") EXCEPT !.asked = @ \ {c}])
    /\ UNCHANGED <<queue, nextBatchId, user, callbacks, log, settled, told>>

(* Mutant of BackoffElapsed: the timer goes off and nothing starts. *)
BackoffElapsed_Lost ==
    /\ rs.stream = "backoff"
    /\ UNCHANGED vars

BackoffElapsed ==
    /\ rs.stream = "backoff"
    /\ rs' = StartStream([rs EXCEPT !.stream = "initial"])
    /\ UNCHANGED <<queue, nextBatchId, user, callbacks, log, settled, told, used>>

(* OnWriteStreamHandshakeComplete: the whole pipeline is sent (again). *)
HandshakeComplete ==
    /\ rs.down # <<>> /\ ~rs.handshake
    /\ rs' = [rs EXCEPT !.down = Tail(@), !.handshake = TRUE,
                        !.up = @ \o WritesIn(rs.pipeline)]
    /\ UNCHANGED <<queue, nextBatchId, user, callbacks, log, settled, told, used>>

-----------------------------------------------------------------------------
(* Answers.                                                                *)

(* OnWriteStreamMutationResult: a response is taken to be the answer to    *)
(* the first write of the pipeline, whichever it was sent for.             *)
MutationResult ==
    /\ rs.down # <<>> /\ rs.handshake
    /\ LET b == Head(rs.pipeline) IN
       /\ NotifyUser(b.id, "ok")
       /\ queue' = RemoveMutationBatch(b)
       /\ settled' = [settled EXCEPT ![b.w] = "ok"]
    /\ rs' = FillWritePipeline([rs EXCEPT !.down = Tail(@), !.pipeline = Tail(@)],
                               queue'[user])
    /\ UNCHANGED <<nextBatchId, user, log, used>>

(* The stream ends with the status of the refused request: OnWriteStream-  *)
(* Close -> HandleWriteError rejects the first write of the pipeline and   *)
(* starts the stream anew without backoff.  Responses not read yet are     *)
(* lost when a failing write operation ends the call first.                *)
WriteRefused ==
    /\ rs.refused
    /\ LET b == Head(rs.pipeline) IN
       /\ NotifyUser(b.id, "error")
       /\ queue' = RemoveMutationBatch(b)
       /\ settled' = [settled EXCEPT ![b.w] = "error"]
    /\ rs' = [FillWritePipeline(
                [Disconnected(rs, "initial") EXCEPT !.pipeline = Tail(@)],
                queue'[user]) EXCEPT !.handshake = FALSE]
    /\ UNCHANGED <<nextBatchId, user, log, used>>

(* The stream ends with a transient error, or with any error before the    *)
(* handshake: nothing is given up, and the stream is started again behind  *)
(* the backoff if the pipeline is not empty.                               *)
StreamBroken ==
    /\ IsOpen(rs) /\ ~rs.refused
    /\ used["fault"] < MaxFault
    /\ Bump("fault")
    /\ LET r == Disconnected(rs, "error") IN
       rs' = [(IF ShouldStartWriteStream(r) THEN StartStream(r) ELSE r)
                EXCEPT !.handshake = FALSE]
    /\ UNCHANGED <<queue, nextBatchId, user, callbacks, log, settled, told>>

IdleTimeout ==
    /\ rs.idle
    /\ rs' = Stop(rs)
    /\ UNCHANGED <<queue, nextBatchId, user, callbacks, log, settled, told, used>>

-----------------------------------------------------------------------------
(* Connectivity, accounts, the process.                                    *)

(* The network came back or changed (ConnectivityMonitor). *)
ConnectivityChange ==
    /\ used["fault"] < MaxFault
    /\ Bump("fault")
    /\ rs' = RestartNetwork(rs, queue[user])
    /\ UNCHANGED <<queue, nextBatchId, user, callbacks, log, settled, told>>

(* SyncEngine::HandleCredentialChange to another user: the other mutation  *)
(* queue is opened, then the network restarted.                            *)
HandleCredentialChange(u) ==
    /\ u # user
    /\ used["fault"] < MaxFault
    /\ Bump("fault")
    /\ user' = u
    /\ nextBatchId' = LoadNextBatchId(queue)
    /\ rs' = RestartNetwork(rs, queue[u])
    /\ UNCHANGED <<queue, callbacks, log, settled, told>>

(* The process dies and is started again: the queues on disk are all that  *)
(* is left.  It may die between the call of a completion and the removal   *)
(* of its batch from the disk.                                             *)
Relaunch ==
    /\ used["fault"] < MaxFault
    /\ Bump("fault")
    /\ callbacks' = {}
    /\ nextBatchId' = LoadNextBatchId(queue)
    /\ rs' = FillWritePipeline(NewRemoteStore, queue[user])
    /\ UNCHANGED <<queue, user, log, settled>>

Die == Relaunch /\ UNCHANGED told

DieInMutationResult ==
    /\ Relaunch
    /\ rs.down # <<>> /\ rs.handshake
    /\ \E c \in Waiting(Head(rs.pipeline).id) : told' = [told EXCEPT ![c.w] = "ok"]

-----------------------------------------------------------------------------
(* The server, external.                                                   *)

ServerHandshake ==
    /\ rs.up # <<>> /\ Head(rs.up) = HANDSHAKE
    /\ rs' = [rs EXCEPT !.up = Tail(@), !.down = Append(@, HANDSHAKE)]
    /\ UNCHANGED <<queue, nextBatchId, user, callbacks, log, settled, told, used>>

ServerCommit ==
    /\ rs.up # <<>> /\ Head(rs.up) # HANDSHAKE /\ ~rs.refused
    /\ log' = Append(log, [user |-> user, w |-> Head(rs.up)])
    /\ rs' = [rs EXCEPT !.up = Tail(@), !.down = Append(@, Head(rs.up))]
    /\ UNCHANGED <<queue, nextBatchId, user, callbacks, settled, told, used>>

ServerRefuse ==
    /\ rs.up # <<>> /\ Head(rs.up) # HANDSHAKE /\ ~rs.refused
    /\ rs' = [rs EXCEPT !.refused = TRUE]
    /\ UNCHANGED <<queue, nextBatchId, user, callbacks, log, settled, told, used>>

-----------------------------------------------------------------------------
Next ==
    \/ WriteMutations
    \/ \E c \in rs.asked : Credentials(c) \/ NoCredentials(c)
    \/ BackoffElapsed
    \/ HandshakeComplete \/ MutationResult
    \/ WriteRefused \/ StreamBroken
    \/ IdleTimeout
    \/ ConnectivityChange
    \/ \E u \in Users : HandleCredentialChange(u)
    \/ Die \/ DieInMutationResult
    \/ ServerHandshake \/ ServerCommit \/ ServerRefuse

(* The worker queue runs, timers elapse, and the server keeps answering;   *)
(* failures and restarts are as many as the bounds allow.                  *)
Fairness ==
    /\ WF_vars(\E c \in rs.asked : Credentials(c))
    /\ WF_vars(BackoffElapsed)
    /\ WF_vars(HandshakeComplete \/ MutationResult)
    /\ WF_vars(WriteRefused)
    /\ WF_vars(ServerHandshake \/ ServerCommit \/ ServerRefuse)

Spec == Init /\ [][Next]_vars /\ Fairness

-----------------------------------------------------------------------------
(* Every variable has its type; the pipeline never holds more than         *)
(* kMaxPendingWrites batches.                                              *)
TypeOK ==
    /\ queue \in [Users -> Seq(Batch)]
    /\ nextBatchId \in Nat \ {0}
    /\ user \in Users
    /\ callbacks \subseteq [user : Users, id : Nat, w : Writes]
    /\ rs \in RemoteStore /\ Len(rs.pipeline) <= kMaxPendingWrites
    /\ log \in Seq([user : Users, w : Writes])
    /\ settled \in [Writes -> Outcome \cup {"no"}]
    /\ told \in [Writes -> Outcome \cup {"no"}]
    /\ used \in [Counters -> Nat]

(* What is on the wire is what the pipeline waits for, so a response can   *)
(* be matched with the first write of the pipeline (OnWriteStreamMutation- *)
(* Result): with the handshake over, the responses not read and the        *)
(* requests not answered are the pipeline, in order; before, the wire      *)
(* carries the handshake alone, and a stopped stream nothing.  The         *)
(* pipeline is the beginning of the queue of the user signed in.           *)
WireInStep ==
    /\ rs.down \o rs.up =
         IF rs.handshake THEN WritesIn(rs.pipeline)
         ELSE IF IsOpen(rs) THEN <<HANDSHAKE>> ELSE <<>>
    /\ rs.handshake => IsOpen(rs)
    /\ Len(rs.pipeline) <= Len(queue[user])
    /\ rs.pipeline = SubSeq(queue[user], 1, Len(rs.pipeline))

(* No write is forgotten: the pipeline takes as much of the queue as it    *)
(* has room for, a stream is on its way whenever it holds something, and   *)
(* the idle timer, which stops the stream, only runs while it is empty     *)
(* (the HARD_ASSERT of OnWriteStreamClose); credentials of the current     *)
(* start are awaited exactly while the stream is starting (the HARD_ASSERT *)
(* of ResumeStartWithCredentials).                                         *)
NoneForgotten ==
    /\ Len(rs.pipeline) = kMaxPendingWrites \/ Len(rs.pipeline) = Len(queue[user])
    /\ rs.pipeline # <<>> => IsStarted(rs) /\ ~rs.idle
    /\ rs.closes \in rs.asked <=> rs.stream = "starting"

(* The last switch wins: when a write has been acknowledged, no earlier    *)
(* write of the same user reaches the documents after it, resends          *)
(* included.                                                               *)
LastWriteWins ==
    \A m \in Writes : settled[m] = "ok" =>
      \E i \in DOMAIN log :
        /\ log[i].w = m
        /\ \A j \in DOMAIN log : j > i /\ log[j].user = log[i].user => log[j].w > m

-----------------------------------------------------------------------------
(* The client keeps the promise of WriteQueue: answers in order and once,  *)
(* each for the write it is given to although batch ids are used again     *)
(* after a relaunch or a change of account, no effect out of order or      *)
(* after the answer.                                                       *)
Promise == INSTANCE WriteQueue WITH
    pending <- [u \in Users |-> WritesIn(queue[u])],
    listening <- {c.w : c \in callbacks},
    log <- WritesIn(log)

Implements == Promise!Spec

(* Every write of an account that stays signed in is answered in the end,  *)
(* whatever the stream went through.                                       *)
AllAnswered ==
    \A u \in Users : <>[](user = u) => <>[](queue[u] = <<>>)
=============================================================================
