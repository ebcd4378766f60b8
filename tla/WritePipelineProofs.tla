-------------------------- MODULE WritePipelineProofs --------------------------
(***************************************************************************)
(* Theorems about WritePipeline, for any set of users, any size of the     *)
(* pipeline and any bounds: type correctness, the wire in step with the    *)
(* pipeline, no write forgotten, the last write wins, and the refinement   *)
(* of WriteQueue.                                                          *)
(*                                                                         *)
(* The inductive invariant has three parts: about the remote store and the *)
(* queue of the user signed in (StoreInv), about the queues, the           *)
(* completions and the history of the answers (QueueInv), and about the    *)
(* server's log (LogInv).                                                  *)
(***************************************************************************)
EXTENDS WritePipeline, SequenceTheorems, WellFoundedInduction, TLAPS

-----------------------------------------------------------------------------
(* The remote store r beside a queue q.                                    *)

(* The pipeline is the beginning of the queue. *)
IsPrefix(p, q) ==
    /\ Len(p) <= kMaxPendingWrites
    /\ Len(p) <= Len(q)
    /\ \A i \in 1 .. Len(p) : p[i] = q[i]

(* WireInStep, element by element. *)
OnTheWire(down, up, p) ==
    /\ Len(down) + Len(up) = Len(p)
    /\ \A i \in 1 .. Len(down) : down[i] = p[i].w
    /\ \A i \in 1 .. Len(up) : up[i] = p[Len(down) + i].w

Handshaking(r) ==
    \/ r.down = <<>> /\ r.up = <<HANDSHAKE>>
    \/ r.down = <<HANDSHAKE>> /\ r.up = <<>>

Wire(r) ==
    /\ r.handshake => IsOpen(r) /\ OnTheWire(r.down, r.up, r.pipeline)
    /\ ~r.handshake /\ IsOpen(r) => Handshaking(r)
    /\ ~r.handshake /\ ~IsOpen(r) => r.down = <<>> /\ r.up = <<>>

(* What the stream is doing and why: the idle timer runs on a stream that  *)
(* is set up and has nothing to send, a stream is only set up for a write, *)
(* and a refusal is the answer to a write that is on the wire.             *)
Purpose(r) ==
    /\ r.idle => r.handshake /\ r.pipeline = <<>>
    /\ IsStarted(r) /\ ~r.handshake => r.pipeline # <<>>
    /\ r.refused => r.handshake /\ r.up # <<>>

(* Credential requests are of this start of the stream or an earlier one,  *)
(* and of this one exactly while it is starting.                           *)
Credible(r) ==
    /\ \A c \in r.asked : c <= r.closes
    /\ r.closes \in r.asked <=> r.stream = "starting"

(* What holds before FillWritePipeline has run ... *)
StoreCore(r, q) ==
    /\ r \in RemoteStore
    /\ IsPrefix(r.pipeline, q) /\ Wire(r) /\ Purpose(r) /\ Credible(r)

(* ... and what it makes of it. *)
StoreInv(r, q) ==
    /\ StoreCore(r, q)
    /\ r.pipeline # <<>> => IsStarted(r)
    /\ Len(r.pipeline) = kMaxPendingWrites \/ Len(r.pipeline) = Len(q)

-----------------------------------------------------------------------------
(* Batches of a queue are in the order of their ids and of their calls. *)
Ordered(q) ==
    \A i, j \in 1 .. Len(q) : i < j => q[i].id < q[j].id /\ q[i].w < q[j].w

(* A queued write has been made and is not answered; the ids given out     *)
(* next are new.                                                           *)
Queued ==
    \A u \in Users : \A i \in 1 .. Len(queue[u]) :
      /\ queue[u][i].id < nextBatchId
      /\ queue[u][i].w <= used["write"]
      /\ settled[queue[u][i].w] = "no"

(* A write is in the queue of one user. *)
OneUser ==
    \A u, v \in Users : \A i \in 1 .. Len(queue[u]), j \in 1 .. Len(queue[v]) :
      queue[u][i].w = queue[v][j].w => u = v

(* A completion waits for a batch that is in its user's queue, so it is    *)
(* not called for a later batch with the same id.                          *)
CallbacksQueued ==
    \A c \in callbacks : \E i \in 1 .. Len(queue[c.user]) :
      queue[c.user][i].id = c.id /\ queue[c.user][i].w = c.w

QueueInv ==
    /\ \A u \in Users : Ordered(queue[u])
    /\ Queued /\ OneUser /\ CallbacksQueued
    /\ \A w \in Writes : w > used["write"] => settled[w] = "no"

(* The responses not read are the last entries of the log. *)
Unread(lg, down, u) ==
    /\ Len(down) <= Len(lg)
    /\ \A k \in 1 .. Len(down) :
         /\ lg[Len(lg) - Len(down) + k].user = u
         /\ lg[Len(lg) - Len(down) + k].w = down[k]

(* A write in the log was made, and made by the user it is logged for; the *)
(* settled ones of a user come before everything in his queue.             *)
LoggedBefore ==
    \A i \in 1 .. Len(log) :
      /\ log[i].w <= used["write"]
      /\ \A u \in Users : \A k \in 1 .. Len(queue[u]) :
           /\ log[i].w = queue[u][k].w => log[i].user = u
           /\ log[i].user = u /\ settled[log[i].w] # "no" => log[i].w < queue[u][k].w

LogInv ==
    /\ rs.handshake => Unread(log, rs.down, user)
    /\ LoggedBefore

IInv ==
    /\ TypeOK
    /\ StoreInv(rs, queue[user])
    /\ QueueInv
    /\ LogInv
    /\ LastWriteWins

-----------------------------------------------------------------------------
(* Sequences.                                                              *)

(* Equality of two sums of lengths, from the two inequalities, which are    *)
(* what the arithmetic of the provers finds.                               *)
LEMMA Antisymmetric ==
    ASSUME NEW a \in Int, NEW b \in Int, a <= b, b <= a
    PROVE  a = b
OBVIOUS

(* A function on 1 .. n is a sequence of length n. *)
LEMMA FunctionIsSeq ==
    ASSUME NEW S, NEW n \in Nat, NEW f \in [1 .. n -> S]
    PROVE  f \in Seq(S) /\ Len(f) = n
<1>1. f \in Seq(S)
  BY SeqDef
<1>2. DOMAIN f = 1 .. Len(f) /\ Len(f) \in Nat
  BY <1>1, LenProperties
<1>3. DOMAIN f = 1 .. n
  OBVIOUS
<1>4. QED
  BY <1>1, <1>2, <1>3

(* A piece of a sequence, element by element. *)
LEMMA Piece ==
    ASSUME NEW S, NEW q \in Seq(S), NEW m \in Nat \ {0}, NEW n \in Nat,
           m <= n + 1, n <= Len(q)
    PROVE  /\ SubSeq(q, m, n) \in Seq(S)
           /\ Len(SubSeq(q, m, n)) = n - m + 1
           /\ \A i \in 1 .. n - m + 1 : SubSeq(q, m, n)[i] = q[m + i - 1]
<1>1. \A i \in m .. n : q[i] \in S
  BY LenProperties, ElementOfSeq
<1>2. QED
  BY <1>1, SubSeqProperties

(* The fields of a batch in a sequence of batches. *)
LEMMA BatchFields ==
    ASSUME NEW q \in Seq(Batch), NEW i \in 1 .. Len(q)
    PROVE  q[i] \in Batch /\ q[i].id \in Nat /\ q[i].w \in Writes
<1>1. q[i] \in Batch
  BY ElementOfSeq
<1>2. QED
  BY <1>1 DEF Batch

(* The writes of some batches, one by one. *)
LEMMA WritesInSeq ==
    ASSUME NEW p \in Seq(Batch)
    PROVE  /\ WritesIn(p) \in Seq(Writes)
           /\ Len(WritesIn(p)) = Len(p)
           /\ \A i \in 1 .. Len(p) : WritesIn(p)[i] = p[i].w
<1>1. DOMAIN p = 1 .. Len(p) /\ Len(p) \in Nat
  BY LenProperties
<1>2. \A i \in 1 .. Len(p) : p[i].w \in Writes
  BY BatchFields
<1>3. WritesIn(p) \in [1 .. Len(p) -> Writes]
  BY <1>1, <1>2 DEF WritesIn
<1>4. QED
  BY <1>1, <1>3, FunctionIsSeq DEF WritesIn

-----------------------------------------------------------------------------
(* FillWritePipeline.                                                      *)

(* Behind finds the rest of an ordered queue. *)
LEMMA BehindIsRest ==
    ASSUME NEW q \in Seq(Batch), Ordered(q),
           NEW n \in 0 .. Len(q), NEW id \in Int,
           id = IF n = 0 THEN -1 ELSE q[n].id
    PROVE  Behind(q, id) = SubSeq(q, n + 1, Len(q))
<1> DEFINE Splits(k) == \A i \in DOMAIN q : q[i].id > id <=> i > k
<1>1. DOMAIN q = 1 .. Len(q) /\ Len(q) \in Nat
  BY LenProperties
<1>2. \A i \in 1 .. Len(q) : q[i].id \in Nat
  BY BatchFields
<1>3. Splits(n)
  BY <1>1, <1>2 DEF Ordered
<1>4. ASSUME NEW k \in 0 .. Len(q), Splits(k)
      PROVE  k = n
  <2>1. CASE k < n
    <3>1. k + 1 \in DOMAIN q
      BY <1>1, <2>1
    <3>2. QED
      BY <1>3, <1>4, <2>1, <3>1
  <2>2. CASE n < k
    <3>1. n + 1 \in DOMAIN q
      BY <1>1, <2>2
    <3>2. QED
      BY <1>3, <1>4, <2>2, <3>1
  <2>3. QED
    BY <2>1, <2>2
<1> HIDE DEF Splits
<1>5. (CHOOSE k \in 0 .. Len(q) : Splits(k)) = n
  BY <1>3, <1>4
<1>6. QED
  BY <1>5 DEF Behind, Splits

(* What is added continues the pipeline, as far as the queue and the room  *)
(* in the pipeline go.                                                     *)
LEMMA AdditionContinues ==
    ASSUME ConstantsAssumption,
           NEW p \in Seq(Batch), NEW q \in Seq(Batch), Ordered(q), IsPrefix(p, q)
    PROVE  /\ Addition(p, q) \in Seq(Batch)
           /\ Len(p) + Len(Addition(p, q)) =
                IF Len(q) < kMaxPendingWrites THEN Len(q) ELSE kMaxPendingWrites
           /\ \A i \in 1 .. Len(Addition(p, q)) : Addition(p, q)[i] = q[Len(p) + i]
<1> DEFINE rest == SubSeq(q, Len(p) + 1, Len(q))
           room == kMaxPendingWrites - Len(p)
           fits == IF Len(rest) < room THEN Len(rest) ELSE room
<1>1. Len(p) \in Nat /\ Len(q) \in Nat /\ kMaxPendingWrites \in Nat
  BY LenProperties DEF ConstantsAssumption
<1>2. Len(p) \in 0 .. Len(q) /\ room \in Nat
  BY <1>1 DEF IsPrefix
<1>3. /\ LastBatchId(p) = IF Len(p) = 0 THEN -1 ELSE q[Len(p)].id
      /\ LastBatchId(p) \in Int
  <2>1. CASE p = <<>>
    BY <2>1, EmptySeq DEF LastBatchId
  <2>2. CASE p # <<>>
    <3>1. Len(p) \in 1 .. Len(p)
      BY <1>1, <2>2, EmptySeq
    <3>2. p[Len(p)] = q[Len(p)] /\ p[Len(p)] \in Batch
      BY <3>1, ElementOfSeq DEF IsPrefix
    <3>3. QED
      BY <2>2, <3>1, <3>2 DEF LastBatchId, Batch
  <2>3. QED
    BY <2>1, <2>2
<1>4. Behind(q, LastBatchId(p)) = rest
  BY <1>2, <1>3, BehindIsRest
<1>5. /\ rest \in Seq(Batch)
      /\ Len(rest) = Len(q) - Len(p)
      /\ \A i \in 1 .. Len(q) - Len(p) : rest[i] = q[Len(p) + i]
  <2>1. Len(p) + 1 \in Nat \ {0} /\ Len(p) + 1 <= Len(q) + 1 /\ Len(q) <= Len(q)
    BY <1>1, <1>2
  <2>2. QED
    BY <1>1, <2>1, Piece
<1>6. fits \in Nat /\ fits <= Len(rest) /\ fits <= room
  BY <1>1, <1>2, <1>5
<1>7. Addition(p, q) = SubSeq(rest, 1, fits)
  BY <1>4 DEF Addition
<1> HIDE DEF rest, fits
<1>8. /\ SubSeq(rest, 1, fits) \in Seq(Batch)
      /\ Len(SubSeq(rest, 1, fits)) = fits
      /\ \A i \in 1 .. fits : SubSeq(rest, 1, fits)[i] = rest[i]
  BY <1>5, <1>6, Piece
<1>9. Len(p) + fits = IF Len(q) < kMaxPendingWrites THEN Len(q) ELSE kMaxPendingWrites
  BY <1>1, <1>2, <1>5 DEF fits
<1>10. QED
  BY <1>1, <1>2, <1>5, <1>6, <1>7, <1>8, <1>9

(* What FillWritePipeline does to each part of the remote store. *)
Filled(r, more, f) ==
    LET live == IsOpen(r) /\ r.handshake
        starts == ~IsStarted(r) /\ r.pipeline \o more # <<>>
    IN  /\ f \in RemoteStore
        /\ f.pipeline = r.pipeline \o more
        /\ f.down = r.down
        /\ f.up = IF live THEN r.up \o WritesIn(more) ELSE r.up
        /\ f.handshake = r.handshake
        /\ f.refused = r.refused
        /\ f.closes = r.closes
        /\ f.stream = IF ~starts THEN r.stream
                      ELSE IF r.stream = "error" THEN "backoff" ELSE "starting"
        /\ f.asked = IF starts /\ r.stream # "error"
                     THEN r.asked \cup {r.closes} ELSE r.asked
        /\ f.idle = ((r.idle /\ ~(live /\ more # <<>>))
                     \/ (IsOpen(r) /\ more = <<>> /\ r.pipeline = <<>>))

LEMMA FillFields ==
    ASSUME NEW r \in RemoteStore, NEW q \in Seq(Batch),
           Addition(r.pipeline, q) \in Seq(Batch)
    PROVE  Filled(r, Addition(r.pipeline, q), FillWritePipeline(r, q))
<1> DEFINE more == Addition(r.pipeline, q)
           live == IsOpen(r) /\ r.handshake
           pipe == r.pipeline \o more
           up == IF live THEN r.up \o WritesIn(more) ELSE r.up
           idle == (r.idle /\ ~(live /\ more # <<>>))
                   \/ (IsOpen(r) /\ more = <<>> /\ r.pipeline = <<>>)
           added == [r EXCEPT !.pipeline = pipe, !.up = up, !.idle = idle]
<1>1. pipe \in Seq(Batch)
  BY ConcatProperties DEF RemoteStore
<1>2. up \in Seq(Writes \cup {HANDSHAKE})
  <2>1. WritesIn(more) \in Seq(Writes)
    BY WritesInSeq
  <2>2. WritesIn(more) \in Seq(Writes \cup {HANDSHAKE})
    BY <2>1, SeqMonotonic
  <2>3. r.up \in Seq(Writes \cup {HANDSHAKE})
    BY DEF RemoteStore
  <2>4. r.up \o WritesIn(more) \in Seq(Writes \cup {HANDSHAKE})
    BY <2>2, <2>3, ConcatProperties
  <2>5. QED
    BY <2>3, <2>4
<1>3. idle \in BOOLEAN
  OBVIOUS
<1>4. FillWritePipeline(r, q) =
        IF ShouldStartWriteStream(added) THEN StartStream(added) ELSE added
  BY DEF FillWritePipeline
<1> HIDE DEF more, pipe, up, idle
<1>5. added \in RemoteStore
  BY <1>1, <1>2, <1>3 DEF RemoteStore
<1>6. /\ added.pipeline = pipe /\ added.up = up /\ added.idle = idle
      /\ added.down = r.down /\ added.handshake = r.handshake
      /\ added.refused = r.refused /\ added.closes = r.closes
      /\ added.stream = r.stream /\ added.asked = r.asked
  BY DEF RemoteStore
<1> HIDE DEF added
<1>7. ShouldStartWriteStream(added) <=> ~IsStarted(r) /\ pipe # <<>>
  BY <1>6 DEF ShouldStartWriteStream, IsStarted
<1>8. StartStream(added) =
        IF r.stream = "error" THEN [added EXCEPT !.stream = "backoff"]
        ELSE [added EXCEPT !.stream = "starting", !.asked = r.asked \cup {r.closes}]
  BY <1>6 DEF StartStream
<1>9. CASE ShouldStartWriteStream(added)
  <2> DEFINE f == StartStream(added)
  <2>1. /\ f \in RemoteStore
        /\ f.pipeline = pipe /\ f.up = up /\ f.idle = idle
        /\ f.down = r.down /\ f.handshake = r.handshake
        /\ f.refused = r.refused /\ f.closes = r.closes
        /\ f.stream = IF r.stream = "error" THEN "backoff" ELSE "starting"
        /\ f.asked = IF r.stream # "error" THEN r.asked \cup {r.closes} ELSE r.asked
    <3>1. CASE r.stream = "error"
      BY <1>5, <1>6, <1>8, <3>1 DEF RemoteStore
    <3>2. CASE r.stream # "error"
      <4> DEFINE asked == r.asked \cup {r.closes}
      <4>1. asked \in SUBSET Nat
        BY DEF RemoteStore
      <4>2. f = [added EXCEPT !.stream = "starting", !.asked = asked]
        BY <1>8, <3>2
      <4> HIDE DEF asked, f
      <4>3. /\ f \in RemoteStore
            /\ f.pipeline = added.pipeline /\ f.up = added.up /\ f.idle = added.idle
            /\ f.down = added.down /\ f.handshake = added.handshake
            /\ f.refused = added.refused /\ f.closes = added.closes
            /\ f.stream = "starting" /\ f.asked = asked
        BY <1>5, <4>1, <4>2 DEF RemoteStore
      <4>4. QED
        BY <1>6, <3>2, <4>3 DEF asked
    <3>3. QED
      BY <3>1, <3>2
  <2>2. FillWritePipeline(r, q) = f
    BY <1>4, <1>9
  <2> HIDE DEF f
  <2>3. ~IsStarted(r) /\ pipe # <<>>
    BY <1>7, <1>9
  <2>4. QED
    BY <2>1, <2>2, <2>3 DEF more, pipe, up, idle, Filled
<1>10. CASE ~ShouldStartWriteStream(added)
  <2>1. FillWritePipeline(r, q) = added
    BY <1>4, <1>10
  <2>2. ~(~IsStarted(r) /\ pipe # <<>>)
    BY <1>7, <1>10
  <2>3. QED
    BY <1>5, <1>6, <2>1, <2>2 DEF more, pipe, up, idle, Filled
<1>11. QED
  BY <1>9, <1>10

(* A concatenation, element by element. *)
LEMMA Joined ==
    ASSUME NEW S, NEW s \in Seq(S), NEW t \in Seq(S)
    PROVE  /\ s \o t \in Seq(S)
           /\ Len(s \o t) = Len(s) + Len(t)
           /\ \A i \in 1 .. Len(s) : (s \o t)[i] = s[i]
           /\ \A i \in 1 .. Len(t) : (s \o t)[Len(s) + i] = t[i]
           /\ \A i \in Len(s) + 1 .. Len(s) + Len(t) : (s \o t)[i] = t[i - Len(s)]
           /\ (s \o t = <<>>) <=> (s = <<>> /\ t = <<>>)
<1>1. Len(s) \in Nat /\ Len(t) \in Nat
  BY LenProperties
<1>2. /\ s \o t \in Seq(S)
      /\ Len(s \o t) = Len(s) + Len(t)
      /\ \A i \in 1 .. Len(s) + Len(t) :
           (s \o t)[i] = IF i <= Len(s) THEN s[i] ELSE t[i - Len(s)]
  BY ConcatProperties
<1>3. \A i \in 1 .. Len(t) : (s \o t)[Len(s) + i] = t[i]
  <2>1. TAKE i \in 1 .. Len(t)
  <2>2. /\ Len(s) + i \in 1 .. Len(s) + Len(t)
        /\ ~(Len(s) + i <= Len(s)) /\ (Len(s) + i) - Len(s) = i
    BY <1>1
  <2>3. QED
    BY <1>2, <2>2
<1>4. QED
  BY <1>1, <1>2, <1>3, ConcatEqualIffEmpty

(* Batches that continue a prefix of the queue make a longer one. *)
LEMMA PrefixGrows ==
    ASSUME NEW q \in Seq(Batch), NEW p \in Seq(Batch), IsPrefix(p, q),
           NEW more \in Seq(Batch),
           Len(p) + Len(more) <= Len(q),
           Len(p) + Len(more) <= kMaxPendingWrites,
           \A i \in 1 .. Len(more) : more[i] = q[Len(p) + i]
    PROVE  IsPrefix(p \o more, q)
<1>1. Len(p) \in Nat /\ Len(q) \in Nat /\ Len(more) \in Nat
  BY LenProperties
<1>2. Len(p \o more) = Len(p) + Len(more)
  BY Joined
<1>3. ASSUME NEW i \in 1 .. Len(p) + Len(more)
      PROVE  (p \o more)[i] = q[i]
  <2>1. CASE i <= Len(p)
    <3>1. i \in 1 .. Len(p)
      BY <1>1, <2>1
    <3>2. QED
      BY <3>1, Joined DEF IsPrefix
  <2>2. CASE i > Len(p)
    <3>1. /\ i \in Len(p) + 1 .. Len(p) + Len(more)
          /\ i - Len(p) \in 1 .. Len(more) /\ Len(p) + (i - Len(p)) = i
      BY <1>1, <2>2
    <3>2. (p \o more)[i] = more[i - Len(p)]
      BY <3>1, Joined
    <3>3. QED
      BY <3>1, <3>2
  <2>3. QED
    BY <1>1, <2>1, <2>2
<1>4. QED
  BY <1>2, <1>3 DEF IsPrefix

(* Writes that are sent when they are added to the pipeline keep the wire  *)
(* in step with it.                                                        *)
LEMMA WireGrows ==
    ASSUME NEW S, Writes \subseteq S,
           NEW down \in Seq(S), NEW up \in Seq(S),
           NEW p \in Seq(Batch), NEW more \in Seq(Batch),
           OnTheWire(down, up, p)
    PROVE  OnTheWire(down, up \o WritesIn(more), p \o more)
<1> DEFINE sent == WritesIn(more)
<1>1. /\ Len(p) \in Nat /\ Len(more) \in Nat
      /\ Len(down) \in Nat /\ Len(up) \in Nat
  BY LenProperties
<1>2. sent \in Seq(S)
  BY WritesInSeq, SeqMonotonic
<1>3. Len(sent) = Len(more)
  BY WritesInSeq
<1>4. \A i \in 1 .. Len(more) : sent[i] = more[i].w
  BY WritesInSeq
<1> HIDE DEF sent
<1>5. Len(up \o sent) = Len(up) + Len(more)
  <2>1. Len(up \o sent) = Len(up) + Len(sent)
    BY <1>2, Joined
  <2>2. QED
    BY <1>3, <2>1, Zenon
<1>6. \A i \in 1 .. Len(up) : (up \o sent)[i] = up[i]
  BY <1>2, Joined
<1>7. \A i \in 1 .. Len(more) : (up \o sent)[Len(up) + i] = sent[i]
  BY <1>2, <1>3, Joined
<1>8. Len(p \o more) = Len(p) + Len(more)
  BY Joined
<1>9. \A i \in 1 .. Len(p) : (p \o more)[i] = p[i]
  BY Joined
<1>10. \A i \in 1 .. Len(more) : (p \o more)[Len(p) + i] = more[i]
  BY Joined
<1>11. Len(down) + Len(up) <= Len(p) /\ Len(p) <= Len(down) + Len(up)
  BY <1>1 DEF OnTheWire
<1>12. Len(down) + Len(up \o sent) = Len(p \o more)
  <2>1. /\ Len(down) + Len(up \o sent) <= Len(p \o more)
        /\ Len(p \o more) <= Len(down) + Len(up \o sent)
        /\ Len(down) + Len(up \o sent) \in Int /\ Len(p \o more) \in Int
    BY <1>1, <1>5, <1>8, <1>11
  <2>2. QED
    BY <2>1, Antisymmetric, Zenon
<1>13. ASSUME NEW i \in 1 .. Len(down)
       PROVE  down[i] = (p \o more)[i].w
  <2>1. i \in 1 .. Len(p)
    BY <1>1, <1>11
  <2>2. QED
    BY <1>9, <2>1 DEF OnTheWire
<1>14. ASSUME NEW i \in 1 .. Len(up) + Len(more)
       PROVE  (up \o sent)[i] = (p \o more)[Len(down) + i].w
  <2>1. CASE i \in 1 .. Len(up)
    <3>1. Len(down) + i \in 1 .. Len(p)
      BY <1>1, <1>11, <2>1
    <3>2. QED
      BY <1>6, <1>9, <2>1, <3>1 DEF OnTheWire
  <2>2. CASE i \notin 1 .. Len(up)
    <3>1. PICK k \in 1 .. Len(more) : i = Len(up) + k
      <4>1. i - Len(up) \in 1 .. Len(more) /\ i = Len(up) + (i - Len(up))
        BY <1>1, <2>2
      <4>2. QED
        BY <4>1
    <3>2. Len(down) + i = Len(p) + k
      <4>1. /\ Len(down) + i <= Len(p) + k /\ Len(p) + k <= Len(down) + i
            /\ Len(down) + i \in Int /\ Len(p) + k \in Int
        BY <1>1, <1>11, <3>1
      <4>2. QED
        BY <4>1, Antisymmetric, Zenon
    <3>3. QED
      BY <1>4, <1>7, <1>10, <3>1, <3>2
  <2>3. QED
    BY <2>1, <2>2
<1>15. QED
  BY <1>5, <1>12, <1>13, <1>14 DEF OnTheWire, sent

(* A stretch of additions fits the queue and the pipeline. *)
LEMMA AdditionFits ==
    ASSUME ConstantsAssumption,
           NEW p \in Seq(Batch), NEW q \in Seq(Batch), Ordered(q), IsPrefix(p, q)
    PROVE  /\ IsPrefix(p \o Addition(p, q), q)
           /\ \/ Len(p \o Addition(p, q)) = kMaxPendingWrites
              \/ Len(p \o Addition(p, q)) = Len(q)
<1> DEFINE more == Addition(p, q)
<1>1. /\ more \in Seq(Batch)
      /\ Len(p) + Len(more) =
           IF Len(q) < kMaxPendingWrites THEN Len(q) ELSE kMaxPendingWrites
      /\ \A i \in 1 .. Len(more) : more[i] = q[Len(p) + i]
  BY AdditionContinues
<1> HIDE DEF more
<1>2. /\ Len(p) \in Nat /\ Len(q) \in Nat /\ Len(more) \in Nat
      /\ kMaxPendingWrites \in Nat
  BY <1>1, LenProperties DEF ConstantsAssumption
<1>3. Len(p \o more) = Len(p) + Len(more)
  BY <1>1, Joined
<1>4. Len(p) + Len(more) <= Len(q) /\ Len(p) + Len(more) <= kMaxPendingWrites
  BY <1>1, <1>2
<1>5. IsPrefix(p \o more, q)
  BY <1>1, <1>4, PrefixGrows
<1>6. Len(p \o more) = kMaxPendingWrites \/ Len(p \o more) = Len(q)
  BY <1>1, <1>3, Zenon
<1>7. QED
  BY <1>5, <1>6 DEF more

(* FillWritePipeline establishes StoreInv. *)
LEMMA FillStore ==
    ASSUME ConstantsAssumption, NEW r, NEW q \in Seq(Batch),
           Ordered(q), StoreCore(r, q)
    PROVE  /\ StoreInv(FillWritePipeline(r, q), q)
           /\ FillWritePipeline(r, q).down = r.down
           /\ FillWritePipeline(r, q).handshake = r.handshake
<1> DEFINE p == r.pipeline
           more == Addition(p, q)
           f == FillWritePipeline(r, q)
           live == IsOpen(r) /\ r.handshake
           starts == ~IsStarted(r) /\ p \o more # <<>>
<1>1. /\ r \in RemoteStore /\ IsPrefix(p, q)
      /\ Wire(r) /\ Purpose(r) /\ Credible(r)
  BY DEF StoreCore
<1>2. /\ p \in Seq(Batch)
      /\ r.up \in Seq(Writes \cup {HANDSHAKE}) /\ r.down \in Seq(Writes \cup {HANDSHAKE})
      /\ r.handshake \in BOOLEAN /\ r.idle \in BOOLEAN /\ r.refused \in BOOLEAN
      /\ r.stream \in {"initial", "starting", "backoff", "open", "error"}
  BY <1>1 DEF RemoteStore
<1>3. more \in Seq(Batch)
  BY <1>1, <1>2, AdditionContinues
<1>4. /\ f \in RemoteStore
      /\ f.pipeline = p \o more
      /\ f.down = r.down
      /\ f.up = IF live THEN r.up \o WritesIn(more) ELSE r.up
      /\ f.handshake = r.handshake
      /\ f.refused = r.refused
      /\ f.closes = r.closes
      /\ f.stream = IF ~starts THEN r.stream
                    ELSE IF r.stream = "error" THEN "backoff" ELSE "starting"
      /\ f.asked = IF starts /\ r.stream # "error"
                   THEN r.asked \cup {r.closes} ELSE r.asked
      /\ f.idle = ((r.idle /\ ~(live /\ more # <<>>))
                   \/ (IsOpen(r) /\ more = <<>> /\ p = <<>>))
  <2>1. Filled(r, more, f)
    BY <1>1, <1>3, FillFields
  <2>2. QED
    BY <2>1 DEF Filled
<1>5. IsPrefix(p \o more, q) /\ (Len(p \o more) = kMaxPendingWrites \/ Len(p \o more) = Len(q))
  BY <1>1, <1>2, AdditionFits
<1>6. (p \o more = <<>>) <=> (p = <<>> /\ more = <<>>)
  BY <1>2, <1>3, Joined
<1>7. IsOpen(f) <=> IsOpen(r)
  BY <1>2, <1>4 DEF IsOpen, IsStarted
<1>8. p \o more # <<>> => IsStarted(f)
  BY <1>2, <1>4 DEF IsStarted
<1>9. OnTheWire(r.down, r.up, p) => OnTheWire(r.down, r.up \o WritesIn(more), p \o more)
  BY <1>2, <1>3, WireGrows
<1>10. r.up # <<>> => r.up \o WritesIn(more) # <<>>
  <2>1. WritesIn(more) \in Seq(Writes \cup {HANDSHAKE})
    BY <1>3, WritesInSeq, SeqMonotonic
  <2>2. QED
    BY <1>2, <2>1, Joined
<1> HIDE DEF p, more, f
<1>11. Wire(f)
  <2>1. CASE r.handshake
    BY <1>1, <1>4, <1>7, <1>9, <2>1 DEF Wire, p
  <2>2. CASE ~r.handshake
    BY <1>1, <1>4, <1>7, <2>2 DEF Wire, Handshaking
  <2>3. QED
    BY <2>1, <2>2
<1>12. f.idle => f.handshake /\ f.pipeline = <<>>
  <2>1. CASE r.idle
    BY <1>1, <1>4, <1>6, <2>1 DEF Purpose, Wire, p
  <2>2. CASE ~r.idle
    BY <1>1, <1>4, <1>6, <2>2 DEF Purpose, p, IsOpen, IsStarted
  <2>3. QED
    BY <2>1, <2>2
<1>13. IsStarted(f) /\ ~f.handshake => f.pipeline # <<>>
  <2>1. CASE starts
    BY <1>4, <2>1
  <2>2. CASE ~starts
    BY <1>1, <1>4, <1>6, <2>2 DEF Purpose, IsStarted, p
  <2>3. QED
    BY <2>1, <2>2
<1>14. f.refused => f.handshake /\ f.up # <<>>
  BY <1>1, <1>4, <1>10 DEF Purpose
<1>15. Credible(f)
  <2>1. CASE starts
    BY <1>1, <1>2, <1>4, <2>1 DEF Credible, IsStarted, RemoteStore
  <2>2. CASE ~starts
    BY <1>1, <1>4, <2>2 DEF Credible
  <2>3. QED
    BY <2>1, <2>2
<1>16. StoreCore(f, q)
  BY <1>4, <1>5, <1>11, <1>12, <1>13, <1>14, <1>15 DEF StoreCore, Purpose
<1>17. QED
  BY <1>4, <1>5, <1>8, <1>16 DEF StoreInv, f

-----------------------------------------------------------------------------
(* StoreInv is kept by every step: first the steps that leave the queue.   *)

(* A step that brings no response: those not read stay, or the wire is cut *)
(* or starts anew.                                                         *)
NoAnswer(r, s) ==
    s.handshake => s.down = <<>> \/ (r.handshake /\ s.down = r.down)

(* The parts of a remote store. *)
LEMMA StoreFields ==
    ASSUME NEW r \in RemoteStore
    PROVE  /\ r.pipeline \in Seq(Batch)
           /\ r.stream \in {"initial", "starting", "backoff", "open", "error"}
           /\ r.handshake \in BOOLEAN /\ r.idle \in BOOLEAN
           /\ r.closes \in Nat /\ r.asked \subseteq Nat
           /\ r.up \in Seq(Writes \cup {HANDSHAKE})
           /\ r.down \in Seq(Writes \cup {HANDSHAKE})
           /\ r.refused \in BOOLEAN
BY DEF RemoteStore

LEMMA DisconnectedFields ==
    ASSUME NEW r \in RemoteStore, NEW state \in {"initial", "error"}
    PROVE  LET d == Disconnected(r, state) IN
           /\ d \in RemoteStore
           /\ d.pipeline = r.pipeline /\ d.handshake = r.handshake
           /\ d.stream = state /\ d.closes = r.closes + 1 /\ d.asked = r.asked
           /\ ~d.idle /\ d.up = <<>> /\ d.down = <<>> /\ ~d.refused
<1> DEFINE closes == r.closes + 1
<1>1. closes \in Nat
  BY StoreFields
<1>2. Disconnected(r, state) =
        [r EXCEPT !.stream = state, !.idle = FALSE, !.closes = closes,
                  !.up = <<>>, !.down = <<>>, !.refused = FALSE]
  BY DEF Disconnected
<1> HIDE DEF closes
<1>3. <<>> \in Seq(Writes \cup {HANDSHAKE})
  OBVIOUS
<1>4. /\ Disconnected(r, state) \in RemoteStore
      /\ Disconnected(r, state).closes = closes
  BY <1>1, <1>2, <1>3 DEF RemoteStore
<1>5. QED
  BY <1>2, <1>4 DEF RemoteStore, closes

LEMMA CredentialsStore ==
    ASSUME StoreInv(rs, queue[user]), NEW c \in rs.asked, Credentials(c)
    PROVE  StoreInv(rs', queue[user]) /\ NoAnswer(rs, rs')
<1> DEFINE asked == rs.asked \ {c}
<1>1. /\ rs \in RemoteStore /\ IsPrefix(rs.pipeline, queue[user])
      /\ Wire(rs) /\ Purpose(rs) /\ Credible(rs)
  BY DEF StoreInv, StoreCore
<1>2. asked \in SUBSET Nat /\ asked \subseteq rs.asked
  BY <1>1, StoreFields
<1>3. <<HANDSHAKE>> \in Seq(Writes \cup {HANDSHAKE})
  OBVIOUS
<1>4. CASE c = rs.closes
  <2> DEFINE r == [rs EXCEPT !.asked = asked]
  <2>1. rs' = [r EXCEPT !.stream = "open", !.up = <<HANDSHAKE>>]
    BY <1>4 DEF Credentials, Current
  <2>2. rs.closes \notin asked
    BY <1>4
  <2> HIDE DEF asked
  <2>r. /\ r \in RemoteStore
        /\ r.asked = asked /\ r.stream = rs.stream /\ r.up = rs.up
        /\ r.pipeline = rs.pipeline /\ r.handshake = rs.handshake
        /\ r.idle = rs.idle /\ r.closes = rs.closes /\ r.down = rs.down
        /\ r.refused = rs.refused
    BY <1>1, <1>2 DEF RemoteStore
  <2> HIDE DEF r
  <2>3. /\ rs' \in RemoteStore
        /\ rs'.asked = asked /\ rs'.stream = "open" /\ rs'.up = <<HANDSHAKE>>
        /\ rs'.pipeline = rs.pipeline /\ rs'.handshake = rs.handshake
        /\ rs'.idle = rs.idle /\ rs'.closes = rs.closes /\ rs'.down = rs.down
        /\ rs'.refused = rs.refused
    BY <1>3, <2>1, <2>r DEF RemoteStore
  <2>4. rs.stream = "starting"
    BY <1>1, <1>4 DEF Credible
  <2>5. ~rs.handshake /\ ~rs.idle /\ ~rs.refused /\ rs.down = <<>> /\ rs.pipeline # <<>>
    BY <1>1, <2>4 DEF Wire, Purpose, IsOpen, IsStarted
  <2>6. Wire(rs') /\ Purpose(rs')
    BY <2>3, <2>5 DEF Wire, Purpose, Handshaking, IsOpen, IsStarted
  <2>7. Credible(rs')
    BY <1>1, <1>2, <2>2, <2>3 DEF Credible
  <2>8. QED
    BY <1>1, <2>3, <2>6, <2>7 DEF StoreInv, StoreCore, IsStarted, NoAnswer
<1>5. CASE c # rs.closes
  <2>1. rs' = [rs EXCEPT !.asked = asked]
    BY <1>5 DEF Credentials, Current
  <2>2. rs.closes \in asked <=> rs.closes \in rs.asked
    BY <1>5
  <2> HIDE DEF asked
  <2>3. /\ rs' \in RemoteStore
        /\ rs'.asked = asked /\ rs'.stream = rs.stream /\ rs'.up = rs.up
        /\ rs'.pipeline = rs.pipeline /\ rs'.handshake = rs.handshake
        /\ rs'.idle = rs.idle /\ rs'.closes = rs.closes /\ rs'.down = rs.down
        /\ rs'.refused = rs.refused
    BY <1>1, <1>2, <2>1 DEF RemoteStore
  <2>4. Wire(rs') /\ Purpose(rs')
    BY <1>1, <2>3 DEF Wire, Purpose, Handshaking, IsOpen, IsStarted
  <2>5. Credible(rs')
    BY <1>1, <1>2, <2>2, <2>3 DEF Credible
  <2>6. QED
    BY <1>1, <2>3, <2>4, <2>5 DEF StoreInv, StoreCore, IsStarted, NoAnswer
<1>6. QED
  BY <1>4, <1>5

LEMMA NoCredentialsStore ==
    ASSUME StoreInv(rs, queue[user]), NEW c \in rs.asked, NoCredentials(c)
    PROVE  StoreInv(rs', queue[user]) /\ NoAnswer(rs, rs')
<1> DEFINE asked == rs.asked \ {c}
           closes == rs.closes + 1
<1>1. /\ rs \in RemoteStore /\ IsPrefix(rs.pipeline, queue[user])
      /\ Wire(rs) /\ Purpose(rs) /\ Credible(rs)
  BY DEF StoreInv, StoreCore
<1>2. asked \in SUBSET Nat /\ asked \subseteq rs.asked /\ closes \in Nat
  BY <1>1, StoreFields
<1>3. c = rs.closes
  BY DEF NoCredentials, Current
<1>4. \A n \in rs.asked : n <= closes /\ n # closes
  BY <1>1, StoreFields DEF Credible
<1> DEFINE d == Disconnected(rs, "error")
           e == [d EXCEPT !.asked = asked]
<1>5. rs' = StartStream(e)
  <2>1. d.asked = rs.asked
    BY <1>1, DisconnectedFields
  <2>2. rs' = StartStream([d EXCEPT !.asked = d.asked \ {c}])
    BY DEF NoCredentials
  <2>3. QED
    BY <2>1, <2>2
<1>6. /\ rs' \in RemoteStore
      /\ rs'.asked = asked /\ rs'.stream = "backoff" /\ rs'.up = <<>>
      /\ rs'.pipeline = rs.pipeline /\ rs'.handshake = rs.handshake
      /\ ~rs'.idle /\ rs'.closes = closes /\ rs'.down = <<>> /\ ~rs'.refused
  <2>1. /\ d \in RemoteStore
        /\ d.pipeline = rs.pipeline /\ d.handshake = rs.handshake
        /\ d.stream = "error" /\ d.closes = closes
        /\ ~d.idle /\ d.up = <<>> /\ d.down = <<>> /\ ~d.refused
    BY <1>1, DisconnectedFields
  <2> HIDE DEF d, asked, closes
  <2>2. /\ e \in RemoteStore /\ e.asked = asked
        /\ e.pipeline = d.pipeline /\ e.handshake = d.handshake
        /\ e.stream = "error" /\ e.closes = d.closes
        /\ ~e.idle /\ e.up = <<>> /\ e.down = <<>> /\ ~e.refused
    BY <1>2, <2>1 DEF RemoteStore
  <2> HIDE DEF e
  <2>3. rs' = [e EXCEPT !.stream = "backoff"]
    BY <1>5, <2>2 DEF StartStream
  <2>4. /\ rs' \in RemoteStore /\ rs'.asked = asked
        /\ rs'.pipeline = e.pipeline /\ rs'.handshake = e.handshake
        /\ rs'.stream = "backoff" /\ rs'.closes = e.closes
        /\ ~rs'.idle /\ rs'.up = <<>> /\ rs'.down = <<>> /\ ~rs'.refused
    BY <2>2, <2>3 DEF RemoteStore
  <2>5. QED
    BY <2>1, <2>2, <2>4
<1> HIDE DEF asked, closes
<1>7. rs.stream = "starting"
  BY <1>1, <1>3 DEF Credible
<1>8. ~rs.handshake /\ rs.pipeline # <<>>
  BY <1>1, <1>7 DEF Wire, Purpose, IsOpen, IsStarted
<1>9. Wire(rs') /\ Purpose(rs')
  BY <1>6, <1>8 DEF Wire, Purpose, IsOpen
<1>10. \A n \in asked : n <= closes /\ n # closes
  BY <1>2, <1>4, Zenon
<1>11. Credible(rs')
  BY <1>6, <1>10, Zenon DEF Credible
<1>12. QED
  BY <1>1, <1>6, <1>9, <1>11 DEF StoreInv, StoreCore, IsStarted, NoAnswer

LEMMA BackoffStore ==
    ASSUME StoreInv(rs, queue[user]), BackoffElapsed
    PROVE  StoreInv(rs', queue[user]) /\ NoAnswer(rs, rs')
<1> DEFINE asked == rs.asked \cup {rs.closes}
<1>1. /\ rs \in RemoteStore /\ IsPrefix(rs.pipeline, queue[user])
      /\ Wire(rs) /\ Purpose(rs) /\ Credible(rs) /\ rs.stream = "backoff"
  BY DEF StoreInv, StoreCore, BackoffElapsed
<1>2. asked \in SUBSET Nat /\ (\A n \in asked : n <= rs.closes) /\ rs.closes \in asked
  BY <1>1, StoreFields DEF Credible
<1>3. rs' = [rs EXCEPT !.stream = "starting", !.asked = asked]
  BY <1>1 DEF BackoffElapsed, StartStream, RemoteStore
<1> HIDE DEF asked
<1>4. /\ rs' \in RemoteStore
      /\ rs'.asked = asked /\ rs'.stream = "starting" /\ rs'.up = rs.up
      /\ rs'.pipeline = rs.pipeline /\ rs'.handshake = rs.handshake
      /\ rs'.idle = rs.idle /\ rs'.closes = rs.closes /\ rs'.down = rs.down
      /\ rs'.refused = rs.refused
  BY <1>1, <1>2, <1>3 DEF RemoteStore
<1>5. Wire(rs') /\ Purpose(rs')
  BY <1>1, <1>4 DEF Wire, Purpose, IsOpen, IsStarted
<1>6. Credible(rs')
  BY <1>2, <1>4 DEF Credible
<1>7. QED
  BY <1>1, <1>4, <1>5, <1>6 DEF StoreInv, StoreCore, IsStarted, NoAnswer

(* Credentials asked for before a stream is closed are never current again. *)
LEMMA ClosedCredible ==
    ASSUME NEW r \in RemoteStore, Credible(r)
    PROVE  (\A c \in r.asked : c <= r.closes + 1) /\ r.closes + 1 \notin r.asked
<1>1. \A c \in r.asked : c <= r.closes /\ c \in Nat /\ r.closes \in Nat
  BY StoreFields DEF Credible
<1>2. QED
  BY <1>1

(* A stopped stream: the wire is empty, and only older credentials are     *)
(* awaited.                                                                *)
Stopped(s) ==
    /\ s \in RemoteStore
    /\ s.stream \in {"initial", "error"}
    /\ ~s.handshake /\ ~s.idle /\ ~s.refused
    /\ s.up = <<>> /\ s.down = <<>>
    /\ \A c \in s.asked : c <= s.closes
    /\ s.closes \notin s.asked

LEMMA StopFields ==
    ASSUME NEW r \in RemoteStore, Wire(r), Purpose(r), Credible(r)
    PROVE  Stopped(Stop(r)) /\ Stop(r).pipeline = r.pipeline
<1>1. CASE ~IsStarted(r)
  <2>1. Stop(r) = r
    BY <1>1 DEF Stop
  <2>2. r.stream \in {"initial", "error"}
    BY <1>1, StoreFields DEF IsStarted
  <2>3. QED
    BY <2>1, <2>2, StoreFields DEF Stopped, Wire, Purpose, Credible, IsOpen
<1>2. CASE IsStarted(r)
  <2> DEFINE d == Disconnected(r, "initial")
  <2>1. Stop(r) = [d EXCEPT !.handshake = FALSE]
    BY <1>2 DEF Stop
  <2>2. /\ d \in RemoteStore
        /\ d.pipeline = r.pipeline /\ d.stream = "initial"
        /\ d.closes = r.closes + 1 /\ d.asked = r.asked
        /\ ~d.idle /\ d.up = <<>> /\ d.down = <<>> /\ ~d.refused
    BY DisconnectedFields
  <2>3. (\A c \in d.asked : c <= d.closes) /\ d.closes \notin d.asked
    BY <2>2, ClosedCredible
  <2> HIDE DEF d
  <2>4. /\ Stop(r) \in RemoteStore
        /\ Stop(r).pipeline = d.pipeline /\ Stop(r).stream = "initial"
        /\ Stop(r).closes = d.closes /\ Stop(r).asked = d.asked
        /\ ~Stop(r).idle /\ Stop(r).up = <<>> /\ Stop(r).down = <<>>
        /\ ~Stop(r).refused /\ ~Stop(r).handshake
    BY <2>1, <2>2 DEF RemoteStore
  <2>5. QED
    BY <2>2, <2>3, <2>4 DEF Stopped
<1>3. QED
  BY <1>1, <1>2

(* A stopped stream is a good store, and with nothing in the pipeline it   *)
(* need not be started.                                                    *)
LEMMA StoppedCore ==
    ASSUME NEW s, NEW q, Stopped(s), IsPrefix(s.pipeline, q)
    PROVE  StoreCore(s, q)
<1>1. ~IsOpen(s) /\ ~IsStarted(s) /\ s.stream # "starting"
  BY DEF Stopped, IsOpen, IsStarted
<1>2. QED
  BY <1>1 DEF Stopped, StoreCore, Wire, Purpose, Credible

(* The empty pipeline is the beginning of any queue. *)
LEMMA EmptyPrefix ==
    ASSUME ConstantsAssumption, NEW q \in Seq(Batch)
    PROVE  IsPrefix(<<>>, q)
<1>1. Len(q) \in Nat /\ kMaxPendingWrites \in Nat
  BY LenProperties DEF ConstantsAssumption
<1>2. Len(<<>>) = 0
  OBVIOUS
<1>3. QED
  BY <1>1, <1>2 DEF IsPrefix

LEMMA RestartStore ==
    ASSUME ConstantsAssumption,
           NEW r \in RemoteStore, Wire(r), Purpose(r), Credible(r),
           NEW q \in Seq(Batch), Ordered(q)
    PROVE  StoreInv(RestartNetwork(r, q), q) /\ ~RestartNetwork(r, q).handshake
<1> DEFINE t == Stop(r)
           s == [t EXCEPT !.pipeline = <<>>, !.stream = "initial"]
<1>1. Stopped(t)
  BY StopFields
<1>2. RestartNetwork(r, q) = FillWritePipeline(s, q)
  BY DEF RestartNetwork
<1> HIDE DEF t
<1>3. /\ s \in RemoteStore
      /\ s.pipeline = <<>> /\ s.stream = "initial"
      /\ s.closes = t.closes /\ s.asked = t.asked
      /\ s.idle = t.idle /\ s.up = t.up /\ s.down = t.down
      /\ s.refused = t.refused /\ s.handshake = t.handshake
  <2>1. <<>> \in Seq(Batch)
    BY EmptySeq
  <2>2. t \in RemoteStore
    BY <1>1 DEF Stopped
  <2>3. QED
    BY <2>1, <2>2 DEF RemoteStore
<1> HIDE DEF s
<1>4. Stopped(s) /\ s.pipeline = <<>>
  BY <1>1, <1>3 DEF Stopped
<1>5. StoreCore(s, q)
  BY <1>4, EmptyPrefix, StoppedCore
<1>6. QED
  BY <1>2, <1>4, <1>5, FillStore DEF Stopped

LEMMA NewStore ==
    ASSUME ConstantsAssumption, NEW q \in Seq(Batch)
    PROVE  StoreCore(NewRemoteStore, q) /\ ~NewRemoteStore.handshake
<1>1. NewRemoteStore \in RemoteStore
  <2>1. <<>> \in Seq(Batch) /\ <<>> \in Seq(Writes \cup {HANDSHAKE})
    BY EmptySeq
  <2>2. {} \subseteq Nat
    OBVIOUS
  <2>3. QED
    BY <2>1, <2>2 DEF NewRemoteStore, RemoteStore
<1>2. Stopped(NewRemoteStore) /\ NewRemoteStore.pipeline = <<>>
  BY <1>1 DEF NewRemoteStore, Stopped
<1>3. QED
  BY <1>2, EmptyPrefix, StoppedCore DEF Stopped

LEMMA IdleStore ==
    ASSUME StoreInv(rs, queue[user]), IdleTimeout
    PROVE  StoreInv(rs', queue[user]) /\ NoAnswer(rs, rs')
<1>1. /\ rs \in RemoteStore /\ Wire(rs) /\ Purpose(rs) /\ Credible(rs)
      /\ IsPrefix(rs.pipeline, queue[user])
  BY DEF StoreInv, StoreCore
<1>2. rs.pipeline = <<>> /\ rs' = Stop(rs)
  BY <1>1 DEF IdleTimeout, Purpose
<1>3. Stopped(rs') /\ rs'.pipeline = rs.pipeline
  BY <1>1, <1>2, StopFields
<1>4. StoreCore(rs', queue[user])
  BY <1>1, <1>3, StoppedCore
<1>5. QED
  BY <1>2, <1>3, <1>4 DEF StoreInv, NoAnswer, Stopped

(* The stream ends; it is started again if something is to be sent. *)
LEMMA BrokenStore ==
    ASSUME StoreInv(rs, queue[user]), StreamBroken
    PROVE  StoreInv(rs', queue[user]) /\ NoAnswer(rs, rs')
<1> DEFINE d == Disconnected(rs, "error")
           x == IF ShouldStartWriteStream(d) THEN StartStream(d) ELSE d
<1>1. /\ rs \in RemoteStore /\ Credible(rs) /\ IsPrefix(rs.pipeline, queue[user])
      /\ Len(rs.pipeline) = kMaxPendingWrites \/ Len(rs.pipeline) = Len(queue[user])
  BY DEF StoreInv, StoreCore
<1>2. rs' = [x EXCEPT !.handshake = FALSE]
  BY DEF StreamBroken
<1>3. /\ d \in RemoteStore
      /\ d.pipeline = rs.pipeline /\ d.stream = "error"
      /\ d.closes = rs.closes + 1 /\ d.asked = rs.asked
      /\ ~d.idle /\ d.up = <<>> /\ d.down = <<>> /\ ~d.refused
  BY <1>1, DisconnectedFields
<1>4. (\A c \in d.asked : c <= d.closes) /\ d.closes \notin d.asked
  BY <1>1, <1>3, ClosedCredible
<1> HIDE DEF d
<1>5. ShouldStartWriteStream(d) <=> d.pipeline # <<>>
  BY <1>3 DEF ShouldStartWriteStream, IsStarted
<1>6. StartStream(d) = [d EXCEPT !.stream = "backoff"]
  BY <1>3 DEF StartStream
<1>7. /\ x \in RemoteStore
      /\ x.pipeline = d.pipeline
      /\ x.stream = IF d.pipeline # <<>> THEN "backoff" ELSE "error"
      /\ x.closes = d.closes /\ x.asked = d.asked
      /\ ~x.idle /\ x.up = <<>> /\ x.down = <<>> /\ ~x.refused
  BY <1>3, <1>5, <1>6 DEF RemoteStore
<1> HIDE DEF x
<1>8. /\ rs' \in RemoteStore
      /\ rs'.pipeline = x.pipeline /\ rs'.stream = x.stream
      /\ rs'.closes = x.closes /\ rs'.asked = x.asked
      /\ ~rs'.idle /\ rs'.up = <<>> /\ rs'.down = <<>> /\ ~rs'.refused
      /\ ~rs'.handshake
  BY <1>2, <1>7 DEF RemoteStore
<1>9. rs'.pipeline = rs.pipeline
  BY <1>3, <1>7, <1>8
<1>10. IF rs'.pipeline # <<>> THEN rs'.stream = "backoff" ELSE rs'.stream = "error"
  BY <1>7, <1>8
<1>11. Credible(rs')
  BY <1>4, <1>7, <1>8, <1>10 DEF Credible
<1>12. Wire(rs') /\ Purpose(rs')
  BY <1>8, <1>10 DEF Wire, Purpose, IsOpen, IsStarted
<1>13. StoreCore(rs', queue[user])
  BY <1>1, <1>8, <1>9, <1>11, <1>12 DEF StoreCore
<1>14. rs'.pipeline # <<>> => IsStarted(rs')
  BY <1>10 DEF IsStarted
<1>15. QED
  BY <1>1, <1>8, <1>9, <1>13, <1>14 DEF StoreInv, NoAnswer

(* What a sequence is without its head. *)
LEMMA Rest ==
    ASSUME NEW S, NEW s \in Seq(S), s # <<>>
    PROVE  /\ Tail(s) \in Seq(S) /\ Head(s) = s[1] /\ s[1] \in S
           /\ Len(s) \in Nat \ {0} /\ Len(Tail(s)) = Len(s) - 1
           /\ \A i \in 1 .. Len(s) - 1 : Tail(s)[i] = s[i + 1]
<1>1. Len(s) \in Nat /\ Len(s) # 0
  BY LenProperties, EmptySeq
<1>2. 1 \in 1 .. Len(s)
  BY <1>1
<1>3. QED
  BY <1>1, <1>2, HeadTailProperties, ElementOfSeq

(* What a sequence is with one more element. *)
LEMMA OneMore ==
    ASSUME NEW S, NEW s \in Seq(S), NEW e \in S
    PROVE  /\ Append(s, e) \in Seq(S)
           /\ Len(Append(s, e)) = Len(s) + 1
           /\ \A i \in 1 .. Len(s) : Append(s, e)[i] = s[i]
           /\ Append(s, e)[Len(s) + 1] = e
           /\ Append(s, e) # <<>>
BY AppendProperties, LenProperties

(* The wire, when a request is answered, when an answer is read, and when  *)
(* the pipeline is resent.                                                 *)
LEMMA WireCommitted ==
    ASSUME NEW S, NEW down \in Seq(S), NEW up \in Seq(S), up # <<>>,
           NEW p \in Seq(Batch), OnTheWire(down, up, p)
    PROVE  OnTheWire(Append(down, Head(up)), Tail(up), p)
<1>1. Len(down) \in Nat /\ Len(up) \in Nat \ {0} /\ Len(p) \in Nat
  BY LenProperties, Rest
<1>2. Head(up) = up[1] /\ Head(up) \in S
  BY Rest
<1>3. Len(Append(down, Head(up))) = Len(down) + 1
  BY <1>2, OneMore
<1>4. Len(Tail(up)) = Len(up) - 1
  BY Rest
<1>5. Len(down) + Len(up) = Len(p)
  BY DEF OnTheWire
<1>6. Len(Append(down, Head(up))) + Len(Tail(up)) = Len(p)
  <2>1. (Len(down) + 1) + (Len(up) - 1) = Len(down) + Len(up)
    BY <1>1
  <2>2. QED
    BY <1>3, <1>4, <1>5, <2>1, Zenon
<1>7. ASSUME NEW i \in 1 .. Len(down) + 1
      PROVE  Append(down, Head(up))[i] = p[i].w
  <2>1. CASE i \in 1 .. Len(down)
    <3>1. Append(down, Head(up))[i] = down[i]
      BY <1>2, <2>1, OneMore
    <3>2. QED
      BY <2>1, <3>1, Zenon DEF OnTheWire
  <2>2. CASE i \notin 1 .. Len(down)
    <3>1. i = Len(down) + 1
      BY <1>1, <2>2
    <3>2. 1 \in 1 .. Len(up)
      BY <1>1
    <3>3. up[1] = p[Len(down) + 1].w
      BY <3>2, Zenon DEF OnTheWire
    <3>4. Append(down, Head(up))[Len(down) + 1] = Head(up)
      BY <1>2, OneMore
    <3>5. QED
      BY <1>2, <3>1, <3>3, <3>4, Zenon
  <2>3. QED
    BY <2>1, <2>2
<1>8. ASSUME NEW i \in 1 .. Len(up) - 1
      PROVE  Tail(up)[i] = p[Len(down) + 1 + i].w
  <2>1. i + 1 \in 1 .. Len(up) /\ Len(down) + (i + 1) = Len(down) + 1 + i
    BY <1>1
  <2>2. up[i + 1] = p[Len(down) + (i + 1)].w
    BY <2>1, Zenon DEF OnTheWire
  <2>3. Tail(up)[i] = up[i + 1]
    BY Rest
  <2>4. QED
    BY <2>1, <2>2, <2>3
<1>9. QED
  BY <1>3, <1>4, <1>6, <1>7, <1>8 DEF OnTheWire

LEMMA WireCarries ==
    ASSUME NEW S, NEW down \in Seq(S), NEW up \in Seq(S), up # <<>>,
           NEW p \in Seq(Batch), OnTheWire(down, up, p)
    PROVE  p # <<>>
<1>1. Len(down) \in Nat /\ Len(up) \in Nat \ {0} /\ Len(p) \in Nat
  BY LenProperties, Rest
<1>2. Len(down) + Len(up) <= Len(p)
  BY <1>1 DEF OnTheWire
<1>3. Len(p) # 0
  BY <1>1, <1>2
<1>4. QED
  BY <1>3, EmptySeq

LEMMA WireWrites ==
    ASSUME NEW S, NEW down \in Seq(S), NEW up \in Seq(S), up # <<>>,
           NEW p \in Seq(Batch), OnTheWire(down, up, p)
    PROVE  Head(up) \in Writes /\ Head(up) # HANDSHAKE
<1>1. Len(down) \in Nat /\ Len(up) \in Nat \ {0} /\ Len(p) \in Nat
  BY LenProperties, Rest
<1>2. Len(down) + Len(up) <= Len(p)
  BY <1>1 DEF OnTheWire
<1>3. 1 \in 1 .. Len(up) /\ Len(down) + 1 \in 1 .. Len(p)
  BY <1>1, <1>2
<1>4. up[1] = p[Len(down) + 1].w
  BY <1>3, Zenon DEF OnTheWire
<1>5. p[Len(down) + 1].w \in Writes
  BY <1>3, BatchFields
<1>6. Head(up) \in Writes
  BY <1>4, <1>5, Rest
<1>7. QED
  BY <1>6 DEF Writes, HANDSHAKE

LEMMA WireRead ==
    ASSUME NEW S, NEW down \in Seq(S), down # <<>>, NEW up \in Seq(S),
           NEW p \in Seq(Batch), OnTheWire(down, up, p)
    PROVE  p # <<>> /\ Head(down) = Head(p).w /\ OnTheWire(Tail(down), up, Tail(p))
<1>1. Len(down) \in Nat \ {0} /\ Len(up) \in Nat /\ Len(p) \in Nat
  BY LenProperties, Rest
<1>2. Len(down) + Len(up) <= Len(p) /\ Len(p) <= Len(down) + Len(up)
  BY <1>1 DEF OnTheWire
<1>3. Len(p) # 0
  BY <1>1, <1>2
<1>4. p # <<>>
  BY <1>3, EmptySeq
<1>5. Len(Tail(down)) = Len(down) - 1 /\ Len(Tail(p)) = Len(p) - 1
  BY <1>4, Rest
<1>6. Len(Tail(down)) + Len(up) = Len(Tail(p))
  <2>1. /\ (Len(down) - 1) + Len(up) <= Len(p) - 1 /\ Len(p) - 1 <= (Len(down) - 1) + Len(up)
        /\ (Len(down) - 1) + Len(up) \in Int /\ Len(p) - 1 \in Int
    BY <1>1, <1>2
  <2>2. QED
    BY <1>5, <2>1, Antisymmetric, Zenon
<1>7. ASSUME NEW i \in 1 .. Len(down) - 1
      PROVE  Tail(down)[i] = Tail(p)[i].w
  <2>1. i + 1 \in 1 .. Len(down) /\ i \in 1 .. Len(p) - 1
    BY <1>1, <1>2
  <2>2. Tail(down)[i] = down[i + 1] /\ Tail(p)[i] = p[i + 1]
    BY <1>4, <2>1, Rest
  <2>3. QED
    BY <2>1, <2>2, Zenon DEF OnTheWire
<1>8. ASSUME NEW i \in 1 .. Len(up)
      PROVE  up[i] = Tail(p)[(Len(down) - 1) + i].w
  <2>1. /\ (Len(down) - 1) + i \in 1 .. Len(p) - 1
        /\ ((Len(down) - 1) + i) + 1 = Len(down) + i
    BY <1>1, <1>2
  <2>2. Tail(p)[(Len(down) - 1) + i] = p[((Len(down) - 1) + i) + 1]
    BY <1>4, <2>1, Rest
  <2>3. up[i] = p[Len(down) + i].w
    BY Zenon DEF OnTheWire
  <2>4. QED
    BY <2>1, <2>2, <2>3
<1>9. Head(down) = Head(p).w
  <2>1. 1 \in 1 .. Len(down)
    BY <1>1
  <2>2. Head(down) = down[1] /\ Head(p) = p[1]
    BY <1>4, Rest
  <2>3. QED
    BY <2>1, <2>2, Zenon DEF OnTheWire
<1>10. QED
  BY <1>4, <1>5, <1>6, <1>7, <1>8, <1>9 DEF OnTheWire

LEMMA WireResent ==
    ASSUME NEW p \in Seq(Batch)
    PROVE  OnTheWire(<<>>, WritesIn(p), p)
<1>1. Len(p) \in Nat /\ Len(<<>>) = 0
  BY LenProperties
<1>2. Len(WritesIn(p)) = Len(p) /\ \A i \in 1 .. Len(p) : WritesIn(p)[i] = p[i].w
  BY WritesInSeq
<1>3. \A i \in 1 .. Len(p) : 0 + i = i
  OBVIOUS
<1>4. QED
  BY <1>1, <1>2, <1>3 DEF OnTheWire

(* The handshake is answered. *)
LEMMA HandshakeStore ==
    ASSUME StoreInv(rs, queue[user]), HandshakeComplete
    PROVE  StoreInv(rs', queue[user]) /\ NoAnswer(rs, rs')
<1> DEFINE up == rs.up \o WritesIn(rs.pipeline)
           down == Tail(rs.down)
<1>1. /\ rs \in RemoteStore /\ IsPrefix(rs.pipeline, queue[user])
      /\ Wire(rs) /\ Purpose(rs) /\ Credible(rs)
      /\ rs.down # <<>> /\ ~rs.handshake
  BY DEF StoreInv, StoreCore, HandshakeComplete
<1>2. IsOpen(rs) /\ rs.down = <<HANDSHAKE>> /\ rs.up = <<>>
  BY <1>1 DEF Wire, Handshaking
<1>3. down = <<>> /\ down \in Seq(Writes \cup {HANDSHAKE})
  BY <1>2
<1>4. WritesIn(rs.pipeline) \in Seq(Writes)
  BY <1>1, StoreFields, WritesInSeq
<1>5. up = WritesIn(rs.pipeline)
  BY <1>2, <1>4, ConcatEmptySeq
<1>6. up \in Seq(Writes \cup {HANDSHAKE})
  BY <1>4, <1>5, SeqMonotonic
<1>7. rs' = [rs EXCEPT !.down = down, !.handshake = TRUE, !.up = up]
  BY <1>1 DEF HandshakeComplete, RemoteStore
<1> HIDE DEF up, down
<1>8. /\ rs' \in RemoteStore
      /\ rs'.pipeline = rs.pipeline /\ rs'.stream = rs.stream
      /\ rs'.closes = rs.closes /\ rs'.asked = rs.asked
      /\ rs'.idle = rs.idle /\ rs'.up = up /\ rs'.down = down
      /\ rs'.refused = rs.refused /\ rs'.handshake
  BY <1>1, <1>3, <1>6, <1>7 DEF RemoteStore
<1>9. OnTheWire(<<>>, WritesIn(rs.pipeline), rs.pipeline)
  BY <1>1, StoreFields, WireResent
<1>10. ~rs.refused /\ ~rs.idle
  BY <1>1 DEF Purpose
<1>11. Wire(rs') /\ Purpose(rs') /\ Credible(rs')
  BY <1>1, <1>2, <1>3, <1>5, <1>8, <1>9, <1>10 DEF Wire, Purpose, Credible, IsOpen
<1>12. QED
  BY <1>1, <1>3, <1>8, <1>11 DEF StoreInv, StoreCore, IsStarted, NoAnswer

(* The server works on the requests. *)
LEMMA ServerHandshakeStore ==
    ASSUME StoreInv(rs, queue[user]), ServerHandshake
    PROVE  StoreInv(rs', queue[user]) /\ NoAnswer(rs, rs')
<1> DEFINE up == Tail(rs.up)
           down == Append(rs.down, HANDSHAKE)
<1>1. /\ rs \in RemoteStore /\ IsPrefix(rs.pipeline, queue[user])
      /\ Wire(rs) /\ Purpose(rs) /\ Credible(rs)
      /\ rs.up # <<>> /\ Head(rs.up) = HANDSHAKE
  BY DEF StoreInv, StoreCore, ServerHandshake
<1>2. ~rs.handshake
  BY <1>1, StoreFields, WireWrites DEF Wire
<1>3. IsOpen(rs) /\ rs.down = <<>> /\ rs.up = <<HANDSHAKE>>
  BY <1>1, <1>2 DEF Wire, Handshaking
<1>4. /\ up = <<>> /\ down = <<HANDSHAKE>>
      /\ up \in Seq(Writes \cup {HANDSHAKE}) /\ down \in Seq(Writes \cup {HANDSHAKE})
  BY <1>3
<1>5. rs' = [rs EXCEPT !.up = up, !.down = down]
  BY <1>1 DEF ServerHandshake, RemoteStore
<1> HIDE DEF up, down
<1>6. /\ rs' \in RemoteStore
      /\ rs'.pipeline = rs.pipeline /\ rs'.stream = rs.stream
      /\ rs'.closes = rs.closes /\ rs'.asked = rs.asked
      /\ rs'.idle = rs.idle /\ rs'.up = up /\ rs'.down = down
      /\ rs'.refused = rs.refused /\ rs'.handshake = rs.handshake
  BY <1>1, <1>4, <1>5 DEF RemoteStore
<1>7. Wire(rs') /\ Purpose(rs') /\ Credible(rs')
  BY <1>1, <1>2, <1>3, <1>4, <1>6 DEF Wire, Handshaking, Purpose, Credible, IsOpen, IsStarted
<1>8. QED
  BY <1>1, <1>2, <1>6, <1>7 DEF StoreInv, StoreCore, IsStarted, NoAnswer

LEMMA ServerCommitStore ==
    ASSUME StoreInv(rs, queue[user]), ServerCommit
    PROVE  StoreInv(rs', queue[user]) /\ rs.handshake /\ Head(rs.up) \in Writes
<1> DEFINE up == Tail(rs.up)
           down == Append(rs.down, Head(rs.up))
<1>1. /\ rs \in RemoteStore /\ IsPrefix(rs.pipeline, queue[user])
      /\ Wire(rs) /\ Purpose(rs) /\ Credible(rs)
      /\ rs.up # <<>> /\ Head(rs.up) # HANDSHAKE /\ ~rs.refused
  BY DEF StoreInv, StoreCore, ServerCommit
<1>2. rs.handshake
  BY <1>1 DEF Wire, Handshaking
<1>3. IsOpen(rs) /\ OnTheWire(rs.down, rs.up, rs.pipeline)
  BY <1>1, <1>2 DEF Wire
<1>4. OnTheWire(down, up, rs.pipeline) /\ Head(rs.up) \in Writes
  BY <1>1, <1>3, StoreFields, WireCommitted, WireWrites
<1>5. up \in Seq(Writes \cup {HANDSHAKE}) /\ down \in Seq(Writes \cup {HANDSHAKE})
  BY <1>1, <1>4, StoreFields, Rest, OneMore
<1>6. rs' = [rs EXCEPT !.up = up, !.down = down]
  BY <1>1 DEF ServerCommit, RemoteStore
<1> HIDE DEF up, down
<1>7. /\ rs' \in RemoteStore
      /\ rs'.pipeline = rs.pipeline /\ rs'.stream = rs.stream
      /\ rs'.closes = rs.closes /\ rs'.asked = rs.asked
      /\ rs'.idle = rs.idle /\ rs'.up = up /\ rs'.down = down
      /\ rs'.refused = rs.refused /\ rs'.handshake = rs.handshake
  BY <1>1, <1>5, <1>6 DEF RemoteStore
<1>8. Wire(rs') /\ Purpose(rs') /\ Credible(rs')
  BY <1>1, <1>2, <1>3, <1>4, <1>7 DEF Wire, Purpose, Credible, IsOpen, IsStarted
<1>9. QED
  BY <1>1, <1>2, <1>4, <1>7, <1>8 DEF StoreInv, StoreCore, IsStarted, NoAnswer

LEMMA ServerRefuseStore ==
    ASSUME StoreInv(rs, queue[user]), ServerRefuse
    PROVE  StoreInv(rs', queue[user]) /\ NoAnswer(rs, rs')
<1>1. /\ rs \in RemoteStore /\ IsPrefix(rs.pipeline, queue[user])
      /\ Wire(rs) /\ Purpose(rs) /\ Credible(rs)
      /\ rs.up # <<>> /\ Head(rs.up) # HANDSHAKE
      /\ rs' = [rs EXCEPT !.refused = TRUE]
  BY DEF StoreInv, StoreCore, ServerRefuse
<1>2. rs.handshake
  BY <1>1 DEF Wire, Handshaking
<1>3. /\ rs' \in RemoteStore
      /\ rs'.pipeline = rs.pipeline /\ rs'.stream = rs.stream
      /\ rs'.closes = rs.closes /\ rs'.asked = rs.asked
      /\ rs'.idle = rs.idle /\ rs'.up = rs.up /\ rs'.down = rs.down
      /\ rs'.refused /\ rs'.handshake = rs.handshake
  BY <1>1 DEF RemoteStore
<1>4. Wire(rs') /\ Purpose(rs') /\ Credible(rs')
  BY <1>1, <1>2, <1>3 DEF Wire, Purpose, Credible, IsOpen, IsStarted
<1>5. QED
  BY <1>1, <1>3, <1>4 DEF StoreInv, StoreCore, IsStarted, NoAnswer

-----------------------------------------------------------------------------
(* The first batch is answered and leaves the pipeline and the queue.      *)

LEMMA PrefixTail ==
    ASSUME ConstantsAssumption,
           NEW p \in Seq(Batch), NEW q \in Seq(Batch), p # <<>>, IsPrefix(p, q)
    PROVE  q # <<>> /\ Head(p) = Head(q) /\ IsPrefix(Tail(p), Tail(q))
<1>1. Len(p) \in Nat \ {0} /\ Len(q) \in Nat
  BY LenProperties, Rest
<1>2. Len(p) <= Len(q) /\ Len(p) <= kMaxPendingWrites
  BY DEF IsPrefix
<1>3. q # <<>>
  <2>1. Len(q) # 0
    BY <1>1, <1>2
  <2>2. QED
    BY <2>1, EmptySeq
<1>4. Head(p) = Head(q)
  <2>1. 1 \in 1 .. Len(p)
    BY <1>1
  <2>2. p[1] = q[1]
    BY <2>1, Zenon DEF IsPrefix
  <2>3. QED
    BY <1>3, <2>2, Rest
<1>5. Len(Tail(p)) = Len(p) - 1 /\ Len(Tail(q)) = Len(q) - 1
  BY <1>3, Rest
<1>6. \A i \in 1 .. Len(p) - 1 : Tail(p)[i] = Tail(q)[i]
  <2>1. TAKE i \in 1 .. Len(p) - 1
  <2>2. i + 1 \in 1 .. Len(p) /\ i \in 1 .. Len(q) - 1
    BY <1>1, <1>2
  <2>3. p[i + 1] = q[i + 1]
    BY <2>2, Zenon DEF IsPrefix
  <2>4. Tail(p)[i] = p[i + 1] /\ Tail(q)[i] = q[i + 1]
    BY <1>3, <2>2, Rest
  <2>5. QED
    BY <2>3, <2>4
<1>7. Len(p) - 1 <= kMaxPendingWrites /\ Len(p) - 1 <= Len(q) - 1
  BY <1>1, <1>2 DEF ConstantsAssumption
<1>8. QED
  BY <1>5, <1>6, <1>7 DEF IsPrefix

(* An ordered queue stays so without its head, and nothing in the rest is  *)
(* the head.                                                               *)
LEMMA OrderedTail ==
    ASSUME NEW q \in Seq(Batch), q # <<>>, Ordered(q)
    PROVE  /\ Ordered(Tail(q))
           /\ \A i \in 1 .. Len(Tail(q)) :
                /\ i + 1 \in 1 .. Len(q) /\ Tail(q)[i] = q[i + 1]
                /\ q[1].id < Tail(q)[i].id /\ q[1].w < Tail(q)[i].w
<1>1. Len(q) \in Nat \ {0} /\ Len(Tail(q)) = Len(q) - 1
  BY Rest
<1>2. \A i \in 1 .. Len(q) - 1 : Tail(q)[i] = q[i + 1]
  BY Rest
<1>3. \A i \in 1 .. Len(q) - 1 : i + 1 \in 1 .. Len(q) /\ 1 < i + 1
  BY <1>1
<1>4. 1 \in 1 .. Len(q)
  BY <1>1
<1>5. ASSUME NEW i \in 1 .. Len(q) - 1
      PROVE  q[1].id < Tail(q)[i].id /\ q[1].w < Tail(q)[i].w
  <2>1. i + 1 \in 1 .. Len(q) /\ 1 < i + 1 /\ Tail(q)[i] = q[i + 1]
    BY <1>2, <1>3
  <2>2. QED
    BY <1>4, <2>1, Zenon DEF Ordered
<1>6. ASSUME NEW i \in 1 .. Len(q) - 1, NEW j \in 1 .. Len(q) - 1, i < j
      PROVE  Tail(q)[i].id < Tail(q)[j].id /\ Tail(q)[i].w < Tail(q)[j].w
  <2>1. i + 1 < j + 1
    BY <1>1, <1>6
  <2>2. i + 1 \in 1 .. Len(q) /\ j + 1 \in 1 .. Len(q)
    BY <1>3
  <2>3. q[i + 1].id < q[j + 1].id /\ q[i + 1].w < q[j + 1].w
    BY <2>1, <2>2, Zenon DEF Ordered
  <2>4. QED
    BY <1>2, <2>3
<1>7. QED
  BY <1>1, <1>2, <1>3, <1>5, <1>6, Zenon DEF Ordered

(* RemoveMutationBatch, of the first batch of the user's queue. *)
LEMMA RemoveHead ==
    ASSUME NEW q \in Seq(Batch), q # <<>>, Ordered(q)
    PROVE  LET k == CHOOSE k \in DOMAIN q : q[k].id = Head(q).id
           IN  SubSeq(q, 1, k - 1) \o SubSeq(q, k + 1, Len(q)) = Tail(q)
<1> DEFINE K == CHOOSE k \in DOMAIN q : q[k].id = Head(q).id
<1>1. Len(q) \in Nat \ {0} /\ DOMAIN q = 1 .. Len(q) /\ Head(q) = q[1]
  BY LenProperties, Rest
<1>2. 1 \in DOMAIN q
  BY <1>1
<1>3. ASSUME NEW k \in DOMAIN q, q[k].id = q[1].id
      PROVE  k = 1
  <2>1. SUFFICES ASSUME 1 < k PROVE FALSE
    BY <1>1
  <2>2. q[1].id < q[k].id
    BY <1>1, <1>2, <2>1, Zenon DEF Ordered
  <2>3. q[1].id \in Nat /\ q[k].id \in Nat
    BY <1>1, <1>2, BatchFields
  <2>4. QED
    BY <1>3, <2>2, <2>3
<1>4. K = 1
  BY <1>1, <1>2, <1>3
<1>5. SubSeq(q, 1, 0) = <<>> /\ SubSeq(q, 2, Len(q)) = Tail(q)
  BY SubSeqEmpty, TailIsSubSeq
<1>6. Tail(q) \in Seq(Batch)
  BY Rest
<1> HIDE DEF K
<1>7. SubSeq(q, 1, K - 1) \o SubSeq(q, K + 1, Len(q)) = Tail(q)
  <2>1. K - 1 = 0 /\ K + 1 = 2
    BY <1>4
  <2>2. QED
    BY <1>5, <1>6, <2>1, ConcatEmptySeq
<1>8. QED
  BY <1>7, Zenon DEF K

(* A response answers the write it was given for: it is the first of the   *)
(* pipeline and of the queue.                                              *)
LEMMA ResultStore ==
    ASSUME ConstantsAssumption, NEW q \in Seq(Batch), Ordered(q),
           StoreInv(rs, q), rs.down # <<>>, rs.handshake,
           NEW s, s = [rs EXCEPT !.down = Tail(@), !.pipeline = Tail(@)]
    PROVE  /\ rs.pipeline # <<>> /\ q # <<>>
           /\ Head(rs.pipeline) = Head(q) /\ Head(rs.down) = Head(q).w
           /\ StoreCore(s, Tail(q))
           /\ s.down = Tail(rs.down) /\ s.handshake
<1> DEFINE down == Tail(rs.down)
           p == Tail(rs.pipeline)
<1>1. /\ rs \in RemoteStore /\ IsPrefix(rs.pipeline, q)
      /\ Wire(rs) /\ Purpose(rs) /\ Credible(rs)
  BY DEF StoreInv, StoreCore
<1>2. IsOpen(rs) /\ OnTheWire(rs.down, rs.up, rs.pipeline)
  BY <1>1 DEF Wire
<1>3. rs.pipeline # <<>> /\ Head(rs.down) = Head(rs.pipeline).w /\ OnTheWire(down, rs.up, p)
  BY <1>1, <1>2, StoreFields, WireRead
<1>4. q # <<>> /\ Head(rs.pipeline) = Head(q) /\ IsPrefix(p, Tail(q))
  BY <1>1, <1>3, StoreFields, PrefixTail
<1>5. down \in Seq(Writes \cup {HANDSHAKE}) /\ p \in Seq(Batch)
  BY <1>1, <1>3, StoreFields, Rest
<1>6. s = [rs EXCEPT !.down = down, !.pipeline = p]
  BY <1>1 DEF RemoteStore
<1> HIDE DEF down, p
<1>7. /\ s \in RemoteStore
      /\ s.pipeline = p /\ s.stream = rs.stream
      /\ s.closes = rs.closes /\ s.asked = rs.asked
      /\ s.idle = rs.idle /\ s.up = rs.up /\ s.down = down
      /\ s.refused = rs.refused /\ s.handshake = rs.handshake
  BY <1>1, <1>5, <1>6 DEF RemoteStore
<1>8. Wire(s)
  BY <1>2, <1>3, <1>7 DEF Wire, IsOpen
<1>9. Purpose(s) /\ Credible(s)
  BY <1>1, <1>3, <1>7 DEF Purpose, Credible, IsStarted
<1>10. StoreCore(s, Tail(q))
  BY <1>4, <1>7, <1>8, <1>9 DEF StoreCore
<1>11. QED
  BY <1>3, <1>4, <1>7, <1>10 DEF down

(* Two remote stores with the same parts, but for the handshake. *)
LEMMA StoreRecord ==
    ASSUME NEW f \in RemoteStore, NEW g \in RemoteStore,
           g.pipeline = f.pipeline, g.stream = f.stream, g.idle = f.idle,
           g.closes = f.closes, g.asked = f.asked, g.up = f.up,
           g.down = f.down, g.refused = f.refused, g.handshake = FALSE
    PROVE  [f EXCEPT !.handshake = FALSE] = g
<1> DEFINE rec(r, h) ==
             [pipeline |-> r.pipeline, stream |-> r.stream, handshake |-> h,
              idle |-> r.idle, closes |-> r.closes, asked |-> r.asked,
              up |-> r.up, down |-> r.down, refused |-> r.refused]
<1>1. g = rec(g, g.handshake)
  BY DEF RemoteStore
<1>2. [f EXCEPT !.handshake = FALSE] = rec(f, FALSE)
  BY DEF RemoteStore
<1>3. rec(g, g.handshake) = rec(f, FALSE)
  OBVIOUS
<1>4. QED
  BY <1>1, <1>2, <1>3, Zenon

(* A refusal is of the first write too; the next stream is set up anew.    *)
LEMMA RefusedStore ==
    ASSUME ConstantsAssumption, NEW q \in Seq(Batch), Ordered(q),
           StoreInv(rs, q), rs.refused,
           NEW s, s = [FillWritePipeline(
                         [Disconnected(rs, "initial") EXCEPT !.pipeline = Tail(@)],
                         Tail(q)) EXCEPT !.handshake = FALSE]
    PROVE  /\ rs.pipeline # <<>> /\ q # <<>> /\ Head(rs.pipeline) = Head(q)
           /\ StoreInv(s, Tail(q)) /\ ~s.handshake
<1> DEFINE p == Tail(rs.pipeline)
           d == Disconnected(rs, "initial")
           e == [d EXCEPT !.pipeline = Tail(@)]
           e0 == [e EXCEPT !.handshake = FALSE]
           f == FillWritePipeline(e, Tail(q))
           f0 == FillWritePipeline(e0, Tail(q))
<1>1. /\ rs \in RemoteStore /\ IsPrefix(rs.pipeline, q)
      /\ Wire(rs) /\ Purpose(rs) /\ Credible(rs)
  BY DEF StoreInv, StoreCore
<1>2. rs.handshake /\ rs.up # <<>>
  BY <1>1 DEF Purpose
<1>3. rs.pipeline # <<>>
  BY <1>1, <1>2, StoreFields, WireCarries DEF Wire
<1>4. q # <<>> /\ Head(rs.pipeline) = Head(q) /\ IsPrefix(p, Tail(q)) /\ p \in Seq(Batch)
  BY <1>1, <1>3, StoreFields, PrefixTail, Rest
<1>5. Tail(q) \in Seq(Batch) /\ Ordered(Tail(q))
  BY <1>4, Rest, OrderedTail
<1>6. /\ d \in RemoteStore
      /\ d.pipeline = rs.pipeline /\ d.stream = "initial"
      /\ d.closes = rs.closes + 1 /\ d.asked = rs.asked
      /\ ~d.idle /\ d.up = <<>> /\ d.down = <<>> /\ ~d.refused
  BY <1>1, DisconnectedFields
<1>7. (\A c \in d.asked : c <= d.closes) /\ d.closes \notin d.asked
  BY <1>1, <1>6, ClosedCredible
<1>8. e = [d EXCEPT !.pipeline = p]
  BY <1>6 DEF RemoteStore
<1> HIDE DEF d, p, e
<1>9. /\ e \in RemoteStore
      /\ e.pipeline = p /\ e.stream = "initial"
      /\ e.closes = d.closes /\ e.asked = d.asked
      /\ ~e.idle /\ e.up = <<>> /\ e.down = <<>> /\ ~e.refused
  BY <1>4, <1>6, <1>8 DEF RemoteStore
<1>10. /\ e0 \in RemoteStore
       /\ e0.pipeline = e.pipeline /\ e0.stream = e.stream
       /\ e0.closes = e.closes /\ e0.asked = e.asked
       /\ e0.idle = e.idle /\ e0.up = e.up /\ e0.down = e.down
       /\ e0.refused = e.refused /\ ~e0.handshake
  BY <1>9 DEF RemoteStore
<1> HIDE DEF e0
<1>11. Stopped(e0)
  BY <1>7, <1>9, <1>10 DEF Stopped
<1>12. StoreCore(e0, Tail(q))
  BY <1>4, <1>9, <1>10, <1>11, StoppedCore
<1>13. StoreInv(f0, Tail(q)) /\ ~f0.handshake
  <2>1. StoreInv(f0, Tail(q)) /\ f0.handshake = e0.handshake
    BY <1>5, <1>12, FillStore
  <2>2. QED
    BY <1>10, <2>1
<1>14. s = f0
  <2> DEFINE more == Addition(p, Tail(q))
  <2>1. more \in Seq(Batch)
    BY <1>4, <1>5, AdditionContinues
  <2>2. Filled(e, more, f) /\ Filled(e0, more, f0)
    BY <1>5, <1>9, <1>10, <2>1, FillFields
  <2>3. ~IsOpen(e) /\ ~IsOpen(e0) /\ ~IsStarted(e) /\ ~IsStarted(e0)
    BY <1>9, <1>10 DEF IsOpen, IsStarted
  <2> HIDE DEF f, f0, more
  <2>4. /\ f \in RemoteStore /\ f0 \in RemoteStore
        /\ f0.pipeline = f.pipeline /\ f0.stream = f.stream
        /\ f0.closes = f.closes /\ f0.asked = f.asked
        /\ f0.idle = f.idle /\ f0.up = f.up /\ f0.down = f.down
        /\ f0.refused = f.refused
    BY <1>9, <1>10, <2>2, <2>3 DEF Filled
  <2>5. s = [f EXCEPT !.handshake = FALSE]
    BY DEF f, e, d
  <2>6. f0.handshake = FALSE
    BY <1>13, <2>4, StoreFields
  <2>7. QED
    BY <2>4, <2>5, <2>6, StoreRecord
<1>15. QED
  BY <1>3, <1>4, <1>13, <1>14

-----------------------------------------------------------------------------
(* The steps that leave the queues, the log and the answers alone.         *)
LEMMA QuietStep ==
    ASSUME TypeOK, QueueInv, LogInv, LastWriteWins,
           UNCHANGED <<queue, log, settled>>, used'["write"] = used["write"],
           user' = user, nextBatchId' = nextBatchId, callbacks' = callbacks,
           NoAnswer(rs, rs')
    PROVE  QueueInv' /\ LogInv' /\ LastWriteWins'
<1>1. QueueInv'
  BY DEF QueueInv, Queued, OneUser, CallbacksQueued
<1>2. LoggedBefore'
  BY DEF LogInv, LoggedBefore
<1>3. log \in Seq([user : Users, w : Writes])
  BY DEF TypeOK
<1>4. ASSUME rs'.handshake PROVE Unread(log, rs'.down, user)
  <2>1. CASE rs'.down = <<>>
    <3>1. Len(rs'.down) = 0 /\ Len(log) \in Nat
      BY <1>3, <2>1, LenProperties
    <3>2. QED
      BY <3>1 DEF Unread
  <2>2. CASE rs.handshake /\ rs'.down = rs.down
    BY <2>2 DEF LogInv
  <2>3. QED
    BY <1>4, <2>1, <2>2 DEF NoAnswer
<1>5. LogInv'
  BY <1>2, <1>4 DEF LogInv
<1>6. LastWriteWins'
  BY DEF LastWriteWins
<1>7. QED
  BY <1>1, <1>5, <1>6

(* The counters: a fault is no write. *)
LEMMA FaultBump ==
    ASSUME TypeOK, Bump("fault")
    PROVE  used'["write"] = used["write"] /\ used' \in [Counters -> Nat]
BY DEF TypeOK, Bump, Counters

(* An upper bound of the ids in the queues gives the largest of them. *)
LEMMA NextIdIsNew ==
    ASSUME TypeOK, Queued
    PROVE  /\ LoadNextBatchId(queue) \in Nat \ {0}
           /\ \A u \in Users : \A i \in 1 .. Len(queue[u]) :
                queue[u][i].id < LoadNextBatchId(queue)
<1> DEFINE ids == {0} \cup UNION {{queue[u][i].id : i \in DOMAIN queue[u]} : u \in Users}
           bounds == {m \in Nat : \A n \in ids : n <= m}
<1>1. \A u \in Users : queue[u] \in Seq(Batch) /\ DOMAIN queue[u] = 1 .. Len(queue[u])
  BY LenProperties DEF TypeOK
<1>2. \A u \in Users : \A i \in 1 .. Len(queue[u]) :
        queue[u][i].id \in Nat /\ queue[u][i].id \in ids
  BY <1>1, BatchFields
<1>3. nextBatchId \in Nat
  BY DEF TypeOK
<1>4. \A n \in ids : n \in Nat /\ n <= nextBatchId
  <2>1. TAKE n \in ids
  <2>2. CASE n = 0
    BY <1>3, <2>2
  <2>3. CASE n # 0
    <3>1. PICK u \in Users : \E i \in 1 .. Len(queue[u]) : n = queue[u][i].id
      BY <1>1, <2>3
    <3>2. PICK i \in 1 .. Len(queue[u]) : n = queue[u][i].id
      BY <3>1
    <3>3. n < nextBatchId
      BY <3>2 DEF Queued
    <3>4. QED
      BY <1>2, <1>3, <3>2, <3>3
  <2>4. QED
    BY <2>2, <2>3
<1>5. nextBatchId \in bounds
  BY <1>3, <1>4
<1>6. 0 \in ids
  OBVIOUS
<1> HIDE DEF ids
<1>7. PICK m \in bounds : \A k \in bounds : ~(k < m)
  <2>1. IsWellFoundedOn(OpToRel(<, Nat), Nat)
    BY NatLessThanWellFounded
  <2>2. bounds \subseteq Nat /\ bounds # {}
    BY <1>5
  <2> HIDE DEF bounds
  <2>3. PICK m \in bounds : \A k \in bounds : ~(<<k, m>> \in OpToRel(<, Nat))
    BY <2>1, <2>2, WFMin
  <2>4. QED
    BY <2>2, <2>3 DEF OpToRel
<1>8. m \in ids
  <2>1. SUFFICES ASSUME m \notin ids PROVE FALSE
    OBVIOUS
  <2>2. m \in Nat /\ \A n \in ids : n <= m
    BY <1>7
  <2>3. \A n \in ids : n <= m - 1
    BY <1>4, <2>1, <2>2
  <2>4. m - 1 \in Nat
    BY <1>6, <2>2, <2>3
  <2>5. m - 1 \in bounds
    BY <2>3, <2>4
  <2>6. QED
    BY <1>7, <2>2, <2>5
<1>9. \A n \in ids : n <= m
  BY <1>7
<1> DEFINE max == CHOOSE k \in ids : \A n \in ids : n <= k
<1>10. max \in ids /\ \A n \in ids : n <= max
  BY <1>8, <1>9
<1>11. LoadNextBatchId(queue) = 1 + max
  BY DEF LoadNextBatchId, ids
<1> HIDE DEF max
<1>12. max \in Nat
  BY <1>4, <1>10
<1>13. QED
  BY <1>2, <1>10, <1>11, <1>12

(* The parts of the state, typed. *)
LEMMA Types ==
    ASSUME TypeOK
    PROVE  /\ user \in Users
           /\ \A u \in Users : queue[u] \in Seq(Batch)
           /\ DOMAIN queue = Users
           /\ nextBatchId \in Nat \ {0}
           /\ used["write"] \in Nat
           /\ log \in Seq([user : Users, w : Writes])
           /\ settled \in [Writes -> Outcome \cup {"no"}]
           /\ callbacks \subseteq [user : Users, id : Nat, w : Writes]
BY DEF TypeOK, Counters

LEMMA LogEntry ==
    ASSUME TypeOK, NEW i \in 1 .. Len(log)
    PROVE  log[i] \in [user : Users, w : Writes] /\ log[i].user \in Users /\ log[i].w \in Writes
<1>1. log[i] \in [user : Users, w : Writes]
  BY Types, ElementOfSeq
<1>2. QED
  BY <1>1

(* The first write of the user's queue is answered. *)
Answered(b, outcome) ==
    /\ b = Head(queue[user]) /\ queue[user] # <<>>
    /\ queue' = [queue EXCEPT ![user] = Tail(@)]
    /\ settled' = [settled EXCEPT ![b.w] = outcome]
    /\ callbacks' = callbacks \ Waiting(b.id)
    /\ UNCHANGED <<nextBatchId, user, log>>
    /\ used' = used

(* What remains in the queues was there before and is not what has been    *)
(* answered; in that user's queue it comes behind it.                      *)
LEMMA Remains ==
    ASSUME TypeOK, QueueInv, NEW b, NEW outcome, Answered(b, outcome)
    PROVE  /\ b \in Batch /\ b = queue[user][1] /\ 1 \in 1 .. Len(queue[user])
           /\ \A u \in Users : queue'[u] \in Seq(Batch) /\ Ordered(queue'[u])
           /\ \A u \in Users : \A i \in 1 .. Len(queue'[u]) :
                \E j \in 1 .. Len(queue[u]) :
                  /\ queue'[u][i] = queue[u][j]
                  /\ queue[u][j].w # b.w
                  /\ u = user => b.w < queue[u][j].w
           /\ \A u \in Users : \A j \in 1 .. Len(queue[u]) :
                queue[u][j].w # b.w \/ queue[u][j].id # b.id =>
                  \E i \in 1 .. Len(queue'[u]) :
                    queue'[u][i].id = queue[u][j].id /\ queue'[u][i].w = queue[u][j].w
<1> DEFINE q == queue[user]
<1>1. /\ user \in Users /\ q \in Seq(Batch) /\ q # <<>> /\ Ordered(q)
      /\ queue'[user] = Tail(q)
      /\ \A u \in Users : queue[u] \in Seq(Batch) /\ Ordered(queue[u])
      /\ \A u \in Users \ {user} : queue'[u] = queue[u]
  BY Types DEF Answered, QueueInv
<1>2. b \in Batch /\ b = q[1] /\ Len(q) \in Nat \ {0} /\ 1 \in 1 .. Len(q)
  <2>1. Len(q) \in Nat \ {0} /\ Head(q) = q[1] /\ q[1] \in Batch
    BY <1>1, Rest
  <2>2. QED
    BY <2>1 DEF Answered
<1>3. \A u \in Users : queue'[u] \in Seq(Batch) /\ Ordered(queue'[u])
  <2>1. Tail(q) \in Seq(Batch) /\ Ordered(Tail(q))
    BY <1>1, Rest, OrderedTail
  <2>2. QED
    BY <1>1, <2>1
<1>4. Len(Tail(q)) = Len(q) - 1
  BY <1>1, Rest
<1>5. ASSUME NEW u \in Users, NEW i \in 1 .. Len(queue'[u])
      PROVE  \E j \in 1 .. Len(queue[u]) :
               /\ queue'[u][i] = queue[u][j]
               /\ queue[u][j].w # b.w
               /\ u = user => b.w < queue[u][j].w
  <2>1. CASE u = user
    <3>1. i \in 1 .. Len(Tail(q))
      BY <1>1, <2>1
    <3>2. /\ i + 1 \in 1 .. Len(q) /\ Tail(q)[i] = q[i + 1]
          /\ q[1].w < Tail(q)[i].w
      BY <1>1, <3>1, OrderedTail
    <3>3. b.w \in Writes /\ q[i + 1].w \in Writes
      BY <1>1, <1>2, <3>2, BatchFields
    <3>4. b.w < q[i + 1].w /\ q[i + 1].w # b.w
      BY <1>2, <3>2, <3>3 DEF Writes
    <3>5. QED
      BY <1>1, <2>1, <3>2, <3>4
  <2>2. CASE u # user
    <3>1. queue'[u] = queue[u]
      BY <1>1, <2>2
    <3>2. queue[u][i].w # q[1].w
      BY <1>1, <1>2, <2>2, <3>1, <1>5 DEF QueueInv, OneUser
    <3>3. QED
      BY <1>2, <1>5, <2>2, <3>1, <3>2
  <2>3. QED
    BY <2>1, <2>2
<1>6. ASSUME NEW u \in Users, NEW j \in 1 .. Len(queue[u]),
             queue[u][j].w # b.w \/ queue[u][j].id # b.id
      PROVE  \E i \in 1 .. Len(queue'[u]) :
               queue'[u][i].id = queue[u][j].id /\ queue'[u][i].w = queue[u][j].w
  <2>1. CASE u = user
    <3>1. j # 1
      BY <1>2, <1>6, <2>1
    <3>2. j - 1 \in 1 .. Len(q) - 1 /\ (j - 1) + 1 = j
      BY <1>2, <2>1, <3>1, <1>6
    <3>3. Tail(q)[j - 1] = q[j]
      BY <1>1, <3>2, Rest
    <3>4. QED
      BY <1>1, <1>4, <2>1, <3>2, <3>3
  <2>2. CASE u # user
    BY <1>1, <1>6, <2>2
  <2>3. QED
    BY <2>1, <2>2
<1>7. QED
  BY <1>2, <1>3, <1>5, <1>6

LEMMA AnsweredQueue ==
    ASSUME TypeOK, QueueInv, LoggedBefore,
           NEW b, NEW outcome \in Outcome, Answered(b, outcome)
    PROVE  QueueInv' /\ LoggedBefore' /\ settled' \in [Writes -> Outcome \cup {"no"}]
<1>1. /\ b \in Batch /\ b = queue[user][1] /\ 1 \in 1 .. Len(queue[user])
      /\ b.w \in Writes /\ b.w <= used["write"] /\ user \in Users
  BY Remains, Types, BatchFields DEF QueueInv, Queued
<1>2. /\ settled' \in [Writes -> Outcome \cup {"no"}]
      /\ settled'[b.w] = outcome /\ outcome # "no"
      /\ \A w \in Writes : w # b.w => settled'[w] = settled[w]
  BY <1>1, Types DEF Answered, Outcome
<1>3. /\ used' = used /\ nextBatchId' = nextBatchId /\ user' = user /\ log' = log
      /\ callbacks' = callbacks \ Waiting(b.id)
  BY DEF Answered
<1>4. \A u \in Users : queue'[u] \in Seq(Batch) /\ Ordered(queue'[u])
  BY Remains
<1>5. \A u \in Users : \A i \in 1 .. Len(queue'[u]) :
        \E j \in 1 .. Len(queue[u]) :
          /\ queue'[u][i] = queue[u][j] /\ queue[u][j].w \in Writes
          /\ queue[u][j].w # b.w
          /\ u = user => b.w < queue[u][j].w
  BY Remains, Types, BatchFields, ZenonT(30)
<1>6. Queued'
  <2>1. SUFFICES ASSUME NEW u \in Users, NEW i \in 1 .. Len(queue'[u])
                 PROVE  /\ queue'[u][i].id < nextBatchId
                        /\ queue'[u][i].w <= used["write"]
                        /\ settled'[queue'[u][i].w] = "no"
    BY <1>3 DEF Queued
  <2>2. PICK j \in 1 .. Len(queue[u]) :
          /\ queue'[u][i] = queue[u][j] /\ queue[u][j].w \in Writes
          /\ queue[u][j].w # b.w
    BY <1>5
  <2>3. QED
    BY <1>2, <2>2 DEF QueueInv, Queued
<1>7. OneUser'
  <2>1. SUFFICES ASSUME NEW u \in Users, NEW v \in Users,
                        NEW i \in 1 .. Len(queue'[u]), NEW k \in 1 .. Len(queue'[v]),
                        queue'[u][i].w = queue'[v][k].w
                 PROVE  u = v
    BY DEF OneUser
  <2>2. PICK j \in 1 .. Len(queue[u]) : queue'[u][i] = queue[u][j]
    BY <1>5
  <2>3. PICK l \in 1 .. Len(queue[v]) : queue'[v][k] = queue[v][l]
    BY <1>5
  <2>4. queue[u][j].w = queue[v][l].w
    BY <2>1, <2>2, <2>3
  <2>5. QED
    BY <2>4 DEF QueueInv, OneUser
<1>8. CallbacksQueued'
  <2>1. SUFFICES ASSUME NEW c \in callbacks, c \notin Waiting(b.id)
                 PROVE  \E i \in 1 .. Len(queue'[c.user]) :
                          queue'[c.user][i].id = c.id /\ queue'[c.user][i].w = c.w
    BY <1>3 DEF CallbacksQueued
  <2>2. c.user \in Users
    BY Types
  <2>3. PICK j \in 1 .. Len(queue[c.user]) :
          queue[c.user][j].id = c.id /\ queue[c.user][j].w = c.w
    BY DEF QueueInv, CallbacksQueued
  <2>4. queue[c.user][j].w # b.w \/ queue[c.user][j].id # b.id
    <3>1. CASE c.user = user
      BY <2>1, <2>3, <3>1 DEF Waiting
    <3>2. CASE c.user # user
      BY <1>1, <2>2, <3>2 DEF QueueInv, OneUser
    <3>3. QED
      BY <3>1, <3>2
  <2>5. \A u \in Users : \A k \in 1 .. Len(queue[u]) :
          queue[u][k].w # b.w \/ queue[u][k].id # b.id =>
            \E i \in 1 .. Len(queue'[u]) :
              queue'[u][i].id = queue[u][k].id /\ queue'[u][i].w = queue[u][k].w
    BY Remains
  <2>6. \E i \in 1 .. Len(queue'[c.user]) :
          /\ queue'[c.user][i].id = queue[c.user][j].id
          /\ queue'[c.user][i].w = queue[c.user][j].w
    BY <2>2, <2>4, <2>5, Zenon
  <2>7. QED
    BY <2>3, <2>6
<1>9. \A w \in Writes : w > used["write"] => settled'[w] = "no"
  <2>1. SUFFICES ASSUME NEW w \in Writes, w > used["write"] PROVE settled'[w] = "no"
    OBVIOUS
  <2>2. w # b.w
    BY <1>1, <2>1, Types DEF Writes
  <2>3. QED
    BY <1>2, <2>1, <2>2 DEF QueueInv
<1>10. LoggedBefore'
  <2>1. SUFFICES ASSUME NEW i \in 1 .. Len(log), NEW u \in Users,
                        NEW k \in 1 .. Len(queue'[u])
                 PROVE  /\ log[i].w <= used["write"]
                        /\ log[i].w = queue'[u][k].w => log[i].user = u
                        /\ log[i].user = u /\ settled'[log[i].w] # "no" =>
                             log[i].w < queue'[u][k].w
    <3>1. \A i \in 1 .. Len(log) : log[i].w <= used["write"]
      BY DEF LoggedBefore
    <3>2. \A i \in 1 .. Len(log) : \A u \in Users : \A k \in 1 .. Len(queue'[u]) :
            /\ log[i].w = queue'[u][k].w => log[i].user = u
            /\ log[i].user = u /\ settled'[log[i].w] # "no" =>
                 log[i].w < queue'[u][k].w
      BY <2>1
    <3>3. QED
      BY <1>3, <3>1, <3>2, Zenon DEF LoggedBefore
  <2>2. PICK j \in 1 .. Len(queue[u]) :
          /\ queue'[u][k] = queue[u][j]
          /\ u = user => b.w < queue[u][j].w
    BY <1>5
  <2>3. log[i].w \in Writes /\ log[i].user \in Users
    BY LogEntry
  <2>4. CASE log[i].w = b.w
    <3>1. log[i].user = user
      BY <1>1, <2>4 DEF LoggedBefore
    <3>2. QED
      BY <2>2, <2>4, <3>1 DEF LoggedBefore
  <2>5. CASE log[i].w # b.w
    BY <1>2, <2>2, <2>3, <2>5 DEF LoggedBefore
  <2>6. QED
    BY <2>4, <2>5
<1>11. QED
  BY <1>2, <1>3, <1>4, <1>6, <1>7, <1>8, <1>9, <1>10 DEF QueueInv

(* The wire carries writes of the queue: the responses are for the first   *)
(* of them, the next request for the one after those.                      *)
LEMMA WireOfQueue ==
    ASSUME NEW S, NEW down \in Seq(S), NEW up \in Seq(S),
           NEW p \in Seq(Batch), NEW q \in Seq(Batch),
           OnTheWire(down, up, p), IsPrefix(p, q)
    PROVE  /\ \A i \in 1 .. Len(down) : i \in 1 .. Len(q) /\ down[i] = q[i].w
           /\ up # <<>> =>
                Len(down) + 1 \in 1 .. Len(q) /\ Head(up) = q[Len(down) + 1].w
<1>1. Len(down) \in Nat /\ Len(up) \in Nat /\ Len(p) \in Nat /\ Len(q) \in Nat
  BY LenProperties
<1>2. Len(down) + Len(up) <= Len(p) /\ Len(p) <= Len(q)
  BY <1>1 DEF OnTheWire, IsPrefix
<1>3. ASSUME NEW i \in 1 .. Len(down)
      PROVE  i \in 1 .. Len(q) /\ down[i] = q[i].w
  <2>1. i \in 1 .. Len(p) /\ i \in 1 .. Len(q)
    BY <1>1, <1>2
  <2>2. down[i] = p[i].w /\ p[i] = q[i]
    BY <2>1, Zenon DEF OnTheWire, IsPrefix
  <2>3. QED
    BY <2>1, <2>2
<1>4. ASSUME up # <<>>
      PROVE  Len(down) + 1 \in 1 .. Len(q) /\ Head(up) = q[Len(down) + 1].w
  <2>1. Len(up) # 0 /\ Head(up) = up[1]
    BY <1>4, Rest
  <2>2. /\ 1 \in 1 .. Len(up)
        /\ Len(down) + 1 \in 1 .. Len(p) /\ Len(down) + 1 \in 1 .. Len(q)
    BY <1>1, <1>2, <2>1
  <2>3. up[1] = p[Len(down) + 1].w /\ p[Len(down) + 1] = q[Len(down) + 1]
    BY <2>2, Zenon DEF OnTheWire, IsPrefix
  <2>4. QED
    BY <2>1, <2>2, <2>3
<1>5. QED
  BY <1>3, <1>4

(* The next response not read is the answer to entry n of the log, and     *)
(* those behind it are the answers to the entries behind that one.         *)
AnswersEntry(down, lg, n, u) ==
    /\ lg[n].user = u /\ lg[n].w = Head(down)
    /\ \A j \in 1 .. Len(lg) : j > n =>
         \E k \in 1 .. Len(Tail(down)) : lg[j].user = u /\ lg[j].w = Tail(down)[k]

LEMMA UnreadTail ==
    ASSUME NEW L, NEW lg \in Seq(L), NEW S, NEW down \in Seq(S), down # <<>>,
           NEW u, Unread(lg, down, u)
    PROVE  /\ Unread(lg, Tail(down), u)
           /\ \E n \in 1 .. Len(lg) : AnswersEntry(down, lg, n, u)
<1> DEFINE n == Len(lg) - Len(down) + 1
<1>1. Len(lg) \in Nat /\ Len(down) \in Nat \ {0}
  BY LenProperties, Rest
<1>2. Len(down) <= Len(lg)
  BY DEF Unread
<1>3. /\ Len(Tail(down)) = Len(down) - 1 /\ Head(down) = down[1]
      /\ \A k \in 1 .. Len(down) - 1 : Tail(down)[k] = down[k + 1]
  BY Rest
<1>4. \A k \in 1 .. Len(down) :
        lg[Len(lg) - Len(down) + k].user = u /\ lg[Len(lg) - Len(down) + k].w = down[k]
  BY DEF Unread
<1>5. ASSUME NEW k \in 1 .. Len(down) - 1
      PROVE  /\ lg[Len(lg) - (Len(down) - 1) + k].user = u
             /\ lg[Len(lg) - (Len(down) - 1) + k].w = Tail(down)[k]
  <2>1. /\ k + 1 \in 1 .. Len(down)
        /\ Len(lg) - (Len(down) - 1) + k = Len(lg) - Len(down) + (k + 1)
    BY <1>1
  <2>2. /\ lg[Len(lg) - Len(down) + (k + 1)].user = u
        /\ lg[Len(lg) - Len(down) + (k + 1)].w = down[k + 1]
    BY <1>4, <2>1, Zenon
  <2>3. QED
    BY <1>3, <2>1, <2>2
<1>6. Unread(lg, Tail(down), u)
  <2>1. Len(down) - 1 <= Len(lg)
    BY <1>1, <1>2
  <2>2. QED
    BY <1>3, <1>5, <2>1 DEF Unread
<1>7. n \in 1 .. Len(lg) /\ 1 \in 1 .. Len(down)
  BY <1>1, <1>2
<1>8. lg[n].user = u /\ lg[n].w = Head(down)
  BY <1>3, <1>4, <1>7
<1>9. ASSUME NEW j \in 1 .. Len(lg), j > n
      PROVE  \E k \in 1 .. Len(Tail(down)) : lg[j].user = u /\ lg[j].w = Tail(down)[k]
  <2>1. PICK k \in 1 .. Len(down) - 1 : j = Len(lg) - (Len(down) - 1) + k
    <3>1. /\ j - (Len(lg) - (Len(down) - 1)) \in 1 .. Len(down) - 1
          /\ j = Len(lg) - (Len(down) - 1) + (j - (Len(lg) - (Len(down) - 1)))
      BY <1>1, <1>2, <1>9
    <3>2. QED
      BY <3>1
  <2>2. QED
    BY <1>3, <1>5, <2>1
<1>10. QED
  BY <1>6, <1>7, <1>8, <1>9 DEF AnswersEntry

LEMMA UnreadAppend ==
    ASSUME NEW L, NEW lg \in Seq(L), NEW S, NEW down \in Seq(S),
           NEW u, NEW w \in S, Unread(lg, down, u),
           NEW e \in L, e.user = u, e.w = w
    PROVE  Unread(Append(lg, e), Append(down, w), u)
<1>1. Len(lg) \in Nat /\ Len(down) \in Nat
  BY LenProperties
<1>2. Len(down) <= Len(lg)
  BY DEF Unread
<1>3. /\ Len(Append(lg, e)) = Len(lg) + 1 /\ Len(Append(down, w)) = Len(down) + 1
      /\ Append(lg, e)[Len(lg) + 1] = e /\ Append(down, w)[Len(down) + 1] = w
  BY OneMore
<1>4. /\ \A k \in 1 .. Len(lg) : Append(lg, e)[k] = lg[k]
      /\ \A k \in 1 .. Len(down) : Append(down, w)[k] = down[k]
  BY OneMore
<1>5. ASSUME NEW k \in 1 .. Len(down) + 1
      PROVE  /\ Append(lg, e)[(Len(lg) + 1) - (Len(down) + 1) + k].user = u
             /\ Append(lg, e)[(Len(lg) + 1) - (Len(down) + 1) + k].w = Append(down, w)[k]
  <2>1. CASE k \in 1 .. Len(down)
    <3>1. /\ (Len(lg) + 1) - (Len(down) + 1) + k = Len(lg) - Len(down) + k
          /\ Len(lg) - Len(down) + k \in 1 .. Len(lg)
      BY <1>1, <1>2, <2>1
    <3>2. /\ lg[Len(lg) - Len(down) + k].user = u
          /\ lg[Len(lg) - Len(down) + k].w = down[k]
      BY <2>1, Zenon DEF Unread
    <3>3. /\ Append(lg, e)[Len(lg) - Len(down) + k] = lg[Len(lg) - Len(down) + k]
          /\ Append(down, w)[k] = down[k]
      BY <1>4, <2>1, <3>1
    <3>4. QED
      BY <3>1, <3>2, <3>3, Zenon
  <2>2. CASE k = Len(down) + 1
    <3>1. (Len(lg) + 1) - (Len(down) + 1) + k = Len(lg) + 1
      BY <1>1, <2>2
    <3>2. QED
      BY <1>3, <2>2, <3>1
  <2>3. k \in 1 .. Len(down) \/ k = Len(down) + 1
    BY <1>1
  <2>4. QED
    BY <2>1, <2>2, <2>3, Zenon
<1>6. Len(down) + 1 <= Len(lg) + 1
  BY <1>1, <1>2
<1>7. QED
  BY <1>3, <1>5, <1>6 DEF Unread

-----------------------------------------------------------------------------
(* The steps of the specification.                                         *)

(* An answer: the first write of the user leaves the queue and its         *)
(* completion, if it is still there, is called.                            *)
LEMMA AnswerStep ==
    ASSUME IInv, NEW outcome \in Outcome, NEW b, b = Head(rs.pipeline),
           rs.pipeline # <<>>, queue[user] # <<>>, Head(rs.pipeline) = Head(queue[user]),
           NotifyUser(b.id, outcome), queue' = RemoveMutationBatch(b),
           settled' = [settled EXCEPT ![b.w] = outcome],
           UNCHANGED <<nextBatchId, user, log, used>>
    PROVE  /\ Answered(b, outcome)
           /\ queue'[user] = Tail(queue[user])
           /\ QueueInv' /\ LoggedBefore'
           /\ rs' \in RemoteStore /\ Len(rs'.pipeline) <= kMaxPendingWrites => TypeOK'
<1> DEFINE q == queue[user]
<1>1. TypeOK /\ QueueInv /\ LoggedBefore
  BY DEF IInv, LogInv
<1>2. q \in Seq(Batch) /\ Ordered(q) /\ user \in Users /\ DOMAIN queue = Users
  BY <1>1, Types DEF QueueInv
<1>3. queue' = [queue EXCEPT ![user] = Tail(q)]
  BY <1>2, RemoveHead DEF RemoveMutationBatch
<1>4. Answered(b, outcome)
  BY <1>3 DEF Answered, NotifyUser
<1>5. queue'[user] = Tail(q)
  BY <1>2, <1>3
<1>6. /\ QueueInv' /\ LoggedBefore'
      /\ settled' \in [Writes -> Outcome \cup {"no"}]
  BY <1>1, <1>4, AnsweredQueue
<1>7. queue' \in [Users -> Seq(Batch)]
  <2>1. Tail(q) \in Seq(Batch)
    BY <1>2, Rest
  <2>2. QED
    BY <1>1, <1>3, <2>1 DEF TypeOK
<1>8. told' \in [Writes -> Outcome \cup {"no"}]
  BY <1>1 DEF NotifyUser, TypeOK
<1>9. callbacks' \subseteq [user : Users, id : Nat, w : Writes]
  BY <1>1 DEF NotifyUser, TypeOK
<1>10. rs' \in RemoteStore /\ Len(rs'.pipeline) <= kMaxPendingWrites => TypeOK'
  BY <1>1, <1>6, <1>7, <1>8, <1>9 DEF TypeOK
<1>11. QED
  BY <1>4, <1>5, <1>6, <1>10

LEMMA MutationResultStep ==
    ASSUME ConstantsAssumption, IInv, MutationResult
    PROVE  IInv'
<1> DEFINE q == queue[user]
           b == Head(rs.pipeline)
           s == [rs EXCEPT !.down = Tail(@), !.pipeline = Tail(@)]
<1>1. /\ TypeOK /\ StoreInv(rs, q) /\ QueueInv /\ LogInv /\ LastWriteWins
      /\ rs.down # <<>> /\ rs.handshake
      /\ q \in Seq(Batch) /\ Ordered(q)
  BY Types DEF IInv, MutationResult, QueueInv
<1>2. /\ rs.pipeline # <<>> /\ q # <<>>
      /\ Head(rs.pipeline) = Head(q) /\ Head(rs.down) = Head(q).w
      /\ StoreCore(s, Tail(q))
      /\ s.down = Tail(rs.down) /\ s.handshake
  BY <1>1, ResultStore
<1>3. Tail(q) \in Seq(Batch) /\ Ordered(Tail(q))
  BY <1>1, <1>2, Rest, OrderedTail
<1>4. /\ NotifyUser(b.id, "ok") /\ queue' = RemoveMutationBatch(b)
      /\ settled' = [settled EXCEPT ![b.w] = "ok"]
      /\ UNCHANGED <<nextBatchId, user, log, used>>
      /\ rs' = FillWritePipeline(s, queue'[user])
  BY DEF MutationResult
<1>5. "ok" \in Outcome
  BY DEF Outcome
<1>6. /\ Answered(b, "ok") /\ queue'[user] = Tail(q)
      /\ QueueInv' /\ LoggedBefore'
      /\ rs' \in RemoteStore /\ Len(rs'.pipeline) <= kMaxPendingWrites => TypeOK'
  BY <1>2, <1>4, <1>5, AnswerStep
<1> HIDE DEF s
<1>7. /\ StoreInv(rs', Tail(q))
      /\ rs'.down = Tail(rs.down) /\ rs'.handshake
  BY <1>2, <1>3, <1>4, <1>6, FillStore
<1>8. TypeOK'
  BY <1>6, <1>7 DEF StoreInv, StoreCore, IsPrefix
<1>9. StoreInv(rs', queue'[user'])
  BY <1>4, <1>6, <1>7
<1>10. /\ rs.down \in Seq(Writes \cup {HANDSHAKE}) /\ log \in Seq([user : Users, w : Writes])
       /\ Unread(log, rs.down, user)
  BY <1>1, StoreFields, Types DEF StoreInv, StoreCore, LogInv
<1>11. /\ Unread(log, Tail(rs.down), user)
       /\ \E n \in 1 .. Len(log) : AnswersEntry(rs.down, log, n, user)
  BY <1>1, <1>10, UnreadTail
<1>12. PICK n \in 1 .. Len(log) : AnswersEntry(rs.down, log, n, user)
  BY <1>11
<1>13. LogInv'
  BY <1>4, <1>6, <1>7, <1>11 DEF LogInv
<1>14. b.w \in Writes /\ b = q[1] /\ b = Head(q)
  <2>1. q[1] \in Batch /\ Head(q) = q[1]
    BY <1>1, <1>2, Rest
  <2>2. QED
    BY <1>2, <2>1 DEF Batch
<1>15. \A k \in 1 .. Len(Tail(rs.down)) : Tail(rs.down)[k] > b.w
  <2>1. TAKE k \in 1 .. Len(Tail(rs.down))
  <2>2. /\ s \in RemoteStore /\ IsPrefix(s.pipeline, Tail(q))
        /\ OnTheWire(s.down, s.up, s.pipeline)
    BY <1>2 DEF StoreCore, Wire
  <2>3. \A i \in 1 .. Len(s.down) : i \in 1 .. Len(Tail(q)) /\ s.down[i] = Tail(q)[i].w
    BY <1>3, <2>2, StoreFields, WireOfQueue
  <2>4. k \in 1 .. Len(Tail(q)) /\ Tail(rs.down)[k] = Tail(q)[k].w
    BY <1>2, <2>3
  <2>5. q[1].w < Tail(q)[k].w
    BY <1>1, <1>2, <2>4, OrderedTail
  <2>6. Tail(q)[k].w \in Writes
    BY <1>3, <2>4, BatchFields
  <2>7. QED
    BY <1>14, <2>4, <2>5, <2>6 DEF Writes
<1>16. DOMAIN log = 1 .. Len(log)
  BY <1>10, LenProperties
<1>17. LastWriteWins'
  <2>1. SUFFICES ASSUME NEW m \in Writes, settled'[m] = "ok"
                 PROVE  \E i \in DOMAIN log :
                          /\ log[i].w = m
                          /\ \A j \in DOMAIN log :
                               j > i /\ log[j].user = log[i].user => log[j].w > m
    BY <1>4, Zenon DEF LastWriteWins
  <2>2. CASE m = b.w
    BY <1>2, <1>12, <1>14, <1>15, <1>16, <2>2 DEF AnswersEntry
  <2>3. CASE m # b.w
    BY <1>1, <1>4, <2>1, <2>3, Types DEF LastWriteWins
  <2>4. QED
    BY <2>2, <2>3
<1>18. QED
  BY <1>6, <1>8, <1>9, <1>13, <1>17 DEF IInv

LEMMA WriteRefusedStep ==
    ASSUME ConstantsAssumption, IInv, WriteRefused
    PROVE  IInv'
<1> DEFINE q == queue[user]
           b == Head(rs.pipeline)
<1>1. /\ TypeOK /\ StoreInv(rs, q) /\ QueueInv /\ LogInv /\ LastWriteWins
      /\ rs.refused
      /\ q \in Seq(Batch) /\ Ordered(q)
  BY Types DEF IInv, WriteRefused, QueueInv
<1>2. /\ NotifyUser(b.id, "error") /\ queue' = RemoveMutationBatch(b)
      /\ settled' = [settled EXCEPT ![b.w] = "error"]
      /\ UNCHANGED <<nextBatchId, user, log, used>>
      /\ rs' = [FillWritePipeline(
                  [Disconnected(rs, "initial") EXCEPT !.pipeline = Tail(@)],
                  queue'[user]) EXCEPT !.handshake = FALSE]
  BY DEF WriteRefused
<1>3. "error" \in Outcome
  BY DEF Outcome
<1>4. rs.pipeline # <<>> /\ q # <<>> /\ Head(rs.pipeline) = Head(q)
  BY <1>1, RefusedStore
<1>5. /\ Answered(b, "error") /\ queue'[user] = Tail(q)
      /\ QueueInv' /\ LoggedBefore'
      /\ rs' \in RemoteStore /\ Len(rs'.pipeline) <= kMaxPendingWrites => TypeOK'
  BY <1>2, <1>3, <1>4, AnswerStep
<1>6. StoreInv(rs', Tail(q)) /\ ~rs'.handshake
  BY <1>1, <1>2, <1>5, RefusedStore
<1>7. TypeOK'
  BY <1>5, <1>6 DEF StoreInv, StoreCore, IsPrefix
<1>8. StoreInv(rs', queue'[user'])
  BY <1>2, <1>5, <1>6
<1>9. LogInv'
  BY <1>5, <1>6 DEF LogInv
<1>10. LastWriteWins'
  <2>1. \A m \in Writes : settled'[m] = "ok" => settled[m] = "ok"
    BY <1>1, <1>2, Types
  <2>2. log' = log
    BY <1>2
  <2>3. QED
    BY <1>1, <2>1, <2>2, Zenon DEF LastWriteWins
<1>11. QED
  BY <1>5, <1>7, <1>8, <1>9, <1>10 DEF IInv

(* A longer queue has the same beginnings. *)
LEMMA PrefixOfMore ==
    ASSUME NEW p \in Seq(Batch), NEW q \in Seq(Batch), NEW b \in Batch, IsPrefix(p, q)
    PROVE  IsPrefix(p, Append(q, b))
<1>1. Len(p) \in Nat /\ Len(q) \in Nat
  BY LenProperties
<1>2. /\ Len(Append(q, b)) = Len(q) + 1
      /\ \A i \in 1 .. Len(q) : Append(q, b)[i] = q[i]
  BY OneMore
<1>3. Len(p) <= kMaxPendingWrites /\ Len(p) <= Len(q)
  BY DEF IsPrefix
<1>4. ASSUME NEW i \in 1 .. Len(p)
      PROVE  p[i] = Append(q, b)[i]
  <2>1. i \in 1 .. Len(q)
    BY <1>1, <1>3
  <2>2. p[i] = q[i]
    BY Zenon DEF IsPrefix
  <2>3. QED
    BY <1>2, <2>1, <2>2
<1>5. Len(p) <= Len(Append(q, b))
  BY <1>1, <1>2, <1>3
<1>6. QED
  BY <1>3, <1>4, <1>5 DEF IsPrefix

(* A batch with a new id and a new write goes to the end of the queue. *)
LEMMA OrderedAppend ==
    ASSUME NEW q \in Seq(Batch), Ordered(q), NEW b \in Batch,
           \A i \in 1 .. Len(q) : q[i].id < b.id /\ q[i].w < b.w
    PROVE  /\ Append(q, b) \in Seq(Batch) /\ Ordered(Append(q, b))
           /\ \A i \in 1 .. Len(Append(q, b)) :
                (i \in 1 .. Len(q) /\ Append(q, b)[i] = q[i]) \/ Append(q, b)[i] = b
           /\ \A i \in 1 .. Len(q) :
                i \in 1 .. Len(Append(q, b)) /\ Append(q, b)[i] = q[i]
           /\ \E i \in 1 .. Len(Append(q, b)) : Append(q, b)[i] = b
<1>1. Len(q) \in Nat
  BY LenProperties
<1>2. /\ Append(q, b) \in Seq(Batch) /\ Len(Append(q, b)) = Len(q) + 1
      /\ \A i \in 1 .. Len(q) : Append(q, b)[i] = q[i]
      /\ Append(q, b)[Len(q) + 1] = b
  BY OneMore
<1>3. \A i \in 1 .. Len(q) + 1 : i \in 1 .. Len(q) \/ i = Len(q) + 1
  BY <1>1
<1>4. /\ \A i \in 1 .. Len(q) : i \in 1 .. Len(q) + 1
      /\ Len(q) + 1 \in 1 .. Len(q) + 1
  BY <1>1
<1>5. ASSUME NEW i \in 1 .. Len(q) + 1, NEW j \in 1 .. Len(q) + 1, i < j
      PROVE  /\ Append(q, b)[i].id < Append(q, b)[j].id
             /\ Append(q, b)[i].w < Append(q, b)[j].w
  <2>1. i \in 1 .. Len(q) /\ Append(q, b)[i] = q[i]
    BY <1>1, <1>2, <1>5
  <2>2. CASE j \in 1 .. Len(q)
    <3>1. q[i].id < q[j].id /\ q[i].w < q[j].w
      BY <1>5, <2>1, <2>2, Zenon DEF Ordered
    <3>2. Append(q, b)[j] = q[j]
      BY <1>2, <2>2
    <3>3. QED
      BY <2>1, <3>1, <3>2, Zenon
  <2>3. CASE j = Len(q) + 1
    BY <1>2, <2>1, <2>3, Zenon
  <2>4. QED
    BY <1>3, <2>2, <2>3, Zenon
<1>6. Ordered(Append(q, b))
  BY <1>2, <1>5 DEF Ordered
<1>7. ASSUME NEW i \in 1 .. Len(Append(q, b))
      PROVE  (i \in 1 .. Len(q) /\ Append(q, b)[i] = q[i]) \/ Append(q, b)[i] = b
  <2>1. i \in 1 .. Len(q) \/ i = Len(q) + 1
    BY <1>2, <1>3
  <2>2. QED
    BY <1>2, <2>1, Zenon
<1>8. \A i \in 1 .. Len(q) : i \in 1 .. Len(Append(q, b))
  BY <1>2, <1>4
<1>9. \E i \in 1 .. Len(Append(q, b)) : Append(q, b)[i] = b
  <2>1. Len(q) + 1 \in 1 .. Len(Append(q, b))
    BY <1>2, <1>4
  <2>2. QED
    BY <1>2, <2>1, Zenon
<1>10. QED
  BY <1>2, <1>6, <1>7, <1>8, <1>9

LEMMA WriteMutationsStep ==
    ASSUME ConstantsAssumption, IInv, WriteMutations
    PROVE  IInv'
<1> DEFINE q == queue[user]
           b == [id |-> nextBatchId, w |-> used["write"] + 1]
           more == Append(q, b)
<1>1. /\ TypeOK /\ StoreInv(rs, q) /\ QueueInv /\ LogInv /\ LastWriteWins
      /\ q \in Seq(Batch) /\ Ordered(q) /\ user \in Users
  BY Types DEF IInv, QueueInv
<1>2. /\ queue' = [queue EXCEPT ![user] = more]
      /\ callbacks' = callbacks \cup {[user |-> user, id |-> b.id, w |-> b.w]}
      /\ nextBatchId' = nextBatchId + 1
      /\ rs' = FillWritePipeline(rs, queue'[user])
      /\ user' = user /\ log' = log /\ settled' = settled /\ told' = told
      /\ used["write"] < MaxWrite
      /\ used' = [used EXCEPT !["write"] = @ + 1]
  BY DEF WriteMutations, Bump
<1>3. /\ b \in Batch /\ b.id = nextBatchId /\ b.w = used["write"] + 1
      /\ b.w \in Writes
      /\ nextBatchId \in Nat /\ used["write"] \in Nat
  BY <1>1, <1>2, Types DEF ConstantsAssumption, Batch, Writes
<1>4. used' \in [Counters -> Nat] /\ used'["write"] = used["write"] + 1
  BY <1>1, <1>2 DEF TypeOK, Counters
<1> HIDE DEF b
<1>5. \A u \in Users : \A i \in 1 .. Len(queue[u]) :
        /\ queue[u][i].id \in Nat /\ queue[u][i].w \in Writes
        /\ queue[u][i].id < b.id
        /\ queue[u][i].w < b.w /\ queue[u][i].w # b.w
        /\ settled[queue[u][i].w] = "no"
  <2>1. SUFFICES ASSUME NEW u \in Users, NEW i \in 1 .. Len(queue[u])
                 PROVE  /\ queue[u][i].id \in Nat /\ queue[u][i].w \in Writes
                        /\ queue[u][i].id < b.id
                        /\ queue[u][i].w < b.w /\ queue[u][i].w # b.w
                        /\ settled[queue[u][i].w] = "no"
    OBVIOUS
  <2>2. queue[u][i].id \in Nat /\ queue[u][i].w \in Writes
    BY <1>1, Types, BatchFields
  <2>3. /\ queue[u][i].id < nextBatchId /\ queue[u][i].w <= used["write"]
        /\ settled[queue[u][i].w] = "no"
    BY <1>1 DEF QueueInv, Queued
  <2>4. QED
    BY <1>3, <2>2, <2>3 DEF Writes
<1>6. /\ more \in Seq(Batch) /\ Ordered(more)
      /\ \A i \in 1 .. Len(more) :
           (i \in 1 .. Len(q) /\ more[i] = q[i]) \/ more[i] = b
      /\ \A i \in 1 .. Len(q) : i \in 1 .. Len(more) /\ more[i] = q[i]
      /\ \E i \in 1 .. Len(more) : more[i] = b
  BY <1>1, <1>3, <1>5, OrderedAppend
<1>7. /\ queue'[user] = more
      /\ \A u \in Users \ {user} : queue'[u] = queue[u]
      /\ queue' \in [Users -> Seq(Batch)]
  BY <1>1, <1>2, <1>6 DEF TypeOK
<1>8. StoreInv(rs', more)
  <2>1. IsPrefix(rs.pipeline, more)
    BY <1>1, <1>3, StoreFields, PrefixOfMore DEF StoreInv, StoreCore
  <2>2. StoreCore(rs, more)
    BY <1>1, <2>1 DEF StoreInv, StoreCore
  <2>3. QED
    BY <1>2, <1>6, <1>7, <2>2, FillStore
<1>9. rs'.down = rs.down /\ rs'.handshake = rs.handshake
  <2>1. StoreCore(rs, more)
    BY <1>1, <1>3, StoreFields, PrefixOfMore DEF StoreInv, StoreCore
  <2>2. QED
    BY <1>2, <1>6, <1>7, <2>1, FillStore, ZenonT(30)
<1> HIDE DEF more
<1>10. TypeOK'
  <2>1. rs' \in RemoteStore /\ Len(rs'.pipeline) <= kMaxPendingWrites
    BY <1>8 DEF StoreInv, StoreCore, IsPrefix
  <2>2. callbacks' \subseteq [user : Users, id : Nat, w : Writes]
    BY <1>1, <1>2, <1>3 DEF TypeOK
  <2>3. nextBatchId' \in Nat \ {0}
    BY <1>2, <1>3
  <2>4. QED
    BY <1>1, <1>2, <1>4, <1>7, <2>1, <2>2, <2>3 DEF TypeOK
(* A batch of the new queues is an old one or the new one. *)
<1>11. \A u \in Users : \A i \in 1 .. Len(queue'[u]) :
         \/ i \in 1 .. Len(queue[u]) /\ queue'[u][i] = queue[u][i]
         \/ u = user /\ queue'[u][i] = b
  <2>1. SUFFICES ASSUME NEW u \in Users, NEW i \in 1 .. Len(queue'[u])
                 PROVE  \/ i \in 1 .. Len(queue[u]) /\ queue'[u][i] = queue[u][i]
                        \/ u = user /\ queue'[u][i] = b
    OBVIOUS
  <2>2. CASE u = user
    BY <1>6, <1>7, <2>2
  <2>3. CASE u # user
    BY <1>7, <2>3
  <2>4. QED
    BY <2>2, <2>3
<1>12. Queued'
  <2>1. SUFFICES ASSUME NEW u \in Users, NEW i \in 1 .. Len(queue'[u])
                 PROVE  /\ queue'[u][i].id < nextBatchId + 1
                        /\ queue'[u][i].w <= used["write"] + 1
                        /\ settled[queue'[u][i].w] = "no"
    BY <1>2, <1>4 DEF Queued
  <2>2. CASE i \in 1 .. Len(queue[u]) /\ queue'[u][i] = queue[u][i]
    BY <1>3, <1>5, <2>2 DEF Writes
  <2>3. CASE queue'[u][i] = b
    <3>1. settled[b.w] = "no"
      BY <1>1, <1>3 DEF QueueInv, Writes
    <3>2. QED
      BY <1>3, <2>3, <3>1
  <2>4. QED
    BY <1>11, <2>2, <2>3
<1>13. OneUser'
  <2>1. SUFFICES ASSUME NEW u \in Users, NEW v \in Users,
                        NEW i \in 1 .. Len(queue'[u]), NEW k \in 1 .. Len(queue'[v]),
                        queue'[u][i].w = queue'[v][k].w
                 PROVE  u = v
    BY DEF OneUser
  <2>2. \/ i \in 1 .. Len(queue[u]) /\ queue'[u][i] = queue[u][i]
        \/ u = user /\ queue'[u][i] = b
    BY <1>11
  <2>3. \/ k \in 1 .. Len(queue[v]) /\ queue'[v][k] = queue[v][k]
        \/ v = user /\ queue'[v][k] = b
    BY <1>11
  <2>4. CASE /\ i \in 1 .. Len(queue[u]) /\ queue'[u][i] = queue[u][i]
             /\ k \in 1 .. Len(queue[v]) /\ queue'[v][k] = queue[v][k]
    BY <1>1, <2>1, <2>4 DEF QueueInv, OneUser
  <2>5. QED
    BY <1>5, <2>1, <2>2, <2>3, <2>4
<1>14. CallbacksQueued'
  <2>1. \A u \in Users : \A i \in 1 .. Len(queue[u]) :
          i \in 1 .. Len(queue'[u]) /\ queue'[u][i] = queue[u][i]
    BY <1>6, <1>7
  <2>2. SUFFICES ASSUME NEW c \in callbacks'
                 PROVE  \E i \in 1 .. Len(queue'[c.user]) :
                          queue'[c.user][i].id = c.id /\ queue'[c.user][i].w = c.w
    BY DEF CallbacksQueued
  <2>3. CASE c \in callbacks
    <3>1. PICK i \in 1 .. Len(queue[c.user]) :
            queue[c.user][i].id = c.id /\ queue[c.user][i].w = c.w
      BY <1>1, <2>3 DEF QueueInv, CallbacksQueued
    <3>2. c.user \in Users
      BY <1>1, <2>3, Types
    <3>3. QED
      BY <2>1, <3>1, <3>2
  <2>4. CASE c = [user |-> user, id |-> b.id, w |-> b.w]
    BY <1>6, <1>7, <2>4
  <2>5. QED
    BY <1>2, <2>3, <2>4
<1>15. QueueInv'
  <2>1. \A u \in Users : Ordered(queue'[u])
    BY <1>1, <1>6, <1>7 DEF QueueInv
  <2>2. \A w \in Writes : w > used["write"] + 1 => settled[w] = "no"
    BY <1>1, <1>3 DEF QueueInv, Writes
  <2>3. \A w \in Writes : w > used'["write"] => settled'[w] = "no"
    BY <1>2, <1>4, <2>2
  <2>4. QED
    BY <1>12, <1>13, <1>14, <2>1, <2>3 DEF QueueInv
<1>16. LoggedBefore'
  <2>1. SUFFICES ASSUME NEW i \in 1 .. Len(log)
                 PROVE  /\ log[i].w <= used["write"] + 1
                        /\ \A u \in Users : \A k \in 1 .. Len(queue'[u]) :
                             /\ log[i].w = queue'[u][k].w => log[i].user = u
                             /\ log[i].user = u /\ settled[log[i].w] # "no" =>
                                  log[i].w < queue'[u][k].w
    BY <1>2, <1>4, Zenon, SMTT(30) DEF LoggedBefore
  <2>2. log[i].w \in Writes /\ log[i].w <= used["write"]
    BY <1>1, LogEntry DEF LogInv, LoggedBefore
  <2>3. log[i].w < b.w /\ log[i].w # b.w /\ log[i].w <= used["write"] + 1
    BY <1>3, <2>2 DEF Writes
  <2>4. QED
    BY <1>1, <1>11, <2>3, SMTT(30) DEF LogInv, LoggedBefore
<1>17. LogInv'
  BY <1>1, <1>2, <1>9, <1>16 DEF LogInv
<1>18. LastWriteWins'
  BY <1>1, <1>2, Zenon DEF LastWriteWins
<1>19. StoreInv(rs', queue'[user'])
  BY <1>2, <1>7, <1>8
<1>20. QED
  BY <1>10, <1>15, <1>17, <1>18, <1>19 DEF IInv

(* The server commits the next request: the write behind those whose       *)
(* responses are not read, which is in the queue of the user signed in and *)
(* later than anything of his that is settled.                             *)
LEMMA ServerCommitStep ==
    ASSUME ConstantsAssumption, IInv, ServerCommit
    PROVE  IInv'
<1> DEFINE q == queue[user]
           x == Head(rs.up)
           e == [user |-> user, w |-> x]
           down == Append(rs.down, x)
<1>1. /\ TypeOK /\ StoreInv(rs, q) /\ QueueInv /\ LogInv /\ LastWriteWins
      /\ q \in Seq(Batch) /\ user \in Users /\ rs.up # <<>>
      /\ log \in Seq([user : Users, w : Writes])
      /\ UNCHANGED <<queue, nextBatchId, user, callbacks, settled, told, used>>
      /\ log' = Append(log, e)
  BY Types DEF IInv, ServerCommit
<1>2. StoreInv(rs', q) /\ rs.handshake /\ x \in Writes
  BY <1>1, ServerCommitStore
<1>3. rs \in RemoteStore /\ rs.down \in Seq(Writes \cup {HANDSHAKE})
  BY <1>1, StoreFields DEF StoreInv, StoreCore
<1>4. rs'.down = down /\ rs'.handshake
  BY <1>2, <1>3 DEF ServerCommit, RemoteStore
<1>5. PICK k \in 1 .. Len(q) : x = q[k].w
  <2>1. OnTheWire(rs.down, rs.up, rs.pipeline) /\ IsPrefix(rs.pipeline, q)
    BY <1>1, <1>2 DEF StoreInv, StoreCore, Wire
  <2>2. rs.up \in Seq(Writes \cup {HANDSHAKE}) /\ rs.pipeline \in Seq(Batch)
    BY <1>3, StoreFields
  <2>3. q \in Seq(Batch) /\ rs.up # <<>>
    BY <1>1
  <2> HIDE DEF q
  <2>4. Len(rs.down) + 1 \in 1 .. Len(q) /\ x = q[Len(rs.down) + 1].w
    BY <1>3, <2>1, <2>2, <2>3, WireOfQueue
  <2>5. QED
    BY <2>4
<1>6. e \in [user : Users, w : Writes] /\ e.user = user /\ e.w = x
  BY <1>1, <1>2
<1>7. /\ x <= used["write"] /\ settled[x] = "no"
  BY <1>1, <1>5 DEF QueueInv, Queued
<1> HIDE DEF e, x
<1>8. /\ log' \in Seq([user : Users, w : Writes])
      /\ DOMAIN log' = 1 .. Len(log') /\ DOMAIN log = 1 .. Len(log)
      /\ \A i \in 1 .. Len(log) : i \in 1 .. Len(log') /\ log'[i] = log[i]
      /\ \A i \in 1 .. Len(log') :
           \/ i \in 1 .. Len(log) /\ log'[i] = log[i]
           \/ i \notin 1 .. Len(log) /\ log'[i] = e
  <2>1. /\ Append(log, e) \in Seq([user : Users, w : Writes])
        /\ Len(Append(log, e)) = Len(log) + 1
        /\ \A i \in 1 .. Len(log) : Append(log, e)[i] = log[i]
        /\ Append(log, e)[Len(log) + 1] = e
    BY <1>1, <1>6, OneMore
  <2>2. Len(log) \in Nat
    BY <1>1, LenProperties
  <2>3. \A i \in 1 .. Len(log) : i \in 1 .. Len(log) + 1
    BY <2>2
  <2>4. \A i \in 1 .. Len(log) + 1 :
          i \in 1 .. Len(log) \/ (i \notin 1 .. Len(log) /\ i = Len(log) + 1)
    BY <2>2
  <2>5. DOMAIN Append(log, e) = 1 .. Len(Append(log, e)) /\ DOMAIN log = 1 .. Len(log)
    BY <1>1, <2>1, LenProperties
  <2>6. QED
    BY <1>1, <2>1, <2>3, <2>4, <2>5, Zenon
<1>9. Unread(log', rs'.down, user)
  <2>1. Unread(log, rs.down, user)
    BY <1>1, <1>2 DEF LogInv
  <2>2. x \in Writes \cup {HANDSHAKE}
    BY <1>2
  <2>3. Unread(Append(log, e), Append(rs.down, x), user)
    BY <1>1, <1>3, <1>6, <2>1, <2>2, UnreadAppend
  <2>4. QED
    BY <1>1, <1>4, <2>3
<1>10. LoggedBefore'
  <2>1. SUFFICES ASSUME NEW i \in 1 .. Len(log')
                 PROVE  /\ log'[i].w <= used["write"]
                        /\ \A u \in Users : \A n \in 1 .. Len(queue[u]) :
                             /\ log'[i].w = queue[u][n].w => log'[i].user = u
                             /\ log'[i].user = u /\ settled[log'[i].w] # "no" =>
                                  log'[i].w < queue[u][n].w
    BY <1>1, Zenon, SMTT(30) DEF LoggedBefore
  <2>2. CASE i \in 1 .. Len(log) /\ log'[i] = log[i]
    BY <1>1, <2>2 DEF LogInv, LoggedBefore
  <2>3. CASE log'[i] = e
    <3>1. log'[i].w = x /\ log'[i].user = user
      BY <1>6, <2>3
    <3>2. \A u \in Users : \A n \in 1 .. Len(queue[u]) : x = queue[u][n].w => user = u
      BY <1>1, <1>5 DEF QueueInv, OneUser
    <3>3. QED
      BY <1>7, <3>1, <3>2
  <2>4. QED
    BY <1>8, <2>2, <2>3
<1>11. LogInv'
  BY <1>1, <1>9, <1>10 DEF LogInv
<1>12. LastWriteWins'
  <2>1. SUFFICES ASSUME NEW m \in Writes, settled[m] = "ok"
                 PROVE  \E i \in DOMAIN log' :
                          /\ log'[i].w = m
                          /\ \A j \in DOMAIN log' :
                               j > i /\ log'[j].user = log'[i].user => log'[j].w > m
    BY <1>1, Zenon DEF LastWriteWins
  <2>2. PICK i \in 1 .. Len(log) :
          /\ log[i].w = m
          /\ \A j \in 1 .. Len(log) : j > i /\ log[j].user = log[i].user => log[j].w > m
    BY <1>1, <1>8, <2>1 DEF LastWriteWins
  <2>3. log[i].user = user => x > m
    <3>1. SUFFICES ASSUME log[i].user = user PROVE x > m
      OBVIOUS
    <3>2. settled[log[i].w] # "no"
      BY <2>1, <2>2
    <3>3. log[i].w < q[k].w
      BY <1>1, <1>5, <3>1, <3>2 DEF LogInv, LoggedBefore
    <3>4. m < x
      BY <1>5, <2>2, <3>3
    <3>5. QED
      BY <1>2, <3>4 DEF Writes
  <2>4. ASSUME NEW j \in 1 .. Len(log'), j > i, log'[j].user = log'[i].user
        PROVE  log'[j].w > m
    <3>1. log'[i] = log[i]
      BY <1>8
    <3>2. CASE j \in 1 .. Len(log) /\ log'[j] = log[j]
      BY <2>2, <2>4, <3>1, <3>2
    <3>3. CASE log'[j] = e
      BY <1>6, <2>3, <2>4, <3>1, <3>3
    <3>4. QED
      BY <1>8, <3>2, <3>3
  <2>5. QED
    BY <1>8, <2>2, <2>4
<1>13. TypeOK'
  <2>1. rs' \in RemoteStore /\ Len(rs'.pipeline) <= kMaxPendingWrites
    BY <1>2 DEF StoreInv, StoreCore, IsPrefix
  <2>2. QED
    BY <1>1, <1>8, <2>1 DEF TypeOK
<1>14. QueueInv'
  <2>1. Queued'
    BY <1>1 DEF QueueInv, Queued
  <2>2. OneUser'
    BY <1>1 DEF QueueInv, OneUser
  <2>3. CallbacksQueued'
    BY <1>1 DEF QueueInv, CallbacksQueued
  <2>4. /\ \A u \in Users : Ordered(queue'[u])
        /\ \A w \in Writes : w > used'["write"] => settled'[w] = "no"
    BY <1>1 DEF QueueInv
  <2>5. QED
    BY <2>1, <2>2, <2>3, <2>4 DEF QueueInv
<1>15. QED
  BY <1>1, <1>2, <1>11, <1>12, <1>13, <1>14 DEF IInv

(* Another account, or another process, on the same queues: the ids start  *)
(* behind those queued, the wire is gone, and completions may be lost.     *)
LEMMA AnewStep ==
    ASSUME IInv, NEW u \in Users, user' = u,
           UNCHANGED <<queue, log, settled>>,
           used' \in [Counters -> Nat], used'["write"] = used["write"],
           nextBatchId' = LoadNextBatchId(queue), callbacks' \subseteq callbacks,
           told' \in [Writes -> Outcome \cup {"no"}],
           StoreInv(rs', queue[u]), ~rs'.handshake
    PROVE  IInv'
<1>1. TypeOK /\ QueueInv /\ LogInv /\ LastWriteWins
  BY DEF IInv
<1>2. /\ nextBatchId' \in Nat \ {0}
      /\ \A v \in Users : \A i \in 1 .. Len(queue[v]) : queue[v][i].id < nextBatchId'
  BY <1>1, NextIdIsNew DEF QueueInv
<1>3. TypeOK'
  BY <1>1, <1>2 DEF TypeOK, StoreInv, StoreCore, IsPrefix
<1>4. Queued' /\ OneUser' /\ CallbacksQueued'
  <2>1. Queued'
    BY <1>1, <1>2 DEF QueueInv, Queued
  <2>2. OneUser'
    BY <1>1 DEF QueueInv, OneUser
  <2>3. CallbacksQueued'
    BY <1>1 DEF QueueInv, CallbacksQueued
  <2>4. QED
    BY <2>1, <2>2, <2>3
<1>5. QueueInv'
  BY <1>1, <1>4 DEF QueueInv
<1>6. LogInv'
  BY <1>1 DEF LogInv, LoggedBefore
<1>7. LastWriteWins'
  BY <1>1, Zenon DEF LastWriteWins
<1>8. QED
  BY <1>3, <1>5, <1>6, <1>7 DEF IInv

LEMMA RestartStep ==
    ASSUME ConstantsAssumption, IInv, NEW u \in Users, HandleCredentialChange(u)
    PROVE  IInv'
<1>1. /\ TypeOK /\ StoreInv(rs, queue[user]) /\ QueueInv
      /\ queue[u] \in Seq(Batch) /\ Ordered(queue[u])
  BY Types DEF IInv, QueueInv
<1>2. /\ user' = u /\ nextBatchId' = LoadNextBatchId(queue)
      /\ rs' = RestartNetwork(rs, queue[u])
      /\ UNCHANGED <<queue, callbacks, log, settled, told>>
      /\ Bump("fault")
  BY DEF HandleCredentialChange
<1>3. StoreInv(rs', queue[u]) /\ ~rs'.handshake
  BY <1>1, <1>2, RestartStore DEF StoreInv, StoreCore
<1>4. used'["write"] = used["write"] /\ used' \in [Counters -> Nat]
  BY <1>1, <1>2, FaultBump
<1>5. told' \in [Writes -> Outcome \cup {"no"}]
  BY <1>1, <1>2 DEF TypeOK
<1>6. QED
  BY <1>2, <1>3, <1>4, <1>5, AnewStep

LEMMA RelaunchStep ==
    ASSUME ConstantsAssumption, IInv, Relaunch,
           told' \in [Writes -> Outcome \cup {"no"}]
    PROVE  IInv'
<1>1. /\ TypeOK /\ QueueInv /\ user \in Users
      /\ queue[user] \in Seq(Batch) /\ Ordered(queue[user])
  BY Types DEF IInv, QueueInv
<1>2. /\ user' = user /\ nextBatchId' = LoadNextBatchId(queue)
      /\ rs' = FillWritePipeline(NewRemoteStore, queue[user])
      /\ UNCHANGED <<queue, log, settled>> /\ callbacks' = {}
      /\ Bump("fault")
  BY DEF Relaunch
<1>3. StoreInv(rs', queue[user]) /\ ~rs'.handshake
  <2>1. StoreCore(NewRemoteStore, queue[user]) /\ ~NewRemoteStore.handshake
    BY <1>1, NewStore
  <2>2. QED
    BY <1>1, <1>2, <2>1, FillStore
<1>4. used'["write"] = used["write"] /\ used' \in [Counters -> Nat]
  BY <1>1, <1>2, FaultBump
<1>5. callbacks' \subseteq callbacks
  BY <1>2
<1>6. QED
  BY <1>1, <1>2, <1>3, <1>4, <1>5, AnewStep

LEMMA DieStep ==
    ASSUME ConstantsAssumption, IInv, Die \/ DieInMutationResult
    PROVE  IInv'
<1>1. CASE Die
  <2>1. told' \in [Writes -> Outcome \cup {"no"}]
    BY <1>1 DEF Die, IInv, TypeOK
  <2>2. QED
    BY <1>1, <2>1, RelaunchStep DEF Die
<1>2. CASE DieInMutationResult
  <2>1. PICK c \in callbacks : told' = [told EXCEPT ![c.w] = "ok"]
    BY <1>2 DEF DieInMutationResult, Waiting
  <2>2. told' \in [Writes -> Outcome \cup {"no"}]
    BY <2>1 DEF IInv, TypeOK, Outcome
  <2>3. QED
    BY <1>2, <2>2, RelaunchStep DEF DieInMutationResult
<1>3. QED
  BY <1>1, <1>2

(* The remaining steps are of the stream alone. *)
StreamStep ==
    \/ \E c \in rs.asked : Credentials(c) \/ NoCredentials(c)
    \/ BackoffElapsed \/ HandshakeComplete \/ StreamBroken \/ IdleTimeout
    \/ ConnectivityChange \/ ServerHandshake \/ ServerRefuse

LEMMA StreamStepStore ==
    ASSUME ConstantsAssumption, IInv, StreamStep
    PROVE  StoreInv(rs', queue[user]) /\ NoAnswer(rs, rs')
<1>1. StoreInv(rs, queue[user])
  BY DEF IInv
<1>2. CASE ConnectivityChange
  <2>1. queue[user] \in Seq(Batch) /\ Ordered(queue[user])
    BY Types DEF IInv, QueueInv
  <2>2. StoreInv(rs', queue[user]) /\ ~rs'.handshake
    BY <1>1, <1>2, <2>1, RestartStore DEF ConnectivityChange, StoreInv, StoreCore
  <2>3. QED
    BY <2>2 DEF NoAnswer
<1>3. QED
  BY <1>1, <1>2, CredentialsStore, NoCredentialsStore, BackoffStore, HandshakeStore,
     BrokenStore, IdleStore, ServerHandshakeStore, ServerRefuseStore
     DEF StreamStep

(* A step of the stream alone changes nothing a user of the client sees. *)
LEMMA StreamStepStutters ==
    ASSUME StreamStep
    PROVE  /\ UNCHANGED <<queue, nextBatchId, user, callbacks, log, settled, told>>
           /\ used' = used \/ Bump("fault")
BY Zenon DEF StreamStep, Credentials, NoCredentials, BackoffElapsed, HandshakeComplete,
       StreamBroken, IdleTimeout, ConnectivityChange, ServerHandshake, ServerRefuse

LEMMA StreamStepInv ==
    ASSUME ConstantsAssumption, IInv, StreamStep
    PROVE  IInv'
<1>1. TypeOK /\ QueueInv /\ LogInv /\ LastWriteWins
  BY DEF IInv
<1>2. StoreInv(rs', queue[user]) /\ NoAnswer(rs, rs')
  BY StreamStepStore
<1>3. /\ UNCHANGED <<queue, nextBatchId, user, callbacks, log, settled, told>>
      /\ used' = used \/ Bump("fault")
  BY StreamStepStutters
<1>4. used'["write"] = used["write"] /\ used' \in [Counters -> Nat]
  <2>1. CASE used' = used
    BY <1>1, <2>1 DEF TypeOK
  <2>2. CASE Bump("fault")
    BY <1>1, <2>2, FaultBump
  <2>3. QED
    BY <1>3, <2>1, <2>2
<1>5. QueueInv' /\ LogInv' /\ LastWriteWins'
  BY <1>1, <1>2, <1>3, <1>4, QuietStep
<1>6. TypeOK'
  BY <1>1, <1>2, <1>3, <1>4 DEF TypeOK, StoreInv, StoreCore, IsPrefix
<1>7. QED
  BY <1>2, <1>3, <1>5, <1>6 DEF IInv

-----------------------------------------------------------------------------
LEMMA InitInv ==
    ASSUME ConstantsAssumption, Init
    PROVE  IInv
<1>1. \A u \in Users : queue[u] = <<>> /\ Len(queue[u]) = 0
  BY DEF Init
<1>2. <<>> \in Seq(Batch) /\ <<>> \in Seq([user : Users, w : Writes])
  BY EmptySeq
<1>3. StoreInv(rs, queue[user])
  <2>1. StoreCore(NewRemoteStore, <<>>) /\ NewRemoteStore.pipeline = <<>>
    BY <1>2, NewStore DEF NewRemoteStore
  <2>2. QED
    BY <1>1, <2>1 DEF Init, StoreInv
<1>4. TypeOK
  <2>1. /\ queue \in [Users -> Seq(Batch)] /\ log \in Seq([user : Users, w : Writes])
        /\ nextBatchId \in Nat \ {0} /\ user \in Users /\ callbacks = {}
    BY <1>2 DEF Init
  <2>2. /\ settled \in [Writes -> Outcome \cup {"no"}]
        /\ told \in [Writes -> Outcome \cup {"no"}]
        /\ used \in [Counters -> Nat]
    BY DEF Init
  <2>3. rs \in RemoteStore /\ Len(rs.pipeline) <= kMaxPendingWrites
    BY <1>3 DEF StoreInv, StoreCore, IsPrefix
  <2>4. QED
    BY <2>1, <2>2, <2>3 DEF TypeOK
<1>5. QueueInv
  BY <1>1 DEF Init, QueueInv, Ordered, Queued, OneUser, CallbacksQueued
<1>6. LogInv
  <2>1. ~rs.handshake /\ Len(log) = 0
    BY DEF Init, NewRemoteStore
  <2>2. QED
    BY <2>1 DEF LogInv, LoggedBefore
<1>7. LastWriteWins
  BY DEF Init, LastWriteWins
<1>8. QED
  BY <1>3, <1>4, <1>5, <1>6, <1>7 DEF IInv

LEMMA StepInv ==
    ASSUME ConstantsAssumption, IInv, [Next]_vars
    PROVE  IInv'
<1>1. CASE UNCHANGED vars
  <2>1. /\ queue' = queue /\ nextBatchId' = nextBatchId /\ user' = user
        /\ callbacks' = callbacks /\ rs' = rs /\ log' = log
        /\ settled' = settled /\ told' = told /\ used' = used
    BY <1>1 DEF vars
  <2>2. TypeOK'
    BY <2>1 DEF IInv, TypeOK
  <2>3. StoreInv(rs', queue'[user'])
    BY <2>1 DEF IInv
  <2>4. QueueInv'
    BY <2>1 DEF IInv, QueueInv, Queued, OneUser, CallbacksQueued
  <2>5. LogInv'
    BY <2>1 DEF IInv, LogInv, LoggedBefore
  <2>6. LastWriteWins'
    BY <2>1 DEF IInv, LastWriteWins
  <2>7. QED
    BY <2>2, <2>3, <2>4, <2>5, <2>6 DEF IInv
<1>2. CASE Next
  <2>1. \/ WriteMutations \/ MutationResult \/ WriteRefused \/ ServerCommit
        \/ \E u \in Users : HandleCredentialChange(u)
        \/ Die \/ DieInMutationResult
        \/ StreamStep
    BY <1>2 DEF Next, StreamStep
  <2>2. QED
    BY <2>1, WriteMutationsStep, MutationResultStep, WriteRefusedStep, ServerCommitStep,
       RestartStep, DieStep, StreamStepInv
<1>3. QED
  BY <1>1, <1>2

-----------------------------------------------------------------------------
(* The invariant holds in every behaviour.                                 *)
THEOREM Invariance == Spec => []IInv
<1>1. Init => IInv
  BY ConstantsAssumption, InitInv
<1>2. IInv /\ [Next]_vars => IInv'
  BY ConstantsAssumption, StepInv
<1>3. QED
  BY <1>1, <1>2, PTL DEF Spec

(* Every variable has its type, and FillWritePipeline never puts more than *)
(* kMaxPendingWrites batches into the pipeline, whatever is resent, broken *)
(* or refilled.                                                            *)
THEOREM TypeCorrect == Spec => []TypeOK
<1>1. IInv => TypeOK
  BY DEF IInv
<1>2. QED
  BY <1>1, Invariance, PTL

(* No write is forgotten: what fits in the pipeline is in it, a stream is  *)
(* on its way while it holds something, and the idle timer and the         *)
(* credential requests are where the client's assertions want them.        *)
THEOREM NoneForgottenHolds == Spec => []NoneForgotten
<1>1. ASSUME IInv PROVE NoneForgotten
  <2>1. StoreInv(rs, queue[user])
    BY <1>1 DEF IInv
  <2>2. rs.pipeline # <<>> => ~rs.idle
    BY <2>1 DEF StoreInv, StoreCore, Purpose
  <2>3. QED
    BY <2>1, <2>2 DEF StoreInv, StoreCore, Credible, NoneForgotten
<1>2. QED
  BY <1>1, Invariance, PTL

(* The last switch wins: after a write was acknowledged no earlier one of  *)
(* the same user reaches the documents, resends included.                  *)
THEOREM LastWriteWinsHolds == Spec => []LastWriteWins
<1>1. IInv => LastWriteWins
  BY DEF IInv
<1>2. QED
  BY <1>1, Invariance, PTL

(* The wire, as a sequence, is the writes of the pipeline. *)
LEMMA WireIsWrites ==
    ASSUME NEW r \in RemoteStore, OnTheWire(r.down, r.up, r.pipeline)
    PROVE  r.down \o r.up = WritesIn(r.pipeline)
<1> DEFINE T == Writes \cup {HANDSHAKE}
           d == r.down
           u == r.up
           p == r.pipeline
<1>1. d \in Seq(T) /\ u \in Seq(T) /\ p \in Seq(Batch)
  BY DEF RemoteStore
<1> HIDE DEF d, u, p, T
<1>2. Len(d) \in Nat /\ Len(u) \in Nat /\ Len(p) \in Nat
  BY <1>1, LenProperties
<1>3. /\ Len(p) = Len(d) + Len(u)
      /\ \A i \in 1 .. Len(d) : d[i] = p[i].w
      /\ \A i \in 1 .. Len(u) : u[i] = p[Len(d) + i].w
  BY Zenon DEF OnTheWire, d, u, p
<1>4. /\ WritesIn(p) \in Seq(Writes)
      /\ Len(WritesIn(p)) = Len(p)
      /\ \A i \in 1 .. Len(p) : WritesIn(p)[i] = p[i].w
  BY <1>1, WritesInSeq
<1>5. /\ d \o u \in Seq(T)
      /\ Len(d \o u) = Len(d) + Len(u)
      /\ \A i \in 1 .. Len(d) + Len(u) :
           (d \o u)[i] = IF i <= Len(d) THEN d[i] ELSE u[i - Len(d)]
  BY <1>1, ConcatProperties
<1>6. ASSUME NEW i \in 1 .. Len(p)
      PROVE  (d \o u)[i] = WritesIn(p)[i]
  <2>1. (d \o u)[i] = IF i <= Len(d) THEN d[i] ELSE u[i - Len(d)]
    BY <1>3, <1>5
  <2>2. CASE i <= Len(d)
    <3>1. i \in 1 .. Len(d)
      BY <1>2, <2>2
    <3>2. QED
      BY <1>3, <1>4, <2>1, <2>2, <3>1
  <2>3. CASE ~(i <= Len(d))
    <3>1. i - Len(d) \in 1 .. Len(u) /\ Len(d) + (i - Len(d)) = i
      BY <1>2, <1>3, <2>3
    <3>2. u[i - Len(d)] = p[i].w
      BY <1>3, <3>1
    <3>3. QED
      BY <1>4, <2>1, <2>3, <3>2
  <2>4. QED
    BY <2>2, <2>3
<1>7. WritesIn(p) \in Seq(T)
  BY <1>4, SeqMonotonic DEF T
<1>8. Len(d \o u) = Len(WritesIn(p))
  BY <1>3, <1>4, <1>5
<1>9. \A i \in 1 .. Len(d \o u) : (d \o u)[i] = WritesIn(p)[i]
  BY <1>4, <1>6, <1>8
<1>10. d \o u = WritesIn(p)
  BY <1>5, <1>7, <1>8, <1>9, SeqEqual
<1>11. QED
  BY <1>10 DEF d, u, p

(* A beginning is the piece from the first element on. *)
LEMMA PrefixIsPiece ==
    ASSUME NEW p \in Seq(Batch), NEW q \in Seq(Batch), IsPrefix(p, q)
    PROVE  p = SubSeq(q, 1, Len(p))
<1>1. Len(p) \in Nat /\ Len(q) \in Nat
  BY LenProperties
<1>2. 1 \in Nat \ {0} /\ 1 <= Len(p) + 1 /\ Len(p) <= Len(q)
  BY <1>1 DEF IsPrefix
<1>3. /\ SubSeq(q, 1, Len(p)) \in Seq(Batch)
      /\ Len(SubSeq(q, 1, Len(p))) = Len(p)
      /\ \A i \in 1 .. Len(p) : SubSeq(q, 1, Len(p))[i] = q[i]
  BY <1>1, <1>2, Piece
<1>4. \A i \in 1 .. Len(p) : p[i] = SubSeq(q, 1, Len(p))[i]
  BY <1>3 DEF IsPrefix
<1>5. QED
  BY <1>3, <1>4, SeqEqual

(* A response can be matched with the first write of the pipeline: what is *)
(* on the wire is what the pipeline waits for, in its order, and the       *)
(* pipeline is the beginning of the queue of the user signed in.           *)
THEOREM WireInStepHolds == Spec => []WireInStep
<1>1. ASSUME IInv PROVE WireInStep
  <2>1. /\ rs \in RemoteStore /\ IsPrefix(rs.pipeline, queue[user]) /\ Wire(rs)
        /\ queue[user] \in Seq(Batch)
    BY <1>1 DEF IInv, TypeOK, StoreInv, StoreCore
  <2>2. rs.handshake => IsOpen(rs) /\ rs.down \o rs.up = WritesIn(rs.pipeline)
    BY <2>1, WireIsWrites DEF Wire
  <2>3. ~rs.handshake /\ IsOpen(rs) => rs.down \o rs.up = <<HANDSHAKE>>
    <3>1. <<HANDSHAKE>> \in Seq({HANDSHAKE})
      OBVIOUS
    <3>2. QED
      BY <2>1, <3>1, ConcatEmptySeq DEF Wire, Handshaking
  <2>4. ~rs.handshake /\ ~IsOpen(rs) => rs.down \o rs.up = <<>>
    <3>1. <<>> \in Seq({HANDSHAKE})
      OBVIOUS
    <3>2. QED
      BY <2>1, <3>1, ConcatEmptySeq DEF Wire
  <2>5. /\ Len(rs.pipeline) <= Len(queue[user])
        /\ rs.pipeline = SubSeq(queue[user], 1, Len(rs.pipeline))
    BY <2>1, PrefixIsPiece DEF RemoteStore, IsPrefix
  <2>6. QED
    BY <2>2, <2>3, <2>4, <2>5 DEF WireInStep
<1>2. QED
  BY <1>1, Invariance, PTL

-----------------------------------------------------------------------------
(* The refinement of WriteQueue.                                           *)

(* The writes of a sequence of batches or of log entries, when one is      *)
(* added and when the first one leaves.                                    *)
LEMMA WritesTyped ==
    ASSUME NEW S, NEW s \in Seq(S)
    PROVE  /\ WritesIn(s) \in Seq({e.w : e \in S})
           /\ Len(WritesIn(s)) = Len(s)
           /\ DOMAIN WritesIn(s) = 1 .. Len(s)
           /\ \A i \in 1 .. Len(s) : WritesIn(s)[i] = s[i].w
<1>1. DOMAIN s = 1 .. Len(s) /\ Len(s) \in Nat
  BY LenProperties
<1>2. \A i \in 1 .. Len(s) : s[i] \in S
  BY ElementOfSeq
<1>3. WritesIn(s) \in [1 .. Len(s) -> {e.w : e \in S}]
  BY <1>1, <1>2 DEF WritesIn
<1>4. QED
  BY <1>1, <1>3, FunctionIsSeq DEF WritesIn

LEMMA WritesAppend ==
    ASSUME NEW S, NEW s \in Seq(S), NEW e \in S
    PROVE  WritesIn(Append(s, e)) = Append(WritesIn(s), e.w)
<1> DEFINE W == {x.w : x \in S}
           a == Append(s, e)
           c == Append(WritesIn(s), e.w)
<1>1. /\ a \in Seq(S) /\ Len(a) = Len(s) + 1
      /\ \A i \in 1 .. Len(s) : a[i] = s[i]
      /\ a[Len(s) + 1] = e
  BY OneMore
<1>2. /\ WritesIn(s) \in Seq(W) /\ Len(WritesIn(s)) = Len(s)
      /\ \A i \in 1 .. Len(s) : WritesIn(s)[i] = s[i].w
  BY WritesTyped
<1>3. e.w \in W
  OBVIOUS
<1> HIDE DEF W
<1>4. /\ c \in Seq(W) /\ Len(c) = Len(s) + 1
      /\ \A i \in 1 .. Len(s) : c[i] = WritesIn(s)[i]
      /\ c[Len(s) + 1] = e.w
  <2>1. /\ c \in Seq(W) /\ Len(c) = Len(WritesIn(s)) + 1
        /\ \A i \in 1 .. Len(WritesIn(s)) : c[i] = WritesIn(s)[i]
        /\ c[Len(WritesIn(s)) + 1] = e.w
    BY <1>2, <1>3, OneMore
  <2>2. QED
    BY <1>2, <2>1
<1> HIDE DEF a, c
<1>5. /\ WritesIn(a) \in Seq(W) /\ Len(WritesIn(a)) = Len(a)
      /\ \A i \in 1 .. Len(a) : WritesIn(a)[i] = a[i].w
  BY <1>1, WritesTyped DEF W
<1>6. Len(s) \in Nat
  BY LenProperties
<1>7. ASSUME NEW i \in 1 .. Len(s) + 1
      PROVE  WritesIn(a)[i] = c[i]
  <2>1. CASE i \in 1 .. Len(s)
    BY <1>1, <1>2, <1>4, <1>5, <2>1
  <2>2. CASE i = Len(s) + 1
    BY <1>1, <1>4, <1>5, <1>6, <2>2
  <2>3. QED
    BY <1>6, <2>1, <2>2
<1>8. WritesIn(a) = c
  BY <1>1, <1>4, <1>5, <1>7, SeqEqual
<1>9. QED
  BY <1>8 DEF a, c

LEMMA WritesTail ==
    ASSUME NEW S, NEW s \in Seq(S), s # <<>>
    PROVE  /\ WritesIn(s) # <<>> /\ Head(WritesIn(s)) = Head(s).w
           /\ WritesIn(Tail(s)) = Tail(WritesIn(s))
<1> DEFINE W == {x.w : x \in S}
           t == Tail(s)
           v == WritesIn(s)
<1>1. /\ t \in Seq(S) /\ Head(s) = s[1]
      /\ Len(s) \in Nat \ {0} /\ Len(t) = Len(s) - 1
      /\ \A i \in 1 .. Len(s) - 1 : t[i] = s[i + 1]
  BY Rest
<1>2. /\ v \in Seq(W) /\ Len(v) = Len(s)
      /\ \A i \in 1 .. Len(s) : v[i] = s[i].w
  BY WritesTyped
<1> HIDE DEF W, v, t
<1>3. /\ WritesIn(t) \in Seq(W) /\ Len(WritesIn(t)) = Len(t)
      /\ \A i \in 1 .. Len(t) : WritesIn(t)[i] = t[i].w
  BY <1>1, WritesTyped DEF W
<1>4. v # <<>>
  BY <1>1, <1>2, EmptySeq
<1>5. /\ Tail(v) \in Seq(W) /\ Head(v) = v[1] /\ Len(Tail(v)) = Len(v) - 1
      /\ \A i \in 1 .. Len(v) - 1 : Tail(v)[i] = v[i + 1]
  BY <1>2, <1>4, Rest
<1>6. Head(v) = Head(s).w
  BY <1>1, <1>2, <1>5
<1>7. ASSUME NEW i \in 1 .. Len(s) - 1
      PROVE  WritesIn(t)[i] = Tail(v)[i]
  <2>1. i + 1 \in 1 .. Len(s)
    BY <1>1
  <2>2. QED
    BY <1>1, <1>2, <1>3, <1>5, <2>1
<1>8. WritesIn(t) = Tail(v)
  BY <1>1, <1>2, <1>3, <1>5, <1>7, SeqEqual
<1>9. QED
  BY <1>4, <1>6, <1>8 DEF v, t

(* A completion that waits under the id of the first write of the queue    *)
(* waits for that write, although ids are given out again; no other        *)
(* completion does.                                                        *)
LEMMA WaitingForHead ==
    ASSUME TypeOK, QueueInv, queue[user] # <<>>, NEW c \in callbacks
    PROVE  c \in Waiting(Head(queue[user]).id) <=> c.w = Head(queue[user]).w
<1> DEFINE q == queue[user]
           b == Head(q)
<1>1. /\ q \in Seq(Batch) /\ Ordered(q) /\ user \in Users
      /\ c \in [user : Users, id : Nat, w : Writes]
  BY Types DEF QueueInv
<1>2. /\ b = q[1] /\ 1 \in 1 .. Len(q) /\ b.id \in Nat /\ b.w \in Writes
  <2>1. b = q[1] /\ Len(q) \in Nat \ {0}
    BY <1>1, Rest
  <2>2. 1 \in 1 .. Len(q)
    BY <2>1
  <2>3. QED
    BY <1>1, <2>1, <2>2, BatchFields
<1>3. PICK i \in 1 .. Len(queue[c.user]) :
        queue[c.user][i].id = c.id /\ queue[c.user][i].w = c.w
  BY DEF QueueInv, CallbacksQueued
<1>4. ASSUME NEW k \in 1 .. Len(q), k # 1
      PROVE  q[k].id # b.id /\ q[k].w # b.w
  <2>1. 1 < k
    BY <1>4
  <2>2. b.id < q[k].id /\ b.w < q[k].w
    BY <1>1, <1>2, <2>1, Zenon DEF Ordered
  <2>3. q[k].id \in Nat /\ q[k].w \in Writes
    BY <1>1, BatchFields
  <2>4. QED
    BY <1>2, <2>2, <2>3 DEF Writes
<1> HIDE DEF b
<1>5. ASSUME c.user = user, c.id = b.id PROVE c.w = b.w
  <2>1. i \in 1 .. Len(q) /\ q[i].id = b.id /\ q[i].w = c.w
    BY <1>3, <1>5
  <2>2. i = 1
    BY <1>4, <2>1
  <2>3. QED
    BY <1>2, <2>1, <2>2
<1>6. ASSUME c.w = b.w PROVE c.user = user /\ c.id = b.id
  <2>1. c.user = user
    BY <1>1, <1>2, <1>3, <1>6 DEF QueueInv, OneUser
  <2>2. i \in 1 .. Len(q) /\ q[i].id = c.id /\ q[i].w = b.w
    BY <1>3, <1>6, <2>1
  <2>3. i = 1
    BY <1>4, <2>2
  <2>4. QED
    BY <1>2, <2>1, <2>2, <2>3
<1>7. QED
  BY <1>5, <1>6 DEF Waiting, b

Pending == [u \in Users |-> WritesIn(queue[u])]
Listening == {c.w : c \in callbacks}

(* What the answer of the first write of the queue does to what the        *)
(* abstract specification sees.                                            *)
LEMMA AnswerMaps ==
    ASSUME TypeOK, QueueInv, NEW outcome \in Outcome, NEW b, Answered(b, outcome),
           NotifyUser(b.id, outcome), outcome = "ok" => Promise!Landed(b.w)
    PROVE  Promise!Answer(user, outcome)
<1> DEFINE q == queue[user]
<1>1. /\ q \in Seq(Batch) /\ q # <<>> /\ user \in Users /\ b = Head(q)
      /\ queue' = [queue EXCEPT ![user] = Tail(q)]
      /\ settled' = [settled EXCEPT ![b.w] = outcome]
      /\ log' = log
  BY Types DEF Answered
<1>2. WritesIn(q) # <<>> /\ Head(WritesIn(q)) = b.w /\ WritesIn(Tail(q)) = Tail(WritesIn(q))
  BY <1>1, WritesTail
<1>3. settled[b.w] = "no"
  <2>1. b = q[1] /\ Len(q) \in Nat \ {0}
    BY <1>1, Rest
  <2>2. 1 \in 1 .. Len(q)
    BY <2>1
  <2>3. QED
    BY <1>1, <2>1, <2>2 DEF QueueInv, Queued
<1>4. \A c \in callbacks : c \in Waiting(b.id) <=> c.w = b.w
  BY <1>1, WaitingForHead
<1>5. Listening' = Listening \ {b.w}
  BY <1>4 DEF NotifyUser, Listening
<1>6. (\E c \in Waiting(b.id) : c.w = b.w) <=> b.w \in Listening
  BY <1>4 DEF Listening, Waiting
<1>7. told' = IF b.w \in Listening THEN [told EXCEPT ![b.w] = outcome] ELSE told
  <2>1. told' = [w \in Writes |->
                   IF \E c \in Waiting(b.id) : c.w = w THEN outcome ELSE told[w]]
    BY DEF NotifyUser
  <2>2. \A w \in Writes : (\E c \in Waiting(b.id) : c.w = w) <=> w = b.w /\ b.w \in Listening
    BY <1>4, <1>6 DEF Waiting
  <2>3. told \in [Writes -> Outcome \cup {"no"}]
    BY DEF TypeOK
  <2>4. CASE b.w \in Listening
    <3>1. told' = [w \in Writes |-> IF w = b.w THEN outcome ELSE told[w]]
      BY <2>1, <2>2, <2>4
    <3>2. QED
      BY <2>3, <2>4, <3>1
  <2>5. CASE b.w \notin Listening
    <3>1. told' = [w \in Writes |-> told[w]]
      BY <2>1, <2>2, <2>5
    <3>2. QED
      BY <2>3, <2>5, <3>1
  <2>6. QED
    BY <2>4, <2>5
<1>8. Pending' = [Pending EXCEPT ![user] = Tail(WritesIn(q))]
  BY <1>1, <1>2, Types DEF Pending
<1>9. /\ Pending[user] = WritesIn(q) /\ DOMAIN Pending = Users
  BY <1>1 DEF Pending
<1>10. QED
  BY <1>1, <1>2, <1>3, <1>5, <1>7, <1>8, <1>9 DEF Promise!Answer, Pending, Listening

(* A response not read is to a write that has landed: the first of the     *)
(* queue, when it is the first of the responses.                           *)
LEMMA HeadLanded ==
    ASSUME TypeOK, LogInv, rs.handshake, rs.down # <<>>
    PROVE  Promise!Landed(Head(rs.down))
<1>1. /\ log \in Seq([user : Users, w : Writes])
      /\ rs.down \in Seq(Writes \cup {HANDSHAKE})
      /\ Unread(log, rs.down, user)
  BY Types, StoreFields DEF TypeOK, LogInv
<1>2. PICK n \in 1 .. Len(log) : AnswersEntry(rs.down, log, n, user)
  BY <1>1, UnreadTail
<1>3. log[n].w = Head(rs.down)
  BY <1>2 DEF AnswersEntry
<1>4. DOMAIN WritesIn(log) = 1 .. Len(log) /\ WritesIn(log)[n] = log[n].w
  BY <1>1, WritesTyped
<1>5. QED
  BY <1>3, <1>4 DEF Promise!Landed

LEMMA MutationResultMaps ==
    ASSUME ConstantsAssumption, IInv, MutationResult
    PROVE  Promise!Answer(user, "ok")
<1> DEFINE q == queue[user]
           b == Head(rs.pipeline)
<1>1. /\ TypeOK /\ StoreInv(rs, q) /\ QueueInv /\ LogInv
      /\ rs.down # <<>> /\ rs.handshake
      /\ q \in Seq(Batch) /\ Ordered(q)
  BY Types DEF IInv, MutationResult, QueueInv
<1>2. /\ rs.pipeline # <<>> /\ q # <<>>
      /\ Head(rs.pipeline) = Head(q) /\ Head(rs.down) = Head(q).w
  BY <1>1, ResultStore
<1>3. /\ NotifyUser(b.id, "ok") /\ queue' = RemoveMutationBatch(b)
      /\ settled' = [settled EXCEPT ![b.w] = "ok"]
      /\ UNCHANGED <<nextBatchId, user, log, used>>
  BY DEF MutationResult
<1>4. "ok" \in Outcome
  BY DEF Outcome
<1>5. Answered(b, "ok")
  BY <1>2, <1>3, <1>4, AnswerStep
<1>6. Promise!Landed(b.w)
  BY <1>1, <1>2, HeadLanded
<1>7. QED
  BY <1>1, <1>3, <1>4, <1>5, <1>6, AnswerMaps

LEMMA WriteRefusedMaps ==
    ASSUME ConstantsAssumption, IInv, WriteRefused
    PROVE  Promise!Answer(user, "error")
<1> DEFINE q == queue[user]
           b == Head(rs.pipeline)
<1>1. /\ TypeOK /\ StoreInv(rs, q) /\ QueueInv /\ rs.refused
      /\ q \in Seq(Batch) /\ Ordered(q)
  BY Types DEF IInv, WriteRefused, QueueInv
<1>2. rs.pipeline # <<>> /\ q # <<>> /\ Head(rs.pipeline) = Head(q)
  BY <1>1, RefusedStore
<1>3. /\ NotifyUser(b.id, "error") /\ queue' = RemoveMutationBatch(b)
      /\ settled' = [settled EXCEPT ![b.w] = "error"]
      /\ UNCHANGED <<nextBatchId, user, log, used>>
  BY DEF WriteRefused
<1>4. "error" \in Outcome /\ "error" # "ok"
  BY DEF Outcome
<1>5. Answered(b, "error")
  BY <1>2, <1>3, <1>4, AnswerStep
<1>6. QED
  BY <1>1, <1>3, <1>4, <1>5, AnswerMaps

LEMMA SubmitMaps ==
    ASSUME ConstantsAssumption, IInv, WriteMutations
    PROVE  \E w \in Writes : Promise!Submit(user, w)
<1> DEFINE q == queue[user]
           b == [id |-> nextBatchId, w |-> used["write"] + 1]
           c == [user |-> user, id |-> nextBatchId, w |-> used["write"] + 1]
<1>1. /\ TypeOK /\ QueueInv /\ q \in Seq(Batch) /\ user \in Users
      /\ \A u \in Users : queue[u] \in Seq(Batch)
      /\ nextBatchId \in Nat /\ used["write"] \in Nat
  BY Types DEF IInv
<1>2. /\ queue' = [queue EXCEPT ![user] = Append(q, b)]
      /\ callbacks' = callbacks \cup {c}
      /\ log' = log /\ settled' = settled /\ told' = told
      /\ used["write"] < MaxWrite
  BY DEF WriteMutations
<1>3. b \in Batch /\ b.w \in Writes /\ c.w = b.w /\ b.w = used["write"] + 1
  <2>1. used["write"] + 1 \in Writes
    BY <1>1, <1>2 DEF ConstantsAssumption, Writes
  <2>2. QED
    BY <1>1, <2>1 DEF Batch
<1> HIDE DEF b, c
<1>4. settled[b.w] = "no"
  <2>1. b.w > used["write"]
    BY <1>1, <1>3
  <2>2. QED
    BY <1>1, <1>3, <2>1 DEF QueueInv
<1>5. ASSUME NEW v \in Users, NEW i \in DOMAIN WritesIn(queue[v])
      PROVE  WritesIn(queue[v])[i] # b.w
  <2>1. i \in 1 .. Len(queue[v]) /\ WritesIn(queue[v])[i] = queue[v][i].w
    BY <1>1, WritesTyped
  <2>2. queue[v][i].w <= used["write"] /\ queue[v][i].w \in Writes
    BY <1>1, <2>1, BatchFields DEF QueueInv, Queued
  <2>3. QED
    BY <1>1, <1>3, <2>1, <2>2 DEF Writes
<1>6. Pending' = [Pending EXCEPT ![user] = Append(WritesIn(q), b.w)]
  <2>1. WritesIn(Append(q, b)) = Append(WritesIn(q), b.w)
    BY <1>1, <1>3, WritesAppend
  <2>2. QED
    BY <1>1, <1>2, <2>1, Types DEF Pending
<1>7. Listening' = Listening \cup {b.w}
  BY <1>2, <1>3 DEF Listening
<1>8. /\ Pending[user] = WritesIn(q) /\ DOMAIN Pending = Users
      /\ \A v \in Users : Pending[v] = WritesIn(queue[v])
  BY <1>1 DEF Pending
<1>9. Promise!Submit(user, b.w)
  BY <1>1, <1>2, <1>3, <1>4, <1>5, <1>6, <1>7, <1>8
     DEF Promise!Submit, Pending, Listening
<1> DEFINE Submit(w) == Promise!Submit(user, w)
<1>10. Submit(b.w)
  BY <1>9
<1> HIDE DEF Submit
<1>11. \E w \in Writes : Submit(w)
  BY <1>3, <1>10
<1>12. QED
  BY <1>11 DEF Submit

(* The request the server commits is behind writes it has committed: the   *)
(* responses to those are still on their way.                              *)
LEMMA ApplyMaps ==
    ASSUME ConstantsAssumption, IInv, ServerCommit
    PROVE  Promise!Apply(user)
<1> DEFINE q == queue[user]
           x == Head(rs.up)
           e == [user |-> user, w |-> x]
           n == Len(rs.down) + 1
<1>1. /\ TypeOK /\ StoreInv(rs, q) /\ LogInv
      /\ q \in Seq(Batch) /\ user \in Users /\ rs.up # <<>>
      /\ log \in Seq([user : Users, w : Writes])
      /\ UNCHANGED <<queue, nextBatchId, user, callbacks, settled, told, used>>
      /\ log' = Append(log, e)
  BY Types DEF IInv, ServerCommit
<1>2. rs.handshake /\ x \in Writes
  BY <1>1, ServerCommitStore
<1>3. /\ rs \in RemoteStore /\ IsPrefix(rs.pipeline, q)
      /\ OnTheWire(rs.down, rs.up, rs.pipeline) /\ Unread(log, rs.down, user)
  BY <1>1, <1>2 DEF StoreInv, StoreCore, Wire, LogInv
<1>4. /\ n \in 1 .. Len(q) /\ x = q[n].w
      /\ \A i \in 1 .. Len(rs.down) : i \in 1 .. Len(q) /\ rs.down[i] = q[i].w
  BY <1>1, <1>3, StoreFields, WireOfQueue, SMTT(30)
<1>5. /\ Len(rs.down) \in Nat /\ Len(log) \in Nat
  BY <1>1, <1>3, StoreFields, LenProperties
<1>6. /\ DOMAIN WritesIn(q) = 1 .. Len(q)
      /\ \A i \in 1 .. Len(q) : WritesIn(q)[i] = q[i].w
      /\ DOMAIN WritesIn(log) = 1 .. Len(log)
      /\ \A i \in 1 .. Len(log) : WritesIn(log)[i] = log[i].w
  BY <1>1, WritesTyped
<1>7. ASSUME NEW j \in 1 .. n - 1
      PROVE  Promise!Landed(WritesIn(q)[j])
  <2>1. j \in 1 .. Len(rs.down) /\ Len(rs.down) <= Len(log)
    BY <1>3, <1>5 DEF Unread
  <2>2. log[Len(log) - Len(rs.down) + j].w = rs.down[j]
    BY <1>3, <2>1 DEF Unread
  <2>3. Len(log) - Len(rs.down) + j \in 1 .. Len(log)
    BY <1>5, <2>1
  <2>4. QED
    BY <1>4, <1>6, <2>1, <2>2, <2>3 DEF Promise!Landed
<1>8. WritesIn(Append(log, e)) = Append(WritesIn(log), x)
  <2>1. e \in [user : Users, w : Writes] /\ e.w = x
    BY <1>1, <1>2
  <2>2. QED
    BY <1>1, <2>1, WritesAppend
<1>9. WritesIn(log') = Append(WritesIn(log), WritesIn(q)[n])
  BY <1>1, <1>4, <1>6, <1>8
<1>10. Pending[user] = WritesIn(q)
  BY <1>1 DEF Pending
<1> HIDE DEF n, e, x
<1>11. QED
  BY <1>1, <1>4, <1>6, <1>7, <1>9, <1>10 DEF Promise!Apply, Pending

LEMMA CrashMaps ==
    ASSUME ConstantsAssumption, IInv, Die \/ DieInMutationResult
    PROVE  Promise!Crash
<1> DEFINE q == queue[user]
<1>1. /\ callbacks' = {} /\ queue' = queue /\ log' = log /\ settled' = settled
  BY DEF Die, DieInMutationResult, Relaunch
<1>2. CASE Die
  BY <1>1, <1>2 DEF Die, Promise!Crash
<1>3. CASE DieInMutationResult
  <2>1. /\ TypeOK /\ StoreInv(rs, q) /\ QueueInv /\ LogInv
        /\ rs.down # <<>> /\ rs.handshake
        /\ q \in Seq(Batch) /\ Ordered(q) /\ user \in Users
    BY <1>3, Types DEF IInv, DieInMutationResult, QueueInv
  <2>2. /\ rs.pipeline # <<>> /\ q # <<>>
        /\ Head(rs.pipeline) = Head(q) /\ Head(rs.down) = Head(q).w
    BY <2>1, ResultStore
  <2>3. PICK c \in callbacks :
          c \in Waiting(Head(q).id) /\ told' = [told EXCEPT ![c.w] = "ok"]
    BY <1>3, <2>2 DEF DieInMutationResult, Waiting
  <2>4. c.w = Head(q).w /\ c.w \in Listening
    BY <2>1, <2>2, <2>3, WaitingForHead DEF Listening
  <2>5. Promise!Landed(c.w)
    BY <2>1, <2>2, <2>4, HeadLanded
  <2>6. Pending[user] = WritesIn(q) /\ Pending[user] # <<>> /\ Head(Pending[user]) = c.w
    BY <2>1, <2>2, <2>4, WritesTail DEF Pending
  <2>7. QED
    BY <1>1, <2>1, <2>3, <2>4, <2>5, <2>6 DEF Promise!Crash, Pending, Listening
<1>4. QED
  BY <1>2, <1>3

(* The client keeps its promise: answers in order and once, each completion *)
(* called for the write it was given for, no effect out of order or after  *)
(* the answer, through broken streams, changes of account and relaunches.  *)
THEOREM Refinement == Spec => Implements
<1>1. Init => Promise!Init
  <2>1. WritesIn(<<>>) = <<>>
    BY DEF WritesIn
  <2>2. QED
    BY <2>1 DEF Init, Promise!Init, Writes, Promise!Writes
<1>2. ASSUME IInv, [Next]_vars
      PROVE  [Promise!Next]_(Promise!vars)
  <2>1. user \in Users
    BY <1>2, Types DEF IInv
  <2>2. CASE WriteMutations
    BY <2>1, <2>2, <1>2, ConstantsAssumption, SubmitMaps
       DEF Promise!Next, Writes, Promise!Writes
  <2>3. CASE MutationResult
    BY <2>1, <2>3, <1>2, ConstantsAssumption, MutationResultMaps DEF Promise!Next
  <2>4. CASE WriteRefused
    BY <2>1, <2>4, <1>2, ConstantsAssumption, WriteRefusedMaps DEF Promise!Next
  <2>5. CASE ServerCommit
    BY <2>1, <2>5, <1>2, ConstantsAssumption, ApplyMaps DEF Promise!Next
  <2>6. CASE Die \/ DieInMutationResult
    BY <2>6, <1>2, ConstantsAssumption, CrashMaps DEF Promise!Next
  <2>7. CASE UNCHANGED <<queue, callbacks, log, settled, told>>
    BY <2>7 DEF Promise!vars
  <2>8. CASE StreamStep \/ \E u \in Users : HandleCredentialChange(u)
    <3>1. CASE StreamStep
      <4>1. UNCHANGED <<queue, callbacks, log, settled, told>>
        BY <3>1, StreamStepStutters
      <4>2. QED
        BY <2>7, <4>1
    <3>2. CASE \E u \in Users : HandleCredentialChange(u)
      BY <2>7, <3>2 DEF HandleCredentialChange
    <3>3. QED
      BY <2>8, <3>1, <3>2
  <2>9. CASE UNCHANGED vars
    BY <2>7, <2>9 DEF vars
  <2>10. QED
    BY <1>2, <2>2, <2>3, <2>4, <2>5, <2>6, <2>8, <2>9 DEF Next, StreamStep
<1>3. QED
  BY <1>1, <1>2, Invariance, PTL DEF Spec, Implements, Promise!Spec

===============================================================================
