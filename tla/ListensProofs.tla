---------------------------- MODULE ListensProofs -----------------------------
(***************************************************************************)
(* Theorems about Listens, for any documents, versions, listeners and      *)
(* faults: type correctness, the assertions of the online state tracker    *)
(* and of the watch stream, gets that call back once and never with a      *)
(* document older than the call, and events in the order of the versions.  *)
(***************************************************************************)
EXTENDS Listens, FiniteSetTheorems, SequenceTheorems, TLAPS

-----------------------------------------------------------------------------
(* Sequences and finite sets of positions.                                 *)

LEMMA Rest ==
    ASSUME NEW S, NEW s \in Seq(S), s # <<>>
    PROVE  /\ Tail(s) \in Seq(S) /\ Head(s) = s[1] /\ s[1] \in S
           /\ Len(s) \in Nat \ {0} /\ Len(Tail(s)) = Len(s) - 1
           /\ \A i \in 1 .. Len(s) - 1 : Tail(s)[i] = s[i + 1]
<1>1. Len(s) \in Nat /\ Len(s) # 0
  BY LenProperties, EmptySeq
<1>2. 1 \in 1 .. Len(s)
  BY <1>1
<1>3. QED
  BY <1>1, <1>2, HeadTailProperties, ElementOfSeq

LEMMA OneMore ==
    ASSUME NEW S, NEW s \in Seq(S), NEW e \in S
    PROVE  /\ Append(s, e) \in Seq(S)
           /\ Len(s) \in Nat /\ Len(Append(s, e)) = Len(s) + 1
           /\ \A i \in 1 .. Len(s) : Append(s, e)[i] = s[i]
           /\ Append(s, e)[Len(s) + 1] = e
BY AppendProperties, LenProperties

LEMMA FunctionIsSeq ==
    ASSUME NEW S, NEW n \in Nat, NEW f \in [1 .. n -> S]
    PROVE  f \in Seq(S) /\ Len(f) = n
<1>1. f \in Seq(S)
  BY SeqDef
<1>2. DOMAIN f = 1 .. Len(f) /\ Len(f) \in Nat
  BY <1>1, LenProperties
<1>3. DOMAIN f = 1 .. n
  OBVIOUS
<1>4. QED
  BY <1>1, <1>2, <1>3

LEMMA Joined ==
    ASSUME NEW S, NEW s \in Seq(S), NEW t \in Seq(S)
    PROVE  /\ s \o t \in Seq(S)
           /\ Len(s) \in Nat /\ Len(s \o t) \in Nat /\ Len(s) <= Len(s \o t)
           /\ \A i \in 1 .. Len(s) : (s \o t)[i] = s[i]
           /\ \A k \in 1 .. Len(t) :
                /\ Len(s) + k \in 1 .. Len(s \o t) /\ Len(s) + k > Len(s)
                /\ (s \o t)[Len(s) + k] = t[k]
           /\ \A i \in 1 .. Len(s \o t) : i > Len(s) =>
                i - Len(s) \in 1 .. Len(t) /\ (s \o t)[i] = t[i - Len(s)]
<1> DEFINE e == s \o t
           m == Len(s)
           n == Len(t)
<1>1. m \in Nat /\ n \in Nat
  BY LenProperties
<1>2. /\ e \in Seq(S) /\ Len(e) = m + n
      /\ \A i \in 1 .. m + n : e[i] = IF i <= m THEN s[i] ELSE t[i - m]
  BY ConcatProperties
<1> HIDE DEF e, m, n
<1>3. m <= m + n /\ m + n \in Nat /\ \A i \in 1 .. m : i \in 1 .. m + n /\ i <= m
  BY <1>1
<1>4. \A k \in 1 .. n : m + k \in 1 .. m + n /\ m + k > m /\ ~(m + k <= m) /\ (m + k) - m = k
  BY <1>1
<1>5. \A i \in 1 .. m + n : i > m => i - m \in 1 .. n /\ ~(i <= m)
  BY <1>1
<1>6. \A i \in 1 .. m : e[i] = s[i]
  BY <1>2, <1>3
<1>7. \A k \in 1 .. n : e[m + k] = t[k]
  BY <1>2, <1>4
<1>8. \A i \in 1 .. m + n : i > m => e[i] = t[i - m]
  BY <1>2, <1>5
<1>9. QED
  BY <1>1, <1>2, <1>3, <1>4, <1>5, <1>6, <1>7, <1>8, Zenon DEF e, m, n

(* A set of natural numbers with an element has a least one. *)
LEMMA Least ==
    ASSUME NEW S \in SUBSET Nat, S # {}
    PROVE  \E m \in S : \A k \in S : m <= k
<1>1. IsWellFoundedOn(OpToRel(<, Nat), Nat)
  BY NatLessThanWellFounded
<1>2. PICK m \in S : \A k \in S : ~(<<k, m>> \in OpToRel(<, Nat))
  BY <1>1, WFMin
<1>3. \A k \in S : ~(k < m)
  BY <1>2 DEF OpToRel
<1>4. QED
  BY <1>3

(* InOrder lists a set of listeners, each once. *)
LEMMA InOrderLists ==
    ASSUME ConstantsAssumption, NEW who \in SUBSET (1 .. MaxListen)
    PROVE  /\ Cardinality(who) \in Nat
           /\ InOrder(who) \in [1 .. Cardinality(who) -> who]
           /\ \A i, j \in 1 .. Cardinality(who) : i < j => InOrder(who)[i] < InOrder(who)[j]
<1> DEFINE Lists(n, s) ==
      /\ s \in Seq(who) /\ Len(s) <= n
      /\ \A i \in 1 .. Len(s) : s[i] <= n
      /\ \A r \in who : r <= n => \E i \in 1 .. Len(s) : s[i] = r
      /\ \A i, j \in 1 .. Len(s) : i < j => s[i] < s[j]
    bad == {n \in Nat : ~ \E s \in Seq(who) : Lists(n, s)}
<1>1. Lists(0, <<>>)
  BY EmptySeq
<1>2. ASSUME NEW n \in Nat, NEW s \in Seq(who), Lists(n, s)
      PROVE  \E t \in Seq(who) : Lists(n + 1, t)
  <2>1. Len(s) \in Nat /\ \A i \in 1 .. Len(s) : s[i] \in who /\ s[i] \in Nat
    <3>1. Len(s) \in Nat /\ \A i \in 1 .. Len(s) : s[i] \in who
      BY LenProperties, ElementOfSeq
    <3>2. \A r \in who : r \in Nat
      BY DEF ConstantsAssumption
    <3>3. QED
      BY <3>1, <3>2
  <2>2. CASE n + 1 \in who
    <3> DEFINE t == Append(s, n + 1)
    <3>1. /\ t \in Seq(who) /\ Len(t) = Len(s) + 1
          /\ \A i \in 1 .. Len(s) : t[i] = s[i]
          /\ t[Len(s) + 1] = n + 1
      BY <2>2, OneMore
    <3> HIDE DEF t
    <3>2. \A i \in 1 .. Len(t) : i \in 1 .. Len(s) \/ i = Len(s) + 1
      BY <2>1, <3>1
    <3>3. \A i \in 1 .. Len(t) : t[i] <= n + 1
      BY <1>2, <2>1, <3>1, <3>2
    <3>4. ASSUME NEW r \in who, r <= n + 1
          PROVE  \E i \in 1 .. Len(t) : t[i] = r
      <4>1. CASE r <= n
        <5>1. PICK i \in 1 .. Len(s) : s[i] = r
          BY <1>2, <4>1
        <5>2. i \in 1 .. Len(t) /\ t[i] = r
          BY <2>1, <3>1, <5>1
        <5>3. QED
          BY <5>2
      <4>2. CASE r = n + 1
        BY <2>1, <3>1, <4>2
      <4>3. QED
        BY <3>4, <4>1, <4>2
    <3>5. ASSUME NEW i \in 1 .. Len(t), NEW j \in 1 .. Len(t), i < j
          PROVE  t[i] < t[j]
      <4>1. i \in 1 .. Len(s)
        BY <2>1, <3>1, <3>5
      <4>2. CASE j \in 1 .. Len(s)
        BY <1>2, <3>1, <3>5, <4>1, <4>2
      <4>3. CASE j = Len(s) + 1
        BY <1>2, <2>1, <3>1, <4>1, <4>3
      <4>4. QED
        BY <3>2, <4>2, <4>3
    <3>6. Len(t) <= n + 1
      BY <1>2, <2>1, <3>1
    <3>7. Lists(n + 1, t)
      BY <3>1, <3>3, <3>4, <3>5, <3>6
    <3>8. QED
      BY <3>1, <3>7
  <2>3. CASE n + 1 \notin who
    <3>1. \A r \in who : r <= n + 1 => r <= n
      BY <2>3
    <3>2. Lists(n + 1, s)
      BY <1>2, <2>1, <3>1
    <3>3. QED
      BY <3>2
  <2>4. QED
    BY <2>2, <2>3
<1> HIDE DEF Lists
<1>3. bad = {}
  <2>1. SUFFICES ASSUME bad # {} PROVE FALSE
    OBVIOUS
  <2>2. PICK m \in bad : \A k \in bad : m <= k
    <3>1. bad \in SUBSET Nat
      OBVIOUS
    <3> HIDE DEF bad
    <3>2. QED
      BY <2>1, <3>1, Least
  <2>3. m # 0
    BY <1>1, EmptySeq
  <2>4. m - 1 \in Nat /\ m - 1 \notin bad
    BY <2>2, <2>3
  <2>5. PICK s \in Seq(who) : Lists(m - 1, s)
    BY <2>4
  <2>6. \E t \in Seq(who) : Lists((m - 1) + 1, t)
    BY <1>2, <2>4, <2>5
  <2>7. QED
    BY <2>2, <2>6
<1>4. MaxListen \in Nat
  BY DEF ConstantsAssumption
<1>5. PICK s \in Seq(who) : Lists(MaxListen, s)
  BY <1>3, <1>4
<1>6. \A r \in who : r <= MaxListen
  BY <1>4
<1> DEFINE n == Len(s)
<1>7. /\ n \in Nat /\ s \in [1 .. n -> who] /\ DOMAIN s = 1 .. n
      /\ \A l \in who : \E i \in 1 .. n : s[i] = l
      /\ \A i, j \in 1 .. n : i < j => s[i] < s[j]
  <2>1. DOMAIN s = 1 .. Len(s) /\ Len(s) \in Nat /\ s \in [1 .. Len(s) -> who]
    BY LenProperties
  <2>2. QED
    BY <1>4, <1>5, <1>6, <2>1 DEF Lists
<1> HIDE DEF n
<1>8. Cardinality(who) = n
  <2>1. \A i \in 1 .. n : s[i] \in Nat
    <3>1. \A l \in who : l \in Nat
      BY <1>4
    <3>2. QED
      BY <1>7, <3>1
  <2>2. ASSUME NEW i \in 1 .. n, NEW j \in 1 .. n, s[i] = s[j] PROVE i = j
    <3>1. ~(s[i] < s[j]) /\ ~(s[j] < s[i])
      BY <2>1, <2>2
    <3>2. ~(i < j) /\ ~(j < i)
      BY <1>7, <3>1
    <3>3. i \in Int /\ j \in Int
      BY <1>7
    <3>4. QED
      BY <3>2, <3>3
  <2>3. s \in Injection(1 .. n, who)
    BY <1>7, <2>2 DEF Injection, IsInjective
  <2>4. s \in Surjection(1 .. n, who)
    BY <1>7 DEF Surjection
  <2>5. IsFiniteSet(1 .. n) /\ Cardinality(1 .. n) = n
    BY <1>7, FS_Interval
  <2>6. QED
    BY <2>3, <2>4, <2>5, FS_Surjection
<1>9. \E t \in [1 .. Cardinality(who) -> who] : \A i, j \in DOMAIN t : i < j => t[i] < t[j]
  BY <1>7, <1>8
<1>10. /\ InOrder(who) \in [1 .. Cardinality(who) -> who]
       /\ \A i, j \in DOMAIN InOrder(who) : i < j => InOrder(who)[i] < InOrder(who)[j]
  BY <1>9 DEF InOrder
<1>11. QED
  BY <1>7, <1>8, <1>10

-----------------------------------------------------------------------------
(* The client with the main queue, and what holds between any two of the   *)
(* operations on it.                                                       *)
Events == [to : 1 .. MaxListen, kind : {"snapshot", "error"}, val : Version,
           cached : BOOLEAN]
Sys == [c : Client, q : Seq(Events)]

(* The listeners heard of were made. *)
Known(s) ==
    /\ Len(s.c.table) <= MaxListen
    /\ s.c.on \subseteq 1 .. Len(s.c.table)
    /\ \A i \in 1 .. Len(s.q) : s.q[i].to \in 1 .. Len(s.c.table)

(* There is a view for every query listened to, and it shows the cache. *)
Viewed(s) ==
    /\ {q \in Queries : s.c.view[q] # NoView} = {s.c.table[l].query : l \in s.c.on}
    /\ \A q \in Queries : s.c.view[q] # NoView => s.c.view[q].val = s.c.cache[q]

(* The document in the cache, as it is shown. *)
Cached(cc, q) == IF cc.cache[q] < 0 THEN 0 ELSE cc.cache[q]

(* No snapshot on the main queue is ahead of the cache, and those of a     *)
(* query are in order.                                                     *)
Ordered(s) ==
    /\ \A i \in 1 .. Len(s.q) :
         s.q[i].kind = "snapshot" =>
           s.q[i].val <= Cached(s.c, s.c.table[s.q[i].to].query)
    /\ \A i, j \in 1 .. Len(s.q) :
         (i < j /\ s.q[i].kind = "snapshot" /\ s.q[j].kind = "snapshot"
            /\ s.c.table[s.q[i].to].query = s.c.table[s.q[j].to].query)
           => s.q[i].val <= s.q[j].val

(* A view from the server, and what it raised for a listener that opened   *)
(* the target, is not older than the call.                                 *)
Fresh(s) ==
    /\ \A l \in s.c.on :
         LET listener == s.c.table[l] IN
         listener.own /\ s.c.view[listener.query].synced
           => listener.at <= s.c.view[listener.query].val
    /\ \A i \in 1 .. Len(s.q) :
         s.q[i].kind = "snapshot" /\ s.c.table[s.q[i].to].own /\ ~s.q[i].cached
           => s.c.table[s.q[i].to].at <= s.q[i].val

(* After an error a listener is told nothing more. *)
ErrorsLast(s) ==
    \A i \in 1 .. Len(s.q) : s.q[i].kind = "error" =>
      /\ s.q[i].to \notin s.c.on
      /\ \A j \in 1 .. Len(s.q) : i < j => s.q[j].to # s.q[i].to

(* A get that was answered is muted, or was told of an error and is told   *)
(* nothing more.                                                           *)
Quieted(s) ==
    \A l \in 1 .. MaxListen : answers[l] # <<>> =>
      /\ l \in 1 .. Len(s.c.table)
      /\ \/ l \in muted
         \/ l \notin s.c.on /\ \A i \in 1 .. Len(s.q) : s.q[i].to # l

Sound(s) ==
    /\ s \in Sys
    /\ Known(s) /\ Viewed(s) /\ Ordered(s) /\ Fresh(s) /\ ErrorsLast(s) /\ Quieted(s)

-----------------------------------------------------------------------------
(* Raise.                                                                  *)

(* e is q with one event for each of who. *)
Tells(cc, q, e, who, kind) ==
    /\ e \in Seq(Events)
    /\ Len(q) <= Len(e)
    /\ \A i \in 1 .. Len(q) : e[i] = q[i]
    /\ \A i \in 1 .. Len(e) : i > Len(q) =>
         \E l \in who : e[i] = Event(l, kind, cc.view[cc.table[l].query])
    /\ \A i, j \in 1 .. Len(e) : Len(q) < i /\ i < j => e[i].to # e[j].to

LEMMA EventType ==
    ASSUME ConstantsAssumption, NEW l \in 1 .. MaxListen, NEW kind \in {"snapshot", "error"},
           NEW v \in [val : Version \cup {UNKNOWN}, synced : BOOLEAN] \cup {NoView}
    PROVE  /\ Event(l, kind, v) \in Events
           /\ Event(l, kind, v).to = l /\ Event(l, kind, v).kind = kind
           /\ Event(l, kind, v).val = IF v.val < 0 THEN 0 ELSE v.val
           /\ Event(l, kind, v).cached = ~v.synced
<1>1. v.synced \in BOOLEAN /\ (v.val \in Version \/ v.val < 0)
  <2>1. CASE v = NoView
    BY <2>1 DEF NoView
  <2>2. CASE v \in [val : Version \cup {UNKNOWN}, synced : BOOLEAN]
    <3>1. v.synced \in BOOLEAN /\ v.val \in Version \cup {UNKNOWN}
      BY <2>2
    <3>2. QED
      BY <3>1 DEF UNKNOWN
  <2>3. QED
    BY <2>1, <2>2
<1>2. Shown(v) \in Version
  BY <1>1 DEF Shown, Version, ConstantsAssumption
<1>3. QED
  BY <1>1, <1>2 DEF Event, Events, Shown

LEMMA ViewOf ==
    ASSUME NEW s \in Sys, Known(s), NEW l \in s.c.on
    PROVE  /\ l \in 1 .. Len(s.c.table) /\ l \in 1 .. MaxListen
           /\ s.c.table[l] \in Listener /\ s.c.table[l].query \in Queries
           /\ s.c.view[s.c.table[l].query] \in
                [val : Version \cup {UNKNOWN}, synced : BOOLEAN] \cup {NoView}
<1>1. /\ s.c.on \subseteq 1 .. MaxListen /\ s.c.table \in Seq(Listener)
      /\ s.c.view \in [Queries -> [val : Version \cup {UNKNOWN}, synced : BOOLEAN]
                                  \cup {NoView}]
  BY DEF Sys, Client
<1>2. l \in 1 .. Len(s.c.table)
  BY DEF Known
<1>3. s.c.table[l] \in Listener
  BY <1>1, <1>2, ElementOfSeq
<1>4. QED
  BY <1>1, <1>2, <1>3 DEF Listener

LEMMA Raises ==
    ASSUME ConstantsAssumption, NEW s \in Sys, Known(s), NEW who \in SUBSET s.c.on,
           NEW kind \in {"snapshot", "error"}
    PROVE  LET t == Raise(s, who, kind) IN
           /\ t \in Sys /\ t.c = [s.c EXCEPT !.raised = @ \cup who]
           /\ Tells(s.c, s.q, t.q, who, kind)
<1> DEFINE t == Raise(s, who, kind)
<1>0. /\ s.c \in Client /\ s.q \in Seq(Events) /\ Len(s.q) \in Nat
      /\ s = [c |-> s.c, q |-> s.q]
      /\ s.c.on \subseteq 1 .. MaxListen /\ s.c.raised \subseteq 1 .. MaxListen
  BY LenProperties DEF Sys, Client
<1>1. CASE who = {}
  <2>1. t = s
    BY <1>1 DEF Raise
  <2>2. s.c = [s.c EXCEPT !.raised = @ \cup who]
    BY <1>0, <1>1 DEF Client
  <2>3. Tells(s.c, s.q, s.q, who, kind)
    BY <1>0 DEF Tells
  <2>4. QED
    BY <2>1, <2>2, <2>3
<1>2. CASE who # {}
  <2> DEFINE n == Cardinality(who)
             rs == InOrder(who)
             told == [i \in 1 .. n |-> Event(rs[i], kind, s.c.view[s.c.table[rs[i]].query])]
  <2>1. /\ n \in Nat /\ rs \in [1 .. n -> who]
        /\ \A i, j \in 1 .. n : i < j => rs[i] < rs[j]
    BY <1>0, InOrderLists
  <2>2. /\ t.c = [s.c EXCEPT !.raised = @ \cup who] /\ t.q = s.q \o told
        /\ t = [c |-> t.c, q |-> t.q]
    BY <1>2 DEF Raise
  <2> HIDE DEF n, rs, t
  <2>3. \A i \in 1 .. n : rs[i] \in who /\ rs[i] \in s.c.on /\ rs[i] \in 1 .. MaxListen
    BY <1>0, <2>1
  <2>4. \A i \in 1 .. n : told[i] \in Events /\ told[i].to = rs[i]
    BY <2>3, ViewOf, EventType
  <2>5. told \in Seq(Events) /\ Len(told) = n
    BY <2>1, <2>4, FunctionIsSeq
  <2>6. \A i \in 1 .. n : told[i] = Event(rs[i], kind, s.c.view[s.c.table[rs[i]].query])
    OBVIOUS
  <2> HIDE DEF told
  <2> DEFINE e == s.q \o told
             m == Len(s.q)
  <2>7. /\ e \in Seq(Events) /\ m <= Len(e)
        /\ \A i \in 1 .. m : e[i] = s.q[i]
        /\ \A i \in 1 .. Len(e) : i > m => i - m \in 1 .. n /\ e[i] = told[i - m]
    BY <1>0, <2>5, Joined
  <2> HIDE DEF e
  <2>8. ASSUME NEW i \in 1 .. Len(e), i > m
        PROVE  \E l \in who : e[i] = Event(l, kind, s.c.view[s.c.table[l].query])
    <3> DEFINE a == i - m
    <3>1. a \in 1 .. n /\ e[i] = told[a]
      BY <2>7, <2>8
    <3> HIDE DEF a
    <3>2. rs[a] \in who /\ e[i] = Event(rs[a], kind, s.c.view[s.c.table[rs[a]].query])
      BY <2>3, <2>6, <3>1
    <3>3. QED
      BY <3>2
  <2>9. ASSUME NEW i \in 1 .. Len(e), NEW j \in 1 .. Len(e), m < i, i < j
        PROVE  e[i].to # e[j].to
    <3> DEFINE a == i - m
               b == j - m
    <3>1. a \in 1 .. n /\ b \in 1 .. n /\ e[i] = told[a] /\ e[j] = told[b] /\ a < b
      BY <1>0, <2>7, <2>9
    <3> HIDE DEF a, b
    <3>2. rs[a] < rs[b] /\ rs[a] \in Nat /\ rs[b] \in Nat
      BY <2>1, <2>3, <3>1
    <3>3. QED
      BY <2>4, <3>1, <3>2
  <2>10. Tells(s.c, s.q, e, who, kind)
    BY <2>7, <2>8, <2>9 DEF Tells
  <2>11. t.c \in Client
    BY <1>0, <2>2 DEF Client
  <2>12. t \in Sys
    BY <2>2, <2>7, <2>11 DEF Sys, e
  <2>13. QED
    BY <2>2, <2>10, <2>12 DEF e, t
<1>3. QED
  BY <1>1, <1>2

(* The parts of the client that Sound is about. *)
Alike(s, t) ==
    /\ t.c.table = s.c.table /\ t.c.on = s.c.on
    /\ t.c.view = s.c.view /\ t.c.cache = s.c.cache

LEMMA SoundAlike ==
    ASSUME NEW s, NEW t, Sound(s), t \in Sys, Alike(s, t), t.q = s.q
    PROVE  Sound(t)
<1>1. Known(t) /\ Viewed(t)
  BY DEF Sound, Known, Viewed, Alike
<1>2. \A q : Cached(t.c, q) = Cached(s.c, q)
  BY DEF Alike, Cached
<1>3. Ordered(t)
  BY <1>2 DEF Sound, Ordered, Alike
<1>4. Fresh(t) /\ ErrorsLast(t) /\ Quieted(t)
  BY DEF Sound, Fresh, ErrorsLast, Quieted, Alike
<1>5. QED
  BY <1>1, <1>3, <1>4 DEF Sound

(* What a listener is told is what is in the cache. *)
IsTold(cc, x, who, kind) ==
    /\ x.kind = kind /\ x.to \in who
    /\ x.to \in 1 .. Len(cc.table)
    /\ x.val = Cached(cc, cc.table[x.to].query)
    /\ x.cached = ~cc.view[cc.table[x.to].query].synced
    /\ cc.view[cc.table[x.to].query].val = cc.cache[cc.table[x.to].query]

LEMMA ToldCached ==
    ASSUME ConstantsAssumption, NEW s, Sound(s), NEW who \in SUBSET s.c.on,
           NEW kind \in {"snapshot", "error"}, NEW e, Tells(s.c, s.q, e, who, kind),
           NEW i \in 1 .. Len(e), i > Len(s.q)
    PROVE  IsTold(s.c, e[i], who, kind)
<1>1. PICK l \in who : e[i] = Event(l, kind, s.c.view[s.c.table[l].query])
  BY DEF Tells
<1> DEFINE q == s.c.table[l].query
<1>2. s \in Sys /\ Known(s) /\ l \in s.c.on
  BY DEF Sound
<1>3. /\ l \in 1 .. Len(s.c.table) /\ l \in 1 .. MaxListen /\ q \in Queries
      /\ s.c.view[q] \in [val : Version \cup {UNKNOWN}, synced : BOOLEAN] \cup {NoView}
  BY <1>2, ViewOf
<1>4. s.c.view[q] # NoView
  BY <1>2, <1>3 DEF Sound, Viewed
<1>5. s.c.view[q].val = s.c.cache[q]
  BY <1>3, <1>4 DEF Sound, Viewed
<1>6. /\ e[i].to = l /\ e[i].kind = kind
      /\ e[i].val = (IF s.c.view[q].val < 0 THEN 0 ELSE s.c.view[q].val)
      /\ e[i].cached = ~s.c.view[q].synced
  <2> DEFINE v == s.c.view[q]
  <2>1. v \in [val : Version \cup {UNKNOWN}, synced : BOOLEAN] \cup {NoView}
    BY <1>3
  <2>2. e[i] = Event(l, kind, v)
    BY <1>1
  <2> HIDE DEF v
  <2>3. /\ Event(l, kind, v).to = l /\ Event(l, kind, v).kind = kind
        /\ Event(l, kind, v).val = (IF v.val < 0 THEN 0 ELSE v.val)
        /\ Event(l, kind, v).cached = ~v.synced
    BY <1>3, <2>1, EventType
  <2>4. QED
    BY <2>2, <2>3 DEF v
<1>7. QED
  BY <1>3, <1>5, <1>6 DEF Cached, IsTold

LEMMA CacheType ==
    ASSUME ConstantsAssumption, NEW s \in Sys, NEW q \in Queries
    PROVE  /\ s.c.cache[q] \in Int /\ Cached(s.c, q) \in Nat
           /\ Cached(s.c, q) >= s.c.cache[q]
<1>1. s.c.cache[q] \in Version \cup {UNKNOWN}
  BY DEF Sys, Client
<1>2. QED
  BY <1>1 DEF Cached, Version, UNKNOWN, ConstantsAssumption

LEMMA ListenerOf ==
    ASSUME ConstantsAssumption, NEW s \in Sys, NEW l \in 1 .. Len(s.c.table)
    PROVE  /\ s.c.table[l] \in Listener /\ s.c.table[l].query \in Queries
           /\ s.c.table[l].at \in Nat /\ s.c.table[l].own \in BOOLEAN
           /\ s.c.table[l].get \in BOOLEAN
<1>1. s.c.table \in Seq(Listener)
  BY DEF Sys, Client
<1>2. s.c.table[l] \in Listener
  BY <1>1, ElementOfSeq
<1>3. QED
  BY <1>2 DEF Listener, Version, ConstantsAssumption

LEMMA EventOf ==
    ASSUME ConstantsAssumption, NEW s \in Sys, NEW i \in 1 .. Len(s.q)
    PROVE  /\ s.q[i] \in Events /\ s.q[i].val \in Nat
           /\ s.q[i].kind \in {"snapshot", "error"}
<1>1. s.q \in Seq(Events)
  BY DEF Sys
<1>2. s.q[i] \in Events
  BY <1>1, ElementOfSeq
<1>3. QED
  BY <1>2 DEF Events, Version, ConstantsAssumption

LEMMA RaiseSound ==
    ASSUME ConstantsAssumption, NEW s, Sound(s), NEW who \in SUBSET s.c.on
    PROVE  /\ Sound(Raise(s, who, "snapshot"))
           /\ Raise(s, who, "snapshot").c = [s.c EXCEPT !.raised = @ \cup who]
<1> DEFINE t == Raise(s, who, "snapshot")
           e == t.q
           m == Len(s.q)
<1>1. /\ t \in Sys /\ t.c = [s.c EXCEPT !.raised = @ \cup who]
      /\ Tells(s.c, s.q, e, who, "snapshot")
  BY Raises DEF Sound
<1> HIDE DEF t
<1>2. Alike(s, t) /\ s \in Sys /\ s.q \in Seq(Events)
  BY <1>1 DEF Alike, Sound, Sys, Client
<1>3. /\ m \in Nat /\ Len(e) \in Nat /\ m <= Len(e)
      /\ \A i \in 1 .. Len(e) : i <= m => i \in 1 .. m
      /\ \A i \in 1 .. m : i \in 1 .. Len(e) /\ e[i] = s.q[i]
  BY <1>1, <1>2, LenProperties DEF Tells
<1>4. ASSUME NEW i \in 1 .. Len(e), ~(i <= m)
      PROVE  /\ e[i].kind = "snapshot" /\ e[i].to \in who /\ e[i].to \in s.c.on
             /\ e[i].to \in 1 .. Len(s.c.table)
             /\ LET q == s.c.table[e[i].to].query IN
                /\ e[i].val = Cached(s.c, q)
                /\ ~e[i].cached => s.c.view[q].synced
                /\ s.c.view[q].val = s.c.cache[q]
  <2>1. i > m
    BY <1>3, <1>4
  <2>2. "snapshot" \in {"snapshot", "error"}
    OBVIOUS
  <2>3. i > Len(s.q)
    BY <2>1
  <2> HIDE DEF m, e
  <2>4. IsTold(s.c, e[i], who, "snapshot")
    BY <1>1, <2>2, <2>3, ToldCached
  <2>5. QED
    BY <2>4 DEF IsTold
<1>5. Known(t)
  BY <1>2, <1>3, <1>4 DEF Sound, Known, Alike
<1>6. Viewed(t)
  BY <1>2 DEF Sound, Viewed, Alike
<1>7. \A i \in 1 .. Len(e) : e[i].to \in 1 .. Len(s.c.table)
        /\ s.c.table[e[i].to].query \in Queries
        /\ Cached(s.c, s.c.table[e[i].to].query) \in Nat
  BY <1>2, <1>5, ListenerOf, CacheType DEF Known, Alike
<1>8. Ordered(t)
  <2>1. ASSUME NEW i \in 1 .. Len(e), e[i].kind = "snapshot"
        PROVE  e[i].val <= Cached(s.c, s.c.table[e[i].to].query)
    <3>1. CASE i <= m
      BY <1>3, <2>1, <3>1 DEF Sound, Ordered
    <3>2. CASE ~(i <= m)
      <4> DEFINE k == Cached(s.c, s.c.table[e[i].to].query)
      <4>1. e[i].val = k /\ k \in Nat
        BY <1>4, <1>7, <3>2
      <4> HIDE DEF k
      <4>2. e[i].val <= k
        BY <4>1
      <4>3. QED
        BY <4>2 DEF k
    <3>3. QED
      BY <3>1, <3>2
  <2>2. ASSUME NEW i \in 1 .. Len(e), NEW j \in 1 .. Len(e), i < j,
               e[i].kind = "snapshot", e[j].kind = "snapshot",
               s.c.table[e[i].to].query = s.c.table[e[j].to].query
        PROVE  e[i].val <= e[j].val
    <3>1. CASE j <= m
      <4>1. i <= m
        BY <1>3, <2>2, <3>1
      <4>2. QED
        BY <1>3, <2>2, <3>1, <4>1 DEF Sound, Ordered
    <3>2. CASE ~(j <= m)
      <4>1. e[j].val = Cached(s.c, s.c.table[e[j].to].query)
        BY <1>4, <3>2
      <4>2. QED
        BY <2>1, <2>2, <4>1
    <3>3. QED
      BY <3>1, <3>2
  <2>3. QED
    BY <1>2, <2>1, <2>2 DEF Ordered, Alike, Cached
<1>9. Fresh(t)
  <2>1. ASSUME NEW i \in 1 .. Len(e), e[i].kind = "snapshot",
               s.c.table[e[i].to].own, ~e[i].cached
        PROVE  s.c.table[e[i].to].at <= e[i].val
    <3>1. CASE i <= m
      BY <1>3, <2>1, <3>1 DEF Sound, Fresh
    <3>2. CASE ~(i <= m)
      <4> DEFINE l == e[i].to
                 q == s.c.table[l].query
      <4>1. /\ l \in s.c.on /\ l \in 1 .. Len(s.c.table) /\ e[i].val = Cached(s.c, q)
            /\ s.c.view[q].synced /\ s.c.view[q].val = s.c.cache[q]
        BY <1>4, <2>1, <3>2
      <4>2. s.c.table[l].at <= s.c.cache[q]
        BY <2>1, <4>1 DEF Sound, Fresh
      <4>3. /\ s.c.cache[q] \in Int /\ Cached(s.c, q) \in Nat
            /\ Cached(s.c, q) >= s.c.cache[q] /\ s.c.table[l].at \in Nat
        BY <1>2, <4>1, ListenerOf, CacheType
      <4> DEFINE a == s.c.table[l].at
                 h == s.c.cache[q]
                 k == Cached(s.c, q)
                 v == e[i].val
      <4>4. a <= h /\ h \in Int /\ k \in Nat /\ k >= h /\ a \in Nat /\ v = k
        BY <4>1, <4>2, <4>3
      <4> HIDE DEF a, h, k, v
      <4>5. a <= v
        BY <4>4
      <4>6. QED
        BY <4>5 DEF a, v
    <3>3. QED
      BY <3>1, <3>2
  <2>2. QED
    BY <1>2, <2>1 DEF Sound, Fresh, Alike
<1>10. ErrorsLast(t)
  <2>1. ASSUME NEW i \in 1 .. Len(e), e[i].kind = "error"
        PROVE  /\ e[i].to \notin s.c.on
               /\ \A j \in 1 .. Len(e) : i < j => e[j].to # e[i].to
    <3>1. i <= m
      BY <1>4, <2>1
    <3>2. i \in 1 .. m /\ e[i] = s.q[i]
      BY <1>3, <3>1
    <3>3. e[i].to \notin s.c.on
      BY <2>1, <3>2 DEF Sound, ErrorsLast
    <3>4. ASSUME NEW j \in 1 .. Len(e), i < j
          PROVE  e[j].to # e[i].to
      <4>1. CASE j <= m
        BY <1>3, <2>1, <3>2, <3>4, <4>1 DEF Sound, ErrorsLast
      <4>2. CASE ~(j <= m)
        BY <1>4, <3>3, <4>2
      <4>3. QED
        BY <4>1, <4>2
    <3>5. QED
      BY <3>3, <3>4
  <2>2. QED
    BY <1>2, <2>1 DEF ErrorsLast, Alike
<1>11. Quieted(t)
  <2>1. ASSUME NEW l \in 1 .. MaxListen, answers[l] # <<>>, l \notin muted
        PROVE  l \notin s.c.on /\ \A i \in 1 .. Len(e) : e[i].to # l
    <3>1. l \notin s.c.on /\ \A i \in 1 .. m : s.q[i].to # l
      BY <2>1 DEF Sound, Quieted
    <3>2. ASSUME NEW i \in 1 .. Len(e)
          PROVE  e[i].to # l
      BY <1>3, <1>4, <3>1
    <3>3. QED
      BY <3>1, <3>2
  <2>2. QED
    BY <1>2, <2>1 DEF Sound, Quieted, Alike
<1>12. QED
  BY <1>1, <1>5, <1>6, <1>8, <1>9, <1>10, <1>11 DEF Sound, t

-----------------------------------------------------------------------------
(* Snapshots and the online state.                                         *)

LEMMA Single == ASSUME NEW x PROVE (CHOOSE t \in {x} : TRUE) = x
OBVIOUS

(* What the stream is about, and what the listeners are about. *)
SameStream(s, t) ==
    /\ t.c.stream = s.c.stream /\ t.c.idle = s.c.idle
    /\ t.c.targets = s.c.targets /\ t.c.since = s.c.since
SameListeners(s, t) ==
    t.c.cache = s.c.cache /\ t.c.table = s.c.table /\ t.c.on = s.c.on
SameTracker(s, t) ==
    t.c.failures = s.c.failures /\ t.c.timer = s.c.timer

Onlines == {"Unknown", "Online", "Offline"}

LEMMA OnViewSnapshotsSound ==
    ASSUME ConstantsAssumption, NEW s \in Sys, NEW views,
           Sound([s EXCEPT !.c.view = views])
    PROVE  LET t == OnViewSnapshots(s, views) IN
           /\ Sound(t) /\ SameStream(s, t) /\ SameListeners(s, t) /\ SameTracker(s, t)
           /\ t.c.online = s.c.online
<1> DEFINE r == [s EXCEPT !.c.view = views]
           t == OnViewSnapshots(s, views)
<1>1. \E who \in SUBSET s.c.on : t = Raise(r, who, "snapshot")
  BY DEF OnViewSnapshots
<1>2. /\ r.c.on = s.c.on /\ SameStream(s, r) /\ SameListeners(s, r) /\ SameTracker(s, r)
      /\ r.c.online = s.c.online
  BY DEF Sys, Client, SameStream, SameListeners, SameTracker
<1> HIDE DEF r, t
<1>3. PICK who \in SUBSET r.c.on : t = Raise(r, who, "snapshot")
  BY <1>1, <1>2
<1>4. Sound(r) /\ r \in Sys
  BY DEF r, Sound
<1>5. Sound(t) /\ t.c = [r.c EXCEPT !.raised = @ \cup who]
  BY <1>3, <1>4, RaiseSound
<1>6. SameStream(r, t) /\ SameListeners(r, t) /\ SameTracker(r, t) /\ t.c.online = r.c.online
  BY <1>4, <1>5 DEF Sys, Client, SameStream, SameListeners, SameTracker
<1>7. QED
  BY <1>2, <1>5, <1>6 DEF t, SameStream, SameListeners, SameTracker

LEMMA OnOnlineStateChangedSound ==
    ASSUME ConstantsAssumption, NEW s, Sound(s), NEW online \in Onlines
    PROVE  LET t == OnOnlineStateChanged(s, online) IN
           /\ Sound(t) /\ SameStream(s, t) /\ SameListeners(s, t) /\ SameTracker(s, t)
           /\ t.c.online = online
<1> DEFINE r == [s EXCEPT !.c.online = online]
           t == OnOnlineStateChanged(s, online)
<1>1. \E who \in SUBSET s.c.on : t = Raise(r, who, "snapshot")
  BY DEF OnOnlineStateChanged
<1>2. s \in Sys
  BY DEF Sound
<1>3. /\ r.c.on = s.c.on /\ SameStream(s, r) /\ SameListeners(s, r) /\ SameTracker(s, r)
      /\ r.c.online = online /\ r \in Sys /\ r.q = s.q /\ Alike(s, r)
  BY <1>2 DEF Sys, Client, SameStream, SameListeners, SameTracker, Onlines, Alike
<1> HIDE DEF r, t
<1>4. PICK who \in SUBSET r.c.on : t = Raise(r, who, "snapshot")
  BY <1>1, <1>3
<1>5. Sound(r)
  BY <1>3, SoundAlike
<1>6. Sound(t) /\ t.c = [r.c EXCEPT !.raised = @ \cup who]
  BY <1>4, <1>5, RaiseSound
<1>7. SameStream(r, t) /\ SameListeners(r, t) /\ SameTracker(r, t) /\ t.c.online = r.c.online
  BY <1>3, <1>6 DEF Sys, Client, SameStream, SameListeners, SameTracker
<1>8. QED
  BY <1>3, <1>6, <1>7 DEF t, SameStream, SameListeners, SameTracker

LEMMA Unsynced ==
    ASSUME ConstantsAssumption,
           NEW v \in [val : Version \cup {UNKNOWN}, synced : BOOLEAN] \cup {NoView}
    PROVE  LET w == [v EXCEPT !.synced = FALSE] IN
           /\ w \in [val : Version \cup {UNKNOWN}, synced : BOOLEAN] \cup {NoView}
           /\ w = NoView <=> v = NoView
           /\ w.val = v.val /\ ~w.synced
<1>1. CASE v = NoView
  <2>1. v = [val |-> -2, synced |-> FALSE]
    BY <1>1 DEF NoView
  <2>2. v \in [val : {-2}, synced : BOOLEAN] /\ v.synced = FALSE /\ v.val = -2
    BY <2>1
  <2> DEFINE w == [v EXCEPT !.synced = FALSE]
  <2>3. w \in [val : {-2}, synced : BOOLEAN] /\ w.synced = FALSE /\ w.val = -2
    BY <2>2
  <2> HIDE DEF w
  <2>4. w = NoView
    BY <2>3 DEF NoView
  <2>5. QED
    BY <1>1, <2>2, <2>3, <2>4 DEF w
<1>2. CASE v \in [val : Version \cup {UNKNOWN}, synced : BOOLEAN]
  <2> DEFINE w == [v EXCEPT !.synced = FALSE]
  <2>1. /\ w \in [val : Version \cup {UNKNOWN}, synced : BOOLEAN]
        /\ w.val = v.val /\ w.synced = FALSE
    BY <1>2
  <2>2. v.val # -2
    <3>1. v.val \in Version \cup {UNKNOWN}
      BY <1>2
    <3>2. QED
      BY <3>1 DEF Version, UNKNOWN, ConstantsAssumption
  <2> HIDE DEF w
  <2>3. w # NoView /\ v # NoView
    BY <2>1, <2>2 DEF NoView
  <2>4. QED
    BY <2>1, <2>3 DEF w
<1>3. QED
  BY <1>1, <1>2

(* Going offline, every view is from the cache again. *)
LEMMA OfflineViews ==
    ASSUME ConstantsAssumption, NEW s, Sound(s)
    PROVE  Sound([s EXCEPT !.c.view =
                    [q \in Queries |-> [s.c.view[q] EXCEPT !.synced = FALSE]]])
<1> DEFINE views == [q \in Queries |-> [s.c.view[q] EXCEPT !.synced = FALSE]]
           t == [s EXCEPT !.c.view = views]
<1>1. s \in Sys /\ s.c.view \in [Queries ->
          [val : Version \cup {UNKNOWN}, synced : BOOLEAN] \cup {NoView}]
  BY DEF Sound, Sys, Client
<1>2. ASSUME NEW q \in Queries
      PROVE  /\ views[q] \in [val : Version \cup {UNKNOWN}, synced : BOOLEAN] \cup {NoView}
             /\ views[q] = NoView <=> s.c.view[q] = NoView
             /\ views[q].val = s.c.view[q].val /\ ~views[q].synced
  <2>1. views[q] = [s.c.view[q] EXCEPT !.synced = FALSE]
    OBVIOUS
  <2>2. s.c.view[q] \in [val : Version \cup {UNKNOWN}, synced : BOOLEAN] \cup {NoView}
    BY <1>1
  <2> HIDE DEF views
  <2>3. QED
    BY <2>1, <2>2, Unsynced
<1>3. views \in [Queries -> [val : Version \cup {UNKNOWN}, synced : BOOLEAN] \cup {NoView}]
  BY <1>2
<1> HIDE DEF views
<1>4. /\ t \in Sys /\ t.q = s.q /\ t.c.view = views
      /\ t.c.table = s.c.table /\ t.c.on = s.c.on /\ t.c.cache = s.c.cache
  BY <1>1, <1>3 DEF Sys, Client
<1> HIDE DEF t
<1>5. Known(t)
  BY <1>4 DEF Sound, Known
<1>6. {q \in Queries : views[q] # NoView} = {q \in Queries : s.c.view[q] # NoView}
  BY <1>2
<1>7. Viewed(t)
  BY <1>2, <1>4, <1>6 DEF Sound, Viewed
<1>8. \A q : Cached(t.c, q) = Cached(s.c, q)
  BY <1>4 DEF Cached
<1>9. Ordered(t)
  BY <1>4, <1>8 DEF Sound, Ordered
<1>10. \A l \in s.c.on : s.c.table[l].query \in Queries
  BY <1>1, ViewOf DEF Sound
<1>11. Fresh(t) /\ ErrorsLast(t) /\ Quieted(t)
  BY <1>2, <1>4, <1>10 DEF Sound, Fresh, ErrorsLast, Quieted
<1>12. QED
  BY <1>4, <1>5, <1>7, <1>9, <1>11 DEF Sound, t, views

LEMMA SameTwice ==
    ASSUME NEW r, NEW s, NEW t
    PROVE  /\ SameStream(r, s) /\ SameStream(s, t) => SameStream(r, t)
           /\ SameListeners(r, s) /\ SameListeners(s, t) => SameListeners(r, t)
           /\ SameTracker(r, s) /\ SameTracker(s, t) => SameTracker(r, t)
BY DEF SameStream, SameListeners, SameTracker

LEMMA SetAndBroadcastSound ==
    ASSUME ConstantsAssumption, NEW s, Sound(s), NEW online \in Onlines
    PROVE  LET t == SetAndBroadcast(s, online) IN
           /\ Sound(t) /\ SameStream(s, t) /\ SameListeners(s, t) /\ SameTracker(s, t)
           /\ t.c.online = online
<1> DEFINE t == SetAndBroadcast(s, online)
<1>1. CASE online = s.c.online
  BY <1>1 DEF SetAndBroadcast, SameStream, SameListeners, SameTracker
<1>2. CASE online # s.c.online
  <2> DEFINE views == IF online # "Offline" THEN s.c.view
                      ELSE [q \in Queries |-> [s.c.view[q] EXCEPT !.synced = FALSE]]
             r == OnViewSnapshots(s, views)
  <2>1. s \in Sys
    BY DEF Sound
  <2>2. Sound([s EXCEPT !.c.view = views])
    <3>1. CASE online # "Offline"
      <4>1. views = s.c.view
        BY <3>1
      <4> HIDE DEF views
      <4>2. /\ [s EXCEPT !.c.view = views] \in Sys /\ [s EXCEPT !.c.view = views].q = s.q
            /\ Alike(s, [s EXCEPT !.c.view = views])
        BY <2>1, <4>1 DEF Sys, Client, Alike
      <4>3. QED
        BY <4>2, SoundAlike
    <3>2. CASE online = "Offline"
      BY <3>2, OfflineViews
    <3>3. QED
      BY <3>1, <3>2
  <2> HIDE DEF views
  <2>3. Sound(r) /\ SameStream(s, r) /\ SameListeners(s, r) /\ SameTracker(s, r)
    BY <2>1, <2>2, OnViewSnapshotsSound
  <2>4. t = OnOnlineStateChanged(r, online)
    <3>1. t = CHOOSE y \in {OnOnlineStateChanged(x, online) : x \in {r}} : TRUE
      BY <1>2 DEF SetAndBroadcast, Then, views
    <3>2. {OnOnlineStateChanged(x, online) : x \in {r}} = {OnOnlineStateChanged(r, online)}
      OBVIOUS
    <3>3. QED
      BY <3>1, <3>2, Single
  <2> HIDE DEF r, t
  <2>5. /\ Sound(t) /\ SameStream(r, t) /\ SameListeners(r, t) /\ SameTracker(r, t)
        /\ t.c.online = online
    BY <2>3, <2>4, OnOnlineStateChangedSound
  <2>6. QED
    BY <2>3, <2>5, SameTwice DEF t
<1>3. QED
  BY <1>1, <1>2

-----------------------------------------------------------------------------
(* The online state tracker and the stream.                                *)

(* What TrackerConsistent says, of any client. *)
Steady(s) ==
    /\ s.c.timer => s.c.online = "Unknown" /\ s.c.failures = 0 /\ IsStarted(s)
    /\ s.c.online = "Online" => s.c.failures = 0 /\ s.c.stream = "open"
    /\ s.c.failures # 0 => s.c.online = "Offline"

LEMMA UpdateStateSound ==
    ASSUME ConstantsAssumption, NEW s, Sound(s), NEW online \in Onlines
    PROVE  LET t == UpdateState(s, online) IN
           /\ Sound(t) /\ SameStream(s, t) /\ SameListeners(s, t)
           /\ t.c.online = online /\ t.c.failures = 0 /\ t.c.timer = FALSE
<1> DEFINE r == [s EXCEPT !.c.timer = FALSE, !.c.failures = 0]
           t == UpdateState(s, online)
<1>1. t = SetAndBroadcast(r, online)
  <2>1. t = CHOOSE y \in {SetAndBroadcast(x, online) : x \in {r}} : TRUE
    BY DEF UpdateState, Then
  <2>2. {SetAndBroadcast(x, online) : x \in {r}} = {SetAndBroadcast(r, online)}
    OBVIOUS
  <2>3. QED
    BY <2>1, <2>2, Single
<1>2. /\ r \in Sys /\ r.q = s.q /\ Alike(s, r) /\ SameStream(s, r) /\ SameListeners(s, r)
      /\ r.c.failures = 0 /\ r.c.timer = FALSE
  BY DEF Sound, Sys, Client, Alike, SameStream, SameListeners
<1> HIDE DEF r, t
<1>3. Sound(r)
  BY <1>2, SoundAlike
<1>4. /\ Sound(t) /\ SameStream(r, t) /\ SameListeners(r, t) /\ SameTracker(r, t)
      /\ t.c.online = online
  BY <1>1, <1>3, SetAndBroadcastSound
<1>5. QED
  BY <1>2, <1>4, SameTwice DEF t, SameTracker

LEMMA HandleWatchStreamStartSound ==
    ASSUME ConstantsAssumption, NEW s, Sound(s)
    PROVE  LET t == HandleWatchStreamStart(s) IN
           /\ Sound(t) /\ SameStream(s, t) /\ SameListeners(s, t)
           /\ IF s.c.failures # 0 THEN t = s
              ELSE t.c.online = "Unknown" /\ t.c.failures = 0 /\ t.c.timer = TRUE
<1> DEFINE t == HandleWatchStreamStart(s)
           r == SetAndBroadcast(s, "Unknown")
<1>1. CASE s.c.failures # 0
  BY <1>1 DEF HandleWatchStreamStart, SameStream, SameListeners
<1>2. CASE s.c.failures = 0
  <2>1. /\ Sound(r) /\ SameStream(s, r) /\ SameListeners(s, r) /\ SameTracker(s, r)
        /\ r.c.online = "Unknown"
    BY SetAndBroadcastSound DEF Onlines
  <2>2. t = [r EXCEPT !.c.timer = TRUE]
    BY <1>2 DEF HandleWatchStreamStart
  <2> HIDE DEF r, t
  <2>3. /\ t \in Sys /\ t.q = r.q /\ Alike(r, t) /\ SameStream(r, t) /\ SameListeners(r, t)
        /\ t.c.online = r.c.online /\ t.c.failures = r.c.failures /\ t.c.timer = TRUE
    BY <2>1, <2>2 DEF Sound, Sys, Client, Alike, SameStream, SameListeners
  <2>4. Sound(t)
    BY <2>1, <2>3, SoundAlike
  <2>5. QED
    BY <1>2, <2>1, <2>3, <2>4, SameTwice DEF t, SameTracker
<1>3. QED
  BY <1>1, <1>2

LEMMA HandleWatchStreamFailureSound ==
    ASSUME ConstantsAssumption, NEW s, Sound(s)
    PROVE  LET t == HandleWatchStreamFailure(s) IN
           /\ Sound(t) /\ SameStream(s, t) /\ SameListeners(s, t)
           /\ IF s.c.online = "Online" THEN t.c.online = "Unknown" /\ SameTracker(s, t)
              ELSE t.c.online = "Offline" /\ t.c.failures = 1 /\ t.c.timer = FALSE
<1> DEFINE t == HandleWatchStreamFailure(s)
<1>1. CASE s.c.online = "Online"
  BY <1>1, SetAndBroadcastSound DEF HandleWatchStreamFailure, Onlines
<1>2. CASE s.c.online # "Online"
  <2> DEFINE r == [s EXCEPT !.c.failures = 1, !.c.timer = FALSE]
  <2>1. t = SetAndBroadcast(r, "Offline")
    <3>1. t = CHOOSE y \in {SetAndBroadcast(x, "Offline") : x \in {r}} : TRUE
      BY <1>2 DEF HandleWatchStreamFailure, Then
    <3>2. {SetAndBroadcast(x, "Offline") : x \in {r}} = {SetAndBroadcast(r, "Offline")}
      OBVIOUS
    <3>3. QED
      BY <3>1, <3>2, Single
  <2>2. /\ r \in Sys /\ r.q = s.q /\ Alike(s, r) /\ SameStream(s, r) /\ SameListeners(s, r)
        /\ r.c.failures = 1 /\ r.c.timer = FALSE
    BY DEF Sound, Sys, Client, Alike, SameStream, SameListeners
  <2> HIDE DEF r, t
  <2>3. Sound(r)
    BY <2>2, SoundAlike
  <2>4. "Offline" \in Onlines
    BY DEF Onlines
  <2>5. /\ Sound(t) /\ SameStream(r, t) /\ SameListeners(r, t) /\ SameTracker(r, t)
        /\ t.c.online = "Offline"
    BY <2>1, <2>3, <2>4, SetAndBroadcastSound
  <2>6. QED
    BY <1>2, <2>2, <2>5, SameTwice DEF t, SameTracker
<1>3. QED
  BY <1>1, <1>2

(* The watch stream is started. *)
Started(s, t) ==
    /\ t.c.stream \in {"starting", "backoff"} /\ t.c.idle = s.c.idle
    /\ t.c.targets = s.c.targets /\ t.c.since = s.c.since
    /\ Steady(t)

LEMMA StartWatchStreamSound ==
    ASSUME ConstantsAssumption, NEW s, Sound(s),
           s.c.failures # 0 => s.c.online = "Offline" /\ ~s.c.timer
    PROVE  LET t == StartWatchStream(s) IN
           Sound(t) /\ SameListeners(s, t) /\ Started(s, t)
<1> DEFINE r == [s EXCEPT !.c.stream = IF @ = "error" THEN "backoff" ELSE "starting"]
           t == StartWatchStream(s)
<1>1. t = HandleWatchStreamStart(r)
  <2>1. t = CHOOSE y \in {HandleWatchStreamStart(x) : x \in {r}} : TRUE
    BY DEF StartWatchStream, Then
  <2>2. {HandleWatchStreamStart(x) : x \in {r}} = {HandleWatchStreamStart(r)}
    OBVIOUS
  <2>3. QED
    BY <2>1, <2>2, Single
<1> DEFINE state == IF s.c.stream = "error" THEN "backoff" ELSE "starting"
<1>2. r = [s EXCEPT !.c.stream = state] /\ state \in {"starting", "backoff"}
  OBVIOUS
<1> HIDE DEF r, t, state
<1>3. /\ r \in Sys /\ r.q = s.q /\ Alike(s, r) /\ SameListeners(s, r) /\ SameTracker(s, r)
      /\ r.c.stream = state /\ r.c.online = s.c.online /\ r.c.idle = s.c.idle
      /\ r.c.targets = s.c.targets /\ r.c.since = s.c.since
  BY <1>2 DEF Sound, Sys, Client, Alike, SameListeners, SameTracker
<1>4. Sound(r)
  BY <1>3, SoundAlike
<1>5. /\ Sound(t) /\ SameStream(r, t) /\ SameListeners(r, t)
      /\ IF r.c.failures # 0 THEN t = r
         ELSE t.c.online = "Unknown" /\ t.c.failures = 0 /\ t.c.timer = TRUE
  BY <1>1, <1>4, HandleWatchStreamStartSound
<1>6. /\ t.c.stream \in {"starting", "backoff"} /\ t.c.idle = s.c.idle
      /\ t.c.targets = s.c.targets /\ t.c.since = s.c.since
  BY <1>2, <1>3, <1>5 DEF SameStream
<1>7. Steady(t)
  <2>1. CASE s.c.failures # 0
    BY <1>3, <1>5, <2>1 DEF Steady, SameTracker
  <2>2. CASE s.c.failures = 0
    BY <1>3, <1>5, <1>6, <2>2 DEF Steady, SameTracker, IsStarted
  <2>3. QED
    BY <2>1, <2>2
<1>8. QED
  BY <1>3, <1>5, <1>6, <1>7, SameTwice DEF t, Started

Listened(s) == {s.c.table[l].query : l \in s.c.on}

(* The queries listened to are watched. *)
Watched(s) ==
    /\ s.c.targets = Listened(s)
    /\ s.c.targets # {} => IsStarted(s) /\ ~s.c.idle
    /\ \A q \in Queries :
         s.c.since[q] # UNKNOWN <=> q \in s.c.targets /\ s.c.stream = "open"
    /\ s.c.idle => s.c.stream = "open"

LEMMA CloseSound ==
    ASSUME ConstantsAssumption, NEW s, Sound(s), Steady(s),
           NEW state \in {"initial", "error"}
    PROVE  LET t == Close(s, state) IN
           /\ Sound(t) /\ SameListeners(s, t) /\ Steady(t)
           /\ t.c.targets = s.c.targets /\ t.c.idle = FALSE /\ t.c.since = NothingSent
           /\ t.c.stream # "open"
           /\ state = "error" /\ s.c.targets # {} => IsStarted(t)
<1> DEFINE r == [s EXCEPT !.c.stream = state, !.c.idle = FALSE, !.c.since = NothingSent]
           t == Close(s, state)
           closed(x) == IF state = "error" /\ x.c.targets # {}
                        THEN Then(HandleWatchStreamFailure(x), StartWatchStream)
                        ELSE UpdateState(x, "Unknown")
<1>1. t = closed(r)
  <2>1. t = CHOOSE y \in {closed(x) : x \in {r}} : TRUE
    BY DEF Close, Then
  <2>2. {closed(x) : x \in {r}} = {closed(r)}
    OBVIOUS
  <2>3. QED
    BY <2>1, <2>2, Single
<1>2. NothingSent \in [Queries -> Version \cup {UNKNOWN}]
  BY DEF NothingSent
<1>3. /\ r \in Sys /\ r.q = s.q /\ Alike(s, r) /\ SameListeners(s, r) /\ SameTracker(s, r)
      /\ r.c.online = s.c.online /\ r.c.targets = s.c.targets /\ r.c.idle = FALSE
      /\ r.c.since = NothingSent /\ r.c.stream = state
  BY <1>2 DEF Sound, Sys, Client, Alike, SameListeners, SameTracker
<1> HIDE DEF r, t
<1>4. Sound(r)
  BY <1>3, SoundAlike
<1>5. CASE state = "error" /\ r.c.targets # {}
  <2> DEFINE u == HandleWatchStreamFailure(r)
  <2>1. t = StartWatchStream(u)
    <3>1. t = CHOOSE y \in {StartWatchStream(x) : x \in {u}} : TRUE
      BY <1>1, <1>5 DEF Then
    <3>2. {StartWatchStream(x) : x \in {u}} = {StartWatchStream(u)}
      OBVIOUS
    <3>3. QED
      BY <3>1, <3>2, Single
  <2>2. /\ Sound(u) /\ SameStream(r, u) /\ SameListeners(r, u)
        /\ IF r.c.online = "Online" THEN u.c.online = "Unknown" /\ SameTracker(r, u)
           ELSE u.c.online = "Offline" /\ u.c.failures = 1 /\ u.c.timer = FALSE
    BY <1>4, HandleWatchStreamFailureSound
  <2> HIDE DEF u
  <2>3. u.c.failures # 0 => u.c.online = "Offline" /\ ~u.c.timer
    <3>1. CASE r.c.online = "Online"
      BY <1>3, <2>2, <3>1 DEF Steady, SameTracker
    <3>2. CASE r.c.online # "Online"
      BY <2>2, <3>2
    <3>3. QED
      BY <3>1, <3>2
  <2>4. Sound(t) /\ SameListeners(u, t) /\ Started(u, t)
    BY <2>1, <2>2, <2>3, StartWatchStreamSound
  <2>5. SameListeners(s, t)
    BY <1>3, <2>2, <2>4 DEF SameListeners
  <2>6. QED
    BY <1>3, <2>2, <2>4, <2>5 DEF t, Started, SameStream, IsStarted
<1>6. CASE ~(state = "error" /\ r.c.targets # {})
  <2>1. t = UpdateState(r, "Unknown")
    BY <1>1, <1>6
  <2>2. "Unknown" \in Onlines
    BY DEF Onlines
  <2>3. /\ Sound(t) /\ SameStream(r, t) /\ SameListeners(r, t)
        /\ t.c.online = "Unknown" /\ t.c.failures = 0 /\ t.c.timer = FALSE
    BY <1>4, <2>1, <2>2, UpdateStateSound
  <2>4. Steady(t)
    BY <2>3 DEF Steady
  <2>5. t.c.stream # "open"
    BY <1>3, <2>3 DEF SameStream
  <2>6. QED
    BY <1>3, <1>6, <2>3, <2>4, <2>5, SameTwice DEF t, SameStream
<1>7. QED
  BY <1>5, <1>6

LEMMA ListenSound ==
    ASSUME ConstantsAssumption, NEW s, Sound(s), Steady(s), NEW q \in Queries,
           server \in [Queries -> Version], s.c.idle => s.c.stream = "open"
    PROVE  LET t == Listen(s, q) IN
           /\ Sound(t) /\ SameListeners(s, t) /\ Steady(t) /\ IsStarted(t)
           /\ t.c.targets = s.c.targets \cup {q} /\ t.c.idle = FALSE
           /\ IF s.c.stream = "open"
              THEN t.c.stream = "open" /\ t.c.since = [s.c.since EXCEPT ![q] = server[q]]
              ELSE t.c.stream # "open" /\ t.c.since = s.c.since
<1> DEFINE r == [s EXCEPT !.c.targets = @ \cup {q}]
           t == Listen(s, q)
           watches(x) == IF x.c.stream = "open"
                         THEN [x EXCEPT !.c.since[q] = server[q], !.c.idle = FALSE]
                         ELSE IF IsStarted(x) THEN x ELSE StartWatchStream(x)
<1>1. t = watches(r)
  <2>1. t = CHOOSE y \in {watches(x) : x \in {r}} : TRUE
    BY DEF Listen, Then
  <2>2. {watches(x) : x \in {r}} = {watches(r)}
    OBVIOUS
  <2>3. QED
    BY <2>1, <2>2, Single
<1>2. s \in Sys /\ s.c.idle \in BOOLEAN
  BY DEF Sound, Sys, Client
<1>3. /\ r \in Sys /\ r.q = s.q /\ Alike(s, r) /\ SameListeners(s, r) /\ SameTracker(s, r)
      /\ r.c.online = s.c.online /\ r.c.targets = s.c.targets \cup {q}
      /\ r.c.idle = s.c.idle /\ r.c.since = s.c.since /\ r.c.stream = s.c.stream
  BY <1>2 DEF Sys, Client, Alike, SameListeners, SameTracker
<1> HIDE DEF r, t
<1>4. Sound(r) /\ Steady(r)
  BY <1>3, SoundAlike DEF Steady, SameTracker, IsStarted
<1>5. CASE r.c.stream = "open"
  <2>1. t = [r EXCEPT !.c.since[q] = server[q], !.c.idle = FALSE]
    BY <1>1, <1>5
  <2>2. server[q] \in Version
    OBVIOUS
  <2>3. /\ t \in Sys /\ t.q = r.q /\ Alike(r, t) /\ SameListeners(r, t) /\ SameTracker(r, t)
        /\ t.c.online = r.c.online /\ t.c.targets = r.c.targets
        /\ t.c.idle = FALSE /\ t.c.since = [r.c.since EXCEPT ![q] = server[q]]
        /\ t.c.stream = r.c.stream
    BY <1>3, <2>1, <2>2 DEF Sys, Client, Alike, SameListeners, SameTracker
  <2>4. Sound(t) /\ Steady(t) /\ IsStarted(t)
    BY <1>4, <1>5, <2>3, SoundAlike DEF Steady, SameTracker, IsStarted
  <2>5. QED
    BY <1>3, <1>5, <2>3, <2>4, SameTwice DEF t
<1>6. CASE r.c.stream # "open" /\ IsStarted(r)
  <2>1. t = r
    BY <1>1, <1>6
  <2>2. QED
    BY <1>2, <1>3, <1>4, <1>6, <2>1 DEF t
<1>7. CASE r.c.stream # "open" /\ ~IsStarted(r)
  <2>1. t = StartWatchStream(r)
    BY <1>1, <1>7
  <2>2. r.c.failures # 0 => r.c.online = "Offline" /\ ~r.c.timer
    BY <1>4 DEF Steady
  <2>3. Sound(t) /\ SameListeners(r, t) /\ Started(r, t)
    BY <1>4, <2>1, <2>2, StartWatchStreamSound
  <2>4. QED
    BY <1>2, <1>3, <1>7, <2>3, SameTwice DEF t, Started, IsStarted
<1>8. QED
  BY <1>5, <1>6, <1>7

LEMMA StopListeningSound ==
    ASSUME ConstantsAssumption, NEW s, Sound(s), Steady(s), NEW q \in Queries
    PROVE  LET t == StopListening(s, q) IN
           /\ Sound(t) /\ SameListeners(s, t) /\ Steady(t)
           /\ t.c.targets = s.c.targets \ {q} /\ t.c.stream = s.c.stream
           /\ t.c.since = [s.c.since EXCEPT ![q] = UNKNOWN]
           /\ \/ t.c.idle = s.c.idle
              \/ t.c.targets = {} /\ t.c.stream = "open"
<1> DEFINE r == [s EXCEPT !.c.targets = @ \ {q}, !.c.since[q] = UNKNOWN]
           t == StopListening(s, q)
           stops(x) == IF x.c.targets # {} THEN x
                       ELSE IF x.c.stream = "open" THEN [x EXCEPT !.c.idle = TRUE]
                       ELSE UpdateState(x, "Unknown")
<1>1. t = stops(r)
  <2>1. t = CHOOSE y \in {stops(x) : x \in {r}} : TRUE
    BY DEF StopListening, Then
  <2>2. {stops(x) : x \in {r}} = {stops(r)}
    OBVIOUS
  <2>3. QED
    BY <2>1, <2>2, Single
<1>2. /\ r \in Sys /\ r.q = s.q /\ Alike(s, r) /\ SameListeners(s, r) /\ SameTracker(s, r)
      /\ r.c.online = s.c.online /\ r.c.targets = s.c.targets \ {q}
      /\ r.c.idle = s.c.idle /\ r.c.since = [s.c.since EXCEPT ![q] = UNKNOWN]
      /\ r.c.stream = s.c.stream
  BY DEF Sound, Sys, Client, Alike, SameListeners, SameTracker
<1> HIDE DEF r, t
<1>3. Sound(r) /\ Steady(r)
  BY <1>2, SoundAlike DEF Steady, SameTracker, IsStarted
<1>4. CASE r.c.targets # {}
  <2>1. t = r
    BY <1>1, <1>4
  <2>2. QED
    BY <1>2, <1>3, <2>1 DEF t
<1>5. CASE r.c.targets = {} /\ r.c.stream = "open"
  <2>1. t = [r EXCEPT !.c.idle = TRUE]
    BY <1>1, <1>5
  <2>2. /\ t \in Sys /\ t.q = r.q /\ Alike(r, t) /\ SameListeners(r, t) /\ SameTracker(r, t)
        /\ t.c.online = r.c.online /\ t.c.targets = r.c.targets
        /\ t.c.since = r.c.since /\ t.c.stream = r.c.stream
    BY <1>2, <2>1 DEF Sys, Client, Alike, SameListeners, SameTracker
  <2>3. Sound(t) /\ Steady(t)
    BY <1>3, <2>2, SoundAlike DEF Steady, SameTracker, IsStarted
  <2>4. QED
    BY <1>2, <1>5, <2>2, <2>3, SameTwice DEF t
<1>6. CASE r.c.targets = {} /\ r.c.stream # "open"
  <2>1. t = UpdateState(r, "Unknown") /\ "Unknown" \in Onlines
    BY <1>1, <1>6 DEF Onlines
  <2>2. /\ Sound(t) /\ SameStream(r, t) /\ SameListeners(r, t)
        /\ t.c.online = "Unknown" /\ t.c.failures = 0 /\ t.c.timer = FALSE
    BY <1>3, <2>1, UpdateStateSound
  <2>3. Steady(t)
    BY <2>2 DEF Steady
  <2>4. QED
    BY <1>2, <2>2, <2>3, SameTwice DEF t, SameStream
<1>7. QED
  BY <1>4, <1>5, <1>6

-----------------------------------------------------------------------------
(* The invariant.                                                          *)

(* No listener was made with a version that the server did not have, and   *)
(* an open request is not older than the call that it was made for.        *)
Asked(s) ==
    /\ \A l \in 1 .. Len(s.c.table) : s.c.table[l].at <= server[s.c.table[l].query]
    /\ \A l \in s.c.on :
         LET listener == s.c.table[l] IN
         listener.own /\ s.c.since[listener.query] # UNKNOWN
           => listener.at <= s.c.since[listener.query]

Answers == [result : {"error", "unavailable", "document"}, val : Version, cached : BOOLEAN]

Replied ==
    /\ muted \subseteq 1 .. Len(c.table) /\ removing \subseteq muted
    /\ answers \in [1 .. MaxListen -> Seq(Answers)]
    /\ AnsweredOnce /\ FreshGet

Settled(s) == Sound(s) /\ Steady(s) /\ Watched(s) /\ Asked(s)

IInv ==
    /\ Settled(State) /\ Replied
    /\ server \in [Queries -> Version] /\ faults \in 0 .. MaxFault

LEMMA StateFields ==
    State.c = c /\ State.q = mainq
BY DEF State

(* The parts of Sound that are about the client and the main queue alone.  *)
LEMMA PartsNext ==
    ASSUME NEW t, State' = t,
           Known(t), Viewed(t), Ordered(t), Fresh(t), ErrorsLast(t)
    PROVE  /\ Known(State)' /\ Viewed(State)' /\ Ordered(State)' /\ Fresh(State)'
           /\ ErrorsLast(State)'
<1>1. Known(State)' /\ Viewed(State)'
  BY DEF Known, Viewed
<1>2. Ordered(State)'
  BY Zenon DEF Ordered, Cached
<1>3. Fresh(State)' /\ ErrorsLast(State)'
  BY DEF Fresh, ErrorsLast
<1>4. QED
  BY <1>1, <1>2, <1>3

LEMMA SettledNext ==
    ASSUME NEW t, Settled(t), t.c = c', t.q = mainq', UNCHANGED <<server, answers, muted>>
    PROVE  Settled(State)'
<1>1. State' = [c |-> c', q |-> mainq'] /\ t \in Sys
  BY DEF State, Settled, Sound
<1>2. State' = t
  BY <1>1 DEF Sys
<1>3. Known(State)' /\ Viewed(State)' /\ Ordered(State)' /\ Fresh(State)' /\ ErrorsLast(State)'
  BY <1>2, PartsNext DEF Settled, Sound
<1>4. Quieted(State)' /\ Asked(State)'
  BY <1>2 DEF Settled, Sound, Quieted, Asked
<1>5. Steady(State)' /\ Watched(State)'
  BY <1>2 DEF Settled, Steady, Watched, IsStarted
<1>6. QED
  BY <1>1, <1>2, <1>3, <1>4, <1>5 DEF Settled, Sound

LEMMA RepliedFrame ==
    ASSUME Replied, UNCHANGED <<muted, answers, c>>, removing' \subseteq removing
    PROVE  Replied'
BY DEF Replied, AnsweredOnce, FreshGet

(* An operation of the client that makes it t. *)
LEMMA WorkerStep ==
    ASSUME IInv, NEW t, Settled(t), c' = t.c, mainq' = t.q, c'.table = c.table,
           UNCHANGED <<server, muted, answers>>, removing' \subseteq removing,
           faults' \in 0 .. MaxFault
    PROVE  IInv'
<1>1. Settled(State)'
  BY SettledNext
<1>2. Replied'
  BY DEF IInv, Replied, AnsweredOnce, FreshGet
<1>3. QED
  BY <1>1, <1>2 DEF IInv

LEMMA BecomesIs ==
    ASSUME NEW t, Becomes(t)
    PROVE  c' = t.c /\ mainq' = t.q
BY DEF Becomes

LEMMA InitInv ==
    ASSUME ConstantsAssumption, Init
    PROVE  IInv
<1>1. NothingSent \in [Queries -> Version \cup {UNKNOWN}]
  BY DEF NothingSent
<1>2. c \in Client
  <2>1. <<>> \in Seq(Listener)
    BY EmptySeq
  <2>2. QED
    BY <1>1, <2>1 DEF Init, Client
<1>3. /\ State \in Sys /\ State.c = c /\ State.q = <<>>
      /\ Len(c.table) = 0 /\ Len(State.q) = 0 /\ c.on = {}
      /\ \A q \in Queries : c.view[q] = NoView
  BY <1>2, EmptySeq DEF Init, State, Sys
<1>4. Known(State) /\ Viewed(State) /\ Ordered(State)
  BY <1>3 DEF Known, Viewed, Ordered, ConstantsAssumption
<1>5. Fresh(State) /\ ErrorsLast(State) /\ Quieted(State)
  BY <1>3 DEF Init, Fresh, ErrorsLast, Quieted
<1>6. Steady(State)
  BY <1>3 DEF Init, Steady
<1>7. Watched(State)
  <2>1. \A q \in Queries : NothingSent[q] = UNKNOWN
    BY DEF NothingSent
  <2>2. QED
    BY <1>3, <2>1 DEF Init, Watched, Listened
<1>8. Asked(State)
  BY <1>3 DEF Asked
<1>9. Replied
  <2>1. answers \in [1 .. MaxListen -> Seq(Answers)]
    BY EmptySeq DEF Init
  <2>2. AnsweredOnce
    BY EmptySeq DEF Init, AnsweredOnce
  <2>3. FreshGet
    BY <1>3, EmptySeq, LenProperties DEF Init, FreshGet
  <2>4. QED
    BY <2>1, <2>2, <2>3 DEF Init, Replied
<1>10. QED
  BY <1>3, <1>4, <1>5, <1>6, <1>7, <1>8, <1>9 DEF IInv, Settled, Sound, Init, ConstantsAssumption

-----------------------------------------------------------------------------
(* The invariant: the watch stream.                                        *)

LEMMA StateSettled ==
    ASSUME IInv
    PROVE  /\ Settled(State) /\ Sound(State) /\ Steady(State) /\ Watched(State)
           /\ Asked(State) /\ State \in Sys /\ State.c = c /\ State.q = mainq
           /\ c \in Client
BY StateFields DEF IInv, Settled, Sound, Sys

LEMMA ListenedTo ==
    ASSUME NEW s, NEW t, SameListeners(s, t)
    PROVE  Listened(t) = Listened(s)
BY DEF SameListeners, Listened

(* The tracker has moved, the stream and the listeners have not. *)
LEMMA TrackerMoves ==
    ASSUME NEW s, Settled(s), NEW t, Sound(t), Steady(t), SameStream(s, t), SameListeners(s, t)
    PROVE  Settled(t)
<1>1. Watched(t)
  <2>1. Watched(s)
    BY DEF Settled
  <2>2. t.c.targets = Listened(t)
    BY <2>1, ListenedTo DEF Watched, SameStream
  <2>3. QED
    BY <2>1, <2>2 DEF Watched, SameStream, IsStarted
<1>2. Asked(t)
  BY DEF Settled, Asked, SameStream, SameListeners
<1>3. QED
  BY <1>1, <1>2 DEF Settled

(* The stream is closed, and started again if there are targets. *)
LEMMA StreamCloses ==
    ASSUME NEW s, Settled(s), NEW t, Sound(t), Steady(t), SameListeners(s, t),
           t.c.targets = s.c.targets, t.c.idle = FALSE, t.c.since = NothingSent,
           t.c.stream # "open", s.c.targets # {} => IsStarted(t)
    PROVE  Settled(t)
<1>1. \A q \in Queries : NothingSent[q] = UNKNOWN
  BY DEF NothingSent
<1>2. Watched(t)
  <2>1. t.c.targets = Listened(t)
    BY ListenedTo DEF Settled, Watched
  <2>2. QED
    BY <1>1, <2>1 DEF Watched
<1>3. \A l \in s.c.on : s.c.table[l].query \in s.c.targets
  BY DEF Settled, Watched, Listened
<1>4. s.c.targets \subseteq Queries
  BY DEF Settled, Sound, Sys, Client
<1>5. Asked(t)
  BY <1>1, <1>3, <1>4 DEF Settled, Asked, SameListeners
<1>6. QED
  BY <1>2, <1>5 DEF Settled

LEMMA StartFailsInv ==
    ASSUME ConstantsAssumption, IInv, StartFails \/ StreamBroken
    PROVE  IInv'
<1> DEFINE t == Close(State, "error")
<1>1. /\ Sound(t) /\ SameListeners(State, t) /\ Steady(t)
      /\ t.c.targets = c.targets /\ t.c.idle = FALSE /\ t.c.since = NothingSent
      /\ t.c.stream # "open" /\ (c.targets # {} => IsStarted(t))
  BY StateSettled, CloseSound
<1>2. Becomes(t) /\ UNCHANGED <<server, muted, removing, answers>>
      /\ faults' \in 0 .. MaxFault
  BY DEF StartFails, StreamBroken, IInv, ConstantsAssumption
<1> HIDE DEF t
<1>3. Settled(t)
  BY <1>1, StateSettled, StreamCloses
<1>4. c' = t.c /\ mainq' = t.q /\ c'.table = c.table
  BY <1>1, <1>2, BecomesIs, StateFields DEF SameListeners
<1>5. QED
  BY <1>2, <1>3, <1>4, WorkerStep

LEMMA IdleTimeoutInv ==
    ASSUME ConstantsAssumption, IInv, IdleTimeout
    PROVE  IInv'
<1> DEFINE t == Close(State, "initial")
<1>1. /\ Sound(t) /\ SameListeners(State, t) /\ Steady(t)
      /\ t.c.targets = c.targets /\ t.c.idle = FALSE /\ t.c.since = NothingSent
      /\ t.c.stream # "open"
  BY StateSettled, CloseSound
<1>2. Becomes(t) /\ UNCHANGED <<server, muted, removing, answers, faults>> /\ c.idle
  BY DEF IdleTimeout
<1> HIDE DEF t
<1>3. c.targets = {}
  BY <1>2, StateSettled DEF Watched
<1>4. Settled(t)
  BY <1>1, <1>3, StateSettled, StreamCloses
<1>5. c' = t.c /\ mainq' = t.q /\ c'.table = c.table
  BY <1>1, <1>2, BecomesIs, StateFields DEF SameListeners
<1>6. faults' \in 0 .. MaxFault
  BY <1>2 DEF IInv
<1>7. QED
  BY <1>2, <1>4, <1>5, <1>6, WorkerStep

LEMMA OnlineTimeoutInv ==
    ASSUME ConstantsAssumption, IInv, OnlineTimeout
    PROVE  IInv'
<1> DEFINE r == [State EXCEPT !.c.timer = FALSE]
           t == SetAndBroadcast(r, "Offline")
<1>1. /\ r \in Sys /\ r.q = State.q /\ Alike(State, r) /\ SameStream(State, r)
      /\ SameListeners(State, r) /\ r.c.timer = FALSE /\ r.c.failures = State.c.failures
  BY StateSettled DEF Sys, Client, Alike, SameStream, SameListeners
<1>2. Becomes(t) /\ UNCHANGED <<server, muted, removing, answers, faults>>
  BY DEF OnlineTimeout
<1> HIDE DEF r
<1>3. Sound(r) /\ "Offline" \in Onlines
  BY <1>1, StateSettled, SoundAlike DEF Onlines
<1>4. /\ Sound(t) /\ SameStream(r, t) /\ SameListeners(r, t) /\ SameTracker(r, t)
      /\ t.c.online = "Offline"
  BY <1>3, SetAndBroadcastSound
<1> HIDE DEF t
<1>5. Steady(t)
  BY <1>1, <1>4 DEF Steady, SameTracker
<1>6. SameStream(State, t) /\ SameListeners(State, t)
  BY <1>1, <1>4, SameTwice
<1>7. Settled(t)
  BY <1>4, <1>5, <1>6, StateSettled, TrackerMoves
<1>8. c' = t.c /\ mainq' = t.q /\ c'.table = c.table /\ faults' \in 0 .. MaxFault
  BY <1>2, <1>6, BecomesIs, StateFields DEF SameListeners, IInv
<1>9. QED
  BY <1>2, <1>7, <1>8, WorkerStep

LEMMA TargetAddedInv ==
    ASSUME ConstantsAssumption, IInv, NEW q \in Queries, TargetAdded(q)
    PROVE  IInv'
<1> DEFINE t == UpdateState(State, "Online")
<1>1. Becomes(t) /\ UNCHANGED <<server, muted, removing, answers, faults>>
      /\ c.since[q] # UNKNOWN
  BY DEF TargetAdded
<1>2. "Online" \in Onlines
  BY DEF Onlines
<1>3. /\ Sound(t) /\ SameStream(State, t) /\ SameListeners(State, t)
      /\ t.c.online = "Online" /\ t.c.failures = 0 /\ t.c.timer = FALSE
  BY <1>2, StateSettled, UpdateStateSound
<1> HIDE DEF t
<1>4. t.c.stream = "open"
  BY <1>1, <1>3, StateSettled DEF Watched, SameStream
<1>5. Steady(t)
  BY <1>3, <1>4 DEF Steady
<1>6. Settled(t)
  BY <1>3, <1>5, StateSettled, TrackerMoves
<1>7. c' = t.c /\ mainq' = t.q /\ c'.table = c.table /\ faults' \in 0 .. MaxFault
  BY <1>1, <1>3, BecomesIs, StateFields DEF SameListeners, IInv
<1>8. QED
  BY <1>1, <1>6, <1>7, WorkerStep

LEMMA ConnectivityChangeInv ==
    ASSUME ConstantsAssumption, IInv, ConnectivityChange
    PROVE  IInv'
<1> DEFINE r == [State EXCEPT !.c.stream = "initial", !.c.idle = FALSE,
                              !.c.since = NothingSent]
           s == UpdateState(r, "Unknown")
           u == StartWatchStream(s)
           t == IF c.targets = {} THEN s ELSE u
<1>1. Becomes(t)
  <2>1. Then(s, StartWatchStream) = u
    <3>1. Then(s, StartWatchStream) = CHOOSE y \in {StartWatchStream(x) : x \in {s}} : TRUE
      BY DEF Then
    <3> HIDE DEF s
    <3>2. {StartWatchStream(x) : x \in {s}} = {StartWatchStream(s)}
      OBVIOUS
    <3>3. QED
      BY <3>1, <3>2, Single
  <2>2. Becomes(IF c.targets = {} THEN s ELSE Then(s, StartWatchStream))
    BY DEF ConnectivityChange
  <2>3. QED
    BY <2>1, <2>2
<1>2. UNCHANGED <<server, muted, removing, answers>> /\ faults' \in 0 .. MaxFault
  BY DEF ConnectivityChange, IInv, ConstantsAssumption
<1>3. NothingSent \in [Queries -> Version \cup {UNKNOWN}] /\ "Unknown" \in Onlines
  BY DEF NothingSent, Onlines
<1>4. /\ r \in Sys /\ r.q = State.q /\ Alike(State, r) /\ SameListeners(State, r)
      /\ r.c.stream = "initial" /\ r.c.idle = FALSE /\ r.c.since = NothingSent
      /\ r.c.targets = c.targets
  BY <1>3, StateSettled DEF Sys, Client, Alike, SameListeners
<1> HIDE DEF r
<1>5. Sound(r)
  BY <1>4, StateSettled, SoundAlike
<1>6. /\ Sound(s) /\ SameStream(r, s) /\ SameListeners(r, s)
      /\ s.c.online = "Unknown" /\ s.c.failures = 0 /\ s.c.timer = FALSE
  BY <1>3, <1>5, UpdateStateSound
<1> HIDE DEF s
<1>7. Steady(s) /\ SameListeners(State, s)
  BY <1>4, <1>6, SameTwice DEF Steady
<1>8. Settled(t) /\ SameListeners(State, t)
  <2>1. CASE c.targets = {}
    <3>1. t = s
      BY <2>1
    <3>2. QED
      BY <1>4, <1>6, <1>7, <2>1, <3>1, StateSettled, StreamCloses DEF SameStream
  <2>2. CASE c.targets # {}
    <3>1. t = u
      BY <2>2
    <3>2. Sound(u) /\ SameListeners(s, u) /\ Started(s, u)
      BY <1>6, StartWatchStreamSound
    <3> HIDE DEF u, t
    <3>3. /\ SameListeners(State, u) /\ u.c.targets = c.targets /\ u.c.idle = FALSE
          /\ u.c.since = NothingSent /\ u.c.stream # "open" /\ IsStarted(u) /\ Steady(u)
      BY <1>4, <1>6, <1>7, <3>2, SameTwice DEF SameStream, Started, IsStarted
    <3>4. QED
      BY <3>1, <3>2, <3>3, StateSettled, StreamCloses
  <2>3. QED
    BY <2>1, <2>2
<1> HIDE DEF t
<1>9. c' = t.c /\ mainq' = t.q /\ c'.table = c.table
  BY <1>1, <1>8, BecomesIs, StateFields DEF SameListeners
<1>10. QED
  BY <1>2, <1>8, <1>9, WorkerStep

LEMMA StreamOpenInv ==
    ASSUME ConstantsAssumption, IInv, StreamOpen
    PROVE  IInv'
<1> DEFINE since == [q \in Queries |-> IF q \in c.targets THEN server[q] ELSE UNKNOWN]
           d == [c EXCEPT !.stream = "open", !.since = since]
           t == [c |-> d, q |-> mainq]
<1>1. /\ c' = t.c /\ mainq' = t.q /\ UNCHANGED <<server, muted, removing, answers, faults>>
      /\ c.stream = "starting"
  BY DEF StreamOpen
<1>2. server \in [Queries -> Version]
  BY DEF IInv
<1>3. /\ since \in [Queries -> Version \cup {UNKNOWN}]
      /\ \A q \in Queries : since[q] = IF q \in c.targets THEN server[q] ELSE UNKNOWN
  BY <1>2
<1>4. c \in Client /\ State \in Sys /\ State.c = c /\ State.q = mainq /\ mainq \in Seq(Events)
  BY StateSettled DEF Sys
<1> HIDE DEF since
<1>5. /\ d \in Client /\ d.stream = "open" /\ d.since = since /\ d.idle = c.idle
      /\ d.targets = c.targets /\ d.online = c.online /\ d.failures = c.failures
      /\ d.timer = c.timer /\ d.table = c.table /\ d.on = c.on /\ d.view = c.view
      /\ d.cache = c.cache
  BY <1>3, <1>4 DEF Client
<1> HIDE DEF d
<1>6. t \in Sys /\ t.q = State.q /\ t.c = d
  BY <1>4, <1>5 DEF Sys
<1> HIDE DEF t
<1>7. Sound(t)
  BY <1>4, <1>5, <1>6, StateSettled, SoundAlike DEF Alike
<1>8. Steady(t)
  BY <1>1, <1>4, <1>5, <1>6, StateSettled DEF Steady, IsStarted
<1>9. Listened(t) = Listened(State)
  BY <1>4, <1>5, <1>6, ListenedTo DEF SameListeners
<1>10. Watched(t)
  <2>1. c.targets = Listened(State) /\ ~(c.targets # {} /\ c.idle)
    BY <1>4, StateSettled DEF Watched
  <2>2. \A q \in Queries : server[q] # UNKNOWN
    BY <1>2 DEF Version, UNKNOWN, ConstantsAssumption
  <2>3. \A q \in Queries : since[q] # UNKNOWN <=> q \in c.targets
    BY <1>3, <2>2
  <2>4. QED
    BY <1>5, <1>6, <1>9, <2>1, <2>3 DEF Watched, IsStarted
<1>11. Asked(t)
  <2>1. \A l \in c.on : l \in 1 .. Len(c.table) /\ c.table[l].query \in Queries
    BY <1>4, StateSettled, ViewOf DEF Sound
  <2>2. \A l \in 1 .. Len(c.table) : c.table[l].at <= server[c.table[l].query]
    BY <1>4, StateSettled DEF Asked
  <2>3. QED
    BY <1>3, <1>5, <1>6, <2>1, <2>2 DEF Asked
<1>12. Settled(t) /\ c'.table = c.table /\ faults' \in 0 .. MaxFault
  BY <1>1, <1>5, <1>6, <1>7, <1>8, <1>10, <1>11 DEF Settled, IInv
<1>13. QED
  BY <1>1, <1>12, WorkerStep

LEMMA BackoffElapsedInv ==
    ASSUME ConstantsAssumption, IInv, BackoffElapsed
    PROVE  IInv'
<1> DEFINE d == [c EXCEPT !.stream = "starting"]
           t == [c |-> d, q |-> mainq]
<1>1. /\ c' = t.c /\ mainq' = t.q /\ UNCHANGED <<server, muted, removing, answers, faults>>
      /\ c.stream = "backoff"
  BY DEF BackoffElapsed
<1>2. c \in Client /\ State \in Sys /\ State.c = c /\ State.q = mainq /\ mainq \in Seq(Events)
  BY StateSettled DEF Sys
<1>3. /\ d \in Client /\ d.stream = "starting" /\ d.since = c.since /\ d.idle = c.idle
      /\ d.targets = c.targets /\ d.online = c.online /\ d.failures = c.failures
      /\ d.timer = c.timer /\ d.table = c.table /\ d.on = c.on /\ d.view = c.view
      /\ d.cache = c.cache
  BY <1>2 DEF Client
<1> HIDE DEF d
<1>4. t \in Sys /\ t.q = State.q /\ t.c = d
  BY <1>2, <1>3 DEF Sys
<1> HIDE DEF t
<1>5. Sound(t)
  BY <1>2, <1>3, <1>4, StateSettled, SoundAlike DEF Alike
<1>6. Steady(t)
  BY <1>1, <1>2, <1>3, <1>4, StateSettled DEF Steady, IsStarted
<1>7. Listened(t) = Listened(State)
  BY <1>2, <1>3, <1>4, ListenedTo DEF SameListeners
<1>8. Watched(t) /\ Asked(t)
  BY <1>1, <1>2, <1>3, <1>4, <1>7, StateSettled DEF Watched, Asked, IsStarted
<1>9. Settled(t) /\ c'.table = c.table /\ faults' \in 0 .. MaxFault
  BY <1>1, <1>3, <1>4, <1>5, <1>6, <1>8 DEF Settled, IInv
<1>10. QED
  BY <1>1, <1>9, WorkerStep

LEMMA ServerChangeInv ==
    ASSUME ConstantsAssumption, IInv, NEW q \in Queries, ServerChange(q)
    PROVE  IInv'
<1>1. /\ UNCHANGED <<c, mainq, muted, removing, answers, faults>>
      /\ server' = [server EXCEPT ![q] = @ + 1] /\ server[q] < MaxVersion
      /\ server \in [Queries -> Version]
  BY DEF ServerChange, IInv
<1>2. /\ server' \in [Queries -> Version]
      /\ \A p \in Queries : server[p] \in Int /\ server'[p] \in Int /\ server[p] <= server'[p]
  BY <1>1 DEF Version, ConstantsAssumption
<1>3. State' = State
  BY <1>1 DEF State
<1>4. Sound(State)' /\ Steady(State)' /\ Watched(State)'
  <2>1. Known(State)' /\ Viewed(State)' /\ Ordered(State)' /\ Fresh(State)'
        /\ ErrorsLast(State)'
    BY <1>3, StateSettled, PartsNext DEF Sound
  <2>2. Quieted(State)'
    BY <1>1, <1>3, StateSettled DEF Sound, Quieted
  <2>3. Steady(State)' /\ Watched(State)'
    BY <1>3, StateSettled DEF Steady, Watched, IsStarted, Listened
  <2>4. QED
    BY <1>3, <2>1, <2>2, <2>3, StateSettled DEF Sound
<1>5. Asked(State)'
  <2>1. \A l \in 1 .. Len(State.c.table) :
          State.c.table[l].query \in Queries /\ State.c.table[l].at \in Nat
    BY StateSettled, ListenerOf
  <2>2. ASSUME NEW l \in 1 .. Len(State.c.table)
        PROVE  State.c.table[l].at <= server'[State.c.table[l].query]
    <3> DEFINE p == State.c.table[l].query
               a == State.c.table[l].at
    <3>1. p \in Queries /\ a \in Nat /\ a <= server[p]
      BY <2>1, StateSettled DEF Asked
    <3> HIDE DEF p, a
    <3>2. a <= server'[p]
      <4>1. server[p] \in Int /\ server'[p] \in Int /\ server[p] <= server'[p]
        BY <1>2, <3>1
      <4> DEFINE v == server[p]
                 w == server'[p]
      <4>2. a \in Int /\ v \in Int /\ w \in Int /\ a <= v /\ v <= w
        BY <3>1, <4>1
      <4> HIDE DEF v, w
      <4>3. a <= w
        BY <4>2
      <4>4. QED
        BY <4>3 DEF w
    <3>3. QED
      BY <3>2 DEF p, a
  <2>3. QED
    BY <1>3, <2>2, StateSettled DEF Asked
<1>6. Replied'
  BY <1>1, RepliedFrame DEF IInv
<1>7. QED
  BY <1>1, <1>2, <1>4, <1>5, <1>6 DEF IInv, Settled

LEMMA RemoveListenerInv ==
    ASSUME ConstantsAssumption, IInv, NEW l \in 1 .. MaxListen, RemoveListener(l)
    PROVE  IInv'
<1>1. /\ UNCHANGED <<server, c, mainq, answers, faults>>
      /\ muted' = muted \cup {l} /\ removing' = removing \cup {l}
      /\ l \in DOMAIN c.table
  BY DEF RemoveListener, Remove
<1>2. State' = State
  BY <1>1 DEF State
<1>3. Sound(State)' /\ Steady(State)' /\ Watched(State)' /\ Asked(State)'
  <2>1. Known(State)' /\ Viewed(State)' /\ Ordered(State)' /\ Fresh(State)'
        /\ ErrorsLast(State)'
    BY <1>2, StateSettled, PartsNext DEF Sound
  <2>2. Quieted(State)'
    BY <1>1, <1>2, StateSettled DEF Sound, Quieted
  <2>3. Steady(State)' /\ Watched(State)' /\ Asked(State)'
    BY <1>1, <1>2, StateSettled DEF Steady, Watched, IsStarted, Asked, Listened
  <2>4. QED
    BY <1>2, <2>1, <2>2, <2>3, StateSettled DEF Sound
<1>4. Replied'
  <2>1. c.table \in Seq(Listener)
    BY StateSettled DEF Client
  <2>2. l \in 1 .. Len(c.table)
    BY <1>1, <2>1, LenProperties
  <2>3. QED
    BY <1>1, <2>2 DEF IInv, Replied, AnsweredOnce, FreshGet
<1>5. QED
  BY <1>1, <1>3, <1>4 DEF IInv, Settled

-----------------------------------------------------------------------------
(* The invariant: what the server sends.                                   *)

(* A snapshot not older than the cache, nor than a call that its target    *)
(* was opened for.                                                         *)
LEMMA SnapshotSound ==
    ASSUME ConstantsAssumption, NEW u, Sound(u), NEW q \in Queries, NEW v \in Version,
           v >= u.c.cache[q], q \in Listened(u),
           \A l \in u.c.on : u.c.table[l].own /\ u.c.table[l].query = q
                               => u.c.table[l].at <= v
    PROVE  LET s == [u EXCEPT !.c.cache[q] = v]
               r == [s EXCEPT !.c.view =
                       [s.c.view EXCEPT ![q] = [val |-> v, synced |-> TRUE]]]
           IN  /\ s \in Sys /\ Sound(r)
               /\ SameStream(u, s) /\ SameTracker(u, s) /\ s.c.online = u.c.online
               /\ s.c.table = u.c.table /\ s.c.on = u.c.on
<1> DEFINE s == [u EXCEPT !.c.cache[q] = v]
           w == [val |-> v, synced |-> TRUE]
           r == [s EXCEPT !.c.view = [s.c.view EXCEPT ![q] = w]]
<1>1. /\ w \in [val : Version \cup {UNKNOWN}, synced : BOOLEAN] /\ w # NoView
      /\ w.val = v /\ w.synced
  BY DEF NoView
<1> HIDE DEF w
<1>2. u \in Sys /\ u.c \in Client
  BY DEF Sound, Sys
<1>3. /\ s \in Sys /\ s.q = u.q /\ s.c.cache = [u.c.cache EXCEPT ![q] = v]
      /\ s.c.view = u.c.view /\ s.c.table = u.c.table /\ s.c.on = u.c.on
      /\ SameStream(u, s) /\ SameTracker(u, s) /\ s.c.online = u.c.online
  BY <1>2 DEF Sys, Client, SameStream, SameTracker
<1> HIDE DEF s
<1>4. /\ r \in Sys /\ r.q = u.q /\ r.c.cache = [u.c.cache EXCEPT ![q] = v]
      /\ r.c.view = [u.c.view EXCEPT ![q] = w]
      /\ r.c.table = u.c.table /\ r.c.on = u.c.on
  BY <1>1, <1>3 DEF Sys, Client
<1> HIDE DEF r
<1>5. /\ \A p \in Queries : r.c.cache[p] = IF p = q THEN v ELSE u.c.cache[p]
      /\ \A p \in Queries : r.c.view[p] = IF p = q THEN w ELSE u.c.view[p]
  BY <1>2, <1>4 DEF Client
<1>6. Known(r)
  BY <1>4 DEF Sound, Known
<1>7. Viewed(r)
  <2>1. u.c.view[q] # NoView
    BY DEF Sound, Viewed, Listened
  <2>2. {p \in Queries : r.c.view[p] # NoView} = {p \in Queries : u.c.view[p] # NoView}
    BY <1>1, <1>5, <2>1
  <2>3. {r.c.table[l].query : l \in r.c.on} = {u.c.table[l].query : l \in u.c.on}
    BY <1>4
  <2>4. \A p \in Queries : u.c.view[p] # NoView => u.c.view[p].val = u.c.cache[p]
    BY DEF Sound, Viewed
  <2>5. \A p \in Queries : r.c.view[p] # NoView => r.c.view[p].val = r.c.cache[p]
    BY <1>1, <1>5, <2>4
  <2>6. {u.c.table[l].query : l \in u.c.on} = {p \in Queries : u.c.view[p] # NoView}
    BY DEF Sound, Viewed
  <2>7. QED
    BY <2>2, <2>3, <2>5, <2>6 DEF Viewed
<1>8. \A p \in Queries : /\ Cached(u.c, p) \in Nat /\ Cached(r.c, p) \in Nat
                         /\ Cached(u.c, p) <= Cached(r.c, p)
  <2>1. ASSUME NEW p \in Queries
        PROVE  /\ Cached(u.c, p) \in Nat /\ Cached(r.c, p) \in Nat
               /\ Cached(u.c, p) <= Cached(r.c, p)
    <3>1. /\ u.c.cache[p] \in Int /\ Cached(u.c, p) \in Nat
          /\ r.c.cache[p] \in Int /\ Cached(r.c, p) \in Nat
      BY <1>2, <1>4, CacheType
    <3>2. u.c.cache[p] <= r.c.cache[p]
      BY <1>5, <3>1
    <3> DEFINE a == u.c.cache[p]
               b == r.c.cache[p]
    <3>3. Cached(u.c, p) = (IF a < 0 THEN 0 ELSE a) /\ Cached(r.c, p) = IF b < 0 THEN 0 ELSE b
      BY DEF Cached
    <3> HIDE DEF a, b
    <3>4. (IF a < 0 THEN 0 ELSE a) <= (IF b < 0 THEN 0 ELSE b)
      BY <3>1, <3>2 DEF a, b
    <3>5. QED
      BY <3>1, <3>3, <3>4
  <2>2. QED
    BY <2>1
<1>9. \A i \in 1 .. Len(u.q) : u.q[i].to \in 1 .. Len(u.c.table)
        /\ u.c.table[u.q[i].to].query \in Queries
  BY <1>2, ListenerOf DEF Sound, Known
<1>10. Ordered(r)
  <2>1. ASSUME NEW i \in 1 .. Len(u.q), u.q[i].kind = "snapshot"
        PROVE  u.q[i].val <= Cached(r.c, u.c.table[u.q[i].to].query)
    <3> DEFINE p == u.c.table[u.q[i].to].query
               x == u.q[i].val
               a == Cached(u.c, p)
               b == Cached(r.c, p)
    <3>1. x <= a /\ p \in Queries /\ x \in Nat
      BY <1>2, <1>9, <2>1, EventOf DEF Sound, Ordered
    <3>2. a \in Nat /\ b \in Nat /\ a <= b
      BY <1>8, <3>1
    <3> HIDE DEF x, a, b, p
    <3>3. x <= b
      BY <3>1, <3>2
    <3>4. QED
      BY <3>3 DEF x, b, p
  <2>2. QED
    BY <1>4, <2>1 DEF Sound, Ordered
<1>11. Fresh(r)
  <2>1. ASSUME NEW l \in u.c.on, u.c.table[l].own, r.c.view[u.c.table[l].query].synced
        PROVE  u.c.table[l].at <= r.c.view[u.c.table[l].query].val
    <3>1. u.c.table[l].query \in Queries
      BY <1>2, ViewOf DEF Sound
    <3>2. CASE u.c.table[l].query = q
      BY <1>1, <1>5, <2>1, <3>2
    <3>3. CASE u.c.table[l].query # q
      BY <1>5, <2>1, <3>1, <3>3 DEF Sound, Fresh
    <3>4. QED
      BY <3>2, <3>3
  <2>2. QED
    BY <1>4, <2>1 DEF Sound, Fresh
<1>12. ErrorsLast(r) /\ Quieted(r)
  BY <1>4 DEF Sound, ErrorsLast, Quieted
<1>13. Sound(r)
  BY <1>4, <1>6, <1>7, <1>10, <1>11, <1>12 DEF Sound
<1>14. QED
  BY <1>3, <1>13 DEF r, s, w

LEMMA WatchSnapshotInv ==
    ASSUME ConstantsAssumption, IInv, NEW q \in Queries, WatchSnapshot(q)
    PROVE  IInv'
<1> DEFINE u == UpdateState(State, "Online")
           s(v) == [u EXCEPT !.c.cache[q] = v]
           shows(x, v) == OnViewSnapshots(x, [x.c.view EXCEPT ![q] = [val |-> v, synced |-> TRUE]])
<1>1. PICK v \in Deliverable(q) : Becomes(Then(s(v), LAMBDA x : shows(x, v)))
  BY DEF WatchSnapshot
<1>2. UNCHANGED <<server, muted, removing, answers, faults>> /\ c.since[q] # UNKNOWN
  BY DEF WatchSnapshot
<1> DEFINE t == shows(s(v), v)
<1>3. Becomes(t)
  <2>1. Then(s(v), LAMBDA x : shows(x, v)) = CHOOSE y \in {shows(x, v) : x \in {s(v)}} : TRUE
    BY DEF Then
  <2> HIDE DEF s, shows
  <2>2. {shows(x, v) : x \in {s(v)}} = {shows(s(v), v)}
    OBVIOUS
  <2>3. QED
    BY <1>1, <2>1, <2>2, Single
<1>4. v \in Version /\ v >= c.cache[q] /\ v >= c.since[q]
  BY DEF Deliverable
<1>5. "Online" \in Onlines
  BY DEF Onlines
<1>6. /\ Sound(u) /\ SameStream(State, u) /\ SameListeners(State, u)
      /\ u.c.online = "Online" /\ u.c.failures = 0 /\ u.c.timer = FALSE
  BY <1>5, StateSettled, UpdateStateSound
<1> HIDE DEF u
<1>7. q \in c.targets /\ c.stream = "open"
  BY <1>2, StateSettled DEF Watched
<1>8. q \in Listened(u)
  BY <1>6, <1>7, StateSettled, ListenedTo DEF Watched
<1>9. \A l \in u.c.on : u.c.table[l].own /\ u.c.table[l].query = q => u.c.table[l].at <= v
  <2>1. ASSUME NEW l \in c.on, c.table[l].own, c.table[l].query = q
        PROVE  c.table[l].at <= v
    <3>1. c.table[l].at <= c.since[q]
      BY <1>2, <2>1, StateSettled DEF Asked
    <3>2. c.table[l].at \in Nat
      BY StateSettled, ViewOf, ListenerOf DEF Sound
    <3>3. c.since[q] \in Int /\ v \in Int
      BY <1>4, StateSettled DEF Client, Version, UNKNOWN, ConstantsAssumption
    <3>4. QED
      BY <1>4, <3>1, <3>2, <3>3
  <2>2. QED
    BY <1>6, <2>1, StateFields DEF SameListeners
<1>10. v >= u.c.cache[q]
  BY <1>4, <1>6, StateFields DEF SameListeners
<1> DEFINE r == s(v)
           views == [r.c.view EXCEPT ![q] = [val |-> v, synced |-> TRUE]]
<1>11. /\ r \in Sys /\ Sound([r EXCEPT !.c.view = views])
       /\ SameStream(u, r) /\ SameTracker(u, r) /\ r.c.online = u.c.online
       /\ r.c.table = u.c.table /\ r.c.on = u.c.on
  <2>1. v \in Version
    BY <1>4
  <2>2. QED
    BY <1>6, <1>8, <1>9, <1>10, <2>1, SnapshotSound, Zenon
<1>12. t = OnViewSnapshots(r, views)
  OBVIOUS
<1> HIDE DEF r, views, t, s, shows
<1>13. /\ Sound(t) /\ SameStream(r, t) /\ SameListeners(r, t) /\ SameTracker(r, t)
       /\ t.c.online = r.c.online
  BY <1>11, <1>12, OnViewSnapshotsSound
<1>14. /\ SameStream(State, t) /\ t.c.table = c.table /\ t.c.on = c.on
       /\ t.c.online = "Online" /\ t.c.failures = 0 /\ t.c.timer = FALSE
  BY <1>6, <1>11, <1>13, StateFields DEF SameStream, SameListeners, SameTracker
<1>15. Steady(t)
  BY <1>7, <1>14, StateFields DEF Steady, SameStream
<1>16. Watched(t)
  <2>1. Listened(t) = Listened(State)
    BY <1>14, StateFields DEF Listened
  <2>2. QED
    BY <1>14, <2>1, StateSettled DEF Watched, SameStream, IsStarted
<1>17. Asked(t)
  BY <1>14, StateSettled DEF Asked, SameStream
<1>18. Settled(t)
  BY <1>13, <1>15, <1>16, <1>17 DEF Settled
<1>19. c' = t.c /\ mainq' = t.q /\ c'.table = c.table /\ faults' \in 0 .. MaxFault
  BY <1>2, <1>3, <1>14, BecomesIs DEF IInv
<1>20. QED
  BY <1>2, <1>18, <1>19, WorkerStep

(* The listeners of a query are told of an error and dropped.              *)
Dropped(s, who, q) ==
    [Raise(s, who, "error") EXCEPT !.c.raised = s.c.raised, !.c.on = @ \ who,
       !.c.targets = @ \ {q}, !.c.since[q] = UNKNOWN, !.c.view[q] = NoView]

LEMMA DroppedSound ==
    ASSUME ConstantsAssumption, NEW s, Sound(s), NEW q \in Queries, NEW who \in SUBSET s.c.on,
           \A l \in s.c.on : l \in who <=> s.c.table[l].query = q
    PROVE  LET t == Dropped(s, who, q) IN
           /\ Sound(t) /\ SameTracker(s, t) /\ t.c.online = s.c.online
           /\ t.c.stream = s.c.stream /\ t.c.idle = s.c.idle
           /\ t.c.targets = s.c.targets \ {q}
           /\ t.c.since = [s.c.since EXCEPT ![q] = UNKNOWN]
           /\ t.c.table = s.c.table /\ t.c.on = s.c.on \ who
           /\ Listened(t) = Listened(s) \ {q}
<1> DEFINE r == Raise(s, who, "error")
           t == Dropped(s, who, q)
           e == r.q
           m == Len(s.q)
<1>1. /\ r \in Sys /\ r.c = [s.c EXCEPT !.raised = @ \cup who]
      /\ Tells(s.c, s.q, e, who, "error") /\ s \in Sys /\ s.c \in Client
      /\ s.q \in Seq(Events)
  <2>1. s \in Sys /\ Known(s) /\ "error" \in {"snapshot", "error"}
    BY DEF Sound
  <2>2. QED
    BY <2>1, Raises DEF Sys
<1>2. t = [r EXCEPT !.c.raised = s.c.raised, !.c.on = @ \ who, !.c.targets = @ \ {q},
                    !.c.since[q] = UNKNOWN, !.c.view[q] = NoView]
  BY DEF Dropped
<1> HIDE DEF r, t
<1>3. /\ t \in Sys /\ t.q = e /\ t.c.on = s.c.on \ who /\ t.c.table = s.c.table
      /\ t.c.view = [s.c.view EXCEPT ![q] = NoView] /\ t.c.cache = s.c.cache
      /\ t.c.stream = s.c.stream /\ t.c.idle = s.c.idle /\ t.c.targets = s.c.targets \ {q}
      /\ t.c.since = [s.c.since EXCEPT ![q] = UNKNOWN]
      /\ SameTracker(s, t) /\ t.c.online = s.c.online
  <2> DEFINE on == s.c.on \ who
             since == [s.c.since EXCEPT ![q] = UNKNOWN]
             view == [s.c.view EXCEPT ![q] = NoView]
  <2>1. /\ on \in SUBSET (1 .. MaxListen)
        /\ since \in [Queries -> Version \cup {UNKNOWN}]
        /\ view \in [Queries -> [val : Version \cup {UNKNOWN}, synced : BOOLEAN]
                                \cup {NoView}]
    BY <1>1 DEF Client
  <2> DEFINE d == [s.c EXCEPT !.on = on, !.targets = @ \ {q}, !.since = since, !.view = view]
  <2>2. t.c = d /\ t.q = r.q /\ t = [c |-> t.c, q |-> t.q]
    BY <1>1, <1>2 DEF Sys, Client
  <2> HIDE DEF on, since, view
  <2>3. s.c \in Client
    BY <1>1
  <2>4. d \in Client
    BY <2>1, <2>3 DEF Client
  <2>5. /\ d.on = on /\ d.table = s.c.table /\ d.view = view
        /\ d.cache = s.c.cache /\ d.stream = s.c.stream /\ d.idle = s.c.idle
        /\ d.targets = s.c.targets \ {q} /\ d.since = since
        /\ d.failures = s.c.failures /\ d.timer = s.c.timer /\ d.online = s.c.online
    BY <2>3 DEF Client
  <2> HIDE DEF d
  <2>6. t \in Sys
    BY <1>1, <2>2, <2>4 DEF Sys
  <2>7. QED
    BY <2>2, <2>5, <2>6 DEF SameTracker, on, since, view
<1>4. /\ m \in Nat /\ Len(e) \in Nat /\ m <= Len(e)
      /\ \A i \in 1 .. Len(e) : i <= m => i \in 1 .. m
      /\ \A i \in 1 .. m : i \in 1 .. Len(e) /\ e[i] = s.q[i]
  BY <1>1, LenProperties DEF Tells
<1>5. ASSUME NEW i \in 1 .. Len(e), ~(i <= m)
      PROVE  e[i].kind = "error" /\ e[i].to \in who /\ e[i].to \in 1 .. Len(s.c.table)
  <2>1. i > m
    BY <1>4, <1>5
  <2>2. "error" \in {"snapshot", "error"}
    OBVIOUS
  <2>3. i > Len(s.q)
    BY <2>1
  <2> HIDE DEF m, e
  <2>4. IsTold(s.c, e[i], who, "error")
    BY <1>1, <2>2, <2>3, ToldCached
  <2>5. QED
    BY <2>4 DEF IsTold
<1>6. \A i \in 1 .. Len(e) : e[i].kind = "snapshot" => i <= m /\ i \in 1 .. m /\ e[i] = s.q[i]
  BY <1>4, <1>5
<1>7. Known(t)
  BY <1>3, <1>4, <1>5 DEF Sound, Known
<1>8. \A p \in Queries : t.c.view[p] = IF p = q THEN NoView ELSE s.c.view[p]
  BY <1>1, <1>3 DEF Client
<1>9. Listened(t) = Listened(s) \ {q}
  BY <1>3 DEF Listened
<1>10. Viewed(t)
  <2>1. {p \in Queries : t.c.view[p] # NoView} = {p \in Queries : s.c.view[p] # NoView} \ {q}
    BY <1>8
  <2>2. Listened(s) = {p \in Queries : s.c.view[p] # NoView}
    BY DEF Sound, Viewed, Listened
  <2>3. \A p \in Queries : t.c.view[p] # NoView => t.c.view[p].val = t.c.cache[p]
    BY <1>3, <1>8 DEF Sound, Viewed
  <2>4. {p \in Queries : t.c.view[p] # NoView} = Listened(t)
    BY <1>9, <2>1, <2>2
  <2>5. QED
    BY <2>3, <2>4 DEF Viewed, Listened
<1>11. \A p : Cached(t.c, p) = Cached(s.c, p)
  BY <1>3 DEF Cached
<1>12. Ordered(t)
  <2>1. Ordered(s)
    BY DEF Sound
  <2>2. \A i \in 1 .. Len(e) : e[i].kind = "snapshot" =>
          e[i].val <= Cached(t.c, s.c.table[e[i].to].query)
    BY <1>6, <1>11, <2>1 DEF Ordered
  <2>3. ASSUME NEW i \in 1 .. Len(e), NEW j \in 1 .. Len(e), i < j,
               e[i].kind = "snapshot", e[j].kind = "snapshot",
               s.c.table[e[i].to].query = s.c.table[e[j].to].query
        PROVE  e[i].val <= e[j].val
    BY <1>6, <2>1, <2>3 DEF Ordered
  <2>4. QED
    BY <1>3, <2>2, <2>3 DEF Ordered
<1>13. Fresh(t)
  <2>1. ASSUME NEW l \in t.c.on
        PROVE  /\ l \in s.c.on /\ s.c.table[l].query \in Queries
               /\ t.c.view[s.c.table[l].query] = s.c.view[s.c.table[l].query]
    BY <1>1, <1>3, <1>8, ViewOf DEF Sound
  <2>2. Fresh(s)
    BY DEF Sound
  <2>3. \A l \in t.c.on :
          t.c.table[l].own /\ t.c.view[t.c.table[l].query].synced
            => t.c.table[l].at <= t.c.view[t.c.table[l].query].val
    <3>1. SUFFICES ASSUME NEW l \in t.c.on, t.c.table[l].own,
                          t.c.view[t.c.table[l].query].synced
                   PROVE  t.c.table[l].at <= t.c.view[t.c.table[l].query].val
      OBVIOUS
    <3>2. t.c.table[l] = s.c.table[l]
      BY <1>3
    <3>3. s.c.table[l].own /\ s.c.view[s.c.table[l].query].synced
      BY <2>1, <3>1, <3>2
    <3>4. s.c.table[l].at <= s.c.view[s.c.table[l].query].val
      BY <2>1, <2>2, <3>3 DEF Fresh
    <3>5. QED
      BY <2>1, <3>2, <3>4
  <2>4. \A i \in 1 .. Len(e) :
          e[i].kind = "snapshot" /\ s.c.table[e[i].to].own /\ ~e[i].cached
            => s.c.table[e[i].to].at <= e[i].val
    BY <1>6, <2>2 DEF Fresh
  <2>5. t.q = e /\ t.c.table = s.c.table
    BY <1>3
  <2> HIDE DEF e
  <2>6. QED
    BY <2>3, <2>4, <2>5 DEF Fresh
<1>14. ErrorsLast(t)
  <2>1. ASSUME NEW i \in 1 .. Len(e), e[i].kind = "error"
        PROVE  /\ e[i].to \notin s.c.on \ who
               /\ \A j \in 1 .. Len(e) : i < j => e[j].to # e[i].to
    <3>1. CASE i <= m
      <4>1. i \in 1 .. m /\ e[i] = s.q[i] /\ e[i].to \notin s.c.on
        BY <1>4, <2>1, <3>1 DEF Sound, ErrorsLast
      <4>2. ASSUME NEW j \in 1 .. Len(e), i < j
            PROVE  e[j].to # e[i].to
        <5>1. CASE j <= m
          BY <1>4, <2>1, <4>1, <4>2, <5>1 DEF Sound, ErrorsLast
        <5>2. CASE ~(j <= m)
          BY <1>5, <4>1, <5>2
        <5>3. QED
          BY <5>1, <5>2
      <4>3. QED
        BY <4>1, <4>2
    <3>2. CASE ~(i <= m)
      <4>1. e[i].to \in who /\ m < i
        BY <1>4, <1>5, <3>2
      <4>2. QED
        BY <1>1, <4>1 DEF Tells
    <3>3. QED
      BY <3>1, <3>2
  <2>2. QED
    BY <1>3, <2>1 DEF ErrorsLast
<1>15. Quieted(t)
  <2>1. ASSUME NEW l \in 1 .. MaxListen, answers[l] # <<>>, l \notin muted
        PROVE  l \notin s.c.on /\ \A i \in 1 .. Len(e) : e[i].to # l
    <3>1. l \notin s.c.on /\ \A i \in 1 .. m : s.q[i].to # l
      BY <2>1 DEF Sound, Quieted
    <3>2. ASSUME NEW i \in 1 .. Len(e)
          PROVE  e[i].to # l
      BY <1>4, <1>5, <3>1
    <3>3. QED
      BY <3>1, <3>2
  <2>2. QED
    BY <1>3, <2>1 DEF Sound, Quieted
<1>16. QED
  BY <1>3, <1>7, <1>9, <1>10, <1>12, <1>13, <1>14, <1>15 DEF Sound, t

LEMMA TargetErrorInv ==
    ASSUME ConstantsAssumption, IInv, NEW q \in Queries, TargetError(q)
    PROVE  IInv'
<1> DEFINE s == UpdateState(State, "Online")
           who == {l \in c.on : c.table[l].query = q}
           t == Dropped(s, who, q)
<1>1. /\ Becomes(t) /\ UNCHANGED <<server, muted, removing, answers>>
      /\ faults' \in 0 .. MaxFault /\ c.since[q] # UNKNOWN
  <2>1. Becomes(t)
    BY Zenon DEF TargetError, Dropped
  <2>2. /\ UNCHANGED <<server, muted, removing, answers>> /\ c.since[q] # UNKNOWN
        /\ faults < MaxFault /\ faults' = faults + 1
    BY Zenon DEF TargetError
  <2> HIDE DEF t
  <2>3. faults' \in 0 .. MaxFault
    BY <2>2 DEF IInv, ConstantsAssumption
  <2>4. QED
    BY <2>1, <2>2, <2>3
<1>2. "Online" \in Onlines
  BY DEF Onlines
<1>3. /\ Sound(s) /\ SameStream(State, s) /\ SameListeners(State, s)
      /\ s.c.online = "Online" /\ s.c.failures = 0 /\ s.c.timer = FALSE
  BY <1>2, StateSettled, UpdateStateSound
<1> HIDE DEF s
<1>4. /\ who \in SUBSET s.c.on
      /\ \A l \in s.c.on : l \in who <=> s.c.table[l].query = q
  BY <1>3, StateFields DEF SameListeners
<1> HIDE DEF who
<1>5. /\ Sound(t) /\ SameTracker(s, t) /\ t.c.online = s.c.online
      /\ t.c.stream = s.c.stream /\ t.c.idle = s.c.idle
      /\ t.c.targets = s.c.targets \ {q}
      /\ t.c.since = [s.c.since EXCEPT ![q] = UNKNOWN]
      /\ t.c.table = s.c.table /\ t.c.on = s.c.on \ who
      /\ Listened(t) = Listened(s) \ {q}
  BY <1>3, <1>4, DroppedSound
<1> HIDE DEF t
<1>6. c.stream = "open"
  BY <1>1, StateSettled DEF Watched
<1>7. /\ t.c.online = "Online" /\ t.c.failures = 0 /\ t.c.timer = FALSE
      /\ t.c.stream = "open" /\ t.c.idle = c.idle /\ t.c.targets = c.targets \ {q}
      /\ t.c.since = [c.since EXCEPT ![q] = UNKNOWN]
      /\ t.c.table = c.table /\ t.c.on \subseteq c.on
  BY <1>3, <1>5, <1>6, StateFields DEF SameTracker, SameStream, SameListeners
<1>8. Steady(t)
  BY <1>7 DEF Steady
<1>9. Listened(t) = Listened(State) \ {q}
  BY <1>3, <1>5, ListenedTo
<1>10. \A p \in Queries : t.c.since[p] = IF p = q THEN UNKNOWN ELSE c.since[p]
  BY <1>7, StateSettled DEF Client
<1>11. Watched(t)
  BY <1>6, <1>7, <1>9, <1>10, StateSettled DEF Watched, IsStarted
<1>12. Asked(t)
  <2>1. \A l \in c.on : c.table[l].query \in Queries
    BY StateSettled, ViewOf DEF Sound
  <2>2. QED
    BY <1>7, <1>10, <2>1, StateSettled DEF Asked
<1>13. Settled(t)
  BY <1>5, <1>8, <1>11, <1>12 DEF Settled
<1>14. c' = t.c /\ mainq' = t.q /\ c'.table = c.table
  BY <1>1, <1>7, BecomesIs
<1>15. QED
  BY <1>1, <1>13, <1>14, WorkerStep

-----------------------------------------------------------------------------
(* The invariant: the listeners.                                           *)

(* A listener is made: the first of its query makes the view, too.         *)
Added(s, listener) ==
    [s EXCEPT !.c.table = Append(@, listener), !.c.on = @ \cup {Len(s.c.table) + 1}]
FirstView(s, q) ==
    [s.c.view EXCEPT ![q] = [val |-> s.c.cache[q], synced |-> FALSE]]

LEMMA AddedFields ==
    ASSUME ConstantsAssumption, NEW s \in Sys, NEW listener \in Listener,
           Len(s.c.table) < MaxListen
    PROVE  LET r == Added(s, listener) IN
           /\ r \in Sys /\ r.q = s.q /\ r.c.view = s.c.view /\ r.c.cache = s.c.cache
           /\ SameStream(s, r) /\ SameTracker(s, r) /\ r.c.online = s.c.online
           /\ r.c.on = s.c.on \cup {Len(s.c.table) + 1}
           /\ r.c.table = Append(s.c.table, listener)
           /\ Len(s.c.table) \in Nat /\ Len(r.c.table) = Len(s.c.table) + 1
           /\ \A i \in 1 .. Len(s.c.table) : r.c.table[i] = s.c.table[i]
           /\ r.c.table[Len(s.c.table) + 1] = listener
<1> DEFINE table == Append(s.c.table, listener)
           on == s.c.on \cup {Len(s.c.table) + 1}
           d == [s.c EXCEPT !.table = table, !.on = on]
           r == Added(s, listener)
<1>1. s.c \in Client /\ s.c.table \in Seq(Listener)
  BY DEF Sys, Client
<1>2. /\ table \in Seq(Listener) /\ Len(s.c.table) \in Nat /\ Len(table) = Len(s.c.table) + 1
      /\ \A i \in 1 .. Len(s.c.table) : table[i] = s.c.table[i]
      /\ table[Len(s.c.table) + 1] = listener
  BY <1>1, OneMore
<1>3. on \in SUBSET (1 .. MaxListen)
  BY <1>1, <1>2 DEF Client, ConstantsAssumption
<1>4. r = [s EXCEPT !.c.table = table, !.c.on = on]
  BY DEF Added
<1> HIDE DEF table, on, r
<1>5. s = [c |-> s.c, q |-> s.q]
  BY DEF Sys
<1>6. r.c = d /\ r.q = s.q /\ r = [c |-> r.c, q |-> r.q]
  BY <1>1, <1>4, <1>5 DEF Client
<1>7. d \in Client
  BY <1>1, <1>2, <1>3 DEF Client
<1>8. /\ d.on = on /\ d.table = table /\ d.view = s.c.view
      /\ d.cache = s.c.cache /\ d.stream = s.c.stream /\ d.idle = s.c.idle
      /\ d.targets = s.c.targets /\ d.since = s.c.since
      /\ d.failures = s.c.failures /\ d.timer = s.c.timer /\ d.online = s.c.online
  BY <1>1 DEF Client
<1> HIDE DEF d
<1>9. r \in Sys /\ s.q \in Seq(Events)
  BY <1>6, <1>7 DEF Sys
<1>10. QED
  BY <1>2, <1>6, <1>8, <1>9 DEF r, table, on, SameStream, SameTracker

(* The views after a listener was added fit the listeners.                 *)
LEMMA AddedSound ==
    ASSUME ConstantsAssumption, NEW s, Sound(s), NEW listener \in Listener,
           Len(s.c.table) < MaxListen,
           NEW views \in [Queries -> [val : Version \cup {UNKNOWN}, synced : BOOLEAN]
                                     \cup {NoView}],
           views[listener.query] # NoView,
           views[listener.query].val = s.c.cache[listener.query],
           ~(listener.own /\ views[listener.query].synced),
           \A p \in Queries : views[p] = s.c.view[p] \/ (p = listener.query /\ ~views[p].synced)
    PROVE  Sound([Added(s, listener) EXCEPT !.c.view = views])
<1> DEFINE a == Added(s, listener)
           r == [a EXCEPT !.c.view = views]
           n == Len(s.c.table)
           l == n + 1
<1>1. s \in Sys /\ s.c \in Client
  BY DEF Sound, Sys
<1>2. /\ a \in Sys /\ a.q = s.q /\ a.c.cache = s.c.cache /\ a.c.on = s.c.on \cup {l}
      /\ n \in Nat /\ Len(a.c.table) = l
      /\ \A i \in 1 .. n : a.c.table[i] = s.c.table[i]
      /\ a.c.table[l] = listener
  BY <1>1, AddedFields
<1> HIDE DEF a
<1>3. /\ r \in Sys /\ r.q = s.q /\ r.c.cache = s.c.cache /\ r.c.view = views
      /\ r.c.on = s.c.on \cup {l} /\ r.c.table = a.c.table
  BY <1>2 DEF Sys, Client
<1> HIDE DEF r
<1>4. /\ s.c.on \subseteq 1 .. n /\ \A i \in 1 .. Len(s.q) : s.q[i].to \in 1 .. n
      /\ Len(r.c.table) = l /\ r.c.table[l] = listener
      /\ \A i \in 1 .. n : r.c.table[i] = s.c.table[i] /\ i # l
  BY <1>2, <1>3 DEF Sound, Known
<1>5. Known(r)
  <2>1. l <= MaxListen /\ l \in 1 .. l /\ \A i \in 1 .. n : i \in 1 .. l
    BY <1>2 DEF ConstantsAssumption
  <2>2. r.c.on \subseteq 1 .. l
    BY <1>3, <1>4, <2>1
  <2>3. \A i \in 1 .. Len(r.q) : r.q[i].to \in 1 .. l
    BY <1>3, <1>4, <2>1
  <2>4. QED
    BY <1>4, <2>1, <2>2, <2>3 DEF Known
<1>6. \A k \in s.c.on : r.c.table[k] = s.c.table[k] /\ s.c.table[k].query \in Queries
  BY <1>1, <1>4, ViewOf DEF Sound
<1>7. listener.query \in Queries
  BY DEF Listener
<1>8. Viewed(r)
  <2>1. Listened(r) = Listened(s) \cup {listener.query}
    <3>1. \A k \in r.c.on : k \in s.c.on \/ k = l
      BY <1>3
    <3>2. s.c.on \subseteq r.c.on /\ l \in r.c.on
      BY <1>3
    <3>3. ASSUME NEW p \in Listened(r) PROVE p \in Listened(s) \cup {listener.query}
      <4>1. PICK k \in r.c.on : p = r.c.table[k].query
        BY <3>3 DEF Listened
      <4>2. CASE k \in s.c.on
        BY <1>6, <4>1, <4>2 DEF Listened
      <4>3. CASE k = l
        BY <1>4, <4>1, <4>3
      <4>4. QED
        BY <3>1, <4>2, <4>3
    <3>4. ASSUME NEW p \in Listened(s) PROVE p \in Listened(r)
      BY <1>6, <3>2 DEF Listened
    <3>5. listener.query \in Listened(r)
      BY <1>4, <3>2 DEF Listened
    <3>6. QED
      BY <3>3, <3>4, <3>5
  <2>2. Listened(s) = {p \in Queries : s.c.view[p] # NoView}
    BY DEF Sound, Viewed, Listened
  <2>3. ASSUME NEW p \in Queries
        PROVE  /\ views[p] # NoView <=> (s.c.view[p] # NoView \/ p = listener.query)
               /\ views[p] # NoView => views[p].val = s.c.cache[p]
    BY <2>3 DEF Sound, Viewed
  <2>4. {p \in Queries : r.c.view[p] # NoView} = Listened(r)
    BY <1>3, <1>7, <2>1, <2>2, <2>3
  <2>5. QED
    BY <1>3, <2>3, <2>4 DEF Viewed, Listened
<1>9. \A p : Cached(r.c, p) = Cached(s.c, p)
  BY <1>3 DEF Cached
<1>10. \A i \in 1 .. Len(s.q) : r.c.table[s.q[i].to] = s.c.table[s.q[i].to]
  BY <1>4
<1>11. Ordered(r)
  <2>1. Ordered(s)
    BY DEF Sound
  <2>2. \A i \in 1 .. Len(s.q) : s.q[i].kind = "snapshot" =>
          s.q[i].val <= Cached(r.c, r.c.table[s.q[i].to].query)
    BY <1>9, <1>10, <2>1 DEF Ordered
  <2>3. ASSUME NEW i \in 1 .. Len(s.q), NEW j \in 1 .. Len(s.q), i < j,
               s.q[i].kind = "snapshot", s.q[j].kind = "snapshot",
               r.c.table[s.q[i].to].query = r.c.table[s.q[j].to].query
        PROVE  s.q[i].val <= s.q[j].val
    <3>1. s.c.table[s.q[i].to].query = s.c.table[s.q[j].to].query
      BY <1>10, <2>3
    <3>2. QED
      BY <2>1, <2>3, <3>1, Zenon DEF Ordered
  <2>4. QED
    BY <1>3, <2>2, <2>3 DEF Ordered
<1>12. Fresh(r)
  <2>1. ASSUME NEW k \in r.c.on, r.c.table[k].own, views[r.c.table[k].query].synced
        PROVE  r.c.table[k].at <= views[r.c.table[k].query].val
    <3>1. CASE k \in s.c.on
      <4>1. /\ r.c.table[k] = s.c.table[k]
            /\ views[s.c.table[k].query] = s.c.view[s.c.table[k].query]
        BY <1>6, <2>1, <3>1
      <4>2. QED
        BY <2>1, <3>1, <4>1 DEF Sound, Fresh
    <3>2. CASE k = l
      BY <1>4, <2>1, <3>2
    <3>3. QED
      BY <1>3, <3>1, <3>2
  <2>2. \A i \in 1 .. Len(s.q) :
          s.q[i].kind = "snapshot" /\ r.c.table[s.q[i].to].own /\ ~s.q[i].cached
            => r.c.table[s.q[i].to].at <= s.q[i].val
    BY <1>10 DEF Sound, Fresh
  <2>3. QED
    BY <1>3, <2>1, <2>2 DEF Fresh
<1>13. ErrorsLast(r)
  BY <1>3, <1>4 DEF Sound, ErrorsLast
<1>14. Quieted(r)
  BY <1>2, <1>3, <1>4 DEF Sound, Quieted
<1>15. QED
  BY <1>3, <1>5, <1>8, <1>11, <1>12, <1>13, <1>14 DEF Sound, r, a

(* The notes about what was answered survive a new listener.               *)
LEMMA RepliedGrows ==
    ASSUME ConstantsAssumption, IInv, NEW listener \in Listener,
           Len(c.table) < MaxListen,
           c'.table = Append(c.table, listener), UNCHANGED <<muted, removing, answers>>
    PROVE  Replied'
<1>1. c.table \in Seq(Listener)
  BY StateSettled DEF Client
<1>2. /\ Len(c.table) \in Nat /\ Len(c'.table) = Len(c.table) + 1
      /\ c'.table \in Seq(Listener)
      /\ \A i \in 1 .. Len(c.table) : c'.table[i] = c.table[i]
  BY <1>1, OneMore
<1>3. muted' \subseteq 1 .. Len(c'.table) /\ removing' \subseteq muted'
  BY <1>2 DEF IInv, Replied
<1>4. answers' \in [1 .. MaxListen -> Seq(Answers)] /\ AnsweredOnce'
  BY DEF IInv, Replied, AnsweredOnce
<1>5. FreshGet'
  <2>1. DOMAIN c.table = 1 .. Len(c.table) /\ DOMAIN c'.table = 1 .. Len(c'.table)
    BY <1>1, <1>2, LenProperties
  <2>2. ASSUME NEW l \in DOMAIN c'.table, NEW i \in DOMAIN answers[l]
        PROVE  c'.table[l].own /\ answers[l][i].result = "document" /\ ~answers[l][i].cached
                 => answers[l][i].val >= c'.table[l].at
    <3>1. CASE l \in 1 .. Len(c.table)
      BY <1>2, <2>1, <2>2, <3>1 DEF IInv, Replied, FreshGet
    <3>2. CASE l = Len(c.table) + 1
      <4>1. Len(c.table) + 1 \notin 1 .. Len(c.table)
        BY <1>2
      <4>2. l \in 1 .. MaxListen => answers[l] = <<>>
        BY <3>2, <4>1, StateSettled DEF Sound, Quieted
      <4>3. l \in 1 .. MaxListen
        BY <1>2, <3>2 DEF ConstantsAssumption
      <4>4. QED
        BY <2>2, <4>2, <4>3
    <3>3. QED
      BY <1>2, <2>1, <3>1, <3>2
  <2>3. QED
    BY <2>2 DEF FreshGet
<1>6. QED
  BY <1>3, <1>4, <1>5 DEF Replied

LEMMA AddQueryListenerInv ==
    ASSUME ConstantsAssumption, IInv, NEW q \in Queries, NEW get \in BOOLEAN,
           AddQueryListener(q, get)
    PROVE  IInv'
<1> DEFINE l == Len(c.table) + 1
           first == c.view[q] = NoView
           listener == [query |-> q, get |-> get, at |-> server[q], own |-> first]
           v == [val |-> c.cache[q], synced |-> FALSE]
           s == Added(State, listener)
           views == IF first THEN [c.view EXCEPT ![q] = v] ELSE c.view
           u == OnViewSnapshots(s, [c.view EXCEPT ![q] = v])
           who == {k \in {l} : ShouldRaiseInitialEvent(listener, c.view[q], c.online)}
           t == IF first THEN Listen(u, q) ELSE Raise(s, who, "snapshot")
<1>1. /\ Len(c.table) < MaxListen /\ UNCHANGED <<server, muted, removing, answers, faults>>
      /\ Becomes(t)
  <2>1. [State EXCEPT !.c.table = Append(@, listener), !.c.on = @ \cup {l}] = s
    BY StateFields DEF Added
  <2> HIDE DEF s
  <2>2. Then(u, LAMBDA x : Listen(x, q)) = Listen(u, q)
    <3> HIDE DEF u
    <3>1. Then(u, LAMBDA x : Listen(x, q)) = CHOOSE y \in {Listen(x, q) : x \in {u}} : TRUE
      BY DEF Then
    <3>2. {Listen(x, q) : x \in {u}} = {Listen(u, q)}
      OBVIOUS
    <3>3. QED
      BY <3>1, <3>2, Single
  <2>3. Becomes(IF first THEN Then(u, LAMBDA x : Listen(x, q)) ELSE Raise(s, who, "snapshot"))
    BY <2>1 DEF AddQueryListener
  <2>4. QED
    BY <2>2, <2>3 DEF AddQueryListener
<1>2. server \in [Queries -> Version] /\ server[q] \in Version
  BY DEF IInv
<1>3. /\ listener \in Listener /\ listener.query = q /\ listener.at = server[q]
      /\ listener.own = first
  BY <1>2 DEF Listener
<1> HIDE DEF listener
<1>4. /\ c.cache[q] \in Version \cup {UNKNOWN}
      /\ c.view \in [Queries -> [val : Version \cup {UNKNOWN}, synced : BOOLEAN] \cup {NoView}]
  BY StateSettled DEF Client
<1>5. /\ v \in [val : Version \cup {UNKNOWN}, synced : BOOLEAN] /\ v # NoView
      /\ v.val = c.cache[q] /\ ~v.synced
  BY <1>4 DEF NoView, Version, UNKNOWN, ConstantsAssumption
<1> HIDE DEF v
<1>6. /\ views \in [Queries -> [val : Version \cup {UNKNOWN}, synced : BOOLEAN] \cup {NoView}]
      /\ views[q] # NoView /\ views[q].val = c.cache[q] /\ ~(first /\ views[q].synced)
      /\ \A p \in Queries : views[p] = c.view[p] \/ (p = q /\ ~views[p].synced)
  <2>1. CASE first
    <3>1. views = [c.view EXCEPT ![q] = v]
      BY <2>1
    <3> HIDE DEF views, first
    <3>2. views \in [Queries -> [val : Version \cup {UNKNOWN}, synced : BOOLEAN] \cup {NoView}]
      BY <1>4, <1>5, <3>1
    <3>3. \A p \in Queries : views[p] = IF p = q THEN v ELSE c.view[p]
      BY <1>4, <3>1
    <3>4. views[q] = v
      BY <3>3
    <3>5. ~views[q].synced
      BY <1>5, <3>4, Zenon
    <3>6. \A p \in Queries : views[p] = c.view[p] \/ (p = q /\ ~views[p].synced)
      BY <3>3, <3>5
    <3>7. views[q] # NoView /\ views[q].val = c.cache[q]
      BY <1>5, <3>4
    <3>8. QED
      BY <3>2, <3>5, <3>6, <3>7
  <2>2. CASE ~first
    <3>1. views = c.view
      BY <2>2
    <3>2. c.view[q] # NoView /\ c.view[q].val = c.cache[q]
      BY <2>2, StateSettled DEF Sound, Viewed
    <3> HIDE DEF views, first
    <3>3. views \in [Queries -> [val : Version \cup {UNKNOWN}, synced : BOOLEAN] \cup {NoView}]
      BY <1>4, <3>1
    <3>4. \A p \in Queries : views[p] = c.view[p]
      BY <3>1
    <3>5. views[q] # NoView /\ views[q].val = c.cache[q]
      BY <3>1, <3>2, Zenon
    <3>6. ~(first /\ views[q].synced)
      BY <2>2
    <3>7. \A p \in Queries : views[p] = c.view[p] \/ (p = q /\ ~views[p].synced)
      BY <3>4
    <3>8. QED
      BY <3>3, <3>5, <3>6, <3>7
  <2>3. QED
    BY <2>1, <2>2
<1>7. Sound([s EXCEPT !.c.view = views])
  BY <1>1, <1>3, <1>6, StateSettled, AddedSound
<1>8. /\ s \in Sys /\ s.q = mainq /\ s.c.view = c.view /\ s.c.cache = c.cache
      /\ SameStream(State, s) /\ SameTracker(State, s) /\ s.c.online = c.online
      /\ s.c.on = c.on \cup {l} /\ s.c.table = Append(c.table, listener)
      /\ Len(c.table) \in Nat /\ Len(s.c.table) = l
      /\ \A i \in 1 .. Len(c.table) : s.c.table[i] = c.table[i]
      /\ s.c.table[l] = listener
  BY <1>1, <1>3, StateSettled, AddedFields
<1> HIDE DEF s
<1>9. Steady(s)
  BY <1>8, StateSettled DEF Steady, SameStream, SameTracker, IsStarted
<1>10. /\ c.on \subseteq 1 .. Len(c.table)
       /\ \A k \in c.on : s.c.table[k] = c.table[k] /\ c.table[k].query \in Queries
  BY <1>8, StateSettled, ViewOf DEF Sound, Known
<1>11. Listened(s) = Listened(State) \cup {q}
  <2>1. ASSUME NEW p \in Listened(s) PROVE p \in Listened(State) \cup {q}
    <3>1. PICK k \in s.c.on : p = s.c.table[k].query
      BY <2>1 DEF Listened
    <3>2. CASE k \in c.on
      BY <1>10, <3>1, <3>2, StateFields DEF Listened
    <3>3. CASE k = l
      BY <1>3, <1>8, <3>1, <3>3
    <3>4. QED
      BY <1>8, <3>2, <3>3
  <2>2. ASSUME NEW p \in Listened(State) PROVE p \in Listened(s)
    BY <1>8, <1>10, <2>2, StateFields DEF Listened
  <2>3. l \in s.c.on /\ s.c.table[l].query = q
    BY <1>3, <1>8
  <2>4. q \in Listened(s)
    BY <2>3 DEF Listened
  <2>5. QED
    BY <2>1, <2>2, <2>4
<1>12. q \in Listened(State) <=> ~first
  BY StateSettled DEF Sound, Viewed, Listened
<1>13. \A k \in 1 .. Len(s.c.table) : s.c.table[k].at <= server[s.c.table[k].query]
  <2>1. ASSUME NEW k \in 1 .. Len(s.c.table)
        PROVE  s.c.table[k].at <= server[s.c.table[k].query]
    <3>1. CASE k \in 1 .. Len(c.table)
      BY <1>8, <3>1, StateSettled DEF Asked
    <3>2. CASE k = l
      <4>1. server[q] <= server[q]
        BY <1>2 DEF Version, ConstantsAssumption
      <4>2. QED
        BY <1>3, <1>8, <3>2, <4>1
    <3>3. QED
      BY <1>8, <3>1, <3>2
  <2>2. QED
    BY <2>1
<1>14. Settled(t) /\ t.c.table = s.c.table
  <2>1. CASE first
    <3>1. Sound(u) /\ SameStream(s, u) /\ SameListeners(s, u) /\ SameTracker(s, u)
          /\ u.c.online = s.c.online
      <4>1. views = [c.view EXCEPT ![q] = v]
        BY <2>1
      <4> HIDE DEF views
      <4>2. u = OnViewSnapshots(s, views)
        BY <4>1
      <4> HIDE DEF u
      <4>3. QED
        BY <1>7, <1>8, <4>2, OnViewSnapshotsSound
    <3>2. t = Listen(u, q)
      BY <2>1
    <3> HIDE DEF u, t, views
    <3>3. Steady(u)
      BY <1>9, <3>1 DEF Steady, SameStream, SameTracker, IsStarted
    <3>4. u.c.idle => u.c.stream = "open"
      BY <1>8, <3>1, StateSettled DEF SameStream, Watched
    <3>5. /\ Sound(t) /\ SameListeners(u, t) /\ Steady(t) /\ IsStarted(t)
          /\ t.c.targets = u.c.targets \cup {q} /\ t.c.idle = FALSE
          /\ IF u.c.stream = "open"
             THEN t.c.stream = "open" /\ t.c.since = [u.c.since EXCEPT ![q] = server[q]]
             ELSE t.c.stream # "open" /\ t.c.since = u.c.since
      BY <1>2, <3>1, <3>2, <3>3, <3>4, ListenSound
    <3>6. /\ t.c.targets = c.targets \cup {q} /\ t.c.table = s.c.table /\ t.c.on = s.c.on
          /\ IF c.stream = "open"
             THEN t.c.stream = "open" /\ t.c.since = [c.since EXCEPT ![q] = server[q]]
             ELSE t.c.stream # "open" /\ t.c.since = c.since
      BY <1>8, <3>1, <3>5, StateFields DEF SameStream, SameListeners
    <3>7. c.since \in [Queries -> Version \cup {UNKNOWN}] /\ server[q] # UNKNOWN
      BY <1>2, StateSettled DEF Client, Version, UNKNOWN, ConstantsAssumption
    <3>8. /\ \A p \in Queries : c.since[p] # UNKNOWN <=> p \in c.targets /\ c.stream = "open"
          /\ c.targets = Listened(State)
      BY StateSettled DEF Watched
    <3>9. Watched(t)
      <4>1. Listened(t) = Listened(s)
        BY <3>6 DEF Listened
      <4>2. t.c.targets = Listened(t)
        BY <1>11, <3>6, <3>8, <4>1
      <4>3. \A p \in Queries : t.c.since[p] # UNKNOWN <=> p \in t.c.targets /\ t.c.stream = "open"
        BY <3>6, <3>7, <3>8
      <4>4. QED
        BY <3>5, <4>2, <4>3 DEF Watched
    <3>10. Asked(t)
      <4>1. ASSUME NEW k \in s.c.on, s.c.table[k].own, t.c.since[s.c.table[k].query] # UNKNOWN
            PROVE  s.c.table[k].at <= t.c.since[s.c.table[k].query]
        <5>1. CASE k \in c.on
          <6>1. c.table[k].query # q
            BY <1>12, <2>1, <5>1, StateFields DEF Listened
          <6>2. t.c.since[c.table[k].query] = c.since[c.table[k].query]
            BY <1>10, <3>6, <3>7, <5>1, <6>1
          <6>3. QED
            BY <1>10, <4>1, <5>1, <6>2, StateSettled DEF Asked
        <5>2. CASE k = l
          <6>1. s.c.table[k].query = q /\ s.c.table[k].at = server[q]
            BY <1>3, <1>8, <5>2
          <6>2. c.since[q] = UNKNOWN
            BY <1>12, <2>1, <3>8
          <6>3. t.c.since[q] = server[q]
            BY <3>6, <3>7, <4>1, <6>1, <6>2
          <6>4. server[q] <= server[q]
            BY <1>2 DEF Version, ConstantsAssumption
          <6>5. QED
            BY <6>1, <6>3, <6>4
        <5>3. QED
          BY <1>8, <5>1, <5>2
      <4>2. QED
        BY <1>13, <3>6, <4>1 DEF Asked
    <3>11. QED
      BY <3>5, <3>6, <3>9, <3>10 DEF Settled
  <2>2. CASE ~first
    <3>1. Sound(s)
      <4>1. views = c.view
        BY <2>2
      <4> HIDE DEF views
      <4> DEFINE r == [s EXCEPT !.c.view = views]
      <4>2. s.q = r.q /\ Alike(r, s)
        BY <1>8, <4>1 DEF Sys, Client, Alike
      <4> HIDE DEF r
      <4>3. Sound(r)
        BY <1>7 DEF r
      <4>4. QED
        BY <1>8, <4>2, <4>3, SoundAlike
    <3>2. t = Raise(s, who, "snapshot") /\ who \in SUBSET s.c.on
      BY <1>8, <2>2
    <3> HIDE DEF t, who, u, views
    <3>3. Sound(t) /\ t.c = [s.c EXCEPT !.raised = @ \cup who]
      BY <3>1, <3>2, RaiseSound
    <3>4. /\ SameStream(s, t) /\ SameTracker(s, t) /\ t.c.online = s.c.online
          /\ t.c.table = s.c.table /\ t.c.on = s.c.on
      BY <1>8, <3>3 DEF Sys, Client, SameStream, SameTracker
    <3>5. Steady(t)
      BY <1>9, <3>4 DEF Steady, SameStream, SameTracker, IsStarted
    <3>6. Watched(t)
      <4>1. Listened(t) = Listened(State)
        <5>1. Listened(t) = Listened(s)
          BY <3>4 DEF Listened
        <5>2. QED
          BY <1>11, <1>12, <2>2, <5>1
      <4>2. QED
        BY <1>8, <3>4, <4>1, StateSettled DEF Watched, SameStream, IsStarted
    <3>7. Asked(t)
      <4>1. ASSUME NEW k \in s.c.on, s.c.table[k].own, c.since[s.c.table[k].query] # UNKNOWN
            PROVE  s.c.table[k].at <= c.since[s.c.table[k].query]
        <5>1. CASE k \in c.on
          BY <1>10, <4>1, <5>1, StateSettled DEF Asked
        <5>2. CASE k = l
          BY <1>3, <1>8, <2>2, <4>1, <5>2
        <5>3. QED
          BY <1>8, <5>1, <5>2
      <4>2. t.c.since = c.since
        BY <1>8, <3>4, StateFields DEF SameStream
      <4>3. QED
        BY <1>13, <3>4, <4>1, <4>2 DEF Asked
    <3>8. QED
      BY <3>3, <3>4, <3>5, <3>6, <3>7 DEF Settled
  <2>3. QED
    BY <2>1, <2>2
<1> HIDE DEF t
<1>15. c' = t.c /\ mainq' = t.q
  BY <1>1, BecomesIs
<1>16. Settled(State)'
  BY <1>1, <1>14, <1>15, SettledNext
<1>17. Replied'
  BY <1>1, <1>3, <1>8, <1>14, <1>15, RepliedGrows
<1>18. QED
  BY <1>1, <1>16, <1>17 DEF IInv

(* A listener leaves, and the view of its query if nobody is left.         *)
LEMMA QuitSound ==
    ASSUME ConstantsAssumption, NEW s, Sound(s), NEW l, NEW r \in Sys, r.q = s.q,
           r.c.table = s.c.table, r.c.cache = s.c.cache, r.c.on = s.c.on \ {l},
           \A p \in Queries : r.c.view[p] \in {s.c.view[p], NoView},
           \A p \in Queries : r.c.view[p] # NoView <=> p \in Listened(r)
    PROVE  Sound(r)
<1>1. \A k \in r.c.on : k \in s.c.on /\ s.c.table[k].query \in Queries
  BY ViewOf DEF Sound
<1>2. Known(r)
  BY DEF Sound, Known
<1>3. Viewed(r)
  <2>1. \A p \in Listened(r) : p \in Queries
    BY <1>1 DEF Listened
  <2>2. {p \in Queries : r.c.view[p] # NoView} = Listened(r)
    BY <2>1
  <2>3. \A p \in Queries : r.c.view[p] # NoView => r.c.view[p].val = r.c.cache[p]
    BY DEF Sound, Viewed
  <2>4. QED
    BY <2>2, <2>3 DEF Viewed, Listened
<1>4. \A p : Cached(r.c, p) = Cached(s.c, p)
  BY DEF Cached
<1>5. Ordered(r)
  BY <1>4 DEF Sound, Ordered
<1>6. Fresh(r)
  <2>1. \A k \in r.c.on : r.c.view[s.c.table[k].query] = s.c.view[s.c.table[k].query]
    BY <1>1 DEF Listened
  <2>2. QED
    BY <1>1, <2>1 DEF Sound, Fresh
<1>7. ErrorsLast(r) /\ Quieted(r)
  BY DEF Sound, ErrorsLast, Quieted
<1>8. QED
  BY <1>2, <1>3, <1>5, <1>6, <1>7 DEF Sound

LEMMA RemoveQueryListenerInv ==
    ASSUME ConstantsAssumption, IInv, NEW l \in removing, RemoveQueryListener(l)
    PROVE  IInv'
<1> DEFINE q == c.table[l].query
           s == [State EXCEPT !.c.on = @ \ {l}]
           r == [s EXCEPT !.c.view[q] = NoView]
           last == l \in c.on /\ \A k \in c.on \ {l} : c.table[k].query # q
           t == IF last THEN StopListening(r, q) ELSE s
<1>1. /\ Becomes(t) /\ removing' = removing \ {l}
      /\ UNCHANGED <<server, muted, answers, faults>>
  BY Zenon DEF RemoveQueryListener
<1>2. q \in Queries
  <2>1. l \in 1 .. Len(c.table)
    BY DEF IInv, Replied
  <2>2. QED
    BY <2>1, StateSettled, ListenerOf
<1>3. /\ s \in Sys /\ s.q = mainq /\ s.c.table = c.table /\ s.c.cache = c.cache
      /\ s.c.on = c.on \ {l} /\ s.c.view = c.view
      /\ SameStream(State, s) /\ SameTracker(State, s) /\ s.c.online = c.online
  BY StateSettled DEF Sys, Client, SameStream, SameTracker
<1> HIDE DEF s
<1>4. /\ r \in Sys /\ r.q = mainq /\ r.c.table = c.table /\ r.c.cache = c.cache
      /\ r.c.on = c.on \ {l} /\ r.c.view = [c.view EXCEPT ![q] = NoView]
      /\ SameStream(s, r) /\ SameTracker(s, r) /\ r.c.online = c.online
  BY <1>2, <1>3 DEF Sys, Client, SameStream, SameTracker
<1> HIDE DEF r
<1>5. /\ \A p \in Queries : c.view[p] # NoView <=> p \in Listened(State)
      /\ \A p \in Queries : r.c.view[p] = IF p = q THEN NoView ELSE c.view[p]
  <2>1. \A p \in Queries : c.view[p] # NoView <=> p \in Listened(State)
    BY StateSettled DEF Sound, Viewed, Listened
  <2>2. QED
    BY <1>4, <2>1, StateSettled DEF Client
<1>6. /\ Listened(s) = Listened(r)
      /\ \A p : p \in Listened(r) => p \in Listened(State)
      /\ \A p : p \in Listened(State) => p = q \/ p \in Listened(r)
  <2>1. Listened(s) = Listened(r)
    BY <1>3, <1>4 DEF Listened
  <2>2. ASSUME NEW p \in Listened(r) PROVE p \in Listened(State)
    BY <1>4, <2>2, StateFields DEF Listened
  <2>3. ASSUME NEW p \in Listened(State), p # q PROVE p \in Listened(r)
    <3>1. PICK k \in c.on : p = c.table[k].query
      BY <2>3, StateFields DEF Listened
    <3>2. k \in r.c.on /\ r.c.table[k].query = p
      BY <1>4, <2>3, <3>1
    <3>3. QED
      BY <3>2 DEF Listened
  <2>4. QED
    BY <2>1, <2>2, <2>3
<1>7. Steady(s) /\ Steady(r)
  <2>1. Steady(s)
    BY <1>3, StateSettled DEF Steady, SameStream, SameTracker, IsStarted
  <2>2. QED
    BY <1>3, <1>4, <2>1 DEF Steady, SameStream, SameTracker, IsStarted
<1>8. \A k \in c.on : c.table[k].query \in Queries
  BY StateSettled, ViewOf DEF Sound
<1>9. CASE last
  <2>1. q \notin Listened(r)
    BY <1>4, <1>9 DEF Listened
  <2>2. Sound(r)
    <3>1. \A p \in Queries : r.c.view[p] \in {State.c.view[p], NoView}
      BY <1>5, StateFields
    <3>2. \A p \in Queries : r.c.view[p] # NoView <=> p \in Listened(r)
      BY <1>5, <1>6, <2>1
    <3>3. QED
      BY <1>4, <3>1, <3>2, StateSettled, QuitSound
  <2>3. t = StopListening(r, q)
    BY <1>9
  <2> HIDE DEF t, q
  <2>4. /\ Sound(t) /\ SameListeners(r, t) /\ Steady(t)
        /\ t.c.targets = r.c.targets \ {q} /\ t.c.stream = r.c.stream
        /\ t.c.since = [r.c.since EXCEPT ![q] = UNKNOWN]
        /\ \/ t.c.idle = r.c.idle
           \/ t.c.targets = {} /\ t.c.stream = "open"
    BY <1>2, <1>7, <2>2, <2>3, StopListeningSound
  <2>5. /\ t.c.targets = c.targets \ {q} /\ t.c.stream = c.stream
        /\ t.c.since = [c.since EXCEPT ![q] = UNKNOWN]
        /\ \/ t.c.idle = c.idle
           \/ t.c.targets = {} /\ t.c.stream = "open"
        /\ t.c.table = c.table /\ t.c.on = c.on \ {l}
    BY <1>3, <1>4, <2>4, StateFields DEF SameStream, SameListeners
  <2>6. \A p \in Queries : t.c.since[p] = IF p = q THEN UNKNOWN ELSE c.since[p]
    BY <2>5, StateSettled DEF Client
  <2>7. c.targets = Listened(State)
    BY StateSettled, StateFields DEF Watched
  <2>8. t.c.targets = Listened(t)
    <3>1. Listened(t) = Listened(r)
      BY <1>4, <2>5 DEF Listened
    <3>2. QED
      BY <1>6, <2>1, <2>5, <2>7, <3>1
  <2>9. Watched(t)
    <3>1. t.c.targets # {} => c.targets # {}
      BY <2>5
    <3>2. QED
      BY <2>5, <2>6, <2>8, <3>1, StateSettled DEF Watched, IsStarted
  <2>10. Asked(t)
    BY <1>8, <2>5, <2>6, StateSettled DEF Asked
  <2>11. Settled(t)
    BY <2>4, <2>9, <2>10 DEF Settled
  <2>12. c' = t.c /\ mainq' = t.q /\ c'.table = c.table
    BY <1>1, <2>5, BecomesIs
  <2>13. faults' \in 0 .. MaxFault /\ removing' \subseteq removing
    BY <1>1 DEF IInv
  <2>14. QED
    BY <1>1, <2>11, <2>12, <2>13, WorkerStep
<1>10. CASE ~last
  <2>1. t = s
    BY <1>10
  <2>2. Listened(s) = Listened(State)
    <3>1. q \in Listened(State) => q \in Listened(r)
      <4>1. CASE l \in c.on
        <5>1. PICK k \in c.on \ {l} : c.table[k].query = q
          BY <1>10, <4>1
        <5>2. QED
          BY <1>4, <5>1 DEF Listened
      <4>2. CASE l \notin c.on
        <5>1. r.c.on = c.on
          BY <1>4, <4>2
        <5>2. QED
          BY <1>4, <5>1, StateFields DEF Listened
      <4>3. QED
        BY <4>1, <4>2
    <3>2. QED
      BY <1>6, <3>1
  <2> HIDE DEF t
  <2>3. Sound(s)
    <3>1. \A p \in Queries : s.c.view[p] \in {State.c.view[p], NoView}
      BY <1>3, StateFields
    <3>2. \A p \in Queries : s.c.view[p] # NoView <=> p \in Listened(s)
      BY <1>3, <1>5, <2>2
    <3>3. QED
      BY <1>3, <3>1, <3>2, StateSettled, QuitSound
  <2>4. Watched(s)
    BY <1>3, <2>2, StateSettled DEF Watched, SameStream, IsStarted
  <2>5. Asked(s)
    BY <1>3, StateSettled DEF Asked, SameStream
  <2>6. Settled(s)
    BY <1>7, <2>3, <2>4, <2>5 DEF Settled
  <2>7. c' = s.c /\ mainq' = s.q /\ c'.table = c.table
    BY <1>1, <1>3, <2>1, BecomesIs
  <2>8. faults' \in 0 .. MaxFault /\ removing' \subseteq removing
    BY <1>1 DEF IInv
  <2>9. QED
    BY <1>1, <2>6, <2>7, <2>8, WorkerStep
<1>11. QED
  BY <1>9, <1>10

-----------------------------------------------------------------------------
(* The invariant: the main queue.                                          *)

LEMMA TailSound ==
    ASSUME ConstantsAssumption, NEW s, Sound(s), s.q # <<>>
    PROVE  LET t == [c |-> s.c, q |-> Tail(s.q)] IN
           /\ t \in Sys /\ Known(t) /\ Viewed(t) /\ Ordered(t) /\ Fresh(t) /\ ErrorsLast(t)
<1> DEFINE t == [c |-> s.c, q |-> Tail(s.q)]
           n == Len(s.q) - 1
<1>1. /\ s \in Sys /\ s.c \in Client /\ s.q \in Seq(Events)
  BY DEF Sound, Sys
<1>2. /\ t.q \in Seq(Events) /\ Len(s.q) \in Nat /\ Len(t.q) = n
      /\ \A i \in 1 .. n : t.q[i] = s.q[i + 1]
  BY <1>1, Rest
<1>3. t \in Sys /\ t.c = s.c
  BY <1>1, <1>2 DEF Sys
<1> HIDE DEF t
<1>4. \A i \in 1 .. n : i + 1 \in 1 .. Len(s.q)
  BY <1>2
<1>5. \A i, j \in 1 .. n : i < j => i + 1 < j + 1
  BY <1>2
<1> HIDE DEF n
<1>6. Known(t) /\ Viewed(t)
  <2>1. Viewed(t)
    BY <1>3 DEF Sound, Viewed
  <2>2. \A i \in 1 .. n : t.q[i].to \in 1 .. Len(s.c.table)
    BY <1>2, <1>4 DEF Sound, Known
  <2>3. Known(t)
    BY <1>2, <1>3, <2>2 DEF Sound, Known
  <2>4. QED
    BY <2>1, <2>3
<1>7. Ordered(t)
  <2>1. Ordered(s)
    BY DEF Sound
  <2>2. ASSUME NEW i \in 1 .. n, t.q[i].kind = "snapshot"
        PROVE  t.q[i].val <= Cached(s.c, s.c.table[t.q[i].to].query)
    BY <1>2, <1>4, <2>1, <2>2 DEF Ordered
  <2>3. ASSUME NEW i \in 1 .. n, NEW j \in 1 .. n, i < j,
               t.q[i].kind = "snapshot", t.q[j].kind = "snapshot",
               s.c.table[t.q[i].to].query = s.c.table[t.q[j].to].query
        PROVE  t.q[i].val <= t.q[j].val
    <3>1. t.q[i] = s.q[i + 1] /\ t.q[j] = s.q[j + 1] /\ i + 1 < j + 1
          /\ i + 1 \in 1 .. Len(s.q) /\ j + 1 \in 1 .. Len(s.q)
      BY <1>2, <1>4, <1>5, <2>3
    <3> DEFINE a == i + 1
               b == j + 1
    <3>2. t.q[i] = s.q[a] /\ t.q[j] = s.q[b] /\ a < b /\ a \in 1 .. Len(s.q) /\ b \in 1 .. Len(s.q)
      BY <3>1
    <3> HIDE DEF a, b
    <3>3. QED
      BY <2>1, <2>3, <3>2 DEF Ordered
  <2>4. QED
    BY <1>2, <1>3, <2>2, <2>3 DEF Ordered
<1>8. Fresh(t)
  BY <1>2, <1>3, <1>4 DEF Sound, Fresh
<1>9. ErrorsLast(t)
  <2>1. ErrorsLast(s)
    BY DEF Sound
  <2>2. ASSUME NEW i \in 1 .. n, t.q[i].kind = "error"
        PROVE  t.q[i].to \notin s.c.on /\ \A j \in 1 .. n : i < j => t.q[j].to # t.q[i].to
    <3>1. i + 1 \in 1 .. Len(s.q) /\ t.q[i] = s.q[i + 1]
      BY <1>2, <1>4
    <3>2. t.q[i].to \notin s.c.on
      BY <2>1, <2>2, <3>1 DEF ErrorsLast
    <3>3. ASSUME NEW j \in 1 .. n, i < j PROVE t.q[j].to # t.q[i].to
      <4>1. i + 1 < j + 1 /\ j + 1 \in 1 .. Len(s.q) /\ t.q[j] = s.q[j + 1]
        BY <1>2, <1>4, <1>5, <3>3
      <4>2. QED
        BY <2>1, <2>2, <3>1, <4>1 DEF ErrorsLast
    <3>4. QED
      BY <3>2, <3>3
  <2>3. QED
    BY <1>2, <1>3, <2>2 DEF ErrorsLast
<1>10. QED
  BY <1>3, <1>6, <1>7, <1>8, <1>9 DEF t

LEMMA RunEventInv ==
    ASSUME ConstantsAssumption, IInv, RunEvent
    PROVE  IInv'
<1> DEFINE e == Head(mainq)
           k == e.to
           result == IF e.kind = "error" THEN "error"
                     ELSE IF e.cached /\ e.val = 0 THEN "unavailable" ELSE "document"
           a == [result |-> result, val |-> e.val, cached |-> e.cached]
           t == [c |-> c, q |-> Tail(mainq)]
<1>1. mainq # <<>> /\ mainq' = Tail(mainq) /\ UNCHANGED <<server, c, faults>>
  BY DEF RunEvent
<1>2. \/ /\ k \notin muted
         /\ IF e.kind = "error" THEN UNCHANGED <<muted, removing>>
            ELSE muted' = muted \cup {k} /\ removing' = removing \cup {k}
         /\ answers' = [answers EXCEPT ![k] = Append(@, a)]
      \/ UNCHANGED <<muted, removing, answers>>
  BY DEF RunEvent, Heard, Remove
<1>3. /\ mainq \in Seq(Events) /\ e = mainq[1] /\ e \in Events
      /\ Len(mainq) \in Nat \ {0} /\ Len(Tail(mainq)) = Len(mainq) - 1
      /\ \A i \in 1 .. Len(mainq) - 1 : Tail(mainq)[i] = mainq[i + 1]
  BY <1>1, StateSettled, Rest DEF Sys
<1>4. 1 \in 1 .. Len(mainq) /\ k \in 1 .. MaxListen /\ k \in 1 .. Len(c.table)
  BY <1>3, StateSettled DEF Sound, Known, Events
<1>5. /\ t \in Sys /\ Known(t) /\ Viewed(t) /\ Ordered(t) /\ Fresh(t) /\ ErrorsLast(t)
  BY <1>1, StateSettled, TailSound
<1>6. /\ State' = t /\ t.c = c /\ t.q = Tail(mainq) /\ State.c = c /\ State.q = mainq
      /\ State'.c = c /\ State'.q = Tail(mainq)
  BY <1>1 DEF State
<1>7. answers \in [1 .. MaxListen -> Seq(Answers)] /\ AnsweredOnce /\ FreshGet
      /\ muted \subseteq 1 .. Len(c.table) /\ removing \subseteq muted
  BY DEF IInv, Replied
<1>8. k \notin muted => answers[k] = <<>>
  BY <1>3, <1>4, <1>6, StateSettled DEF Sound, Quieted
<1>9. a \in Answers /\ a.result = result /\ a.val = e.val /\ a.cached = e.cached
  BY <1>3 DEF Answers, Events
<1> HIDE DEF a, t
<1>10. \/ /\ k \notin muted /\ answers[k] = <<>>
          /\ IF e.kind = "error" THEN UNCHANGED <<muted, removing>>
             ELSE muted' = muted \cup {k} /\ removing' = removing \cup {k}
          /\ answers' \in [1 .. MaxListen -> Seq(Answers)]
          /\ Len(answers'[k]) = 1 /\ DOMAIN answers'[k] = {1} /\ answers'[k][1] = a
          /\ \A l \in 1 .. MaxListen : l # k => answers'[l] = answers[l]
       \/ UNCHANGED <<muted, removing, answers>>
  <2>1. CASE UNCHANGED <<muted, removing, answers>>
    BY <2>1
  <2>2. CASE /\ k \notin muted
             /\ IF e.kind = "error" THEN UNCHANGED <<muted, removing>>
                ELSE muted' = muted \cup {k} /\ removing' = removing \cup {k}
             /\ answers' = [answers EXCEPT ![k] = Append(@, a)]
    <3> DEFINE s == Append(answers[k], a)
    <3>1. answers[k] \in Seq(Answers) /\ answers[k] = <<>>
      BY <1>4, <1>7, <1>8, <2>2
    <3>2. Len(answers[k]) = 0
      BY <3>1, EmptySeq
    <3>3. s \in Seq(Answers) /\ Len(s) = 1 /\ s[1] = a
      BY <1>9, <3>1, <3>2, OneMore
    <3>4. DOMAIN s = {1}
      <4>1. DOMAIN s = 1 .. Len(s)
        BY <3>3, LenProperties
      <4>2. 1 .. 1 = {1}
        OBVIOUS
      <4>3. QED
        BY <3>3, <4>1, <4>2
    <3>5. answers' = [answers EXCEPT ![k] = s]
      BY <2>2
    <3> HIDE DEF s
    <3>6. /\ answers' \in [1 .. MaxListen -> Seq(Answers)] /\ answers'[k] = s
          /\ \A l \in 1 .. MaxListen : l # k => answers'[l] = answers[l]
      BY <1>4, <1>7, <3>3, <3>5
    <3>7. QED
      BY <2>2, <3>1, <3>3, <3>4, <3>6
  <2>3. QED
    BY <1>2, <2>1, <2>2
<1>11. Quieted(State)'
  <2>1. ASSUME NEW l \in 1 .. MaxListen, answers'[l] # <<>>
        PROVE  /\ l \in 1 .. Len(c.table)
               /\ \/ l \in muted'
                  \/ l \notin c.on /\ \A i \in 1 .. Len(mainq) - 1 : Tail(mainq)[i].to # l
    <3>1. \A i \in 1 .. Len(mainq) - 1 :
            i + 1 \in 1 .. Len(mainq) /\ 1 < i + 1 /\ Tail(mainq)[i] = mainq[i + 1]
      BY <1>3
    <3>2. CASE answers[l] # <<>>
      <4>1. muted \subseteq muted'
        BY <1>10
      <4>2. /\ l \in 1 .. Len(c.table)
            /\ l \in muted \/ (l \notin c.on /\ \A i \in 1 .. Len(mainq) : mainq[i].to # l)
        BY <1>6, <3>2, StateSettled DEF Sound, Quieted
      <4>3. QED
        BY <3>1, <4>1, <4>2
    <3>3. CASE answers[l] = <<>>
      <4>1. l = k /\ k \notin muted
        BY <1>10, <2>1, <3>3
      <4>2. CASE e.kind = "error"
        <5>1. ErrorsLast(State)
          BY StateSettled DEF Sound
        <5>2. k \notin c.on /\ \A j \in 1 .. Len(mainq) : 1 < j => mainq[j].to # k
          BY <1>3, <1>4, <1>6, <4>2, <5>1 DEF ErrorsLast
        <5>3. QED
          BY <1>4, <3>1, <4>1, <5>2
      <4>3. CASE e.kind # "error"
        BY <1>4, <1>10, <2>1, <3>3, <4>1, <4>3
      <4>4. QED
        BY <4>2, <4>3
    <3>4. QED
      BY <3>2, <3>3
  <2>2. QED
    BY <1>3, <1>6, <2>1 DEF Quieted
<1>12. Sound(State)'
  <2>1. Known(State)' /\ Viewed(State)' /\ Ordered(State)' /\ Fresh(State)' /\ ErrorsLast(State)'
    BY <1>5, <1>6, PartsNext
  <2>2. QED
    BY <1>5, <1>6, <1>11, <2>1 DEF Sound
<1>13. Steady(State)' /\ Watched(State)' /\ Asked(State)'
  BY <1>1, <1>6, StateSettled DEF Steady, Watched, Listened, Asked, IsStarted
<1>14. Replied'
  <2>1. muted' \subseteq 1 .. Len(c'.table) /\ removing' \subseteq muted'
    BY <1>1, <1>4, <1>7, <1>10
  <2>2. answers' \in [1 .. MaxListen -> Seq(Answers)]
    BY <1>7, <1>10
  <2>3. AnsweredOnce'
    <3>1. ASSUME NEW l \in 1 .. MaxListen PROVE Len(answers'[l]) <= 1
      <4>1. Len(answers[l]) <= 1
        BY <1>7 DEF AnsweredOnce
      <4>2. CASE l = k
        <5>1. Len(answers'[k]) = 1 \/ answers' = answers
          BY <1>10
        <5>2. CASE Len(answers'[k]) = 1
          <6>1. Len(answers'[l]) = 1
            BY <4>2, <5>2
          <6>2. QED
            BY <6>1
        <5>3. CASE answers' = answers
          BY <4>1, <5>3
        <5>4. QED
          BY <5>1, <5>2, <5>3
      <4>3. CASE l # k
        BY <1>10, <4>1, <4>3
      <4>4. QED
        BY <4>2, <4>3
    <3>2. QED
      BY <3>1 DEF AnsweredOnce
  <2>4. FreshGet'
    <3>1. ASSUME NEW l \in DOMAIN c.table, NEW i \in DOMAIN answers'[l],
                 c.table[l].own, answers'[l][i].result = "document", ~answers'[l][i].cached
          PROVE  answers'[l][i].val >= c.table[l].at
      <4>1. l \in 1 .. Len(c.table) /\ l \in 1 .. MaxListen
        <5>1. c.table \in Seq(Listener)
          BY StateSettled DEF Client
        <5>2. DOMAIN c.table = 1 .. Len(c.table) /\ Len(c.table) \in Nat
          BY <5>1, LenProperties
        <5>3. Len(c.table) <= MaxListen
          BY <1>6, StateSettled DEF Sound, Known
        <5>4. QED
          BY <5>2, <5>3 DEF ConstantsAssumption
      <4>2. CASE answers'[l] = answers[l]
        BY <1>7, <3>1, <4>2 DEF FreshGet
      <4>3. CASE answers'[l] # answers[l]
        <5>1. l = k /\ i = 1 /\ answers'[l][i] = a
          BY <1>10, <3>1, <4>1, <4>3
        <5>2. result = "document" /\ ~e.cached
          BY <1>9, <3>1, <5>1, Zenon
        <5>3. e.kind = "snapshot"
          BY <1>3, <5>2 DEF Events
        <5>4. Fresh(State)
          BY StateSettled DEF Sound
        <5>5. c.table[k].at <= e.val
          BY <1>3, <1>4, <1>6, <3>1, <5>1, <5>2, <5>3, <5>4 DEF Fresh
        <5>6. c.table[k].at \in Nat /\ e.val \in Nat
          <6>1. c.table[k].at \in Nat
            BY <1>4, <1>6, StateSettled, ListenerOf
          <6>2. QED
            BY <1>3, <6>1 DEF Events, Version, ConstantsAssumption
        <5>7. QED
          BY <1>9, <5>1, <5>5, <5>6
      <4>4. QED
        BY <4>2, <4>3
    <3>2. QED
      BY <1>1, <3>1 DEF FreshGet
  <2>5. QED
    BY <2>1, <2>2, <2>3, <2>4 DEF Replied
<1>15. QED
  BY <1>1, <1>5, <1>6, <1>12, <1>13, <1>14 DEF IInv, Settled

-----------------------------------------------------------------------------
(* The theorems.                                                           *)

(* A step that changes nothing. *)
LEMMA StutterInv ==
    ASSUME IInv, UNCHANGED vars
    PROVE  IInv'
<1>1. State' = State /\ UNCHANGED <<server, c, mainq, muted, removing, answers, faults>>
  BY DEF State, vars
<1>2. Settled(State)'
  BY <1>1, StateSettled, SettledNext, StateFields
<1>3. Replied'
  BY <1>1, RepliedFrame DEF IInv
<1>4. QED
  BY <1>1, <1>2, <1>3 DEF IInv

LEMMA StepInv ==
    ASSUME ConstantsAssumption, IInv, [Next]_vars
    PROVE  IInv'
<1>1. CASE Next
  <2>1. CASE \E q \in Queries, get \in BOOLEAN : AddQueryListener(q, get)
    BY <2>1, AddQueryListenerInv
  <2>2. CASE \E l \in 1 .. MaxListen : RemoveListener(l)
    BY <2>2, RemoveListenerInv
  <2>3. CASE RunEvent
    BY <2>3, RunEventInv
  <2>4. CASE \E l \in removing : RemoveQueryListener(l)
    BY <2>4, RemoveQueryListenerInv
  <2>5. CASE StreamOpen
    BY <2>5, StreamOpenInv
  <2>6. CASE StartFails \/ StreamBroken
    BY <2>6, StartFailsInv
  <2>7. CASE BackoffElapsed
    BY <2>7, BackoffElapsedInv
  <2>8. CASE IdleTimeout
    BY <2>8, IdleTimeoutInv
  <2>9. CASE OnlineTimeout
    BY <2>9, OnlineTimeoutInv
  <2>10. CASE ConnectivityChange
    BY <2>10, ConnectivityChangeInv
  <2>11. CASE \E q \in Queries : TargetAdded(q)
    BY <2>11, TargetAddedInv
  <2>12. CASE \E q \in Queries : WatchSnapshot(q)
    BY <2>12, WatchSnapshotInv
  <2>13. CASE \E q \in Queries : TargetError(q)
    BY <2>13, TargetErrorInv
  <2>14. CASE \E q \in Queries : ServerChange(q)
    BY <2>14, ServerChangeInv
  <2>15. QED
    BY <1>1, <2>1, <2>2, <2>3, <2>4, <2>5, <2>6, <2>7, <2>8, <2>9, <2>10, <2>11, <2>12,
       <2>13, <2>14 DEF Next, Connect
<1>2. CASE UNCHANGED vars
  BY <1>2, StutterInv
<1>3. QED
  BY <1>1, <1>2

LEMMA Invariance == Spec => []IInv
<1>1. Init => IInv
  BY ConstantsAssumption, InitInv
<1>2. IInv /\ [Next]_vars => IInv'
  BY ConstantsAssumption, StepInv
<1>3. QED
  BY <1>1, <1>2, PTL DEF Spec

(* Every variable has its type, in particular no event on the main queue   *)
(* names a listener that cannot be and no counter leaves its bounds.       *)
THEOREM TypeCorrect == Spec => []TypeOK
<1>1. IInv => TypeOK
  <2>1. SUFFICES ASSUME IInv PROVE TypeOK
    OBVIOUS
  <2>2. c \in Client /\ mainq \in Seq(Events) /\ Len(c.table) <= MaxListen
    BY <2>1, StateSettled DEF Sound, Known, Sys
  <2>3. \A i \in DOMAIN mainq : mainq[i] \in Events
    BY <2>2, LenProperties, ElementOfSeq
  <2>4. muted \subseteq 1 .. MaxListen /\ removing \subseteq muted
    <3>1. Len(c.table) \in Nat
      BY <2>2, LenProperties DEF Client
    <3>2. 1 .. Len(c.table) \subseteq 1 .. MaxListen
      BY <2>2, <3>1, ConstantsAssumption DEF ConstantsAssumption
    <3>3. QED
      BY <2>1, <3>2 DEF IInv, Replied
  <2>5. QED
    BY <2>1, <2>2, <2>3, <2>4 DEF IInv, TypeOK, Events
<1>2. QED
  BY <1>1, Invariance, PTL

(* The assertions of the online state tracker: whatever the order in which *)
(* a broken stream, a start, an answer and the timer come, the timer only  *)
(* runs while the state is Unknown, and an Online client has an open       *)
(* stream and no failures.                                                 *)
THEOREM TrackerConsistentHolds == Spec => []TrackerConsistent
<1>1. IInv => TrackerConsistent
  BY StateSettled DEF Steady, TrackerConsistent
<1>2. QED
  BY <1>1, Invariance, PTL

(* The assertions of RemoteStore: a query is watched exactly while         *)
(* somebody listens to it and has a view then, the stream is on its way    *)
(* whenever a query is watched, and only goes idle when none is.           *)
THEOREM WatchedWhileNeededHolds == Spec => []WatchedWhileNeeded
<1>1. IInv => WatchedWhileNeeded
  <2>1. SUFFICES ASSUME IInv PROVE WatchedWhileNeeded
    OBVIOUS
  <2>2. c.targets = {c.table[l].query : l \in c.on}
    BY <2>1, StateSettled DEF Watched, Listened
  <2>3. {q \in Queries : c.view[q] # NoView} = {c.table[l].query : l \in c.on}
    BY <2>1, StateSettled DEF Sound, Viewed
  <2>4. c.targets = {q \in Queries : c.view[q] # NoView}
    BY <2>2, <2>3
  <2>5. /\ c.targets # {} => IsStarted(State) /\ ~c.idle
        /\ \A q \in Queries : c.since[q] # UNKNOWN <=> q \in c.targets /\ c.stream = "open"
    BY <2>1, StateSettled DEF Watched
  <2>6. QED
    BY <2>2, <2>4, <2>5 DEF WatchedWhileNeeded
<1>2. QED
  BY <1>1, Invariance, PTL

(* A get calls back once at most, although its listener may be raised      *)
(* again before the main queue has run the first event.                    *)
THEOREM AnsweredOnceHolds == Spec => []AnsweredOnce
<1>1. IInv => AnsweredOnce
  BY DEF IInv, Replied
<1>2. QED
  BY <1>1, Invariance, PTL

(* A get that opened its target and is answered by the server is not       *)
(* answered with a document older than the call.                           *)
THEOREM FreshGetHolds == Spec => []FreshGet
<1>1. IInv => FreshGet
  BY DEF IInv, Replied
<1>2. QED
  BY <1>1, Invariance, PTL

(* The main queue never sees a document go back.                           *)
THEOREM MonotonicReadsHolds == Spec => []MonotonicReads
<1>1. IInv => MonotonicReads
  <2>1. SUFFICES ASSUME IInv PROVE MonotonicReads
    OBVIOUS
  <2>2. mainq \in Seq(Events) /\ Ordered(State) /\ State.c = c /\ State.q = mainq
    BY <2>1, StateSettled DEF Sound, Sys
  <2>3. DOMAIN mainq = 1 .. Len(mainq)
    BY <2>2, LenProperties
  <2>4. QED
    BY <2>2, <2>3 DEF Ordered, MonotonicReads
<1>2. QED
  BY <1>1, Invariance, PTL

=============================================================================
