------------------------ MODULE ApplianceDetailProofs ------------------------
(***************************************************************************)
(* Theorems about ApplianceDetail, for any number of visits, lookups and   *)
(* writes: type correctness, one listener for each visit, notifications    *)
(* only of changes, and the power switch on course for the document.       *)
(***************************************************************************)
EXTENDS ApplianceDetail, SequenceTheorems, WellFoundedInduction, TLAPS

-----------------------------------------------------------------------------
(* Lookups are not more than the appearances of the screen. *)
Asked ==
    /\ used["appear"] <= MaxAppear
    /\ \A v \in Visits : asked[v] <= used["appear"]

(* The listener a view model holds is in force and its own, no other of    *)
(* its registrations is in force, and snapshots are for registrations      *)
(* that have been made.                                                    *)
Registered ==
    /\ OneListener
    /\ \A v \in Visits : listener[v] # 0 =>
         listener[v] \in live /\ owner[listener[v]] = v
    /\ \A i \in 1 .. Len(mainq) :
         mainq[i].kind = "snapshot" => owner[mainq[i].reg] # 0

(* While nobody has switched the device, there is one value to be seen. *)
Unswitched ==
    used["auto"] + used["tap"] = 0 =>
      /\ notes = 0
      /\ writes = <<>>
      /\ cache \in {"none", server}
      /\ \A i \in 1 .. Len(mainq) : mainq[i].kind = "snapshot" => mainq[i].val = server
      /\ \A v \in Visits : isOn[v] \in {"nil", server}

(* The snapshots of queue q, at a hop, that will be run for visit v, with  *)
(* the registrations' owners and those in force.                           *)
Due(q, own, lv, h, v) ==
    {i \in 1 .. Len(q) :
       /\ q[i].kind = "snapshot" /\ q[i].hop = h
       /\ own[q[i].reg] = v
       /\ h = 1 => q[i].reg \in lv}

LastIs(q, S, x) == \E i \in S : q[i].val = x /\ \A j \in S : j <= i

(* Visit v will show x when what is due for it has run: Latest without its *)
(* choices.                                                                *)
OnCourse(q, own, lv, on, v, x) ==
    \/ LastIs(q, Due(q, own, lv, 1, v), x)
    \/ /\ Due(q, own, lv, 1, v) = {}
       /\ LastIs(q, Due(q, own, lv, 2, v), x)
    \/ /\ Due(q, own, lv, 1, v) = {} /\ Due(q, own, lv, 2, v) = {}
       /\ on[v] = x

(* Pending updateData calls. *)
Patches == [src : {"detail", "card"}, isOn : Power]

View == LocalView(cache, writes)

Course ==
    \A v \in Visits :
      listener[v] \in Following /\ View # "none" => OnCourse(mainq, owner, live, isOn, v, View)

IInv == TypeOK /\ Asked /\ Registered /\ Unswitched /\ Course

-----------------------------------------------------------------------------
(* Sequences and finite sets of positions.                                 *)

LEMMA Rest ==
    ASSUME NEW S, NEW s \in Seq(S), s # <<>>
    PROVE  /\ Tail(s) \in Seq(S) /\ Head(s) = s[1] /\ s[1] \in S
           /\ Len(s) \in Nat \ {0} /\ Len(Tail(s)) = Len(s) - 1
           /\ \A i \in 1 .. Len(s) - 1 : Tail(s)[i] = s[i + 1]
<1>1. Len(s) \in Nat /\ Len(s) # 0
  BY LenProperties, EmptySeq
<1>2. 1 \in 1 .. Len(s)
  BY <1>1
<1>3. QED
  BY <1>1, <1>2, HeadTailProperties, ElementOfSeq

LEMMA OneMore ==
    ASSUME NEW S, NEW s \in Seq(S), NEW e \in S
    PROVE  /\ Append(s, e) \in Seq(S)
           /\ Len(s) \in Nat /\ Len(Append(s, e)) = Len(s) + 1
           /\ \A i \in 1 .. Len(s) : Append(s, e)[i] = s[i]
           /\ Append(s, e)[Len(s) + 1] = e
BY AppendProperties, LenProperties

LEMMA FunctionIsSeq ==
    ASSUME NEW S, NEW n \in Nat, NEW f \in [1 .. n -> S]
    PROVE  f \in Seq(S) /\ Len(f) = n
<1>1. f \in Seq(S)
  BY SeqDef
<1>2. DOMAIN f = 1 .. Len(f) /\ Len(f) \in Nat
  BY <1>1, LenProperties
<1>3. DOMAIN f = 1 .. n
  OBVIOUS
<1>4. QED
  BY <1>1, <1>2, <1>3

LEMMA Joined ==
    ASSUME NEW S, NEW s \in Seq(S), NEW t \in Seq(S)
    PROVE  /\ s \o t \in Seq(S)
           /\ Len(s) \in Nat /\ Len(s \o t) \in Nat /\ Len(s) <= Len(s \o t)
           /\ \A i \in 1 .. Len(s) : (s \o t)[i] = s[i]
           /\ \A k \in 1 .. Len(t) :
                /\ Len(s) + k \in 1 .. Len(s \o t) /\ Len(s) + k > Len(s)
                /\ (s \o t)[Len(s) + k] = t[k]
           /\ \A i \in 1 .. Len(s \o t) : i > Len(s) =>
                i - Len(s) \in 1 .. Len(t) /\ (s \o t)[i] = t[i - Len(s)]
<1> DEFINE e == s \o t
           m == Len(s)
           n == Len(t)
<1>1. m \in Nat /\ n \in Nat
  BY LenProperties
<1>2. /\ e \in Seq(S) /\ Len(e) = m + n
      /\ \A i \in 1 .. m + n : e[i] = IF i <= m THEN s[i] ELSE t[i - m]
  BY ConcatProperties
<1> HIDE DEF e, m, n
<1>3. m <= m + n /\ m + n \in Nat /\ \A i \in 1 .. m : i \in 1 .. m + n /\ i <= m
  BY <1>1
<1>4. \A k \in 1 .. n : m + k \in 1 .. m + n /\ m + k > m /\ ~(m + k <= m) /\ (m + k) - m = k
  BY <1>1
<1>5. \A i \in 1 .. m + n : i > m => i - m \in 1 .. n /\ ~(i <= m)
  BY <1>1
<1>6. \A i \in 1 .. m : e[i] = s[i]
  BY <1>2, <1>3
<1>7. \A k \in 1 .. n : e[m + k] = t[k]
  BY <1>2, <1>4
<1>8. \A i \in 1 .. m + n : i > m => e[i] = t[i - m]
  BY <1>2, <1>5
<1>9. QED
  BY <1>1, <1>2, <1>3, <1>4, <1>5, <1>6, <1>7, <1>8, Zenon DEF e, m, n

(* A set of natural numbers with an element has a least one. *)
LEMMA Least ==
    ASSUME NEW S \in SUBSET Nat, S # {}
    PROVE  \E m \in S : \A k \in S : m <= k
<1>1. IsWellFoundedOn(OpToRel(<, Nat), Nat)
  BY NatLessThanWellFounded
<1>2. PICK m \in S : \A k \in S : ~(<<k, m>> \in OpToRel(<, Nat))
  BY <1>1, WFMin
<1>3. \A k \in S : ~(k < m)
  BY <1>2 DEF OpToRel
<1>4. QED
  BY <1>3

(* A set of positions with an element has a last one. *)
LEMMA LastOf ==
    ASSUME NEW n \in Nat, NEW S \in SUBSET (1 .. n), S # {}
    PROVE  \E i \in S : \A j \in S : j <= i
<1> DEFINE bounds == {m \in Nat : \A j \in S : j <= m}
<1>1. n \in bounds
  OBVIOUS
<1>2. PICK m \in bounds : \A k \in bounds : m <= k
  <2>1. bounds \in SUBSET Nat /\ bounds # {}
    BY <1>1
  <2> HIDE DEF bounds
  <2>2. QED
    BY <2>1, Least
<1>3. m \in S
  <2>1. SUFFICES ASSUME m \notin S PROVE FALSE
    OBVIOUS
  <2>2. m - 1 \in Nat /\ \A j \in S : j <= m - 1
    <3>1. PICK j \in S : j \in 1 .. n /\ j <= m
      BY <1>2
    <3>2. m \in Nat /\ \A k \in S : k \in Nat /\ k <= m /\ k # m
      BY <1>2, <2>1
    <3>3. QED
      BY <3>1, <3>2
  <2>3. m - 1 \in bounds
    BY <2>2
  <2>4. QED
    BY <1>2, <2>3
<1>4. QED
  BY <1>2, <1>3

(* InOrder lists every registration of a set. *)
LEMMA InOrderLists ==
    ASSUME ConstantsAssumption, NEW regs \in SUBSET Regs
    PROVE  /\ InOrder(regs) \in Seq(regs)
           /\ DOMAIN InOrder(regs) = 1 .. Len(InOrder(regs))
           /\ \A r \in regs : \E i \in 1 .. Len(InOrder(regs)) : InOrder(regs)[i] = r
<1> DEFINE Lists(n, s) ==
      /\ s \in Seq(regs) /\ Len(s) <= n
      /\ \A i \in 1 .. Len(s) : s[i] <= n
      /\ \A r \in regs : r <= n => \E i \in 1 .. Len(s) : s[i] = r
      /\ \A i, j \in 1 .. Len(s) : i < j => s[i] < s[j]
    bad == {n \in Nat : ~ \E s \in Seq(regs) : Lists(n, s)}
<1>1. Lists(0, <<>>)
  BY EmptySeq DEF Regs
<1>2. ASSUME NEW n \in Nat, NEW s \in Seq(regs), Lists(n, s)
      PROVE  \E t \in Seq(regs) : Lists(n + 1, t)
  <2>1. Len(s) \in Nat /\ \A i \in 1 .. Len(s) : s[i] \in regs /\ s[i] \in Nat
    <3>1. Len(s) \in Nat /\ \A i \in 1 .. Len(s) : s[i] \in regs
      BY LenProperties, ElementOfSeq
    <3>2. \A r \in regs : r \in Nat
      BY DEF Regs, ConstantsAssumption
    <3>3. QED
      BY <3>1, <3>2
  <2>2. CASE n + 1 \in regs
    <3> DEFINE t == Append(s, n + 1)
    <3>1. /\ t \in Seq(regs) /\ Len(t) = Len(s) + 1
          /\ \A i \in 1 .. Len(s) : t[i] = s[i]
          /\ t[Len(s) + 1] = n + 1
      BY <2>2, OneMore
    <3> HIDE DEF t
    <3>2. \A i \in 1 .. Len(t) : i \in 1 .. Len(s) \/ i = Len(s) + 1
      BY <2>1, <3>1
    <3>3. \A i \in 1 .. Len(t) : t[i] <= n + 1
      BY <1>2, <2>1, <3>1, <3>2
    <3>4. ASSUME NEW r \in regs, r <= n + 1
          PROVE  \E i \in 1 .. Len(t) : t[i] = r
      <4>1. CASE r <= n
        <5>1. PICK i \in 1 .. Len(s) : s[i] = r
          BY <1>2, <4>1
        <5>2. i \in 1 .. Len(t) /\ t[i] = r
          BY <2>1, <3>1, <5>1
        <5>3. QED
          BY <5>2
      <4>2. CASE r = n + 1
        BY <2>1, <3>1, <4>2
      <4>3. QED
        BY <3>4, <4>1, <4>2 DEF Regs
    <3>5. ASSUME NEW i \in 1 .. Len(t), NEW j \in 1 .. Len(t), i < j
          PROVE  t[i] < t[j]
      <4>1. i \in 1 .. Len(s)
        BY <2>1, <3>1, <3>5
      <4>2. CASE j \in 1 .. Len(s)
        BY <1>2, <3>1, <3>5, <4>1, <4>2
      <4>3. CASE j = Len(s) + 1
        BY <1>2, <2>1, <3>1, <4>1, <4>3
      <4>4. QED
        BY <3>2, <4>2, <4>3
    <3>6. Len(t) <= n + 1
      BY <1>2, <2>1, <3>1
    <3>7. Lists(n + 1, t)
      BY <3>1, <3>3, <3>4, <3>5, <3>6
    <3>8. QED
      BY <3>1, <3>7
  <2>3. CASE n + 1 \notin regs
    <3>1. \A r \in regs : r <= n + 1 => r <= n
      BY <2>3 DEF Regs
    <3>2. Lists(n + 1, s)
      BY <1>2, <2>1, <3>1
    <3>3. QED
      BY <3>2
  <2>4. QED
    BY <2>2, <2>3
<1> HIDE DEF Lists
<1>3. bad = {}
  <2>1. SUFFICES ASSUME bad # {} PROVE FALSE
    OBVIOUS
  <2>2. PICK m \in bad : \A k \in bad : m <= k
    <3>1. bad \in SUBSET Nat
      OBVIOUS
    <3> HIDE DEF bad
    <3>2. QED
      BY <2>1, <3>1, Least
  <2>3. m # 0
    BY <1>1, EmptySeq
  <2>4. m - 1 \in Nat /\ m - 1 \notin bad
    BY <2>2, <2>3
  <2>5. PICK s \in Seq(regs) : Lists(m - 1, s)
    BY <2>4
  <2>6. \E t \in Seq(regs) : Lists((m - 1) + 1, t)
    BY <1>2, <2>4, <2>5
  <2>7. QED
    BY <2>2, <2>6
<1>4. MaxAppear \in Nat
  BY DEF ConstantsAssumption
<1>5. PICK s \in Seq(regs) : Lists(MaxAppear, s)
  BY <1>3, <1>4
<1>6. \A r \in regs : r <= MaxAppear
  BY <1>4 DEF Regs
<1>7. /\ DOMAIN s = 1 .. Len(s) /\ Len(s) \in 0 .. MaxAppear /\ s \in [1 .. Len(s) -> regs]
      /\ \A r \in regs : \E i \in DOMAIN s : s[i] = r
      /\ \A i, j \in DOMAIN s : i < j => s[i] < s[j]
  <2>1. DOMAIN s = 1 .. Len(s) /\ Len(s) \in Nat
    BY LenProperties
  <2>2. s \in [1 .. Len(s) -> regs]
    BY LenProperties
  <2>3. QED
    BY <1>4, <1>5, <1>6, <2>1, <2>2 DEF Lists
<1> DEFINE Chosen(t) ==
      /\ \A r \in regs : \E i \in DOMAIN t : t[i] = r
      /\ \A i, j \in DOMAIN t : i < j => t[i] < t[j]
    all == UNION {[1 .. n -> regs] : n \in 0 .. MaxAppear}
<1>8. s \in all /\ Chosen(s)
  BY <1>7
<1>9. InOrder(regs) = CHOOSE t \in all : Chosen(t)
  BY DEF InOrder
<1> HIDE DEF Chosen
<1>10. InOrder(regs) \in all /\ Chosen(InOrder(regs))
  BY <1>8, <1>9
<1>11. PICK n \in 0 .. MaxAppear : InOrder(regs) \in [1 .. n -> regs]
  BY <1>10
<1>12. InOrder(regs) \in Seq(regs) /\ Len(InOrder(regs)) = n /\ DOMAIN InOrder(regs) = 1 .. n
  BY <1>4, <1>11, FunctionIsSeq
<1>13. QED
  BY <1>10, <1>12 DEF Chosen

-----------------------------------------------------------------------------
(* Blocks and what is emitted.                                             *)

LEMMA BlockFields ==
    ASSUME NEW b \in Block
    PROVE  /\ b.kind \in {"device", "snapshot"}
           /\ b.kind = "device" => b.visit \in Visits
           /\ b.kind = "snapshot" => b.reg \in Regs /\ b.val \in Power /\ b.hop \in {1, 2}
BY DEF Block

LEMMA Snapshot ==
    ASSUME NEW r \in Regs, NEW val \in Power, NEW hop \in {1, 2},
           NEW b, b = SnapshotBlock(r, val, hop)
    PROVE  /\ b \in Block
           /\ b.kind = "snapshot" /\ b.reg = r /\ b.val = val /\ b.hop = hop
BY DEF SnapshotBlock, Block

(* The registrations followed are told val, behind the queue q. *)
Emitted(q, val, e) ==
    /\ e \in Seq(Block)
    /\ Len(q) <= Len(e)
    /\ \A i \in 1 .. Len(q) : e[i] = q[i]
    /\ \A i \in 1 .. Len(e) : i > Len(q) =>
         val # "none" /\ \E r \in Following : e[i] = SnapshotBlock(r, val, 1)
    /\ val # "none" => \A r \in Following :
         \E i \in 1 .. Len(e) : i > Len(q) /\ e[i] = SnapshotBlock(r, val, 1)

LEMMA Emits ==
    ASSUME ConstantsAssumption, Following \in SUBSET Regs,
           NEW q \in Seq(Block), NEW val \in Doc
    PROVE  Emitted(q, val, Emit(q, val))
<1>1. CASE val = "none"
  <2>1. Emit(q, val) = q /\ Len(q) \in Nat
    BY <1>1, LenProperties DEF Emit
  <2>2. QED
    BY <1>1, <2>1 DEF Emitted
<1>2. CASE val # "none"
  <2> DEFINE rs == InOrder(Following)
             told == [i \in DOMAIN rs |-> SnapshotBlock(rs[i], val, 1)]
  <2>1. /\ rs \in Seq(Following) /\ DOMAIN rs = 1 .. Len(rs) /\ Len(rs) \in Nat
        /\ \A r \in Following : \E i \in 1 .. Len(rs) : rs[i] = r
        /\ \A i \in 1 .. Len(rs) : rs[i] \in Following
    BY InOrderLists, LenProperties, ElementOfSeq
  <2> HIDE DEF rs
  <2>2. val \in Power
    BY <1>2 DEF Doc
  <2>3. \A i \in 1 .. Len(rs) : SnapshotBlock(rs[i], val, 1) \in Block
    BY <2>1, <2>2, Snapshot
  <2>4. told \in Seq(Block) /\ Len(told) = Len(rs)
        /\ \A i \in 1 .. Len(rs) : told[i] = SnapshotBlock(rs[i], val, 1)
    <3>1. told \in [1 .. Len(rs) -> Block]
      BY <2>1, <2>3
    <3>2. QED
      BY <2>1, <3>1, FunctionIsSeq
  <2>5. Emit(q, val) = q \o told
    BY <1>2 DEF Emit, rs
  <2> HIDE DEF told
  <2> DEFINE e == q \o told
  <2>6. /\ e \in Seq(Block)
        /\ Len(q) \in Nat /\ Len(e) \in Nat /\ Len(q) <= Len(e)
        /\ \A i \in 1 .. Len(q) : e[i] = q[i]
        /\ \A k \in 1 .. Len(rs) :
             /\ Len(q) + k \in 1 .. Len(e) /\ Len(q) + k > Len(q)
             /\ e[Len(q) + k] = told[k]
        /\ \A i \in 1 .. Len(e) : i > Len(q) =>
             i - Len(q) \in 1 .. Len(rs) /\ e[i] = told[i - Len(q)]
    BY <2>4, Joined
  <2> HIDE DEF e
  <2>7. ASSUME NEW i \in 1 .. Len(e), i > Len(q)
        PROVE  \E r \in Following : e[i] = SnapshotBlock(r, val, 1)
    <3>1. i - Len(q) \in 1 .. Len(rs) /\ e[i] = told[i - Len(q)]
      BY <2>6, <2>7
    <3>2. e[i] = SnapshotBlock(rs[i - Len(q)], val, 1) /\ rs[i - Len(q)] \in Following
      BY <2>1, <2>4, <3>1
    <3>3. QED
      BY <3>2
  <2>8. ASSUME NEW r \in Following
         PROVE  \E i \in 1 .. Len(e) : i > Len(q) /\ e[i] = SnapshotBlock(r, val, 1)
    <3>1. PICK k \in 1 .. Len(rs) : rs[k] = r
      BY <2>1
    <3>2. Len(q) + k \in 1 .. Len(e) /\ Len(q) + k > Len(q) /\ e[Len(q) + k] = told[k]
      BY <2>6
    <3>3. QED
      BY <2>4, <3>1, <3>2
  <2>9. Emitted(q, val, e)
    BY <1>2, <2>6, <2>7, <2>8 DEF Emitted
  <2>10. QED
    BY <2>5, <2>9 DEF e
<1>3. QED
  BY <1>1, <1>2

-----------------------------------------------------------------------------
(* How a visit stays on course.                                            *)

(* A snapshot that reaches its visit's own listener settles the course. *)
LEMMA AppendDue ==
    ASSUME NEW q \in Seq(Block), NEW b \in Block, NEW own, NEW lv, NEW on, NEW v,
           b.kind = "snapshot", b.hop = 1, own[b.reg] = v, b.reg \in lv
    PROVE  OnCourse(Append(q, b), own, lv, on, v, b.val)
<1> DEFINE a == Append(q, b)
           S == Due(a, own, lv, 1, v)
           n == Len(q) + 1
<1>1. Len(q) \in Nat /\ Len(a) = n /\ a[n] = b
  BY OneMore
<1> HIDE DEF a
<1>2. n \in S /\ \A j \in S : j <= n
  BY <1>1 DEF Due
<1>3. LastIs(a, S, b.val)
  BY <1>1, <1>2 DEF LastIs
<1>4. QED
  BY <1>3 DEF OnCourse, a

LEMMA EmitDue ==
    ASSUME NEW q \in Seq(Block), NEW x \in Power, NEW e, Emitted(q, x, e),
           live \in SUBSET Regs, Following \in SUBSET live,
           NEW r \in Following, NEW on, NEW v, owner[r] = v
    PROVE  OnCourse(e, owner, live, on, v, x)
<1> DEFINE S == Due(e, owner, live, 1, v)
<1>1. /\ e \in Seq(Block) /\ x # "none"
      /\ \A i \in 1 .. Len(e) : i > Len(q) => \E p \in Following : e[i] = SnapshotBlock(p, x, 1)
      /\ \E i \in 1 .. Len(e) : i > Len(q) /\ e[i] = SnapshotBlock(r, x, 1)
  BY DEF Emitted, Power
<1>2. Len(e) \in Nat /\ Len(q) \in Nat
  BY <1>1, LenProperties
<1>3. PICK k \in 1 .. Len(e) : k > Len(q) /\ e[k] = SnapshotBlock(r, x, 1)
  BY <1>1
<1>4. k \in S
  <2>1. e[k].kind = "snapshot" /\ e[k].reg = r /\ e[k].hop = 1
    BY <1>3, Snapshot
  <2>2. QED
    BY <2>1 DEF Due
<1>5. S \in SUBSET (1 .. Len(e))
  BY DEF Due
<1> HIDE DEF S
<1>6. PICK i \in S : \A j \in S : j <= i
  BY <1>2, <1>4, <1>5, LastOf
<1>7. i \in 1 .. Len(e) /\ i > Len(q)
  BY <1>2, <1>3, <1>4, <1>5, <1>6
<1>8. PICK p \in Following : e[i] = SnapshotBlock(p, x, 1)
  BY <1>1, <1>7
<1>9. e[i].val = x
  BY <1>8, Snapshot
<1>10. LastIs(e, S, x)
  BY <1>6, <1>9 DEF LastIs
<1>11. QED
  BY <1>10 DEF OnCourse, S

(* What is due when the head has left the queue. *)
LEMMA DueTail ==
    ASSUME NEW q \in Seq(Block), q # <<>>, NEW own, NEW lv, NEW h, NEW v
    PROVE  /\ \A i \in Due(Tail(q), own, lv, h, v) : i + 1 \in Due(q, own, lv, h, v)
           /\ \A i \in Due(q, own, lv, h, v) :
                i # 1 => i - 1 \in Due(Tail(q), own, lv, h, v)
<1>1. /\ Len(q) \in Nat \ {0} /\ Len(Tail(q)) = Len(q) - 1
      /\ \A i \in 1 .. Len(q) - 1 : Tail(q)[i] = q[i + 1]
  BY Rest
<1>2. ASSUME NEW i \in Due(Tail(q), own, lv, h, v)
      PROVE  i + 1 \in Due(q, own, lv, h, v)
  <2>1. i \in 1 .. Len(q) - 1 /\ i + 1 \in 1 .. Len(q)
    BY <1>1 DEF Due
  <2>2. Tail(q)[i] = q[i + 1]
    BY <1>1, <2>1
  <2>3. QED
    BY <2>1, <2>2 DEF Due
<1>3. ASSUME NEW i \in Due(q, own, lv, h, v), i # 1
      PROVE  i - 1 \in Due(Tail(q), own, lv, h, v)
  <2>1. i - 1 \in 1 .. Len(q) - 1 /\ (i - 1) + 1 = i
    BY <1>1, <1>3 DEF Due
  <2>2. Tail(q)[i - 1] = q[i]
    BY <1>1, <2>1
  <2>3. QED
    BY <1>1, <2>1, <2>2 DEF Due
<1>4. QED
  BY <1>2, <1>3

LEMMA LastTail ==
    ASSUME NEW q \in Seq(Block), q # <<>>, NEW own, NEW lv, NEW h, NEW v, NEW x,
           NEW i \in Due(q, own, lv, h, v), i # 1, q[i].val = x,
           \A j \in Due(q, own, lv, h, v) : j <= i
    PROVE  LastIs(Tail(q), Due(Tail(q), own, lv, h, v), x)
<1>1. /\ Len(q) \in Nat \ {0} /\ i \in 1 .. Len(q)
      /\ \A k \in 1 .. Len(q) - 1 : Tail(q)[k] = q[k + 1]
  BY Rest DEF Due
<1>2. i - 1 \in Due(Tail(q), own, lv, h, v)
  BY DueTail
<1>3. Tail(q)[i - 1] = q[i]
  <2>1. i - 1 \in 1 .. Len(q) - 1 /\ (i - 1) + 1 = i
    BY <1>1
  <2>2. QED
    BY <1>1, <2>1
<1>4. \A j \in Due(Tail(q), own, lv, h, v) : j \in Int /\ j + 1 <= i
  <2>1. \A j \in Due(Tail(q), own, lv, h, v) : j \in Int
    BY DEF Due
  <2>2. QED
    BY <2>1, DueTail
<1>5. \A j \in Due(Tail(q), own, lv, h, v) : j <= i - 1
  BY <1>1, <1>4
<1>6. QED
  BY <1>2, <1>3, <1>5 DEF LastIs

(* The head leaves the queue and was not due for the visit. *)
LEMMA TailCourse ==
    ASSUME NEW q \in Seq(Block), q # <<>>, NEW own, NEW lv, NEW on, NEW v, NEW x,
           1 \notin Due(q, own, lv, 1, v), 1 \notin Due(q, own, lv, 2, v),
           OnCourse(q, own, lv, on, v, x)
    PROVE  OnCourse(Tail(q), own, lv, on, v, x)
<1> DEFINE t == Tail(q)
           D(h) == Due(q, own, lv, h, v)
           T(h) == Due(t, own, lv, h, v)
<1>1. ASSUME NEW h \in {1, 2}, LastIs(q, D(h), x)
      PROVE  LastIs(t, T(h), x)
  <2>1. PICK i \in D(h) : q[i].val = x /\ \A j \in D(h) : j <= i
    BY <1>1 DEF LastIs
  <2>2. i # 1
    BY <2>1
  <2>3. QED
    BY <2>1, <2>2, LastTail
<1>2. ASSUME NEW h \in {1, 2}, D(h) = {}
      PROVE  T(h) = {}
  BY <1>2, DueTail
<1> HIDE DEF t, D, T
<1>3. \/ LastIs(q, D(1), x)
      \/ D(1) = {} /\ LastIs(q, D(2), x)
      \/ D(1) = {} /\ D(2) = {} /\ on[v] = x
  BY DEF OnCourse, D
<1>4. \/ LastIs(t, T(1), x)
      \/ T(1) = {} /\ LastIs(t, T(2), x)
      \/ T(1) = {} /\ T(2) = {} /\ on[v] = x
  BY <1>1, <1>2, <1>3
<1>5. QED
  BY <1>4 DEF OnCourse, t, T

(* What is due when something that is not is put behind the queue. *)
LEMMA DueAppend ==
    ASSUME NEW q \in Seq(Block), NEW b \in Block, NEW own, NEW lv, NEW h, NEW v,
           ~(/\ b.kind = "snapshot" /\ b.hop = h /\ own[b.reg] = v
             /\ h = 1 => b.reg \in lv)
    PROVE  /\ Due(Append(q, b), own, lv, h, v) = Due(q, own, lv, h, v)
           /\ \A x : LastIs(q, Due(q, own, lv, h, v), x) =>
                LastIs(Append(q, b), Due(q, own, lv, h, v), x)
<1> DEFINE a == Append(q, b)
<1>1. /\ Len(q) \in Nat /\ Len(a) = Len(q) + 1
      /\ \A i \in 1 .. Len(q) : a[i] = q[i]
      /\ a[Len(q) + 1] = b
  BY OneMore
<1> HIDE DEF a
<1>2. \A i \in Due(q, own, lv, h, v) : i \in 1 .. Len(q) /\ a[i] = q[i]
  BY <1>1 DEF Due
<1>3. \A i \in 1 .. Len(a) : i \in 1 .. Len(q) \/ i = Len(q) + 1
  BY <1>1
<1>4. \A i \in 1 .. Len(q) : i \in 1 .. Len(a)
  BY <1>1
<1>5. Due(a, own, lv, h, v) \subseteq Due(q, own, lv, h, v)
  <2>1. SUFFICES ASSUME NEW i \in Due(a, own, lv, h, v)
                 PROVE  i \in Due(q, own, lv, h, v)
    OBVIOUS
  <2>2. i # Len(q) + 1
    BY <1>1 DEF Due
  <2>3. i \in 1 .. Len(q)
    BY <1>3, <2>2 DEF Due
  <2>4. QED
    BY <1>1, <2>3 DEF Due
<1>6. Due(q, own, lv, h, v) \subseteq Due(a, own, lv, h, v)
  BY <1>1, <1>4 DEF Due
<1>7. QED
  BY <1>2, <1>5, <1>6 DEF LastIs, a

LEMMA AppendCourse ==
    ASSUME NEW q \in Seq(Block), NEW b \in Block, NEW own, NEW lv, NEW on, NEW v, NEW x,
           b.kind = "snapshot" => own[b.reg] # v,
           OnCourse(q, own, lv, on, v, x)
    PROVE  OnCourse(Append(q, b), own, lv, on, v, x)
BY DueAppend DEF OnCourse

(* A snapshot on its first hop is put behind the queue for the second. *)
LEMMA HopCourse ==
    ASSUME NEW q \in Seq(Block), q # <<>>, NEW own, NEW lv, NEW on, NEW v, NEW x,
           NEW b \in Block, b.kind = "snapshot", b.hop = 2, own[b.reg] = v,
           1 \in Due(q, own, lv, 1, v), q[1].val = b.val,
           OnCourse(q, own, lv, on, v, x)
    PROVE  OnCourse(Append(Tail(q), b), own, lv, on, v, x)
<1> DEFINE t == Tail(q)
           a == Append(t, b)
           D(h) == Due(q, own, lv, h, v)
           A(h) == Due(a, own, lv, h, v)
           n == Len(t) + 1
<1>1. t \in Seq(Block)
  BY Rest
<1>2. /\ A(1) = Due(t, own, lv, 1, v)
      /\ LastIs(t, Due(t, own, lv, 1, v), x) => LastIs(a, Due(t, own, lv, 1, v), x)
  <2>1. ~(/\ b.kind = "snapshot" /\ b.hop = 1 /\ own[b.reg] = v
          /\ 1 = 1 => b.reg \in lv)
    OBVIOUS
  <2> HIDE DEF t
  <2>2. QED
    BY <1>1, <2>1, DueAppend
<1>3. PICK i \in D(1) : q[i].val = x /\ \A j \in D(1) : j <= i
  BY DEF OnCourse, LastIs
<1>4. CASE i = 1
  <2>1. A(1) = {}
    <3>1. SUFFICES ASSUME NEW j \in A(1) PROVE FALSE
      OBVIOUS
    <3>2. j \in 1 .. Len(t) /\ j + 1 \in D(1)
      BY <1>2, DueTail DEF Due
    <3>3. QED
      BY <1>3, <1>4, <3>2
  <2>2. Len(t) \in Nat /\ Len(a) = n /\ a[n] = b
    BY <1>1, OneMore
  <2>3. LastIs(a, A(2), x)
    <3>1. n \in A(2) /\ \A j \in A(2) : j <= n
      BY <2>2 DEF Due
    <3>2. QED
      BY <1>3, <1>4, <2>2, <3>1 DEF LastIs
  <2>4. QED
    BY <2>1, <2>3 DEF OnCourse
<1>5. CASE i # 1
  <2>1. LastIs(t, Due(t, own, lv, 1, v), x)
    BY <1>3, <1>5, LastTail
  <2>2. LastIs(a, A(1), x)
    BY <1>2, <2>1
  <2>3. QED
    BY <2>2 DEF OnCourse
<1>6. QED
  BY <1>4, <1>5

(* A snapshot's body runs: the visit shows what it carries. *)
LEMMA BodyCourse ==
    ASSUME NEW q \in Seq(Block), q # <<>>, NEW own, NEW lv, NEW on, NEW v, NEW x,
           1 \in Due(q, own, lv, 2, v), 1 \notin Due(q, own, lv, 1, v),
           NEW then, then[v] = q[1].val,
           OnCourse(q, own, lv, on, v, x)
    PROVE  OnCourse(Tail(q), own, lv, then, v, x)
<1> DEFINE t == Tail(q)
           D(h) == Due(q, own, lv, h, v)
           T(h) == Due(t, own, lv, h, v)
<1>1. CASE LastIs(q, D(1), x)
  <2>1. PICK i \in D(1) : q[i].val = x /\ \A j \in D(1) : j <= i
    BY <1>1 DEF LastIs
  <2>2. LastIs(t, T(1), x)
    BY <2>1, LastTail
  <2>3. QED
    BY <2>2 DEF OnCourse
<1>2. CASE D(1) = {} /\ LastIs(q, D(2), x)
  <2>1. PICK i \in D(2) : q[i].val = x /\ \A j \in D(2) : j <= i
    BY <1>2 DEF LastIs
  <2>2. T(1) = {}
    BY <1>2, DueTail
  <2>3. CASE i = 1
    <3>1. T(2) = {}
      <4>1. SUFFICES ASSUME NEW j \in T(2) PROVE FALSE
        OBVIOUS
      <4>2. j \in 1 .. Len(t) /\ j + 1 \in D(2)
        BY DueTail DEF Due
      <4>3. QED
        BY <2>1, <2>3, <4>2
    <3>2. QED
      BY <2>1, <2>2, <2>3, <3>1 DEF OnCourse
  <2>4. CASE i # 1
    <3>1. LastIs(t, T(2), x)
      BY <2>1, <2>4, LastTail
    <3>2. QED
      BY <2>2, <3>1 DEF OnCourse
  <2>5. QED
    BY <2>3, <2>4
<1>3. QED
  BY <1>1, <1>2 DEF OnCourse

(* Latest finds what a visit is on course for. *)
LEMMA CourseIsLatest ==
    ASSUME NEW v, NEW x, DOMAIN mainq = 1 .. Len(mainq),
           OnCourse(mainq, owner, live, isOn, v, x)
    PROVE  Latest(v) = x
<1> DEFINE D(h) == Due(mainq, owner, live, h, v)
           last(S) == mainq[CHOOSE i \in S : \A j \in S : j <= i].val
<1>1. Latest(v) = IF D(1) # {} THEN last(D(1))
                  ELSE IF D(2) # {} THEN last(D(2)) ELSE isOn[v]
  BY DEF Latest, Due
<1>2. ASSUME NEW h \in {1, 2}, LastIs(mainq, D(h), x)
      PROVE  D(h) # {} /\ last(D(h)) = x
  <2> DEFINE S == D(h)
  <2>1. \A i \in S : i \in Int
    BY DEF Due
  <2> HIDE DEF S
  <2>2. PICK i \in S : mainq[i].val = x /\ \A j \in S : j <= i
    BY <1>2 DEF LastIs, S
  <2>3. (CHOOSE k \in S : \A j \in S : j <= k) = i
    BY <2>1, <2>2
  <2>4. QED
    BY <2>2, <2>3 DEF S
<1> HIDE DEF D, last
<1>3. \/ LastIs(mainq, D(1), x)
      \/ D(1) = {} /\ LastIs(mainq, D(2), x)
      \/ D(1) = {} /\ D(2) = {} /\ isOn[v] = x
  BY DEF OnCourse, D
<1>4. QED
  BY <1>1, <1>2, <1>3

-----------------------------------------------------------------------------
(* The steps.                                                              *)

LEMMA Types ==
    ASSUME TypeOK
    PROVE  /\ mainq \in Seq(Block)
           /\ writes \in Seq(Patches)
           /\ server \in Doc /\ cache \in Doc
           /\ owner \in [Regs -> 0 .. MaxVisit]
           /\ live \in SUBSET Regs /\ \A r \in live : owner[r] # 0
           /\ Following \in SUBSET live
           /\ listener \in [Visits -> 0 .. MaxAppear]
           /\ asked \in [Visits -> 0 .. MaxAppear]
           /\ isOn \in [Visits -> Power \cup {"nil"}]
           /\ isLoading \in [Visits -> BOOLEAN]
           /\ used \in [Counters -> Nat]
BY DEF TypeOK, Patches, Following

LEMMA ViewType ==
    ASSUME NEW c \in Doc, NEW ws \in Seq(Patches)
    PROVE  LocalView(c, ws) \in Doc
<1>1. CASE c = "none" \/ ws = <<>>
  BY <1>1 DEF LocalView
<1>2. CASE c # "none" /\ ws # <<>>
  <2>1. Len(ws) \in Nat /\ Len(ws) # 0
    BY <1>2, LenProperties, EmptySeq
  <2>2. Len(ws) \in 1 .. Len(ws)
    BY <2>1
  <2>3. ws[Len(ws)] \in Patches
    BY <2>2, ElementOfSeq
  <2>4. QED
    BY <1>2, <2>3 DEF LocalView, Doc, Patches
<1>3. QED
  BY <1>1, <1>2

(* A counter goes up. *)
LEMMA BumpType ==
    ASSUME used \in [Counters -> Nat], NEW c \in Counters, Bump(c)
    PROVE  /\ used' \in [Counters -> Nat]
           /\ used'[c] = used[c] + 1
           /\ \A d \in Counters \ {c} : used'[d] = used[d]
BY DEF Bump

(* The registrations, the queue and what the visits show stay as they are, *)
(* and so does the view, unless it is gone; listeners may have ended.      *)
LEMMA QuietRegs ==
    ASSUME IInv, UNCHANGED <<mainq, live, owner, listener, isOn>>,
           Following' \in SUBSET Following,
           View' = View \/ View' = "none"
    PROVE  Registered' /\ Course'
<1>1. Registered'
  BY DEF IInv, Registered, OneListener
<1>2. Course'
  BY DEF IInv, Course
<1>3. QED
  BY <1>1, <1>2

LEMMA EntryFilledStep ==
    ASSUME IInv, EntryFilled PROVE IInv'
<1>1. /\ UNCHANGED <<known, docVars, mainq, visit, open, asked, failed,
                     regVars, viewVars, crashed, used>>
      /\ entry' = TRUE
  BY DEF EntryFilled
<1>2. TypeOK' /\ Asked' /\ Unswitched'
  BY <1>1 DEF IInv, TypeOK, Asked, Unswitched, docVars, regVars, viewVars
<1>3. Registered' /\ Course'
  BY <1>1, QuietRegs DEF docVars, regVars, viewVars, View, Following
<1>4. QED
  BY <1>2, <1>3 DEF IInv

(* Steps that only count appearances and lookups. *)
LEMMA LookupStep ==
    ASSUME IInv, UNCHANGED <<known, docVars, mainq, entry, regVars, viewVars>>,
           asked' \in [Visits -> 0 .. MaxAppear], Asked', used' \in [Counters -> Nat],
           used'["auto"] = used["auto"], used'["tap"] = used["tap"],
           visit' \in 0 .. MaxVisit, open' \in BOOLEAN, crashed' \in BOOLEAN,
           failed' \subseteq Visits
    PROVE  IInv'
<1>1. TypeOK' /\ Unswitched'
  BY DEF IInv, TypeOK, Unswitched, docVars, regVars, viewVars
<1>2. Registered' /\ Course'
  BY QuietRegs DEF docVars, regVars, viewVars, View, Following
<1>3. QED
  BY <1>1, <1>2 DEF IInv

LEMMA OpenScreenStep ==
    ASSUME ConstantsAssumption, IInv, OpenScreen PROVE IInv'
<1>1. /\ TypeOK /\ Asked /\ MaxAppear \in Nat /\ MaxVisit \in Nat
      /\ used["appear"] \in Nat
  BY Types DEF IInv, ConstantsAssumption, Counters
<1>2. /\ visit < MaxVisit /\ used["appear"] < MaxAppear
      /\ Bump("appear") /\ visit' = visit + 1 /\ open' = TRUE
      /\ \/ asked' = [asked EXCEPT ![visit + 1] = 1] /\ crashed' = crashed
         \/ crashed' = TRUE /\ asked' = asked
      /\ UNCHANGED <<known, docVars, mainq, entry, failed, regVars, viewVars>>
  BY DEF OpenScreen
<1>3. /\ used' \in [Counters -> Nat] /\ used'["appear"] = used["appear"] + 1
      /\ used'["auto"] = used["auto"] /\ used'["tap"] = used["tap"]
  BY <1>1, <1>2, Types, BumpType DEF Counters
<1>4. visit' \in 0 .. MaxVisit /\ crashed' \in BOOLEAN /\ failed' \subseteq Visits
  <2>1. visit \in 0 .. MaxVisit /\ crashed \in BOOLEAN /\ failed \subseteq Visits
    BY <1>1 DEF TypeOK
  <2>2. visit + 1 \in 0 .. MaxVisit
    BY <1>1, <1>2, <2>1
  <2>3. QED
    BY <1>2, <2>1, <2>2
<1>5. /\ asked' \in [Visits -> 0 .. MaxAppear]
      /\ \A v \in Visits : asked'[v] = asked[v] \/ asked'[v] = 1
  <2>1. 1 \in 0 .. MaxAppear
    BY <1>1, <1>2
  <2>2. QED
    BY <1>1, <1>2, <2>1, Types
<1>6. Asked'
  <2>1. \A v \in Visits : asked[v] \in Nat /\ asked[v] <= used["appear"]
    BY <1>1, Types DEF Asked
  <2>2. \A v \in Visits : asked'[v] <= used["appear"] + 1
    BY <1>1, <1>5, <2>1
  <2>3. QED
    BY <1>1, <1>2, <1>3, <2>2 DEF Asked
<1>7. QED
  BY <1>2, <1>3, <1>4, <1>5, <1>6, LookupStep

LEMMA AppearAgainStep ==
    ASSUME ConstantsAssumption, IInv, AppearAgain PROVE IInv'
<1>1. /\ TypeOK /\ Asked /\ MaxAppear \in Nat /\ used["appear"] \in Nat
  BY Types DEF IInv, ConstantsAssumption, Counters
<1>2. /\ used["appear"] < MaxAppear /\ Bump("appear")
      /\ asked' = [asked EXCEPT ![visit] = @ + 1]
      /\ UNCHANGED <<known, docVars, mainq, pageVars, regVars, viewVars>>
  BY DEF AppearAgain
<1>3. /\ used' \in [Counters -> Nat] /\ used'["appear"] = used["appear"] + 1
      /\ used'["auto"] = used["auto"] /\ used'["tap"] = used["tap"]
  BY <1>1, <1>2, Types, BumpType DEF Counters
<1>4. \A v \in Visits : asked[v] \in 0 .. MaxAppear /\ asked[v] <= used["appear"]
  BY <1>1, Types DEF Asked
<1>5. \A v \in Visits : /\ asked'[v] = asked[v] \/ asked'[v] = asked[v] + 1
                        /\ asked'[v] \in 0 .. MaxAppear
                        /\ asked'[v] <= used["appear"] + 1
  BY <1>1, <1>2, <1>4, Types
<1>6. asked' \in [Visits -> 0 .. MaxAppear]
  BY <1>1, <1>2, <1>5, Types
<1>7. Asked'
  BY <1>1, <1>2, <1>3, <1>5 DEF Asked
<1>8. QED
  BY <1>1, <1>2, <1>3, <1>6, <1>7, LookupStep DEF pageVars, TypeOK

LEMMA CloseScreenStep ==
    ASSUME IInv, CloseScreen PROVE IInv'
<1>1. /\ UNCHANGED <<known, docVars, mainq, entry, visit, asked, failed,
                     regVars, viewVars, crashed, used>>
      /\ open' = FALSE
  BY DEF CloseScreen
<1>2. /\ asked' \in [Visits -> 0 .. MaxAppear] /\ Asked' /\ used' \in [Counters -> Nat]
      /\ visit' \in 0 .. MaxVisit /\ crashed' \in BOOLEAN /\ failed' \subseteq Visits
  BY <1>1 DEF IInv, TypeOK, Asked
<1>3. QED
  BY <1>1, <1>2, LookupStep

(* A lookup is answered. *)
LEMMA AnsweredLookup ==
    ASSUME ConstantsAssumption, TypeOK, Asked, NEW v \in Visits, asked[v] > 0,
           asked' = [asked EXCEPT ![v] = @ - 1], used' = used
    PROVE  asked' \in [Visits -> 0 .. MaxAppear] /\ Asked'
<1>1. \A w \in Visits : asked[w] \in 0 .. MaxAppear /\ asked[w] <= used["appear"]
  BY Types DEF Asked
<1>2. used["appear"] \in Nat /\ MaxAppear \in Nat
  BY Types DEF Counters, ConstantsAssumption
<1>3. \A w \in Visits : /\ asked'[w] = asked[w] \/ (w = v /\ asked'[w] = asked[w] - 1)
                        /\ asked'[w] \in 0 .. MaxAppear
                        /\ asked'[w] <= used["appear"]
  BY <1>1, <1>2, Types
<1>4. asked' \in [Visits -> 0 .. MaxAppear]
  BY <1>3, Types
<1>5. QED
  BY <1>3, <1>4 DEF Asked

LEMMA DeviceMissingStep ==
    ASSUME ConstantsAssumption, IInv, NEW v \in Visits, DeviceMissing(v) PROVE IInv'
<1>1. asked' \in [Visits -> 0 .. MaxAppear] /\ Asked'
  BY AnsweredLookup DEF IInv, DeviceMissing
<1>2. QED
  BY <1>1, LookupStep DEF DeviceMissing, IInv, TypeOK

LEMMA DeviceFoundStep ==
    ASSUME ConstantsAssumption, IInv, NEW v \in Visits, DeviceFound(v) PROVE IInv'
<1> DEFINE b == DeviceBlock(v)
<1>1. /\ mainq' = Append(mainq, b)
      /\ UNCHANGED <<known, docVars, pageVars, regVars, viewVars, used>>
      /\ mainq \in Seq(Block)
  BY Types DEF IInv, DeviceFound
<1>2. b \in Block /\ b.kind = "device"
  BY DEF DeviceBlock, Block
<1>3. asked' \in [Visits -> 0 .. MaxAppear] /\ Asked'
  BY AnsweredLookup DEF IInv, DeviceFound
<1>4. /\ mainq' \in Seq(Block) /\ Len(mainq) \in Nat
      /\ Len(mainq') = Len(mainq) + 1
      /\ \A i \in 1 .. Len(mainq) : mainq'[i] = mainq[i]
      /\ mainq'[Len(mainq) + 1] = b
  BY <1>1, <1>2, OneMore
<1>5. \A i \in 1 .. Len(mainq') : i \in 1 .. Len(mainq) \/ mainq'[i] = b
  BY <1>4
<1>6. TypeOK'
  BY <1>1, <1>3, <1>4 DEF IInv, TypeOK, docVars, pageVars, regVars, viewVars
<1>7. Registered'
  BY <1>1, <1>2, <1>4, <1>5 DEF IInv, Registered, OneListener, regVars
<1>8. Unswitched'
  BY <1>1, <1>2, <1>4, <1>5 DEF IInv, Unswitched, docVars, viewVars
<1>9. Course'
  <2>1. b.kind # "snapshot"
    BY <1>2
  <2> HIDE DEF b
  <2>2. ASSUME NEW w \in Visits, listener[w] \in Following, View # "none"
        PROVE  OnCourse(Append(mainq, b), owner, live, isOn, w, View)
    <3>1. OnCourse(mainq, owner, live, isOn, w, View)
      BY <2>2 DEF IInv, Course
    <3>2. QED
      BY <1>1, <1>2, <2>1, <3>1, AppendCourse
  <2>3. QED
    BY <1>1, <2>2 DEF Course, View, Following, docVars, regVars, viewVars
<1>10. QED
  BY <1>3, <1>6, <1>7, <1>8, <1>9 DEF IInv

(* The lookup's callback: the visit's old listener makes way for the new   *)
(* one, which is told what is known.                                       *)
LEMMA RunDeviceStep ==
    ASSUME ConstantsAssumption, IInv, RunDevice PROVE IInv'
<1> DEFINE b == Head(mainq)
           t == Tail(mainq)
<1>1. /\ TypeOK /\ Registered /\ Course /\ Unswitched /\ Asked
      /\ mainq \in Seq(Block) /\ mainq # <<>> /\ b.kind = "device"
      /\ UNCHANGED <<known, docVars, pageVars, asked, viewVars, used>>
      /\ View' = View
  BY Types DEF IInv, RunDevice, View, docVars
<1>2. PICK r \in Regs :
        /\ owner[r] = 0
        /\ owner' = [owner EXCEPT ![r] = b.visit]
        /\ live' = (live \ Dropped(b.visit)) \cup {r}
        /\ ended' = ended \ Dropped(b.visit)
        /\ listener' = [listener EXCEPT ![b.visit] = r]
        /\ mainq' = IF View = "none" THEN t ELSE Append(t, SnapshotBlock(r, View, 1))
  BY DEF RunDevice, View
<1>3. /\ b = mainq[1] /\ b \in Block /\ b.visit \in Visits
      /\ t \in Seq(Block) /\ Len(t) = Len(mainq) - 1 /\ Len(mainq) \in Nat \ {0}
      /\ \A i \in 1 .. Len(mainq) - 1 : t[i] = mainq[i + 1]
  BY <1>1, Rest, BlockFields
<1> DEFINE v == b.visit
           s == SnapshotBlock(r, View, 1)
<1>4. View \in Doc
  BY <1>1, Types, ViewType DEF View
<1>5. View # "none" =>
        /\ s \in Block /\ s.kind = "snapshot" /\ s.reg = r /\ s.val = View /\ s.hop = 1
  BY <1>4, Snapshot DEF Doc
<1>6. v \in 1 .. MaxVisit /\ v # 0 /\ r \in 1 .. MaxAppear /\ r # 0
      /\ MaxVisit \in Nat /\ MaxAppear \in Nat
  BY <1>2, <1>3 DEF Visits, Regs, ConstantsAssumption
<1> HIDE DEF b, t, s
<1>7. /\ owner' \in [Regs -> 0 .. MaxVisit] /\ owner'[r] = v
      /\ \A k \in Regs : k # r => owner'[k] = owner[k]
      /\ listener' \in [Visits -> 0 .. MaxAppear] /\ listener'[v] = r
      /\ \A w \in Visits : w # v => listener'[w] = listener[w]
      /\ live' = (live \ {listener[v]}) \cup {r}
      /\ ended' = ended \ {listener[v]} /\ ended \subseteq live
      /\ live \subseteq Regs /\ live' \subseteq Regs /\ \A k \in live : owner[k] # 0
  <2>1. v \in 0 .. MaxVisit /\ r \in 0 .. MaxAppear
    BY <1>6
  <2>2. QED
    BY <1>1, <1>2, <1>3, <2>1, Types DEF Dropped, TypeOK
<1>8. r \notin live
  BY <1>2, <1>7
<1>9. mainq' \in Seq(Block)
  <2>1. CASE View = "none"
    BY <1>2, <1>3, <2>1
  <2>2. CASE View # "none"
    BY <1>2, <1>3, <1>5, <2>2, OneMore DEF s
  <2>3. QED
    BY <2>1, <2>2
<1>10. \A i \in 1 .. Len(mainq') :
         \/ \E k \in 1 .. Len(mainq) : mainq'[i] = mainq[k]
         \/ View # "none" /\ mainq'[i] = s
  <2>1. \A i \in 1 .. Len(t) : \E k \in 1 .. Len(mainq) : t[i] = mainq[k]
    <3>1. TAKE i \in 1 .. Len(t)
    <3>2. i + 1 \in 1 .. Len(mainq) /\ t[i] = mainq[i + 1]
      BY <1>3
    <3>3. QED
      BY <3>2
  <2>2. CASE View = "none"
    BY <1>2, <2>1, <2>2
  <2>3. CASE View # "none"
    <3>1. mainq' = Append(t, s)
      BY <1>2, <2>3 DEF s
    <3>2. /\ Len(t) \in Nat /\ Len(mainq') = Len(t) + 1
          /\ \A i \in 1 .. Len(t) : mainq'[i] = t[i]
          /\ mainq'[Len(t) + 1] = s
      BY <1>3, <1>5, <2>3, <3>1, OneMore
    <3>3. \A i \in 1 .. Len(mainq') : i \in 1 .. Len(t) \/ i = Len(t) + 1
      BY <3>2
    <3>4. QED
      BY <2>1, <2>3, <3>2, <3>3
  <2>4. QED
    BY <2>2, <2>3
<1>11. \A k \in 1 .. Len(mainq) : mainq[k].kind = "snapshot" =>
         mainq[k].reg \in Regs /\ owner[mainq[k].reg] # 0 /\ mainq[k].reg # r
  BY <1>1, <1>2, ElementOfSeq, BlockFields DEF Registered
<1>12. TypeOK'
  <2>1. live' \subseteq {k \in Regs : owner'[k] # 0}
    BY <1>6, <1>7, <1>8
  <2>2. ended' \subseteq live'
    BY <1>7
  <2>3. QED
    BY <1>1, <1>7, <1>9, <2>1, <2>2 DEF TypeOK, docVars, pageVars, viewVars
<1>13. Registered'
  <2>1. \A k \in live' : k \in Regs /\ listener'[owner'[k]] = k
    <3>1. TAKE k \in live'
    <3>2. CASE k = r
      BY <1>7, <3>2
    <3>3. CASE k # r
      <4>1. k \in live /\ k # listener[v] /\ listener[owner[k]] = k /\ owner[k] \in Visits
        BY <1>1, <1>7, <3>3, Types DEF Registered, OneListener, Visits
      <4>2. owner'[k] = owner[k] /\ owner[k] # v
        BY <1>7, <3>3, <4>1
      <4>3. QED
        BY <1>7, <4>1, <4>2
    <3>4. QED
      BY <3>2, <3>3
  <2>2. ASSUME NEW w \in Visits, listener'[w] # 0
        PROVE  listener'[w] \in live' /\ owner'[listener'[w]] = w
    <3>1. CASE w = v
      BY <1>7, <3>1
    <3>2. CASE w # v
      <4>1. listener[w] \in live /\ owner[listener[w]] = w /\ listener'[w] = listener[w]
        BY <1>1, <1>7, <2>2, <3>2 DEF Registered
      <4>2. listener[w] # r
        BY <1>8, <4>1
      <4>3. listener[w] # listener[v]
        <5>1. listener[v] # 0 => owner[listener[v]] = v
          BY <1>1, <1>3 DEF Registered
        <5>2. listener[w] # 0
          BY <2>2, <4>1
        <5>3. QED
          BY <3>2, <4>1, <5>1, <5>2
      <4>4. QED
        BY <1>7, <4>1, <4>2, <4>3
    <3>3. QED
      BY <3>1, <3>2
  <2>3. \A i \in 1 .. Len(mainq') : mainq'[i].kind = "snapshot" => owner'[mainq'[i].reg] # 0
    <3>1. TAKE i \in 1 .. Len(mainq')
    <3>2. CASE \E k \in 1 .. Len(mainq) : mainq'[i] = mainq[k]
      BY <1>7, <1>11, <3>2
    <3>3. CASE View # "none" /\ mainq'[i] = s
      BY <1>5, <1>6, <1>7, <3>3
    <3>4. QED
      BY <1>10, <3>2, <3>3
  <2>4. QED
    BY <2>1, <2>2, <2>3 DEF Registered, OneListener
<1>14. Unswitched'
  <2>1. SUFFICES ASSUME used["auto"] + used["tap"] = 0
                 PROVE  /\ notes = 0 /\ writes = <<>> /\ cache \in {"none", server}
                        /\ \A i \in 1 .. Len(mainq') :
                             mainq'[i].kind = "snapshot" => mainq'[i].val = server
                        /\ \A w \in Visits : isOn[w] \in {"nil", server}
    BY <1>1 DEF Unswitched, docVars, viewVars
  <2>2. View \in {"none", server}
    BY <1>1, <2>1 DEF Unswitched, View, LocalView
  <2>3. \A i \in 1 .. Len(mainq') : mainq'[i].kind = "snapshot" => mainq'[i].val = server
    BY <1>1, <1>5, <1>10, <2>1, <2>2 DEF Unswitched
  <2>4. QED
    BY <1>1, <2>1, <2>3 DEF Unswitched
<1>15. Course'
  <2>1. SUFFICES ASSUME NEW w \in Visits, listener'[w] \in Following', View # "none"
                 PROVE  OnCourse(mainq', owner', live', isOn, w, View)
    BY <1>1 DEF Course, viewVars
  <2>2. mainq' = Append(t, s) /\ s \in Block /\ s.kind = "snapshot" /\ s.reg = r
        /\ s.val = View /\ s.hop = 1
    BY <1>2, <1>5, <2>1 DEF s
  <2>3. CASE w = v
    BY <1>3, <1>7, <2>2, <2>3, AppendDue
  <2>4. CASE w # v
    <3>1. OnCourse(mainq, owner, live, isOn, w, View)
      <4>1. listener[w] = listener'[w] /\ listener[w] # r
        BY <1>1, <1>6, <1>7, <1>8, <2>4 DEF Registered
      <4>2. listener[w] \in Following
        BY <1>7, <2>1, <4>1 DEF Following
      <4>3. QED
        BY <1>1, <2>1, <4>2 DEF Course
    <3>2. ASSUME NEW h \in {1, 2}
          PROVE  Due(mainq, owner', live', h, w) = Due(mainq, owner, live, h, w)
      <4>1. ASSUME NEW k \in 1 .. Len(mainq), mainq[k].kind = "snapshot"
            PROVE  /\ owner'[mainq[k].reg] = owner[mainq[k].reg]
                   /\ owner[mainq[k].reg] = w =>
                        (mainq[k].reg \in live' <=> mainq[k].reg \in live)
        <5>1. /\ mainq[k].reg \in Regs /\ mainq[k].reg # r
              /\ owner'[mainq[k].reg] = owner[mainq[k].reg]
          BY <1>7, <1>11, <4>1
        <5>2. owner[mainq[k].reg] = w => mainq[k].reg # listener[v]
          <6>1. listener[v] # 0 => owner[listener[v]] = v
            BY <1>1, <1>3 DEF Registered
          <6>2. mainq[k].reg # 0
            BY <1>6, <5>1 DEF Regs
          <6>3. QED
            BY <2>4, <6>1, <6>2
        <5>3. QED
          BY <1>7, <5>1, <5>2
      <4>2. QED
        BY <4>1 DEF Due
    <3>3. OnCourse(mainq, owner', live', isOn, w, View)
      BY <3>1, <3>2 DEF OnCourse
    <3>4. \A h \in {1, 2} : 1 \notin Due(mainq, owner', live', h, w)
      BY <1>1, <1>3 DEF Due
    <3>5. OnCourse(t, owner', live', isOn, w, View)
      BY <1>1, <3>3, <3>4, TailCourse DEF t
    <3>6. QED
      BY <1>3, <1>7, <2>2, <2>4, <3>5, AppendCourse
  <2>5. QED
    BY <2>3, <2>4
<1>16. QED
  BY <1>1, <1>12, <1>13, <1>14, <1>15 DEF IInv, Asked

(* An error of the document ends listeners: fewer visits are followed. *)
LEMMA ListenerErrorStep ==
    ASSUME IInv, ListenerError PROVE IInv'
<1>1. /\ UNCHANGED <<known, docVars, mainq, pageVars, asked, live, owner,
                     listener, viewVars, used>>
      /\ ended' = live
  BY DEF ListenerError
<1>2. TypeOK' /\ Asked' /\ Unswitched'
  BY <1>1 DEF IInv, TypeOK, Asked, Unswitched, docVars, pageVars, viewVars
<1>3. Registered' /\ Course'
  BY <1>1, QuietRegs DEF docVars, viewVars, View, Following
<1>4. QED
  BY <1>2, <1>3 DEF IInv

(* A snapshot's callback: a removed listener is muted, which costs a visit *)
(* nothing, because only its own listener's snapshots are due.             *)
LEMMA RedispatchStep ==
    ASSUME ConstantsAssumption, IInv, Redispatch PROVE IInv'
<1> DEFINE b == Head(mainq)
           t == Tail(mainq)
           s == SnapshotBlock(b.reg, b.val, 2)
<1>1. /\ TypeOK /\ Registered /\ Course /\ Unswitched /\ Asked
      /\ mainq \in Seq(Block) /\ mainq # <<>> /\ b.kind = "snapshot" /\ b.hop = 1
      /\ mainq' = IF b.reg \in live THEN Append(t, s) ELSE t
      /\ UNCHANGED <<known, docVars, pageVars, asked, regVars, viewVars, used>>
      /\ View' = View
  BY Types DEF IInv, Redispatch, View, docVars
<1>2. /\ b = mainq[1] /\ b \in Block /\ b.reg \in Regs /\ b.val \in Power
      /\ t \in Seq(Block) /\ Len(t) = Len(mainq) - 1 /\ Len(mainq) \in Nat \ {0}
      /\ \A i \in 1 .. Len(mainq) - 1 : t[i] = mainq[i + 1]
      /\ 1 \in 1 .. Len(mainq)
  BY <1>1, Rest, BlockFields
<1>3. s \in Block /\ s.kind = "snapshot" /\ s.reg = b.reg /\ s.val = b.val /\ s.hop = 2
  BY <1>2, Snapshot
<1> HIDE DEF b, t, s
<1>4. mainq' \in Seq(Block)
  BY <1>1, <1>2, <1>3, OneMore
<1>5. \A i \in 1 .. Len(mainq') :
         \/ \E k \in 1 .. Len(mainq) : mainq'[i] = mainq[k]
         \/ mainq'[i] = s
  <2>1. \A i \in 1 .. Len(t) : \E k \in 1 .. Len(mainq) : t[i] = mainq[k]
    <3>1. TAKE i \in 1 .. Len(t)
    <3>2. i + 1 \in 1 .. Len(mainq) /\ t[i] = mainq[i + 1]
      BY <1>2
    <3>3. QED
      BY <3>2
  <2>2. CASE mainq' = t
    BY <2>1, <2>2
  <2>3. CASE mainq' = Append(t, s)
    <3>1. /\ Len(t) \in Nat /\ Len(mainq') = Len(t) + 1
          /\ \A i \in 1 .. Len(t) : mainq'[i] = t[i]
          /\ mainq'[Len(t) + 1] = s
      BY <1>2, <1>3, <2>3, OneMore
    <3>2. \A i \in 1 .. Len(mainq') : i \in 1 .. Len(t) \/ i = Len(t) + 1
      BY <3>1
    <3>3. QED
      BY <2>1, <3>1, <3>2
  <2>4. QED
    BY <1>1, <2>2, <2>3
<1>6. TypeOK'
  BY <1>1, <1>4 DEF TypeOK, docVars, pageVars, regVars, viewVars
<1>7. Registered'
  <2>1. owner[s.reg] # 0
    BY <1>1, <1>2, <1>3 DEF Registered
  <2>2. QED
    BY <1>1, <1>5, <2>1 DEF Registered, OneListener, regVars
<1>8. Unswitched'
  <2>1. used["auto"] + used["tap"] = 0 => s.val = server
    BY <1>1, <1>2, <1>3 DEF Unswitched
  <2>2. QED
    BY <1>1, <1>5, <2>1 DEF Unswitched, docVars, viewVars
<1>9. Course'
  <2>1. SUFFICES ASSUME NEW w \in Visits, listener[w] \in Following, View # "none"
                 PROVE  OnCourse(mainq', owner, live, isOn, w, View)
    BY <1>1 DEF Course, Following, regVars, viewVars
  <2>2. OnCourse(mainq, owner, live, isOn, w, View)
    BY <1>1, <2>1 DEF Course
  <2>3. 1 \notin Due(mainq, owner, live, 2, w)
    BY <1>1, <1>2 DEF Due
  <2>4. CASE owner[b.reg] = w /\ b.reg \in live
    <3>1. 1 \in Due(mainq, owner, live, 1, w)
      BY <1>1, <1>2, <2>4 DEF Due
    <3>2. QED
      BY <1>1, <1>2, <1>3, <2>2, <2>4, <3>1, HopCourse DEF t
  <2>5. CASE ~(owner[b.reg] = w /\ b.reg \in live)
    <3>1. 1 \notin Due(mainq, owner, live, 1, w)
      BY <1>1, <1>2, <2>5 DEF Due
    <3>2. OnCourse(t, owner, live, isOn, w, View)
      BY <1>1, <2>2, <2>3, <3>1, TailCourse DEF t
    <3>3. CASE b.reg \in live
      BY <1>1, <1>2, <1>3, <2>5, <3>2, <3>3, AppendCourse
    <3>4. CASE b.reg \notin live
      BY <1>1, <3>2, <3>4
    <3>5. QED
      BY <3>3, <3>4
  <2>6. QED
    BY <2>4, <2>5
<1>10. QED
  BY <1>1, <1>6, <1>7, <1>8, <1>9 DEF IInv, Asked

(* A snapshot's body: its visit shows what it carries. *)
LEMMA RunSnapshotStep ==
    ASSUME ConstantsAssumption, IInv, RunSnapshot PROVE IInv'
<1> DEFINE b == Head(mainq)
           t == Tail(mainq)
           v == owner[b.reg]
<1>1. /\ TypeOK /\ Registered /\ Course /\ Unswitched /\ Asked
      /\ mainq \in Seq(Block) /\ mainq # <<>> /\ b.kind = "snapshot" /\ b.hop = 2
      /\ notes' = IF Announces(v, b.val) THEN notes + 1 ELSE notes
      /\ isOn' = [isOn EXCEPT ![v] = b.val]
      /\ isLoading' = [isLoading EXCEPT ![v] = FALSE]
      /\ mainq' = t
      /\ UNCHANGED <<known, docVars, pageVars, asked, regVars, used>>
      /\ View' = View
  BY Types DEF IInv, RunSnapshot, View, docVars, Spinner
<1>2. /\ b = mainq[1] /\ b \in Block /\ b.reg \in Regs /\ b.val \in Power
      /\ t \in Seq(Block) /\ Len(t) = Len(mainq) - 1 /\ Len(mainq) \in Nat \ {0}
      /\ \A i \in 1 .. Len(mainq) - 1 : t[i] = mainq[i + 1]
      /\ 1 \in 1 .. Len(mainq)
  BY <1>1, Rest, BlockFields
<1>3. v \in Visits
  <2>1. v \in 0 .. MaxVisit /\ v # 0
    BY <1>1, <1>2, Types DEF Registered
  <2>2. QED
    BY <2>1 DEF Visits, ConstantsAssumption
<1> HIDE DEF b, t, v
<1>4. \A i \in 1 .. Len(t) : \E k \in 1 .. Len(mainq) : t[i] = mainq[k]
  <2>1. TAKE i \in 1 .. Len(t)
  <2>2. i + 1 \in 1 .. Len(mainq) /\ t[i] = mainq[i + 1]
    BY <1>2
  <2>3. QED
    BY <2>2
<1>5. /\ isOn' \in [Visits -> Power \cup {"nil"}]
      /\ isLoading' \in [Visits -> BOOLEAN]
      /\ isOn'[v] = b.val
      /\ \A w \in Visits : w # v => isOn'[w] = isOn[w] /\ isLoading'[w] = isLoading[w]
  BY <1>1, <1>2, <1>3, Types
<1>6. TypeOK'
  <2>1. notes' \in Nat
    BY <1>1 DEF TypeOK
  <2>2. \A w \in Visits : isOn'[w] = "nil" => isLoading'[w]
    BY <1>1, <1>2, <1>5 DEF TypeOK, Power
  <2>3. QED
    BY <1>1, <1>2, <1>5, <2>1, <2>2 DEF TypeOK, docVars, pageVars, regVars
<1>7. Registered'
  BY <1>1, <1>4 DEF Registered, OneListener, regVars
<1>8. Unswitched'
  <2>1. SUFFICES ASSUME used["auto"] + used["tap"] = 0
                 PROVE  /\ notes' = 0 /\ writes = <<>> /\ cache \in {"none", server}
                        /\ \A i \in 1 .. Len(mainq') :
                             mainq'[i].kind = "snapshot" => mainq'[i].val = server
                        /\ \A w \in Visits : isOn'[w] \in {"nil", server}
    BY <1>1 DEF Unswitched, docVars
  <2>2. b.val = server
    BY <1>1, <1>2, <2>1 DEF Unswitched
  <2>3. ~Announces(v, b.val)
    BY <1>1, <1>3, <2>1, <2>2 DEF Unswitched, Announces, Power
  <2>4. \A w \in Visits : isOn'[w] \in {"nil", server}
    BY <1>1, <1>5, <2>1, <2>2 DEF Unswitched
  <2>5. QED
    BY <1>1, <1>4, <2>1, <2>3, <2>4 DEF Unswitched
<1>9. Course'
  <2>1. SUFFICES ASSUME NEW w \in Visits, listener[w] \in Following, View # "none"
                 PROVE  OnCourse(t, owner, live, isOn', w, View)
    BY <1>1 DEF Course, Following, regVars
  <2>2. OnCourse(mainq, owner, live, isOn, w, View)
    BY <1>1, <2>1 DEF Course
  <2>3. 1 \notin Due(mainq, owner, live, 1, w)
    BY <1>1, <1>2 DEF Due
  <2>4. CASE w = v
    <3>1. 1 \in Due(mainq, owner, live, 2, w)
      BY <1>1, <1>2, <2>4 DEF Due, v
    <3>2. isOn'[w] = mainq[1].val
      BY <1>2, <1>5, <2>4
    <3>3. QED
      BY <1>1, <2>2, <2>3, <3>1, <3>2, BodyCourse DEF t
  <2>5. CASE w # v
    <3>1. 1 \notin Due(mainq, owner, live, 2, w)
      BY <1>1, <1>2, <2>5 DEF Due, v
    <3>2. OnCourse(t, owner, live, isOn, w, View)
      BY <1>1, <2>2, <2>3, <3>1, TailCourse DEF t
    <3>3. QED
      BY <1>5, <2>5, <3>2 DEF OnCourse
  <2>6. QED
    BY <2>4, <2>5
<1>10. QED
  BY <1>1, <1>6, <1>7, <1>8, <1>9 DEF IInv, Asked

(* The listeners are told of the view; the registrations stay.             *)
LEMMA EmitStep ==
    ASSUME ConstantsAssumption, IInv, UNCHANGED regVars,
           NEW val \in Doc, mainq' = Emit(mainq, val), View' = val
    PROVE  /\ mainq' \in Seq(Block)
           /\ Registered' /\ Course'
           /\ \A i \in 1 .. Len(mainq') : mainq'[i].kind = "snapshot" =>
                (\E k \in 1 .. Len(mainq) : mainq'[i] = mainq[k]) \/ mainq'[i].val = val
<1>1. /\ mainq \in Seq(Block) /\ live \in SUBSET Regs /\ \A r \in live : owner[r] # 0
      /\ live' = live /\ owner' = owner /\ listener' = listener
      /\ Following' = Following /\ Following \in SUBSET live
      /\ Registered /\ Len(mainq) \in Nat
  BY Types, LenProperties DEF IInv, regVars, Following
<1>2. Emitted(mainq, val, mainq')
  BY <1>1, Emits
<1>3. /\ mainq' \in Seq(Block) /\ Len(mainq') \in Nat
      /\ \A i \in 1 .. Len(mainq) : mainq'[i] = mainq[i]
      /\ \A i \in 1 .. Len(mainq') : i > Len(mainq) =>
           val # "none" /\ \E r \in Following : mainq'[i] = SnapshotBlock(r, val, 1)
  BY <1>2, LenProperties DEF Emitted
<1>4. ASSUME NEW i \in 1 .. Len(mainq')
      PROVE  \/ \E k \in 1 .. Len(mainq) : mainq'[i] = mainq[k]
             \/ mainq'[i].val = val /\ mainq'[i].reg \in live
  <2>1. CASE i \in 1 .. Len(mainq)
    BY <1>3, <2>1
  <2>2. CASE i > Len(mainq)
    <3>1. PICK r \in Following : mainq'[i] = SnapshotBlock(r, val, 1)
      BY <1>3, <2>2
    <3>2. val \in Power
      BY <1>3, <2>2 DEF Doc
    <3>3. QED
      BY <1>1, <3>1, <3>2, Snapshot
  <2>3. QED
    BY <1>1, <1>3, <2>1, <2>2
<1>5. Registered'
  BY <1>1, <1>4 DEF Registered, OneListener
<1>6. Course'
  <2>1. SUFFICES ASSUME NEW v \in Visits, listener[v] \in Following, val # "none"
                 PROVE  OnCourse(mainq', owner, live, isOn', v, val)
    BY <1>1 DEF Course
  <2>2. owner[listener[v]] = v /\ val \in Power
    <3>1. listener[v] # 0
      BY <1>1, <2>1 DEF Regs
    <3>2. QED
      BY <1>1, <2>1, <3>1 DEF Registered, Doc
  <2>3. QED
    BY <1>1, <1>2, <2>1, <2>2, EmitDue
<1>7. QED
  BY <1>3, <1>4, <1>5, <1>6

(* A switch is touched: the write is pending and the listeners are told. *)
LEMMA PatchStep ==
    ASSUME ConstantsAssumption, IInv, NEW src \in {"detail", "card"}, NEW s \in Power,
           Patch(src, s), UNCHANGED <<known, server, fresh, cache, pageVars, asked, regVars>>,
           isOn' \in [Visits -> Power \cup {"nil"}],
           \A v \in Visits : isOn'[v] = "nil" => isOn[v] = "nil",
           UNCHANGED <<isLoading, notes>>
    PROVE  IInv'
<1>1. TypeOK /\ Asked /\ cache' = cache
  BY DEF IInv
<1>2. writes' \in Seq(Patches)
  <2>1. [src |-> src, isOn |-> s] \in Patches
    BY DEF Patches
  <2>2. QED
    BY <1>1, <2>1, Types, OneMore DEF Patch
<1>3. View' \in Doc /\ mainq' = Emit(mainq, View')
  BY <1>1, <1>2, Types, ViewType DEF View, Patch
<1>4. mainq' \in Seq(Block) /\ Registered' /\ Course'
  BY <1>3, EmitStep
<1>5. /\ used' \in [Counters -> Nat] /\ used'["tap"] = used["tap"] + 1
      /\ used'["auto"] = used["auto"] /\ used'["appear"] = used["appear"]
      /\ used["tap"] \in Nat /\ used["auto"] \in Nat
  BY <1>1, Types, BumpType DEF Counters, Patch
<1>6. TypeOK'
  BY <1>1, <1>2, <1>4, <1>5 DEF TypeOK, pageVars, regVars, Patches
<1>7. Unswitched'
  <2>1. used'["auto"] + used'["tap"] # 0
    BY <1>5
  <2>2. QED
    BY <2>1 DEF Unswitched
<1>8. Asked'
  BY <1>1, <1>5 DEF Asked
<1>9. QED
  BY <1>4, <1>6, <1>7, <1>8 DEF IInv

LEMMA SwitchStep ==
    ASSUME ConstantsAssumption, IInv, PowerSwitch \/ CardSwitch PROVE IInv'
<1>1. TypeOK /\ isOn \in [Visits -> Power \cup {"nil"}]
  BY Types DEF IInv
<1>2. CASE PowerSwitch
  <2>1. Flip(isOn[visit]) \in Power
    BY DEF Flip, Power
  <2>2. Patch("detail", Flip(isOn[visit]))
        /\ isOn' = [isOn EXCEPT ![visit] = Flip(@)]
        /\ UNCHANGED <<known, server, fresh, cache, pageVars, asked, regVars,
                       isLoading, notes>>
    BY <1>2 DEF PowerSwitch
  <2>3. isOn' \in [Visits -> Power \cup {"nil"}]
        /\ \A v \in Visits : isOn'[v] = "nil" => isOn[v] = "nil"
    BY <1>1, <2>1, <2>2 DEF Power
  <2>4. QED
    BY <2>1, <2>2, <2>3, PatchStep
<1>3. CASE CardSwitch
  <2>1. PICK s \in Power : Patch("card", s)
    BY <1>3 DEF CardSwitch
  <2>2. UNCHANGED <<known, server, fresh, cache, pageVars, asked, regVars, viewVars>>
    BY <1>3 DEF CardSwitch
  <2>3. QED
    BY <1>1, <2>1, <2>2, PatchStep DEF viewVars
<1>4. QED
  BY <1>2, <1>3

(* What leaves the pending writes is still seen: in the cached document,   *)
(* or behind a later write.                                                *)
LEMMA CommittedView ==
    ASSUME NEW c \in Doc, NEW ws \in Seq(Patches),
           ws # <<>>, NEW d, d = IF c = "none" THEN c ELSE Head(ws).isOn
    PROVE  d \in Doc /\ (c # "none" => LocalView(d, Tail(ws)) = LocalView(c, ws))
<1>1. /\ Len(ws) \in Nat \ {0} /\ Head(ws) = ws[1] /\ Tail(ws) \in Seq(Patches)
      /\ ws[1] \in Patches
      /\ Len(Tail(ws)) = Len(ws) - 1
      /\ \A i \in 1 .. Len(ws) - 1 : Tail(ws)[i] = ws[i + 1]
  BY Rest
<1>2. d \in Doc /\ (c # "none" => d # "none")
  BY <1>1 DEF Doc, Power, Patches
<1>3. CASE Tail(ws) = <<>>
  <2>1. Len(ws) = 1
    BY <1>1, <1>3, EmptySeq
  <2>2. QED
    BY <1>1, <1>2, <1>3, <2>1 DEF LocalView
<1>4. CASE Tail(ws) # <<>>
  <2>1. Len(Tail(ws)) # 0 /\ Len(Tail(ws)) \in Nat
    BY <1>1, <1>4, EmptySeq, LenProperties
  <2>2. Len(ws) - 1 \in 1 .. Len(ws) - 1 /\ (Len(ws) - 1) + 1 = Len(ws)
    BY <1>1, <2>1
  <2>3. Tail(ws)[Len(Tail(ws))] = ws[Len(ws)]
    BY <1>1, <2>2
  <2>4. QED
    BY <1>2, <1>4, <2>3 DEF LocalView
<1>5. QED
  BY <1>2, <1>3, <1>4

LEMMA CommitStep ==
    ASSUME ConstantsAssumption, IInv, Commit PROVE IInv'
<1> DEFINE w == Head(writes)
<1>1. /\ TypeOK /\ Asked /\ Unswitched /\ writes \in Seq(Patches) /\ writes # <<>>
      /\ cache \in Doc
      /\ server' = w.isOn
      /\ cache' = IF cache = "none" THEN cache ELSE w.isOn
      /\ writes' = Tail(writes)
      /\ mainq' = IF w.src = "card" THEN Emit(mainq, View') ELSE mainq
      /\ fresh' = (fresh \/ cache = "none")
      /\ UNCHANGED <<known, pageVars, asked, regVars, viewVars, used>>
  BY Types DEF IInv, Commit, View
<1>2. w \in Patches /\ Tail(writes) \in Seq(Patches)
  BY <1>1, Rest
<1>3. cache' \in Doc /\ (cache # "none" => View' = View)
  BY <1>1, CommittedView DEF View
<1>4. cache = "none" => View' = "none"
  BY <1>1 DEF View, LocalView
<1>5. View' \in Doc
  BY <1>1, <1>2, <1>3, ViewType DEF View
<1>6. mainq' \in Seq(Block) /\ Registered' /\ Course'
  <2>1. CASE w.src = "card"
    <3>1. mainq' = Emit(mainq, View')
      BY <1>1, <2>1
    <3>2. QED
      BY <1>1, <1>5, <3>1, EmitStep
  <2>2. CASE w.src # "card"
    BY <1>1, <1>3, <1>4, <2>2, QuietRegs, Types DEF regVars, viewVars, Following
  <2>3. QED
    BY <2>1, <2>2
<1>7. server' \in Doc /\ fresh' \in BOOLEAN
  BY <1>1, <1>2 DEF TypeOK, Doc, Patches
<1>8. TypeOK'
  BY <1>1, <1>2, <1>3, <1>6, <1>7 DEF TypeOK, pageVars, regVars, viewVars, Patches
<1>9. Unswitched' /\ Asked'
  BY <1>1 DEF Unswitched, Asked
<1>10. QED
  BY <1>6, <1>8, <1>9 DEF IInv

LEMMA RejectStep ==
    ASSUME ConstantsAssumption, IInv, Reject PROVE IInv'
<1>1. /\ TypeOK /\ Asked /\ Unswitched /\ writes \in Seq(Patches) /\ writes # <<>>
      /\ cache \in Doc /\ cache' = cache
      /\ writes' = Tail(writes)
      /\ mainq' = Emit(mainq, View')
      /\ UNCHANGED <<known, server, fresh, pageVars, asked, regVars, viewVars, used>>
  BY Types DEF IInv, Reject, View, Undo
<1>2. Tail(writes) \in Seq(Patches)
  BY <1>1, Rest
<1>3. View' \in Doc
  BY <1>1, <1>2, ViewType DEF View
<1>4. mainq' \in Seq(Block) /\ Registered' /\ Course'
  BY <1>1, <1>3, EmitStep
<1>5. TypeOK'
  BY <1>1, <1>2, <1>4 DEF TypeOK, pageVars, regVars, viewVars, Patches
<1>6. Unswitched' /\ Asked'
  BY <1>1 DEF Unswitched, Asked
<1>7. QED
  BY <1>4, <1>5, <1>6 DEF IInv

LEMMA WatchStep ==
    ASSUME ConstantsAssumption, IInv, Watch PROVE IInv'
<1>1. /\ TypeOK /\ Asked /\ Unswitched
      /\ server \in Doc /\ cache' = server /\ fresh' = FALSE
      /\ mainq' = Emit(mainq, View')
      /\ UNCHANGED <<known, server, writes, pageVars, asked, regVars, viewVars, used>>
  BY Types DEF IInv, Watch, View
<1>2. View' \in Doc /\ (writes = <<>> => View' = server)
  BY <1>1, Types, ViewType DEF View, LocalView
<1>3. /\ mainq' \in Seq(Block) /\ Registered' /\ Course'
      /\ \A i \in 1 .. Len(mainq') : mainq'[i].kind = "snapshot" =>
           (\E k \in 1 .. Len(mainq) : mainq'[i] = mainq[k]) \/ mainq'[i].val = View'
  BY <1>1, <1>2, EmitStep
<1>4. TypeOK'
  BY <1>1, <1>3 DEF TypeOK, pageVars, regVars, viewVars
<1>5. Unswitched' /\ Asked'
  BY <1>1, <1>2, <1>3 DEF Unswitched, Asked, viewVars
<1>6. QED
  BY <1>3, <1>4, <1>5 DEF IInv

LEMMA AutomateStep ==
    ASSUME ConstantsAssumption, IInv, NEW s \in Power, Automate(s) PROVE IInv'
<1>1. /\ TypeOK /\ Asked /\ Bump("auto") /\ server' = s /\ fresh' = TRUE
      /\ UNCHANGED <<known, cache, writes, mainq, pageVars, asked, regVars, viewVars>>
  BY DEF IInv, Automate
<1>2. /\ used' \in [Counters -> Nat] /\ used'["auto"] = used["auto"] + 1
      /\ used'["tap"] = used["tap"] /\ used'["appear"] = used["appear"]
      /\ used["tap"] \in Nat /\ used["auto"] \in Nat
  BY <1>1, Types, BumpType DEF Counters
<1>3. TypeOK'
  BY <1>1, <1>2 DEF TypeOK, pageVars, regVars, viewVars, Doc
<1>4. Unswitched'
  <2>1. used'["auto"] + used'["tap"] # 0
    BY <1>2
  <2>2. QED
    BY <2>1 DEF Unswitched
<1>5. Asked'
  BY <1>1, <1>2 DEF Asked
<1>6. Registered' /\ Course'
  BY <1>1, QuietRegs DEF regVars, viewVars, View, Following
<1>7. QED
  BY <1>3, <1>4, <1>5, <1>6 DEF IInv

-----------------------------------------------------------------------------
LEMMA InitInv ==
    ASSUME ConstantsAssumption, Init PROVE IInv
<1>1. MaxVisit \in Nat /\ MaxAppear \in Nat /\ Len(mainq) = 0 /\ mainq = <<>>
  BY DEF Init, ConstantsAssumption
<1>2. TypeOK
  <2>1. /\ asked \in [Visits -> 0 .. MaxAppear] /\ owner \in [Regs -> 0 .. MaxVisit]
        /\ listener \in [Visits -> 0 .. MaxAppear] /\ visit \in 0 .. MaxVisit
    BY <1>1 DEF Init
  <2>2. writes \in Seq(Patches) /\ mainq \in Seq(Block)
    BY EmptySeq DEF Init
  <2>3. /\ isLoading \in [Visits -> BOOLEAN] /\ isOn \in [Visits -> Power \cup {"nil"}]
        /\ \A v \in Visits : isLoading[v]
        /\ used \in [Counters -> Nat] /\ notes \in Nat
    BY DEF Init
  <2>4. /\ known \in BOOLEAN /\ fresh \in BOOLEAN /\ entry \in BOOLEAN
        /\ open \in BOOLEAN /\ crashed \in BOOLEAN /\ server \in Doc /\ cache \in Doc
        /\ failed = {} /\ live = {} /\ ended = {}
    BY DEF Init, Doc
  <2>5. QED
    BY <2>1, <2>2, <2>3, <2>4 DEF TypeOK, Patches
<1>3. Asked /\ Unswitched
  BY <1>1 DEF Init, Asked, Unswitched, Counters
<1>4. Registered /\ Course
  BY <1>1 DEF Init, Registered, OneListener, Course, Following
<1>5. QED
  BY <1>2, <1>3, <1>4 DEF IInv

LEMMA StepInv ==
    ASSUME ConstantsAssumption, IInv, [Next]_vars PROVE IInv'
<1>1. CASE UNCHANGED vars
  <2>1. UNCHANGED <<known, docVars, mainq, entry, regVars, viewVars>>
        /\ UNCHANGED <<visit, open, asked, failed, crashed, used>>
    BY <1>1 DEF vars, docVars, regVars, viewVars
  <2>2. QED
    BY <2>1, LookupStep DEF IInv, TypeOK, Asked
<1>2. CASE Next
  BY <1>2, EntryFilledStep, OpenScreenStep, AppearAgainStep, CloseScreenStep,
     DeviceMissingStep, DeviceFoundStep, RunDeviceStep, ListenerErrorStep, RedispatchStep, RunSnapshotStep,
     SwitchStep, CommitStep, RejectStep, WatchStep, AutomateStep DEF Next, MainQueue
<1>3. QED
  BY <1>1, <1>2

(* The invariant holds in every behaviour.                                 *)
THEOREM Invariance == Spec => []IInv
<1>1. Init => IInv
  BY ConstantsAssumption, InitInv
<1>2. IInv /\ [Next]_vars => IInv'
  BY ConstantsAssumption, StepInv
<1>3. QED
  BY <1>1, <1>2, PTL DEF Spec

(* Every variable has its type: a registration in force has an owner, and  *)
(* a visit without a device is still loading.                              *)
THEOREM TypeCorrect == Spec => []TypeOK
<1>1. IInv => TypeOK
  BY DEF IInv
<1>2. QED
  BY <1>1, Invariance, PTL

(* "Ensure only one listener": whatever lookups are in flight and in       *)
(* whatever order fetchDevice's callbacks run, a view model has no         *)
(* listener in force but the one it can remove.                            *)
THEOREM OneListenerHolds == Spec => []OneListener
<1>1. IInv => OneListener
  BY DEF IInv, Registered
<1>2. QED
  BY <1>1, Invariance, PTL

(* A notification is only sent when somebody has switched the device: not  *)
(* for a first snapshot, a repeated one or a second lookup.                *)
THEOREM AnnouncesChangesHolds == Spec => []AnnouncesChanges
<1>1. ASSUME IInv PROVE AnnouncesChanges
  <2>1. used["auto"] \in Nat /\ used["tap"] \in Nat /\ notes \in Nat
    BY <1>1, Types DEF IInv, TypeOK, Counters
  <2>2. used["auto"] + used["tap"] = 0 => notes = 0
    BY <1>1 DEF IInv, Unswitched
  <2>3. QED
    BY <2>1, <2>2 DEF AnnouncesChanges
<1>2. QED
  BY <1>1, Invariance, PTL

(* The power switch never stays wrong: every visit that listens, on screen *)
(* or left behind, will show the client's view of the document when what   *)
(* is queued has run, whatever is switched meanwhile, unless Firestore     *)
(* ended its listener with an error.                                       *)
THEOREM MirrorsDocumentHolds == Spec => []MirrorsDocument
<1>1. ASSUME IInv PROVE MirrorsDocument
  <2>1. DOMAIN mainq = 1 .. Len(mainq)
    BY <1>1, Types, LenProperties DEF IInv
  <2>2. ASSUME NEW v \in Visits, listener[v] \in Following, View # "none"
        PROVE  Latest(v) = View
    BY <1>1, <2>1, <2>2, CourseIsLatest DEF IInv, Course
  <2>3. QED
    BY <2>2 DEF MirrorsDocument, View
<1>2. QED
  BY <1>1, Invariance, PTL

===============================================================================
