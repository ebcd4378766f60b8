--------------------------- MODULE DeviceSyncProofs ---------------------------
(***************************************************************************)
(* Proofs about DeviceSync for every set of devices and every value of the *)
(* bounds: the type invariant, the discipline of the card's switch, and    *)
(* the list that is published whole.                                       *)
(***************************************************************************)
EXTENDS DeviceSync, SequenceTheorems, TLAPS

-----------------------------------------------------------------------------
(* Queues.                                                                 *)

(* Appending an element from outside E does not change how often E occurs. *)
LEMMA AppendOther ==
    ASSUME NEW T, NEW E, NEW q \in Seq(T), NEW x \in T, x \notin E
    PROVE  /\ None(q, E) => None(Append(q, x), E)
           /\ One(q, E) => One(Append(q, x), E)
  <1>1. /\ Len(Append(q, x)) = Len(q) + 1
        /\ DOMAIN Append(q, x) = 1 .. Len(q) + 1
        /\ DOMAIN q = 1 .. Len(q)
        /\ Len(q) \in Nat
        /\ Append(q, x)[Len(q) + 1] = x
        /\ \A i \in 1 .. Len(q) : Append(q, x)[i] = q[i]
    OBVIOUS
  <1>2. QED
    BY <1>1 DEF None, One

(* Appending an element of E to a queue without any makes it the only one. *)
LEMMA AppendOwn ==
    ASSUME NEW T, NEW E, NEW q \in Seq(T), NEW x \in T, x \in E, None(q, E)
    PROVE  One(Append(q, x), E)
  <1>1. /\ DOMAIN Append(q, x) = 1 .. Len(q) + 1
        /\ DOMAIN q = 1 .. Len(q)
        /\ Len(q) \in Nat
        /\ Append(q, x)[Len(q) + 1] = x
        /\ \A i \in 1 .. Len(q) : Append(q, x)[i] = q[i]
    OBVIOUS
  <1>2. QED
    BY <1>1 DEF None, One

(* Taking the head off a queue: if it is not in E nothing changes, if it   *)
(* was the only element of E none is left.                                 *)
LEMMA TailOther ==
    ASSUME NEW T, NEW E, NEW q \in Seq(T), q # <<>>, Head(q) \notin E
    PROVE  /\ None(q, E) => None(Tail(q), E)
           /\ One(q, E) => One(Tail(q), E)
  <1>1. /\ DOMAIN Tail(q) = 1 .. Len(q) - 1
        /\ DOMAIN q = 1 .. Len(q)
        /\ Len(q) \in Nat
        /\ Head(q) = q[1]
        /\ \A i \in 1 .. Len(q) - 1 : Tail(q)[i] = q[i + 1]
    OBVIOUS
  <1>2. None(q, E) => None(Tail(q), E)
    BY <1>1 DEF None
  <1>3. ASSUME One(q, E) PROVE One(Tail(q), E)
    <2>1. PICK k \in DOMAIN q : q[k] \in E /\ \A j \in DOMAIN q : q[j] \in E => j = k
      BY <1>3 DEF One
    <2>2. k - 1 \in DOMAIN Tail(q) /\ Tail(q)[k - 1] \in E
      BY <1>1, <2>1
    <2>3. \A j \in DOMAIN Tail(q) : Tail(q)[j] \in E => j = k - 1
      BY <1>1, <2>1
    <2>4. QED
      BY <2>2, <2>3 DEF One
  <1>4. QED
    BY <1>2, <1>3

LEMMA TailOwn ==
    ASSUME NEW T, NEW E, NEW q \in Seq(T), q # <<>>, Head(q) \in E, One(q, E)
    PROVE  None(Tail(q), E)
  <1>1. /\ DOMAIN Tail(q) = 1 .. Len(q) - 1
        /\ DOMAIN q = 1 .. Len(q)
        /\ Len(q) \in Nat
        /\ Len(q) >= 1
        /\ Head(q) = q[1]
        /\ \A i \in 1 .. Len(q) - 1 : Tail(q)[i] = q[i + 1]
    OBVIOUS
  <1>2. QED
    BY <1>1 DEF None, One

LEMMA NoneOnce ==
    ASSUME NEW E, NEW q, None(q, E)
    PROVE  ~One(q, E)
  BY DEF None, One

-----------------------------------------------------------------------------
(* Types.                                                                  *)

LEMMA LocalViewType ==
    ASSUME TypeOK, NEW c \in [Days -> [Devices -> Doc]], NEW ws,
           NEW day \in Days, NEW d \in Devices
    PROVE  LocalView(c, ws, day, d) \in Doc
  BY DEF LocalView, Doc, Power

LEMMA LocalDocsType ==
    ASSUME TypeOK, NEW c \in [Days -> [Devices -> Doc]], NEW ws, NEW day \in Days
    PROVE  LocalDocs(c, ws, day) \in [Devices -> Doc]
  BY LocalViewType DEF LocalDocs

LEMMA SnapshotType ==
    ASSUME NEW r \in 1 .. MaxAppear, NEW docs \in [Devices -> Doc],
           NEW hop \in {1, 2}
    PROVE  SnapshotBlock(r, docs, hop) \in Block
  BY DEF SnapshotBlock, Block

LEMMA CompletionType ==
    ASSUME NEW w \in Write, NEW ok \in Outcome, NEW hop \in {1, 2}
    PROVE  CompletionBlock(w, ok, hop) \in Block
  BY DEF CompletionBlock, Block, Write

(* What the client adds to a queue for the energy listener is nothing or   *)
(* one snapshot.                                                           *)
LEMMA QueueEmit ==
    ASSUME TypeOK, NEW c \in [Days -> [Devices -> Doc]], NEW ws, NEW day \in Days,
           NEW q \in Seq(Block)
    PROVE  \/ Emit(q, c, ws, day) = q
           \/ \E b \in Block : /\ b.kind = "snapshot"
                               /\ Emit(q, c, ws, day) = Append(q, b)
  <1>1. CASE reg = 0 \/ Emit(q, c, ws, day) = q
    BY <1>1 DEF Emit, Following
  <1>2. CASE reg # 0 /\ Emit(q, c, ws, day) # q
    <2>1. reg \in 1 .. MaxAppear
      BY <1>2, ConstantsAssumption DEF TypeOK, ScreenOK
    <2>2. SnapshotBlock(reg, LocalDocs(c, ws, day), 1) \in Block
      BY <2>1, LocalDocsType, SnapshotType
    <2>3. Emit(q, c, ws, day)
            = Append(q, SnapshotBlock(reg, LocalDocs(c, ws, day), 1))
      BY <1>2 DEF Emit, Following
    <2>4. SnapshotBlock(reg, LocalDocs(c, ws, day), 1).kind = "snapshot"
      BY DEF SnapshotBlock
    <2>5. QED
      BY <2>2, <2>3, <2>4
  <1>3. QED
    BY <1>1, <1>2

LEMMA QueueEmitType ==
    ASSUME TypeOK, NEW c \in [Days -> [Devices -> Doc]], NEW ws, NEW day \in Days,
           NEW q \in Seq(Block)
    PROVE  Emit(q, c, ws, day) \in Seq(Block)
  <1>1. \A b \in Block : Append(q, b) \in Seq(Block)
    OBVIOUS
  <1>2. \/ Emit(q, c, ws, day) = q
        \/ \E b \in Block : /\ b.kind = "snapshot"
                            /\ Emit(q, c, ws, day) = Append(q, b)
    BY QueueEmit
  <1>3. QED
    BY <1>1, <1>2, Zenon

(* The answer to a write adds its completion, if it has one, and then at   *)
(* most one snapshot.                                                      *)
LEMMA QueueAnswered ==
    ASSUME TypeOK, NEW c \in [Days -> [Devices -> Doc]], NEW ws, NEW w \in Write,
           NEW o \in Outcome
    PROVE  /\ Completion(mainq, w, o) \in Seq(Block)
           /\ \/ Answered(w, o, c, ws) = Completion(mainq, w, o)
              \/ \E b \in Block :
                   /\ b.kind = "snapshot"
                   /\ Answered(w, o, c, ws) = Append(Completion(mainq, w, o), b)
  <1>1. w.day \in Days /\ mainq \in Seq(Block)
    BY DEF Write, TypeOK
  <1>2. Completion(mainq, w, o) \in Seq(Block)
    BY <1>1, CompletionType DEF Completion
  <1>3. \/ Answered(w, o, c, ws) = Completion(mainq, w, o)
        \/ Answered(w, o, c, ws) = Emit(Completion(mainq, w, o), c, ws, w.day)
    BY DEF Answered
  <1>4. QED
    BY <1>1, <1>2, <1>3, QueueEmit

LEMMA QueueAnsweredType ==
    ASSUME TypeOK, NEW c \in [Days -> [Devices -> Doc]], NEW ws, NEW w \in Write,
           NEW o \in Outcome
    PROVE  Answered(w, o, c, ws) \in Seq(Block)
  BY QueueAnswered

LEMMA BumpType ==
    ASSUME used \in [Counters -> Nat], NEW k \in Counters, Bump(k)
    PROVE  used' \in [Counters -> Nat]
  BY DEF Bump

(* What one getDocument of a load brings, an answer or an error.           *)
LEMMA EnergyAnswer ==
    ASSUME TypeOK, NEW l \in Loads, NEW d \in Devices,
           AnswerEnergy(l, d) \/ FailEnergy(l, d)
    PROVE  /\ loads[l] \in Load /\ d \in loads[l].want
           /\ loads' = [loads EXCEPT ![l].want = @ \ {d}]
           /\ \E v \in Doc : /\ mainq' = Append(mainq, EnergyBlock(l, d, v, 1))
                             /\ EnergyBlock(l, d, v, 1) \in Block
           /\ used' \in [Counters -> Nat]
           /\ UNCHANGED <<storeVars, asked, shown, cardVars, screenVars, today, launch>>
  <1>1. /\ loads[l] \in Load /\ d \in loads[l].want
        /\ loads' = [loads EXCEPT ![l].want = @ \ {d}]
        /\ UNCHANGED <<storeVars, asked, shown, cardVars, screenVars, today, launch>>
    BY DEF AnswerEnergy, FailEnergy, TypeOK, LoadOK
  <1>2. loads[l].day \in Days
    BY <1>1, ConstantsAssumption DEF Load, Days
  <1>3. \A v \in Doc : EnergyBlock(l, d, v, 1) \in Block
    BY DEF EnergyBlock, Block
  <1>4. LocalView(cache, writes, loads[l].day, d) \in Doc /\ "none" \in Doc
    BY <1>2, LocalViewType DEF TypeOK, StoreOK, Doc
  <1>5. \E v \in Doc : mainq' = Append(mainq, EnergyBlock(l, d, v, 1))
    BY <1>4 DEF AnswerEnergy, FailEnergy
  <1>6. used' \in [Counters -> Nat]
    BY BumpType DEF AnswerEnergy, FailEnergy, TypeOK, ScreenOK, Counters
  <1>7. QED
    BY <1>1, <1>3, <1>5, <1>6

LEMMA InitType == Init => TypeOK
  <1> SUFFICES ASSUME Init PROVE TypeOK
    OBVIOUS
  <1> USE ConstantsAssumption
  <1>1. 1 \in Days
    BY DEF Days
  <1>2. StoreOK
    BY <1>1 DEF Init, StoreOK, Doc
  <1>3. IdleLoad \in Load
    BY DEF IdleLoad, Load, Entry
  <1>4. LoadOK
    BY <1>3 DEF Init, LoadOK, Entry
  <1>5. CardOK
    BY DEF Init, CardOK
  <1>6. ScreenOK
    <2>1. visible \in BOOLEAN
      BY DEF Init
    <2>2. QED
      BY <1>1, <2>1 DEF Init, ScreenOK
  <1>7. mainq \in Seq(Block)
    BY DEF Init
  <1>8. QED
    BY <1>2, <1>4, <1>5, <1>6, <1>7 DEF TypeOK

LEMMA NextType == TypeOK /\ [Next]_vars => TypeOK'
  <1> SUFFICES ASSUME TypeOK, [Next]_vars PROVE TypeOK'
    OBVIOUS
  <1> USE ConstantsAssumption DEF TypeOK
  <1>t. /\ mainq # <<>> => Tail(mainq) \in Seq(Block) /\ Head(mainq) \in Block
        /\ writes # <<>> => Tail(writes) \in Seq(Write) /\ Head(writes) \in Write
    BY DEF StoreOK
  <1>1. CASE Appear
    <2>1. used["appear"] + 1 \in 1 .. MaxAppear /\ today \in Days
      BY <1>1 DEF Appear, ScreenOK, Counters
    <2>2. LocalDocs(cache, writes, today) \in [Devices -> Doc]
      BY <2>1, LocalDocsType DEF StoreOK
    <2>3. mainq' \in Seq(Block)
      BY <1>1, <2>1, <2>2, SnapshotType DEF Appear
    <2>4. LoadOK'
      BY <1>1, <2>1 DEF Appear, LoadOK, Request
    <2>5. ScreenOK'
      BY <1>1, <2>1 DEF Appear, Bump, ScreenOK, Counters
    <2>6. QED
      BY <1>1, <2>3, <2>4, <2>5 DEF Appear, StoreOK, CardOK, storeVars, cardVars
  <1>2. CASE Disappear
    <2>1. LoadOK'
      BY <1>2 DEF Disappear, LoadOK
    <2>2. visible' \in BOOLEAN
      BY <1>2 DEF Disappear
    <2>3. ScreenOK'
      BY <1>2, <2>2 DEF Disappear, ScreenOK
    <2>4. QED
      BY <1>2, <2>1, <2>3 DEF Disappear, StoreOK, CardOK, storeVars, cardVars
  <1>3. ASSUME NEW f \in Filters, SelectFilter(f) PROVE TypeOK'
    <2>1. CardOK'
      BY <1>3 DEF SelectFilter, CardOK
    <2>2. ScreenOK'
      BY <1>3 DEF SelectFilter, Bump, ScreenOK, Counters, screenVars
    <2>3. QED
      BY <1>3, <2>1, <2>2 DEF SelectFilter, StoreOK, LoadOK, storeVars
  <1>4. ASSUME NEW q \in asked, AnswerDevices(q) PROVE TypeOK'
    <2>1. DevicesBlock(q.src, q.reg, q.day) \in Block
      BY DEF DevicesBlock, Block, LoadOK, Request
    <2>2. mainq' \in Seq(Block)
      BY <1>4, <2>1 DEF AnswerDevices
    <2>3. QED
      BY <1>4, <2>2 DEF AnswerDevices, StoreOK, LoadOK, CardOK, ScreenOK,
                        storeVars, cardVars, screenVars
  <1>5. ASSUME NEW q \in asked, FailDevices(q) PROVE TypeOK'
    <2>1. used' \in [Counters -> Nat]
      BY <1>5, BumpType DEF FailDevices, ScreenOK, Counters
    <2>2. QED
      BY <1>5, <2>1 DEF FailDevices, StoreOK, LoadOK, CardOK, ScreenOK,
                storeVars, cardVars, screenVars
  <1>t5. ASSUME NEW target \in Targets, TargetError(target) PROVE TypeOK'
    <2>1. used' \in [Counters -> Nat]
      BY <1>t5, BumpType DEF TargetError, ScreenOK, Counters
    <2>2. asked' \subseteq asked /\ ended' \subseteq Targets
      BY <1>t5 DEF TargetError, ScreenOK
    <2>3. QED
      BY <1>t5, <2>1, <2>2 DEF TargetError, StoreOK, LoadOK, CardOK, ScreenOK,
                storeVars, cardVars
  <1>6. CASE DeviceEdited
    <2>1. reg \in 1 .. MaxAppear /\ regDay \in Days
      BY <1>6 DEF DeviceEdited, ScreenOK
    <2>2. DevicesBlock("listener", reg, regDay) \in Block
      BY <2>1 DEF DevicesBlock, Block
    <2>3. mainq' \in Seq(Block)
      BY <1>6, <2>2 DEF DeviceEdited
    <2>4. ScreenOK'
      BY <1>6 DEF DeviceEdited, Bump, ScreenOK, Counters, screenVars
    <2>5. QED
      BY <1>6, <2>3, <2>4 DEF DeviceEdited, StoreOK, LoadOK, CardOK,
                              storeVars, cardVars
  <1>7. ASSUME NEW l \in Loads, NEW d \in Devices,
               AnswerEnergy(l, d) \/ FailEnergy(l, d)
        PROVE  TypeOK'
    <2>1. PICK v \in Doc : /\ mainq' = Append(mainq, EnergyBlock(l, d, v, 1))
                           /\ EnergyBlock(l, d, v, 1) \in Block
      BY <1>7, EnergyAnswer
    <2>2. /\ loads[l] \in Load /\ used' \in [Counters -> Nat]
          /\ loads' = [loads EXCEPT ![l].want = @ \ {d}]
          /\ UNCHANGED <<storeVars, asked, shown, cardVars, screenVars, today, launch>>
      BY <1>7, EnergyAnswer
    <2>3. mainq' \in Seq(Block)
      BY <2>1
    <2>4. [loads[l] EXCEPT !.want = @ \ {d}] \in Load
      BY <2>2 DEF Load
    <2>5. LoadOK'
      BY <2>2, <2>4 DEF LoadOK
    <2>6. QED
      BY <2>2, <2>3, <2>5 DEF StoreOK, CardOK, ScreenOK, storeVars, cardVars, screenVars
  <1>8. CASE RunDevices
    <2>1. mainq' \in Seq(Block) /\ Head(mainq) \in Block
      BY <1>t, <1>8 DEF RunDevices
    <2>2. Head(mainq).day \in Days
      BY <2>1, <1>8 DEF RunDevices, Block
    <2>3. [day |-> Head(mainq).day, want |-> Devices, got |-> IdleLoad.got] \in Load
      <3>1. IdleLoad.got \in [Devices -> Entry]
        BY DEF IdleLoad, Entry
      <3>2. Head(mainq).day \in 0 .. MaxDay /\ Head(mainq).day # 0
        BY <2>2 DEF Days
      <3>3. QED
        BY <3>1, <3>2 DEF Load
    <2>4. LoadOK'
      BY <1>8, <2>3 DEF RunDevices, LoadOK
    <2>5. QED
      BY <1>8, <2>1, <2>4 DEF RunDevices, StoreOK, CardOK, ScreenOK,
                              storeVars, cardVars, screenVars
  <1>9. CASE RunEnergy
    <2>1. Head(mainq) \in Block /\ Tail(mainq) \in Seq(Block)
      BY <1>t, <1>9 DEF RunEnergy
    <2>2. /\ Head(mainq).load \in Loads /\ Head(mainq).dev \in Devices
          /\ Head(mainq).val \in Doc
      BY <1>9, <2>1 DEF RunEnergy, Block
    <2>3. PICK l \in Loads, d \in Devices, v \in Doc :
            Head(mainq).load = l /\ Head(mainq).dev = d /\ Head(mainq).val = v
      BY <2>2
    <2>4. loads[l] \in Load
      BY DEF LoadOK
    <2>5. [loads[l] EXCEPT !.got = [loads[l].got EXCEPT ![d] = v]] \in Load
      BY <2>4 DEF Load, Entry
    <2>6. loads' = [loads EXCEPT ![l] =
                      [loads[l] EXCEPT !.got = [loads[l].got EXCEPT ![d] = v]]]
      BY <1>9, <2>3 DEF RunEnergy, LoadOK
    <2>7. LoadOK'
      <3>1. asked' = asked /\ shown' = shown
        BY <1>9 DEF RunEnergy
      <3>2. loads' \in [Loads -> Load]
        BY <2>5, <2>6 DEF LoadOK
      <3>3. QED
        BY <3>1, <3>2 DEF LoadOK
    <2>8. NotifyBlock(l) \in Block
      BY DEF NotifyBlock, Block
    <2>9. mainq' \in Seq(Block)
      BY <1>9, <2>1, <2>3, <2>8 DEF RunEnergy
    <2>10. QED
      BY <1>9, <2>7, <2>9 DEF RunEnergy, StoreOK, CardOK, ScreenOK,
                              storeVars, cardVars, screenVars
  <1>10. CASE RunNotify
    <2>1. Head(mainq) \in Block /\ Tail(mainq) \in Seq(Block)
      BY <1>t, <1>10 DEF RunNotify
    <2>2. Head(mainq).load \in Loads
      BY <1>10, <2>1 DEF RunNotify, Block
    <2>3. IdleLoad \in Load
      BY DEF IdleLoad, Load, Entry
    <2>4. loads[Head(mainq).load].got \in [Devices -> Entry]
      BY <2>2 DEF LoadOK, Load
    <2>5. LoadOK'
      BY <1>10, <2>2, <2>3, <2>4 DEF RunNotify, LoadOK
    <2>6. QED
      BY <1>10, <2>1, <2>5 DEF RunNotify, StoreOK, CardOK, ScreenOK,
                               storeVars, cardVars, screenVars
  <1>11. CASE RunSnapshot
    <2>1. Head(mainq) \in Block /\ Tail(mainq) \in Seq(Block)
      BY <1>t, <1>11 DEF RunSnapshot
    <2>2. Head(mainq).docs \in [Devices -> Doc]
      BY <1>11, <2>1 DEF RunSnapshot, Block
    <2>3. LoadOK'
      BY <1>11, <2>2 DEF RunSnapshot, MergeSnapshot, LoadOK, Entry
    <2>4. QED
      BY <1>11, <2>1, <2>3 DEF RunSnapshot, StoreOK, CardOK, ScreenOK,
                               storeVars, cardVars, screenVars
  <1>12. CASE Redispatch
    <2>1. Head(mainq) \in Block /\ Tail(mainq) \in Seq(Block)
      BY <1>t, <1>12 DEF Redispatch
    <2>2. [Head(mainq) EXCEPT !.hop = 2] \in Block
      BY <1>12, <2>1 DEF Redispatch, Block
    <2>3. mainq' \in Seq(Block)
      BY <1>12, <2>1, <2>2 DEF Redispatch
    <2>4. QED
      BY <1>12, <2>3 DEF Redispatch, StoreOK, LoadOK, CardOK, ScreenOK,
                         storeVars, cardVars, screenVars
  <1>13. ASSUME NEW d \in Devices, Tap(d) PROVE TypeOK'
    <2>1. ScreenOK'
      BY <1>13 DEF Tap, Bump, ScreenOK, Counters, screenVars
    <2>2. [dev |-> d, day |-> today, isOn |-> Flip(shown[d]),
           card |-> card[d], launch |-> launch] \in Write
      BY DEF ScreenOK, CardOK, Write, Flip, Power
    <2>3. StoreOK'
      BY <1>13, <2>2 DEF Tap, StoreOK
    <2>4. mainq' \in Seq(Block)
      <3>1. today \in Days /\ cache \in [Days -> [Devices -> Doc]]
        BY DEF ScreenOK, StoreOK
      <3>2. mainq' = mainq \/ mainq' = Emit(mainq, cache, writes', today)
        BY <1>13 DEF Tap
      <3>3. QED
        <4>1. CASE mainq' = mainq
          BY <4>1
        <4>2. CASE mainq' = Emit(mainq, cache, writes', today)
          BY <3>1, <4>2, QueueEmitType
        <4>3. QED
          BY <3>2, <4>1, <4>2
    <2>5. CardOK'
      BY <1>13 DEF Tap, CardOK
    <2>6. QED
      BY <1>13, <2>1, <2>3, <2>4, <2>5 DEF Tap, LoadOK
  <1>14. CASE RunCompletion
    <2>1. Head(mainq) \in Block /\ Tail(mainq) \in Seq(Block)
      BY <1>t, <1>14 DEF RunCompletion
    <2>2. Head(mainq).dev \in Devices /\ Head(mainq).isOn \in Power
      BY <1>14, <2>1 DEF RunCompletion, Block
    <2>3. LoadOK'
      BY <1>14, <2>2 DEF RunCompletion, Flip, LoadOK, Entry, Doc, Power
    <2>4. CardOK'
      BY <1>14 DEF RunCompletion, CardOK
    <2>5. QED
      BY <1>14, <2>1, <2>3, <2>4 DEF RunCompletion, StoreOK, ScreenOK,
                                     storeVars, screenVars
  <1>15. CASE Commit
    <2>1. Head(writes) \in Write /\ Tail(writes) \in Seq(Write)
      BY <1>t, <1>15 DEF Commit
    <2>2. /\ Head(writes).day \in Days /\ Head(writes).dev \in Devices
          /\ Head(writes).isOn \in Doc
      BY <2>1 DEF Write, Doc
    <2>3. StoreOK'
      BY <1>15, <2>1, <2>2 DEF Commit, StoreOK
    <2>4. mainq' = Answered(Head(writes), "ok", cache', writes')
      BY <1>15 DEF Commit
    <2>5. mainq' \in Seq(Block)
      BY <2>1, <2>3, <2>4, QueueAnsweredType DEF StoreOK, Outcome
    <2>6. QED
      BY <1>15, <2>3, <2>5 DEF Commit, LoadOK, CardOK, ScreenOK,
                               cardVars, screenVars
  <1>16. CASE Reject
    <2>1. Head(writes) \in Write /\ Tail(writes) \in Seq(Write)
      BY <1>t, <1>16 DEF Reject
    <2>2. mainq' = Answered(Head(writes), "error", cache, writes')
      BY <1>16 DEF Reject
    <2>3. mainq' \in Seq(Block)
      BY <2>1, <2>2, QueueAnsweredType DEF StoreOK, Outcome
    <2>4. QED
      BY <1>16, <2>1, <2>3 DEF Reject, StoreOK, LoadOK, CardOK, ScreenOK,
                               cardVars, screenVars
  <1>17. ASSUME NEW day \in Days, Watch(day) PROVE TypeOK'
    <2>1. StoreOK'
      BY <1>17 DEF Watch, StoreOK
    <2>2. mainq' = Emit(mainq, cache', writes, day)
      BY <1>17 DEF Watch
    <2>3. mainq' \in Seq(Block)
      BY <2>1, <2>2, QueueEmitType DEF StoreOK
    <2>4. QED
      BY <1>17, <2>1, <2>3 DEF Watch, LoadOK, CardOK, ScreenOK,
                               cardVars, screenVars
  <1>18. ASSUME NEW d \in Devices, NEW s \in Power, Automate(d, s) PROVE TypeOK'
    <2>1. ScreenOK'
      BY <1>18, SMTT(30) DEF Automate, Bump, ScreenOK, Counters, screenVars
    <2>2. StoreOK'
      BY <1>18 DEF Automate, StoreOK, ScreenOK, Doc
    <2>3. QED
      BY <1>18, <2>1, <2>2 DEF Automate, LoadOK, CardOK, cardVars
  <1>19. CASE Heartbeat
    BY <1>19 DEF Heartbeat, StoreOK, LoadOK, CardOK, ScreenOK, cardVars, screenVars
  <1>20. CASE Midnight
    <2>1. ScreenOK'
      BY <1>20 DEF Midnight, ScreenOK, Days, screenVars
    <2>2. QED
      BY <1>20, <2>1 DEF Midnight, StoreOK, LoadOK, CardOK, storeVars, cardVars
  <1>21. CASE Relaunch
    <2>1. IdleLoad \in Load
      BY DEF IdleLoad, Load, Entry
    <2>2. LoadOK'
      BY <1>21, <2>1 DEF Relaunch, LoadOK, Entry
    <2>3. CardOK'
      BY <1>21 DEF Relaunch, CardOK
    <2>4. ScreenOK'
      <3>1. visible' \in BOOLEAN
        BY <1>21 DEF Relaunch
      <3>2. used' \in [Counters -> Nat]
        BY <1>21 DEF Relaunch, ScreenOK
      <3>3. QED
        BY <1>21, <3>1, <3>2 DEF Relaunch, ScreenOK
    <2>5. QED
      BY <1>21, <2>2, <2>3, <2>4 DEF Relaunch, StoreOK, storeVars
  <1>22. CASE UNCHANGED vars
    BY <1>22 DEF vars, StoreOK, LoadOK, CardOK, ScreenOK
  <1>23. QED
    BY <1>1, <1>2, <1>3, <1>4, <1>5, <1>t5, <1>6, <1>7, <1>8, <1>9, <1>10, <1>11, <1>12,
       <1>13, <1>14, <1>15, <1>16, <1>17, <1>18, <1>19, <1>20, <1>21, <1>22
    DEF Next, MainQueue

(* Every reachable state has its type. *)
THEOREM TypeCorrect == Spec => []TypeOK
  BY InitType, NextType, PTL DEF Spec

-----------------------------------------------------------------------------
(* The switch.                                                             *)

LockInv == TypeOK /\ CardOrder /\ SwitchLock

LEMMA HeadNone ==
    ASSUME NEW T, NEW E, NEW q \in Seq(T), q # <<>>, None(q, E)
    PROVE  Head(q) \notin E
  BY DEF None

LEMMA NoneEmpty == \A E : None(<<>>, E)
  BY DEF None

(* Steps that leave the cards and the writes alone and move only blocks    *)
(* that are not completions.                                               *)
LEMMA QueueStep ==
    ASSUME LockInv, UNCHANGED <<writes, isToggling, card, launch>>,
           \/ mainq' = mainq
           \/ \E b \in Block : b.kind # "completion" /\ mainq' = Append(mainq, b)
           \/ /\ mainq # <<>> /\ Head(mainq).kind # "completion"
              /\ \/ mainq' = Tail(mainq)
                 \/ \E b \in Block : /\ b.kind # "completion"
                                     /\ mainq' = Append(Tail(mainq), b)
    PROVE  CardOrder' /\ SwitchLock'
  <1>0. mainq \in Seq(Block)
    BY DEF LockInv, TypeOK
  <1>1. ASSUME NEW E, \A b \in Block : b \in E => b.kind = "completion"
        PROVE  /\ None(mainq, E) => None(mainq', E)
               /\ One(mainq, E) => One(mainq', E)
    <2>1. CASE mainq' = mainq
      BY <2>1
    <2>2. ASSUME NEW b \in Block, b.kind # "completion", mainq' = Append(mainq, b)
          PROVE  /\ None(mainq, E) => None(mainq', E)
                 /\ One(mainq, E) => One(mainq', E)
      <3>1. b \notin E
        BY <1>1, <2>2
      <3>2. QED
        BY <1>0, <2>2, <3>1, AppendOther
    <2>3. ASSUME mainq # <<>>, Head(mainq).kind # "completion"
          PROVE  /\ Tail(mainq) \in Seq(Block)
                 /\ None(mainq, E) => None(Tail(mainq), E)
                 /\ One(mainq, E) => One(Tail(mainq), E)
      <3>1. Head(mainq) \in Block /\ Tail(mainq) \in Seq(Block)
        BY <1>0, <2>3
      <3>2. Head(mainq) \notin E
        BY <1>1, <2>3, <3>1
      <3>3. QED
        BY <1>0, <2>3, <3>1, <3>2, TailOther
    <2>4. ASSUME mainq # <<>>, Head(mainq).kind # "completion",
                 NEW b \in Block, b.kind # "completion",
                 mainq' = Append(Tail(mainq), b)
          PROVE  /\ None(mainq, E) => None(mainq', E)
                 /\ One(mainq, E) => One(mainq', E)
      <3>1. b \notin E
        BY <1>1, <2>4
      <3>2. QED
        BY <2>3, <2>4, <3>1, AppendOther
    <2>5. QED
      BY <2>1, <2>2, <2>3, <2>4
  <1>2. /\ CompletionsAhead' = CompletionsAhead /\ WritesAhead' = WritesAhead
        /\ \A d \in Devices : /\ CompletionsOf(d)' = CompletionsOf(d)
                              /\ WritesOf(d)' = WritesOf(d)
    BY DEF CompletionsAhead, WritesAhead, CompletionsOf, WritesOf
  <1>3. /\ \A b \in Block : b \in CompletionsAhead => b.kind = "completion"
        /\ \A d \in Devices : \A b \in Block :
             b \in CompletionsOf(d) => b.kind = "completion"
    BY DEF CompletionsAhead, CompletionsOf
  <1>4. CardOrder'
    <2>1. None(mainq, CompletionsAhead) => None(mainq', CompletionsAhead)
      BY <1>1, <1>3
    <2>2. QED
      BY <1>2, <2>1 DEF LockInv, CardOrder
  <1>5. SwitchLock'
    <2>1. \A d \in Devices :
            /\ None(mainq, CompletionsOf(d)) => None(mainq', CompletionsOf(d))
            /\ One(mainq, CompletionsOf(d)) => One(mainq', CompletionsOf(d))
      BY <1>1, <1>3
    <2>2. QED
      BY <1>2, <2>1 DEF LockInv, SwitchLock
  <1>6. QED
    BY <1>4, <1>5

(* A completion that is dispatched a second time stays the same answer.    *)
LEMMA RedispatchStep ==
    ASSUME LockInv, Redispatch
    PROVE  CardOrder' /\ SwitchLock'
  <1> DEFINE b == Head(mainq)
             b2 == [b EXCEPT !.hop = 2]
  <1>0. mainq \in Seq(Block) /\ mainq # <<>>
    BY DEF LockInv, TypeOK, Redispatch
  <1>1. b \in Block /\ Tail(mainq) \in Seq(Block)
    BY <1>0
  <1>2. UNCHANGED <<writes, isToggling, card, launch>>
    BY DEF Redispatch, storeVars, cardVars
  <1>3. b2 \in Block /\ b2.kind = b.kind
    BY <1>1 DEF Redispatch, Block
  <1>4. CASE b.kind # "completion"
    <2>1. mainq' = Tail(mainq) \/ mainq' = Append(Tail(mainq), b2)
      BY DEF Redispatch
    <2>2. QED
      BY <1>0, <1>2, <1>3, <1>4, <2>1, QueueStep
  <1>5. CASE b.kind = "completion"
    <2>1. mainq' = Append(Tail(mainq), b2)
      BY <1>5 DEF Redispatch
    <2>2. b2.dev = b.dev /\ b2.card = b.card
      BY <1>1, <1>5 DEF Block
    <2>3. ASSUME NEW E, b \in E <=> b2 \in E
          PROVE  /\ None(mainq, E) => None(mainq', E)
                 /\ One(mainq, E) => One(mainq', E)
      <3>1. CASE b \notin E
        <4>1. /\ None(mainq, E) => None(Tail(mainq), E)
              /\ One(mainq, E) => One(Tail(mainq), E)
          BY <1>0, <3>1, TailOther
        <4>2. /\ None(Tail(mainq), E) => None(Append(Tail(mainq), b2), E)
              /\ One(Tail(mainq), E) => One(Append(Tail(mainq), b2), E)
          BY <1>1, <1>3, <2>3, <3>1, AppendOther
        <4>3. QED
          BY <2>1, <4>1, <4>2
      <3>2. CASE b \in E
        <4>1. ~None(mainq, E)
          BY <1>0, <3>2, HeadNone
        <4>2. One(mainq, E) => None(Tail(mainq), E)
          BY <1>0, <3>2, TailOwn
        <4>3. None(Tail(mainq), E) => One(Append(Tail(mainq), b2), E)
          BY <1>1, <1>3, <2>3, <3>2, AppendOwn
        <4>4. QED
          BY <2>1, <4>1, <4>2, <4>3
      <3>3. QED
        BY <3>1, <3>2
    <2>4. /\ CompletionsAhead' = CompletionsAhead /\ WritesAhead' = WritesAhead
          /\ \A d \in Devices : /\ CompletionsOf(d)' = CompletionsOf(d)
                                /\ WritesOf(d)' = WritesOf(d)
      BY <1>2 DEF CompletionsAhead, WritesAhead, CompletionsOf, WritesOf
    <2>5. /\ b \in CompletionsAhead <=> b2 \in CompletionsAhead
          /\ \A d \in Devices : b \in CompletionsOf(d) <=> b2 \in CompletionsOf(d)
      <3> HIDE DEF b, b2
      <3> QED
        BY <1>1, <1>3, <2>2 DEF CompletionsAhead, CompletionsOf
    <2> HIDE DEF b, b2
    <2>6. None(mainq, CompletionsAhead) => None(mainq', CompletionsAhead)
      BY <2>3, <2>5
    <2>7. \A d \in Devices :
            /\ None(mainq, CompletionsOf(d)) => None(mainq', CompletionsOf(d))
            /\ One(mainq, CompletionsOf(d)) => One(mainq', CompletionsOf(d))
      BY <2>3, <2>5
    <2>8. CardOrder'
      BY <1>2, <2>4, <2>6 DEF LockInv, CardOrder
    <2>9. SwitchLock'
      BY <1>2, <2>4, <2>7 DEF LockInv, SwitchLock
    <2>10. QED
      BY <2>8, <2>9
  <1>6. QED
    BY <1>4, <1>5

(* A tap happens on an enabled switch, so its write is the only one.       *)
LEMMA TapStep ==
    ASSUME LockInv, NEW d \in Devices, Tap(d)
    PROVE  CardOrder' /\ SwitchLock'
  <1> DEFINE w == [dev |-> d, day |-> today, isOn |-> Flip(shown[d]),
                   card |-> card[d], launch |-> launch]
  <1>0. mainq \in Seq(Block) /\ writes \in Seq(Write) /\ card \in [Devices -> Nat]
    BY DEF LockInv, TypeOK, StoreOK, CardOK
  <1>1. /\ UNCHANGED <<card, launch>> /\ writes' = Append(writes, w)
        /\ isToggling' = [isToggling EXCEPT ![d] = TRUE] /\ ~isToggling[d]
    BY DEF Tap, SwitchEnabled
  <1>2. w \in Write
    BY DEF LockInv, TypeOK, ScreenOK, CardOK, Write, Flip, Power
  <1>3. mainq' = mainq \/ \E b \in Block : b.kind = "snapshot"
                                           /\ mainq' = Append(mainq, b)
    <2>1. mainq' = mainq \/ mainq' = Emit(mainq, cache, writes', today)
      BY DEF Tap
    <2>2. TypeOK /\ today \in Days /\ cache \in [Days -> [Devices -> Doc]]
      BY DEF LockInv, TypeOK, StoreOK, ScreenOK
    <2>3. \/ Emit(mainq, cache, writes', today) = mainq
          \/ \E b \in Block : /\ b.kind = "snapshot"
                              /\ Emit(mainq, cache, writes', today) = Append(mainq, b)
      BY <1>0, <2>2, QueueEmit
    <2>4. QED
      BY <2>1, <2>3, Zenon
  <1>4. /\ CompletionsAhead' = CompletionsAhead /\ WritesAhead' = WritesAhead
        /\ \A e \in Devices : /\ CompletionsOf(e)' = CompletionsOf(e)
                              /\ WritesOf(e)' = WritesOf(e)
    BY <1>1 DEF CompletionsAhead, WritesAhead, CompletionsOf, WritesOf
  <1>5. /\ w \notin WritesAhead /\ w \in WritesOf(d)
        /\ \A e \in Devices \ {d} : w \notin WritesOf(e)
    BY <1>0, <1>2 DEF WritesAhead, WritesOf
  <1>6. ASSUME NEW E, \A b \in Block : b \in E => b.kind = "completion",
               None(mainq, E)
        PROVE  None(mainq', E)
    BY <1>0, <1>3, <1>6, AppendOther
  <1>7. ASSUME NEW E, \A b \in Block : b \in E => b.kind = "completion",
               One(mainq, E)
        PROVE  One(mainq', E)
    BY <1>0, <1>3, <1>7, AppendOther
  <1>8. /\ \A b \in Block : b \in CompletionsAhead => b.kind = "completion"
        /\ \A e \in Devices : \A b \in Block :
             b \in CompletionsOf(e) => b.kind = "completion"
    BY DEF CompletionsAhead, CompletionsOf
  <1> HIDE DEF w
  <1>9. CardOrder'
    <2>1. None(writes', WritesAhead)
      BY <1>0, <1>1, <1>2, <1>5, AppendOther DEF LockInv, CardOrder
    <2>2. None(mainq', CompletionsAhead)
      BY <1>6, <1>8 DEF LockInv, CardOrder
    <2>3. QED
      BY <1>4, <2>1, <2>2 DEF CardOrder
  <1>10. SwitchLock'
    <2>1. None(writes, WritesOf(d)) /\ None(mainq, CompletionsOf(d))
      BY <1>1 DEF LockInv, SwitchLock
    <2>2. One(writes', WritesOf(d)) /\ None(mainq', CompletionsOf(d))
      BY <1>0, <1>1, <1>2, <1>5, <1>6, <1>8, <2>1, AppendOwn
    <2>3. isToggling'[d]
      BY <1>1 DEF LockInv, TypeOK, CardOK
    <2>4. \A e \in Devices \ {d} :
            /\ isToggling'[e] = isToggling[e]
            /\ None(writes, WritesOf(e)) => None(writes', WritesOf(e))
            /\ One(writes, WritesOf(e)) => One(writes', WritesOf(e))
            /\ None(mainq, CompletionsOf(e)) => None(mainq', CompletionsOf(e))
            /\ One(mainq, CompletionsOf(e)) => One(mainq', CompletionsOf(e))
      BY <1>0, <1>1, <1>2, <1>5, <1>6, <1>7, <1>8, AppendOther
      DEF LockInv, TypeOK, CardOK
    <2>5. QED
      BY <1>4, <2>2, <2>3, <2>4 DEF LockInv, SwitchLock
  <1>11. QED
    BY <1>9, <1>10

(* An answer turns the oldest write into its completion: of the card on    *)
(* screen if the write was, of nobody's otherwise.                         *)
LEMMA AnswerStep ==
    ASSUME LockInv, NEW c \in [Days -> [Devices -> Doc]], NEW o \in Outcome,
           writes # <<>>, writes' = Tail(writes),
           UNCHANGED <<isToggling, card, launch>>,
           mainq' = Answered(Head(writes), o, c, writes')
    PROVE  CardOrder' /\ SwitchLock'
  <1>0. /\ mainq \in Seq(Block) /\ writes \in Seq(Write)
        /\ card \in [Devices -> Nat] /\ TypeOK
    BY DEF LockInv, TypeOK, StoreOK, CardOK
  <1>w. PICK w \in Write : w = Head(writes)
    BY <1>0
  <1>q. PICK q : q = Completion(mainq, w, o)
    OBVIOUS
  <1>1. /\ q \in Seq(Block)
        /\ mainq' = q \/ \E b \in Block : b.kind = "snapshot" /\ mainq' = Append(q, b)
    <2>1. mainq' = Answered(w, o, c, writes')
      BY <1>w
    <2>2. /\ Completion(mainq, w, o) \in Seq(Block)
          /\ \/ Answered(w, o, c, writes') = Completion(mainq, w, o)
             \/ \E b \in Block :
                  /\ b.kind = "snapshot"
                  /\ Answered(w, o, c, writes') = Append(Completion(mainq, w, o), b)
      BY <1>0, QueueAnswered, ZenonT(30)
    <2>3. QED
      BY <1>q, <2>1, <2>2, Zenon
  <1>2. /\ CompletionsAhead' = CompletionsAhead /\ WritesAhead' = WritesAhead
        /\ \A d \in Devices : /\ CompletionsOf(d)' = CompletionsOf(d)
                              /\ WritesOf(d)' = WritesOf(d)
    BY DEF CompletionsAhead, WritesAhead, CompletionsOf, WritesOf
  <1>3. ASSUME NEW E, \A b \in Block : b \in E => b.kind = "completion"
        PROVE  /\ None(q, E) => None(mainq', E)
               /\ One(q, E) => One(mainq', E)
    BY <1>1, <1>3, AppendOther
  <1>4. /\ \A b \in Block : b \in CompletionsAhead => b.kind = "completion"
        /\ \A d \in Devices : \A b \in Block :
             b \in CompletionsOf(d) => b.kind = "completion"
    BY DEF CompletionsAhead, CompletionsOf
  <1>c. PICK cb \in Block : cb = CompletionBlock(w, o, 1)
    BY CompletionType
  <1>5. /\ cb.kind = "completion" /\ cb.dev = w.dev /\ cb.card = w.card
        /\ w.dev \in Devices /\ w.card \in Nat
    BY <1>c DEF CompletionBlock, Write
  <1>6. q = IF w.launch = launch THEN Append(mainq, cb) ELSE mainq
    BY <1>c, <1>q DEF Completion
  <1>7. w \notin WritesAhead
    BY <1>0, <1>w, HeadNone DEF LockInv, CardOrder
  <1>8. CardOrder'
    <2>1. None(writes', WritesAhead)
      BY <1>0, <1>7, <1>w, TailOther DEF LockInv, CardOrder
    <2>2. cb \notin CompletionsAhead
      BY <1>0, <1>5, <1>7 DEF WritesAhead, CompletionsAhead
    <2>3. None(q, CompletionsAhead)
      BY <1>0, <1>6, <2>2, AppendOther DEF LockInv, CardOrder
    <2>4. None(mainq', CompletionsAhead)
      BY <1>3, <1>4, <2>3
    <2>5. QED
      BY <1>2, <2>1, <2>4 DEF CardOrder
  <1>9. ASSUME NEW d \in Devices
        PROVE  \/ /\ ~isToggling[d]
                  /\ None(writes', WritesOf(d)) /\ None(q, CompletionsOf(d))
               \/ /\ isToggling[d]
                  /\ One(writes', WritesOf(d)) /\ None(q, CompletionsOf(d))
               \/ /\ isToggling[d]
                  /\ None(writes', WritesOf(d)) /\ One(q, CompletionsOf(d))
    <2>1. CASE w \in WritesOf(d)
      <3>1. w.dev = d /\ w.card = card[d]
        BY <2>1 DEF WritesOf
      <3>2. w.launch = launch
        BY <1>7, <3>1 DEF WritesAhead
      <3>3. cb \in CompletionsOf(d)
        BY <1>5, <3>1 DEF CompletionsOf
      <3>4. ~None(writes, WritesOf(d))
        BY <1>0, <1>w, <2>1, HeadNone
      <3>5. isToggling[d] /\ One(writes, WritesOf(d)) /\ None(mainq, CompletionsOf(d))
        BY <3>4 DEF LockInv, SwitchLock
      <3>6. None(writes', WritesOf(d))
        BY <1>0, <1>w, <2>1, <3>5, TailOwn
      <3>7. One(q, CompletionsOf(d))
        BY <1>0, <1>6, <3>2, <3>3, <3>5, AppendOwn
      <3>8. QED
        BY <3>5, <3>6, <3>7
    <2>2. CASE w \notin WritesOf(d)
      <3>1. cb \notin CompletionsOf(d)
        BY <1>5, <2>2 DEF CompletionsOf, WritesOf
      <3>2. /\ None(writes, WritesOf(d)) => None(writes', WritesOf(d))
            /\ One(writes, WritesOf(d)) => One(writes', WritesOf(d))
        BY <1>0, <1>w, <2>2, TailOther
      <3>3. /\ None(mainq, CompletionsOf(d)) => None(q, CompletionsOf(d))
            /\ One(mainq, CompletionsOf(d)) => One(q, CompletionsOf(d))
        BY <1>0, <1>6, <3>1, AppendOther
      <3>4. QED
        BY <3>2, <3>3 DEF LockInv, SwitchLock
    <2>3. QED
      BY <2>1, <2>2
  <1>10. \A d \in Devices :
           /\ None(q, CompletionsOf(d)) => None(mainq', CompletionsOf(d))
           /\ One(q, CompletionsOf(d)) => One(mainq', CompletionsOf(d))
    BY <1>3, <1>4
  <1>11. SwitchLock'
    BY <1>2, <1>9, <1>10 DEF SwitchLock
  <1>12. QED
    BY <1>8, <1>11

(* The completion of a card's only write enables that card's switch; the   *)
(* completion of a card that is gone touches no flag.                      *)
LEMMA CompletionStep ==
    ASSUME LockInv, RunCompletion
    PROVE  CardOrder' /\ SwitchLock'
  <1>0. /\ mainq \in Seq(Block) /\ mainq # <<>>
        /\ isToggling \in [Devices -> BOOLEAN]
    BY DEF LockInv, TypeOK, CardOK, RunCompletion
  <1>b. PICK b \in Block : b = Head(mainq)
    BY <1>0
  <1>1. /\ mainq' = Tail(mainq) /\ UNCHANGED <<writes, card, launch>>
        /\ b.kind = "completion"
        /\ isToggling' = IF card[b.dev] = b.card
                         THEN [isToggling EXCEPT ![b.dev] = FALSE] ELSE isToggling
    BY <1>b DEF RunCompletion, Releases, storeVars
  <1>2. /\ CompletionsAhead' = CompletionsAhead /\ WritesAhead' = WritesAhead
        /\ \A d \in Devices : /\ CompletionsOf(d)' = CompletionsOf(d)
                              /\ WritesOf(d)' = WritesOf(d)
    BY <1>1 DEF CompletionsAhead, WritesAhead, CompletionsOf, WritesOf
  <1>3. CardOrder'
    <2>1. b \notin CompletionsAhead
      BY <1>0, <1>b, HeadNone DEF LockInv, CardOrder
    <2>2. None(mainq', CompletionsAhead)
      BY <1>0, <1>1, <1>b, <2>1, TailOther DEF LockInv, CardOrder
    <2>3. QED
      BY <1>1, <1>2, <2>2 DEF LockInv, CardOrder
  <1>4. ASSUME NEW d \in Devices
        PROVE  \/ /\ ~isToggling'[d]
                  /\ None(writes, WritesOf(d)) /\ None(mainq', CompletionsOf(d))
               \/ /\ isToggling'[d]
                  /\ One(writes, WritesOf(d)) /\ None(mainq', CompletionsOf(d))
               \/ /\ isToggling'[d]
                  /\ None(writes, WritesOf(d)) /\ One(mainq', CompletionsOf(d))
    <2>1. CASE b \in CompletionsOf(d)
      <3>1. b.dev = d /\ b.card = card[d]
        BY <2>1 DEF CompletionsOf
      <3>2. ~None(mainq, CompletionsOf(d))
        BY <1>0, <1>b, <2>1, HeadNone
      <3>3. None(writes, WritesOf(d)) /\ One(mainq, CompletionsOf(d))
        BY <3>2 DEF LockInv, SwitchLock
      <3>4. None(mainq', CompletionsOf(d))
        BY <1>0, <1>1, <1>b, <2>1, <3>3, TailOwn
      <3>5. ~isToggling'[d]
        BY <1>0, <1>1, <3>1
      <3>6. QED
        BY <3>3, <3>4, <3>5
    <2>2. CASE b \notin CompletionsOf(d)
      <3>1. /\ None(mainq, CompletionsOf(d)) => None(mainq', CompletionsOf(d))
            /\ One(mainq, CompletionsOf(d)) => One(mainq', CompletionsOf(d))
        BY <1>0, <1>1, <1>b, <2>2, TailOther
      <3>2. isToggling'[d] = isToggling[d]
        BY <1>0, <1>1, <2>2 DEF CompletionsOf
      <3>3. QED
        BY <3>1, <3>2 DEF LockInv, SwitchLock
    <2>3. QED
      BY <2>1, <2>2
  <1>5. SwitchLock'
    BY <1>1, <1>2, <1>4 DEF SwitchLock
  <1>6. QED
    BY <1>3, <1>5

(* Cards that are replaced start with an enabled switch, and nothing that  *)
(* was sent before belongs to them.                                        *)
LEMMA FilterStep ==
    ASSUME LockInv, NEW f \in Filters, SelectFilter(f)
    PROVE  CardOrder' /\ SwitchLock'
  <1>h. PICK hidden \in SUBSET Devices :
          /\ card' = [d \in Devices |-> IF d \in hidden THEN card[d] + 1 ELSE card[d]]
          /\ isToggling' = [d \in Devices |-> d \notin hidden /\ isToggling[d]]
    BY DEF SelectFilter
  <1>0. card \in [Devices -> Nat] /\ card' \in [Devices -> Nat]
    BY <1>h DEF LockInv, TypeOK, CardOK
  <1>1. UNCHANGED <<writes, mainq, launch>>
    BY DEF SelectFilter, storeVars
  <1>2. WritesAhead' \subseteq WritesAhead /\ CompletionsAhead' \subseteq CompletionsAhead
    BY <1>0, <1>1, <1>h DEF WritesAhead, CompletionsAhead, Write, Block
  <1>3. CardOrder'
    BY <1>1, <1>2 DEF LockInv, CardOrder, None
  <1>4. ASSUME NEW d \in hidden
        PROVE  /\ ~isToggling'[d]
               /\ None(writes', WritesOf(d)') /\ None(mainq', CompletionsOf(d)')
    <2>1. /\ WritesOf(d)' \subseteq WritesAhead
          /\ CompletionsOf(d)' \subseteq CompletionsAhead
      BY <1>0, <1>h DEF WritesOf, CompletionsOf, WritesAhead, CompletionsAhead
    <2>2. QED
      BY <1>1, <1>h, <2>1 DEF LockInv, CardOrder, None
  <1>5. ASSUME NEW d \in Devices \ hidden
        PROVE  /\ isToggling'[d] = isToggling[d]
               /\ WritesOf(d)' = WritesOf(d) /\ CompletionsOf(d)' = CompletionsOf(d)
    BY <1>h DEF WritesOf, CompletionsOf, LockInv, TypeOK, CardOK
  <1>6. SwitchLock'
    BY <1>1, <1>4, <1>5 DEF LockInv, SwitchLock
  <1>7. QED
    BY <1>3, <1>6

LEMMA RelaunchStep ==
    ASSUME LockInv, Relaunch
    PROVE  CardOrder' /\ SwitchLock'
  <1>0. /\ card \in [Devices -> Nat] /\ card' = [d \in Devices |-> card[d] + 1]
        /\ mainq' = <<>> /\ writes' = writes
        /\ isToggling' = [d \in Devices |-> FALSE]
    BY DEF LockInv, TypeOK, CardOK, Relaunch, storeVars
  <1>1. WritesAhead' \subseteq WritesAhead
    BY <1>0 DEF WritesAhead, Write
  <1>2. CardOrder'
    BY <1>0, <1>1 DEF LockInv, CardOrder, None
  <1>3. \A d \in Devices : WritesOf(d)' \subseteq WritesAhead
    BY <1>0 DEF WritesOf, WritesAhead, Write
  <1>4. SwitchLock'
    BY <1>0, <1>3 DEF LockInv, CardOrder, SwitchLock, None
  <1>5. QED
    BY <1>2, <1>4

LEMMA InitLock == Init => CardOrder /\ SwitchLock
  BY DEF Init, CardOrder, SwitchLock, None

LEMMA NextLock == LockInv /\ [Next]_vars => LockInv'
  <1> SUFFICES ASSUME LockInv, [Next]_vars PROVE LockInv'
    OBVIOUS
  <1>0. TypeOK /\ mainq \in Seq(Block)
    BY DEF LockInv, TypeOK
  <1>t. TypeOK'
    BY <1>0, NextType
  <1>s. SUFFICES CardOrder' /\ SwitchLock'
    BY <1>t DEF LockInv
  <1>1. CASE Appear
    <2>1. used["appear"] + 1 \in 1 .. MaxAppear
      BY <1>0, <1>1, ConstantsAssumption DEF Appear, TypeOK, ScreenOK, Counters
    <2>2. LocalDocs(cache, writes, today) \in [Devices -> Doc]
      BY <1>0, LocalDocsType DEF TypeOK, StoreOK, ScreenOK
    <2>b. PICK b \in Block :
            /\ b = SnapshotBlock(used["appear"] + 1, LocalDocs(cache, writes, today), 1)
            /\ b.kind = "snapshot"
      <3>1. SnapshotBlock(used["appear"] + 1, LocalDocs(cache, writes, today), 1).kind
              = "snapshot"
        BY DEF SnapshotBlock
      <3>2. QED
        BY <2>1, <2>2, <3>1, SnapshotType
    <2>3. mainq' = mainq \/ mainq' = Append(mainq, b)
      BY <1>1, <2>b DEF Appear
    <2>4. UNCHANGED <<writes, isToggling, card, launch>>
      BY <1>1 DEF Appear, storeVars, cardVars
    <2>5. QED
      BY <2>b, <2>3, <2>4, QueueStep
  <1>2. CASE Disappear
    BY <1>2, QueueStep DEF Disappear, storeVars, cardVars
  <1>3. ASSUME NEW f \in Filters, SelectFilter(f) PROVE CardOrder' /\ SwitchLock'
    BY <1>3, FilterStep
  <1>4. ASSUME NEW q \in asked, AnswerDevices(q) PROVE CardOrder' /\ SwitchLock'
    <2>b. /\ DevicesBlock(q.src, q.reg, q.day) \in Block
          /\ DevicesBlock(q.src, q.reg, q.day).kind = "devices"
      BY <1>0 DEF DevicesBlock, Block, TypeOK, LoadOK, Request
    <2>1. mainq' = Append(mainq, DevicesBlock(q.src, q.reg, q.day))
      BY <1>4 DEF AnswerDevices
    <2>2. UNCHANGED <<writes, isToggling, card, launch>>
      BY <1>4 DEF AnswerDevices, storeVars, cardVars
    <2>3. QED
      BY <2>b, <2>1, <2>2, QueueStep
  <1>5. ASSUME NEW q \in asked, FailDevices(q) PROVE CardOrder' /\ SwitchLock'
    BY <1>5, QueueStep DEF FailDevices, storeVars, cardVars
  <1>t5. ASSUME NEW target \in Targets, TargetError(target)
         PROVE  CardOrder' /\ SwitchLock'
    BY <1>t5, QueueStep DEF TargetError, storeVars, cardVars
  <1>6. CASE DeviceEdited
    <2>b. /\ DevicesBlock("listener", reg, regDay) \in Block
          /\ DevicesBlock("listener", reg, regDay).kind = "devices"
      <3>1. reg \in 1 .. MaxAppear /\ regDay \in Days
        BY <1>0, <1>6, ConstantsAssumption DEF DeviceEdited, TypeOK, ScreenOK
      <3>2. QED
        BY <3>1 DEF DevicesBlock, Block
    <2>1. mainq' = Append(mainq, DevicesBlock("listener", reg, regDay))
      BY <1>6 DEF DeviceEdited
    <2>2. UNCHANGED <<writes, isToggling, card, launch>>
      BY <1>6 DEF DeviceEdited, storeVars, cardVars
    <2>3. QED
      BY <2>b, <2>1, <2>2, QueueStep
  <1>7. ASSUME NEW l \in Loads, NEW d \in Devices,
               AnswerEnergy(l, d) \/ FailEnergy(l, d)
        PROVE  CardOrder' /\ SwitchLock'
    <2>1. PICK v \in Doc : /\ mainq' = Append(mainq, EnergyBlock(l, d, v, 1))
                           /\ EnergyBlock(l, d, v, 1) \in Block
      BY <1>0, <1>7, EnergyAnswer
    <2>2. EnergyBlock(l, d, v, 1).kind = "energy"
      BY DEF EnergyBlock
    <2>3. UNCHANGED <<writes, isToggling, card, launch>>
      BY <1>0, <1>7, EnergyAnswer DEF storeVars, cardVars
    <2>4. QED
      BY <2>1, <2>2, <2>3, QueueStep
  <1>8. CASE RunDevices
    BY <1>8, QueueStep DEF RunDevices, storeVars, cardVars
  <1>9. CASE RunEnergy
    <2>1. /\ mainq # <<>> /\ Head(mainq).kind = "energy"
          /\ UNCHANGED <<writes, isToggling, card, launch>>
          /\ \/ mainq' = Tail(mainq)
             \/ mainq' = Append(Tail(mainq), NotifyBlock(Head(mainq).load))
      BY <1>9 DEF RunEnergy, storeVars, cardVars
    <2>2. Head(mainq) \in Block
      BY <1>0, <2>1
    <2>3. /\ NotifyBlock(Head(mainq).load) \in Block
          /\ NotifyBlock(Head(mainq).load).kind = "notify"
      BY <2>1, <2>2 DEF NotifyBlock, Block
    <2>4. QED
      BY <2>1, <2>3, QueueStep
  <1>10. CASE RunNotify
    BY <1>10, QueueStep DEF RunNotify, storeVars, cardVars
  <1>11. CASE RunSnapshot
    BY <1>11, QueueStep DEF RunSnapshot, storeVars, cardVars
  <1>12. CASE Redispatch
    BY <1>12, RedispatchStep
  <1>13. ASSUME NEW d \in Devices, Tap(d) PROVE CardOrder' /\ SwitchLock'
    BY <1>13, TapStep
  <1>14. CASE RunCompletion
    BY <1>14, CompletionStep
  <1>15. CASE Commit
    <2>1. /\ writes # <<>> /\ writes' = Tail(writes)
          /\ UNCHANGED <<isToggling, card, launch>>
          /\ mainq' = Answered(Head(writes), "ok", cache', writes')
      BY <1>15 DEF Commit, cardVars
    <2>2. cache' \in [Days -> [Devices -> Doc]]
      BY <1>t DEF TypeOK, StoreOK
    <2>3. QED
      BY <2>1, <2>2, AnswerStep DEF Outcome
  <1>16. CASE Reject
    <2>1. /\ writes # <<>> /\ writes' = Tail(writes)
          /\ UNCHANGED <<isToggling, card, launch>>
          /\ mainq' = Answered(Head(writes), "error", cache, writes')
      BY <1>16 DEF Reject, cardVars
    <2>2. cache \in [Days -> [Devices -> Doc]]
      BY <1>0 DEF TypeOK, StoreOK
    <2>3. QED
      BY <2>1, <2>2, AnswerStep DEF Outcome
  <1>17. ASSUME NEW day \in Days, Watch(day) PROVE CardOrder' /\ SwitchLock'
    <2>1. /\ mainq' = Emit(mainq, cache', writes, day)
          /\ UNCHANGED <<writes, isToggling, card, launch>>
      BY <1>17 DEF Watch, cardVars
    <2>2. cache' \in [Days -> [Devices -> Doc]]
      BY <1>t DEF TypeOK, StoreOK
    <2>3. \/ Emit(mainq, cache', writes, day) = mainq
          \/ \E b \in Block : /\ b.kind = "snapshot"
                              /\ Emit(mainq, cache', writes, day) = Append(mainq, b)
      BY <1>0, <2>2, QueueEmit
    <2>4. mainq' = mainq \/ \E b \in Block : /\ b.kind # "completion"
                                             /\ mainq' = Append(mainq, b)
      BY <2>1, <2>3
    <2>5. QED
      BY <2>1, <2>4, QueueStep
  <1>18. ASSUME NEW d \in Devices, NEW s \in Power, Automate(d, s)
         PROVE  CardOrder' /\ SwitchLock'
    BY <1>18, QueueStep DEF Automate, cardVars
  <1>19. CASE Heartbeat
    BY <1>19, QueueStep DEF Heartbeat, cardVars
  <1>20. CASE Midnight
    BY <1>20, QueueStep DEF Midnight, storeVars, cardVars
  <1>21. CASE Relaunch
    BY <1>21, RelaunchStep
  <1>22. CASE UNCHANGED vars
    BY <1>22, QueueStep DEF vars
  <1>23. QED
    BY <1>1, <1>2, <1>3, <1>4, <1>5, <1>t5, <1>6, <1>7, <1>8, <1>9, <1>10, <1>11, <1>12,
       <1>13, <1>14, <1>15, <1>16, <1>17, <1>18, <1>19, <1>20, <1>21, <1>22
    DEF Next, MainQueue

(* For any devices and any number of taps, filter changes and relaunches:  *)
(* a card's switch is disabled exactly while one write of that card is on  *)
(* its way, so no card ever has two writes in flight and no switch is left *)
(* disabled with no answer to come.                                        *)
THEOREM SwitchLockHolds == Spec => []SwitchLock
  <1>1. Init => LockInv
    BY InitType, InitLock DEF LockInv
  <1>2. LockInv => SwitchLock
    BY DEF LockInv
  <1>3. QED
    BY <1>1, <1>2, NextLock, PTL DEF Spec

(* No late answer reaches a card created after the tap it answers.         *)
THEOREM CardOrderHolds == Spec => []CardOrder
  <1>1. Init => LockInv
    BY InitType, InitLock DEF LockInv
  <1>2. LockInv => CardOrder
    BY DEF LockInv
  <1>3. QED
    BY <1>1, <1>2, NextLock, PTL DEF Spec

-----------------------------------------------------------------------------
(* The list.                                                               *)

(* The queued answers of load l for device d, and the queued notify blocks *)
(* of its group.                                                           *)
EnergyOf(l, d) == {b \in Block : b.kind = "energy" /\ b.load = l /\ b.dev = d}
NotifyOf(l) == {b \in Block : b.kind = "notify" /\ b.load = l}

(* A load in use owes device d exactly one of three things: an answer of   *)
(* the client, the body of that answer, or nothing any more.               *)
Answering(q, ld, l, d) ==
    \/ /\ ld.day = 0 /\ d \notin ld.want /\ ld.got[d] = "unlisted"
       /\ None(q, EnergyOf(l, d))
    \/ /\ ld.day # 0 /\ d \in ld.want /\ ld.got[d] = "unlisted"
       /\ None(q, EnergyOf(l, d))
    \/ /\ ld.day # 0 /\ d \notin ld.want /\ ld.got[d] = "unlisted"
       /\ One(q, EnergyOf(l, d))
    \/ /\ ld.day # 0 /\ d \notin ld.want /\ ld.got[d] # "unlisted"
       /\ None(q, EnergyOf(l, d))

(* The group's notify block is queued once, when the last device has left. *)
Leaving(q, ld, l) ==
    IF GroupEmpty(ld.got) THEN One(q, NotifyOf(l)) ELSE None(q, NotifyOf(l))

Groups(q, ls) ==
    \A l \in Loads : /\ Leaving(q, ls[l], l)
                     /\ \A d \in Devices : Answering(q, ls[l], l, d)

(* WholeList is not inductive: it takes that a notify block waits for the  *)
(* answer of every device.                                                 *)
ListInv == TypeOK /\ Groups(mainq, loads) /\ WholeList

(* Queue r holds as many blocks of the loads as q does. *)
Keeps(q, r, E) == /\ None(q, E) => None(r, E)
                  /\ One(q, E) => One(r, E)
SameBlocks(q, r) ==
    \A l \in Loads : /\ Keeps(q, r, NotifyOf(l))
                     /\ \A d \in Devices : Keeps(q, r, EnergyOf(l, d))

LEMMA SameGroups ==
    ASSUME NEW q, NEW r, NEW ls, SameBlocks(q, r), Groups(q, ls)
    PROVE  Groups(r, ls)
  BY DEF SameBlocks, Keeps, Groups, Leaving, Answering

LEMMA SameItself == \A q : SameBlocks(q, q)
  BY DEF SameBlocks, Keeps

LEMMA SameTwice ==
    ASSUME NEW q, NEW r, NEW s, SameBlocks(q, r), SameBlocks(r, s)
    PROVE  SameBlocks(q, s)
  BY DEF SameBlocks, Keeps

LEMMA SameAppend ==
    ASSUME NEW q \in Seq(Block), NEW b \in Block, b.kind \notin {"energy", "notify"}
    PROVE  SameBlocks(q, Append(q, b))
  <1>1. /\ \A l \in Loads : b \notin NotifyOf(l)
        /\ \A l \in Loads, d \in Devices : b \notin EnergyOf(l, d)
    BY DEF NotifyOf, EnergyOf
  <1>2. QED
    BY <1>1, AppendOther DEF SameBlocks, Keeps

LEMMA SameTail ==
    ASSUME NEW q \in Seq(Block), q # <<>>, Head(q).kind \notin {"energy", "notify"}
    PROVE  SameBlocks(q, Tail(q))
  <1>1. /\ \A l \in Loads : Head(q) \notin NotifyOf(l)
        /\ \A l \in Loads, d \in Devices : Head(q) \notin EnergyOf(l, d)
    BY DEF NotifyOf, EnergyOf
  <1>2. QED
    BY <1>1, TailOther DEF SameBlocks, Keeps

(* A block that goes from the head of the queue to its end with the same   *)
(* load and device.                                                        *)
LEMMA KeepsRotate ==
    ASSUME NEW q \in Seq(Block), q # <<>>, NEW b \in Block, NEW E,
           Head(q) \in E <=> b \in E
    PROVE  Keeps(q, Append(Tail(q), b), E)
  <1>0. Tail(q) \in Seq(Block)
    OBVIOUS
  <1>1. CASE b \notin E
    <2>1. Keeps(q, Tail(q), E)
      BY <1>1, TailOther DEF Keeps
    <2>2. Keeps(Tail(q), Append(Tail(q), b), E)
      BY <1>0, <1>1, AppendOther DEF Keeps
    <2>3. QED
      BY <2>1, <2>2 DEF Keeps
  <1>2. CASE b \in E
    <2>1. ~None(q, E)
      BY <1>2, HeadNone
    <2>2. One(q, E) => None(Tail(q), E)
      BY <1>2, TailOwn
    <2>3. None(Tail(q), E) => One(Append(Tail(q), b), E)
      BY <1>0, <1>2, AppendOwn
    <2>4. QED
      BY <2>1, <2>2, <2>3 DEF Keeps
  <1>3. QED
    BY <1>1, <1>2

(* One load changes, and only blocks of that load come and go.             *)
LEMMA SlotStep ==
    ASSUME NEW q, NEW r, NEW ls \in [Loads -> Load], Groups(q, ls),
           NEW l \in Loads, NEW ld \in Load,
           \A k \in Loads \ {l} :
             /\ Keeps(q, r, NotifyOf(k))
             /\ \A e \in Devices : Keeps(q, r, EnergyOf(k, e)),
           Leaving(r, ld, l), \A d \in Devices : Answering(r, ld, l, d)
    PROVE  Groups(r, [ls EXCEPT ![l] = ld])
  <1>1. PICK ms : ms = [ls EXCEPT ![l] = ld]
    OBVIOUS
  <1>2. ms[l] = ld /\ \A k \in Loads \ {l} : ms[k] = ls[k]
    BY <1>1
  <1>3. ASSUME NEW k \in Loads \ {l}
        PROVE  Leaving(r, ms[k], k) /\ \A d \in Devices : Answering(r, ms[k], k, d)
    BY <1>2 DEF Groups, Leaving, Answering, Keeps
  <1>4. ASSUME NEW k \in Loads
        PROVE  Leaving(r, ms[k], k) /\ \A d \in Devices : Answering(r, ms[k], k, d)
    BY <1>2, <1>3
  <1>5. QED
    BY <1>1, <1>4 DEF Groups

LEMMA IdleGot ==
    /\ IdleLoad \in Load /\ IdleLoad.day = 0 /\ IdleLoad.want = {}
    /\ IdleLoad.got \in [Devices -> Entry]
    /\ \A d \in Devices : IdleLoad.got[d] = "unlisted"
    /\ ~GroupEmpty(IdleLoad.got)
  BY ConstantsAssumption DEF IdleLoad, Load, Entry, GroupEmpty

(* A slot that is not in use is taken for a load of every device.          *)
LEMMA GroupsStart ==
    ASSUME NEW q, NEW r, NEW ls \in [Loads -> Load], Groups(q, ls),
           SameBlocks(q, r), NEW l \in Loads, ls[l].day = 0, NEW day \in Days
    PROVE  Groups(r, [ls EXCEPT ![l] =
                        [day |-> day, want |-> Devices, got |-> IdleLoad.got]])
  <1>1. PICK ld : ld = [day |-> day, want |-> Devices, got |-> IdleLoad.got]
    OBVIOUS
  <1>2. /\ ld.day # 0 /\ ld.want = Devices /\ ld.got = IdleLoad.got
        /\ ld \in Load
    <2>1. day \in 0 .. MaxDay /\ day # 0
      BY ConstantsAssumption DEF Days
    <2>2. QED
      BY <1>1, <2>1, IdleGot DEF Load
  <1>3. ASSUME NEW d \in Devices
        PROVE  ls[l].got[d] = "unlisted" /\ None(r, EnergyOf(l, d))
    BY DEF Groups, Answering, SameBlocks, Keeps
  <1>4. ~GroupEmpty(ls[l].got)
    BY <1>3, ConstantsAssumption DEF GroupEmpty
  <1>5. Leaving(r, ld, l)
    BY <1>2, <1>4, IdleGot DEF Groups, Leaving, SameBlocks, Keeps
  <1>6. \A d \in Devices : Answering(r, ld, l, d)
    BY <1>2, <1>3, IdleGot DEF Answering
  <1>7. Groups(r, [ls EXCEPT ![l] = ld])
    BY <1>2, <1>5, <1>6, SlotStep DEF SameBlocks
  <1>8. QED
    BY <1>1, <1>7

(* The client's answer for a device is queued.                             *)
LEMMA GroupsAnswer ==
    ASSUME NEW q \in Seq(Block), NEW ls \in [Loads -> Load], Groups(q, ls),
           NEW l \in Loads, NEW d \in ls[l].want,
           NEW b \in Block, b.kind = "energy", b.load = l, b.dev = d
    PROVE  Groups(Append(q, b), [ls EXCEPT ![l].want = @ \ {d}])
  <1>1. PICK ld : ld = [ls[l] EXCEPT !.want = @ \ {d}]
    OBVIOUS
  <1>2. /\ ls[l] \in Load /\ ld \in Load /\ d \in Devices
        /\ ld.day = ls[l].day /\ ld.got = ls[l].got /\ ld.want = ls[l].want \ {d}
    BY <1>1 DEF Load
  <1>3. PICK r : r = Append(q, b)
    OBVIOUS
  <1>4. ASSUME NEW E, b \notin E PROVE Keeps(q, r, E)
    BY <1>3, <1>4, AppendOther DEF Keeps
  <1>5. /\ \A k \in Loads : Keeps(q, r, NotifyOf(k))
        /\ \A k \in Loads, e \in Devices :
             k # l \/ e # d => Keeps(q, r, EnergyOf(k, e))
    BY <1>4 DEF NotifyOf, EnergyOf
  <1>6. Leaving(r, ld, l)
    BY <1>2, <1>5 DEF Groups, Leaving, Keeps
  <1>7. ASSUME NEW e \in Devices PROVE Answering(r, ld, l, e)
    <2>1. CASE e # d
      BY <1>2, <1>5, <2>1 DEF Groups, Answering, Keeps
    <2>2. CASE e = d
      <3>1. /\ ls[l].day # 0 /\ ls[l].got[d] = "unlisted"
            /\ None(q, EnergyOf(l, d))
        BY <1>2 DEF Groups, Answering
      <3>2. b \in EnergyOf(l, d)
        BY DEF EnergyOf
      <3>3. One(r, EnergyOf(l, d))
        BY <1>3, <3>1, <3>2, AppendOwn
      <3>4. QED
        BY <1>2, <2>2, <3>1, <3>3 DEF Answering
    <2>3. QED
      BY <2>1, <2>2
  <1>8. Groups(r, [ls EXCEPT ![l] = ld])
    BY <1>2, <1>5, <1>6, <1>7, SlotStep
  <1>9. QED
    BY <1>1, <1>3, <1>8

(* The body of an answer fills one entry; the one that fills the last      *)
(* entry queues the notify block.                                          *)
LEMMA GroupsBody ==
    ASSUME NEW q \in Seq(Block), q # <<>>, NEW ls \in [Loads -> Load],
           Groups(q, ls), NEW l \in Loads, NEW d \in Devices, NEW v \in Doc,
           Head(q) \in EnergyOf(l, d), NEW got, got = [ls[l].got EXCEPT ![d] = v],
           NEW r, r = IF GroupEmpty(got) THEN Append(Tail(q), NotifyBlock(l))
                                         ELSE Tail(q)
    PROVE  Groups(r, [ls EXCEPT ![l].got = got])
  <1>1. PICK ld : ld = [ls[l] EXCEPT !.got = got]
    OBVIOUS
  <1>2. /\ ls[l] \in Load /\ ld \in Load
        /\ ld.day = ls[l].day /\ ld.want = ls[l].want /\ ld.got = got
        /\ got[d] = v /\ \A e \in Devices \ {d} : got[e] = ls[l].got[e]
        /\ v # "unlisted"
    <2>1. ls[l] \in Load /\ v \in Entry /\ v # "unlisted"
      BY DEF Doc, Power, Entry
    <2>2. QED
      BY <1>1, <2>1 DEF Load
  <1>n. PICK n \in Block : n = NotifyBlock(l) /\ n.kind = "notify" /\ n.load = l
    <2>1. NotifyBlock(l) \in Block /\ NotifyBlock(l).kind = "notify"
          /\ NotifyBlock(l).load = l
      BY DEF NotifyBlock, Block
    <2>2. QED
      BY <2>1
  <1>3. Tail(q) \in Seq(Block) /\ Head(q) \in Block
    OBVIOUS
  <1>4. ASSUME NEW E, Head(q) \notin E, n \notin E PROVE Keeps(q, r, E)
    <2>1. Keeps(q, Tail(q), E)
      BY <1>4, TailOther DEF Keeps
    <2>2. Keeps(Tail(q), Append(Tail(q), n), E)
      BY <1>3, <1>4, AppendOther DEF Keeps
    <2>3. QED
      BY <1>n, <2>1, <2>2 DEF Keeps
  <1>5. /\ \A k \in Loads \ {l} : Keeps(q, r, NotifyOf(k))
        /\ \A k \in Loads, e \in Devices :
             k # l \/ e # d => Keeps(q, r, EnergyOf(k, e))
    BY <1>4, <1>n DEF NotifyOf, EnergyOf
  <1>6. /\ ls[l].day # 0 /\ d \notin ls[l].want /\ ls[l].got[d] = "unlisted"
        /\ One(q, EnergyOf(l, d))
    <2>1. ~None(q, EnergyOf(l, d))
      BY HeadNone
    <2>2. QED
      BY <2>1 DEF Groups, Answering
  <1>7. None(r, EnergyOf(l, d))
    <2>1. None(Tail(q), EnergyOf(l, d))
      BY <1>6, TailOwn
    <2>2. n \notin EnergyOf(l, d)
      BY <1>n DEF EnergyOf
    <2>3. None(Append(Tail(q), n), EnergyOf(l, d))
      BY <1>3, <2>1, <2>2, AppendOther
    <2>4. QED
      BY <1>n, <2>1, <2>3
  <1>8. \A e \in Devices : Answering(r, ld, l, e)
    BY <1>2, <1>5, <1>6, <1>7 DEF Groups, Answering, Keeps
  <1>9. Leaving(r, ld, l)
    <2>1. None(q, NotifyOf(l))
      BY <1>6 DEF Groups, Leaving, GroupEmpty
    <2>2. Head(q) \notin NotifyOf(l)
      BY DEF EnergyOf, NotifyOf
    <2>3. None(Tail(q), NotifyOf(l))
      BY <2>1, <2>2, TailOther
    <2>4. One(Append(Tail(q), n), NotifyOf(l))
      BY <1>3, <1>n, <2>3, AppendOwn DEF NotifyOf
    <2>5. QED
      BY <1>2, <1>n, <2>3, <2>4 DEF Leaving
  <1>10. Groups(r, [ls EXCEPT ![l] = ld])
    BY <1>2, <1>5, <1>8, <1>9, SlotStep
  <1>11. QED
    BY <1>1, <1>10

(* A notify block finds a list that is complete, and frees the slot.       *)
LEMMA GroupsNotify ==
    ASSUME NEW q \in Seq(Block), q # <<>>, NEW ls \in [Loads -> Load],
           Groups(q, ls), NEW l \in Loads, Head(q) \in NotifyOf(l)
    PROVE  /\ GroupEmpty(ls[l].got)
           /\ Groups(Tail(q), [ls EXCEPT ![l] = IdleLoad])
  <1>1. GroupEmpty(ls[l].got) /\ One(q, NotifyOf(l))
    <2>1. ~None(q, NotifyOf(l))
      BY HeadNone
    <2>2. QED
      BY <2>1 DEF Groups, Leaving
  <1>2. None(Tail(q), NotifyOf(l))
    BY <1>1, TailOwn
  <1>3. /\ \A k \in Loads \ {l} : Head(q) \notin NotifyOf(k)
        /\ \A k \in Loads, e \in Devices : Head(q) \notin EnergyOf(k, e)
    BY DEF NotifyOf, EnergyOf
  <1>4. /\ \A k \in Loads \ {l} : Keeps(q, Tail(q), NotifyOf(k))
        /\ \A k \in Loads, e \in Devices : Keeps(q, Tail(q), EnergyOf(k, e))
    BY <1>3, TailOther DEF Keeps
  <1>5. \A e \in Devices : None(Tail(q), EnergyOf(l, e))
    BY <1>1, <1>4 DEF GroupEmpty, Groups, Answering, Keeps
  <1>6. Leaving(Tail(q), IdleLoad, l)
    BY <1>2, IdleGot DEF Leaving
  <1>7. \A e \in Devices : Answering(Tail(q), IdleLoad, l, e)
    BY <1>5, IdleGot DEF Answering
  <1>8. QED
    BY <1>1, <1>4, <1>6, <1>7, IdleGot, SlotStep

(* Steps that leave the loads alone, and list what is listed.              *)
LEMMA QuietStep ==
    ASSUME ListInv, loads' = loads, SameBlocks(mainq, mainq'),
           \A d \in Devices : shown'[d] = "unlisted" <=> shown[d] = "unlisted"
    PROVE  Groups(mainq', loads') /\ WholeList'
  BY SameGroups DEF ListInv, WholeList

LEMMA InitList == Init => Groups(mainq, loads) /\ WholeList
  <1> SUFFICES ASSUME Init PROVE Groups(mainq, loads) /\ WholeList
    OBVIOUS
  <1>1. mainq = <<>> /\ \A l \in Loads : loads[l] = IdleLoad
    BY DEF Init
  <1>2. Groups(mainq, loads)
    BY <1>1, IdleGot, NoneEmpty DEF Groups, Leaving, Answering
  <1>3. WholeList
    BY DEF Init, WholeList
  <1>4. QED
    BY <1>2, <1>3

(* The callbacks of the device list and of its documents, and the notify   *)
(* block that shows the list.                                              *)
LEMMA LoadStep ==
    ASSUME ListInv,
           \/ \E l \in Loads, d \in Devices : AnswerEnergy(l, d) \/ FailEnergy(l, d)
           \/ RunDevices \/ RunEnergy \/ RunNotify
    PROVE  Groups(mainq', loads') /\ WholeList'
  <1>0. /\ TypeOK /\ Groups(mainq, loads) /\ WholeList
        /\ mainq \in Seq(Block) /\ loads \in [Loads -> Load]
    BY DEF ListInv, TypeOK, LoadOK
  <1>t. mainq # <<>> => Head(mainq) \in Block
    BY <1>0
  <1>1. ASSUME NEW l \in Loads, NEW d \in Devices,
               AnswerEnergy(l, d) \/ FailEnergy(l, d)
        PROVE  Groups(mainq', loads') /\ WholeList'
    <2>1. loads[l] \in Load /\ d \in loads[l].want
      BY <1>0, <1>1, EnergyAnswer
    <2>2. PICK v \in Doc : /\ mainq' = Append(mainq, EnergyBlock(l, d, v, 1))
                           /\ EnergyBlock(l, d, v, 1) \in Block
      BY <1>0, <1>1, EnergyAnswer
    <2>b. PICK b \in Block :
            /\ b = EnergyBlock(l, d, v, 1)
            /\ b.kind = "energy" /\ b.load = l /\ b.dev = d
      <3>1. /\ EnergyBlock(l, d, v, 1).kind = "energy"
            /\ EnergyBlock(l, d, v, 1).load = l /\ EnergyBlock(l, d, v, 1).dev = d
        BY DEF EnergyBlock
      <3>2. QED
        BY <2>2, <3>1
    <2>4. /\ loads' = [loads EXCEPT ![l].want = @ \ {d}]
          /\ mainq' = Append(mainq, b) /\ shown' = shown
      BY <1>0, <1>1, <2>2, <2>b, EnergyAnswer
    <2>5. Groups(mainq', loads')
      BY <1>0, <2>1, <2>b, <2>4, GroupsAnswer
    <2>6. QED
      BY <1>0, <2>4, <2>5 DEF WholeList
  <1>2. CASE RunDevices
    <2>1. /\ mainq # <<>> /\ mainq' = Tail(mainq) /\ shown' = shown
          /\ Head(mainq).kind = "devices"
      BY <1>2 DEF RunDevices
    <2>2. SameBlocks(mainq, mainq')
      BY <1>0, <2>1, SameTail
    <2>3. CASE loads' = loads
      BY <2>1, <2>2, <2>3, QuietStep
    <2>4. CASE loads' # loads
      <3>1. PICK l \in Loads :
              /\ loads[l].day = 0
              /\ loads' = [loads EXCEPT ![l] =
                   [day |-> Head(mainq).day, want |-> Devices, got |-> IdleLoad.got]]
        BY <1>2, <2>4 DEF RunDevices
      <3>2. Head(mainq).day \in Days
        BY <1>t, <2>1 DEF Block
      <3>3. Groups(mainq', loads')
        BY <1>0, <2>2, <3>1, <3>2, GroupsStart
      <3>4. QED
        BY <1>0, <2>1, <3>3 DEF WholeList
    <2>5. QED
      BY <2>3, <2>4
  <1>3. CASE RunEnergy
    <2>1. mainq # <<>> /\ Head(mainq).kind = "energy" /\ shown' = shown
      BY <1>3 DEF RunEnergy
    <2>2. PICK l \in Loads, d \in Devices, v \in Doc :
            Head(mainq).load = l /\ Head(mainq).dev = d /\ Head(mainq).val = v
      BY <1>t, <2>1 DEF Block
    <2>3. PICK got : got = [loads[l].got EXCEPT ![d] = v]
      OBVIOUS
    <2>4. /\ loads' = [loads EXCEPT ![l].got = got]
          /\ mainq' = IF GroupEmpty(got) THEN Append(Tail(mainq), NotifyBlock(l))
                                         ELSE Tail(mainq)
      BY <1>3, <2>2, <2>3 DEF RunEnergy
    <2>5. Head(mainq) \in EnergyOf(l, d)
      BY <1>t, <2>1, <2>2 DEF EnergyOf
    <2>6. Groups(mainq', loads')
      BY <1>0, <2>1, <2>3, <2>4, <2>5, GroupsBody
    <2>7. QED
      BY <1>0, <2>1, <2>6 DEF WholeList
  <1>4. CASE RunNotify
    <2>1. mainq # <<>> /\ Head(mainq).kind = "notify" /\ mainq' = Tail(mainq)
      BY <1>4 DEF RunNotify
    <2>2. PICK l \in Loads : Head(mainq).load = l
      BY <1>t, <2>1 DEF Block
    <2>3. Head(mainq) \in NotifyOf(l)
      BY <1>t, <2>1, <2>2 DEF NotifyOf
    <2>4. loads' = [loads EXCEPT ![l] = IdleLoad] /\ shown' = loads[l].got
      BY <1>4, <2>2 DEF RunNotify
    <2>5. GroupEmpty(loads[l].got) /\ Groups(mainq', loads')
      BY <1>0, <2>1, <2>3, <2>4, GroupsNotify
    <2>6. QED
      BY <2>4, <2>5 DEF WholeList, GroupEmpty
  <1>5. QED
    BY <1>1, <1>2, <1>3, <1>4

(* A block that is dispatched a second time stays the block of its load;   *)
(* the bodies of snapshots and completions list nothing new.               *)
LEMMA BodyStep ==
    ASSUME ListInv, Redispatch \/ RunSnapshot \/ RunCompletion
    PROVE  Groups(mainq', loads') /\ WholeList'
  <1>0. /\ mainq \in Seq(Block) /\ mainq # <<>> /\ shown \in [Devices -> Entry]
    BY DEF ListInv, TypeOK, LoadOK, Redispatch, RunSnapshot, RunCompletion
  <1>b. PICK b \in Block : b = Head(mainq)
    BY <1>0
  <1>1. CASE Redispatch
    <2>1. /\ loads' = loads /\ shown' = shown
          /\ b.kind \in {"energy", "snapshot", "completion"}
          /\ \/ mainq' = Tail(mainq) /\ b.kind = "snapshot"
             \/ mainq' = Append(Tail(mainq), [b EXCEPT !.hop = 2])
      BY <1>1, <1>b DEF Redispatch
    <2>2. PICK b2 \in Block :
            /\ b2 = [b EXCEPT !.hop = 2] /\ b2.kind = b.kind
            /\ b.kind = "energy" => b2.load = b.load /\ b2.dev = b.dev
      <3> DEFINE h == [b EXCEPT !.hop = 2]
      <3>1. h \in Block /\ h.kind = b.kind
        BY <2>1 DEF Block
      <3>2. b.kind = "energy" => h.load = b.load /\ h.dev = b.dev
        BY <2>1 DEF Block
      <3>3. QED
        BY <3>1, <3>2
    <2>3. CASE mainq' = Tail(mainq) /\ b.kind = "snapshot"
      BY <1>0, <1>b, <2>1, <2>3, SameTail, QuietStep
    <2>4. CASE mainq' = Append(Tail(mainq), b2)
      <3>1. /\ \A l \in Loads : Head(mainq) \in NotifyOf(l) <=> b2 \in NotifyOf(l)
            /\ \A l \in Loads, d \in Devices :
                 Head(mainq) \in EnergyOf(l, d) <=> b2 \in EnergyOf(l, d)
        BY <1>b, <2>1, <2>2 DEF NotifyOf, EnergyOf
      <3>2. SameBlocks(mainq, mainq')
        BY <1>0, <2>2, <2>4, <3>1, KeepsRotate DEF SameBlocks
      <3>3. QED
        BY <2>1, <3>2, QuietStep
    <2>5. QED
      BY <2>1, <2>2, <2>3, <2>4
  <1>2. CASE RunSnapshot
    <2>1. /\ loads' = loads /\ mainq' = Tail(mainq) /\ b.kind = "snapshot"
          /\ shown' = MergeSnapshot(b.docs)
      BY <1>2, <1>b DEF RunSnapshot
    <2>2. b.docs \in [Devices -> Doc]
      BY <2>1 DEF Block
    <2>3. \A d \in Devices : shown'[d] = "unlisted" <=> shown[d] = "unlisted"
      BY <2>1, <2>2 DEF MergeSnapshot, Doc, Power
    <2>4. QED
      BY <1>0, <1>b, <2>1, <2>3, SameTail, QuietStep
  <1>3. CASE RunCompletion
    <2>1. /\ loads' = loads /\ mainq' = Tail(mainq) /\ b.kind = "completion"
          /\ shown' = IF shown[b.dev] \notin Power THEN shown
                      ELSE [shown EXCEPT ![b.dev] =
                              IF b.outcome = "ok" THEN b.isOn ELSE Flip(@)]
      BY <1>3, <1>b DEF RunCompletion
    <2>2. b.dev \in Devices /\ b.isOn \in Power
      BY <2>1 DEF Block
    <2>3. \A d \in Devices : shown'[d] = "unlisted" <=> shown[d] = "unlisted"
      BY <1>0, <2>1, <2>2 DEF Flip, Power
    <2>4. QED
      BY <1>0, <1>b, <2>1, <2>3, SameTail, QuietStep
  <1>4. QED
    BY <1>1, <1>2, <1>3

(* What the client adds to a queue for the listener, and for the answer to *)
(* a write, is no block of a load.                                         *)
LEMMA SameEmit ==
    ASSUME TypeOK, NEW c \in [Days -> [Devices -> Doc]], NEW ws,
           NEW day \in Days, NEW q \in Seq(Block)
    PROVE  SameBlocks(q, Emit(q, c, ws, day))
  <1>1. \/ Emit(q, c, ws, day) = q
        \/ \E b \in Block : /\ b.kind = "snapshot"
                            /\ Emit(q, c, ws, day) = Append(q, b)
    BY QueueEmit
  <1>2. \A b \in Block : b.kind = "snapshot" => SameBlocks(q, Append(q, b))
    BY SameAppend
  <1>3. QED
    BY <1>1, <1>2, SameItself, Zenon

LEMMA SameAnswered ==
    ASSUME TypeOK, NEW c \in [Days -> [Devices -> Doc]], NEW ws,
           NEW w \in Write, NEW o \in Outcome
    PROVE  SameBlocks(mainq, Answered(w, o, c, ws))
  <1>1. mainq \in Seq(Block) /\ Completion(mainq, w, o) \in Seq(Block)
    BY QueueAnswered DEF TypeOK
  <1>2. SameBlocks(mainq, Completion(mainq, w, o))
    <2>1. CompletionBlock(w, o, 1) \in Block
      BY CompletionType
    <2>2. CompletionBlock(w, o, 1).kind = "completion"
      BY DEF CompletionBlock
    <2>3. QED
      BY <1>1, <2>1, <2>2, SameAppend, SameItself DEF Completion
  <1>3. \/ Answered(w, o, c, ws) = Completion(mainq, w, o)
        \/ \E b \in Block :
             /\ b.kind = "snapshot"
             /\ Answered(w, o, c, ws) = Append(Completion(mainq, w, o), b)
    BY QueueAnswered
  <1>4. \A b \in Block : b.kind = "snapshot" =>
          SameBlocks(Completion(mainq, w, o), Append(Completion(mainq, w, o), b))
    BY <1>1, SameAppend
  <1>5. SameBlocks(Completion(mainq, w, o), Answered(w, o, c, ws))
    BY <1>3, <1>4, SameItself, Zenon
  <1>6. QED
    BY <1>2, <1>5, SameTwice

LEMMA NextList == ListInv /\ [Next]_vars => ListInv'
  <1> SUFFICES ASSUME ListInv, [Next]_vars PROVE ListInv'
    OBVIOUS
  <1>0. TypeOK /\ mainq \in Seq(Block)
    BY DEF ListInv, TypeOK
  <1>t. TypeOK'
    BY <1>0, NextType
  <1>s. SUFFICES Groups(mainq', loads') /\ WholeList'
    BY <1>t DEF ListInv
  <1>q. ASSUME loads' = loads, shown' = shown, SameBlocks(mainq, mainq')
        PROVE  Groups(mainq', loads') /\ WholeList'
    BY <1>q, QuietStep
  <1>k. ASSUME loads' = loads, shown' = shown, mainq' = mainq
        PROVE  Groups(mainq', loads') /\ WholeList'
    BY <1>q, <1>k, SameItself
  <1>1. CASE Appear
    <2>1. used["appear"] + 1 \in 1 .. MaxAppear
      BY <1>0, <1>1, ConstantsAssumption DEF Appear, TypeOK, ScreenOK, Counters
    <2>2. LocalDocs(cache, writes, today) \in [Devices -> Doc]
      BY <1>0, LocalDocsType DEF TypeOK, StoreOK, ScreenOK
    <2>b. PICK b \in Block :
            /\ b = SnapshotBlock(used["appear"] + 1, LocalDocs(cache, writes, today), 1)
            /\ b.kind = "snapshot"
      <3>1. SnapshotBlock(used["appear"] + 1, LocalDocs(cache, writes, today), 1).kind
              = "snapshot"
        BY DEF SnapshotBlock
      <3>2. QED
        BY <2>1, <2>2, <3>1, SnapshotType
    <2>3. /\ mainq' = mainq \/ mainq' = Append(mainq, b)
          /\ loads' = loads /\ shown' = shown
      BY <1>1, <2>b DEF Appear
    <2>4. QED
      BY <1>0, <1>q, <1>k, <2>b, <2>3, SameAppend
  <1>2. CASE Disappear
    BY <1>2, <1>k DEF Disappear
  <1>3. ASSUME NEW f \in Filters, SelectFilter(f)
        PROVE  Groups(mainq', loads') /\ WholeList'
    BY <1>3, <1>k DEF SelectFilter
  <1>4. ASSUME NEW q \in asked, AnswerDevices(q)
        PROVE  Groups(mainq', loads') /\ WholeList'
    <2>b. /\ DevicesBlock(q.src, q.reg, q.day) \in Block
          /\ DevicesBlock(q.src, q.reg, q.day).kind = "devices"
      BY <1>0 DEF DevicesBlock, Block, TypeOK, LoadOK, Request
    <2>1. /\ mainq' = Append(mainq, DevicesBlock(q.src, q.reg, q.day))
          /\ loads' = loads /\ shown' = shown
      BY <1>4 DEF AnswerDevices
    <2>2. QED
      BY <1>0, <1>q, <2>b, <2>1, SameAppend
  <1>5. ASSUME NEW q \in asked, FailDevices(q)
        PROVE  Groups(mainq', loads') /\ WholeList'
    BY <1>5, <1>k DEF FailDevices
  <1>t5. ASSUME NEW target \in Targets, TargetError(target)
         PROVE  Groups(mainq', loads') /\ WholeList'
    BY <1>t5, <1>k DEF TargetError
  <1>6. CASE DeviceEdited
    <2>1. reg \in 1 .. MaxAppear /\ regDay \in Days
      BY <1>0, <1>6, ConstantsAssumption DEF DeviceEdited, TypeOK, ScreenOK
    <2>b. /\ DevicesBlock("listener", reg, regDay) \in Block
          /\ DevicesBlock("listener", reg, regDay).kind = "devices"
      BY <2>1 DEF DevicesBlock, Block
    <2>2. /\ mainq' = Append(mainq, DevicesBlock("listener", reg, regDay))
          /\ loads' = loads /\ shown' = shown
      BY <1>6 DEF DeviceEdited
    <2>3. QED
      BY <1>0, <1>q, <2>b, <2>2, SameAppend
  <1>7. ASSUME NEW l \in Loads, NEW d \in Devices,
               AnswerEnergy(l, d) \/ FailEnergy(l, d)
        PROVE  Groups(mainq', loads') /\ WholeList'
    BY <1>7, LoadStep
  <1>8. CASE RunDevices \/ RunEnergy \/ RunNotify
    BY <1>8, LoadStep
  <1>9. CASE Redispatch \/ RunSnapshot \/ RunCompletion
    BY <1>9, BodyStep
  <1>10. ASSUME NEW d \in Devices, Tap(d)
         PROVE  Groups(mainq', loads') /\ WholeList'
    <2>1. /\ loads' = loads /\ shown' = shown
          /\ mainq' = mainq \/ mainq' = Emit(mainq, cache, writes', today)
      BY <1>10 DEF Tap
    <2>2. today \in Days /\ cache \in [Days -> [Devices -> Doc]]
      BY <1>0 DEF TypeOK, StoreOK, ScreenOK
    <2>3. SameBlocks(mainq, Emit(mainq, cache, writes', today))
      BY <1>0, <2>2, SameEmit
    <2>4. QED
      BY <1>q, <1>k, <2>1, <2>3
  <1>11. CASE Commit \/ Reject
    <2>1. PICK o \in Outcome, c \in [Days -> [Devices -> Doc]] :
            /\ writes # <<>> /\ loads' = loads /\ shown' = shown
            /\ mainq' = Answered(Head(writes), o, c, writes')
      <3>1. /\ cache \in [Days -> [Devices -> Doc]]
            /\ cache' \in [Days -> [Devices -> Doc]]
        BY <1>0, <1>t DEF TypeOK, StoreOK
      <3>2. CASE Commit
        BY <3>1, <3>2 DEF Commit, Outcome
      <3>3. CASE Reject
        BY <3>1, <3>3 DEF Reject, Outcome
      <3>4. QED
        BY <1>11, <3>2, <3>3
    <2>2. Head(writes) \in Write
      BY <1>0, <2>1 DEF TypeOK, StoreOK
    <2>3. SameBlocks(mainq, Answered(Head(writes), o, c, writes'))
      BY <1>0, <2>2, SameAnswered
    <2>4. QED
      BY <1>q, <2>1, <2>3
  <1>12. ASSUME NEW day \in Days, Watch(day)
         PROVE  Groups(mainq', loads') /\ WholeList'
    <2>1. /\ mainq' = Emit(mainq, cache', writes, day)
          /\ loads' = loads /\ shown' = shown
      BY <1>12 DEF Watch
    <2>2. cache' \in [Days -> [Devices -> Doc]]
      BY <1>t DEF TypeOK, StoreOK
    <2>3. SameBlocks(mainq, Emit(mainq, cache', writes, day))
      BY <1>0, <2>2, SameEmit
    <2>4. QED
      BY <1>q, <2>1, <2>3
  <1>13. CASE \/ \E d \in Devices, s \in Power : Automate(d, s)
              \/ Heartbeat \/ Midnight \/ UNCHANGED vars
    BY <1>13, <1>k DEF Automate, Heartbeat, Midnight, vars
  <1>14. CASE Relaunch
    <2>1. /\ mainq' = <<>> /\ loads' = [l \in Loads |-> IdleLoad]
          /\ shown' = [d \in Devices |-> "unlisted"]
      BY <1>14 DEF Relaunch
    <2>2. Groups(mainq', loads')
      BY <2>1, IdleGot, NoneEmpty DEF Groups, Leaving, Answering
    <2>3. QED
      BY <2>1, <2>2 DEF WholeList
  <1>15. QED
    BY <1>1, <1>2, <1>3, <1>4, <1>5, <1>t5, <1>6, <1>7, <1>8, <1>9, <1>10, <1>11, <1>12,
       <1>13, <1>14
    DEF Next, MainQueue

(* For any devices, however many loads overlap and in whatever order their *)
(* answers run: the list shows every device or none.  The last callback    *)
(* out of a load's own group queues its notify block, and nothing else     *)
(* lists or unlists a device.                                              *)
THEOREM WholeListHolds == Spec => []WholeList
  <1>1. Init => ListInv
    BY InitType, InitList DEF ListInv
  <1>2. ListInv => WholeList
    BY DEF ListInv
  <1>3. QED
    BY <1>1, <1>2, NextList, PTL DEF Spec
=============================================================================
