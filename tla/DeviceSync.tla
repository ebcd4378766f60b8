------------------------------ MODULE DeviceSync ------------------------------
(***************************************************************************)
(* The appliance list of the landing screen and the ON/OFF switch of a     *)
(* device card, between the app's main queue, the Firestore client (local  *)
(* cache, pending writes, snapshot listeners) and the server documents     *)
(* users/{uid}/energy_data/{day}/devices/{device} that the home controller *)
(* also writes.                                                            *)
(*                                                                         *)
(* LandingViewModel.swift, LandingView.swift and DeviceCardView.swift are  *)
(* modelled statement by statement at the level of main-queue blocks; the  *)
(* Firestore client is modelled by the vendored SDK's rules; the server    *)
(* and the home controller are external.                                   *)
(***************************************************************************)
EXTENDS Integers, Sequences, FiniteSets

CONSTANTS
    Devices,      \* document ids of users/{uid}/devices
    Category,     \* the category field of each device
    Filters,      \* the tags of the filter picker
    MaxDay,       \* bound: number of calendar days that pass
    MaxTap,       \* bound: number of times a switch is used
    MaxAuto,      \* bound: number of documents the controller writes
    MaxAppear,    \* bound: number of times the landing screen appears, per launch
    MaxEdit,      \* bound: number of changes of the devices collection
    MaxFilter,    \* bound: number of filter changes
    MaxError,     \* bound: number of reads and listeners that fail
    MaxRelaunch,  \* bound: number of times the app is killed and relaunched
    MaxQueue      \* bound: length of the main queue the watch stream adds to

ASSUME ConstantsAssumption ==
    /\ IsFiniteSet(Devices) /\ Devices # {}
    /\ Category \in [Devices -> Filters \ {"all"}]
    /\ "all" \in Filters
    /\ MaxDay \in Nat \ {0}
    /\ MaxTap \in Nat
    /\ MaxAuto \in Nat
    /\ MaxAppear \in Nat
    /\ MaxEdit \in Nat
    /\ MaxFilter \in Nat
    /\ MaxError \in Nat
    /\ MaxRelaunch \in Nat
    /\ MaxQueue \in Nat

VARIABLES
    server,    \* energy_data on the server: day, device -> "none", "on", "off"
    fresh,     \* days with a server change the watch stream has not delivered
    cache,     \* the client's copy of the server documents
    writes,    \* updateData calls the server has not answered, in order
    mainq,     \* blocks waiting on the main dispatch queue
    asked,     \* requests for the device list not answered yet
    loads,     \* device loads in progress, one DispatchGroup each
    shown,     \* LandingViewModel.devices: the isOn each entry holds
    isToggling,\* the @State flag of each card
    card,      \* which incarnation of a device's card is on screen
    visible,   \* the landing screen is on screen
    reg,       \* listener registration in force, 0 when removed
    regDay,    \* day whose documents the energy listener follows
    ended,     \* listeners of that registration Firestore has ended, by an error
    filter,    \* selectedFilter
    today,     \* what currentDateString returns
    launch,    \* incarnation of the app process
    used       \* counters held against the bounds

vars == <<server, fresh, cache, writes, mainq, asked, loads, shown, isToggling,
          card, visible, reg, regDay, ended, filter, today, launch, used>>

storeVars == <<server, fresh, cache, writes>>
cardVars  == <<isToggling, card, filter>>
screenVars == <<visible, reg, regDay, ended>>

Days == 1 .. MaxDay
Power == {"on", "off"}
Doc == Power \cup {"none"}
Outcome == {"ok", "error"}
Targets == {"devices", "energy"}
Entry == Doc \cup {"unlisted"}
Loads == 1 .. (2 * MaxAppear + MaxEdit)

(* A slot for a load; day 0 marks a slot that is not in use. *)
IdleLoad == [day |-> 0, want |-> {}, got |-> [d \in Devices |-> "unlisted"]]

(* Mutant of Flip: switching on loses the value. *)
Flip_Lost(s) == IF s = "on" THEN "off" ELSE "none"

Flip(s) == IF s = "on" THEN "off" ELSE "on"
Counters == {"tap", "auto", "appear", "edit", "filter", "error"}
Bump(counter) == used' = [used EXCEPT ![counter] = @ + 1]

-----------------------------------------------------------------------------
(* Blocks on the main queue.  The Firestore SDK calls back on the main     *)
(* queue (hop 1); most callbacks then dispatch their body to the main      *)
(* queue once more (hop 2).                                                *)

DevicesBlock(src, r, day) ==
    [kind |-> "devices", src |-> src, reg |-> r, day |-> day]
EnergyBlock(l, d, val, hop) ==
    [kind |-> "energy", load |-> l, dev |-> d, val |-> val, hop |-> hop]
NotifyBlock(l) == [kind |-> "notify", load |-> l]
SnapshotBlock(r, docs, hop) ==
    [kind |-> "snapshot", reg |-> r, docs |-> docs, hop |-> hop]
CompletionBlock(w, outcome, hop) ==
    [kind |-> "completion", dev |-> w.dev, isOn |-> w.isOn, card |-> w.card,
     outcome |-> outcome, hop |-> hop]

-----------------------------------------------------------------------------
(* The Firestore client.                                                   *)

(* What local reads see: the cached document with every pending patch of   *)
(* it applied.  A patch has the precondition "exists", so it does nothing  *)
(* to a document the cache does not hold.                                  *)
LocalView(c, ws, day, d) ==
    LET mine == {i \in DOMAIN ws : ws[i].dev = d /\ ws[i].day = day}
        last(s) == \E i \in mine : ws[i].isOn = s /\ \A j \in mine : j <= i
    IN  IF c[day][d] = "none" \/ mine = {} THEN c[day][d]
        ELSE IF last("on") THEN "on" ELSE "off"

LocalDocs(c, ws, day) == [d \in Devices |-> LocalView(c, ws, day, d)]

(* The energy listener is in force and Firestore has not ended it. *)
Following(day) == reg # 0 /\ regDay = day /\ "energy" \notin ended

(* Queue q with the snapshot that the energy listener is handed when the   *)
(* documents of a day change.  A listener told of no document runs an      *)
(* empty loop, so nothing is queued then.                                  *)
Emit(q, c, ws, day) ==
    LET docs == LocalDocs(c, ws, day)
    IN  IF Following(day) /\ \E d \in Devices : docs[d] # "none"
        THEN Append(q, SnapshotBlock(reg, docs, 1))
        ELSE q

-----------------------------------------------------------------------------
Init ==
    /\ server \in {s \in [Days -> [Devices -> Doc]] :
                     \A n \in Days \ {1} : \A d \in Devices : s[n][d] = "none"}
    /\ fresh = {1}
    /\ cache = [n \in Days |-> [d \in Devices |-> "none"]]
    /\ writes = <<>>
    /\ mainq = <<>>
    /\ asked = {}
    /\ loads = [l \in Loads |-> IdleLoad]
    /\ shown = [d \in Devices |-> "unlisted"]
    /\ isToggling = [d \in Devices |-> FALSE]
    /\ card = [d \in Devices |-> 0]
    /\ visible = FALSE
    /\ reg = 0
    /\ regDay = 1
    /\ ended = {}
    /\ filter = "all"
    /\ today = 1
    /\ launch = 0
    /\ used = [c \in Counters |-> 0]

-----------------------------------------------------------------------------
(* The landing screen.                                                     *)

(* onAppear: fetchUserData -> fetchDevicesAndEnergyData.  A one-shot get   *)
(* and a listener on the devices collection, and a listener on today's     *)
(* energy documents, which is first told what the cache already holds.     *)
Appear ==
    /\ ~visible
    /\ used["appear"] < MaxAppear
    /\ Bump("appear")
    /\ visible' = TRUE
    /\ reg' = used["appear"] + 1
    /\ regDay' = today
    /\ ended' = {}
    /\ asked' = asked \cup
         {[src |-> src, reg |-> used["appear"] + 1, day |-> today] :
            src \in {"get", "listener"}}
    /\ LET docs == LocalDocs(cache, writes, today)
       IN  mainq' = IF \E d \in Devices : docs[d] # "none"
                    THEN Append(mainq, SnapshotBlock(used["appear"] + 1, docs, 1))
                    ELSE mainq
    /\ UNCHANGED <<storeVars, loads, shown, cardVars, today, launch>>

(* onDisappear: stopListening. *)
Disappear ==
    /\ visible
    /\ visible' = FALSE
    /\ reg' = 0
    /\ ended' = {}
    /\ asked' = {q \in asked : q.src = "get"}
    /\ UNCHANGED <<storeVars, mainq, loads, shown, cardVars, regDay, today,
                   launch, used>>

(* The filter picker.  A card the new filter hides is destroyed with its   *)
(* @State; if it comes back it is a new card with isToggling = false.      *)
OnScreen(d, f) == shown[d] # "unlisted" /\ (f = "all" \/ Category[d] = f)

SelectFilter(f) ==
    /\ visible
    /\ f # filter
    /\ used["filter"] < MaxFilter
    /\ Bump("filter")
    /\ filter' = f
    /\ LET hidden == {d \in Devices : OnScreen(d, filter) /\ ~OnScreen(d, f)}
       IN  /\ card' = [d \in Devices |-> IF d \in hidden THEN card[d] + 1
                                                         ELSE card[d]]
           /\ isToggling' = [d \in Devices |-> d \notin hidden /\ isToggling[d]]
    /\ UNCHANGED <<storeVars, mainq, asked, loads, shown, screenVars, today,
                   launch>>

(* The device list arrives for the get or the listener: its callback is    *)
(* queued.                                                                 *)
AnswerDevices(q) ==
    /\ asked' = asked \ {q}
    /\ mainq' = Append(mainq, DevicesBlock(q.src, q.reg, q.day))
    /\ UNCHANGED <<storeVars, loads, shown, cardVars, screenVars, today, launch,
                   used>>

(* The get fails: the callback only sets errorMessage and returns. *)
FailDevices(q) ==
    /\ q.src = "get"
    /\ used["error"] < MaxError
    /\ Bump("error")
    /\ asked' = asked \ {q}
    /\ UNCHANGED <<storeVars, mainq, loads, shown, cardVars, screenVars, today,
                   launch>>

(* Firestore ends a listener with an error, before or after its first      *)
(* answer: the callback only sets errorMessage and returns, and nothing    *)
(* more comes.  What is queued for the listener still runs.                *)
TargetError(target) ==
    /\ reg # 0 /\ target \notin ended
    /\ used["error"] < MaxError
    /\ Bump("error")
    /\ ended' = ended \cup {target}
    /\ asked' = IF target = "devices" THEN {q \in asked : q.src = "get"} ELSE asked
    /\ UNCHANGED <<storeVars, mainq, loads, shown, cardVars, visible, reg, regDay,
                   today, launch>>

(* Somebody edits the devices collection (a name, say): the devices        *)
(* listener fires again.                                                   *)
DeviceEdited ==
    /\ reg # 0 /\ "devices" \notin ended
    /\ \A q \in asked : q.src = "get"
    /\ used["edit"] < MaxEdit
    /\ Bump("edit")
    /\ mainq' = Append(mainq, DevicesBlock("listener", reg, regDay))
    /\ UNCHANGED <<storeVars, asked, loads, shown, cardVars, screenVars, today,
                   launch>>

(* The device-list callback: enter the group and get the energy document   *)
(* once for every device.  The listener's callback is muted once removed.  *)
RunDevices ==
    /\ mainq # <<>>
    /\ LET b == Head(mainq) IN
       /\ b.kind = "devices"
       /\ \/ /\ b.src = "listener" /\ b.reg # reg
             /\ UNCHANGED loads
          \/ /\ b.src = "get" \/ b.reg = reg
             /\ \E l \in Loads :
                  /\ loads[l].day = 0
                  /\ \A k \in 1 .. l - 1 : loads[k].day # 0
                  /\ loads' = [loads EXCEPT ![l] =
                       [day |-> b.day, want |-> Devices, got |-> IdleLoad.got]]
    /\ mainq' = Tail(mainq)
    /\ UNCHANGED <<storeVars, asked, shown, cardVars, screenVars, today, launch,
                   used>>

(* The client answers one getDocument of a load from its local view.  The  *)
(* watch stream has delivered the document first when the device is        *)
(* online; offline the cached document is returned.                        *)
AnswerEnergy(l, d) ==
    /\ d \in loads[l].want
    /\ loads' = [loads EXCEPT ![l].want = @ \ {d}]
    /\ mainq' = Append(mainq, EnergyBlock(l, d,
                          LocalView(cache, writes, loads[l].day, d), 1))
    /\ UNCHANGED <<storeVars, asked, shown, cardVars, screenVars, today, launch,
                   used>>

(* It fails, because the server refuses or nothing is cached: the callback *)
(* ignores the error and the entry has no energy data.                     *)
FailEnergy(l, d) ==
    /\ used["error"] < MaxError
    /\ Bump("error")
    /\ d \in loads[l].want
    /\ loads' = [loads EXCEPT ![l].want = @ \ {d}]
    /\ mainq' = Append(mainq, EnergyBlock(l, d, "none", 1))
    /\ UNCHANGED <<storeVars, asked, shown, cardVars, screenVars, today, launch>>

(* Mutant of GroupEmpty: the group is left after the first answer. *)
GroupEmpty_First(got) == \E d \in Devices : got[d] # "unlisted"

(* enter and leave are balanced: every device has had its answer run. *)
GroupEmpty(got) == \A d \in Devices : got[d] # "unlisted"

(* The body of the getDocument callback: append the entry and leave the    *)
(* group; the last one out queues the group's notify block.                *)
RunEnergy ==
    /\ mainq # <<>>
    /\ LET b == Head(mainq)
           got == [loads[b.load].got EXCEPT ![b.dev] = b.val]
       IN  /\ b.kind = "energy" /\ b.hop = 2
           /\ loads' = [loads EXCEPT ![b.load].got = got]
           /\ mainq' = IF GroupEmpty(got)
                       THEN Append(Tail(mainq), NotifyBlock(b.load))
                       ELSE Tail(mainq)
    /\ UNCHANGED <<storeVars, asked, shown, cardVars, screenVars, today, launch,
                   used>>

(* The group's notify block replaces the whole list. *)
RunNotify ==
    /\ mainq # <<>>
    /\ LET b == Head(mainq) IN
       /\ b.kind = "notify"
       /\ shown' = loads[b.load].got
       /\ loads' = [loads EXCEPT ![b.load] = IdleLoad]
    /\ mainq' = Tail(mainq)
    /\ UNCHANGED <<storeVars, asked, cardVars, screenVars, today, launch, used>>

(* Mutant of MergeSnapshot: only entries without energy data are filled. *)
MergeSnapshot_FillOnly(docs) ==
    [d \in Devices |-> IF shown[d] = "none" THEN docs[d] ELSE shown[d]]

MergeSnapshot(docs) ==
    [d \in Devices |-> IF shown[d] # "unlisted" /\ docs[d] # "none"
                       THEN docs[d] ELSE shown[d]]

(* The body of the energy listener: every document of the snapshot whose   *)
(* device is in the list replaces the entry's energy data.                 *)
RunSnapshot ==
    /\ mainq # <<>>
    /\ LET b == Head(mainq) IN
       /\ b.kind = "snapshot" /\ b.hop = 2
       /\ shown' = MergeSnapshot(b.docs)
    /\ mainq' = Tail(mainq)
    /\ UNCHANGED <<storeVars, asked, loads, cardVars, screenVars, today, launch,
                   used>>

(* The first hop of a block that dispatches its body to the main queue; a  *)
(* removed listener is muted, so its callback is dropped here.             *)
Redispatch ==
    /\ mainq # <<>>
    /\ LET b == Head(mainq) IN
       /\ b.kind \in {"energy", "snapshot", "completion"} /\ b.hop = 1
       /\ mainq' = IF b.kind = "snapshot" /\ b.reg # reg
                   THEN Tail(mainq)
                   ELSE Append(Tail(mainq), [b EXCEPT !.hop = 2])
    /\ UNCHANGED <<storeVars, asked, loads, shown, cardVars, screenVars, today,
                   launch, used>>

-----------------------------------------------------------------------------
(* The switch of a device card.                                            *)

SwitchEnabled(d) == shown[d] \in Power /\ ~isToggling[d]

(* toggleDevice: the switch is there when the entry has energy data and    *)
(* enabled when isToggling is false.  The document written is that of the  *)
(* day the tap happens on.  The patch shows in the local view at once.     *)
Tap(d) ==
    /\ visible
    /\ OnScreen(d, filter)
    /\ SwitchEnabled(d)
    /\ used["tap"] < MaxTap
    /\ Bump("tap")
    /\ isToggling' = [isToggling EXCEPT ![d] = TRUE]
    /\ writes' = Append(writes, [dev |-> d, day |-> today, isOn |-> Flip(shown[d]),
                                 card |-> card[d], launch |-> launch])
    /\ mainq' = IF cache[today][d] # "none"
                THEN Emit(mainq, cache, writes', today)
                ELSE mainq
    /\ UNCHANGED <<server, fresh, cache, asked, loads, shown, card, filter,
                   screenVars, today, launch>>

(* Mutant of Releases: the flag is only reset when the write succeeded. *)
Releases_OnSuccess(b) == card[b.dev] = b.card /\ b.outcome = "ok"

Releases(b) == card[b.dev] = b.card

(* The body of updateData's completion.  The flag belongs to the card that *)
(* was tapped; the entry is reached through the binding whatever became of *)
(* that card.                                                              *)
RunCompletion ==
    /\ mainq # <<>>
    /\ LET b == Head(mainq) IN
       /\ b.kind = "completion" /\ b.hop = 2
       /\ isToggling' = IF Releases(b)
                        THEN [isToggling EXCEPT ![b.dev] = FALSE]
                        ELSE isToggling
       /\ shown' = IF shown[b.dev] \notin Power THEN shown
                   ELSE [shown EXCEPT ![b.dev] = IF b.outcome = "ok" THEN b.isOn ELSE Flip(@)]
    /\ mainq' = Tail(mainq)
    /\ UNCHANGED <<storeVars, asked, loads, card, filter, screenVars, today,
                   launch, used>>

-----------------------------------------------------------------------------
(* The Firestore client and the server.                                    *)

(* A write of an earlier launch has nobody to call. *)
Completion(q, w, outcome) ==
    IF w.launch = launch THEN Append(q, CompletionBlock(w, outcome, 1)) ELSE q

(* Mutant of Answered: nothing is told of the write of an earlier launch. *)
Answered_OwnOnly(w, outcome, c, ws) ==
    LET q == Completion(mainq, w, outcome)
    IN  IF w.launch # launch \/ c[w.day][w.dev] = "none" THEN q
        ELSE Emit(q, c, ws, w.day)

(* What the answer to a write queues: its completion, then a snapshot when *)
(* the local document is changed by it.                                    *)
Answered(w, outcome, c, ws) ==
    LET q == Completion(mainq, w, outcome)
    IN  IF c[w.day][w.dev] = "none" THEN q ELSE Emit(q, c, ws, w.day)

(* The server commits the oldest pending write and the client acknowledges *)
(* it: the patch moves from the pending writes to the cached document.     *)
Commit ==
    /\ writes # <<>>
    /\ LET w == Head(writes) IN
       /\ server[w.day][w.dev] # "none"
       /\ server' = [server EXCEPT ![w.day][w.dev] = w.isOn]
       /\ cache' = IF cache[w.day][w.dev] = "none" THEN cache
                   ELSE [cache EXCEPT ![w.day][w.dev] = w.isOn]
       /\ fresh' = IF cache[w.day][w.dev] = "none" THEN fresh \cup {w.day}
                                                   ELSE fresh
       /\ writes' = Tail(writes)
       /\ mainq' = Answered(w, "ok", cache', writes')
    /\ UNCHANGED <<asked, loads, shown, cardVars, screenVars, today, launch, used>>

(* The server refuses the oldest pending write: NOT_FOUND when the day has *)
(* no document for the device, PERMISSION_DENIED at any time.              *)
Reject ==
    /\ writes # <<>>
    /\ LET w == Head(writes) IN
       /\ writes' = Tail(writes)
       /\ mainq' = Answered(w, "error", cache, writes')
    /\ UNCHANGED <<server, fresh, cache, asked, loads, shown, cardVars,
                   screenVars, today, launch, used>>

(* The watch stream brings the cached documents of a day up to date, for   *)
(* the listener or for a get that is waiting.                              *)
Watch(day) ==
    /\ day \in fresh
    /\ \/ Following(day)
       \/ \E l \in Loads : loads[l].day = day /\ loads[l].want # {}
    /\ Len(mainq) < MaxQueue
    /\ fresh' = fresh \ {day}
    /\ cache' = [cache EXCEPT ![day] = server[day]]
    /\ mainq' = Emit(mainq, cache', writes, day)
    /\ UNCHANGED <<server, writes, asked, loads, shown, cardVars, screenVars,
                   today, launch, used>>

(* The home controller: it creates and overwrites today's document of a    *)
(* device (automation), and refreshes the usage fields every minute.       *)
Automate(d, s) ==
    /\ used["auto"] < MaxAuto
    /\ Bump("auto")
    /\ server' = [server EXCEPT ![today][d] = s]
    /\ fresh' = fresh \cup {today}
    /\ UNCHANGED <<cache, writes, mainq, asked, loads, shown, cardVars,
                   screenVars, today, launch>>

Heartbeat ==
    /\ \E d \in Devices : server[today][d] # "none"
    /\ fresh' = fresh \cup {today}
    /\ UNCHANGED <<server, cache, writes, mainq, asked, loads, shown, cardVars,
                   screenVars, today, launch, used>>

Midnight ==
    /\ today < MaxDay
    /\ today' = today + 1
    /\ UNCHANGED <<storeVars, mainq, asked, loads, shown, cardVars, screenVars,
                   launch, used>>

(* The process is killed and started again: everything in memory is gone,  *)
(* the cache and the pending writes are on disk and stay.                  *)
Relaunch ==
    /\ launch < MaxRelaunch
    /\ launch' = launch + 1
    /\ mainq' = <<>>
    /\ asked' = {}
    /\ loads' = [l \in Loads |-> IdleLoad]
    /\ shown' = [d \in Devices |-> "unlisted"]
    /\ isToggling' = [d \in Devices |-> FALSE]
    /\ card' = [d \in Devices |-> card[d] + 1]
    /\ filter' = "all"
    /\ visible' = FALSE
    /\ reg' = 0
    /\ ended' = {}
    /\ used' = [used EXCEPT !["appear"] = 0]
    /\ UNCHANGED <<storeVars, regDay, today>>

-----------------------------------------------------------------------------
MainQueue ==
    \/ RunDevices \/ RunEnergy \/ RunNotify \/ RunSnapshot \/ Redispatch
    \/ RunCompletion

Next ==
    \/ Appear \/ Disappear
    \/ \E f \in Filters : SelectFilter(f)
    \/ \E q \in asked : AnswerDevices(q) \/ FailDevices(q)
    \/ \E target \in Targets : TargetError(target)
    \/ DeviceEdited
    \/ \E l \in Loads, d \in Devices : AnswerEnergy(l, d) \/ FailEnergy(l, d)
    \/ MainQueue
    \/ \E d \in Devices : Tap(d)
    \/ Commit \/ Reject
    \/ \E day \in Days : Watch(day)
    \/ \E d \in Devices, s \in Power : Automate(d, s)
    \/ Heartbeat
    \/ Midnight
    \/ Relaunch

Spec == Init /\ [][Next]_vars

(* The main queue runs; requests are answered and writes are retried until *)
(* the server decides; the watch stream delivers; the controller keeps     *)
(* refreshing today's documents.                                           *)
Fairness ==
    /\ WF_vars(MainQueue)
    /\ WF_vars(Commit \/ Reject)
    /\ WF_vars(\E q \in asked : AnswerDevices(q) \/ FailDevices(q))
    /\ \A l \in Loads, d \in Devices : WF_vars(AnswerEnergy(l, d))
    /\ \A day \in Days : WF_vars(Watch(day))
    /\ WF_vars(Heartbeat)

FairSpec == Spec /\ Fairness

-----------------------------------------------------------------------------
(* Types.                                                                  *)

Block ==
    [kind : {"devices"}, src : {"get", "listener"}, reg : 1 .. MaxAppear,
     day : Days]
    \cup [kind : {"energy"}, load : Loads, dev : Devices, val : Doc, hop : {1, 2}]
    \cup [kind : {"notify"}, load : Loads]
    \cup [kind : {"snapshot"}, reg : 1 .. MaxAppear, docs : [Devices -> Doc],
          hop : {1, 2}]
    \cup [kind : {"completion"}, dev : Devices, isOn : Power, card : Nat,
          outcome : Outcome, hop : {1, 2}]

Write == [dev : Devices, day : Days, isOn : Power, card : Nat, launch : Nat]

Request == [src : {"get", "listener"}, reg : 1 .. MaxAppear, day : Days]

(* A slot that is not in use waits for nothing. *)
Load == {r \in [day : 0 .. MaxDay, want : SUBSET Devices, got : [Devices -> Entry]] :
           r.day = 0 => r.want = {}}

StoreOK ==
    /\ server \in [Days -> [Devices -> Doc]]
    /\ fresh \subseteq Days
    /\ cache \in [Days -> [Devices -> Doc]]
    /\ writes \in Seq(Write)

LoadOK ==
    /\ asked \subseteq Request
    /\ loads \in [Loads -> Load]
    /\ shown \in [Devices -> Entry]

CardOK ==
    /\ isToggling \in [Devices -> BOOLEAN]
    /\ card \in [Devices -> Nat]
    /\ filter \in Filters

ScreenOK ==
    /\ visible \in BOOLEAN
    /\ reg \in 0 .. MaxAppear
    /\ regDay \in Days
    /\ ended \subseteq Targets
    /\ today \in Days
    /\ launch \in Nat
    /\ used \in [Counters -> Nat]

(* Every variable has its type; in particular an entry of the list never   *)
(* holds anything but an unlisted device, no energy data, ON or OFF, and a *)
(* load that waits for answers knows the day it asked about.               *)
TypeOK == StoreOK /\ LoadOK /\ CardOK /\ ScreenOK /\ mainq \in Seq(Block)

-----------------------------------------------------------------------------
(* Safety.                                                                 *)

(* The writes and the queued completions of the card now on screen. *)
WritesOf(d) == {w \in Write : w.dev = d /\ w.card = card[d]}
CompletionsOf(d) ==
    {b \in Block : b.kind = "completion" /\ b.dev = d /\ b.card = card[d]}

None(q, E) == \A i \in DOMAIN q : q[i] \notin E
One(q, E) ==
    \E i \in DOMAIN q : q[i] \in E /\ \A j \in DOMAIN q : q[j] \in E => j = i

(* The switch of a card is disabled exactly while one write of that card   *)
(* is on its way, either not answered or answered with its completion      *)
(* still queued: there is never a second one, and a disabled switch always *)
(* has the answer to come that enables it again (toggleDevice sets         *)
(* isToggling, the completion of updateData resets it).                    *)
SwitchLock ==
    \A d \in Devices :
      \/ /\ ~isToggling[d]
         /\ None(writes, WritesOf(d)) /\ None(mainq, CompletionsOf(d))
      \/ /\ isToggling[d]
         /\ One(writes, WritesOf(d)) /\ None(mainq, CompletionsOf(d))
      \/ /\ isToggling[d]
         /\ None(writes, WritesOf(d)) /\ One(mainq, CompletionsOf(d))

(* No write or completion is ahead of its card, and a write of the card on *)
(* screen belongs to the running launch, so its completion will be called: *)
(* a late answer never enables the switch of a card created after the tap. *)
WritesAhead ==
    {w \in Write : \/ w.card > card[w.dev]
                   \/ w.card = card[w.dev] /\ w.launch # launch}
CompletionsAhead ==
    {b \in Block : b.kind = "completion" /\ b.card > card[b.dev]}
CardOrder == None(writes, WritesAhead) /\ None(mainq, CompletionsAhead)

(* The list is never shown in part: overlapping loads, each with its own   *)
(* DispatchGroup, publish all devices or none.                             *)
WholeList ==
    \/ \A d \in Devices : shown[d] = "unlisted"
    \/ \A d \in Devices : shown[d] # "unlisted"

(* What an entry will hold once the queued blocks have run: bodies already *)
(* dispatched come first, then those still behind their first hop.         *)
IsBody(b) == b.kind \in {"snapshot", "completion"} /\ b.hop = 2
IsCallback(b) ==
    /\ b.kind \in {"snapshot", "completion"} /\ b.hop = 1
    /\ b.kind = "snapshot" => b.reg = reg

AfterBlock(b, d, s) ==
    IF s = "unlisted" THEN s
    ELSE IF b.kind = "snapshot"
         THEN IF b.docs[d] = "none" THEN s ELSE b.docs[d]
         ELSE IF b.dev # d \/ s = "none" THEN s
              ELSE IF b.outcome = "ok" THEN b.isOn ELSE Flip(s)

WillShow(d) ==
    LET bs == SelectSeq(mainq, IsBody) \o SelectSeq(mainq, IsCallback)
        after[i \in 0 .. Len(bs)] ==
          IF i = 0 THEN shown[d] ELSE AfterBlock(bs[i], d, after[i - 1])
    IN  after[Len(bs)]

(* The screen follows today's documents by a listener that Firestore has   *)
(* not ended, no load is about to replace the list, and no write to        *)
(* another day's document is pending.                                      *)
Calm ==
    /\ Following(today)
    /\ \A l \in Loads : loads[l].day = 0
    /\ \A i \in DOMAIN writes : writes[i].day = today

InStep ==
    \A d \in Devices :
      LET v == LocalView(cache, writes, today, d)
      IN  WillShow(d) # "unlisted" /\ v # "none" => WillShow(d) = v

(* Between loads the display cannot drift: a tap, a commit, a refusal, a   *)
(* change by the controller, a completion (which flips the entry on error  *)
(* whatever it holds) and a muted listener all leave the entries on course *)
(* for the client's local view, whatever order they come in.               *)
StaysInStep ==
    [][Calm /\ InStep /\ Calm' /\ reg' = reg => InStep']_vars

(* Whatever order the blocks run in, entries agree with the server         *)
(* once nothing is in flight: the switches are in "real-time Firestore     *)
(* sync" with the documents (README.md).                                   *)
Quiet ==
    /\ Calm /\ mainq = <<>> /\ writes = <<>> /\ asked = {} /\ today \notin fresh

RealTimeSync ==
    Quiet => \A d \in Devices :
               shown[d] \in Power /\ server[today][d] # "none"
                 => shown[d] = server[today][d]

-----------------------------------------------------------------------------
(* Liveness.                                                               *)

(* A switch that is disabled by a tap is enabled again, whether the write  *)
(* is accepted or refused.                                                 *)
SwitchReleased == \A d \in Devices : isToggling[d] ~> ~isToggling[d]

(* While the screen follows today's documents, by a listener that          *)
(* Firestore has not ended, and the controller keeps refreshing them, the  *)
(* entries end up equal to the documents, whatever a late load, a failed   *)
(* get or a refused write had put there.                                   *)
Converges ==
    <>[](Following(today) =>
           \A d \in Devices :
             shown[d] # "unlisted" /\ server[today][d] # "none"
               => shown[d] = server[today][d])
=============================================================================
