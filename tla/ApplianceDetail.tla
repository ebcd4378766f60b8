--------------------------- MODULE ApplianceDetail ---------------------------
(***************************************************************************)
(* The detail screen of one appliance.  Every visit creates a view model   *)
(* of its own, which looks the device up once, then listens to the day's   *)
(* energy document, mirrors its isOn and announces changes in a local      *)
(* notification.  The document is written by the visits' power switches,   *)
(* by the device card of the landing screen and by the home controller.    *)
(*                                                                         *)
(* Nothing calls ApplianceDetailViewModel.stopListening: the listener of a *)
(* visit outlives the screen, and keeps its view model alive.              *)
(***************************************************************************)
EXTENDS Integers, Sequences, FiniteSets

CONSTANTS
    MaxVisit,     \* bound: number of times the detail screen is opened
    MaxAppear,    \* bound: number of onAppear calls, over all visits
    MaxTap,       \* bound: number of writes by the user
    MaxAuto,      \* bound: number of writes by the controller
    MaxQueue      \* bound: length of the main queue the watch stream adds to

ASSUME ConstantsAssumption ==
    /\ MaxVisit \in Nat /\ MaxAppear \in Nat /\ MaxTap \in Nat
    /\ MaxAuto \in Nat /\ MaxQueue \in Nat

Visits == 1 .. MaxVisit
Regs == 1 .. MaxAppear
Power == {"on", "off"}
Doc == Power \cup {"none"}

VARIABLES
    known,     \* the document devices/{id} exists
    server,    \* the day's energy document on the server
    fresh,     \* the server document changed since the watch stream's last word
    cache,     \* the client's copy of it
    writes,    \* pending updateData calls: where from and the isOn carried
    mainq,     \* blocks waiting on the main dispatch queue
    entry,     \* the landing entry of the device has energy data
    visit,     \* number of visits so far; the last one may be on screen
    open,      \* the last visit is on screen
    asked,     \* getDocument calls for the device not answered: the visit
    failed,    \* visits one of whose lookups found no device
    live,      \* listener registrations not removed
    ended,     \* those of them that Firestore ended with an error
    owner,     \* the visit a registration belongs to
    listener,  \* energyDataListener of each visit's view model, 0 for nil
    isLoading, \* isLoading of each visit's view model
    isOn,      \* device.energyData.isOn of each visit, "nil" without device
    notes,     \* notifications sent
    crashed,   \* document("") was called
    used       \* counters held against the bounds

vars == <<known, server, fresh, cache, writes, mainq, entry, visit, open, asked,
          failed, live, ended, owner, listener, isLoading, isOn, notes, crashed,
          used>>

docVars  == <<server, fresh, cache, writes>>
viewVars == <<isLoading, isOn, notes>>
regVars  == <<live, ended, owner, listener>>
pageVars == <<entry, visit, open, failed, crashed>>

(* Mutant of Flip: switching on loses the value. *)
Flip_Lost(s) == IF s = "on" THEN "off" ELSE "nil"

Flip(s) == IF s = "on" THEN "off" ELSE "on"
Counters == {"appear", "tap", "auto"}
Bump(c) == used' = [used EXCEPT ![c] = @ + 1]

-----------------------------------------------------------------------------
DeviceBlock(v) == [kind |-> "device", visit |-> v]
SnapshotBlock(r, val, hop) ==
    [kind |-> "snapshot", reg |-> r, val |-> val, hop |-> hop]

(* The cached document with the pending patches applied. *)
LocalView(c, ws) == IF c = "none" \/ ws = <<>> THEN c ELSE ws[Len(ws)].isOn

(* Registrations in the order they were made. *)
InOrder(regs) ==
    CHOOSE s \in UNION {[1 .. n -> regs] : n \in 0 .. MaxAppear} :
      /\ \A r \in regs : \E i \in DOMAIN s : s[i] = r
      /\ \A i, j \in DOMAIN s : i < j => s[i] < s[j]

(* The registrations that the client still tells of the document. *)
Following == live \ ended

(* Queue q with a snapshot for every listener in force.  A listener told   *)
(* that the document does not exist returns at once: nothing is queued.    *)
Emit(q, val) ==
    IF val = "none" THEN q
    ELSE q \o [i \in DOMAIN InOrder(Following) |->
                  SnapshotBlock(InOrder(Following)[i], val, 1)]

-----------------------------------------------------------------------------
Init ==
    /\ known \in BOOLEAN
    /\ server \in Doc
    /\ fresh = TRUE
    /\ cache = "none"
    /\ writes = <<>>
    /\ mainq = <<>>
    /\ entry \in {FALSE, server # "none"}
    /\ visit = 0
    /\ open = FALSE
    /\ asked = [v \in Visits |-> 0]
    /\ failed = {}
    /\ live = {}
    /\ ended = {}
    /\ owner = [r \in Regs |-> 0]
    /\ listener = [v \in Visits |-> 0]
    /\ isLoading = [v \in Visits |-> TRUE]
    /\ isOn = [v \in Visits |-> "nil"]
    /\ notes = 0
    /\ crashed = FALSE
    /\ used = [c \in Counters |-> 0]

-----------------------------------------------------------------------------
(* The landing entry of the device: its get or its listener found the      *)
(* energy document.                                                        *)
EntryFilled ==
    /\ ~crashed
    /\ ~open /\ ~entry /\ server # "none"
    /\ entry' = TRUE
    /\ UNCHANGED <<known, docVars, mainq, visit, open, asked, failed,
                   regVars, viewVars, crashed, used>>

(* The card's NavigationLink opens the screen with the energy data's id,   *)
(* or "" when the entry has none; onAppear calls fetchDevice, whose        *)
(* document("") raises an exception.                                       *)
OpenScreen ==
    /\ ~crashed
    /\ ~open /\ visit < MaxVisit /\ used["appear"] < MaxAppear
    /\ Bump("appear")
    /\ visit' = visit + 1
    /\ open' = TRUE
    /\ IF entry
       THEN asked' = [asked EXCEPT ![visit + 1] = 1] /\ UNCHANGED crashed
       ELSE crashed' = TRUE /\ UNCHANGED asked
    /\ UNCHANGED <<known, docVars, mainq, entry, failed, regVars, viewVars>>

(* onAppear again, as when the gesture that leaves the screen is cancelled. *)
AppearAgain ==
    /\ ~crashed
    /\ open /\ used["appear"] < MaxAppear
    /\ Bump("appear")
    /\ asked' = [asked EXCEPT ![visit] = @ + 1]
    /\ UNCHANGED <<known, docVars, mainq, pageVars, regVars, viewVars>>

CloseScreen ==
    /\ ~crashed
    /\ open
    /\ open' = FALSE
    /\ UNCHANGED <<known, docVars, mainq, entry, visit, asked, failed,
                   regVars, viewVars, crashed, used>>

(* The lookup of the device ends without a document: the callback returns. *)
DeviceMissing(v) ==
    /\ ~crashed
    /\ asked[v] > 0
    /\ asked' = [asked EXCEPT ![v] = @ - 1]
    /\ failed' = failed \cup {v}
    /\ UNCHANGED <<known, docVars, mainq, entry, visit, open, regVars,
                   viewVars, crashed, used>>

DeviceFound(v) ==
    /\ ~crashed
    /\ known
    /\ asked[v] > 0
    /\ asked' = [asked EXCEPT ![v] = @ - 1]
    /\ mainq' = Append(mainq, DeviceBlock(v))
    /\ UNCHANGED <<known, docVars, pageVars, regVars, viewVars, used>>

(* Mutant of Dropped: the old listener is not removed. *)
Dropped_None(v) == {}

(* The listener that fetchDevice removes before it adds another. *)
Dropped(v) == {listener[v]}

(* The device lookup's callback replaces the energy listener; the new one  *)
(* is told at once what the cache holds.                                   *)
RunDevice ==
    /\ ~crashed
    /\ mainq # <<>>
    /\ LET b == Head(mainq) IN
       /\ b.kind = "device"
       /\ \E r \in Regs :
            /\ owner[r] = 0 /\ \A k \in 1 .. r - 1 : owner[k] # 0
            /\ owner' = [owner EXCEPT ![r] = b.visit]
            /\ live' = (live \ Dropped(b.visit)) \cup {r}
            /\ ended' = ended \ Dropped(b.visit)
            /\ listener' = [listener EXCEPT ![b.visit] = r]
            /\ mainq' = IF LocalView(cache, writes) = "none" THEN Tail(mainq)
                        ELSE Append(Tail(mainq),
                               SnapshotBlock(r, LocalView(cache, writes), 1))
    /\ UNCHANGED <<known, docVars, pageVars, asked, viewVars, used>>

(* The document's target ends with an error: the callback of each of its   *)
(* listeners prints and returns, isLoading stays, and Firestore drops the  *)
(* listeners.  Another lookup may add one again.                           *)
ListenerError ==
    /\ ~crashed
    /\ Following # {}
    /\ ended' = live
    /\ UNCHANGED <<known, docVars, mainq, pageVars, asked, live, owner,
                   listener, viewVars, used>>

(* A snapshot's callback dispatches its body; a removed listener is muted. *)
Redispatch ==
    /\ ~crashed
    /\ mainq # <<>>
    /\ LET b == Head(mainq) IN
       /\ b.kind = "snapshot" /\ b.hop = 1
       /\ mainq' = IF b.reg \in live
                   THEN Append(Tail(mainq), SnapshotBlock(b.reg, b.val, 2))
                   ELSE Tail(mainq)
    /\ UNCHANGED <<known, docVars, pageVars, asked, regVars, viewVars, used>>

(* Mutant of Spinner: the body returns early when nothing was switched. *)
Spinner_OnChange(v, val) == isLoading[v] /\ isOn[v] \notin Power \ {val}

(* isLoading after the body. *)
Spinner(v, val) == FALSE

(* Mutant of Announces: the first snapshot is announced too. *)
Announces_First(v, val) == isOn[v] # val

(* The state the view model holds differs from the document's. *)
Announces(v, val) == isOn[v] \in Power \ {val}

(* The body: announce a change, mirror the document, stop the spinner. *)
RunSnapshot ==
    /\ ~crashed
    /\ mainq # <<>>
    /\ LET b == Head(mainq)
           v == owner[b.reg]
       IN  /\ b.kind = "snapshot" /\ b.hop = 2
           /\ notes' = IF Announces(v, b.val) THEN notes + 1 ELSE notes
           /\ isOn' = [isOn EXCEPT ![v] = b.val]
           /\ isLoading' = [isLoading EXCEPT ![v] = Spinner(v, b.val)]
    /\ mainq' = Tail(mainq)
    /\ UNCHANGED <<known, docVars, pageVars, asked, regVars, used>>

-----------------------------------------------------------------------------
(* Writes.  The local view changes at once when the document is cached.    *)
Patch(src, s) ==
    /\ used["tap"] < MaxTap
    /\ Bump("tap")
    /\ writes' = Append(writes, [src |-> src, isOn |-> s])
    /\ mainq' = Emit(mainq, LocalView(cache, writes'))

(* The power switch of the screen: updateDevicePowerState, then the view   *)
(* model's own copy is set without waiting.                                *)
PowerSwitch ==
    /\ ~crashed
    /\ open /\ isOn[visit] \in Power
    /\ Patch("detail", Flip(isOn[visit]))
    /\ isOn' = [isOn EXCEPT ![visit] = Flip(@)]
    /\ UNCHANGED <<known, server, fresh, cache, pageVars, asked, regVars,
                   isLoading, notes>>

(* The switch of the device card on the landing screen. *)
CardSwitch ==
    /\ ~open /\ entry /\ ~crashed
    /\ \E s \in Power : Patch("card", s)
    /\ UNCHANGED <<known, server, fresh, cache, pageVars, asked, regVars, viewVars>>

(* The server commits the oldest write; the client moves it from the       *)
(* pending writes to the cached document.  The screen's own write carries  *)
(* the phone's time and tells the listeners nothing new; a card's write    *)
(* carries a server timestamp, which the listeners are told of.            *)
Commit ==
    /\ ~crashed
    /\ writes # <<>> /\ server # "none"
    /\ LET w == Head(writes) IN
       /\ server' = w.isOn
       /\ cache' = IF cache = "none" THEN cache ELSE w.isOn
       /\ writes' = Tail(writes)
       /\ mainq' = IF w.src = "card" THEN Emit(mainq, LocalView(cache', writes'))
                   ELSE mainq
    /\ fresh' = (fresh \/ cache = "none")
    /\ UNCHANGED <<known, pageVars, asked, regVars, viewVars, used>>

(* Mutant of Undo: the listeners are not told that a write is undone. *)
Undo_Silent(q, val) == q

Undo(q, val) == Emit(q, val)

(* The server refuses the oldest write: the completion only prints, the    *)
(* local view goes back.                                                   *)
Reject ==
    /\ ~crashed
    /\ writes # <<>>
    /\ writes' = Tail(writes)
    /\ mainq' = Undo(mainq, LocalView(cache, writes'))
    /\ UNCHANGED <<known, server, fresh, cache, pageVars, asked, regVars,
                   viewVars, used>>

Watch ==
    /\ ~crashed
    /\ fresh /\ Following # {} /\ Len(mainq) < MaxQueue
    /\ fresh' = FALSE
    /\ cache' = server
    /\ mainq' = Emit(mainq, LocalView(cache', writes))
    /\ UNCHANGED <<known, server, writes, pageVars, asked, regVars, viewVars, used>>

(* The home controller writes the document. *)
Automate(s) ==
    /\ used["auto"] < MaxAuto
    /\ Bump("auto")
    /\ server' = s
    /\ fresh' = TRUE
    /\ UNCHANGED <<known, cache, writes, mainq, pageVars, asked, regVars, viewVars>>

-----------------------------------------------------------------------------
MainQueue == RunDevice \/ Redispatch \/ RunSnapshot

Next ==
    \/ EntryFilled \/ OpenScreen \/ AppearAgain \/ CloseScreen
    \/ \E v \in Visits : DeviceMissing(v) \/ DeviceFound(v)
    \/ MainQueue \/ ListenerError
    \/ PowerSwitch \/ CardSwitch
    \/ Commit \/ Reject \/ Watch
    \/ \E s \in Power : Automate(s)

Spec == Init /\ [][Next]_vars

(* The main queue runs, lookups are answered and the watch stream delivers. *)
Fairness ==
    /\ WF_vars(MainQueue)
    /\ \A v \in Visits : WF_vars(DeviceFound(v) \/ DeviceMissing(v))
    /\ WF_vars(Watch)

FairSpec == Spec /\ Fairness

-----------------------------------------------------------------------------
Block ==
    [kind : {"device"}, visit : Visits]
    \cup [kind : {"snapshot"}, reg : Regs, val : Power, hop : {1, 2}]

(* Every variable has its type; a registration in force has an owner, only *)
(* those end with an error, and a visit without a device is still loading. *)
TypeOK ==
    /\ known \in BOOLEAN /\ fresh \in BOOLEAN /\ entry \in BOOLEAN
    /\ open \in BOOLEAN /\ crashed \in BOOLEAN
    /\ server \in Doc /\ cache \in Doc
    /\ writes \in Seq([src : {"detail", "card"}, isOn : Power])
    /\ mainq \in Seq(Block)
    /\ visit \in 0 .. MaxVisit
    /\ asked \in [Visits -> 0 .. MaxAppear]
    /\ failed \subseteq Visits
    /\ owner \in [Regs -> 0 .. MaxVisit]
    /\ live \subseteq {r \in Regs : owner[r] # 0}
    /\ ended \subseteq live
    /\ listener \in [Visits -> 0 .. MaxAppear]
    /\ isLoading \in [Visits -> BOOLEAN]
    /\ isOn \in [Visits -> Power \cup {"nil"}]
    /\ \A v \in Visits : isOn[v] = "nil" => isLoading[v]
    /\ notes \in Nat
    /\ used \in [Counters -> Nat]

(* "Ensure only one listener": however many lookups of a visit are in      *)
(* flight and in whatever order they are answered, its view model has one  *)
(* listener in force, the one it can still remove.                         *)
OneListener ==
    \A r \in live : listener[owner[r]] = r

(* What a visit will show once the queued bodies and the callbacks behind  *)
(* them have run.                                                          *)
Latest(v) ==
    LET pending(h) == {i \in DOMAIN mainq :
                         /\ mainq[i].kind = "snapshot" /\ mainq[i].hop = h
                         /\ owner[mainq[i].reg] = v
                         /\ h = 1 => mainq[i].reg \in live}
        last(S) == mainq[CHOOSE i \in S : \A j \in S : j <= i].val
    IN  IF pending(1) # {} THEN last(pending(1))
        ELSE IF pending(2) # {} THEN last(pending(2)) ELSE isOn[v]

(* The power switch never stays wrong: whatever the user, the card and the *)
(* controller do while older snapshots are still queued, every visit that  *)
(* listens, on screen or left behind, is on course for the client's local  *)
(* view of the document; a refused write is taken back.  A visit whose     *)
(* listener Firestore ended with an error is told no more and is excepted. *)
MirrorsDocument ==
    LET view == LocalView(cache, writes)
    IN  \A v \in Visits :
          listener[v] \in Following /\ view # "none" => Latest(v) = view

(* The listener's first snapshot, a snapshot repeated to a listener that   *)
(* replaced another, and the answers to several lookups are no news: a     *)
(* notification is only sent when somebody has switched the device.        *)
AnnouncesChanges == notes > 0 => used["auto"] + used["tap"] > 0

(* What ApplianceDetailView shows. *)
Screen(v) ==
    IF isLoading[v] THEN "spinner" ELSE IF isOn[v] = "nil" THEN "error" ELSE "device"

(* A visit to a device that exists and has an energy document gets past    *)
(* the spinner, unless its lookup failed or its listener ended with an     *)
(* error, where the spinner may stay until the screen appears again.       *)
LoadsDevice ==
    \A v \in Visits :
      (open /\ visit = v /\ ~crashed /\ known /\ server # "none")
        ~> (v \in failed \/ listener[v] \in ended \/ Screen(v) = "device")
=============================================================================
