# SHEMS: TLA+ models, model checks and proofs

SHEMS is an iOS app (SwiftUI, `SHEMS/SHEMS`) for a smart home. It signs people
in with Firebase Auth, shows the appliances of a home and their state of the
day from Firestore, switches them ON and OFF by writing the same Firestore
documents that a home controller (a Raspberry Pi, not in the repository) reads
and writes, and shows usage, forecasts and tips that services outside the
repository compute. `SHEMS/Pods` is vendored third-party code. Of it, the part
of the Firestore client that carries the app's writes and reads
(`FirebaseFirestoreInternal/Firestore/core/src`) is modelled from its source;
of Auth the rules the app relies on.

The app has no locks and hardly any threads of its own: nearly everything runs
as blocks on the main dispatch queue. What is hard is the order of those blocks.
An SDK callback arrives on the main queue (hop 1) and most callbacks dispatch
their body to the main queue once more (hop 2), so that state read at one
point is used two blocks later, after other callbacks, taps, listeners and timers.
The Firestore client has one worker queue; what is hard there is what the network,
the timers, account changes and relaunches do between two of its operations.

## Inventory

| Component | State | Operations | What makes it correct |
|---|---|---|---|
| Landing screen (`LandingViewModel`, `LandingView`) | `devices`, two listeners, `selectedFilter` | appear, disappear, two kinds of load with a `DispatchGroup`, energy snapshot, filter | the list is published whole; entries agree with the documents |
| Device card (`DeviceCardView`) | `isToggling`, the bound entry | `toggleDevice` and its completion | one write at a time per card, the switch always comes back |
| Appliance detail (`ApplianceDetailViewModel`, `ApplianceDetailView`) | `device`, `isLoading`, `energyDataListener` | `fetchDevice`, snapshot body, `updateDevicePowerState`, notification | one listener, the switch follows the document, the spinner ends, only changes are announced |
| Session (`AppState`, `RootView`, log-out in `HomeView`) | `isLoggedIn`, `showSplash`, Auth's current user and keychain | launch, two Auth listeners, splash timer, log-out | the landing screen is for the current, verified user |
| Login (`LoginViewModel`, `LoginView`) | `isLoading`, `errorMessage` | `signInUser`, `resetPassword` | every sign-in ends, with the screen or a message |
| Sign-up (`SignUpViewModel`, `SignUpView`) | fields, `registeredUser`, location, profile document | `registerUser`, e-mail, location callbacks, `saveUserData` | a profile belongs to an account that exists; a registration that is left alone is completed |
| Firestore client, writes (`SyncEngine`, `LevelDbMutationQueue`, `RemoteStore`, `Stream`, `WriteStream`) | mutation queues on disk, completions, write pipeline, stream | `updateData`, credentials, handshake, results, refusals, backoff, idle, connectivity, account, relaunch | in order, at least once, each completion at most once and true, none forgotten |
| Firestore client, reads (`EventManager`, `QueryListener`, `OnlineStateTracker`, `RemoteStore`, `WatchStream`) | listeners, views, targets, watch stream, online guess | `getDocument`, `addSnapshotListener`, `remove`, snapshots, target errors, stream failures, timers | a get is answered once and not from the past, a listener never goes back |
| Energy usage (`EnergyUsageViewModel`, `EnergyUsageView`) | `dailyUsages`, `availableWeeks`, `selectedWeek`, totals, `hourlyUsage` | loads, month, week, chart and date selection | weeks, totals and selection belong to the month and days on screen; every day can be seen |
| Prediction (`PredictionViewModel`, `PredictionView`) | predictions, usages, weeks, `lastKnownPredictionCount` | chained loads, week selection, hourly loads, notification | ranges are weeks and cover the days; notified for new forecasts only |
| AI suggestions (`AISuggestionViewModel`) | suggestions, last timestamp | listener, notification | one announcement per tip |
| Home (`HomeViewModel`), Settings (`SettingsView`) | profile fields; rate, switches | loads, name edit; save rate, permission | shown values are the saved ones; switches are obeyed |
| Auth (Pods) | current user, keychain | sign-in, sign-up, sign-out, listeners | external; only its rules are used |

Interactions: views call their view model directly; view models call the SDKs
and are called back on the main queue; card, detail screen and home controller
share the energy document of the day; `AppState.isLoggedIn` is shared by the two
Auth listeners, the login view model and the Log Out button; every `updateData` and
`setData` of the app goes through the one write pipeline, every get and listener
through the one watch stream. `PROJECT.json` lists every component and, under
`hazards`, the places where these interactions are hard to test.

## Modules

| Module | Models | Config |
|---|---|---|
| `DeviceSync` | landing list, device card, the client's local view under them | through `MCDeviceSync` |
| `MCDeviceSync` | categories and filters for TLC | `Sync*.cfg` |
| `ApplianceDetail` | detail screen over the same kind of document | `DetailVisits.cfg` |
| `Session` | session, login, Auth | `SessionLogin.cfg` |
| `SignUp` | sign-up sheet, account, e-mail, location, profile | `SignUp.cfg` |
| `WriteQueue` | abstract: what `updateData` promises | refined by `WritePipeline` |
| `WritePipeline` | the Firestore client's way of writing | `Writes.cfg` |
| `Listens` | the Firestore client's gets and listeners | `Listens.cfg` |
| `EnergyUsage` | energy usage screen | `Usage.cfg` |
| `Prediction` | prediction screen | `Prediction.cfg`, `PredictionWeeks.cfg` |
| `DeviceSyncProofs`, `ApplianceDetailProofs`, `SessionProofs`, `SignUpProofs`, `WritePipelineProofs`, `ListensProofs`, `EnergyUsageProofs`, `PredictionProofs` | the theorems about the module each is named after | TLAPS |

How they fit together: `DeviceSync` and `ApplianceDetail` take the client's rules as
given (a write stays pending until it is answered, answers come in order, a completion is
called at most once, a listener never goes back). `WritePipeline` and
`Listens` show that the client's code keeps those rules. In every module an operator
whose name is that of another with a suffix (`Stop_TimerKept`) is a mutant: the
definition with one plausible mistake. No specification uses it; replacing the
original by it must break the property `PROJECT.json` names beside it.

### DeviceSync

`mainq` holds the blocks of the main queue. `loads` has one slot per device load
in progress: the day whose documents it reads (`energyDataRef` is captured when
the screen appears), the getDocument calls not answered (`want`) and the entries
collected so far (`got`, the local array of the callback). `shown` is
`LandingViewModel.devices`, reduced to the `isOn` of each entry: `unlisted`,
`none` (no energy data), `on`, `off`. Names, images, usage and cost are left out,
because nothing decides on them.

A device card is a SwiftUI value whose `@State` is destroyed when the filter hides it;
`card[d]` counts the incarnations, and a write remembers the one that made it,
as the completion closure does. The entry is reached through the binding, so
the completion changes it whatever became of the card: `RunCompletion` does both.

The Firestore client is `cache` (copies of server documents), `writes` (pending
patches, on disk, in order) and the listener. `LocalView` applies pending patches
to a cached document and does nothing to one that is not there (a patch has
the precondition *exists*). Acknowledging a write queues its completion before
the listener's snapshot (`sync_engine.cc` says so and does so). A removed
listener is muted at hop 1 but a body that is already dispatched still runs.
`Relaunch` forgets everything but `server`, `cache` and `writes`.

Reads fail too. A get of the device list that fails, or a get of an energy document, ends with a
message or with an entry without energy data (`FailDevices`, `FailEnergy`). `TargetError` is
Firestore ending one of the two listeners, at any time, by an error: the callback sets a message
and returns, what is queued for the listener still runs, and nothing more comes (`ended`) until
the screen appears again. `Following` is an energy listener that is in force and not ended.

External actions: `Watch` (the watch stream delivers), `Automate` and `Heartbeat`
(the controller writes a state; the controller refreshes usage fields every
minute), `AnswerDevices`, `Relaunch`.

### ApplianceDetail

One document, several *visits*: every opening of the screen creates a view model
with its own `device`, `isLoading` and listener. Nothing calls `stopListening`,
so `CloseScreen` leaves `live` alone. `AppearAgain` is `onAppear` on the same view
model (a cancelled swipe back), which starts a second lookup. The device card
of the landing screen appears as `CardSwitch`, the entry it opens the screen from
as `entry`. `ListenerError` is the error branch of the listener: the listeners in force are `ended`
with `isLoading` as it is, stay registered (`live`), and are told no more; a further lookup removes its
view model's and adds a new one. The landing list and the detail screen are checked separately; they
meet only in the document, which each model lets the other one's writes change.

### Session

`current` and `keychain` are Auth's user in memory and on disk, with the
`isEmailVerified` flag the user had when fetched. `Post` is the state-change
notification; it is delivered to both listeners, each of which reports only a
first call or a changed uid (`heard`), with the user there is *then*, and whose
body runs one hop later with that user. A completion belongs to the login view model
`model`; it is dropped (`[weak self]`) once `Render` has left the login screen.
Drawing is a step of its own, so that blocks may run before or after the view model is
released. A keychain that cannot be read yet (`locked`) is loaded by `Unlock`.

Two assumptions on people and tokens: filling in a form takes longer than running
the blocks already queued (`Idle` in `Send`), and a token refresh that signs a user
out comes when the blocks of his sign-in have run (`ForcedSignOut`).
The sign-up sheet takes part only by its `createUser` request, which makes an
unverified account current; what the sheet does with the answer is `SignUp`. Its button is
not disabled while a sign-in is on its way, so that requests overlap; only a second sign-in waits for
the first (`~isLoading`). `kept` and `crossed` are history variables, which no step reads: the last `signOut` failed; Auth's
user was fetched while the completion that lets another one in was queued.

### SignUp

One `SignUpViewModel` per opening of the sheet (`vm[s]`), with the fields as they are *now*:
`saveUserData` reads `name` and `email` when the position arrives, not when the button
was pressed. Each press is a request of its own, since the button is not disabled.
`AuthCreates` and `AuthMails` have their effect on the server whether or not the answer is
heard. A completion is dropped when the sheet is closed (`[weak self]`), and so
are the location callbacks. `saves` is the client's write queue and outlives a `Kill`;
the completions do not. The two hops of a completion are one block: they keep
their order and nothing is read between them.

### WriteQueue and WritePipeline

`WriteQueue` is the promise, in five variables: the unanswered writes of each user, the log of
the server (replays included), how each write was settled, who still
waits and what he was told. `Submit`, `Apply`, `Answer` and `Crash` are its steps.

`WritePipeline` is the code: `queue` (the mutation queue of each user, LevelDB),
`nextBatchId`, `callbacks` (`mutation_callbacks_`) and `rs`, the remote
store: `pipeline`, the state of the stream, handshake, idle timer, `closes`
(`close_count_`, which makes late credentials recognisable), the credential requests not
answered, and the wire in both directions. An action is one operation of the worker queue with
all the calls it makes (`MutationResult` notifies, removes the batch,
fills the pipeline, perhaps starts the idle timer). `DieInMutationResult` is the process ending after
the completion was called and before the batch is off the disk.

The refinement mapping is `pending <- ` the writes in `queue`, `listening <- ` the
writes in `callbacks`, `log <- ` the log without the users. `Implements == Promise!Spec`.

Assumed of the server: it reads a stream's requests in order, ends the stream at the first
request it refuses, and does nothing for a stream the client has given up. Without the last
one an old stream's write could land after a newer one and neither property nor promise
would hold. A stream that is needed never ends with status OK (the client asserts it,
`remote_store.cc:481`). `kMaxPendingWrites` is 10 in the code and a constant here.

### Listens

`c` is the client: online state, failures and timer of `OnlineStateTracker`; stream state,
idle timer, targets and, per target, the server's version when it was requested on this
stream (`since`), which stands for the counting of pending responses in
`WatchChangeAggregator`; the cache; the view of each query; the listeners. An operation is
a function from client and main queue to client and main queue (`Listen`, `Close`,
`UpdateState`, ...), composed as the code's calls are, and an action applies one chain
of them. A get is a listener that removes itself in its first event (`ListenOnce`), and the
removal passes through the worker queue, so that the same get can be raised again first:
`AnsweredOnce` is about that. A query is for one document, which is what the app's
`getDocument` calls and most of its listeners ask for; a document is a version number.

### EnergyUsage

Days are numbers, a month has `MonthLength` of them, and a week range is named by its
Monday. `init` and every `onAppear` start a load; `Answer` queues the blocks its
completion dispatches. `Compute` sets the totals at once but queues the weeks, as
`computeAvailableWeeks` does. The weekday of day 1 and `firstWeekday` are chosen in `Init`, from the
constants `Weekdays` and `FirstWeekdays`, any subsets of the days of the week: `Calendar.current` can start
its weeks on any of them.
`Redraw` is the body: an hourly chart that comes back is a new one, with today's date.

### Prediction

`chains` are the running `fetchAllData` calls: predictions, then usages, then
`generateWeekRanges`. `WeekOfYear` is the calendar's rule with `offset` and `minimalDays`
free, over years of `YearLength` days; the runs take 365, and two such years.
The ranges are grouped by `WeekKey == Year * 100 + WeekOfYear`, as in the code. `Reopen` makes a new
view model: it holds no predictions and counts from 0. (A view model made with nobody logged
in has no `userId`: both gets are passed over and the ranges are made of nothing.)

## Properties and runs

The runs that pass:

- **sync_two_devices** (two devices, one tap, one filter change): `TypeOK`; `SwitchLock`:
  the switch of the card on screen is disabled exactly while one write of that
  card is unanswered or its completion queued; `WholeList`: the get and the listener load both
  devices at once, in all interleavings of the four answers, and the list is published whole.
- **sync_edit** (tap, controller write, an edit of the devices collection that
  starts a third load, a relaunch with an appearance of the screen before and after it): `StaysInStep` compares
  what the queued blocks *will* make of an entry (`WillShow`) with the client's local view, and says that no
  step outside loads breaks the agreement. After the relaunch the write of the earlier launch is answered
  under the listener of the new one, when nobody waits for its completion; the mutant of the run does not
  tell the listener of such a write.
- **sync_live** (tap, controller write, midnight, one read or listener that fails; `FairSpec`): `Converges`,
  `SwitchReleased`. Past midnight the listener still follows the old day, so that `Converges` is about the first
  day and `SwitchReleased` about both.
- **detail_visits** (two visits, three lookups, listeners that end with an error, one user write, one controller
  write; `FairSpec`): `TypeOK`, `OneListener`, `MirrorsDocument`, `AnnouncesChanges`,
  `LoadsDevice`.
- **session_login** (two accounts, two requests that may be on their way together, two log-outs, a
  relaunch; `FairSpec`): `TypeOK`, `SettledLogin`, `SignInEnds`. `SettledLogin` has one exception, `crossed`
  (below, other disagreements).
- **sign_up** (two addresses, two sheets, two presses, two edits, one kill): `TypeOK`;
  `MailBeforeProfile`; `LeftAlone`: the registration of an account is completed unless the
  user, Auth or the location stops it.
- **write_pipeline** (two users, pipeline of two, three writes, three faults): `TypeOK`;
  `WireInStep`: a response can be taken for the answer to the first write of the
  pipeline, since the wire carries exactly the pipeline; `NoneForgotten`, with two of the client's
  own assertions; `LastWriteWins`; `Implements`; `AllAnswered`.
- **listens** (two documents, a get or listener on each or both on one, one version change,
  one fault and any number of failed attempts to connect): `TypeOK`; `TrackerConsistent`
  and `WatchedWhileNeeded`, which contain assertions of the code; `AnsweredOnce`,
  `FreshGet`, `MonotonicReads`; `GetsAnswered`, even if no connection ever succeeds.
- **usage** (eight days in two months, two weekdays for day 1, weeks that start on Sunday, Monday or
  Saturday, two loads, one change of month, two hourly requests, one error): `TypeOK`, `InStep`,
  `EveryDaySeen`, `LoadingEnds`, `HourlySettles`.
- **prediction** (two years of 365 days with data on seven days around the turns of the year, two
  alignments, both rules for the first week, two chains, a new view model, one error): `TypeOK`, `ChainsSettle`, `LongRangeIsAYear`,
  `NotifiesNew`, `HourlySettles`.

The runs that find the code in disagreement with what it or the documentation says:

- **sync_stale_load** (`RealTimeSync`; "real-time Firestore sync", README): a load
  reads the document; the listener merges a newer one; the load's notify block puts
  the old value back. Nothing is in flight and the switch is wrong, until the next
  change of the document (`Converges` shows that the controller's refresh repairs it).
- **prediction_weeks** (`UniqueWeeks`; "Combine year and week for unique identification"):
  the last days of December have week number 1 and the old year, hence January's key, and one
  range runs from January to December. `LongRangeIsAYear` says that this is the only way: a range
  longer than a week joins the first and the last fortnight of one calendar year, and one of its
  two ends belongs to a week of the year next to it.

### Other disagreements met while modelling

The models contain these behaviours; no run is kept for them.

- A card toggled past midnight writes a document of the new day that is not there. The write
  is refused, and the completion's `toggle()` ("Revert on error", `DeviceCardView.swift:101`)
  flips an entry the tap never changed.
- A card without energy data opens the detail screen with the id "" (`DeviceCardView.swift:11`),
  which the SDK refuses with an exception (`crashed` in `ApplianceDetail`).
- The listener of a closed visit announces the user's own switch as "automatically turned"
  (`ApplianceDetailViewModel.swift:70`).
- A failed lookup, or a listener that ends with an error, leaves `isLoading` true
  (`ApplianceDetailViewModel.swift:24` and `:40`), so "Error: Device data not
  found." (`ApplianceDetailView.swift:58`) is not shown. `LoadsDevice` excepts both.
- With a sign-in and a sign-up under way together, the completion of the sign-in sets `isLoggedIn` for the
  user of its own request (`LoginViewModel.swift:43`), whom the sign-up's new, unverified account may have replaced
  in between. With nothing left to run the landing screen is then open while the current user is not
  verified, against "Check if the user is logged in and if the email is verified" (`RootView.swift:30`).
  `SettledLogin` states this as its one exception (`crossed`).
- When Firestore ends the energy listener with an error (`LandingViewModel.swift:136`), nothing adds
  it again until the screen appears again; entries change by loads and completions only.
  `Converges` and `StaysInStep` speak of a listener that has not ended.
- Where weeks do not start on Monday, the days from the first day of the week to Sunday (`Early`: Sunday in
  a calendar that starts on Sunday, Saturday and Sunday in one that starts on Saturday) fall out of the
  Monday-to-Sunday range made for their own week. If the week before has no data of the month
  they cannot be seen; if their week has no other day its range is empty. `EveryDaySeen` states the exception.
- An hourly chart that is drawn again after a load shows today's date over the hours of another
  date; with two dates on their way the last answer wins, not the last date, and in `Prediction` forecasts and
  usages of different dates may end up beside each other. `HourlySettles` of both modules
  speaks of one date on its way for this reason and does not cover these hazards.
- A new `PredictionViewModel` counts from 0 and announces predictions that are days old.
- The notification switches of Settings are stored and nothing reads them.
- In `SignUp`, a second account registered while the position for the first is awaited gets the
  profile; the first has none. An account is also left without a profile by a sheet that is closed,
  an app that is killed, a refused location or a lost reply to `createUser`; pressing again is then
  refused, because the address is taken. `LeftAlone` excludes all of these, since nothing in the code
  repairs them: what it checks is that nothing else stops a registration.

### Bounds

Every bound is a CONSTANT named `Max...` (or the length of the small calendar). One device is
enough where a property is about one entry: devices share only the queue and the group, and
`WholeList`, which is about the group, is checked with two. One filter change hides a card
while its write is out or shows a hidden one; the theorem `SwitchLockHolds` covers any
number. One controller write is enough to differ from what a load has read.
`MaxQueue` bounds how far the watch stream may run ahead of the
main queue; it restricts `Watch` only, so that completions, loads and bodies
are never held back. It is 1 in the passing runs of `DeviceSync`: the snapshots of commits and refusals are
queued behind it without a bound, and the theorems about the invariants hold for any value. `MaxAppear` is per launch, so that the
screen of `sync_edit` can come back over the pending write after its relaunch; the
relaunch is not run with `SwitchLock` and `WholeList`, but `SwitchLockHolds` and `WholeListHolds` cover any number.
`MaxError` is 1 in `sync_live`, where an error could leave an entry wrong for good, and 0 in the other runs of
`DeviceSync`; the theorems cover any number. An entry that a listener of a new day follows is not run. `ListenerError` needs no bound. Two accounts are
the least for one to replace another, and two requests let a sign-up or a reset overlap a
sign-in; requests on their way have no bound of their own, and `SettledLoginHolds` covers any number.

Three writes against a pipeline of two fill it and leave one behind; three faults
let a stream break, be started again and be interrupted a second and a third time, by a change of account and
back, or a relaunch in between. Two listeners are the least to share a target or to
have one left when the other goes. Two sheets and two presses let a second registration meet
the first. Four days a month with an eight-day horizon put a month's end inside a week. The days with
data in `Prediction` are the first and last ones of two years, because everywhere else the key of a week
tells weeks apart; the theorem `LongRangeIsAYearHolds` covers every other choice of days.

`CHECK_DEADLOCK FALSE`: with the counters used up and no more input the app is idle,
which is where it should be.

### Fairness

The main queue is served (`WF` of its actions): iOS ends an app whose main thread
does not. Requests end in an answer or an error, and a write stays in the
client's queue, retried, until the server accepts or refuses it (`WF` of
`Commit \/ Reject` in `DeviceSync`); the liveness results there speak of a phone that is online
again at some time. The watch stream delivers (`WF` of `Watch`). `Heartbeat` is
fair because the controller updates usage while it runs; only `Converges` needs it.
SwiftUI draws and the splash timer fires (`Session`).

`WritePipeline` justifies part of this: credentials arrive, backoffs elapse, the worker queue
runs and the server answers; faults are as many as the bound. `AllAnswered` is about an
account that stays signed in, because the queue of another one is not sent. `Listens` assumes that
an attempt to connect ends, not that it succeeds, and that an open stream which is not broken
answers; its two timers need no fairness. `SignUp` assumes that Auth answers or gives up and a permitted
location manager reports a position. `EnergyUsage` and `Prediction` assume that gets are answered
(`GetsAnswered` of `Listens`) and the screen is drawn.
No fairness is assumed of users, of the controller's decisions, of edits, relaunches or
midnight.

## Proofs

Every invariant that a passing run checks is also a theorem `Spec => []Inv`, for every value of the
constants that the module's `ConstantsAssumption` admits; so are one of the two action properties
(`NotifiesNewHolds`) and the refinement of `WriteQueue` by `WritePipeline` (`Refinement`). Nothing else is
assumed.

| Module | Theorems |
|---|---|
| `DeviceSyncProofs` | `TypeCorrect`, `SwitchLockHolds`, `CardOrderHolds`, `WholeListHolds` |
| `ApplianceDetailProofs` | `TypeCorrect`, `OneListenerHolds`, `AnnouncesChangesHolds`, `MirrorsDocumentHolds` |
| `SessionProofs` | `TypeCorrect`, `SettledLoginHolds` |
| `SignUpProofs` | `TypeCorrect`, `MailBeforeProfileHolds` |
| `WritePipelineProofs` | `TypeCorrect`, `WireInStepHolds`, `NoneForgottenHolds`, `LastWriteWinsHolds`, `Refinement` |
| `ListensProofs` | `TypeCorrect`, `TrackerConsistentHolds`, `WatchedWhileNeededHolds`, `AnsweredOnceHolds`, `FreshGetHolds`, `MonotonicReadsHolds` |
| `EnergyUsageProofs` | `TypeCorrect`, `InStepHolds`, `EveryDaySeenHolds` |
| `PredictionProofs` | `TypeCorrect`, `ChainsSettleHolds`, `LongRangeIsAYearHolds`, `NotifiesNewHolds` |

Every module is laid out alike: lemmas about its data, the inductive invariant, one lemma per
action (or group of actions that do the same to the invariant), the step lemma that combines them,
and the theorems. The invariant is called `IInv` where one serves all theorems. None of
the properties is inductive; what each needs beside itself is the argument.

### DeviceSync

`SwitchLock`: a filter change or a relaunch gives a card a new number, and "not disabled, no
write, no completion" must hold for that number at once. This needs that no write or
completion carries a number *ahead* of its card. And a write that belongs to the card
on screen must belong to the running launch, or its answer would release nothing. `CardOrder`
says both, and `LockInv == TypeOK /\ CardOrder /\ SwitchLock` is inductive.

`WholeList`: `ListInv == TypeOK /\ Groups(mainq, loads) /\ WholeList`. `Groups` says of every load and
device that it is in exactly one state: asked, answered with one block in the queue, or collected
(`Answering`), and of every load that one notify block is queued when all are
collected and none before (`Leaving`). Hence a notify block finds a complete list, and a
slot that is taken again has no block left of its former load.

Both are about queues of which only the elements of one kind matter. `None(q, E)` and `One(q, E)` say
that a sequence has none, or exactly one, of the elements of the set `E`; `AppendOther`, `AppendOwn`,
`TailOther` and `TailOwn` say what appending and removing do to that and serve both invariants.

### ApplianceDetail

`Registered` (a view model's listener is in force, its own, and the only one of its
registrations in force) carries `OneListener`. `Unswitched` carries `AnnouncesChanges`: as long as
nobody has switched the device, the cache, the queued snapshots and every `isOn` agree with the
server. `Course` carries `MirrorsDocument`: for a visit that listens, the last snapshot that has still
its first hop to go holds the client's view; if there is none, the last one that is
dispatched does; if there is none either, `isOn` does. It is `MirrorsDocument` said with positions in the
queue instead of a filtered sequence, and `CourseIsLatest` connects the two.

### Session

Both theorems hold for any number of accounts, requests, log-outs and relaunches, and of requests on their way
together. `SettledLogin` follows from `Settles`. While nobody is `crossed` it is `Settling`: either a listener has
still something to tell, or the last
body in the queue makes `isLoggedIn` what it should be, or a completion is going to set it; and a completion
that a live view model will hear is about the current user and is not followed by a body that logs
him out (`Honest`, `Old`). Once somebody is `crossed`, all there is to say is that the current user, a new
account, is not verified. The rest
of `IInv` is what `Settles` lives on: a listener that has something to tell will be called
(`Called`); its last queued body is about the user it last saw (`Followed`); with the keychain locked
nobody is signed in (`Shut`); Auth and the listeners know only accounts that exist, so that they have something to
tell of a new one (`Known`); there is one sign-in on its way at most, and while there is one nobody is logged in and
nothing queued logs anybody in (`InFlight`, `Waiting`).

### SignUp

A request is told apart from all others by its press (`Numbered`), which is what makes `TypeOK`
inductive. `Truthful` says that whatever a sheet, a completion, a queued save or a stored profile relies on
has happened: the account exists, and an e-mail went out for the sheet. Neither is
undone by a kill, so it survives everything that is lost there.

### WritePipeline

`IInv` has three parts. `StoreInv` is about the remote store and the queue of the user signed in:
the pipeline is the beginning of that queue, full or all of it; what is on the wire is the pipeline, in
order, once the handshake is done (`Wire`); a stream that is started has something to do and only an idle
one runs the timer (`Purpose`); only the current attempt has credentials outstanding that will be
accepted (`Credible`). An operation of the store breaks the part about the whole queue
before `FillWritePipeline` repairs it, so that what holds in between is a definition of its own
(`StoreCore`). `QueueInv`: ids and writes grow along a queue, a queued write has no answer, is in one
queue, and every completion belongs to a queued write. `LogInv`: the end of the server's log is what the
client has not read of it, and no write logged and answered comes after one still queued.

`Refinement` shows that `Init` implies `Promise!Init` and that every step of `Next`, under `IInv`, is a
`Submit`, `Apply`, `Answer` or `Crash` of `WriteQueue` or leaves its variables alone. `StoreInv` is
needed for `Answer` (a response answers the oldest write of the user) and `LogInv` for the order of
effects.

### Listens

A client with its main queue, `s`, is `Sound` if: listeners, events and views refer to each other
(`Known`, `Viewed`); events of a query are in the order of its versions and not newer than
the cache (`Ordered`); a get that opened its target has not been given an older document, nor has a
view that would be (`Fresh`); after an error nothing follows for that listener (`ErrorsLast`); a get that
was answered is muted or gone (`Quieted`). Each operation of the client (`UpdateState`, `Close`,
`Listen`, `StopListening`, `Raise`, ...) is shown to keep `Sound` by a lemma of its own, and the actions, which chain
operations as the code's calls do, combine them. `Steady` and `Watched` carry `TrackerConsistent` and
`WatchedWhileNeeded`; they do not hold between two operations of a chain, so that they are
shown for whole actions. `Asked` says that a get was made at a version the server had then, and that its target was
requested no earlier: that is where `FreshGet` comes from.

### EnergyUsage and Prediction

`Weekly`: the totals are those of the days and the month on hand, the last block with weeks in the
queue has the weeks of them (`OnTheWay`), or the screen has if there is none, and the selection is one of
the weeks on screen. `EveryDaySeen` is then arithmetic about weekdays, for any weekday of the first
day and any first day of the week.

`Prediction`'s invariant adds to `TypeOK` and `ChainsSettle` that the two ends of a range share their key
(`Keyed`) and that the count kept for the next notification is that of the predictions on hand (`Counted`).
`LongRangeIsAYear` follows from `Keyed` by a chain of lemmas about the calendar: where a year's first week begins
(`FirstWeekOf`), that a week's number has at most two digits (`TwoDigits`), so that equal keys mean equal
calendar years and equal numbers (`SameKey`), and that equal numbers in one year mean the
same week unless one of the two days belongs to a week of the year before or after (`LongRange`). It
covers years of 350 to 390 days, which are those of the calendars iOS offers.

### What is only model-checked

- The liveness properties: `SwitchReleased`, `Converges`, `LoadsDevice`, `SignInEnds`, `LeftAlone`,
  `AllAnswered`, `GetsAnswered`, `LoadingEnds` and both `HourlySettles`. The proof system has no rule for
  fairness.
- `StaysInStep` of `DeviceSync`: `WillShow` runs through the queue recursively, and a proof that
  two queues make the same of an entry is an induction over their length, which
  the provers cannot instantiate. `MirrorsDocument`, which asks the same of the
  detail screen, is proved because a snapshot there overrides what was before it, so that only the
  last one counts.
- The disagreements with the documentation (`RealTimeSync`, `UniqueWeeks`), which are counterexamples.

Some definitions of the models are written so that they can be reasoned about: `Emit` of
`ApplianceDetail` and `Raise` of `Listens` add one block per listener, in the order of an
enumeration of the set (`InOrder`) and not by recursion; `Bodies` of `Session` and
`RemoveMutationBatch` of `WritePipeline` are concatenations.

## Not modelled, and the plan

Not modelled at all: layout, formatting, theme, static views, the services outside the
repository, and the vendored code apart from the parts named above. Left out of what is modelled:

- AI suggestions: one listener per view model that replaces a list nobody else reads;
- Settings and the name edit of Home: single `updateData` calls, whose way to the server is
  `WritePipeline`; `fetchUserRate`, whose result one label shows;
- of the Firestore client: transactions, bundles, `disableNetwork`, `waitForPendingWrites` and
  memory-only persistence, which the app does not use; limbo documents, existence filters,
  limits and garbage collection, which need queries of many documents;
- the devices collection keeps its members; the day does not change in `ApplianceDetail`; the
  detail screen, the landing list and the client are composed by their rules, not in one
  state space.

Planned next, proofs:

1. `StaysInStep` in a form without recursion: which block of the queue decides an entry, as
   `Course` does for the detail screen, with completions that may flip it.
2. What `DeviceSync` and `ApplianceDetail` take from the client (answers in order, a completion
   at most once) as a consequence of `Refinement`, stated as invariants of `WriteQueue`.
3. The bodies of `DeviceSync` after an error of the energy listener: which load or completion an entry
   holds the value of from then on.
