------------------------------ MODULE Prediction ------------------------------
(***************************************************************************)
(* The prediction screen.  Every onAppear starts a chain of two gets, the  *)
(* predictions and then the usages, whose last callback makes the week     *)
(* ranges; chains overlap, and a get answers from the server or, without a *)
(* network, from the cache.  The hourly chart asks for the predictions and *)
(* the usages of a day separately.                                         *)
(*                                                                         *)
(* Days are numbers; a year has YearLength of them.  The calendar's week   *)
(* rules (first weekday, days the first week must have) are any.           *)
(***************************************************************************)
EXTENDS Integers, FiniteSetsExt

CONSTANTS
    YearLength,   \* days of a year, in one of Foundation's calendars
    LastDay,      \* the last day with data
    Offsets,      \* where day 1 may lie in the calendar's week, 0..6
    MinimalDays,  \* what minimalDaysInFirstWeek may be
    Predicted,    \* sets of days with predictions that may be stored at first
    Measured,     \* the same for the days of energy_data
    Added,        \* days that the forecasting service adds, all at once
    Today,        \* the day on which the screen is used
    Dates,        \* days that are tried in the hourly chart
    MaxAppear,    \* bound: onAppear calls of one view model
    MaxOpen,      \* bound: number of times the screen is made anew
    MaxHourly,    \* bound: number of hourly requests, two gets each
    MaxError      \* bound: number of gets that fail

ASSUME ConstantsAssumption ==
    /\ YearLength \in 350..390 /\ LastDay \in Nat \ {0}
    /\ Offsets \subseteq 0..6 /\ MinimalDays \subseteq 1..7
    /\ Predicted \subseteq SUBSET (1..LastDay)
    /\ Measured \subseteq SUBSET (1..LastDay)
    /\ Added \subseteq 1..LastDay
    /\ Dates \subseteq 1..LastDay /\ Today \in Dates
    /\ MaxAppear \in Nat /\ MaxOpen \in Nat /\ MaxHourly \in Nat /\ MaxError \in Nat

VARIABLES
    offset, minimalDays,  \* the user's calendar
    predictions, measured,\* days with a document on the server
    cache,                \* what Firestore holds of them locally
    userId,               \* somebody was logged in when the view model was made
    chains,               \* fetchAllData chains and the get each is waiting for
    isLoading, dailyPredictions, dailyEnergyUsages, availableWeeks, selectedWeek,
    lastKnownPredictionCount,
    notified,             \* notifications sent by this view model
    hourlyAsked,          \* hourly gets, not answered
    hourlyPredictions, hourlyEnergyUsages,   \* the day they are of, 0 for none
    chartType, selectedDate,
    used                  \* counters held against the bounds

vars == <<offset, minimalDays, predictions, measured, cache, userId, chains,
          isLoading, dailyPredictions, dailyEnergyUsages, availableWeeks,
          selectedWeek, lastKnownPredictionCount, notified, hourlyAsked,
          hourlyPredictions, hourlyEnergyUsages, chartType, selectedDate, used>>

calendar  == <<offset, minimalDays>>
storeVars == <<predictions, measured, cache>>
dailyVars == <<isLoading, dailyPredictions, dailyEnergyUsages, availableWeeks,
               selectedWeek, lastKnownPredictionCount, notified>>
hourVars  == <<hourlyAsked, hourlyPredictions, hourlyEnergyUsages, chartType,
               selectedDate>>

Days == 1..LastDay
Counters == {"appear", "open", "hourly", "error"}
Bump(c) == used' = [used EXCEPT ![c] = @ + 1]

-----------------------------------------------------------------------------
(* Calendar.component(.year) and (.weekOfYear): the first week of a year   *)
(* is the one that has minimalDays days of it.                             *)
Year(d) == (d - 1) \div YearLength + 1
NewYear(y) == (y - 1) * YearLength + 1
WeekStart(d) == d - ((d - 1 + offset) % 7)
FirstWeek(y) ==
    LET start == WeekStart(NewYear(y)) IN
    IF start + 7 - NewYear(y) >= minimalDays THEN start ELSE start + 7

WeekOfYear(d) ==
    LET y == CASE d >= FirstWeek(Year(d) + 1) -> Year(d) + 1
               [] d < FirstWeek(Year(d))      -> Year(d) - 1
               [] OTHER                       -> Year(d)
    IN (WeekStart(d) - FirstWeek(y)) \div 7 + 1

(* The year is left out of the key. *)
WeekKey_NoYear(d) == 100 + WeekOfYear(d)

(* year * 100 + weekOfYear *)
WeekKey(d) == Year(d) * 100 + WeekOfYear(d)

(* The ranges are whole weeks. *)
WeekRanges_Whole(days) ==
    {[key |-> WeekKey(d), startDate |-> WeekStart(d), endDate |-> WeekStart(d) + 6] :
        d \in days}

(* generateWeekRanges: one range per key, from its first to its last date. *)
WeekRanges(days) ==
    LET keys == [d \in days |-> WeekKey(d)]
        Span(k) == LET group == {d \in days : keys[d] = k} IN
                   [key |-> k, startDate |-> Min(group), endDate |-> Max(group)]
    IN {Span(k) : k \in {keys[d] : d \in days}}

NoWeek == [key |-> 0, startDate |-> 0, endDate |-> 0]

(* The range with the largest key is last in the list and is selected. *)
MostRecent(weeks) ==
    IF weeks = {} THEN NoWeek
    ELSE CHOOSE w \in weeks : \A v \in weeks : v.key <= w.key

InWeek(d, w) == w.startDate <= d /\ d <= w.endDate

-----------------------------------------------------------------------------
Init ==
    /\ offset \in Offsets /\ minimalDays \in MinimalDays
    /\ predictions \in Predicted /\ measured \in Measured
    /\ cache \in {[predictions |-> {}, measured |-> {}],
                  [predictions |-> predictions, measured |-> measured]}
    /\ userId \in BOOLEAN
    /\ chains = {}
    /\ isLoading = TRUE
    /\ dailyPredictions = {} /\ dailyEnergyUsages = {}
    /\ availableWeeks = {} /\ selectedWeek = NoWeek
    /\ lastKnownPredictionCount = 0 /\ notified = 0
    /\ hourlyAsked = {}
    /\ hourlyPredictions = 0 /\ hourlyEnergyUsages = 0
    /\ chartType = "daily" /\ selectedDate = Today
    /\ used = [c \in Counters |-> 0]

(* The landing screen is left and made anew, with a new view model; the    *)
(* callbacks of the old one find no self.                                  *)
Reopen ==
    /\ used["open"] < MaxOpen
    /\ used' = [used EXCEPT !["open"] = @ + 1, !["appear"] = 0]
    /\ userId' \in BOOLEAN
    /\ chains' = {}
    /\ isLoading' = TRUE
    /\ dailyPredictions' = {} /\ dailyEnergyUsages' = {}
    /\ availableWeeks' = {} /\ selectedWeek' = NoWeek
    /\ lastKnownPredictionCount' = 0 /\ notified' = 0
    /\ hourlyAsked' = {}
    /\ hourlyPredictions' = 0 /\ hourlyEnergyUsages' = 0
    /\ chartType' = "daily" /\ selectedDate' = Today
    /\ UNCHANGED <<calendar, storeVars>>

(* The forecasting service stores the predictions of the coming days. *)
ServiceAdds ==
    /\ ~(Added \subseteq predictions)
    /\ predictions' = predictions \cup Added
    /\ UNCHANGED <<calendar, measured, cache, userId, chains, dailyVars, hourVars, used>>

-----------------------------------------------------------------------------
(* The end of a chain: generateWeekRanges, then isLoading = false. *)
EndOfChain(newPredictions, newUsages) ==
    /\ availableWeeks' = WeekRanges(newPredictions \cup newUsages)
    /\ selectedWeek' = MostRecent(availableWeeks')
    /\ isLoading' = FALSE

(* onAppear: fetchAllData.  Without a user both gets are passed over. *)
Appear ==
    /\ used["appear"] < MaxAppear
    /\ Bump("appear")
    /\ IF userId
       THEN /\ isLoading' = TRUE
            /\ chains' = chains \cup {[id |-> used["appear"] + 1, get |-> "predictions"]}
            /\ UNCHANGED <<availableWeeks, selectedWeek>>
       ELSE /\ EndOfChain(dailyPredictions, dailyEnergyUsages)
            /\ UNCHANGED chains
    /\ UNCHANGED <<calendar, storeVars, userId, dailyPredictions, dailyEnergyUsages,
                   lastKnownPredictionCount, notified, hourVars>>

(* The predictions are answered with some days: notify when there are at   *)
(* least two more than last time, and go on with the usages.  The mutated  *)
(* form forgets to count.                                                  *)
PredictionsAnswered_NotCounted(c, days) ==
    /\ c.get = "predictions"
    /\ chains' = (chains \ {c}) \cup {[c EXCEPT !.get = "usages"]}
    /\ notified' = IF Cardinality(days) > lastKnownPredictionCount + 1
                   THEN notified + 1 ELSE notified
    /\ dailyPredictions' = days
    /\ UNCHANGED <<calendar, predictions, measured, userId, isLoading,
                   dailyEnergyUsages, availableWeeks, selectedWeek,
                   lastKnownPredictionCount, hourVars, used>>

PredictionsAnswered(c, days) ==
    /\ c.get = "predictions"
    /\ chains' = (chains \ {c}) \cup {[c EXCEPT !.get = "usages"]}
    /\ notified' = IF Cardinality(days) > lastKnownPredictionCount + 1
                   THEN notified + 1 ELSE notified
    /\ lastKnownPredictionCount' = Cardinality(days)
    /\ dailyPredictions' = days
    /\ UNCHANGED <<calendar, predictions, measured, userId, isLoading,
                   dailyEnergyUsages, availableWeeks, selectedWeek, hourVars, used>>

(* The usages are answered, and the chain ends. *)
UsagesAnswered(c, days) ==
    /\ c.get = "usages"
    /\ chains' = chains \ {c}
    /\ dailyEnergyUsages' = days
    /\ EndOfChain(dailyPredictions, days)
    /\ UNCHANGED <<calendar, predictions, measured, userId, dailyPredictions,
                   lastKnownPredictionCount, notified, hourVars, used>>

FromServer(c) ==
    \/ /\ PredictionsAnswered(c, predictions)
       /\ cache' = [cache EXCEPT !.predictions = predictions]
    \/ /\ UsagesAnswered(c, measured)
       /\ cache' = [cache EXCEPT !.measured = measured]

FromCache(c) ==
    /\ PredictionsAnswered(c, cache.predictions) \/ UsagesAnswered(c, cache.measured)
    /\ UNCHANGED cache

(* A get fails: its days stay, completion() is called all the same.  The   *)
(* mutated form returns without it.                                        *)
GetFails_NoCompletion(c) ==
    /\ used["error"] < MaxError
    /\ Bump("error")
    /\ chains' = chains \ {c}
    /\ UNCHANGED <<calendar, storeVars, userId, dailyVars, hourVars>>

GetFails(c) ==
    /\ used["error"] < MaxError
    /\ Bump("error")
    /\ IF c.get = "predictions"
       THEN /\ chains' = (chains \ {c}) \cup {[c EXCEPT !.get = "usages"]}
            /\ UNCHANGED <<isLoading, availableWeeks, selectedWeek>>
       ELSE /\ chains' = chains \ {c}
            /\ EndOfChain(dailyPredictions, dailyEnergyUsages)
    /\ UNCHANGED <<calendar, storeVars, userId, dailyPredictions, dailyEnergyUsages,
                   lastKnownPredictionCount, notified, hourVars>>

(* The user chooses a week; the list stays on the screen during a load. *)
SelectWeek(w) ==
    /\ chartType = "daily"
    /\ w \in availableWeeks
    /\ selectedWeek' = w
    /\ UNCHANGED <<calendar, storeVars, userId, chains, isLoading, dailyPredictions,
                   dailyEnergyUsages, availableWeeks, lastKnownPredictionCount,
                   notified, hourVars, used>>

-----------------------------------------------------------------------------
(* fetchHourlyData: two gets, or none without a user. *)
FetchHourlyData(d) ==
    /\ used["hourly"] < MaxHourly
    /\ Bump("hourly")
    /\ hourlyAsked' =
           IF ~userId THEN hourlyAsked
           ELSE hourlyAsked \cup [id : {used["hourly"] + 1}, day : {d},
                                  of : {"predictions", "usages"}]

(* The segmented control.  The hourly chart is a new one each time: its    *)
(* date is today, and today's hours are asked for.                         *)
ShowHourly ==
    /\ used["appear"] > 0
    /\ chartType = "daily"
    /\ chartType' = "hourly"
    /\ selectedDate' = Today
    /\ FetchHourlyData(Today)
    /\ UNCHANGED <<calendar, storeVars, userId, chains, dailyVars,
                   hourlyPredictions, hourlyEnergyUsages>>

ShowDaily ==
    /\ chartType = "hourly"
    /\ chartType' = "daily"
    /\ UNCHANGED <<calendar, storeVars, userId, chains, dailyVars, hourlyAsked,
                   hourlyPredictions, hourlyEnergyUsages, selectedDate, used>>

PickDate(d) ==
    /\ chartType = "hourly"
    /\ d # selectedDate
    /\ selectedDate' = d
    /\ FetchHourlyData(d)
    /\ UNCHANGED <<calendar, storeVars, userId, chains, dailyVars,
                   hourlyPredictions, hourlyEnergyUsages, chartType>>

(* The usages of a day are only taken when its predictions are there. *)
HourlyAnswered_Paired(r) ==
    /\ hourlyAsked' = hourlyAsked \ {r}
    /\ IF r.of = "predictions"
       THEN hourlyPredictions' = r.day /\ UNCHANGED hourlyEnergyUsages
       ELSE /\ hourlyEnergyUsages' = IF hourlyPredictions = r.day THEN r.day
                                     ELSE hourlyEnergyUsages
            /\ UNCHANGED hourlyPredictions
    /\ UNCHANGED <<calendar, storeVars, userId, chains, dailyVars, chartType,
                   selectedDate, used>>

HourlyAnswered(r) ==
    /\ hourlyAsked' = hourlyAsked \ {r}
    /\ IF r.of = "predictions"
       THEN hourlyPredictions' = r.day /\ UNCHANGED hourlyEnergyUsages
       ELSE hourlyEnergyUsages' = r.day /\ UNCHANGED hourlyPredictions
    /\ UNCHANGED <<calendar, storeVars, userId, chains, dailyVars, chartType,
                   selectedDate, used>>

HourlyFails(r) ==
    /\ used["error"] < MaxError
    /\ Bump("error")
    /\ hourlyAsked' = hourlyAsked \ {r}
    /\ UNCHANGED <<calendar, storeVars, userId, chains, dailyVars,
                   hourlyPredictions, hourlyEnergyUsages, chartType, selectedDate>>

-----------------------------------------------------------------------------
Get(c) == FromServer(c) \/ FromCache(c) \/ GetFails(c)
Hour == \E r \in hourlyAsked : HourlyAnswered(r) \/ HourlyFails(r)

Next ==
    \/ Appear \/ Reopen \/ ServiceAdds \/ ShowHourly \/ ShowDaily \/ Hour
    \/ \E c \in chains : Get(c)
    \/ \E w \in availableWeeks : SelectWeek(w)
    \/ \E d \in Dates : PickDate(d)

(* Every hourly get is answered, from the cache when there is no network. *)
Fairness == WF_vars(Hour)

Spec == Init /\ [][Next]_vars /\ Fairness

-----------------------------------------------------------------------------
Week == [key : Nat, startDate : Days, endDate : Days]

(* The types of the state; the cache never runs ahead of the server. *)
TypeOK ==
    /\ predictions \subseteq Days /\ measured \subseteq Days
    /\ cache.predictions \subseteq predictions /\ cache.measured \subseteq measured
    /\ userId \in BOOLEAN
    /\ chains \subseteq [id : 1..MaxAppear, get : {"predictions", "usages"}]
    /\ isLoading \in BOOLEAN
    /\ dailyPredictions \subseteq Days /\ dailyEnergyUsages \subseteq Days
    /\ availableWeeks \subseteq Week /\ selectedWeek \in Week \cup {NoWeek}
    /\ lastKnownPredictionCount \in Nat /\ notified \in Nat
    /\ hourlyAsked \subseteq [id : 1..MaxHourly, day : Dates,
                              of : {"predictions", "usages"}]
    /\ hourlyPredictions \in Dates \cup {0} /\ hourlyEnergyUsages \in Dates \cup {0}
    /\ chartType \in {"daily", "hourly"} /\ selectedDate \in Dates

(* Once every chain has ended, however they overlapped and whichever gets  *)
(* failed, the ranges cover exactly the days that are loaded, a range is   *)
(* selected when there is one, and the progress view is gone.              *)
ChainsSettle ==
    (chains = {} /\ used["appear"] > 0) =>
        /\ ~isLoading
        /\ \A d \in dailyPredictions \cup dailyEnergyUsages :
               \E w \in availableWeeks : InWeek(d, w)
        /\ \A w \in availableWeeks :
               {w.startDate, w.endDate} \subseteq dailyPredictions \cup dailyEnergyUsages
        /\ selectedWeek \in availableWeeks \/ (selectedWeek = NoWeek /\ availableWeeks = {})

(* "Combine year and week for unique identification": a range is one week. *)
UniqueWeeks == \A w \in availableWeeks : w.endDate - w.startDate <= 6

(* The one way in which a range is longer than a week: it joins days of    *)
(* the first and of the last fortnight of one calendar year, which share   *)
(* their key because the week number of the first or of the last of them   *)
(* belongs to the year next to it.                                         *)
LongRangeIsAYear ==
    \A w \in availableWeeks :
        w.endDate - w.startDate > 6 =>
            LET y == Year(w.startDate) IN
            /\ y = Year(w.endDate)
            /\ w.startDate < NewYear(y) + 14 /\ NewYear(y + 1) - 14 <= w.endDate
            /\ w.startDate < FirstWeek(y) \/ FirstWeek(y + 1) <= w.endDate

(* "Notify only if user receives more than 1 new prediction compared to    *)
(* before": a notification comes with at least two predictions that the    *)
(* view model did not hold, whatever order the chains' answers and the     *)
(* cache's take.  (A new view model holds none, so it announces old ones.) *)
NotifiesNew ==
    [][notified' > notified =>
           Cardinality(dailyPredictions' \ dailyPredictions) > 1]_vars

JustOpened == used["appear"] = 0

(* The hours of the date above the chart arrive, predictions and usages    *)
(* both: when no other date is asked for any more and no further get       *)
(* fails, the chart ends up with the two halves of that date, unless       *)
(* another date is asked for or the screen is left.                        *)
HourlySettles ==
    (/\ chartType = "hourly" /\ used["error"] = MaxError
     /\ \A half \in {"predictions", "usages"} : \E r \in hourlyAsked : r.of = half
     /\ \A r \in hourlyAsked : r.day = selectedDate)
    ~> \/ hourlyPredictions = selectedDate /\ hourlyEnergyUsages = selectedDate
       \/ \E r \in hourlyAsked : r.day # selectedDate
       \/ JustOpened
=============================================================================
