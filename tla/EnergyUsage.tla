------------------------------ MODULE EnergyUsage ------------------------------
(***************************************************************************)
(* The energy usage screen: the days of energy_data are loaded by the view *)
(* model's init and again by every onAppear, the weeks of the chosen month *)
(* are computed at once but published by a later block of the main queue,  *)
(* and the hourly chart loads the day under its own date picker.           *)
(*                                                                         *)
(* Days are numbers.  A month has MonthLength days, day 1 is the first of  *)
(* the current year; the weekday of day 1 and the first day of the week in *)
(* the user's calendar are any.  A WeekRange is named by its Monday, a     *)
(* total by the set of days that were added up.                            *)
(***************************************************************************)
EXTENDS Integers, Sequences, FiniteSetsExt

CONSTANTS
    LastDay,      \* the last day with data
    MonthLength,  \* days of a month
    Today,        \* the day on which the screen is used
    Weekdays,     \* the weekdays that day 1 may be, Monday = 0
    FirstWeekdays,  \* the days that weeks may start on: 1 is Sunday, 7 Saturday
    Collections,  \* what may be stored when the screen is opened: sets of days
    MaxAppear,    \* bound: number of onAppear calls
    MaxMonth,     \* bound: number of months chosen
    MaxHourly,    \* bound: number of hourly requests
    MaxError      \* bound: number of requests that fail

ASSUME ConstantsAssumption ==
    /\ LastDay \in Nat \ {0} /\ MonthLength \in Nat \ {0}
    /\ Today \in 1..LastDay /\ Weekdays \subseteq 0..6
    /\ FirstWeekdays \subseteq 1..7
    /\ Collections \subseteq SUBSET (1..LastDay)
    /\ MaxAppear \in Nat
    /\ MaxMonth \in Nat /\ MaxHourly \in Nat /\ MaxError \in Nat

VARIABLES
    weekdayOf1,     \* weekday of day 1
    firstWeekday,   \* Calendar.current.firstWeekday
    stored,         \* days that have a document on the server
    cache,          \* the days that Firestore holds locally
    loads,          \* getDocuments calls for the days, not answered
    hourlyAsked,    \* hourly requests, not answered
    mainq,          \* blocks waiting on the main queue
    isLoading, dailyUsages, selectedMonth, availableWeeks, selectedWeek,
    totals,         \* the days in monthlyEnergyUsageAllDevices and ...CostAllDevices
    hourlyUsage,    \* the day whose hours are in hourlyUsage, 0 for none
    chartType,      \* the chart that is chosen
    drawn,          \* what the screen shows
    selectedDate,   \* the date above the hourly chart
    used            \* counters held against the bounds

vars == <<weekdayOf1, firstWeekday, stored, cache, loads, hourlyAsked, mainq,
          isLoading, dailyUsages, selectedMonth, availableWeeks, selectedWeek,
          totals, hourlyUsage, chartType, drawn, selectedDate, used>>

calendar == <<weekdayOf1, firstWeekday>>
weekVars == <<availableWeeks, selectedWeek>>
hourVars == <<hourlyAsked, hourlyUsage>>
viewVars == <<chartType, drawn, selectedDate>>

Days == 1..LastDay
Month(d) == (d - 1) \div MonthLength + 1
Months == {Month(d) : d \in Days}
Nil == -100
Counters == {"appear", "month", "hourly", "error"}
Bump(c) == used' = [used EXCEPT ![c] = @ + 1]

-----------------------------------------------------------------------------
Weekday(d) == (d + weekdayOf1 - 1) % 7

(* calendar.date(from: yearForWeekOfYear, weekOfYear): the first day of    *)
(* the calendar's week.                                                    *)
WeekStart(d) == d - ((Weekday(d) + 9 - firstWeekday) % 7)

(* The range starts where the week starts. *)
RangeOf_NoWeekday(d) == WeekStart(d)

(* startComponents.weekday = 2: the Monday in the same calendar week. *)
RangeOf(d) == WeekStart(d) + ((9 - firstWeekday) % 7)

(* The range ends on Saturday. *)
InWeek_Short(d, w) == d >= w /\ d <= w + 5

(* usage.date >= startDate && usage.date <= endDate, six days later. *)
InWeek(d, w) == d >= w /\ d <= w + 6

OfMonth(days, m) == {d \in days : Month(d) = m}
WeeksOf(days, m) == {RangeOf(d) : d \in OfMonth(days, m)}
First(weeks) == IF weeks = {} THEN Nil ELSE Min(weeks)

(* getFilteredUsageForSelectedWeek: without a week, the month's days are   *)
(* sought with a format that selectedMonth never has, and there are none.  *)
FilteredUsage == IF selectedWeek = Nil THEN {}
                 ELSE {d \in dailyUsages : InWeek(d, selectedWeek)}

(* Blocks on the main queue. *)
Loaded == [kind |-> "loaded"]
Usages(days) == [kind |-> "usages", days |-> days]
Weeks(weeks) == [kind |-> "weeks", weeks |-> weeks]

-----------------------------------------------------------------------------
(* The screen is opened: EnergyUsageViewModel.init starts the first load.  *)
Init ==
    /\ weekdayOf1 \in Weekdays
    /\ firstWeekday \in FirstWeekdays
    /\ stored \in Collections
    /\ cache \in {{}, stored}
    /\ loads = 1
    /\ hourlyAsked = {}
    /\ mainq = << >>
    /\ isLoading = TRUE
    /\ dailyUsages = {}
    /\ selectedMonth = Month(Today)
    /\ availableWeeks = {}
    /\ selectedWeek = Nil
    /\ totals = {}
    /\ hourlyUsage = 0
    /\ chartType = "daily"
    /\ drawn = "progress"
    /\ selectedDate = Today
    /\ used = [c \in Counters |-> 0]

(* onAppear: fetchAllDailyEnergyUsage. *)
Appear ==
    /\ used["appear"] < MaxAppear
    /\ Bump("appear")
    /\ isLoading' = TRUE
    /\ loads' = loads + 1
    /\ UNCHANGED <<calendar, stored, cache, hourVars, mainq, dailyUsages,
                   selectedMonth, weekVars, totals, viewVars>>

(* The home controller adds today's document. *)
ControllerAdds ==
    /\ Today \notin stored
    /\ stored' = stored \cup {Today}
    /\ UNCHANGED <<calendar, cache, loads, hourVars, mainq, isLoading,
                   dailyUsages, selectedMonth, weekVars, totals, viewVars, used>>

-----------------------------------------------------------------------------
(* The completion of getDocuments: isLoading goes down whatever came, an   *)
(* error or an empty snapshot changes nothing else.                        *)
Answer(days) ==
    /\ loads > 0
    /\ loads' = loads - 1
    /\ mainq' = mainq \o (IF days = {} THEN <<Loaded>>
                          ELSE <<Loaded, Usages(days)>>)
    /\ UNCHANGED <<calendar, stored, hourVars, isLoading, dailyUsages,
                   selectedMonth, weekVars, totals, viewVars>>

LoadFromServer == Answer(stored) /\ cache' = stored /\ UNCHANGED used
LoadFromCache == Answer(cache) /\ UNCHANGED <<cache, used>>

(* The error returns before isLoading is lowered. *)
LoadFails_StillLoading ==
    /\ loads > 0
    /\ used["error"] < MaxError
    /\ Bump("error")
    /\ loads' = loads - 1
    /\ UNCHANGED <<calendar, stored, cache, hourVars, mainq, isLoading,
                   dailyUsages, selectedMonth, weekVars, totals, viewVars>>

LoadFails ==
    /\ used["error"] < MaxError
    /\ Bump("error")
    /\ Answer({})
    /\ UNCHANGED cache

(* computeAvailableWeeks and calculateMonthlyTotals, for new days or a new *)
(* month: the totals are set, the weeks go to the end of the queue.        *)
Compute(queue, days, month) ==
    /\ mainq' = Append(queue, Weeks(WeeksOf(days, month)))
    /\ totals' = OfMonth(days, month)

RunLoaded ==
    /\ mainq # << >> /\ Head(mainq).kind = "loaded"
    /\ mainq' = Tail(mainq)
    /\ isLoading' = FALSE
    /\ UNCHANGED <<calendar, stored, cache, loads, hourVars, dailyUsages,
                   selectedMonth, weekVars, totals, viewVars, used>>

RunUsages ==
    /\ mainq # << >> /\ Head(mainq).kind = "usages"
    /\ dailyUsages' = Head(mainq).days
    /\ Compute(Tail(mainq), dailyUsages', selectedMonth)
    /\ UNCHANGED <<calendar, stored, cache, loads, hourVars, isLoading,
                   selectedMonth, weekVars, viewVars, used>>

(* The selection is only made when there is none yet. *)
RunWeeks_KeepsWeek ==
    /\ mainq # << >> /\ Head(mainq).kind = "weeks"
    /\ mainq' = Tail(mainq)
    /\ availableWeeks' = Head(mainq).weeks
    /\ selectedWeek' = IF selectedWeek = Nil THEN First(availableWeeks')
                       ELSE selectedWeek
    /\ UNCHANGED <<calendar, stored, cache, loads, hourVars, isLoading,
                   dailyUsages, selectedMonth, totals, viewVars, used>>

RunWeeks ==
    /\ mainq # << >> /\ Head(mainq).kind = "weeks"
    /\ mainq' = Tail(mainq)
    /\ availableWeeks' = Head(mainq).weeks
    /\ selectedWeek' = IF selectedWeek \in availableWeeks' THEN selectedWeek
                       ELSE First(availableWeeks')
    /\ UNCHANGED <<calendar, stored, cache, loads, hourVars, isLoading,
                   dailyUsages, selectedMonth, totals, viewVars, used>>

(* The menu sets the screen's month and the view model's.  (The screen's   *)
(* onChange then sets the same month once more and publishes the same      *)
(* weeks a second time.)                                                   *)
SelectMonth(m) ==
    /\ used["month"] < MaxMonth
    /\ Bump("month")
    /\ selectedMonth' = m
    /\ Compute(mainq, dailyUsages, m)
    /\ UNCHANGED <<calendar, stored, cache, loads, hourVars, isLoading,
                   dailyUsages, weekVars, viewVars>>

SelectWeek(w) ==
    /\ drawn = "daily"
    /\ w \in availableWeeks
    /\ selectedWeek' = w
    /\ UNCHANGED <<calendar, stored, cache, loads, hourVars, mainq, isLoading,
                   dailyUsages, selectedMonth, availableWeeks, totals, viewVars, used>>

-----------------------------------------------------------------------------
FetchHourlyUsage(d) ==
    /\ used["hourly"] < MaxHourly
    /\ Bump("hourly")
    /\ hourlyAsked' = hourlyAsked \cup {[id |-> used["hourly"] + 1, day |-> d]}

(* The segmented control; the hourly chart asks for today's hours. *)
SelectChart(c) ==
    /\ c # chartType
    /\ chartType' = c
    /\ IF c = "hourly" THEN FetchHourlyUsage(Today)
       ELSE UNCHANGED <<hourlyAsked, used>>
    /\ UNCHANGED <<calendar, stored, cache, loads, hourlyUsage, mainq, isLoading,
                   dailyUsages, selectedMonth, weekVars, totals, drawn, selectedDate>>

(* The date picker, which offers the days of the chosen month. *)
PickDate(d) ==
    /\ drawn = "hourly"
    /\ Month(d) = selectedMonth
    /\ d # selectedDate
    /\ selectedDate' = d
    /\ FetchHourlyUsage(d)
    /\ UNCHANGED <<calendar, stored, cache, loads, hourlyUsage, mainq, isLoading,
                   dailyUsages, selectedMonth, weekVars, totals, chartType, drawn>>

(* The hours of a day come, in any order, or fail to.  (The hop through    *)
(* the main queue is left out: nothing else reads or writes the hours.)    *)
HourlyFails(r) ==
    /\ used["error"] < MaxError
    /\ Bump("error")
    /\ hourlyAsked' = hourlyAsked \ {r}
    /\ UNCHANGED <<calendar, stored, cache, loads, hourlyUsage, mainq, isLoading,
                   dailyUsages, selectedMonth, weekVars, totals, viewVars>>

(* Hours that are there are kept. *)
HourlyAnswered_OnlyFirst(r) ==
    /\ hourlyAsked' = hourlyAsked \ {r}
    /\ hourlyUsage' = IF hourlyUsage = 0 THEN r.day ELSE hourlyUsage
    /\ UNCHANGED <<calendar, stored, cache, loads, mainq, isLoading, dailyUsages,
                   selectedMonth, weekVars, totals, viewVars, used>>

HourlyAnswered(r) ==
    /\ hourlyAsked' = hourlyAsked \ {r}
    /\ hourlyUsage' = r.day
    /\ UNCHANGED <<calendar, stored, cache, loads, mainq, isLoading, dailyUsages,
                   selectedMonth, weekVars, totals, viewVars, used>>

(* EnergyUsageView.body.  An hourly chart that comes back after the        *)
(* progress view is a new one: its @State selectedDate is today again.     *)
Body == CASE isLoading                        -> "progress"
          [] ~isLoading /\ dailyUsages = {}   -> "no data"
          [] ~isLoading /\ dailyUsages # {}   -> chartType

Redraw ==
    /\ drawn # Body
    /\ drawn' = Body
    /\ selectedDate' = IF Body = "hourly" THEN Today ELSE selectedDate
    /\ UNCHANGED <<calendar, stored, cache, loads, hourVars, mainq, isLoading,
                   dailyUsages, selectedMonth, weekVars, totals, chartType, used>>

-----------------------------------------------------------------------------
RunBlock == RunLoaded \/ RunUsages \/ RunWeeks
Hour == \E r \in hourlyAsked : HourlyAnswered(r) \/ HourlyFails(r)
Load == LoadFromServer \/ LoadFromCache \/ LoadFails

Next ==
    \/ Appear \/ Load \/ RunBlock \/ Redraw \/ Hour
    \/ ControllerAdds
    \/ \E d \in Days : PickDate(d)
    \/ \E m \in Months : SelectMonth(m)
    \/ \E w \in availableWeeks : SelectWeek(w)
    \/ \E c \in {"daily", "hourly"} : SelectChart(c)

(* Gets are answered (from the cache when there is no network) and the     *)
(* main queue runs and draws.                                              *)
Fairness ==
    /\ WF_vars(RunBlock)
    /\ WF_vars(Redraw)
    /\ WF_vars(Load)
    /\ WF_vars(Hour)

Spec == Init /\ [][Next]_vars /\ Fairness

-----------------------------------------------------------------------------
Mondays == {d \in -6..(LastDay + 6) : Weekday(d) = 0}
Block == {Loaded} \cup [kind : {"usages"}, days : SUBSET Days]
         \cup [kind : {"weeks"}, weeks : SUBSET Mondays]

(* The types of the state; a week range starts on a Monday in every        *)
(* calendar ("a week range from Monday to Sunday").                        *)
TypeOK ==
    /\ stored \subseteq Days /\ cache \subseteq stored
    /\ loads \in Nat
    /\ hourlyAsked \subseteq [id : 1..MaxHourly, day : Days]
    /\ \A i \in DOMAIN mainq : mainq[i] \in Block
    /\ isLoading \in BOOLEAN
    /\ dailyUsages \subseteq Days /\ totals \subseteq Days
    /\ selectedMonth \in Months
    /\ availableWeeks \subseteq Mondays
    /\ selectedWeek \in Mondays \cup {Nil}
    /\ hourlyUsage \in Days \cup {0}
    /\ chartType \in {"daily", "hourly"}
    /\ drawn \in {"progress", "no data", "daily", "hourly"}
    /\ selectedDate \in Days

WeeksSettled == \A i \in DOMAIN mainq : mainq[i].kind # "weeks"

(* Whatever loads and choices of month overlap, once no block with weeks   *)
(* is waiting, the weeks on offer are those of the month and the days on   *)
(* the screen and one of them is selected when there is any; the totals    *)
(* are of that month and those days at every moment.                       *)
InStep ==
    /\ totals = OfMonth(dailyUsages, selectedMonth)
    /\ WeeksSettled =>
        /\ availableWeeks = WeeksOf(dailyUsages, selectedMonth)
        /\ selectedWeek \in availableWeeks \/ (selectedWeek = Nil /\ availableWeeks = {})

(* Where weeks do not start on Monday, the days from the first day of the  *)
(* week to Sunday come before the Monday of their own week.                *)
Early(d) == firstWeekday # 2 /\ Weekday(d) >= (firstWeekday + 5) % 7
WeekBefore(d) == (WeekStart(d) - 7)..(WeekStart(d) - 1)

(* Every day of the chosen month that has data can be seen by choosing a   *)
(* week, and the chosen week never shows an empty chart, with one          *)
(* exception: an early day (a Sunday where weeks start on Sunday, Saturday *)
(* and Sunday where they start on Saturday) falls out of the Monday-to-    *)
(* Sunday range made for its week.  It is only seen when the week before   *)
(* has data of the same month, and leaves the range of its own week empty  *)
(* when that has nothing but early days.                                   *)
EveryDaySeen ==
    WeeksSettled =>
        /\ \A d \in OfMonth(dailyUsages, selectedMonth) :
            \/ \E w \in availableWeeks : InWeek(d, w)
            \/ /\ Early(d)
               /\ OfMonth(dailyUsages, selectedMonth) \cap WeekBefore(d) = {}
        /\ (selectedWeek # Nil /\ FilteredUsage = {}) =>
            \E d \in dailyUsages :
              Early(d) /\ d \in (selectedWeek - 6)..(selectedWeek - 1)

(* The progress view goes away although loads overlap, fail, or bring      *)
(* nothing.                                                                *)
LoadingEnds == isLoading ~> ~isLoading

(* The hours of the date above the chart arrive in the chart: when that    *)
(* date is the only one still asked for, and no further request fails, it  *)
(* is drawn, unless the date is changed or another one is asked for.       *)
(* (With two dates on their way the last answer wins, not the last date.)  *)
HourlySettles ==
    (/\ drawn = "hourly"
     /\ used["error"] = MaxError
     /\ hourlyAsked # {} /\ \A r \in hourlyAsked : r.day = selectedDate)
    ~> (hourlyUsage = selectedDate \/ \E r \in hourlyAsked : r.day # selectedDate)
=============================================================================
