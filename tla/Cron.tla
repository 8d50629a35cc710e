-------------------------------- MODULE Cron --------------------------------
(***************************************************************************)
(* src/async/cron-runner.ts, with matches() of src/types/cron.ts: a runner *)
(* that looks at the clock every 30 seconds; and the rest of cron.ts:      *)
(* parse() for expressions already cut at the commas, slashes and dashes,  *)
(* and next() on a clock that is put forward and back.                     *)
(*                                                                         *)
(* The runner's time is the sequence Calendar of minutes of local time,    *)
(* some of the minutes there are; ticks come as often as they like in      *)
(* each, or never.                                                         *)
(***************************************************************************)
EXTENDS Integers, Sequences, FiniteSets

CONSTANTS
  Calendar,        \* records of year, month (from 0), date, hour, minute and day
  Schedule,        \* the parsed expression, a set of values for each of its fields
  RunImmediately

Dates == [year : Nat, month : 0..11, date : 1..31, hour : 0..23, minute : 0..59, day : 0..6]

ASSUME CronAssumption ==
  /\ Calendar \in Seq(Dates) /\ Calendar # <<>>
  /\ DOMAIN Schedule = {"minutes", "hours", "daysOfMonth", "months", "daysOfWeek"}
  /\ RunImmediately \in BOOLEAN

VARIABLES running,
          interval,         \* whether intervalId is set
          leaked,           \* whether an interval runs that intervalId does not name any more
          lastFiredMinute,
          today,            \* the minute it is, of the calendar
          looked,           \* history, since start(): the minutes a tick has looked at
          runs              \* history, since start(): handler calls of ticks, by minute

cronVars == <<running, interval, leaked, lastFiredMinute, today, looked, runs>>

Minutes == DOMAIN Calendar
Never == [m \in Minutes |-> 0]

CronInit ==
  /\ running = FALSE /\ interval = FALSE /\ leaked = FALSE
  /\ lastFiredMinute = -1
  /\ today \in Minutes
  /\ looked = {} /\ runs = Never

\* currentMinute in tick().
CurrentMinute(d) == d.year * 525960 + d.month * 43800 + d.date * 1440 + d.hour * 60 + d.minute

\* Cron.matches().
Matches(d) ==
  /\ d.minute \in Schedule.minutes
  /\ d.hour \in Schedule.hours
  /\ d.date \in Schedule.daysOfMonth
  /\ d.month + 1 \in Schedule.months
  /\ d.day \in Schedule.daysOfWeek

\* What start() does first, and again after every stop().
Begins == lastFiredMinute' = -1 /\ looked' = {} /\ runs' = Never

\* setInterval(): what intervalId held before is lost.
SetsInterval == interval' = TRUE /\ leaked' = (leaked \/ interval)

\* The handler that start() runs at once, before the timer is set: it may stop the runner, and
\* start it again, and may throw before it has made a promise, after which no timer is set.
\* A stop() comes too early: the timer is then set although the runner is stopped.
RunsAtOnce ==
  \/ running' = TRUE /\ UNCHANGED <<interval, leaked>>
  \/ running' = FALSE /\ interval' = TRUE /\ UNCHANGED leaked
  \/ running' = FALSE /\ interval' = FALSE /\ UNCHANGED leaked
  \/ running' = TRUE /\ interval' = TRUE /\ leaked' = TRUE
  \/ running' = TRUE /\ interval' = TRUE /\ UNCHANGED leaked

Start ==
  /\ UNCHANGED today
  /\ \/ running /\ UNCHANGED <<running, interval, leaked, lastFiredMinute, looked, runs>>
     \/ ~running /\ Begins /\ running' = TRUE /\ SetsInterval
     \/ ~running /\ Begins /\ RunImmediately /\ RunsAtOnce

Stop ==
  /\ IF running THEN running' = FALSE /\ interval' = FALSE ELSE UNCHANGED <<running, interval>>
  /\ UNCHANGED <<leaked, lastFiredMinute, today, looked, runs>>

\* Mutant of Fires: the minute is not remembered.
FiresForgetful(d) == runs' = [runs EXCEPT ![today] = @ + 1] /\ UNCHANGED lastFiredMinute

\* The rejection of the handler, later, goes to onError and changes nothing here.
Fires(d) == lastFiredMinute' = CurrentMinute(d) /\ runs' = [runs EXCEPT ![today] = @ + 1]

Tick ==
  LET d == Calendar[today]
      due == CurrentMinute(d) # lastFiredMinute /\ Matches(d)
  IN  /\ interval \/ leaked
      /\ looked' = looked \cup {today}
      /\ UNCHANGED <<running, interval, leaked, today>>
      /\ \/ due /\ Fires(d)
         \/ ~due /\ UNCHANGED <<lastFiredMinute, runs>>

Passes == today < Len(Calendar) /\ today' = today + 1 /\ UNCHANGED <<running, interval, leaked, lastFiredMinute, looked, runs>>

CronNext == Start \/ Stop \/ Tick \/ Passes

CronSpec == CronInit /\ [][CronNext]_cronVars
-----------------------------------------------------------------------------
CronTypeOK ==
  /\ {running, interval, leaked} \subseteq BOOLEAN
  /\ lastFiredMinute = -1 \/ \E m \in Minutes : lastFiredMinute = CurrentMinute(Calendar[m])
  /\ today \in Minutes /\ looked \subseteq Minutes
  /\ runs \in [Minutes -> Nat]

\* While a runner is not restarted its handler runs once a minute at most, however
\* often the minute is looked at and by however many timers, and only in the minutes of its
\* schedule.  (It may go on after stop(): see RunsAtOnce.)
NeverTwice == \A m \in Minutes : runs[m] <= (IF m \in looked /\ Matches(Calendar[m]) THEN 1 ELSE 0)

\* "The runner checks every 30 seconds whether the current minute matches the schedule,
\* executing the handler when it does."
FiresWhenDue == \A m \in looked : Matches(Calendar[m]) => runs[m] > 0
-----------------------------------------------------------------------------
(* The search for the next time.                                               *)
(*                                                                             *)
(* Instants are whole numbers, a minute each.  Local time is the number of     *)
(* minutes that the fields of a Date spell; hours, days, months and years are  *)
(* short and of equal length, and clocks change when an hour begins.           *)

CONSTANTS SpringForward,  \* the instant at which the clock is put forward by an hour,
          FallBack,       \* and back again
          CronLines,      \* the expressions: records of a field's name and its sequence of parts
          SearchStarts,   \* instants to search from
          MinutesPerHour, HoursPerDay, DaysPerMonth, MonthsPerYear, DaysPerWeek,
          Years        \* that next() looks ahead, 4 in the code

FieldNames == {"minutes", "hours", "daysOfMonth", "months", "daysOfWeek"}

ASSUME CronSearchAssumption ==
  /\ {MinutesPerHour, HoursPerDay, DaysPerMonth, MonthsPerYear, DaysPerWeek} \subseteq Nat \ {0}
  /\ FallBack \in Nat /\ SearchStarts \subseteq Int /\ Years \in Nat
  /\ {SpringForward, FallBack} \subseteq {MinutesPerHour * h : h \in 0..FallBack} /\ SpringForward + MinutesPerHour <= FallBack
  /\ CronLines \subseteq [FieldNames -> Seq([kind : {"all", "range", "single"}, from : Int, to : Int, step : Int])]

VARIABLES expression,  \* history: what was parsed
          fields,      \* the sets of values, <<>> if the expression was refused
          after,       \* the argument of next(), or now
          start,       \* const start, where the search begins
          current,     \* const current
          found        \* what next() answers: "searching", "some" or "none"

searchVars == <<expression, fields, after, start, current, found>>
-----------------------------------------------------------------------------
(* The parser.                                                                 *)

\* FIELD_RANGES
Lowest == [f \in FieldNames |-> IF f \in {"daysOfMonth", "months"} THEN 1 ELSE 0]
Highest == [minutes |-> MinutesPerHour - 1, hours |-> HoursPerDay - 1, daysOfMonth |-> DaysPerMonth,
            months |-> MonthsPerYear, daysOfWeek |-> DaysPerWeek - 1]

\* for (let i = from; i <= to; i += step) values.add(i)
Stepped(from, to, step) == {v \in from..to : (v - from) % step = 0}

\* parsePart() with expandWildcard(), expandRange() and expandSingle(): the values
\* of one part, none if it is refused.  What Number() does not read as a whole number is
\* -1, an empty string is read as 0; a step behind a single value is read and ignored.
PartValues(part, f) ==
  CASE part.step < 1 -> {}
    [] part.step >= 1 /\ part.kind = "all" -> Stepped(Lowest[f], Highest[f], part.step)
    [] part.step >= 1 /\ part.kind = "range" ->
         IF Lowest[f] <= part.from /\ part.to <= Highest[f] /\ part.from <= part.to
         THEN Stepped(part.from, part.to, part.step) ELSE {}
    [] OTHER -> {part.from} \cap (Lowest[f]..Highest[f])

\* parseField() and parseCron(): one part that is refused refuses all.
Parses(e) == \A f \in FieldNames : \A i \in DOMAIN e[f] : PartValues(e[f][i], f) # {}
ParseCron(e) == [f \in FieldNames |-> UNION {PartValues(e[f][i], f) : i \in DOMAIN e[f]}]
-----------------------------------------------------------------------------
(* Dates.                                                                      *)

MinutesPerDay == MinutesPerHour * HoursPerDay
MinutesPerYear == MinutesPerDay * DaysPerMonth * MonthsPerYear

Local(t) == IF SpringForward <= t /\ t < FallBack THEN t + MinutesPerHour ELSE t

\* The instant that a Date is set to by its local fields: the first of two that
\* have them; if there is none, the fields are read with the offset from before.
Instant(l) == IF Local(l - MinutesPerHour) = l THEN l - MinutesPerHour ELSE l

Minute(l) == l % MinutesPerHour
Hour(l) == (l \div MinutesPerHour) % HoursPerDay
DayNumber(l) == l \div MinutesPerDay
DateOf(l) == (DayNumber(l) % DaysPerMonth) + 1
Month(l) == ((DayNumber(l) \div DaysPerMonth) % MonthsPerYear) + 1
WeekDay(l) == DayNumber(l) % DaysPerWeek

\* Local time at which the day began, and at which the next hour and month begin.
Midnight(l) == DayNumber(l) * MinutesPerDay
NextHour(l) == (l \div MinutesPerHour + 1) * MinutesPerHour
NextMonth(l) == (DayNumber(l) \div DaysPerMonth + 1) * DaysPerMonth * MinutesPerDay

MatchesAt(t) ==
  LET l == Local(t)
  IN  /\ Minute(l) \in fields.minutes /\ Hour(l) \in fields.hours
      /\ DateOf(l) \in fields.daysOfMonth /\ Month(l) \in fields.months
      /\ WeekDay(l) \in fields.daysOfWeek
-----------------------------------------------------------------------------
\* parse(), and next() up to its loop: setSeconds() and setMinutes() go through
\* the fields, so that the second of two equal local times becomes the first, which may
\* be before `after`.
SearchInit ==
  /\ expression \in CronLines
  /\ fields = IF Parses(expression) THEN ParseCron(expression) ELSE <<>>
  /\ after \in SearchStarts
  /\ start = Instant(Local(Instant(Local(after))) + 1)
  /\ current = start
  /\ found = IF Parses(expression) THEN "searching" ELSE "none"

MaxDate == Instant(Local(start) + Years * MinutesPerYear)

MoveTo(l) == current' = Instant(l) /\ UNCHANGED <<expression, fields, after, start, found>>

\* setDate() or setMonth(), and then setHours(0, 0, 0, 0) on the day to which that has led: not
\* the day asked for if the clock leaves out the time of day there, in its last hour.
MoveToDay(l) == MoveTo(Midnight(Local(Instant(l))))

\* The rounds of the loop.
Searching == found = "searching" /\ current < MaxDate

SkipMonth ==
  /\ Searching
  /\ Month(Local(current)) \notin fields.months
  /\ MoveToDay(NextMonth(Local(current)) + (Local(current) % MinutesPerDay))

SkipDay ==
  LET l == Local(current)
  IN  /\ Searching
      /\ Month(l) \in fields.months
      /\ DateOf(l) \notin fields.daysOfMonth \/ WeekDay(l) \notin fields.daysOfWeek
      /\ MoveToDay(l + MinutesPerDay)

DayMatches(l) ==
  /\ Month(l) \in fields.months /\ DateOf(l) \in fields.daysOfMonth /\ WeekDay(l) \in fields.daysOfWeek

\* Mutant of SkipHour: the minutes are kept.
SkipHourKeepsMinutes ==
  /\ Searching
  /\ DayMatches(Local(current)) /\ Hour(Local(current)) \notin fields.hours
  /\ MoveTo(Local(current) + MinutesPerHour)

SkipHour ==
  /\ Searching
  /\ DayMatches(Local(current)) /\ Hour(Local(current)) \notin fields.hours
  /\ MoveTo(NextHour(Local(current)))

SkipMinute ==
  LET l == Local(current)
  IN  /\ Searching
      /\ DayMatches(l) /\ Hour(l) \in fields.hours /\ Minute(l) \notin fields.minutes
      /\ MoveTo(l + 1)

Answer ==
  /\ found = "searching"
  /\ found' = IF current < MaxDate THEN "some" ELSE "none"
  /\ current < MaxDate => MatchesAt(current)
  /\ UNCHANGED <<expression, fields, after, start, current>>

SearchNext == SkipMonth \/ SkipDay \/ SkipHour \/ SkipMinute \/ Answer

SearchSpec == SearchInit /\ [][SearchNext]_searchVars
-----------------------------------------------------------------------------
\* Local times that come twice are looked at once.
FirstTime(t) == t = Instant(Local(t))

\* The day whose last hour the clock leaves out, if there is such a day.
LostDay(t) ==
  /\ DayNumber(Local(t)) = DayNumber(SpringForward)
  /\ DayNumber(SpringForward + MinutesPerHour) # DayNumber(SpringForward)

\* What lies between `after` and what has been reached does not match, so that next() answers
\* the first matching minute after the one it is given, and None only if there is none in the years it
\* looks at.  What it does not see is the hour that comes twice, the second time, and perhaps
\* the whole of a day that ends with the hour left out; and what it answers comes after `after`
\* unless that is in such a second hour itself.
NextIsFirst ==
  /\ \A t \in (after + 1)..(current - 1) :
       t < MaxDate /\ FirstTime(t) /\ ~LostDay(t) => fields # <<>> /\ ~MatchesAt(t)
  /\ found = "some" => MatchesAt(current) /\ FirstTime(current) /\ current < MaxDate
  /\ found = "some" /\ FirstTime(after) => after < current
  /\ found = "none" /\ fields # <<>> => current >= MaxDate

\* "Compute the next occurrence after the given date." (cron.ts:287)  From the second of two
\* equal hours, next() may answer a time of the first: no run and no theorem has this.
NextIsAfter == found = "some" => after < current
=============================================================================
