---------------------------- MODULE TargetClock ----------------------------
(***************************************************************************)
(* The target's clock: the thunks of cc64_time_fields and cc64_date_fields *)
(* that the encoder emits, and read_moment, clock_gettime and nanosleep of *)
(* src/runtime/target_term.c, which read it. Time passes between any two   *)
(* services. The console is one character that is waiting or is not.       *)
(***************************************************************************)
EXTENDS Integers

CONSTANTS
  Starts,   \* the dates the clock may begin at
  Instants, \* the seconds of a day at which the clock is looked at
  Days,     \* how many days the clock goes on for
  Naps      \* the seconds asked of nanosleep

VARIABLES
  date,   \* the clock's date
  second, \* the clock's second of the day
  days,   \* how many days have gone by
  key,    \* whether a character waits on the console
  call,   \* the call that runs, and what it has read
  moment  \* what the last clock_gettime answered

clockVars == <<date, second, days, key, call, moment>>

Idle == [name |-> "none"]
Failed == -1

-----------------------------------------------------------------------------
(* The calendar of the clock *)

\* leap_year knows the four years only.
LeapEveryFour(year) == year % 4 = 0

\* leap_year
Leap(year) == (year % 4 = 0 /\ year % 100 # 0) \/ year % 400 = 0

\* month_offsets
MonthOffset(month) ==
  CASE month = 1 -> 0 [] month = 2 -> 31 [] month = 3 -> 59 [] month = 4 -> 90
    [] month = 5 -> 120 [] month = 6 -> 151 [] month = 7 -> 181 [] month = 8 -> 212
    [] month = 9 -> 243 [] month = 10 -> 273 [] month = 11 -> 304 [] month = 12 -> 334

\* The days of a month, as every calendar has them.
MonthDays(d) ==
  IF d.month = 2
  THEN IF (d.year % 4 = 0 /\ d.year % 100 # 0) \/ d.year % 400 = 0 THEN 29 ELSE 28
  ELSE IF d.month \in {4, 6, 9, 11} THEN 30 ELSE 31

NextDate(d) ==
  IF d.day < MonthDays(d) THEN [d EXCEPT !.day = @ + 1]
  ELSE IF d.month < 12 THEN [d EXCEPT !.month = @ + 1, !.day = 1]
  ELSE [year |-> d.year + 1, month |-> 1, day |-> 1]

\* The clock moves on.
Tick ==
  /\ \/ /\ second' \in {s \in Instants : s > second}
        /\ UNCHANGED <<date, days>>
     \/ /\ days < Days
        /\ days' = days + 1
        /\ date' = NextDate(date)
        /\ second' = 0
  /\ UNCHANGED <<key, call, moment>>

\* The clock begins on a date there is, and the year goes on fitting the sixteen
\* bits it has.
ASSUME ClockAssumption ==
  /\ Starts \subseteq [year : Nat, month : 1..12, day : 1..31]
  /\ \A d \in Starts : d.year \in 1980..2200 /\ d.day <= MonthDays(d)
  /\ Instants \subseteq Nat /\ 0 \in Instants
  /\ \A s \in Instants : s < 86400
  /\ Days \in Nat /\ 2200 + Days < 65536
  /\ Naps \subseteq Nat

-----------------------------------------------------------------------------
(* The services and their thunks *)

Hour(s) == s \div 3600
Minute(s) == (s \div 60) % 60
Second(s) == s % 60

\* Three fields at byte 2, byte 1 and byte 0.
Packed(high, middle, low) == high * 65536 + middle * 256 + low

\* AH=2Ch leaves the hour and the minute in one register and the second in
\* another; the thunk lifts the one and shifts the other down by sixteen bits.
TimeFields ==
  LET rcx == Hour(second) * 256 + Minute(second)
      rdx == Second(second)
  IN  rcx * 256 + rdx \div 65536

\* AH=2Ah leaves the year, and the month and the day.
DateFields ==
  LET rcx == date.year
      rdx == date.month * 256 + date.day
  IN  rcx * 65536 + rdx \div 65536

-----------------------------------------------------------------------------
(* read_moment *)

Field(fields, place) == (fields \div place) % 256

Fields(dateFields, timeFields) ==
  [year |-> (dateFields \div 65536) % 65536,
   month |-> Field(dateFields, 256), day |-> Field(dateFields, 1),
   hour |-> Field(timeFields, 65536), minute |-> Field(timeFields, 256),
   second |-> Field(timeFields, 1)]

\* A clock never set reads all zeroes, and no calendar has that moment.
Believed(f) ==
  /\ f.year \in 1980..2200 /\ f.month \in 1..12 /\ f.day \in 1..31
  /\ f.hour <= 23 /\ f.minute <= 59 /\ f.second <= 60

DayOfYear(f) ==
  MonthOffset(f.month) + f.day - 1 + (IF f.month > 2 /\ Leap(f.year) THEN 1 ELSE 0)

\* The days from the first of 1980, the years before the date's counted one by
\* one.
DaysBefore(year) ==
  LET before[y \in 1980..year] ==
        IF y = 1980 THEN 0 ELSE before[y - 1] + (IF Leap(y - 1) THEN 366 ELSE 365)
  IN  before[year]

SinceEpoch(f) == DaysBefore(f.year) + DayOfYear(f)

\* 1980-01-01 was a Tuesday, the second day from Sunday.
Weekday(f) == (SinceEpoch(f) + 2) % 7

\* moment.seconds, kept as days of 86400 seconds and the seconds of the last one.
Seconds(f) ==
  [days |-> SinceEpoch(f), seconds |-> f.hour * 3600 + f.minute * 60 + f.second]

-----------------------------------------------------------------------------
(* clock_gettime, and gettimeofday, time and clock, which call it *)

\* The date is read first.
GetTime ==
  /\ call = Idle
  /\ call' = [name |-> "gettime", date |-> DateFields]
  /\ UNCHANGED <<date, second, days, key, moment>>

GetTimeRest ==
  LET f == Fields(call.date, TimeFields) IN
  /\ call.name = "gettime"
  /\ moment' = IF Believed(f) THEN Seconds(f) ELSE Failed
  /\ call' = Idle
  /\ UNCHANGED <<date, second, days, key>>

-----------------------------------------------------------------------------
(* nanosleep, and sleep and usleep, which call it *)

\* The seconds are compared, and the nanoseconds left out.
Nap ==
  /\ call = Idle
  /\ \E want \in Naps :
       call' = [name |-> "nap", step |-> "key", want |-> want, started |-> TimeFields,
                since |-> days * 86400 + second]
  /\ UNCHANGED <<date, second, days, key, moment>>

NapKey ==
  /\ call.name = "nap" /\ call.step = "key"
  /\ call' = IF key THEN Idle ELSE [call EXCEPT !.step = "time"]
  /\ UNCHANGED <<date, second, days, key, moment>>

\* How far the clock has moved: the difference of two packed values.
Spent ==
  LET difference == TimeFields - call.started
  IN  IF difference < 0 THEN difference + 86400 ELSE difference

NapTime ==
  /\ call.name = "nap" /\ call.step = "time"
  /\ call' = IF Spent >= call.want THEN Idle ELSE [call EXCEPT !.step = "key"]
  /\ UNCHANGED <<date, second, days, key, moment>>

\* A character is typed, and read again between two calls.
Key ==
  /\ ~key
  /\ key' = TRUE
  /\ UNCHANGED <<date, second, days, call, moment>>

ReadKey ==
  /\ call = Idle /\ key
  /\ key' = FALSE
  /\ UNCHANGED <<date, second, days, call, moment>>

ClockInit ==
  /\ date \in Starts
  /\ second \in Instants
  /\ days = 0 /\ key = FALSE
  /\ call = Idle
  /\ moment = Failed

Program == GetTime \/ GetTimeRest \/ Nap \/ NapKey \/ NapTime \/ ReadKey

ClockNext == Tick \/ Key \/ Program

ClockSpec == ClockInit /\ [][ClockNext]_clockVars

-----------------------------------------------------------------------------
Now == Fields(Packed(date.year, date.month, date.day),
              Packed(Hour(second), Minute(second), Second(second)))

\* The day number of a date by the usual formula, with the year begun in March.
CivilDay(d) ==
  LET year == IF d.month > 2 THEN d.year ELSE d.year - 1
      month == IF d.month > 2 THEN d.month - 3 ELSE d.month + 9
  IN  365 * year + year \div 4 - year \div 100 + year \div 400
        + (153 * month + 2) \div 5 + d.day

\* read_moment's seconds and weekday, from the fields as its callers expect them, are
\* those of the calendar, across leap days and the century years.
MomentRight ==
  /\ Seconds(Now) =
       [days |-> CivilDay(date) - CivilDay([year |-> 1980, month |-> 1, day |-> 1]),
        seconds |-> second]
  /\ Weekday(Now) = (CivilDay(date) + 2) % 7

\* "The value returned is the three fields at byte 2, byte 1 and byte 0"
\* (src/backend/encoder.c): what the two thunks return holds the clock's fields.
FieldsOfClock ==
  /\ TimeFields = Packed(Hour(second), Minute(second), Second(second))
  /\ DateFields = Packed(date.year, date.month, date.day)

Dates == [year : Nat, month : 1..12, day : 1..31]

RealDate(d) == d \in Dates /\ d.day <= MonthDays(d)

\* The inductive invariant of MomentRight: the date is one there is.
ClockInv ==
  /\ RealDate(date) /\ date.year \in 1980..(2200 + days)
  /\ second \in Nat /\ second <= 86399 /\ days \in 0..Days

Asleep == days * 86400 + second - call.since

\* "A request is reduced to a number of seconds within the day and compared
\* against how far the clock has moved since the wait began"
\* (src/runtime/target_term.c:315): no sleep ends by itself before its seconds.
NapLongEnough ==
  [][call.name = "nap" /\ call.step = "time" /\ call' = Idle => Asleep >= call.want]_clockVars

\* The same comment: no sleep goes on once its seconds are over.
NapEnds ==
  [][call.name = "nap" /\ call.step = "time" /\ call' # Idle
       => call' = call \/ Asleep < call.want]_clockVars
=============================================================================
