------------------------------- MODULE UtilsTime -------------------------------
(***************************************************************************)
(* The product's clock and calendar (core/infrastructure/utils/            *)
(* utils_time.c): the cloud sets the UTC time, later reads add the time    *)
(* that has passed by the system's millisecond counter, and a stamp is     *)
(* turned into a date by arithmetic.                                       *)
(*                                                                         *)
(* The counter has one word of Word values.  On posix it is the monotonic  *)
(* clock cut to a word; on cmsis2 the product of ticks and milliseconds    *)
(* is cut to a word before it is divided by the tick frequency             *)
(* (adapter/os/cmsis2/iotc_os.c).  `now` is the true time since power-on   *)
(* and Epoch the true UTC time of power-on.  A behaviour exercises either  *)
(* the clock (tm) or the calendar (cal), which walks day by day next to a  *)
(* calendar that only knows the lengths of the months.                     *)
(***************************************************************************)
EXTENDS Integers

CONSTANTS Builds,     \* of "posix" and "cmsis2", the adapters of the system
          Word,       \* values of a uint32_t
          MsPerSec,   \* MS_PER_SECOND
          TickFreq,   \* osKernelGetTickFreq() on cmsis2
          MaxNow,     \* how long the clock runs
          Epoch,      \* the true UTC time at power-on, in the clock's unit
          Zones,      \* time zones: [hour, min], each an int8_t
          Hour, Minute, \* in the clock's unit
          Years,      \* years the calendar is walked through
          Seconds     \* seconds of a day that are converted

VARIABLES tm, cal

timeVars == <<tm, cal>>

-----------------------------------------------------------------------------
(* The counter.                                                            *)

IotcGetSysTimeMs(now) ==
  IF tm.build = "posix" THEN now % Word
  ELSE ((((now * TickFreq) \div MsPerSec) * MsPerSec) % Word) \div TickFreq

UtilsDeltaTime(timeNew, timeOld) ==
  IF timeNew >= timeOld THEN timeNew - timeOld ELSE (Word - 1 - timeOld) + timeNew + 1

-----------------------------------------------------------------------------
(* The clock.  `at` and `zoneAt` are the true time and the zone of the last *)
(* setting, and `given` a zone as it was given.                            *)

NoZone == [hour |-> 0, min |-> 0, isEast |-> FALSE, isInit |-> FALSE,
           given |-> [hour |-> 0, min |-> 0]]
DefaultZone == [hour |-> 8, min |-> 0, isEast |-> TRUE, isInit |-> TRUE,
                given |-> [hour |-> 8, min |-> 0]]
Clean == [isInit |-> FALSE, isTimeSet |-> FALSE, lastUtcTime |-> 0, lastLocalTime |-> 0,
          lastSystemTime |-> 0, timeZone |-> NoZone, at |-> 0, zoneAt |-> NoZone.given]
Off == [now |-> 0, on |-> FALSE, build |-> "posix", ctx |-> Clean]

UtilsTimeInit ==
  /\ tm.on /\ ~tm.ctx.isInit
  /\ tm' = [tm EXCEPT !.ctx = [Clean EXCEPT !.isInit = TRUE]]

UtilsTimeDeinit == tm.ctx.isInit /\ tm' = [tm EXCEPT !.ctx = Clean]

Offset(z) == (z.hour * Hour + z.min * Minute) * (IF z.isEast THEN 1 ELSE -1)
CalcLocalTimeFromUtcTime(c) == [c EXCEPT !.lastLocalTime = c.lastUtcTime + Offset(c.timeZone)]

(* The cloud gives the true time, with the heartbeat and with the token.   *)
UtilsSetUtcTimeStamp ==
  /\ tm.ctx.isInit
  /\ LET zone == IF tm.ctx.timeZone.isInit THEN tm.ctx.timeZone ELSE DefaultZone
         set  == [tm.ctx EXCEPT !.timeZone = zone, !.lastUtcTime = Epoch + tm.now,
                                !.lastSystemTime = IotcGetSysTimeMs(tm.now),
                                !.isTimeSet = TRUE, !.at = tm.now, !.zoneAt = zone.given]
     IN  tm' = [tm EXCEPT !.ctx = CalcLocalTimeFromUtcTime(set)]

(* The minutes are cut to a uint8_t, and the hour alone gives the sign.    *)
(* The local time is not computed again until the clock is next set.       *)
UtilsSetTimezone ==
  /\ tm.ctx.isInit
  /\ \E z \in Zones :
       tm' = [tm EXCEPT !.ctx.timeZone =
                [hour |-> IF z.hour < 0 THEN -z.hour ELSE z.hour, min |-> z.min % 256,
                 isEast |-> z.hour > 0, isInit |-> TRUE, given |-> z]]

Passes == tm.on /\ tm.now < MaxNow /\ tm' = [tm EXCEPT !.now = @ + 1]

GetDeltaTime(c) == UtilsDeltaTime(IotcGetSysTimeMs(tm.now), c.lastSystemTime)
UtilsGetUtcTimeStamp == tm.ctx.lastUtcTime + GetDeltaTime(tm.ctx)
LocalTimeStamp == tm.ctx.lastLocalTime + GetDeltaTime(tm.ctx)

-----------------------------------------------------------------------------
(* The calendar.                                                           *)

(* Weekday of a date, 0 for Monday.                                        *)
GetWeekDayFromDate(year, month, day) ==
  LET early == month \in {1, 2}
      m == IF early THEN month + 12 ELSE month
      y == IF early THEN year - 1 ELSE year
  IN  (day + 2 * m + (3 * (m + 1)) \div 5 + y + y \div 4 - y \div 100 + y \div 400) % 7

(* Faulty: January and February stay in the year before. *)
DateNoCarry(t) ==
  LET a == (4 * t + 102032) \div 146097 + 15
      b == t + 2442113 + a - a \div 4
      c == (20 * b - 2442) \div 7305
      d == b - 365 * c - c \div 4
      e == (d * 1000) \div 30601
      f == d - e * 30 - (e * 601) \div 1000
  IN  [year |-> c - 4716, month |-> IF e <= 13 THEN e - 1 ELSE e - 13, day |-> f]

(* Date of a number of days since 1970-01-01.  Within the years of the     *)
(* model no value leaves its uint32_t, so neither early return is taken.   *)
GetDate(t) ==
  LET a == (4 * t + 102032) \div 146097 + 15
      b == t + 2442113 + a - a \div 4
      c == (20 * b - 2442) \div 7305
      d == b - 365 * c - c \div 4
      e == (d * 1000) \div 30601
      f == d - e * 30 - (e * 601) \div 1000
  IN  IF e <= 13 THEN [year |-> c - 4716, month |-> e - 1, day |-> f]
      ELSE [year |-> c - 4715, month |-> e - 13, day |-> f]

NoInfo == [year |-> 0, month |-> 0, day |-> 0, hour |-> 0, min |-> 0, sec |-> 0, week |-> 0]

(* The stamp is day * 86400 + s seconds; stamp 0 is refused.               *)
ConvertTime(day, s) ==
  IF day = 0 /\ s = 0 THEN NoInfo
  ELSE LET date == GetDate(day)
       IN  [year |-> date.year, month |-> date.month, day |-> date.day,
            sec |-> s % 60, min |-> (s \div 60) % 60, hour |-> ((s \div 60) \div 60) % 24,
            week |-> 2^GetWeekDayFromDate(date.year, date.month, date.day)]

(* The calendar it is compared with: leap years, lengths of months, and    *)
(* the first of January 1970 was a Thursday.                               *)
Leap(y) == y % 4 = 0 /\ (y % 100 # 0 \/ y % 400 = 0)
MonthLen(y, m) == IF m = 2 THEN (IF Leap(y) THEN 29 ELSE 28)
                  ELSE IF m \in {4, 6, 9, 11} THEN 30 ELSE 31
DaysBefore(y) == 365 * (y - 1970) + ((y - 1) \div 4 - 1969 \div 4)
                 - ((y - 1) \div 100 - 1969 \div 100) + ((y - 1) \div 400 - 1969 \div 400)
NoDay == [n |-> -1, year |-> 0, month |-> 0, day |-> 0, week |-> 0]
NewYear(y) == [n |-> DaysBefore(y), year |-> y, month |-> 1, day |-> 1,
               week |-> (3 + DaysBefore(y)) % 7]

NextDay ==
  /\ cal.n >= 0 /\ ~(cal.month = 12 /\ cal.day = 31)
  /\ LET turn == cal.day = MonthLen(cal.year, cal.month)
     IN  cal' = [cal EXCEPT !.n = @ + 1, !.week = (@ + 1) % 7,
                            !.day = IF turn THEN 1 ELSE @ + 1,
                            !.month = IF turn THEN @ + 1 ELSE @]

-----------------------------------------------------------------------------
TmInit ==
  \/ cal = NoDay /\ \E b \in Builds : tm = [Off EXCEPT !.on = TRUE, !.build = b]
  \/ tm = Off /\ \E y \in Years : cal = NewYear(y)

ClockStep == UtilsTimeInit \/ UtilsTimeDeinit \/ UtilsSetUtcTimeStamp \/ UtilsSetTimezone \/ Passes

TmNext == (ClockStep /\ UNCHANGED cal) \/ (NextDay /\ UNCHANGED tm)

TmSpec == TmInit /\ [][TmNext]_timeVars

-----------------------------------------------------------------------------
(* The cmsis2 counter turns when the product does, at a TickFreq-th of the *)
(* word; UtilsDeltaTime takes every turn for one of the whole word.        *)
Turned == tm.build = "cmsis2"
          /\ tm.now \div (Word \div TickFreq) # tm.ctx.at \div (Word \div TickFreq)

(* What a zone means: so many hours and minutes east, or west when the     *)
(* hours are negative.  Minutes without hours, and minutes that carry a    *)
(* sign themselves, cannot be told to UtilsSetTimezone.                    *)
Meant(z) == IF z.hour >= 0 THEN z.hour * Hour + z.min * Minute ELSE z.hour * Hour - z.min * Minute
Told(z) == z.min >= 0 /\ (z.hour = 0 => z.min = 0)

(* A clock that is set shows the true UTC time, across the turns of the    *)
(* counter, for one word of it after the last setting (about 49.7 days);   *)
(* after that it is behind by whole words, never ahead.  On cmsis2 this    *)
(* lasts only until the counter next turns, which is sooner.  The local    *)
(* time is that time in the zone that was given before the last setting,   *)
(* unless it has minutes and no hours, or minutes with a sign.  For every  *)
(* day of the years walked through, the date and weekday computed from the *)
(* stamp are those of the calendar, and hours, minutes and seconds add up. *)
TimeSound ==
  /\ tm.ctx.isTimeSet /\ ~Turned =>
       LET late == ((tm.now - tm.ctx.at) \div Word) * Word
       IN  /\ UtilsGetUtcTimeStamp = Epoch + tm.now - late
           /\ Told(tm.ctx.zoneAt) => LocalTimeStamp = UtilsGetUtcTimeStamp + Meant(tm.ctx.zoneAt)
  /\ cal.n >= 0 =>
       \A s \in Seconds :
         LET i == ConvertTime(cal.n, s)
         IN  (cal.n # 0 \/ s # 0) =>
               /\ i.year = cal.year /\ i.month = cal.month /\ i.day = cal.day
               /\ i.week = 2^cal.week
               /\ i.hour * 3600 + i.min * 60 + i.sec = s

==============================================================================
