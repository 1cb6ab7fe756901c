------------------------------- MODULE Calendar ------------------------------
(***************************************************************************)
(* dsdgen: its own calendar (tools/date.c), from which date_dim gets its   *)
(* rows and a refresh set the days it deletes and inserts.  Dates are      *)
(* converted from and to day numbers by formula; the day of the week comes *)
(* from what is kept of the last year that was asked for; and a day of the *)
(* year is looked up in the distribution "calendar", which has an entry    *)
(* for February 29.                                                        *)
(*                                                                         *)
(* Beside the table walks the calendar itself, a day at a time, for the    *)
(* properties to compare with.                                             *)
(***************************************************************************)
EXTENDS Integers, Sequences

CONSTANTS
  LastRow,   \* the rows of date_dim: up to 2100-01-01
  Years      \* YEAR_MINIMUM .. YEAR_MAXIMUM

ASSUME CalendarAssumption ==
  LastRow \in Nat \ {0} /\ LastRow <= 73049 /\ Years \subseteq 1901 .. 2099

VARIABLES
  walk,     \* what the process is building, date_dim or a refresh set
  crow,     \* mk_w_date(): the row that was built last
  today,    \* history: the day of that row, by the calendar
  kept,     \* set_dow(): last_year, known[] and dday
  current,  \* d_current_month, _quarter and _week, which stay from row to row
  zone,     \* setUpdateDates(): the zone of the calendar dealt with last
  pair,     \* arUpdateDates[], the two of that zone
  stock     \* arInventoryUpdateDates[], the two of that zone

calendarVars == <<walk, crow, today, kept, current, zone, pair, stock>>

-----------------------------------------------------------------------------
Date(year, month, day) == [year |-> year, month |-> month, day |-> day]

\* is_leap() takes every hundredth year for a leap year.
IsLeap(year) ==
  IF year % 100 = 0 THEN (year % 400) % 2 = 0 ELSE year % 4 = 0

\* m_days[]: the days before a month.
CommonDays == <<0, 31, 59, 90, 120, 151, 181, 212, 243, 273, 304, 334>>

DaysBefore(leap, month) == CommonDays[month] + (IF leap /\ month > 2 THEN 1 ELSE 0)

\* dttoj(), a month of the spring counted as one of the year before.
DToJ(d) ==
  LET m == IF d.month <= 2 THEN d.month + 12 ELSE d.month
      y == IF d.month <= 2 THEN d.year - 1 ELSE d.year
  IN  d.day + (153 * m - 457) \div 5 + 365 * y + y \div 4 - y \div 100 + y \div 400 + 1721119

\* jtodt(): centuries, years of a century, months of a year from March.
DateInYear(year, r) ==
  LET j == (80 * r) \div 2447
  IN  Date(year + j \div 11, j + 2 - 12 * (j \div 11), r - (2447 * j) \div 80)

DateInCentury(n, c) ==
  LET i == (4000 * (c + 1)) \div 1461001
  IN  DateInYear(100 * (n - 49) + i, c - (1461 * i) \div 4 + 31)

JToD(julian) ==
  LET l == julian + 68569
      n == (4 * l) \div 146097
  IN  DateInCentury(n, l - (146097 * n + 3) \div 4)

Doomsday == <<3, 2, 0, 5>>

KnownDates(january, february) == <<january, february, 0, 4, 9, 6, 11, 8, 5, 10, 7, 12>>

\* The end of the doomsday rule, which takes the century's day by itself.
DoomsdayOf(year) ==
  LET q == year % 100
  IN  (Doomsday[((year \div 100 - 15) % 4) + 1] + q \div 12 + (q % 12) + (q % 12) \div 4) % 7

(* Wrong variant of Kept: back to common years the dates are not adjusted. *)
KeptLeap(k, year) ==
  IF year = k.year THEN k
  ELSE [year |-> year, dday |-> DoomsdayOf(year),
        known |-> IF IsLeap(year) THEN KnownDates(4, 1) ELSE k.known]

(* set_dow(), what it does for another year than the last.                 *)
Kept(k, year) ==
  IF year = k.year THEN k
  ELSE [year |-> year, dday |-> DoomsdayOf(year),
        known |-> IF IsLeap(year) THEN KnownDates(4, 1) ELSE KnownDates(3, 0)]

(* The day of the week, from 0 for Sunday.                                 *)
SetDow(k, d) == (((d.day - k.known[d.month]) % 7) + k.dday) % 7

(* day_number(), an index of "calendar".                                   *)
DayNumber(d) == DaysBefore(IsLeap(d.year), d.month) + d.day

(* month_num and date of each index.                                       *)
Entry ==
  [n \in 1 .. 366 |->
     LET month == CHOOSE m \in 1 .. 12 :
                    DaysBefore(TRUE, m) < n /\ \A l \in m + 1 .. 12 : n <= DaysBefore(TRUE, l)
     IN  [month |-> month, day |-> n - DaysBefore(TRUE, month)]]

-----------------------------------------------------------------------------
(* date_dim                                                                *)

Base == DToJ(Date(1900, 1, 1))

WeekSeq(row) == (row + 6) \div 7

\* The calendar: only every fourth hundredth year has a February 29.
TrueLeap(year) == year % 4 = 0 /\ (year % 100 # 0 \/ year % 400 = 0)

MonthLength(year, month) ==
  IF month = 2 THEN IF TrueLeap(year) THEN 29 ELSE 28
  ELSE IF month \in {4, 6, 9, 11} THEN 30 ELSE 31

Tomorrow(t) ==
  LET dow == (t.dow + 1) % 7
  IN  IF t.day < MonthLength(t.year, t.month)
      THEN [year |-> t.year, month |-> t.month, day |-> t.day + 1, dow |-> dow]
      ELSE [year |-> IF t.month = 12 THEN t.year + 1 ELSE t.year,
            month |-> (t.month % 12) + 1, day |-> 1, dow |-> dow]

\* What set_dow() starts with.
NoneKept == [year |-> -1, dday |-> 0, known |-> KnownDates(3, 0)]

NoFlags == [month |-> FALSE, quarter |-> FALSE, week |-> FALSE]

CalendarInit ==
  /\ walk \in {"date_dim", "update"}
  /\ crow = 0 /\ today = [year |-> 1900, month |-> 1, day |-> 1, dow |-> 1]
  /\ kept = NoneKept /\ current = NoFlags
  /\ zone = "none" /\ pair = <<0, 0>> /\ stock = <<0, 0>>

\* The flags of a row: CURRENT_WEEK is a week of the year, d_week_seq is not,
\* and CURRENT_DAY is the day of a month, which no d_date_sk is.
Flags(row, d) ==
  IF d.year = 2003
  THEN [month |-> d.month = 1, quarter |-> Entry[DayNumber(d)].month <= 3, week |-> WeekSeq(row) = 2]
  ELSE current

(* mk_w_date()                                                             *)
MakeDate ==
  /\ walk = "date_dim" /\ crow < LastRow
  /\ crow' = crow + 1 /\ today' = Tomorrow(today)
  /\ kept' = Kept(kept, JToD(crow' + Base).year)
  /\ current' = Flags(crow', JToD(crow' + Base))
  /\ UNCHANGED <<walk, zone, pair, stock>>

(* date_t_op()                                                             *)
FirstOfMonth(julian) == julian - JToD(julian).day + 1

SameLastYear(julian) ==
  LET d == JToD(julian)
  IN  IF IsLeap(d.year) /\ d.month = 2 /\ d.day = 29
      THEN DToJ(Date(d.year - 1, 2, 28))
      ELSE DToJ(Date(d.year - 1, d.month, d.day))

\* What m_days[] has for a month are the days before it.
LastOfMonth(julian) ==
  LET d == JToD(julian) IN julian - d.day + DaysBefore(IsLeap(d.year), d.month)

\* qtr_start[], by strtodt().
QuarterStart(year, quarter) == DToJ(Date(year, 3 * quarter - 2, 1))

(* As many days after the start of the quarter before.                     *)
SameLastQuarter(julian) ==
  LET d == JToD(julian)
      quarter == (d.month + 2) \div 3
  IN  julian - QuarterStart(d.year, quarter)
        + (IF quarter = 1 THEN QuarterStart(d.year - 1, 4) ELSE QuarterStart(d.year, quarter - 1))

(* The row: d_date_sk, d_year with d_moy and d_dom, d_dow and the others.  *)
DateRowOf(k) ==
  LET julian == crow + Base
      d == JToD(julian)
  IN  [sk |-> julian, date |-> d, dow |-> SetDow(k, d), week |-> WeekSeq(crow),
       entry |-> Entry[DayNumber(d)], first |-> FirstOfMonth(julian),
       before |-> Entry[IF DayNumber(d) = 1 THEN 365 + (IF IsLeap(d.year - 1) THEN 1 ELSE 0)
                        ELSE DayNumber(d) - 1],
       last |-> LastOfMonth(julian), last_year |-> SameLastYear(julian),
       last_quarter |-> SameLastQuarter(julian)]

DateRow == DateRowOf(kept)

(* vld_w_date(): the row by itself, after a row for which k was kept; the  *)
(* flags are cleared before.                                               *)
vld_w_date(k) ==
  LET d == JToD(crow + Base)
  IN  [row |-> DateRowOf(Kept(k, d.year)),
       current |-> IF d.year = 2003 THEN Flags(crow, d) ELSE NoFlags]

-----------------------------------------------------------------------------
(* The dates of a refresh set                                              *)

Zones == {"low", "medium", "high"}

Months(z) == CASE z = "low" -> 1 .. 7 [] z = "medium" -> 8 .. 10 [] z = "high" -> 11 .. 12

(* The entries of "calendar" that have a weight in a zone.                 *)
Entries ==
  [z \in Zones |-> {n \in 1 .. 366 : n # 60 /\ Entry[n].month \in Months(z)}]

(* dist_weight(); beyond the last entry it reads what is there.            *)
Weighs(z, n) == IF n > 366 THEN BOOLEAN ELSE {n \in Entries[z]}

(* getSkewedJulianDate()                                                   *)
SkewedDates(z) ==
  {DToJ(Date(y, Entry[n].month, Entry[n].day)) : y \in Years, n \in Entries[z]}

(* The other day of a pair, on the side that is in the zone.               *)
NextDay(z, first) ==
  {IF w THEN first + 1 ELSE first - 1 : w \in Weighs(z, DayNumber(JToD(first)) + 1)}

InEntries(z, julian) == DayNumber(JToD(julian)) \in Entries[z]

(* The Thursday of the week, or of one beside it.                          *)
Thursday(z, k, first) ==
  LET t == first + (4 - SetDow(k, JToD(first)))
  IN  IF InEntries(z, t) THEN t ELSE IF InEntries(z, t - 7) THEN t - 7 ELSE t + 7

(* And the one after or before it; the low zone looks a day further.       *)
OtherThursday(z, t) ==
  LET n == DayNumber(JToD(t + 7)) + (IF z = "low" THEN 1 ELSE 0)
  IN  IF n \in Entries[z] THEN t + 7 ELSE t - 7

ZoneAfter(z) == CASE z = "low" -> "medium" [] z = "medium" -> "high" [] OTHER -> "low"

(* setUpdateDates(), a zone at a time, as often as the number of the set.  *)
PickDates ==
  /\ walk = "update" /\ zone' = ZoneAfter(zone)
  /\ \E first \in SkewedDates(zone') :
       /\ \E second \in NextDay(zone', first) : pair' = <<first, second>>
       /\ kept' = Kept(kept, JToD(first).year)
       /\ LET t == Thursday(zone', kept', first) IN stock' = <<t, OtherThursday(zone', t)>>
  /\ UNCHANGED <<walk, crow, today, current>>

CalendarNext == MakeDate \/ PickDates

CalendarSpec == CalendarInit /\ [][CalendarNext]_calendarVars

-----------------------------------------------------------------------------
(* Every row of date_dim is the day it should be: its date, and the number *)
(* of it; the first of its month and the same day a year ago; its day of   *)
(* the week, and a week of seven rows that begins on a Tuesday, the second *)
(* of January 1900 being one; the same day of the quarter before, or where *)
(* that is shorter a day of this one; the entry of "calendar" that tells   *)
(* holidays and quarters, and for the day after a holiday that of the row  *)
(* before; and the current month and quarter are flagged, no week or day.  *)
(* But is_leap() takes 1900 and 2100 for leap years, so that days of the   *)
(* week are wrong there before March, and day_number() skips no leap day   *)
(* (see SkipsLeapDay): from March on, a common year has the entry of the   *)
(* day before, so that April 1 is still in the current quarter.            *)
CalendarTrue ==
  crow > 0 =>
    LET r == DateRow
        century == today.year \in {1900, 2100}
        quarter == (today.month + 2) \div 3
        first == 3 * quarter - 2
        dayOfQuarter == today.day
          + (IF today.month > first THEN MonthLength(today.year, first) ELSE 0)
          + (IF today.month = first + 2 THEN MonthLength(today.year, first + 1) ELSE 0)
    IN  /\ r.date = Date(today.year, today.month, today.day)
        /\ DToJ(r.date) = r.sk
        /\ JToD(r.first) = Date(today.year, today.month, 1)
        /\ JToD(r.last_year) = IF today.month = 2 /\ today.day = 29
                               THEN Date(today.year - 1, 2, 28)
                               ELSE Date(today.year - 1, today.month, today.day)
        /\ r.dow = today.dow \/ (century /\ today.month <= 2)
        /\ today.dow = (crow - 7 * (r.week - 1) + 1) % 7
        /\ r.entry = (IF today.month <= 2 \/ TrueLeap(today.year) \/ century
                      THEN [month |-> today.month, day |-> today.day]
                      ELSE LET e == JToD(r.sk - 1)
                           IN  IF today.month = 3 /\ today.day = 1 THEN [month |-> 2, day |-> 29]
                               ELSE [month |-> e.month, day |-> e.day])
        /\ crow > 1 /\ ~(century /\ today.month = 3 /\ today.day = 1) =>
             r.before = Entry[DayNumber(JToD(r.sk - 1))]
        /\ JToD(r.last_quarter - dayOfQuarter + 1) =
             IF quarter = 1 THEN Date(today.year - 1, 10, 1) ELSE Date(today.year, first - 3, 1)
        /\ current = [month |-> today.year = 2003 /\ today.month = 1,
                      quarter |-> today.year = 2003
                                    /\ (today.month <= 3 \/ (today.month = 4 /\ today.day = 1)),
                      week |-> FALSE]

(* The entry of "calendar" a row is given is that of its day, the leap day *)
(* of a common year being skipped.                                         *)
SkipsLeapDay ==
  crow > 0 => DateRow.entry = [month |-> today.month, day |-> today.day]

InZone(z, julian) == JToD(julian).month \in Months(z)

EndOfZone(z, julian) == InZone(z, julian) /\ ~InZone(z, julian + 1)

\* A common year has the entry of the day before, from March on.
Late(julian) == ~IsLeap(JToD(julian).year)

(* A refresh set deletes and inserts two days that follow each other, and  *)
(* two Thursdays a week apart, on days of one density of sales.  With the  *)
(* entry of the wrong day, the second day lies behind the zone when the    *)
(* first is the last of it in a common year (or December 31, looked up     *)
(* beyond the last entry), and so does a Thursday on the first day behind  *)
(* it, and the day before February 28 or the last of the zone comes second *)
(* though the file says from and to.                                       *)
UpdateDatesFit ==
  zone \in Zones =>
    LET first == pair[1]
        second == pair[2]
        d == JToD(first)
    IN  /\ InZone(zone, first) /\ second \in {first - 1, first + 1}
        /\ ~InZone(zone, second) => EndOfZone(zone, first) /\ (Late(first) \/ zone = "high")
        /\ second < first => (d.month = 2 /\ d.day = 28)
                               \/ (EndOfZone(zone, first) /\ (~Late(first) \/ zone = "high"))
        /\ stock[2] \in {stock[1] - 7, stock[1] + 7}
        /\ \A k \in {1, 2} :
             /\ (stock[k] + 1) % 7 = 4
             /\ InZone(zone, stock[k])
                  \/ (EndOfZone(zone, stock[k] - 1) /\ Late(stock[k]) /\ zone # "high")

(* A row validated after one of a common or of a leap year is the row that *)
(* is built, with the flags that are kept from row to row.                 *)
DatesValidated ==
  crow > 0 => \A year \in {1999, 2000} :
    vld_w_date(Kept(NoneKept, year)) = [row |-> DateRow, current |-> current]

(* So date_dim, what is validated of it and the dates of the refresh sets  *)
(* are of one calendar.                                                    *)
DatesTrue == CalendarTrue /\ DatesValidated /\ UpdateDatesFit

=============================================================================
