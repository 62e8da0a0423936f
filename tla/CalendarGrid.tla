------------------------------ MODULE CalendarGrid ------------------------------
(***************************************************************************)
(* The date arithmetic of the views: monthgrid.cpp, timegridrange.cpp and  *)
(* monthkeys.cpp.  Days are numbered through a stretch of consecutive      *)
(* months, months by their place in it.                                    *)
(***************************************************************************)
EXTENDS Integers, Sequences

CONSTANTS
  MonthLengths,   \* the lengths of the months in the stretch
  DayZeroDow      \* dayOfWeek() of day 0: 1 is Monday, 7 is Sunday

ASSUME CalendarAssumption ==
  /\ MonthLengths \in Seq(28..31)
  /\ MonthLengths # <<>>
  /\ DayZeroDow \in 1..7

Months == DOMAIN MonthLengths

(* QDate(year, month, 1); the day after the stretch for the month after it. *)
FirstOf[m \in 1..Len(MonthLengths) + 1] ==
  IF m = 1 THEN 0 ELSE FirstOf[m - 1] + MonthLengths[m - 1]

DaysOfMonth(m) == FirstOf[m]..FirstOf[m + 1] - 1

Days == 0..FirstOf[Len(MonthLengths) + 1] - 1

(* MonthKeys::normalize, the month standing for its first day.             *)
Normalize(d) == CHOOSE m \in Months : d \in DaysOfMonth(m)

ForDateRange(from, to) ==
  {m \in Months : Normalize(from) <= m /\ FirstOf[m] <= to}

DayOfWeek(d) == ((DayZeroDow - 1 + d) % 7) + 1

LeadingDays(d, firstDayOfWeek) == (DayOfWeek(d) - firstDayOfWeek + 7) % 7

WeekStart(d, firstDayOfWeek) == d - LeadingDays(d, firstDayOfWeek)

DatesForRange(start, dayCount) == start..start + dayCount - 1

(* Mutant of DatesForGrid: five weeks are enough for a month.              *)
DatesForGridFiveWeeks(m, firstDayOfWeek) ==
  DatesForRange(WeekStart(FirstOf[m], firstDayOfWeek), 35)

DatesForGrid(m, firstDayOfWeek) ==
  DatesForRange(FirstOf[m] - LeadingDays(FirstOf[m], firstDayOfWeek), 42)
=============================================================================
