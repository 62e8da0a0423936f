----------------------------- MODULE CalendarPages -----------------------------
(***************************************************************************)
(* The pages the user turns: MonthViewWidget's month and                   *)
(* TimeGridViewWidget's range of days, the month buckets their controllers *)
(* read (currentMonthKeys), and the events and the dialog on them.         *)
(***************************************************************************)
EXTENDS CalendarGrid, EventDialog

CONSTANTS
  Today,         \* the day the program runs
  FirstDays,     \* the locale's first day of the week, one of these
  DayCounts,     \* TimeGridViewWidget::m_dayCount, 7 or 1
  Arrivals,      \* bound: the events the server may have
  MaxEvents,     \* bound: events at once
  DialogEvents   \* bound: events there when a dialog opens

(* The week of today is inside the stretch (bound).  The server's all-day  *)
(* events end after they start, and those with the calendar's default      *)
(* reminders have no others.                                               *)
ASSUME PagesAssumption ==
  /\ Today \in Int /\ {Today - 6, Today + 6} \subseteq Days
  /\ FirstDays \subseteq 1..7
  /\ DayCounts \subseteq {1, 7}
  /\ {MaxEvents, DialogEvents} \subseteq Nat
  /\ Arrivals \subseteq Event
  /\ \A e \in Arrivals : /\ e.allDay => e.start < e.end
                         /\ e.useDefault => e.popups = <<>> /\ ~e.mail

VARIABLES
  firstDayOfWeek,   \* QLocale::system().firstDayOfWeek()
  dayCount,         \* m_dayCount
  displayedMonth,   \* MonthViewWidget::m_displayedMonth
  rangeStart        \* TimeGridViewWidget::m_rangeStart

pageVars == <<firstDayOfWeek, dayCount, displayedMonth, rangeStart>>
vars == <<pageVars, dialogVars>>

TypeOK ==
  /\ DialogTypeOK
  /\ firstDayOfWeek \in FirstDays
  /\ dayCount \in DayCounts
  /\ displayedMonth \in Months
  /\ rangeStart \in Days
  /\ dayCount = 7 => DayOfWeek(rangeStart) = firstDayOfWeek

RangeStartOf(d) == IF dayCount = 7 THEN WeekStart(d, firstDayOfWeek) ELSE d

VisibleRange == DatesForRange(rangeStart, dayCount)

(* currentMonthKeys of the time grid's controller.                         *)
RangeMonthKeys == ForDateRange(rangeStart, rangeStart + dayCount - 1)

Init ==
  /\ DialogInit
  /\ firstDayOfWeek \in FirstDays
  /\ dayCount \in DayCounts
  /\ displayedMonth = Normalize(Today)
  /\ rangeStart = RangeStartOf(Today)

-----------------------------------------------------------------------------
(* The pages turn: within the stretch of months, and only while there are  *)
(* no events (bounds).                                                     *)
ShowMonth(m) ==
  /\ ~IsOpen
  /\ events = <<>> \/ m = displayedMonth
  /\ m \in Months
  /\ displayedMonth' = m
  /\ UNCHANGED <<firstDayOfWeek, dayCount, rangeStart, dialogVars>>

ShowRange(start) ==
  /\ ~IsOpen
  /\ events = <<>> \/ start = rangeStart
  /\ DatesForRange(start, dayCount) \subseteq Days
  /\ rangeStart' = start
  /\ UNCHANGED <<firstDayOfWeek, dayCount, displayedMonth, dialogVars>>

GoToPreviousMonth == ShowMonth(displayedMonth - 1)
GoToNextMonth == ShowMonth(displayedMonth + 1)
GoToTodayMonth == ShowMonth(Normalize(Today))

(* A click on a day of the grid; the fringe belongs to a neighbour.        *)
SelectDateInMonth ==
  \E d \in DatesForGrid(displayedMonth, firstDayOfWeek) \cap Days : ShowMonth(Normalize(d))

GoToPrevious == ShowRange(rangeStart - dayCount)
GoToNext == ShowRange(rangeStart + dayCount)
GoToTodayRange == ShowRange(RangeStartOf(Today))
SelectDateInRange == \E d \in VisibleRange : ShowRange(RangeStartOf(d))

-----------------------------------------------------------------------------
(* Bounds: events come, and dialogs open, on the page of today, and no     *)
(* more once a save has made an event that is not one of Arrivals.         *)
AtToday == displayedMonth = Normalize(Today) /\ rangeStart = RangeStartOf(Today)
OnlyFetched == \A i \in DOMAIN events : events[i] \in Arrivals

(* The store's events are shown.                                           *)

EventsFetched ==
  /\ ~IsOpen
  /\ AtToday
  /\ Len(events) < MaxEvents
  /\ OnlyFetched
  /\ \E e \in Arrivals : events' = Append(events, e)
  /\ UNCHANGED <<form, edits, pageVars>>

OpenDialog ==
  /\ AtToday
  /\ Len(events) <= DialogEvents
  /\ OnlyFetched
  /\ \/ \E d \in FormDays, time \in Time, writable \in BOOLEAN : OpenNew(d, time, writable)
     \/ \E i \in DOMAIN events : OpenEdit(i)
  /\ UNCHANGED pageVars

Next ==
  \/ GoToPreviousMonth \/ GoToNextMonth \/ GoToTodayMonth \/ SelectDateInMonth
  \/ GoToPrevious \/ GoToNext \/ GoToTodayRange \/ SelectDateInRange
  \/ EventsFetched
  \/ OpenDialog
  \/ DialogNext /\ UNCHANGED pageVars

Spec == Init /\ [][Next]_vars

-----------------------------------------------------------------------------
(* Properties.                                                             *)

(* A week that straddles two months reads two buckets, each fetched for    *)
(* the 42 days of its month's grid: every bucket has the whole week, so    *)
(* whichever answers first shows all of it (the merge of                   *)
(* MonthEventStore::eventsFor only drops duplicates), and a month's grid   *)
(* has the whole month, on any locale's first day of the week.             *)
EveryBucketHasTheWholePage ==
  /\ \A m \in RangeMonthKeys : VisibleRange \subseteq DatesForGrid(m, firstDayOfWeek)
  /\ DaysOfMonth(displayedMonth) \subseteq DatesForGrid(displayedMonth, firstDayOfWeek)
  /\ VisibleRange \subseteq UNION {DaysOfMonth(m) : m \in RangeMonthKeys}

(* On every day of the page, the pills that share a moment in time are     *)
(* side by side, the width is divided no finer than the busiest moment     *)
(* needs, and each event has a pill on exactly the days it takes time of,  *)
(* one that ends at midnight included.  A pill is here the time it stands  *)
(* for, without the minimum height a short one is drawn with.              *)
PillsTellTheDay ==
  \A d \in VisibleRange : NothingCovered(events, d) /\ NothingMissing(events, d)
=============================================================================
