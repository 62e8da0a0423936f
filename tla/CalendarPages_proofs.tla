--------------------------- MODULE CalendarPages_proofs ---------------------------
(***************************************************************************)
(* Proofs about CalendarPages, EventDialog and the date arithmetic under   *)
(* them: the buckets a page reads always hold the whole page, OK means     *)
(* that the server accepts the event, saving without a change changes      *)
(* nothing, and what is saved is what the form showed; for any stretch of  *)
(* months, first day of the week, division of the day and list of events.  *)
(***************************************************************************)
EXTENDS CalendarPages, DayLayout_proofs

-----------------------------------------------------------------------------
(* Arithmetic.                                                             *)

(* An instant is its day and its time of day, and back.                    *)
LEMMA InstantParts ==
  ASSUME NEW t \in Int
  PROVE  TimeOf(t) \in Time /\ DayOf(t) \in Int /\ At(DayOf(t), TimeOf(t)) = t
BY LayoutAssumption DEF TimeOf, DayOf, At, Time

LEMMA PartsInstant ==
  ASSUME NEW d \in Int, NEW time \in Time
  PROVE  At(d, time) \in Int /\ TimeOf(At(d, time)) = time /\ DayOf(At(d, time)) = d
BY LayoutAssumption DEF TimeOf, DayOf, At, Time

-----------------------------------------------------------------------------
(* The months of the stretch.                                              *)

LastMonth == Len(MonthLengths)

LEMMA MonthsAre ==
  /\ LastMonth \in Nat \ {0} /\ Months = 1..LastMonth
  /\ \A m \in Months : MonthLengths[m] \in 28..31
BY CalendarAssumption DEF LastMonth, Months

(* The first days of the first n months follow from each other.            *)
MonthsFollow(f, n) ==
  \A m \in 1..n : f[m] = IF m = 1 THEN 0 ELSE f[m - 1] + MonthLengths[m - 1]

LEMMA FirstDaysExist ==
  \A n \in 0..LastMonth + 1 : \E f \in [1..n -> Int] : MonthsFollow(f, n)
<1> DEFINE Missing == {n \in 0..LastMonth + 1 : ~ \E f \in [1..n -> Int] : MonthsFollow(f, n)}
<1> SUFFICES ASSUME Missing # {} PROVE FALSE
  OBVIOUS
<1>1. PICK n \in Missing : \A k \in Missing : n <= k
  <2>1. Missing \in SUBSET Nat
    BY MonthsAre
  <2> QED BY <2>1, Least
<1>2. n # 0
  <2>1. [m \in 1..0 |-> 0] \in [1..0 -> Int] /\ MonthsFollow([m \in 1..0 |-> 0], 0)
    BY DEF MonthsFollow
  <2> QED BY <2>1
<1>3. n \in Nat /\ n - 1 \in 0..LastMonth + 1 /\ n - 1 \notin Missing
  BY <1>1, <1>2, MonthsAre
<1>4. PICK f \in [1..n - 1 -> Int] : MonthsFollow(f, n - 1)
  BY <1>3
<1> DEFINE g == [m \in 1..n |-> IF m = 1 THEN 0
                               ELSE IF m = n THEN f[n - 1] + MonthLengths[n - 1] ELSE f[m]]
<1>5. ASSUME NEW m \in 1..n
      PROVE  g[m] \in Int /\ g[m] = IF m = 1 THEN 0 ELSE g[m - 1] + MonthLengths[m - 1]
  <2>1. CASE m = 1
    BY <2>1
  <2>2. CASE m # 1
    <3>1. m - 1 \in 1..n - 1 /\ m - 1 \in Months /\ MonthLengths[m - 1] \in Int
      BY <1>3, <2>2, MonthsAre
    <3>2. g[m - 1] = f[m - 1]
      BY <1>3, <1>4, <3>1 DEF MonthsFollow
    <3>3. m # n => f[m] = f[m - 1] + MonthLengths[m - 1]
      BY <1>3, <1>4, <2>2 DEF MonthsFollow
    <3> QED BY <1>3, <2>2, <3>1, <3>2, <3>3
  <2> QED BY <2>1, <2>2
<1>6. g \in [1..n -> Int] /\ MonthsFollow(g, n)
  BY <1>5 DEF MonthsFollow
<1> QED BY <1>1, <1>6

LEMMA FirstOfIs ==
  /\ FirstOf \in [1..LastMonth + 1 -> Int]
  /\ FirstOf[1] = 0
  /\ \A m \in Months : FirstOf[m + 1] = FirstOf[m] + MonthLengths[m]
<1> DEFINE Body(f) == [m \in 1..Len(MonthLengths) + 1 |->
                        IF m = 1 THEN 0 ELSE f[m - 1] + MonthLengths[m - 1]]
<1>1. PICK f \in [1..LastMonth + 1 -> Int] : MonthsFollow(f, LastMonth + 1)
  BY FirstDaysExist, MonthsAre
<1>2. f = Body(f)
  BY <1>1 DEF MonthsFollow, LastMonth
<1>3. FirstOf = Body(FirstOf)
  BY <1>2 DEF FirstOf
<1>4. MonthsFollow(FirstOf, LastMonth + 1) /\ DOMAIN FirstOf = 1..LastMonth + 1
  BY <1>3 DEF MonthsFollow, LastMonth
<1>5. FirstOf[1] = 0 /\ \A m \in Months : FirstOf[m + 1] = FirstOf[m] + MonthLengths[m]
  BY <1>4, MonthsAre DEF MonthsFollow
<1>6. \A m \in 1..LastMonth + 1 : FirstOf[m] = f[m]
  <2> DEFINE Apart == {m \in 1..LastMonth + 1 : FirstOf[m] # f[m]}
  <2> SUFFICES ASSUME Apart # {} PROVE FALSE
    OBVIOUS
  <2>1. PICK m \in Apart : \A k \in Apart : m <= k
    <3>1. Apart \in SUBSET Nat
      BY MonthsAre
    <3> QED BY <3>1, Least
  <2>2. m # 1 => m - 1 \in 1..LastMonth + 1 /\ m - 1 \notin Apart
    BY <2>1, MonthsAre
  <2>3. FirstOf[m] = f[m]
    BY <1>1, <1>4, <2>2 DEF MonthsFollow
  <2> QED BY <2>1, <2>3
<1>7. FirstOf \in [1..LastMonth + 1 -> Int]
  BY <1>1, <1>3, <1>4, <1>6 DEF LastMonth
<1> QED BY <1>5, <1>7

(* Later months begin later; the days of a month are its own.              *)
LEMMA FirstOfGrows ==
  ASSUME NEW a \in 1..LastMonth + 1, NEW b \in 1..LastMonth + 1, a < b
  PROVE  FirstOf[a] + 28 <= FirstOf[b]
<1> DEFINE Early == {c \in 1..LastMonth + 1 : a < c /\ ~(FirstOf[a] + 28 <= FirstOf[c])}
<1> SUFFICES ASSUME Early # {} PROVE FALSE
  OBVIOUS
<1>1. PICK c \in Early : \A k \in Early : c <= k
  <2>1. Early \in SUBSET Nat
    BY MonthsAre
  <2> QED BY <2>1, Least
<1>2. /\ c - 1 \in Months /\ c - 1 \in 1..LastMonth + 1 /\ c - 1 \notin Early /\ c \in Int /\ a \in Int
      /\ MonthLengths[c - 1] \in 28..31
  BY <1>1, MonthsAre
<1>3. FirstOf[c] = FirstOf[c - 1] + MonthLengths[c - 1]
  BY <1>2, FirstOfIs
<1>4. FirstOf[a] \in Int /\ FirstOf[c] \in Int /\ FirstOf[c - 1] \in Int
  BY <1>2, FirstOfIs
<1>5. c - 1 = a \/ FirstOf[a] + 28 <= FirstOf[c - 1]
  BY <1>1, <1>2
<1> QED BY <1>1, <1>2, <1>3, <1>4, <1>5

(* A month of the stretch: 28 to 31 days from its first.                   *)
LEMMA MonthSpan ==
  ASSUME NEW m \in Months
  PROVE  /\ m \in 1..LastMonth + 1 /\ m + 1 \in 1..LastMonth + 1
         /\ FirstOf[m] \in Int /\ FirstOf[m] >= 0
         /\ FirstOf[m + 1] \in FirstOf[m] + 28..FirstOf[m] + 31
         /\ DaysOfMonth(m) \subseteq Days
<1>1. /\ m \in 1..LastMonth + 1 /\ m + 1 \in 1..LastMonth + 1 /\ m \in Int
      /\ LastMonth \in Nat /\ LastMonth + 1 \in 1..LastMonth + 1 /\ 1 \in 1..LastMonth + 1
  BY MonthsAre
<1>2. /\ FirstOf[m] \in Int /\ FirstOf[m + 1] \in Int /\ FirstOf[LastMonth + 1] \in Int
      /\ FirstOf[m + 1] = FirstOf[m] + MonthLengths[m] /\ MonthLengths[m] \in 28..31
  BY <1>1, FirstOfIs, MonthsAre
<1>3. FirstOf[m] >= 0
  <2>1. m = 1 \/ FirstOf[1] + 28 <= FirstOf[m]
    BY <1>1, FirstOfGrows
  <2> QED BY <1>2, <2>1, FirstOfIs
<1>4. FirstOf[m + 1] <= FirstOf[LastMonth + 1]
  <2>1. m + 1 = LastMonth + 1 \/ FirstOf[m + 1] + 28 <= FirstOf[LastMonth + 1]
    BY <1>1, FirstOfGrows, MonthsAre
  <2> QED BY <1>2, <2>1
<1> QED BY <1>1, <1>2, <1>3, <1>4 DEF DaysOfMonth, Days, LastMonth

LEMMA NormalizeIs ==
  ASSUME NEW d \in Days
  PROVE  /\ d \in Int /\ Normalize(d) \in Months
         /\ FirstOf[Normalize(d)] <= d /\ d < FirstOf[Normalize(d) + 1]
<1> DEFINE After == {m \in 1..LastMonth + 1 : d < FirstOf[m]}
<1>0. d \in Int /\ 0 <= d /\ d < FirstOf[LastMonth + 1] /\ LastMonth \in Nat
  BY FirstOfIs, MonthsAre DEF Days, LastMonth
<1>1. PICK m \in After : \A k \in After : m <= k
  <2>1. After \in SUBSET Nat /\ LastMonth + 1 \in After
    BY <1>0
  <2> QED BY <2>1, Least
<1>2. m # 1 /\ m - 1 \in Months /\ m - 1 \in 1..LastMonth + 1 /\ m - 1 \notin After
  BY <1>0, <1>1, FirstOfIs, MonthsAre
<1>3. d \in DaysOfMonth(m - 1)
  BY <1>0, <1>1, <1>2, FirstOfIs DEF DaysOfMonth
<1>4. Normalize(d) \in Months /\ d \in DaysOfMonth(Normalize(d))
  BY <1>2, <1>3 DEF Normalize
<1> QED BY <1>0, <1>4, MonthSpan DEF DaysOfMonth

LEMMA NormalizeGrows ==
  ASSUME NEW d \in Days, NEW e \in Days, d <= e
  PROVE  Normalize(d) <= Normalize(e)
<1>0. /\ d \in Int /\ e \in Int /\ Normalize(d) \in Months /\ Normalize(e) \in Months
      /\ FirstOf[Normalize(d)] <= d /\ e < FirstOf[Normalize(e) + 1]
  BY NormalizeIs
<1>1. PICK a \in Months, b \in Months : a = Normalize(d) /\ b = Normalize(e)
  BY <1>0
<1> SUFFICES ASSUME b < a PROVE FALSE
  BY <1>1, MonthsAre
<1>2. /\ a \in 1..LastMonth + 1 /\ b + 1 \in 1..LastMonth + 1 /\ a \in Int /\ b \in Int
      /\ FirstOf[a] \in Int /\ FirstOf[b + 1] \in Int
  BY MonthSpan, FirstOfIs, MonthsAre
<1>3. b + 1 = a \/ FirstOf[b + 1] + 28 <= FirstOf[a]
  BY <1>2, FirstOfGrows
<1> QED BY <1>0, <1>1, <1>2, <1>3

-----------------------------------------------------------------------------
(* The weeks.                                                              *)

LEMMA WeekDays ==
  ASSUME NEW d \in Int, NEW f \in 1..7
  PROVE  /\ LeadingDays(d, f) \in 0..6
         /\ WeekStart(d, f) \in Int /\ d - 6 <= WeekStart(d, f) /\ WeekStart(d, f) <= d
         /\ DayOfWeek(WeekStart(d, f)) = f
BY CalendarAssumption DEF DayOfWeek, LeadingDays, WeekStart

(* Two days of the same name are whole weeks apart.                        *)
LEMMA SameDayOfWeek ==
  ASSUME NEW d \in Int, NEW e \in Int, DayOfWeek(d) = DayOfWeek(e), d - e < 7, e - d < 7
  PROVE  d = e
BY CalendarAssumption DEF DayOfWeek

LEMMA WeeksApart ==
  ASSUME NEW d \in Int, NEW e \in Int, DayOfWeek(d) = DayOfWeek(e), d - e < 42
  PROVE  d - e <= 35
BY CalendarAssumption DEF DayOfWeek

LEMMA GridIs ==
  ASSUME NEW m \in Months, NEW f \in 1..7
  PROVE  \E g \in Int : /\ DatesForGrid(m, f) = g..g + 41
                        /\ FirstOf[m] - 6 <= g /\ g <= FirstOf[m] /\ DayOfWeek(g) = f
<1>1. FirstOf[m] \in Int
  BY MonthSpan
<1>2. WeekStart(FirstOf[m], f) \in Int
  BY <1>1, WeekDays
<1>3. DatesForGrid(m, f) = WeekStart(FirstOf[m], f)..WeekStart(FirstOf[m], f) + 41
  BY <1>2 DEF DatesForGrid, DatesForRange, WeekStart
<1> QED BY <1>1, <1>2, <1>3, WeekDays

(* Every bucket of a week that is aligned, or of a single day, holds it.   *)
LEMMA BucketHasRange ==
  ASSUME NEW f \in 1..7, NEW n \in {1, 7}, NEW s \in Days, s + n - 1 \in Days,
         n = 7 => DayOfWeek(s) = f, NEW m \in ForDateRange(s, s + n - 1)
  PROVE  DatesForRange(s, n) \subseteq DatesForGrid(m, f)
<1>0. /\ m \in Months /\ m \in Int /\ Normalize(s) <= m /\ FirstOf[m] <= s + n - 1
      /\ FirstOf[m] \in Int /\ s \in Int /\ Normalize(s) \in Months
      /\ FirstOf[Normalize(s)] <= s /\ s < FirstOf[Normalize(s) + 1]
  BY NormalizeIs, MonthSpan, MonthsAre DEF ForDateRange
<1>1. PICK g \in Int : /\ DatesForGrid(m, f) = g..g + 41
                       /\ FirstOf[m] - 6 <= g /\ g <= FirstOf[m] /\ DayOfWeek(g) = f
  BY <1>0, GridIs
<1>2. PICK a \in Months : a = Normalize(s) /\ FirstOf[a] \in Int /\ FirstOf[a + 1] \in Int
                           /\ FirstOf[a + 1] <= FirstOf[a] + 31 /\ a \in Int
                           /\ a + 1 \in 1..LastMonth + 1 /\ m \in 1..LastMonth + 1
  BY <1>0, MonthSpan, MonthsAre
<1>3. CASE m = a
  <2>1. FirstOf[m] <= s /\ s <= FirstOf[m] + 30
    BY <1>0, <1>2, <1>3
  <2>2. g <= s /\ s - g <= 36
    BY <1>0, <1>1, <2>1
  <2>3. n = 7 => s - g <= 35
    BY <1>0, <1>1, <2>2, WeeksApart
  <2>4. s + n - 1 <= g + 41
    BY <1>0, <1>1, <2>2, <2>3
  <2> QED BY <1>0, <1>1, <2>2, <2>4 DEF DatesForRange
<1>4. CASE m # a
  <2>1. FirstOf[a + 1] <= FirstOf[m]
    <3>1. a + 1 = m \/ FirstOf[a + 1] + 28 <= FirstOf[m]
      BY <1>0, <1>2, <1>4, FirstOfGrows
    <3> QED BY <1>0, <1>2, <3>1
  <2>2. s < FirstOf[m] /\ n = 7
    BY <1>0, <1>2, <2>1
  <2>3. g = s
    BY <1>0, <1>1, <2>2, SameDayOfWeek
  <2> QED BY <1>0, <1>1, <2>2, <2>3 DEF DatesForRange
<1> QED BY <1>3, <1>4

-----------------------------------------------------------------------------
(* The pages.                                                              *)

PagesInv ==
  /\ firstDayOfWeek \in FirstDays
  /\ dayCount \in DayCounts
  /\ displayedMonth \in Months
  /\ rangeStart \in Days
  /\ dayCount = 7 => DayOfWeek(rangeStart) = firstDayOfWeek
  /\ rangeStart + dayCount - 1 \in Days

LEMMA PagesInvImplies == PagesInv => EveryBucketHasTheWholePage
<1> SUFFICES ASSUME PagesInv PROVE EveryBucketHasTheWholePage
  OBVIOUS
<1>0. /\ firstDayOfWeek \in 1..7 /\ dayCount \in {1, 7} /\ displayedMonth \in Months
      /\ rangeStart \in Days /\ rangeStart \in Int /\ rangeStart + dayCount - 1 \in Days
  BY PagesAssumption, NormalizeIs DEF PagesInv
<1>1. \A m \in RangeMonthKeys : VisibleRange \subseteq DatesForGrid(m, firstDayOfWeek)
  BY <1>0, BucketHasRange DEF PagesInv, RangeMonthKeys, VisibleRange
<1>2. DaysOfMonth(displayedMonth) \subseteq DatesForGrid(displayedMonth, firstDayOfWeek)
  <2>1. PICK m \in Months : m = displayedMonth
    BY <1>0
  <2>2. PICK g \in Int : /\ DatesForGrid(m, firstDayOfWeek) = g..g + 41
                         /\ FirstOf[m] - 6 <= g /\ g <= FirstOf[m]
    BY <1>0, GridIs
  <2>3. FirstOf[m] \in Int /\ FirstOf[m + 1] \in FirstOf[m] + 28..FirstOf[m] + 31
    BY MonthSpan
  <2> QED BY <2>1, <2>2, <2>3 DEF DaysOfMonth
<1>3. ASSUME NEW d \in VisibleRange
      PROVE  Normalize(d) \in RangeMonthKeys /\ d \in DaysOfMonth(Normalize(d))
  <2>1. /\ d \in Int /\ rangeStart <= d /\ d <= rangeStart + dayCount - 1
        /\ d \in Days
    BY <1>0, <1>3, FirstOfIs, MonthsAre DEF VisibleRange, DatesForRange, Days, LastMonth
  <2>2. /\ Normalize(d) \in Months
        /\ FirstOf[Normalize(d)] <= d /\ d < FirstOf[Normalize(d) + 1]
        /\ Normalize(rangeStart) <= Normalize(d)
    BY <1>0, <2>1, NormalizeIs, NormalizeGrows
  <2>3. FirstOf[Normalize(d)] \in Int /\ FirstOf[Normalize(d) + 1] \in Int
    BY <2>2, MonthSpan
  <2>4. FirstOf[Normalize(d)] <= rangeStart + dayCount - 1
    BY <1>0, <2>1, <2>2, <2>3
  <2> QED BY <2>1, <2>2, <2>3, <2>4 DEF RangeMonthKeys, ForDateRange, DaysOfMonth
<1> QED BY <1>1, <1>2, <1>3 DEF EveryBucketHasTheWholePage

LEMMA RangeStartIs ==
  ASSUME firstDayOfWeek \in 1..7, dayCount \in {1, 7}, NEW d \in Int
  PROVE  /\ RangeStartOf(d) \in Int /\ d - 6 <= RangeStartOf(d) /\ RangeStartOf(d) <= d
         /\ dayCount = 7 => DayOfWeek(RangeStartOf(d)) = firstDayOfWeek
         /\ dayCount = 1 => RangeStartOf(d) = d
<1>1. CASE dayCount = 7
  <2>1. RangeStartOf(d) = WeekStart(d, firstDayOfWeek)
    BY <1>1 DEF RangeStartOf
  <2>2. /\ WeekStart(d, firstDayOfWeek) \in Int /\ d - 6 <= WeekStart(d, firstDayOfWeek)
        /\ WeekStart(d, firstDayOfWeek) <= d
        /\ DayOfWeek(WeekStart(d, firstDayOfWeek)) = firstDayOfWeek
    BY WeekDays
  <2> QED BY <1>1, <2>1, <2>2
<1>2. CASE dayCount = 1
  BY <1>2 DEF RangeStartOf
<1> QED BY <1>1, <1>2

LEMMA InitPages == Init => PagesInv
<1> SUFFICES ASSUME Init PROVE PagesInv
  OBVIOUS
<1>0. /\ firstDayOfWeek \in 1..7 /\ dayCount \in {1, 7} /\ Today \in Int
      /\ firstDayOfWeek \in FirstDays /\ dayCount \in DayCounts
      /\ Today - 6 \in Days /\ Today + 6 \in Days
      /\ displayedMonth = Normalize(Today) /\ rangeStart = RangeStartOf(Today)
  BY PagesAssumption DEF Init
<1>1. /\ rangeStart \in Int /\ Today - 6 <= rangeStart /\ rangeStart <= Today
      /\ dayCount = 7 => DayOfWeek(rangeStart) = firstDayOfWeek
      /\ dayCount = 1 => rangeStart = Today
  BY <1>0, RangeStartIs
<1>2. \A d \in Int : Today - 6 <= d /\ d <= Today + 6 => d \in Days
  BY <1>0, FirstOfIs, MonthsAre DEF Days, LastMonth
<1>3. Today \in Days /\ rangeStart \in Days /\ rangeStart + dayCount - 1 \in Days
  BY <1>0, <1>1, <1>2
<1> QED BY <1>0, <1>1, <1>3, NormalizeIs DEF PagesInv

LEMMA StepPages == PagesInv /\ [Next]_vars => PagesInv'
<1> SUFFICES ASSUME PagesInv, [Next]_vars PROVE PagesInv'
  OBVIOUS
<1>0. /\ firstDayOfWeek \in 1..7 /\ dayCount \in {1, 7} /\ rangeStart \in Int
  BY PagesAssumption, NormalizeIs DEF PagesInv
<1>1. ASSUME NEW m, ShowMonth(m) PROVE PagesInv'
  BY <1>1 DEF ShowMonth, PagesInv
<1>2. ASSUME NEW start \in Int, dayCount = 7 => DayOfWeek(start) = firstDayOfWeek, ShowRange(start)
      PROVE  PagesInv'
  <2>1. start \in Days /\ start + dayCount - 1 \in Days
    BY <1>0, <1>2 DEF ShowRange, DatesForRange
  <2> QED BY <1>2, <2>1 DEF ShowRange, PagesInv
<1>3. CASE GoToPreviousMonth \/ GoToNextMonth \/ GoToTodayMonth \/ SelectDateInMonth
  BY <1>1, <1>3 DEF GoToPreviousMonth, GoToNextMonth, GoToTodayMonth, SelectDateInMonth
<1>4. CASE GoToPrevious
  <2>1. dayCount = 7 => DayOfWeek(rangeStart - dayCount) = firstDayOfWeek
    BY <1>0, CalendarAssumption DEF DayOfWeek, PagesInv
  <2> QED BY <1>0, <1>2, <1>4, <2>1 DEF GoToPrevious
<1>5. CASE GoToNext
  <2>1. dayCount = 7 => DayOfWeek(rangeStart + dayCount) = firstDayOfWeek
    BY <1>0, CalendarAssumption DEF DayOfWeek, PagesInv
  <2> QED BY <1>0, <1>2, <1>5, <2>1 DEF GoToNext
<1>6. CASE GoToTodayRange
  <2>1. Today \in Int
    BY PagesAssumption
  <2> QED BY <1>0, <1>2, <1>6, <2>1, RangeStartIs DEF GoToTodayRange
<1>7. CASE SelectDateInRange
  <2>1. PICK d \in VisibleRange : ShowRange(RangeStartOf(d))
    BY <1>7 DEF SelectDateInRange
  <2>2. d \in Int
    BY <1>0 DEF VisibleRange, DatesForRange
  <2> QED BY <1>0, <1>2, <2>1, <2>2, RangeStartIs
<1>8. CASE UNCHANGED pageVars
  BY <1>8 DEF pageVars, PagesInv
<1> QED BY <1>3, <1>4, <1>5, <1>6, <1>7, <1>8
    DEF Next, EventsFetched, OpenDialog, vars

(* Whatever the user turns to, every bucket a page reads holds the whole   *)
(* page, for every stretch of months and first day of the week             *)
(* (monthgrid.cpp, timegridrange.cpp, monthkeys.cpp).                      *)
THEOREM EveryBucketAlwaysHasTheWholePage == Spec => []EveryBucketHasTheWholePage
<1> QED BY InitPages, StepPages, PagesInvImplies, PTL DEF Spec

-----------------------------------------------------------------------------
(* What the server makes of a request.                                     *)

LEMMA DatedFields ==
  ASSUME NEW e \in Event, NEW r, r.allDay \in BOOLEAN, r.start \in Int, r.end \in Int
  PROVE  /\ Dated(e, r) \in Event
         /\ Dated(e, r).titled
         /\ Dated(e, r).allDay = r.allDay
         /\ Dated(e, r).start = r.start
         /\ Dated(e, r).end = r.end
         /\ Dated(e, r).popups = e.popups
         /\ Dated(e, r).mail = e.mail
         /\ Dated(e, r).useDefault = e.useDefault
BY DEF Dated, Event

LEMMA AppliedFields ==
  ASSUME NEW e \in Event, NEW r, r.preserved \in BOOLEAN, r.mode = "Popup" => r.minutes \in Nat
  PROVE  /\ Applied(e, r) \in Event
         /\ Applied(e, r).titled = e.titled
         /\ Applied(e, r).allDay = e.allDay
         /\ Applied(e, r).start = e.start
         /\ Applied(e, r).end = e.end
         /\ r.mode = "Unchanged" => /\ Applied(e, r).popups = e.popups
                                    /\ Applied(e, r).mail = e.mail
                                    /\ Applied(e, r).useDefault = e.useDefault
         /\ r.mode # "Unchanged" => /\ ~Applied(e, r).useDefault
                                    /\ Applied(e, r).mail = r.preserved
         /\ r.mode = "Popup" => Applied(e, r).popups = <<r.minutes>>
         /\ r.mode \notin {"Unchanged", "Popup"} => Applied(e, r).popups = <<>>
<1>1. CASE r.mode = "Unchanged"
  BY <1>1 DEF Applied
<1>2. CASE r.mode # "Unchanged"
  <2> DEFINE popups == IF r.mode = "Popup" THEN <<r.minutes>> ELSE <<>>
  <2>1. popups \in Seq(Nat)
    OBVIOUS
  <2>2. Applied(e, r) = [e EXCEPT !.useDefault = FALSE, !.mail = r.preserved, !.popups = popups]
    BY <1>2 DEF Applied
  <2>3. (r.mode = "Popup" => popups = <<r.minutes>>) /\ (r.mode # "Popup" => popups = <<>>)
    OBVIOUS
  <2> HIDE DEF popups
  <2>4. /\ Applied(e, r) \in Event
        /\ Applied(e, r).titled = e.titled
        /\ Applied(e, r).allDay = e.allDay
        /\ Applied(e, r).start = e.start
        /\ Applied(e, r).end = e.end
        /\ ~Applied(e, r).useDefault
        /\ Applied(e, r).mail = r.preserved
        /\ Applied(e, r).popups = popups
    BY <2>1, <2>2 DEF Event
  <2> QED BY <1>2, <2>3, <2>4
<1> QED BY <1>1, <1>2

(* The reminder the form shows.                                            *)
LEMMA SelectedIs ==
  ASSUME NEW f \in Form
  PROVE  SelectedReminderMinutes(f) \in Nat \cup {Off}
<1>1. /\ f.choice \in Presets \cup {Custom} /\ f.value \in Nat /\ f.unit \in {1, 60, 1440}
      /\ f.check \in BOOLEAN
  BY DEF Form, Units
<1>2. f.value * f.unit \in Nat
  BY <1>1
<1>3. f.choice # Custom => f.choice \in Nat
  BY <1>1 DEF Presets
<1> QED BY <1>1, <1>2, <1>3 DEF SelectedReminderMinutes

LEMMA RequestFields ==
  ASSUME NEW f \in Form
  PROVE  /\ BuildRequest(f).allDay = f.allDay /\ f.allDay \in BOOLEAN
         /\ f.allDay => BuildRequest(f).start = f.date /\ BuildRequest(f).end = f.endDate + 1
         /\ ~f.allDay => /\ BuildRequest(f).start = At(f.date, f.startTime)
                         /\ BuildRequest(f).end = At(f.endDate, f.endTime)
         /\ BuildRequest(f).start \in Int /\ BuildRequest(f).end \in Int
         /\ BuildRequest(f).mode = ReminderMode(f)
         /\ BuildRequest(f).minutes = SelectedReminderMinutes(f)
         /\ BuildRequest(f).preserved = f.preserved /\ f.preserved \in BOOLEAN
<1>1. /\ f.allDay \in BOOLEAN /\ f.date \in Int /\ f.endDate \in Int
      /\ f.startTime \in Time /\ f.endTime \in Time /\ f.preserved \in BOOLEAN
  BY DEF Form
<1>2. At(f.date, f.startTime) \in Int /\ At(f.endDate, f.endTime) \in Int
  BY <1>1, PartsInstant
<1> QED BY <1>1, <1>2 DEF BuildRequest

LEMMA ReminderModeIs ==
  ASSUME NEW f \in Form, f.create => f.original = Off
  PROVE  LET minutes == SelectedReminderMinutes(f)
         IN  \/ ReminderMode(f) = "Unchanged" /\ minutes = f.original
             \/ ReminderMode(f) = "Popup" /\ minutes # f.original /\ minutes \in Nat
             \/ ReminderMode(f) = "Off" /\ minutes # f.original /\ minutes = Off
<1> DEFINE minutes == SelectedReminderMinutes(f)
<1>1. minutes \in Nat \cup {Off} /\ f.create \in BOOLEAN
  BY SelectedIs DEF Form
<1> QED BY <1>1 DEF ReminderMode, Off

(* The event has the dates and the type asked for.                         *)
AsAsked(a, f) ==
  /\ a.allDay = f.allDay
  /\ f.allDay => a.start = f.date /\ a.end = f.endDate + 1
  /\ ~f.allDay => a.start = At(f.date, f.startTime) /\ a.end = At(f.endDate, f.endTime)

(* The event is where it was: the type was to change.                      *)
AsItWas(a, f, e) ==
  /\ ~f.create
  /\ e.allDay # f.allDay
  /\ a.allDay = e.allDay /\ a.start = e.start /\ a.end = e.end

SameReminders(a, e) == a.popups = e.popups /\ a.mail = e.mail /\ a.useDefault = e.useDefault

(* What a save may leave, before its reminders are set.                    *)
LEMMA SavedIs ==
  ASSUME NEW f \in Form, Before(f) \in Event, NEW a \in Saved(f)
  PROVE  \E d \in Event : /\ a = Applied(d, BuildRequest(f))
                          /\ d.titled
                          /\ SameReminders(d, Before(f))
                          /\ AsAsked(d, f) \/ AsItWas(d, f, Before(f))
<1>1. PICK e, r : e = Before(f) /\ r = BuildRequest(f)
  OBVIOUS
<1>2. /\ e \in Event /\ r.allDay = f.allDay /\ f.allDay \in BOOLEAN
      /\ f.allDay => r.start = f.date /\ r.end = f.endDate + 1
      /\ ~f.allDay => r.start = At(f.date, f.startTime) /\ r.end = At(f.endDate, f.endTime)
      /\ r.start \in Int /\ r.end \in Int
  BY <1>1, RequestFields
<1>3. PICK d : a = Applied(d, r) /\ d \in IF f.create THEN {Dated(Blank, r)}
                                            ELSE Patched(events[f.item], r)
  BY <1>1 DEF Saved
<1>4. \/ d = Dated(e, r)
      \/ ~f.create /\ e.allDay # r.allDay /\ d = [e EXCEPT !.titled = TRUE]
  BY <1>1, <1>3 DEF Patched, Before
<1>5. CASE d = Dated(e, r)
  <2>1. /\ d \in Event /\ d.titled /\ SameReminders(d, e)
        /\ d.allDay = r.allDay /\ d.start = r.start /\ d.end = r.end
    BY <1>2, <1>5, DatedFields DEF SameReminders
  <2> QED BY <1>1, <1>2, <1>3, <2>1 DEF AsAsked
<1>6. CASE ~f.create /\ e.allDay # r.allDay /\ d = [e EXCEPT !.titled = TRUE]
  <2>1. d \in Event /\ d.titled /\ SameReminders(d, e) /\ AsItWas(d, f, e)
    BY <1>2, <1>6 DEF Event, SameReminders, AsItWas
  <2> QED BY <1>1, <1>3, <2>1
<1> QED BY <1>4, <1>5, <1>6

(* What a save may leave: the dates, and the reminders.                    *)
LEMMA SavedFields ==
  ASSUME NEW f \in Form, NEW e \in Event, e = Before(f), f.original = PopupOf(e),
         f.preserved = e.mail, f.create => f.original = Off, NEW a \in Saved(f)
  PROVE  LET shown == SelectedReminderMinutes(f)
         IN  /\ a \in Event /\ a.titled
             /\ AsAsked(a, f) \/ AsItWas(a, f, e)
             /\ shown = PopupOf(e) => SameReminders(a, e)
             /\ shown # PopupOf(e) => /\ a.popups = IF shown = Off THEN <<>> ELSE <<shown>>
                                      /\ a.mail = e.mail /\ ~a.useDefault
<1>1. PICK r, shown : r = BuildRequest(f) /\ shown = SelectedReminderMinutes(f)
  OBVIOUS
<1>2. r.mode = ReminderMode(f) /\ r.minutes = shown /\ r.preserved = e.mail /\ e.mail \in BOOLEAN
  BY <1>1, RequestFields
<1>3. \/ r.mode = "Unchanged" /\ shown = PopupOf(e)
      \/ r.mode = "Popup" /\ shown # PopupOf(e) /\ shown \in Nat
      \/ r.mode = "Off" /\ shown # PopupOf(e) /\ shown = Off
  BY <1>1, <1>2, ReminderModeIs
<1>4. PICK d \in Event : /\ a = Applied(d, r) /\ d.titled /\ SameReminders(d, e)
                         /\ AsAsked(d, f) \/ AsItWas(d, f, e)
  BY <1>1, SavedIs
<1>5. /\ a \in Event /\ a.titled = d.titled /\ a.allDay = d.allDay
      /\ a.start = d.start /\ a.end = d.end
      /\ r.mode = "Unchanged" => SameReminders(a, d)
      /\ r.mode # "Unchanged" => ~a.useDefault /\ a.mail = e.mail
      /\ r.mode = "Popup" => a.popups = <<shown>>
      /\ r.mode = "Off" => a.popups = <<>>
  <2>1. r.preserved \in BOOLEAN /\ (r.mode = "Popup" => r.minutes \in Nat)
    BY <1>2, <1>3
  <2>2. /\ a \in Event /\ a.titled = d.titled /\ a.allDay = d.allDay
        /\ a.start = d.start /\ a.end = d.end
        /\ r.mode = "Unchanged" => /\ a.popups = d.popups /\ a.mail = d.mail
                                   /\ a.useDefault = d.useDefault
        /\ r.mode # "Unchanged" => ~a.useDefault /\ a.mail = r.preserved
        /\ r.mode = "Popup" => a.popups = <<r.minutes>>
        /\ r.mode \notin {"Unchanged", "Popup"} => a.popups = <<>>
    <3>1. d \in Event /\ a = Applied(d, r)
      BY <1>4
    <3> QED BY <2>1, <3>1, AppliedFields
  <2> QED BY <1>2, <2>2 DEF SameReminders
<1>6. a.titled /\ (AsAsked(a, f) \/ AsItWas(a, f, e))
  BY <1>4, <1>5 DEF AsAsked, AsItWas
<1>7. shown = PopupOf(e) => SameReminders(a, e)
  BY <1>3, <1>4, <1>5 DEF SameReminders
<1>8. shown # PopupOf(e) => /\ a.popups = IF shown = Off THEN <<>> ELSE <<shown>>
                            /\ a.mail = e.mail /\ ~a.useDefault
  BY <1>3, <1>5 DEF Off
<1> QED BY <1>1, <1>5, <1>6, <1>7, <1>8

-----------------------------------------------------------------------------
(* The form.                                                               *)

(* Two forms that differ at most in the reminder fields and in OK.         *)
SameFields(f, g) ==
  /\ f.item = g.item /\ f.create = g.create /\ f.titled = g.titled /\ f.writable = g.writable
  /\ f.allDay = g.allDay /\ f.date = g.date /\ f.startTime = g.startTime
  /\ f.endDate = g.endDate /\ f.endTime = g.endTime /\ f.shiftFrom = g.shiftFrom
  /\ f.preserved = g.preserved

SameReminder(f, g) ==
  /\ f.check = g.check /\ f.choice = g.choice /\ f.value = g.value /\ f.unit = g.unit
  /\ f.original = g.original

OkIs(f) == f.ok <=> f.titled /\ f.writable /\ OrderingOk(f)

LEMMA OrderingBoolean ==
  ASSUME NEW f \in Form
  PROVE  OrderingOk(f) \in BOOLEAN
<1>1. ASSUME NEW a \in Int, NEW b \in Int PROVE (a <= b) \in BOOLEAN /\ (a < b) \in BOOLEAN
  OBVIOUS
<1>2. /\ f.date \in Int /\ f.endDate \in Int
      /\ At(f.date, f.startTime) \in Int /\ At(f.endDate, f.endTime) \in Int
  BY PartsInstant DEF Form
<1>3. /\ (f.date <= f.endDate) \in BOOLEAN
      /\ (At(f.date, f.startTime) < At(f.endDate, f.endTime)) \in BOOLEAN
  BY <1>1, <1>2
<1>4. f.allDay \in BOOLEAN
  BY DEF Form
<1> QED BY <1>3, <1>4, Zenon DEF OrderingOk

LEMMA UpdateOkIs ==
  ASSUME NEW f \in Form
  PROVE  /\ UpdateOkEnabled(f) \in Form
         /\ SameFields(UpdateOkEnabled(f), f) /\ SameReminder(UpdateOkEnabled(f), f)
         /\ OkIs(UpdateOkEnabled(f))
<1>1. PICK ok \in BOOLEAN : ok <=> f.titled /\ f.writable /\ OrderingOk(f)
  OBVIOUS
<1>2. UpdateOkEnabled(f) = [f EXCEPT !.ok = ok]
  BY <1>1, OrderingBoolean DEF UpdateOkEnabled, Form
<1> DEFINE g == [f EXCEPT !.ok = ok]
<1>3. g \in Form /\ g.ok = ok /\ SameFields(g, f) /\ SameReminder(g, f)
  BY DEF Form, SameFields, SameReminder
<1> HIDE DEF g
<1>4. OrderingOk(g) <=> OrderingOk(f)
  BY <1>3 DEF OrderingOk, SameFields
<1> QED BY <1>1, <1>2, <1>3, <1>4 DEF OkIs, SameFields, g

LEMMA SeededUnitIs ==
  ASSUME NEW n \in Nat
  PROVE  /\ SeededUnit(n) \in Units
         /\ n \div SeededUnit(n) \in Nat
         /\ (n \div SeededUnit(n)) * SeededUnit(n) = n
<1>1. \/ SeededUnit(n) = 1
      \/ SeededUnit(n) = 60 /\ n % 60 = 0
      \/ SeededUnit(n) = 1440 /\ n % 1440 = 0
  BY DEF SeededUnit
<1> QED BY <1>1 DEF Units

LEMMA SeededIs ==
  ASSUME NEW f \in Form, NEW popup \in Nat \cup {Off}
  PROVE  /\ Seeded(f, popup) \in Form
         /\ SameFields(Seeded(f, popup), f)
         /\ Seeded(f, popup).original = popup
         /\ SelectedReminderMinutes(Seeded(f, popup)) = popup
<1> DEFINE seed == IF popup = Off THEN 10 ELSE popup
           choice == IF seed \in Presets THEN seed ELSE Custom
           g == Seeded(f, popup)
<1>1. seed \in Nat /\ choice \in Presets \cup {Custom} /\ (popup # Off) \in BOOLEAN
  BY DEF Off
<1>2. PICK unit \in Units, value \in Nat : /\ unit = SeededUnit(seed)
                                           /\ value = seed \div SeededUnit(seed)
                                           /\ value * unit = seed
  BY <1>1, SeededUnitIs
<1>3. g = [f EXCEPT !.original = popup, !.check = popup # Off, !.choice = choice,
                    !.unit = unit, !.value = value]
  BY <1>2 DEF Seeded
<1>4. PICK check \in BOOLEAN : check = (popup # Off)
  BY <1>1
<1>5. g = [f EXCEPT !.original = popup, !.check = check, !.choice = choice,
                    !.unit = unit, !.value = value]
  BY <1>3, <1>4
<1>6. (choice = Custom /\ seed \notin Presets) \/ (choice = seed /\ choice # Custom)
  BY DEF Custom, Presets
<1>7. popup # Off => seed = popup
  OBVIOUS
<1> HIDE DEF g, seed, choice
<1>8. /\ g \in Form /\ SameFields(g, f)
      /\ g.original = popup /\ g.check = check /\ g.choice = choice
      /\ g.unit = unit /\ g.value = value
  BY <1>1, <1>5 DEF Form, SameFields
<1>9. SelectedReminderMinutes(g) = popup
  BY <1>2, <1>4, <1>6, <1>7, <1>8 DEF SelectedReminderMinutes
<1> QED BY <1>8, <1>9 DEF g

(* What the server sends, and what it makes of a request.                  *)
EventOk(e) ==
  /\ e \in Event
  /\ e.allDay => e.start < e.end
  /\ e.useDefault => e.popups = <<>> /\ ~e.mail

(* The form f shows the event e, or what it will be created from.          *)
FormOk(f, e) ==
  /\ f \in Form
  /\ f.shiftFrom = f.date
  /\ OkIs(f)
  /\ f.original = PopupOf(e)
  /\ f.preserved = e.mail
  /\ f.create => f.original = Off

LEMMA BlankIs == EventOk(Blank) /\ PopupOf(Blank) = Off /\ ~Blank.mail
BY DEF EventOk, Blank, Event, PopupOf

LEMMA PopupIs ==
  ASSUME NEW e \in Event
  PROVE  PopupOf(e) \in Nat \cup {Off}
BY DEF Event, PopupOf

LEMMA AllDayDates ==
  ASSUME NEW e \in Event, e.allDay
  PROVE  /\ StartDate(e) = e.start /\ e.start \in Int /\ e.end \in Int
         /\ LastInclusiveDate(e) = IF e.start >= e.end - 1 THEN e.start ELSE e.end - 1
<1>1. e.start \in Int /\ e.end \in Int /\ e.end - 1 \in Int
  BY DEF Event
<1>2. StartDate(e) = e.start
  BY DEF StartDate
<1>3. LastInclusiveDate(e) = Max({e.start, e.end - 1})
  BY <1>2 DEF LastInclusiveDate
<1> QED BY <1>1, <1>2, <1>3, TwoExtremes

(* The fields of an event, or of what a new one is created from.           *)
FieldsShow(f, item, e, endDate) ==
  /\ f \in Form /\ f.item = item /\ f.titled = e.titled /\ f.writable
  /\ f.allDay = e.allDay /\ f.date = StartDate(e) /\ f.endDate = endDate
  /\ f.shiftFrom = f.date /\ f.preserved = e.mail

LEMMA FieldsAre ==
  ASSUME NEW item \in Nat, NEW e \in Event, NEW endDate \in Int
  PROVE  /\ FieldsShow(Fields(item, FALSE, e, endDate), item, e, endDate)
         /\ ~Fields(item, FALSE, e, endDate).create
         /\ FieldsShow(Fields(item, TRUE, e, endDate), item, e, endDate)
         /\ Fields(item, TRUE, e, endDate).create
<1>1. StartDate(e) \in Int
  BY InstantParts DEF StartDate, Event
<1>2. 0 \in Time
  BY LayoutAssumption DEF Time
<1> QED BY <1>1, <1>2 DEF Fields, FieldsShow, Form, Event, Presets, Units, Off

LEMMA WithTimesIs ==
  ASSUME NEW f \in Form, NEW e \in Event
  PROVE  LET g == WithTimes(f, e)
         IN  /\ g \in Form /\ g.item = f.item /\ g.create = f.create /\ g.titled = f.titled
             /\ g.writable = f.writable /\ g.allDay = f.allDay /\ g.date = f.date
             /\ g.endDate = f.endDate /\ g.shiftFrom = f.shiftFrom /\ g.preserved = f.preserved
             /\ g.startTime = TimeOf(e.start) /\ g.endTime = TimeOf(e.end)
<1>1. TimeOf(e.start) \in Time /\ TimeOf(e.end) \in Time
  BY InstantParts DEF Event
<1> QED BY <1>1 DEF WithTimes, Form

(* An event opened in the dialog is shown as it is.                        *)
LEMMA EditIs ==
  ASSUME NEW item \in Nat, NEW e, EventOk(e), NEW h, h = Edit(item, e)
  PROVE  /\ FormOk(h, e) /\ h.item = item /\ ~h.create
         /\ h.titled = e.titled /\ h.writable /\ h.allDay = e.allDay
         /\ e.allDay => h.date = e.start /\ h.endDate = e.end - 1
         /\ ~e.allDay => At(h.date, h.startTime) = e.start /\ At(h.endDate, h.endTime) = e.end
         /\ SelectedReminderMinutes(h) = h.original
<1>0. e \in Event /\ e.allDay \in BOOLEAN /\ e.start \in Int /\ e.end \in Int
  BY DEF EventOk, Event
<1>1. PICK f : f = IF e.allDay THEN Fields(item, FALSE, e, LastInclusiveDate(e))
                  ELSE WithTimes(Fields(item, FALSE, e, DayOf(e.end)), e)
  OBVIOUS
<1>2. /\ f \in Form /\ f.item = item /\ ~f.create /\ f.titled = e.titled /\ f.writable
      /\ f.allDay = e.allDay /\ f.shiftFrom = f.date /\ f.preserved = e.mail
      /\ e.allDay => f.date = e.start /\ f.endDate = e.end - 1
      /\ ~e.allDay => At(f.date, f.startTime) = e.start /\ At(f.endDate, f.endTime) = e.end
  <2>1. CASE e.allDay
    <3>1. StartDate(e) = e.start /\ LastInclusiveDate(e) = e.end - 1 /\ e.end - 1 \in Int
      BY <1>0, <2>1, AllDayDates DEF EventOk
    <3>2. FieldsShow(f, item, e, e.end - 1) /\ ~f.create
      BY <1>0, <1>1, <2>1, <3>1, FieldsAre
    <3> QED BY <2>1, <3>1, <3>2 DEF FieldsShow
  <2>2. CASE ~e.allDay
    <3>1. /\ DayOf(e.end) \in Int /\ StartDate(e) = DayOf(e.start)
          /\ At(DayOf(e.start), TimeOf(e.start)) = e.start
          /\ At(DayOf(e.end), TimeOf(e.end)) = e.end
      BY <1>0, <2>2, InstantParts DEF StartDate
    <3>2. PICK g : g = Fields(item, FALSE, e, DayOf(e.end))
      OBVIOUS
    <3>3. /\ g \in Form /\ g.item = item /\ ~g.create /\ g.titled = e.titled
          /\ g.writable /\ g.allDay = e.allDay /\ g.date = StartDate(e)
          /\ g.endDate = DayOf(e.end) /\ g.shiftFrom = g.date /\ g.preserved = e.mail
      <4>1. FieldsShow(g, item, e, DayOf(e.end)) /\ ~g.create
        BY <1>0, <3>1, <3>2, FieldsAre
      <4> QED BY <4>1 DEF FieldsShow
    <3>4. f = WithTimes(g, e)
      BY <1>1, <2>2, <3>2
    <3> QED BY <1>0, <2>2, <3>1, <3>3, <3>4, WithTimesIs
  <2> QED BY <1>0, <2>1, <2>2
<1>3. PICK popup \in Nat \cup {Off} : popup = PopupOf(e)
  BY <1>0, PopupIs
<1>4. PICK g : g = Seeded(f, popup)
  OBVIOUS
<1>5. g \in Form /\ SameFields(g, f) /\ g.original = popup /\ SelectedReminderMinutes(g) = popup
  BY <1>2, <1>4, SeededIs
<1>6. h = UpdateOkEnabled(g)
  BY <1>1, <1>3, <1>4 DEF Edit, PopupOf
<1>7. h \in Form /\ SameFields(h, g) /\ SameReminder(h, g) /\ OkIs(h)
  BY <1>5, <1>6, UpdateOkIs
<1>8. SelectedReminderMinutes(h) = popup
  BY <1>5, <1>7 DEF SelectedReminderMinutes, SameReminder
<1> QED BY <1>2, <1>3, <1>5, <1>7, <1>8 DEF FormOk, SameFields, SameReminder

LEMMA CreateIs ==
  ASSUME NEW item \in Nat, NEW d \in Int, NEW time \in Time, NEW writable \in BOOLEAN,
         NEW j, j = Create(item, d, time, writable)
  PROVE  FormOk(j, Blank) /\ j.item = item /\ j.create
<1>1. PICK e : e = [Blank EXCEPT !.start = At(d, time), !.end = At(d, time) + HourSlots]
  OBVIOUS
<1>2. e \in Event /\ e.mail = Blank.mail /\ e.end \in Int
  <2>1. At(d, time) \in Int
    BY PartsInstant
  <2>2. HourSlots \in Int
    BY DialogAssumption, LayoutAssumption
  <2>3. PICK a \in Int, b \in Int : a = At(d, time) /\ b = At(d, time) + HourSlots
    BY <2>1, <2>2
  <2>4. e = [Blank EXCEPT !.start = a, !.end = b] /\ Blank \in Event
    BY <1>1, <2>3, BlankIs DEF EventOk
  <2> QED BY <2>4 DEF Event
<1>3. PICK f : f = Fields(item, TRUE, e, DayOf(e.end))
  OBVIOUS
<1>4. f \in Form /\ f.item = item /\ f.create /\ f.shiftFrom = f.date /\ f.preserved = e.mail
  <2>1. DayOf(e.end) \in Int
    BY <1>2, InstantParts
  <2>2. FieldsShow(f, item, e, DayOf(e.end)) /\ f.create
    BY <1>2, <1>3, <2>1, FieldsAre
  <2> QED BY <2>2 DEF FieldsShow
<1>5. PICK g : g = WithTimes(f, e)
  OBVIOUS
<1>6. g \in Form /\ g.item = item /\ g.create /\ g.shiftFrom = g.date /\ g.preserved = e.mail
  BY <1>2, <1>4, <1>5, WithTimesIs
<1>7. PICK h : h = [g EXCEPT !.writable = writable]
  OBVIOUS
<1>8. h \in Form /\ h.item = item /\ h.create /\ h.shiftFrom = h.date /\ h.preserved = e.mail
  BY <1>6, <1>7 DEF Form
<1>9. PICK i : i = Seeded(h, Off)
  OBVIOUS
<1>10. i \in Form /\ SameFields(i, h) /\ i.original = Off
  BY <1>8, <1>9, SeededIs
<1>11. j = UpdateOkEnabled(i)
  BY <1>1, <1>3, <1>5, <1>7, <1>9 DEF Create
<1>12. j \in Form /\ SameFields(j, i) /\ SameReminder(j, i) /\ OkIs(j)
  BY <1>10, <1>11, UpdateOkIs
<1> QED BY <1>2, <1>8, <1>10, <1>12, BlankIs DEF FormOk, SameFields, SameReminder

-----------------------------------------------------------------------------
(* What follows from the form, for the event it is about.                  *)

LEMMA OkIsValid ==
  ASSUME NEW f, NEW e, FormOk(f, e)
  PROVE  f.ok <=> f.titled /\ f.writable /\ BuildRequest(f).start < BuildRequest(f).end
<1>1. PICK r : r = BuildRequest(f)
  OBVIOUS
<1>2. /\ f.allDay => r.start = f.date /\ r.end = f.endDate + 1
      /\ ~f.allDay => r.start = At(f.date, f.startTime) /\ r.end = At(f.endDate, f.endTime)
      /\ f.allDay \in BOOLEAN /\ f.date \in Int /\ f.endDate \in Int
  BY <1>1, RequestFields DEF FormOk, Form
<1>3. OrderingOk(f) <=> r.start < r.end
  BY <1>2 DEF OrderingOk
<1> QED BY <1>1, <1>3 DEF FormOk, OkIs

(* What is saved is an event again, whatever the server makes of it.       *)
LEMMA SavedOk ==
  ASSUME NEW f, NEW e, e = Before(f), EventOk(e), FormOk(f, e), f.ok, NEW a \in Saved(f)
  PROVE  EventOk(a)
<1>1. /\ a \in Event /\ (AsAsked(a, f) \/ AsItWas(a, f, e))
      /\ SameReminders(a, e) \/ ~a.useDefault
  BY SavedFields DEF FormOk, EventOk
<1>2. AsAsked(a, f) /\ a.allDay => a.start < a.end
  <2>1. BuildRequest(f).start < BuildRequest(f).end
    BY OkIsValid
  <2> QED BY <2>1, RequestFields DEF AsAsked, FormOk
<1>3. AsItWas(a, f, e) /\ a.allDay => a.start < a.end
  BY DEF AsItWas, EventOk
<1>4. a.useDefault => a.popups = <<>> /\ ~a.mail
  BY <1>1 DEF SameReminders, EventOk
<1> QED BY <1>1, <1>2, <1>3, <1>4 DEF EventOk

LEMMA ShownIsSaved ==
  ASSUME NEW f, NEW e, e = Before(f), EventOk(e), FormOk(f, e), f.ok, NEW a \in Saved(f),
         f.create \/ f.allDay = e.allDay
  PROVE  /\ a.allDay = f.allDay
         /\ a.allDay => <<StartDate(a), LastInclusiveDate(a)>> = <<f.date, f.endDate>>
         /\ ~a.allDay => /\ <<DayOf(a.start), TimeOf(a.start)>> = <<f.date, f.startTime>>
                         /\ <<DayOf(a.end), TimeOf(a.end)>> = <<f.endDate, f.endTime>>
<1>1. a \in Event /\ AsAsked(a, f) /\ EventOk(a)
  <2>1. a \in Event /\ (AsAsked(a, f) \/ AsItWas(a, f, e))
    BY SavedFields DEF FormOk, EventOk
  <2>2. EventOk(a)
    BY SavedOk
  <2> QED BY <2>1, <2>2 DEF AsItWas
<1>2. /\ f.date \in Int /\ f.endDate \in Int /\ f.startTime \in Time /\ f.endTime \in Time
      /\ f.allDay \in BOOLEAN
  BY DEF FormOk, Form
<1>3. ASSUME a.allDay PROVE StartDate(a) = f.date /\ LastInclusiveDate(a) = f.endDate
  BY <1>1, <1>2, <1>3, AllDayDates DEF AsAsked, EventOk
<1>4. ASSUME ~a.allDay
      PROVE  /\ DayOf(a.start) = f.date /\ TimeOf(a.start) = f.startTime
             /\ DayOf(a.end) = f.endDate /\ TimeOf(a.end) = f.endTime
  BY <1>1, <1>2, <1>4, PartsInstant DEF AsAsked
<1> QED BY <1>1, <1>3, <1>4 DEF AsAsked

LEMMA RemindersAreKept ==
  ASSUME NEW f, NEW e, e = Before(f), EventOk(e), FormOk(f, e), NEW a \in Saved(f)
  PROVE  IF SelectedReminderMinutes(f) = PopupOf(e)
         THEN <<a.popups, a.mail, a.useDefault>> = <<e.popups, e.mail, e.useDefault>>
         ELSE /\ a.popups = IF SelectedReminderMinutes(f) = Off THEN <<>>
                            ELSE <<SelectedReminderMinutes(f)>>
              /\ a.mail = e.mail
              /\ ~a.useDefault
BY SavedFields DEF FormOk, EventOk, SameReminders

(* A form as it was opened leaves one event, the one it was opened for.    *)
LEMMA UntouchedIsSame ==
  ASSUME NEW f, NEW e, e = Before(f), EventOk(e), f = Edit(f.item, e), f.item \in Nat, f.ok
  PROVE  Saved(f) = {e}
<1>1. /\ FormOk(f, e) /\ ~f.create /\ f.titled = e.titled /\ f.writable /\ f.allDay = e.allDay
      /\ e.allDay => f.date = e.start /\ f.endDate = e.end - 1
      /\ ~e.allDay => At(f.date, f.startTime) = e.start /\ At(f.endDate, f.endTime) = e.end
      /\ SelectedReminderMinutes(f) = f.original
  BY EditIs
<1>2. f \in Form /\ e \in Event /\ e.titled /\ e.start \in Int /\ e.end \in Int
  BY <1>1 DEF EventOk, Event, FormOk, OkIs
<1>3. ASSUME NEW a \in Saved(f) PROVE a = e
  <2>1. a \in Event /\ a.titled /\ AsAsked(a, f) /\ SameReminders(a, e)
    <3>1. /\ a \in Event /\ a.titled /\ SameReminders(a, e)
          /\ AsAsked(a, f) \/ AsItWas(a, f, e)
      BY <1>1, <1>2, SavedFields DEF FormOk
    <3> QED BY <1>1, <3>1 DEF AsItWas
  <2>2. a.allDay = e.allDay /\ a.start = e.start /\ a.end = e.end
    BY <1>1, <1>2, <2>1 DEF AsAsked, Form
  <2> QED BY <1>2, <2>1, <2>2 DEF Event, SameReminders
<1>4. Saved(f) # {}
  BY DEF Saved, Patched
<1> QED BY <1>3, <1>4

-----------------------------------------------------------------------------
(* The dialog: every event can be shown, the open form shows the event it  *)
(* is about, and one nothing was changed in is that event's.               *)

OpenOk ==
  /\ FormOk(form, Before(form))
  /\ form.item \in 1..Len(events) + 1
  /\ ~form.create => form.item \in 1..Len(events)
  /\ edits = 0 /\ ~form.create => form = Edit(form.item, events[form.item])

DialogInv ==
  /\ events \in Seq(Event)
  /\ \A i \in 1..Len(events) : EventOk(events[i])
  /\ edits \in 0..MaxEdits
  /\ (form = Closed /\ edits = 0) \/ OpenOk

LEMMA ClosedIs == Closed.item = 0
BY DEF Closed

LEMMA OpenIs ==
  ASSUME DialogInv
  PROVE  /\ IsOpen <=> form # Closed
         /\ IsOpen => OpenOk /\ EventOk(Before(form)) /\ form \in Form
         /\ ~IsOpen => form = Closed /\ edits = 0
<1>1. CASE form = Closed /\ edits = 0
  BY <1>1, ClosedIs DEF IsOpen
<1>2. CASE OpenOk
  <2>1. form.item # 0 /\ form \in Form
    BY <1>2 DEF OpenOk, FormOk, DialogInv
  <2>2. form # Closed
    BY <2>1, ClosedIs
  <2>3. EventOk(Before(form))
    BY <1>2, BlankIs DEF Before, OpenOk, DialogInv
  <2> QED BY <1>2, <2>1, <2>2, <2>3 DEF IsOpen
<1> QED BY <1>1, <1>2 DEF DialogInv

LEMMA DialogInvImplies ==
  ASSUME DialogInv
  PROVE  DialogTypeOK /\ OkMeansValid /\ UntouchedSavesTheSame /\ SavedAsShown
<1>1. DialogTypeOK
  <2>1. \A i \in DOMAIN events : events[i] \in Event
    BY DEF DialogInv
  <2>2. form \in Form \cup {Closed}
    BY OpenIs
  <2>3. IsOpen => form.item \in 1..Len(events) + 1 /\ form.shiftFrom = form.date
    BY OpenIs DEF OpenOk, FormOk
  <2> QED BY <2>1, <2>2, <2>3 DEF DialogTypeOK, DialogInv
<1>2. OkMeansValid
  <2> SUFFICES ASSUME IsOpen
               PROVE  form.ok <=> /\ form.titled /\ form.writable
                                  /\ BuildRequest(form).start < BuildRequest(form).end
    BY DEF OkMeansValid
  <2> QED BY OpenIs, OkIsValid DEF OpenOk
<1>3. UntouchedSavesTheSame
  <2> SUFFICES ASSUME IsOpen, ~form.create, edits = 0, form.ok
               PROVE  Saved(form) = {events[form.item]}
    BY DEF UntouchedSavesTheSame
  <2>1. PICK e : e = events[form.item]
    OBVIOUS
  <2>2. e = Before(form) /\ EventOk(e) /\ form = Edit(form.item, e) /\ form.item \in Nat
    BY <2>1, OpenIs DEF OpenOk, Before, FormOk, Form
  <2> QED BY <2>1, <2>2, UntouchedIsSame
<1>4. DatesAsShown
  <2> SUFFICES ASSUME IsOpen, form.ok, form.create \/ form.allDay = Before(form).allDay,
                      NEW e \in Saved(form)
               PROVE  /\ e.allDay = form.allDay
                      /\ e.allDay => <<StartDate(e), LastInclusiveDate(e)>> = <<form.date, form.endDate>>
                      /\ ~e.allDay => /\ <<DayOf(e.start), TimeOf(e.start)>> = <<form.date, form.startTime>>
                                      /\ <<DayOf(e.end), TimeOf(e.end)>> = <<form.endDate, form.endTime>>
    BY DEF DatesAsShown
  <2>1. PICK before : before = Before(form)
    OBVIOUS
  <2>2. FormOk(form, before) /\ EventOk(before)
    BY <2>1, OpenIs DEF OpenOk
  <2> QED BY <2>1, <2>2, ShownIsSaved
<1>5. RemindersKept
  <2> SUFFICES ASSUME IsOpen, form.ok, NEW e \in Saved(form), NEW before, before = Before(form),
                      NEW shown, shown = SelectedReminderMinutes(form)
               PROVE  IF shown = PopupOf(before)
                      THEN <<e.popups, e.mail, e.useDefault>>
                             = <<before.popups, before.mail, before.useDefault>>
                      ELSE /\ e.popups = IF shown = Off THEN <<>> ELSE <<shown>>
                           /\ e.mail = before.mail
                           /\ ~e.useDefault
    BY DEF RemindersKept
  <2>1. FormOk(form, before) /\ EventOk(before)
    BY OpenIs DEF OpenOk
  <2> QED BY <2>1, RemindersAreKept
<1> QED BY <1>1, <1>2, <1>3, <1>4, <1>5 DEF SavedAsShown

-----------------------------------------------------------------------------
(* Every change of a field keeps the form about its event.                 *)

LEMMA UpdatedForm ==
  ASSUME NEW f, NEW e, FormOk(f, e), NEW g \in Form,
         g.item = f.item, g.create = f.create, g.original = f.original,
         g.preserved = f.preserved, g.shiftFrom = g.date,
         NEW h, h = UpdateOkEnabled(g)
  PROVE  FormOk(h, e) /\ h.item = f.item /\ h.create = f.create
<1>1. h \in Form /\ SameFields(h, g) /\ SameReminder(h, g) /\ OkIs(h)
  BY UpdateOkIs
<1> QED BY <1>1 DEF FormOk, SameFields, SameReminder

LEMMA ReminderForm ==
  ASSUME NEW f, NEW e, FormOk(f, e), NEW h \in Form, SameFields(h, f),
         h.original = f.original, h.ok = f.ok
  PROVE  FormOk(h, e) /\ h.item = f.item /\ h.create = f.create
<1>1. OrderingOk(h) <=> OrderingOk(f)
  BY DEF OrderingOk, SameFields
<1> QED BY <1>1 DEF FormOk, OkIs, SameFields

LEMMA ChangeKeeps ==
  ASSUME DialogInv, IsOpen, NEW f, FormOk(f, Before(form)), f.item = form.item,
         f.create = form.create, Change(f)
  PROVE  DialogInv'
<1>1. /\ form' = f /\ edits' = edits + 1 /\ edits < MaxEdits /\ events' = events
  BY DEF Change
<1>2. OpenOk /\ edits \in 0..MaxEdits /\ MaxEdits \in Nat
  BY OpenIs, DialogAssumption DEF DialogInv
<1>3. Before(form)' = Before(form)
  BY <1>1 DEF Before
<1>4. FormOk(form, Before(form))'
  BY <1>1, <1>3 DEF FormOk, OkIs, OrderingOk
<1>5. edits' \in 0..MaxEdits /\ edits' # 0
  BY <1>1, <1>2
<1> QED BY <1>1, <1>2, <1>4, <1>5 DEF DialogInv, OpenOk

(* The bounds of the dialog, one by one.                                   *)
LEMMA DialogBounds ==
  /\ MaxEdits \in Nat
  /\ 0 \in 0..MaxEdits
  /\ \A d \in FormDays : d \in Int
  /\ \A c \in Minutes : c \in Presets
  /\ \A v \in CustomValues : v \in Nat
<1>1. MaxEdits \in Nat
  BY DialogAssumption
<1>2. FormDays \subseteq Int
  BY DialogAssumption
<1>3. Minutes \subseteq Presets
  BY DialogAssumption
<1>4. CustomValues \subseteq 0..LongestReminder
  BY DialogAssumption
<1> QED BY <1>1, <1>2, <1>3, <1>4

LEMMA FieldChanges ==
  ASSUME DialogInv,
         \/ EditTitle \/ OnAllDayToggled
         \/ \E d \in FormDays : OnStartDateChanged(d) \/ EditEndDate(d)
         \/ \E t \in Time : EditStartTime(t) \/ EditEndTime(t)
  PROVE  DialogInv'
<1>0. IsOpen
  BY DEF EditTitle, OnAllDayToggled, OnStartDateChanged, EditEndDate, EditStartTime, EditEndTime
<1>1. /\ form \in Form /\ FormOk(form, Before(form)) /\ form.shiftFrom = form.date
      /\ form.endDate \in Int /\ form.date \in Int
  BY <1>0, OpenIs DEF OpenOk, FormOk, Form
<1>2. ASSUME NEW g \in Form, g.item = form.item, g.create = form.create,
             g.original = form.original, g.preserved = form.preserved, g.shiftFrom = g.date,
             Change(UpdateOkEnabled(g))
      PROVE  DialogInv'
  <2>1. PICK f, e : f = form /\ e = Before(form)
    OBVIOUS
  <2>2. PICK h : h = UpdateOkEnabled(g)
    OBVIOUS
  <2>3. FormOk(h, e) /\ h.item = f.item /\ h.create = f.create
    BY <1>1, <1>2, <2>1, <2>2, UpdatedForm
  <2> QED BY <1>0, <1>2, <2>1, <2>2, <2>3, ChangeKeeps
<1>3. CASE EditTitle
  <2>1. (~form.titled) \in BOOLEAN
    OBVIOUS
  <2>2. PICK b \in BOOLEAN : b = ~form.titled
    BY <2>1
  <2>3. Change(UpdateOkEnabled([form EXCEPT !.titled = b]))
    BY <1>3, <2>2 DEF EditTitle
  <2>4. PICK g : g = [form EXCEPT !.titled = b]
    OBVIOUS
  <2>5. /\ g \in Form /\ g.item = form.item /\ g.create = form.create
        /\ g.original = form.original /\ g.preserved = form.preserved /\ g.shiftFrom = g.date
    BY <1>1, <2>4 DEF Form
  <2> QED BY <1>2, <2>3, <2>4, <2>5
<1>4. CASE OnAllDayToggled
  <2>1. (~form.allDay) \in BOOLEAN
    OBVIOUS
  <2>2. PICK b \in BOOLEAN : b = ~form.allDay
    BY <2>1
  <2>3. Change(UpdateOkEnabled([form EXCEPT !.allDay = b]))
    BY <1>4, <2>2 DEF OnAllDayToggled
  <2>4. PICK g : g = [form EXCEPT !.allDay = b]
    OBVIOUS
  <2>5. /\ g \in Form /\ g.item = form.item /\ g.create = form.create
        /\ g.original = form.original /\ g.preserved = form.preserved /\ g.shiftFrom = g.date
    BY <1>1, <2>4 DEF Form
  <2> QED BY <1>2, <2>3, <2>4, <2>5
<1>5. ASSUME NEW d \in FormDays, OnStartDateChanged(d) PROVE DialogInv'
  <2>1. d \in Int
    BY DialogAssumption
  <2>2. PICK endDate \in Int : endDate = form.endDate + (d - form.shiftFrom)
    BY <1>1, <2>1
  <2>3. PICK g : g = [form EXCEPT !.date = d, !.endDate = endDate, !.shiftFrom = d]
    OBVIOUS
  <2>4. Change(UpdateOkEnabled(g))
    BY <1>5, <2>2, <2>3 DEF OnStartDateChanged
  <2>5. /\ g \in Form /\ g.item = form.item /\ g.create = form.create
        /\ g.original = form.original /\ g.preserved = form.preserved /\ g.shiftFrom = g.date
    BY <1>1, <2>1, <2>3 DEF Form
  <2> QED BY <1>2, <2>4, <2>5
<1>6. ASSUME NEW d \in FormDays, EditEndDate(d) PROVE DialogInv'
  <2>1. d \in Int
    BY DialogAssumption
  <2>2. PICK g : g = [form EXCEPT !.endDate = d]
    OBVIOUS
  <2>3. Change(UpdateOkEnabled(g))
    BY <1>6, <2>2 DEF EditEndDate
  <2>4. /\ g \in Form /\ g.item = form.item /\ g.create = form.create
        /\ g.original = form.original /\ g.preserved = form.preserved /\ g.shiftFrom = g.date
    BY <1>1, <2>1, <2>2 DEF Form
  <2> QED BY <1>2, <2>3, <2>4
<1>7. ASSUME NEW t \in Time, EditStartTime(t) \/ EditEndTime(t) PROVE DialogInv'
  <2>1. PICK g : /\ g = [form EXCEPT !.startTime = t] \/ g = [form EXCEPT !.endTime = t]
                 /\ Change(UpdateOkEnabled(g))
    BY <1>7 DEF EditStartTime, EditEndTime
  <2>2. /\ g \in Form /\ g.item = form.item /\ g.create = form.create
        /\ g.original = form.original /\ g.preserved = form.preserved /\ g.shiftFrom = g.date
    BY <1>1, <2>1 DEF Form
  <2> QED BY <1>2, <2>1, <2>2
<1> QED BY <1>3, <1>4, <1>5, <1>6, <1>7

LEMMA ReminderChanges ==
  ASSUME DialogInv,
         \/ ToggleReminder
         \/ \E c \in Minutes \cup {Custom} : ChooseReminder(c)
         \/ \E v \in CustomValues, u \in Units : EditCustomReminder(v, u)
  PROVE  DialogInv'
<1>0. IsOpen
  BY DEF ToggleReminder, ChooseReminder, EditCustomReminder
<1>1. form \in Form /\ FormOk(form, Before(form))
  BY <1>0, OpenIs DEF OpenOk
<1>2. ASSUME NEW check \in BOOLEAN, NEW choice \in Presets \cup {Custom},
             NEW value \in Nat, NEW unit \in Units, NEW h,
             \/ h = [form EXCEPT !.check = check] \/ h = [form EXCEPT !.choice = choice]
             \/ h = [form EXCEPT !.value = value, !.unit = unit],
             Change(h)
      PROVE  DialogInv'
  <2>1. PICK f, e : f = form /\ e = Before(form)
    OBVIOUS
  <2>2. FormOk(h, e) /\ h.item = f.item /\ h.create = f.create
    <3>1. FormOk(f, e) /\ f \in Form
      BY <1>1, <2>1
    <3>2. h \in Form /\ SameFields(h, f) /\ h.original = f.original /\ h.ok = f.ok
      BY <1>2, <2>1, <3>1 DEF Form, SameFields
    <3> QED BY <3>1, <3>2, ReminderForm
  <2> QED BY <1>0, <1>2, <2>1, <2>2, ChangeKeeps
<1>3. /\ form.check \in BOOLEAN /\ form.choice \in Presets \cup {Custom} /\ form.value \in Nat
      /\ form.unit \in Units
  BY <1>1 DEF Form
<1>4. CASE ToggleReminder
  <2>1. (~form.check) \in BOOLEAN
    OBVIOUS
  <2>2. PICK b \in BOOLEAN : b = ~form.check
    BY <2>1
  <2>3. Change([form EXCEPT !.check = b])
    BY <1>4, <2>2 DEF ToggleReminder
  <2> QED BY <1>2, <1>3, <2>3
<1>5. ASSUME NEW c \in Minutes \cup {Custom}, ChooseReminder(c) PROVE DialogInv'
  <2>1. c \in Presets \cup {Custom}
    BY DialogBounds
  <2>2. Change([form EXCEPT !.choice = c])
    BY <1>5 DEF ChooseReminder
  <2> QED BY <1>2, <1>3, <2>1, <2>2
<1>6. ASSUME NEW v \in CustomValues, NEW u \in Units, EditCustomReminder(v, u) PROVE DialogInv'
  <2>1. v \in Nat
    BY DialogBounds
  <2>2. Change([form EXCEPT !.value = v, !.unit = u])
    BY <1>6 DEF EditCustomReminder
  <2> QED BY <1>2, <1>3, <2>1, <2>2
<1> QED BY <1>4, <1>5, <1>6

LEMMA DialogOpens ==
  ASSUME DialogInv,
         \/ \E d \in FormDays, time \in Time, writable \in BOOLEAN : OpenNew(d, time, writable)
         \/ \E i \in DOMAIN events : OpenEdit(i)
  PROVE  DialogInv'
<1>1. edits = 0 /\ UNCHANGED <<events, edits>>
  BY OpenIs DEF OpenNew, OpenEdit
<1>2. ASSUME NEW d \in FormDays, NEW time \in Time, NEW writable \in BOOLEAN,
             OpenNew(d, time, writable)
      PROVE  OpenOk'
  <2>1. d \in Int /\ Len(events) + 1 \in Nat /\ Len(events) \in Nat
    <3>1. d \in Int
      BY DialogBounds
    <3>2. events \in Seq(Event)
      BY DEF DialogInv
    <3> QED BY <3>1, <3>2
  <2>2. PICK j : j = Create(Len(events) + 1, d, time, writable)
    OBVIOUS
  <2>3. FormOk(j, Blank) /\ j.item = Len(events) + 1 /\ j.create
    BY <2>1, <2>2, CreateIs
  <2>4. form' = j /\ Before(form)' = Blank
    BY <1>2, <2>2, <2>3 DEF OpenNew, Before
  <2>5. FormOk(form, Before(form))'
    BY <2>3, <2>4 DEF FormOk, OkIs, OrderingOk
  <2> QED BY <1>1, <2>1, <2>3, <2>4, <2>5 DEF OpenOk
<1>3. ASSUME NEW i \in DOMAIN events, OpenEdit(i) PROVE OpenOk'
  <2>1. i \in 1..Len(events) /\ i \in Nat /\ Len(events) \in Nat /\ EventOk(events[i])
    BY DEF DialogInv
  <2>2. PICK e : e = events[i]
    OBVIOUS
  <2>3. PICK j : j = Edit(i, e)
    OBVIOUS
  <2>4. FormOk(j, e) /\ j.item = i /\ ~j.create
    BY <2>1, <2>2, <2>3, EditIs
  <2>5. form' = j /\ Before(form)' = e
    BY <1>1, <1>3, <2>2, <2>3, <2>4 DEF OpenEdit, Before
  <2>6. FormOk(form, Before(form))'
    BY <2>4, <2>5 DEF FormOk, OkIs, OrderingOk
  <2>7. form' = Edit(i, e) /\ events' = events /\ form'.item = i
    BY <1>1, <2>3, <2>4, <2>5
  <2>8. (edits = 0 /\ ~form.create => form = Edit(form.item, events[form.item]))'
    BY <2>2, <2>7 DEF Edit
  <2> QED BY <1>1, <2>1, <2>6, <2>7, <2>8 DEF OpenOk
<1> QED BY <1>1, <1>2, <1>3 DEF DialogInv

LEMMA DialogCloses ==
  ASSUME DialogInv, OnOkClicked \/ Cancel
  PROVE  DialogInv'
<1>0. /\ IsOpen /\ form' = Closed /\ edits' = 0 /\ 0 \in 0..MaxEdits
      /\ OpenOk /\ EventOk(Before(form)) /\ events \in Seq(Event)
      /\ \A i \in 1..Len(events) : EventOk(events[i])
  <2>1. IsOpen /\ form' = Closed /\ edits' = 0
    BY DEF OnOkClicked, Cancel, Close
  <2>2. OpenOk /\ EventOk(Before(form))
    BY <2>1, OpenIs
  <2>3. events \in Seq(Event) /\ \A i \in 1..Len(events) : EventOk(events[i])
    BY DEF DialogInv
  <2> QED BY <2>1, <2>2, <2>3, DialogBounds
<1>1. CASE Cancel
  BY <1>0, <1>1 DEF Cancel, DialogInv
<1>2. CASE OnOkClicked
  <2>1. PICK a \in Saved(form) : events' = IF form.create THEN Append(events, a)
                                          ELSE [events EXCEPT ![form.item] = a]
    BY <1>2 DEF OnOkClicked
  <2>2. PICK e : e = Before(form)
    OBVIOUS
  <2>3. EventOk(a) /\ a \in Event
    <3>1. FormOk(form, e) /\ EventOk(e) /\ form.ok
      BY <1>0, <1>2, <2>2 DEF OpenOk, OnOkClicked
    <3>2. EventOk(a)
      BY <2>2, <3>1, SavedOk
    <3> QED BY <3>2 DEF EventOk
  <2>4. CASE form.create
    <3>1. events' = Append(events, a)
      BY <2>1, <2>4
    <3>2. /\ events' \in Seq(Event) /\ Len(events') = Len(events) + 1 /\ Len(events) \in Nat
          /\ \A i \in 1..Len(events) : events'[i] = events[i]
          /\ events'[Len(events) + 1] = a
      BY <1>0, <2>3, <3>1
    <3>3. \A i \in 1..Len(events') : EventOk(events'[i])
      BY <1>0, <2>3, <3>2
    <3> QED BY <1>0, <3>2, <3>3 DEF DialogInv
  <2>5. CASE ~form.create
    <3>1. events' = [events EXCEPT ![form.item] = a] /\ form.item \in 1..Len(events)
      BY <1>0, <2>1, <2>5 DEF OpenOk
    <3>2. /\ events' \in Seq(Event) /\ Len(events') = Len(events)
          /\ \A i \in 1..Len(events) : events'[i] = IF i = form.item THEN a ELSE events[i]
      BY <1>0, <2>3, <3>1
    <3>3. \A i \in 1..Len(events') : EventOk(events'[i])
      BY <1>0, <2>3, <3>2
    <3> QED BY <1>0, <3>2, <3>3 DEF DialogInv
  <2> QED BY <2>4, <2>5
<1> QED BY <1>1, <1>2

LEMMA InitDialog == Init => DialogInv
BY DialogBounds DEF Init, DialogInit, DialogInv

LEMMA StepDialog == DialogInv /\ [Next]_vars => DialogInv'
<1> SUFFICES ASSUME DialogInv, [Next]_vars PROVE DialogInv'
  OBVIOUS
<1>1. CASE UNCHANGED dialogVars
  <2>1. UNCHANGED <<events, form, edits>>
    BY <1>1 DEF dialogVars
  <2>2. OpenOk => OpenOk'
    BY <2>1 DEF OpenOk, FormOk, OkIs, OrderingOk, Before
  <2> QED BY <2>1, <2>2 DEF DialogInv
<1>2. CASE EventsFetched
  <2>1. PICK e \in Arrivals : events' = Append(events, e)
    BY <1>2 DEF EventsFetched
  <2>2. EventOk(e) /\ e \in Event
    BY PagesAssumption DEF EventOk
  <2>3. /\ form' = Closed /\ edits' = 0 /\ 0 \in 0..MaxEdits
        /\ events \in Seq(Event) /\ \A i \in 1..Len(events) : EventOk(events[i])
    BY <1>2, OpenIs, DialogBounds DEF EventsFetched, DialogInv
  <2>4. /\ events' \in Seq(Event) /\ Len(events') = Len(events) + 1 /\ Len(events) \in Nat
        /\ \A i \in 1..Len(events) : events'[i] = events[i]
        /\ events'[Len(events) + 1] = e
    BY <2>1, <2>2, <2>3
  <2>5. \A i \in 1..Len(events') : EventOk(events'[i])
    BY <2>2, <2>3, <2>4
  <2> QED BY <2>3, <2>4, <2>5 DEF DialogInv
<1>3. CASE OpenDialog
  BY <1>3, DialogOpens DEF OpenDialog
<1>4. CASE DialogNext
  BY <1>4, FieldChanges, ReminderChanges, DialogCloses DEF DialogNext
<1>5. CASE \/ GoToPreviousMonth \/ GoToNextMonth \/ GoToTodayMonth \/ SelectDateInMonth
           \/ GoToPrevious \/ GoToNext \/ GoToTodayRange \/ SelectDateInRange
           \/ UNCHANGED vars
  <2>1. UNCHANGED dialogVars
    BY <1>5 DEF GoToPreviousMonth, GoToNextMonth, GoToTodayMonth, SelectDateInMonth,
      GoToPrevious, GoToNext, GoToTodayRange, SelectDateInRange, ShowMonth, ShowRange, vars
  <2> QED BY <1>1, <2>1
<1> QED BY <1>2, <1>3, <1>4, <1>5 DEF Next

-----------------------------------------------------------------------------
(* The theorems about the dialog.                                          *)

LEMMA DialogAlways == Spec => []DialogInv
<1> QED BY InitDialog, StepDialog, PTL DEF Spec

(* The pages stay in the stretch and aligned, the form and the events keep *)
(* their types.                                                            *)
THEOREM TypeCorrect == Spec => []TypeOK
<1>1. DialogInv /\ PagesInv => TypeOK
  BY DialogInvImplies DEF TypeOK, PagesInv
<1>2. Spec => []PagesInv
  BY InitPages, StepPages, PTL DEF Spec
<1> QED BY <1>1, <1>2, DialogAlways, PTL

(* OK is enabled exactly when the fields make an event the server takes,   *)
(* after any sequence of changes (updateOkEnabled's callers).              *)
THEOREM OkAlwaysMeansValid == Spec => []OkMeansValid
<1>1. DialogInv => OkMeansValid
  BY DialogInvImplies
<1> QED BY <1>1, DialogAlways, PTL

(* Any event survives being opened and saved unchanged, whatever its       *)
(* dates, its reminders and the division of the day (eventdialog.cpp).     *)
THEOREM UntouchedAlwaysSavesTheSame == Spec => []UntouchedSavesTheSame
<1>1. DialogInv => UntouchedSavesTheSame
  BY DialogInvImplies
<1> QED BY <1>1, DialogAlways, PTL

(* What is saved is on the days and at the times that the form showed,     *)
(* after any edits that keep the type of an existing event (buildRequest,  *)
(* buildUpdateEventBody), and no reminder is lost unless the form shows    *)
(* another popup (applyReminderToRequest, insertRemindersIfSet).           *)
THEOREM AlwaysSavedAsShown == Spec => []SavedAsShown
<1>1. DialogInv => SavedAsShown
  BY DialogInvImplies
<1> QED BY <1>1, DialogAlways, PTL

(* On every day of every page pills that share a moment in time are side   *)
(* by side and none is missing, whatever events there are (relayoutEvents, *)
(* groupByDate).                                                           *)
THEOREM PillsAlwaysTellTheDay == Spec => []PillsTellTheDay
<1>1. ASSUME DialogInv, PagesInv PROVE PillsTellTheDay
  <2>1. TimesOk(events) /\ \A i \in DOMAIN events : events[i].allDay \in BOOLEAN
    <3>1. events \in Seq(Event)
      BY <1>1 DEF DialogInv
    <3>2. Len(events) \in Nat /\ DOMAIN events = 1..Len(events)
      BY <3>1
    <3>3. \A i \in DOMAIN events : events[i] \in Event
      BY <3>1
    <3>4. \A e \in Event : e.start \in Int /\ e.end \in Int /\ e.allDay \in BOOLEAN
      BY DEF Event
    <3> QED BY <3>2, <3>3, <3>4 DEF TimesOk
  <2>2. \A d \in VisibleRange : d \in Int
    BY <1>1 DEF PagesInv, VisibleRange, DatesForRange
  <2> QED BY <2>1, <2>2, NothingIsCovered, NothingIsMissing DEF PillsTellTheDay
<1>2. Spec => []PagesInv
  BY InitPages, StepPages, PTL DEF Spec
<1> QED BY <1>1, <1>2, DialogAlways, PTL

=============================================================================
