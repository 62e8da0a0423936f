SPECIFICATION Spec
CONSTANTS
  MonthLengths <- CommonYear
  DayZeroDow = 4
  SlotsPerDay = 3
  MaxSpanDays = 2
  HourSlots = 1
  FormDays <- FourDays
  Minutes = {10, 60}
  CustomValues = {1, 10}
  MaxEdits = 3
  Today = 29
  FirstDays = {1, 7}
  DayCounts = {1, 7}
  Arrivals <- SomeEvents
  MaxEvents = 3
  DialogEvents = 1
INVARIANTS TypeOK EveryBucketHasTheWholePage PillsTellTheDay OkMeansValid UntouchedSavesTheSame SavedAsShown
