SPECIFICATION LiveSpec
CONSTANTS
  m1 = m1
  m2 = m2
  month = month
  week = week
  Month = {m1, m2}
  Calendar = {c1}
  View = {month, week}
  RangesOf <- MonthAndWeek
  Polled = week
  MaxVersion = 1
  Nothing = Nothing
INVARIANTS TypeOK PaintedIsCached CycleReported
PROPERTIES NoBlankFlash ScreenConverges
