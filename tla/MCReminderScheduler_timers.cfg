SPECIFICATION Spec
CONSTANTS
  Calendar = {c1, c2}
  Event = {e1}
  FireTime = {1, 2}
  NoTime = NoTime
  NoSchedule = NoSchedule
  NoAnswer = NoAnswer
  Lead = 1
  Window = 3
  Early = 1
  MaxNow = 1
  MaxVersion = 1
  SessionCanExpire = TRUE
SYMMETRY CalendarSymmetry
INVARIANTS TimersFollowSchedule
PROPERTIES RemindersOutliveFailures
