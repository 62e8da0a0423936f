SPECIFICATION PolledSpec
CONSTANTS
  Calendar = {c1}
  Event = {e1, e2}
  FireTime = {1, 3}
  NoTime = NoTime
  NoSchedule = NoSchedule
  NoAnswer = NoAnswer
  Lead = 1
  Window = 3
  Early = 0
  MaxNow = 1
  MaxVersion = 2
  SessionCanExpire = FALSE
INVARIANTS ScheduleNotOlderThanAck
PROPERTIES Converges
