SPECIFICATION Spec
CONSTANTS
  Calendar = {c1}
  Event = {e1}
  FireTime = {1, 2}
  NoTime = NoTime
  NoSchedule = NoSchedule
  NoAnswer = NoAnswer
  Lead = 1
  Window = 3
  Early = 0
  MaxNow = 2
  MaxVersion = 1
  SessionCanExpire = FALSE
PROPERTIES DueIsNotDropped
