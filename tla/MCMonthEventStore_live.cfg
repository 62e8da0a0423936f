SPECIFICATION PolledSpec
CONSTANTS
  m1 = m1
  m2 = m2
  Month = {m1}
  Calendar = {c1}
  RequestId = {r1, r2}
  ViewRange <- OneMonth
  OnScreen <- FirstMonth
  MaxVersion = 2
  RemoveCanFail = TRUE
  NoRequest = NoRequest
  NoBucket = NoBucket
  NoFile = NoFile
INVARIANTS ConfirmedIsCurrent
PROPERTIES Settles Converges
