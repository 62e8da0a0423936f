SPECIFICATION Spec
CONSTANTS
  m1 = m1
  m2 = m2
  Month = {m1, m2}
  Calendar = {c1}
  RequestId = {r1, r2}
  ViewRange <- OneOrBothMonths
  OnScreen <- BothMonths
  MaxVersion = 1
  RemoveCanFail = FALSE
  NoRequest = NoRequest
  NoBucket = NoBucket
  NoFile = NoFile
SYMMETRY IdSymmetry
INVARIANTS IndexConsistent NothingOlderThanAck
PROPERTIES ImplementsBucketCache
