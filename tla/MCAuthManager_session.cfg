SPECIFICATION Spec
CONSTANTS
  Token = {t1, t2}
  Caller = {a, b, c}
  NoToken = NoToken
  MaxReadRetries = 3
  MaxQueue = 2
  KeychainCanFail = FALSE
SYMMETRY TokenAndCallerSymmetry
INVARIANTS OneAttempt KeptWarm StoredIsTheSession WaitersHaveARefresh
PROPERTIES NoResurrection
