SPECIFICATION LiveSpec
CONSTANTS
  Token = {t1}
  Caller = {a, b}
  NoToken = NoToken
  MaxReadRetries = 3
  MaxQueue = 1
  KeychainCanFail = TRUE
PROPERTIES AttemptsEnd WaitersAnswered SilentRecovery
