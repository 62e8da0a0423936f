SPECIFICATION LiveSpec
CONSTANTS
  month = month
  week = week
  Event = {e1, e2}
  View = {month, week}
  FirstView = month
  None = None
  MaxRequests = 2
INVARIANTS TypeOK SelectionIsOnScreen DeletesOnlyConfirmed ReplyHasOneOwner AppliedAtMostOnce
PROPERTIES NothingStuck
