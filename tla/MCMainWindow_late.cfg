SPECIFICATION Spec
CONSTANTS
  month = month
  week = week
  Account = {a1, a2}
  Calendar = {c1}
  View = {month, week}
  FirstView = month
  Nobody = Nobody
PROPERTIES LateListDropped
