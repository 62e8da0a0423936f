---------------------------- MODULE MCEventViews ----------------------------
(* Instances of EventViews for TLC: the month view needs one month, a week *)
(* one or two neighbours.                                                  *)
EXTENDS EventViews, TLC

CONSTANTS m1, m2, month, week

MonthAndWeek ==
  (month :> {{m1}, {m2}}) @@ (week :> {{m1}, {m1, m2}})
=============================================================================
