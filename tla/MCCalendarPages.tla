---------------------------- MODULE MCCalendarPages ----------------------------
(* Instances of CalendarPages for TLC: a common year that began on a       *)
(* Thursday, today its last Friday of January; events on that day and the  *)
(* next, which a week from Monday shares with February.                    *)
EXTENDS CalendarPages

CommonYear == <<31, 28, 31, 30, 31, 30, 31, 31, 30, 31, 30, 31>>

Plain == [titled |-> TRUE, allDay |-> FALSE, start |-> 0, end |-> 0,
          popups |-> <<>>, mail |-> FALSE, useDefault |-> TRUE]

FirstDay == Today
LastDay == Today + 1

Moments == At(FirstDay, 0)..At(LastDay + 1, 0)

(* Every span of the two days, and an event without a duration.            *)
TimedEvents ==
  {[Plain EXCEPT !.start = p[1], !.end = p[2]] :
     p \in {q \in Moments \X Moments : q[1] < q[2]} \cup {<<At(LastDay, 1), At(LastDay, 1)>>}}

AllDayEvents ==
  {[Plain EXCEPT !.allDay = TRUE, !.start = FirstDay, !.end = FirstDay + n] : n \in 1..2}

Reminding ==
  {[e EXCEPT !.useDefault = FALSE, !.popups = p, !.mail = b] :
     e \in {[Plain EXCEPT !.start = At(FirstDay, 1), !.end = At(LastDay, 0)]},
     p \in {<<>>, <<10>>, <<90, 10>>}, b \in BOOLEAN}

Untitled == {[Plain EXCEPT !.titled = FALSE, !.start = At(FirstDay, 0), !.end = At(FirstDay, 1)]}

SomeEvents == TimedEvents \cup AllDayEvents \cup Reminding \cup Untitled

FourDays == FirstDay..FirstDay + 3
=============================================================================
