------------------------ MODULE ReminderScheduler_proofs ------------------------
(***************************************************************************)
(* Proofs about ReminderScheduler, for any calendars, events, times and    *)
(* window.                                                                 *)
(*                                                                         *)
(* Timers are only ever replaced by a rebuild, so TimersFollowSchedule     *)
(* needs little beyond itself.  What the schedule says about edits rests   *)
(* on what is kept for calendars that are not enabled (nothing), and on    *)
(* which requests a refetch supersedes (all of its calendar's, as long as  *)
(* there is a session to refetch in).                                      *)
(***************************************************************************)
EXTENDS ReminderScheduler, TLAPS

(* Nothing is kept or accepted for a calendar that is not enabled.         *)
OnlyEnabled ==
  /\ \A c \in Calendar : upcoming[c] # NoSchedule => c \in enabled
  /\ \A r \in requests : r.calendar \in enabled

(* A timer was armed within the window, which only moves on.               *)
WithinWindow == \A k \in armed : k[3] <= now + Window

TimersInv == TimersFollowSchedule /\ WithinWindow

(* Unless a session can expire, calendars are only known in a session.     *)
KnownInSession == SessionCanExpire \/ signedIn \/ known = {}

EditsBehind ==
  /\ \A c \in Calendar : acked[c] <= version[c]
  /\ \A e \in unacked : e.version <= version[e.calendar]

ScheduleInv == OnlyEnabled /\ KnownInSession /\ EditsBehind /\ ScheduleNotOlderThanAck

-----------------------------------------------------------------------------
(* Lemmas about the building blocks.                                       *)

LEMMA UpcomingWithoutType ==
  ASSUME TypeOK, NEW gone
  PROVE  UpcomingWithout(gone) \in [Calendar -> Schedule \cup {NoSchedule}]
BY DEF UpcomingWithout, TypeOK

(* Whatever schedules a rebuild is given, its timers follow them.          *)
LEMMA PlannedFollows ==
  ASSUME NEW schedules, NEW calendars, NEW k \in Planned(schedules, calendars)
  PROVE  /\ k \in Reminder
         /\ k[1] \in calendars
         /\ schedules[k[1]] # NoSchedule
         /\ schedules[k[1]].fireAt[k[2]] = k[3]
         /\ k[3] <= now + Window
BY DEF Planned

LEMMA RebuildFollows ==
  ASSUME TypeOK, RebuildTimers(upcoming', enabled'), now' = now
  PROVE  TimersInv' /\ armed' \in SUBSET Reminder /\ fired' = fired
<1>1. fired' = fired
  BY DEF RebuildTimers
<1>2. ASSUME NEW k \in armed'
      PROVE  /\ k \in Reminder /\ k \notin fired'
             /\ FollowsSchedule(k)'
             /\ k[3] <= now' + Window
  <2>1. k \in Planned(upcoming', enabled') /\ k \notin fired'
    BY <1>2, <1>1 DEF RebuildTimers
  <2> QED BY <2>1, PlannedFollows DEF FollowsSchedule
<1> QED BY <1>1, <1>2 DEF TimersInv, TimersFollowSchedule, WithinWindow

(* A fetch keeps some of the requests there were and asks for calendars.   *)
LEMMA FetchType ==
  ASSUME TypeOK, NEW calendars \in SUBSET Calendar, NEW others \in SUBSET requests,
         FetchForCalendars(calendars, others)
  PROVE  /\ requests' \in SUBSET Request
         /\ \A r \in requests' : r \in others \/ (r.calendar \in calendars /\ r.answer = NoAnswer)
         /\ signedIn => \A r \in requests' : r.calendar \in calendars => r.answer = NoAnswer
BY DEF FetchForCalendars, RequestsWithout, TypeOK, Request

LEMMA CycleType ==
  ASSUME TypeOK, NEW listed, NEW calendars \in SUBSET Calendar, NEW others \in SUBSET requests,
         StartFetchCycle(listed, calendars, others)
  PROVE  /\ requests' \in SUBSET Request
         /\ \A r \in requests' : r \in others \/ (r.calendar \in calendars /\ r.answer = NoAnswer)
         /\ refreshTimer' \in BOOLEAN /\ cycleRecent' \in BOOLEAN
<1>1. CASE signedIn /\ listed # {}
  BY <1>1, FetchType DEF StartFetchCycle
<1>2. CASE ~(signedIn /\ listed # {})
  BY <1>2 DEF StartFetchCycle, TypeOK, cycleVars
<1> QED BY <1>1, <1>2

LEMMA WithoutSubset ==
  ASSUME NEW gone
  PROVE  RequestsWithout(requests, gone) \in SUBSET requests
BY DEF RequestsWithout

LEMMA AnswerType ==
  ASSUME TypeOK, NEW r \in requests
  PROVE  AnswerTo(r) \in Schedule /\ AnswerTo(r).version = version[r.calendar]
<1>1. r.calendar \in Calendar
  BY DEF TypeOK, Request
<1>2. server[r.calendar] \in FireTimes /\ version[r.calendar] \in Nat
  BY <1>1 DEF TypeOK
<1> QED BY <1>2 DEF AnswerTo, Schedule, FireTimes

-----------------------------------------------------------------------------
(* Types and timers.                                                       *)

LEMMA InitTypeTimers == Init => TypeOK /\ TimersInv
<1> SUFFICES ASSUME Init PROVE TypeOK /\ TimersInv
  OBVIOUS
<1>1. TimersInv
  BY DEF Init, TimersInv, TimersFollowSchedule, WithinWindow
<1>2. /\ upcoming \in [Calendar -> Schedule \cup {NoSchedule}]
      /\ server \in [Calendar -> FireTimes]
      /\ version \in [Calendar -> Nat] /\ acked \in [Calendar -> Nat] /\ now \in Nat
  BY DEF Init
<1>3. /\ known \in SUBSET Calendar /\ enabled \in SUBSET known
      /\ requests \in SUBSET Request /\ armed \in SUBSET Reminder /\ fired \in SUBSET Reminder
      /\ unacked \in SUBSET [calendar : Calendar, version : Nat]
  BY DEF Init
<1>4. {signedIn, refreshTimer, cycleRecent} \subseteq BOOLEAN
  BY DEF Init
<1> QED BY <1>1, <1>2, <1>3, <1>4 DEF TypeOK

LEMMA StepTypeTimers ==
  ASSUME TypeOK, TimersInv, [Next]_vars
  PROVE  TypeOK' /\ TimersInv'
<1>1. ASSUME NEW listed \in SUBSET Calendar, NEW selected \in SUBSET listed,
             SetCalendars(listed, selected)
      PROVE  TypeOK' /\ TimersInv'
  <2> DEFINE dropped == enabled \ selected
  <2>1. /\ signedIn' = signedIn /\ known' = listed /\ enabled' = selected /\ now' = now
        /\ UNCHANGED serverVars
        /\ upcoming' = UpcomingWithout(dropped)
        /\ StartFetchCycle(listed, selected, RequestsWithout(requests, dropped))
    BY <1>1 DEF SetCalendars
  <2>2. requests' \in SUBSET Request /\ refreshTimer' \in BOOLEAN /\ cycleRecent' \in BOOLEAN
    BY <2>1, WithoutSubset, CycleType
  <2>3. upcoming' \in [Calendar -> Schedule \cup {NoSchedule}]
    BY <2>1, UpcomingWithoutType
  <2>4. TimersInv' /\ armed' \in SUBSET Reminder /\ fired' = fired
    <3>1. CASE dropped = {}
      <4>1. UNCHANGED timerVars
        BY <1>1, <3>1 DEF SetCalendars
      <4>2. upcoming' = upcoming /\ enabled \subseteq enabled'
        BY <2>1, <3>1 DEF UpcomingWithout, TypeOK
      <4> QED
        BY <2>1, <4>1, <4>2
           DEF TimersInv, TimersFollowSchedule, FollowsSchedule, WithinWindow, TypeOK, timerVars
    <3>2. CASE dropped # {}
      <4>1. RebuildTimers(upcoming', enabled')
        BY <1>1, <2>1, <3>2 DEF SetCalendars
      <4> QED BY <2>1, <4>1, RebuildFollows
    <3> QED BY <3>1, <3>2
  <2> QED BY <2>1, <2>2, <2>3, <2>4 DEF TypeOK, serverVars
<1>2. ASSUME NEW c \in Calendar, EnableCalendar(c) PROVE TypeOK' /\ TimersInv'
  <2>1. requests' \in SUBSET Request
    BY <1>2, FetchType DEF EnableCalendar
  <2>2. TypeOK'
    BY <1>2, <2>1 DEF EnableCalendar, TypeOK, timerVars, cycleVars, serverVars
  <2>3. TimersInv'
    BY <1>2 DEF EnableCalendar, timerVars, TimersInv, TimersFollowSchedule, FollowsSchedule,
                WithinWindow
  <2> QED BY <2>2, <2>3
<1>3. ASSUME NEW c \in Calendar, DisableCalendar(c) PROVE TypeOK' /\ TimersInv'
  <2>1. RebuildTimers(upcoming', enabled') /\ now' = now
    BY <1>3 DEF DisableCalendar
  <2>2. TimersInv' /\ armed' \in SUBSET Reminder /\ fired' = fired
    BY <2>1, RebuildFollows
  <2>3. upcoming' \in [Calendar -> Schedule \cup {NoSchedule}]
    BY <1>3, UpcomingWithoutType DEF DisableCalendar
  <2> QED
    BY <1>3, <2>2, <2>3, WithoutSubset DEF DisableCalendar, TypeOK, cycleVars, serverVars
<1>4. ASSUME RefreshAll \/ RefreshTimerFires PROVE TypeOK' /\ TimersInv'
  <2>1. /\ StartFetchCycle(known, enabled, requests)
        /\ UNCHANGED <<signedIn, calendarVars, upcoming, timerVars, now, serverVars>>
    BY <1>4 DEF RefreshAll, RefreshTimerFires
  <2>2. requests' \in SUBSET Request /\ refreshTimer' \in BOOLEAN /\ cycleRecent' \in BOOLEAN
    BY <2>1, CycleType DEF TypeOK
  <2> QED
    BY <2>1, <2>2 DEF TypeOK, calendarVars, timerVars, serverVars, TimersInv,
                      TimersFollowSchedule, FollowsSchedule, WithinWindow
<1>5. ASSUME GapEnds PROVE TypeOK' /\ TimersInv'
  BY <1>5 DEF GapEnds, TypeOK, calendarVars, timerVars, serverVars, TimersInv,
              TimersFollowSchedule, FollowsSchedule, WithinWindow
<1>6. ASSUME NEW r \in requests, ServerAnswers(r) PROVE TypeOK' /\ TimersInv'
  <2>1. requests' \in SUBSET Request
    BY <1>6, AnswerType DEF ServerAnswers, TypeOK, Request
  <2> QED
    BY <1>6, <2>1 DEF ServerAnswers, TypeOK, calendarVars, timerVars, cycleVars, serverVars,
                      TimersInv, TimersFollowSchedule, FollowsSchedule, WithinWindow
<1>7. ASSUME NEW r \in requests, OnEventsFetched(r) PROVE TypeOK' /\ TimersInv'
  <2>1. RebuildTimers(upcoming', enabled') /\ now' = now
    BY <1>7 DEF OnEventsFetched, calendarVars
  <2>2. TimersInv' /\ armed' \in SUBSET Reminder /\ fired' = fired
    BY <2>1, RebuildFollows
  <2>3. r.answer \in Schedule
    BY <1>7 DEF OnEventsFetched, TypeOK, Request
  <2> QED
    BY <1>7, <2>2, <2>3 DEF OnEventsFetched, TypeOK, calendarVars, cycleVars, serverVars
<1>8. ASSUME NEW r \in requests, OnEventsFetchFailed(r) PROVE TypeOK' /\ TimersInv'
  BY <1>8 DEF OnEventsFetchFailed, TypeOK, calendarVars, timerVars, cycleVars, serverVars,
              TimersInv, TimersFollowSchedule, FollowsSchedule, WithinWindow
<1>9. ASSUME NEW k \in armed, ReminderDue(k) PROVE TypeOK' /\ TimersInv'
  BY <1>9 DEF ReminderDue, TypeOK, calendarVars, cycleVars, serverVars,
              TimersInv, TimersFollowSchedule, FollowsSchedule, WithinWindow
<1>10. ASSUME Tick PROVE TypeOK' /\ TimersInv'
  <2>1. TypeOK'
    BY <1>10 DEF Tick, TypeOK, calendarVars, timerVars, cycleVars, serverVars
  <2>2. TimersFollowSchedule'
    BY <1>10 DEF Tick, calendarVars, timerVars, TimersInv, TimersFollowSchedule, FollowsSchedule
  <2>3. ASSUME NEW k \in armed' PROVE k[3] <= now' + Window
    <3>1. k[3] <= now + Window /\ k[3] \in Nat /\ now' = now + 1 /\ now \in Nat
      BY <1>10, <2>3, ConstantsAssumption
         DEF Tick, timerVars, TimersInv, WithinWindow, TypeOK, Reminder
    <3> QED BY <3>1, ConstantsAssumption
  <2> QED BY <2>1, <2>2, <2>3 DEF TimersInv, WithinWindow
<1>11. ASSUME NEW c \in Calendar, NEW e \in Event, NEW t \in FireTime \cup {NoTime},
              ApplyLocalEdit(c, e, t) \/ ApplyRemoteEdit(c, e, t)
       PROVE  TypeOK' /\ TimersInv'
  <2>1. /\ Edited(c, e, t)
        /\ unacked' \in SUBSET [calendar : Calendar, version : Nat]
    BY <1>11 DEF ApplyLocalEdit, ApplyRemoteEdit, TypeOK
  <2>2. server' \in [Calendar -> FireTimes] /\ version' \in [Calendar -> Nat]
    BY <2>1 DEF Edited, TypeOK, FireTimes
  <2> QED
    BY <2>1, <2>2 DEF Edited, TypeOK, calendarVars, timerVars, cycleVars,
                      TimersInv, TimersFollowSchedule, FollowsSchedule, WithinWindow
<1>12. ASSUME NEW e \in unacked, MutationAcked(e) PROVE TypeOK' /\ TimersInv'
  <2>1. e.calendar \in Calendar /\ e.version \in Nat
    BY DEF TypeOK
  <2>2. acked' \in [Calendar -> Nat] /\ unacked' \in SUBSET [calendar : Calendar, version : Nat]
    BY <1>12, <2>1 DEF MutationAcked, TypeOK
  <2>3. /\ UNCHANGED <<signedIn, calendarVars, cycleVars, now, server, version>>
        /\ RefreshCalendar(e.calendar)
    BY <1>12 DEF MutationAcked
  <2>4. CASE e.calendar \in known
    <3>1. /\ upcoming' = UpcomingWithout({e.calendar})
          /\ RebuildTimers(upcoming', enabled')
          /\ FetchForCalendars({e.calendar} \cap enabled, requests)
      BY <2>3, <2>4 DEF RefreshCalendar, calendarVars
    <3>2. requests' \in SUBSET Request
      BY <2>1, <3>1, FetchType
    <3>3. upcoming' \in [Calendar -> Schedule \cup {NoSchedule}]
      BY <3>1, UpcomingWithoutType
    <3>4. TimersInv' /\ armed' \in SUBSET Reminder /\ fired' = fired
      BY <2>3, <3>1, RebuildFollows
    <3> QED BY <2>2, <2>3, <3>2, <3>3, <3>4 DEF TypeOK, calendarVars, cycleVars
  <2>5. CASE e.calendar \notin known
    BY <2>2, <2>3, <2>5
       DEF RefreshCalendar, TypeOK, calendarVars, timerVars, cycleVars,
           TimersInv, TimersFollowSchedule, FollowsSchedule, WithinWindow
  <2> QED BY <2>4, <2>5
<1>13. ASSUME NEW e \in unacked, MutationReplyLost(e) PROVE TypeOK' /\ TimersInv'
  BY <1>13 DEF MutationReplyLost, TypeOK, calendarVars, timerVars, cycleVars,
               TimersInv, TimersFollowSchedule, FollowsSchedule, WithinWindow
<1>14. ASSUME SignIn \/ SessionExpires PROVE TypeOK' /\ TimersInv'
  BY <1>14 DEF SignIn, SessionExpires, TypeOK, calendarVars, timerVars, cycleVars, serverVars,
               TimersInv, TimersFollowSchedule, FollowsSchedule, WithinWindow
<1>15. ASSUME SignOut \/ Restart PROVE TypeOK' /\ TimersInv'
  <2>1. Clear /\ cycleRecent' \in BOOLEAN /\ unacked' \in SUBSET unacked
    BY <1>15 DEF SignOut, Restart, TypeOK
  <2>2. upcoming' \in [Calendar -> Schedule \cup {NoSchedule}]
    BY <2>1, UpcomingWithoutType DEF Clear
  <2> QED
    BY <2>1, <2>2 DEF Clear, TypeOK, TimersInv, TimersFollowSchedule, WithinWindow
<1>16. CASE UNCHANGED vars
  BY <1>16 DEF vars, TypeOK, TimersInv, TimersFollowSchedule, FollowsSchedule, WithinWindow
<1> QED
  BY <1>1, <1>2, <1>3, <1>4, <1>5, <1>6, <1>7, <1>8, <1>9, <1>10, <1>11, <1>12, <1>13, <1>14,
     <1>15, <1>16
     DEF Next, Calls, Replies, Timers, Edits, Session

(* Every reachable state is typed, whatever the constants.                 *)
THEOREM TypeCorrect == Spec => []TypeOK
<1>1. Init => TypeOK /\ TimersInv
  BY InitTypeTimers
<1>2. (TypeOK /\ TimersInv) /\ [Next]_vars => (TypeOK /\ TimersInv)'
  BY StepTypeTimers
<1> QED BY <1>1, <1>2, PTL DEF Spec

(* No timer outlives its event, its time, its calendar's being enabled or  *)
(* its own firing.                                                         *)
THEOREM TimersAlwaysFollowSchedule == Spec => []TimersFollowSchedule
<1>1. Init => TypeOK /\ TimersInv
  BY InitTypeTimers
<1>2. (TypeOK /\ TimersInv) /\ [Next]_vars => (TypeOK /\ TimersInv)'
  BY StepTypeTimers
<1>3. TimersInv => TimersFollowSchedule
  BY DEF TimersInv
<1> QED BY <1>1, <1>2, <1>3, PTL DEF Spec

-----------------------------------------------------------------------------
(* The schedule and this client's edits.  An acknowledged edit drops the   *)
(* calendar's schedule and, since a known calendar means a session, its    *)
(* requests; a calendar that is not known has neither.                     *)

LEMMA InitSchedule == Init => ScheduleInv
BY DEF Init, ScheduleInv, OnlyEnabled, KnownInSession, EditsBehind, ScheduleNotOlderThanAck,
       NotBeforeAck

(* A step that keeps acked and brings in no schedule and no answer keeps   *)
(* what NotBeforeAck says.                                                 *)
LEMMA NothingNew ==
  ASSUME ScheduleInv,
         UNCHANGED <<acked, version, unacked>>,
         \A c \in Calendar : upcoming'[c] # NoSchedule =>
           upcoming'[c] = upcoming[c] /\ c \in enabled',
         \A r \in requests' : /\ r \in requests \/ r.answer = NoAnswer
                              /\ r.calendar \in enabled',
         KnownInSession'
  PROVE  ScheduleInv'
<1>1. OnlyEnabled'
  BY DEF OnlyEnabled
<1>2. EditsBehind'
  BY DEF ScheduleInv, EditsBehind
<1>3. ScheduleNotOlderThanAck'
  BY DEF ScheduleInv, ScheduleNotOlderThanAck, NotBeforeAck
<1> QED BY <1>1, <1>2, <1>3 DEF ScheduleInv

LEMMA StepSchedule ==
  ASSUME TypeOK, TypeOK', ScheduleInv, [Next]_vars
  PROVE  ScheduleInv'
<1>1. ASSUME NEW listed \in SUBSET Calendar, NEW selected \in SUBSET listed,
             SetCalendars(listed, selected)
      PROVE  ScheduleInv'
  <2> DEFINE dropped == enabled \ selected
  <2>1. /\ signedIn /\ signedIn' = signedIn /\ enabled' = selected
        /\ UNCHANGED serverVars
        /\ upcoming' = UpcomingWithout(dropped)
        /\ StartFetchCycle(listed, selected, RequestsWithout(requests, dropped))
    BY <1>1 DEF SetCalendars
  <2>2. \A r \in requests' : \/ r \in RequestsWithout(requests, dropped)
                             \/ r.calendar \in selected /\ r.answer = NoAnswer
    BY <2>1, WithoutSubset, CycleType
  <2>3. \A r \in requests' : (r \in requests \/ r.answer = NoAnswer) /\ r.calendar \in enabled'
    BY <2>1, <2>2 DEF RequestsWithout, ScheduleInv, OnlyEnabled
  <2>4. \A c \in Calendar : upcoming'[c] # NoSchedule =>
          upcoming'[c] = upcoming[c] /\ c \in enabled'
    BY <2>1 DEF UpcomingWithout, ScheduleInv, OnlyEnabled
  <2> QED BY <2>1, <2>3, <2>4, NothingNew DEF KnownInSession, serverVars
<1>2. ASSUME NEW c \in Calendar, EnableCalendar(c) PROVE ScheduleInv'
  <2>1. \A r \in requests' : r \in requests \/ (r.calendar = c /\ r.answer = NoAnswer)
    <3>1. FetchForCalendars({c}, requests) /\ {c} \in SUBSET Calendar /\ requests \in SUBSET requests
      BY <1>2 DEF EnableCalendar
    <3> QED BY <3>1, FetchType
  <2> QED
    BY <1>2, <2>1, NothingNew
       DEF EnableCalendar, ScheduleInv, OnlyEnabled, KnownInSession, serverVars
<1>3. ASSUME NEW c \in Calendar, DisableCalendar(c) PROVE ScheduleInv'
  <2>1. /\ UNCHANGED <<signedIn, known, serverVars>> /\ enabled' = enabled \ {c}
        /\ upcoming' = UpcomingWithout({c}) /\ requests' = RequestsWithout(requests, {c})
    BY <1>3 DEF DisableCalendar
  <2>2. /\ \A d \in Calendar : upcoming'[d] # NoSchedule =>
             upcoming'[d] = upcoming[d] /\ d \in enabled'
        /\ \A r \in requests' : r \in requests /\ r.calendar \in enabled'
    BY <2>1 DEF UpcomingWithout, RequestsWithout, ScheduleInv, OnlyEnabled
  <2> QED BY <2>1, <2>2, NothingNew DEF ScheduleInv, KnownInSession, serverVars
<1>4. ASSUME RefreshAll \/ RefreshTimerFires PROVE ScheduleInv'
  <2>1. /\ StartFetchCycle(known, enabled, requests)
        /\ UNCHANGED <<signedIn, calendarVars, upcoming, timerVars, now, serverVars>>
    BY <1>4 DEF RefreshAll, RefreshTimerFires
  <2>2. \A r \in requests' : r \in requests \/ (r.calendar \in enabled /\ r.answer = NoAnswer)
    BY <2>1, CycleType DEF TypeOK
  <2> QED
    BY <2>1, <2>2, NothingNew
       DEF ScheduleInv, OnlyEnabled, KnownInSession, calendarVars, serverVars
<1>5. ASSUME GapEnds \/ Tick \/ SignIn \/ \E k \in armed : ReminderDue(k) PROVE ScheduleInv'
  BY <1>5, NothingNew
     DEF GapEnds, Tick, SignIn, ReminderDue, ScheduleInv, OnlyEnabled, KnownInSession,
         calendarVars, serverVars
<1>6. ASSUME NEW r \in requests, ServerAnswers(r) PROVE ScheduleInv'
  <2>1. /\ UNCHANGED <<signedIn, calendarVars, upcoming, serverVars>>
        /\ requests' = (requests \ {r}) \cup {[r EXCEPT !.answer = AnswerTo(r)]}
    BY <1>6 DEF ServerAnswers
  <2>2. r.calendar \in Calendar /\ acked[r.calendar] <= AnswerTo(r).version
    BY AnswerType DEF TypeOK, Request, ScheduleInv, EditsBehind
  <2>3. \A q \in requests' : \/ q \in requests
                             \/ q.calendar = r.calendar /\ q.answer = AnswerTo(r)
    BY <2>1 DEF TypeOK, Request
  <2> QED
    BY <2>1, <2>2, <2>3
       DEF ScheduleInv, OnlyEnabled, KnownInSession, EditsBehind, ScheduleNotOlderThanAck,
           NotBeforeAck, calendarVars, serverVars
<1>7. ASSUME NEW r \in requests, OnEventsFetched(r) PROVE ScheduleInv'
  <2>1. /\ UNCHANGED <<signedIn, calendarVars, serverVars>>
        /\ r.answer # NoAnswer /\ r.calendar \in enabled
        /\ requests' = requests \ {r}
        /\ upcoming' = [upcoming EXCEPT ![r.calendar] = r.answer]
    BY <1>7 DEF OnEventsFetched
  <2>2. \A c \in Calendar : upcoming'[c] = IF c = r.calendar THEN r.answer ELSE upcoming[c]
    BY <2>1 DEF TypeOK
  <2> QED
    BY <2>1, <2>2
       DEF ScheduleInv, OnlyEnabled, KnownInSession, EditsBehind, ScheduleNotOlderThanAck,
           NotBeforeAck, calendarVars, serverVars
<1>8. ASSUME NEW r \in requests, OnEventsFetchFailed(r) PROVE ScheduleInv'
  BY <1>8, NothingNew
     DEF OnEventsFetchFailed, ScheduleInv, OnlyEnabled, KnownInSession, calendarVars, serverVars
<1>9. ASSUME NEW c \in Calendar, NEW e \in Event, NEW t \in FireTime \cup {NoTime},
             ApplyLocalEdit(c, e, t) \/ ApplyRemoteEdit(c, e, t)
      PROVE  ScheduleInv'
  <2>1. /\ UNCHANGED <<signedIn, calendarVars, upcoming, requests, acked>>
        /\ version' = [version EXCEPT ![c] = @ + 1]
        /\ unacked' \subseteq unacked \cup {[calendar |-> c, version |-> version[c] + 1]}
    BY <1>9 DEF ApplyLocalEdit, ApplyRemoteEdit, Edited
  <2>2. EditsBehind'
    <3>1. \A d \in Calendar : version[d] <= version'[d] /\ version[d] \in Nat /\ version'[d] \in Nat
      BY <2>1 DEF TypeOK
    <3>2. \A d \in Calendar : acked'[d] <= version'[d]
      BY <2>1, <3>1 DEF ScheduleInv, EditsBehind, TypeOK
    <3>3. ASSUME NEW f \in unacked' PROVE f.version <= version'[f.calendar]
      <4>1. CASE f \in unacked
        <5>1. f.calendar \in Calendar /\ f.version \in Nat /\ f.version <= version[f.calendar]
          BY <4>1 DEF ScheduleInv, EditsBehind, TypeOK
        <5> QED BY <3>1, <5>1
      <4>2. CASE f = [calendar |-> c, version |-> version[c] + 1]
        BY <2>1, <4>2 DEF TypeOK
      <4> QED BY <2>1, <4>1, <4>2
    <3> QED BY <3>2, <3>3 DEF EditsBehind
  <2> QED
    BY <2>1, <2>2
       DEF ScheduleInv, OnlyEnabled, KnownInSession, ScheduleNotOlderThanAck, NotBeforeAck,
           calendarVars
<1>10. ASSUME NEW e \in unacked, MutationAcked(e) PROVE ScheduleInv'
  <2>1. e.calendar \in Calendar /\ e.version \in Nat /\ e.version <= version[e.calendar]
    BY DEF TypeOK, ScheduleInv, EditsBehind
  <2>2. /\ UNCHANGED <<signedIn, calendarVars, version>>
        /\ RefreshCalendar(e.calendar) /\ unacked' \subseteq unacked
        /\ \A c \in Calendar : /\ c # e.calendar => acked'[c] = acked[c]
                               /\ acked'[c] = acked[c] \/ acked'[c] = e.version
    BY <1>10 DEF MutationAcked, TypeOK
  <2>3. EditsBehind'
    <3>1. \A c \in Calendar : acked'[c] <= version[c]
      BY <2>1, <2>2 DEF ScheduleInv, EditsBehind
    <3> QED BY <2>2, <3>1 DEF ScheduleInv, EditsBehind
  <2>4. KnownInSession'
    BY <2>2 DEF ScheduleInv, KnownInSession, calendarVars
  <2>5. CASE e.calendar \in known
    <3>1. /\ upcoming' = UpcomingWithout({e.calendar})
          /\ FetchForCalendars({e.calendar} \cap enabled, requests)
      BY <2>2, <2>5 DEF RefreshCalendar
    <3>2. /\ \A r \in requests' : \/ r \in requests
                                  \/ r.calendar \in enabled /\ r.answer = NoAnswer
          /\ signedIn => \A r \in requests' :
               r.calendar \in {e.calendar} \cap enabled => r.answer = NoAnswer
      BY <2>1, <3>1, FetchType
    <3>3. \A r \in requests' : r.calendar \in enabled /\ r.calendar \in Calendar
      BY <3>2 DEF ScheduleInv, OnlyEnabled, TypeOK
    <3>4. OnlyEnabled'
      BY <2>2, <3>1, <3>3 DEF ScheduleInv, OnlyEnabled, UpcomingWithout, calendarVars
    <3>5. ASSUME ~SessionCanExpire PROVE NotBeforeAck'
      <4>1. signedIn
        BY <2>5, <3>5 DEF ScheduleInv, KnownInSession
      <4>2. \A r \in requests' : r.answer # NoAnswer => r \in requests /\ r.calendar # e.calendar
        BY <3>2, <3>3, <4>1
      <4>3. NotBeforeAck
        BY <3>5 DEF ScheduleInv, ScheduleNotOlderThanAck
      <4> QED BY <2>2, <3>1, <3>3, <4>2, <4>3 DEF NotBeforeAck, UpcomingWithout
    <3> QED BY <2>3, <2>4, <3>4, <3>5 DEF ScheduleInv, ScheduleNotOlderThanAck
  <2>6. CASE e.calendar \notin known
    <3>1. UNCHANGED <<upcoming, requests>>
      BY <2>2, <2>6 DEF RefreshCalendar
    <3>2. /\ \A c \in Calendar : upcoming[c] # NoSchedule => c # e.calendar
          /\ \A r \in requests : r.calendar \in Calendar /\ r.calendar # e.calendar
      BY <2>6 DEF ScheduleInv, OnlyEnabled, TypeOK
    <3> QED
      BY <2>2, <2>3, <2>4, <3>1, <3>2
         DEF ScheduleInv, OnlyEnabled, ScheduleNotOlderThanAck, NotBeforeAck, calendarVars
  <2> QED BY <2>5, <2>6
<1>11. ASSUME NEW e \in unacked, MutationReplyLost(e) PROVE ScheduleInv'
  BY <1>11
     DEF MutationReplyLost, ScheduleInv, OnlyEnabled, KnownInSession, EditsBehind,
         ScheduleNotOlderThanAck, NotBeforeAck, calendarVars
<1>12. ASSUME SessionExpires PROVE ScheduleInv'
  BY <1>12, NothingNew
     DEF SessionExpires, ScheduleInv, OnlyEnabled, KnownInSession, calendarVars, serverVars
<1>13. ASSUME SignOut \/ Restart PROVE ScheduleInv'
  <2>1. Clear /\ unacked' \subseteq unacked
    BY <1>13 DEF SignOut, Restart
  <2> QED
    BY <2>1 DEF Clear, UpcomingWithout, ScheduleInv, OnlyEnabled, KnownInSession, EditsBehind,
                ScheduleNotOlderThanAck, NotBeforeAck
<1>14. CASE UNCHANGED vars
  BY <1>14, NothingNew DEF vars, ScheduleInv, OnlyEnabled, KnownInSession
<1> QED
  BY <1>1, <1>2, <1>3, <1>4, <1>5, <1>6, <1>7, <1>8, <1>9, <1>10, <1>11, <1>12, <1>13, <1>14
     DEF Next, Calls, Replies, Timers, Edits, Session

(* As long as sessions end by signing out, no schedule and no reply to be  *)
(* accepted is older than an edit this client saw succeed.                 *)
THEOREM ScheduleNeverOlderThanAck == Spec => []ScheduleNotOlderThanAck
<1>1. Init => TypeOK /\ TimersInv /\ ScheduleInv
  BY InitTypeTimers, InitSchedule
<1>2. (TypeOK /\ TimersInv /\ ScheduleInv) /\ [Next]_vars => (TypeOK /\ TimersInv /\ ScheduleInv)'
  BY StepTypeTimers, StepSchedule
<1>3. ScheduleInv => ScheduleNotOlderThanAck
  BY DEF ScheduleInv
<1> QED BY <1>1, <1>2, <1>3, PTL DEF Spec

-----------------------------------------------------------------------------
(* A rebuild plans anew whatever the schedule still has, so a reminder not *)
(* due yet is only lost with its schedule entry.                           *)

LEMMA RebuildKeeps ==
  ASSUME TypeOK, TimersInv, NEW k \in armed, now < k[3],
         RebuildTimers(upcoming', enabled'),
         k[1] \in enabled', upcoming'[k[1]] # NoSchedule, upcoming'[k[1]].fireAt[k[2]] = k[3]
  PROVE  k \in armed'
<1>1. k \in Reminder /\ k \notin fired /\ k[3] <= now + Window
  BY DEF TypeOK, TimersInv, TimersFollowSchedule, WithinWindow
<1> QED BY <1>1 DEF RebuildTimers, Planned

LEMMA StepKeepsReminders ==
  ASSUME TypeOK, TimersInv, Next,
         NEW k \in armed, now < k[3], k \notin armed', k \notin fired', k[1] \in enabled'
  PROVE  \/ \E r \in requests \ requests' :
              r.calendar = k[1] /\ r.answer # NoAnswer /\ r.answer.fireAt[k[2]] # k[3]
         \/ \E e \in unacked \ unacked' : e.calendar = k[1]
<1>0. /\ k \in Reminder /\ k[1] \in Calendar
      /\ upcoming[k[1]] # NoSchedule /\ upcoming[k[1]].fireAt[k[2]] = k[3]
  BY DEF TypeOK, TimersInv, TimersFollowSchedule, FollowsSchedule, Reminder
<1>1. ASSUME RebuildTimers(upcoming', enabled'), upcoming'[k[1]] = upcoming[k[1]] PROVE FALSE
  BY <1>0, <1>1, RebuildKeeps
<1>2. ASSUME UNCHANGED timerVars PROVE FALSE
  BY <1>2 DEF timerVars
<1>3. ASSUME NEW listed \in SUBSET Calendar, NEW selected \in SUBSET listed,
             SetCalendars(listed, selected)
      PROVE  FALSE
  <2>1. CASE enabled \ selected = {}
    BY <1>2, <1>3, <2>1 DEF SetCalendars
  <2>2. CASE enabled \ selected # {}
    <3>1. RebuildTimers(upcoming', enabled')
      BY <1>3, <2>2 DEF SetCalendars
    <3>2. upcoming'[k[1]] = upcoming[k[1]]
      BY <1>0, <1>3 DEF SetCalendars, UpcomingWithout
    <3> QED BY <1>1, <3>1, <3>2
  <2> QED BY <2>1, <2>2
<1>4. ASSUME NEW c \in Calendar, DisableCalendar(c) PROVE FALSE
  <2>1. RebuildTimers(upcoming', enabled') /\ upcoming'[k[1]] = upcoming[k[1]]
    BY <1>0, <1>4 DEF DisableCalendar, UpcomingWithout
  <2> QED BY <1>1, <2>1
<1>5. ASSUME NEW r \in requests, OnEventsFetched(r)
      PROVE  r \notin requests' /\ r.calendar = k[1] /\ r.answer # NoAnswer
             /\ r.answer.fireAt[k[2]] # k[3]
  <2>1. /\ RebuildTimers(upcoming', enabled')
        /\ upcoming' = [upcoming EXCEPT ![r.calendar] = r.answer]
        /\ r.answer # NoAnswer /\ requests' = requests \ {r}
    BY <1>5 DEF OnEventsFetched, calendarVars
  <2>2. r.calendar = k[1]
    BY <1>0, <1>1, <2>1
  <2>3. r.answer \in Schedule /\ upcoming'[k[1]] = r.answer
    BY <1>0, <2>1, <2>2 DEF TypeOK, Request
  <2>4. r.answer # NoSchedule
    BY <2>3, SentinelsAssumption
  <2> QED BY <2>1, <2>2, <2>3, <2>4, RebuildKeeps
<1>6. ASSUME NEW j \in armed, ReminderDue(j) PROVE FALSE
  BY <1>6 DEF ReminderDue
<1>7. ASSUME NEW e \in unacked, MutationAcked(e) PROVE e \notin unacked' /\ e.calendar = k[1]
  <2>1. RefreshCalendar(e.calendar) /\ e \notin unacked' /\ UNCHANGED calendarVars
    BY <1>7 DEF MutationAcked
  <2>2. CASE e.calendar \in known
    <3>1. RebuildTimers(upcoming', enabled') /\ upcoming' = UpcomingWithout({e.calendar})
      BY <2>1, <2>2 DEF RefreshCalendar, calendarVars
    <3> QED BY <1>0, <1>1, <2>1, <3>1 DEF UpcomingWithout
  <2>3. CASE e.calendar \notin known
    BY <1>2, <2>1, <2>3 DEF RefreshCalendar
  <2> QED BY <2>2, <2>3
<1>8. ASSUME SignOut \/ Restart PROVE FALSE
  BY <1>8 DEF SignOut, Restart, Clear
<1>9. ASSUME \/ \E c \in Calendar : EnableCalendar(c)
             \/ RefreshAll \/ RefreshTimerFires \/ GapEnds \/ Tick \/ SignIn \/ SessionExpires
             \/ \E r \in requests : ServerAnswers(r) \/ OnEventsFetchFailed(r)
             \/ \E c \in Calendar, e \in Event, t \in FireTime \cup {NoTime} :
                  ApplyLocalEdit(c, e, t) \/ ApplyRemoteEdit(c, e, t)
             \/ \E e \in unacked : MutationReplyLost(e)
      PROVE  FALSE
  <2>1. UNCHANGED timerVars
    BY <1>9 DEF EnableCalendar, RefreshAll, RefreshTimerFires, GapEnds, Tick, SignIn,
                SessionExpires, ServerAnswers, OnEventsFetchFailed, ApplyLocalEdit,
                ApplyRemoteEdit, Edited, MutationReplyLost
  <2> QED BY <1>2, <2>1
<1> QED
  BY <1>3, <1>4, <1>5, <1>6, <1>7, <1>8, <1>9
     DEF Next, Calls, Replies, Timers, Edits, Session

(* A reminder not due yet is only disarmed by an answer without it, an     *)
(* edit of its calendar, or the calendar's leaving; never by a failure.    *)
THEOREM RemindersAlwaysOutliveFailures == Spec => RemindersOutliveFailures
<1> DEFINE Kept ==
      \A k \in armed :
        now < k[3] /\ k \notin armed' /\ k \notin fired' =>
          \/ k[1] \notin enabled'
          \/ \E r \in requests \ requests' :
               r.calendar = k[1] /\ r.answer # NoAnswer /\ r.answer.fireAt[k[2]] # k[3]
          \/ \E e \in unacked \ unacked' : e.calendar = k[1]
<1>1. Init => TypeOK /\ TimersInv
  BY InitTypeTimers
<1>2. (TypeOK /\ TimersInv) /\ [Next]_vars => (TypeOK /\ TimersInv)'
  BY StepTypeTimers
<1>3. (TypeOK /\ TimersInv) /\ [Next]_vars => [Kept]_vars
  <2>1. ASSUME TypeOK, TimersInv, Next PROVE Kept
    BY <2>1, StepKeepsReminders
  <2> QED BY <2>1
<1>4. Spec => [][Kept]_vars
  BY <1>1, <1>2, <1>3, PTL DEF Spec
<1> QED BY <1>4 DEF RemindersOutliveFailures
=============================================================================
