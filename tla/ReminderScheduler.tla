--------------------------- MODULE ReminderScheduler ---------------------------
(***************************************************************************)
(* The reminders of upcoming events (calendar/reminderscheduler.cpp and    *)
(* reminderschedule.cpp): a rolling fetch of the next hours of every       *)
(* enabled calendar, a one-shot timer per popup reminder, and the replies, *)
(* edits, calendar toggles and session changes that replace or drop them.  *)
(*                                                                         *)
(* Time is a counter that may run past a timer's time before the timer's   *)
(* slot does (a busy event loop, a suspended machine).  Every event has    *)
(* one popup reminder and is known by the time that one fires; the event   *)
(* starts Lead later.  A reply is accepted only if it answers the newest   *)
(* request of its calendar (m_latestRequestIdByCalendar), so requests has  *)
(* only those: a superseded one changes nothing.                           *)
(***************************************************************************)
EXTENDS Naturals

CONSTANTS
  Calendar,          \* calendar ids
  Event,             \* event ids of a calendar
  FireTime,          \* times reminders are set to
  NoTime,            \* the event is not there
  NoSchedule,        \* not in m_upcomingByCalendar
  NoAnswer,          \* the server has not answered yet
  Lead,              \* from a reminder to its event
  Window,            \* kLookaheadHours
  Early,             \* how much too early a coarse QTimer may fire
  MaxNow,            \* bound: the time
  MaxVersion,        \* bound: edits of a calendar
  SessionCanExpire   \* whether a session may end without signOut()

ASSUME ConstantsAssumption ==
  /\ FireTime \subseteq Nat
  /\ Lead \in Nat /\ Window \in Nat /\ Early \in Nat
  /\ Lead < Window
  /\ MaxNow \in Nat /\ MaxVersion \in Nat
  /\ SessionCanExpire \in BOOLEAN
  /\ NoTime \notin FireTime

(* keyFor: a rescheduled event has another key.                            *)
Reminder == Calendar \X Event \X FireTime

FireTimes == [Event -> FireTime \cup {NoTime}]
Schedule == [version : Nat, fireAt : FireTimes]

ASSUME SentinelsAssumption == NoSchedule \notin Schedule /\ NoAnswer \notin Schedule

VARIABLES
  signedIn,      \* the session is there
  known,         \* m_calendarsById
  enabled,       \* m_enabledCalendarIds
  upcoming,      \* m_upcomingByCalendar
  requests,      \* the newest fetch of each calendar, until its reply
  armed,         \* m_pendingTimers that have not fired
  fired,         \* m_firedKeys
  refreshTimer,  \* m_refreshTimer runs
  cycleRecent,   \* m_sinceLastCycle is below kMinRefreshGapMs
  now,
  server,        \* the reminders of the events the server has
  version,       \* edits the server applied to each calendar
  unacked,       \* this client's edits whose reply is still on its way
  acked          \* last edit of each calendar this client saw succeed

vars == <<signedIn, known, enabled, upcoming, requests, armed, fired, refreshTimer,
          cycleRecent, now, server, version, unacked, acked>>
calendarVars == <<known, enabled>>
timerVars == <<armed, fired>>
cycleVars == <<refreshTimer, cycleRecent>>
serverVars == <<server, version, unacked, acked>>

Request == [calendar : Calendar, at : Nat, answer : Schedule \cup {NoAnswer}]

TypeOK ==
  /\ signedIn \in BOOLEAN
  /\ known \in SUBSET Calendar
  /\ enabled \in SUBSET known
  /\ upcoming \in [Calendar -> Schedule \cup {NoSchedule}]
  /\ requests \in SUBSET Request
  /\ armed \in SUBSET Reminder
  /\ fired \in SUBSET Reminder
  /\ refreshTimer \in BOOLEAN
  /\ cycleRecent \in BOOLEAN
  /\ now \in Nat
  /\ server \in [Calendar -> FireTimes]
  /\ version \in [Calendar -> Nat]
  /\ unacked \in SUBSET [calendar : Calendar, version : Nat]
  /\ acked \in [Calendar -> Nat]

Init ==
  /\ signedIn = FALSE
  /\ known = {}
  /\ enabled = {}
  /\ upcoming = [c \in Calendar |-> NoSchedule]
  /\ requests = {}
  /\ armed = {}
  /\ fired = {}
  /\ refreshTimer = FALSE
  /\ cycleRecent = FALSE
  /\ now = 0
  /\ server \in [Calendar -> FireTimes]
  /\ version = [c \in Calendar |-> 0]
  /\ unacked = {}
  /\ acked = [c \in Calendar |-> 0]

-----------------------------------------------------------------------------
(* Building blocks.                                                        *)

(* ReminderSchedule::plan: what is already due is skipped.                 *)
Planned(schedules, calendars) ==
  {k \in Reminder :
     /\ k[1] \in calendars
     /\ schedules[k[1]] # NoSchedule
     /\ schedules[k[1]].fireAt[k[2]] = k[3]
     /\ now < k[3] /\ k[3] <= now + Window}

(* Mutant of RebuildTimers: m_firedKeys is not looked at.                  *)
RebuildTimersFiredToo(schedules, calendars) ==
  /\ armed' = Planned(schedules, calendars)
  /\ UNCHANGED fired

RebuildTimers(schedules, calendars) ==
  /\ armed' = Planned(schedules, calendars) \ fired
  /\ UNCHANGED fired

UpcomingWithout(gone) ==
  [c \in Calendar |-> IF c \in gone THEN NoSchedule ELSE upcoming[c]]

(* Mutant of RequestsWithout: an older request's reply is accepted too.    *)
RequestsKept(others, gone) == others

RequestsWithout(others, gone) == {r \in others : r.calendar \notin gone}

(* fetchForCalendar for each of calendars; a new request takes the place   *)
(* of the calendar's previous one.                                         *)
FetchForCalendars(calendars, others) ==
  requests' = IF signedIn
              THEN RequestsWithout(others, calendars)
                     \cup {[calendar |-> c, at |-> now, answer |-> NoAnswer] : c \in calendars}
              ELSE others

(* Mutant of StartFetchCycle: the refresh timer is not started.            *)
StartFetchCycleOnce(listed, calendars, others) ==
  IF signedIn /\ listed # {}
  THEN /\ FetchForCalendars(calendars, others)
       /\ cycleRecent' = TRUE
       /\ UNCHANGED refreshTimer
  ELSE /\ requests' = others
       /\ UNCHANGED cycleVars

StartFetchCycle(listed, calendars, others) ==
  IF signedIn /\ listed # {}
  THEN /\ FetchForCalendars(calendars, others)
       /\ cycleRecent' = TRUE
       /\ refreshTimer' = TRUE
  ELSE /\ requests' = others
       /\ UNCHANGED cycleVars

-----------------------------------------------------------------------------
(* The calendar list and its toggles.                                      *)

(* The calendar list, from Google or from disk, is applied while signed in.*)
SetCalendars(listed, selected) ==
  LET dropped == enabled \ selected
  IN  /\ signedIn
      /\ known' = listed
      /\ enabled' = selected
      /\ upcoming' = UpcomingWithout(dropped)
      /\ IF dropped = {} THEN UNCHANGED timerVars
                         ELSE RebuildTimers(UpcomingWithout(dropped), selected)
      /\ StartFetchCycle(listed, selected, RequestsWithout(requests, dropped))
  /\ UNCHANGED <<signedIn, now, serverVars>>

(* A click in the sidebar, or the revert of one Google did not accept.     *)
EnableCalendar(c) ==
  /\ c \in known
  /\ enabled' = enabled \cup {c}
  /\ FetchForCalendars({c}, requests)
  /\ UNCHANGED <<signedIn, known, upcoming, timerVars, cycleVars, now, serverVars>>

DisableCalendar(c) ==
  /\ c \in known
  /\ enabled' = enabled \ {c}
  /\ upcoming' = UpcomingWithout({c})
  /\ requests' = RequestsWithout(requests, {c})
  /\ RebuildTimers(UpcomingWithout({c}), enabled \ {c})
  /\ UNCHANGED <<signedIn, known, cycleVars, now, serverVars>>

(* A view finished a fetch cycle, or the server is back.                   *)
RefreshAll ==
  /\ ~cycleRecent
  /\ StartFetchCycle(known, enabled, requests)
  /\ UNCHANGED <<signedIn, calendarVars, upcoming, timerVars, now, serverVars>>

RefreshTimerFires ==
  /\ refreshTimer
  /\ StartFetchCycle(known, enabled, requests)
  /\ UNCHANGED <<signedIn, calendarVars, upcoming, timerVars, now, serverVars>>

GapEnds ==
  /\ cycleRecent
  /\ cycleRecent' = FALSE
  /\ UNCHANGED <<signedIn, calendarVars, upcoming, requests, timerVars, refreshTimer,
                 now, serverVars>>

-----------------------------------------------------------------------------
(* Replies.                                                                *)

(* events.list up to timeMax, which was set when the request was made.     *)
AnswerTo(r) ==
  [version |-> version[r.calendar],
   fireAt |-> [e \in Event |->
     IF /\ server[r.calendar][e] # NoTime
        /\ server[r.calendar][e] + Lead < r.at + Window
     THEN server[r.calendar][e] ELSE NoTime]]

ServerAnswers(r) ==
  /\ r \in requests
  /\ r.answer = NoAnswer
  /\ requests' = (requests \ {r}) \cup {[r EXCEPT !.answer = AnswerTo(r)]}
  /\ UNCHANGED <<signedIn, calendarVars, upcoming, timerVars, cycleVars, now, serverVars>>

OnEventsFetched(r) ==
  /\ r \in requests
  /\ r.answer # NoAnswer
  /\ r.calendar \in enabled
  /\ requests' = requests \ {r}
  /\ upcoming' = [upcoming EXCEPT ![r.calendar] = r.answer]
  /\ RebuildTimers(upcoming', enabled)
  /\ UNCHANGED <<signedIn, calendarVars, cycleVars, now, serverVars>>

(* Mutant of OnEventsFetchFailed: the last good schedule is dropped.       *)
OnEventsFetchFailedDropped(r) ==
  /\ r \in requests
  /\ requests' = requests \ {r}
  /\ upcoming' = UpcomingWithout({r.calendar})
  /\ RebuildTimers(UpcomingWithout({r.calendar}), enabled)
  /\ UNCHANGED <<signedIn, calendarVars, cycleVars, now, serverVars>>

(* The last good schedule stays armed.                                     *)
OnEventsFetchFailed(r) ==
  /\ r \in requests
  /\ requests' = requests \ {r}
  /\ UNCHANGED <<signedIn, calendarVars, upcoming, timerVars, cycleVars, now, serverVars>>

-----------------------------------------------------------------------------
(* Timers and time.                                                        *)

ReminderDue(k) ==
  /\ k \in armed
  /\ k[3] <= now + Early
  /\ armed' = armed \ {k}
  /\ fired' = fired \cup {k}
  /\ UNCHANGED <<signedIn, calendarVars, upcoming, requests, cycleVars, now, serverVars>>

Tick ==
  /\ now < MaxNow
  /\ now' = now + 1
  /\ UNCHANGED <<signedIn, calendarVars, upcoming, requests, timerVars, cycleVars, serverVars>>

-----------------------------------------------------------------------------
(* Edits.                                                                  *)

Edited(c, e, t) ==
  /\ version[c] < MaxVersion
  /\ server' = [server EXCEPT ![c][e] = t]
  /\ version' = [version EXCEPT ![c] = @ + 1]
  /\ UNCHANGED <<signedIn, calendarVars, upcoming, requests, timerVars, cycleVars, now, acked>>

(* The server applies a create, update or delete this client sent.         *)
ApplyLocalEdit(c, e, t) ==
  /\ Edited(c, e, t)
  /\ unacked' = unacked \cup {[calendar |-> c, version |-> version[c] + 1]}

(* Another client edits the calendar.                                      *)
ApplyRemoteEdit(c, e, t) ==
  /\ Edited(c, e, t)
  /\ UNCHANGED unacked

(* Mutant of RefreshCalendar: the timers stay as they are.                 *)
RefreshCalendarTimersKept(c) ==
  IF c \in known
  THEN /\ upcoming' = UpcomingWithout({c})
       /\ FetchForCalendars({c} \cap enabled, requests)
       /\ UNCHANGED timerVars
  ELSE UNCHANGED <<upcoming, requests, timerVars>>

RefreshCalendar(c) ==
  IF c \in known
  THEN /\ upcoming' = UpcomingWithout({c})
       /\ RebuildTimers(UpcomingWithout({c}), enabled)
       /\ FetchForCalendars({c} \cap enabled, requests)
  ELSE UNCHANGED <<upcoming, requests, timerVars>>

(* reloadCalendarAfterMutation.                                            *)
MutationAcked(e) ==
  /\ e \in unacked
  /\ unacked' = unacked \ {e}
  /\ acked' = [acked EXCEPT ![e.calendar] = IF @ < e.version THEN e.version ELSE @]
  /\ RefreshCalendar(e.calendar)
  /\ UNCHANGED <<signedIn, calendarVars, cycleVars, now, server, version>>

(* The edit was applied but its reply failed.                              *)
MutationReplyLost(e) ==
  /\ e \in unacked
  /\ unacked' = unacked \ {e}
  /\ UNCHANGED <<signedIn, calendarVars, upcoming, requests, timerVars, cycleVars, now,
                 server, version, acked>>

-----------------------------------------------------------------------------
(* The session.                                                            *)

SignIn ==
  /\ ~signedIn
  /\ signedIn' = TRUE
  /\ UNCHANGED <<calendarVars, upcoming, requests, timerVars, cycleVars, now, serverVars>>

(* invalid_grant: the state is SignedOut but signedOut() is not emitted.   *)
SessionExpires ==
  /\ SessionCanExpire
  /\ signedIn
  /\ signedIn' = FALSE
  /\ UNCHANGED <<calendarVars, upcoming, requests, timerVars, cycleVars, now, serverVars>>

(* signOut(): the scheduler's clear().  A restart of the process leaves    *)
(* the same, and no throttle either.                                       *)
Clear ==
  /\ signedIn' = FALSE
  /\ known' = {}
  /\ enabled' = {}
  /\ upcoming' = UpcomingWithout(Calendar)
  /\ requests' = {}
  /\ armed' = {}
  /\ fired' = {}
  /\ refreshTimer' = FALSE
  /\ UNCHANGED <<now, server, version, acked>>

SignOut == signedIn /\ Clear /\ UNCHANGED <<cycleRecent, unacked>>

Restart == Clear /\ cycleRecent' = FALSE /\ unacked' = {}

-----------------------------------------------------------------------------
Calls ==
  \/ \E listed \in SUBSET Calendar : \E selected \in SUBSET listed : SetCalendars(listed, selected)
  \/ \E c \in Calendar : EnableCalendar(c) \/ DisableCalendar(c)
  \/ RefreshAll

Replies == \E r \in requests : ServerAnswers(r) \/ OnEventsFetched(r) \/ OnEventsFetchFailed(r)

Timers == (\E k \in armed : ReminderDue(k)) \/ RefreshTimerFires \/ GapEnds

Edits ==
  \/ \E c \in Calendar, e \in Event, t \in FireTime \cup {NoTime} :
       ApplyLocalEdit(c, e, t) \/ ApplyRemoteEdit(c, e, t)
  \/ \E e \in unacked : MutationAcked(e) \/ MutationReplyLost(e)

Session == SignIn \/ SessionExpires \/ SignOut \/ Restart

Next == Calls \/ Replies \/ Timers \/ Tick \/ Edits \/ Session

Spec == Init /\ [][Next]_vars

(* The ten-minute refresh keeps firing, and a calendar asked about again   *)
(* and again is answered in the end.  Time need not pass.                  *)
Answered(c) == \E r \in requests : r.calendar = c /\ ServerAnswers(r)
Delivered(c) == \E r \in requests : r.calendar = c /\ OnEventsFetched(r)

PolledSpec ==
  /\ Spec
  /\ WF_vars(RefreshTimerFires)
  /\ \A c \in Calendar : SF_vars(Answered(c)) /\ SF_vars(Delivered(c))

-----------------------------------------------------------------------------
(* Properties.                                                             *)

(* Every timer belongs to an event the schedule has at that very time, in  *)
(* a calendar that is enabled, and to a reminder that has not gone off in  *)
(* this session: what was moved, deleted, deselected or already shown does *)
(* not go off, in whatever order replies, toggles and edits come           *)
(* (rebuildTimers and its six callers, m_firedKeys).                       *)
FollowsSchedule(k) ==
  /\ k[1] \in enabled
  /\ upcoming[k[1]] # NoSchedule
  /\ upcoming[k[1]].fireAt[k[2]] = k[3]

TimersFollowSchedule == \A k \in armed : FollowsSchedule(k) /\ k \notin fired

(* As long as sessions end by signing out, the schedule is never older     *)
(* than the last edit this client saw succeed, nor is a reply it would     *)
(* accept, so no reminder rests on data from before that edit              *)
(* (refreshCalendar, m_latestRequestIdByCalendar).                         *)
NotBeforeAck ==
  /\ \A c \in Calendar : upcoming[c] # NoSchedule => acked[c] <= upcoming[c].version
  /\ \A r \in requests : r.answer # NoAnswer => acked[r.calendar] <= r.answer.version

ScheduleNotOlderThanAck == SessionCanExpire \/ NotBeforeAck

(* A reminder that is not due yet is only disarmed by a reply that no      *)
(* longer has it, an edit of its calendar, or the calendar's leaving: a    *)
(* failed fetch, another calendar's reply or a repeated cycle keep it      *)
(* (onEventsFetchFailed, rebuildTimers).                                   *)
RemindersOutliveFailures ==
  [][\A k \in armed :
       now < k[3] /\ k \notin armed' /\ k \notin fired' =>
         \/ k[1] \notin enabled'
         \/ \E r \in requests \ requests' :
              r.calendar = k[1] /\ r.answer # NoAnswer /\ r.answer.fireAt[k[2]] # k[3]
         \/ \E e \in unacked \ unacked' : e.calendar = k[1]]_vars

(* While a calendar stays enabled and the session lasts, its timers end up *)
(* being the reminders the server has in the window, edits made elsewhere  *)
(* included (the ten-minute refresh).                                      *)
MatchesServer(c) ==
  /\ \A k \in armed : k[1] = c => server[c][k[2]] = k[3]
  /\ \A e \in Event, t \in FireTime :
       server[c][e] = t /\ now < t /\ t + Lead < now + Window =>
         <<c, e, t>> \in armed \cup fired

Converges ==
  \A c \in Calendar : <>[](signedIn /\ c \in enabled) => <>[]MatchesServer(c)

(* reminderschedule.h: a reminder missed while the app was closed is       *)
(* dropped; one that comes due while it runs goes off.                     *)
DueIsNotDropped ==
  [][\A k \in armed :
       /\ k[1] \in enabled'
       /\ upcoming'[k[1]] # NoSchedule /\ upcoming'[k[1]].fireAt[k[2]] = k[3]
       => k \in armed' \cup fired']_vars
=============================================================================
