------------------------------ MODULE EventViews ------------------------------
(***************************************************************************)
(* The controllers between the shared event cache and the month, week and  *)
(* day views (calendar/storebackedeventscontroller.cpp and its two         *)
(* subclasses), with what each view keeps painted.  The cache is           *)
(* BucketCache, which MonthEventStore implements.                          *)
(*                                                                         *)
(* A view paints, per calendar, a copy of the buckets of the months its    *)
(* range needs, taken when the calendar was last rendered; the copy stays  *)
(* until the calendar is rendered again or cleared.                        *)
(***************************************************************************)
EXTENDS BucketCache

CONSTANTS
  View,        \* the view controllers
  RangesOf,    \* per view: the sets of months its displayed range may need
  Polled,      \* the view on screen
  MaxVersion,  \* bound: edits of a calendar
  Nothing      \* a calendar a view paints nothing of

ASSUME ViewsAssumption ==
  /\ RangesOf \in [View -> SUBSET SUBSET Month]
  /\ \A v \in View : RangesOf[v] # {}
  /\ Polled \in View
  /\ MaxVersion \in Nat
  /\ Nothing \notin [Month -> Snapshot(MaxVersion)]

VARIABLES
  signedIn,    \* AuthManager::state() is SignedIn
  range,       \* per view: currentMonthKeys()
  known,       \* per view: the ids in m_calendarsById
  enabled,     \* per view: m_enabledCalendarIds
  painted,     \* per view and calendar: m_eventsByCalendar
  owed         \* per view: its range was unsettled since the last fetchCycleFinished()

viewVars == <<signedIn, range, known, enabled, painted, owed>>
vars == <<cacheVars, viewVars>>

Picture == [Month -> Snapshot(MaxVersion)] \cup {Nothing}

TypeOK ==
  /\ CacheTypeOK
  /\ signedIn \in BOOLEAN
  /\ \A v \in View : range[v] \in RangesOf[v]
  /\ known \in [View -> SUBSET Calendar]
  /\ \A v \in View : enabled[v] \subseteq known[v]
  /\ painted \in [View -> [Calendar -> Picture]]
  /\ owed \in [View -> BOOLEAN]

Blank == [c \in Calendar |-> Nothing]

Init ==
  /\ CacheInit
  /\ signedIn = FALSE
  /\ range \in {r \in [View -> SUBSET Month] : \A v \in View : r[v] \in RangesOf[v]}
  /\ known = [v \in View |-> {}]
  /\ enabled = [v \in View |-> {}]
  /\ painted = [v \in View |-> Blank]
  /\ owed = [v \in View |-> FALSE]

Ready(v) == signedIn /\ known[v] # {}

-----------------------------------------------------------------------------
(* Painting.                                                               *)

(* eventsFor over the months of v's range, for one calendar.               *)
PictureOf(v, c) ==
  [m \in Month |-> IF m \in range'[v] THEN cached'[m, c].events ELSE NoEvents]

(* Mutant of Render: a calendar switched off meanwhile is painted as well. *)
RenderDisabledToo(before, todo) ==
  painted' = [v \in View |-> [c \in Calendar |->
    IF <<v, c>> \in todo THEN PictureOf(v, c) ELSE before[v][c]]]

(* renderCalendarFromCache, for the (view, calendar) pairs of todo, over   *)
(* what was painted before; a calendar that is not enabled is not touched. *)
Render(before, todo) ==
  painted' = [v \in View |-> [c \in Calendar |->
    IF <<v, c>> \in todo /\ c \in enabled'[v] THEN PictureOf(v, c) ELSE before[v][c]]]

(* bucketUpdated: every controller whose range has the month.              *)
ShowingMonths(keys) == {vc \in View \X Calendar :
  \E k \in keys : k[2] = vc[2] /\ k[1] \in range'[vc[1]]}

(* A bucket that was not loaded and now has events came from its file.     *)
Hydrated(before) ==
  {k \in Key : before[k].state = "NotLoaded" /\ cached'[k].events # NoEvents}

(* MonthEventStore::monthsSettled for v's range and enabled calendars.     *)
Settled(c, r, e) ==
  \A k \in r \X e :
    /\ c[k].state # "NotLoaded"
    /\ c[k].state = "InFlight" => ~c[k].events.empty

(* maybeEmitCycleFinished for the views that call it in this step.         *)
MaybeEmitCycleFinished(callers) ==
  owed' = [v \in View |->
    LET settled == Settled(cached', range'[v], enabled'[v])
    IN  IF settled THEN owed[v] /\ v \notin callers ELSE TRUE]

(* Mutant of ShowingMonth: a week that straddles two months is missed.     *)
ShowingMonthAlone(m) == {v \in View : range[v] = {m}}

ShowingMonth(m) == {v \in View : m \in range[v]}

ViewsOf(todo) == {vc[1] : vc \in todo}

-----------------------------------------------------------------------------
(* The controllers' slots.                                                 *)

(* The caches that ensureMonths or refreshVisible may leave behind.  A     *)
(* cache file holds some earlier version, never an empty one: painting a   *)
(* file without events is painting nothing.                                *)
Choices(b, n) == {a \in Asked(b, n) : ~a.events.empty \/ a.events = b.events}

AskFor(c, keys) ==
  LET choices == [k \in keys |-> Choices(c[k], latest[k[2]])]
  IN  /\ cached' \in {[k \in Key |-> IF k \in keys THEN f[k] ELSE c[k]] :
                        f \in {g \in [keys -> UNION {choices[k] : k \in keys}] :
                                 \A k \in keys : g[k] \in choices[k]}}

(* reloadCurrentRange of view v after its range or its calendars changed.  *)
ReloadCurrentRange(v) ==
  LET keys == range'[v] \X enabled'[v]
      todo == {<<v, c>> : c \in Calendar} \cup ShowingMonths(Hydrated(cached))
  IN  /\ AskFor(cached, keys)
      /\ Render([painted EXCEPT ![v] = Blank], todo)
      /\ MaybeEmitCycleFinished({v} \cup ViewsOf(todo))
      /\ UNCHANGED <<floor, latest>>

(* MainWindow populates the controller with a calendar list; the server's  *)
(* selected flags become the enabled set.  The list is never empty: every  *)
(* account has its primary calendar.                                       *)
SetCalendars(v, list, selected) ==
  /\ signedIn
  /\ known' = [known EXCEPT ![v] = list]
  /\ enabled' = [enabled EXCEPT ![v] = selected]
  /\ UNCHANGED <<signedIn, range>>
  /\ ReloadCurrentRange(v)

(* displayedMonthChanged or displayedRangeChanged.  The views are only     *)
(* reachable while signed in: otherwise the auth gate page covers them.    *)
Navigate(v, months) ==
  /\ signedIn
  /\ range' = [range EXCEPT ![v] = months]
  /\ UNCHANGED <<signedIn, known, enabled>>
  /\ IF Ready(v)
     THEN ReloadCurrentRange(v)
     ELSE UNCHANGED <<cacheVars, painted, owed>>

(* Mutant of EnabledWith: a controller that does not know the calendar.    *)
EnabledWithUnknown(c) == [v \in View |-> enabled[v] \cup {c}]

EnabledWith(c) == [v \in View |-> enabled[v] \cup ({c} \cap known[v])]

(* A sidebar toggle, or the rollback of one: every controller that knows   *)
(* the calendar.  A rollback may also come after the session expired.      *)
EnableCalendar(c) ==
  LET knowing == {v \in View : c \in known[v]}
      loading == {v \in knowing : signedIn}
  IN  /\ enabled' = EnabledWith(c)
      /\ UNCHANGED <<signedIn, range, known, floor, latest>>
      /\ AskFor(cached, (UNION {range[v] : v \in loading}) \X {c})
      /\ LET todo == (loading \X {c}) \cup ShowingMonths(Hydrated(cached))
         IN  /\ Render(painted, todo)
             /\ MaybeEmitCycleFinished(knowing \cup ViewsOf(todo))

DisableCalendar(c) ==
  /\ enabled' = [v \in View |-> enabled[v] \ {c}]
  /\ painted' = [v \in View |->
       IF c \in known[v] THEN [painted[v] EXCEPT ![c] = Nothing] ELSE painted[v]]
  /\ UNCHANGED <<cacheVars, signedIn, range, known>>
  /\ MaybeEmitCycleFinished({v \in View : c \in known[v]})

(* Mutant of RefreshVisibleFromServer: clears the view first, as a         *)
(* navigation does.                                                        *)
RefreshVisibleFromServerCleared(v) ==
  /\ Ready(v)
  /\ AskFor(cached, range[v] \X enabled[v])
  /\ \A k \in range[v] \X enabled[v] : cached'[k].state = "InFlight"
  /\ UNCHANGED <<floor, latest, signedIn, range, known, enabled>>
  /\ painted' = [painted EXCEPT ![v] = Blank]
  /\ MaybeEmitCycleFinished({})

(* Mutant of RefreshVisibleFromServer: leaves loaded buckets alone.        *)
RefreshVisibleFromServerIfMissing(v) ==
  /\ Ready(v)
  /\ AskFor(cached, {k \in range[v] \X enabled[v] : cached[k].state # "Loaded"})
  /\ UNCHANGED <<floor, latest, signedIn, range, known, enabled>>
  /\ LET todo == ShowingMonths(Hydrated(cached))
     IN  Render(painted, todo) /\ MaybeEmitCycleFinished(ViewsOf(todo))

(* The periodic poll and Actions -> Refresh: no clearing, no rendering but *)
(* of what a file hydrates.                                                *)
RefreshVisibleFromServer(v) ==
  /\ Ready(v)
  /\ AskFor(cached, range[v] \X enabled[v])
  /\ \A k \in range[v] \X enabled[v] : cached'[k].state = "InFlight"
  /\ UNCHANGED <<floor, latest, signedIn, range, known, enabled>>
  /\ LET todo == ShowingMonths(Hydrated(cached))
     IN  Render(painted, todo) /\ MaybeEmitCycleFinished(ViewsOf(todo))

(* An edit of calendar c succeeded: the buckets are dropped and refetched, *)
(* what is painted stays (refreshCalendar of every controller).            *)
MutationAcked(c) ==
  LET emptied == [k \in Key |-> IF k[2] = c THEN Unloaded ELSE cached[k]]
      loading == {v \in View : c \in known[v] /\ signedIn}
  IN  /\ AskFor(emptied, (UNION {range[v] : v \in loading}) \X {c})
      /\ \E v \in floor[c]..latest[c] : floor' = [floor EXCEPT ![c] = v]
      /\ UNCHANGED <<latest, signedIn, range, known, enabled>>
      /\ LET todo == ShowingMonths(Hydrated(emptied))
         IN  Render(painted, todo) /\ MaybeEmitCycleFinished(ViewsOf(todo))

OnBucketUpdated(k) ==
  /\ Answered(k)
  /\ UNCHANGED <<signedIn, range, known, enabled>>
  /\ Render(painted, ShowingMonth(k[1]) \X {k[2]})
  /\ MaybeEmitCycleFinished(ShowingMonth(k[1]))

(* Mutant of OnBucketFetchFailed: a failure does not end the cycle.        *)
OnBucketFetchFailedSilently(k) ==
  /\ Refused(k)
  /\ UNCHANGED <<signedIn, range, known, enabled, painted>>
  /\ MaybeEmitCycleFinished({})

(* onBucketFetchFailed and onBucketRefreshFailed: nothing is repainted.    *)
OnBucketFetchFailed(k) ==
  /\ Refused(k)
  /\ UNCHANGED <<signedIn, range, known, enabled, painted>>
  /\ MaybeEmitCycleFinished(ShowingMonth(k[1]))

(* signedOut: every controller's clear(), then the store's invalidateAll.  *)
SignOut ==
  /\ signedIn
  /\ DropAll
  /\ signedIn' = FALSE
  /\ known' = [v \in View |-> {}]
  /\ enabled' = [v \in View |-> {}]
  /\ painted' = [v \in View |-> Blank]
  /\ owed' = [v \in View |-> FALSE]
  /\ UNCHANGED range

(* The session expires without signedOut(), or comes (back) up.            *)
SessionChanges ==
  /\ signedIn' = ~signedIn
  /\ UNCHANGED <<cacheVars, range, known, enabled, painted, owed>>

Edited(c) ==
  /\ latest[c] < MaxVersion
  /\ ServerEdit(c)
  /\ UNCHANGED viewVars

-----------------------------------------------------------------------------
Next ==
  \/ \E v \in View :
       \/ \E list \in SUBSET Calendar \ {{}} :
            \E selected \in SUBSET list : SetCalendars(v, list, selected)
       \/ \E months \in RangesOf[v] : Navigate(v, months)
       \/ RefreshVisibleFromServer(v)
  \/ \E c \in Calendar :
       EnableCalendar(c) \/ DisableCalendar(c) \/ MutationAcked(c) \/ Edited(c)
  \/ \E k \in Key : OnBucketUpdated(k) \/ OnBucketFetchFailed(k)
  \/ SignOut
  \/ SessionChanges

Spec == Init /\ [][Next]_vars

(* The poll of the view on screen runs while the program does; a bucket    *)
(* asked for again and again is answered, in the end with the server's     *)
(* version (Converges and Settles of MonthEventStore).                     *)
AnsweredUpToDate(k) ==
  OnBucketUpdated(k) /\ cached'[k].events.version = latest[k[2]]

LiveSpec ==
  /\ Spec
  /\ WF_vars(RefreshVisibleFromServer(Polled))
  /\ \A k \in Key : SF_vars(AnsweredUpToDate(k))

-----------------------------------------------------------------------------
(* Properties.                                                             *)

(* No view paints a calendar that is not enabled in it, whatever replies   *)
(* arrive after it was switched off, dropped from the list or signed out   *)
(* (renderCalendarFromCache's check, setCalendars, clear); and what it     *)
(* paints of a bucket the server confirmed is what the bucket holds: no    *)
(* controller misses an answer, whichever view asked for it, and only a    *)
(* bucket that is being fetched, or failed, may differ from the screen     *)
(* (onBucketUpdated reaches every view with that month in range).          *)
PaintedIsCached ==
  \A v \in View, c \in Calendar :
    painted[v][c] # Nothing =>
      /\ c \in enabled[v]
      /\ \A m \in range[v] :
           cached[m, c].state = "Loaded" /\ cached[m, c].confirmed =>
             painted[v][c][m] = cached[m, c].events

(* fetchCycleFinished() is never lost: once every enabled calendar of the  *)
(* range has something to show or has failed, the views' listeners (the    *)
(* reminder scheduler, the restored scroll position) have been told, on    *)
(* the paths of a failure, a file, a toggle and another view's fetch too.  *)
CycleReported ==
  \A v \in View : Settled(cached, range[v], enabled[v]) => ~owed[v]

(* Saving an edit or polling never blanks the screen: events a view paints *)
(* leave it only when an answer for a month of its range replaces them, or *)
(* because of a navigation, a new list, a toggle or a sign-out             *)
(* (refreshCalendar, refreshVisibleFromServer, onBucketRefreshFailed).     *)
Visible(v, c) == painted[v][c] # Nothing /\ \E m \in range[v] : ~painted[v][c][m].empty

NoBlankFlash ==
  [][\A v \in View, c \in Calendar :
       Visible(v, c) /\ ~Visible(v, c)' =>
         \/ \E k \in range[v] \X {c} : Answered(k)
         \/ EnableCalendar(c) \/ DisableCalendar(c) \/ SignOut
         \/ ReloadCurrentRange(v)]_vars

(* Once edits stop, the view on screen ends up painting what the server    *)
(* has for every calendar that stays painted in it, edits made elsewhere   *)
(* included (the ten-minute poll, through the cache, to the view).         *)
UpToDate(v, c, m) ==
  painted[v][c] # Nothing /\ m \in range[v] => painted[v][c][m].version = latest[c]

Quiet(c) ==
  /\ <>[](signedIn /\ painted[Polled][c] # Nothing)
  /\ <>[][~(Edited(c) \/ MutationAcked(c))]_vars

ScreenConverges ==
  \A c \in Calendar : Quiet(c) =>
    \A m \in Month : []<>(m \notin range[Polled]) \/ <>[]UpToDate(Polled, c, m)
=============================================================================
