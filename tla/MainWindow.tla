------------------------------ MODULE MainWindow ------------------------------
(***************************************************************************)
(* app/mainwindow.cpp without event editing: the calendar list and its     *)
(* three readers (sidebar, m_calendars, controllers), the offline state    *)
(* with its reconnect timer, and the per-account calendar list on disk     *)
(* (calendar/eventcachestore.cpp), across sign-ins, sign-outs, expired     *)
(* sessions and restarts.                                                  *)
(***************************************************************************)
EXTENDS Naturals

CONSTANTS
  Account,    \* account keys: one per stored refresh token
  Calendar,   \* calendar ids
  View,       \* the view controllers
  FirstView,  \* the view on screen at start
  Nobody      \* not an account

ASSUME WindowAssumption ==
  /\ FirstView \in View
  /\ Nobody \notin Account
  /\ "reminders" \notin View

VARIABLES
  user,        \* the account AuthManager is SignedIn as, or Nobody
  accountKey,  \* EventCacheStore::m_accountKey
  calendars,   \* m_calendars
  sidebar,     \* the sidebar's check boxes
  held,        \* per controller: the calendars it knows and which are enabled
  populated,   \* the m_...ControllerPopulated flags
  active,      \* the view on screen
  offline,     \* m_serverUnavailable
  reconnect,   \* m_reconnectTimer is running
  requests,    \* calendar list requests on the wire
  patches,     \* changes of a calendar's selected flag on the wire
  files,       \* per account: whose list its calendars.cbor holds, if any
  settled,     \* the wait for this session's own list ended otherwise
  left         \* the account last signed out of, until the next sign-in

vars == <<user, accountKey, calendars, sidebar, held, populated, active,
          offline, reconnect, requests, patches, files, settled, left>>

(* The selection of a calendar list: selected flags of some calendars.     *)
Selection == UNION {[S -> BOOLEAN] : S \in SUBSET Calendar}
Empty == [c \in {} |-> FALSE]

(* A list remembers the account it was fetched for.                        *)
List == [of : Account, selected : Selection \ {Empty}]
NoList == [of |-> Nobody, selected |-> Empty]
Maybe(l) == l \cup {NoList}

Controller == View \cup {"reminders"}

(* Two list requests of one account, or two equal changes, count as one.   *)
Patch == [calendar : Calendar, selected : BOOLEAN]

TypeOK ==
  /\ user \in Account \cup {Nobody}
  /\ accountKey \in Account \cup {Nobody}
  /\ user # Nobody => accountKey = user
  /\ calendars \in Maybe(List)
  /\ sidebar \in Selection
  /\ held \in [Controller -> Selection]
  /\ populated \in SUBSET View
  /\ active \in View
  /\ offline \in BOOLEAN
  /\ reconnect = offline  \* the timer runs exactly while offline
  /\ requests \in SUBSET Account
  /\ patches \in SUBSET Patch
  /\ files \in [Account -> Account \cup {Nobody}]
  /\ settled \in BOOLEAN
  /\ left \in Account \cup {Nobody}

Started ==
  /\ user = Nobody
  /\ accountKey = Nobody
  /\ calendars = NoList
  /\ sidebar = Empty
  /\ held = [k \in Controller |-> Empty]
  /\ populated = {}
  /\ active = FirstView
  /\ offline = FALSE
  /\ reconnect = FALSE
  /\ requests = {}
  /\ patches = {}
  /\ settled = FALSE
  /\ left = Nobody

Init == Started /\ files = [a \in Account |-> Nobody]

-----------------------------------------------------------------------------
(* The calendar list.                                                      *)

(* Mutant of ApplyCalendarList: the populated flags survive a new list.    *)
ApplyCalendarListKeepingFlags(list) ==
  /\ calendars' = list
  /\ sidebar' = list.selected
  /\ populated' = populated \cup {active}
  /\ held' = [k \in Controller |->
       IF k = "reminders" \/ k \in populated' \ populated THEN list.selected ELSE held[k]]

(* applyCalendarList: the reminder scheduler and the view on screen take   *)
(* the list at once, the other views on the next switch to them.           *)
ApplyCalendarList(list) ==
  /\ calendars' = list
  /\ sidebar' = list.selected
  /\ populated' = {active}
  /\ held' = [held EXCEPT !["reminders"] = list.selected, ![active] = list.selected]

With(selection, c, on) ==
  IF c \in DOMAIN selection THEN [selection EXCEPT ![c] = on] ELSE selection

(* Mutant of EnterServerUnavailable: the timer is only started by the      *)
(* second failure.                                                         *)
EnterServerUnavailableQuietly == offline' = TRUE /\ reconnect' = offline

EnterServerUnavailable == offline' = TRUE /\ reconnect' = TRUE

LeaveServerUnavailable == offline' = FALSE /\ reconnect' = FALSE

FetchCalendarList == requests' = requests \cup {user'}

(* loadCalendars, unless a list is still shown: some list kept for a.      *)
LoadCalendars(a) ==
  IF calendars = NoList /\ files[a] # Nobody
  THEN \E selection \in Selection \ {Empty} :
         ApplyCalendarList([of |-> files[a], selected |-> selection])
  ELSE UNCHANGED <<calendars, sidebar, populated, held>>

(* Mutant of SignIn: only an empty window asks for its list.               *)
SignInIfEmpty(a) ==
  /\ user = Nobody
  /\ user' = a
  /\ accountKey' = a
  /\ settled' = FALSE
  /\ left' = Nobody
  /\ IF calendars = NoList
     THEN FetchCalendarList ELSE UNCHANGED requests
  /\ LoadCalendars(a)
  /\ UNCHANGED <<active, offline, reconnect, patches, files>>

(* signedIn(), after an interactive sign-in or a restored session: the     *)
(* list on disk shows unless a list is still there, one is requested.      *)
SignIn(a) ==
  /\ user = Nobody
  /\ user' = a
  /\ accountKey' = a
  /\ settled' = FALSE
  /\ left' = Nobody
  /\ FetchCalendarList
  /\ LoadCalendars(a)
  /\ UNCHANGED <<active, offline, reconnect, patches, files>>

(* Mutant of CalendarListFetched: applied whatever the session.            *)
CalendarListFetchedAlways(r, selection) ==
  LET list == [of |-> r, selected |-> selection]
  IN  /\ r \in requests
      /\ requests' = requests \ {r}
      /\ LeaveServerUnavailable
      /\ \/ accountKey # Nobody /\ files' = [files EXCEPT ![accountKey] = r]
         \/ UNCHANGED files
      /\ ApplyCalendarList(list)
      /\ UNCHANGED <<user, accountKey, active, patches, settled, left>>

(* storeCalendars, which may fail.                                         *)
StoreCalendars(list) == files' \in {files, [files EXCEPT ![accountKey] = list.of]}

(* A calendar list arrives: it is dropped unless somebody is signed in.    *)
CalendarListFetched(r, selection) ==
  LET list == [of |-> r, selected |-> selection]
  IN  /\ r \in requests
      /\ requests' = requests \ {r}
      /\ IF user = Nobody
         THEN UNCHANGED <<calendars, sidebar, held, populated, offline, reconnect,
                        settled, files>>
         ELSE /\ LeaveServerUnavailable
              /\ settled' = (settled \/ r # user)
              /\ StoreCalendars(list)
              /\ ApplyCalendarList(list)
      /\ UNCHANGED <<user, accountKey, active, patches, left>>

(* A list request fails; there is no check for a session here.             *)
CalendarListFetchFailed(r, transient) ==
  /\ r \in requests
  /\ requests' = requests \ {r}
  /\ IF transient THEN EnterServerUnavailable ELSE UNCHANGED <<offline, reconnect>>
  /\ settled' = (settled \/ ~transient)
  /\ UNCHANGED <<user, accountKey, calendars, sidebar, held, populated, active,
                 patches, files, left>>

(* The store's buckets tell about the server as well.                      *)
BucketFails ==
  /\ calendars # NoList
  /\ EnterServerUnavailable
  /\ UNCHANGED <<user, accountKey, calendars, sidebar, held, populated, active,
                 requests, patches, files, settled, left>>

BucketRefreshed ==
  /\ calendars # NoList
  /\ LeaveServerUnavailable
  /\ settled' = (settled \/ offline)
  /\ UNCHANGED <<user, accountKey, calendars, sidebar, held, populated, active,
                 requests, patches, files, left>>

(* The reconnect timer, every 90 s while offline.                          *)
ReconnectTimerFires ==
  /\ reconnect
  /\ user # Nobody
  /\ UNCHANGED user
  /\ FetchCalendarList
  /\ UNCHANGED <<accountKey, calendars, sidebar, held, populated, active, offline,
                 reconnect, patches, files, settled, left>>

(* Actions -> Refresh; the refetch of the range on screen is EventViews'.  *)
ActionRefresh ==
  /\ user # Nobody
  /\ UNCHANGED user
  /\ FetchCalendarList
  /\ UNCHANGED <<accountKey, calendars, sidebar, held, populated, active, offline,
                 reconnect, patches, files, settled, left>>

-----------------------------------------------------------------------------
(* Views and toggles.                                                      *)

(* A view takes the list if it does not have it.                           *)
EnsureControllerPopulated(v) ==
  IF v \in populated \/ calendars = NoList
  THEN UNCHANGED <<populated, held>>
  ELSE /\ populated' = populated \cup {v}
       /\ held' = [held EXCEPT ![v] = calendars.selected]

(* A view button.                                                          *)
SwitchView(v) ==
  /\ user # Nobody
  /\ active' = v
  /\ EnsureControllerPopulated(v)
  /\ UNCHANGED <<user, accountKey, calendars, sidebar, offline, reconnect,
                 requests, patches, files, settled, left>>

(* Mutant of Selected: m_calendars is not told.                            *)
SelectedNotCached(c, on) ==
  /\ sidebar' = With(sidebar, c, on)
  /\ calendars' = calendars
  /\ held' = [k \in Controller |-> With(held[k], c, on)]

(* setCalendarSelected of the sidebar, updateCachedCalendarSelected and    *)
(* setCalendarEnabled of every controller: each ignores an unknown id.     *)
Selected(c, on) ==
  /\ sidebar' = With(sidebar, c, on)
  /\ calendars' = [calendars EXCEPT !.selected = With(@, c, on)]
  /\ held' = [k \in Controller |-> With(held[k], c, on)]

(* A check box is clicked.  The sidebar is on the signed-in page.          *)
Toggle(c) ==
  LET on == ~sidebar[c]
  IN  /\ user # Nobody
      /\ c \in DOMAIN sidebar
      /\ Selected(c, on)
      /\ patches' = patches \cup {[calendar |-> c, selected |-> on]}
      /\ UNCHANGED <<user, accountKey, populated, active, offline, reconnect,
                     requests, files, settled, left>>

PatchSucceeds(p) ==
  /\ p \in patches
  /\ patches' = patches \ {p}
  /\ UNCHANGED <<user, accountKey, calendars, sidebar, held, populated, active,
                 offline, reconnect, requests, files, settled, left>>

(* calendarSelectedChangeFailed: the flag is put back everywhere, whatever *)
(* happened to the calendar since.                                         *)
PatchFails(p) ==
  /\ p \in patches
  /\ patches' = patches \ {p}
  /\ Selected(p.calendar, ~p.selected)
  /\ UNCHANGED <<user, accountKey, populated, active, offline, reconnect,
                 requests, files, settled, left>>

-----------------------------------------------------------------------------
(* The end of a session.                                                   *)

(* Mutant of SignOut: the offline state is not cleared with its timer.     *)
SignOutStillOffline ==
  /\ user # Nobody
  /\ user' = Nobody
  /\ accountKey' = Nobody
  /\ calendars' = NoList
  /\ sidebar' = Empty
  /\ held' = [k \in Controller |-> Empty]
  /\ populated' = {}
  /\ reconnect' = FALSE
  /\ files' = [files EXCEPT ![accountKey] = Nobody]
  /\ left' = user
  /\ UNCHANGED <<active, offline, requests, patches, settled>>

(* signedOut(), in the order of its slots: the sidebar and the controllers *)
(* are cleared, then the window, whose invalidateAll removes the account's *)
(* directory while m_accountKey still names it.                            *)
SignOut ==
  /\ user # Nobody
  /\ user' = Nobody
  /\ accountKey' = Nobody
  /\ calendars' = NoList
  /\ sidebar' = Empty
  /\ held' = [k \in Controller |-> Empty]
  /\ populated' = {}
  /\ offline' = FALSE
  /\ reconnect' = FALSE
  /\ files' = [files EXCEPT ![accountKey] = Nobody]
  /\ left' = user
  /\ UNCHANGED <<active, requests, patches, settled>>

(* invalid_grant: the state changes, signedOut() is not emitted.           *)
SessionExpires ==
  /\ user # Nobody
  /\ user' = Nobody
  /\ UNCHANGED <<accountKey, calendars, sidebar, held, populated, active, offline,
                 reconnect, requests, patches, files, settled, left>>

Restart ==
  /\ user' = Nobody
  /\ accountKey' = Nobody
  /\ calendars' = NoList
  /\ sidebar' = Empty
  /\ held' = [k \in Controller |-> Empty]
  /\ populated' = {}
  /\ active' \in View
  /\ offline' = FALSE
  /\ reconnect' = FALSE
  /\ requests' = {}
  /\ patches' = {}
  /\ settled' = FALSE
  /\ left' = Nobody
  /\ UNCHANGED files

-----------------------------------------------------------------------------
Next ==
  \/ \E a \in Account : SignIn(a)
  \/ \E r \in requests :
       \/ \E selection \in Selection \ {Empty} : CalendarListFetched(r, selection)
       \/ \E transient \in BOOLEAN : CalendarListFetchFailed(r, transient)
  \/ BucketFails
  \/ BucketRefreshed
  \/ ReconnectTimerFires
  \/ ActionRefresh
  \/ \E v \in View : SwitchView(v)
  \/ \E c \in Calendar : Toggle(c)
  \/ \E p \in patches : PatchSucceeds(p) \/ PatchFails(p)
  \/ SignOut
  \/ SessionExpires
  \/ Restart

Spec == Init /\ [][Next]_vars

(* The reconnect timer fires while it runs, a list request is answered     *)
(* (its timeout sees to that), and if asked again and again the server     *)
(* gives the list in the end.                                              *)
Answered(r) ==
  \/ \E selection \in Selection \ {Empty} : CalendarListFetched(r, selection)
  \/ \E transient \in BOOLEAN : CalendarListFetchFailed(r, transient)

LiveSpec ==
  /\ Spec
  /\ WF_vars(ReconnectTimerFires)
  /\ \A r \in Account :
       /\ WF_vars(Answered(r))
       /\ SF_vars(\E selection \in Selection \ {Empty} : CalendarListFetched(r, selection))

-----------------------------------------------------------------------------
(* Properties.                                                             *)

(* The check boxes, the list the window remembers for views not yet shown, *)
(* and what each populated view and the reminder scheduler have enabled    *)
(* are one selection, and the view on screen is populated, in every        *)
(* interleaving of toggles, rollbacks, lists, view switches and sign-outs  *)
(* (updateCachedCalendarSelected, the populated flags).                    *)
SameSelection ==
  /\ sidebar = calendars.selected
  /\ held["reminders"] = sidebar
  /\ calendars # NoList => active \in populated
  /\ \A v \in populated : held[v] = sidebar

(* After a sign-out nothing of the account is left in the window or in its *)
(* directory, and no late reply brings it back before the next sign-in     *)
(* ("explicit sign-out: drop this account's cache", "a late reply arrived  *)
(* after sign-out").                                                       *)
NothingAfterSignOut ==
  left # Nobody =>
    /\ calendars = NoList
    /\ \A k \in Controller : held[k] = Empty
    /\ files[left] = Nobody

(* While somebody is signed in the offline state ends, also when a failure *)
(* that arrived after the last sign-out caused it: the reconnect timer     *)
(* keeps asking until the server answers.                                  *)
OfflineEnds ==
  (offline /\ user # Nobody) ~> (~offline \/ user = Nobody)

(* An account signed in over the list of an expired session gets its own   *)
(* list.  Three things may end the wait otherwise: the server refuses the  *)
(* request, a bucket's answer ends the offline state and with it the       *)
(* reconnect timer, or a late list of another account is taken for it.     *)
OwnListShown ==
  \A a \in Account : (user = a) ~> (calendars.of = a \/ user # a \/ settled)

(* A list requested in a session that has ended is not applied in a later  *)
(* one ("return; // a late reply arrived after sign-out").                 *)
LateListDropped ==
  [][\A r \in requests \ requests' : r # user => calendars' = calendars]_vars
=============================================================================
