--------------------------- MODULE MainWindow_proofs ---------------------------
(***************************************************************************)
(* Proofs about MainWindow: its type invariant, the one selection of the   *)
(* calendar list and its readers, and what a sign-out leaves, for any      *)
(* accounts, calendars and views.                                          *)
(***************************************************************************)
EXTENDS MainWindow, TLAPS

-----------------------------------------------------------------------------
(* Selections and lists.                                                   *)

LEMMA SelectionForm ==
  \A s : s \in Selection <=> \E S \in SUBSET Calendar : s \in [S -> BOOLEAN]
BY DEF Selection

LEMMA EmptySelection ==
  /\ Empty \in Selection
  /\ DOMAIN Empty = {}
  /\ \A s \in Selection : DOMAIN s = {} => s = Empty
<1>1. Empty \in [{} -> BOOLEAN] /\ DOMAIN Empty = {}
  BY DEF Empty
<1>2. ASSUME NEW s \in Selection, DOMAIN s = {} PROVE s = Empty
  <2>1. PICK S \in SUBSET Calendar : s \in [S -> BOOLEAN]
    BY SelectionForm
  <2>2. S = {}
    BY <1>2, <2>1
  <2> QED BY <2>1, <2>2 DEF Empty
<1> QED BY <1>1, <1>2, SelectionForm

(* A toggle keeps which calendars a selection knows.                       *)
LEMMA WithType ==
  ASSUME NEW s \in Selection, NEW c, NEW on \in BOOLEAN
  PROVE  /\ With(s, c, on) \in Selection
         /\ With(s, c, on) = Empty <=> s = Empty
<1>1. PICK S \in SUBSET Calendar : s \in [S -> BOOLEAN]
  BY SelectionForm
<1>2. With(s, c, on) \in [S -> BOOLEAN] /\ DOMAIN With(s, c, on) = DOMAIN s
  BY <1>1 DEF With
<1>3. With(s, c, on) \in Selection
  BY <1>2, SelectionForm
<1> QED BY <1>2, <1>3, EmptySelection

LEMMA NoListFields == NoList.of = Nobody /\ NoList.selected = Empty
BY DEF NoList

LEMMA ListFields ==
  ASSUME TypeOK
  PROVE  /\ calendars.selected \in Selection
         /\ calendars = NoList <=> calendars.selected = Empty
         /\ calendars # NoList => calendars \in List
BY NoListFields, EmptySelection DEF TypeOK, Maybe, List

(* The list kept for an account, when a session starts.                    *)
LEMMA LoadedCases ==
  ASSUME TypeOK, NEW a \in Account, LoadCalendars(a)
  PROVE  \/ UNCHANGED <<calendars, sidebar, populated, held>>
         \/ \E list \in List : ApplyCalendarList(list)
<1>1. CASE ~(calendars = NoList /\ files[a] # Nobody)
  BY <1>1 DEF LoadCalendars
<1>2. CASE calendars = NoList /\ files[a] # Nobody
  <2>1. PICK selection \in Selection \ {Empty} :
          ApplyCalendarList([of |-> files[a], selected |-> selection])
    BY <1>2 DEF LoadCalendars
  <2>2. [of |-> files[a], selected |-> selection] \in List
    BY <1>2 DEF TypeOK, List
  <2> QED BY <2>1, <2>2
<1> QED BY <1>1, <1>2

(* What the steps do to the list and its readers: nothing, a new list, a   *)
(* toggle of one calendar, the switch to a view, or all is dropped.        *)
Cleared ==
  /\ calendars' = NoList
  /\ sidebar' = Empty
  /\ held' = [k \in Controller |-> Empty]
  /\ populated' = {}

Readers == <<calendars, sidebar, held, populated>>

ReaderStep ==
  \/ UNCHANGED <<Readers, active>>
  \/ active' = active /\ \E list \in List : ApplyCalendarList(list)
  \/ \E c \in Calendar, on \in BOOLEAN : Selected(c, on) /\ UNCHANGED <<populated, active>>
  \/ \E v \in View :
       active' = v /\ EnsureControllerPopulated(v) /\ UNCHANGED <<calendars, sidebar>>
  \/ Cleared /\ active' \in View

LEMMA ReaderSteps ==
  ASSUME TypeOK, [Next]_vars
  PROVE  ReaderStep
<1>1. ASSUME NEW a \in Account, SignIn(a) PROVE ReaderStep
  BY <1>1, LoadedCases DEF SignIn, ReaderStep, Readers
<1>2. ASSUME NEW r \in requests, NEW selection \in Selection \ {Empty},
             CalendarListFetched(r, selection)
      PROVE  ReaderStep
  <2>1. [of |-> r, selected |-> selection] \in List
    BY DEF TypeOK, List
  <2> QED BY <1>2, <2>1 DEF CalendarListFetched, ReaderStep, Readers
<1>3. ASSUME NEW r \in requests, NEW transient \in BOOLEAN,
             CalendarListFetchFailed(r, transient)
      PROVE  ReaderStep
  BY <1>3 DEF CalendarListFetchFailed, ReaderStep, Readers
<1>4. CASE \/ BucketFails \/ BucketRefreshed \/ ReconnectTimerFires \/ ActionRefresh
           \/ SessionExpires \/ UNCHANGED vars
  BY <1>4
     DEF BucketFails, BucketRefreshed, ReconnectTimerFires, ActionRefresh, SessionExpires,
         vars, ReaderStep, Readers
<1>5. ASSUME NEW v \in View, SwitchView(v) PROVE ReaderStep
  BY <1>5 DEF SwitchView, ReaderStep
<1>6. ASSUME NEW c \in Calendar, Toggle(c) PROVE ReaderStep
  <2>1. Selected(c, ~sidebar[c]) /\ UNCHANGED <<populated, active>>
    BY <1>6 DEF Toggle
  <2> QED BY <2>1 DEF ReaderStep
<1>7. ASSUME NEW p \in patches, PatchSucceeds(p) \/ PatchFails(p) PROVE ReaderStep
  <2>1. p.calendar \in Calendar /\ (~p.selected) \in BOOLEAN
    BY DEF TypeOK, Patch
  <2> QED BY <1>7, <2>1 DEF PatchSucceeds, PatchFails, ReaderStep, Readers
<1>8. CASE SignOut \/ Restart
  BY <1>8 DEF SignOut, Restart, Cleared, ReaderStep, TypeOK
<1> QED BY <1>1, <1>2, <1>3, <1>4, <1>5, <1>6, <1>7, <1>8 DEF Next

-----------------------------------------------------------------------------
(* Types.                                                                  *)

LEMMA SelectedType ==
  ASSUME TypeOK, NEW c \in Calendar, NEW on \in BOOLEAN, Selected(c, on)
  PROVE  /\ calendars' \in Maybe(List)
         /\ calendars'.selected = With(calendars.selected, c, on)
         /\ calendars' = NoList <=> calendars = NoList
         /\ sidebar' \in Selection
         /\ held' \in [Controller -> Selection]
         /\ \A k \in Controller : held'[k] = With(held[k], c, on)
<1>1. calendars' = [calendars EXCEPT !.selected = With(calendars.selected, c, on)]
  BY DEF Selected
<1>2. With(calendars.selected, c, on) \in Selection
      /\ (With(calendars.selected, c, on) = Empty <=> calendars.selected = Empty)
  BY ListFields, WithType
<1>3. calendars'.selected = With(calendars.selected, c, on)
  BY <1>1 DEF TypeOK, Maybe, List, NoList
<1>4. CASE calendars = NoList
  <2>1. With(calendars.selected, c, on) = Empty
    BY <1>2, <1>4, NoListFields
  <2>2. calendars' = NoList
    BY <1>1, <1>4, <2>1 DEF NoList
  <2> QED BY <1>3, <1>4, <2>2, WithType DEF Selected, TypeOK, Maybe
<1>5. CASE calendars # NoList
  <2>1. calendars \in List /\ With(calendars.selected, c, on) # Empty
    BY <1>2, <1>5, ListFields
  <2>2. calendars' \in List
    BY <1>1, <1>2, <2>1 DEF List
  <2>3. calendars' # NoList
    BY <1>3, <2>1, NoListFields
  <2> QED BY <1>3, <1>5, <2>2, <2>3, WithType DEF Selected, TypeOK, Maybe
<1> QED BY <1>4, <1>5

LEMMA ReaderType ==
  ASSUME TypeOK, ReaderStep
  PROVE  /\ calendars' \in Maybe(List)
         /\ sidebar' \in Selection
         /\ held' \in [Controller -> Selection]
         /\ populated' \in SUBSET View
         /\ active' \in View
<1>1. CASE UNCHANGED <<Readers, active>>
  BY <1>1 DEF TypeOK, Readers
<1>2. ASSUME NEW list \in List, ApplyCalendarList(list), active' = active
      PROVE  /\ calendars' \in Maybe(List) /\ sidebar' \in Selection
             /\ held' \in [Controller -> Selection] /\ populated' \in SUBSET View
             /\ active' \in View
  BY <1>2 DEF ApplyCalendarList, TypeOK, Maybe, List
<1>3. ASSUME NEW c \in Calendar, NEW on \in BOOLEAN, Selected(c, on),
             UNCHANGED <<populated, active>>
      PROVE  /\ calendars' \in Maybe(List) /\ sidebar' \in Selection
             /\ held' \in [Controller -> Selection] /\ populated' \in SUBSET View
             /\ active' \in View
  BY <1>3, SelectedType DEF TypeOK
<1>4. ASSUME NEW v \in View, active' = v, EnsureControllerPopulated(v),
             UNCHANGED <<calendars, sidebar>>
      PROVE  /\ calendars' \in Maybe(List) /\ sidebar' \in Selection
             /\ held' \in [Controller -> Selection] /\ populated' \in SUBSET View
             /\ active' \in View
  BY <1>4, ListFields DEF EnsureControllerPopulated, TypeOK
<1>5. ASSUME Cleared, active' \in View
      PROVE  /\ calendars' \in Maybe(List) /\ sidebar' \in Selection
             /\ held' \in [Controller -> Selection] /\ populated' \in SUBSET View
             /\ active' \in View
  BY <1>5, EmptySelection DEF Cleared, Maybe
<1> QED BY <1>1, <1>2, <1>3, <1>4, <1>5 DEF ReaderStep

LEMMA InitType == Init => TypeOK
BY EmptySelection, WindowAssumption DEF Init, Started, TypeOK, Maybe

LEMMA StepType == TypeOK /\ [Next]_vars => TypeOK'
<1> SUFFICES ASSUME TypeOK, [Next]_vars PROVE TypeOK'
  OBVIOUS
<1>1. /\ calendars' \in Maybe(List)
      /\ sidebar' \in Selection
      /\ held' \in [Controller -> Selection]
      /\ populated' \in SUBSET View
      /\ active' \in View
  BY ReaderSteps, ReaderType
<1>2. ASSUME NEW a \in Account, SignIn(a) PROVE TypeOK'
  BY <1>1, <1>2 DEF SignIn, FetchCalendarList, TypeOK
<1>3. ASSUME NEW r \in requests, NEW selection \in Selection \ {Empty},
             CalendarListFetched(r, selection)
      PROVE  TypeOK'
  <2>1. files' \in [Account -> Account \cup {Nobody}]
    BY <1>3 DEF CalendarListFetched, StoreCalendars, TypeOK
  <2>2. /\ requests' \in SUBSET Account /\ offline' \in BOOLEAN /\ reconnect' = offline'
        /\ settled' \in BOOLEAN /\ UNCHANGED <<user, accountKey, patches, left>>
    BY <1>3 DEF CalendarListFetched, LeaveServerUnavailable, TypeOK
  <2> QED BY <1>1, <2>1, <2>2 DEF TypeOK
<1>4. ASSUME NEW r \in requests, NEW transient \in BOOLEAN,
             CalendarListFetchFailed(r, transient)
      PROVE  TypeOK'
  BY <1>1, <1>4 DEF CalendarListFetchFailed, EnterServerUnavailable, TypeOK
<1>5. CASE BucketFails \/ BucketRefreshed
  BY <1>1, <1>5
     DEF BucketFails, BucketRefreshed, EnterServerUnavailable, LeaveServerUnavailable, TypeOK
<1>6. CASE ReconnectTimerFires \/ ActionRefresh
  BY <1>1, <1>6 DEF ReconnectTimerFires, ActionRefresh, FetchCalendarList, TypeOK
<1>7. ASSUME NEW v \in View, SwitchView(v) PROVE TypeOK'
  BY <1>1, <1>7 DEF SwitchView, TypeOK
<1>8. ASSUME NEW c \in Calendar, Toggle(c) PROVE TypeOK'
  <2>1. patches' \in SUBSET Patch
    <3>1. PICK on \in BOOLEAN : patches' = patches \cup {[calendar |-> c, selected |-> on]}
      <4>1. (~sidebar[c]) \in BOOLEAN
        OBVIOUS
      <4> QED BY <1>8, <4>1 DEF Toggle
    <3> QED BY <3>1 DEF TypeOK, Patch
  <2> QED BY <1>1, <1>8, <2>1 DEF Toggle, TypeOK
<1>9. ASSUME NEW p \in patches, PatchSucceeds(p) \/ PatchFails(p) PROVE TypeOK'
  BY <1>1, <1>9 DEF PatchSucceeds, PatchFails, TypeOK
<1>10. CASE SignOut \/ Restart
  BY <1>1, <1>10 DEF SignOut, Restart, TypeOK
<1>11. CASE SessionExpires \/ UNCHANGED vars
  BY <1>1, <1>11 DEF SessionExpires, vars, TypeOK
<1> QED
  BY <1>2, <1>3, <1>4, <1>5, <1>6, <1>7, <1>8, <1>9, <1>10, <1>11 DEF Next

-----------------------------------------------------------------------------
(* One selection.                                                          *)

LEMMA StepSame == TypeOK /\ SameSelection /\ [Next]_vars => SameSelection'
<1> SUFFICES ASSUME TypeOK, SameSelection, ReaderStep PROVE SameSelection'
  BY ReaderSteps
<1>0. "reminders" \in Controller /\ View \subseteq Controller /\ populated \subseteq View
      /\ active \in View /\ held \in [Controller -> Selection]
  BY DEF TypeOK, Controller
<1>1. CASE UNCHANGED <<Readers, active>>
  BY <1>1 DEF SameSelection, Readers
<1>2. ASSUME NEW list \in List, ApplyCalendarList(list), active' = active
      PROVE  SameSelection'
  <2>1. held'["reminders"] = list.selected /\ held'[active] = list.selected
    BY <1>0, <1>2 DEF ApplyCalendarList
  <2> QED BY <1>2, <2>1 DEF ApplyCalendarList, SameSelection
<1>3. ASSUME NEW c \in Calendar, NEW on \in BOOLEAN, Selected(c, on),
             UNCHANGED <<populated, active>>
      PROVE  SameSelection'
  <2>1. sidebar' = With(sidebar, c, on)
    BY <1>3 DEF Selected
  <2> QED BY <1>0, <1>3, <2>1, SelectedType DEF SameSelection
<1>4. ASSUME NEW v \in View, active' = v, EnsureControllerPopulated(v),
             UNCHANGED <<calendars, sidebar>>
      PROVE  SameSelection'
  BY <1>0, <1>4, WindowAssumption DEF EnsureControllerPopulated, SameSelection
<1>5. ASSUME Cleared PROVE SameSelection'
  BY <1>0, <1>5, NoListFields DEF Cleared, SameSelection
<1> QED BY <1>1, <1>2, <1>3, <1>4, <1>5 DEF ReaderStep

-----------------------------------------------------------------------------
(* After a sign-out.  Nobody is signed in until the next sign-in, so       *)
(* nothing that checks for a session can bring anything back.              *)

LeftInv == (left # Nobody => user = Nobody) /\ NothingAfterSignOut

LEMMA StepLeft == TypeOK /\ LeftInv /\ [Next]_vars => LeftInv'
<1> SUFFICES ASSUME TypeOK, LeftInv, [Next]_vars PROVE LeftInv'
  OBVIOUS
<1>1. CASE left' = Nobody
  BY <1>1 DEF LeftInv, NothingAfterSignOut
<1>2. CASE SignOut
  <2>1. accountKey = user /\ user \in Account /\ left' = user /\ user' = Nobody
    BY <1>2 DEF SignOut, TypeOK
  <2>2. files'[left'] = Nobody
    BY <1>2, <2>1 DEF SignOut, TypeOK
  <2> QED BY <1>2, <2>1, <2>2 DEF SignOut, LeftInv, NothingAfterSignOut
<1>3. ASSUME left' = left, left # Nobody, user' = Nobody, files' = files,
             UNCHANGED <<calendars, held>>
      PROVE  LeftInv'
  BY <1>3 DEF LeftInv, NothingAfterSignOut
<1>4. ASSUME left # Nobody, NEW p \in patches, PatchFails(p) PROVE LeftInv'
  <2>1. p.calendar \in Calendar /\ (~p.selected) \in BOOLEAN /\ Selected(p.calendar, ~p.selected)
    BY <1>4 DEF PatchFails, TypeOK, Patch
  <2>2. calendars' = NoList
    BY <1>4, <2>1, SelectedType DEF LeftInv, NothingAfterSignOut
  <2>3. \A k \in Controller : held'[k] = With(Empty, p.calendar, ~p.selected)
    BY <1>4, <2>1, SelectedType DEF LeftInv, NothingAfterSignOut
  <2>4. With(Empty, p.calendar, ~p.selected) = Empty
    BY <2>1, EmptySelection, WithType
  <2> QED BY <1>4, <2>2, <2>3, <2>4 DEF PatchFails, LeftInv, NothingAfterSignOut
<1>5. CASE left # Nobody
  <2>1. user = Nobody
    BY <1>5 DEF LeftInv
  <2>2. ASSUME NEW r \in requests, NEW selection \in Selection \ {Empty},
               CalendarListFetched(r, selection)
        PROVE  LeftInv'
    BY <1>3, <1>5, <2>1, <2>2 DEF CalendarListFetched
  <2>3. ASSUME NEW r \in requests, NEW transient \in BOOLEAN,
               CalendarListFetchFailed(r, transient)
        PROVE  LeftInv'
    BY <1>3, <1>5, <2>1, <2>3 DEF CalendarListFetchFailed
  <2>4. CASE BucketFails \/ BucketRefreshed \/ UNCHANGED vars
    BY <1>3, <1>5, <2>1, <2>4 DEF BucketFails, BucketRefreshed, vars
  <2>5. ASSUME NEW p \in patches, PatchSucceeds(p) PROVE LeftInv'
    BY <1>3, <1>5, <2>1, <2>5 DEF PatchSucceeds
  <2>6. ASSUME NEW a \in Account, SignIn(a) PROVE LeftInv'
    BY <1>1, <2>6 DEF SignIn
  <2>7. CASE Restart
    BY <1>1, <2>7 DEF Restart
  <2>8. /\ ~ReconnectTimerFires /\ ~ActionRefresh /\ ~SessionExpires
        /\ \A v \in View : ~SwitchView(v)
        /\ \A c \in Calendar : ~Toggle(c)
    BY <2>1 DEF ReconnectTimerFires, ActionRefresh, SessionExpires, SwitchView, Toggle
  <2> QED
    BY <1>2, <1>4, <1>5, <2>2, <2>3, <2>4, <2>5, <2>6, <2>7, <2>8 DEF Next
<1>6. CASE left = Nobody /\ left' # Nobody
  <2>1. SignOut
    BY <1>6
       DEF Next, SignIn, CalendarListFetched, CalendarListFetchFailed, BucketFails,
           BucketRefreshed, ReconnectTimerFires, ActionRefresh, SwitchView, Toggle,
           PatchSucceeds, PatchFails, SessionExpires, Restart, vars
  <2> QED BY <1>2, <2>1
<1> QED BY <1>1, <1>5, <1>6

-----------------------------------------------------------------------------
(* The theorems.                                                           *)

(* Every variable keeps its type; the reconnect timer runs exactly while   *)
(* offline, and the disk cache's account is the one signed in.             *)
THEOREM TypeCorrect == Spec => []TypeOK
BY InitType, StepType, PTL DEF Spec

(* The sidebar, the remembered list, the populated views and the reminder  *)
(* scheduler have one selection, in every interleaving of toggles, failed  *)
(* patches, lists, view switches and sign-outs (applyCalendarList,         *)
(* updateCachedCalendarSelected, ensureControllerPopulated).               *)
THEOREM SelectionAlwaysTheSame == Spec => []SameSelection
<1>1. Init => SameSelection
  BY NoListFields DEF Init, Started, SameSelection, Controller
<1> QED BY <1>1, InitType, StepType, StepSame, PTL DEF Spec

(* Nothing of the account signed out of comes back before the next         *)
(* sign-in, whatever was still on the wire.                                *)
THEOREM NothingLeftAfterSignOut == Spec => []NothingAfterSignOut
<1>1. Init => LeftInv
  BY DEF Init, Started, LeftInv, NothingAfterSignOut
<1>2. LeftInv => NothingAfterSignOut
  BY DEF LeftInv
<1> QED BY <1>1, <1>2, InitType, StepType, StepLeft, PTL DEF Spec
=============================================================================
