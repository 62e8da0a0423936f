----------------------------- MODULE EventEditing -----------------------------
(***************************************************************************)
(* Selecting, creating, editing and deleting events: the event part of     *)
(* app/mainwindow.cpp, the in-flight states of calendar/eventdialog.cpp,   *)
(* the selection of the two view widgets and the life of one request in    *)
(* GoogleCalendarApi::sendAuthorized.                                      *)
(*                                                                         *)
(* Dialogs and confirmations run their own event loop: replies, timers and *)
(* the end of the session happen while they are open, input to the main    *)
(* window does not.  Every event here is of one calendar.                  *)
(***************************************************************************)
EXTENDS Naturals

CONSTANTS
  Event,      \* event ids
  View,       \* the view widgets
  FirstView,  \* the view on screen at start
  None,       \* no event
  MaxRequests \* bound: create, update and delete requests together

ASSUME EditingAssumption ==
  /\ FirstView \in View
  /\ None \notin Event
  /\ MaxRequests \in Nat

VARIABLES
  session,     \* the session is in, expired without signedOut(), or out
  cached,      \* the events findCachedEventAcrossViews finds
  shown,       \* the events the views paint on the dates they render
  active,      \* the view on screen
  selected,    \* per view: its m_selectedEventId
  selection,   \* the window's m_selectedEventId
  confirming,  \* the event deleteSelectedEvent asks about, or None
  pending,     \* m_pendingStandaloneDeleteRequestId
  dialog,      \* the open EventDialog, or Closed
  nextId,      \* m_nextEvent...RequestId
  calls        \* the requests of GoogleCalendarApi not answered yet

viewVars == <<cached, shown, active, selected, selection>>
vars == <<session, viewVars, confirming, pending, dialog, nextId, calls>>

Op == {"create", "update", "delete"}
Id == 1..MaxRequests

Closed == [event |-> None, phase |-> "closed", save |-> 0, delete |-> 0]

(* phase: the form is open for input, asking for a confirmation, or        *)
(* disabled while a request is in flight.                                  *)
Dialog == [event : Event \cup {None},
           phase : {"open", "asking", "submitting", "deleting"},
           save : Id \cup {0}, delete : Id \cup {0}]

(* by: who waits for the reply.  asked: what the user confirmed to delete. *)
(* late: a sign-out came in between.                                       *)
Call == [op : Op, id : Id, event : Event \cup {None}, asked : Event \cup {None},
         by : {"window", "dialog"}, stage : {"sent", "applied", "refreshing"},
         retried : BOOLEAN, times : 0..2, late : BOOLEAN]

TypeOK ==
  /\ session \in {"in", "expired", "out"}
  /\ cached \in SUBSET Event
  /\ shown \in SUBSET Event
  /\ active \in View
  /\ selected \in [View -> Event \cup {None}]
  /\ selection \in Event \cup {None}
  /\ confirming \in Event \cup {None}
  /\ pending \in Id \cup {0}
  /\ dialog \in Dialog \cup {Closed}
  /\ dialog.phase \in {"submitting", "deleting"} => calls # {}
  /\ \A op \in Op : nextId[op] - 1 \in Id \cup {0}
  /\ calls \in SUBSET Call

NoSelection == [v \in View |-> None]

Init ==
  /\ session = "out"
  /\ cached = {}
  /\ shown = {}
  /\ active = FirstView
  /\ selected = NoSelection
  /\ selection = None
  /\ confirming = None
  /\ pending = 0
  /\ dialog = Closed
  /\ nextId = [op \in Op |-> 1]
  /\ calls = {}

(* Mutant of Modal: the confirmation leaves the main window usable.        *)
ModalDialogOnly == dialog # Closed

Modal == dialog # Closed \/ confirming # None

(* The user can reach the views and the menu.                              *)
AtWindow == session = "in" /\ ~Modal

-----------------------------------------------------------------------------
(* Selection.                                                              *)

(* A view that drops its selection tells the window that none is left,     *)
(* whichever view it is.                                                   *)
Select(s) ==
  /\ selected' = s
  /\ IF \E v \in View : s[v] # None /\ s[v] # selected[v]
     THEN \E v \in View : s[v] # None /\ s[v] # selected[v] /\ selection' = s[v]
     ELSE selection' = IF s = selected THEN selection ELSE None

ClearEventSelectionAllViews == Select(NoSelection)

EventClicked(e) ==
  /\ AtWindow
  /\ e \in shown
  /\ Select([selected EXCEPT ![active] = e])
  /\ UNCHANGED <<session, cached, shown, active, confirming, pending, dialog, nextId, calls>>

BackgroundClicked ==
  /\ AtWindow
  /\ Select([selected EXCEPT ![active] = None])
  /\ UNCHANGED <<session, cached, shown, active, confirming, pending, dialog, nextId, calls>>

(* Mutant of RefreshEventSelection: a view keeps its selection when its    *)
(* pills are rebuilt.                                                      *)
RefreshEventSelectionKept == UNCHANGED <<selected, selection>>

(* refreshEventSelection of every view after its pills were rebuilt.       *)
RefreshEventSelection ==
  Select([v \in View |-> IF selected[v] \in shown' THEN selected[v] ELSE None])

(* The store got events, from the network or a file, or a calendar was     *)
(* switched: any events may be there now.                                  *)
EventsRendered(events) ==
  /\ session # "out"
  /\ cached' = events
  /\ shown' = events
  /\ RefreshEventSelection
  /\ UNCHANGED <<session, active, confirming, pending, dialog, nextId, calls>>

(* refreshCells or refreshColumns: the pills go, the selection with them.  *)
Navigate(events) ==
  /\ AtWindow
  /\ shown' = events
  /\ cached' = events
  /\ Select([selected EXCEPT ![active] = None])
  /\ UNCHANGED <<session, active, confirming, pending, dialog, nextId, calls>>

(* Mutant of SwitchView: the selection stays behind.                       *)
SwitchViewKeepingSelection(v) ==
  /\ AtWindow
  /\ active' = v
  /\ UNCHANGED <<session, cached, shown, selected, selection, confirming, pending,
                 dialog, nextId, calls>>

SwitchView(v) ==
  /\ AtWindow
  /\ active' = v
  /\ ClearEventSelectionAllViews
  /\ UNCHANGED <<session, cached, shown, confirming, pending, dialog, nextId, calls>>

-----------------------------------------------------------------------------
(* Requests.                                                               *)

(* Mutant of DeleteId: the dialog counts its deletions itself.             *)
DeleteIdPerDialog(by) == IF by = "dialog" THEN 1 ELSE nextId["delete"]

(* The window and the dialog take ids for a deletion from one counter.     *)
DeleteId(by) == nextId["delete"]

(* createEvent, updateEvent or deleteEvent, signed in.                     *)
Issue(op, id, event, asked, by) ==
  calls' = calls \cup {[op |-> op, id |-> id, event |-> event, asked |-> asked, by |-> by,
                        stage |-> "sent", retried |-> FALSE, times |-> 0, late |-> FALSE]}

Counted(op) ==
  /\ nextId["create"] + nextId["update"] + nextId["delete"] - 3 < MaxRequests
  /\ nextId' = [nextId EXCEPT ![op] = @ + 1]

(* Actions -> Delete Event, up to the confirmation.                        *)
DeleteSelectedEvent ==
  /\ AtWindow
  /\ selection # None
  /\ pending = 0
  /\ IF selection \in cached
     THEN confirming' = selection /\ UNCHANGED <<selected, selection>>
     ELSE ClearEventSelectionAllViews /\ UNCHANGED confirming
  /\ UNCHANGED <<session, cached, shown, active, pending, dialog, nextId, calls>>

DeletionDeclined ==
  /\ confirming # None
  /\ confirming' = None
  /\ UNCHANGED <<session, viewVars, pending, dialog, nextId, calls>>

(* performEventDelete with the selection as it is after the confirmation.  *)
(* Without a session deleteEvent fails before it returns.                  *)
PerformEventDelete ==
  /\ confirming # None
  /\ confirming' = None
  /\ Counted("delete")
  /\ IF session = "in"
     THEN /\ pending' = DeleteId("window")
          /\ Issue("delete", DeleteId("window"), selection, confirming, "window")
     ELSE pending' = 0 /\ UNCHANGED calls
  /\ UNCHANGED <<session, viewVars, dialog>>

OpenNewEventDialog ==
  /\ AtWindow
  /\ dialog' = [Closed EXCEPT !.phase = "open"]
  /\ UNCHANGED <<session, viewVars, confirming, pending, nextId, calls>>

(* A double click; an event the store has lost opens nothing.              *)
OpenEditEventDialog(e) ==
  /\ AtWindow
  /\ e \in shown \cap cached
  /\ dialog' = [Closed EXCEPT !.phase = "open", !.event = e]
  /\ UNCHANGED <<session, viewVars, confirming, pending, nextId, calls>>

(* OK: setSubmitInProgress, then the request; without a session it fails   *)
(* at once and the form is enabled again.                                  *)
Submit ==
  LET op == IF dialog.event = None THEN "create" ELSE "update"
  IN  /\ dialog.phase = "open"
      /\ Counted(op)
      /\ IF session = "in"
         THEN /\ Issue(op, nextId[op], dialog.event, None, "dialog")
              /\ dialog' = [dialog EXCEPT !.save = nextId[op], !.phase = "submitting"]
         ELSE UNCHANGED calls /\ dialog' = [dialog EXCEPT !.save = nextId[op]]
      /\ UNCHANGED <<session, viewVars, confirming, pending>>

(* The dialog's Delete button and its confirmation.                        *)
AskToDelete ==
  /\ dialog.phase = "open"
  /\ dialog.event # None
  /\ dialog' = [dialog EXCEPT !.phase = "asking"]
  /\ UNCHANGED <<session, viewVars, confirming, pending, nextId, calls>>

DialogDeletionDeclined ==
  /\ dialog.phase = "asking"
  /\ dialog' = [dialog EXCEPT !.phase = "open"]
  /\ UNCHANGED <<session, viewVars, confirming, pending, nextId, calls>>

DialogDeletionConfirmed ==
  /\ dialog.phase = "asking"
  /\ Counted("delete")
  /\ IF session = "in"
     THEN /\ Issue("delete", DeleteId("dialog"), dialog.event, dialog.event, "dialog")
          /\ dialog' = [dialog EXCEPT !.delete = DeleteId("dialog"), !.phase = "deleting"]
     ELSE UNCHANGED calls /\ dialog' = [dialog EXCEPT !.delete = DeleteId("dialog"), !.phase = "open"]
  /\ UNCHANGED <<session, viewVars, confirming, pending>>

(* Mutant of Reject: Escape closes the dialog whatever it waits for.       *)
RejectAlways ==
  /\ dialog.phase \in {"open", "submitting", "deleting"}
  /\ dialog' = Closed
  /\ UNCHANGED <<session, viewVars, confirming, pending, nextId, calls>>

(* Cancel, Escape or the close button: ignored while a request is in       *)
(* flight.                                                                 *)
Reject ==
  /\ dialog.phase = "open"
  /\ dialog' = Closed
  /\ UNCHANGED <<session, viewVars, confirming, pending, nextId, calls>>

-----------------------------------------------------------------------------
(* Replies.                                                                *)

ForDialog(c) ==
  /\ dialog # Closed
  /\ CASE c.op = "create" -> dialog.event = None /\ dialog.save = c.id
       [] c.op = "update" -> dialog.event # None /\ dialog.save = c.id
       [] c.op = "delete" -> dialog.delete = c.id

ForWindow(c) == c.op = "delete" /\ pending = c.id

(* reloadCalendarAfterMutation drops the buckets, the screen stays; only a *)
(* deletion from the window clears the selection.                          *)
Succeeded(c) ==
  /\ calls' = calls \ {c}
  /\ pending' = IF ForWindow(c) THEN 0 ELSE pending
  /\ dialog' = IF ForDialog(c) THEN Closed ELSE dialog
  /\ cached' = IF ForWindow(c) \/ ForDialog(c) THEN {} ELSE cached
  /\ IF ForWindow(c) THEN ClearEventSelectionAllViews ELSE UNCHANGED <<selected, selection>>
  /\ UNCHANGED <<session, shown, active, confirming, nextId>>

Failed(c) ==
  /\ calls' = calls \ {c}
  /\ pending' = IF ForWindow(c) THEN 0 ELSE pending
  /\ dialog' = IF ForDialog(c) THEN [dialog EXCEPT !.phase = "open"] ELSE dialog
  /\ UNCHANGED <<session, viewVars, confirming, nextId>>

Becomes(c, d) ==
  /\ calls' = (calls \ {c}) \cup {d}
  /\ UNCHANGED <<session, viewVars, confirming, pending, dialog, nextId>>

(* The server carries the request out; a deletion of nothing is no event's. *)
ServerApplies(c) ==
  /\ c.stage = "sent"
  /\ c.op = "delete" => c.event # None
  /\ Becomes(c, [c EXCEPT !.stage = "applied", !.times = @ + 1])

Accepted(c) == c.stage = "applied" /\ Succeeded(c)

(* 410 Gone: somebody else deleted the event.                              *)
AlreadyGone(c) == c.stage = "sent" /\ c.op = "delete" /\ Succeeded(c)

(* Any other status than 401, or no answer before the timeout, applied or  *)
(* not: not tried again.                                                   *)
Refused(c) == c.stage = "sent" /\ Failed(c)

(* Mutant of ReplyLost: a request without an answer is sent once more.     *)
ReplyLostRetried(c) ==
  /\ c.stage = "applied"
  /\ IF c.retried THEN Failed(c) ELSE Becomes(c, [c EXCEPT !.stage = "sent", !.retried = TRUE])

ReplyLost(c) == c.stage = "applied" /\ Failed(c)

(* 401: the token is refreshed, a second 401 is final.                     *)
Unauthorized(c) ==
  /\ c.stage = "sent"
  /\ IF c.retried THEN Failed(c) ELSE Becomes(c, [c EXCEPT !.stage = "refreshing"])

Refreshed(c) ==
  /\ c.stage = "refreshing"
  /\ Becomes(c, [c EXCEPT !.stage = "sent", !.retried = TRUE])

(* Mutant of RefreshFailed: the reply is forgotten.                        *)
RefreshFailedSilently(c) ==
  /\ c.stage = "refreshing"
  /\ calls' = calls \ {c}
  /\ UNCHANGED <<session, viewVars, confirming, pending, dialog, nextId>>

RefreshFailed(c) == c.stage = "refreshing" /\ Failed(c)

-----------------------------------------------------------------------------
(* The session.                                                            *)

SignIn ==
  /\ session # "in"
  /\ ~Modal
  /\ session' = "in"
  /\ UNCHANGED <<viewVars, confirming, pending, dialog, nextId, calls>>

(* Mutant of SignOut: the deletion in flight is still waited for.          *)
SignOutStillPending ==
  /\ AtWindow
  /\ session' = "out"
  /\ cached' = {}
  /\ shown' = {}
  /\ selected' = NoSelection
  /\ selection' = None
  /\ calls' = {[c EXCEPT !.late = TRUE] : c \in calls}
  /\ UNCHANGED <<active, confirming, pending, dialog, nextId>>

SignOut ==
  /\ AtWindow
  /\ session' = "out"
  /\ cached' = {}
  /\ shown' = {}
  /\ selected' = NoSelection
  /\ selection' = None
  /\ pending' = 0
  /\ calls' = {[c EXCEPT !.late = TRUE] : c \in calls}
  /\ UNCHANGED <<active, confirming, dialog, nextId>>

(* The session expires, without signedOut().                               *)
SessionExpires ==
  /\ session = "in"
  /\ session' = "expired"
  /\ UNCHANGED <<viewVars, confirming, pending, dialog, nextId, calls>>

-----------------------------------------------------------------------------
Progress(c) ==
  \/ ServerApplies(c) \/ Accepted(c) \/ AlreadyGone(c) \/ Refused(c) \/ ReplyLost(c)
  \/ Unauthorized(c) \/ Refreshed(c) \/ RefreshFailed(c)

Next ==
  \/ \E e \in Event : EventClicked(e) \/ OpenEditEventDialog(e)
  \/ BackgroundClicked
  \/ \E events \in SUBSET Event : EventsRendered(events) \/ Navigate(events)
  \/ \E v \in View : SwitchView(v)
  \/ DeleteSelectedEvent \/ DeletionDeclined \/ PerformEventDelete
  \/ OpenNewEventDialog \/ Submit \/ Reject
  \/ AskToDelete \/ DialogDeletionDeclined \/ DialogDeletionConfirmed
  \/ \E c \in calls : Progress(c)
  \/ SignIn \/ SignOut \/ SessionExpires

Spec == Init /\ [][Next]_vars

(* Every request is answered or times out (kNetworkTimeoutMs), and so is   *)
(* the refresh it may wait for.                                            *)
LiveSpec ==
  /\ Spec
  /\ \A op \in Op, id \in Id :
       WF_vars(\E c \in calls : c.op = op /\ c.id = id /\ Progress(c))

-----------------------------------------------------------------------------
(* Properties.                                                             *)

(* What Delete Event acts on is what the view on screen highlights, and    *)
(* the hidden views hold no selection ("Only the active view can hold a    *)
(* selection"; refreshEventSelection).                                     *)
SelectionIsOnScreen ==
  /\ selection = selected[active]
  /\ \A v \in View \ {active} : selected[v] = None
  /\ selection # None => selection \in shown

(* A deletion names the event the user confirmed, or, when the event went  *)
(* away under the open confirmation, none at all; never another one.       *)
DeletesOnlyConfirmed ==
  \A c \in calls : c.op = "delete" => c.event \in {None, c.asked}

(* The reply of a request reaches who waits for it and nobody else: the    *)
(* dialog is still open, with its form disabled, or the window waits for   *)
(* that id, unless a sign-out made it stop; ids of the two never collide.  *)
ReplyHasOneOwner ==
  \A c \in calls :
    IF c.by = "dialog"
    THEN ForDialog(c) /\ ~ForWindow(c) /\ dialog.phase \in {"submitting", "deleting"}
    ELSE ~ForDialog(c) /\ (ForWindow(c) <=> ~c.late)

(* The retry after a 401 never carries a request out a second time.        *)
AppliedAtMostOnce == \A c \in calls : c.times <= 1

(* No form stays disabled and Delete Event is not off for good: every      *)
(* request ends, on the path of a failed refresh and of a sign-out too.    *)
NothingStuck ==
  /\ (dialog.phase \in {"submitting", "deleting"}) ~> (dialog.phase \notin {"submitting", "deleting"})
  /\ (pending # 0) ~> (pending = 0)
=============================================================================
