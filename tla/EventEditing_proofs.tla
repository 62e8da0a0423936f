-------------------------- MODULE EventEditing_proofs --------------------------
(***************************************************************************)
(* Proofs about EventEditing: its type invariant, what Delete Event acts   *)
(* on, what a deletion names, who gets a reply and that a request is       *)
(* carried out once, for any set of events and views and any number of     *)
(* requests.                                                               *)
(***************************************************************************)
EXTENDS EventEditing, TLAPS

-----------------------------------------------------------------------------
(* The inductive invariant, in three parts.                                *)

(* Types, with the counters inside their bound.                            *)
CountersInv ==
  /\ nextId \in [Op -> Nat]
  /\ \A op \in Op : nextId[op] >= 1
  /\ nextId["create"] + nextId["update"] + nextId["delete"] - 3 <= MaxRequests

TypeInv ==
  /\ session \in {"in", "expired", "out"}
  /\ cached \in SUBSET Event
  /\ shown \in SUBSET Event
  /\ active \in View
  /\ selected \in [View -> Event \cup {None}]
  /\ selection \in Event \cup {None}
  /\ confirming \in Event \cup {None}
  /\ pending \in Id \cup {0}
  /\ dialog \in Dialog \cup {Closed}
  /\ calls \in SUBSET Call
  /\ CountersInv

(* A confirmation is open on the event selected, or that was until it went *)
(* away, with no dialog and no deletion of the window under way.           *)
ConfirmingInv ==
  confirming # None =>
    /\ dialog = Closed
    /\ pending = 0
    /\ selection \in {None, confirming}

SelectionInv == SelectionIsOnScreen /\ ConfirmingInv

(* A request has an id below its counter, belongs to one waiter, and was   *)
(* carried out once exactly when it is past that point.                    *)
OneOwner(c) ==
  IF c.by = "dialog"
  THEN ForDialog(c) /\ ~ForWindow(c) /\ dialog.phase \in {"submitting", "deleting"}
  ELSE ~ForDialog(c) /\ (ForWindow(c) <=> ~c.late)

CallInv(c) ==
  /\ c.id < nextId[c.op]
  /\ c.times = IF c.stage = "applied" THEN 1 ELSE 0
  /\ c.by = "window" => c.op = "delete"
  /\ c.op = "delete" => c.event \in {None, c.asked}
  /\ OneOwner(c)

(* Ids tell requests apart; the dialog waits for one request at a time.    *)
CallsInv ==
  /\ \A c \in calls : CallInv(c)
  /\ \A c, d \in calls : c.op = d.op /\ c.id = d.id => c = d
  /\ \A c, d \in calls : c.by = "dialog" /\ d.by = "dialog" => c = d
  /\ dialog.phase \in {"submitting", "deleting"} => \E c \in calls : c.by = "dialog"
  /\ pending < nextId["delete"]
  /\ dialog.delete < nextId["delete"]

EditingInv == TypeInv /\ SelectionInv /\ CallsInv

LEMMA TypeInvImplies ==
  ASSUME TypeInv, CallsInv PROVE TypeOK
<1>1. \A op \in Op : nextId[op] - 1 \in Id \cup {0}
  BY EditingAssumption DEF TypeInv, CountersInv, Op, Id
<1>2. dialog.phase \in {"submitting", "deleting"} => calls # {}
  BY DEF CallsInv
<1> QED BY <1>1, <1>2 DEF TypeInv, TypeOK

-----------------------------------------------------------------------------
(* What the helpers of the model do.                                       *)

LEMMA ClosedFields ==
  /\ Closed.event = None /\ Closed.phase = "closed"
  /\ Closed.save = 0 /\ Closed.delete = 0
BY DEF Closed

LEMMA NoSelectionType == NoSelection \in [View -> Event \cup {None}]
BY DEF NoSelection

LEMMA SelectType ==
  ASSUME TypeInv, NEW s \in [View -> Event \cup {None}], Select(s)
  PROVE  /\ selected' \in [View -> Event \cup {None}]
         /\ selection' \in Event \cup {None}
BY DEF Select, TypeInv

(* Dropping selections leaves the window with the one of the active view.  *)
LEMMA SelectFewer ==
  ASSUME TypeInv, selection = selected[active],
         \A v \in View \ {active} : selected[v] = None,
         NEW s \in [View -> Event \cup {None}],
         \A v \in View : s[v] \in {None, selected[v]},
         Select(s)
  PROVE  /\ selected' = s
         /\ selection' = s[active]
         /\ \A v \in View \ {active} : s[v] = None
<1>1. active \in View /\ selected \in [View -> Event \cup {None}]
  BY DEF TypeInv
<1>2. selected' = s /\ selection' = IF s = selected THEN selection ELSE None
  BY DEF Select
<1>3. CASE s = selected
  BY <1>1, <1>2, <1>3
<1>4. CASE s # selected
  <2>1. PICK v \in View : s[v] # selected[v]
    BY <1>1, <1>4
  <2>2. v = active /\ s[active] = None
    BY <2>1
  <2> QED BY <1>1, <1>2, <1>4, <2>2
<1> QED BY <1>3, <1>4

(* A request gets the next id of its counter, inside the bound.            *)
LEMMA CountedType ==
  ASSUME CountersInv, NEW op \in Op, Counted(op)
  PROVE  /\ nextId[op] \in Id
         /\ nextId'[op] = nextId[op] + 1
         /\ \A o \in Op : o # op => nextId'[o] = nextId[o]
         /\ CountersInv'
<1> DEFINE n == [o \in Op |-> nextId[o]]
<1>1. /\ nextId["create"] \in Nat /\ nextId["update"] \in Nat /\ nextId["delete"] \in Nat
      /\ nextId["create"] >= 1 /\ nextId["update"] >= 1 /\ nextId["delete"] >= 1
      /\ nextId["create"] + nextId["update"] + nextId["delete"] - 3 < MaxRequests
  BY DEF CountersInv, Counted, Op
<1>2. nextId'[op] = nextId[op] + 1 /\ \A o \in Op : o # op => nextId'[o] = nextId[o]
  BY DEF CountersInv, Counted
<1>3. nextId[op] \in Id
  BY <1>1, EditingAssumption DEF Op, Id
<1>4. nextId' \in [Op -> Nat]
  BY <1>1, <1>2 DEF Counted, CountersInv, Op
<1>5. \A o \in Op : nextId'[o] >= 1
  BY <1>1, <1>2 DEF Op
<1>6. nextId'["create"] + nextId'["update"] + nextId'["delete"] - 3 <= MaxRequests
  BY <1>1, <1>2, EditingAssumption DEF Op
<1> QED BY <1>2, <1>3, <1>4, <1>5, <1>6 DEF CountersInv

(* The request Issue sends.                                                *)
New(op, id, event, asked, by) ==
  [op |-> op, id |-> id, event |-> event, asked |-> asked, by |-> by,
   stage |-> "sent", retried |-> FALSE, times |-> 0, late |-> FALSE]

LEMMA NewCall ==
  ASSUME NEW op \in Op, NEW id \in Id, NEW event \in Event \cup {None},
         NEW asked \in Event \cup {None}, NEW by \in {"window", "dialog"}
  PROVE  New(op, id, event, asked, by) \in Call
BY DEF New, Call

(* How a request goes on: replaced by itself in another state, with the    *)
(* owner and the id it had, or ended.                                      *)
Moved(c, d) ==
  /\ d \in Call
  /\ d.op = c.op /\ d.id = c.id /\ d.event = c.event /\ d.asked = c.asked
  /\ d.by = c.by /\ d.late = c.late

LEMMA LateCall ==
  ASSUME NEW c \in Call
  PROVE  LET d == [c EXCEPT !.late = TRUE]
         IN  /\ d \in Call /\ d.late
             /\ d.op = c.op /\ d.id = c.id /\ d.event = c.event /\ d.asked = c.asked
             /\ d.by = c.by /\ d.stage = c.stage /\ d.times = c.times
BY DEF Call

LEMMA ProgressCases ==
  ASSUME TypeInv, NEW c \in calls, CallInv(c), Progress(c)
  PROVE  \/ Succeeded(c)
         \/ Failed(c)
         \/ \E d : /\ Becomes(c, d) /\ Moved(c, d)
                  /\ d.times = IF d.stage = "applied" THEN 1 ELSE 0
<1>1. c \in Call
  BY DEF TypeInv
<1>2. CASE ServerApplies(c)
  <2> DEFINE d == [c EXCEPT !.stage = "applied", !.times = @ + 1]
  <2>1. c.stage = "sent" /\ c.times = 0 /\ Becomes(c, d)
    BY <1>2 DEF ServerApplies, CallInv
  <2> DEFINE a == [c EXCEPT !.stage = "applied"]
  <2>a. Moved(c, a) /\ a.stage = "applied"
    BY <1>1 DEF Moved, Call
  <2>b. d = [a EXCEPT !.times = c.times + 1]
    OBVIOUS
  <2> HIDE DEF a, d
  <2>2. Moved(c, d) /\ d.stage = "applied" /\ d.times = 1
    BY <2>1, <2>a, <2>b DEF Moved, Call
  <2> QED BY <2>1, <2>2
<1>3. CASE Refreshed(c)
  <2> DEFINE d == [c EXCEPT !.stage = "sent", !.retried = TRUE]
  <2>1. c.times = 0 /\ Becomes(c, d)
    BY <1>3 DEF Refreshed, CallInv
  <2>2. Moved(c, d) /\ d.stage = "sent" /\ d.times = 0
    BY <1>1, <2>1 DEF Moved, Call
  <2> HIDE DEF d
  <2> QED BY <2>1, <2>2
<1>4. CASE Unauthorized(c) /\ ~c.retried
  <2> DEFINE d == [c EXCEPT !.stage = "refreshing"]
  <2>1. c.times = 0 /\ Becomes(c, d)
    BY <1>4 DEF Unauthorized, CallInv
  <2>2. Moved(c, d) /\ d.stage = "refreshing" /\ d.times = 0
    BY <1>1, <2>1 DEF Moved, Call
  <2> HIDE DEF d
  <2> QED BY <2>1, <2>2
<1> QED
  BY <1>2, <1>3, <1>4
     DEF Progress, Unauthorized, Accepted, AlreadyGone, Refused, ReplyLost, RefreshFailed

-----------------------------------------------------------------------------
(* Types.                                                                  *)

LEMMA InitType == Init => TypeInv
<1> SUFFICES ASSUME Init PROVE TypeInv
  OBVIOUS
<1>1. CountersInv
  BY EditingAssumption DEF Init, CountersInv, Op
<1> QED BY <1>1, EditingAssumption, NoSelectionType DEF Init, TypeInv

LEMMA SucceededType ==
  ASSUME TypeInv, NEW c \in calls, Succeeded(c)
  PROVE  TypeInv'
<1>1. /\ selected' \in [View -> Event \cup {None}]
      /\ selection' \in Event \cup {None}
  BY SelectType, NoSelectionType DEF Succeeded, ClearEventSelectionAllViews, TypeInv
<1>2. CountersInv'
  BY DEF Succeeded, TypeInv, CountersInv
<1> QED BY <1>1, <1>2 DEF Succeeded, TypeInv

LEMMA FailedType ==
  ASSUME TypeInv, NEW c \in calls, Failed(c)
  PROVE  TypeInv'
<1>1. dialog' \in Dialog \cup {Closed}
  BY DEF Failed, ForDialog, TypeInv, Dialog
<1>2. CountersInv'
  BY DEF Failed, TypeInv, CountersInv
<1> QED BY <1>1, <1>2 DEF Failed, TypeInv, viewVars

LEMMA StepType ==
  TypeInv /\ CallsInv /\ [Next]_vars => TypeInv'
<1> SUFFICES ASSUME TypeInv, CallsInv, [Next]_vars
             PROVE  TypeInv'
  OBVIOUS
<1>0. CountersInv /\ (UNCHANGED nextId => CountersInv')
  BY DEF TypeInv, CountersInv
<1>d. ASSUME NEW phase \in {"open", "asking", "submitting", "deleting"},
             NEW save \in Id \cup {0}, NEW delete \in Id \cup {0},
             NEW event \in Event \cup {None}
      PROVE  [event |-> event, phase |-> phase, save |-> save, delete |-> delete] \in Dialog
  BY DEF Dialog
<1>1. ASSUME NEW e \in Event, EventClicked(e) PROVE TypeInv'
  <2>1. [selected EXCEPT ![active] = e] \in [View -> Event \cup {None}]
    BY DEF TypeInv
  <2> QED BY <1>0, <1>1, <2>1, SelectType DEF EventClicked, TypeInv
<1>2. ASSUME NEW e \in Event, OpenEditEventDialog(e) PROVE TypeInv'
  <2>1. dialog' \in Dialog
    BY <1>2 DEF OpenEditEventDialog, Closed, Dialog
  <2> QED BY <1>0, <1>2, <2>1 DEF OpenEditEventDialog, TypeInv, viewVars
<1>3. CASE BackgroundClicked
  <2>1. [selected EXCEPT ![active] = None] \in [View -> Event \cup {None}]
    BY DEF TypeInv
  <2> QED BY <1>0, <1>3, <2>1, SelectType DEF BackgroundClicked, TypeInv
<1>4. ASSUME NEW events \in SUBSET Event, EventsRendered(events) PROVE TypeInv'
  <2>1. [v \in View |-> IF selected[v] \in shown' THEN selected[v] ELSE None]
          \in [View -> Event \cup {None}]
    BY DEF TypeInv
  <2> QED
    BY <1>0, <1>4, <2>1, SelectType DEF EventsRendered, RefreshEventSelection, TypeInv
<1>5. ASSUME NEW events \in SUBSET Event, Navigate(events) PROVE TypeInv'
  <2>1. [selected EXCEPT ![active] = None] \in [View -> Event \cup {None}]
    BY DEF TypeInv
  <2> QED BY <1>0, <1>5, <2>1, SelectType DEF Navigate, TypeInv
<1>6. ASSUME NEW v \in View, SwitchView(v) PROVE TypeInv'
  BY <1>0, <1>6, SelectType, NoSelectionType
     DEF SwitchView, ClearEventSelectionAllViews, TypeInv
<1>7. CASE DeleteSelectedEvent
  <2>1. /\ selected' \in [View -> Event \cup {None}]
        /\ selection' \in Event \cup {None}
    BY <1>7, SelectType, NoSelectionType
       DEF DeleteSelectedEvent, ClearEventSelectionAllViews, TypeInv
  <2> QED BY <1>0, <1>7, <2>1 DEF DeleteSelectedEvent, TypeInv
<1>8. CASE DeletionDeclined
  BY <1>0, <1>8 DEF DeletionDeclined, TypeInv, viewVars
<1>9. CASE PerformEventDelete
  <2>1. nextId["delete"] \in Id /\ CountersInv'
    BY <1>0, <1>9, CountedType DEF PerformEventDelete, Op
  <2>2. pending' \in Id \cup {0}
    BY <1>9, <2>1 DEF PerformEventDelete, DeleteId
  <2>3. calls' \in SUBSET Call
    <3>1. New("delete", nextId["delete"], selection, confirming, "window") \in Call
      BY <2>1, NewCall DEF TypeInv, Op
    <3> QED BY <1>9, <3>1 DEF PerformEventDelete, Issue, DeleteId, New, TypeInv
  <2> QED BY <1>9, <2>1, <2>2, <2>3 DEF PerformEventDelete, TypeInv, viewVars
<1>10. CASE OpenNewEventDialog
  <2>1. dialog' \in Dialog
    BY <1>10 DEF OpenNewEventDialog, Closed, Dialog
  <2> QED BY <1>0, <1>10, <2>1 DEF OpenNewEventDialog, TypeInv, viewVars
<1>11. CASE Submit
  <2> DEFINE op == IF dialog.event = None THEN "create" ELSE "update"
  <2>1. op \in Op /\ dialog \in Dialog
    BY <1>11, ClosedFields DEF Submit, TypeInv, Op
  <2>2. nextId[op] \in Id /\ CountersInv'
    BY <1>0, <1>11, <2>1, CountedType DEF Submit
  <2>3. calls' \in SUBSET Call
    <3>1. New(op, nextId[op], dialog.event, None, "dialog") \in Call
      BY <2>1, <2>2, NewCall DEF Dialog
    <3> QED BY <1>11, <3>1 DEF Submit, Issue, New, TypeInv
  <2>4. dialog' \in Dialog
    BY <1>11, <2>1, <2>2 DEF Submit, Dialog
  <2> QED BY <1>11, <2>2, <2>3, <2>4 DEF Submit, TypeInv, viewVars
<1>12. CASE Reject
  BY <1>0, <1>12 DEF Reject, TypeInv, viewVars
<1>13. CASE AskToDelete \/ DialogDeletionDeclined
  <2>1. dialog \in Dialog
    BY <1>13, ClosedFields DEF AskToDelete, DialogDeletionDeclined, TypeInv
  <2>2. dialog' \in Dialog
    BY <1>13, <2>1 DEF AskToDelete, DialogDeletionDeclined, Dialog
  <2> QED BY <1>0, <1>13, <2>2 DEF AskToDelete, DialogDeletionDeclined, TypeInv, viewVars
<1>14. CASE DialogDeletionConfirmed
  <2>1. dialog \in Dialog
    BY <1>14, ClosedFields DEF DialogDeletionConfirmed, TypeInv
  <2>2. nextId["delete"] \in Id /\ CountersInv'
    BY <1>0, <1>14, CountedType DEF DialogDeletionConfirmed, Op
  <2>3. calls' \in SUBSET Call
    <3>1. New("delete", nextId["delete"], dialog.event, dialog.event, "dialog") \in Call
      BY <2>1, <2>2, NewCall DEF Dialog, Op
    <3> QED BY <1>14, <3>1 DEF DialogDeletionConfirmed, DeleteId, Issue, New, TypeInv
  <2>4. dialog' \in Dialog
    BY <1>14, <2>1, <2>2 DEF DialogDeletionConfirmed, DeleteId, Dialog
  <2> QED BY <1>14, <2>2, <2>3, <2>4 DEF DialogDeletionConfirmed, TypeInv, viewVars
<1>15. ASSUME NEW c \in calls, Progress(c) PROVE TypeInv'
  <2>1. ASSUME NEW d, Becomes(c, d), Moved(c, d) PROVE TypeInv'
    BY <1>0, <2>1 DEF Becomes, Moved, TypeInv, viewVars
  <2> QED BY <1>15, <2>1, ProgressCases, SucceededType, FailedType DEF CallsInv
<1>16. CASE SignIn \/ SessionExpires
  BY <1>0, <1>16 DEF SignIn, SessionExpires, TypeInv, viewVars
<1>17. CASE SignOut
  <2>1. calls' \in SUBSET Call
    BY <1>17, LateCall DEF SignOut, TypeInv
  <2> QED BY <1>0, <1>17, <2>1, NoSelectionType DEF SignOut, TypeInv
<1>18. CASE UNCHANGED vars
  BY <1>0, <1>18 DEF vars, viewVars, TypeInv
<1> QED
  BY <1>1, <1>2, <1>3, <1>4, <1>5, <1>6, <1>7, <1>8, <1>9, <1>10, <1>11, <1>12, <1>13,
     <1>14, <1>15, <1>16, <1>17, <1>18 DEF Next

-----------------------------------------------------------------------------
(* The selection.                                                          *)

LEMMA InitSelection == Init => SelectionInv
BY EditingAssumption
   DEF Init, SelectionInv, SelectionIsOnScreen, ConfirmingInv, NoSelection

(* A step that drops selections, and leaves on screen what stays selected, *)
(* keeps the two views and the window in step.                             *)
LEMMA FewerOnScreen ==
  ASSUME TypeInv, SelectionInv, NEW s \in [View -> Event \cup {None}],
         \A v \in View : s[v] \in {None, selected[v]},
         s[active] # None => s[active] \in shown', Select(s), active' = active
  PROVE  SelectionIsOnScreen' /\ selection' \in {None, selection}
<1>1. selection = selected[active] /\ \A v \in View \ {active} : selected[v] = None
  BY DEF SelectionInv, SelectionIsOnScreen
<1>2. /\ selected' = s
      /\ selection' = s[active]
      /\ \A v \in View \ {active} : s[v] = None
  BY <1>1, SelectFewer
<1>3. active \in View
  BY DEF TypeInv
<1> QED BY <1>1, <1>2, <1>3 DEF SelectionIsOnScreen

LEMMA ClearedOnScreen ==
  ASSUME TypeInv, SelectionInv, ClearEventSelectionAllViews
  PROVE  selected' = NoSelection /\ selection' = None
<1>1. selection = selected[active] /\ \A v \in View \ {active} : selected[v] = None
  BY DEF SelectionInv, SelectionIsOnScreen
<1>2. \A v \in View : NoSelection[v] = None
  BY DEF NoSelection
<1>3. selected' = NoSelection /\ selection' = NoSelection[active]
  BY <1>1, <1>2, SelectFewer, NoSelectionType DEF ClearEventSelectionAllViews
<1>4. active \in View
  BY DEF TypeInv
<1> QED BY <1>2, <1>3, <1>4

LEMMA StepSelection ==
  TypeInv /\ SelectionInv /\ CallsInv /\ [Next]_vars => SelectionInv'
<1> SUFFICES ASSUME TypeInv, SelectionInv, CallsInv, [Next]_vars
             PROVE  SelectionInv'
  OBVIOUS
<1>0. /\ active \in View /\ selected \in [View -> Event \cup {None}]
      /\ selection = selected[active] /\ \A v \in View \ {active} : selected[v] = None
      /\ selection # None => selection \in shown
      /\ confirming # None => dialog = Closed /\ pending = 0 /\ selection \in {None, confirming}
  BY DEF TypeInv, SelectionInv, SelectionIsOnScreen, ConfirmingInv
<1>n. \A v \in View : NoSelection[v] = None
  BY DEF NoSelection
<1>1. ASSUME NEW e \in Event, EventClicked(e) PROVE SelectionInv'
  <2> DEFINE s == [selected EXCEPT ![active] = e]
  <2>1. /\ s[active] = e /\ e # None /\ confirming = None
        /\ \A v \in View \ {active} : s[v] = selected[v]
    BY <1>0, <1>1, EditingAssumption DEF EventClicked, AtWindow, Modal
  <2>2. selected' = s /\ active' = active /\ shown' = shown /\ confirming' = confirming
        /\ e \in shown
    BY <1>1 DEF EventClicked, Select
  <2>3. selection' = e
    <3>1. CASE s = selected
      <4>1. selected[active] = e
        BY <2>1, <3>1
      <4>2. selection' = selection
        BY <1>1, <3>1 DEF EventClicked, Select
      <4> QED BY <1>0, <4>1, <4>2
    <3>2. CASE s # selected
      <4>1. s[active] # selected[active]
        BY <1>0, <2>1, <3>2
      <4>2. \E v \in View : s[v] # None /\ s[v] # selected[v] /\ selection' = s[v]
        BY <1>0, <1>1, <2>1, <4>1 DEF EventClicked, Select
      <4> QED BY <2>1, <4>2
    <3> QED BY <3>1, <3>2
  <2> HIDE DEF s
  <2> QED
    BY <1>0, <2>1, <2>2, <2>3 DEF SelectionInv, SelectionIsOnScreen, ConfirmingInv
<1>2. CASE BackgroundClicked \/ \E events \in SUBSET Event : Navigate(events)
  <2> DEFINE s == [selected EXCEPT ![active] = None]
  <2>1. s \in [View -> Event \cup {None}] /\ s[active] = None
        /\ \A v \in View : s[v] \in {None, selected[v]}
    BY <1>0
  <2>2. Select(s) /\ active' = active /\ confirming' = confirming /\ confirming = None
    BY <1>2 DEF BackgroundClicked, Navigate, AtWindow, Modal
  <2> HIDE DEF s
  <2> QED BY <2>1, <2>2, FewerOnScreen DEF SelectionInv, ConfirmingInv
<1>3. ASSUME NEW events \in SUBSET Event, EventsRendered(events) PROVE SelectionInv'
  <2> DEFINE s == [v \in View |-> IF selected[v] \in shown' THEN selected[v] ELSE None]
  <2>1. /\ s \in [View -> Event \cup {None}]
        /\ \A v \in View : s[v] \in {None, selected[v]}
        /\ s[active] # None => s[active] \in shown'
    BY <1>0
  <2>2. Select(s) /\ UNCHANGED <<active, confirming, dialog, pending>>
    BY <1>3 DEF EventsRendered, RefreshEventSelection
  <2> HIDE DEF s
  <2>3. SelectionIsOnScreen' /\ selection' \in {None, selection}
    BY <2>1, <2>2, FewerOnScreen
  <2> QED BY <1>0, <2>2, <2>3 DEF SelectionInv, ConfirmingInv
<1>4. ASSUME NEW v \in View, SwitchView(v) PROVE SelectionInv'
  BY <1>4, <1>n, ClearedOnScreen
     DEF SwitchView, AtWindow, Modal, SelectionInv, SelectionIsOnScreen, ConfirmingInv
<1>5. CASE DeleteSelectedEvent
  <2>1. CASE selection \in cached
    BY <1>0, <1>5, <2>1
       DEF DeleteSelectedEvent, AtWindow, Modal, SelectionInv, SelectionIsOnScreen, ConfirmingInv
  <2>2. CASE selection \notin cached
    BY <1>0, <1>5, <1>n, <2>2, ClearedOnScreen
       DEF DeleteSelectedEvent, AtWindow, Modal, SelectionInv, SelectionIsOnScreen, ConfirmingInv
  <2> QED BY <2>1, <2>2
<1>6. CASE DeletionDeclined \/ PerformEventDelete
  BY <1>0, <1>6
     DEF DeletionDeclined, PerformEventDelete, viewVars, SelectionInv, SelectionIsOnScreen,
         ConfirmingInv
<1>7. CASE \/ OpenNewEventDialog \/ \E e \in Event : OpenEditEventDialog(e)
           \/ Submit \/ Reject \/ AskToDelete \/ DialogDeletionDeclined
           \/ DialogDeletionConfirmed
  <2>1. confirming = None /\ confirming' = confirming /\ UNCHANGED viewVars
    BY <1>0, <1>7, ClosedFields
       DEF OpenNewEventDialog, OpenEditEventDialog, Submit, Reject, AskToDelete,
           DialogDeletionDeclined, DialogDeletionConfirmed, AtWindow, Modal
  <2> QED
    BY <1>0, <2>1 DEF viewVars, SelectionInv, SelectionIsOnScreen, ConfirmingInv
<1>8. ASSUME NEW c \in calls, Progress(c) PROVE SelectionInv'
  <2>1. CASE Succeeded(c)
    <3>1. /\ pending' \in {0, pending} /\ dialog' \in {Closed, dialog}
          /\ UNCHANGED <<shown, active, confirming>>
          /\ \/ ClearEventSelectionAllViews
             \/ UNCHANGED <<selected, selection>>
      BY <2>1 DEF Succeeded
    <3> QED
      BY <1>0, <1>n, <3>1, ClearedOnScreen DEF SelectionInv, SelectionIsOnScreen, ConfirmingInv
  <2>2. CASE Failed(c)
    BY <1>0, <2>2 DEF Failed, ForDialog, viewVars, SelectionInv, SelectionIsOnScreen, ConfirmingInv
  <2>3. ASSUME NEW d, Becomes(c, d) PROVE SelectionInv'
    BY <1>0, <2>3 DEF Becomes, viewVars, SelectionInv, SelectionIsOnScreen, ConfirmingInv
  <2> QED BY <1>8, <2>1, <2>2, <2>3, ProgressCases DEF CallsInv
<1>9. CASE SignIn \/ SessionExpires \/ UNCHANGED vars
  BY <1>0, <1>9
     DEF SignIn, SessionExpires, vars, viewVars, SelectionInv, SelectionIsOnScreen, ConfirmingInv
<1>10. CASE SignOut
  BY <1>0, <1>n, <1>10
     DEF SignOut, AtWindow, Modal, SelectionInv, SelectionIsOnScreen, ConfirmingInv
<1> QED
  BY <1>1, <1>2, <1>3, <1>4, <1>5, <1>6, <1>7, <1>8, <1>9, <1>10 DEF Next

-----------------------------------------------------------------------------
(* The requests.                                                           *)

LEMMA InitCalls == Init => CallsInv
BY ClosedFields DEF Init, CallsInv, Op

(* A request that ends leaves the others to their owners.                  *)
LEMMA EndedCalls ==
  ASSUME TypeInv, CallsInv, NEW c \in calls, Succeeded(c) \/ Failed(c)
  PROVE  CallsInv'
<1>1. /\ calls' = calls \ {c} /\ nextId' = nextId
      /\ pending' = IF ForWindow(c) THEN 0 ELSE pending
      /\ dialog' = IF ForDialog(c)
                   THEN IF Succeeded(c) THEN Closed ELSE [dialog EXCEPT !.phase = "open"]
                   ELSE dialog
  BY DEF Succeeded, Failed
<1>2. \A d \in calls : CallInv(d) /\ d \in Call
  BY DEF CallsInv, TypeInv
<1>3. ForDialog(c) <=> c.by = "dialog"
  BY <1>2 DEF CallInv, OneOwner
<1>4. ASSUME NEW d \in calls, d # c PROVE CallInv(d)'
  <2>1. CallInv(d) /\ d \in Call /\ c \in Call
    BY <1>2
  <2>2. ~(d.op = c.op /\ d.id = c.id) /\ ~(d.by = "dialog" /\ c.by = "dialog")
    BY <1>4 DEF CallsInv
  <2>3. CASE d.by = "dialog"
    <3>1. ForDialog(d) /\ ~ForWindow(d) /\ dialog.phase \in {"submitting", "deleting"}
      BY <2>1, <2>3 DEF CallInv, OneOwner
    <3>2. dialog' = dialog
      BY <1>1, <1>3, <2>2, <2>3
    <3>3. ~ForWindow(d)'
      <4>1. d.id # 0
        BY <2>1 DEF Call, Id
      <4> QED BY <1>1, <3>1, <4>1 DEF ForWindow
    <3> QED BY <1>1, <2>1, <2>3, <3>1, <3>2, <3>3 DEF CallInv, OneOwner, ForDialog
  <2>4. CASE d.by # "dialog"
    <3>1. ~ForDialog(d) /\ (ForWindow(d) <=> ~d.late) /\ d.op = "delete" /\ d.id # 0
      BY <2>1, <2>4 DEF CallInv, OneOwner, Call, Id
    <3>2. ~ForDialog(d)'
      BY <1>1, <3>1, ClosedFields DEF ForDialog, TypeInv, Dialog
    <3>3. ForWindow(d)' <=> ForWindow(d)
      BY <1>1, <2>2, <3>1 DEF ForWindow
    <3> QED BY <1>1, <2>1, <2>4, <3>1, <3>2, <3>3 DEF CallInv, OneOwner
  <2> QED BY <2>3, <2>4
<1>5. dialog'.phase \in {"submitting", "deleting"} => ~ForDialog(c) /\ dialog' = dialog
  <2>1. ForDialog(c) => dialog \in Dialog
    BY DEF ForDialog, TypeInv
  <2> QED BY <1>1, <2>1, ClosedFields DEF Dialog
<1>6. dialog'.phase \in {"submitting", "deleting"} => \E d \in calls' : d.by = "dialog"
  BY <1>1, <1>3, <1>5 DEF CallsInv
<1>7. pending' < nextId'["delete"] /\ dialog'.delete < nextId'["delete"]
  <2>1. 0 < nextId["delete"]
    BY DEF TypeInv, CountersInv, Op
  <2>2. dialog'.delete \in {0, dialog.delete}
    BY <1>1, ClosedFields DEF TypeInv, Dialog
  <2> QED BY <1>1, <2>1, <2>2 DEF CallsInv
<1> QED BY <1>1, <1>4, <1>6, <1>7 DEF CallsInv

(* A request that goes on keeps its owner and its id.                      *)
LEMMA MovedCalls ==
  ASSUME TypeInv, CallsInv, NEW c \in calls, NEW d, Becomes(c, d), Moved(c, d),
         d.times = IF d.stage = "applied" THEN 1 ELSE 0
  PROVE  CallsInv'
<1>1. /\ calls' = (calls \ {c}) \cup {d}
      /\ UNCHANGED <<pending, dialog, nextId>>
  BY DEF Becomes
<1>2. CallInv(c) /\ CallInv(d)
  BY DEF CallsInv, CallInv, OneOwner, ForDialog, ForWindow, Moved
<1>3. \A e \in calls' : CallInv(e)'
  BY <1>1, <1>2 DEF CallsInv, CallInv, OneOwner, ForDialog, ForWindow
<1> QED BY <1>1, <1>3 DEF CallsInv, Moved

(* A request just sent is its sender's: no other one waits for its id.     *)
LEMMA SentCalls ==
  ASSUME TypeInv, CallsInv, NEW op \in Op, NEW event \in Event \cup {None},
         NEW asked \in Event \cup {None}, NEW by \in {"window", "dialog"},
         Counted(op), Issue(op, nextId[op], event, asked, by),
         op = "delete" => event \in {None, asked},
         IF by = "window"
         THEN op = "delete" /\ pending = 0 /\ pending' = nextId[op] /\ dialog' = dialog
         ELSE /\ dialog \in Dialog /\ dialog.phase \in {"open", "asking"}
              /\ pending' = pending /\ dialog'.event = dialog.event
              /\ dialog' # Closed /\ dialog'.phase \in {"submitting", "deleting"}
              /\ op = "delete" => dialog'.delete = nextId[op]
              /\ op # "delete" =>
                   /\ dialog'.save = nextId[op] /\ dialog'.delete = dialog.delete
                   /\ op = (IF dialog.event = None THEN "create" ELSE "update")
  PROVE  CallsInv'
<1>n. PICK n : n = New(op, nextId[op], event, asked, by)
  OBVIOUS
<1>1. calls' = calls \cup {n}
  BY <1>n DEF Issue, New
<1>2. /\ n.op = op /\ n.id = nextId[op] /\ n.event = event /\ n.asked = asked
      /\ n.by = by /\ n.stage = "sent" /\ n.times = 0 /\ n.late = FALSE
  BY <1>n DEF New
<1>3. /\ nextId[op] \in Id /\ nextId'[op] = nextId[op] + 1
      /\ nextId[op] \in Nat /\ nextId[op] # 0
      /\ \A o \in Op : nextId[o] \in Nat /\ nextId'[o] \in Nat /\ nextId[o] <= nextId'[o]
  <2>1. CountersInv
    BY DEF TypeInv
  <2>2. /\ nextId[op] \in Id /\ nextId'[op] = nextId[op] + 1 /\ CountersInv'
        /\ \A o \in Op : o # op => nextId'[o] = nextId[o]
    BY <2>1, CountedType
  <2> QED BY <2>1, <2>2 DEF CountersInv, Id
<1>4. \A d \in calls : CallInv(d) /\ d \in Call /\ d.id \in Nat /\ d.id # 0 /\ d.op \in Op
  BY DEF CallsInv, TypeInv, Call, Id
<1>5. by = "dialog" => \A d \in calls : d.by = "window"
  BY <1>4 DEF CallInv, OneOwner, Call
<1>6. ASSUME NEW d \in calls PROVE CallInv(d)'
  <2>1. CallInv(d) /\ d.id < nextId'[d.op] /\ (d.op = op => d.id # nextId[op])
    BY <1>3, <1>4 DEF CallInv
  <2>2. OneOwner(d)'
    <3>1. CASE by = "window"
      BY <1>4, <2>1, <3>1 DEF CallInv, OneOwner, ForDialog, ForWindow
    <3>2. CASE by = "dialog"
      <4>1. d.by = "window" /\ d.op = "delete" /\ ~ForDialog(d) /\ (ForWindow(d) <=> ~d.late)
        BY <1>4, <1>5, <3>2 DEF CallInv, OneOwner
      <4>2. ~ForDialog(d)'
        <5>1. dialog # Closed
          BY <3>2, ClosedFields
        <5>2. dialog.delete # d.id
          BY <4>1, <5>1 DEF ForDialog
        <5>3. dialog'.delete # d.id
          BY <2>1, <3>2, <4>1, <5>2
        <5> QED BY <4>1, <5>3 DEF ForDialog
      <4> QED BY <3>2, <4>1, <4>2 DEF OneOwner, ForWindow
    <3> QED BY <3>1, <3>2
  <2> QED BY <2>1, <2>2 DEF CallInv
<1>7. CallInv(n)'
  <2>1. n.id < nextId'[n.op] /\ n.id \in Nat /\ n.id # 0
    BY <1>2, <1>3 DEF Id
  <2>2. OneOwner(n)'
    <3>1. CASE by = "window"
      <4>1. ~ForDialog(n)'
        <5>1. dialog.delete < nextId[op] /\ dialog.delete \in Nat
          BY <3>1, ClosedFields DEF CallsInv, TypeInv, Dialog, Id
        <5> QED BY <1>2, <1>3, <3>1, <5>1 DEF ForDialog, Id
      <4> QED BY <1>2, <3>1, <4>1 DEF OneOwner, ForWindow
    <3>2. CASE by = "dialog"
      <4>1. ~ForWindow(n)'
        <5>1. op = "delete" => pending < nextId[op] /\ pending \in Nat
          BY DEF CallsInv, TypeInv, Id
        <5> QED BY <1>2, <1>3, <3>2, <5>1 DEF ForWindow, Id
      <4>2. ForDialog(n)'
        BY <1>2, <3>2 DEF ForDialog, Op
      <4> QED BY <1>2, <3>2, <4>1, <4>2 DEF OneOwner
    <3> QED BY <3>1, <3>2
  <2>3. n.by = "window" => n.op = "delete"
    BY <1>2
  <2> QED BY <1>2, <2>1, <2>2, <2>3 DEF CallInv
<1>8. \A d \in calls : ~(d.op = n.op /\ d.id = n.id)
  BY <1>2, <1>3, <1>4 DEF CallInv, Id
<1>9. pending' < nextId'["delete"] /\ dialog'.delete < nextId'["delete"]
  <2>1. /\ "delete" \in Op /\ pending \in Nat /\ dialog.delete \in Nat
        /\ pending < nextId["delete"] /\ dialog.delete < nextId["delete"]
    BY ClosedFields DEF CallsInv, TypeInv, Dialog, Id, Op
  <2> QED BY <1>3, <2>1 DEF Id
<1>10. \A c, d \in calls' : c.by = "dialog" /\ d.by = "dialog" => c = d
  BY <1>1, <1>2, <1>5 DEF CallsInv
<1>11. \A c, d \in calls' : c.op = d.op /\ c.id = d.id => c = d
  BY <1>1, <1>8 DEF CallsInv
<1>12. dialog'.phase \in {"submitting", "deleting"} => \E c \in calls' : c.by = "dialog"
  BY <1>1, <1>2 DEF CallsInv
<1>13. \A c \in calls' : CallInv(c)'
  BY <1>1, <1>6, <1>7
<1> QED BY <1>9, <1>10, <1>11, <1>12, <1>13 DEF CallsInv

LEMMA StepCalls ==
  TypeInv /\ SelectionInv /\ CallsInv /\ [Next]_vars => CallsInv'
<1> SUFFICES ASSUME TypeInv, SelectionInv, CallsInv, [Next]_vars
             PROVE  CallsInv'
  OBVIOUS
<1>1. ASSUME UNCHANGED <<pending, dialog, nextId, calls>> PROVE CallsInv'
  BY <1>1 DEF CallsInv, CallInv, OneOwner, ForDialog, ForWindow
<1>2. ASSUME dialog.phase \notin {"submitting", "deleting"},
             dialog'.phase \notin {"submitting", "deleting"},
             dialog' = Closed \/ dialog'.delete \in {0, dialog.delete},
             UNCHANGED <<pending, nextId, calls>>
      PROVE  CallsInv'
  <2>1. 0 < nextId["delete"]
    BY DEF TypeInv, CountersInv, Op
  <2>2. ASSUME NEW c \in calls PROVE CallInv(c)'
    <3>1. /\ CallInv(c) /\ c.by # "dialog" /\ ~ForDialog(c) /\ c.id # 0
          /\ c.op = "delete"
      BY <1>2 DEF CallsInv, CallInv, OneOwner, TypeInv, Call, Id
    <3>2. dialog.delete # c.id \/ dialog = Closed
      BY <3>1 DEF ForDialog
    <3>3. ~ForDialog(c)'
      BY <1>2, <3>1, <3>2, ClosedFields DEF ForDialog
    <3> QED BY <1>2, <3>1, <3>3 DEF CallInv, OneOwner, ForWindow
  <2> QED BY <1>2, <2>1, <2>2, ClosedFields DEF CallsInv
<1>3. CASE DeletionDeclined \/ DeleteSelectedEvent
  BY <1>1, <1>3 DEF DeletionDeclined, DeleteSelectedEvent
<1>4. CASE PerformEventDelete /\ session = "in"
  <2>1. pending = 0 /\ selection \in {None, confirming} /\ confirming # None
    BY <1>4 DEF PerformEventDelete, SelectionInv, ConfirmingInv
  <2>2. /\ Counted("delete") /\ pending' = nextId["delete"] /\ dialog' = dialog
        /\ Issue("delete", nextId["delete"], selection, confirming, "window")
    BY <1>4 DEF PerformEventDelete, DeleteId
  <2>3. "delete" \in Op /\ selection \in Event \cup {None} /\ confirming \in Event \cup {None}
    BY DEF Op, TypeInv
  <2> QED BY <2>1, <2>2, <2>3, SentCalls
<1>5. ASSUME NEW op \in Op, Counted(op), UNCHANGED <<pending, calls>>,
             dialog.phase \notin {"submitting", "deleting"},
             dialog'.phase \notin {"submitting", "deleting"},
             \/ dialog'.delete = dialog.delete
             \/ op = "delete" /\ dialog'.delete = nextId["delete"]
      PROVE  CallsInv'
  <2>1. /\ \A o \in Op : nextId[o] \in Nat /\ nextId'[o] \in Nat /\ nextId[o] <= nextId'[o]
        /\ nextId'[op] = nextId[op] + 1
    <3>1. /\ CountersInv /\ nextId'[op] = nextId[op] + 1 /\ CountersInv'
          /\ \A o \in Op : o # op => nextId'[o] = nextId[o]
      BY <1>5, CountedType DEF TypeInv
    <3> QED BY <3>1 DEF CountersInv
  <2>2. ASSUME NEW c \in calls PROVE CallInv(c)'
    <3>1. /\ CallInv(c) /\ c.by # "dialog" /\ ~ForDialog(c) /\ c.id \in Nat
          /\ c.op = "delete" /\ c.op \in Op /\ c.id < nextId[c.op]
      BY <1>5 DEF CallsInv, CallInv, OneOwner, TypeInv, Call, Id
    <3>2. dialog.delete # c.id \/ dialog = Closed
      BY <3>1 DEF ForDialog
    <3>3. c.id < nextId'[c.op]
      BY <2>1, <3>1
    <3>4. ~ForDialog(c)'
      <4>1. CASE dialog = Closed
        BY <1>5, <2>1, <3>1, <4>1, ClosedFields DEF ForDialog, TypeInv, Call, Id
      <4>2. CASE dialog # Closed
        BY <1>5, <3>1, <3>2, <4>2 DEF ForDialog
      <4> QED BY <4>1, <4>2
    <3> QED BY <1>5, <3>1, <3>3, <3>4 DEF CallInv, OneOwner, ForWindow
  <2>3. pending' < nextId'["delete"] /\ dialog'.delete < nextId'["delete"]
    <3>1. /\ "delete" \in Op /\ pending \in Nat /\ dialog.delete \in Nat
          /\ pending < nextId["delete"] /\ dialog.delete < nextId["delete"]
      BY ClosedFields DEF CallsInv, TypeInv, Dialog, Id, Op
    <3> QED BY <1>5, <2>1, <3>1
  <2> QED BY <1>5, <2>2, <2>3 DEF CallsInv
<1>6. CASE PerformEventDelete /\ session # "in"
  <2>1. dialog = Closed /\ pending' = pending /\ dialog' = dialog /\ calls' = calls
    BY <1>6 DEF PerformEventDelete, SelectionInv, ConfirmingInv
  <2>2. Counted("delete") /\ "delete" \in Op
    BY <1>6 DEF PerformEventDelete, Op
  <2> QED BY <1>5, <2>1, <2>2, ClosedFields
<1>7. CASE OpenNewEventDialog \/ \E e \in Event : OpenEditEventDialog(e)
  <2>1. dialog = Closed /\ UNCHANGED <<pending, nextId, calls>>
    BY <1>7 DEF OpenNewEventDialog, OpenEditEventDialog, AtWindow, Modal
  <2>2. dialog'.phase = "open" /\ dialog'.delete = 0
    BY <1>7 DEF OpenNewEventDialog, OpenEditEventDialog, Closed
  <2> QED BY <1>2, <2>1, <2>2, ClosedFields
<1>8. CASE Submit
  <2> DEFINE op == IF dialog.event = None THEN "create" ELSE "update"
  <2>1. op \in Op \ {"delete"} /\ dialog \in Dialog /\ dialog.phase = "open" /\ Counted(op)
    BY <1>8, ClosedFields DEF Submit, TypeInv, Op
  <2>2. CASE session = "in"
    <3>1. /\ Issue(op, nextId[op], dialog.event, None, "dialog") /\ pending' = pending
          /\ dialog' = [dialog EXCEPT !.save = nextId[op], !.phase = "submitting"]
      BY <1>8, <2>2 DEF Submit
    <3>2. /\ dialog'.event = dialog.event /\ dialog'.phase = "submitting"
          /\ dialog'.save = nextId[op] /\ dialog'.delete = dialog.delete
      BY <2>1, <3>1 DEF Dialog
    <3>3. dialog.event \in Event \cup {None} /\ dialog' # Closed
      BY <2>1, <3>2, ClosedFields DEF Dialog
    <3> QED BY <2>1, <3>1, <3>2, <3>3, SentCalls
  <2>3. CASE session # "in"
    <3>1. calls' = calls /\ pending' = pending /\ dialog' = [dialog EXCEPT !.save = nextId[op]]
      BY <1>8, <2>3 DEF Submit
    <3>2. dialog'.phase = dialog.phase /\ dialog'.delete = dialog.delete
      BY <2>1, <3>1 DEF Dialog
    <3> QED BY <1>5, <2>1, <3>1, <3>2
  <2> QED BY <2>2, <2>3
<1>9. CASE Reject
  BY <1>2, <1>9, ClosedFields DEF Reject
<1>10. CASE AskToDelete \/ DialogDeletionDeclined
  <2>1. /\ dialog \in Dialog /\ dialog.phase \in {"open", "asking"}
        /\ \E phase \in {"open", "asking"} : dialog' = [dialog EXCEPT !.phase = phase]
        /\ UNCHANGED <<pending, nextId, calls>>
    BY <1>10, ClosedFields DEF AskToDelete, DialogDeletionDeclined, TypeInv
  <2>2. dialog'.phase \in {"open", "asking"} /\ dialog'.delete = dialog.delete
    BY <2>1 DEF Dialog
  <2> QED BY <1>2, <2>1, <2>2
<1>11. CASE DialogDeletionConfirmed
  <2>1. dialog \in Dialog /\ dialog.phase = "asking" /\ Counted("delete") /\ "delete" \in Op
    BY <1>11, ClosedFields DEF DialogDeletionConfirmed, TypeInv, Op
  <2>2. CASE session = "in"
    <3>1. /\ Issue("delete", nextId["delete"], dialog.event, dialog.event, "dialog")
          /\ pending' = pending
          /\ dialog' = [dialog EXCEPT !.delete = nextId["delete"], !.phase = "deleting"]
      BY <1>11, <2>2 DEF DialogDeletionConfirmed, DeleteId
    <3>2. /\ dialog'.event = dialog.event /\ dialog'.phase = "deleting"
          /\ dialog'.delete = nextId["delete"]
      BY <2>1, <3>1 DEF Dialog
    <3>3. dialog.event \in Event \cup {None} /\ dialog' # Closed
      BY <2>1, <3>2, ClosedFields DEF Dialog
    <3> QED BY <2>1, <3>1, <3>2, <3>3, SentCalls
  <2>3. CASE session # "in"
    <3>1. /\ calls' = calls /\ pending' = pending
          /\ dialog' = [dialog EXCEPT !.delete = nextId["delete"], !.phase = "open"]
      BY <1>11, <2>3 DEF DialogDeletionConfirmed, DeleteId
    <3>2. dialog'.phase = "open" /\ dialog'.delete = nextId["delete"]
      BY <2>1, <3>1 DEF Dialog
    <3> QED BY <1>5, <2>1, <3>1, <3>2
  <2> QED BY <2>2, <2>3
<1>12. ASSUME NEW c \in calls, Progress(c) PROVE CallsInv'
  <2>1. CallInv(c)
    BY DEF CallsInv
  <2> QED BY <1>12, <2>1, ProgressCases, EndedCalls, MovedCalls
<1>13. CASE SignOut
  <2>1. /\ dialog = Closed /\ dialog' = dialog /\ pending' = 0 /\ nextId' = nextId
        /\ calls' = {[c EXCEPT !.late = TRUE] : c \in calls}
    BY <1>13 DEF SignOut, AtWindow, Modal
  <2>2. ASSUME NEW c \in calls, NEW d, d = [c EXCEPT !.late = TRUE]
        PROVE  /\ CallInv(c) /\ CallInv(d)' /\ c.by = "window" /\ d.op = c.op /\ d.id = c.id
               /\ d.by = c.by
    <3>1. CallInv(c) /\ c \in Call /\ c.by = "window" /\ c.id # 0
      BY <2>1, ClosedFields DEF CallsInv, CallInv, OneOwner, TypeInv, Call, Id
    <3>2. /\ d.late /\ d.op = c.op /\ d.id = c.id /\ d.event = c.event /\ d.asked = c.asked
          /\ d.by = c.by /\ d.stage = c.stage /\ d.times = c.times
      BY <2>2, <3>1, LateCall
    <3> QED BY <2>1, <3>1, <3>2 DEF CallInv, OneOwner, ForDialog, ForWindow
  <2>3. \A d \in calls' : \E c \in calls :
          /\ d = [c EXCEPT !.late = TRUE] /\ CallInv(d)' /\ d.op = c.op /\ d.id = c.id
          /\ d.by = "window"
    BY <2>1, <2>2
  <2>4. 0 < nextId["delete"]
    BY DEF TypeInv, CountersInv, Op
  <2>5. ASSUME NEW d \in calls', NEW e \in calls', d.op = e.op, d.id = e.id PROVE d = e
    <3>1. PICK c \in calls : d = [c EXCEPT !.late = TRUE] /\ d.op = c.op /\ d.id = c.id
      BY <2>3
    <3>2. PICK b \in calls : e = [b EXCEPT !.late = TRUE] /\ e.op = b.op /\ e.id = b.id
      BY <2>3
    <3>3. c = b
      BY <2>5, <3>1, <3>2 DEF CallsInv
    <3> QED BY <3>1, <3>2, <3>3
  <2>6. (\A d \in calls' : CallInv(d)' /\ d.by = "window")
    BY <2>3
  <2>7. /\ dialog'.phase = "closed" /\ pending' < nextId'["delete"]
        /\ dialog'.delete < nextId'["delete"]
    BY <2>1, <2>4, ClosedFields
  <2> QED BY <2>5, <2>6, <2>7 DEF CallsInv
<1>14. CASE \/ BackgroundClicked \/ \E e \in Event : EventClicked(e)
            \/ \E events \in SUBSET Event : EventsRendered(events) \/ Navigate(events)
            \/ \E v \in View : SwitchView(v)
            \/ SignIn \/ SessionExpires \/ UNCHANGED vars
  BY <1>1, <1>14
     DEF BackgroundClicked, EventClicked, EventsRendered, Navigate, SwitchView, SignIn,
         SessionExpires, vars
<1> QED
  BY <1>3, <1>4, <1>6, <1>7, <1>8, <1>9, <1>10, <1>11, <1>12, <1>13, <1>14 DEF Next

-----------------------------------------------------------------------------
(* The theorems.                                                           *)

LEMMA EditingInvInductive == Spec => []EditingInv
<1>1. Init => EditingInv
  BY InitType, InitSelection, InitCalls DEF EditingInv
<1>2. EditingInv /\ [Next]_vars => EditingInv'
  BY StepType, StepSelection, StepCalls DEF EditingInv
<1> QED BY <1>1, <1>2, PTL DEF Spec

(* Every variable keeps its type, ids stay inside the bound, and a form    *)
(* disabled for a request has one to wait for (setSubmitInProgress).       *)
THEOREM TypeCorrect == Spec => []TypeOK
<1>1. EditingInv => TypeOK
  BY TypeInvImplies DEF EditingInv
<1> QED BY <1>1, EditingInvInductive, PTL

(* However views, replies and the session interleave, Delete Event acts on *)
(* what the view on screen highlights (refreshEventSelection).             *)
THEOREM SelectionAlwaysOnScreen == Spec => []SelectionIsOnScreen
<1>1. EditingInv => SelectionIsOnScreen
  BY DEF EditingInv, SelectionInv
<1> QED BY <1>1, EditingInvInductive, PTL

(* A deletion never names an event other than the one confirmed, although  *)
(* performEventDelete reads the selection again after the confirmation.    *)
THEOREM OnlyConfirmedDeleted == Spec => []DeletesOnlyConfirmed
<1>1. EditingInv => DeletesOnlyConfirmed
  BY DEF EditingInv, CallsInv, CallInv, DeletesOnlyConfirmed
<1> QED BY <1>1, EditingInvInductive, PTL

(* Each reply has one owner, whatever ids dialogs and the window took and  *)
(* whether or not a sign-out came in between.                              *)
THEOREM EveryReplyHasOneOwner == Spec => []ReplyHasOneOwner
<1>1. EditingInv => ReplyHasOneOwner
  BY DEF EditingInv, CallsInv, CallInv, OneOwner, ReplyHasOneOwner
<1> QED BY <1>1, EditingInvInductive, PTL

(* No request is carried out twice (sendAuthorized's single retry).        *)
THEOREM NeverAppliedTwice == Spec => []AppliedAtMostOnce
<1>1. EditingInv => AppliedAtMostOnce
  BY DEF EditingInv, CallsInv, CallInv, AppliedAtMostOnce
<1> QED BY <1>1, EditingInvInductive, PTL
=============================================================================
