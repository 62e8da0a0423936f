------------------------------ MODULE EventDialog ------------------------------
(***************************************************************************)
(* The form of calendar/eventdialog.cpp: how an event is turned into       *)
(* fields, how the fields move each other, and how they are turned into a  *)
(* request (NewEventRequest, the bodies of GoogleCalendarApi).  What       *)
(* happens while a request is in flight is EventEditing's; here it is      *)
(* applied and read back at once.                                          *)
(***************************************************************************)
EXTENDS DayLayout

CONSTANTS
  HourSlots,      \* the default duration of a new event
  FormDays,       \* bound: the days the user picks in the date fields
  Minutes,        \* bound: the reminders the user picks among the presets
  CustomValues,   \* bound: the numbers the user types for a custom reminder
  MaxEdits        \* bound: the fields changed while one dialog is open

Presets == {0, 5, 10, 15, 30, 60, 120, 1440}
LongestReminder == 40320

ASSUME DialogAssumption ==
  /\ HourSlots \in 1..SlotsPerDay
  /\ FormDays \subseteq Int
  /\ Minutes \subseteq Presets
  /\ CustomValues \subseteq 0..LongestReminder
  /\ MaxEdits \in Nat

VARIABLES
  events,      \* the events of the calendar, in the order they were listed
  form,        \* the fields of the open dialog
  edits        \* changes the user made in it; 0 when no dialog is open

dialogVars == <<events, form, edits>>

Time == 0..SlotsPerDay - 1

Custom == -1
Off == -1          \* no popup reminder
Units == {1, 60, 1440}

(* popups: the minutes of its popup overrides, in order.  mail: it has     *)
(* overrides of other methods.                                             *)
Event == [titled : BOOLEAN, allDay : BOOLEAN, start : Int, end : Int,
          popups : Seq(Nat), mail : BOOLEAN, useDefault : BOOLEAN]

(* The reminder the dialog manages: the first popup.                       *)
PopupOf(e) == IF e.popups = <<>> THEN Off ELSE Head(e.popups)

(* What Google makes of a create without reminders.                        *)
Blank == [titled |-> FALSE, allDay |-> FALSE, start |-> 0, end |-> 0,
          popups |-> <<>>, mail |-> FALSE, useDefault |-> TRUE]

Closed == [item |-> 0]

(* item: the event edited, or the place the new one will have.  shiftFrom: *)
(* m_startDateForDelta.                                                    *)
Form == [item : Nat, create : BOOLEAN, titled : BOOLEAN, writable : BOOLEAN,
         allDay : BOOLEAN, date : Int, startTime : Time, endDate : Int, endTime : Time,
         shiftFrom : Int, check : BOOLEAN, choice : Presets \cup {Custom}, value : Nat,
         unit : Units, original : Nat \cup {Off}, preserved : BOOLEAN, ok : BOOLEAN]

IsOpen == form.item # 0

DialogTypeOK ==
  /\ \A i \in DOMAIN events : events[i] \in Event
  /\ form \in Form \cup {Closed}
  /\ edits \in 0..MaxEdits
  /\ IsOpen => form.item \in 1..Len(events) + 1 /\ form.shiftFrom = form.date

DialogInit ==
  /\ events = <<>>
  /\ form = Closed
  /\ edits = 0

-----------------------------------------------------------------------------
(* updateOkEnabled.                                                        *)
OrderingOk(f) ==
  IF f.allDay THEN f.date <= f.endDate
  ELSE At(f.date, f.startTime) < At(f.endDate, f.endTime)

UpdateOkEnabled(f) == [f EXCEPT !.ok = f.titled /\ f.writable /\ OrderingOk(f)]

(* setupReminderControls.                                                  *)
SeededUnit(minutes) ==
  CASE minutes \in Presets -> 1
    [] minutes \notin Presets /\ minutes % 1440 = 0 -> 1440
    [] minutes \notin Presets /\ minutes % 1440 # 0 /\ minutes % 60 = 0 -> 60
    [] OTHER -> 1

Seeded(f, popup) ==
  LET seed == IF popup = Off THEN 10 ELSE popup
  IN  [f EXCEPT !.original = popup, !.check = popup # Off,
                !.choice = IF seed \in Presets THEN seed ELSE Custom,
                !.unit = SeededUnit(seed), !.value = seed \div SeededUnit(seed)]

Fields(item, create, e, endDate) ==
  [item |-> item, create |-> create, titled |-> e.titled, writable |-> TRUE,
   allDay |-> e.allDay, date |-> StartDate(e), startTime |-> 0, endDate |-> endDate,
   endTime |-> 0, shiftFrom |-> StartDate(e), check |-> FALSE, choice |-> 10,
   value |-> 10, unit |-> 1, original |-> Off, preserved |-> e.mail, ok |-> FALSE]

WithTimes(f, e) == [f EXCEPT !.startTime = TimeOf(e.start), !.endTime = TimeOf(e.end)]

Create(item, d, time, writable) ==
  LET e == [Blank EXCEPT !.start = At(d, time), !.end = At(d, time) + HourSlots]
      f == [WithTimes(Fields(item, TRUE, e, DayOf(e.end)), e) EXCEPT !.writable = writable]
  IN  UpdateOkEnabled(Seeded(f, Off))

Edit(item, e) ==
  LET f == IF e.allDay THEN Fields(item, FALSE, e, LastInclusiveDate(e))
           ELSE WithTimes(Fields(item, FALSE, e, DayOf(e.end)), e)
  IN  UpdateOkEnabled(Seeded(f, PopupOf(e)))

-----------------------------------------------------------------------------
(* buildRequest and what the server makes of its body.                     *)
SelectedReminderMinutes(f) ==
  CASE ~f.check -> Off
    [] f.check /\ f.choice # Custom -> f.choice
    [] OTHER -> f.value * f.unit

(* Mutant of ReminderMode: the reminders are sent on every save.           *)
ReminderModeAlwaysSent(f) ==
  IF SelectedReminderMinutes(f) = Off THEN "Off" ELSE "Popup"

(* applyReminderToRequest.                                                 *)
ReminderMode(f) ==
  LET minutes == SelectedReminderMinutes(f)
  IN  CASE minutes = IF f.create THEN Off ELSE f.original -> "Unchanged"
        [] minutes # Off /\ (f.create \/ minutes # f.original) -> "Popup"
        [] OTHER -> "Off"

(* Mutant of BuildRequest: the end date is sent as it is shown.            *)
BuildRequestInclusiveEnd(f) ==
  [allDay |-> f.allDay,
   start |-> IF f.allDay THEN f.date ELSE At(f.date, f.startTime),
   end |-> IF f.allDay THEN f.endDate ELSE At(f.endDate, f.endTime),
   mode |-> ReminderMode(f), minutes |-> SelectedReminderMinutes(f), preserved |-> f.preserved]

BuildRequest(f) ==
  [allDay |-> f.allDay,
   start |-> IF f.allDay THEN f.date ELSE At(f.date, f.startTime),
   end |-> IF f.allDay THEN f.endDate + 1 ELSE At(f.endDate, f.endTime),
   mode |-> ReminderMode(f), minutes |-> SelectedReminderMinutes(f), preserved |-> f.preserved]

(* The title and the dates of the body.                                    *)
Dated(e, r) ==
  [e EXCEPT !.titled = TRUE, !.allDay = r.allDay, !.start = r.start, !.end = r.end]

(* What a PATCH may leave of them.  The body of an update that changes the *)
(* type has the new date or dateTime and does not clear the old one, so    *)
(* that which of the two the event ends up with is the server's choice.    *)
Patched(e, r) ==
  {Dated(e, r)} \cup {d \in {[e EXCEPT !.titled = TRUE]} : e.allDay # r.allDay}

(* Mutant of Applied: the body has the popup alone.                        *)
AppliedPopupAlone(e, r) ==
  IF r.mode = "Unchanged" THEN e
  ELSE [e EXCEPT !.useDefault = FALSE, !.mail = FALSE,
                 !.popups = IF r.mode = "Popup" THEN <<r.minutes>> ELSE <<>>]

(* insertRemindersIfSet: an Unchanged request leaves the reminders alone.  *)
Applied(e, r) ==
  IF r.mode = "Unchanged" THEN e
  ELSE [e EXCEPT !.useDefault = FALSE, !.mail = r.preserved,
                 !.popups = IF r.mode = "Popup" THEN <<r.minutes>> ELSE <<>>]

Before(f) == IF f.create THEN Blank ELSE events[f.item]

(* The events the save may leave; a refusal leaves the form as it is.      *)
Saved(f) ==
  LET r == BuildRequest(f)
  IN  {Applied(e, r) : e \in IF f.create THEN {Dated(Blank, r)} ELSE Patched(events[f.item], r)}

-----------------------------------------------------------------------------
(* The dialog is opened.                                                   *)
OpenNew(d, time, writable) ==
  /\ ~IsOpen
  /\ form' = Create(Len(events) + 1, d, time, writable)
  /\ UNCHANGED <<events, edits>>

OpenEdit(i) ==
  /\ ~IsOpen
  /\ form' = Edit(i, events[i])
  /\ UNCHANGED <<events, edits>>

(* The user changes a field.                                               *)
Change(f) ==
  /\ edits < MaxEdits
  /\ form' = f
  /\ edits' = edits + 1
  /\ UNCHANGED events

EditTitle ==
  /\ IsOpen
  /\ Change(UpdateOkEnabled([form EXCEPT !.titled = ~@]))

(* Mutant of OnStartDateChanged: the next shift is counted from the first  *)
(* start date.                                                             *)
OnStartDateChangedFromFirst(d) ==
  LET shiftDays == d - form.shiftFrom
  IN  /\ IsOpen
      /\ d # form.date
      /\ form.endDate + shiftDays \in FormDays
      /\ Change(UpdateOkEnabled([form EXCEPT !.date = d, !.endDate = @ + shiftDays]))

(* The end date's own signal is blocked while it is dragged along.         *)
OnStartDateChanged(d) ==
  LET shiftDays == d - form.shiftFrom
  IN  /\ IsOpen
      /\ d # form.date
      /\ form.endDate + shiftDays \in FormDays
      /\ Change(UpdateOkEnabled([form EXCEPT
           !.date = d, !.endDate = @ + shiftDays, !.shiftFrom = d]))

EditEndDate(d) ==
  /\ IsOpen
  /\ d # form.endDate
  /\ Change(UpdateOkEnabled([form EXCEPT !.endDate = d]))

EditStartTime(t) ==
  /\ IsOpen
  /\ ~form.allDay
  /\ t # form.startTime
  /\ Change(UpdateOkEnabled([form EXCEPT !.startTime = t]))

EditEndTime(t) ==
  /\ IsOpen
  /\ ~form.allDay
  /\ t # form.endTime
  /\ Change(UpdateOkEnabled([form EXCEPT !.endTime = t]))

(* Mutant of OnAllDayToggled: OK stays as it was for the other ordering.   *)
OnAllDayToggledOkKept ==
  /\ IsOpen
  /\ Change([form EXCEPT !.allDay = ~@])

OnAllDayToggled ==
  /\ IsOpen
  /\ Change(UpdateOkEnabled([form EXCEPT !.allDay = ~@]))

ToggleReminder ==
  /\ IsOpen
  /\ Change([form EXCEPT !.check = ~@])

ChooseReminder(choice) ==
  /\ IsOpen
  /\ form.check
  /\ choice # form.choice
  /\ Change([form EXCEPT !.choice = choice])

EditCustomReminder(value, unit) ==
  /\ IsOpen
  /\ form.check /\ form.choice = Custom
  /\ <<value, unit>> # <<form.value, form.unit>>
  /\ Change([form EXCEPT !.value = value, !.unit = unit])

Close ==
  /\ form' = Closed
  /\ edits' = 0

OnOkClicked ==
  /\ IsOpen
  /\ form.ok
  /\ \E e \in Saved(form) :
       events' = IF form.create THEN Append(events, e) ELSE [events EXCEPT ![form.item] = e]
  /\ Close

Cancel ==
  /\ IsOpen
  /\ Close
  /\ UNCHANGED events

DialogNext ==
  \/ EditTitle \/ OnAllDayToggled \/ ToggleReminder
  \/ \E d \in FormDays : OnStartDateChanged(d) \/ EditEndDate(d)
  \/ \E t \in Time : EditStartTime(t) \/ EditEndTime(t)
  \/ \E c \in Minutes \cup {Custom} : ChooseReminder(c)
  \/ \E v \in CustomValues, u \in Units : EditCustomReminder(v, u)
  \/ OnOkClicked
  \/ Cancel

-----------------------------------------------------------------------------
(* Properties.                                                             *)

(* OK can be clicked exactly when the fields, as they are now, make a      *)
(* request the server accepts: a title, a calendar to write to, an end     *)
(* after the start in the sense of the all-day box, whichever field was    *)
(* changed last and however it was changed (updateOkEnabled's callers).    *)
OkMeansValid ==
  IsOpen => (form.ok <=> /\ form.titled /\ form.writable
                         /\ LET r == BuildRequest(form) IN r.start < r.end)

(* Opening an event and saving it without a change changes nothing on the  *)
(* server: not its dates (the all-day end is exclusive on the wire, a      *)
(* midnight end is the next day's), nor its reminders, those the form      *)
(* cannot show included (several popups, mails, the calendar's defaults).  *)
UntouchedSavesTheSame ==
  IsOpen /\ ~form.create /\ edits = 0 /\ form.ok => Saved(form) = {events[form.item]}

(* After any edits, the saved event has the days and the times the form    *)
(* showed.  An update that makes a timed event all-day, or the reverse, is *)
(* left out: what becomes of the old date or dateTime is up to the server. *)
DatesAsShown ==
  IsOpen /\ form.ok /\ (form.create \/ form.allDay = Before(form).allDay) =>
    \A e \in Saved(form) :
      /\ e.allDay = form.allDay
      /\ e.allDay => <<StartDate(e), LastInclusiveDate(e)>> = <<form.date, form.endDate>>
      /\ ~e.allDay => /\ <<DayOf(e.start), TimeOf(e.start)>> = <<form.date, form.startTime>>
                      /\ <<DayOf(e.end), TimeOf(e.end)>> = <<form.endDate, form.endTime>>

(* After any edits, a form that shows the reminder the event had leaves    *)
(* every reminder as it was: further popups, mails, the calendar's         *)
(* defaults.  One that shows another reminder makes it the only popup (the *)
(* dialog manages a single one), keeps the mails, and no default stays.    *)
RemindersKept ==
  IsOpen /\ form.ok =>
    LET before == Before(form)
        shown == SelectedReminderMinutes(form)
    IN  \A e \in Saved(form) :
          IF shown = PopupOf(before)
          THEN <<e.popups, e.mail, e.useDefault>> = <<before.popups, before.mail, before.useDefault>>
          ELSE /\ e.popups = IF shown = Off THEN <<>> ELSE <<shown>>
               /\ e.mail = before.mail
               /\ ~e.useDefault

(* After any edits, OK saves the dates the form showed, unless an update   *)
(* changes the type, and loses no reminder but the popups and defaults     *)
(* that another choice of the user replaces (buildRequest,                 *)
(* applyReminderToRequest and the bodies of GoogleCalendarApi).            *)
SavedAsShown == DatesAsShown /\ RemindersKept
=============================================================================
