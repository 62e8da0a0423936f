# A TLA+ verification of calendae

calendae is a Qt/C++ desktop client of Google Calendar. It keeps one account
signed in, caches the account's events by month, shows them in month, week and
day views, edits them, and reminds the user of them. This directory holds TLA+
models of the parts of it whose behaviour depends on the order in which replies,
timers, user actions and restarts happen, the TLC configurations that check
them, and proofs of their main invariants.

Everything runs on one thread, the Qt event loop. What makes it hard is that
nearly every operation ends in a callback: an HTTP reply, a queued signal, a
keychain job, a timer. Between the call and the callback the user may sign out,
edit, navigate or quit, and other replies may come first.

    tlc -workers 2 -config MCMonthEventStore_cache.cfg MCMonthEventStore.tla
    tlapm MonthEventStore_proofs.tla

## 1. The system

Paths are relative to `src/src/`.

    MainWindow --restoreSession, signIn, signOut--> AuthManager --> OAuthLoopbackServer
        |                                            ^   |   \---> keychain (OS credential store)
        |                        refreshAfterRejection|   \-------> Google token endpoint
        |                                            |
        +--> month/week/day controllers --> MonthEventStore --> GoogleCalendarApi --> Calendar API
        |            (store-backed)              |
        |                                        +--> EventCacheStore (files, one directory per account)
        +--> ReminderScheduler --> GoogleCalendarApi

Signals go the other way. `GoogleCalendarApi`'s results reach the store through
queued connections, so any other slot may run between the emission and the
delivery; they reach the scheduler directly.

| Component | State it keeps | Operations | What is hard |
|---|---|---|---|
| `MonthEventStore` (`calendar/montheventstore.cpp`) | buckets by (month, calendar): state, events, fetch time, request id, "from disk, refresh pending"; index from request id to bucket | `ensureMonths`, `refreshVisible`, `invalidateCalendar`, `invalidateAll`, the two result slots, `monthsSettled` | replies after an invalidation or a sign-out, overlapping polls and navigations, failures with something on screen, stale files |
| `EventCacheStore` (`calendar/eventcachestore.cpp`) | a directory of files per account key | `setAccountKey`, `loadBucket`, `storeBucket`, `removeCalendar`, `removeAll`, `prune` | writes and removals that fail, files that outlive the account, restart |
| `AuthManager` (`auth/authmanager.cpp`) | state, sign-out reason, tokens, epoch, refresh in flight, waiters, timers | `restoreSession`, `signIn`, `signOut`, `refreshAfterRejection`, the token replies | callbacks of an earlier epoch, shared refresh, rotation, retries, the credential store |
| Credential store access (`auth/keychainjob.cpp`, `keychainbackend.cpp`) | the OS keychain | read, write, delete jobs | asynchronous, ordered, may fail or be unavailable |
| `CredentialsProvider` and its dialog | OAuth client id and secret | `resolveCredentials` | may wait for the user for ever |
| `OAuthLoopbackServer` | a listening socket | `startListening`, redirect | one redirect per sign-in, timeout |
| `GoogleCalendarApi` (`calendar/googlecalendarapi.cpp`) | next request id | fetch, create, update, delete, calendar list, `sendAuthorized` | one retry after a 401, pages, requests never aborted on sign-out |
| `MainWindow` (`app/mainwindow.cpp`) | the calendar list, the view on screen, the selected event, the offline state, request ids, the restore-retry, reconnect and poll timers | connects everything above; event dialogs; deletion | signals that reach several readers, dialogs with an event loop of their own, replies of an earlier session |
| Event controllers (`StoreBackedEventsController`, month, time grid) | known and enabled calendars; the view's range decides the buckets | `setCalendars`, `setCalendarEnabled`, `refreshCalendar`, `refreshVisibleFromServer`, `onBucketUpdated`, `onBucketFetchFailed` | three views share buckets; the end of a fetch cycle is found by asking after every event |
| `ReminderScheduler` (`calendar/reminderscheduler.cpp`) | schedule, timers, fired keys, latest request id per calendar | `refreshAll`, `refreshCalendar`, `setCalendars` | superseded replies, late timers, a reminder due while the schedule is rebuilt |
| Calendar arithmetic (`monthgrid`, `timegridrange`, `monthkeys`, `event`) | none | pure functions | month and year boundaries, exclusive end dates |
| Event grouping and layout (`eventgrouping` and the day column widgets) | none | pure functions | overlap and column assignment |
| `EventDialog` | the form, what is in flight | seed, validate, build a request, disable and enable | inclusive and exclusive ends, fields that move each other, reminders it cannot show |
| Views and sidebar | month or range shown, selection, events painted per calendar, check boxes | navigation, selection, toggles | a selection each view has and only one may have |
| Process, desktop integration, JSON and OAuth conversions | parsed documents | drawing, I/O, parsing | not stateful in a way a model checker adds to |

What makes each component correct:

* `MonthEventStore`: its two records of a request agree, a reply lands in the
  bucket it was sent for or nowhere, an edit the user made is never followed by
  the data from before it, a failed fetch does not blank the view, no bucket
  stays in flight, and what is on screen ends up with the server's data.
* `AuthManager`: one attempt at a time, each of them ends, no reply of an
  earlier session has any effect, requests refused with 401 share one refresh and
  all get an answer, the session does not lapse, and the credential store ends
  up holding the session's token, a rotated one included.
* `ReminderScheduler`: every event the schedule knows reminds once, at its time,
  and an event that moved or went away does not remind at its old time.
* Event controllers: a view paints what the shared buckets hold of its enabled
  calendars, an edit or a poll never blanks it, and the end of a fetch cycle is told.
* `MainWindow`: its list, the sidebar and the controllers agree on one selection
  of calendars, after a sign-out nothing of the account is left in the window or
  on disk, and the offline state ends.
* Editing: only the event the user confirmed is deleted, a reply reaches who waits
  for it, nothing is carried out twice, and no form stays disabled.
* `EventDialog`: OK means the server can accept the event, what is saved is what
  was shown, saving an untouched event changes nothing, and no save loses a reminder
  the user did not change.
* The arithmetic: a page's events are all in every bucket it reads, an event is
  drawn on exactly the days it takes time of, and pills that share a moment in time
  are side by side.

The hazards, each at its line with the properties that would notice it, are in
`PROJECT.json`.

## 2. The modules

| Module | Models |
|---|---|
| `MonthEventStore` | the store, its cache files, its requests on the wire and in Qt's queue, and the edits that invalidate it |
| `MonthEventStore_proofs` | its theorems |
| `BucketCache` | the abstract specification of the store: what the controllers may rely on |
| `MCMonthEventStore` | views and symmetries for TLC |
| `AuthManager` | the session, its keychain jobs and token requests, the API requests of `sendAuthorized`, the restore-retry timer of the main window |
| `AuthManager_proofs` | its theorems |
| `MCAuthManager` | symmetries for TLC |
| `ReminderScheduler` | the schedule, its timers and their keys, the rolling fetch, toggles, edits and the session's end |
| `ReminderScheduler_proofs` | its theorems |
| `MCReminderScheduler` | symmetries for TLC |
| `EventViews` | the controllers of the month, week and day views over `BucketCache`, with what each view has painted |
| `EventViews_proofs` | the theorems of `BucketCache` and of `EventViews` |
| `MCEventViews` | a month and a week view for TLC |
| `MainWindow` | the calendar list, toggles, view switches, connectivity and the list on disk, across accounts |
| `MainWindow_proofs` | its theorems |
| `MCMainWindow` | views for TLC |
| `EventEditing` | selection, event dialogs, deletion and the life of one mutation request |
| `EventEditing_proofs` | its theorems |
| `MCEventEditing` | views for TLC |
| `CalendarGrid` | months, weeks and grids of days (pure operators) |
| `DayLayout` | the days an event is on and the columns of a day (pure operators) |
| `DayLayout_proofs` | its theorems |
| `EventDialog` | the form: seeding, changes, validation, the request and what it saves |
| `CalendarPages` | the pages the user turns, with the events and the dialog on them; extends the three above |
| `CalendarPages_proofs` | the theorems of the pages, the dialog and the date arithmetic |
| `MCCalendarPages` | a year, two days' events and the dialog's inputs for TLC |

`MonthEventStore` implements `BucketCache` (`ImplementsBucketCache`, an `INSTANCE`
with a refinement mapping), and `EventViews` extends `BucketCache`: the controllers
are checked against what the store promises, and the store against the promise.

### MonthEventStore

| TLA+ | Code |
|---|---|
| `bucket`, `EmptyBucket` | `m_buckets`; a pair not in the hash |
| `bucketByRequestId` | `m_bucketByRequestId` |
| `wire`, `posted` | fetches without an answer; `eventsFetched`/`eventsFetchFailed` emitted, not yet delivered |
| `disk` | the account's files |
| `EnsureMonths`, `RefreshVisible` | `ensureMonths`, `refreshVisible` (hydration from disk, then `fetchBucket`) |
| `OnEventsFetched`, `OnEventsFetchFailed`, `DropResult` | the two slots; `DropResult` is their early return |
| `MutationAcked` | the main window's `reloadCalendarAfterMutation`: `invalidateCalendar`, then the controllers ensure what they show |
| `SignOut`, `Restart` | `invalidateAll(true)`; the process ends, and `prune` may have dropped files |
| `SignInAgain` | a sign-in after `invalid_grant` ended the session: the account key, and with it the directory, is a new one, and nothing is invalidated |
| `version`, `unacked`, `acked`, `sessionStart` | not in the code: what the server has, and what this client knows it has |

Abstractions. The events of a bucket are a snapshot: the version of the calendar
the server answered with, and whether the answer was empty, which is all the
code tests. The pages of a fetch are one snapshot. The freshness TTL is two ages,
"recent" and "expired", and time passes by `Age`. Request ids grow without end in
the code and are only compared for equality, so `NewIds` picks ids nothing
refers to; when all are taken no fetch starts, which is the bound on concurrent
fetches. A fetch asked for without a session fails at once, with its
failure queued: here it is a fetch whose failure comes soon (`FetchFails`). A
mutation's `months` is any set, the empty one included, because the views that
are re-ensured depend on which controllers are populated.

### AuthManager

| TLA+ | Code |
|---|---|
| `state`, `reason`, `refreshToken`, `refreshInFlight`, `readAttempts` | the members of the same names |
| `current` of a request | `epoch == m_authEpoch` in the reply handler |
| `outdated` | requests for which `rejectedAccessToken != m_accessToken` |
| `forcedRecently` | `m_accessTokenFromForcedRefresh`, within the cooldown |
| `pending` | the callbacks the attempt under way waits for |
| `callers` | where each API request is in `sendAuthorized`; "Waiting" is an entry of `m_refreshWaiters` |
| `stored`, `keychainQueue` | the OS credential store; its jobs, done in order |
| `RestoreSession` .. `RestoreCredentialsFailed` | `restoreSession` and its continuations |
| `RefreshSucceeds`, `RefreshRejected`, `RefreshUnavailable` | the three outcomes of `refreshAccessToken`, in each context |
| `Send`, `Completes`, `Rejected` | `sendAuthorized`; `refreshAfterRejection`'s five answers |
| `SignIn` .. `ExchangeFails` | `signIn`, `beginSignInFlow`, the loopback server's signals, `exchangeAuthorizationCode` |
| `SignOut`, `KeychainWorks`, `Restart` | `signOut`; a keychain job ends; the process ends |

Abstractions. The epoch and the access token are only compared, so the model
keeps the results of the comparisons. Whether Google accepts a token is not
modelled: any reply may be a success, a refusal or a failure, except that an
empty refresh token gets neither a token nor `invalid_grant` (Google answers
`invalid_request`). The loopback server and the sign-in timeout are one pending
callback, "Browser". The proactive timer and the cooldown fire at any time, so no
property depends on how long they are. `RestoreSession` and `SignIn` carry the
conditions under which the main window and its auth gate call them.

### ReminderScheduler

| TLA+ | Code |
|---|---|
| `known`, `enabled`, `upcoming` | `m_calendarsById`, `m_enabledCalendarIds`, `m_upcomingByCalendar` |
| `requests` | for each calendar the fetch named by `m_latestRequestIdByCalendar`, as long as its reply is to come |
| `armed`, `fired` | the running timers of `m_pendingTimers`; `m_firedKeys` |
| `refreshTimer`, `cycleRecent` | `m_refreshTimer` runs; `m_sinceLastCycle` is below the minimum gap |
| `Planned`, `RebuildTimers` | `ReminderSchedule::plan`, `rebuildTimers` |
| `SetCalendars`, `EnableCalendar`, `DisableCalendar` | `setCalendars`, the two ways through `setCalendarEnabled` |
| `RefreshAll`, `RefreshTimerFires` | `refreshAll` with its throttle; the ten-minute timer, both through `startFetchCycle` |
| `OnEventsFetched`, `OnEventsFetchFailed` | the two slots |
| `ReminderDue` | the lambda on a one-shot timer |
| `MutationAcked` | the part of `reloadCalendarAfterMutation` that calls `refreshCalendar` |
| `SignOut`, `Restart` | `clear`; the process ends |
| `SessionExpires` | `invalid_grant`: the state changes and `signedOut` is not emitted, so `clear` does not run |
| `server`, `version`, `unacked`, `acked` | as in `MonthEventStore` |

Abstractions. An event is its reminder's fire time, and starts `Lead` later.
A reply that does not answer its calendar's newest request is dropped by the
code without effect, so a superseded request is not kept. A reply holds the
events before the end of the window as it was when the request was made. Time is
a counter and `Tick` may pass a due timer, as a suspended machine or a long slot
does; `Early` is how far ahead of its time a coarse `QTimer` may fire. A fetch
without a session is refused before it is sent, as `fetchForCalendar` does.

### BucketCache and EventViews

| TLA+ | Code |
|---|---|
| `cached` | a bucket's state and events, and whether the server confirmed them; `MonthEventStore` without ids, index, freshness and files |
| `floor`, `latest` | not in the code: the oldest version still acceptable, the server's version |
| `Asked`, `Ask` | `ensureMonths` and `refreshVisible`: in flight over what is there, over a file, or left alone when fresh |
| `Answered`, `Refused` | the accepted outcomes of the two result slots |
| `Invalidate`, `DropAll` | `invalidateCalendar` and the reload after it; `invalidateAll` |
| `known`, `enabled` | `m_calendarsById`, `m_enabledCalendarIds` of each controller |
| `painted` | the events each view holds per calendar (`m_eventsByCalendar`), as one snapshot per month of its range |
| `owed` | not in the code: the range was unsettled and `fetchCycleFinished` has not been emitted since |
| `SetCalendars`, `EnableCalendar`, `DisableCalendar`, `Navigate`, `RefreshVisibleFromServer`, `MutationAcked`, `SignOut` | the controllers' functions, each with the rendering and the check for the end of the cycle it does |
| `OnBucketUpdated`, `OnBucketFetchFailed` | `bucketUpdated` and the two failure signals, delivered to every view |
| `SessionChanges` | a sign-in, and `invalid_grant`, neither of which touches the controllers |

In the mapping of `MonthEventStore`, the floor of a calendar is the newest of its
last acknowledged edit and the start of the session. An answer that the store drops is a
stutter. The abstract cache allows an answer at any version between the floor and
the server's: that is all the views may count on, and all their safety properties use.

### MainWindow

| TLA+ | Code |
|---|---|
| `user`, `accountKey` | the account `AuthManager` is signed in as; `EventCacheStore::m_accountKey`, which survives an expired session |
| `calendars`, `sidebar`, `held`, `populated` | `m_calendars`, the check boxes, what each controller was given, the populated flags |
| `offline`, `reconnect` | `m_serverUnavailable`, `m_reconnectTimer` |
| `requests`, `patches` | list requests and changes of a selected flag on the wire |
| `files` | whose list each account's `calendars.cbor` holds |
| `settled`, `left` | not in the code: the wait for a session's own list ended otherwise; the account last signed out of |
| `ApplyCalendarList`, `EnsureControllerPopulated`, `SwitchView` | the functions of those names; the three view buttons |
| `Toggle`, `PatchSucceeds`, `PatchFails` | a check box; the reply to the change, with its rollback |
| `CalendarListFetched`, `CalendarListFetchFailed`, `BucketFails`, `BucketRefreshed` | the slots of `connectCalendarData` |
| `SignIn`, `SignOut`, `SessionExpires`, `Restart` | the slots of `connectAuth`; the end of a session without them; a new process |

A list is the set of its calendars with their selected flags, and remembers, for the
properties only, the account it was fetched for.

### EventEditing

| TLA+ | Code |
|---|---|
| `selected`, `selection` | each view's `m_selectedEventId`; the window's |
| `cached`, `shown` | the events `findCachedEvent` finds; those the views have pills of |
| `confirming` | `deleteSelectedEvent` is inside its message box |
| `pending` | `m_pendingStandaloneDeleteRequestId` |
| `dialog` | the open `EventDialog`: its event, what is in flight, the ids it waits for |
| `calls` | mutations between the call and the last slot of their reply |
| `Unauthorized`, `Refreshed`, `RefreshFailed` | the retry of `sendAuthorized` |
| `ServerApplies` | Google carries a request out; the reply may still be lost (`ReplyLost`) |

Dialogs and message boxes run an event loop of their own, so replies, timers, refetches
and the end of the session happen while they are open; input to the window does not
(`AtWindow`). The events of a view are a set, which a refetch may replace by any other.

### CalendarGrid, DayLayout, EventDialog and CalendarPages

| TLA+ | Code |
|---|---|
| `DatesForGrid`, `WeekStart`, `ForDateRange` | `MonthGrid::datesForGrid`, `TimeGridRange::weekStart`, `MonthKeys::forDateRange` |
| `LastInclusiveDate`, `ListedOn` | `Event::lastInclusiveLocalDate`, `EventGrouping::groupByDate` |
| `Pills`, `Sorted`, `Layout` | `relayoutEvents`: clipping, order, clusters and columns |
| `form` | the widgets of the dialog, with the remembered start date, the original reminder and whether OK is enabled |
| `OnStartDateChanged`, `OnAllDayToggled`, `UpdateOkEnabled` | the slots of those names |
| `BuildRequest` | `buildRequest`, with what `applyReminderToRequest` adds |
| `Dated`, `Patched`, `Applied`, `Saved` | the body of the create or update, and the events Google may make of it |
| `displayedMonth`, `rangeStart` | the page of the month view; of a week or day view |

Days are numbers through a stretch of months, instants are slots of a day, without a
change of the clocks. `Applied` leaves reminders alone when the body has none, as the
API does for an update and by its defaults for a create. `Saved` is a set: the body of an
update has `date` or `dateTime` and does not clear the other, so when the edit makes an
all-day event timed, or the reverse, the event may get the new dates or stay where it was
(`Patched`), and `OnOkClicked` takes either.

## 3. The runs

| Run | Question | Bounds |
|---|---|---|
| `store_cache` | Do buckets and index stay in step, does an edit leave nothing old behind, and does the store implement the abstract cache? | 2 months, 1 calendar, 2 ids, 1 edit; files can be removed |
| `store_live` | Is anything old shown as confirmed, across restarts and sign-outs, when file removals fail? Does every fetch settle and does the view on screen converge? | 1 month, 1 calendar, 2 ids, 2 edits |
| `auth_session` | Can two attempts overlap, can a session go cold, can a token be lost? Do refused requests share one refresh, can a late reply undo a sign-out? | 2 refresh tokens, 3 API requests, 3 read retries, 2 keychain jobs |
| `auth_live` | Do restores, browser sign-ins and waiters end, and does a blocked restore recover by itself? | 1 token, 2 API requests, 3 read retries, 1 keychain job that may fail |
| `reminder_timers` | Do the timers follow the schedule, go off once and outlive failures? | 2 calendars, 1 event each, times 1 and 2, window 3, time up to 1, 1 edit each, timers up to 1 early, sessions expire |
| `reminder_edits` | Can a schedule be older than an edit this client saw succeed, and do the timers end up matching the server? | 1 calendar, 2 events at 1 or 3, 2 edits, time up to 1, sessions end by signing out |
| `views` | Does each view paint what its buckets hold, without a blank flash, and is the end of every cycle told? Does the polled view catch up? | a month and a week view, 2 months, 1 calendar, 1 edit |
| `window` | Do sidebar, list and controllers agree, is anything left after a sign-out, does the offline state end, does a session get its own list? | 2 accounts, 1 calendar, 2 views |
| `editing` | Is only the confirmed event deleted, does a reply have one receiver, is nothing carried out twice, is nothing stuck? | 2 events, 2 views, 2 mutation requests |
| `pages` | Is every page whole in each of its buckets, are pills of one moment side by side, is OK right, is what is saved what was shown, does a save keep the reminders? | a common year, weeks from Monday or Sunday, up to 3 events on 2 days of 3 slots, 3 edits per dialog |
| `reminder_missed`, `window_late` | two statements of headers and comments that do not hold (section 6) | 1 calendar, 1 event, 1 edit; 2 accounts |

Why the bounds are enough. Two edits (`MaxVersion`) are needed to have a file
or a reply that is older than an edit which is itself older than another. Two
request ids give one request on its way from before an invalidation and one from
after it. Two months are the most a view
shows; the proofs cover any number of calendars. Two refresh tokens are a session's and the one it was
rotated to, and with symmetry, the one of the session before. Three API requests
are one that starts a forced refresh, one that joins it and one whose access token
is outdated by then. `MaxQueue = 2` allows a removal behind a save; when the queue is
full, the steps that would add to it wait. `MaxReadRetries` is the code's own 3
wherever a property depends on the retries. The proofs of section 5 hold
for all values of all of these.

For the scheduler, two fire times let an event move from one to the other. At
time 0 both reminders lie ahead, at time 1 one is due and the other is not; `Early`
lets a timer go off before its time. With times 1 and 3 an event is outside the
window of a fetch at time 0 and inside that of one at time 1.

`SessionCanExpire` is a constant because `ScheduleNotOlderThanAck` only holds
when sessions end by signing out (section 6). It is set wherever a property does
not need it unset.

For the views, a month and a week view are the two kinds of range, and the week that
straddles the two months is the one that reads two buckets. For the window, two
accounts are one that leaves and one that comes; two requests are enough for a late
one and a new one. For editing, two requests are a deletion from the window and a
request of a dialog, or a late one and its successor. Two events let a selection
move from one to the other. Three events on two days are the least with a chain,
a nest and a touching pair; three slots a day give a morning, a midnight and a span
over it. The year of `pages` has months that begin on every day of the week, so
grids of four, five and six weeks occur. Within it pages turn only while no
events are there, and events and dialogs come on the page of today: nothing in the layout of a
day depends on the page.

`RemoveCanFail` and `KeychainCanFail` are constants because the code ignores the
result of these calls. Two properties only hold when the calls succeed
(`NothingOlderThanAck`, `StoredIsTheSession`), and say so in their first line;
`ConfirmedIsCurrent` and the liveness properties are checked with failures.

All systems here run for ever, so deadlock is checked in every run. A few bounds stop
an action and never the system.

## 4. Fairness

* Each fetch, and each token request that still counts, is answered: every
  request has a transfer timeout, and pages are capped at 40.
* Queued results are delivered: Qt's event loop runs.
* Keychain jobs end, and the read-retry, restore-retry and sign-in timers fire.
* The view on screen is polled (`PolledSpec`), every ten minutes, and a bucket
  fetched again and again is answered some time (strong fairness), which is what "the
  server is reachable eventually" means. The poll pauses while the main window
  believes the server is unavailable; `OfflineEnds` shows that this state ends.
* `Reachable`, the premise of `SilentRecovery`, says of the restore what
  `PolledSpec` says of the store: of the attempts made again and again, one gets
  through each stage.
* The scheduler's ten-minute timer fires while it runs, and a calendar
  asked about again and again is answered and the answer delivered in the end
  (`PolledSpec` of `ReminderScheduler`). Time itself is not fair: `Converges`
  holds whether or not it passes.

* `EventViews` assumes the poll and, of each bucket asked for again and again, an
  answer with the server's version in the end: what `Settles` and `Converges` show
  of the store. `ScreenConverges` starts when edits stop.
* `MainWindow` assumes that the reconnect timer fires while it runs, that list
  requests are answered or time out, and that one asked again and again
  succeeds in the end.
* `EventEditing` assumes that every mutation, and the refresh it may wait for, is
  answered or times out (`kNetworkTimeoutMs`).

No fairness is assumed for what the user does: navigation, edits, sign-in and
sign-out, and the credentials dialog, which may stay open for ever. That is why
`AttemptsEnd` starts at the browser, and not at `signIn`. Its restores rest on `WF(Restoring)`, that is, on credentials being resolved
from what is stored or bundled when a refresh token exists. Three properties
assume `KeepsRunning`: a program that is restarted for ever restores nothing.

## 5. The proofs

`tlapm` checks these for every value of the constants, from the
assumptions in the modules. Most of these say that sentinels are not values and
bounds are naturals. The others are facts of the code or of its surroundings:
`CalendarAssumption`, that months have 28 to 31 days; `DialogAssumption`, that the reminders the
dialog offers are its presets and what its spin box allows (0 to 40320);
`PagesAssumption`, that the week of today lies in the stretch of months and that the
server's all-day events end after they start, and one with the calendar's default reminders
has no others, which is how Google describes an event; `ViewsAssumption`, that `Nothing`
is no picture.

| Theorem | Says |
|---|---|
| `MonthEventStore_proofs!TypeCorrect` | `TypeOK` |
| `IndexAlwaysConsistent` | buckets and request index agree; every bucket in flight has one answer to come |
| `ConfirmedAlwaysCurrent` | nothing shown as confirmed is older than the last acknowledged edit or the session |
| `NothingEverOlderThanAck` | an acknowledged edit leaves no older data in a bucket, a file or an acceptable reply |
| `StoreImplementsBucketCache` | every step of the store is one of `BucketCache` or a stutter |
| `AuthManager_proofs!TypeCorrect` | `TypeOK`, with the bound on the read retries |
| `OneAttemptAtATime` | an attempt waits for exactly one thing; nothing outlives it |
| `WaitersAlwaysHaveARefresh` | at most one refresh is outstanding, and it will answer whoever waits |
| `AlwaysKeptWarm` | a session has its timer armed or a refresh on the wire |
| `StoredAlwaysTheSession` | the credential store ends up with the session's token, unless a job fails |
| `NeverResurrected` | the action property `NoResurrection` |
| `ReminderScheduler_proofs!TypeCorrect` | `TypeOK`, with enabled calendars among the known |
| `TimersAlwaysFollowSchedule` | an armed timer belongs to an event of an enabled calendar's schedule at that time, and has not gone off |
| `ScheduleNeverOlderThanAck` | unless sessions expire, no schedule or acceptable reply is older than an acknowledged edit |
| `RemindersAlwaysOutliveFailures` | the action property `RemindersOutliveFailures` |
| `EventViews_proofs!ConfirmedAlwaysAboveFloor` | in the abstract cache a confirmed bucket is never older than the floor, nor newer than the server |
| `EventViews_proofs!TypeCorrect` | `TypeOK` |
| `PaintedAlwaysCached` | a view paints what the buckets hold of its enabled calendars, and nothing else |
| `CycleAlwaysReported` | the end of a fetch cycle is told on every path |
| `NeverBlanked` | the action property `NoBlankFlash` |
| `ViewsUseTheCache` | the controllers touch the buckets only as `BucketCache` allows |
| `MainWindow_proofs!TypeCorrect` | `TypeOK` |
| `SelectionAlwaysTheSame` | the list, the sidebar, the populated views and the reminders have one selection |
| `NothingLeftAfterSignOut` | after a sign-out nothing of the account is in the window or on disk |
| `EventEditing_proofs!TypeCorrect` | `TypeOK` |
| `SelectionAlwaysOnScreen` | Delete Event acts on what the view on screen highlights |
| `OnlyConfirmedDeleted` | a deletion names the event confirmed, or none |
| `EveryReplyHasOneOwner` | a reply reaches the dialog or the window, whoever waits for it, never both |
| `NeverAppliedTwice` | no request is carried out twice |
| `DayLayout_proofs!NothingIsCovered` | of any events on any day, pills that share a moment in time are side by side, and no width is wasted |
| `DayLayout_proofs!NothingIsMissing` | an event is on exactly the days it takes time of |
| `CalendarPages_proofs!TypeCorrect` | `TypeOK` |
| `EveryBucketAlwaysHasTheWholePage` | each bucket a page reads has the whole page |
| `PillsAlwaysTellTheDay` | the two theorems of `DayLayout` on every page |
| `OkAlwaysMeansValid` | OK is enabled exactly when there is a title, a calendar and an end after the start |
| `UntouchedAlwaysSavesTheSame` | an event opened and saved untouched stays as it was |
| `AlwaysSavedAsShown` | a new event, or an update that keeps the type, is saved on the days and at the times the form showed (`DatesAsShown`); a form that shows the popup the event had leaves every reminder, another choice replaces the popups and the defaults, never a mail (`RemindersKept`) |

The argument about the store. `IndexConsistent` is not inductive without the types and
without `OneOutcomePerRequest`, which says a request has one outcome: otherwise a second
result could clear an id already given to another bucket. The two currency properties
need to be strengthened with what they say of data that is not shown yet: an accepted
reply on its way (`posted`, and indexed) is no older than the last acknowledged edit and
the session, a version is never ahead of the server's, and an edit not yet acknowledged
is already in the server's version. Then an invalidation, which raises `acked`, at the
same step takes every reply it makes too old out of the index.

The argument about the session. `ControlInv` joins the checked invariants to what each
state knows: while a restore runs or is to be retried, the proactive timer is unarmed
and only the restore's own refresh counts (`Cold`); a restore past its read has a token
(`RestoreHasToken`); an authorization-code exchange carries none (`ExchangesBare`); and
without a session, a refresh that was sent, or that the timer will still send, has no
token, and can never be granted (`Powerless`). The last is needed because the timer does
fire without a session (section 6), and `OneAttempt` and `StoredIsTheSession` survive
only because such a request can neither succeed nor be refused as `invalid_grant`.
`NoResurrection` follows from the same invariant.

The argument about the scheduler. `TimersFollowSchedule` is inductive once a timer is
known to be no later than the window, which only moves on (`WithinWindow`): then a
rebuild from a schedule that still has the event arms it again unless it is due, and
`RemindersOutliveFailures` follows from the same pair. `ScheduleNotOlderThanAck` needs
that schedules and requests are only held for enabled calendars (`OnlyEnabled`), so that
an edit's `refreshCalendar`, which does nothing for a calendar it does not know, has
nothing to drop there; that known calendars mean a session (`KnownInSession`), so that
the refetch does supersede the older request; and that an edit is in the server's
version before it is acknowledged (`EditsBehind`).

The argument about the abstract cache. `ConfirmedAboveFloor` is inductive for one bucket
at a time, with the types and the floor not above the server's version: a bucket that is
asked for keeps its events, or takes a file's without confirming them, and only an
answer confirms, at a version from the floor up.

The argument that the store implements the cache. The currency invariants give the
floor: an acceptable reply is no older than it. `HeldInv` adds what the mapping needs
besides: no data is newer than the server's, a bucket not loaded holds nothing, and an
acceptable reply is not older than what its bucket shows. Then each action of the store
maps to one of the cache, bucket by bucket: a fetch or a hydration to `Ask` (`Asked`),
the two slots to `Answered` and `Refused`, an acknowledged edit to `Invalidate` with the
reload after it, a sign-out or a restart to `DropAll`; everything on the wire and in the
queue is a stutter. `ViewsUseTheCache` is the other half: `EventViews` steps the cache
only through those operations, so its theorems hold over the store.

The argument about the views. Every step that asks for buckets has one form (`Asking`):
some buckets are asked for, a few views paint again and then look for the end of their
cycle. `ViewsInv` adds to the types that a bucket not loaded holds nothing and that
versions keep to their bound (`BoundedInv`). A painted calendar of a view can only go
out of step with a bucket that changes; the bucket changes by an answer, which is
delivered to all views with its month in range, or by being asked for, which leaves it
unconfirmed. `CycleReported` is proved along with it (`PaintingInv`): a step that can
settle a range is among those after which that view looks for the end of its cycle.

The argument about the window. `SameSelection` is inductive with `TypeOK`: a toggle and
a rollback write the list, the sidebar and what each controller was given alike, and a
view that is not populated gets the list's selection when it is. `NothingAfterSignOut`
needs `LeftInv`, that whoever left is still gone: then the slot that takes a late list
sees nobody signed in and drops it.

The argument about editing. `EditingInv` has three parts. `SelectionInv` says of an open
confirmation that the selection is the event asked about or went away. `CallsInv` says
that ids tell requests apart and lie below their counters, so that a new id is nobody's;
that the dialog has at most one request; and that a request has been applied exactly
when it is past that stage, so that a 401, which comes before it, never repeats an
application. The four properties are read off it.

The argument about pages. A recursive function (`FirstOf`) exists and is what it says
because the least month at which it fails cannot be (`Least`, from the well-foundedness
of the naturals); the same device serves wherever one would use induction.
`EveryBucketHasTheWholePage` follows from the alignment of `rangeStart`: a week that
meets a month lies in the six weeks of its grid, as both begin on the same day of the
week.

The argument about the dialog. `DialogInv` links an open form to the event it was opened
on (`OpenOk`): the reminder it began with and the mails it keeps are that event's, the
start date it remembers is the one it shows, the OK flag is what `updateOkEnabled`
computes of the fields as they are, and with no edits the form is as it was seeded.
The properties are then facts about the functions alone, for any division of the day:
`SavedFields` says of each event a save may leave that it is as asked or, when the type
was to change, where it was, and what its reminders are; `ShownIsSaved`,
`RemindersAreKept` and `UntouchedIsSame` (the set is the event itself) follow.

The argument about the layout. Any finite set has a sequence in a given order
(`SortExists`: the last element, then the rest), so `Sorted` is one, by start. A pill
shares its cluster with every later one that starts before its end (`SameCluster`). In
the cluster, a pill's column is free of those it meets, and each lower column is taken
by one it meets (`ColumnIs`): so at the start of the pill in the highest column, all
columns below it are taken (`BusiestMoment`), and `Cardinality` of the pills there is
the number of columns, since pills that share a moment have different ones. The proof
says of the greedy assignment what TLC checks on three events.

Only model-checked: the liveness properties (`Settles`, the two `Converges`,
`AttemptsEnd`, `WaitersAnswered`, `SilentRecovery`, `ScreenConverges`, `OfflineEnds`,
`OwnListShown`, `NothingStuck`), which are out of the prover's reach. Every invariant,
action property and refinement a passing run checks is also a theorem.

## 6. Where the sources say otherwise

Two runs are expected to end in a counterexample.

* `reminder_missed`. `rebuildTimers` deletes every timer and plans again, and
  the plan leaves out what is already due. If the event loop runs a reply, a
  toggle or an edit after a reminder came due and before its timer's slot, the
  reminder is dropped although the program was running, which the header only
  says of reminders missed while it was closed.
* `window_late`. The slot of `calendarListFetched` drops a list only when nobody is
  signed in ("a late reply arrived after sign-out"). A list requested in one session and
  answered after the next sign-in is shown, and written to the new account's
  directory, until that account's own list arrives.

Other behaviour of the code that the models have and a reader may not expect:

* When a forced refresh is refused with `invalid_grant`, the state changes to
  `SignedOut` and the token is cleared, but the proactive timer stays armed: its slot sends
  a refresh with an empty token, which Google refuses, until the next sign-in.
  `signedOut` is not emitted either, so the calendars and buckets of the account stay
  until a list of the next session replaces them (`OwnListShown`), and the
  scheduler's older requests stay acceptable: an edit acknowledged after that does
  not supersede them.
* A restore that the network blocked, retried, and refused by the user at the
  keychain prompt keeps `NetworkUnavailable` as its reason, so it is retried.
* A restore without client credentials reports `SessionExpired` though the token was
  never sent.
* A calendar list that fails while offline is asked for again by the reconnect
  timer; the first bucket that succeeds stops that timer. The list is then only asked for
  by the user's Refresh or the next sign-in.
* The rollback of a failed calendar change sets the flag back whatever the user
  did with it since. The window stays of one mind (`SameSelection`), the server may not.
* A deletion confirmed after the event went away under the message box is sent without an
  event id (`DeletesOnlyConfirmed` allows none, never another).
* A timed event without a duration is listed in the month view and has no pill in
  the others. A timed event that ends at midnight shows the next day as its end
  date, so making it all-day adds that day.
* A keychain removal that fails is ignored, and one still queued when the process
  ends is lost: the next start restores the session that was signed out.
* A sign-in cancelled while offline sets `SignInFailed`, which stops the silent
  restore (`SilentRecovery` ends there).
* A calendar list computed before a toggle reached the server, and arriving after it,
  undoes the toggle until the next list.
* A mutation drops the calendar's reminders; if the refetch fails they stay off until
  the next cycle. A reminder set elsewhere to more than the 36-hour window is
  never armed.
* `prune` only looks at the current account's directory, and a rotated refresh token
  changes the account key: directories of older keys stay.
* The reply of a create may be lost, and OK in the dialog again creates the event
  twice: each OK is a request of its own.
* In the hour that a change of the clocks repeats, opening and saving an event may
  move it. This is not modelled.
* An update that makes an all-day event timed, or the reverse, relies on how the server
  merges the new `dateTime` or `date` with the old field, which the body does not clear;
  `Event::listFromJson` reads `date` first when it finds both. The dialog closes as saved
  either way. The model allows both ends; `DatesAsShown` speaks of the other updates.
* The dialog manages one popup reminder. Changing it, or switching it off, removes every
  further popup of the event and its defaults; mails stay (`RemindersKept`). An edit that leaves it alone
  keeps them all.
* A pill has a minimum height, so short events that follow each other may overlap in
  pixels; `PillsTellTheDay` is about the time they take.

## 7. Not modelled, and why

Painting, scrolling, mouse geometry, the desktop integration and the parsing of
Google's JSON are I/O or layout: tests and eyes reach them better. PKCE and the state
parameter of OAuth are pure functions of random bytes. The format of cache files, and
the age and count limits of `prune` beyond "files may be gone after a restart", have no
property. `GoogleCalendarApi` is modelled as its users see it: the pages of an answer
are one snapshot, and too many pages are a failure. Changes of the clocks and of the time zone are
left out: instants are local slots. The description of an event and the calendar a
dialog saves to are not told apart.

## 8. The plan

1. Done: all the models, their runs, and a theorem for every invariant, action
   property and refinement that the passing runs check.
2. Next: the safety steps the liveness properties rest on, as theorems (a request that is
   waited for is on its way; a step towards the end stays enabled until it is taken), and what the running
   maximum of `relayoutEvents` has to do with `Begins`, which states its effect.
3. Not planned: the liveness properties themselves.
