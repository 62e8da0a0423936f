---------------------------- MODULE MonthEventStore ----------------------------
(***************************************************************************)
(* The shared month-granularity event cache (calendar/montheventstore.cpp) *)
(* between GoogleCalendarApi and the month, week and day views, with the   *)
(* on-disk cache it hydrates from (calendar/eventcachestore.cpp) and the   *)
(* requests it has on the wire.                                            *)
(*                                                                         *)
(* A bucket is one (month, calendar) pair.  What a bucket holds is         *)
(* abstracted to the version of the calendar the server answered with and  *)
(* whether that answer listed no event at all, which is all the code looks *)
(* at.  version[c] counts the edits the server has applied to calendar c,  *)
(* by this client or another one.                                          *)
(***************************************************************************)
EXTENDS Naturals

CONSTANTS
  Month,          \* month keys, normalised to the first of the month
  Calendar,       \* calendar ids
  RequestId,      \* ids GoogleCalendarApi::fetchEvents can hand out
  ViewRange,      \* the sets of months a view asks for: one, or two neighbours
  OnScreen,       \* the range of the view the periodic poll refreshes
  MaxVersion,     \* bound: edits of a calendar
  RemoveCanFail,  \* whether deleting a cache file may fail (its result is ignored)
  NoRequest,      \* requestId 0
  NoBucket,       \* "not in m_bucketByRequestId"
  NoFile          \* "no such cache file"

Key == Month \X Calendar

Snapshot == [version : Nat, empty : BOOLEAN]
NoEvents == [version |-> 0, empty |-> TRUE]

ASSUME ConstantsAssumption ==
  /\ ViewRange \subseteq SUBSET Month
  /\ OnScreen \in ViewRange
  /\ MaxVersion \in Nat
  /\ RemoveCanFail \in BOOLEAN
  /\ NoRequest \notin RequestId
  /\ NoBucket \notin Key
  /\ NoFile \notin Snapshot

VARIABLES
  bucket,            \* m_buckets; a pair not in the hash is EmptyBucket
  bucketByRequestId, \* m_bucketByRequestId
  wire,              \* fetches the server has not answered yet
  posted,            \* results queued to the store (Qt::QueuedConnection)
  disk,              \* this account's cache files
  version,           \* edits the server applied to each calendar
  unacked,           \* this client's edits whose reply is still on its way
  acked,             \* last edit of each calendar this client saw succeed
  sessionStart       \* version of each calendar when the store was last emptied

vars == <<bucket, bucketByRequestId, wire, posted, disk,
          version, unacked, acked, sessionStart>>
serverVars == <<version, unacked, acked, sessionStart>>

Bucket ==
  [state : {"NotLoaded", "InFlight", "Loaded", "Failed"},
   events : Snapshot,
   fetchedAt : {"never", "recent", "expired"},
   requestId : RequestId \cup {NoRequest},
   fromDiskPendingRefresh : BOOLEAN]

Fetch == [id : RequestId, calendar : Calendar]
Result == [id : RequestId, calendar : Calendar, ok : BOOLEAN, events : Snapshot]
Edit == [calendar : Calendar, version : Nat]

TypeOK ==
  /\ bucket \in [Key -> Bucket]
  /\ bucketByRequestId \in [RequestId -> Key \cup {NoBucket}]
  /\ wire \in SUBSET Fetch
  /\ posted \in SUBSET Result
  /\ disk \in [Key -> Snapshot \cup {NoFile}]
  /\ version \in [Calendar -> Nat]
  /\ unacked \in SUBSET Edit
  /\ acked \in [Calendar -> Nat]
  /\ sessionStart \in [Calendar -> Nat]

EmptyBucket ==
  [state |-> "NotLoaded", events |-> NoEvents, fetchedAt |-> "never",
   requestId |-> NoRequest, fromDiskPendingRefresh |-> FALSE]

Init ==
  /\ bucket = [k \in Key |-> EmptyBucket]
  /\ bucketByRequestId = [r \in RequestId |-> NoBucket]
  /\ wire = {}
  /\ posted = {}
  /\ disk = [k \in Key |-> NoFile]
  /\ version = [c \in Calendar |-> 0]
  /\ unacked = {}
  /\ acked = [c \in Calendar |-> 0]
  /\ sessionStart = [c \in Calendar |-> 0]

-----------------------------------------------------------------------------
(* Fetching.                                                               *)

BucketFresh(b) == b.state = "Loaded" /\ b.fetchedAt = "recent"

BucketNeedsFetch(b) ==
  /\ b.state # "InFlight"
  /\ b.fromDiskPendingRefresh \/ ~BucketFresh(b)

(* Mutant of Hydrated: a file's content counts as the server's.            *)
HydratedAsConfirmed(b, d, keys) ==
  [k \in Key |->
     IF k \in keys /\ b[k].state = "NotLoaded" /\ d[k] # NoFile
     THEN [b[k] EXCEPT !.state = "Loaded",
                       !.events = d[k],
                       !.fetchedAt = "recent"]
     ELSE b[k]]

(* tryHydrateFromDisk for the NotLoaded buckets among keys.  The file's    *)
(* age is its mtime; "recent" here, and Age makes it "expired".            *)
Hydrated(b, d, keys) ==
  [k \in Key |->
     IF k \in keys /\ b[k].state = "NotLoaded" /\ d[k] # NoFile
     THEN [b[k] EXCEPT !.state = "Loaded",
                       !.events = d[k],
                       !.fetchedAt = "recent",
                       !.fromDiskPendingRefresh = TRUE]
     ELSE b[k]]

(* m_nextFetchRequestId++ never repeats an id, so a new id is one nothing  *)
(* refers to any more; ids are otherwise only compared for equality.       *)
IdsInUse ==
  {r \in RequestId : bucketByRequestId[r] # NoBucket}
    \cup {f.id : f \in wire} \cup {p.id : p \in posted}

NewIds(keys) ==
  {ids \in [keys -> RequestId \ IdsInUse] :
     \A j, k \in keys : ids[j] = ids[k] => j = k}

(* The bucket's previous id, if any, is forgotten: its reply is ignored.   *)
Superseded(b, keys, index) ==
  [r \in RequestId |->
     IF \E k \in keys : b[k].requestId = r THEN NoBucket ELSE index[r]]

(* fetchBucket for every pair of keys, on buckets b and index.  An InFlight *)
(* bucket keeps showing the events it has.                                  *)
FetchBuckets(b, index, keys) ==
  \E ids \in NewIds(keys) :
    /\ bucket' =
         [k \in Key |->
            IF k \in keys
            THEN [b[k] EXCEPT !.state = "InFlight", !.requestId = ids[k]]
            ELSE b[k]]
    /\ bucketByRequestId' =
         [r \in RequestId |->
            IF \E k \in keys : ids[k] = r
            THEN CHOOSE k \in keys : ids[k] = r
            ELSE Superseded(b, keys, index)[r]]
    /\ wire' = wire \cup {[id |-> ids[k], calendar |-> k[2]] : k \in keys}

EnsureBuckets(b, index, d, keys) ==
  LET shown == Hydrated(b, d, keys)
  IN  FetchBuckets(shown, index, {k \in keys : BucketNeedsFetch(shown[k])})

(* Navigation, a view switch, a calendar toggled on, a new calendar list.  *)
EnsureMonths(months, calendars) ==
  /\ EnsureBuckets(bucket, bucketByRequestId, disk, months \X calendars)
  /\ UNCHANGED <<posted, disk, serverVars>>

(* Mutant of RefreshVisible: keeps the freshness gate of ensureMonths.     *)
RefreshVisibleUnlessFresh(months, calendars) ==
  LET keys == months \X calendars
      shown == Hydrated(bucket, disk, keys)
  IN  /\ FetchBuckets(shown, bucketByRequestId, {k \in keys : BucketNeedsFetch(shown[k])})
      /\ UNCHANGED <<posted, disk, serverVars>>

(* The ten-minute poll and Actions -> Refresh: no freshness gate.          *)
RefreshVisible(months, calendars) ==
  LET keys == months \X calendars
      shown == Hydrated(bucket, disk, keys)
  IN  /\ FetchBuckets(shown, bucketByRequestId,
                      {k \in keys : shown[k].state # "InFlight"})
      /\ UNCHANGED <<posted, disk, serverVars>>

(* The freshness TTL (kBucketFreshnessMs) runs out.                        *)
Age(k) ==
  /\ bucket[k].fetchedAt = "recent"
  /\ bucket' = [bucket EXCEPT ![k].fetchedAt = "expired"]
  /\ UNCHANGED <<bucketByRequestId, wire, posted, disk, serverVars>>

-----------------------------------------------------------------------------
(* Replies.  Every fetch is answered, failed or timed out; the result is   *)
(* queued, and other calls may run before the store's slot does.           *)

ServerAnswers(f) ==
  /\ f \in wire
  /\ wire' = wire \ {f}
  /\ \E none \in BOOLEAN :
       posted' = posted \cup
         {[id |-> f.id, calendar |-> f.calendar, ok |-> TRUE,
           events |-> [version |-> version[f.calendar], empty |-> none]]}
  /\ UNCHANGED <<bucket, bucketByRequestId, disk, serverVars>>

FetchFails(f) ==
  /\ f \in wire
  /\ wire' = wire \ {f}
  /\ posted' = posted \cup
       {[id |-> f.id, calendar |-> f.calendar, ok |-> FALSE, events |-> NoEvents]}
  /\ UNCHANGED <<bucket, bucketByRequestId, disk, serverVars>>

(* A reply whose id is not in the index any more changes nothing.          *)
DropResult(p) ==
  /\ p \in posted
  /\ bucketByRequestId[p.id] = NoBucket
  /\ posted' = posted \ {p}
  /\ UNCHANGED <<bucket, bucketByRequestId, wire, disk, serverVars>>

(* EventCacheStore::storeBucket: the write may fail, which leaves the old  *)
(* file in place (QSaveFile).                                              *)
StoreBucket(k, events) == disk' \in {disk, [disk EXCEPT ![k] = events]}

OnEventsFetched(p) ==
  /\ p \in posted /\ p.ok
  /\ bucketByRequestId[p.id] # NoBucket
  /\ LET k == <<bucketByRequestId[p.id][1], p.calendar>>
     IN  /\ bucket' = [bucket EXCEPT ![k] =
                         [state |-> "Loaded", events |-> p.events,
                          fetchedAt |-> "recent", requestId |-> NoRequest,
                          fromDiskPendingRefresh |-> FALSE]]
         /\ StoreBucket(k, p.events)
  /\ bucketByRequestId' = [bucketByRequestId EXCEPT ![p.id] = NoBucket]
  /\ posted' = posted \ {p}
  /\ UNCHANGED <<wire, serverVars>>

(* Mutants of AfterFailure: the request id is not reset; the events are    *)
(* blanked; the bucket is left in flight.                                  *)
AfterFailureSameRequest(b) ==
  IF b.events.empty
  THEN [b EXCEPT !.state = "Failed", !.fetchedAt = "never"]
  ELSE [b EXCEPT !.state = "Loaded", !.fromDiskPendingRefresh = TRUE]

AfterFailureBlank(b) ==
  [b EXCEPT !.requestId = NoRequest, !.state = "Failed", !.fetchedAt = "never",
            !.events = NoEvents]

AfterFailureStillInFlight(b) == [b EXCEPT !.fromDiskPendingRefresh = TRUE]

(* What a failed fetch leaves: the events shown so far, marked for another *)
(* try, or Failed when there is nothing to show.                           *)
AfterFailure(b) ==
  IF b.events.empty
  THEN [b EXCEPT !.requestId = NoRequest, !.state = "Failed", !.fetchedAt = "never"]
  ELSE [b EXCEPT !.requestId = NoRequest, !.state = "Loaded",
                 !.fromDiskPendingRefresh = TRUE]

OnEventsFetchFailed(p) ==
  /\ p \in posted /\ ~p.ok
  /\ bucketByRequestId[p.id] # NoBucket
  /\ LET k == <<bucketByRequestId[p.id][1], p.calendar>>
     IN  bucket' = [bucket EXCEPT ![k] = AfterFailure(bucket[k])]
  /\ bucketByRequestId' = [bucketByRequestId EXCEPT ![p.id] = NoBucket]
  /\ posted' = posted \ {p}
  /\ UNCHANGED <<wire, disk, serverVars>>

-----------------------------------------------------------------------------
(* Edits and invalidation.                                                 *)

BucketsWithout(gone) ==
  [k \in Key |-> IF k \in gone THEN EmptyBucket ELSE bucket[k]]

(* Mutant of IndexWithout: a reply on its way is still accepted.           *)
IndexKept(gone) == bucketByRequestId

IndexWithout(gone) ==
  [r \in RequestId |->
     IF \E k \in gone : bucket[k].requestId = r
     THEN NoBucket ELSE bucketByRequestId[r]]

FilesWithout(gone) == [k \in Key |-> IF k \in gone THEN NoFile ELSE disk[k]]

(* EventCacheStore::removeCalendar, file by file.                          *)
FilesAfterRemoving(gone) ==
  IF RemoveCanFail THEN {FilesWithout(removed) : removed \in SUBSET gone}
                   ELSE {FilesWithout(gone)}

(* Bound: edits stop once a calendar has had MaxVersion of them.           *)
EditsLeft == \A c \in Calendar : version[c] < MaxVersion

(* The server applies a create, update or delete this client sent.         *)
ApplyLocalEdit(c) ==
  /\ EditsLeft
  /\ version' = [version EXCEPT ![c] = @ + 1]
  /\ unacked' = unacked \cup {[calendar |-> c, version |-> version[c] + 1]}
  /\ UNCHANGED <<bucket, bucketByRequestId, wire, posted, disk, acked, sessionStart>>

(* Another client (the web UI) edits the calendar.                         *)
ApplyRemoteEdit(c) ==
  /\ EditsLeft
  /\ version' = [version EXCEPT ![c] = @ + 1]
  /\ UNCHANGED <<bucket, bucketByRequestId, wire, posted, disk,
                 unacked, acked, sessionStart>>

(* reloadCalendarAfterMutation: invalidateCalendar, then every populated   *)
(* controller re-ensures the months it shows (none after a sign-out).      *)
MutationAcked(e, months) ==
  /\ e \in unacked
  /\ LET gone == {k \in Key : k[2] = e.calendar}
     IN  \E d \in FilesAfterRemoving(gone) :
           /\ disk' = d
           /\ EnsureBuckets(BucketsWithout(gone), IndexWithout(gone), d,
                            months \X {e.calendar})
  /\ unacked' = unacked \ {e}
  /\ acked' = [acked EXCEPT ![e.calendar] = IF @ < e.version THEN e.version ELSE @]
  /\ UNCHANGED <<posted, version, sessionStart>>

(* The edit was applied but its reply failed: nothing is invalidated.      *)
MutationReplyLost(e) ==
  /\ e \in unacked
  /\ unacked' = unacked \ {e}
  /\ UNCHANGED <<bucket, bucketByRequestId, wire, posted, disk,
                 version, acked, sessionStart>>

(* Explicit sign-out: invalidateAll(alsoDisk = true).  A file that could   *)
(* not be removed stays in a directory the next sign-in, with a new        *)
(* refresh token and hence a new account key, does not read.  Requests on  *)
(* the wire are not aborted.                                               *)
SignOut ==
  /\ bucket' = [k \in Key |-> EmptyBucket]
  /\ bucketByRequestId' = [r \in RequestId |-> NoBucket]
  /\ disk' = [k \in Key |-> NoFile]
  /\ sessionStart' = version
  /\ UNCHANGED <<wire, posted, version, unacked, acked>>

(* Signing in again after the session expired, which is no signedOut():    *)
(* nothing is invalidated, and the new account key's directory is empty.   *)
SignInAgain ==
  /\ disk' = [k \in Key |-> NoFile]
  /\ UNCHANGED <<bucket, bucketByRequestId, wire, posted, serverVars>>

(* The process exits (or crashes) and starts again with the same account:  *)
(* only the files survive, and EventCacheStore::prune may drop old ones.   *)
Restart ==
  /\ bucket' = [k \in Key |-> EmptyBucket]
  /\ bucketByRequestId' = [r \in RequestId |-> NoBucket]
  /\ wire' = {}
  /\ posted' = {}
  /\ disk' \in {FilesWithout(pruned) : pruned \in SUBSET Key}
  /\ unacked' = {}
  /\ sessionStart' = version
  /\ UNCHANGED <<version, acked>>

-----------------------------------------------------------------------------
Calls ==
  \E months \in ViewRange, calendars \in SUBSET Calendar \ {{}} :
    EnsureMonths(months, calendars) \/ RefreshVisible(months, calendars)

Replies ==
  \/ \E f \in wire : ServerAnswers(f) \/ FetchFails(f)
  \/ \E p \in posted : OnEventsFetched(p) \/ OnEventsFetchFailed(p) \/ DropResult(p)

Edits ==
  \/ \E c \in Calendar : ApplyLocalEdit(c) \/ ApplyRemoteEdit(c)
  \/ \E e \in unacked :
       \/ \E months \in SUBSET Month : MutationAcked(e, months)
       \/ MutationReplyLost(e)

Next ==
  \/ Calls
  \/ Replies
  \/ Edits
  \/ \E k \in Key : Age(k)
  \/ SignOut
  \/ SignInAgain
  \/ Restart

Spec == Init /\ [][Next]_vars

(* GoogleCalendarApi gives every request a transfer timeout and caps the   *)
(* pages, so each fetch ends; Qt delivers queued signals.                  *)
FetchEnds(r) == \E f \in wire : f.id = r /\ (ServerAnswers(f) \/ FetchFails(f))

ResultDelivered(r) ==
  \E p \in posted :
    p.id = r /\ (OnEventsFetched(p) \/ OnEventsFetchFailed(p) \/ DropResult(p))

LiveSpec ==
  /\ Spec
  /\ \A r \in RequestId : WF_vars(FetchEnds(r)) /\ WF_vars(ResultDelivered(r))

(* The view on screen is polled for as long as the program runs, and a     *)
(* bucket that is fetched again and again is answered in the end.          *)
BucketAnswered(k) == \E f \in wire : f.id = bucket[k].requestId /\ ServerAnswers(f)

PolledSpec ==
  /\ LiveSpec
  /\ WF_vars(RefreshVisible(OnScreen, Calendar))
  /\ \A k \in Key : SF_vars(BucketAnswered(k))

-----------------------------------------------------------------------------
(* Properties.                                                             *)

(* The request index and the buckets agree: a bucket is InFlight exactly   *)
(* when it has a request id, the index maps that id back to it and to no   *)
(* other bucket, and the answer is still to come, so it can neither be     *)
(* lost nor land in another bucket (fetchBucket, onEventsFetched,          *)
(* onEventsFetchFailed, invalidateCalendar, invalidateAll).                *)
BucketIndexed(k) ==
  LET b == bucket[k]
  IN  /\ b.state = "InFlight" <=> b.requestId # NoRequest
      /\ b.requestId # NoRequest => bucketByRequestId[b.requestId] = k

RequestIndexed(r) ==
  bucketByRequestId[r] # NoBucket =>
    /\ bucket[bucketByRequestId[r]].requestId = r
    /\ \/ [id |-> r, calendar |-> bucketByRequestId[r][2]] \in wire
       \/ \E p \in posted : p.id = r /\ p.calendar = bucketByRequestId[r][2]

OneOutcomePerRequest ==
  /\ \A f, g \in wire : f.id = g.id => f = g
  /\ \A p, q \in posted : p.id = q.id => p = q
  /\ \A f \in wire, p \in posted : f.id # p.id

IndexConsistent ==
  /\ \A k \in Key : BucketIndexed(k)
  /\ \A r \in RequestId : RequestIndexed(r)
  /\ OneOutcomePerRequest

(* What a bucket shows as confirmed by the server is never older than the  *)
(* last edit this client saw succeed, nor than the start of the session:   *)
(* neither a reply that was on its way when the calendar was invalidated,  *)
(* nor a cache file from an earlier run, nor a file the invalidation could *)
(* not delete, is ever taken for current (onEventsFetched's index lookup,  *)
(* fromDiskPendingRefresh).                                                *)
Confirmed(k) ==
  bucket[k].fetchedAt # "never" /\ ~bucket[k].fromDiskPendingRefresh

NotBefore(c, v) == acked[c] <= v /\ sessionStart[c] <= v

ConfirmedIsCurrent ==
  \A k \in Key : Confirmed(k) => NotBefore(k[2], bucket[k].events.version)

(* While cache files can be deleted, data from before an edit this client  *)
(* saw succeed is gone for good: it is in no bucket, in no cache file, and *)
(* in no queued reply the store would still accept (invalidateCalendar).   *)
NothingOlderThanAck ==
  RemoveCanFail \/
    /\ \A k \in Key :
         /\ bucket[k].fetchedAt # "never" => acked[k[2]] <= bucket[k].events.version
         /\ disk[k] # NoFile => acked[k[2]] <= disk[k].version
    /\ \A p \in posted :
         p.ok /\ bucketByRequestId[p.id] # NoBucket => acked[p.calendar] <= p.events.version

(* A bucket in flight does not stay so: it is loaded, failed or dropped,   *)
(* so monthsSettled() becomes true and the views' fetch cycle can end.     *)
Settles ==
  \A k \in Key : bucket[k].state = "InFlight" ~> bucket[k].state # "InFlight"

(* Once edits stop and the program keeps running signed in, the view on    *)
(* screen ends up showing what the server has, edits made elsewhere and    *)
(* edits whose reply was lost included (the periodic refresh).             *)
Converges ==
  <>[][~(SignOut \/ Restart)]_vars =>
    \A k \in OnScreen \X Calendar :
      LET current == bucket[k].events.version = version[k[2]]
      IN  /\ <>[](bucket[k].fetchedAt = "never" \/ current)
          /\ []<>(bucket[k].fetchedAt # "never" /\ current)

-----------------------------------------------------------------------------
(* Refinement.  The store implements the cache the controllers see: the    *)
(* request ids, the index, the freshness clock, the queue of replies and   *)
(* the files are hidden.                                                   *)
Newest(c) == IF acked[c] < sessionStart[c] THEN sessionStart[c] ELSE acked[c]

Cache == INSTANCE BucketCache WITH
  cached <- [k \in Key |-> [state |-> bucket[k].state,
                            events |-> bucket[k].events,
                            confirmed |-> Confirmed(k)]],
  floor <- [c \in Calendar |-> Newest(c)],
  latest <- version

(* Whatever the order of calls, replies, edits and failures, the store     *)
(* behaves as the buckets of BucketCache: an answer enters a bucket only   *)
(* while it is asked for and only if it is no older than the last edit     *)
(* acknowledged, a failure keeps what was there, and nothing else changes  *)
(* a bucket.                                                               *)
ImplementsBucketCache == Cache!CacheSpec
=============================================================================
