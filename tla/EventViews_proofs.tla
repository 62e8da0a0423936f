--------------------------- MODULE EventViews_proofs ---------------------------
(***************************************************************************)
(* Proofs about EventViews: the controllers use the cache only through the *)
(* operations of BucketCache, what a view paints is what the cache holds,  *)
(* the end of a fetch cycle is always reported, and saving or polling      *)
(* never blanks the screen, for any views, ranges, months and calendars.   *)
(* First, what BucketCache promises them: a confirmed bucket is never      *)
(* older than its calendar's floor nor newer than the server.              *)
(***************************************************************************)
EXTENDS EventViews, TLAPS

-----------------------------------------------------------------------------
(* The abstract cache: its types and ConfirmedAboveFloor are inductive     *)
(* together.                                                               *)

CacheInv == CacheTypeOK /\ ConfirmedAboveFloor

Bucket == [state : State, events : [version : Nat, empty : BOOLEAN], confirmed : BOOLEAN]

(* A bucket whose events lie between a floor, if confirmed, and n.         *)
Within(b, low, n) ==
  /\ b \in Bucket
  /\ b.events.version <= n
  /\ b.confirmed => low <= b.events.version

(* The invariant, one bucket at a time.                                    *)
LEMMA InvByBucket ==
  CacheInv <=>
    /\ floor \in [Calendar -> Nat]
    /\ latest \in [Calendar -> Nat]
    /\ cached \in [Key -> Bucket]
    /\ \A k \in Key : Within(cached[k], floor[k[2]], latest[k[2]])
  BY DEF CacheInv, CacheTypeOK, ConfirmedAboveFloor, Within, Bucket

(* A dropped bucket holds nothing that any floor could exclude.            *)
LEMMA UnloadedWithin ==
  ASSUME NEW low \in Nat, NEW n \in Nat
  PROVE  Within(Unloaded, low, n)
  BY DEF Unloaded, NoEvents, Within, Bucket, State

(* Asking for a bucket confirms nothing and brings nothing newer than the  *)
(* server (MonthEventStore::ensureMonths, refreshVisible, a cache file).   *)
LEMMA AskedWithin ==
  ASSUME NEW b, NEW low \in Nat, NEW n \in Nat, Within(b, low, n),
         NEW a \in Asked(b, n)
  PROVE  Within(a, low, n)
<1>1. Within(InFlight(b), low, n)
  BY DEF InFlight, Within, Bucket, State
<1>2. ASSUME NEW f \in FromFile(n) PROVE Within(f, low, n)
  <2>1. PICK s \in Snapshot(n) : f = [state |-> "InFlight", events |-> s, confirmed |-> FALSE]
    BY <1>2 DEF FromFile
  <2>2. s \in [version : Nat, empty : BOOLEAN] /\ s.version <= n
    BY DEF Snapshot
  <2> QED
    BY <2>1, <2>2 DEF Within, Bucket, State
<1> QED
  BY <1>1, <1>2 DEF Asked

-----------------------------------------------------------------------------
(* Each operation keeps the invariant.                                     *)
LEMMA StepKeepsInv ==
  ASSUME CacheInv, [CacheNext]_cacheVars
  PROVE  CacheInv'
<1> DEFINE Fine(k) == Within(cached[k], floor[k[2]], latest[k[2]])
<1>1. /\ floor \in [Calendar -> Nat]
      /\ latest \in [Calendar -> Nat]
      /\ cached \in [Key -> Bucket]
      /\ \A k \in Key : Fine(k)
  BY InvByBucket
<1>2. \A k \in Key : k[2] \in Calendar
  BY DEF Key
<1>3. SUFFICES /\ floor' \in [Calendar -> Nat]
               /\ latest' \in [Calendar -> Nat]
               /\ cached' \in [Key -> Bucket]
               /\ \A k \in Key : Fine(k)'
  BY DEF CacheInv, CacheTypeOK, ConfirmedAboveFloor, Within, Bucket
<1>4. \A k \in Key : floor[k[2]] \in Nat /\ latest[k[2]] \in Nat
  BY <1>1, <1>2
<1>5. CASE UNCHANGED cacheVars
  BY <1>1, <1>5 DEF cacheVars
<1>6. CASE Ask
  <2>1. ASSUME NEW k \in Key PROVE Fine(k)'
    <3>1. cached'[k] = cached[k] \/ cached'[k] \in Asked(cached[k], latest[k[2]])
      BY <1>6 DEF Ask
    <3>2. Within(cached'[k], floor[k[2]], latest[k[2]])
      BY <1>1, <1>4, <3>1, AskedWithin
    <3> QED
      BY <1>6, <3>2 DEF Ask
  <2>2. cached' \in [Key -> Bucket]
    <3>1. \A k \in Key : cached'[k] \in Bucket
      BY <2>1 DEF Within
    <3>2. cached' = [k \in Key |-> cached'[k]]
      BY <1>6 DEF Ask
    <3> QED
      BY <3>1, <3>2
  <2> QED
    BY <1>1, <1>6, <2>1, <2>2 DEF Ask
<1>7. ASSUME NEW k \in Key, Answered(k) PROVE <1>3!1
  BY <1>1, <1>2, <1>4, <1>7 DEF Answered, Within, Bucket, State
<1>8. ASSUME NEW k \in Key, Refused(k) PROVE <1>3!1
  BY <1>1, <1>2, <1>4, <1>8 DEF Refused, Within, Bucket, State
<1>9. ASSUME NEW c \in Calendar, ServerEdit(c) PROVE <1>3!1
  <2>1. \A d \in Calendar : latest'[d] \in Nat /\ latest[d] <= latest'[d]
    BY <1>1, <1>9 DEF ServerEdit
  <2>2. latest' \in [Calendar -> Nat]
    BY <1>1, <1>9 DEF ServerEdit
  <2>3. ASSUME NEW k \in Key PROVE Fine(k)'
    BY <1>1, <1>2, <1>4, <1>9, <2>1 DEF ServerEdit, Within, Bucket
  <2> QED
    BY <1>1, <1>9, <2>2, <2>3 DEF ServerEdit
<1>10. ASSUME NEW c \in Calendar, Invalidate(c) PROVE <1>3!1
  <2>1. PICK v \in floor[c]..latest[c] : floor' = [floor EXCEPT ![c] = v]
    BY <1>10 DEF Invalidate
  <2>2. floor' \in [Calendar -> Nat] /\ floor'[c] \in Nat
    BY <1>1, <2>1
  <2>3. ASSUME NEW k \in Key PROVE Fine(k)'
    <3>1. CASE k[2] = c
      <4>1. cached'[k] = Unloaded \/ cached'[k] \in Asked(Unloaded, latest[c])
        BY <1>10, <3>1 DEF Invalidate
      <4>2. Within(cached'[k], floor'[c], latest[c])
        BY <1>1, <2>2, <4>1, UnloadedWithin, AskedWithin
      <4> QED
        BY <1>10, <3>1, <4>2 DEF Invalidate
    <3>2. CASE k[2] # c
      <4>1. cached'[k] = cached[k] /\ floor'[k[2]] = floor[k[2]]
        BY <1>1, <1>2, <1>10, <2>1, <3>2 DEF Invalidate
      <4> QED
        BY <1>1, <1>10, <4>1 DEF Invalidate
    <3> QED
      BY <3>1, <3>2
  <2>4. cached' \in [Key -> Bucket]
    <3>1. \A k \in Key : cached'[k] \in Bucket
      BY <2>3 DEF Within
    <3>2. cached' = [k \in Key |-> cached'[k]]
      BY <1>10 DEF Invalidate
    <3> QED
      BY <3>1, <3>2
  <2> QED
    BY <1>1, <1>10, <2>2, <2>3, <2>4 DEF Invalidate
<1>11. CASE DropAll
  <2>1. cached' = [k \in Key |-> Unloaded] /\ floor' = latest /\ latest' = latest
    BY <1>11 DEF DropAll
  <2>2. Unloaded \in Bucket
    BY DEF Unloaded, NoEvents, Bucket, State
  <2>3. ASSUME NEW k \in Key PROVE Fine(k)'
    BY <1>4, <2>1, UnloadedWithin
  <2> QED
    BY <1>1, <2>1, <2>2, <2>3
<1> QED
  BY <1>5, <1>6, <1>7, <1>8, <1>9, <1>10, <1>11 DEF CacheNext

-----------------------------------------------------------------------------
(* A confirmed bucket's events are never older than what was accepted for  *)
(* its calendar when it was last invalidated or dropped, and none is newer *)
(* than the server: what the views may paint from                          *)
(* (calendar/montheventstore.h).                                           *)
THEOREM ConfirmedAlwaysAboveFloor == CacheSpec => [](CacheTypeOK /\ ConfirmedAboveFloor)
<1>1. CacheInit => CacheInv
  BY DEF CacheInit, CacheInv, CacheTypeOK, ConfirmedAboveFloor, Unloaded, NoEvents, State, Key
<1>2. CacheInv /\ [CacheNext]_cacheVars => CacheInv'
  BY StepKeepsInv
<1>3. CacheInv => CacheTypeOK /\ ConfirmedAboveFloor
  BY DEF CacheInv
<1> QED
  BY <1>1, <1>2, <1>3, PTL DEF CacheSpec

-----------------------------------------------------------------------------
(* The inductive invariant: the cache's own, its bound, that a bucket not  *)
(* loaded holds nothing, and the types of what the views keep.             *)

ViewsTypeInv ==
  /\ signedIn \in BOOLEAN
  /\ range \in [View -> SUBSET Month]
  /\ \A v \in View : range[v] \in RangesOf[v]
  /\ known \in [View -> SUBSET Calendar]
  /\ enabled \in [View -> SUBSET Calendar]
  /\ \A v \in View : enabled[v] \subseteq known[v]
  /\ painted \in [View -> [Calendar -> Picture]]
  /\ owed \in [View -> BOOLEAN]

BoundedInv ==
  /\ \A c \in Calendar : latest[c] <= MaxVersion
  /\ \A k \in Key : cached[k].state = "NotLoaded" => cached[k] = Unloaded

ViewsInv == CacheInv /\ BoundedInv /\ ViewsTypeInv

LEMMA ViewsInvImpliesType == ViewsInv => TypeOK
BY DEF ViewsInv, CacheInv, ViewsTypeInv, TypeOK

LEMMA CachedBuckets ==
  ASSUME ViewsInv
  PROVE  /\ cached \in [Key -> Bucket] /\ latest \in [Calendar -> Nat]
         /\ floor \in [Calendar -> Nat]
         /\ \A k \in Key : /\ k[1] \in Month /\ k[2] \in Calendar /\ latest[k[2]] \in Nat
                           /\ cached[k] \in Bucket
                           /\ cached[k].events.version <= latest[k[2]]
                           /\ cached[k].state = "NotLoaded" => cached[k] = Unloaded
BY DEF ViewsInv, CacheInv, CacheTypeOK, ConfirmedAboveFloor, BoundedInv, Bucket, Key

-----------------------------------------------------------------------------
(* Asking for buckets.                                                     *)

(* A bucket that keeps its range unsettled.                                *)
Unsettled(b) == b.state = "NotLoaded" \/ (b.state = "InFlight" /\ b.events.empty)

LEMMA SettledIs ==
  \A c, r, e : Settled(c, r, e) <=> \A k \in r \X e : ~Unsettled(c[k])
BY DEF Settled, Unsettled

(* What becomes of a bucket b asked for, or left alone, as a: a loaded one *)
(* stays, one not loaded stays empty, and one that comes to show something *)
(* got it from its file.                                                   *)
FileShown(b, a) == b.state = "NotLoaded" /\ a.events # NoEvents

AskStep(b, a) ==
  /\ a.state = "Loaded" => a = b
  /\ a.state = "NotLoaded" => a = Unloaded
  /\ FileShown(b, a) => ~a.events.empty
  /\ Unsettled(b) /\ ~Unsettled(a) => FileShown(b, a)

LEMMA UnloadedFields ==
  /\ Unloaded \in Bucket /\ Unloaded.state = "NotLoaded" /\ Unloaded.events = NoEvents
  /\ NoEvents.empty /\ NoEvents.version = 0
BY DEF Unloaded, Bucket, NoEvents, State

LEMMA InFlightFields ==
  ASSUME NEW b \in Bucket
  PROVE  /\ InFlight(b).state = "InFlight" /\ InFlight(b).events = b.events
BY DEF InFlight, Bucket

LEMMA ChoiceStep ==
  ASSUME NEW b \in Bucket, NEW n \in Nat, b.state = "NotLoaded" => b = Unloaded,
         NEW a, a = b \/ a \in Choices(b, n)
  PROVE  AskStep(b, a)
<1>1. CASE a = b
  BY <1>1, UnloadedFields DEF AskStep, FileShown
<1>2. CASE a \in Choices(b, n) /\ a # b
  <2>1. a \in Asked(b, n) /\ (~a.events.empty \/ a.events = b.events)
    BY <1>2 DEF Choices
  <2>2. a = InFlight(b) \/ (b.state = "NotLoaded" /\ a \in FromFile(n))
    BY <1>2, <2>1 DEF Asked, Bucket, State
  <2>3. a.state = "InFlight"
    BY <2>2, InFlightFields DEF FromFile
  <2>4. b.state = "NotLoaded" => a.events = NoEvents \/ ~a.events.empty
    BY <2>1, UnloadedFields
  <2>5. b.state # "NotLoaded" => a.events = b.events
    BY <2>2, InFlightFields
  <2> QED
    BY <2>3, <2>4, <2>5, UnloadedFields DEF AskStep, FileShown, Unsettled
<1> QED BY <1>1, <1>2

(* ensureMonths or refreshVisible for keys, over the buckets b.            *)
LEMMA AskForCases ==
  ASSUME NEW b, NEW keys \in SUBSET Key, AskFor(b, keys)
  PROVE  /\ cached' = [k \in Key |-> cached'[k]]
         /\ \A k \in Key : IF k \in keys THEN cached'[k] \in Choices(b[k], latest[k[2]])
                                        ELSE cached'[k] = b[k]
<1> DEFINE choices == [k \in keys |-> Choices(b[k], latest[k[2]])]
<1>1. PICK f \in [keys -> UNION {choices[k] : k \in keys}] :
        /\ \A k \in keys : f[k] \in choices[k]
        /\ cached' = [k \in Key |-> IF k \in keys THEN f[k] ELSE b[k]]
  BY DEF AskFor
<1> QED BY <1>1

LEMMA AskForSteps ==
  ASSUME ViewsInv, NEW b \in [Key -> Bucket], NEW keys \in SUBSET Key, AskFor(b, keys),
         \A k \in Key : b[k].state = "NotLoaded" => b[k] = Unloaded
  PROVE  /\ \A k \in Key : AskStep(b[k], cached'[k])
         /\ \A k \in Key \ keys : cached'[k] = b[k]
<1>1. ASSUME NEW k \in Key PROVE AskStep(b[k], cached'[k]) /\ (k \notin keys => cached'[k] = b[k])
  <2>1. latest[k[2]] \in Nat
    BY CachedBuckets
  <2>2. cached'[k] = b[k] \/ cached'[k] \in Choices(b[k], latest[k[2]])
    BY AskForCases
  <2> QED BY <2>1, <2>2, AskForCases, ChoiceStep
<1> QED BY <1>1

LEMMA AskForIsAsk ==
  ASSUME ViewsInv, NEW keys \in SUBSET Key, AskFor(cached, keys), UNCHANGED <<floor, latest>>
  PROVE  Ask
<1>1. ASSUME NEW k \in Key PROVE cached'[k] \in {cached[k]} \cup Asked(cached[k], latest[k[2]])
  BY AskForCases DEF Choices
<1> QED BY <1>1, AskForCases DEF Ask

-----------------------------------------------------------------------------
(* The controllers use the cache only through its operations.              *)

(* Navigate and SetCalendars leave a range and calendars of the right type. *)
LEMMA ReloadKeys ==
  ASSUME ViewsInv, NEW v \in View,
         \/ \E list \in SUBSET Calendar \ {{}} :
              \E selected \in SUBSET list : SetCalendars(v, list, selected)
         \/ \E months \in RangesOf[v] : Navigate(v, months)
  PROVE  /\ range' \in [View -> SUBSET Month] /\ range'[v] \in RangesOf[v]
         /\ known' \in [View -> SUBSET Calendar] /\ enabled' \in [View -> SUBSET Calendar]
         /\ enabled'[v] \subseteq known'[v]
         /\ \A w \in View \ {v} : /\ range'[w] = range[w] /\ known'[w] = known[w]
                                  /\ enabled'[w] = enabled[w]
         /\ range'[v] \X enabled'[v] \in SUBSET Key
<1>1. ASSUME NEW list \in SUBSET Calendar, NEW selected \in SUBSET list,
             SetCalendars(v, list, selected)
      PROVE  /\ range' \in [View -> SUBSET Month] /\ range'[v] \in RangesOf[v]
             /\ known' \in [View -> SUBSET Calendar] /\ enabled' \in [View -> SUBSET Calendar]
             /\ enabled'[v] \subseteq known'[v]
             /\ \A w \in View \ {v} : /\ range'[w] = range[w] /\ known'[w] = known[w]
                                      /\ enabled'[w] = enabled[w]
  BY <1>1 DEF SetCalendars, ViewsInv, ViewsTypeInv
<1>2. ASSUME NEW months \in RangesOf[v], Navigate(v, months)
      PROVE  /\ range' \in [View -> SUBSET Month] /\ range'[v] \in RangesOf[v]
             /\ known' \in [View -> SUBSET Calendar] /\ enabled' \in [View -> SUBSET Calendar]
             /\ enabled'[v] \subseteq known'[v]
             /\ \A w \in View \ {v} : /\ range'[w] = range[w] /\ known'[w] = known[w]
                                      /\ enabled'[w] = enabled[w]
  <2>1. months \in SUBSET Month
    BY ViewsAssumption
  <2> QED BY <1>2, <2>1 DEF Navigate, ViewsInv, ViewsTypeInv
<1>3. /\ range' \in [View -> SUBSET Month] /\ range'[v] \in RangesOf[v]
      /\ known' \in [View -> SUBSET Calendar] /\ enabled' \in [View -> SUBSET Calendar]
      /\ enabled'[v] \subseteq known'[v]
      /\ \A w \in View \ {v} : /\ range'[w] = range[w] /\ known'[w] = known[w]
                               /\ enabled'[w] = enabled[w]
  BY <1>1, <1>2
<1> QED BY <1>3 DEF Key

(* The buckets MutationAcked asks for have been dropped first.             *)
Emptied(c) == [k \in Key |-> IF k[2] = c THEN Unloaded ELSE cached[k]]

LEMMA EmptiedBuckets ==
  ASSUME ViewsInv, NEW c \in Calendar
  PROVE  /\ Emptied(c) \in [Key -> Bucket]
         /\ \A k \in Key : /\ Emptied(c)[k] \in {cached[k], Unloaded}
                           /\ Emptied(c)[k].state = "NotLoaded" => Emptied(c)[k] = Unloaded
                           /\ k[2] = c => Emptied(c)[k] = Unloaded
                           /\ k[2] # c => Emptied(c)[k] = cached[k]
BY CachedBuckets, UnloadedFields DEF Emptied

LEMMA LoadingKeys ==
  ASSUME ViewsInv, NEW c \in Calendar, NEW vs \in SUBSET View
  PROVE  (UNION {range[v] : v \in vs}) \X {c} \in SUBSET Key
BY DEF ViewsInv, ViewsTypeInv, Key

LEMMA StepIsCache ==
  ASSUME ViewsInv, [Next]_vars
  PROVE  [CacheNext]_cacheVars
<1>1. ASSUME NEW v \in View,
             \/ \E list \in SUBSET Calendar \ {{}} :
                  \E selected \in SUBSET list : SetCalendars(v, list, selected)
             \/ \E months \in RangesOf[v] : Navigate(v, months)
      PROVE  [CacheNext]_cacheVars
  <2>1. CASE UNCHANGED cacheVars
    BY <2>1
  <2>2. CASE ReloadCurrentRange(v)
    <3>1. range'[v] \X enabled'[v] \in SUBSET Key
      BY <1>1, ReloadKeys
    <3>2. AskFor(cached, range'[v] \X enabled'[v]) /\ UNCHANGED <<floor, latest>>
      BY <2>2 DEF ReloadCurrentRange
    <3> QED BY <3>1, <3>2, AskForIsAsk DEF CacheNext
  <2> QED BY <1>1, <2>1, <2>2 DEF SetCalendars, Navigate
<1>2. ASSUME NEW v \in View, RefreshVisibleFromServer(v) PROVE [CacheNext]_cacheVars
  <2>1. range[v] \X enabled[v] \in SUBSET Key
    BY DEF ViewsInv, ViewsTypeInv, Key
  <2> QED BY <1>2, <2>1, AskForIsAsk DEF RefreshVisibleFromServer, CacheNext
<1>3. ASSUME NEW c \in Calendar, EnableCalendar(c) PROVE [CacheNext]_cacheVars
  <2>1. \E vs \in SUBSET View : AskFor(cached, (UNION {range[v] : v \in vs}) \X {c})
    BY <1>3 DEF EnableCalendar
  <2> QED BY <1>3, <2>1, LoadingKeys, AskForIsAsk DEF EnableCalendar, CacheNext
<1>4. ASSUME NEW c \in Calendar, MutationAcked(c) PROVE [CacheNext]_cacheVars
  <2>1. PICK vs \in SUBSET View : AskFor(Emptied(c), (UNION {range[v] : v \in vs}) \X {c})
    BY <1>4 DEF MutationAcked, Emptied
  <2> DEFINE keys == (UNION {range[v] : v \in vs}) \X {c}
  <2>2. keys \in SUBSET Key
    BY LoadingKeys
  <2>3. \A k \in keys : k[2] = c
    OBVIOUS
  <2> HIDE DEF keys
  <2>4. ASSUME NEW k \in Key
        PROVE  cached'[k] \in IF k[2] = c THEN {Unloaded} \cup Asked(Unloaded, latest[c])
                                         ELSE {cached[k]}
    <3>1. CASE k \in keys
      <4>1. cached'[k] \in Choices(Emptied(c)[k], latest[k[2]])
        BY <2>1, <2>2, <3>1, AskForCases DEF keys
      <4> QED BY <2>3, <3>1, <4>1, EmptiedBuckets DEF Choices
    <3>2. CASE k \notin keys
      <4>1. cached'[k] = Emptied(c)[k]
        BY <2>1, <2>2, <3>2, AskForCases DEF keys
      <4> QED BY <4>1, EmptiedBuckets
    <3> QED BY <3>1, <3>2
  <2>5. cached' = [k \in Key |-> cached'[k]]
    BY <2>1, <2>2, AskForCases DEF keys
  <2>6. Invalidate(c)
    BY <1>4, <2>4, <2>5 DEF MutationAcked, Invalidate
  <2> QED BY <2>6 DEF CacheNext
<1>5. ASSUME NEW c \in Calendar, DisableCalendar(c) \/ Edited(c) PROVE [CacheNext]_cacheVars
  BY <1>5 DEF DisableCalendar, Edited, CacheNext
<1>6. ASSUME NEW k \in Key, OnBucketUpdated(k) \/ OnBucketFetchFailed(k)
      PROVE  [CacheNext]_cacheVars
  BY <1>6 DEF OnBucketUpdated, OnBucketFetchFailed, CacheNext
<1>7. CASE SignOut \/ SessionChanges \/ UNCHANGED vars
  BY <1>7 DEF SignOut, SessionChanges, vars, CacheNext
<1> QED BY <1>1, <1>2, <1>3, <1>4, <1>5, <1>6, <1>7 DEF Next

LEMMA CacheInvKept ==
  ASSUME ViewsInv, [Next]_vars
  PROVE  CacheInv'
BY StepIsCache, StepKeepsInv DEF ViewsInv

-----------------------------------------------------------------------------
(* Painting and reporting.                                                 *)

LEMMA PictureIs ==
  ASSUME CacheInv', \A c \in Calendar : latest'[c] <= MaxVersion,
         NEW v \in View, NEW c \in Calendar
  PROVE  PictureOf(v, c) \in [Month -> Snapshot(MaxVersion)]
<1>1. ASSUME NEW m \in Month
      PROVE  (IF m \in range'[v] THEN cached'[m, c].events ELSE NoEvents) \in Snapshot(MaxVersion)
  <2> DEFINE s == cached'[<<m, c>>].events
  <2>1. /\ s \in [version : Nat, empty : BOOLEAN]
        /\ s.version <= latest'[c]
        /\ latest'[c] \in Nat /\ latest'[c] <= MaxVersion
    <3>1. <<m, c>> \in Key /\ <<m, c>>[2] = c
      BY DEF Key
    <3> QED BY <3>1 DEF CacheInv, CacheTypeOK, ConfirmedAboveFloor
  <2>2. s \in Snapshot(MaxVersion)
    <3> HIDE DEF s
    <3>1. s.version \in 0..MaxVersion
      BY <2>1, ViewsAssumption
    <3> QED BY <2>1, <3>1 DEF Snapshot
  <2>3. NoEvents \in Snapshot(MaxVersion)
    BY ViewsAssumption DEF NoEvents, Snapshot
  <2> QED BY <2>2, <2>3
<1> QED BY <1>1 DEF PictureOf

LEMMA RenderType ==
  ASSUME CacheInv', \A c \in Calendar : latest'[c] <= MaxVersion,
         NEW before \in [View -> [Calendar -> Picture]], NEW todo, Render(before, todo)
  PROVE  /\ painted' \in [View -> [Calendar -> Picture]]
         /\ \A v \in View, c \in Calendar :
              painted'[v][c] = IF <<v, c>> \in todo /\ c \in enabled'[v]
                               THEN PictureOf(v, c) ELSE before[v][c]
BY PictureIs DEF Render, Picture

LEMMA BlankType ==
  Blank \in [Calendar -> Picture] /\ \A c \in Calendar : Blank[c] = Nothing
BY DEF Blank, Picture

(* A view owes a report afterwards only if its range is unsettled, or it   *)
(* owed one before and was not called.                                     *)
LEMMA ReportType ==
  ASSUME NEW callers, MaybeEmitCycleFinished(callers), owed \in [View -> BOOLEAN]
  PROVE  /\ owed' \in [View -> BOOLEAN]
         /\ \A v \in View : Settled(cached', range'[v], enabled'[v]) /\ owed'[v] =>
              owed[v] /\ v \notin callers
BY DEF MaybeEmitCycleFinished

(* The two invariants, one view at a time.                                 *)
PaintedOf(v) ==
  \A c \in Calendar : painted[v][c] # Nothing =>
    /\ c \in enabled[v]
    /\ \A m \in range[v] :
         cached[m, c].state = "Loaded" /\ cached[m, c].confirmed =>
           painted[v][c][m] = cached[m, c].events

ReportedOf(v) == Settled(cached, range[v], enabled[v]) => ~owed[v]

LEMMA ByView ==
  /\ PaintedIsCached <=> \A v \in View : PaintedOf(v)
  /\ CycleReported <=> \A v \in View : ReportedOf(v)
BY DEF PaintedIsCached, CycleReported, PaintedOf, ReportedOf

(* What the steps that ask for buckets have in common: over the buckets b, *)
(* what was painted before, and a set of pairs painted anyway, the views   *)
(* that show a month just read from its file are painted and called.       *)
Asking(b, before, extra, callers) ==
  /\ \A k \in Key : b[k] \in {cached[k], Unloaded} /\ AskStep(b[k], cached'[k])
  /\ Render(before, extra \cup ShowingMonths(Hydrated(b)))
  /\ MaybeEmitCycleFinished(callers)
  /\ \A vc \in ShowingMonths(Hydrated(b)) : vc[1] \in callers

LEMMA ShowingIs ==
  ASSUME NEW b, NEW v \in View, NEW c \in Calendar, range'[v] \in SUBSET Month
  PROVE  <<v, c>> \in ShowingMonths(Hydrated(b)) <=>
           \E m \in range'[v] : FileShown(b[<<m, c>>], cached'[<<m, c>>])
<1>1. ASSUME NEW m \in range'[v], FileShown(b[<<m, c>>], cached'[<<m, c>>])
      PROVE  <<v, c>> \in ShowingMonths(Hydrated(b))
  <2>1. <<m, c>> \in Hydrated(b)
    BY <1>1 DEF Hydrated, FileShown, Key
  <2>2. <<m, c>>[1] = m /\ <<m, c>>[2] = c
    OBVIOUS
  <2> QED BY <1>1, <2>1, <2>2 DEF ShowingMonths
<1>2. ASSUME <<v, c>> \in ShowingMonths(Hydrated(b))
      PROVE  \E m \in range'[v] : FileShown(b[<<m, c>>], cached'[<<m, c>>])
  <2>1. PICK k \in Hydrated(b) : k[2] = c /\ k[1] \in range'[v]
    BY <1>2 DEF ShowingMonths
  <2>2. k = <<k[1], c>> /\ FileShown(b[k], cached'[k])
    BY <2>1 DEF Hydrated, FileShown, Key
  <2> QED BY <2>1, <2>2
<1> QED BY <1>1, <1>2

(* Such a step keeps all three properties for a view whose range stays and *)
(* whose calendars, if they change, make it one of the views called.       *)
LEMMA AskingKeeps ==
  ASSUME ViewsInv, ViewsInv', NEW b, NEW before \in [View -> [Calendar -> Picture]],
         NEW extra, NEW callers, Asking(b, before, extra, callers),
         NEW v \in View, PaintedOf(v), ReportedOf(v),
         range'[v] = range[v], enabled[v] \subseteq enabled'[v],
         enabled'[v] = enabled[v] \/ v \in callers, before[v] = painted[v]
  PROVE  /\ PaintedOf(v)' /\ ReportedOf(v)'
         /\ \A c \in Calendar : <<v, c>> \notin extra /\ Visible(v, c) => Visible(v, c)'
<1> DEFINE todo == extra \cup ShowingMonths(Hydrated(b))
<1>0. /\ range[v] \in SUBSET Month /\ range'[v] \in SUBSET Month
      /\ enabled[v] \in SUBSET Calendar /\ enabled'[v] \in SUBSET Calendar
      /\ owed \in [View -> BOOLEAN]
      /\ CacheInv' /\ \A c \in Calendar : latest'[c] <= MaxVersion
  BY DEF ViewsInv, ViewsTypeInv, BoundedInv
<1>1. \A c \in Calendar : painted'[v][c] = IF <<v, c>> \in todo /\ c \in enabled'[v]
                                          THEN PictureOf(v, c) ELSE painted[v][c]
  BY <1>0, RenderType DEF Asking
<1>2. \A c \in Calendar, m \in range[v] :
        /\ <<m, c>> \in Key
        /\ b[<<m, c>>] \in {cached[<<m, c>>], Unloaded}
        /\ AskStep(b[<<m, c>>], cached'[<<m, c>>])
  BY <1>0 DEF Asking, Key
<1>3. \A c \in Calendar, m \in range[v] : PictureOf(v, c)[m] = cached'[<<m, c>>].events
  BY <1>0 DEF PictureOf
<1>4. PaintedOf(v)'
  <2> SUFFICES ASSUME NEW c \in Calendar, painted'[v][c] # Nothing
               PROVE  /\ c \in enabled'[v]
                      /\ \A m \in range[v] :
                           cached'[<<m, c>>].state = "Loaded" /\ cached'[<<m, c>>].confirmed =>
                             painted'[v][c][m] = cached'[<<m, c>>].events
    BY DEF PaintedOf
  <2>1. CASE <<v, c>> \in todo /\ c \in enabled'[v]
    BY <1>1, <1>3, <2>1
  <2>2. CASE ~(<<v, c>> \in todo /\ c \in enabled'[v])
    <3>1. painted'[v][c] = painted[v][c] /\ c \in enabled[v]
      BY <1>1, <2>2 DEF PaintedOf
    <3>2. ASSUME NEW m \in range[v], cached'[<<m, c>>].state = "Loaded",
                 cached'[<<m, c>>].confirmed
          PROVE  painted'[v][c][m] = cached'[<<m, c>>].events
      <4>1. cached'[<<m, c>>] = cached[<<m, c>>]
        BY <1>2, <3>2, UnloadedFields DEF AskStep
      <4> QED BY <3>1, <3>2, <4>1 DEF PaintedOf
    <3> QED BY <3>1, <3>2
  <2> QED BY <2>1, <2>2
<1>5. ReportedOf(v)'
  <2> SUFFICES ASSUME Settled(cached', range'[v], enabled'[v]), owed'[v] PROVE FALSE
    BY DEF ReportedOf
  <2>1. owed[v] /\ v \notin callers
    BY <1>0, ReportType DEF Asking
  <2>2. enabled'[v] = enabled[v] /\ ~Settled(cached, range[v], enabled[v])
    BY <2>1 DEF ReportedOf
  <2>3. PICK k \in range[v] \X enabled[v] : Unsettled(cached[k])
    BY <2>2, SettledIs
  <2>4. PICK m \in range[v], c \in enabled[v] : k = <<m, c>>
    OBVIOUS
  <2>5. c \in Calendar /\ ~Unsettled(cached'[<<m, c>>])
    BY <1>0, <2>2, <2>4, SettledIs
  <2>6. Unsettled(b[<<m, c>>])
    BY <1>2, <2>3, <2>4, <2>5, UnloadedFields DEF Unsettled
  <2>7. FileShown(b[<<m, c>>], cached'[<<m, c>>])
    BY <1>2, <2>5, <2>6 DEF AskStep
  <2>8. <<v, c>> \in ShowingMonths(Hydrated(b))
    BY <1>0, <2>5, <2>7, ShowingIs
  <2> QED BY <2>1, <2>8 DEF Asking
<1>6. ASSUME NEW c \in Calendar, <<v, c>> \notin extra, Visible(v, c) PROVE Visible(v, c)'
  <2>1. painted[v][c] # Nothing /\ c \in enabled[v]
        /\ \E m \in range[v] : ~painted[v][c][m].empty
    BY <1>6 DEF Visible, PaintedOf
  <2>2. CASE <<v, c>> \in todo
    <3>1. PICK m \in range[v] : FileShown(b[<<m, c>>], cached'[<<m, c>>])
      BY <1>0, <1>6, <2>2, ShowingIs
    <3>2. ~cached'[<<m, c>>].events.empty
      BY <1>2, <3>1 DEF AskStep
    <3>3. painted'[v][c] = PictureOf(v, c)
      BY <1>1, <2>1, <2>2
    <3>4. PictureOf(v, c) # Nothing
      BY <1>0, ViewsAssumption, PictureIs
    <3> QED BY <1>3, <3>2, <3>3, <3>4 DEF Visible
  <2>3. CASE <<v, c>> \notin todo
    BY <1>1, <2>1, <2>3 DEF Visible
  <2> QED BY <2>2, <2>3
<1> QED BY <1>4, <1>5, <1>6

(* The steps that ask for buckets are of that form.                        *)
LEMMA CachedAsked ==
  ASSUME ViewsInv, NEW keys \in SUBSET Key, AskFor(cached, keys)
  PROVE  \A k \in Key : cached[k] \in {cached[k], Unloaded} /\ AskStep(cached[k], cached'[k])
<1>1. cached \in [Key -> Bucket] /\ \A k \in Key : cached[k].state = "NotLoaded" => cached[k] = Unloaded
  BY CachedBuckets
<1> QED BY <1>1, AskForSteps

LEMMA ReloadAsks ==
  ASSUME ViewsInv, NEW v \in View, ReloadCurrentRange(v), range'[v] \X enabled'[v] \in SUBSET Key
  PROVE  \E callers :
           /\ Asking(cached, [painted EXCEPT ![v] = Blank], {<<v, c>> : c \in Calendar}, callers)
           /\ v \in callers
<1> DEFINE extra == {<<v, c>> : c \in Calendar}
           callers == {v} \cup ViewsOf(extra \cup ShowingMonths(Hydrated(cached)))
<1>1. \A k \in Key : cached[k] \in {cached[k], Unloaded} /\ AskStep(cached[k], cached'[k])
  BY CachedAsked DEF ReloadCurrentRange
<1>2. /\ Render([painted EXCEPT ![v] = Blank], extra \cup ShowingMonths(Hydrated(cached)))
      /\ MaybeEmitCycleFinished(callers)
  BY DEF ReloadCurrentRange
<1>3. \A vc \in ShowingMonths(Hydrated(cached)) : vc[1] \in callers
  BY DEF ViewsOf
<1>4. v \in callers
  OBVIOUS
<1> HIDE DEF callers, extra
<1>5. Asking(cached, [painted EXCEPT ![v] = Blank], extra, callers)
  BY <1>1, <1>2, <1>3 DEF Asking
<1> QED BY <1>4, <1>5 DEF extra

LEMMA EnableAsks ==
  ASSUME ViewsInv, NEW c \in Calendar, EnableCalendar(c)
  PROVE  \E vs \in SUBSET View : \E callers :
           /\ Asking(cached, painted, vs \X {c}, callers)
           /\ \A v \in View : c \in known[v] => v \in callers
<1> DEFINE knowing == {v \in View : c \in known[v]}
           vs == {v \in knowing : signedIn}
           callers == knowing \cup ViewsOf((vs \X {c}) \cup ShowingMonths(Hydrated(cached)))
<1>1. AskFor(cached, (UNION {range[v] : v \in vs}) \X {c})
  BY DEF EnableCalendar
<1>2. \A k \in Key : cached[k] \in {cached[k], Unloaded} /\ AskStep(cached[k], cached'[k])
  BY <1>1, LoadingKeys, CachedAsked
<1>3. /\ Render(painted, (vs \X {c}) \cup ShowingMonths(Hydrated(cached)))
      /\ MaybeEmitCycleFinished(callers)
  BY DEF EnableCalendar
<1>4. \A vc \in ShowingMonths(Hydrated(cached)) : vc[1] \in callers
  BY DEF ViewsOf
<1>5. vs \in SUBSET View /\ \A v \in View : c \in known[v] => v \in callers
  OBVIOUS
<1> HIDE DEF knowing, vs, callers
<1> QED BY <1>2, <1>3, <1>4, <1>5 DEF Asking

LEMMA RefreshAsks ==
  ASSUME ViewsInv, NEW v \in View, RefreshVisibleFromServer(v)
  PROVE  \E callers : Asking(cached, painted, {}, callers)
<1> DEFINE todo == ShowingMonths(Hydrated(cached))
<1>1. range[v] \X enabled[v] \in SUBSET Key
  BY DEF ViewsInv, ViewsTypeInv, Key
<1>2. \A k \in Key : cached[k] \in {cached[k], Unloaded} /\ AskStep(cached[k], cached'[k])
  BY <1>1, CachedAsked DEF RefreshVisibleFromServer
<1>3. Render(painted, todo) /\ MaybeEmitCycleFinished(ViewsOf(todo))
  BY DEF RefreshVisibleFromServer
<1>4. {} \cup todo = todo
  OBVIOUS
<1>5. \A vc \in todo : vc[1] \in ViewsOf(todo)
  BY DEF ViewsOf
<1>6. Render(painted, {} \cup todo)
  BY <1>3, <1>4
<1> QED BY <1>2, <1>3, <1>5, <1>6 DEF Asking

LEMMA AckedAsks ==
  ASSUME ViewsInv, NEW c \in Calendar, MutationAcked(c)
  PROVE  \E b, callers : Asking(b, painted, {}, callers)
<1> DEFINE todo == ShowingMonths(Hydrated(Emptied(c)))
<1>1. PICK vs \in SUBSET View : AskFor(Emptied(c), (UNION {range[v] : v \in vs}) \X {c})
  BY DEF MutationAcked, Emptied
<1>2. \A k \in Key : /\ Emptied(c)[k] \in {cached[k], Unloaded}
                     /\ AskStep(Emptied(c)[k], cached'[k])
  BY <1>1, LoadingKeys, EmptiedBuckets, AskForSteps
<1>3. Render(painted, todo) /\ MaybeEmitCycleFinished(ViewsOf(todo))
  BY DEF MutationAcked, Emptied
<1>4. {} \cup todo = todo
  OBVIOUS
<1>5. \A vc \in todo : vc[1] \in ViewsOf(todo)
  BY DEF ViewsOf
<1>6. Render(painted, {} \cup todo)
  BY <1>3, <1>4
<1>7. Asking(Emptied(c), painted, {}, ViewsOf(todo))
  BY <1>2, <1>3, <1>5, <1>6 DEF Asking
<1> QED BY <1>7

-----------------------------------------------------------------------------
(* Types.                                                                  *)

LEMMA InitViews == Init => ViewsInv /\ PaintedIsCached /\ CycleReported
<1> SUFFICES ASSUME Init PROVE ViewsInv /\ PaintedIsCached /\ CycleReported
  OBVIOUS
<1>1. CacheInv
  BY DEF Init, CacheInit, CacheInv, CacheTypeOK, ConfirmedAboveFloor, Unloaded, NoEvents, State, Key
<1>2. BoundedInv
  BY ViewsAssumption DEF Init, CacheInit, BoundedInv
<1>3. ViewsTypeInv
  BY BlankType, ViewsAssumption DEF Init, ViewsTypeInv
<1>4. PaintedIsCached
  BY BlankType DEF Init, PaintedIsCached
<1>5. CycleReported
  BY DEF Init, CycleReported
<1> QED BY <1>1, <1>2, <1>3, <1>4, <1>5 DEF ViewsInv

(* A step that asks keeps what is bounded and typed.                       *)
LEMMA AskingType ==
  ASSUME ViewsInv, CacheInv', latest' = latest, NEW b, NEW extra, NEW callers,
         NEW before \in [View -> [Calendar -> Picture]], Asking(b, before, extra, callers)
  PROVE  /\ BoundedInv'
         /\ painted' \in [View -> [Calendar -> Picture]]
         /\ owed' \in [View -> BOOLEAN]
<1>1. BoundedInv'
  BY DEF Asking, AskStep, ViewsInv, BoundedInv
<1>2. painted' \in [View -> [Calendar -> Picture]]
  BY <1>1, RenderType DEF Asking, BoundedInv
<1>3. owed' \in [View -> BOOLEAN]
  BY ReportType DEF Asking, ViewsInv, ViewsTypeInv
<1> QED BY <1>1, <1>2, <1>3

LEMMA StepBounded ==
  ASSUME ViewsInv, [Next]_vars,
         \/ UNCHANGED cacheVars \/ DropAll \/ \E c \in Calendar : Edited(c)
         \/ \E k \in Key : Answered(k) \/ Refused(k)
  PROVE  BoundedInv'
<1>0. /\ cached \in [Key -> Bucket] /\ latest \in [Calendar -> Nat] /\ BoundedInv
      /\ MaxVersion \in Nat
  BY CachedBuckets, ViewsAssumption DEF ViewsInv
<1>1. CASE UNCHANGED cacheVars
  BY <1>0, <1>1 DEF cacheVars, BoundedInv
<1>2. CASE DropAll
  BY <1>0, <1>2 DEF DropAll, BoundedInv
<1>3. ASSUME NEW c \in Calendar, Edited(c) PROVE BoundedInv'
  <2>1. \A d \in Calendar : latest'[d] <= MaxVersion
    BY <1>0, <1>3 DEF Edited, ServerEdit, BoundedInv
  <2> QED BY <1>0, <1>3, <2>1 DEF Edited, ServerEdit, BoundedInv
<1>4. ASSUME NEW k \in Key, Answered(k) PROVE BoundedInv'
  <2>1. cached'[k].state = "Loaded" /\ \A j \in Key : j # k => cached'[j] = cached[j]
    BY <1>0, <1>4 DEF Answered
  <2> QED BY <1>0, <1>4, <2>1 DEF Answered, BoundedInv
<1>5. ASSUME NEW k \in Key, Refused(k) PROVE BoundedInv'
  <2>1. cached'[k].state # "NotLoaded" /\ \A j \in Key : j # k => cached'[j] = cached[j]
    BY <1>0, <1>5 DEF Refused, Bucket
  <2> QED BY <1>0, <1>5, <2>1 DEF Refused, BoundedInv
<1> QED BY <1>1, <1>2, <1>3, <1>4, <1>5

LEMMA AskActionTypes ==
  ASSUME ViewsInv, CacheInv', NEW b, NEW extra, NEW callers,
         NEW before \in [View -> [Calendar -> Picture]], Asking(b, before, extra, callers),
         latest' = latest, signedIn' \in BOOLEAN,
         range' \in [View -> SUBSET Month], \A v \in View : range'[v] \in RangesOf[v],
         known' \in [View -> SUBSET Calendar], enabled' \in [View -> SUBSET Calendar],
         \A v \in View : enabled'[v] \subseteq known'[v]
  PROVE  ViewsInv'
<1>1. /\ BoundedInv'
      /\ painted' \in [View -> [Calendar -> Picture]]
      /\ owed' \in [View -> BOOLEAN]
  BY AskingType
<1>2. ViewsTypeInv'
  BY <1>1 DEF ViewsTypeInv
<1> QED BY <1>1, <1>2 DEF ViewsInv

LEMMA StepViewsInv ==
  ASSUME ViewsInv, [Next]_vars
  PROVE  ViewsInv'
<1>0. /\ CacheInv' /\ ViewsTypeInv
      /\ painted \in [View -> [Calendar -> Picture]]
      /\ Blank \in [Calendar -> Picture]
      /\ enabled \in [View -> SUBSET Calendar] /\ known \in [View -> SUBSET Calendar]
      /\ \A v \in View : enabled[v] \subseteq known[v]
  BY CacheInvKept, BlankType DEF ViewsInv, ViewsTypeInv
<1>1. ASSUME NEW v \in View,
             \/ \E list \in SUBSET Calendar \ {{}} :
                  \E selected \in SUBSET list : SetCalendars(v, list, selected)
             \/ \E months \in RangesOf[v] : Navigate(v, months)
      PROVE  ViewsInv'
  <2>1. /\ range' \in [View -> SUBSET Month] /\ \A w \in View : range'[w] \in RangesOf[w]
        /\ known' \in [View -> SUBSET Calendar] /\ enabled' \in [View -> SUBSET Calendar]
        /\ \A w \in View : enabled'[w] \subseteq known'[w]
        /\ range'[v] \X enabled'[v] \in SUBSET Key
    BY <1>0, <1>1, ReloadKeys DEF ViewsTypeInv
  <2>2. signedIn' = signedIn /\ signedIn \in BOOLEAN
    BY <1>0, <1>1 DEF SetCalendars, Navigate, ViewsTypeInv
  <2>3. CASE ReloadCurrentRange(v)
    <3>1. PICK callers :
            Asking(cached, [painted EXCEPT ![v] = Blank], {<<v, c>> : c \in Calendar}, callers)
      BY <2>1, <2>3, ReloadAsks
    <3>2. [painted EXCEPT ![v] = Blank] \in [View -> [Calendar -> Picture]]
      BY <1>0
    <3>3. latest' = latest
      BY <2>3 DEF ReloadCurrentRange
    <3> QED BY <1>0, <2>1, <2>2, <3>1, <3>2, <3>3, AskActionTypes
  <2>4. CASE UNCHANGED <<cacheVars, painted, owed>>
    <3>1. BoundedInv'
      BY <2>4, StepBounded
    <3>2. ViewsTypeInv'
      BY <2>1, <2>2, <2>4 DEF ViewsInv, ViewsTypeInv
    <3> QED BY <1>0, <3>1, <3>2 DEF ViewsInv
  <2> QED BY <1>1, <2>3, <2>4 DEF SetCalendars, Navigate
<1>2. ASSUME NEW v \in View, RefreshVisibleFromServer(v) PROVE ViewsInv'
  <2>1. PICK callers : Asking(cached, painted, {}, callers)
    BY <1>2, RefreshAsks
  <2>2. UNCHANGED <<latest, signedIn, range, known, enabled>>
    BY <1>2 DEF RefreshVisibleFromServer
  <2> QED BY <1>0, <2>1, <2>2, AskActionTypes DEF ViewsTypeInv
<1>3. ASSUME NEW c \in Calendar, EnableCalendar(c) PROVE ViewsInv'
  <2>1. PICK vs, callers : vs \in SUBSET View /\ Asking(cached, painted, vs \X {c}, callers)
    BY <1>3, EnableAsks
  <2>2. UNCHANGED <<latest, signedIn, range, known>> /\ enabled' = EnabledWith(c)
    BY <1>3 DEF EnableCalendar
  <2>3. /\ enabled' \in [View -> SUBSET Calendar]
        /\ \A v \in View : enabled'[v] \subseteq known'[v]
    BY <1>0, <2>2 DEF EnabledWith
  <2> QED BY <1>0, <2>1, <2>2, <2>3, AskActionTypes DEF ViewsTypeInv
<1>4. ASSUME NEW c \in Calendar, MutationAcked(c) PROVE ViewsInv'
  <2>1. PICK b, callers : Asking(b, painted, {}, callers)
    BY <1>4, AckedAsks
  <2>2. UNCHANGED <<latest, signedIn, range, known, enabled>>
    BY <1>4 DEF MutationAcked
  <2> QED BY <1>0, <2>1, <2>2, AskActionTypes DEF ViewsTypeInv
<1>5. ASSUME NEW c \in Calendar, DisableCalendar(c) PROVE ViewsInv'
  <2>1. BoundedInv'
    BY <1>5, StepBounded DEF DisableCalendar
  <2>2. /\ UNCHANGED <<signedIn, range, known>>
        /\ enabled' \in [View -> SUBSET Calendar]
        /\ \A v \in View : enabled'[v] \subseteq known'[v]
    BY <1>0, <1>5 DEF DisableCalendar
  <2>3. painted' \in [View -> [Calendar -> Picture]]
    <3>1. ASSUME NEW v \in View
          PROVE  (IF c \in known[v] THEN [painted[v] EXCEPT ![c] = Nothing] ELSE painted[v])
                   \in [Calendar -> Picture]
      BY <1>0 DEF Picture
    <3> QED BY <1>5, <3>1 DEF DisableCalendar
  <2>4. owed' \in [View -> BOOLEAN]
    BY <1>0, <1>5, ReportType DEF DisableCalendar, ViewsTypeInv
  <2> QED BY <1>0, <2>1, <2>2, <2>3, <2>4 DEF ViewsInv, ViewsTypeInv
<1>6. ASSUME NEW k \in Key, OnBucketUpdated(k) PROVE ViewsInv'
  <2>1. BoundedInv'
    BY <1>6, StepBounded DEF OnBucketUpdated
  <2>2. painted' \in [View -> [Calendar -> Picture]]
    BY <1>0, <1>6, <2>1, RenderType DEF OnBucketUpdated, BoundedInv
  <2>3. owed' \in [View -> BOOLEAN]
    BY <1>0, <1>6, ReportType DEF OnBucketUpdated, ViewsTypeInv
  <2> QED BY <1>0, <1>6, <2>1, <2>2, <2>3 DEF OnBucketUpdated, ViewsInv, ViewsTypeInv
<1>7. ASSUME NEW k \in Key, OnBucketFetchFailed(k) PROVE ViewsInv'
  <2>1. BoundedInv'
    BY <1>7, StepBounded DEF OnBucketFetchFailed
  <2>2. owed' \in [View -> BOOLEAN]
    BY <1>0, <1>7, ReportType DEF OnBucketFetchFailed, ViewsTypeInv
  <2> QED BY <1>0, <1>7, <2>1, <2>2 DEF OnBucketFetchFailed, ViewsInv, ViewsTypeInv
<1>8. CASE SignOut
  <2>1. BoundedInv'
    BY <1>8, StepBounded DEF SignOut
  <2> QED BY <1>0, <1>8, <2>1 DEF SignOut, ViewsInv, ViewsTypeInv
<1>9. CASE SessionChanges \/ (\E c \in Calendar : Edited(c)) \/ UNCHANGED vars
  <2>1. BoundedInv'
    BY <1>9, StepBounded DEF SessionChanges, vars
  <2>2. UNCHANGED <<range, known, enabled, painted, owed>> /\ signedIn' \in BOOLEAN
    BY <1>0, <1>9 DEF SessionChanges, Edited, viewVars, vars, ViewsTypeInv
  <2> QED BY <1>0, <2>1, <2>2 DEF ViewsInv, ViewsTypeInv
<1> QED BY <1>1, <1>2, <1>3, <1>4, <1>5, <1>6, <1>7, <1>8, <1>9 DEF Next

-----------------------------------------------------------------------------
(* What every step keeps, of one view: the two invariants, and that events *)
(* it shows stay visible unless one of the excuses of NoBlankFlash holds.  *)

Excuse(v, c) ==
  \/ \E k \in range[v] \X {c} : Answered(k)
  \/ EnableCalendar(c) \/ DisableCalendar(c) \/ SignOut
  \/ ReloadCurrentRange(v)

Keeps(v) ==
  /\ PaintedOf(v)'
  /\ ReportedOf(v)'
  /\ \A c \in Calendar : Visible(v, c) /\ ~Visible(v, c)' => Excuse(v, c)

(* The view that reloads paints all its enabled calendars anew.            *)
LEMMA ReloadedKeeps ==
  ASSUME ViewsInv, ViewsInv', NEW v \in View, ReloadCurrentRange(v),
         NEW callers, v \in callers,
         Asking(cached, [painted EXCEPT ![v] = Blank], {<<v, c>> : c \in Calendar}, callers)
  PROVE  Keeps(v)
<1>1. /\ range'[v] \in SUBSET Month /\ CacheInv' /\ owed \in [View -> BOOLEAN]
      /\ painted \in [View -> [Calendar -> Picture]]
      /\ \A c \in Calendar : latest'[c] <= MaxVersion
  BY DEF ViewsInv, ViewsTypeInv, BoundedInv
<1>2. /\ [painted EXCEPT ![v] = Blank] \in [View -> [Calendar -> Picture]]
      /\ \A c \in Calendar : [painted EXCEPT ![v] = Blank][v][c] = Nothing
  BY <1>1, BlankType
<1>3. \A c \in Calendar :
        painted'[v][c] = IF c \in enabled'[v] THEN PictureOf(v, c) ELSE Nothing
  <2> DEFINE before == [painted EXCEPT ![v] = Blank]
             todo == {<<v, c>> : c \in Calendar} \cup ShowingMonths(Hydrated(cached))
  <2>1. Render(before, todo)
    BY DEF Asking
  <2>2. \A c \in Calendar : <<v, c>> \in todo
    OBVIOUS
  <2>3. /\ before \in [View -> [Calendar -> Picture]]
        /\ \A c \in Calendar : before[v][c] = Nothing
    BY <1>2
  <2> HIDE DEF before, todo
  <2> QED BY <1>1, <2>1, <2>2, <2>3, RenderType
<1>4. PaintedOf(v)'
  <2> SUFFICES ASSUME NEW c \in Calendar, painted'[v][c] # Nothing, NEW m \in range'[v]
               PROVE  c \in enabled'[v] /\ painted'[v][c][m] = cached'[<<m, c>>].events
    BY <1>3 DEF PaintedOf
  <2> QED BY <1>1, <1>3 DEF PictureOf
<1>5. ReportedOf(v)'
  BY <1>1, ReportType DEF Asking, ReportedOf
<1> QED BY <1>4, <1>5 DEF Keeps, Excuse

(* The month and calendar of an answered bucket are painted anew where     *)
(* they are on screen; nothing else changes.                               *)
LEMMA AnsweredKeeps ==
  ASSUME ViewsInv, ViewsInv', NEW k \in Key, OnBucketUpdated(k),
         NEW v \in View, PaintedOf(v), ReportedOf(v)
  PROVE  Keeps(v)
<1>0. /\ range[v] \in SUBSET Month /\ enabled[v] \in SUBSET Calendar
      /\ owed \in [View -> BOOLEAN] /\ cached \in [Key -> Bucket]
      /\ painted \in [View -> [Calendar -> Picture]]
      /\ CacheInv' /\ \A c \in Calendar : latest'[c] <= MaxVersion
      /\ UNCHANGED <<range, enabled>>
      /\ k = <<k[1], k[2]>>
  BY CachedBuckets DEF OnBucketUpdated, ViewsInv, ViewsTypeInv, BoundedInv, Key
<1>1. \A c \in Calendar :
        painted'[v][c] = IF k[1] \in range[v] /\ c = k[2] /\ c \in enabled[v]
                         THEN PictureOf(v, c) ELSE painted[v][c]
  <2>1. \A c \in Calendar : <<v, c>> \in ShowingMonth(k[1]) \X {k[2]} <=>
                             k[1] \in range[v] /\ c = k[2]
    BY DEF ShowingMonth
  <2> DEFINE todo == ShowingMonth(k[1]) \X {k[2]}
  <2>2. Render(painted, todo) /\ enabled'[v] = enabled[v]
    BY <1>0 DEF OnBucketUpdated
  <2>3. \A c \in Calendar : <<v, c>> \in todo <=> k[1] \in range[v] /\ c = k[2]
    BY <2>1
  <2> HIDE DEF todo
  <2>4. CacheInv' /\ \A c \in Calendar : latest'[c] <= MaxVersion
    BY <1>0
  <2>5. painted \in [View -> [Calendar -> Picture]]
    BY <1>0
  <2>6. \A c \in Calendar :
          painted'[v][c] = IF <<v, c>> \in todo /\ c \in enabled'[v]
                           THEN PictureOf(v, c) ELSE painted[v][c]
    BY <2>2, <2>4, <2>5, RenderType
  <2> QED BY <2>2, <2>3, <2>6
<1>2. \A j \in Key : j # k => cached'[j] = cached[j]
  BY <1>0 DEF OnBucketUpdated, Answered
<1>3. PaintedOf(v)'
  <2> SUFFICES ASSUME NEW c \in Calendar, painted'[v][c] # Nothing
               PROVE  /\ c \in enabled[v]
                      /\ \A m \in range[v] :
                           cached'[<<m, c>>].state = "Loaded" /\ cached'[<<m, c>>].confirmed =>
                             painted'[v][c][m] = cached'[<<m, c>>].events
    BY <1>0 DEF PaintedOf
  <2>1. CASE k[1] \in range[v] /\ c = k[2] /\ c \in enabled[v]
    BY <1>0, <1>1, <2>1 DEF PictureOf
  <2>2. CASE ~(k[1] \in range[v] /\ c = k[2] /\ c \in enabled[v])
    <3>1. painted'[v][c] = painted[v][c] /\ c \in enabled[v]
      BY <1>1, <2>2 DEF PaintedOf
    <3>2. ASSUME NEW m \in range[v] PROVE cached'[<<m, c>>] = cached[<<m, c>>]
      <4>1. <<m, c>> \in Key /\ <<m, c>> # k
        BY <1>0, <2>2, <3>1 DEF Key
      <4> QED BY <1>2, <4>1
    <3> QED BY <3>1, <3>2 DEF PaintedOf
  <2> QED BY <2>1, <2>2
<1>4. ReportedOf(v)'
  <2> SUFFICES ASSUME Settled(cached', range[v], enabled[v]), owed'[v] PROVE FALSE
    BY <1>0 DEF ReportedOf
  <2>1. owed[v] /\ v \notin ShowingMonth(k[1])
    BY <1>0, ReportType DEF OnBucketUpdated
  <2>2. \A j \in range[v] \X enabled[v] : cached'[j] = cached[j]
    BY <1>0, <1>2, <2>1 DEF ShowingMonth, Key
  <2>3. Settled(cached, range[v], enabled[v])
    BY <2>2, SettledIs
  <2> QED BY <2>1, <2>3 DEF ReportedOf
<1>5. ASSUME NEW c \in Calendar, Visible(v, c), ~Visible(v, c)' PROVE Excuse(v, c)
  <2>1. k[1] \in range[v] /\ c = k[2]
    BY <1>0, <1>1, <1>5 DEF Visible
  <2>2. k \in range[v] \X {c}
    BY <1>0, <2>1
  <2> QED BY <2>2 DEF Excuse, OnBucketUpdated
<1> QED BY <1>3, <1>4, <1>5 DEF Keeps

(* A refused bucket is not confirmed: nothing has to be painted of it.     *)
LEMMA RefusedKeeps ==
  ASSUME ViewsInv, NEW k \in Key, OnBucketFetchFailed(k),
         NEW v \in View, PaintedOf(v), ReportedOf(v)
  PROVE  Keeps(v)
<1>0. /\ range[v] \in SUBSET Month /\ enabled[v] \in SUBSET Calendar
      /\ owed \in [View -> BOOLEAN] /\ cached \in [Key -> Bucket]
      /\ painted \in [View -> [Calendar -> Picture]]
      /\ UNCHANGED <<range, enabled, painted>>
  BY CachedBuckets DEF OnBucketFetchFailed, ViewsInv, ViewsTypeInv
<1>1. /\ ~cached'[k].confirmed
      /\ \A j \in Key : j # k => cached'[j] = cached[j]
  BY <1>0 DEF OnBucketFetchFailed, Refused, Bucket
<1>2. PaintedOf(v)'
  <2> SUFFICES ASSUME NEW c \in Calendar, painted[v][c] # Nothing, NEW m \in range[v],
                      cached'[<<m, c>>].state = "Loaded", cached'[<<m, c>>].confirmed
               PROVE  painted[v][c][m] = cached'[<<m, c>>].events
    BY <1>0 DEF PaintedOf
  <2>1. <<m, c>> \in Key
    BY <1>0 DEF Key
  <2>2. cached'[<<m, c>>] = cached[<<m, c>>]
    BY <1>1, <2>1
  <2> QED BY <2>2 DEF PaintedOf
<1>3. ReportedOf(v)'
  <2> SUFFICES ASSUME Settled(cached', range[v], enabled[v]), owed'[v] PROVE FALSE
    BY <1>0 DEF ReportedOf
  <2>1. owed[v] /\ v \notin ShowingMonth(k[1])
    BY <1>0, ReportType DEF OnBucketFetchFailed
  <2>2. \A j \in range[v] \X enabled[v] : cached'[j] = cached[j]
    BY <1>0, <1>1, <2>1 DEF ShowingMonth, Key
  <2>3. Settled(cached, range[v], enabled[v])
    BY <2>2, SettledIs
  <2> QED BY <2>1, <2>3 DEF ReportedOf
<1> QED BY <1>0, <1>2, <1>3 DEF Keeps, Visible

LEMMA DisabledKeeps ==
  ASSUME ViewsInv, NEW d \in Calendar, DisableCalendar(d),
         NEW v \in View, PaintedOf(v), ReportedOf(v)
  PROVE  Keeps(v)
<1>0. /\ owed \in [View -> BOOLEAN] /\ painted \in [View -> [Calendar -> Picture]]
      /\ enabled[v] \subseteq known[v] /\ enabled'[v] = enabled[v] \ {d}
      /\ UNCHANGED <<range, known, cached>>
  BY DEF DisableCalendar, ViewsInv, ViewsTypeInv, cacheVars
<1>1. /\ \A c \in Calendar : c # d => painted'[v][c] = painted[v][c]
      /\ d \in known[v] => painted'[v][d] = Nothing
      /\ d \notin known[v] => painted'[v] = painted[v]
  BY <1>0 DEF DisableCalendar
<1>2. PaintedOf(v)'
  <2> SUFFICES ASSUME NEW c \in Calendar, painted'[v][c] # Nothing
               PROVE  /\ c \in enabled'[v]
                      /\ \A m \in range[v] :
                           cached[m, c].state = "Loaded" /\ cached[m, c].confirmed =>
                             painted'[v][c][m] = cached[m, c].events
    BY <1>0 DEF PaintedOf
  <2>1. painted'[v][c] = painted[v][c]
    BY <1>1
  <2>2. c \in enabled[v] /\ c # d
    BY <1>0, <1>1, <2>1 DEF PaintedOf
  <2> QED BY <1>0, <2>1, <2>2 DEF PaintedOf
<1>3. ReportedOf(v)'
  <2> SUFFICES ASSUME Settled(cached', range'[v], enabled'[v]), owed'[v] PROVE FALSE
    BY DEF ReportedOf
  <2>1. owed[v] /\ v \notin {w \in View : d \in known[w]}
    BY <1>0, ReportType DEF DisableCalendar
  <2>2. enabled'[v] = enabled[v]
    BY <1>0, <2>1
  <2> QED BY <1>0, <2>1, <2>2 DEF ReportedOf
<1>4. ASSUME NEW c \in Calendar, Visible(v, c), ~Visible(v, c)' PROVE c = d
  BY <1>0, <1>1, <1>4 DEF Visible
<1> QED BY <1>2, <1>3, <1>4 DEF Keeps, Excuse

LEMMA ReloadKeeps ==
  ASSUME ViewsInv, ViewsInv', NEW v \in View,
         \/ \E list \in SUBSET Calendar \ {{}} :
              \E selected \in SUBSET list : SetCalendars(v, list, selected)
         \/ \E months \in RangesOf[v] : Navigate(v, months),
         NEW w \in View, PaintedOf(w), ReportedOf(w)
  PROVE  Keeps(w)
<1>0. /\ range'[v] \X enabled'[v] \in SUBSET Key
      /\ w # v => range'[w] = range[w] /\ enabled'[w] = enabled[w]
      /\ painted \in [View -> [Calendar -> Picture]] /\ known \in [View -> SUBSET Calendar]
      /\ enabled[w] \subseteq known[w]
  BY ReloadKeys DEF ViewsInv, ViewsTypeInv
<1>1. CASE ReloadCurrentRange(v)
  <2>1. PICK callers :
          /\ Asking(cached, [painted EXCEPT ![v] = Blank], {<<v, c>> : c \in Calendar}, callers)
          /\ v \in callers
    BY <1>0, <1>1, ReloadAsks
  <2>2. CASE w = v
    BY <1>1, <2>1, <2>2, ReloadedKeeps
  <2>3. CASE w # v
    <3> DEFINE before == [painted EXCEPT ![v] = Blank]
               extra == {<<v, c>> : c \in Calendar}
    <3>1. /\ before \in [View -> [Calendar -> Picture]] /\ before[w] = painted[w]
          /\ \A c \in Calendar : <<w, c>> \notin extra
          /\ Asking(cached, before, extra, callers)
      BY <1>0, <2>1, <2>3, BlankType
    <3> HIDE DEF before, extra
    <3>2. /\ PaintedOf(w)' /\ ReportedOf(w)'
          /\ \A c \in Calendar : <<w, c>> \notin extra /\ Visible(w, c) => Visible(w, c)'
      BY <1>0, <2>3, <3>1, AskingKeeps
    <3> QED BY <3>1, <3>2 DEF Keeps
  <2> QED BY <2>2, <2>3
<1>2. CASE ~ReloadCurrentRange(v)
  <2>1. \E months \in RangesOf[v] : Navigate(v, months) /\ ~Ready(v)
    BY <1>2 DEF SetCalendars, Navigate
  <2>2. UNCHANGED <<cached, enabled, painted, owed>> /\ known[v] = {}
    BY <2>1 DEF Navigate, cacheVars, Ready
  <2>3. CASE w # v
    BY <1>0, <2>2, <2>3 DEF Keeps, PaintedOf, ReportedOf, Visible
  <2>4. CASE w = v
    <3>1. enabled[w] = {} /\ \A c \in Calendar : painted[w][c] = Nothing
      BY <1>0, <2>2, <2>4 DEF PaintedOf
    <3>2. ~owed[w]
      BY <3>1 DEF ReportedOf, Settled
    <3> QED BY <2>2, <3>1, <3>2 DEF Keeps, PaintedOf, ReportedOf, Visible
  <2> QED BY <2>3, <2>4
<1> QED BY <1>1, <1>2

LEMMA EnableKeeps ==
  ASSUME ViewsInv, ViewsInv', NEW d \in Calendar, EnableCalendar(d),
         NEW v \in View, PaintedOf(v), ReportedOf(v)
  PROVE  Keeps(v)
<1>1. PICK vs, callers :
        /\ vs \in SUBSET View
        /\ Asking(cached, painted, vs \X {d}, callers)
        /\ d \in known[v] => v \in callers
  BY EnableAsks
<1>2. /\ range'[v] = range[v] /\ painted \in [View -> [Calendar -> Picture]]
      /\ enabled'[v] = enabled[v] \cup ({d} \cap known[v])
  BY DEF EnableCalendar, EnabledWith, ViewsInv, ViewsTypeInv
<1>3. enabled[v] \subseteq enabled'[v] /\ (enabled'[v] = enabled[v] \/ v \in callers)
  BY <1>1, <1>2
<1> DEFINE extra == vs \X {d}
<1>4. \A c \in Calendar : c # d => <<v, c>> \notin extra
  OBVIOUS
<1>5. Asking(cached, painted, extra, callers)
  BY <1>1
<1> HIDE DEF extra
<1>6. /\ PaintedOf(v)' /\ ReportedOf(v)'
      /\ \A c \in Calendar : <<v, c>> \notin extra /\ Visible(v, c) => Visible(v, c)'
  BY <1>2, <1>3, <1>5, AskingKeeps
<1> QED BY <1>4, <1>6 DEF Keeps, Excuse

LEMMA AskedKeeps ==
  ASSUME ViewsInv, ViewsInv', NEW b, NEW callers, Asking(b, painted, {}, callers),
         UNCHANGED <<range, enabled>>, NEW v \in View, PaintedOf(v), ReportedOf(v)
  PROVE  Keeps(v)
<1>1. painted \in [View -> [Calendar -> Picture]]
  BY DEF ViewsInv, ViewsTypeInv
<1>2. PICK extra : extra = {}
  OBVIOUS
<1>3. /\ Asking(b, painted, extra, callers) /\ range'[v] = range[v]
      /\ enabled'[v] = enabled[v] /\ enabled[v] \subseteq enabled'[v]
  BY <1>2
<1>4. /\ PaintedOf(v)' /\ ReportedOf(v)'
      /\ \A c \in Calendar : <<v, c>> \notin extra /\ Visible(v, c) => Visible(v, c)'
  BY <1>1, <1>3, AskingKeeps
<1> QED BY <1>2, <1>4 DEF Keeps

LEMMA SignOutKeeps ==
  ASSUME SignOut, NEW v \in View
  PROVE  Keeps(v)
<1>1. ~owed'[v] /\ \A c \in Calendar : painted'[v][c] = Nothing
  BY BlankType DEF SignOut
<1> QED BY <1>1 DEF Keeps, PaintedOf, ReportedOf, Excuse

LEMMA OthersKeep ==
  ASSUME NEW v \in View, PaintedOf(v), ReportedOf(v),
         SessionChanges \/ (\E c \in Calendar : Edited(c)) \/ UNCHANGED vars
  PROVE  Keeps(v)
<1>1. UNCHANGED <<cached, range, enabled, painted, owed>>
  BY DEF SessionChanges, Edited, ServerEdit, viewVars, vars, cacheVars
<1> QED BY <1>1 DEF Keeps, PaintedOf, ReportedOf, Visible

LEMMA StepKeeps ==
  ASSUME ViewsInv, ViewsInv', PaintedIsCached, CycleReported, [Next]_vars, NEW v \in View
  PROVE  Keeps(v)
<1>0. PaintedOf(v) /\ ReportedOf(v)
  BY ByView
<1>1. ASSUME NEW w \in View,
             \/ \E list \in SUBSET Calendar \ {{}} :
                  \E selected \in SUBSET list : SetCalendars(w, list, selected)
             \/ \E months \in RangesOf[w] : Navigate(w, months)
      PROVE  Keeps(v)
  BY <1>0, <1>1, ReloadKeeps
<1>2. ASSUME NEW w \in View, RefreshVisibleFromServer(w) PROVE Keeps(v)
  BY <1>0, <1>2, RefreshAsks, AskedKeeps DEF RefreshVisibleFromServer
<1>3. ASSUME NEW c \in Calendar, EnableCalendar(c) PROVE Keeps(v)
  BY <1>0, <1>3, EnableKeeps
<1>4. ASSUME NEW c \in Calendar, DisableCalendar(c) PROVE Keeps(v)
  BY <1>0, <1>4, DisabledKeeps
<1>5. ASSUME NEW c \in Calendar, MutationAcked(c) PROVE Keeps(v)
  BY <1>0, <1>5, AckedAsks, AskedKeeps DEF MutationAcked
<1>6. ASSUME NEW k \in Key, OnBucketUpdated(k) PROVE Keeps(v)
  BY <1>0, <1>6, AnsweredKeeps
<1>7. ASSUME NEW k \in Key, OnBucketFetchFailed(k) PROVE Keeps(v)
  BY <1>0, <1>7, RefusedKeeps
<1>8. CASE SignOut
  BY <1>8, SignOutKeeps
<1>9. CASE SessionChanges \/ (\E c \in Calendar : Edited(c)) \/ UNCHANGED vars
  BY <1>0, <1>9, OthersKeep
<1> QED BY <1>1, <1>2, <1>3, <1>4, <1>5, <1>6, <1>7, <1>8, <1>9 DEF Next

-----------------------------------------------------------------------------
(* The theorems.                                                           *)

PaintingInv == ViewsInv /\ PaintedIsCached /\ CycleReported

LEMMA StepPaintingInv == PaintingInv /\ [Next]_vars => PaintingInv'
<1> SUFFICES ASSUME PaintingInv, [Next]_vars PROVE PaintingInv'
  OBVIOUS
<1>1. ViewsInv /\ ViewsInv' /\ PaintedIsCached /\ CycleReported
  BY StepViewsInv DEF PaintingInv
<1>2. ASSUME NEW v \in View PROVE PaintedOf(v)' /\ ReportedOf(v)'
  BY <1>1, StepKeeps DEF Keeps
<1>3. PaintedIsCached' /\ CycleReported'
  BY <1>2 DEF PaintedIsCached, CycleReported, PaintedOf, ReportedOf
<1> QED BY <1>1, <1>3 DEF PaintingInv

LEMMA PaintingAlways == Spec => []PaintingInv
<1>1. Init => PaintingInv
  BY InitViews DEF PaintingInv
<1> QED BY <1>1, StepPaintingInv, PTL DEF Spec

(* Every variable of the controllers, and of the cache, keeps its type.    *)
THEOREM TypeCorrect == Spec => []TypeOK
<1>1. PaintingInv => TypeOK
  BY ViewsInvImpliesType DEF PaintingInv
<1> QED BY <1>1, PaintingAlways, PTL

(* A view paints only what is enabled in it, and of a bucket the server    *)
(* confirmed exactly what the cache holds, for any number of views whose   *)
(* ranges overlap in any way (storebackedeventscontroller.cpp).            *)
THEOREM PaintedAlwaysCached == Spec => []PaintedIsCached
<1>1. PaintingInv => PaintedIsCached
  BY DEF PaintingInv
<1> QED BY <1>1, PaintingAlways, PTL

(* No path loses fetchCycleFinished(): a range that is settled owes no     *)
(* report (maybeEmitCycleFinished and each of its callers).                *)
THEOREM CycleAlwaysReported == Spec => []CycleReported
<1>1. PaintingInv => CycleReported
  BY DEF PaintingInv
<1> QED BY <1>1, PaintingAlways, PTL

(* Saving, polling and failures never blank what a view shows.             *)
THEOREM NeverBlanked == Spec => NoBlankFlash
<1> DEFINE A == \A v \in View, c \in Calendar :
                  Visible(v, c) /\ ~Visible(v, c)' =>
                    \/ \E k \in range[v] \X {c} : Answered(k)
                    \/ EnableCalendar(c) \/ DisableCalendar(c) \/ SignOut
                    \/ ReloadCurrentRange(v)
<1>1. PaintingInv /\ [Next]_vars => A
  <2> SUFFICES ASSUME PaintingInv, [Next]_vars, NEW v \in View PROVE Keeps(v)
    BY DEF Keeps, Excuse
  <2>1. ViewsInv /\ ViewsInv' /\ PaintedIsCached /\ CycleReported
    BY StepViewsInv DEF PaintingInv
  <2> QED BY <2>1, StepKeeps
<1>2. PaintingInv /\ [Next]_vars => [A]_vars
  BY <1>1
<1> HIDE DEF A
<1>3. Spec => [][A]_vars
  BY <1>2, PaintingAlways, PTL DEF Spec
<1> QED BY <1>3 DEF NoBlankFlash, A

(* The controllers use the shared cache only as BucketCache allows, which  *)
(* is what MonthEventStore implements: its promises hold for the views.    *)
THEOREM ViewsUseTheCache == Spec => CacheSpec
<1>1. Init => CacheInit
  BY DEF Init
<1>2. PaintingInv /\ [Next]_vars => [CacheNext]_cacheVars
  BY StepIsCache DEF PaintingInv
<1> QED BY <1>1, <1>2, PaintingAlways, PTL DEF Spec, CacheSpec

=============================================================================
