------------------------- MODULE MonthEventStore_proofs -------------------------
(***************************************************************************)
(* Proofs about MonthEventStore, for any months, calendars, request ids,   *)
(* view ranges and edit bound.                                             *)
(*                                                                         *)
(* Every handler that talks to the network ends in FetchBuckets, applied   *)
(* to a table of buckets and an index that may already have been changed   *)
(* (hydrated, or stripped of an invalidated calendar).  The lemmas are     *)
(* therefore about tables: Linked(b, index) says that b and index agree    *)
(* with each other and with the requests under way.                        *)
(***************************************************************************)
EXTENDS MonthEventStore, TLAPS

Tables == [Key -> Bucket]
Indexes == [RequestId -> Key \cup {NoBucket}]

Coming(r, c) ==
  \/ [id |-> r, calendar |-> c] \in wire
  \/ \E p \in posted : p.id = r /\ p.calendar = c

LinkedBucket(b, index, k) ==
  /\ b[k].state = "InFlight" <=> b[k].requestId # NoRequest
  /\ b[k].requestId # NoRequest => index[b[k].requestId] = k

LinkedRequest(b, index, r) ==
  index[r] # NoBucket => b[index[r]].requestId = r /\ Coming(r, index[r][2])

Linked(b, index) ==
  /\ \A k \in Key : LinkedBucket(b, index, k)
  /\ \A r \in RequestId : LinkedRequest(b, index, r)

LEMMA LinkedIsIndexConsistent ==
  IndexConsistent <=> Linked(bucket, bucketByRequestId) /\ OneOutcomePerRequest
BY DEF IndexConsistent, BucketIndexed, RequestIndexed, Linked, LinkedBucket,
       LinkedRequest, Coming

-----------------------------------------------------------------------------
(* Lemmas about the operators on tables.                                   *)

LEMMA EmptyBucketType == EmptyBucket \in Bucket
BY DEF EmptyBucket, Bucket, NoEvents, Snapshot

LEMMA HydratedType ==
  ASSUME NEW b \in Tables, NEW d \in [Key -> Snapshot \cup {NoFile}], NEW keys
  PROVE  Hydrated(b, d, keys) \in Tables
BY DEF Hydrated, Tables, Bucket

(* Hydration gives a bucket something to show and starts no request.       *)
LEMMA HydratedLinked ==
  ASSUME NEW b \in Tables, NEW d, NEW keys, NEW index \in Indexes, Linked(b, index)
  PROVE  Linked(Hydrated(b, d, keys), index)
<1> DEFINE h == Hydrated(b, d, keys)
<1>1. \A k \in Key : /\ h[k].requestId = b[k].requestId
                     /\ h[k].state = "InFlight" <=> b[k].state = "InFlight"
  BY DEF Hydrated, Tables, Bucket
<1>2. \A k \in Key : LinkedBucket(h, index, k)
  BY <1>1 DEF Linked, LinkedBucket
<1>3. \A r \in RequestId : LinkedRequest(h, index, r)
  BY <1>1 DEF Linked, LinkedRequest, Indexes
<1> QED BY <1>2, <1>3 DEF Linked

(* Dropping buckets together with their ids leaves the rest linked.        *)
LEMMA WithoutLinked ==
  ASSUME TypeOK, Linked(bucket, bucketByRequestId), NEW gone \in SUBSET Key
  PROVE  /\ BucketsWithout(gone) \in Tables
         /\ IndexWithout(gone) \in Indexes
         /\ Linked(BucketsWithout(gone), IndexWithout(gone))
         /\ \A r \in RequestId : IndexWithout(gone)[r] # NoBucket =>
              IndexWithout(gone)[r] = bucketByRequestId[r] /\ bucketByRequestId[r] \notin gone
<1> DEFINE b == BucketsWithout(gone)
           i == IndexWithout(gone)
<1>1. b \in Tables
  BY EmptyBucketType DEF TypeOK, BucketsWithout, Tables
<1>2. i \in Indexes
  BY DEF TypeOK, IndexWithout, Indexes
<1>3. ASSUME NEW r \in RequestId, i[r] # NoBucket
      PROVE  /\ i[r] = bucketByRequestId[r]
             /\ bucketByRequestId[r] \in Key \ gone
             /\ bucket[bucketByRequestId[r]].requestId = r
             /\ Coming(r, bucketByRequestId[r][2])
  <2>1. i[r] = bucketByRequestId[r] /\ \A k \in gone : bucket[k].requestId # r
    BY <1>3 DEF IndexWithout
  <2>2. bucketByRequestId[r] \in Key
    BY <1>3, <2>1 DEF TypeOK
  <2> QED BY <1>3, <2>1, <2>2 DEF Linked, LinkedRequest
<1>4. ASSUME NEW k \in Key PROVE LinkedBucket(b, i, k)
  <2>1. CASE k \in gone
    BY <2>1 DEF BucketsWithout, EmptyBucket, LinkedBucket
  <2>2. CASE k \notin gone
    <3>1. b[k] = bucket[k] /\ LinkedBucket(bucket, bucketByRequestId, k)
      BY <2>2 DEF BucketsWithout, Linked
    <3>2. ASSUME bucket[k].requestId # NoRequest
          PROVE  i[bucket[k].requestId] = k
      <4>1. bucket[k].requestId \in RequestId
        BY <3>2 DEF TypeOK, Bucket
      <4>2. \A j \in gone : bucket[j].requestId # bucket[k].requestId
        BY <2>2, <3>1, <3>2 DEF Linked, LinkedBucket
      <4> QED BY <3>1, <3>2, <4>1, <4>2 DEF IndexWithout, LinkedBucket
    <3> QED BY <3>1, <3>2 DEF LinkedBucket
  <2> QED BY <2>1, <2>2
<1>5. ASSUME NEW r \in RequestId PROVE LinkedRequest(b, i, r)
  BY <1>3 DEF BucketsWithout, LinkedRequest
<1> QED BY <1>1, <1>2, <1>3, <1>4, <1>5 DEF Linked

(* The heart of the matter: starting fetches for buckets that have none    *)
(* keeps tables typed and linked, because a new id is one nobody uses.     *)
LEMMA FetchBucketsLinked ==
  ASSUME TypeOK, OneOutcomePerRequest,
         NEW b \in Tables, NEW index \in Indexes, NEW keys \in SUBSET Key,
         Linked(b, index),
         \A r \in RequestId : index[r] # NoBucket => bucketByRequestId[r] # NoBucket,
         \A k \in keys : b[k].state # "InFlight",
         FetchBuckets(b, index, keys), posted' = posted
  PROVE  /\ bucket' \in Tables
         /\ bucketByRequestId' \in Indexes
         /\ wire' \in SUBSET Fetch
         /\ Linked(bucket, bucketByRequestId)'
         /\ OneOutcomePerRequest'
         /\ \A k \in Key : /\ bucket'[k].events = b[k].events
                           /\ bucket'[k].fetchedAt = b[k].fetchedAt
                           /\ bucket'[k].fromDiskPendingRefresh = b[k].fromDiskPendingRefresh
         /\ \A p \in posted : bucketByRequestId'[p.id] = index[p.id]
<1>1. PICK ids \in NewIds(keys) :
        /\ bucket' = [k \in Key |->
             IF k \in keys
             THEN [b[k] EXCEPT !.state = "InFlight", !.requestId = ids[k]]
             ELSE b[k]]
        /\ bucketByRequestId' = [r \in RequestId |->
             IF \E k \in keys : ids[k] = r
             THEN CHOOSE k \in keys : ids[k] = r
             ELSE Superseded(b, keys, index)[r]]
        /\ wire' = wire \cup {[id |-> ids[k], calendar |-> k[2]] : k \in keys}
  BY DEF FetchBuckets
<1>2. /\ ids \in [keys -> RequestId]
      /\ \A k \in keys : ids[k] \in RequestId /\ ids[k] \notin IdsInUse
      /\ \A j, k \in keys : ids[j] = ids[k] => j = k
  BY DEF NewIds
<1>3. \A k \in keys : b[k].requestId = NoRequest
  BY DEF Linked, LinkedBucket
<1>4. /\ \A k \in keys : bucketByRequestId'[ids[k]] = k
      /\ \A r \in RequestId : (\A k \in keys : ids[k] # r) => bucketByRequestId'[r] = index[r]
  <2>1. ASSUME NEW k \in keys PROVE bucketByRequestId'[ids[k]] = k
    <3>1. \A j \in keys : ids[j] = ids[k] => j = k
      BY <1>2
    <3>2. (CHOOSE j \in keys : ids[j] = ids[k]) = k
      BY <3>1
    <3> QED BY <1>1, <1>2, <3>2
  <2>2. ASSUME NEW r \in RequestId, \A k \in keys : ids[k] # r
        PROVE  bucketByRequestId'[r] = index[r]
    <3>1. \A k \in keys : b[k].requestId # r
      BY <1>3, ConstantsAssumption
    <3>2. Superseded(b, keys, index)[r] = index[r]
      BY <3>1 DEF Superseded
    <3> QED BY <1>1, <2>2, <3>2
  <2> QED BY <2>1, <2>2
<1>5. \A k \in keys : /\ bucketByRequestId[ids[k]] = NoBucket
                      /\ index[ids[k]] = NoBucket
                      /\ \A f \in wire : f.id # ids[k]
                      /\ \A p \in posted : p.id # ids[k]
  BY <1>2 DEF IdsInUse
<1>6. bucket' \in Tables
  <2>1. ASSUME NEW k \in keys
        PROVE  [b[k] EXCEPT !.state = "InFlight", !.requestId = ids[k]] \in Bucket
    <3>1. b[k] \in Bucket /\ ids[k] \in RequestId
      BY <1>2 DEF Tables
    <3> QED BY <3>1 DEF Bucket
  <2>2. \A k \in Key : b[k] \in Bucket
    BY DEF Tables
  <2> QED BY <1>1, <2>1, <2>2, Zenon DEF Tables
<1>7. bucketByRequestId' \in Indexes
  <2>1. bucketByRequestId' = [r \in RequestId |-> bucketByRequestId'[r]]
    BY <1>1
  <2>2. ASSUME NEW r \in RequestId PROVE bucketByRequestId'[r] \in Key \cup {NoBucket}
    <3>1. CASE \E k \in keys : ids[k] = r
      BY <1>4, <3>1
    <3>2. CASE \A k \in keys : ids[k] # r
      BY <1>4, <3>2 DEF Indexes
    <3> QED BY <3>1, <3>2
  <2> QED BY <2>1, <2>2 DEF Indexes
<1>8. wire' \in SUBSET Fetch
  <2>1. \A k \in keys : [id |-> ids[k], calendar |-> k[2]] \in Fetch
    BY <1>2 DEF Fetch, Key
  <2> QED BY <1>1, <2>1 DEF TypeOK
<1>9. \A k \in Key : /\ bucket'[k].events = b[k].events
                     /\ bucket'[k].fetchedAt = b[k].fetchedAt
                     /\ bucket'[k].fromDiskPendingRefresh = b[k].fromDiskPendingRefresh
  BY <1>1 DEF Tables, Bucket
<1>10. \A k \in Key : IF k \in keys
                      THEN bucket'[k].state = "InFlight" /\ bucket'[k].requestId = ids[k]
                      ELSE bucket'[k] = b[k]
  BY <1>1 DEF Tables, Bucket
<1>11. ASSUME NEW k \in Key PROVE LinkedBucket(bucket, bucketByRequestId, k)'
  <2>1. CASE k \in keys
    BY <1>2, <1>4, <1>10, <2>1, ConstantsAssumption DEF LinkedBucket
  <2>2. CASE k \notin keys
    <3>1. bucket'[k] = b[k] /\ LinkedBucket(b, index, k)
      BY <1>10, <2>2 DEF Linked
    <3>2. ASSUME b[k].requestId # NoRequest
          PROVE  bucketByRequestId'[b[k].requestId] = k
      <4>1. b[k].requestId \in RequestId /\ index[b[k].requestId] = k
        BY <3>1, <3>2 DEF LinkedBucket, Tables, Bucket
      <4>2. \A j \in keys : ids[j] # b[k].requestId
        BY <1>5, <4>1, ConstantsAssumption
      <4> QED BY <1>4, <4>1, <4>2
    <3> QED BY <3>1, <3>2 DEF LinkedBucket
  <2> QED BY <2>1, <2>2
<1>12. ASSUME NEW r \in RequestId PROVE LinkedRequest(bucket, bucketByRequestId, r)'
  <2>1. CASE \E k \in keys : ids[k] = r
    <3>1. PICK k \in keys : ids[k] = r
      BY <2>1
    <3>2. bucketByRequestId'[r] = k /\ bucket'[k].requestId = r
      BY <1>4, <1>10, <3>1
    <3>3. [id |-> r, calendar |-> k[2]] \in wire'
      BY <1>1, <3>1
    <3> QED BY <3>2, <3>3 DEF LinkedRequest, Coming
  <2>2. CASE \A k \in keys : ids[k] # r
    <3>1. bucketByRequestId'[r] = index[r] /\ LinkedRequest(b, index, r)
      BY <1>4, <2>2 DEF Linked
    <3>2. ASSUME index[r] # NoBucket
          PROVE  bucket'[index[r]].requestId = r /\ Coming(r, index[r][2])'
      <4>1. b[index[r]].requestId = r /\ Coming(r, index[r][2]) /\ index[r] \in Key
        BY <3>1, <3>2 DEF LinkedRequest, Indexes
      <4>2. index[r] \notin keys
        BY <1>3, <4>1, ConstantsAssumption
      <4>3. bucket'[index[r]].requestId = r
        BY <1>10, <4>1, <4>2
      <4>4. Coming(r, index[r][2])'
        BY <1>1, <3>1, <4>1 DEF Coming
      <4> QED BY <4>3, <4>4
    <3> QED BY <3>1, <3>2 DEF LinkedRequest
  <2> QED BY <2>1, <2>2
<1>13. OneOutcomePerRequest'
  <2>0. ASSUME NEW f \in wire', f \notin wire
        PROVE  /\ \A g \in wire : g.id # f.id
               /\ \A p \in posted : p.id # f.id
    <3>1. PICK k \in keys : f = [id |-> ids[k], calendar |-> k[2]]
      BY <1>1, <2>0
    <3> QED BY <1>5, <3>1
  <2>1. ASSUME NEW f \in wire', NEW g \in wire', f.id = g.id PROVE f = g
    <3>1. CASE f \in wire /\ g \in wire
      BY <2>1, <3>1 DEF OneOutcomePerRequest
    <3>2. CASE f \notin wire /\ g \notin wire
      <4>1. PICK j \in keys : f = [id |-> ids[j], calendar |-> j[2]]
        BY <1>1, <3>2
      <4>2. PICK k \in keys : g = [id |-> ids[k], calendar |-> k[2]]
        BY <1>1, <3>2
      <4> QED BY <1>2, <2>1, <4>1, <4>2
    <3>3. CASE f \in wire /\ g \notin wire
      BY <2>1, <2>0, <3>3
    <3>4. CASE f \notin wire /\ g \in wire
      BY <2>1, <2>0, <3>4
    <3> QED BY <3>1, <3>2, <3>3, <3>4
  <2>2. \A f \in wire', p \in posted' : f.id # p.id
    <3>1. ASSUME NEW f \in wire', NEW p \in posted PROVE f.id # p.id
      <4>1. CASE f \in wire
        BY <4>1 DEF OneOutcomePerRequest
      <4>2. CASE f \notin wire
        BY <2>0, <4>2
      <4> QED BY <4>1, <4>2
    <3> QED BY <3>1
  <2>3. \A p, q \in posted' : p.id = q.id => p = q
    BY DEF OneOutcomePerRequest
  <2> QED BY <2>1, <2>2, <2>3 DEF OneOutcomePerRequest
<1>14. \A p \in posted : bucketByRequestId'[p.id] = index[p.id]
  <2>1. \A p \in posted : p.id \in RequestId
    BY DEF TypeOK, Result
  <2> QED BY <1>4, <1>5, <2>1
<1>15. Linked(bucket, bucketByRequestId)'
  BY <1>11, <1>12 DEF Linked
<1> QED BY <1>6, <1>7, <1>8, <1>9, <1>13, <1>14, <1>15

-----------------------------------------------------------------------------
(* Types and the request index.                                            *)

(* ensureMonths on a table that was linked leaves everything typed and     *)
(* linked; what buckets hold is what hydration gave them.                  *)
LEMMA EnsureBucketsLinked ==
  ASSUME TypeOK, OneOutcomePerRequest,
         NEW b \in Tables, NEW index \in Indexes,
         NEW d \in [Key -> Snapshot \cup {NoFile}], NEW keys \in SUBSET Key,
         Linked(b, index),
         \A r \in RequestId : index[r] # NoBucket => bucketByRequestId[r] # NoBucket,
         EnsureBuckets(b, index, d, keys), posted' = posted
  PROVE  /\ bucket' \in Tables
         /\ bucketByRequestId' \in Indexes
         /\ wire' \in SUBSET Fetch
         /\ Linked(bucket, bucketByRequestId)'
         /\ OneOutcomePerRequest'
         /\ \A k \in Key :
              /\ bucket'[k].events = Hydrated(b, d, keys)[k].events
              /\ bucket'[k].fetchedAt = Hydrated(b, d, keys)[k].fetchedAt
              /\ bucket'[k].fromDiskPendingRefresh
                   = Hydrated(b, d, keys)[k].fromDiskPendingRefresh
         /\ \A p \in posted : bucketByRequestId'[p.id] = index[p.id]
<1> DEFINE h == Hydrated(b, d, keys)
           need == {k \in keys : BucketNeedsFetch(h[k])}
<1>1. h \in Tables /\ Linked(h, index)
  BY HydratedType, HydratedLinked
<1>2. need \in SUBSET Key /\ \A k \in need : h[k].state # "InFlight"
  BY DEF BucketNeedsFetch
<1>3. FetchBuckets(h, index, need)
  BY DEF EnsureBuckets
<1> HIDE DEF h, need
<1>4. /\ bucket' \in Tables
      /\ bucketByRequestId' \in Indexes
      /\ wire' \in SUBSET Fetch
      /\ Linked(bucket, bucketByRequestId)'
      /\ OneOutcomePerRequest'
      /\ \A k \in Key : /\ bucket'[k].events = h[k].events
                        /\ bucket'[k].fetchedAt = h[k].fetchedAt
                        /\ bucket'[k].fromDiskPendingRefresh = h[k].fromDiskPendingRefresh
      /\ \A p \in posted : bucketByRequestId'[p.id] = index[p.id]
  BY <1>1, <1>2, <1>3, FetchBucketsLinked
<1> QED BY <1>4 DEF h

LEMMA FilesAfterRemovingType ==
  ASSUME TypeOK, NEW gone \in SUBSET Key, NEW d \in FilesAfterRemoving(gone)
  PROVE  /\ d \in [Key -> Snapshot \cup {NoFile}]
         /\ \A k \in Key : d[k] # NoFile => d[k] = disk[k]
         /\ ~RemoveCanFail => \A k \in gone : d[k] = NoFile
BY DEF TypeOK, FilesAfterRemoving, FilesWithout

(* The bucket an accepted result belongs to.                               *)
LEMMA AcceptedResult ==
  ASSUME TypeOK, IndexConsistent, NEW p \in posted, bucketByRequestId[p.id] # NoBucket
  PROVE  /\ p.id \in RequestId /\ p.calendar \in Calendar
         /\ bucketByRequestId[p.id] \in Key
         /\ <<bucketByRequestId[p.id][1], p.calendar>> = bucketByRequestId[p.id]
         /\ bucket[bucketByRequestId[p.id]].requestId = p.id
         /\ p.events \in Snapshot
<1>1. p \in Result /\ p.id \in RequestId /\ p.calendar \in Calendar /\ p.events \in Snapshot
  BY DEF TypeOK, Result
<1>2. RequestIndexed(p.id) /\ bucketByRequestId[p.id] \in Key
  BY <1>1 DEF IndexConsistent, TypeOK
<1>3. p.calendar = bucketByRequestId[p.id][2]
  <2>1. [id |-> p.id, calendar |-> bucketByRequestId[p.id][2]] \notin wire
    BY DEF IndexConsistent, OneOutcomePerRequest
  <2>2. PICK q \in posted : q.id = p.id /\ q.calendar = bucketByRequestId[p.id][2]
    BY <1>2, <2>1 DEF RequestIndexed
  <2> QED BY <2>2 DEF IndexConsistent, OneOutcomePerRequest
<1>4. <<bucketByRequestId[p.id][1], bucketByRequestId[p.id][2]>> = bucketByRequestId[p.id]
  BY <1>2 DEF Key
<1> QED BY <1>1, <1>2, <1>3, <1>4 DEF RequestIndexed

(* Handling an accepted result: its bucket takes the new value nb, which   *)
(* has no request any more, and the id leaves the index.                   *)
LEMMA HandledLinked ==
  ASSUME TypeOK, IndexConsistent, NEW p \in posted, bucketByRequestId[p.id] # NoBucket,
         NEW nb \in Bucket, nb.requestId = NoRequest, nb.state # "InFlight",
         bucket' = [bucket EXCEPT ![bucketByRequestId[p.id]] = nb],
         bucketByRequestId' = [bucketByRequestId EXCEPT ![p.id] = NoBucket],
         posted' = posted \ {p}, wire' = wire
  PROVE  /\ bucket' \in Tables
         /\ bucketByRequestId' \in Indexes
         /\ posted' \in SUBSET Result
         /\ IndexConsistent'
<1> DEFINE h == bucketByRequestId[p.id]
<1>1. p.id \in RequestId /\ h \in Key /\ bucket[h].requestId = p.id
  BY AcceptedResult
<1>2. bucket' \in Tables /\ bucketByRequestId' \in Indexes /\ posted' \in SUBSET Result
  BY DEF TypeOK, Tables, Indexes
<1>3. /\ bucket'[h] = nb
      /\ \A k \in Key : k # h => bucket'[k] = bucket[k]
      /\ bucketByRequestId'[p.id] = NoBucket
      /\ \A r \in RequestId : r # p.id => bucketByRequestId'[r] = bucketByRequestId[r]
  BY <1>1 DEF TypeOK
<1>4. ASSUME NEW k \in Key PROVE BucketIndexed(k)'
  <2>1. CASE k = h
    BY <1>3, <2>1 DEF BucketIndexed
  <2>2. CASE k # h
    <3>1. bucket'[k] = bucket[k] /\ BucketIndexed(k)
      BY <1>3, <2>2 DEF IndexConsistent
    <3>2. bucket[k].requestId # p.id
      BY <1>1, <2>2, <3>1, ConstantsAssumption DEF BucketIndexed
    <3>3. bucket[k].requestId # NoRequest => bucket[k].requestId \in RequestId
      BY DEF TypeOK, Bucket
    <3> QED BY <1>3, <3>1, <3>2, <3>3 DEF BucketIndexed
  <2> QED BY <2>1, <2>2
<1>5. ASSUME NEW r \in RequestId PROVE RequestIndexed(r)'
  <2>1. CASE r = p.id
    BY <1>3, <2>1 DEF RequestIndexed
  <2>2. CASE r # p.id
    <3>1. RequestIndexed(r) /\ bucketByRequestId'[r] = bucketByRequestId[r]
      BY <1>3, <2>2 DEF IndexConsistent
    <3>2. ASSUME bucketByRequestId[r] # NoBucket
          PROVE  bucket'[bucketByRequestId[r]].requestId = r
      <4>1. bucketByRequestId[r] \in Key
        BY <3>2 DEF TypeOK
      <4>2. bucketByRequestId[r] # h
        BY <1>1, <2>2, <3>1, <3>2 DEF RequestIndexed
      <4> QED BY <1>3, <3>1, <3>2, <4>1, <4>2 DEF RequestIndexed
    <3>3. \A q \in posted : q.id = r => q \in posted'
      BY <2>2
    <3> QED BY <3>1, <3>2, <3>3 DEF RequestIndexed
  <2> QED BY <2>1, <2>2
<1>6. OneOutcomePerRequest'
  BY DEF IndexConsistent, OneOutcomePerRequest
<1> QED BY <1>2, <1>4, <1>5, <1>6 DEF IndexConsistent

LEMMA InitTypeIndex == Init => TypeOK /\ IndexConsistent
<1> SUFFICES ASSUME Init PROVE TypeOK /\ IndexConsistent
  OBVIOUS
<1>1. TypeOK
  BY EmptyBucketType DEF Init, TypeOK
<1>2. IndexConsistent
  BY DEF Init, EmptyBucket, IndexConsistent, BucketIndexed, RequestIndexed,
         OneOutcomePerRequest
<1> QED BY <1>1, <1>2

LEMMA StepTypeIndex ==
  TypeOK /\ IndexConsistent /\ [Next]_vars => TypeOK' /\ IndexConsistent'
<1> SUFFICES ASSUME TypeOK, IndexConsistent, [Next]_vars
             PROVE  TypeOK' /\ IndexConsistent'
  OBVIOUS
<1>0. /\ bucket \in Tables /\ bucketByRequestId \in Indexes
      /\ Linked(bucket, bucketByRequestId) /\ OneOutcomePerRequest
  BY LinkedIsIndexConsistent DEF TypeOK, Tables, Indexes
<1>a. ASSUME bucket' \in Tables, bucketByRequestId' \in Indexes, wire' \in SUBSET Fetch,
             Linked(bucket, bucketByRequestId)', OneOutcomePerRequest',
             posted' = posted, disk' \in [Key -> Snapshot \cup {NoFile}],
             version' = version, sessionStart' = sessionStart,
             unacked' \in SUBSET Edit, acked' \in [Calendar -> Nat]
      PROVE  TypeOK' /\ IndexConsistent'
  <2>1. TypeOK'
    BY <1>a DEF TypeOK, Tables, Indexes
  <2>2. IndexConsistent'
    BY <1>a DEF IndexConsistent, BucketIndexed, RequestIndexed, Linked, LinkedBucket,
                LinkedRequest, Coming
  <2> QED BY <2>1, <2>2
<1>1. ASSUME NEW months \in ViewRange, NEW calendars \in SUBSET Calendar,
             EnsureMonths(months, calendars)
      PROVE  TypeOK' /\ IndexConsistent'
  <2>1. months \X calendars \in SUBSET Key
    BY ConstantsAssumption DEF Key
  <2>2. EnsureBuckets(bucket, bucketByRequestId, disk, months \X calendars)
    BY <1>1 DEF EnsureMonths
  <2>3. posted' = posted /\ disk' = disk /\ UNCHANGED serverVars
    BY <1>1 DEF EnsureMonths
  <2>4. disk \in [Key -> Snapshot \cup {NoFile}]
    BY DEF TypeOK
  <2>5. /\ bucket' \in Tables /\ bucketByRequestId' \in Indexes /\ wire' \in SUBSET Fetch
        /\ Linked(bucket, bucketByRequestId)' /\ OneOutcomePerRequest'
    BY <1>0, <2>1, <2>2, <2>3, <2>4, EnsureBucketsLinked
  <2> QED BY <1>a, <2>3, <2>4, <2>5 DEF serverVars, TypeOK
<1>2. ASSUME NEW months \in ViewRange, NEW calendars \in SUBSET Calendar,
             RefreshVisible(months, calendars)
      PROVE  TypeOK' /\ IndexConsistent'
  <2> DEFINE keys == months \X calendars
             h == Hydrated(bucket, disk, keys)
             idle == {k \in keys : h[k].state # "InFlight"}
  <2>1. idle \in SUBSET Key /\ \A k \in idle : h[k].state # "InFlight"
    BY ConstantsAssumption DEF Key
  <2>2. FetchBuckets(h, bucketByRequestId, idle)
    BY <1>2 DEF RefreshVisible
  <2>3. posted' = posted /\ disk' = disk /\ UNCHANGED serverVars
    BY <1>2 DEF RefreshVisible
  <2>4. h \in Tables /\ Linked(h, bucketByRequestId)
    BY <1>0, HydratedType, HydratedLinked DEF TypeOK
  <2> HIDE DEF h, idle
  <2>5. /\ bucket' \in Tables /\ bucketByRequestId' \in Indexes /\ wire' \in SUBSET Fetch
        /\ Linked(bucket, bucketByRequestId)' /\ OneOutcomePerRequest'
    BY <1>0, <2>1, <2>2, <2>3, <2>4, FetchBucketsLinked
  <2> QED BY <1>a, <2>3, <2>5 DEF serverVars, TypeOK
<1>3. ASSUME NEW f \in wire, ServerAnswers(f) \/ FetchFails(f)
      PROVE  TypeOK' /\ IndexConsistent'
  <2>1. /\ wire' = wire \ {f}
        /\ UNCHANGED <<bucket, bucketByRequestId, disk, serverVars>>
    BY <1>3 DEF ServerAnswers, FetchFails
  <2>2. PICK p \in Result : p.id = f.id /\ p.calendar = f.calendar
                            /\ posted' = posted \cup {p}
    <3>0. f \in Fetch /\ f.id \in RequestId /\ f.calendar \in Calendar
          /\ version[f.calendar] \in Nat
      BY DEF TypeOK, Fetch
    <3>1. CASE ServerAnswers(f)
      BY <3>0, <3>1 DEF ServerAnswers, Result, Snapshot
    <3>2. CASE FetchFails(f)
      BY <3>0, <3>2 DEF FetchFails, Result, Snapshot, NoEvents
    <3> QED BY <1>3, <3>1, <3>2
  <2>3. TypeOK'
    BY <2>1, <2>2 DEF TypeOK, serverVars
  <2>4. \A k \in Key : BucketIndexed(k)'
    BY <2>1 DEF IndexConsistent, BucketIndexed
  <2>5. ASSUME NEW r \in RequestId PROVE RequestIndexed(r)'
    <3>1. ASSUME bucketByRequestId[r] # NoBucket,
                 [id |-> r, calendar |-> bucketByRequestId[r][2]] \in wire
          PROVE  \/ [id |-> r, calendar |-> bucketByRequestId[r][2]] \in wire'
                 \/ p.id = r /\ p.calendar = bucketByRequestId[r][2]
      BY <2>1, <2>2, <3>1
    <3>2. RequestIndexed(r) /\ \A q \in posted : q \in posted'
      BY <2>2 DEF IndexConsistent
    <3> QED BY <2>1, <2>2, <3>1, <3>2 DEF RequestIndexed
  <2>6. OneOutcomePerRequest'
    <3>1. \A q \in posted : q.id # f.id
      BY DEF IndexConsistent, OneOutcomePerRequest
    <3>2. \A g \in wire' : g.id # f.id /\ g \in wire
      BY <2>1 DEF IndexConsistent, OneOutcomePerRequest
    <3> QED BY <2>1, <2>2, <3>1, <3>2 DEF IndexConsistent, OneOutcomePerRequest
  <2> QED BY <2>3, <2>4, <2>5, <2>6 DEF IndexConsistent
<1>4. ASSUME NEW p \in posted, OnEventsFetched(p) PROVE TypeOK' /\ IndexConsistent'
  <2> DEFINE k == bucketByRequestId[p.id]
             nb == [state |-> "Loaded", events |-> p.events, fetchedAt |-> "recent",
                    requestId |-> NoRequest, fromDiskPendingRefresh |-> FALSE]
  <2>1. bucketByRequestId[p.id] # NoBucket
    BY <1>4 DEF OnEventsFetched
  <2>2. k \in Key /\ <<k[1], p.calendar>> = k /\ p.events \in Snapshot
    BY <2>1, AcceptedResult
  <2>3. nb \in Bucket /\ nb.requestId = NoRequest /\ nb.state # "InFlight"
    BY <2>2 DEF Bucket
  <2>4. /\ bucket' = [bucket EXCEPT ![k] = nb]
        /\ bucketByRequestId' = [bucketByRequestId EXCEPT ![p.id] = NoBucket]
        /\ posted' = posted \ {p} /\ wire' = wire /\ UNCHANGED serverVars
        /\ disk' \in {disk, [disk EXCEPT ![k] = p.events]}
    BY <1>4, <2>2 DEF OnEventsFetched, StoreBucket
  <2> HIDE DEF nb
  <2>5. bucket' \in Tables /\ bucketByRequestId' \in Indexes /\ posted' \in SUBSET Result
        /\ IndexConsistent'
    BY <2>1, <2>3, <2>4, HandledLinked
  <2>6. disk' \in [Key -> Snapshot \cup {NoFile}]
    BY <2>2, <2>4 DEF TypeOK
  <2> QED BY <2>4, <2>5, <2>6 DEF TypeOK, Tables, Indexes, serverVars
<1>5. ASSUME NEW p \in posted, OnEventsFetchFailed(p) PROVE TypeOK' /\ IndexConsistent'
  <2> DEFINE k == bucketByRequestId[p.id]
             nb == AfterFailure(bucket[k])
  <2>1. bucketByRequestId[p.id] # NoBucket
    BY <1>5 DEF OnEventsFetchFailed
  <2>2. k \in Key /\ <<k[1], p.calendar>> = k
    BY <2>1, AcceptedResult
  <2>3. nb \in Bucket /\ nb.requestId = NoRequest /\ nb.state # "InFlight"
    <3>1. bucket[k] \in Bucket
      BY <2>2 DEF TypeOK
    <3> QED BY <3>1 DEF AfterFailure, Bucket
  <2>4. /\ bucket' = [bucket EXCEPT ![k] = nb]
        /\ bucketByRequestId' = [bucketByRequestId EXCEPT ![p.id] = NoBucket]
        /\ posted' = posted \ {p} /\ wire' = wire /\ disk' = disk /\ UNCHANGED serverVars
    BY <1>5, <2>2 DEF OnEventsFetchFailed
  <2> HIDE DEF nb
  <2>5. bucket' \in Tables /\ bucketByRequestId' \in Indexes /\ posted' \in SUBSET Result
        /\ IndexConsistent'
    BY <2>1, <2>3, <2>4, HandledLinked
  <2> QED BY <2>4, <2>5 DEF TypeOK, Tables, Indexes, serverVars
<1>6. ASSUME NEW p \in posted, DropResult(p) PROVE TypeOK' /\ IndexConsistent'
  <2>1. /\ bucketByRequestId[p.id] = NoBucket /\ posted' = posted \ {p}
        /\ UNCHANGED <<bucket, bucketByRequestId, wire, disk, serverVars>>
    BY <1>6 DEF DropResult
  <2>2. TypeOK'
    BY <2>1 DEF TypeOK, serverVars
  <2>3. \A r \in RequestId : RequestIndexed(r)'
    BY <2>1 DEF IndexConsistent, RequestIndexed
  <2>4. (\A k \in Key : BucketIndexed(k)') /\ OneOutcomePerRequest'
    BY <2>1 DEF IndexConsistent, BucketIndexed, OneOutcomePerRequest
  <2> QED BY <2>2, <2>3, <2>4 DEF IndexConsistent
<1>7. ASSUME NEW c \in Calendar, ApplyLocalEdit(c) \/ ApplyRemoteEdit(c)
      PROVE  TypeOK' /\ IndexConsistent'
  <2>1. UNCHANGED <<bucket, bucketByRequestId, wire, posted, disk, acked, sessionStart>>
    BY <1>7 DEF ApplyLocalEdit, ApplyRemoteEdit
  <2>2. version' \in [Calendar -> Nat] /\ unacked' \in SUBSET Edit
    BY <1>7 DEF ApplyLocalEdit, ApplyRemoteEdit, TypeOK, Edit
  <2>3. TypeOK'
    BY <2>1, <2>2 DEF TypeOK
  <2>4. IndexConsistent'
    BY <2>1 DEF IndexConsistent, BucketIndexed, RequestIndexed, OneOutcomePerRequest
  <2> QED BY <2>3, <2>4
<1>8. ASSUME NEW e \in unacked, NEW months \in SUBSET Month, MutationAcked(e, months)
      PROVE  TypeOK' /\ IndexConsistent'
  <2> DEFINE gone == {k \in Key : k[2] = e.calendar}
             keys == months \X {e.calendar}
  <2>1. e.calendar \in Calendar /\ e.version \in Nat
    BY DEF TypeOK, Edit
  <2>2. PICK d \in FilesAfterRemoving(gone) :
          /\ disk' = d
          /\ EnsureBuckets(BucketsWithout(gone), IndexWithout(gone), d, keys)
    BY <1>8 DEF MutationAcked
  <2>3. /\ posted' = posted /\ version' = version /\ sessionStart' = sessionStart
        /\ unacked' \in SUBSET Edit /\ acked' \in [Calendar -> Nat]
    BY <1>8, <2>1 DEF MutationAcked, TypeOK
  <2>4. gone \in SUBSET Key /\ keys \in SUBSET Key
    BY <2>1 DEF Key
  <2> HIDE DEF gone, keys
  <2>5. d \in [Key -> Snapshot \cup {NoFile}]
    BY <2>4, FilesAfterRemovingType
  <2>6. /\ BucketsWithout(gone) \in Tables /\ IndexWithout(gone) \in Indexes
        /\ Linked(BucketsWithout(gone), IndexWithout(gone))
        /\ \A r \in RequestId : IndexWithout(gone)[r] # NoBucket => bucketByRequestId[r] # NoBucket
    BY <1>0, <2>4, WithoutLinked
  <2>7. /\ bucket' \in Tables /\ bucketByRequestId' \in Indexes /\ wire' \in SUBSET Fetch
        /\ Linked(bucket, bucketByRequestId)' /\ OneOutcomePerRequest'
    BY <1>0, <2>2, <2>3, <2>4, <2>5, <2>6, EnsureBucketsLinked
  <2> QED BY <1>a, <2>2, <2>3, <2>5, <2>7
<1>9. ASSUME NEW e \in unacked, MutationReplyLost(e) PROVE TypeOK' /\ IndexConsistent'
  <2>1. TypeOK'
    BY <1>9 DEF MutationReplyLost, TypeOK
  <2>2. IndexConsistent'
    BY <1>9 DEF MutationReplyLost, IndexConsistent, BucketIndexed, RequestIndexed,
                OneOutcomePerRequest
  <2> QED BY <2>1, <2>2
<1>10. ASSUME NEW k \in Key, Age(k) PROVE TypeOK' /\ IndexConsistent'
  <2>1. TypeOK'
    BY <1>10 DEF Age, TypeOK, Bucket, serverVars
  <2>2. \A j \in Key : bucket'[j].state = bucket[j].state
                       /\ bucket'[j].requestId = bucket[j].requestId
    BY <1>10 DEF Age, TypeOK, Bucket
  <2>3. UNCHANGED <<bucketByRequestId, wire, posted>>
    BY <1>10 DEF Age
  <2>4. \A j \in Key : BucketIndexed(j)'
    BY <2>2, <2>3 DEF IndexConsistent, BucketIndexed
  <2>5. ASSUME NEW r \in RequestId PROVE RequestIndexed(r)'
    <3>1. RequestIndexed(r) /\ (bucketByRequestId[r] # NoBucket => bucketByRequestId[r] \in Key)
      BY DEF IndexConsistent, TypeOK
    <3> QED BY <2>2, <2>3, <3>1 DEF RequestIndexed
  <2>6. OneOutcomePerRequest'
    BY <2>3 DEF IndexConsistent, OneOutcomePerRequest
  <2> QED BY <2>1, <2>4, <2>5, <2>6 DEF IndexConsistent
<1>11. ASSUME SignOut PROVE TypeOK' /\ IndexConsistent'
  <2>1. TypeOK'
    BY <1>11, EmptyBucketType DEF SignOut, TypeOK
  <2>2. IndexConsistent'
    BY <1>11 DEF SignOut, EmptyBucket, IndexConsistent, BucketIndexed, RequestIndexed,
                 OneOutcomePerRequest
  <2> QED BY <2>1, <2>2
<1>12. ASSUME Restart PROVE TypeOK' /\ IndexConsistent'
  <2>1. disk' \in [Key -> Snapshot \cup {NoFile}]
    BY <1>12 DEF Restart, FilesWithout, TypeOK
  <2>2. TypeOK'
    BY <1>12, <2>1, EmptyBucketType DEF Restart, TypeOK
  <2>3. IndexConsistent'
    BY <1>12 DEF Restart, EmptyBucket, IndexConsistent, BucketIndexed, RequestIndexed,
                 OneOutcomePerRequest
  <2> QED BY <2>2, <2>3
<1>13. ASSUME SignInAgain PROVE TypeOK' /\ IndexConsistent'
  BY <1>13 DEF SignInAgain, serverVars, TypeOK, IndexConsistent, BucketIndexed, RequestIndexed,
               OneOutcomePerRequest
<1>14. CASE UNCHANGED vars
  BY <1>14 DEF vars, TypeOK, IndexConsistent, BucketIndexed, RequestIndexed, OneOutcomePerRequest
<1> QED
  BY <1>1, <1>2, <1>3, <1>4, <1>5, <1>6, <1>7, <1>8, <1>9, <1>10, <1>11, <1>12, <1>13, <1>14
     DEF Next, Calls, Replies, Edits

(* Every reachable state is typed, whatever the constants.                 *)
THEOREM TypeCorrect == Spec => []TypeOK
<1>1. Init => TypeOK /\ IndexConsistent
  BY InitTypeIndex
<1>2. (TypeOK /\ IndexConsistent) /\ [Next]_vars => (TypeOK /\ IndexConsistent)'
  BY StepTypeIndex
<1> QED BY <1>1, <1>2, PTL DEF Spec

(* The buckets and the request index never disagree: no answer is lost, no *)
(* answer lands in another bucket than the one that asked.                 *)
THEOREM IndexAlwaysConsistent == Spec => []IndexConsistent
<1>1. Init => TypeOK /\ IndexConsistent
  BY InitTypeIndex
<1>2. (TypeOK /\ IndexConsistent) /\ [Next]_vars => (TypeOK /\ IndexConsistent)'
  BY StepTypeIndex
<1> QED BY <1>1, <1>2, PTL DEF Spec

-----------------------------------------------------------------------------
(* Nothing stale is taken for current.  Neither property is inductive: an  *)
(* accepted result becomes a bucket's confirmed contents, so results under *)
(* way must be current too, which they are because invalidating a calendar *)
(* forgets the ids of the requests made before it.                         *)

EditsBehind ==
  /\ \A c \in Calendar : acked[c] <= version[c] /\ sessionStart[c] <= version[c]
  /\ \A e \in unacked : e.version <= version[e.calendar]

ResultCurrent(p) ==
  p.ok /\ bucketByRequestId[p.id] # NoBucket => NotBefore(p.calendar, p.events.version)

ResultsCurrent == \A p \in posted : ResultCurrent(p)

FilesCurrent ==
  RemoveCanFail \/ \A k \in Key : disk[k] # NoFile => acked[k[2]] <= disk[k].version

HeldCurrent(b, k) ==
  /\ b.fetchedAt # "never" /\ ~b.fromDiskPendingRefresh => NotBefore(k[2], b.events.version)
  /\ RemoveCanFail \/ (b.fetchedAt # "never" => acked[k[2]] <= b.events.version)

BucketsCurrent == \A k \in Key : HeldCurrent(bucket[k], k)

CurrentInv == EditsBehind /\ ResultsCurrent /\ FilesCurrent /\ BucketsCurrent

LEMMA CurrentInvImplies ==
  ASSUME CurrentInv
  PROVE  ConfirmedIsCurrent /\ NothingOlderThanAck
<1>1. ConfirmedIsCurrent
  BY DEF CurrentInv, BucketsCurrent, HeldCurrent, ConfirmedIsCurrent, Confirmed
<1>2. NothingOlderThanAck
  BY DEF CurrentInv, BucketsCurrent, HeldCurrent, FilesCurrent, ResultsCurrent,
         ResultCurrent, NotBefore, NothingOlderThanAck
<1> QED BY <1>1, <1>2

LEMMA EmptyBucketCurrent ==
  ASSUME NEW k \in Key PROVE HeldCurrent(EmptyBucket, k)
BY DEF HeldCurrent, EmptyBucket

LEMMA InitCurrent == Init => CurrentInv
<1> SUFFICES ASSUME Init PROVE CurrentInv
  OBVIOUS
<1>1. EditsBehind /\ ResultsCurrent /\ FilesCurrent
  BY DEF Init, EditsBehind, ResultsCurrent, FilesCurrent
<1>2. BucketsCurrent
  BY EmptyBucketCurrent DEF Init, BucketsCurrent
<1> QED BY <1>1, <1>2 DEF CurrentInv

(* Hydration shows a file's events without confirming them.                *)
LEMMA HydratedCurrent ==
  ASSUME NEW b \in Tables, NEW d \in [Key -> Snapshot \cup {NoFile}], NEW keys,
         NEW k \in Key, HeldCurrent(b[k], k),
         RemoveCanFail \/ (d[k] # NoFile => acked[k[2]] <= d[k].version)
  PROVE  HeldCurrent(Hydrated(b, d, keys)[k], k)
<1>1. CASE k \in keys /\ b[k].state = "NotLoaded" /\ d[k] # NoFile
  <2>1. /\ Hydrated(b, d, keys)[k].events = d[k]
        /\ Hydrated(b, d, keys)[k].fromDiskPendingRefresh = TRUE
    BY <1>1 DEF Hydrated, Tables, Bucket
  <2> QED BY <1>1, <2>1 DEF HeldCurrent
<1>2. CASE ~(k \in keys /\ b[k].state = "NotLoaded" /\ d[k] # NoFile)
  BY <1>2 DEF Hydrated
<1> QED BY <1>1, <1>2

(* A table whose three fields are those of a current bucket is current.    *)
LEMMA SameFieldsCurrent ==
  ASSUME NEW b, NEW c, NEW k, HeldCurrent(c, k),
         b.events = c.events, b.fetchedAt = c.fetchedAt,
         b.fromDiskPendingRefresh = c.fromDiskPendingRefresh
  PROVE  HeldCurrent(b, k)
BY DEF HeldCurrent

LEMMA StepCurrent ==
  TypeOK /\ IndexConsistent /\ CurrentInv /\ [Next]_vars => CurrentInv'
<1> SUFFICES ASSUME TypeOK, IndexConsistent, CurrentInv, [Next]_vars
             PROVE  CurrentInv'
  OBVIOUS
<1>0. /\ bucket \in Tables /\ bucketByRequestId \in Indexes
      /\ Linked(bucket, bucketByRequestId) /\ OneOutcomePerRequest
      /\ disk \in [Key -> Snapshot \cup {NoFile}]
  BY LinkedIsIndexConsistent DEF TypeOK, Tables, Indexes
<1>f. \A k \in Key : RemoveCanFail \/ (disk[k] # NoFile => acked[k[2]] <= disk[k].version)
  BY DEF CurrentInv, FilesCurrent
<1>h. \A keys : \A k \in Key : HeldCurrent(Hydrated(bucket, disk, keys)[k], k)
  BY <1>0, <1>f, HydratedCurrent DEF CurrentInv, BucketsCurrent
(* Steps that leave the server's and the ghost variables alone.            *)
<1>s. ASSUME UNCHANGED serverVars PROVE
        /\ EditsBehind'
        /\ \A p : NotBefore(p.calendar, p.events.version)'
                    = NotBefore(p.calendar, p.events.version)
        /\ \A b, k : HeldCurrent(b, k)' = HeldCurrent(b, k)
  BY <1>s DEF serverVars, CurrentInv, EditsBehind, NotBefore, HeldCurrent
<1>1. ASSUME NEW months \in ViewRange, NEW calendars \in SUBSET Calendar,
             EnsureMonths(months, calendars)
      PROVE  CurrentInv'
  <2> DEFINE keys == months \X calendars
  <2>1. keys \in SUBSET Key
    BY ConstantsAssumption DEF Key
  <2>2. EnsureBuckets(bucket, bucketByRequestId, disk, keys) /\ posted' = posted
        /\ disk' = disk /\ UNCHANGED serverVars
    BY <1>1 DEF EnsureMonths
  <2> HIDE DEF keys
  <2>3. /\ \A k \in Key :
             /\ bucket'[k].events = Hydrated(bucket, disk, keys)[k].events
             /\ bucket'[k].fetchedAt = Hydrated(bucket, disk, keys)[k].fetchedAt
             /\ bucket'[k].fromDiskPendingRefresh
                  = Hydrated(bucket, disk, keys)[k].fromDiskPendingRefresh
        /\ \A p \in posted : bucketByRequestId'[p.id] = bucketByRequestId[p.id]
    BY <1>0, <2>1, <2>2, EnsureBucketsLinked
  <2>4. \A k \in Key : HeldCurrent(bucket'[k], k)
    BY <1>h, <2>3, SameFieldsCurrent
  <2>5. BucketsCurrent'
    BY <1>s, <2>2, <2>4 DEF BucketsCurrent, HeldCurrent, NotBefore, serverVars
  <2>6. ResultsCurrent' /\ FilesCurrent'
    BY <2>2, <2>3 DEF CurrentInv, ResultsCurrent, ResultCurrent, NotBefore, FilesCurrent,
                      serverVars
  <2> QED BY <1>s, <2>2, <2>5, <2>6 DEF CurrentInv
<1>2. ASSUME NEW months \in ViewRange, NEW calendars \in SUBSET Calendar,
             RefreshVisible(months, calendars)
      PROVE  CurrentInv'
  <2> DEFINE keys == months \X calendars
             h == Hydrated(bucket, disk, keys)
             idle == {k \in keys : h[k].state # "InFlight"}
  <2>1. idle \in SUBSET Key /\ \A k \in idle : h[k].state # "InFlight"
    BY ConstantsAssumption DEF Key
  <2>2. FetchBuckets(h, bucketByRequestId, idle) /\ posted' = posted
        /\ disk' = disk /\ UNCHANGED serverVars
    BY <1>2 DEF RefreshVisible
  <2>3. h \in Tables /\ Linked(h, bucketByRequestId)
    BY <1>0, HydratedType, HydratedLinked
  <2>4. \A k \in Key : HeldCurrent(h[k], k)
    BY <1>h
  <2> HIDE DEF h, idle
  <2>5. /\ \A k \in Key : /\ bucket'[k].events = h[k].events
                          /\ bucket'[k].fetchedAt = h[k].fetchedAt
                          /\ bucket'[k].fromDiskPendingRefresh = h[k].fromDiskPendingRefresh
        /\ \A p \in posted : bucketByRequestId'[p.id] = bucketByRequestId[p.id]
    BY <1>0, <2>1, <2>2, <2>3, FetchBucketsLinked
  <2>6. \A k \in Key : HeldCurrent(bucket'[k], k)
    BY <2>4, <2>5, SameFieldsCurrent
  <2>7. BucketsCurrent'
    BY <2>2, <2>6 DEF BucketsCurrent, HeldCurrent, NotBefore, serverVars
  <2>8. ResultsCurrent' /\ FilesCurrent'
    BY <2>2, <2>5 DEF CurrentInv, ResultsCurrent, ResultCurrent, NotBefore, FilesCurrent,
                      serverVars
  <2> QED BY <1>s, <2>2, <2>7, <2>8 DEF CurrentInv
<1>3. ASSUME NEW f \in wire, ServerAnswers(f) \/ FetchFails(f) PROVE CurrentInv'
  <2>0. f.calendar \in Calendar /\ version[f.calendar] \in Nat
    BY DEF TypeOK, Fetch
  <2>1. UNCHANGED <<bucket, bucketByRequestId, disk, serverVars>>
    BY <1>3 DEF ServerAnswers, FetchFails
  <2>2. ASSUME NEW p \in posted', p \notin posted PROVE ResultCurrent(p)'
    <3>1. p.ok => p.calendar = f.calendar /\ p.events.version = version[f.calendar]
      BY <1>3, <2>2 DEF ServerAnswers, FetchFails
    <3>2. NotBefore(f.calendar, version[f.calendar])
      BY <2>0 DEF CurrentInv, EditsBehind, NotBefore
    <3> QED BY <2>1, <3>1, <3>2 DEF ResultCurrent, NotBefore, serverVars
  <2>3. ResultsCurrent'
    BY <2>1, <2>2 DEF CurrentInv, ResultsCurrent, ResultCurrent, NotBefore, serverVars
  <2>4. EditsBehind' /\ FilesCurrent' /\ BucketsCurrent'
    BY <2>1 DEF CurrentInv, EditsBehind, FilesCurrent, BucketsCurrent, HeldCurrent,
                NotBefore, serverVars
  <2> QED BY <2>3, <2>4 DEF CurrentInv
<1>4. ASSUME NEW p \in posted, OnEventsFetched(p) PROVE CurrentInv'
  <2> DEFINE k == bucketByRequestId[p.id]
  <2>1. p.ok /\ bucketByRequestId[p.id] # NoBucket
    BY <1>4 DEF OnEventsFetched
  <2>2. /\ p.id \in RequestId /\ k \in Key /\ <<k[1], p.calendar>> = k
        /\ p.events \in Snapshot /\ p.calendar = k[2]
    BY <2>1, AcceptedResult DEF Key
  <2>3. NotBefore(k[2], p.events.version)
    BY <2>1, <2>2 DEF CurrentInv, ResultsCurrent, ResultCurrent
  <2>4. /\ bucket' = [bucket EXCEPT ![k] =
             [state |-> "Loaded", events |-> p.events, fetchedAt |-> "recent",
              requestId |-> NoRequest, fromDiskPendingRefresh |-> FALSE]]
        /\ bucketByRequestId' = [bucketByRequestId EXCEPT ![p.id] = NoBucket]
        /\ posted' = posted \ {p} /\ UNCHANGED serverVars
        /\ disk' \in {disk, [disk EXCEPT ![k] = p.events]}
    BY <1>4, <2>2 DEF OnEventsFetched, StoreBucket
  <2>5. \A j \in Key : HeldCurrent(bucket'[j], j)
    <3>1. HeldCurrent(bucket'[k], k)
      BY <2>2, <2>3, <2>4 DEF HeldCurrent, NotBefore, TypeOK
    <3>2. \A j \in Key : j # k => bucket'[j] = bucket[j]
      BY <2>4 DEF TypeOK
    <3> QED BY <3>1, <3>2 DEF CurrentInv, BucketsCurrent
  <2>6. BucketsCurrent'
    BY <2>4, <2>5 DEF BucketsCurrent, HeldCurrent, NotBefore, serverVars
  <2>7. FilesCurrent'
    BY <2>2, <2>3, <2>4 DEF CurrentInv, FilesCurrent, NotBefore, TypeOK, serverVars
  <2>8. ResultsCurrent'
    <3>1. \A q \in posted' : q \in posted /\ q.id \in RequestId
      BY <2>4 DEF TypeOK, Result
    <3>2. \A r \in RequestId : bucketByRequestId'[r] # NoBucket =>
            bucketByRequestId[r] # NoBucket
      BY <2>4 DEF TypeOK
    <3> QED BY <2>4, <3>1, <3>2 DEF CurrentInv, ResultsCurrent, ResultCurrent, NotBefore,
                                    serverVars
  <2> QED BY <1>s, <2>4, <2>6, <2>7, <2>8 DEF CurrentInv
<1>5. ASSUME NEW p \in posted, OnEventsFetchFailed(p) PROVE CurrentInv'
  <2> DEFINE k == bucketByRequestId[p.id]
  <2>1. bucketByRequestId[p.id] # NoBucket
    BY <1>5 DEF OnEventsFetchFailed
  <2>2. p.id \in RequestId /\ k \in Key /\ <<k[1], p.calendar>> = k
    BY <2>1, AcceptedResult
  <2>3. /\ bucket' = [bucket EXCEPT ![k] = AfterFailure(bucket[k])]
        /\ bucketByRequestId' = [bucketByRequestId EXCEPT ![p.id] = NoBucket]
        /\ posted' = posted \ {p} /\ disk' = disk /\ UNCHANGED serverVars
    BY <1>5, <2>2 DEF OnEventsFetchFailed
  <2>4. \A j \in Key : HeldCurrent(bucket'[j], j)
    <3>1. HeldCurrent(bucket[k], k) /\ bucket[k] \in Bucket
      BY <2>2 DEF CurrentInv, BucketsCurrent, TypeOK
    <3>2. HeldCurrent(AfterFailure(bucket[k]), k)
      BY <3>1 DEF HeldCurrent, AfterFailure, Bucket
    <3>3. bucket'[k] = AfterFailure(bucket[k]) /\ \A j \in Key : j # k => bucket'[j] = bucket[j]
      BY <2>2, <2>3 DEF TypeOK
    <3> QED BY <3>2, <3>3 DEF CurrentInv, BucketsCurrent
  <2>5. BucketsCurrent'
    BY <2>3, <2>4 DEF BucketsCurrent, HeldCurrent, NotBefore, serverVars
  <2>6. FilesCurrent'
    BY <2>3 DEF CurrentInv, FilesCurrent, serverVars
  <2>7. ResultsCurrent'
    <3>1. \A q \in posted' : q \in posted /\ q.id \in RequestId
      BY <2>3 DEF TypeOK, Result
    <3>2. \A r \in RequestId : bucketByRequestId'[r] # NoBucket =>
            bucketByRequestId[r] # NoBucket
      BY <2>3 DEF TypeOK
    <3> QED BY <2>3, <3>1, <3>2 DEF CurrentInv, ResultsCurrent, ResultCurrent, NotBefore,
                                    serverVars
  <2> QED BY <1>s, <2>3, <2>5, <2>6, <2>7 DEF CurrentInv
<1>6. ASSUME NEW p \in posted, DropResult(p) PROVE CurrentInv'
  BY <1>6 DEF DropResult, CurrentInv, EditsBehind, ResultsCurrent, ResultCurrent,
              FilesCurrent, BucketsCurrent, HeldCurrent, NotBefore, serverVars
<1>7. ASSUME NEW c \in Calendar, ApplyLocalEdit(c) \/ ApplyRemoteEdit(c) PROVE CurrentInv'
  <2>1. /\ UNCHANGED <<bucket, bucketByRequestId, posted, disk, acked, sessionStart>>
        /\ version' = [version EXCEPT ![c] = version[c] + 1]
        /\ \A e \in unacked' : e \in unacked \/ (e.calendar = c /\ e.version = version[c] + 1)
    BY <1>7 DEF ApplyLocalEdit, ApplyRemoteEdit
  <2>2. \A d \in Calendar : version[d] \in Nat /\ version'[d] \in Nat /\ version[d] <= version'[d]
    BY <2>1 DEF TypeOK
  <2>3. \A d \in Calendar : acked[d] \in Nat /\ sessionStart[d] \in Nat
    BY DEF TypeOK
  <2>4. ASSUME NEW e \in unacked' PROVE e.version <= version'[e.calendar]
    <3>1. CASE e \in unacked
      BY <2>2, <3>1 DEF CurrentInv, EditsBehind, TypeOK, Edit
    <3>2. CASE e.calendar = c /\ e.version = version[c] + 1
      BY <2>1, <2>2, <3>2 DEF TypeOK
    <3> QED BY <2>1, <3>1, <3>2
  <2>5. EditsBehind'
    BY <2>1, <2>2, <2>3, <2>4 DEF CurrentInv, EditsBehind
  <2>6. ResultsCurrent' /\ FilesCurrent' /\ BucketsCurrent'
    BY <2>1 DEF CurrentInv, ResultsCurrent, ResultCurrent, FilesCurrent, BucketsCurrent,
                HeldCurrent, NotBefore
  <2> QED BY <2>5, <2>6 DEF CurrentInv
<1>8. ASSUME NEW e \in unacked, NEW months \in SUBSET Month, MutationAcked(e, months)
      PROVE  CurrentInv'
  <2> DEFINE gone == {k \in Key : k[2] = e.calendar}
             keys == months \X {e.calendar}
             b == BucketsWithout(gone)
             i == IndexWithout(gone)
  <2>0. e.calendar \in Calendar /\ e.version \in Nat /\ e.version <= version[e.calendar]
    BY DEF TypeOK, Edit, CurrentInv, EditsBehind
  <2>1. PICK d \in FilesAfterRemoving(gone) : disk' = d /\ EnsureBuckets(b, i, d, keys)
    BY <1>8 DEF MutationAcked
  <2>2. /\ posted' = posted /\ version' = version /\ sessionStart' = sessionStart
        /\ unacked' = unacked \ {e}
        /\ acked' = [acked EXCEPT ![e.calendar] = IF @ < e.version THEN e.version ELSE @]
    BY <1>8 DEF MutationAcked
  <2>3. gone \in SUBSET Key /\ keys \in SUBSET Key
        /\ \A k \in Key : k \in gone <=> k[2] = e.calendar
    BY <2>0 DEF Key
  <2> HIDE DEF gone, keys
  <2>4. /\ d \in [Key -> Snapshot \cup {NoFile}]
        /\ \A k \in Key : d[k] # NoFile => d[k] = disk[k]
        /\ ~RemoveCanFail => \A k \in gone : d[k] = NoFile
    BY <2>3, FilesAfterRemovingType
  <2>5. /\ b \in Tables /\ i \in Indexes /\ Linked(b, i)
        /\ \A r \in RequestId : i[r] # NoBucket =>
             i[r] = bucketByRequestId[r] /\ bucketByRequestId[r] \notin gone
    BY <1>0, <2>3, WithoutLinked
  <2>6. \A k \in Key : b[k] = IF k \in gone THEN EmptyBucket ELSE bucket[k]
    BY DEF BucketsWithout
  <2>7. \A c \in Calendar : c # e.calendar => acked'[c] = acked[c]
    BY <2>2 DEF TypeOK
  <2> HIDE DEF b, i
  <2>8. /\ \A k \in Key :
             /\ bucket'[k].events = Hydrated(b, d, keys)[k].events
             /\ bucket'[k].fetchedAt = Hydrated(b, d, keys)[k].fetchedAt
             /\ bucket'[k].fromDiskPendingRefresh
                  = Hydrated(b, d, keys)[k].fromDiskPendingRefresh
        /\ \A p \in posted : bucketByRequestId'[p.id] = i[p.id]
    BY <1>0, <2>1, <2>2, <2>3, <2>4, <2>5, EnsureBucketsLinked
  <2>9. EditsBehind'
    <3>1. \A c \in Calendar : acked'[c] <= version[c]
      BY <2>0, <2>2, <2>7 DEF CurrentInv, EditsBehind, TypeOK
    <3> QED BY <2>2, <3>1 DEF CurrentInv, EditsBehind
  <2>10. FilesCurrent'
    <3>1. ASSUME NEW k \in Key, ~RemoveCanFail, d[k] # NoFile
          PROVE  acked'[k[2]] <= d[k].version
      <4>1. k \notin gone /\ k[2] \in Calendar /\ k[2] # e.calendar /\ d[k] = disk[k]
        BY <2>3, <2>4, <3>1 DEF Key
      <4> QED BY <1>f, <2>7, <3>1, <4>1
    <3> QED BY <2>1, <3>1 DEF FilesCurrent
  <2>11. ASSUME NEW k \in Key PROVE HeldCurrent(bucket[k], k)'
    <3>1. CASE k \in gone
      <4>1. CASE Hydrated(b, d, keys)[k] = EmptyBucket
        BY <2>8, <4>1 DEF HeldCurrent, EmptyBucket
      <4>2. CASE Hydrated(b, d, keys)[k] # EmptyBucket
        <5>1. d[k] # NoFile /\ Hydrated(b, d, keys)[k].fromDiskPendingRefresh = TRUE
          BY <2>5, <2>6, <3>1, <4>2 DEF Hydrated, Tables, Bucket
        <5>2. RemoveCanFail
          BY <2>4, <3>1, <5>1 DEF ConstantsAssumption
        <5> QED BY <2>8, <5>1, <5>2 DEF HeldCurrent
      <4> QED BY <4>1, <4>2
    <3>2. CASE k \notin gone
      <4>1. k[2] \in Calendar /\ k[2] # e.calendar /\ b[k] = bucket[k]
        BY <2>3, <2>6, <3>2 DEF Key
      <4>2. RemoveCanFail \/ (d[k] # NoFile => acked[k[2]] <= d[k].version)
        BY <1>f, <2>4
      <4>3. HeldCurrent(b[k], k)
        BY <4>1 DEF CurrentInv, BucketsCurrent
      <4>4. HeldCurrent(Hydrated(b, d, keys)[k], k)
        BY <2>4, <2>5, <4>2, <4>3, HydratedCurrent
      <4>5. HeldCurrent(bucket'[k], k)
        BY <2>8, <4>4, SameFieldsCurrent
      <4> QED BY <2>2, <2>7, <4>1, <4>5 DEF HeldCurrent, NotBefore
    <3> QED BY <3>1, <3>2
  <2>12. ASSUME NEW p \in posted PROVE ResultCurrent(p)'
    <3>1. p.id \in RequestId /\ bucketByRequestId'[p.id] = i[p.id]
      BY <2>8 DEF TypeOK, Result
    <3>2. ASSUME p.ok, i[p.id] # NoBucket PROVE NotBefore(p.calendar, p.events.version)'
      <4>1. bucketByRequestId[p.id] # NoBucket /\ bucketByRequestId[p.id] \notin gone
        BY <2>5, <3>1, <3>2 DEF Indexes
      <4>2. p.calendar \in Calendar /\ p.calendar # e.calendar
        BY <2>3, <4>1, AcceptedResult DEF Key
      <4>3. NotBefore(p.calendar, p.events.version)
        BY <3>2, <4>1 DEF CurrentInv, ResultsCurrent, ResultCurrent
      <4> QED BY <2>2, <2>7, <4>2, <4>3 DEF NotBefore
    <3> QED BY <3>1, <3>2 DEF ResultCurrent
  <2>13. BucketsCurrent' /\ ResultsCurrent'
    BY <2>2, <2>11, <2>12 DEF BucketsCurrent, ResultsCurrent
  <2> QED BY <2>9, <2>10, <2>13 DEF CurrentInv
<1>9. ASSUME NEW e \in unacked, MutationReplyLost(e) PROVE CurrentInv'
  BY <1>9 DEF MutationReplyLost, CurrentInv, EditsBehind, ResultsCurrent, ResultCurrent,
              FilesCurrent, BucketsCurrent, HeldCurrent, NotBefore
<1>10. ASSUME NEW k \in Key, Age(k) PROVE CurrentInv'
  <2>1. UNCHANGED <<bucketByRequestId, posted, disk, serverVars>>
    BY <1>10 DEF Age
  <2>2. \A j \in Key : /\ bucket'[j].events = bucket[j].events
                       /\ bucket'[j].fetchedAt = "never" <=> bucket[j].fetchedAt = "never"
                       /\ bucket'[j].fromDiskPendingRefresh = bucket[j].fromDiskPendingRefresh
    BY <1>10 DEF Age, TypeOK, Bucket
  <2>3. BucketsCurrent'
    BY <2>1, <2>2 DEF CurrentInv, BucketsCurrent, HeldCurrent, NotBefore, serverVars
  <2>4. ResultsCurrent' /\ FilesCurrent'
    BY <2>1 DEF CurrentInv, ResultsCurrent, ResultCurrent, FilesCurrent, NotBefore, serverVars
  <2> QED BY <1>s, <2>1, <2>3, <2>4 DEF CurrentInv
<1>11. ASSUME SignOut \/ Restart PROVE CurrentInv'
  <2>1. /\ bucket' = [k \in Key |-> EmptyBucket]
        /\ bucketByRequestId' = [r \in RequestId |-> NoBucket]
        /\ sessionStart' = version /\ version' = version /\ acked' = acked
        /\ unacked' \in SUBSET unacked /\ posted' \in SUBSET posted
        /\ \A k \in Key : disk'[k] # NoFile => disk'[k] = disk[k]
    BY <1>11 DEF SignOut, Restart, FilesWithout
  <2>2. EditsBehind'
    BY <2>1 DEF CurrentInv, EditsBehind, TypeOK
  <2>3. ResultsCurrent'
    BY <2>1 DEF ResultsCurrent, ResultCurrent, TypeOK, Result
  <2>4. FilesCurrent'
    BY <2>1 DEF CurrentInv, FilesCurrent
  <2>5. BucketsCurrent'
    BY <2>1 DEF BucketsCurrent, HeldCurrent, EmptyBucket
  <2> QED BY <2>2, <2>3, <2>4, <2>5 DEF CurrentInv
<1>12. ASSUME SignInAgain PROVE CurrentInv'
  <2>1. UNCHANGED <<bucket, bucketByRequestId, posted, serverVars>>
        /\ \A k \in Key : disk'[k] = NoFile
    BY <1>12 DEF SignInAgain
  <2> QED
    BY <2>1 DEF CurrentInv, EditsBehind, ResultsCurrent, ResultCurrent, FilesCurrent,
                BucketsCurrent, HeldCurrent, NotBefore, serverVars
<1>13. CASE UNCHANGED vars
  BY <1>13 DEF vars, CurrentInv, EditsBehind, ResultsCurrent, ResultCurrent, FilesCurrent,
               BucketsCurrent, HeldCurrent, NotBefore
<1> QED
  BY <1>1, <1>2, <1>3, <1>4, <1>5, <1>6, <1>7, <1>8, <1>9, <1>10, <1>11, <1>12, <1>13
     DEF Next, Calls, Replies, Edits

(* What a bucket presents as confirmed by the server is never older than   *)
(* the last edit this client saw succeed nor than the session's start.     *)
THEOREM ConfirmedAlwaysCurrent == Spec => []ConfirmedIsCurrent
<1>1. Init => TypeOK /\ IndexConsistent /\ CurrentInv
  BY InitTypeIndex, InitCurrent
<1>2. (TypeOK /\ IndexConsistent /\ CurrentInv) /\ [Next]_vars
        => (TypeOK /\ IndexConsistent /\ CurrentInv)'
  BY StepTypeIndex, StepCurrent
<1>3. CurrentInv => ConfirmedIsCurrent
  BY CurrentInvImplies
<1> QED BY <1>1, <1>2, <1>3, PTL DEF Spec

(* While cache files can be deleted, no bucket, no cache file and no reply *)
(* still to be accepted is older than an edit this client saw succeed.     *)
THEOREM NothingEverOlderThanAck == Spec => []NothingOlderThanAck
<1>1. Init => TypeOK /\ IndexConsistent /\ CurrentInv
  BY InitTypeIndex, InitCurrent
<1>2. (TypeOK /\ IndexConsistent /\ CurrentInv) /\ [Next]_vars
        => (TypeOK /\ IndexConsistent /\ CurrentInv)'
  BY StepTypeIndex, StepCurrent
<1>3. CurrentInv => NothingOlderThanAck
  BY CurrentInvImplies
<1> QED BY <1>1, <1>2, <1>3, PTL DEF Spec
-----------------------------------------------------------------------------
(* The store implements BucketCache.  What the refinement needs beyond the *)
(* invariants above: a bucket that is not loaded is an empty one, nothing  *)
(* is ahead of the server, and an answer still to be accepted is no older  *)
(* than what its bucket holds.                                             *)

NotAhead(c, events) == events.version <= version[c]

NewerThanHeld(p) ==
  p.ok /\ bucketByRequestId[p.id] # NoBucket =>
    bucket[bucketByRequestId[p.id]].events.version <= p.events.version

HeldInv ==
  /\ \A k \in Key : /\ bucket[k].state = "NotLoaded" => bucket[k] = EmptyBucket
                    /\ NotAhead(k[2], bucket[k].events)
                    /\ disk[k] # NoFile => NotAhead(k[2], disk[k])
  /\ \A p \in posted : (p.ok => NotAhead(p.calendar, p.events)) /\ NewerThanHeld(p)

(* What BucketCache sees of one bucket.                                    *)
Seen(b) == [state |-> b.state, events |-> b.events,
            confirmed |-> b.fetchedAt # "never" /\ ~b.fromDiskPendingRefresh]

LEMMA AskedCases ==
  ASSUME NEW s, NEW n
  PROVE  /\ s.state = "NotLoaded" => Cache!FromFile(n) \subseteq Cache!Asked(s, n)
         /\ s.state \in {"NotLoaded", "Loaded", "Failed"} =>
              Cache!InFlight(s) \in Cache!Asked(s, n)
BY DEF Cache!Asked

LEMMA EmptyBucketSeen == Seen(EmptyBucket) = Cache!Unloaded
BY DEF Seen, EmptyBucket, Cache!Unloaded, Cache!NoEvents, NoEvents

(* Buckets fetched, some of them after hydration from their files: each is *)
(* as it was, or as BucketCache's Asked has it (fetchBucket,               *)
(* tryHydrateFromDisk); and an accepted answer's bucket is in flight, so   *)
(* nothing hydrates it.                                                    *)
LEMMA FetchedHeld ==
  ASSUME TypeOK, OneOutcomePerRequest,
         NEW b \in Tables, NEW index \in Indexes, Linked(b, index),
         \A r \in RequestId : index[r] # NoBucket => bucketByRequestId[r] # NoBucket,
         NEW d \in [Key -> Snapshot \cup {NoFile}],
         NEW keys \in SUBSET Key, NEW need \in SUBSET Key,
         FetchBuckets(Hydrated(b, d, keys), index, need),
         \A k \in need : k \in keys /\ b[k].state # "InFlight",
         \A k \in keys : b[k].state = "NotLoaded" => k \in need,
         posted' = posted, version' = version, disk' = d,
         \A k \in Key : /\ b[k].state = "NotLoaded" => b[k] = EmptyBucket
                        /\ NotAhead(k[2], b[k].events)
                        /\ d[k] # NoFile => NotAhead(k[2], d[k]),
         \A p \in posted :
            /\ p.ok => NotAhead(p.calendar, p.events)
            /\ p.ok /\ index[p.id] # NoBucket =>
                 b[index[p.id]].events.version <= p.events.version
  PROVE  /\ HeldInv'
         /\ \A k \in Key : Seen(bucket'[k])
                            \in {Seen(b[k])} \cup Cache!Asked(Seen(b[k]), version[k[2]])
<1> DEFINE h == Hydrated(b, d, keys)
<1>1. h \in Tables /\ Linked(h, index)
  BY HydratedType, HydratedLinked
<1>2. \A k \in need : h[k].state # "InFlight"
  BY DEF Hydrated, Tables, Bucket
<1>3. \A p \in posted : bucketByRequestId'[p.id] = index[p.id]
  <2> HIDE DEF h
  <2> QED BY <1>1, <1>2, FetchBucketsLinked DEF h
<1>s. \A k \in Key, n \in Nat :
        (b[k].state = "NotLoaded" => b[k] = EmptyBucket)
          /\ (d[k] # NoFile => d[k].version <= n) =>
        /\ Seen(bucket'[k]) \in {Seen(b[k])} \cup Cache!Asked(Seen(b[k]), n)
        /\ bucket'[k].state = "NotLoaded" => bucket'[k] = b[k] /\ k \notin keys
        /\ \/ bucket'[k].events = b[k].events
           \/ /\ k \in keys /\ b[k].state = "NotLoaded"
              /\ d[k] # NoFile /\ bucket'[k].events = d[k]
  <2> SUFFICES ASSUME NEW k \in Key, NEW n \in Nat,
                      b[k].state = "NotLoaded" => b[k] = EmptyBucket,
                      d[k] # NoFile => d[k].version <= n
               PROVE  /\ Seen(bucket'[k]) \in {Seen(b[k])} \cup Cache!Asked(Seen(b[k]), n)
                      /\ bucket'[k].state = "NotLoaded" => bucket'[k] = b[k] /\ k \notin keys
                      /\ \/ bucket'[k].events = b[k].events
                         \/ /\ k \in keys /\ b[k].state = "NotLoaded"
                            /\ d[k] # NoFile /\ bucket'[k].events = d[k]
    OBVIOUS
  <2>1. PICK ids : bucket' = [j \in Key |->
               IF j \in need
               THEN [h[j] EXCEPT !.state = "InFlight", !.requestId = ids[j]]
               ELSE h[j]]
    BY DEF FetchBuckets
  <2>2. b[k] \in Bucket /\ b[k].events \in Snapshot
    BY DEF Tables, Bucket
  <2>3. CASE k \in keys /\ b[k].state = "NotLoaded" /\ d[k] # NoFile
    <3>1. k \in need /\ d[k] \in Snapshot
      BY <2>3
    <3>2. h[k] = [b[k] EXCEPT !.state = "Loaded", !.events = d[k], !.fetchedAt = "recent",
                              !.fromDiskPendingRefresh = TRUE]
      BY <2>3 DEF Hydrated
    <3>3. /\ bucket'[k].state = "InFlight" /\ bucket'[k].events = d[k]
          /\ bucket'[k].fromDiskPendingRefresh = TRUE
      BY <2>1, <2>2, <3>1, <3>2 DEF Bucket
    <3>4. Seen(bucket'[k]) = [state |-> "InFlight", events |-> d[k], confirmed |-> FALSE]
      BY <3>3 DEF Seen
    <3>5. d[k] \in Cache!Snapshot(n)
      BY <2>3, <3>1 DEF Snapshot, Cache!Snapshot
    <3>6. Seen(bucket'[k]) \in Cache!FromFile(n)
      BY <3>4, <3>5 DEF Cache!FromFile
    <3>7. Seen(b[k]).state = "NotLoaded"
      BY <2>3 DEF Seen
    <3> QED BY <2>3, <3>3, <3>6, <3>7, AskedCases
  <2>4. CASE ~(k \in keys /\ b[k].state = "NotLoaded" /\ d[k] # NoFile)
    <3>1. h[k] = b[k]
      BY <2>4 DEF Hydrated
    <3>2. CASE k \in need
      <4>1. bucket'[k] = [b[k] EXCEPT !.state = "InFlight", !.requestId = ids[k]]
        BY <2>1, <3>1, <3>2
      <4>2. /\ bucket'[k].state = "InFlight" /\ bucket'[k].events = b[k].events
            /\ bucket'[k].fetchedAt = b[k].fetchedAt
            /\ bucket'[k].fromDiskPendingRefresh = b[k].fromDiskPendingRefresh
        BY <2>2, <4>1 DEF Bucket
      <4>3. Seen(bucket'[k]) = Cache!InFlight(Seen(b[k]))
        BY <4>2 DEF Seen, Cache!InFlight
      <4>4. Seen(b[k]).state \in {"NotLoaded", "Loaded", "Failed"}
        BY <2>2, <3>2 DEF Seen, Bucket
      <4> QED BY <4>2, <4>3, <4>4, AskedCases
    <3>3. CASE k \notin need
      BY <2>1, <3>1, <3>3
    <3> QED BY <3>2, <3>3
  <2> QED BY <2>3, <2>4
<1> HIDE DEF h
<1>4. ASSUME NEW k \in Key
      PROVE  /\ Seen(bucket'[k]) \in {Seen(b[k])} \cup Cache!Asked(Seen(b[k]), version[k[2]])
             /\ bucket'[k].state = "NotLoaded" => bucket'[k] = b[k]
             /\ \/ bucket'[k].events = b[k].events
                \/ /\ b[k].state = "NotLoaded"
                   /\ d[k] # NoFile /\ bucket'[k].events = d[k]
  <2>1. version[k[2]] \in Nat
    BY DEF TypeOK, Key
  <2>2. d[k] # NoFile => d[k].version <= version[k[2]]
    BY DEF NotAhead
  <2> QED BY <1>s, <2>1, <2>2
<1>5. ASSUME NEW p \in posted PROVE NewerThanHeld(p)'
  <2>1. p.id \in RequestId /\ bucketByRequestId'[p.id] = index[p.id]
    BY <1>3 DEF TypeOK, Result
  <2>2. ASSUME p.ok, index[p.id] # NoBucket
        PROVE  bucket'[index[p.id]].events.version <= p.events.version
    <3>1. index[p.id] \in Key
      BY <2>1, <2>2 DEF Indexes
    <3>2. b[index[p.id]].state # "NotLoaded"
      BY <2>1, <2>2, <3>1, ConstantsAssumption DEF Linked, LinkedRequest, LinkedBucket
    <3> QED BY <1>4, <2>2, <3>1, <3>2
  <2> QED BY <2>1, <2>2 DEF NewerThanHeld
<1>6. ASSUME NEW k \in Key
      PROVE  /\ bucket'[k].state = "NotLoaded" => bucket'[k] = EmptyBucket
             /\ bucket'[k].events.version <= version'[k[2]]
             /\ disk'[k] # NoFile => disk'[k].version <= version'[k[2]]
  <2>1. b[k].state = "NotLoaded" => b[k] = EmptyBucket
    OBVIOUS
  <2>2. b[k].events.version <= version[k[2]] /\ (d[k] # NoFile => d[k].version <= version[k[2]])
    BY DEF NotAhead
  <2>3. bucket'[k].state = "NotLoaded" => bucket'[k] = EmptyBucket
    BY <1>4, <2>1 DEF Seen
  <2> QED BY <1>4, <2>2, <2>3
<1> QED BY <1>4, <1>5, <1>6 DEF HeldInv, NotAhead

-----------------------------------------------------------------------------
(* The steps of the store as steps of BucketCache.                         *)

Abs == [k \in Key |-> Seen(bucket[k])]
Floors == [c \in Calendar |-> Newest(c)]

LEMMA MappedVars == Cache!cacheVars = <<Abs, Floors, version>> /\ Cache!Key = Key
BY DEF Cache!cacheVars, Cache!Key, Key, Abs, Seen, Confirmed, Floors

LEMMA MappedAsk ==
  ASSUME \A k \in Key : Seen(bucket'[k])
           \in {Seen(bucket[k])} \cup Cache!Asked(Seen(bucket[k]), version[k[2]]),
         UNCHANGED serverVars
  PROVE  Cache!Ask
<1>1. Floors' = Floors /\ version' = version
  BY DEF Floors, Newest, serverVars
<1>2. \A k \in Key : Abs'[k] \in {Abs[k]} \cup Cache!Asked(Abs[k], version[k[2]])
  BY DEF Abs
<1>3. Abs' = [k \in Key |-> Abs'[k]]
  BY DEF Abs
<1> QED BY <1>1, <1>2, <1>3 DEF Cache!Ask, Cache!Key, Key, Abs, Seen, Confirmed, Floors

LEMMA MappedStutter ==
  ASSUME \A k \in Key : Seen(bucket'[k]) = Seen(bucket[k]), UNCHANGED serverVars
  PROVE  UNCHANGED Cache!cacheVars
<1>1. UNCHANGED <<Abs, Floors, version>>
  BY DEF Abs, Floors, Newest, serverVars
<1> QED BY <1>1, MappedVars DEF Abs, Seen, Confirmed, Floors, Cache!cacheVars

LEMMA MappedAnswered ==
  ASSUME TypeOK, NEW k \in Key, NEW events \in Snapshot, NEW nb \in Bucket,
         bucket[k].state = "InFlight",
         bucket' = [bucket EXCEPT ![k] = nb],
         nb.state = "Loaded", nb.events = events, nb.fetchedAt = "recent",
         ~nb.fromDiskPendingRefresh,
         NotBefore(k[2], events.version), NotAhead(k[2], events),
         bucket[k].events.version <= events.version,
         UNCHANGED serverVars
  PROVE  Cache!Answered(k)
<1>1. Abs[k].state = "InFlight" /\ Abs[k].events = bucket[k].events
  BY DEF Abs, Seen
<1>2. k[2] \in Calendar
  BY DEF Key
<1>3. events.version \in Floors[k[2]]..version[k[2]] /\ events.empty \in BOOLEAN
  <2>1. /\ version[k[2]] \in Nat /\ acked[k[2]] \in Nat /\ sessionStart[k[2]] \in Nat
        /\ events.version \in Nat /\ events.empty \in BOOLEAN
    BY <1>2 DEF TypeOK, Snapshot
  <2>2. Floors[k[2]] \in {acked[k[2]], sessionStart[k[2]]}
    BY <1>2 DEF Floors, Newest
  <2> QED BY <2>1, <2>2 DEF NotBefore, NotAhead
<1>4. events = [version |-> events.version, empty |-> events.empty]
  BY DEF Snapshot
<1>5. Seen(nb) =
        [state |-> "Loaded", events |-> [version |-> events.version, empty |-> events.empty],
         confirmed |-> TRUE]
  BY <1>4 DEF Seen
<1>6. Abs' = [Abs EXCEPT ![k] =
        [state |-> "Loaded", events |-> [version |-> events.version, empty |-> events.empty],
         confirmed |-> TRUE]]
  <2>1. Abs'[k] = Seen(nb) /\ \A j \in Key : j # k => Abs'[j] = Abs[j]
    BY DEF TypeOK, Abs
  <2>2. Abs' = [Abs EXCEPT ![k] = Seen(nb)]
    BY <2>1 DEF Abs
  <2> QED BY <1>5, <2>2
<1>7. Floors' = Floors /\ version' = version
  BY DEF Floors, Newest, serverVars
<1>8. \E v \in Floors[k[2]]..version[k[2]], none \in BOOLEAN :
        /\ Abs[k].events.version <= v
        /\ Abs' = [Abs EXCEPT ![k] =
             [state |-> "Loaded", events |-> [version |-> v, empty |-> none],
              confirmed |-> TRUE]]
  BY <1>1, <1>3, <1>6
<1> QED
  BY <1>1, <1>7, <1>8 DEF Cache!Answered, Abs, Seen, Confirmed, Floors

LEMMA MappedRefused ==
  ASSUME TypeOK, NEW k \in Key, bucket[k].state = "InFlight",
         bucket' = [bucket EXCEPT ![k] = AfterFailure(bucket[k])],
         UNCHANGED serverVars
  PROVE  Cache!Refused(k)
<1>1. Abs[k].state = "InFlight" /\ Abs[k].events = bucket[k].events
  BY DEF Abs, Seen
<1>2. bucket[k] \in Bucket
  BY DEF TypeOK
<1>3. Seen(AfterFailure(bucket[k])) =
        [state |-> IF bucket[k].events.empty THEN "Failed" ELSE "Loaded",
         events |-> bucket[k].events, confirmed |-> FALSE]
  BY <1>2 DEF Seen, AfterFailure, Bucket
<1>4. /\ Abs'[k] = Seen(AfterFailure(bucket[k]))
      /\ \A j \in Key : j # k => Abs'[j] = Abs[j]
  BY DEF TypeOK, Abs
<1>a. Abs[k] = [state |-> Abs[k].state, events |-> Abs[k].events,
                confirmed |-> Abs[k].confirmed]
  BY DEF Abs, Seen
<1>b. [Abs[k] EXCEPT !.state = IF Abs[k].events.empty THEN "Failed" ELSE "Loaded",
                     !.confirmed = FALSE]
        = Seen(AfterFailure(bucket[k]))
  <2>1. PICK r, x, y, z, u, w :
          /\ r = Abs[k] /\ r = [state |-> x, events |-> y, confirmed |-> z]
          /\ u = (IF Abs[k].events.empty THEN "Failed" ELSE "Loaded")
          /\ w \in {FALSE}
    BY <1>a
  <2> DEFINE q == [r EXCEPT !.state = u]
  <2>2. q = [state |-> u, events |-> y, confirmed |-> z]
    BY <2>1
  <2> HIDE DEF q
  <2>3. [q EXCEPT !.confirmed = w] = [state |-> u, events |-> y, confirmed |-> w]
    BY <2>2
  <2>4. [r EXCEPT !.state = u, !.confirmed = w] = [state |-> u, events |-> y, confirmed |-> w]
    BY <2>3 DEF q
  <2>5. /\ (IF bucket[k].events.empty THEN "Failed" ELSE "Loaded") = u
        /\ bucket[k].events = y
    BY <1>1, <2>1
  <2>6. Seen(AfterFailure(bucket[k])) = [state |-> u, events |-> y, confirmed |-> w]
    BY <1>3, <2>1, <2>5
  <2> QED BY <2>1, <2>4, <2>6
<1>5. Abs' = [Abs EXCEPT
        ![k].state = IF Abs[k].events.empty THEN "Failed" ELSE "Loaded",
        ![k].confirmed = FALSE]
  BY <1>4, <1>b DEF Abs
<1>6. Floors' = Floors /\ version' = version
  BY DEF Floors, Newest, serverVars
<1> QED
  BY <1>1, <1>5, <1>6 DEF Cache!Refused, Abs, Seen, Confirmed, Floors

LEMMA MappedEdit ==
  ASSUME TypeOK, NEW c \in Calendar, version' = [version EXCEPT ![c] = @ + 1],
         UNCHANGED <<bucket, acked, sessionStart>>
  PROVE  Cache!ServerEdit(c)
<1>1. Abs' = Abs /\ Floors' = Floors
  BY DEF Abs, Floors, Newest
<1> QED BY <1>1 DEF Cache!ServerEdit, Abs, Seen, Confirmed, Floors

(* The floor of the edited calendar rises to the edit's version, if that   *)
(* is newer than what was seen so far.                                     *)
LEMMA MappedInvalidate ==
  ASSUME TypeOK, EditsBehind, NEW c \in Calendar, NEW n \in Nat, n <= version[c],
         \A k \in Key : IF k[2] = c
           THEN Seen(bucket'[k]) \in {Cache!Unloaded} \cup Cache!Asked(Cache!Unloaded, version[c])
           ELSE Seen(bucket'[k]) = Seen(bucket[k]),
         acked' = [acked EXCEPT ![c] = IF @ < n THEN n ELSE @],
         version' = version, sessionStart' = sessionStart
  PROVE  Cache!Invalidate(c)
<1>1. \A d \in Calendar : acked[d] \in Nat /\ sessionStart[d] \in Nat /\ version[d] \in Nat
  BY DEF TypeOK
<1>2. acked'[c] = (IF acked[c] < n THEN n ELSE acked[c])
      /\ \A d \in Calendar : d # c => acked'[d] = acked[d]
  BY DEF TypeOK
<1>3. Newest(c)' \in Floors[c]..version[c]
  BY <1>1, <1>2 DEF Newest, Floors, EditsBehind
<1>4. Floors' = [Floors EXCEPT ![c] = Newest(c)']
  BY <1>2 DEF Floors, Newest
<1>5. \A k \in Key :
        Abs'[k] \in IF k[2] = c
                    THEN {Cache!Unloaded} \cup Cache!Asked(Cache!Unloaded, version[c])
                    ELSE {Abs[k]}
  BY DEF Abs
<1>6. Abs' = [k \in Key |-> Abs'[k]]
  BY DEF Abs
<1>7. \E v \in Floors[c]..version[c] : Floors' = [Floors EXCEPT ![c] = v]
  BY <1>3, <1>4
<1> QED
  BY <1>5, <1>6, <1>7 DEF Cache!Invalidate, Cache!Key, Key, Abs, Seen, Confirmed, Floors

LEMMA MappedDropAll ==
  ASSUME TypeOK, EditsBehind, bucket' = [k \in Key |-> EmptyBucket],
         sessionStart' = version, version' = version, acked' = acked
  PROVE  Cache!DropAll
<1>1. Abs' = [k \in Key |-> Cache!Unloaded]
  BY EmptyBucketSeen DEF Abs
<1>2. Floors' = version
  <2>1. \A c \in Calendar : Newest(c)' = version[c]
    BY DEF Newest, EditsBehind, TypeOK
  <2> QED BY <2>1 DEF Floors, TypeOK
<1> QED BY <1>1, <1>2 DEF Cache!DropAll, Cache!Key, Key, Abs, Seen, Confirmed, Floors

LEMMA InitHeld == Init => HeldInv
<1> SUFFICES ASSUME Init PROVE HeldInv
  OBVIOUS
<1>1. ASSUME NEW k \in Key
      PROVE  /\ bucket[k] = EmptyBucket /\ disk[k] = NoFile
             /\ version[k[2]] = 0 /\ EmptyBucket.events.version = 0
  BY DEF Init, Key, EmptyBucket, NoEvents
<1>2. posted = {}
  BY DEF Init
<1> QED BY <1>1, <1>2 DEF HeldInv, NotAhead

LEMMA InitMapped == Init => Cache!CacheInit
<1> SUFFICES ASSUME Init PROVE Cache!CacheInit
  OBVIOUS
<1>1. Abs = [k \in Key |-> Cache!Unloaded]
  BY EmptyBucketSeen DEF Init, Abs
<1>2. Floors = [c \in Calendar |-> 0] /\ version = [c \in Calendar |-> 0]
  BY DEF Init, Floors, Newest
<1> QED BY <1>1, <1>2 DEF Cache!CacheInit, Cache!Key, Key, Abs, Seen, Confirmed, Floors

LEMMA StepRefines ==
  TypeOK /\ IndexConsistent /\ CurrentInv /\ HeldInv /\ [Next]_vars
    => HeldInv' /\ [Cache!CacheNext]_(Cache!cacheVars)
<1> SUFFICES ASSUME TypeOK, IndexConsistent, CurrentInv, HeldInv, [Next]_vars
             PROVE  HeldInv' /\ [Cache!CacheNext]_(Cache!cacheVars)
  OBVIOUS
<1>0. /\ bucket \in Tables /\ bucketByRequestId \in Indexes
      /\ Linked(bucket, bucketByRequestId) /\ OneOutcomePerRequest
      /\ disk \in [Key -> Snapshot \cup {NoFile}]
      /\ EditsBehind
  BY LinkedIsIndexConsistent DEF TypeOK, Tables, Indexes, CurrentInv
<1>k. Cache!Key = Key
  BY MappedVars
<1>h. /\ \A k \in Key : /\ bucket[k].state = "NotLoaded" => bucket[k] = EmptyBucket
                        /\ NotAhead(k[2], bucket[k].events)
                        /\ disk[k] # NoFile => NotAhead(k[2], disk[k])
      /\ \A p \in posted :
           /\ p.ok => NotAhead(p.calendar, p.events)
           /\ p.ok /\ bucketByRequestId[p.id] # NoBucket =>
                bucket[bucketByRequestId[p.id]].events.version <= p.events.version
  BY DEF HeldInv, NewerThanHeld
<1>1. ASSUME NEW months \in ViewRange, NEW calendars \in SUBSET Calendar,
             EnsureMonths(months, calendars) \/ RefreshVisible(months, calendars)
      PROVE  HeldInv' /\ Cache!Ask
  <2> DEFINE keys == months \X calendars
             h == Hydrated(bucket, disk, keys)
  <2>1. keys \in SUBSET Key
    BY ConstantsAssumption DEF Key
  <2>2. posted' = posted /\ disk' = disk /\ UNCHANGED serverVars
    BY <1>1 DEF EnsureMonths, RefreshVisible
  <2>3. PICK need \in SUBSET Key :
          /\ FetchBuckets(h, bucketByRequestId, need)
          /\ need = {k \in keys : BucketNeedsFetch(h[k])}
               \/ need = {k \in keys : h[k].state # "InFlight"}
    BY <1>1, <2>1 DEF EnsureMonths, EnsureBuckets, RefreshVisible
  <2> HIDE DEF keys
  <2>4. \A k \in need : k \in keys /\ bucket[k].state # "InFlight"
    BY <1>0, <2>1, <2>3 DEF BucketNeedsFetch, Hydrated, Tables, Bucket
  <2>5. \A k \in keys : bucket[k].state = "NotLoaded" => k \in need
    <3>1. ASSUME NEW k \in keys, bucket[k].state = "NotLoaded"
          PROVE  h[k].state # "InFlight" /\ BucketNeedsFetch(h[k])
      <4>1. k \in Key
        BY <2>1
      <4> QED
        BY <1>0, <3>1, <4>1 DEF BucketNeedsFetch, BucketFresh, Hydrated, Tables, Bucket
    <3> QED BY <2>3, <3>1
  <2>6. version' = version
    BY <2>2 DEF serverVars
  <2>7. /\ HeldInv'
        /\ \A k \in Key : Seen(bucket'[k])
             \in {Seen(bucket[k])} \cup Cache!Asked(Seen(bucket[k]), version[k[2]])
    BY <1>0, <1>h, <2>1, <2>2, <2>3, <2>4, <2>5, <2>6, FetchedHeld
  <2> QED BY <2>2, <2>7, MappedAsk
<1>2. ASSUME NEW f \in wire, ServerAnswers(f) \/ FetchFails(f)
      PROVE  HeldInv' /\ UNCHANGED Cache!cacheVars
  <2>1. UNCHANGED <<bucket, bucketByRequestId, disk, serverVars>>
    BY <1>2 DEF ServerAnswers, FetchFails
  <2>2. f.id \in RequestId /\ f.calendar \in Calendar
    BY DEF TypeOK, Fetch
  <2>3. ASSUME NEW p \in posted', p \notin posted, p.ok
        PROVE  p.calendar = f.calendar /\ p.id = f.id /\ p.events.version = version[f.calendar]
    BY <1>2, <2>3 DEF ServerAnswers, FetchFails
  <2>4. ASSUME bucketByRequestId[f.id] # NoBucket
        PROVE  /\ bucketByRequestId[f.id] \in Key
               /\ bucketByRequestId[f.id][2] = f.calendar
    <3>1. RequestIndexed(f.id) /\ bucketByRequestId[f.id] \in Key
      BY <2>2, <2>4 DEF IndexConsistent, TypeOK
    <3>2. \A p \in posted : p.id # f.id
      BY <1>0 DEF OneOutcomePerRequest
    <3>3. [id |-> f.id, calendar |-> bucketByRequestId[f.id][2]] \in wire
      BY <2>4, <3>1, <3>2 DEF RequestIndexed
    <3> QED BY <1>0, <3>1, <3>3 DEF OneOutcomePerRequest
  <2>5. ASSUME NEW p \in posted'
        PROVE  (p.ok => NotAhead(p.calendar, p.events)') /\ NewerThanHeld(p)'
    <3>1. CASE p \in posted
      BY <1>h, <2>1, <3>1 DEF NewerThanHeld, NotAhead, serverVars
    <3>2. CASE p \notin posted
      <4>1. version[f.calendar] \in Nat
        BY <2>2 DEF TypeOK
      <4> QED
        BY <1>h, <2>1, <2>3, <2>4, <3>2, <4>1 DEF NewerThanHeld, NotAhead, serverVars
    <3> QED BY <3>1, <3>2
  <2>6. HeldInv'
    BY <1>h, <2>1, <2>5 DEF HeldInv, NotAhead, serverVars
  <2> QED BY <2>1, <2>6, MappedStutter
<1>3. ASSUME NEW p \in posted, OnEventsFetched(p)
      PROVE  HeldInv' /\ \E k \in Key : Cache!Answered(k)
  <2>k. PICK k : k = bucketByRequestId[p.id]
    OBVIOUS
  <2> DEFINE nb == [state |-> "Loaded", events |-> p.events, fetchedAt |-> "recent",
                   requestId |-> NoRequest, fromDiskPendingRefresh |-> FALSE]
  <2>1. p.ok /\ k # NoBucket
    BY <2>k, <1>3 DEF OnEventsFetched
  <2>2. /\ p.id \in RequestId /\ k \in Key /\ <<k[1], p.calendar>> = k
        /\ bucket[k].requestId = p.id
        /\ p.events \in Snapshot /\ p.calendar = k[2]
    BY <2>k, <2>1, AcceptedResult DEF Key
  <2>3. NotBefore(k[2], p.events.version)
    BY <2>k, <2>1, <2>2 DEF CurrentInv, ResultsCurrent, ResultCurrent
  <2>4. /\ bucket' = [bucket EXCEPT ![k] = nb]
        /\ bucketByRequestId' = [bucketByRequestId EXCEPT ![p.id] = NoBucket]
        /\ posted' = posted \ {p} /\ UNCHANGED serverVars
        /\ disk' \in {disk, [disk EXCEPT ![k] = p.events]}
    BY <2>k, <1>3, <2>2 DEF OnEventsFetched, StoreBucket
  <2>5. nb \in Bucket
    BY <2>2 DEF Bucket
  <2>6. bucket[k].state = "InFlight"
    BY <2>k, <1>0, <2>2, ConstantsAssumption DEF Linked, LinkedBucket
  <2>7. NotAhead(k[2], p.events) /\ bucket[k].events.version <= p.events.version
    BY <2>k, <1>h, <2>1, <2>2
  <2>8. /\ bucket'[k] = nb
        /\ \A j \in Key : j # k => bucket'[j] = bucket[j]
        /\ \A j \in Key : disk'[j] = disk[j] \/ (j = k /\ disk'[j] = p.events)
    BY <1>0, <2>2, <2>4 DEF TypeOK
  <2>9. ASSUME NEW q \in posted' PROVE NewerThanHeld(q)'
    <3>1. q \in posted /\ q.id \in RequestId /\ q.id # p.id
      BY <1>0, <2>4 DEF OneOutcomePerRequest, TypeOK, Result
    <3>2. bucketByRequestId'[q.id] = bucketByRequestId[q.id]
      BY <2>4, <3>1 DEF TypeOK
    <3>3. ASSUME q.ok, bucketByRequestId[q.id] # NoBucket
          PROVE  bucket'[bucketByRequestId[q.id]] = bucket[bucketByRequestId[q.id]]
      BY <2>k, <1>0, <2>2, <2>8, <3>1, <3>3 DEF Linked, LinkedRequest, Indexes
    <3> QED BY <1>h, <3>1, <3>2, <3>3 DEF NewerThanHeld
  <2>10. HeldInv'
    BY <1>h, <2>4, <2>7, <2>8, <2>9 DEF HeldInv, NotAhead, serverVars
  <2>11. /\ nb.state = "Loaded" /\ nb.events = p.events /\ nb.fetchedAt = "recent"
         /\ ~nb.fromDiskPendingRefresh
    OBVIOUS
  <2> HIDE DEF nb
  <2>12. Cache!Answered(k)
    BY <2>2, <2>3, <2>4, <2>5, <2>6, <2>7, <2>11, MappedAnswered
  <2> QED BY <2>2, <2>10, <2>12
<1>4. ASSUME NEW p \in posted, OnEventsFetchFailed(p)
      PROVE  HeldInv' /\ \E k \in Key : Cache!Refused(k)
  <2>k. PICK k : k = bucketByRequestId[p.id]
    OBVIOUS
  <2>1. k # NoBucket
    BY <2>k, <1>4 DEF OnEventsFetchFailed
  <2>2. /\ p.id \in RequestId /\ k \in Key /\ <<k[1], p.calendar>> = k
        /\ bucket[k].requestId = p.id
    BY <2>k, <2>1, AcceptedResult
  <2>3. /\ bucket' = [bucket EXCEPT ![k] = AfterFailure(bucket[k])]
        /\ bucketByRequestId' = [bucketByRequestId EXCEPT ![p.id] = NoBucket]
        /\ posted' = posted \ {p} /\ disk' = disk /\ UNCHANGED serverVars
    BY <2>k, <1>4, <2>2 DEF OnEventsFetchFailed
  <2>4. bucket[k].state = "InFlight"
    BY <2>k, <1>0, <2>2, ConstantsAssumption DEF Linked, LinkedBucket
  <2>5. \A j \in Key : /\ bucket'[j].events = bucket[j].events
                       /\ bucket'[j].state = "NotLoaded" => bucket'[j] = bucket[j]
    <3>1. bucket[k] \in Bucket
      BY <2>2 DEF TypeOK
    <3>2. AfterFailure(bucket[k]).events = bucket[k].events
          /\ AfterFailure(bucket[k]).state # "NotLoaded"
      BY <3>1 DEF AfterFailure, Bucket
    <3>3. bucket'[k] = AfterFailure(bucket[k]) /\ \A j \in Key : j # k => bucket'[j] = bucket[j]
      BY <2>2, <2>3 DEF TypeOK
    <3> QED BY <3>2, <3>3
  <2>6. ASSUME NEW q \in posted' PROVE NewerThanHeld(q)'
    <3>1. q \in posted /\ q.id \in RequestId /\ q.id # p.id
      BY <1>0, <2>3 DEF OneOutcomePerRequest, TypeOK, Result
    <3>2. bucketByRequestId'[q.id] = bucketByRequestId[q.id]
          /\ (bucketByRequestId[q.id] # NoBucket => bucketByRequestId[q.id] \in Key)
      BY <2>3, <3>1 DEF TypeOK
    <3> QED BY <1>h, <2>5, <3>1, <3>2 DEF NewerThanHeld
  <2>7. HeldInv'
    BY <1>h, <2>3, <2>5, <2>6 DEF HeldInv, NotAhead, serverVars
  <2>8. Cache!Refused(k)
    BY <2>2, <2>3, <2>4, MappedRefused
  <2> QED BY <2>2, <2>7, <2>8
<1>5. ASSUME NEW p \in posted, DropResult(p) PROVE HeldInv' /\ UNCHANGED Cache!cacheVars
  <2>1. UNCHANGED <<bucket, bucketByRequestId, disk, serverVars>> /\ posted' \in SUBSET posted
    BY <1>5 DEF DropResult
  <2>2. HeldInv'
    BY <1>h, <2>1 DEF HeldInv, NewerThanHeld, NotAhead, serverVars
  <2> QED BY <2>1, <2>2, MappedStutter
<1>6. ASSUME NEW c \in Calendar, ApplyLocalEdit(c) \/ ApplyRemoteEdit(c)
      PROVE  HeldInv' /\ Cache!ServerEdit(c)
  <2>1. /\ UNCHANGED <<bucket, bucketByRequestId, posted, disk, acked, sessionStart>>
        /\ version' = [version EXCEPT ![c] = @ + 1]
    BY <1>6 DEF ApplyLocalEdit, ApplyRemoteEdit
  <2>2. \A d \in Calendar : version[d] \in Nat /\ version'[d] \in Nat /\ version[d] <= version'[d]
    BY <2>1 DEF TypeOK
  <2>3. \A d \in Calendar, e \in Snapshot : NotAhead(d, e) => NotAhead(d, e)'
    BY <2>2 DEF NotAhead, Snapshot
  <2>4. \A k \in Key : /\ k[2] \in Calendar /\ bucket[k].events \in Snapshot
                       /\ disk[k] # NoFile => disk[k] \in Snapshot
    BY <1>0 DEF Key, Tables, Bucket
  <2>5. \A p \in posted : p.calendar \in Calendar /\ p.events \in Snapshot
    BY DEF TypeOK, Result
  <2>6. HeldInv'
    BY <1>h, <2>1, <2>3, <2>4, <2>5 DEF HeldInv, NewerThanHeld
  <2> QED BY <2>1, <2>6, MappedEdit
<1>7. ASSUME NEW e \in unacked, NEW months \in SUBSET Month, MutationAcked(e, months)
      PROVE  HeldInv' /\ \E c \in Calendar : Cache!Invalidate(c)
  <2> DEFINE gone == {k \in Key : k[2] = e.calendar}
             keys == months \X {e.calendar}
             b == BucketsWithout(gone)
             i == IndexWithout(gone)
  <2>0. e.calendar \in Calendar /\ e.version \in Nat /\ e.version <= version[e.calendar]
    BY <1>0 DEF TypeOK, Edit, EditsBehind
  <2>1. PICK d \in FilesAfterRemoving(gone) : disk' = d /\ EnsureBuckets(b, i, d, keys)
    BY <1>7 DEF MutationAcked
  <2>2. /\ posted' = posted /\ version' = version /\ sessionStart' = sessionStart
        /\ acked' = [acked EXCEPT ![e.calendar] = IF @ < e.version THEN e.version ELSE @]
    BY <1>7 DEF MutationAcked
  <2>3. gone \in SUBSET Key /\ keys \in SUBSET Key
        /\ \A k \in Key : k \in gone <=> k[2] = e.calendar
    BY <2>0 DEF Key
  <2>a. \A k \in keys : k \in gone
    BY <2>3
  <2> HIDE DEF gone, keys
  <2>4. /\ d \in [Key -> Snapshot \cup {NoFile}]
        /\ \A k \in Key : d[k] # NoFile => d[k] = disk[k]
    BY <2>3, FilesAfterRemovingType
  <2>5. /\ b \in Tables /\ i \in Indexes /\ Linked(b, i)
        /\ \A r \in RequestId : i[r] # NoBucket =>
             i[r] = bucketByRequestId[r] /\ bucketByRequestId[r] \notin gone
    BY <1>0, <2>3, WithoutLinked
  <2>6. \A k \in Key : b[k] = IF k \in gone THEN EmptyBucket ELSE bucket[k]
    BY DEF BucketsWithout
  <2> HIDE DEF b, i
  <2> DEFINE h == Hydrated(b, d, keys)
             need == {k \in keys : BucketNeedsFetch(h[k])}
  <2>7. FetchBuckets(h, i, need) /\ need \in SUBSET Key
    BY <2>1, <2>3 DEF EnsureBuckets
  <2>8. \A k \in need : k \in keys /\ b[k].state # "InFlight"
    BY <2>3, <2>6, <2>a DEF EmptyBucket
  <2>9. \A k \in keys : b[k].state = "NotLoaded" => k \in need
    <3>1. ASSUME NEW k \in keys, b[k].state = "NotLoaded" PROVE BucketNeedsFetch(h[k])
      <4>1. k \in Key
        BY <2>3
      <4> QED
        BY <2>5, <3>1, <4>1 DEF BucketNeedsFetch, BucketFresh, Hydrated, Tables, Bucket
    <3> QED BY <3>1
  <2>10. ASSUME NEW k \in Key
         PROVE  /\ b[k].state = "NotLoaded" => b[k] = EmptyBucket
                /\ NotAhead(k[2], b[k].events)
                /\ d[k] # NoFile => NotAhead(k[2], d[k])
    <3>1. version[k[2]] \in Nat
      BY DEF TypeOK, Key
    <3>2. NotAhead(k[2], EmptyBucket.events)
      BY <3>1 DEF NotAhead, EmptyBucket, NoEvents
    <3> QED BY <1>h, <2>4, <2>6, <3>2
  <2>11. ASSUME NEW p \in posted
         PROVE  /\ p.ok => NotAhead(p.calendar, p.events)
                /\ p.ok /\ i[p.id] # NoBucket =>
                     b[i[p.id]].events.version <= p.events.version
    <3>1. p.id \in RequestId
      BY DEF TypeOK, Result
    <3>2. i[p.id] # NoBucket => i[p.id] = bucketByRequestId[p.id] /\ i[p.id] \in Key \ gone
      BY <2>5, <3>1 DEF Indexes
    <3> QED BY <1>h, <2>6, <3>2
  <2>12. \A r \in RequestId : i[r] # NoBucket => bucketByRequestId[r] # NoBucket
    BY <2>5
  <2> HIDE DEF need
  <2>13. /\ HeldInv'
         /\ \A k \in Key : Seen(bucket'[k])
              \in {Seen(b[k])} \cup Cache!Asked(Seen(b[k]), version[k[2]])
    BY <1>0, <2>1, <2>2, <2>3, <2>4, <2>5, <2>7, <2>8, <2>9, <2>10, <2>11, <2>12, FetchedHeld
  <2>14. ASSUME NEW k \in Key
         PROVE  IF k[2] = e.calendar
                THEN Seen(bucket'[k]) \in {Cache!Unloaded}
                       \cup Cache!Asked(Cache!Unloaded, version[e.calendar])
                ELSE Seen(bucket'[k]) = Seen(bucket[k])
    <3>1. CASE k[2] = e.calendar
      BY <2>3, <2>6, <2>13, <3>1, EmptyBucketSeen
    <3>2. CASE k[2] # e.calendar
      <4>1. k \notin keys /\ k \notin need /\ b[k] = bucket[k]
        BY <2>3, <2>6, <2>8, <2>a, <3>2
      <4>2. bucket'[k] = h[k] /\ h[k] = b[k]
        BY <2>7, <4>1 DEF FetchBuckets, Hydrated
      <4> QED BY <3>2, <4>1, <4>2
    <3> QED BY <3>1, <3>2
  <2>15. Cache!Invalidate(e.calendar)
    BY <1>0, <2>0, <2>2, <2>14, MappedInvalidate
  <2> QED BY <2>0, <2>13, <2>15
<1>8. ASSUME NEW e \in unacked, MutationReplyLost(e) PROVE HeldInv' /\ UNCHANGED Cache!cacheVars
  <2>1. UNCHANGED <<bucket, bucketByRequestId, posted, disk, version, acked, sessionStart>>
    BY <1>8 DEF MutationReplyLost
  <2>2. HeldInv'
    BY <1>h, <2>1 DEF HeldInv, NewerThanHeld, NotAhead
  <2>3. UNCHANGED <<Abs, Floors, version>>
    BY <2>1 DEF Abs, Floors, Newest
  <2> QED BY <2>2, <2>3 DEF Abs, Seen, Confirmed, Floors, Cache!cacheVars
<1>9. ASSUME NEW k \in Key, Age(k) PROVE HeldInv' /\ UNCHANGED Cache!cacheVars
  <2>1. UNCHANGED <<bucketByRequestId, posted, disk, serverVars>>
    BY <1>9 DEF Age
  <2>2. \A j \in Key : /\ bucket'[j].events = bucket[j].events
                       /\ bucket'[j].state = bucket[j].state
                       /\ bucket'[j].fetchedAt = "never" <=> bucket[j].fetchedAt = "never"
                       /\ bucket'[j].fromDiskPendingRefresh = bucket[j].fromDiskPendingRefresh
    BY <1>9 DEF Age, TypeOK, Bucket
  <2>3. \A j \in Key : bucket[j].state = "NotLoaded" => bucket'[j] = bucket[j]
    BY <1>9, <1>h DEF Age, TypeOK, EmptyBucket
  <2>4. \A p \in posted : bucketByRequestId[p.id] # NoBucket => bucketByRequestId[p.id] \in Key
    BY DEF TypeOK, Result
  <2>5. HeldInv'
    BY <1>h, <2>1, <2>2, <2>3, <2>4 DEF HeldInv, NewerThanHeld, NotAhead, serverVars
  <2>6. \A j \in Key : Seen(bucket'[j]) = Seen(bucket[j])
    BY <2>2 DEF Seen
  <2> QED BY <2>1, <2>5, <2>6, MappedStutter
<1>10. ASSUME SignOut \/ Restart PROVE HeldInv' /\ Cache!DropAll
  <2>1. /\ bucket' = [k \in Key |-> EmptyBucket]
        /\ bucketByRequestId' = [r \in RequestId |-> NoBucket]
        /\ sessionStart' = version /\ version' = version /\ acked' = acked
        /\ posted' \in SUBSET posted
        /\ \A k \in Key : disk'[k] # NoFile => disk'[k] = disk[k]
    BY <1>10 DEF SignOut, Restart, FilesWithout
  <2>2. \A k \in Key : NotAhead(k[2], EmptyBucket.events)
    BY DEF NotAhead, EmptyBucket, NoEvents, TypeOK, Key
  <2>3. \A p \in posted : p.id \in RequestId
    BY DEF TypeOK, Result
  <2>4. HeldInv'
    BY <1>h, <2>1, <2>2, <2>3 DEF HeldInv, NewerThanHeld, NotAhead
  <2> QED BY <1>0, <2>1, <2>4, MappedDropAll
<1>11. ASSUME SignInAgain PROVE HeldInv' /\ UNCHANGED Cache!cacheVars
  <2>1. UNCHANGED <<bucket, bucketByRequestId, posted, serverVars>>
        /\ \A k \in Key : disk'[k] = NoFile
    BY <1>11 DEF SignInAgain
  <2>2. HeldInv'
    BY <1>h, <2>1 DEF HeldInv, NewerThanHeld, NotAhead, serverVars
  <2> QED BY <2>1, <2>2, MappedStutter
<1>12. CASE UNCHANGED vars
  <2>1. UNCHANGED <<bucket, bucketByRequestId, posted, disk, serverVars>>
    BY <1>12 DEF vars, serverVars
  <2>2. HeldInv'
    BY <1>h, <2>1 DEF HeldInv, NewerThanHeld, NotAhead, serverVars
  <2> QED BY <2>1, <2>2, MappedStutter
<1> QED
  BY <1>k, <1>1, <1>2, <1>3, <1>4, <1>5, <1>6, <1>7, <1>8, <1>9, <1>10, <1>11, <1>12
     DEF Next, Calls, Replies, Edits, Cache!CacheNext

(* Every behaviour of the store, seen through the mapping, is one of       *)
(* BucketCache: what the controllers are shown of the request ids, the     *)
(* index, the freshness clock, the queued replies and the files is no more *)
(* than buckets that are asked for, answered, refused and dropped.         *)
THEOREM StoreImplementsBucketCache == Spec => ImplementsBucketCache
<1>1. Init => /\ TypeOK /\ IndexConsistent /\ CurrentInv /\ HeldInv
              /\ Cache!CacheInit
  BY InitTypeIndex, InitCurrent, InitHeld, InitMapped
<1>2. (TypeOK /\ IndexConsistent /\ CurrentInv /\ HeldInv) /\ [Next]_vars
        => (TypeOK /\ IndexConsistent /\ CurrentInv /\ HeldInv)'
  BY StepTypeIndex, StepCurrent, StepRefines
<1>3. (TypeOK /\ IndexConsistent /\ CurrentInv /\ HeldInv) /\ [Next]_vars
        => [Cache!CacheNext]_(Cache!cacheVars)
  BY StepRefines
<1> QED BY <1>1, <1>2, <1>3, PTL DEF Spec, ImplementsBucketCache, Cache!CacheSpec

=============================================================================
