------------------------------ MODULE BucketCache ------------------------------
(***************************************************************************)
(* What the event controllers may rely on in the shared event store        *)
(* (calendar/montheventstore.h): a bucket per (month, calendar) that can   *)
(* be asked for, answered, refused, invalidated and dropped.  No request   *)
(* ids, no index, no freshness clock, no files: MonthEventStore has those, *)
(* and its ImplementsBucketCache says that it implements this module.      *)
(***************************************************************************)
EXTENDS Naturals

CONSTANTS
  Month,      \* month keys
  Calendar    \* calendar ids

VARIABLES
  cached,     \* per bucket: its state, its events, whether the server confirmed them
  floor,      \* per calendar: answers older than this version are not accepted
  latest      \* per calendar: the server's version

cacheVars == <<cached, floor, latest>>

Key == Month \X Calendar

Snapshot(n) == [version : 0..n, empty : BOOLEAN]
NoEvents == [version |-> 0, empty |-> TRUE]

State == {"NotLoaded", "InFlight", "Loaded", "Failed"}

CacheTypeOK ==
  /\ cached \in [Key -> [state : State, events : [version : Nat, empty : BOOLEAN],
                         confirmed : BOOLEAN]]
  /\ floor \in [Calendar -> Nat]
  /\ latest \in [Calendar -> Nat]

Unloaded == [state |-> "NotLoaded", events |-> NoEvents, confirmed |-> FALSE]

CacheInit ==
  /\ cached = [k \in Key |-> Unloaded]
  /\ floor = [c \in Calendar |-> 0]
  /\ latest = [c \in Calendar |-> 0]

-----------------------------------------------------------------------------
(* A bucket asked for is put in flight over the events it has, or over     *)
(* those of its cache file if it had none, or left alone when fresh; one   *)
(* in flight already is left alone.                                        *)
InFlight(b) == [b EXCEPT !.state = "InFlight"]

FromFile(n) == {[state |-> "InFlight", events |-> s, confirmed |-> FALSE] : s \in Snapshot(n)}

Asked(b, n) ==
  CASE b.state = "NotLoaded" -> {InFlight(b)} \cup FromFile(n)
    [] b.state = "Loaded" -> {b, InFlight(b)}
    [] b.state = "Failed" -> {InFlight(b)}
    [] OTHER -> {b}

(* Some buckets are asked for, by any controller.                          *)
Ask ==
  /\ cached' = [k \in Key |-> cached'[k]]
  /\ \A k \in Key : cached'[k] \in {cached[k]} \cup Asked(cached[k], latest[k[2]])
  /\ UNCHANGED <<floor, latest>>

(* An answer is no older than the floor, nor than what the bucket holds.   *)
Answered(k) ==
  /\ cached[k].state = "InFlight"
  /\ \E v \in floor[k[2]]..latest[k[2]], none \in BOOLEAN :
       /\ cached[k].events.version <= v
       /\ cached' = [cached EXCEPT ![k] =
         [state |-> "Loaded", events |-> [version |-> v, empty |-> none], confirmed |-> TRUE]]
  /\ UNCHANGED <<floor, latest>>

(* A refused bucket keeps the events it has, no longer taken as confirmed. *)
Refused(k) ==
  /\ cached[k].state = "InFlight"
  /\ cached' = [cached EXCEPT
       ![k].state = IF cached[k].events.empty THEN "Failed" ELSE "Loaded",
       ![k].confirmed = FALSE]
  /\ UNCHANGED <<floor, latest>>

ServerEdit(c) ==
  /\ latest' = [latest EXCEPT ![c] = @ + 1]
  /\ UNCHANGED <<cached, floor>>

(* An edit of calendar c succeeded: its buckets are dropped, and some of   *)
(* them asked for again.                                                   *)
Invalidate(c) ==
  /\ cached' = [k \in Key |-> cached'[k]]
  /\ \A k \in Key :
       cached'[k] \in IF k[2] = c THEN {Unloaded} \cup Asked(Unloaded, latest[c])
                                 ELSE {cached[k]}
  /\ \E v \in floor[c]..latest[c] : floor' = [floor EXCEPT ![c] = v]
  /\ UNCHANGED latest

(* A sign-out or a new process: nothing from before is accepted any more.  *)
DropAll ==
  /\ cached' = [k \in Key |-> Unloaded]
  /\ floor' = latest
  /\ UNCHANGED latest

CacheNext ==
  \/ Ask
  \/ \E k \in Key : Answered(k) \/ Refused(k)
  \/ \E c \in Calendar : ServerEdit(c) \/ Invalidate(c)
  \/ DropAll

CacheSpec == CacheInit /\ [][CacheNext]_cacheVars

(* Confirmed events are never older than what the cache may accept, and no *)
(* bucket holds a version the server has not reached.                      *)
ConfirmedAboveFloor ==
  \A k \in Key :
    /\ cached[k].events.version <= latest[k[2]]
    /\ cached[k].confirmed => floor[k[2]] <= cached[k].events.version
=============================================================================
