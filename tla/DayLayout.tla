------------------------------- MODULE DayLayout -------------------------------
(***************************************************************************)
(* What the views draw of a list of events on one day: the grouping by     *)
(* date (eventgrouping.cpp, Event::lastInclusiveLocalDate) and the         *)
(* side-by-side columns of TimeGridDayColumnWidget::relayoutEvents.        *)
(*                                                                         *)
(* An instant is a slot counted from the start of day 0, in local time     *)
(* without a change of offset; a day has SlotsPerDay of them.  An all-day  *)
(* event's start and end are day numbers, the end exclusive.               *)
(***************************************************************************)
EXTENDS Integers, Sequences, SequencesExt, FiniteSetsExt

CONSTANTS
  SlotsPerDay,
  MaxSpanDays     \* kMaxSpanDays

ASSUME LayoutAssumption == SlotsPerDay \in Nat \ {0} /\ MaxSpanDays \in Nat \ {0}

DayOf(t) == t \div SlotsPerDay
TimeOf(t) == t % SlotsPerDay
At(d, time) == d * SlotsPerDay + time

StartDate(e) == IF e.allDay THEN e.start ELSE DayOf(e.start)

(* Mutant of LastInclusiveDate: ending at midnight counts as the next day. *)
LastInclusiveDateOfMidnight(e) ==
  Max({StartDate(e), IF e.allDay THEN e.end - 1 ELSE DayOf(e.end)})

LastInclusiveDate(e) ==
  LET last == CASE e.allDay -> e.end - 1
                [] ~e.allDay /\ TimeOf(e.end) = 0 /\ DayOf(e.end) > StartDate(e) ->
                     DayOf(e.end) - 1
                [] OTHER -> DayOf(e.end)
  IN  Max({StartDate(e), last})

(* groupByDate: the days an event is listed on.                            *)
ListedOn(e) == StartDate(e)..Min({LastInclusiveDate(e), StartDate(e) + MaxSpanDays - 1})

-----------------------------------------------------------------------------
(* One day's timed pills.  events: a sequence of events; an item is its    *)
(* place in it.                                                            *)
ClippedStart(e, d) == Max({e.start, At(d, 0)})
ClippedEnd(e, d) == Min({e.end, At(d + 1, 0)})

Pills(events, d) ==
  {i \in DOMAIN events :
    LET e == events[i]
    IN  d \in ListedOn(e) /\ ~e.allDay /\ ClippedStart(e, d) < ClippedEnd(e, d)}

(* The stable sort by the clipped part; events come in the order of their  *)
(* start instants.                                                         *)
Rank(events, d, i) ==
  <<ClippedStart(events[i], d), ClippedEnd(events[i], d), events[i].start, i>>

Precedes(events, d, i, j) ==
  \E n \in 1..4 :
    /\ Rank(events, d, i)[n] < Rank(events, d, j)[n]
    /\ \A k \in 1..n - 1 : Rank(events, d, i)[k] = Rank(events, d, j)[k]

Sorted(events, d) ==
  CHOOSE s \in SetToSeqs(Pills(events, d)) :
    \A i, j \in DOMAIN s : i < j => Precedes(events, d, s[i], s[j])

(* The sorted LayoutItems: a pill's event and the part of it on the day.   *)
Items(events, d) ==
  LET order == Sorted(events, d)
  IN  [k \in DOMAIN order |-> [item |-> order[k],
                               start |-> ClippedStart(events[order[k]], d),
                               end |-> ClippedEnd(events[order[k]], d)]]

(* The place of the first pill of the k-th pill's cluster: a cluster       *)
(* begins where all before it have ended.                                  *)
Begins(items, k) == \A j \in 1..k - 1 : items[j].end <= items[k].start
ClusterOf(items, k) == Max({j \in 1..k : Begins(items, j)})

(* Mutant of Fits: back-to-back pills do not share a column.               *)
FitsWithGap(a, b) == a.end < b.start

(* Pill b can go below pill a.                                             *)
Fits(a, b) == a.end <= b.start

(* assignColumnsForCluster: each pill takes the first column whose pills   *)
(* it can go below.                                                        *)
Columns(items) ==
  LET column[k \in DOMAIN items] ==
        Min({c \in 0..k - 1 : \A j \in ClusterOf(items, k)..k - 1 :
              column[j] = c => Fits(items[j], items[k])})
  IN  column

(* The pills with their cluster and their columnIndex.                     *)
Layout(events, d) ==
  LET items == Items(events, d)
      columns == Columns(items)
  IN  {[item |-> items[k].item, start |-> items[k].start, end |-> items[k].end,
        cluster |-> ClusterOf(items, k), columnIndex |-> columns[k]] : k \in DOMAIN items}

ColumnCount(layout, cluster) ==
  Max({p.columnIndex + 1 : p \in {q \in layout : q.cluster = cluster}})

-----------------------------------------------------------------------------
(* Properties of one day, stated without the algorithm.                    *)
Together(p, q) == p.start < q.end /\ q.start < p.end

(* Pills that share a moment share a cluster, which divides the width      *)
(* among its columns, and have a column each; pills of two clusters share  *)
(* no moment; a cluster has no more columns than pills at some moment.     *)
NothingCovered(events, d) ==
  LET layout == Layout(events, d)
      AtOnce(t) == {p \in layout : p.start <= t /\ t < p.end}
  IN  /\ \A p, q \in layout :
           p # q /\ Together(p, q) => p.cluster = q.cluster /\ p.columnIndex # q.columnIndex
      /\ \A p \in layout :
           \E q \in layout : q.cluster = p.cluster
             /\ Cardinality(AtOnce(q.start)) = ColumnCount(layout, p.cluster)

(* A timed event has a pill on exactly the days it takes time of.          *)
NothingMissing(events, d) ==
  \A i \in DOMAIN events :
    LET e == events[i]
        takesTime == e.start < At(d + 1, 0) /\ At(d, 0) < e.end
    IN  ~e.allDay /\ e.start < e.end /\ d < StartDate(e) + MaxSpanDays =>
          (takesTime <=> d \in ListedOn(e)) /\ (takesTime <=> i \in Pills(events, d))
=============================================================================
