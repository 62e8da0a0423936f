--------------------------- MODULE MCMonthEventStore ---------------------------
(* Instances of MonthEventStore for TLC.                                   *)
EXTENDS MonthEventStore, TLC

CONSTANTS m1, m2

(* The month view shows one month; the week view one or two neighbours.    *)
OneMonth == {{m1}}
OneOrBothMonths == {{m1}, {m1, m2}}
BothMonths == {m1, m2}
FirstMonth == {m1}

(* Request ids are only ever compared.                                     *)
IdSymmetry == Permutations(RequestId)
=============================================================================
