--------------------------- MODULE MCEventEditing ---------------------------
(* Instances of EventEditing for TLC.                                      *)
EXTENDS EventEditing, TLC

CONSTANTS month, week
=============================================================================
