---------------------------- MODULE MCMainWindow ----------------------------
(* Instances of MainWindow for TLC.                                        *)
EXTENDS MainWindow, TLC

CONSTANTS month, week

=============================================================================
