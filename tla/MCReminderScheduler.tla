-------------------------- MODULE MCReminderScheduler --------------------------
(* Instances of ReminderScheduler for TLC.                                 *)
EXTENDS ReminderScheduler, TLC

CalendarSymmetry == Permutations(Calendar)
=============================================================================
