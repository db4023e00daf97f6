---------------------------- MODULE MCRestoreJob ----------------------------
(* Two restores of one standalone, for TLC: one edit or deletion once an   *)
(* attempt ended, or one restart, failed write or wait for the backup.     *)
EXTENDS RestoreJob

MCNext == Next /\ used'.changes + used'.faults <= 1
MCSpec == Init /\ [][MCNext]_vars /\ Fairness
=============================================================================
