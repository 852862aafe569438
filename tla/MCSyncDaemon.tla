----------------------------- MODULE MCSyncDaemon -----------------------------
(***************************************************************************)
(* Instances of SyncDaemon for TLC.  One unit of time is a minute: a poll  *)
(* interval of 2, a status that is too old after 5.                        *)
(***************************************************************************)
EXTENDS SyncDaemon
=============================================================================
