---------------------------- MODULE MCBackupHooks ----------------------------
(* A small instance of BackupHooks; its constants are all in the cfg.      *)
EXTENDS BackupHooks
=============================================================================
