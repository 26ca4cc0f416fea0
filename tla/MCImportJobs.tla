---------------------------- MODULE MCImportJobs ----------------------------
(* Small instances of ImportJobs for TLC; the constants are all in the .cfg     *)
(* files.                                                                      *)
EXTENDS ImportJobs, TLC
=============================================================================
