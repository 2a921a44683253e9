---------------------------- MODULE MCMediaJobs ----------------------------
(* MediaJobs with one file of an older version, or with two, older first.  *)
EXTENDS MediaJobs

CONSTANTS a, b
OneLegacy == <<a>>
TwoLegacy == <<a, b>>
=============================================================================
