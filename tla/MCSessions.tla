----------------------------- MODULE MCSessions -----------------------------
(***************************************************************************)
(* Instances of Sessions for TLC.                                          *)
(***************************************************************************)
EXTENDS Sessions, TLC

\* Sessions, files, collabs and organizer tasks are interchangeable (used by
\* the run without temporal properties that need fairness).
Symmetry ==
    Permutations(Sessions) \cup Permutations(MediaFiles)
        \cup Permutations(Collabs) \cup Permutations(OrgTasks)
=============================================================================
