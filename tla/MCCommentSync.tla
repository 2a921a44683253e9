--------------------------- MODULE MCCommentSync ---------------------------
(***************************************************************************)
(* Instances of CommentSync for TLC.                                       *)
(***************************************************************************)
EXTENDS CommentSync, TLC

Symmetry == Permutations(Sessions) \cup Permutations(MediaFiles)
=============================================================================
