--------------------------- MODULE MCMediaIngest ---------------------------
(***************************************************************************)
(* Instances of MediaIngest for TLC.                                       *)
(***************************************************************************)
EXTENDS MediaIngest, TLC

CONSTANTS f1, f2, f3, f4, alice, bob, i1, i2

\* f2: the operating system names no owner of it. f4: of another user.
Owners == [f \in Files |-> IF f = f2 THEN None ELSE IF f = f4 THEN bob ELSE alice]

\* f1 and f3 only differ behind the first 32 KiB ...
Twins == [f \in Files |-> 2]

\* ... or just happen to have the same 32 bits, and f4 has one byte.
Sizes == [f \in Files |-> IF f = f4 THEN 1 ELSE IF f = f3 THEN 3 ELSE 2]

\* All but f2 have one id.
Hash == [fu \in Files \X Users |-> IF fu[1] = f2 THEN i2 ELSE i1]

Symmetry == Permutations(Jobs) \cup Permutations(Incoming)
=============================================================================
