----------------------------- MODULE MCFolders -----------------------------
(* A user with two folders in each other, each with a file, and an admin;  *)
(* or nobody yet.                                                          *)
EXTENDS Folders, TLC

CONSTANTS user, admin, a, b

Folder(u, p) == [owner |-> u, parent |-> p]

Nested ==
    [users |-> {user, admin},
     folders |-> <<Folder(user, None), Folder(user, 1), Folder(user, 2), Folder(admin, None)>>,
     files |-> (a :> [owner |-> user, folder |-> 3]) @@ (b :> [owner |-> user, folder |-> 2]),
     next |-> 5]

Nobody == [users |-> {}, folders |-> <<>>, files |-> <<>>, next |-> 1]

FirstDatabases == {Nested, Nobody}
=============================================================================
