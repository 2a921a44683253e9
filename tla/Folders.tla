------------------------------ MODULE Folders ------------------------------
(***************************************************************************)
(* The organizer's virtual folders (src/organizer/basic_folders): making,  *)
(* moving and trashing them, the users' root folders, and what is repaired *)
(* when the organizer starts.                                              *)
(*                                                                         *)
(* The organizer handles calls in one event loop. A handler is a single    *)
(* action, but for trashing: that waits for the server once per file, and  *)
(* other handlers run in between. Users act on listings that may be old,   *)
(* so a command may name any folder or file. The server inserts and        *)
(* deletes files and users in the same database at any time. Titles, sort  *)
(* orders, shares and plugins are left out.                                *)
(***************************************************************************)
EXTENDS Naturals, Sequences, FiniteSets, SequencesExt, FiniteSetsExt

CONSTANTS
    Users, Admins, Files,
    Databases,      \* what may be in the database at first
    MaxCommands,    \* bound on the commands that change folders
    None            \* no folder, no user

(* A database:                                                             *)
(*   users    the rows of users;                                           *)
(*   folders  from an id to the owner and the parent, the folder that has  *)
(*            it as an item;                                               *)
(*   files    from a media file to the owner and its folder;               *)
(*   next     the next id of a folder.                                     *)
(* Owners are users.                                                       *)
Typed(d) ==
    LET fs == DOMAIN d.folders
        ms == DOMAIN d.files IN
    /\ fs \subseteq 1 .. d.next - 1 /\ ms \subseteq Files
    /\ d \in [users : SUBSET Users,
              folders : [fs -> [owner : d.users, parent : fs \cup {None}]],
              files : [ms -> [owner : d.users, folder : fs \cup {None}]],
              next : Nat \ {0}]

Parent(d, f) == d.folders[f].parent

(* Whatever lies in a folder belongs to the owner of that folder.          *)
Agreeing(d) ==
    /\ \A f \in DOMAIN d.folders :
        Parent(d, f) # None => d.folders[f].owner = d.folders[Parent(d, f)].owner
    /\ \A m \in DOMAIN d.files : LET f == d.files[m].folder IN
        f # None => d.files[m].owner = d.folders[f].owner

ASSUME ConstantsAssumption ==
    /\ Admins \subseteq Users /\ IsFiniteSet(Users)
    /\ None \notin Nat /\ Files \cap Nat = {}
    /\ MaxCommands \in Nat
    /\ \A d \in Databases : Typed(d) /\ Agreeing(d)

May(u, owner) == u = owner \/ u \in Admins

(* A folder and those it lies in: parents are followed often enough to     *)
(* have been everywhere, also around a loop.                               *)
Above(d, f) ==
    LET up[n \in Nat] ==
            IF n = 0 THEN {f}
            ELSE LET fs == up[n - 1] IN
                 fs \cup ({Parent(d, g) : g \in fs} \ {None})
    IN up[Cardinality(DOMAIN d.folders)]

Below(d, f) == {g \in DOMAIN d.folders : f \in Above(d, g)}

InLoop(d) ==
    {f \in DOMAIN d.folders : Parent(d, f) # None /\ f \in Above(d, Parent(d, f))}

(* Where an item is shown, and may be selected together with others.       *)
Listing(d, it) ==
    IF it \in DOMAIN d.folders THEN Parent(d, it) ELSE d.files[it].folder

FilesIn(d, fs) == {m \in DOMAIN d.files : d.files[m].folder \in fs}

Roots(d, u) ==
    {f \in DOMAIN d.folders : d.folders[f].owner = u /\ Parent(d, f) = None}

-----------------------------------------------------------------------------
(* What the operations make of a database.                                 *)

Put(table, key, row) ==
    [k \in DOMAIN table \cup {key} |-> IF k = key THEN row ELSE table[k]]

\* Mutant: of several roots the first is taken and the others are left.
RootedOnly(d, u) ==
    LET roots == Roots(d, u)
        root == IF roots = {} THEN d.next ELSE Min(roots)
    IN [d EXCEPT
        !.folders = Put(@, root, [owner |-> u, parent |-> None]),
        !.files = [m \in DOMAIN @ |->
            IF @[m].owner = u /\ @[m].folder = None
            THEN [owner |-> u, folder |-> root] ELSE @[m]],
        !.next = IF roots = {} THEN @ + 1 ELSE @]

(* db_get_or_create_user_root_folder: a first root folder is made, further *)
(* ones go into the oldest, and files in no folder are put there.          *)
Rooted(d, u) ==
    LET roots == Roots(d, u)
        root == IF roots = {} THEN d.next ELSE Min(roots)
        merged == [f \in DOMAIN d.folders |->
            IF f \in roots THEN [owner |-> u, parent |-> root] ELSE d.folders[f]]
    IN [d EXCEPT
        !.folders = Put(merged, root, [owner |-> u, parent |-> None]),
        !.files = [m \in DOMAIN @ |->
            IF @[m].owner = u /\ @[m].folder = None
            THEN [owner |-> u, folder |-> root] ELSE @[m]],
        !.next = IF roots = {} THEN @ + 1 ELSE @]

RootedAll(d, us) == FoldSet(LAMBDA u, e : Rooted(e, u), d, us)

(* In the folder f, with the owner that f has.                             *)
WithFolder(d, f) ==
    [d EXCEPT
        !.folders = Put(@, d.next, [owner |-> @[f].owner, parent |-> f]),
        !.next = @ + 1]

\* Mutant: only the destination's owner is looked at.
CanMoveAny(d, u, it, dst) ==
    \/ /\ it \in DOMAIN d.folders \ {dst}
       /\ Parent(d, it) # None
    \/ it \in DOMAIN d.files

CanMove(d, u, it, dst) ==
    \/ /\ it \in DOMAIN d.folders \ {dst}
       /\ May(u, d.folders[it].owner)
       /\ Parent(d, it) # None
    \/ /\ it \in DOMAIN d.files
       /\ May(u, d.files[it].owner)

\* Mutant: only the folder itself changes hands.
OwnedFlat(d, f, u) == [d EXCEPT !.folders[f].owner = u]

(* _recursive_set_folder_owner                                             *)
Owned(d, f, u) ==
    LET below == Below(d, f) IN
    [d EXCEPT
        !.folders = [g \in DOMAIN @ |->
            IF g \in below THEN [owner |-> u, parent |-> @[g].parent] ELSE @[g]],
        !.files = [m \in DOMAIN @ |->
            IF @[m].folder \in below THEN [owner |-> u, folder |-> @[m].folder]
            ELSE @[m]]]

MovedTo(d, it, dst) ==
    LET owner == d.folders[dst].owner
        row == [owner |-> d.folders[it].owner, parent |-> dst] IN
    IF it \in DOMAIN d.folders
    THEN Owned([d EXCEPT !.folders = Put(@, it, row)], it, owner)
    ELSE [d EXCEPT !.files = Put(@, it, [owner |-> owner, folder |-> dst])]

(* Items are committed one by one; at the first that cannot be moved the   *)
(* handler gives up, and the ones before it stay moved.                    *)
MovedAll(d, u, items, dst) ==
    FoldLeft(LAMBDA r, it :
                IF r.done /\ CanMove(r.db, u, it, dst)
                THEN [r EXCEPT !.db = MovedTo(@, it, dst)]
                ELSE [r EXCEPT !.done = FALSE],
             [db |-> d, done |-> TRUE], items)

(* The recursion must come to an end, and all of it be one's own.          *)
CanTrash(d, u, f) ==
    /\ f \in DOMAIN d.folders
    /\ Below(d, f) \cap InLoop(d) = {}
    /\ \A g \in Below(d, f) : May(u, d.folders[g].owner)

Without(d, fs) ==
    [d EXCEPT
        !.folders = [f \in DOMAIN @ \ fs |-> @[f]],
        !.files = [m \in DOMAIN @ |->
            IF @[m].folder \in fs THEN [owner |-> @[m].owner, folder |-> None]
            ELSE @[m]]]

WithoutFile(d, m) == [d EXCEPT !.files = [n \in DOMAIN @ \ {m} |-> @[n]]]

\* Mutant: files are looked for in the folder only.
EmptyFolderUser(d, u) ==
    LET own == {f \in DOMAIN d.folders : d.folders[f].owner = u} IN
    Cardinality(own) <= 1 /\ FilesIn(d, own) = {} /\ own \subseteq Roots(d, u)

(* No files, and at most one folder, which is a root with nothing in it.   *)
EmptyUser(d, u) ==
    LET own == {f \in DOMAIN d.folders : d.folders[f].owner = u} IN
    /\ \A m \in DOMAIN d.files : d.files[m].owner # u
    /\ Cardinality(own) <= 1
    /\ \A f \in own : Parent(d, f) = None /\ FilesIn(d, {f}) = {} /\ Below(d, f) = {f}

WithoutUsers(d, us) ==
    [Without(d, {f \in DOMAIN d.folders : d.folders[f].owner \in us})
        EXCEPT !.users = @ \ us]

\* Mutant: loops are reported and left.
LoopsReported(d) == {d}

(* db_check_for_folder_loops: of every loop one edge is removed, whichever *)
(* the search closes it with.                                              *)
LoopsBroken(d) ==
    {[d EXCEPT !.folders = [f \in DOMAIN @ |->
         IF f \in cut THEN [owner |-> @[f].owner, parent |-> None] ELSE @[f]]] :
     cut \in {c \in SUBSET InLoop(d) :
         \A f \in InLoop(d) : Cardinality(c \cap Above(d, f)) = 1}}

-----------------------------------------------------------------------------
VARIABLES
    db,             \* the database
    trash,          \* media_to_delete of a user's trash_folder command
    commands        \* number of commands and ingestions so far

vars == <<db, trash, commands>>

Command == commands < MaxCommands /\ commands' = commands + 1

Init ==
    /\ db \in Databases
    /\ trash = [u \in Users |-> {}]
    /\ commands = 0

(* construct_navi_page: looks up the root folder of the user, and of all   *)
(* users for an admin's home page. Fails for one who is no user any more.  *)
Show(u, d) ==
    IF u \notin d.users THEN db' = d
    ELSE \E us \in {{u}} \cup (IF u \in Admins THEN {d.users} ELSE {}) :
            db' = RootedAll(d, us)

Visit(u) ==
    /\ u \in db.users
    /\ UNCHANGED <<trash, commands>>
    /\ Show(u, db)

(* Any page but an admin's home page.                                      *)
VisitOwn(u) ==
    /\ u \in db.users
    /\ UNCHANGED <<trash, commands>>
    /\ db' = Rooted(db, u)

(* new_folder, in the folder that the path of the session ends with.       *)
NewFolder(u, f) ==
    /\ u \in db.users
    /\ f \in DOMAIN Rooted(db, u).folders
    /\ Command
    /\ LET d == Rooted(db, u) IN
       IF May(u, d.folders[f].owner) THEN Show(u, WithFolder(d, f)) ELSE db' = d
    /\ UNCHANGED trash

Move(u, items, dst) ==
    /\ dst \in DOMAIN db.folders
    /\ May(u, db.folders[dst].owner)
    /\ Command
    /\ LET moved == MovedAll(db, u, items, dst) IN
       IF moved.done THEN Show(u, moved.db) ELSE db' = moved.db
    /\ UNCHANGED trash

(* trash_folder: the folders go in one transaction, their files then one   *)
(* by one.                                                                 *)
Trash(u, f) ==
    /\ u \in db.users /\ trash[u] = {}
    /\ f \in DOMAIN db.folders
    /\ May(u, db.folders[f].owner)
    /\ Command
    /\ LET d == Rooted(db, u)
           files == FilesIn(d, Below(d, f)) IN
       IF ~CanTrash(d, u, f) THEN db' = d /\ UNCHANGED trash
       ELSE IF files = {} THEN Show(u, Without(d, Below(d, f))) /\ UNCHANGED trash
       ELSE /\ trash' = [trash EXCEPT ![u] = files]
            /\ db' = Without(d, Below(d, f))

TrashFile(u, m) ==
    /\ m \in trash[u] /\ m \in DOMAIN db.files
    /\ UNCHANGED commands
    /\ trash' = [trash EXCEPT ![u] = @ \ {m}]
    /\ IF trash'[u] = {} THEN Show(u, WithoutFile(db, m))
       ELSE db' = WithoutFile(db, m)

(* The server fails to delete the file, or there is none any more: the     *)
(* handler ends, and the remaining files stay.                             *)
TrashFileFails(u) ==
    /\ trash[u] # {}
    /\ trash' = [trash EXCEPT ![u] = {}]
    /\ db' = db
    /\ UNCHANGED commands

CleanupUser(u, f) ==
    /\ u \in Admins
    /\ f \in DOMAIN db.folders
    /\ Command
    /\ LET owner == db.folders[f].owner IN
       Show(u, IF EmptyUser(db, owner) THEN WithoutUsers(db, {owner}) ELSE db)
    /\ UNCHANGED trash

CleanupUsers(u) ==
    /\ u \in Admins \cap db.users
    /\ Command
    /\ LET d == Rooted(db, u)
       IN Show(u, WithoutUsers(d, {v \in d.users \ {u} : EmptyUser(d, v)}))
    /\ UNCHANGED trash

(* Everything the organizer does for a user. Several items are moved       *)
(* together when they were selected in one listing.                        *)
Handlers(u) ==
    \/ Visit(u)
    \/ \E f \in 1 .. db.next : NewFolder(u, f)
    \/ \E dst \in DOMAIN db.folders, it, other \in DOMAIN db.folders \cup DOMAIN db.files :
        /\ Listing(db, it) = Listing(db, other)
        /\ Move(u, IF other = it THEN <<it>> ELSE <<it, other>>, dst)
    \/ \E f \in DOMAIN db.folders : Trash(u, f) \/ CleanupUser(u, f)
    \/ \E m \in Files : TrashFile(u, m)
    \/ TrashFileFails(u)
    \/ CleanupUsers(u)

-----------------------------------------------------------------------------
(* The server, in the same database.                                       *)

Login(u) ==
    /\ u \notin db.users
    /\ db' = [db EXCEPT !.users = @ \cup {u}]
    /\ UNCHANGED <<trash, commands>>

(* Ingestion of a file, with or without the organizer being told.          *)
Ingest(u, m) ==
    /\ Command
    /\ m \notin DOMAIN db.files
    /\ LET d == [db EXCEPT !.users = @ \cup {u},
                           !.files = Put(@, m, [owner |-> u, folder |-> None])] IN
       \/ db' = d
       \/ db' = Rooted(d, u)
    /\ UNCHANGED trash

Delete(u, m) ==
    /\ m \in DOMAIN db.files /\ May(u, db.files[m].owner)
    /\ db' = WithoutFile(db, m)
    /\ UNCHANGED <<trash, commands>>

(* The integrity tests of the handshake.                                   *)
Restart ==
    /\ UNCHANGED commands
    /\ trash' = [u \in Users |-> {}]
    /\ db' \in LoopsBroken(db)

Next ==
    \/ \E u \in Users :
        Handlers(u) \/ Login(u) \/ \E m \in Files : Ingest(u, m) \/ Delete(u, m)
    \/ Restart

Spec == Init /\ [][Next]_vars

(* Users come back to their pages, the event loop goes on with what was    *)
(* begun, and now and then the server is restarted.                        *)
FairSpec ==
    /\ Spec
    /\ WF_vars(\E u \in Users : VisitOwn(u))
    /\ WF_vars(\E u \in Users : TrashFileFails(u) \/ \E m \in Files : TrashFile(u, m))
    /\ SF_vars(Restart)

-----------------------------------------------------------------------------
(* Properties.                                                             *)

(* Owners are users: no user is cleaned up who still has something.        *)
TypeOK ==
    /\ Typed(db)
    /\ trash \in [Users -> SUBSET Files]
    /\ commands \in 0 .. MaxCommands

(* Whatever lies in a folder belongs to the owner of that folder, after    *)
(* any moves between users, also into a folder's own subfolders.           *)
OwnersAgree == Agreeing(db)

(* There is one root folder, and everything of the user's lies below it    *)
(* that is not cut off by a loop of folders.                               *)
Complete(u) ==
    \E root \in DOMAIN db.folders :
        /\ Roots(db, u) = {root}
        /\ \A f \in DOMAIN db.folders :
            db.folders[f].owner = u =>
                f \in Below(db, root) \/ Above(db, f) \cap InLoop(db) # {}
        /\ \A m \in DOMAIN db.files : db.files[m].owner = u => db.files[m].folder # None

(* Who looks at a page finds everything, whatever happened before: folders *)
(* given away or broken out of a loop, files ingested or left by trashing. *)
PageShowsAll == [][\A u \in Users : VisitOwn(u) => Complete(u)']_vars

(* Something of another's is changed, other than a file whose trashing has *)
(* begun.                                                                  *)
Touched(u) ==
    \/ \E f \in DOMAIN db.folders : db.folders[f].owner # u /\
        ~(f \in DOMAIN db'.folders /\ db'.folders[f] = db.folders[f])
    \/ \E m \in DOMAIN db.files \ trash[u] : db.files[m].owner # u /\
        ~(m \in DOMAIN db'.files /\ db'.files[m] = db.files[m])

(* What others own is not touched by one who is no admin, not by moving or *)
(* trashing a folder that something of theirs lies in either.              *)
OthersKeep == [][\A u \in Users \ Admins : Touched(u) => ~Handlers(u)]_vars

AllFound ==
    \A m \in DOMAIN db.files :
        \E f \in Roots(db, db.files[m].owner) : db.files[m].folder \in Below(db, f)

(* Files that are not deleted can in the end be found from their owners'   *)
(* root folders: after folders were moved into each other, or when         *)
(* trashing them failed half-way.                                          *)
FilesAreFound == []<>AllFound
=============================================================================
