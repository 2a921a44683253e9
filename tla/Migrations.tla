----------------------------- MODULE Migrations -----------------------------
(***************************************************************************)
(* Database migrations at start: planning them (migration_solver.rs),      *)
(* applying those of the server and of the organizer in one order, with a  *)
(* backup to fall back on (lib.rs, db_backup.rs, database/mod.rs).         *)
(*                                                                         *)
(* Server and organizer share one SQLite file.  Versions, strings in the   *)
(* code, are numbers here; the organizer's sort before the server's, as    *)
(* "0001_..." does before "2022...".  What is in the database is abstract- *)
(* ed to the migrations it has seen.  A start may fail and the server may  *)
(* crash at any step, and may then be started again.                       *)
(***************************************************************************)
EXTENDS Naturals, Sequences, FiniteSets, SequencesExt, FiniteSetsExt

CONSTANTS
    Releases,       \* numbers of migrations a server release may have
    Graphs,         \* sets of migrations an organizer may have
    MaxFaults,      \* bound on crashes and failing steps
    None,           \* no version, no bound, no plan, no file
    Torn            \* the content of a half-written database file

Modules == {"server", "organizer"}

Dep(mod, min, max) == [mod |-> mod, min |-> min, max |-> max]
Deps == [mod : Modules, min : Nat \cup {None}, max : Nat \cup {None}]

Migration(mod, ver, deps) == [mod |-> mod, ver |-> ver, deps |-> deps]
Migrations == [mod : Modules, ver : Nat \ {0}, deps : SUBSET Deps]

(* Every migration of an organizer says from which versions of its own     *)
(* module it leads up to its version (organizer/database/migrations.py).   *)
LeadsUp(m) ==
    /\ m \in Migrations /\ m.mod = "organizer"
    /\ \E dep \in m.deps :
          dep.mod = "organizer" /\ dep.max # None /\ dep.max < m.ver

ASSUME ConstantsAssumption ==
    /\ Releases \subseteq Nat
    /\ \A g \in Graphs : IsFiniteSet(g) /\ \A m \in g : LeadsUp(m)
    /\ MaxFaults \in Nat
    /\ None # Torn /\ None \notin Nat /\ None \notin Seq(Migrations)
    /\ {None, Torn} \cap [server : Nat, organizer : SUBSET Nat] = {}

-----------------------------------------------------------------------------
(* The solver. A database is given by the server's migrations it has seen, *)
(* always the first so many, and the set of the organizer's.               *)

(* A new database: no server version at all, but "" for the organizer.     *)
Empty == [server |-> 0, organizer |-> {}]

Versions(d) ==
    [server |-> IF d.server = 0 THEN None ELSE d.server,
     organizer |-> IF d.organizer = {} THEN 0 ELSE Max(d.organizer)]

\* Mutant: one migration too many.
PendingOver(d, n, g) ==
    {Migration("server", v,
        LET prev == IF v = 1 THEN None ELSE v - 1 IN
        {Dep("server", prev, prev)}) : v \in d.server + 1 .. n + 1}
    \cup {m \in g : m.ver > Versions(d).organizer}

(* The server's pending migrations, each depending on exactly the one      *)
(* before it, and the organizer's of a higher version than its own.        *)
Pending(d, n, g) ==
    {Migration("server", v,
        LET prev == IF v = 1 THEN None ELSE v - 1 IN
        {Dep("server", prev, prev)}) : v \in d.server + 1 .. n}
    \cup {m \in g : m.ver > Versions(d).organizer}

(* A module without a version meets no lower bound and every upper one.    *)
Meets(at, dep) ==
    LET cur == at[dep.mod] IN
    /\ dep.min # None => cur # None /\ cur >= dep.min
    /\ dep.max # None /\ cur # None => cur <= dep.max

CanApply(at, m) == \A dep \in m.deps : Meets(at, dep)

Upgraded(at, m) == [at EXCEPT ![m.mod] = m.ver]

(* Versions after the migrations of a path.                                *)
Reached(at, path) == FoldLeft(Upgraded, at, path)

(* Each module with migrations is at the highest of their versions.        *)
AtTarget(at, migrations) ==
    \A mod \in {m.mod : m \in migrations} :
        at[mod] = Max({m.ver : m \in {n \in migrations : n.mod = mod}})

SortsBefore(m, n) ==
    IF m.mod = n.mod THEN m.ver < n.ver ELSE m.mod = "organizer"

\* Mutant: the path found first is kept.
ImprovesFirst(path, best) == best = None

Improves(path, best) == best = None \/ Len(path) < Len(best)

\* Mutant: upper bounds are overlooked.
ApplicableLow(at, m, path) ==
    /\ m \notin Range(path)
    /\ CanApply(at, [m EXCEPT !.deps = {[dep EXCEPT !.max = None] : dep \in @}])

(* Not on the path yet, and its dependencies hold.                         *)
Applicable(at, m, path) == m \notin Range(path) /\ CanApply(at, m)

(* depth_first_search: a path that has reached the target versions, if it  *)
(* is shorter than the best so far, or the best of those it begins.        *)
Search(at, migrations, order, search, path, best) ==
    IF AtTarget(Reached(at, path), migrations)
    THEN IF Improves(path, best) THEN path ELSE best
    ELSE FoldLeft(LAMBDA b, m :
             IF Applicable(Reached(at, path), m, path)
             THEN search[Append(path, m)][b] ELSE b, best, order)

Oldest(migrations) ==
    CHOOSE m \in migrations : \A n \in migrations : ~SortsBefore(n, m)

OldestFirst(migrations) ==
    MapThenFoldSet(LAMBDA m, later : <<m>> \o later, <<>>, LAMBDA m : m, Oldest,
                   migrations)

Solve(at, migrations) ==
    LET order == OldestFirst({m \in migrations :
                     at[m.mod] = None \/ m.ver > at[m.mod]})
        search[path \in Seq(migrations)] ==
            [best \in Seq(migrations) \cup {None} |->
                Search(at, migrations, order, search, path, best)]
    IN search[<<>>][None]

-----------------------------------------------------------------------------
VARIABLES
    release,        \* migrations of the installed server release
    graph,          \* migrations of the installed organizer
    db,             \* the database file: its content, None, or Torn
    backups,        \* contents of the archives of earlier seconds
    newest,         \* the archive named after the present second, None, Torn
    pc,             \* what the server is doing
    plan,           \* migrations still to apply
    saved,          \* db_backup_file: the archive of this start
    asked,          \* this start was to migrate: by option, or a new database
    original,       \* history: the content before migrations were begun
    replaced,       \* history: contents of archives that were truncated
    unrestored,     \* history: since then, migrating ended without restoring
    faults          \* crashes and failures so far

progVars == <<release, graph>>
archiveVars == <<backups, newest, replaced>>
vars == <<progVars, db, archiveVars, pc, plan, saved, asked, original,
          unrestored, faults>>

Fault == faults < MaxFaults /\ faults' = faults + 1

Contents == [server : 0 .. release, organizer : SUBSET {m.ver : m \in graph}]

(* A database left by this or an older release, or none yet.               *)
Init ==
    /\ release \in Releases /\ graph \in Graphs
    /\ db \in {None} \cup [server : 1 .. release, organizer : {{}}]
    /\ backups = {} /\ newest = None /\ replaced = {}
    /\ pc = "down" /\ plan = <<>> /\ saved = None
    /\ asked = FALSE /\ original = None /\ unrestored = FALSE /\ faults = 0

(* Archives are named by the second; the next one begins.                  *)
Tick ==
    /\ newest # None
    /\ backups' = backups \cup ({newest} \ {Torn})
    /\ newest' = None
    /\ UNCHANGED <<progVars, db, replaced, pc, plan, saved, asked, original,
                   unrestored, faults>>

(* The file comes into being when migrate_db opens it.                     *)
Start(migrate) ==
    /\ pc = "down"
    /\ asked' = (migrate \/ db = None)
    /\ pc' = IF asked' THEN "plan" ELSE "serving"
    /\ db' = IF db = None THEN Empty ELSE db
    /\ original' = IF asked' /\ original = None THEN db' ELSE original
    /\ unrestored' = (unrestored /\ original' = original)
    /\ UNCHANGED <<progVars, archiveVars, plan, saved, faults>>

Fail ==
    /\ pc' = "down" /\ plan' = <<>> /\ saved' = None

Serve ==
    /\ pc' = "serving" /\ plan' = <<>> /\ saved' = None

(* A broken database, an organizer that does not answer, and migrations    *)
(* that cannot be ordered end the start; with nothing to do it goes on.    *)
PlanFails ==
    /\ pc = "plan"
    /\ IF db = Torn THEN UNCHANGED faults ELSE Fault
    /\ Fail
    /\ UNCHANGED <<progVars, db, archiveVars, asked, original, unrestored>>

MakePlan ==
    /\ pc = "plan" /\ db # Torn
    /\ LET migrations == Pending(db, release, graph)
           found == Solve(Versions(db), migrations) IN
       IF migrations = {} THEN Serve /\ original' = None
       ELSE IF found = None THEN Fail /\ UNCHANGED original
       ELSE /\ pc' = "backup" /\ plan' = found
            /\ UNCHANGED <<saved, original>>
    /\ UNCHANGED <<progVars, db, archiveVars, asked, unrestored, faults>>

\* Mutant: an archive that exists already ends the start.
BackUpOnce ==
    /\ pc = "backup"
    /\ \/ /\ backups = {} /\ newest = None
          /\ pc' = "archive" /\ newest' = Torn
          /\ UNCHANGED <<replaced, plan, saved, faults>>
       \/ /\ \/ Fault
             \/ ~(backups = {} /\ newest = None) /\ UNCHANGED faults
          /\ Fail /\ UNCHANGED <<newest, replaced>>
    /\ UNCHANGED <<progVars, db, backups, asked, original, unrestored>>

(* File::create opens the archive of this second. One that a start within  *)
(* the same second has written is truncated.                               *)
BackUp ==
    /\ pc = "backup"
    /\ \/ /\ pc' = "archive" /\ newest' = Torn
          /\ replaced' = replaced \cup ({newest} \ {None, Torn, db})
          /\ UNCHANGED <<plan, saved, faults>>
       \/ Fault /\ Fail /\ UNCHANGED <<newest, replaced>>
    /\ UNCHANGED <<progVars, db, backups, asked, original, unrestored>>

(* The file goes into the archive opened, if that second has passed or not.*)
Archived ==
    IF newest = None THEN backups' = backups \cup {db} /\ UNCHANGED newest
    ELSE newest' = db /\ UNCHANGED backups

\* Mutant: a start that cannot write its archive goes on.
WriteBackUpOn ==
    /\ pc = "archive"
    /\ \/ Archived /\ saved' = db /\ UNCHANGED faults
       \/ Fault /\ UNCHANGED <<backups, newest, saved>>
    /\ pc' = "apply"
    /\ UNCHANGED <<progVars, db, replaced, plan, asked, original, unrestored>>

(* A broken archive is left where writing it fails. The start also ends if *)
(* the database cannot be opened again.                                    *)
WriteBackUp ==
    /\ pc = "archive"
    /\ \/ Archived /\ saved' = db /\ pc' = "apply" /\ UNCHANGED <<plan, faults>>
       \/ /\ Fault /\ Fail
          /\ Archived \/ UNCHANGED <<backups, newest>>
    /\ UNCHANGED <<progVars, db, replaced, asked, original, unrestored>>

Migrated(d, m) ==
    IF m.mod = "server" THEN [d EXCEPT !.server = m.ver]
    ELSE [d EXCEPT !.organizer = @ \cup {m.ver}]

(* One transaction each. It may be committed and then the organizer's      *)
(* answer be lost, or switching the foreign keys on again fail.            *)
Apply ==
    /\ pc = "apply" /\ plan # <<>>
    /\ db' = Migrated(db, Head(plan))
    /\ \/ plan' = Tail(plan) /\ UNCHANGED <<pc, faults>>
       \/ Fault /\ pc' = "restore" /\ UNCHANGED plan
    /\ UNCHANGED <<progVars, archiveVars, saved, asked, original, unrestored>>

\* Mutant: the next migration is tried.
ApplyFailsOn ==
    /\ pc = "apply" /\ plan # <<>>
    /\ Fault
    /\ plan' = Tail(plan)
    /\ UNCHANGED <<progVars, db, archiveVars, pc, saved, asked, original,
                   unrestored>>

(* Rolled back, and then the whole run of migrations is.                   *)
ApplyFails ==
    /\ pc = "apply" /\ plan # <<>>
    /\ Fault
    /\ pc' = "restore"
    /\ UNCHANGED <<progVars, db, archiveVars, plan, saved, asked, original,
                   unrestored>>

\* Mutant: only failing migrations are undone, not a failing check.
VerifyKeeps ==
    /\ pc = "apply" /\ plan = <<>>
    /\ \/ Serve /\ original' = None /\ UNCHANGED faults
       \/ Fault /\ Fail /\ UNCHANGED original
    /\ UNCHANGED <<progVars, db, archiveVars, asked, unrestored>>

(* The foreign key check after the last migration.                         *)
Verify ==
    /\ pc = "apply" /\ plan = <<>>
    /\ \/ Serve /\ original' = None /\ UNCHANGED faults
       \/ Fault /\ pc' = "restore" /\ UNCHANGED <<plan, saved, original>>
    /\ UNCHANGED <<progVars, db, archiveVars, asked, unrestored>>

(* restore_sqlite_database writes over the file, which is broken until it  *)
(* has finished. If the archive cannot be opened and read, the file stays  *)
(* as the migrations left it; the start fails either way.                  *)
Overwrite ==
    /\ pc = "restore"
    /\ \/ /\ db' = Torn /\ pc' = "unpack"
          /\ UNCHANGED <<plan, saved, unrestored, faults>>
       \/ Fault /\ Fail /\ unrestored' = TRUE /\ UNCHANGED db
    /\ UNCHANGED <<progVars, archiveVars, asked, original>>

(* If unpacking fails, the file stays broken.                              *)
Unpack ==
    /\ pc = "unpack"
    /\ \/ db' = saved /\ UNCHANGED <<unrestored, faults>>
       \/ Fault /\ unrestored' = TRUE /\ UNCHANGED db
    /\ Fail
    /\ UNCHANGED <<progVars, archiveVars, asked, original>>

Crash ==
    /\ pc # "down"
    /\ Fault
    /\ Fail
    /\ unrestored' = (unrestored \/ pc \in {"apply", "restore", "unpack"})
    /\ UNCHANGED <<progVars, db, archiveVars, asked, original>>

Stop ==
    /\ pc = "serving"
    /\ Fail
    /\ UNCHANGED <<progVars, db, archiveVars, asked, original, unrestored,
                   faults>>

Migrating ==
    PlanFails \/ MakePlan \/ BackUp \/ WriteBackUp \/ Apply \/ ApplyFails
        \/ Verify \/ Overwrite \/ Unpack

Next == Start(TRUE) \/ Start(FALSE) \/ Migrating \/ Tick \/ Crash \/ Stop

Spec == Init /\ [][Next]_vars

(* Steps of a start follow on each other, and whoever runs the server goes *)
(* on to start it with the option to migrate.                              *)
FairSpec ==
    Spec /\ WF_vars(MakePlan \/ BackUp \/ WriteBackUp \/ Apply \/ Verify
                        \/ Overwrite \/ Unpack)
         /\ WF_vars(PlanFails) /\ SF_vars(Start(TRUE))

-----------------------------------------------------------------------------
(* Properties.                                                             *)

TypeOK ==
    /\ release \in Releases /\ graph \in Graphs
    /\ db \in Contents \cup {None, Torn}
    /\ backups \subseteq Contents /\ newest \in Contents \cup {None, Torn}
    /\ replaced \subseteq Contents
    /\ pc \in {"down", "plan", "backup", "archive", "apply", "restore",
              "unpack", "serving"}
    /\ plan \in Seq(Pending(Empty, release, graph))
    /\ saved \in Contents \cup {None}
    /\ asked \in BOOLEAN
    /\ original \in Contents \cup {None}
    /\ unrestored \in BOOLEAN
    /\ faults \in 0 .. MaxFaults

(* Orders of migrations that respect every dependency and end at the       *)
(* target versions, told without any search.                               *)
Orders(migrations) ==
    UNION {{o \in [1 .. n -> migrations] : IsInjective(o)} :
               n \in 0 .. Cardinality(migrations)}

GoodOrders(at, migrations) ==
    {o \in Orders(migrations) :
        /\ \A i \in DOMAIN o : CanApply(Reached(at, SubSeq(o, 1, i - 1)), o[i])
        /\ AtTarget(Reached(at, o), migrations)}

Orderable ==
    /\ pc = "plan" /\ db # Torn
    /\ Solve(Versions(db), Pending(db, release, graph)) # None

(* The search finds an order whenever there is one, and a shortest.        *)
SolverIsRight ==
    pc = "plan" /\ db # Torn =>
        LET migrations == Pending(db, release, graph)
            good == GoodOrders(Versions(db), migrations)
            found == Solve(Versions(db), migrations) IN
        IF found = None THEN good = {}
        ELSE found \in good /\ \A o \in good : Len(found) <= Len(o)

(* A migration only ever meets a database that has what it depends on, and *)
(* no module goes back to an older version but by restoring the backup.    *)
AppliedInOrder ==
    [][(pc = "apply" /\ db' # db)
        => (/\ CanApply(Versions(db), Head(plan))
            /\ Versions(db').organizer >= Versions(db).organizer
            /\ db'.server >= db.server)]_vars

(* A server that was to migrate serves a database at the latest version of *)
(* both modules, however many starts failed or crashed before.             *)
ServesMigrated ==
    pc = "serving" /\ asked => Pending(db, release, graph) = {}

(* The content from before the first attempt at migrating is in the file   *)
(* or in an archive until an attempt succeeds. Only a start that finds     *)
(* another content in the file, within the second in which the original    *)
(* was archived, can take it away.                                         *)
OriginalIsKept ==
    original # None => \/ original = db
                       \/ original \in backups \cup {newest}
                       \/ original \in replaced

(* All or nothing: whatever step of migrating failed, and in however many  *)
(* starts, the database is left migrated or as it was, unless the server   *)
(* crashed between the first migration and the end of restoring, or        *)
(* restoring failed as well.                                               *)
AllOrNothing ==
    pc = "down" /\ ~unrestored /\ original # None => db = original

(* Migrations that can be ordered get done, whatever they were interrupted *)
(* by, unless a crash or a failure hits the restoring of a backup, or the  *)
(* server is started without the option to migrate.                        *)
MigratesInTheEnd ==
    Orderable ~> \/ db = Torn
                 \/ db # None /\ Pending(db, release, graph) = {}
                 \/ pc = "serving" /\ ~asked
=============================================================================
