------------------------- MODULE MediaIngestProofs -------------------------
(***************************************************************************)
(* Proofs about MediaIngest, for any number of paths, files, users, jobs   *)
(* and deletions, and any bounds.                                          *)
(***************************************************************************)
EXTENDS MediaIngest, TLAPS

\* The pipeline and the delete commands have their arguments.
CommandsPresent ==
    /\ pc # "idle" => path \in Paths /\ user \in Users
    /\ pc \in {"check", "lookup", "wipe", "create", "move", "unlink", "insert", "known"}
          => id \in Ids
    /\ monReject # None => monReject.dest \in {"root", "uuid"}
    /\ pc = "cleanUp" => dest \in Destinations
    /\ pc = "cleanUp" /\ dest \in {"dir", "same"} => id \in Ids
    /\ \A d \in Deleters : delPc[d] # "idle" => delId[d] \in Ids

\* An upload that has not been announced is still there, and nobody's business.
UploadsWait ==
    \A p \in Uploads : ~announced[p] =>
        /\ at[p] \in Files
        /\ OwnerOf[at[p]] # None
        /\ path # p
        /\ \A j \in Jobs : jobs[j] # None => jobs[j].path # p

\* What the type invariant needs to be inductive.
Typed ==
    /\ TypeOK
    /\ CommandsPresent
    /\ UploadsWait

\* A directory is only wiped when its id has no row, and a deletion on its way
\* to the trash either finds no row either or is remembered.
RowsGuarded ==
    /\ RowHasOrig
    /\ pc = "wipe" => rows[id] = None
    /\ \A d \in Deleters : delPc[d] = "trash" => rows[delId[d]] = None \/ delId[d] \in doomed

\* f is somewhere else than at the path p or in the directory of the id i.
KeptApart(f, p, i) ==
    \/ f \in trash \cup rejUuid \cup {rejRoot}
    \/ \E q \in Paths : q # p /\ at[q] = f
    \/ \E j \in Ids : rejDir[j] = f
    \/ \E j \in Ids : j # i /\ orig[j] = f

\* The id is one of the family's: its files have no other, and no other files
\* have it.
BornBy(F, i) == \E g \in F : Bears(g, i)

\* What the clean-up has found out about rejected/ is still so, or exposed.
PlaceIsFree ==
    /\ \/ monReject # None /\ monReject.dest = "root"
       \/ pc = "cleanUp" /\ dest = "root"
       => rejRoot \in exposed \cup {None}
    /\ pc = "cleanUp" /\ dest = "dir" => rejDir[id] = None
    /\ pc = "cleanUp" /\ dest = "same" => rejDir[id] # None

\* Only a directory just made is moved into.
DirIsFree ==
    /\ \A i \in Ids : i \notin dirs => orig[i] = None
    /\ pc = "move" => orig[id] = None

\* Where a family is. A place named after an id holds a file of that id's family;
\* so does the pipeline's path, once the id has been computed. Before the
\* directory of an id is wiped, or its source removed, the family is kept apart
\* from it.
FamilyIsKept(F) ==
    /\ F \cap handed # {} => \E f \in F : KeptApart(f, None, None)
    /\ \A i \in Ids : orig[i] \in F => BornBy(F, i)
    /\ \A i \in Ids : rejDir[i] # None => (rejDir[i] \in F <=> BornBy(F, i))
    /\ Engaged(path) => at[path] = None \/ (at[path] \in F <=> BornBy(F, id))
    /\ pc \in {"check", "lookup", "wipe"} /\ BornBy(F, id) => \E f \in F : KeptApart(f, None, id)
    /\ pc = "unlink" /\ BornBy(F, id) => \E f \in F : KeptApart(f, path, None)

Whereabouts ==
    /\ PlaceIsFree
    /\ DirIsFree
    /\ \A F \in Families : F \cap exposed = {} => FamilyIsKept(F)

-----------------------------------------------------------------------------

\* Every file has an id for every user.
LEMMA HasId ==
    ASSUME NEW f \in Files, NEW u \in Users
    PROVE  MediaId[f, u] \in Ids
  <1>1. <<f, u>> \in Files \X Users
    OBVIOUS
  <1>2. MediaId \in [Files \X Users -> Ids]
    BY ConstantsAssumption
  <1>3. QED
    BY <1>1, <1>2, Zenon

LEMMA InitTyped == Init => Typed
  BY ConstantsAssumption
  DEF Init, Typed, TypeOK, CommandsPresent, UploadsWait, Locations, Destinations

\* clean_up_rejected_file empties one path at most, and leaves files where it
\* puts them.
LEMMA RejectTyped ==
    ASSUME TypeOK, NEW p \in Paths, NEW d \in Destinations, NEW i, NEW raced,
           MoveToRejected(p, d, i, raced)
    PROVE  /\ at' = at \/ at' = [at EXCEPT ![p] = None]
           /\ at' \in [Paths -> Files \cup {None}]
           /\ rejRoot' \in Files \cup {None}
           /\ rejDir' \in [Ids -> Files \cup {None}]
           /\ rejUuid' \subseteq Files
           /\ faults' \in 0..MaxFaults
           /\ exposed' \subseteq Files
  <1>1. at[p] \in Files \cup {None} /\ at[p] # None => at[p] \in Files
    BY DEF TypeOK
  <1>2. CASE Rename(p, d, i, raced)
    BY <1>1, <1>2 DEF TypeOK, Rename
  <1>3. CASE RemoveSame(p, d, i)
    BY <1>1, <1>3 DEF TypeOK, RemoveSame, rejVars
  <1>4. CASE CleanUpFails(p, d, i)
    <2>1. faults' \in 0..MaxFaults
      BY <1>4, ConstantsAssumption DEF TypeOK, CleanUpFails
    <2>2. QED
      BY <1>4, <2>1 DEF TypeOK, CleanUpFails
  <1>5. QED
    BY <1>2, <1>3, <1>4 DEF MoveToRejected

\* The id computed for a result is one.
LEMMA TakeTyped ==
    ASSUME Typed, NEW j \in Jobs, TakeResult(j)
    PROVE  Typed'
  <1> DEFINE new == MediaId[at[jobs[j].path], jobs[j].user]
  <1>1. /\ TypeOK /\ CommandsPresent /\ UploadsWait
        /\ jobs[j] # None
    BY DEF Typed, TakeResult
  <1>2. jobs[j] \in Job
    BY <1>1 DEF TypeOK
  <1>3. jobs[j].path \in Paths /\ jobs[j].user \in Users
    BY <1>2 DEF Job
  <1>4. Readable(j) => at[jobs[j].path] \in Files
    BY <1>1, <1>3 DEF TypeOK, Readable
  <1>5. Readable(j) => new \in Ids
    <2>1. \A f \in Files, u \in Users : MediaId[f, u] \in Ids
      BY HasId, Zenon
    <2>2. QED
      BY ONLY <1>3, <1>4, <2>1, Zenon
  <1> DEFINE takes(i) ==
        /\ IF Readable(j) THEN pc' = "check" /\ id' = i ELSE pc' = "failed" /\ id' = None
        /\ path' = jobs[j].path
        /\ user' = jobs[j].user
        /\ jobs' = [jobs EXCEPT ![j] = None]
        /\ UNCHANGED <<at, storeVars, rejVars, monVars, announced, dest, delVars,
                       handVars, crashes>>
  <1>6. takes(new)
    BY ONLY TakeResult(j), Zenon DEF TakeResult
  <1> HIDE DEF new
  <1>7. /\ id' \in Ids \cup {None} /\ pc' \in {"check", "failed"}
        /\ pc' = "check" => id' \in Ids
    BY <1>5, <1>6
  <1>8. jobs' \in [Jobs -> Job \cup {None}]
    BY <1>1, <1>6 DEF TypeOK
  <1>9. TypeOK'
    BY <1>1, <1>3, <1>6, <1>7, <1>8
    DEF TypeOK, Locations, storeVars, rejVars, monVars, delVars, handVars
  <1>10. CommandsPresent'
    BY <1>1, <1>3, <1>6, <1>7 DEF CommandsPresent, monVars, delVars
  <1>11. UploadsWait'
    <2>1. \A k \in Jobs : jobs'[k] = IF k = j THEN None ELSE jobs[k]
      BY <1>1, <1>6 DEF TypeOK
    <2>2. /\ announced' = announced /\ at' = at /\ path' = jobs[j].path
      BY <1>6
    <2>3. QED
      BY ONLY <1>1, <2>1, <2>2, j \in Jobs DEF UploadsWait
  <1>12. QED
    BY <1>9, <1>10, <1>11 DEF Typed

LEMMA NextTyped == Typed /\ [Next]_vars => Typed'
  <1> SUFFICES ASSUME Typed, [Next]_vars PROVE Typed'
    OBVIOUS
  <1> USE ConstantsAssumption
      DEF Typed, TypeOK, CommandsPresent, UploadsWait, Locations, Destinations, Paths, Job,
          storeVars, rejVars, monVars, pipeVars, delVars, handVars
  <1>1. ASSUME NEW p \in Paths, NEW f \in Files, Drop(p, f) PROVE Typed'
    BY <1>1 DEF Drop, HandIn
  <1>2. ASSUME NEW p \in Paths, NEW f \in Files, Upload(p, f) PROVE Typed'
    BY <1>2 DEF Upload, HandIn
  <1>3. ASSUME NEW d \in Deleters, NEW i \in Ids, DeleteStart(d, i) PROVE Typed'
    BY <1>3 DEF DeleteStart
  <1>4. ASSUME NEW p \in Uploads, AnnounceUpload(p) PROVE Typed'
    BY <1>4 DEF AnnounceUpload, Enqueue
  <1>5. ASSUME NEW p \in Incoming, Submit(p) PROVE Typed'
    BY <1>5 DEF Submit, Enqueue, Unattended
  <1>6. ASSUME NEW p \in Incoming, Expire(p) PROVE Typed'
    BY <1>6 DEF Expire
  <1>7. ASSUME NEW p \in Incoming, MonitorPick(p) PROVE Typed'
    BY <1>7 DEF MonitorPick, RejectDest
  <1>8. ASSUME MonitorMove PROVE Typed'
    <2>1. monReject.path \in Incoming /\ monReject.path \notin Uploads
      BY <1>8 DEF MonitorMove
    <2>2. /\ at' = at \/ at' = [at EXCEPT ![monReject.path] = None]
          /\ at' \in [Paths -> Files \cup {None}]
          /\ rejRoot' \in Files \cup {None}
          /\ rejDir' \in [Ids -> Files \cup {None}]
          /\ rejUuid' \subseteq Files
          /\ faults' \in 0..MaxFaults
          /\ exposed' \subseteq Files
      <3>1. TypeOK /\ monReject.dest \in Destinations
        BY <1>8 DEF MonitorMove
      <3>2. MoveToRejected(monReject.path, monReject.dest, None, pc = "cleanUp" /\ dest = "root")
        BY <1>8 DEF MonitorMove
      <3>3. monReject.path \in Paths
        BY <2>1
      <3>4. QED
        BY ONLY <3>1, <3>2, <3>3, RejectTyped
    <2>3. UploadsWait'
      BY <1>8, <2>1, <2>2 DEF MonitorMove
    <2>4. QED
      BY <1>8, <2>1, <2>2, <2>3 DEF MonitorMove
  <1>9. ASSUME NEW j \in Jobs, Scan(j) PROVE Typed'
    BY <1>9 DEF Scan
  <1>10. ASSUME NEW j \in Jobs, TakeResult(j) PROVE Typed'
    <2>1. Typed
      OBVIOUS
    <2>2. QED
      BY ONLY <1>10, <2>1, TakeTyped
  <1>11. ASSUME CheckDir \/ LookupRow \/ WipeDir \/ CreateDir \/ InsertRow \/ IngestFails PROVE Typed'
    BY <1>11 DEF CheckDir, LookupRow, WipeDir, CreateDir, InsertRow, IngestFails, PipeOnly, PipeGoto
  <1>12. ASSUME MoveSource PROVE Typed'
    BY <1>12 DEF MoveSource
  <1>13. ASSUME UnlinkSource PROVE Typed'
    BY <1>13 DEF UnlinkSource, PipeGoto
  <1>14. ASSUME Ingested PROVE Typed'
    BY <1>14 DEF Ingested, PipeGoto
  <1>15. ASSUME PipePick PROVE Typed'
    BY <1>15 DEF PipePick, RejectDest
  <1>16. ASSUME PipeMove PROVE Typed'
    <2>1. /\ at' = at \/ at' = [at EXCEPT ![path] = None]
          /\ at' \in [Paths -> Files \cup {None}]
          /\ rejRoot' \in Files \cup {None}
          /\ rejDir' \in [Ids -> Files \cup {None}]
          /\ rejUuid' \subseteq Files
          /\ faults' \in 0..MaxFaults
          /\ exposed' \subseteq Files
      <3>1. TypeOK /\ dest \in Destinations /\ path \in Paths
        BY <1>16 DEF PipeMove, PipeGoto
      <3>2. MoveToRejected(path, dest, id, monReject # None /\ monReject.dest = "root")
        BY <1>16 DEF PipeMove
      <3>3. QED
        BY ONLY <3>1, <3>2, RejectTyped
    <2>2. UploadsWait'
      BY <1>16, <2>1 DEF PipeMove, PipeGoto
    <2>3. QED
      BY <1>16, <2>1, <2>2 DEF PipeMove, PipeGoto
  <1>17. ASSUME NEW d \in Deleters, DeleteStep(d) PROVE Typed'
    <2>1. CASE DeleteDenied(d)
      BY <2>1 DEF DeleteDenied
    <2>2. CASE DeleteRow(d)
      BY <2>2 DEF DeleteRow
    <2>3. CASE MoveToTrash(d)
      BY <2>3 DEF MoveToTrash
    <2>4. QED
      BY <1>17, <2>1, <2>2, <2>3 DEF DeleteStep
  <1>18. ASSUME Crash PROVE Typed'
    BY <1>18 DEF Crash
  <1>19. ASSUME UNCHANGED vars PROVE Typed'
    BY <1>19 DEF vars
  <1>20. QED
    BY <1>1, <1>2, <1>3, <1>4, <1>5, <1>6, <1>7, <1>8, <1>9, <1>10, <1>11, <1>12, <1>13, <1>14,
       <1>15, <1>16, <1>17, <1>18, <1>19
    DEF Next, UserStep, MonitorStep, PipeStep

\* In every reachable state the variables have their types.
THEOREM TypeCorrect == Spec => []TypeOK
  <1>1. Typed => TypeOK
    BY DEF Typed
  <1>2. QED
    BY <1>1, InitTyped, NextTyped, PTL DEF Spec

-----------------------------------------------------------------------------

LEMMA InitRows == Init => RowsGuarded
  BY DEF Init, RowsGuarded, RowHasOrig

LEMMA NextRows == Typed /\ RowsGuarded /\ [Next]_vars => RowsGuarded'
  <1> SUFFICES ASSUME Typed, RowsGuarded, [Next]_vars PROVE RowsGuarded'
    OBVIOUS
  <1> USE DEF RowsGuarded, RowHasOrig, storeVars, pipeVars, delVars
  <1>0. /\ orig \in [Ids -> Files \cup {None}]
        /\ delPc \in [Deleters -> {"idle", "authz", "trash"}]
        /\ delId \in [Deleters -> Ids \cup {None}]
        /\ rows \in [Ids -> Users \cup {None}]
        /\ None \notin Users
        /\ pc = "insert" => user \in Users
        /\ \A d \in Deleters : delPc[d] # "idle" => delId[d] \in Ids
        /\ pc \in {"move", "wipe", "insert"} => id \in Ids
        /\ \A p \in Paths : at[p] # None => at[p] \in Files
    BY ConstantsAssumption DEF Typed, TypeOK, CommandsPresent
  <1>1. ASSUME NEW p \in Paths, NEW f \in Files, Drop(p, f) \/ Upload(p, f) PROVE RowsGuarded'
    BY <1>1 DEF Drop, Upload
  <1>2. ASSUME NEW d \in Deleters, NEW i \in Ids, DeleteStart(d, i) PROVE RowsGuarded'
    BY <1>0, <1>2 DEF DeleteStart
  <1>3. ASSUME NEW p \in Uploads, AnnounceUpload(p) PROVE RowsGuarded'
    BY <1>3 DEF AnnounceUpload
  <1>4. ASSUME MonitorStep PROVE RowsGuarded'
    BY <1>4 DEF MonitorStep, Submit, Expire, MonitorPick, MonitorMove
  <1>5. ASSUME NEW j \in Jobs, Scan(j) \/ TakeResult(j) PROVE RowsGuarded'
    BY <1>5 DEF Scan, TakeResult
  <1>6. ASSUME CheckDir \/ LookupRow \/ CreateDir \/ IngestFails PROVE RowsGuarded'
    BY <1>6 DEF CheckDir, LookupRow, CreateDir, IngestFails, PipeOnly, PipeGoto
  <1>7. ASSUME WipeDir PROVE RowsGuarded'
    BY <1>0, <1>7 DEF WipeDir, PipeOnly, PipeGoto
  <1>8. ASSUME MoveSource PROVE RowsGuarded'
    BY <1>0, <1>8 DEF MoveSource
  <1>9. ASSUME InsertRow PROVE RowsGuarded'
    BY <1>0, <1>9 DEF InsertRow, Moved, PipeOnly, PipeGoto
  <1>10. ASSUME UnlinkSource \/ Ingested \/ PipePick \/ PipeMove PROVE RowsGuarded'
    BY <1>10 DEF UnlinkSource, Ingested, PipePick, PipeMove, PipeGoto
  <1>11. ASSUME NEW d \in Deleters, DeleteStep(d) PROVE RowsGuarded'
    BY <1>0, <1>11 DEF DeleteStep, DeleteDenied, DeleteRow, MoveToTrash
  <1>12. ASSUME Crash PROVE RowsGuarded'
    BY <1>12 DEF Crash
  <1>13. ASSUME UNCHANGED vars PROVE RowsGuarded'
    BY <1>13 DEF vars
  <1>14. QED
    BY <1>1, <1>2, <1>3, <1>4, <1>5, <1>6, <1>7, <1>8, <1>9, <1>10, <1>11, <1>12, <1>13
    DEF Next, UserStep, PipeStep

\* A row has its file, whatever crashes and however deletions and ingestions of
\* the same file interleave, unless it was inserted on the way to the trash.
THEOREM RowsHaveFiles == Spec => []RowHasOrig
  <1>1. RowsGuarded => RowHasOrig
    BY DEF RowsGuarded
  <1>2. QED
    BY <1>1, InitTyped, NextTyped, InitRows, NextRows, PTL DEF Spec

-----------------------------------------------------------------------------

\* The files of a family are those with its ids.
LEMMA FamilyHasIds ==
    ASSUME NEW F \in Families, NEW f \in Files, NEW i \in Ids, Bears(f, i)
    PROVE  F \subseteq Files /\ (f \in F <=> BornBy(F, i))
  BY DEF Families, BornBy

\* What has been exposed stays so.
LEMMA ExposedStay == Typed /\ [Next]_vars => exposed \subseteq exposed'
  <1> SUFFICES ASSUME Typed, [Next]_vars PROVE exposed \subseteq exposed'
    OBVIOUS
  <1> USE DEF rejVars
  <1>1. ASSUME NEW p \in Paths, NEW d, NEW i, NEW raced, MoveToRejected(p, d, i, raced)
        PROVE  exposed \subseteq exposed'
    BY <1>1 DEF MoveToRejected, Rename, RemoveSame, CleanUpFails
  <1>2. ASSUME UserStep PROVE exposed \subseteq exposed'
    BY <1>2 DEF UserStep, Drop, Upload, HandIn, DeleteStart
  <1>3. ASSUME MonitorStep PROVE exposed \subseteq exposed'
    <2>1. ASSUME MonitorMove PROVE exposed \subseteq exposed'
      <3>1. monReject.path \in Paths
        BY <2>1 DEF MonitorMove, Typed, TypeOK, Paths
      <3>2. QED
        BY <1>1, <2>1, <3>1 DEF MonitorMove
    <2>2. QED
      BY <1>3, <2>1 DEF MonitorStep, Submit, Expire, MonitorPick
  <1>4. ASSUME PipeStep PROVE exposed \subseteq exposed'
    <2>1. ASSUME PipeMove PROVE exposed \subseteq exposed'
      <3>1. path \in Paths
        BY <2>1 DEF PipeMove, PipeGoto, Typed, CommandsPresent
      <3>2. QED
        BY <1>1, <2>1, <3>1 DEF PipeMove
    <2>2. QED
      BY <1>4, <2>1
      DEF PipeStep, CheckDir, LookupRow, WipeDir, CreateDir, MoveSource, UnlinkSource, InsertRow,
          Ingested, IngestFails, PipePick, PipeOnly
  <1>5. QED
    BY <1>2, <1>3, <1>4
    DEF Next, vars, AnnounceUpload, Scan, TakeResult, DeleteStep, DeleteDenied, DeleteRow,
        MoveToTrash, Crash

\* The pipeline and the monitor write to rejected/ one at a time, and only the
\* pipeline writes to rejected/<id> and videos/<id>.
LEMMA NextPlaces == Typed /\ PlaceIsFree /\ DirIsFree /\ [Next]_vars => PlaceIsFree' /\ DirIsFree'
  <1> SUFFICES ASSUME Typed, PlaceIsFree, DirIsFree, [Next]_vars PROVE PlaceIsFree' /\ DirIsFree'
    OBVIOUS
  <1> USE DEF PlaceIsFree, DirIsFree, storeVars, rejVars, monVars, pipeVars
  <1>0. /\ orig \in [Ids -> Files \cup {None}]
        /\ rejDir \in [Ids -> Files \cup {None}]
        /\ dirs \subseteq Ids
        /\ pc \in {"check", "lookup", "wipe", "create", "move", "unlink", "insert", "known"}
              => id \in Ids
        /\ pc = "cleanUp" => dest \in {"root", "uuid", "dir", "same"}
        /\ monReject # None => monReject.dest \in {"root", "uuid"}
        /\ \A d \in Deleters : delPc[d] # "idle" => delId[d] \in Ids
    BY DEF Typed, TypeOK, CommandsPresent, Destinations
  <1>1. ASSUME UserStep PROVE PlaceIsFree' /\ DirIsFree'
    BY <1>1 DEF UserStep, Drop, Upload, HandIn, DeleteStart
  <1>2. ASSUME NEW p \in Uploads, AnnounceUpload(p) PROVE PlaceIsFree' /\ DirIsFree'
    BY <1>2 DEF AnnounceUpload
  <1>3. ASSUME NEW p \in Incoming, Submit(p) \/ Expire(p) PROVE PlaceIsFree' /\ DirIsFree'
    BY <1>3 DEF Submit, Expire
  <1>4. ASSUME NEW p \in Incoming, MonitorPick(p) PROVE PlaceIsFree' /\ DirIsFree'
    <2>1. rejRoot # None => monReject'.dest # "root"
      BY <1>4 DEF MonitorPick, RejectDest
    <2>2. QED
      BY <1>4, <2>1 DEF MonitorPick
  <1>5. ASSUME MonitorMove PROVE PlaceIsFree' /\ DirIsFree'
    BY <1>0, <1>5 DEF MonitorMove, MoveToRejected, Rename, RemoveSame, CleanUpFails
  <1>6. ASSUME NEW j \in Jobs, Scan(j) \/ TakeResult(j) PROVE PlaceIsFree' /\ DirIsFree'
    BY <1>6 DEF Scan, TakeResult
  <1>7. ASSUME CheckDir \/ LookupRow \/ WipeDir \/ CreateDir \/ InsertRow \/ IngestFails
        PROVE  PlaceIsFree' /\ DirIsFree'
    BY <1>0, <1>7 DEF CheckDir, LookupRow, WipeDir, CreateDir, InsertRow, IngestFails, PipeOnly, PipeGoto
  <1>8. ASSUME MoveSource \/ UnlinkSource \/ Ingested PROVE PlaceIsFree' /\ DirIsFree'
    BY <1>0, <1>8 DEF MoveSource, UnlinkSource, Ingested, PipeGoto
  <1>9. ASSUME PipePick PROVE PlaceIsFree' /\ DirIsFree'
    BY <1>0, <1>9 DEF PipePick, RejectDest
  <1>10. ASSUME PipeMove PROVE PlaceIsFree' /\ DirIsFree'
    BY <1>0, <1>10 DEF PipeMove, PipeGoto, MoveToRejected, Rename, RemoveSame, CleanUpFails
  <1>11. ASSUME NEW d \in Deleters, DeleteStep(d) PROVE PlaceIsFree' /\ DirIsFree'
    BY <1>0, <1>11 DEF DeleteStep, DeleteDenied, DeleteRow, MoveToTrash
  <1>12. ASSUME Crash PROVE PlaceIsFree' /\ DirIsFree'
    BY <1>12 DEF Crash
  <1>13. ASSUME UNCHANGED vars PROVE PlaceIsFree' /\ DirIsFree'
    BY <1>13 DEF vars
  <1>14. QED
    BY <1>1, <1>2, <1>3, <1>4, <1>5, <1>6, <1>7, <1>8, <1>9, <1>10, <1>11, <1>12, <1>13
    DEF Next, MonitorStep, PipeStep

\* A step keeps a family that it does not expose.
LEMMA NextFamily ==
    ASSUME NEW F \in Families, F \cap exposed' = {},
           Typed, PlaceIsFree, DirIsFree, FamilyIsKept(F), [Next]_vars
    PROVE  FamilyIsKept(F)'
  <1> USE DEF FamilyIsKept, KeptApart, Engaged, storeVars, rejVars, monVars, pipeVars, handVars
  <1>0. /\ at \in [Paths -> Files \cup {None}]
        /\ orig \in [Ids -> Files \cup {None}]
        /\ rejDir \in [Ids -> Files \cup {None}]
        /\ pc # "idle" => path \in Paths
        /\ pc \in {"check", "lookup", "wipe", "create", "move", "unlink", "insert", "known"}
              => id \in Ids
        /\ pc = "cleanUp" => dest \in {"root", "uuid", "dir", "same"}
        /\ pc = "cleanUp" /\ dest \in {"dir", "same"} => id \in Ids
        /\ \A d \in Deleters : delPc[d] # "idle" => delId[d] \in Ids
        /\ \A p \in Incoming : p \in Paths
        /\ F \subseteq Files /\ None \notin Files /\ None \notin Paths /\ None \notin Ids
        /\ F \cap exposed = {}
    BY ConstantsAssumption, ExposedStay DEF Typed, TypeOK, CommandsPresent, Destinations, Paths, Families
  <1>1. ASSUME NEW p \in Paths, NEW f \in Files, Drop(p, f) \/ Upload(p, f) PROVE FamilyIsKept(F)'
    <2>1. HandIn(p, f) /\ UNCHANGED <<storeVars, pipeVars>>
      BY <1>1 DEF Drop, Upload
    <2>2. \A g \in Files : \A q, i : KeptApart(g, q, i) => KeptApart(g, q, i)'
      BY <1>0, <2>1 DEF HandIn
    <2>3. KeptApart(f, None, None)'
      BY <1>0, <2>1 DEF HandIn
    <2>4. Engaged(path)' => at'[path'] = None \/ (at'[path'] \in F <=> BornBy(F, id'))
      <3>1. CASE Engaged(p)
        <4>1. f \notin F /\ ~BornBy(F, id)
          BY <1>0, <2>1, <3>1 DEF HandIn, BornBy
        <4>2. QED
          BY <1>0, <2>1, <3>1, <4>1 DEF HandIn
      <3>2. CASE ~Engaged(p)
        BY <1>0, <2>1, <3>2 DEF HandIn
      <3>3. QED
        BY <3>1, <3>2
    <2>5. QED
      BY <1>0, <2>1, <2>2, <2>3, <2>4 DEF HandIn
  <1>2. ASSUME NEW d \in Deleters, NEW i \in Ids, DeleteStart(d, i) PROVE FamilyIsKept(F)'
    BY <1>2 DEF DeleteStart
  <1>3. ASSUME NEW p \in Uploads, AnnounceUpload(p) PROVE FamilyIsKept(F)'
    BY <1>3 DEF AnnounceUpload
  <1>4. ASSUME NEW p \in Incoming, Submit(p) \/ Expire(p) \/ MonitorPick(p) PROVE FamilyIsKept(F)'
    BY <1>4 DEF Submit, Expire, MonitorPick
  <1>5. ASSUME MonitorMove PROVE FamilyIsKept(F)'
    <2> DEFINE p == monReject.path
               raced == pc = "cleanUp" /\ dest = "root"
    <2>1. p \in Paths /\ monReject.dest \in {"root", "uuid"} /\ monReject # None
      BY <1>0, <1>5 DEF MonitorMove, Typed, TypeOK, CommandsPresent
    <2>2. UNCHANGED <<storeVars, pipeVars, handVars>>
      BY <1>5 DEF MonitorMove
    <2>3. CASE Rename(p, monReject.dest, None, raced)
      <3>1. monReject.dest = "root" => rejRoot \notin F
        BY <1>0, <2>1 DEF PlaceIsFree
      <3>2. ASSUME NEW g \in F, NEW q, NEW i, KeptApart(g, q, i) PROVE KeptApart(g, q, i)'
        BY <1>0, <2>1, <2>2, <2>3, <3>1, <3>2 DEF Rename
      <3>3. \A q \in Paths : at'[q] \in {at[q], None}
        BY <1>0, <2>1, <2>3 DEF Rename
      <3>4. rejDir' = rejDir
        BY <2>1, <2>3 DEF Rename
      <3>5. (F \cap handed # {} => \E f \in F : KeptApart(f, None, None))'
        <4>1. F \cap handed' # {} => \E f \in F : KeptApart(f, None, None)
          BY <2>2
        <4>2. QED
          BY <4>1, <3>2
      <3>6. (pc \in {"check", "lookup", "wipe"} /\ BornBy(F, id) => \E f \in F : KeptApart(f, None, id))'
        <4>1. SUFFICES ASSUME pc \in {"check", "lookup", "wipe"}, BornBy(F, id)
                       PROVE  \E f \in F : KeptApart(f, None, id)'
          BY <2>2
        <4>2. PICK g \in F : KeptApart(g, None, id)
          BY ONLY <4>1, FamilyIsKept(F) DEF FamilyIsKept
        <4>3. KeptApart(g, None, id)'
          <5>1. PICK i : i = id
            OBVIOUS
          <5>2. KeptApart(g, None, i)
            BY <4>2, <5>1
          <5>3. KeptApart(g, None, i)'
            BY <3>2, <5>2
          <5>4. id' = i
            BY <2>2, <5>1
          <5>5. QED
            BY <5>3, <5>4
        <4>4. QED
          BY <4>3
      <3>7. (pc = "unlink" /\ BornBy(F, id) => \E f \in F : KeptApart(f, path, None))'
        <4>1. pc' = "unlink" /\ BornBy(F, id') => \E f \in F : KeptApart(f, path, None)
          BY <2>2
        <4>2. path' = path
          BY <2>2
        <4>3. QED
          BY <4>1, <4>2, <3>2
      <3>8. (Engaged(path) => at[path] = None \/ (at[path] \in F <=> BornBy(F, id)))'
        BY <1>0, <2>2, <3>3
      <3>9. (\A i \in Ids : orig[i] \in F => BornBy(F, i))'
        BY <2>2
      <3>10. (\A i \in Ids : rejDir[i] # None => (rejDir[i] \in F <=> BornBy(F, i)))'
        BY <3>4
      <3>11. QED
        BY <3>5, <3>6, <3>7, <3>8, <3>9, <3>10
    <2>4. CASE CleanUpFails(p, monReject.dest, None)
      BY <2>2, <2>4 DEF CleanUpFails
    <2>5. QED
      BY <1>5, <2>1, <2>3, <2>4 DEF MonitorMove, MoveToRejected, RemoveSame
  <1>6. ASSUME NEW j \in Jobs, Scan(j) PROVE FamilyIsKept(F)'
    BY <1>6 DEF Scan
  <1>7. ASSUME NEW j \in Jobs, TakeResult(j) PROVE FamilyIsKept(F)'
    <2>1. UNCHANGED <<at, storeVars, rejVars, handVars>> /\ pc' \in {"check", "failed"}
      BY <1>7 DEF TakeResult
    <2>2. CASE pc' = "check"
      <3>1. /\ path' \in Paths /\ user' \in Users
            /\ at[path'] \in Files
            /\ id' = MediaId[at[path'], user']
        BY <1>0, <1>7, <2>2 DEF TakeResult, Readable, Typed, TypeOK, Job
      <3>2. id' \in Ids /\ Bears(at[path'], id')
        BY <3>1, HasId DEF Bears
      <3>3. at[path'] \in F <=> BornBy(F, id')
        BY <3>1, <3>2, FamilyHasIds
      <3>4. KeptApart(at[path'], None, id')
        BY <1>0, <3>1
      <3>5. QED
        BY <1>0, <2>1, <2>2, <3>3, <3>4
    <2>3. CASE pc' = "failed"
      BY <2>1, <2>3
    <2>4. QED
      BY <2>1, <2>2, <2>3
  <1>8. ASSUME CheckDir \/ LookupRow \/ CreateDir \/ InsertRow \/ IngestFails PROVE FamilyIsKept(F)'
    BY <1>8 DEF CheckDir, LookupRow, CreateDir, InsertRow, IngestFails, PipeOnly, PipeGoto
  <1>9. ASSUME WipeDir PROVE FamilyIsKept(F)'
    BY <1>0, <1>9 DEF WipeDir, PipeOnly, PipeGoto
  <1>10. ASSUME MoveSource PROVE FamilyIsKept(F)'
    BY <1>0, <1>10 DEF MoveSource, DirIsFree
  <1>11. ASSUME UnlinkSource PROVE FamilyIsKept(F)'
    BY <1>0, <1>11 DEF UnlinkSource, PipeGoto
  <1>12. ASSUME Ingested PROVE FamilyIsKept(F)'
    BY <1>12 DEF Ingested, PipeGoto
  <1>13. ASSUME PipePick PROVE FamilyIsKept(F)'
    BY <1>0, <1>13 DEF PipePick, RejectDest
  <1>14. ASSUME PipeMove PROVE FamilyIsKept(F)'
    <2> DEFINE raced == monReject # None /\ monReject.dest = "root"
    <2>1. path \in Paths /\ dest \in {"root", "uuid", "dir", "same"} /\ pc = "cleanUp" /\ pc' = "idle"
      BY <1>0, <1>14 DEF PipeMove, PipeGoto
    <2>2. UNCHANGED <<storeVars, handVars>>
      BY <1>14 DEF PipeMove
    <2>3. CASE Rename(path, dest, id, raced)
      <3>1. dest = "root" => rejRoot \notin F
        BY <1>0, <2>1 DEF PlaceIsFree
      <3>2. dest = "dir" => rejDir[id] = None /\ id \in Ids /\ (at[path] \in F <=> BornBy(F, id))
        BY <1>0, <2>1, <2>3 DEF PlaceIsFree, Rename
      <3>3. ASSUME NEW g \in F, KeptApart(g, None, None) PROVE KeptApart(g, None, None)'
        BY <1>0, <2>1, <2>2, <2>3, <3>1, <3>2, <3>3 DEF Rename
      <3>4. \A i \in Ids : rejDir'[i] # None => (rejDir'[i] \in F <=> BornBy(F, i))
        BY <1>0, <2>3, <3>2 DEF Rename
      <3>5. (F \cap handed # {} => \E f \in F : KeptApart(f, None, None))'
        <4>1. F \cap handed' # {} => \E f \in F : KeptApart(f, None, None)
          BY <2>2
        <4>2. QED
          BY <4>1, <3>3
      <3>6. (\A i \in Ids : orig[i] \in F => BornBy(F, i))'
        BY <2>2
      <3>7. (\A i \in Ids : rejDir[i] # None => (rejDir[i] \in F <=> BornBy(F, i)))'
        BY <3>4
      <3>8. QED
        BY <2>1, <3>5, <3>6, <3>7
    <2>4. CASE RemoveSame(path, dest, id)
      <3>1. rejDir[id] # None /\ id \in Ids /\ (at[path] \in F <=> BornBy(F, id))
        BY <1>0, <2>1, <2>4 DEF PlaceIsFree, RemoveSame
      <3>2. at[path] \in F => \E g \in F : KeptApart(g, None, None)'
        <4>1. PICK g : g = rejDir[id]
          OBVIOUS
        <4>2. at[path] \in F => g \in F
          BY <3>1, <4>1
        <4>3. KeptApart(g, None, None)'
          BY <2>4, <3>1, <4>1 DEF RemoveSame
        <4>4. QED
          BY <4>2, <4>3
      <3>3. ASSUME NEW g \in F, g # at[path], KeptApart(g, None, None) PROVE KeptApart(g, None, None)'
        <4>1. /\ trash' = trash /\ orig' = orig
              /\ rejRoot' = rejRoot /\ rejUuid' = rejUuid /\ rejDir' = rejDir
          BY <2>2, <2>4 DEF RemoveSame
        <4>2. \A q \in Paths : at[q] = g => at'[q] = g
          <5>1. at' = [at EXCEPT ![path] = None]
            BY <2>4 DEF RemoveSame
          <5>2. g # at[path] /\ at \in [Paths -> Files \cup {None}]
            BY <1>0, <3>3
          <5>3. QED
            BY ONLY <5>1, <5>2
        <4>3. CASE \E q \in Paths : q # None /\ at[q] = g
          BY <4>2, <4>3
        <4>4. CASE ~\E q \in Paths : q # None /\ at[q] = g
          BY <3>3, <4>1, <4>4
        <4>5. QED
          BY <4>3, <4>4
      <3>4. rejDir' = rejDir
        BY <2>4 DEF RemoveSame
      <3>5. (F \cap handed # {} => \E f \in F : KeptApart(f, None, None))'
        <4>1. F \cap handed' # {} => \E f \in F : KeptApart(f, None, None)
          BY <2>2
        <4>2. QED
          <5>1. SUFFICES ASSUME F \cap handed # {} PROVE \E f \in F : KeptApart(f, None, None)'
            BY <2>2
          <5>2. PICK g \in F : KeptApart(g, None, None)
            BY <4>1, <5>1, <2>2
          <5>3. CASE g = at[path]
            BY <3>2, <5>3
          <5>4. CASE g # at[path]
            BY <3>3, <5>2, <5>4
          <5>5. QED
            BY <5>3, <5>4
      <3>6. (\A i \in Ids : orig[i] \in F => BornBy(F, i))'
        BY <2>2
      <3>7. (\A i \in Ids : rejDir[i] # None => (rejDir[i] \in F <=> BornBy(F, i)))'
        BY <3>4
      <3>8. QED
        BY <2>1, <3>5, <3>6, <3>7
    <2>5. CASE CleanUpFails(path, dest, id)
      BY <2>1, <2>2, <2>5 DEF CleanUpFails
    <2>6. QED
      BY <1>14, <2>3, <2>4, <2>5 DEF PipeMove, MoveToRejected
  <1>15. ASSUME NEW d \in Deleters, DeleteStep(d) PROVE FamilyIsKept(F)'
    <2>1. CASE DeleteDenied(d) \/ DeleteRow(d)
      BY <2>1 DEF DeleteDenied, DeleteRow
    <2>2. CASE MoveToTrash(d)
      <3>1. delId[d] \in Ids
        BY <1>0, <2>2 DEF MoveToTrash
      <3>2. ASSUME NEW g \in F, NEW q, NEW i, KeptApart(g, q, i) PROVE KeptApart(g, q, i)'
        BY <1>0, <2>2, <3>1, <3>2 DEF MoveToTrash
      <3>3. \A i \in Ids : orig'[i] \in {orig[i], None}
        BY <1>0, <2>2, <3>1 DEF MoveToTrash
      <3>4. QED
        BY <1>0, <2>2, <3>2, <3>3 DEF MoveToTrash
    <2>3. QED
      BY <1>15, <2>1, <2>2 DEF DeleteStep
  <1>16. ASSUME Crash PROVE FamilyIsKept(F)'
    BY <1>16 DEF Crash
  <1>17. ASSUME UNCHANGED vars PROVE FamilyIsKept(F)'
    BY <1>17 DEF vars
  <1>18. QED
    BY <1>1, <1>2, <1>3, <1>4, <1>5, <1>6, <1>7, <1>8, <1>9, <1>10, <1>11, <1>12, <1>13, <1>14,
       <1>15, <1>16, <1>17
    DEF Next, UserStep, MonitorStep, PipeStep

LEMMA InitWhereabouts == Init => Whereabouts
  BY ConstantsAssumption
  DEF Init, Whereabouts, PlaceIsFree, DirIsFree, FamilyIsKept, Engaged, Families

LEMMA NextWhereabouts == Typed /\ Whereabouts /\ [Next]_vars => Whereabouts'
  <1> SUFFICES ASSUME Typed, Whereabouts, [Next]_vars PROVE Whereabouts'
    OBVIOUS
  <1>1. PlaceIsFree' /\ DirIsFree'
    BY NextPlaces DEF Whereabouts
  <1>2. ASSUME NEW F \in Families, F \cap exposed' = {} PROVE FamilyIsKept(F)'
    <2>1. F \cap exposed = {}
      BY <1>2, ExposedStay
    <2>2. PlaceIsFree /\ DirIsFree /\ FamilyIsKept(F)
      BY <2>1 DEF Whereabouts
    <2>3. QED
      BY <1>2, <2>2, NextFamily
  <1>3. QED
    BY <1>1, <1>2 DEF Whereabouts, Families

\* Of the files that may share an id one is always kept, whatever the ids, sizes
\* and owners are, unless the two threads that clean up have met.
THEOREM FilesAreKept == Spec => []NothingLost
  <1>1. Whereabouts => NothingLost
    <2> SUFFICES ASSUME Whereabouts, NEW F \in Families, F \cap handed # {}, F \cap exposed = {}
                 PROVE  \E f \in F : Kept(f)
      BY DEF NothingLost
    <2>1. PICK f \in F : KeptApart(f, None, None)
      BY DEF Whereabouts, FamilyIsKept
    <2>2. Kept(f)
      BY <2>1 DEF KeptApart, Kept
    <2>3. QED
      BY <2>2
  <1>2. QED
    BY <1>1, InitTyped, NextTyped, InitWhereabouts, NextWhereabouts, PTL DEF Spec
=============================================================================
