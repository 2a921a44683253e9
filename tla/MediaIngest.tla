---------------------------- MODULE MediaIngest ----------------------------
(***************************************************************************)
(* How a media file gets into the Clapshot server: from incoming/, watched *)
(* by the incoming monitor, or from an HTTP upload, through the metadata   *)
(* reader's thread pool, to videos/<id>/orig and a database row; or to     *)
(* rejected/ (server/src/video_pipeline/{incoming_monitor,metadata_reader, *)
(* mod,cleanup_rejected}.rs, server/src/api_server/file_upload.rs). Users  *)
(* delete media files at the same time (ws_handers.rs), and the server may *)
(* crash between any two steps: the files and the rows are all that is     *)
(* left then.                                                              *)
(*                                                                         *)
(* A step is one system call on a file or directory, or one statement on   *)
(* the database. A member of Files is a file's contents, whole, with its   *)
(* owner and cookies. All files have the same name, so that they compete   *)
(* for rejected/<name>: files of different names never meet. Users put     *)
(* files only where there is none.                                         *)
(***************************************************************************)
EXTENDS Integers, FiniteSets

CONSTANTS
    Incoming,       \* paths in incoming/ or one of its subdirectories
    Uploads,        \* paths in upload/, each in a directory of its own
    Elsewhere,      \* paths on another file system than videos/ and rejected/
    Files,          \* media files, told apart by all of their contents
    Users,          \* user ids
    OwnerOf,        \* [Files -> Users, or None: the OS has no name for it]
    SizeOf,         \* [Files -> their size in bytes]
    Ids,            \* media ids
    MediaId,        \* the id of a file for a user
    LeftOver,       \* what rejected/<name> may hold when the server is first started
    Jobs,           \* bound: slots for jobs of the metadata reader
    Deleters,       \* bound: delete commands being served
    MaxGiven,       \* bound: files dropped or uploaded
    MaxCrashes,     \* bound: crashes
    MaxFaults,      \* bound: moves to rejected/ that the file system refuses
    None

Paths == Incoming \cup Uploads

ASSUME ConstantsAssumption ==
    /\ Incoming \cap Uploads = {}
    /\ OwnerOf \in [Files -> Users \cup {None}]
    /\ SizeOf \in [Files -> Nat]
    /\ MediaId \in [Files \X Users -> Ids]
    /\ LeftOver \subseteq Files \cup {None}
    /\ None \notin Files \cup Users \cup Paths \cup Ids
    /\ MaxGiven \in Nat
    /\ MaxCrashes \in Nat
    /\ MaxFaults \in Nat

\* calc_media_file_id hashes name, user, size, cookies and the first 32 KiB, and
\* keeps 32 bits of it: any two files may have one id, for one user or two.
Bears(f, i) == \E u \in Users : MediaId[f, u] = i

VARIABLES
    at,             \* [Paths -> the file there]
    dirs,           \* ids whose directory videos/<id> exists
    orig,           \* [Ids -> the file in videos/<id>/orig]
    rows,           \* [Ids -> the user in the row of this id]
    rejRoot,        \* the file rejected/<name>
    rejDir,         \* [Ids -> the file rejected/<id>/<name>]
    rejUuid,        \* the files rejected/<uuid>/<name>
    trash,          \* the files in videos/trash
    submitted,      \* keys of submission_time: paths the monitor leaves alone
    monReject,      \* the monitor's clean-up in progress: [path, dest]
    announced,      \* FALSE for a stored upload until the handler announces it
    jobs,           \* [Jobs -> the jobs of the metadata reader]
    pc,             \* the pipeline thread: location,
    path,           \* its source file,
    user,           \* the user of its job
    id,             \* its media id
    dest,           \* and where its clean-up is about to move the source
    delPc, delId,   \* the delete commands: location and media id
    given,          \* how many files the users have handed in
    crashes,        \* how many crashes there were
    faults,         \* how many moves to rejected/ were refused
    handed,         \* history: the files that were handed in
    exposed,        \* history: files hit by a race of the clean-ups
    doomed          \* history: ids inserted while being moved to the trash

storeVars == <<dirs, orig, rows, trash, doomed>>
rejVars == <<rejRoot, rejDir, rejUuid, faults, exposed>>
monVars == <<submitted, monReject>>
pipeVars == <<pc, path, user, id, dest>>
delVars == <<delPc, delId>>
handVars == <<given, handed>>
vars == <<at, storeVars, rejVars, monVars, announced, jobs, pipeVars, delVars,
          handVars, crashes>>

-----------------------------------------------------------------------------
(* Types *)

Locations ==
    {"idle", "check", "lookup", "wipe", "create", "move", "unlink", "insert",
     "decide", "known", "failed", "cleanUp"}

Destinations == {"root", "uuid", "dir", "same"}

Job == [path : Paths, user : Users, state : {"queued", "read", "failed"}]

TypeOK ==
    /\ at \in [Paths -> Files \cup {None}]
    /\ dirs \subseteq Ids
    /\ orig \in [Ids -> Files \cup {None}]
    /\ rows \in [Ids -> Users \cup {None}]
    /\ rejRoot \in Files \cup {None}
    /\ rejDir \in [Ids -> Files \cup {None}]
    /\ rejUuid \subseteq Files
    /\ trash \subseteq Files
    /\ submitted \subseteq Incoming
    /\ monReject \in [path : Incoming, dest : Destinations] \cup {None}
    /\ announced \in [Uploads -> BOOLEAN]
    /\ jobs \in [Jobs -> Job \cup {None}]
    /\ pc \in Locations
    /\ path \in Paths \cup {None}
    /\ user \in Users \cup {None}
    /\ id \in Ids \cup {None}
    /\ dest \in Destinations \cup {None}
    /\ delPc \in [Deleters -> {"idle", "authz", "trash"}]
    /\ delId \in [Deleters -> Ids \cup {None}]
    /\ given \in 0..MaxGiven
    /\ crashes \in 0..MaxCrashes
    /\ faults \in 0..MaxFaults
    /\ handed \subseteq Files
    /\ exposed \subseteq Files
    /\ doomed \subseteq Ids

-----------------------------------------------------------------------------
(* Start, and restart after a crash *)

Init ==
    /\ submitted = {}
    /\ monReject = None
    /\ announced = [p \in Uploads |-> TRUE]
    /\ jobs = [j \in Jobs |-> None]
    /\ pc = "idle"
    /\ path = None
    /\ user = None
    /\ id = None
    /\ dest = None
    /\ delPc = [d \in Deleters |-> "idle"]
    /\ delId = [d \in Deleters |-> None]
    /\ at = [p \in Paths |-> None]
    /\ dirs = {}
    /\ orig = [i \in Ids |-> None]
    /\ rows = [i \in Ids |-> None]
    /\ rejRoot \in LeftOver
    /\ rejDir = [i \in Ids |-> None]
    /\ rejUuid = {}
    /\ trash = {}
    /\ given = 0
    /\ crashes = 0
    /\ faults = 0
    /\ handed = {}
    /\ exposed = {}
    /\ doomed = {}

\* A server process starts afresh, with the files and rows it finds.
Crash ==
    /\ crashes < MaxCrashes
    /\ crashes' = crashes + 1
    /\ submitted' = {}
    /\ monReject' = None
    /\ announced' = [p \in Uploads |-> TRUE]
    /\ jobs' = [j \in Jobs |-> None]
    /\ pc' = "idle"
    /\ path' = None
    /\ user' = None
    /\ id' = None
    /\ dest' = None
    /\ delPc' = [d \in Deleters |-> "idle"]
    /\ delId' = [d \in Deleters |-> None]
    /\ UNCHANGED <<at, storeVars, rejVars, handVars>>

-----------------------------------------------------------------------------
(* Handing files in *)

\* The pipeline goes by the id it has computed of the file at this path.
Engaged(p) ==
    /\ path = p
    /\ \/ pc \in {"check", "lookup", "wipe", "create", "move", "unlink", "known"}
       \/ pc = "cleanUp" /\ dest \in {"dir", "same"}

\* Putting a file where the pipeline takes another one to be (the monitor has
\* moved it away) exposes the file and those with the other one's id: from now
\* on they may be taken for each other.
HandIn(p, f) ==
    /\ given < MaxGiven
    /\ at[p] = None
    /\ at' = [at EXCEPT ![p] = f]
    /\ given' = given + 1
    /\ handed' = handed \cup {f}
    /\ exposed' = exposed \cup
          IF Engaged(p) THEN {f} \cup {g \in Files : Bears(g, id)} ELSE {}
    /\ UNCHANGED <<rejRoot, rejDir, rejUuid, faults>>

\* A user puts a file into incoming/.
Drop(p, f) ==
    /\ p \in Incoming
    /\ HandIn(p, f)
    /\ UNCHANGED <<storeVars, monVars, announced, jobs, pipeVars, delVars, crashes>>

\* handle_multipart_upload has stored a file; an upload that fails is removed
\* again. The path is new: nothing in the process refers to it ...
Upload(p, f) ==
    /\ p \in Uploads
    /\ announced[p]
    /\ path # p
    /\ \A j \in Jobs : jobs[j] # None => jobs[j].path # p
    /\ OwnerOf[f] # None
    /\ HandIn(p, f)
    /\ announced' = [announced EXCEPT ![p] = FALSE]
    /\ UNCHANGED <<storeVars, monVars, jobs, pipeVars, delVars, crashes>>

\* A job of the metadata reader is queued. Its user is settled here.
Enqueue(p) ==
    \E j \in Jobs :
        /\ jobs[j] = None
        /\ jobs' = [jobs EXCEPT ![j] =
               [path |-> p, user |-> OwnerOf[at[p]], state |-> "queued"]]

\* ... until upload_done tells the pipeline, which relays it.
AnnounceUpload(p) ==
    /\ ~announced[p]
    /\ announced' = [announced EXCEPT ![p] = TRUE]
    /\ Enqueue(p)
    /\ UNCHANGED <<at, storeVars, rejVars, monVars, pipeVars, delVars, handVars, crashes>>

-----------------------------------------------------------------------------
(* The incoming monitor *)

\* sz > 1 && sz != 4096: files of other sizes are left alone, for ever.
Considered(f) == SizeOf[f] > 1 /\ SizeOf[f] # 4096

Unattended(p) ==
    /\ p \in Incoming
    /\ p \notin submitted
    /\ at[p] # None
    /\ Considered(at[p])

\* A file that has kept its size since the last poll is submitted.
Submit(p) ==
    /\ Unattended(p)
    /\ monReject = None
    /\ OwnerOf[at[p]] # None
    /\ submitted' = submitted \cup {p}
    /\ Enqueue(p)
    /\ UNCHANGED <<at, storeVars, rejVars, monReject, announced, pipeVars, delVars,
                   handVars, crashes>>

\* Mutant: submissions are remembered for good.
NeverExpires(p) ==
    /\ FALSE
    /\ UNCHANGED vars

\* After resubmit_delay a path counts as new, whatever became of its job.
Expire(p) ==
    /\ monReject = None
    /\ p \in submitted
    /\ submitted' = submitted \ {p}
    /\ UNCHANGED <<at, storeVars, rejVars, monReject, announced, jobs, pipeVars, delVars,
                   handVars, crashes>>

\* Mutant: nobody looks whether the name is taken.
RejectDestRoot(i) == "root"

\* clean_up_rejected_file, first half: look where to put the file.
RejectDest(i) ==
    IF rejRoot = None THEN "root"
    ELSE IF i = None THEN "uuid"
    ELSE IF rejDir[i] = None THEN "dir"
    ELSE "same"

\* Mutant: a source that has gone counts as moved.
RenameUnchecked(p, d, i, raced) ==
    /\ d # "same"
    /\ p \notin Elsewhere
    /\ at' = [at EXCEPT ![p] = None]
    /\ rejRoot' = IF d = "root" THEN at[p] ELSE rejRoot
    /\ rejUuid' = IF d = "uuid" THEN rejUuid \cup {at[p]} ELSE rejUuid
    /\ rejDir' = IF d = "dir" THEN [rejDir EXCEPT ![i] = at[p]] ELSE rejDir
    /\ exposed' = IF d = "root" /\ raced THEN exposed \cup {at[p]} ELSE exposed
    /\ UNCHANGED faults

\* Second half: a rename within one file system. Where the other thread has
\* chosen rejected/<name>, too, and has not moved its file yet (raced), the file
\* put there is exposed: it will be replaced.
Rename(p, d, i, raced) ==
    /\ d # "same"
    /\ p \notin Elsewhere
    /\ at[p] # None
    /\ at' = [at EXCEPT ![p] = None]
    /\ rejRoot' = IF d = "root" THEN at[p] ELSE rejRoot
    /\ rejUuid' = IF d = "uuid" THEN rejUuid \cup {at[p]} ELSE rejUuid
    /\ rejDir' = IF d = "dir" THEN [rejDir EXCEPT ![i] = at[p]] ELSE rejDir
    /\ exposed' = IF d = "root" /\ raced THEN exposed \cup {at[p]} ELSE exposed
    /\ UNCHANGED faults

\* "Probably the same file": one of this id and this size is there already.
RemoveSame(p, d, i) ==
    /\ d = "same"
    /\ at[p] # None
    /\ SizeOf[at[p]] = SizeOf[rejDir[i]]
    /\ at' = [at EXCEPT ![p] = None]
    /\ UNCHANGED rejVars

\* There is nothing to move, or no way to: it has gone, it would have to be
\* copied, or another file has its id but not its size.
CannotMove(p, d, i) ==
    \/ at[p] = None
    \/ d # "same" /\ p \in Elsewhere
    \/ d = "same" /\ SizeOf[at[p]] # SizeOf[rejDir[i]]

\* An error of the clean-up is logged, and the file stays.
CleanUpFails(p, d, i) ==
    /\ \/ CannotMove(p, d, i) /\ UNCHANGED faults
       \/ faults < MaxFaults /\ faults' = faults + 1
    /\ UNCHANGED <<at, rejRoot, rejDir, rejUuid, exposed>>

MoveToRejected(p, d, i, raced) ==
    \/ Rename(p, d, i, raced)
    \/ RemoveSame(p, d, i)
    \/ CleanUpFails(p, d, i)

\* "Failed to get username for file": the monitor cleans up, in its thread.
MonitorPick(p) ==
    /\ Unattended(p)
    /\ monReject = None
    /\ OwnerOf[at[p]] = None
    /\ monReject' = [path |-> p, dest |-> RejectDest(None)]
    /\ UNCHANGED <<at, storeVars, rejVars, submitted, announced, jobs, pipeVars, delVars,
                   handVars, crashes>>

MonitorMove ==
    /\ monReject # None
    /\ MoveToRejected(monReject.path, monReject.dest, None, pc = "cleanUp" /\ dest = "root")
    /\ monReject' = None
    /\ UNCHANGED <<storeVars, submitted, announced, jobs, pipeVars, delVars,
                   handVars, crashes>>

-----------------------------------------------------------------------------
(* The metadata reader: jobs finish in any order *)

\* mediainfo can make sense of the file, or not; or the file has gone.
Scan(j) ==
    /\ jobs[j] # None
    /\ jobs[j].state = "queued"
    /\ \E result \in IF at[jobs[j].path] = None THEN {"failed"} ELSE {"read", "failed"} :
          jobs' = [jobs EXCEPT ![j].state = result]
    /\ UNCHANGED <<at, storeVars, rejVars, monVars, announced, pipeVars, delVars,
                   handVars, crashes>>

-----------------------------------------------------------------------------
(* The pipeline thread *)

PipeGoto(from, to) ==
    /\ pc = from
    /\ pc' = to

\* calc_media_file_id opens the file again.
Readable(j) == jobs[j].state = "read" /\ at[jobs[j].path] # None

\* A result is taken off the channel. Of a file that could be read, and is
\* still there, the id is computed, for the user of the job.
TakeResult(j) ==
    /\ pc = "idle"
    /\ jobs[j] # None
    /\ jobs[j].state # "queued"
    /\ IF Readable(j)
         THEN pc' = "check" /\ id' = MediaId[at[jobs[j].path], jobs[j].user]
         ELSE pc' = "failed" /\ id' = None
    /\ path' = jobs[j].path
    /\ user' = jobs[j].user
    /\ jobs' = [jobs EXCEPT ![j] = None]
    /\ UNCHANGED <<at, storeVars, rejVars, monVars, announced, dest, delVars,
                   handVars, crashes>>

PipeOnly == UNCHANGED <<at, rejVars, monVars, announced, jobs, path, user, id, dest, delVars,
                        handVars, crashes>>

\* ingest_media_file: is the source there, and is there a directory for its id?
CheckDir ==
    /\ pc = "check"
    /\ pc' = IF at[path] = None THEN "failed"
             ELSE IF id \in dirs THEN "lookup" ELSE "create"
    /\ UNCHANGED storeVars
    /\ PipeOnly

\* There is. A row of the same user makes the file a duplicate, one of another
\* is a "hash collision". Without a row the directory is the rest of an
\* ingestion or a deletion that did not come to its end.
LookupRow ==
    /\ pc = "lookup"
    /\ pc' = IF rows[id] = None THEN "wipe"
             ELSE IF rows[id] = user THEN "known" ELSE "failed"
    /\ UNCHANGED storeVars
    /\ PipeOnly

WipeDir ==
    /\ PipeGoto("wipe", "create")
    /\ id \in dirs
    /\ dirs' = dirs \ {id}
    /\ orig' = [orig EXCEPT ![id] = None]
    /\ UNCHANGED <<rows, trash, doomed>>
    /\ PipeOnly

CreateDir ==
    /\ PipeGoto("create", "move")
    /\ id \notin dirs
    /\ dirs' = dirs \cup {id}
    /\ UNCHANGED <<orig, rows, trash, doomed>>
    /\ PipeOnly

\* rename, or, across file systems, copy and remove.
MoveSource ==
    /\ pc = "move"
    /\ at[path] # None
    /\ id \in dirs
    /\ orig' = [orig EXCEPT ![id] = at[path]]
    /\ IF path \in Elsewhere
         THEN pc' = "unlink" /\ UNCHANGED at
         ELSE pc' = "insert" /\ at' = [at EXCEPT ![path] = None]
    /\ UNCHANGED <<dirs, rows, trash, doomed, rejVars, monVars, announced, jobs, path, user, id,
                   dest, delVars, handVars, crashes>>

UnlinkSource ==
    /\ PipeGoto("unlink", "insert")
    /\ at[path] # None
    /\ at' = [at EXCEPT ![path] = None]
    /\ UNCHANGED <<storeVars, rejVars, monVars, announced, jobs, path, user, id, dest, delVars,
                   handVars, crashes>>

\* Mutant: the file is taken to be where it was moved.
TakenForMoved == TRUE

\* src_moved.exists()
Moved == orig[id] # None

\* The row is inserted. A deletion of the id may still be on its way to move
\* its directory to the trash, and will take this one.
InsertRow ==
    /\ PipeGoto("insert", "decide")
    /\ Moved
    /\ rows[id] = None
    /\ rows' = [rows EXCEPT ![id] = user]
    /\ doomed' = IF \E d \in Deleters : delPc[d] = "trash" /\ delId[d] = id
                   THEN doomed \cup {id} ELSE doomed
    /\ UNCHANGED <<dirs, orig, trash>>
    /\ PipeOnly

\* The decision script ends well; transcoder and thumbnailer are told.
Ingested ==
    /\ PipeGoto("decide", "idle")
    /\ path' = None
    /\ user' = None
    /\ id' = None
    /\ UNCHANGED <<at, storeVars, rejVars, monVars, announced, jobs, dest, delVars,
                   handVars, crashes>>

\* A directory or file is not as expected, the database fails, or the script.
IngestFails ==
    /\ pc \in {"lookup", "wipe", "create", "move", "unlink", "insert", "decide"}
    /\ pc' = "failed"
    /\ UNCHANGED storeVars
    /\ PipeOnly

\* The pipeline's own clean-up, which is told the id of a duplicate only.
PipePick ==
    /\ pc \in {"known", "failed"}
    /\ pc' = "cleanUp"
    /\ dest' = RejectDest(IF pc = "known" THEN id ELSE None)
    /\ UNCHANGED <<at, storeVars, rejVars, monVars, announced, jobs, path, user, id, delVars,
                   handVars, crashes>>

PipeMove ==
    /\ PipeGoto("cleanUp", "idle")
    /\ MoveToRejected(path, dest, id, monReject # None /\ monReject.dest = "root")
    /\ path' = None
    /\ user' = None
    /\ id' = None
    /\ dest' = None
    /\ UNCHANGED <<storeVars, monVars, announced, jobs, delVars, handVars, crashes>>

-----------------------------------------------------------------------------
(* Deleting a media file *)

\* The row is read, and the organizer asked: an await.
DeleteStart(d, i) ==
    /\ delPc[d] = "idle"
    /\ rows[i] # None
    /\ delPc' = [delPc EXCEPT ![d] = "authz"]
    /\ delId' = [delId EXCEPT ![d] = i]
    /\ UNCHANGED <<at, storeVars, rejVars, monVars, announced, jobs, pipeVars,
                   handVars, crashes>>

DeleteDenied(d) ==
    /\ delPc[d] = "authz"
    /\ delPc' = [delPc EXCEPT ![d] = "idle"]
    /\ delId' = [delId EXCEPT ![d] = None]
    /\ UNCHANGED <<at, storeVars, rejVars, monVars, announced, jobs, pipeVars,
                   handVars, crashes>>

\* The row goes first ...
DeleteRow(d) ==
    /\ delPc[d] = "authz"
    /\ delPc' = [delPc EXCEPT ![d] = "trash"]
    /\ rows' = [rows EXCEPT ![delId[d]] = None]
    /\ UNCHANGED <<at, dirs, orig, trash, doomed, rejVars, monVars, announced, jobs, pipeVars,
                   delId, handVars, crashes>>

\* ... and then the directory, if it is there and can be moved.
MoveToTrash(d) ==
    /\ delPc[d] = "trash"
    /\ delPc' = [delPc EXCEPT ![d] = "idle"]
    /\ delId' = [delId EXCEPT ![d] = None]
    /\ \/ /\ delId[d] \in dirs
          /\ dirs' = dirs \ {delId[d]}
          /\ orig' = [orig EXCEPT ![delId[d]] = None]
          /\ trash' = trash \cup ({orig[delId[d]]} \ {None})
       \/ UNCHANGED <<dirs, orig, trash>>
    /\ UNCHANGED <<at, rows, doomed, rejVars, monVars, announced, jobs, pipeVars,
                   handVars, crashes>>

-----------------------------------------------------------------------------

UserStep ==
    \/ \E p \in Paths, f \in Files : Drop(p, f) \/ Upload(p, f)
    \/ \E d \in Deleters, i \in Ids : DeleteStart(d, i)

MonitorStep ==
    \/ \E p \in Incoming : Submit(p) \/ Expire(p) \/ MonitorPick(p)
    \/ MonitorMove

DeleteStep(d) ==
    \/ DeleteDenied(d)
    \/ DeleteRow(d)
    \/ MoveToTrash(d)

\* The steps of the pipeline within the treatment of one result.
PipeStep ==
    \/ CheckDir
    \/ LookupRow
    \/ WipeDir
    \/ CreateDir
    \/ MoveSource
    \/ UnlinkSource
    \/ InsertRow
    \/ Ingested
    \/ IngestFails
    \/ PipePick
    \/ PipeMove

Next ==
    \/ UserStep
    \/ \E p \in Uploads : AnnounceUpload(p)
    \/ MonitorStep
    \/ \E j \in Jobs : Scan(j) \/ TakeResult(j)
    \/ PipeStep
    \/ \E d \in Deleters : DeleteStep(d)
    \/ Crash

Spec == Init /\ [][Next]_vars

(***************************************************************************)
(* The monitor polls for as long as it lives, looking at every file each   *)
(* time; the metadata reader's workers and the pipeline serve channels in  *)
(* order, so that a job is not passed over for ever.                       *)
(***************************************************************************)
Fairness ==
    /\ \A p \in Incoming : SF_vars(Submit(p)) /\ WF_vars(Expire(p)) /\ SF_vars(MonitorPick(p))
    /\ WF_vars(MonitorMove)
    /\ \A j \in Jobs : WF_vars(Scan(j)) /\ SF_vars(TakeResult(j))
    /\ WF_vars(PipeStep)

FairSpec == Spec /\ Fairness

-----------------------------------------------------------------------------
(* Properties *)

Kept(f) ==
    \/ f \in trash \cup rejUuid \cup {rejRoot}
    \/ \E p \in Paths : at[p] = f
    \/ \E i \in Ids : orig[i] = f \/ rejDir[i] = f

\* Sets of files that have with each file all those that may share its id: the
\* server cannot tell them apart, and lets one stand for another.
Families ==
    {F \in SUBSET Files : \A f \in F, g \in Files :
        (\E i \in Ids : Bears(f, i) /\ Bears(g, i)) => g \in F}

\* A file somebody handed in is never lost, but for files of one id: whatever
\* fails or crashes, and whoever hands in the same file, deletes or rejects it,
\* one of its family stays in incoming/ or upload/, in a media directory, in
\* rejected/ or in the trash. The exception are families hit by a race of the
\* two threads that clean up (exposed).
NothingLost ==
    \A F \in Families :
        (F \cap handed # {} /\ F \cap exposed = {}) => \E f \in F : Kept(f)

\* A row comes with the file it stands for. The exception is a row inserted
\* while an earlier deletion of the same file had yet to move its directory,
\* which then takes the new one.
RowHasOrig == \A i \in Ids : rows[i] # None => orig[i] # None \/ i \in doomed

\* "Files that fail processing are moved to the rejected/ directory": when the
\* clean-up of a failed ingestion begins, its source is there to be moved.
FailedIsRejected == pc = "failed" /\ id # None => at[path] # None

\* rejected/ holds a file of this one's id, but not of its size.
Refused(f) ==
    /\ rejRoot # None
    /\ \E i \in Ids :
          Bears(f, i) /\ rejDir[i] # None /\ SizeOf[rejDir[i]] # SizeOf[f]

\* A file does not stay in incoming/: it is ingested or rejected, even when it
\* takes the place of one submitted shortly before, and however a job of it ends.
\* It stays if the monitor skips its size, or if the clean-up will not put it
\* beside a different file of its id. From another file system there is no way
\* to rejected/, and that moving to it fails is taken to happen MaxFaults times
\* at most.
IncomingIsEmptied ==
    \A p \in Incoming \ Elsewhere :
        at[p] # None ~> \/ at[p] = None
                        \/ ~Considered(at[p])
                        \/ Refused(at[p])
=============================================================================
