----------------------------- MODULE MediaJobs -----------------------------
(***************************************************************************)
(* Transcoding and thumbnailing: what becomes of a media file between its  *)
(* ingestion and the last result of its scripts.                           *)
(*                                                                         *)
(* The pipeline thread (video_pipeline/mod.rs) queues jobs, a pool of      *)
(* workers runs the scripts (video_pipeline/script_processor.rs), and      *)
(* their results come back, in the order the workers finish, to the same   *)
(* pipeline thread, which links the output and updates the row.  Files     *)
(* without thumbnails from an older version or an interrupted run are      *)
(* thumbnailed in a chain, one after the other.  Other threads delete      *)
(* media files all the while, and the server may crash.                    *)
(*                                                                         *)
(* Ingestion itself is one step here; MediaIngest has its details.  What   *)
(* the scripts write is abstracted to what the server looks for.  The      *)
(* sanitized links and the progress pipes have unique names and are read   *)
(* by the script alone: they are left out.                                 *)
(***************************************************************************)
EXTENDS Naturals, Sequences, FiniteSets

CONSTANTS
    Files,          \* media file ids
    Legacy,         \* files of an older version, oldest first
    Recompressed,   \* those of them with a video.mp4 already
    Unknown,        \* those with neither a file name nor a media type
    Pictures,       \* files of which the script makes thumbnails (not audio)
    Workers,        \* threads of the pool
    MaxIngests,     \* bound on ingestions
    MaxFaults,      \* bound on crashes, failed scripts and statements
    None            \* no row, no directory, no job

VARIABLES
    rows,           \* [Files -> the row of the table media_files, or None]
    disk,           \* [Files -> the directory videos/<id>, or None]
    queue,          \* cmpr_in: jobs no worker has taken
    results,        \* cmpr_out: results the pipeline has not handled
    pc, job,        \* [Workers -> location, or how the script ended], their jobs
    legacy,         \* legacy_media_file_now_thumnailing
    trashing,       \* files whose row is deleted and directory not yet moved
    ingests,        \* ingestions so far: names outputs, and orders the rows
    faults,         \* crashes, failed scripts and statements so far
    stale,          \* history: files hit by what was meant for an earlier one
    failed,         \* history: files with a thumbnailing that went wrong
    broken          \* history: the chain of legacy files stopped early

poolVars == <<queue, pc, job>>
boundVars == <<ingests, faults>>
histVars == <<stale, failed, broken>>
vars == <<rows, disk, results, poolVars, legacy, trashing, boundVars, histVars>>

Ids == 0 .. Len(Legacy) + MaxIngests   \* an ingestion; 0: an older version

(* recomp: recompression_done, has: has_thumbnail, sheet: the dimensions   *)
(* of the sheet, done: thumbs_done; added orders the rows by added_time.   *)
Rows == [added : Ids, recomp : BOOLEAN, has : BOOLEAN, sheet : BOOLEAN,
         done : BOOLEAN]

(* A new row has NULL in its flags: nobody tells that from FALSE.          *)
NewRow(n) ==
    [added |-> n, recomp |-> FALSE, has |-> FALSE, sheet |-> FALSE,
     done |-> FALSE]

(* orig: the ingested file; work: outputs in transcoded/, the directory    *)
(* the transcoding script writes to; outputs: those moved to videos/<id>;  *)
(* link: what video.mp4 points to; thumbs: images in thumbs/; thumbWork:   *)
(* thumbs/transcoded, where the thumbnailing script writes.                *)
Dirs == [orig : BOOLEAN, work : (SUBSET Ids) \cup {None}, outputs : SUBSET Ids,
         link : Ids \cup {None}, thumbs : BOOLEAN,
         thumbWork : {"none", "empty", "images"}]

EmptyDir == [orig |-> FALSE, work |-> None, outputs |-> {}, link |-> None,
             thumbs |-> FALSE, thumbWork |-> "none"]

Jobs == [op : {"transcode", "thumbs"}, file : Files, id : Ids,
         input : {"orig", "video"}]
Results == [job : Jobs, ok : BOOLEAN, thumbs : BOOLEAN]

ASSUME ConstantsAssumption ==
    /\ Legacy \in Seq(Files)
    /\ MaxIngests \in Nat /\ MaxFaults \in Nat
    /\ None \notin Files /\ None \notin Ids /\ None \notin Rows
    /\ None \notin Dirs /\ None \notin Jobs

Job(op, m, n, input) == [op |-> op, file |-> m, id |-> n, input |-> input]
Failure(j) == [job |-> j, ok |-> FALSE, thumbs |-> FALSE]

(* create_dir_all: the directory of the file, made anew when missing.      *)
Made(m) == IF disk[m] = None THEN EmptyDir ELSE disk[m]

(* The input of a job exists: links are followed.                          *)
HasInput(j) ==
    /\ disk[j.file] # None
    /\ IF j.input = "orig" THEN disk[j.file].orig
       ELSE disk[j.file].link \in disk[j.file].outputs

-----------------------------------------------------------------------------
(* The chain of legacy files.                                              *)

Missing(table) == {m \in Files : table[m] # None /\ ~table[m].done}

Newest(table, S) ==
    CHOOSE m \in S : \A o \in S : table[o].added <= table[m].added

(* legacy_thumbnail_next_media_file: the newest file without thumbs_done,  *)
(* or None; a first candidate of unknown name or type ends the search.     *)
NextLegacy(table) ==
    IF Missing(table) = {} THEN None
    ELSE LET m == Newest(table, Missing(table)) IN
         IF m \in Unknown /\ table[m].added <= Len(Legacy) THEN None ELSE m

LegacyJob(table, m) ==
    Job("thumbs", m, table[m].added, IF table[m].recomp THEN "video" ELSE "orig")

\* Mutant: candidates without an original to read are not queued.
QueuedOriginals(table, m) ==
    IF m = None \/ table[m].recomp THEN <<>> ELSE <<LegacyJob(table, m)>>

Queued(table, m) ==
    IF m = None THEN <<>> ELSE <<LegacyJob(table, m)>>

Init ==
    /\ rows = [m \in Files |->
            LET age == {n \in 1 .. Len(Legacy) : Legacy[n] = m} IN
            IF age = {} THEN None
            ELSE [NewRow(CHOOSE n \in age : TRUE) EXCEPT
                      !.recomp = (m \in Recompressed)]]
    /\ disk = [m \in Files |->
            IF rows[m] = None THEN None
            ELSE IF rows[m].recomp
            THEN [EmptyDir EXCEPT !.orig = TRUE, !.outputs = {0}, !.link = 0]
            ELSE [EmptyDir EXCEPT !.orig = TRUE]]
    /\ legacy = NextLegacy(rows)
    /\ queue = Queued(rows, legacy)
    /\ results = <<>>
    /\ pc = [w \in Workers |-> "idle"]
    /\ job = [w \in Workers |-> None]
    /\ trashing = {}
    /\ ingests = Len(Legacy) /\ faults = 0
    /\ stale = {} /\ failed = {}
    /\ broken = (legacy = None /\ Missing(rows) # {})

-----------------------------------------------------------------------------
(* Ingestion, deletion and crashes.                                        *)

(* ingest_media_file: a directory without a row is removed first; the      *)
(* decision script says whether to transcode, or fails after the row is    *)
(* inserted, and then nothing is queued.                                   *)
Ingest(m) ==
    /\ rows[m] = None
    /\ ingests < Len(Legacy) + MaxIngests
    /\ ingests' = ingests + 1
    /\ rows' = [rows EXCEPT ![m] = NewRow(ingests')]
    /\ disk' = [disk EXCEPT ![m] = [EmptyDir EXCEPT !.orig = TRUE]]
    /\ LET transcode == Job("transcode", m, ingests', "orig")
           thumbs == Job("thumbs", m, ingests', "orig") IN
       \/ queue' = queue \o <<transcode, thumbs>> /\ UNCHANGED failed
       \/ queue' = Append(queue, thumbs) /\ UNCHANGED failed
       \/ failed' = failed \cup {m} /\ UNCHANGED queue
    /\ UNCHANGED <<results, pc, job, legacy, trashing, faults, stale,
                   broken>>

(* del_media_file_and_cleanup deletes the row,                             *)
DeleteRow(m) ==
    /\ rows[m] # None
    /\ m \notin trashing
    /\ rows' = [rows EXCEPT ![m] = None]
    /\ trashing' = trashing \cup {m}
    /\ UNCHANGED <<disk, results, poolVars, legacy, boundVars, histVars>>

(* and then moves the directory, whichever is there by now, to the trash.  *)
MoveToTrash(m) ==
    /\ m \in trashing
    /\ disk' = [disk EXCEPT ![m] = None]
    /\ trashing' = trashing \ {m}
    /\ stale' = IF rows[m] = None THEN stale ELSE stale \cup {m}
    /\ UNCHANGED <<rows, results, poolVars, legacy, boundVars, failed, broken>>

Fault == faults < MaxFaults /\ faults' = faults + 1

(* A crash loses the channels, the workers and the deletions under way; on *)
(* the next start the chain begins anew, and nothing else is queued.       *)
Crash ==
    /\ Fault
    /\ legacy' = NextLegacy(rows)
    /\ queue' = Queued(rows, legacy')
    /\ results' = <<>>
    /\ pc' = [w \in Workers |-> "idle"]
    /\ job' = [w \in Workers |-> None]
    /\ trashing' = {}
    /\ failed' = failed \ Missing(rows)
    /\ broken' = (legacy' = None /\ Missing(rows) # {})
    /\ UNCHANGED <<rows, disk, ingests, stale>>

-----------------------------------------------------------------------------
(* The workers: run_transcode_script and run_thumbnail_script.             *)

(* The files whose thumbnailing has gone wrong, with that of j.            *)
MarkFailed(j) ==
    failed' = IF j.op = "thumbs" THEN failed \cup {j.file} ELSE failed

(* A job that meets the row, or the directory, of a later ingestion.       *)
MarkStale(j) ==
    stale' = IF rows[j.file] # None /\ rows[j.file].added # j.id
             THEN stale \cup {j.file} ELSE stale

Report(w, r) ==
    /\ results' = Append(results, r)
    /\ pc' = [pc EXCEPT ![w] = "idle"]
    /\ job' = [job EXCEPT ![w] = None]
    /\ UNCHANGED <<rows, queue, legacy, trashing, ingests, stale, broken>>

GoTo(w, there) ==
    /\ pc' = [pc EXCEPT ![w] = there]
    /\ UNCHANGED <<rows, results, queue, job, legacy, trashing, ingests, broken>>

(* The pool takes jobs in the order of the channel.                        *)
(* create_sanitized_symlink fails when the input is gone.                  *)
Take(w) ==
    LET j == Head(queue) IN
    /\ pc[w] = "idle" /\ queue # <<>>
    /\ queue' = Tail(queue)
    /\ IF HasInput(j)
       THEN /\ job' = [job EXCEPT ![w] = j]
            /\ pc' = [pc EXCEPT ![w] = "mkdir"]
            /\ UNCHANGED <<results, failed>>
       ELSE /\ results' = Append(results, Failure(j))
            /\ MarkFailed(j)
            /\ UNCHANGED <<pc, job>>
    /\ UNCHANGED <<rows, disk, legacy, trashing, boundVars, stale, broken>>

WithWorkDir(j) ==
    LET d == Made(j.file) IN
    IF j.op = "transcode"
    THEN [d EXCEPT !.work = IF @ = None THEN {} ELSE @]
    ELSE [d EXCEPT !.thumbWork = IF @ = "none" THEN "empty" ELSE @]

(* setup_script_environment: a value that does not pass validate_env_value *)
(* ends the job and leaves the work directory.                             *)
RefuseEnvironment(w) ==
    /\ Report(w, Failure(job[w]))
    /\ MarkFailed(job[w])
    /\ Fault

(* create_dir_all: jobs of one file share a work directory.                *)
MakeWorkDir(w) ==
    /\ pc[w] = "mkdir"
    /\ disk' = [disk EXCEPT ![job[w].file] = WithWorkDir(job[w])]
    /\ \/ GoTo(w, "script") /\ UNCHANGED <<faults, stale, failed>>
       \/ RefuseEnvironment(w)

(* The script needs its input; the thumbnailing script makes the work      *)
(* directory again if need be, the transcoding script does not.            *)
CanSucceed(j) ==
    HasInput(j) /\ (j.op = "transcode" => disk[j.file].work # None)

WithScriptOutput(d, j) ==
    IF j.op = "transcode"
    THEN [d EXCEPT !.work = @ \cup {j.id}]
    ELSE [d EXCEPT !.thumbWork = IF j.file \in Pictures THEN "images"
                                 ELSE IF @ = "none" THEN "empty" ELSE @]

ScriptSucceeds(w) ==
    LET j == job[w] IN
    /\ pc[w] = "script" /\ CanSucceed(j)
    /\ disk' = [disk EXCEPT ![j.file] = WithScriptOutput(@, j)]
    /\ GoTo(w, "ok")
    /\ UNCHANGED <<faults, stale, failed>>

(* Exit code 0, with no output of the given prefix, or several: it is only *)
(* noticed for transcoding.                                                *)
ScriptMisnames(w) ==
    /\ pc[w] = "script" /\ job[w].op = "transcode"
    /\ GoTo(w, "misnamed")
    /\ Fault
    /\ UNCHANGED <<disk, stale, failed>>

ScriptFails(w) ==
    /\ pc[w] = "script"
    /\ GoTo(w, "error")
    /\ MarkFailed(job[w])
    /\ IF CanSucceed(job[w]) THEN Fault ELSE UNCHANGED faults
    /\ UNCHANGED <<disk, stale>>

\* Mutant: the work directory is removed before the output is moved.
CleanFirst(d, n) == [d EXCEPT !.work = None]

MoveOutput(d, n) == [d EXCEPT !.outputs = @ \cup {n}, !.work = @ \ {n}]

(* find_script_output: the output is moved to the media directory; when it *)
(* is not found the job ends, and the work directory stays.                *)
FindOutput(w) ==
    LET j == job[w]
        d == disk[j.file]
        found == /\ pc[w] = "ok" /\ d # None
                 /\ d.work # None /\ j.id \in d.work IN
    /\ pc[w] \in {"ok", "misnamed"} /\ j.op = "transcode"
    /\ IF found
       THEN /\ disk' = [disk EXCEPT ![j.file] = MoveOutput(d, j.id)]
            /\ GoTo(w, "moved")
       ELSE Report(w, Failure(j)) /\ UNCHANGED disk
    /\ UNCHANGED <<faults, stale, failed>>

MoveThumbs(d) ==
    IF d.thumbWork = "images"
    THEN [d EXCEPT !.thumbs = TRUE, !.thumbWork = "empty"] ELSE d

(* Thumbnails are moved to thumbs/, if there are any.                      *)
MoveImages(w) ==
    LET m == job[w].file IN
    /\ pc[w] = "ok" /\ job[w].op = "thumbs"
    /\ disk' = IF disk[m] = None THEN disk
               ELSE [disk EXCEPT ![m] = MoveThumbs(@)]
    /\ GoTo(w, "moved")
    /\ UNCHANGED <<faults, stale, failed>>

WithoutWorkDir(d, j) ==
    IF j.op = "transcode" THEN [d EXCEPT !.work = None]
    ELSE [d EXCEPT !.thumbWork = "none"]

(* The work directory is removed with all that is in it by now, be it of   *)
(* another job of the file, or of a later file of the same id.             *)
RemoveWorkDir(w) ==
    LET j == job[w] IN
    /\ pc[w] \in {"moved", "error"}
    /\ disk' = IF disk[j.file] = None THEN disk
               ELSE [disk EXCEPT ![j.file] = WithoutWorkDir(@, j)]
    /\ GoTo(w, IF pc[w] = "moved" THEN "done" ELSE "undone")
    /\ MarkStale(j)
    /\ UNCHANGED <<faults, failed>>

\* Mutant: a directory that holds but the log of the script will do.
HasThumbDir(d) == d # None

HasImages(d) == d # None /\ d.thumbs

(* Whether there are thumbnails is seen from the images in thumbs/, whose  *)
(* ever they are.                                                          *)
Answer(w) ==
    LET j == job[w]
        ok == pc[w] = "done" IN
    /\ pc[w] \in {"done", "undone"}
    /\ Report(w, [job |-> j, ok |-> ok,
                  thumbs |-> ok /\ j.op = "thumbs" /\ HasImages(disk[j.file])])
    /\ UNCHANGED <<disk, faults, stale, failed>>

WorkerStep(w) ==
    \/ Take(w) \/ MakeWorkDir(w)
    \/ ScriptSucceeds(w) \/ ScriptMisnames(w) \/ ScriptFails(w)
    \/ FindOutput(w) \/ MoveImages(w) \/ RemoveWorkDir(w) \/ Answer(w)

-----------------------------------------------------------------------------
(* The pipeline thread: results of the scripts.                            *)

(* Which of the statements of a handler fail.                              *)
DbFails(statements, bad) ==
    /\ bad \subseteq statements
    /\ faults' = faults + Cardinality(bad)
    /\ faults' <= MaxFaults

\* Mutant: where there is no row, one is inserted, without all its columns.
UpdateOrInsert(table, m, row) ==
    [table EXCEPT ![m] =
        IF table[m] = None
        THEN [added |-> 0, recomp |-> FALSE, done |-> FALSE] ELSE row]

(* An UPDATE of the row of m, if there is one.                             *)
Update(table, m, row) ==
    IF table[m] = None THEN table ELSE [table EXCEPT ![m] = row]

(* TranscodeSuccess: the directory is created when missing; symlink fails  *)
(* when video.mp4 exists, and then the row is left alone.                  *)
HandleTranscoded ==
    LET j == Head(results).job
        m == j.file
        d == Made(m)
        linked == d.link = None IN
    /\ results # <<>> /\ j.op = "transcode" /\ Head(results).ok
    /\ results' = Tail(results)
    /\ disk' = [disk EXCEPT ![m] = IF linked THEN [d EXCEPT !.link = j.id] ELSE d]
    /\ \E bad \in SUBSET {"recomp"} :
        /\ DbFails({"recomp"}, bad)
        /\ rows' = IF linked /\ bad = {}
                   THEN Update(rows, m, [rows[m] EXCEPT !.recomp = TRUE])
                   ELSE rows
    /\ MarkStale(j)
    /\ UNCHANGED <<poolVars, legacy, trashing, ingests, failed, broken>>

(* ThumbsSuccess: has_thumbnail and the dimensions are set when there are  *)
(* images, the next legacy file is looked for, and thumbs_done is set last *)
(* unless one of the first two statements failed.                          *)
Statements == {"has", "dims", "next", "done"}

WithThumbs(row, bad) ==
    [row EXCEPT !.has = @ \/ "has" \notin bad,
                !.sheet = @ \/ "dims" \notin bad]

ContinuesChain(r, bad) ==
    r.thumbs /\ "dims" \notin bad /\ legacy = r.job.file

\* Mutant: errors of the statements before are forgotten.
MarksDoneAnyway(r, bad) == "done" \notin bad

MarksDone(r, bad) ==
    /\ r.thumbs => {"has", "dims"} \cap bad = {}
    /\ "done" \notin bad

HandleThumbs ==
    LET r == Head(results)
        m == r.job.file IN
    /\ results # <<>> /\ r.job.op = "thumbs" /\ r.ok
    /\ results' = Tail(results)
    /\ \E bad \in SUBSET Statements :
        LET shown == IF r.thumbs THEN Update(rows, m, WithThumbs(rows[m], bad))
                     ELSE rows
            next == IF "next" \in bad THEN None ELSE NextLegacy(shown) IN
        /\ DbFails(Statements, bad)
        /\ IF ContinuesChain(r, bad)
           THEN /\ legacy' = next
                /\ queue' = queue \o Queued(shown, next)
                /\ broken' = (next = None /\ Missing(shown) # {})
           ELSE /\ broken' = (broken \/ legacy = m)
                /\ UNCHANGED <<legacy, queue>>
        /\ rows' = IF MarksDone(r, bad)
                   THEN Update(shown, m, [shown[m] EXCEPT !.done = TRUE])
                   ELSE shown
        /\ failed' = IF MarksDone(r, bad) THEN failed ELSE failed \cup {m}
    /\ MarkStale(r.job)
    /\ UNCHANGED <<disk, pc, job, trashing, ingests>>

(* TranscodeFailure, ThumbsFailure: the user gets a message.               *)
HandleFailure ==
    LET j == Head(results).job IN
    /\ results # <<>> /\ ~Head(results).ok
    /\ results' = Tail(results)
    /\ broken' = (broken \/ (j.op = "thumbs" /\ legacy = j.file))
    /\ UNCHANGED <<rows, disk, poolVars, legacy, trashing, boundVars, stale,
                   failed>>

HandleResult == HandleTranscoded \/ HandleThumbs \/ HandleFailure

Next ==
    \/ \E m \in Files : Ingest(m) \/ DeleteRow(m) \/ MoveToTrash(m)
    \/ \E w \in Workers : WorkerStep(w)
    \/ HandleResult
    \/ Crash

Spec == Init /\ [][Next]_vars

(* Workers and the pipeline thread go on while they have work; scripts are *)
(* taken to end.                                                           *)
FairSpec ==
    Spec /\ WF_vars(HandleResult) /\ \A w \in Workers : WF_vars(WorkerStep(w))

-----------------------------------------------------------------------------
(* Properties.                                                             *)

Locations == {"idle", "mkdir", "script", "ok", "misnamed", "error",
              "moved", "done", "undone"}

TypeOK ==
    /\ rows \in [Files -> Rows \cup {None}]
    /\ disk \in [Files -> Dirs \cup {None}]
    /\ queue \in Seq(Jobs)
    /\ results \in Seq(Results)
    /\ pc \in [Workers -> Locations]
    /\ job \in [Workers -> Jobs \cup {None}]
    /\ legacy \in Files \cup {None}
    /\ trashing \subseteq Files
    /\ ingests \in Ids /\ faults \in 0 .. MaxFaults
    /\ stale \subseteq Files /\ failed \subseteq Files /\ broken \in BOOLEAN

(* The server plays video.mp4 of a row with recompression_done: it leads   *)
(* to a transcoded file in the same directory, whatever was deleted,       *)
(* retried or lost by crashes, unless a result, a deletion or the end of a *)
(* job meant for an earlier file of the same id has hit this one.          *)
RecompressedPlays ==
    \A m \in Files \ stale :
        rows[m] # None /\ rows[m].recomp =>
            disk[m] # None /\ disk[m].link \in disk[m].outputs

(* A row says it has thumbnails only while thumbs/ holds some, although    *)
(* several jobs of the file may share, move and remove the same work       *)
(* directory.                                                              *)
ThumbsShownExist ==
    \A m \in Files \ stale :
        rows[m] # None /\ rows[m].has => disk[m] # None /\ disk[m].thumbs

(* thumbs_done is never undone and keeps a file from being thumbnailed     *)
(* again: it is not set on a picture that got no thumbnails, unless one of *)
(* the file's thumbnailings failed.                                        *)
DoneIsComplete ==
    \A m \in Files \ (stale \cup failed) :
        rows[m] # None /\ rows[m].done =>
            rows[m].has = (m \in Pictures) /\ rows[m].sheet = rows[m].has

(* Every file without thumbs_done gets it, if it is not deleted, none of   *)
(* its jobs failed, and the chain of legacy files did not stop early.      *)
ThumbsSettle ==
    \A m \in Files :
        m \in Missing(rows) ~> m \notin Missing(rows) \/ m \in failed \/ broken

(* "find next file to thumbnail": the file the chain goes on with is       *)
(* another one than the file whose thumbnails were just made.              *)
NextIsAnother ==
    [][HandleResult /\ Len(queue') > Len(queue) =>
           queue'[Len(queue')].file # legacy]_vars
=============================================================================
