# Clapshot: TLA+ models and proofs

Clapshot is a self-hosted review tool for video, audio and images. A Rust
server keeps media files and comments and serves browser clients (Svelte) over
WebSockets; a Python "organizer" plugin, reached over gRPC, arranges files in
folders and answers authorization questions. This directory holds TLA+ models
of the parts whose correctness depends on the order of events, the TLC
configurations that check them, and proofs checked by TLAPS.

Paths below are relative to the repository; `api_server/`, `video_pipeline/`,
`database/` and `grpc/` are under `server/src/`.

## 1. The system

### Components

| component | where | state | operations |
|---|---|---|---|
| session registry | `api_server/server_state.rs`, `mod.rs`, `user_session.rs` | five maps from a key to senders or sessions, guards that undo an entry when dropped | connect, log in, link to a media file, join and leave a collab, close |
| collaborative viewing | `server_state.rs`, `ws_handers.rs` 562-660 | file of each collab, participants | join, leave, relay play/pause/seek reports |
| media ingestion | `video_pipeline/{incoming_monitor,metadata_reader,mod,cleanup_rejected}.rs`, `api_server/file_upload.rs` | `incoming/`, `upload/`, `videos/<id>/`, `rejected/`, table `media_files`, channels, submission times | poll, submit, read metadata, move, insert, reject |
| transcoding, thumbnailing | `video_pipeline/{script_processor,mod}.rs` | job channel, thread pool, flags in `media_files`, symlinks | run script, take result, pick the next legacy file |
| media file deletion, renaming | `ws_handers.rs` 159-248 | row, directory, trash | delete, rename |
| comments | `ws_handers.rs` 251-380, `database/custom_ops.rs`, client `App.svelte` | table `comments`, drawings, each client's list | open, add, edit, delete, broadcast |
| subtitles | `ws_handers.rs` 383-546 | table `subtitles`, `subs/`, `subs/orig/`, default subtitle of a file | add, edit, delete |
| messages | `server_state.rs` 130-145, `api_server/mod.rs` 586-670, `ws_handers.rs` 548-559 | table `messages` with a `seen` flag | notify, relay, list |
| database, migrations | `database/`, `lib.rs` | SQLite file with WAL, versions of the modules, backups | solve, back up, apply, restore |
| gRPC | `grpc/`, `lib.rs`, `api_server/mod.rs` 440-480 | flags `organizer_has_connected`, `listening` | handshake, authorization, the organizer's calls |
| start and end | `main.rs`, `lib.rs` | `terminate_flag`, threads | start, join, terminate |
| organizer: folders | `organizer/basic_folders/organizer/{folder_op_methods,user_session_methods}.py`, `helpers/` | tables of folders, folder items, shares; the viewer tracker | navigate, move, reorder, create, rename, share, trash |
| organizer: authorization, metaplugins, migrations | `authz_methods.py`, `metaplugin/`, `migration_methods.py` | none that lasts, own schema | answer, hook, migrate |
| client | `client/src/App.svelte`, `lib/` | socket, history, stores, player | reconnect, show, play together, import and export |

### How they interact

* Each WebSocket has a tokio task (`handle_ws_session`) that handles one
  command at a time, and an unbounded channel to its client. Everyone else
  reaches a session through a *clone of its sender*, kept in maps of the
  `ServerState` under parking_lot locks.
* The organizer is *asked* (authorization, navigation) by session tasks, which
  await the answer, and *calls* the server from gRPC tasks of its own
  (`client_open_media_file`, `client_show_page`, `db_*`).
* The pipeline is a set of threads joined by crossbeam channels: monitor and
  upload handler -> metadata reader (thread pool, answers in any order) ->
  pipeline thread -> script processor (thread pool) -> pipeline thread -> user
  messages -> relay task -> sessions.
* Pipeline, session tasks and the organizer share the database and the
  directories below `data_dir`, without a lock on either.

### What is hard

Guards: entries of shared lists live as long as an object in someone's hands,
and the order in which such objects are dropped matters. Locks released
between two lookups. Awaits between a check and its use (authorization,
drawings). Check-then-act on files by threads that know nothing of each other.
A crash between a file operation and the row that records it. Resubmission of
a path whose first job is still running. Broadcasts that overtake a snapshot.
`PROJECT.json` lists these as hazards, each at its line.

### What correctness means, per component

* **Registry**: nobody stays listed who cannot be reached; a list holds a
  session exactly while the session thinks so; a session that goes away gets the
  locks it needs for that.
* **Collabs**: everyone in a collab watches the file its creator brought; this
  file does not change while somebody is in it.
* **Ingestion**: a file handed in is never lost; a row has its file; `incoming/`
  is emptied; what fails is found in `rejected/`.
* **Jobs**: a row promises no video and no thumbnails that are not there; every
  file is thumbnailed in the end, unless a job failed; nothing is marked as done
  half-way.
* **Comments**: when messages have settled, every viewer sees what the database
  holds.
* **Subtitles**: row and files come and go together; a failure can be retried.
* **Messages**: a message reaches its user at least once, or stays unseen.
* **Migrations**: the solver finds a shortest order that respects all ranges,
  when there is one; a failed migration leaves the database as it was; the
  database from before is never lost.
* **Folders**: what lies in a folder belongs to the folder's owner; everything of
  a user can be found from the root folder; others' items are left alone.

## 2. Plan

| order | module | about | state |
|---|---|---|---|
| 1 | `Sessions`, `CollabRoom` | registry and collabs; the rooms they implement | modelled, checked, proved |
| 2 | `MediaIngest` | files, rows and crashes | modelled, checked, proved |
| 3 | `CommentSync` | snapshot, broadcasts and the clients' lists | modelled, checked, proved |
| 4 | `MediaJobs` | transcoding, thumbnails, legacy files, results after deletion | modelled, checked, proved |
| 5 | `Migrations` | the solver against a reference definition; apply, back up, restore, crash | modelled, checked, proved |
| 6 | `Folders` | tree, moves, ownership, trash, repair at start | modelled, checked, proved |
| 7 | `Inductions` | induction and recursion over finite sets and numbers, for the proofs of 5 and 6 | proved |
| - | subtitles, notifications, relayed playback, threads at start and end | smaller machines | not modelled (see 6) |

Each module stands for itself, but for `CollabRoom`, the abstract specification
that `Sessions` implements. What two modules share is abstracted in one of them:
ingestion is one step in `MediaJobs` and many in `MediaIngest`, linking a
session to a file is one in `CommentSync` and many in `Sessions`, deleting a
file is one in `Folders`.

## 3. Modules

### Sessions

The registry. State: `userSenders`, `sidMap`, `viewers`
(`media_file_id_to_senders`), `collabSenders` (`collab_id_to_senders`) and
`collabMedia` (`collab_id_to_media_file_id`). A list of senders is the number of
copies of each session's sender, because dropping a guard removes every copy of
one sender and keeps the others. `sidMap` is behind a read-write lock that does not
let readers in while a writer waits: `sidLock` is the writer that has it or waits
for it, `sidReaders` are those who keep a read guard. `mediaGuard` is the guard in the *registered
clone* of a `UserSession`; `collabGuard` and `curCollab` are in the *task's own*
`UserSession`: they are two objects, and die at different moments. Only what is
held across other critical sections is a variable (`sidLock`, `sidReaders`,
`mapLock`); the lists' own locks are held within one step, so that the models say
nothing of how they are nested.

| code | actions |
|---|---|
| `handle_ws_session`, `register_user_session` | `RegisterUser`, `RegisterSid`, `LoginAccepted`, `LoginRefused` |
| `send_open_media_file_cmd`, `client_open_media_file`, `link_session_to_media_file` | `OpenMediaFile`, `ClientOpenMediaFile`, `LinkAdd`, `LinkNotFound`, `LinkDropOld` |
| `msg_join_collab`, `link_session_to_collab` and its garbage collection | `JoinCollab`, `JoinAuthorized`, `JoinDenied`, `JoinGC`, `JoinClaim`, `JoinMismatch`, `JoinPush` |
| `msg_leave_collab` | `LeaveCollab` |
| `client_show_user_message` for a session: `get_session`, `send_to_user_session` | `NotifySession`, `NotifySend` |
| a writer of `sid_to_session` that finds readers | `SidWaits` |
| drops at the end of `handle_ws_session`, in reverse order of declaration | `Disconnect`, `CloseUser`, `CloseSid`, `CloseMedia`, `CloseCollab`, `CloseRx` |

A member of `Sessions` is a slot that connects again after it has closed, with
nothing left of its former life but what the registry forgot to remove. Left
out: what is sent (only whether sending fails matters here) and the organizer's
own session.

### CollabRoom

What a client may assume of collabs: joining and leaving are atomic, a room
shows one file to everyone in it. `Sessions` implements it by the mapping
`members <- participants`, `shown <- the map's entry, unless the list is empty`.

### MediaIngest

Files on their way from `incoming/` or an upload to the library, `rejected/` or
the trash. A step is a system call on the file system or a statement on the
database; `Crash` may come between any two and keeps files and rows only.

| code | actions |
|---|---|
| users | `Drop`, `Upload`, `DeleteStart` |
| `handle_multipart_upload` | `Upload`, `AnnounceUpload` |
| `incoming_monitor::run_forever` | `Submit`, `Expire`, `MonitorPick`, `MonitorMove` |
| `metadata_reader::run_forever` | `Scan` |
| `ingest_media_file` and its caller | `TakeResult`, `CheckDir`, `LookupRow`, `WipeDir`, `CreateDir`, `MoveSource`, `UnlinkSource`, `InsertRow`, `Ingested`, `IngestFails`, `PipePick`, `PipeMove` |
| `clean_up_rejected_file` | `RejectDest`, `MoveToRejected` (used by both threads) |
| `del_media_file_and_cleanup` | `DeleteStart`, `DeleteDenied`, `DeleteRow`, `MoveToTrash` |

`Files` are told apart by all of their contents, owner and cookies; what the code
sees of them are three constants. `MediaId` is what `calc_media_file_id` gives for
a file and a user. It hashes the name, the user, the size, the cookies and the
first 32 KiB, and keeps 32 bits: any function from files and users to ids is
allowed, and files that `Bears` the same id are treated as one by the code.
`SizeOf` is the size, which the clean-up compares (`RejectDest`: what has the same
size is "probably the same" and is removed) and of which the monitor skips 0, 1
and 4096 bytes (`Considered`). `OwnerOf` may be `None`, for a file whose owner the
operating system cannot name. Paths `Elsewhere` are on another file system: ingestion
copies from there, while a move to `rejected/` always fails (`CannotMove`); from
elsewhere it fails `MaxFaults` times (`CleanUpFails`), and the file stays where it
is, to be submitted again. `LeftOver` is what an earlier life has put at
`rejected/<name>`.

What the properties except is kept in histories: `doomed`, ids that were inserted
while an earlier deletion was about to move their directory, and `exposed`, files
that one thread has put into `rejected/` while the other had looked there and not yet
moved. `NothingLost` speaks of *families*, sets of files closed under sharing an id:
one of a family is kept, unless one of it is exposed. With ids that tell files apart
these are single files. `IncomingIsEmptied` lets a file stay that the monitor skips
(`Considered`) or that the clean-up refuses to put beside one of its id and another
size (`Refused`), and leaves paths `Elsewhere` out.

Abstractions, each of them an assumption of the results:

* All files have one name, so that they compete for `rejected/<name>`. Names
  that differ never meet.
* Users put files only where there is none; a file does not change while it
  lies there. The monitor's test that the size is stable is therefore
  nondeterminism (a file may be submitted or not yet).
* The metadata reader's hard link in a temporary directory is not modelled.
* A copy across file systems is whole when it becomes visible.

### CommentSync

Comments on their way from a command to the lists the clients show. A step is
one statement on the database or one message sent to a channel (a broadcast to
all viewers is one step: it runs under the lock of the list of viewers). A
session serves one command at a time; other sessions' commands, and files the
organizer opens from its own tasks, run in between.

| code | actions |
|---|---|
| `msg_open_media_file`, `client_open_media_file`, `send_open_media_file_cmd` | `OpenMediaFile`, `Link`, `SendOpen`, `OpenFails`, `ReadSnapshot`, `SendSnapshot` |
| `msg_add_comment`, `emit_new_comment` | `AddComment`, `Insert`, `InsertFails`, `Announce` |
| `msg_edit_comment` | `EditComment`, `Edit`, `Retract`, `Reread`, `RereadFails`, `Announce` |
| `msg_del_comment` | `DelComment`, `NoReplies`, `RefuseDelete`, `Delete`, `AnnounceDel` |
| pipeline | `Transcoded` (a file gets its `playback_url`) |
| client, `App.svelte` | `Receive`, `ClosePlayer`, `Reconnect` |

A comment's contents are the number of its version; `copy` holds what a task
has read and not yet sent, which is what makes an answer stale. Abstractions:
statements and drawings do not fail; authorization and lookups that refuse a
command leave no trace and are not modelled; a client adds comments to the file
it shows, and replies to comments of the same file only (the server tests neither);
media files are not deleted;
linking a session to a file is one step here and several in `Sessions`, as is
closing and connecting again.

`NothingMissing` and `ViewsAgree` speak of clients that show the file they are
listed as viewers of. A client that closes the player is *not* taken off the
list (`closePlayerIfOpen` sends `leaveCollab` only), so that opening the same
file again is an ordinary way into the defect of `sessions_reopen`. `ViewsAgree`
also leaves out the comments in `raced`: those edited or deleted while another
task had read them and not yet sent them. They may stay on a client, or come
back, until the file is opened again.

### MediaJobs

What becomes of a media file after its ingestion: jobs in a channel (`queue`),
workers of a thread pool, results in another channel, and the pipeline thread
that links outputs and updates rows. `legacy` is
`legacy_media_file_now_thumnailing`; `rows` and `disk` are what survives a crash.

| code | actions |
|---|---|
| `ingest_media_file` (one step), `del_media_file_and_cleanup` | `Ingest`, `DeleteRow`, `MoveToTrash` |
| `script_processor::run_forever` | `Take` |
| `run_transcode_script`, `run_thumbnail_script` | `MakeWorkDir`, `ScriptSucceeds`, `ScriptMisnames`, `ScriptFails`, `FindOutput`, `MoveImages`, `RemoveWorkDir`, `Answer` |
| results in `video_pipeline::run_forever` | `HandleTranscoded`, `HandleThumbs`, `HandleFailure` |
| start of `video_pipeline::run_forever` after a crash | `Crash` (`NextLegacy`, `Queued`) |

Jobs of one file share its work directories: the first to end removes them
under the other. Moving what a script has made, removing the work directory and
answering are steps of their own, so that workers meet between any two of them;
looking whether there are images and sending the answer is one step. A number names an ingestion, and with it the outputs of its
jobs, so that a result can be told from one of a file that was deleted and
ingested again with the same media id. Which of a handler's statements fail is
any subset (`DbFails`); each counts as a fault. What the scripts write is
abstracted to what the server looks for: an output of the right prefix, images
or none. A flag that is NULL and one that is FALSE are one, as nothing here tells
them apart. The sanitized links and progress pipes have unique names and are left
out. The histories `stale`, `failed` and `broken` are what the properties make an
exception for: a file hit by a result, a deletion or the end of a job of its
predecessor, by a failed thumbnailing (marked when it fails), or behind a chain of legacy files that stopped early.

### Migrations

Starts of server and organizer with the one database they share. `Solve` is
`solve_migration_graph`: it puts the oldest migrations first (`OldestFirst`) and
searches depth first (`Search`, one call of the recursion, given those it makes).
`Orders` and `GoodOrders` say what it is to find without any search.

| code | actions |
|---|---|
| `init_and_spawn_workers` up to the migration (`lib.rs`) | `Start` |
| `migrate_db`, `solve_migration_graph`, the organizer's `check_migrations` | `MakePlan`, `PlanFails` |
| `backup_sqlite_database` | `BackUp`, `WriteBackUp` (`Archived`) |
| the clock, by which archives are named | `Tick` |
| applying on either side, foreign keys off and on | `Apply`, `ApplyFails`, `Verify` |
| `restore_sqlite_database` | `Overwrite`, `Unpack` |
| operator, power | `Start`, `Stop`, `Crash` |

The database file is abstracted to the migrations it has seen; versions are
numbers, as they are only compared. Archives are named by the second and opened
with a truncating `File::create`: `newest` is the archive of the present second,
broken (`Torn`) until it is written, and `backups` are those of the seconds before;
`replaced` is the history of archives truncated by a second start within one
second. The clock is taken never to be set back. Creating, writing, opening and
unpacking an archive may each fail; `unrestored` is the history of attempts at
migrating that ended by a crash or by a restore that failed. Assumed is that a
backup that returned can be read (but for a restore that fails), and that a `-wal`
file not in the archive does not change what a restored file holds: a `-wal` file
left behind by a crash is counted as part of the file. An organizer's migration may ask for any range of
versions of the server and of itself, provided that it leads up from an older
version of itself (`LeadsUp`), as all do that `organizer/database/migrations.py`
declares.

### Folders

The organizer's tables of folders and files. `trash` holds the files of a
`trash_folder` command that the server has not yet been asked to delete.

| code | actions |
|---|---|
| `navigate_page`, `construct_navi_page`, `db_get_or_create_user_root_folder` | `Visit`, `VisitOwn` |
| `new_folder`, `move_to_folder`, `_recursive_set_folder_owner` | `NewFolder`, `Move` |
| `trash_folder`, its deletions through the server | `Trash`, `TrashFile`, `TrashFileFails` |
| `cleanup_user`, `cleanup_users` | `CleanupUser`, `CleanupUsers` |
| server: users, ingestion, deletion | `Login`, `Ingest`, `Delete` |
| integrity tests of the handshake, `db_check_for_folder_loops` | `Restart` |

The organizer runs one event loop, and only trashing awaits something between
two changes; all other handlers are one step. (A visit awaits the server between
repairs of the user's folders; each of them has the same result whenever it is
done, so that a visit is one step as well.) Users act on listings that may be
old, so a command may name any folder or file there is. Left out: titles, sort
orders, shares, page layout, and who is told of a change.

## 4. Runs

| run | instance | shows |
|---|---|---|
| `sessions` | 2 sessions, 1 organizer task, 2 files, 3 collabs, symmetry; 273,288 states | the invariants and action properties of the registry; `Sessions` implements `CollabRoom` |
| `sessions_reopen` | 1 session | a counterexample: re-opening a file unsubscribes (see 7) |
| `sessions_deadlock` | 1 session, 1 organizer task | a counterexample: a session that closes waits for ever (see 7) |
| `ingest` | 1 path in `incoming/` and an upload from another file system, 3 files, two of them with one id and one without an owner's name, 2 jobs, 1 deletion at a time, 3 files handed in, 1 crash; 1,481,267 states | no family of files is lost, rows have their files |
| `ingest_live` | 1 path, 4 files: some of one id and different sizes, one of 1 byte; `rejected/<name>` is taken; 3 handed in, 1 failing move; 72,112 states | `incoming/` is emptied, also by the branches of the clean-up that remove or refuse |
| `ingest_failed` | 1 file | a counterexample: a failed file is not in `rejected/` (see 7) |
| `comments` | 2 clients, 2 files, 1 comment at the start, 2 in all, 1 edit, 4 commands; 1,735,649 states | views agree with the database once all is settled |
| `comments_replies` | 2 clients, 1 file | a counterexample: a reply is deleted with its parent (see 7) |
| `jobs` | a legacy file with a transcoded video, an audio file, one ingestion of either, 2 workers, 1 fault; 307,947 states | rows promise only what is there, nothing is marked done half-way, thumbnails get made |
| `jobs_next` | 2 legacy files, 1 worker, no fault | a counterexample: the chain goes on with the same file (see 7) |
| `migrations` | server releases with 2 migrations, organizers with up to 2, each for any range of server versions within 0..2, 2 faults; 148,997 states | the solver is right; failures and crashes lose nothing; migrations get done |
| `folders` | a user and an admin, 2 files, at first nested folders or nobody, 3 commands; 23,130 states | ownership follows folders, pages show all, files can be found |

**Bounds.** Two sessions and an organizer task are what every race of the
registry needs: two who hold or want the same list, and a third who links one
of them from outside; three collabs are one more than the sessions, so that
`CollabMapBounded` could fail. In `MediaIngest`, `Jobs` bounds
the queue of the metadata reader: two jobs for one path are a resubmission.
`MaxGiven` = 3 allows a file to be handed in again after it was ingested, deleted
or rejected, and its twin besides; one crash suffices for a restart at any point,
since nothing but files and rows survives. Sizes that differ, a name taken in
`rejected/` and a refused move are in `ingest_live`. In `comments` both clients may open the file (two
commands) and have two more: an edit against a deletion, two additions, a reply
against a deletion, or another open.

Two workers in `jobs` are two jobs of one file in the same directory; the
ingested file may be deleted while they run, and a fault is a crash, or a script
or a statement that fails at any point. One fault keeps the liveness property
within minutes; that the invariants hold for any number of them is proved (with
`MaxFaults = 2`, without the liveness property, TLC finds the same in 704,444
states). Two migrations on each side are enough for an order that is neither
"server first" nor "organizer first" and for one that does not exist. In `folders`,
three commands suffice to move a folder into its own subfolder and act on the loop,
and a move of two items stops after the first.

In `migrations`, two faults are a crash that leaves a partly migrated file and a
failure in the start after it, or a failing step and the failing restore.

The sessions run says `CHECK_DEADLOCK FALSE` because the code does deadlock (see 7);
that it stops nowhere else is not claimed. Where another cfg says so, a bound (`MaxGiven`, `MaxCrashes`,
`MaxCommands`, `MaxIngests`, `MaxFaults`) is used up in the end, and then nothing
is left to do.

**Symmetry** is used only in runs without liveness properties, over sets whose
members no definition distinguishes.

**Fairness.** In `Sessions` (for `sessions_deadlock`), strong fairness of the steps
that wait for nothing but a lock: tokio runs a task that is ready, and parking_lot's
locks are task-fair (a thread that waits is served in the end even if others take
the lock again and again). No fairness is assumed of clients and of the organizer's
next call. In
`MediaIngest`, the monitor's loop looks at every file in each round (`Submit`,
`MonitorPick` strongly fair, because a full queue or the other thread's clean-up
may disable them in between; `Expire` weakly), channels are served in order
(`TakeResult` strongly fair: the pipeline thread is busy now and then), and the
thread that treats a result goes on. Uploads are not owed an announcement. In
`MediaJobs`, workers and the pipeline thread go on while they have work; scripts
are taken to end (the code does not limit their time). In `Migrations`, the
steps of a start follow on each other, and the operator goes on to start the
server with the option to migrate (`Start(TRUE)` strongly fair). In `Folders`,
users come back to their pages, the event loop goes on with a trashing it has
begun, and the organizer is restarted now and then (strongly fair): only a
restart breaks loops of folders.

## 5. Proofs

Every invariant and every action property that a passing run checks is also a
theorem, for all values of the constants, and so is the refinement of
`CollabRoom`. What the theorems assume of constants are the `ASSUME`s of the
modules, which TLC evaluates in the runs: that `None` and `Torn` are no values of
another kind and bounds are numbers; in `Migrations`, `LeadsUp` and that an
organizer has finitely many migrations; in `Folders`, that there are finitely many
users, that admins are users and that the database is sound at first. One theorem
assumes more, and says so: `CollabMapIsBounded` (finitely many connections).

`SessionsProofs` proves, for any sets of sessions, organizer tasks, files and
collabs (with `ConstantsAssumption`: the sets are disjoint where the code has
different kinds of things, and `None` is none of them), that `IInv` is
inductive:

* `TypeOK`;
* `LocksHeld`: who holds or claims `sidLock`, or holds `mapLock`, is at a location
  that says so, and within a critical section its lock is held;
* `CommandsPresent`: a task in the midst of a command has its arguments;
* `Presence`: where a session's task is, determines whether it may be in
  `userSenders` and `sidMap`;
* `Membership`: `ParticipatesWhereItThinks`, the agreement of `collabGuard`,
  `curCollab`, `joinMedia` and the file map, and that the entry claimed under
  `mapLock` is there until the push;
* `Viewing`: a list holds a sender once if the guard says so, one more copy of
  it while its session is being linked, and none of a session not in `sidMap`.

The strengthening is needed because none of the safety properties says where
the locks are: `CollabAgreesOnMedia` is preserved by `JoinGC` only since nobody
is then between claim and push, and `NoDeadSenders` only since `CloseMedia` and
`CloseCollab` come before `CloseRx` and nobody can link a session out of the map.
From `IInv` follow `TypeCorrect`, `CollabsAgree`, `SendersAlive`,
`ListedWhereItThinks`, `NothingStale`, the action properties `MediaFixed` and
`FreshOpens`, and the refinement `RefinesRooms`: `JoinPush` is a `Join`, a leave,
rejoin or close is a `Leave` or a stutter, and `JoinGC` and `JoinClaim` are
hidden, because an empty collab shows nothing whatever the map holds.

`CollabMapIsBounded` counts, by an argument of its own (`Charged`): each entry of
the file map can be charged to a session, no two to the same, and none to a
session that has collected and not yet claimed. A collection charges the entries
left anew, to somebody in each collab; the one who collected is in none, so that
its claim can be charged to itself.

`MediaIngestProofs` proves, for any paths, uploads, files, users, owners, sizes and
ids, jobs and deletions, and any bounds on files handed in, crashes and faults:

* `TypeCorrect`, by `Typed`: the pipeline thread and the deletions have their
  arguments while they are busy, and an upload that was not announced is where
  it was stored, at a path nobody else knows.
* `RowsHaveFiles`, by `RowsGuarded`: `WipeDir` is the step that could take a
  row's file away, and is reached only when `LookupRow` saw no row, which nobody
  but the pipeline thread inserts; and a deletion that waits to move the
  directory has removed the row, or its file is in `doomed`.
* `FilesAreKept`, by `Whereabouts`, whatever ids, sizes and owners there are. A
  place named after an id, in `videos/` or `rejected/`, holds nothing or a file of
  that id's family (`BornBy`), and so does the pipeline thread's source once its id
  has been computed; before a directory is wiped or a source removed, a file of the
  family is somewhere else (`KeptApart`, in `FamilyIsKept`). Only a directory just
  made is moved into (`DirIsFree`), and the place a thread has chosen in `rejected/`
  is still free when it moves its file there, or what lies there is exposed
  (`PlaceIsFree`). Owners play a part only in who cleans up: of files with nameless
  ones the monitor does, too, and the two threads may choose one place, which is
  what `exposed` is for.

`CommentSyncProofs` proves, for any clients, organizer calls, files and bounds:

* `TypeCorrect`, by `Typed`: a task has its arguments while it serves a command,
  ids of rows were given by the database, and a text has no more versions than
  there were edits, those under way aside (`EditsCounted`).
* `NothingMissed`. The property speaks of settled states; `Coming` says what
  holds while messages are on their way: if a client, once it has handled its
  inbox, will show the file it is listed for (`Due`), then each comment of this
  file is in its list at the end (`WillHave`) or some task is about to send it
  (`Pending`). It needs `Playing`: only files that can be played are ever shown,
  so that an open that fails has not changed what the client shows.

`CommentViewsProofs` goes on from there to `ViewsInAgreement`, by `AgreeInv`:

* `Kept`: what a task has read and not yet sent is of the file it serves, and is
  still what the database holds, unless the comment is raced;
* `Filed`: clients show comments of the file they show, and are sent comments
  together with the file they belong to;
* `Timely`: where a listed client is going to show an old version of a comment
  (`Off`), some task is about to make it forget that comment (`Correcting`). In a
  settled state no such task is left, so that no old version is left either.

`MediaJobsProofs` proves, for any files, workers and bounds, from
`ConstantsAssumption` (legacy files are files, and `None` is nothing else):

* `TypeCorrect`, by `Typed`: a worker that is busy has a job.
* `RecompressedPlayable` and `ThumbsAreThere`, by `SafetyInv`: a new ingestion has
  a greater number than any row, job or result (`IdsPast`), so that a result of
  an earlier file is told from one of this file; and what a result of this file
  promises is on the disk until it is handled (`Delivered`), because all steps
  but the deletion of a directory only add to it (`Grows`).
* `ThumbsDoneIsRight` (`DoneIsComplete`), by `DoneInv`: when a script ended well
  for a picture as it is now ingested, none of whose thumbnailings has failed,
  then its images are in the work directory or in `thumbs/` until its worker has
  moved them, and in `thumbs/` afterwards (`WorkersRight`). Another worker that
  removes the shared work directory has moved images itself before, or has
  failed, or belongs to an earlier file; the last two are what the property
  excepts. So whoever answers finds images, and a success without thumbnails is
  one of no picture (`ResultsRight`).

`Inductions` states induction and recursion with sets and functions in the place
of predicates and operators, so that the provers can instantiate them: induction
on numbers and on subsets of a finite set, recursions from n to n + 1, over the
subsets of a set, and along any measure that decreases (`HeightRecursion`). TLA+
defines a recursive function, or a fold, as *some* function that satisfies its
equation; these lemmas show that there is one.

`MigrationsProofs` proves, for any releases and organizers:

* `OriginalKept`, by `ArchivedBefore`: from the backup to the end of an attempt,
  what would be unpacked is in an archive still there, and so is the content from
  before the first attempt, or an archive of it was truncated by a later start of
  the same second (`replaced`). A start that fails at its backup has changed nothing
  in the file.
* `RollsBack`, by `WorksFromOriginal`: until a crash or a failing restore, the
  archive made by a start holds the original, since every failed start before has
  put it back.
* `ShortestOrderFound` (`SolverIsRight`). The search has a solution as a recursion,
  for a migration put on a path is one less to come (`SearchDescends`). By
  induction on the number left, what a call returns is a good order or the best
  it was given; it is never longer than that one, nor than any good order that
  begins with the call's path (`FindsFrom`). Sorting loses no migration
  (`OldestFirstSorts`), and the solver filters out none of the pending ones
  (`PendingAre`).
* `TypeCorrect`, `MigratedWhenServing` (`ServesMigrated`) and `InOrder`
  (`AppliedInOrder`), by `MigrationsInv`: from planning on there is a file;
  while there is a start that migrates, or a torn file, the content from before
  is known; and what is left of the plan can be applied in turn to what is in
  the file and ends at the latest versions (`Planned`). That the versions of the
  database are those the solver computes with (`MigratedIs`) needs that no module
  goes back on a path (`PathRises`). For organizers this is what `LeadsUp` is
  assumed for: the database's version is the highest it has seen, the solver's
  the last it has applied.

`FoldersProofs` proves, for any users, files, databases and commands:

* `TypeCorrect` and `OwnersInAgreement`, which together are inductive: a table
  stays one whose rows have their owners and parents (`Typed`), and whatever
  lies in a folder has its owner (`Agreeing`). There is a lemma for each operation
  on the database. Ancestors (`Above`) are the least set that is closed under
  parents (`AboveClosed`, `AboveLeast`), whatever loops there are; this is all that
  the others use. Moving several items and making root folders for several users
  are folds, and keep what each of their steps keeps.
* `OthersUntouched`, by `Keeps`: what a handler changes belongs to its user. A
  folder's owner owns all below it (`BelowOwner`), so that what a move or a
  trashing reaches is the mover's own.
* `PagesComplete`: who follows parents and meets no loop comes to a root
  (`ComesToRoot`; otherwise, among the sets of ancestors on the way, take a
  smallest one), and after the lookup there is one root only.
* `RestartUndoesLoops` and `PageFindsFiles`, what the liveness property
  `FilesAreFound` rests on: whatever edges the repair cuts, no loop is left, and
  there always are edges to cut (a loop in what is left would be a whole loop of
  before); and while there is no loop, the page of a user leads to all files.

## 6. Only model-checked, or not modelled

Liveness under fairness is beyond the prover and stays with TLC:
`IncomingIsEmptied`, `ThumbsSettle`, `MigratesInTheEnd` and `FilesAreFound`. So do
the five counterexamples of section 7, which are about one instance each. That the
steps of a session come to an end where the deadlock of section 7 does not strike
is not checked.

Not modelled:

* *Subtitles*: a command writes or removes files and then a row, in one task,
  and promises nothing when it fails or meets another. That it re-opens the file
  at its end is covered by `Sessions`.
* *User messages*: inserted and marked as seen in single statements; whether a
  message put into a session's channel reaches a client whose connection breaks
  is nothing the server could know.
* *Relayed play, pause and seek reports*: kept nowhere; each is sent to the
  participants at that moment.
* *Threads at start and end*: flags that are set once, and joins.
* *The rest of gRPC* (`grpc/db_models.rs`, `grpc_server.rs`): queries and conversions
  between database rows and messages.
* *Metaplugins and authorization of the organizer*: they answer by code that
  others supply; the models take any answer, and the default one in `Folders`.
* *Client*, but for its list of comments: history, player, comment tree, EDL and
  timecodes belong to one client and are functions of its input.
* *Packaging, protocol definitions*: no program logic.

## 7. Where code and documents differ

* **Re-opening a file unsubscribes its viewer** (`sessions_reopen`).
  `link_session_to_media_file` adds the new entry before it drops the old guard,
  and a guard removes *all* entries of its sender from its list
  (`server_state.rs` 180 and 235). Every subtitle command re-opens the file.
* **A call of the organizer can block the registry for ever** (`sessions_deadlock`).
  `client_show_user_message` for a session keeps the read guard that `get_session`
  returns (`grpc_server.rs` 80) while `send_to_user_session` reads the same map again
  (`server_state.rs` 79, 106). parking_lot's `RwLock` admits no reader while a writer
  waits: a session that closes, registers or is linked in between waits for the first
  guard, the second read waits for it, and everyone who needs the map for both.
* **A file that fails late is not rejected** (`ingest_failed`). After the move to
  `videos/<id>/orig` the clean-up looks for it in `incoming/`. The file is not
  lost (`NothingLost`): dropping it again wipes the left-over directory and
  starts anew.
* **A reply can be deleted with its parent** (`comments_replies`). The check for
  replies and the deletion are two statements, and the foreign key cascades. The
  clients are told of the parent only.
* **Legacy files are thumbnailed twice** (`jobs_next`). The next file without
  `thumbs_done` is looked up (`video_pipeline/mod.rs` 703) before the present one
  is marked as done (723), and the present one is the newest of them.

What the code does in rare races, and no document denies, is not a finding but an
exception the properties name: two different files of one media id, the clean-ups of
two threads that choose one place in `rejected/` (`exposed`), a deletion that takes
the directory of a new ingestion along (`doomed`), an archive of the database
truncated by a start within the same second (`replaced`), comments changed while they
are being sent (`raced`), results of a former file of the same id (`stale`).
