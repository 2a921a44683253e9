---------------------------- MODULE CommentSync ----------------------------
(***************************************************************************)
(* How the comments of a media file reach those who view it: the commands  *)
(* that open a file and that add, edit or delete a comment                 *)
(* (server/src/api_server/ws_handers.rs), the database, the channel of     *)
(* each session, and the list its client keeps (client/src/App.svelte).    *)
(*                                                                         *)
(* Whoever opens a file is first entered in the list of its viewers, then  *)
(* sent the file, then all its comments. Changes are written to the        *)
(* database and then broadcast to the viewers. Between the two, and        *)
(* between reading a comment and sending it, other commands run: a session *)
(* serves one command at a time, but sessions do not wait for each other.  *)
(*                                                                         *)
(* A step is one statement on the database or one message sent. Viewing is *)
(* that of Sessions, with its two locked halves in one step. Statements    *)
(* may find no row, but do not fail otherwise, nor does reading a drawing. *)
(* Media files are not deleted.                                            *)
(***************************************************************************)
EXTENDS Integers, Sequences, FiniteSets

CONSTANTS
    Sessions,       \* connected clients, each with a session task
    OrgTasks,       \* gRPC calls of the organizer that open a file
    MediaFiles,
    MaxStored,      \* bound: comments stored when the server starts
    MaxComments,    \* bound: comments ever inserted
    MaxEdits,       \* bound: edits
    MaxCommands,    \* bound: commands served
    None

ASSUME ConstantsAssumption ==
    /\ Sessions \cap OrgTasks = {}
    /\ None \notin Sessions \cup OrgTasks \cup MediaFiles
    /\ MaxComments \in Nat
    /\ MaxStored \in 0..MaxComments
    /\ MaxEdits \in Nat
    /\ MaxCommands \in Nat

Tasks == Sessions \cup OrgTasks

\* AUTOINCREMENT: ids count up, and are not used again.
Ids == 1..MaxComments

NoId == 0

VARIABLES
    text,       \* [Ids -> the version of the comment's text, 0 without a row]
    media,      \* [Ids -> media_file_id]
    parent,     \* [Ids -> parent_id, or NoId]
    nextId,     \* the next id the database gives
    playable,   \* files with a playback_url
    guard,      \* [Sessions -> the file of its media_session_guard]
    listed,     \* [Sessions -> the file whose list of viewers it is in]
    inbox,      \* [Sessions -> the messages on their way to the client]
    shown,      \* [Sessions -> the client's mediaFileId]
    view,       \* [Sessions -> the client's allComments: [Ids -> version]]
    pc,         \* [Tasks -> location]
    cmd,        \* [Tasks -> the arguments of the command served]
    copy,       \* [Tasks -> the comments read, as pairs of id and version]
    edits,      \* how many edits there were
    issued,     \* how many commands
    asked,      \* history: ids somebody asked to delete
    raced       \* history: ids changed while a task was about to send them,
                \* and replies that went with their parents

dbVars == <<text, media, parent, nextId, playable>>
viewerVars == <<guard, listed>>
clientVars == <<shown, view>>
taskVars == <<pc, cmd, copy>>
boundVars == <<edits, issued>>
historyVars == <<asked, raced>>
vars == <<dbVars, viewerVars, inbox, clientVars, taskVars, boundVars, historyVars>>

-----------------------------------------------------------------------------
(* Types *)

Locations ==
    {"idle", "link", "open", "snapshot", "sendSnapshot", "insert", "announce",
     "edit", "retract", "reread", "check", "delete", "announceDel"}

Texts == 1..(MaxEdits + 1)

Comments == Ids \X Texts

Message ==
    [type : {"openMediaFile"}, file : MediaFiles]
        \cup [type : {"addComments"}, file : MediaFiles, comments : SUBSET Comments]
        \cup [type : {"delComment"}, id : Ids]

Command == [session : Sessions, file : MediaFiles \cup {None}, id : Ids \cup {NoId}]

NoCommand == [session |-> None, file |-> None, id |-> NoId]

TypeOK ==
    /\ text \in [Ids -> Texts \cup {0}]
    /\ media \in [Ids -> MediaFiles \cup {None}]
    /\ parent \in [Ids -> Ids \cup {NoId}]
    /\ nextId \in 1..(MaxComments + 1)
    /\ playable \subseteq MediaFiles
    /\ guard \in [Sessions -> MediaFiles \cup {None}]
    /\ listed \in [Sessions -> MediaFiles \cup {None}]
    /\ inbox \in [Sessions -> Seq(Message)]
    /\ shown \in [Sessions -> MediaFiles \cup {None}]
    /\ view \in [Sessions -> [Ids -> Texts \cup {0}]]
    /\ pc \in [Tasks -> Locations]
    /\ cmd \in [Tasks -> Command \cup {NoCommand}]
    /\ copy \in [Tasks -> SUBSET Comments]
    /\ edits \in 0..MaxEdits
    /\ issued \in 0..MaxCommands
    /\ asked \subseteq Ids
    /\ raced \subseteq Ids

-----------------------------------------------------------------------------

Row(i) == text[i] # 0

\* Mutant: ids whose rows have gone are listed, too.
AllCommentsOf(m) == {<<i, text[i]>> : i \in {j \in Ids : media[j] = m}}

\* get_by_media_file
CommentsOf(m) == {<<i, text[i]>> : i \in {j \in Ids : Row(j) /\ media[j] = m}}

HasReplies(i) == \E j \in Ids : Row(j) /\ media[j] = media[i] /\ parent[j] = i

\* ON DELETE CASCADE: a comment and all replies below it, the least set that
\* holds the comment and, with each of its members, the replies to it.
Thread(i) ==
    LET closed == {c \in SUBSET Ids :
                      i \in c /\ \A j \in Ids : parent[j] \in c => j \in c}
    IN  {j \in Ids : Row(j) /\ \A c \in closed : j \in c}

\* Somebody else has read the comment and is about to send what it was.
InOthersHands(t, i) == \E u \in Tasks \ {t} : \E c \in copy[u] : c[1] = i

Viewers(m) == {s \in Sessions : listed[s] = m}

\* Mutant: who issued the command is left out.
OtherViewers(t, m) == Viewers(m) \ {t}

Recipients(t, m) == Viewers(m)

\* send_to_all_media_file_sessions
Broadcast(t, m, msg) ==
    inbox' = [s \in Sessions |->
                 IF s \in Recipients(t, m) THEN Append(inbox[s], msg) ELSE inbox[s]]

Send(s, msg) == inbox' = [inbox EXCEPT ![s] = Append(@, msg)]

Goto(t, from, to) ==
    /\ pc[t] = from
    /\ pc' = [pc EXCEPT ![t] = to]

Done(t, from) ==
    /\ Goto(t, from, "idle")
    /\ cmd' = [cmd EXCEPT ![t] = NoCommand]
    /\ copy' = [copy EXCEPT ![t] = {}]

\* A task takes up a command: lookups and authorization have passed.
Begin(t, s, m, i, to) ==
    /\ issued < MaxCommands
    /\ issued' = issued + 1
    /\ Goto(t, "idle", to)
    /\ cmd' = [cmd EXCEPT ![t] = [session |-> s, file |-> m, id |-> i]]

\* The database holds comments of earlier days; nobody is connected.
Init ==
    /\ nextId \in 1..(MaxStored + 1)
    /\ text = [i \in Ids |-> IF i < nextId THEN 1 ELSE 0]
    /\ \E file \in [1..(nextId - 1) -> MediaFiles] :
          media = [i \in Ids |-> IF i < nextId THEN file[i] ELSE None]
    /\ parent = [i \in Ids |-> NoId]
    /\ playable \in SUBSET MediaFiles
    /\ guard = [s \in Sessions |-> None]
    /\ listed = [s \in Sessions |-> None]
    /\ inbox = [s \in Sessions |-> <<>>]
    /\ shown = [s \in Sessions |-> None]
    /\ view = [s \in Sessions |-> [i \in Ids |-> 0]]
    /\ pc = [t \in Tasks |-> "idle"]
    /\ cmd = [t \in Tasks |-> NoCommand]
    /\ copy = [t \in Tasks |-> {}]
    /\ edits = 0
    /\ issued = 0
    /\ asked = {}
    /\ raced = {}

-----------------------------------------------------------------------------
(* Opening a media file *)

\* Asked for by the client, or (from another task) by the organizer.
OpenMediaFile(t, s, m) ==
    /\ t \in Sessions => t = s
    /\ Begin(t, s, m, NoId, "link")
    /\ UNCHANGED <<dbVars, viewerVars, inbox, clientVars, copy, edits, historyVars>>

\* link_session_to_media_file: the old guard is dropped after the sender was
\* entered for the new file, and takes both entries along when they are the
\* same.
Link(t) ==
    LET s == cmd[t].session
        m == cmd[t].file
    IN  /\ Goto(t, "link", "open")
        /\ listed' = [listed EXCEPT ![s] = IF guard[s] = m THEN None ELSE m]
        /\ guard' = [guard EXCEPT ![s] = m]
        /\ UNCHANGED <<dbVars, inbox, clientVars, cmd, copy, boundVars, historyVars>>

SendOpen(t) ==
    /\ Goto(t, "open", "snapshot")
    /\ cmd[t].file \in playable
    /\ Send(cmd[t].session, [type |-> "openMediaFile", file |-> cmd[t].file])
    /\ UNCHANGED <<dbVars, viewerVars, clientVars, cmd, copy, boundVars, historyVars>>

\* "No playback file": the session has become a viewer already.
OpenFails(t) ==
    /\ Done(t, "open")
    /\ cmd[t].file \notin playable
    /\ UNCHANGED <<dbVars, viewerVars, inbox, clientVars, boundVars, historyVars>>

\* All comments are read, and then their drawings, each with an await ...
ReadSnapshot(t) ==
    /\ Goto(t, "snapshot", "sendSnapshot")
    /\ copy' = [copy EXCEPT ![t] = CommentsOf(cmd[t].file)]
    /\ UNCHANGED <<dbVars, viewerVars, inbox, clientVars, cmd, boundVars, historyVars>>

\* ... and sent as they were.
SendSnapshot(t) ==
    /\ Done(t, "sendSnapshot")
    /\ Send(cmd[t].session,
            [type |-> "addComments", file |-> cmd[t].file, comments |-> copy[t]])
    /\ UNCHANGED <<dbVars, viewerVars, clientVars, boundVars, historyVars>>

-----------------------------------------------------------------------------
(* Adding a comment *)

\* A comment, or a reply to a comment of the same file.
AddComment(s, m, i) ==
    /\ i # NoId => i < nextId /\ media[i] = m
    /\ Begin(s, s, m, i, "insert")
    /\ UNCHANGED <<dbVars, viewerVars, inbox, clientVars, copy, edits, historyVars>>

Insert(t) ==
    /\ Goto(t, "insert", "announce")
    /\ nextId <= MaxComments
    /\ cmd[t].id # NoId => Row(cmd[t].id)
    /\ text' = [text EXCEPT ![nextId] = 1]
    /\ media' = [media EXCEPT ![nextId] = cmd[t].file]
    /\ parent' = [parent EXCEPT ![nextId] = cmd[t].id]
    /\ nextId' = nextId + 1
    /\ copy' = [copy EXCEPT ![t] = {<<nextId, 1>>}]
    /\ UNCHANGED <<playable, viewerVars, inbox, clientVars, cmd, boundVars, historyVars>>

\* The comment replied to has gone: the foreign key refuses the row.
InsertFails(t) ==
    /\ Done(t, "insert")
    /\ cmd[t].id # NoId
    /\ ~Row(cmd[t].id)
    /\ UNCHANGED <<dbVars, viewerVars, inbox, clientVars, boundVars, historyVars>>

\* emit_new_comment, after the drawing has been read.
Announce(t) ==
    /\ Done(t, "announce")
    /\ Broadcast(t, cmd[t].file,
                 [type |-> "addComments", file |-> cmd[t].file, comments |-> copy[t]])
    /\ UNCHANGED <<dbVars, viewerVars, clientVars, boundVars, historyVars>>

-----------------------------------------------------------------------------
(* Editing a comment *)

EditComment(s, i) ==
    /\ Row(i)
    /\ edits < MaxEdits
    /\ edits' = edits + 1
    /\ Begin(s, s, media[i], i, "edit")
    /\ UNCHANGED <<dbVars, viewerVars, inbox, clientVars, copy, historyVars>>

\* UPDATE, which does not mind if the row has gone.
Edit(t) ==
    LET i == cmd[t].id
    IN  /\ Goto(t, "edit", "retract")
        /\ text' = IF Row(i) THEN [text EXCEPT ![i] = @ + 1] ELSE text
        /\ raced' = IF InOthersHands(t, i) THEN raced \cup {i} ELSE raced
        /\ UNCHANGED <<media, parent, nextId, playable, viewerVars, inbox, clientVars, cmd, copy,
                       boundVars, asked>>

\* The viewers are told to remove the comment ...
Retract(t) ==
    /\ Goto(t, "retract", "reread")
    /\ Broadcast(t, cmd[t].file, [type |-> "delComment", id |-> cmd[t].id])
    /\ UNCHANGED <<dbVars, viewerVars, clientVars, cmd, copy, boundVars, historyVars>>

\* ... and then sent it again, as it is by now.
Reread(t) ==
    LET i == cmd[t].id
    IN  /\ Goto(t, "reread", "announce")
        /\ Row(i)
        /\ copy' = [copy EXCEPT ![t] = {<<i, text[i]>>}]
        /\ UNCHANGED <<dbVars, viewerVars, inbox, clientVars, cmd, boundVars, historyVars>>

RereadFails(t) ==
    /\ Done(t, "reread")
    /\ ~Row(cmd[t].id)
    /\ UNCHANGED <<dbVars, viewerVars, inbox, clientVars, boundVars, historyVars>>

-----------------------------------------------------------------------------
(* Deleting a comment *)

DelComment(s, i) ==
    /\ Row(i)
    /\ asked' = asked \cup {i}
    /\ Begin(s, s, media[i], i, "check")
    /\ UNCHANGED <<dbVars, viewerVars, inbox, clientVars, copy, edits, raced>>

NoReplies(t) ==
    /\ Goto(t, "check", "delete")
    /\ ~HasReplies(cmd[t].id)
    /\ UNCHANGED <<dbVars, viewerVars, inbox, clientVars, cmd, copy, boundVars, historyVars>>

\* "Comment has replies. Cannot delete."
RefuseDelete(t) ==
    /\ Done(t, "check")
    /\ HasReplies(cmd[t].id)
    /\ UNCHANGED <<dbVars, viewerVars, inbox, clientVars, boundVars, historyVars>>

Delete(t) ==
    LET i == cmd[t].id
    IN  /\ Goto(t, "delete", "announceDel")
        /\ text' = [j \in Ids |-> IF j \in Thread(i) THEN 0 ELSE text[j]]
        /\ raced' = raced \cup (Thread(i) \ {i})
                          \cup (IF InOthersHands(t, i) THEN {i} ELSE {})
        /\ UNCHANGED <<media, parent, nextId, playable, viewerVars, inbox, clientVars, cmd, copy,
                       boundVars, asked>>

AnnounceDel(t) ==
    /\ Done(t, "announceDel")
    /\ Broadcast(t, cmd[t].file, [type |-> "delComment", id |-> cmd[t].id])
    /\ UNCHANGED <<dbVars, viewerVars, clientVars, boundVars, historyVars>>

-----------------------------------------------------------------------------
(* The client *)

\* Mutant: comments are shown beside those of the file shown before.
ReceivedBeside(s, msg) ==
    CASE msg.type = "openMediaFile" -> view[s]
      [] msg.type = "addComments" ->
            [i \in Ids |->
                IF \E c \in msg.comments : c[1] = i
                THEN (CHOOSE c \in msg.comments : c[1] = i)[2]
                ELSE view[s][i]]
      [] msg.type = "delComment" -> [view[s] EXCEPT ![msg.id] = 0]

\* openMediaFile clears the comments; addComments adds or replaces those of the
\* file shown; delComment removes one.
Received(s, msg) ==
    CASE msg.type = "openMediaFile" -> [i \in Ids |-> 0]
      [] msg.type = "addComments" ->
            [i \in Ids |->
                IF msg.file = shown[s] /\ \E c \in msg.comments : c[1] = i
                THEN (CHOOSE c \in msg.comments : c[1] = i)[2]
                ELSE view[s][i]]
      [] msg.type = "delComment" -> [view[s] EXCEPT ![msg.id] = 0]

Receive(s) ==
    /\ inbox[s] # <<>>
    /\ inbox' = [inbox EXCEPT ![s] = Tail(@)]
    /\ view' = [view EXCEPT ![s] = Received(s, Head(inbox[s]))]
    /\ shown' = IF Head(inbox[s]).type = "openMediaFile"
                THEN [shown EXCEPT ![s] = Head(inbox[s]).file] ELSE shown
    /\ UNCHANGED <<dbVars, viewerVars, taskVars, boundVars, historyVars>>

\* closePlayerIfOpen: the server is not told that nobody watches any more.
ClosePlayer(s) ==
    /\ shown[s] # None
    /\ shown' = [shown EXCEPT ![s] = None]
    /\ view' = [view EXCEPT ![s] = [i \in Ids |-> 0]]
    /\ UNCHANGED <<dbVars, viewerVars, inbox, taskVars, boundVars, historyVars>>

\* The connection breaks, with what was on its way. The client connects again,
\* as a new session, and asks for the file it shows. (A command still served
\* for the old session ends first here, as a command of any other might.)
Reconnect(s) ==
    /\ shown[s] # None
    /\ \A o \in OrgTasks : cmd[o].session # s
    /\ Begin(s, s, shown[s], NoId, "link")
    /\ inbox' = [inbox EXCEPT ![s] = <<>>]
    /\ guard' = [guard EXCEPT ![s] = None]
    /\ listed' = [listed EXCEPT ![s] = None]
    /\ UNCHANGED <<dbVars, clientVars, copy, edits, historyVars>>

-----------------------------------------------------------------------------

\* Transcoding comes to its end, elsewhere.
Transcoded(m) ==
    /\ m \notin playable
    /\ playable' = playable \cup {m}
    /\ UNCHANGED <<text, media, parent, nextId, viewerVars, inbox, clientVars, taskVars,
                   boundVars, historyVars>>

OpenStep(t) ==
    \/ Link(t)
    \/ SendOpen(t)
    \/ OpenFails(t)
    \/ ReadSnapshot(t)
    \/ SendSnapshot(t)

CommentStep(s) ==
    \/ Insert(s)
    \/ InsertFails(s)
    \/ Announce(s)
    \/ Edit(s)
    \/ Retract(s)
    \/ Reread(s)
    \/ RereadFails(s)
    \/ NoReplies(s)
    \/ RefuseDelete(s)
    \/ Delete(s)
    \/ AnnounceDel(s)

UserStep(s) ==
    \/ \E m \in MediaFiles, i \in Ids \cup {NoId} : AddComment(s, m, i)
    \/ \E i \in Ids : EditComment(s, i) \/ DelComment(s, i)
    \/ ClosePlayer(s)
    \/ Reconnect(s)

Next ==
    \/ \E t \in Tasks, s \in Sessions, m \in MediaFiles : OpenMediaFile(t, s, m)
    \/ \E t \in Tasks : OpenStep(t)
    \/ \E m \in MediaFiles : Transcoded(m)
    \/ \E s \in Sessions : CommentStep(s) \/ UserStep(s) \/ Receive(s)

Spec == Init /\ [][Next]_vars

-----------------------------------------------------------------------------
(* Properties *)

\* Nothing is being done and nothing is on its way.
Settled ==
    /\ \A t \in Tasks : pc[t] = "idle"
    /\ \A s \in Sessions : inbox[s] = <<>>

\* The client shows the file its session is listed as a viewer of. (It does not
\* when it has opened a file twice, has closed the player, or when two commands
\* have opened different files at the same time.)
Attends(s) == shown[s] # None /\ shown[s] = listed[s]

\* Who attends misses no comment, however opening, adding, editing, deleting
\* and losing the connection have overlapped.
NothingMissing ==
    Settled => \A s \in Sessions, i \in Ids :
        Attends(s) /\ Row(i) /\ media[i] = shown[s] => view[s][i] # 0

\* Who attends sees exactly what the database holds, apart from comments that
\* were changed while somebody was about to send what they had been, and from
\* replies deleted with their parents.
ViewsAgree ==
    Settled => \A s \in Sessions, i \in Ids \ raced :
        Attends(s) => view[s][i] = IF media[i] = shown[s] THEN text[i] ELSE 0

\* "Comment has replies. Cannot delete.": a comment leaves the database only
\* when somebody has asked to delete it.
OnlyAskedDeletions == \A i \in Ids : i < nextId /\ ~Row(i) => i \in asked
=============================================================================
