------------------------------ MODULE Sessions ------------------------------
(***************************************************************************)
(* The session registry of the Clapshot server: which WebSocket session is *)
(* connected, which media file it views and which collaborative viewing    *)
(* session ("collab") it takes part in (server/src/api_server/             *)
(* server_state.rs, with the handlers that drive it in mod.rs and          *)
(* ws_handers.rs, and the organizer's client_open_media_file call).        *)
(*                                                                         *)
(* The registry is a set of maps from a key to a list of message senders.  *)
(* Entering a list returns a guard, and dropping the guard removes every   *)
(* entry of that sender from the list. Nothing else ever removes one, so   *)
(* everything depends on where guards are kept and in which order they go. *)
(*                                                                         *)
(* A step is one critical section of the code. Two locks are held across   *)
(* other critical sections and are variables here: that of sid_to_session  *)
(* (sidLock, its writer, and sidReaders) and the write lock of             *)
(* collab_id_to_media_file_id (mapLock). The locks of the sender lists are *)
(* only held within a step. A parking_lot RwLock is taken by a writer in   *)
(* two steps: it claims the lock, which keeps new readers out, and then    *)
(* waits for the present ones to go.                                       *)
(*                                                                         *)
(* A member of Sessions is a connection slot: it may connect, close and    *)
(* connect again, with nothing left of its former life but what the        *)
(* registry forgot to remove.                                              *)
(***************************************************************************)
EXTENDS Integers, FiniteSets

CONSTANTS
    Sessions,       \* connection slots, each with its own task and channel
    OrgTasks,       \* gRPC calls of the organizer being served
    MediaFiles,     \* media file ids
    Collabs,        \* collab ids, chosen by the clients
    None            \* Rust's Option::None, and an absent map entry

ASSUME ConstantsAssumption ==
    /\ Sessions \cap OrgTasks = {}
    /\ None \notin Sessions \cup OrgTasks \cup MediaFiles \cup Collabs

Tasks == Sessions \cup OrgTasks

VARIABLES
    pc,             \* [Tasks -> location]
    target,         \* [Tasks -> the session an open command is for]
    file,           \* [Tasks -> the media file id of the command served]
    room,           \* [Sessions -> the collab id of the join command served]
    userSenders,    \* user_id_to_senders: the sessions listed under their user
    sidMap,         \* domain of sid_to_session
    viewers,        \* media_file_id_to_senders: copies of a sender in a list
    mediaGuard,     \* media_session_guard of the registered UserSession: its key
    collabSenders,  \* collab_id_to_senders: copies of a sender in a list
    collabGuard,    \* collab_session_guard of the task's UserSession: its key
    curCollab,      \* cur_collab_id of the task's UserSession
    collabMedia,    \* collab_id_to_media_file_id
    sidLock,        \* the writer that has claimed the lock of sid_to_session
    sidReaders,     \* tasks that keep a read guard of it while they lock again
    mapLock,        \* holder of the write lock of collab_id_to_media_file_id
    joinMedia,      \* history: the file a session brought into its collab
    lastOpened      \* history: the file last opened for a session

commandVars == <<target, file, room>>
userVars == <<userSenders>>
viewVars == <<sidMap, viewers, mediaGuard, lastOpened>>
collabVars == <<collabSenders, collabGuard, curCollab, collabMedia, joinMedia>>
lockVars == <<sidLock, sidReaders, mapLock>>
vars == <<pc, commandVars, userVars, viewVars, collabVars, lockVars>>

-----------------------------------------------------------------------------
(* Types *)

SessionLocations ==
    {"closed", "registering", "login", "idle",
     "link", "dropOld",
     "joinAuthz", "joinGC", "joinClaim", "joinPush",
     "closeUser", "closeSid", "closeMedia", "closeCollab", "closeRx"}

OrgLocations == {"idle", "link", "dropOld", "notify"}

\* How many copies of each session's sender each list of a SenderListMap holds:
\* two while a guard is being replaced, never more.
SenderListMap(Keys) == [Keys -> [Sessions -> 0..2]]

TypeOK ==
    /\ pc \in [Tasks -> SessionLocations \cup OrgLocations]
    /\ \A s \in Sessions : pc[s] \in SessionLocations
    /\ \A o \in OrgTasks : pc[o] \in OrgLocations
    /\ target \in [Tasks -> Sessions \cup {None}]
    /\ file \in [Tasks -> MediaFiles \cup {None}]
    /\ room \in [Sessions -> Collabs \cup {None}]
    /\ userSenders \subseteq Sessions
    /\ sidMap \subseteq Sessions
    /\ viewers \in SenderListMap(MediaFiles)
    /\ mediaGuard \in [Sessions -> MediaFiles \cup {None}]
    /\ collabSenders \in SenderListMap(Collabs)
    /\ collabGuard \in [Sessions -> Collabs \cup {None}]
    /\ curCollab \in [Sessions -> Collabs \cup {None}]
    /\ collabMedia \in [Collabs -> MediaFiles \cup {None}]
    /\ sidLock \in Tasks \cup {None}
    /\ sidReaders \subseteq OrgTasks
    /\ mapLock \in Sessions \cup {None}
    /\ joinMedia \in [Sessions -> MediaFiles \cup {None}]
    /\ lastOpened \in [Sessions -> MediaFiles \cup {None}]

-----------------------------------------------------------------------------
(* Sender lists and guards *)

\* add_sender_to_maplist: one more copy of the sender at the end of the list.
AddSender(list, key, s) == [list EXCEPT ![key][s] = @ + 1]

\* Drop of the guard returned by add_sender_to_maplist: `retain` keeps the
\* entries of other channels, so every copy of this one goes.
DropGuard(list, guard, s) ==
    IF guard = None THEN list ELSE [list EXCEPT ![guard][s] = 0]

\* Mutant: the collab id is forgotten and its guard with it, undropped.
LeaveListForgets(s) ==
    /\ collabGuard' = [collabGuard EXCEPT ![s] = None]
    /\ curCollab' = [curCollab EXCEPT ![s] = None]
    /\ joinMedia' = [joinMedia EXCEPT ![s] = None]
    /\ UNCHANGED collabSenders

\* collab_session_guard = None, cur_collab_id = None.
LeaveList(s) ==
    /\ collabSenders' = DropGuard(collabSenders, collabGuard[s], s)
    /\ collabGuard' = [collabGuard EXCEPT ![s] = None]
    /\ curCollab' = [curCollab EXCEPT ![s] = None]
    /\ joinMedia' = [joinMedia EXCEPT ![s] = None]

\* The receiving end of a session's channel lives until its task has ended;
\* sending to it fails from then on.
ReceiverAlive(s) == pc[s] # "closed"

Participants(c) == {s \in Sessions : collabSenders[c][s] > 0}

Goto(t, from, to) ==
    /\ pc[t] = from
    /\ pc' = [pc EXCEPT ![t] = to]

Init ==
    /\ pc = [t \in Tasks |-> IF t \in Sessions THEN "closed" ELSE "idle"]
    /\ target = [t \in Tasks |-> None]
    /\ file = [t \in Tasks |-> None]
    /\ room = [s \in Sessions |-> None]
    /\ userSenders = {}
    /\ sidMap = {}
    /\ viewers = [m \in MediaFiles |-> [s \in Sessions |-> 0]]
    /\ mediaGuard = [s \in Sessions |-> None]
    /\ collabSenders = [c \in Collabs |-> [s \in Sessions |-> 0]]
    /\ collabGuard = [s \in Sessions |-> None]
    /\ curCollab = [s \in Sessions |-> None]
    /\ collabMedia = [c \in Collabs |-> None]
    /\ sidLock = None
    /\ sidReaders = {}
    /\ mapLock = None
    /\ joinMedia = [s \in Sessions |-> None]
    /\ lastOpened = [s \in Sessions |-> None]

-----------------------------------------------------------------------------
(* The lock of sid_to_session *)

\* A writer has the lock to itself: nobody else claimed it, nobody reads.
SidExclusive(t) == sidLock \in {None, t} /\ sidReaders = {}

\* Somebody still reads: the writer claims the lock and waits.
SidWaits(t) ==
    /\ pc[t] \in {"registering", "link", "closeSid"}
    /\ sidLock = None
    /\ sidReaders # {}
    /\ sidLock' = t
    /\ UNCHANGED <<pc, commandVars, userVars, viewVars, collabVars, sidReaders, mapLock>>

\* client_show_user_message for a session: the organizer's call keeps the read
\* guard of get_session, for the user's name ...
NotifySession(o, s) ==
    /\ Goto(o, "idle", "notify")
    /\ sidLock = None
    /\ s \in sidMap
    /\ sidReaders' = sidReaders \cup {o}
    /\ UNCHANGED <<commandVars, userVars, viewVars, collabVars, sidLock, mapLock>>

\* ... while send_to_user_session takes the same lock again, for the sender.
\* Both guards are dropped on return.
NotifySend(o) ==
    /\ Goto(o, "notify", "idle")
    /\ sidLock = None
    /\ sidReaders' = sidReaders \ {o}
    /\ UNCHANGED <<commandVars, userVars, viewVars, collabVars, sidLock, mapLock>>

-----------------------------------------------------------------------------
(* Connecting *)

\* A WebSocket is accepted: register_user_session lists the sender first ...
RegisterUser(s) ==
    /\ Goto(s, "closed", "registering")
    /\ userSenders' = userSenders \cup {s}
    /\ UNCHANGED <<commandVars, viewVars, collabVars, lockVars>>

\* ... and then puts a clone of the session, without guards, in the sid map.
RegisterSid(s) ==
    /\ Goto(s, "registering", "login")
    /\ SidExclusive(s)
    /\ sidLock' = None
    /\ sidMap' = sidMap \cup {s}
    /\ mediaGuard' = [mediaGuard EXCEPT ![s] = None]
    /\ UNCHANGED <<commandVars, userVars, viewers, lastOpened, collabVars,
                   sidReaders, mapLock>>

\* The organizer accepts the session, or there is none ...
LoginAccepted(s) ==
    /\ Goto(s, "login", "idle")
    /\ UNCHANGED <<commandVars, userVars, viewVars, collabVars, lockVars>>

\* ... or it denies the login or cannot be reached, and the handler returns.
LoginRefused(s) ==
    /\ Goto(s, "login", "closeUser")
    /\ UNCHANGED <<commandVars, userVars, viewVars, collabVars, lockVars>>

-----------------------------------------------------------------------------
(* Viewing a media file *)

\* A client asks for a file, and the lookup and the authorization pass. (When
\* they do not, an error is sent and nothing else happens.) The commands that
\* add, edit or delete a subtitle end with the same call for the same session.
OpenMediaFile(s, m) ==
    /\ Goto(s, "idle", "link")
    /\ target' = [target EXCEPT ![s] = s]
    /\ file' = [file EXCEPT ![s] = m]
    /\ UNCHANGED <<room, userVars, viewVars, collabVars, lockVars>>

\* The organizer opens a file in a client, from a task of its own.
ClientOpenMediaFile(o, s, m) ==
    /\ Goto(o, "idle", "link")
    /\ target' = [target EXCEPT ![o] = s]
    /\ file' = [file EXCEPT ![o] = m]
    /\ UNCHANGED <<room, userVars, viewVars, collabVars, lockVars>>

\* Mutant: the sender is taken from somewhere else than the sid map.
AnySession(s) == TRUE

\* map.get_mut(session_id) finds the session.
Registered(s) == s \in sidMap

\* link_session_to_media_file, first half: under the sid map's write lock,
\* the sender enters the file's list.
LinkAdd(t) ==
    /\ SidExclusive(t)
    /\ Registered(target[t])
    /\ Goto(t, "link", "dropOld")
    /\ sidLock' = t
    /\ viewers' = AddSender(viewers, file[t], target[t])
    /\ UNCHANGED <<commandVars, userVars, sidMap, mediaGuard, lastOpened,
                   collabVars, sidReaders, mapLock>>

\* The session is not (or no longer) registered: "Session not found".
LinkNotFound(t) ==
    /\ SidExclusive(t)
    /\ ~Registered(target[t])
    /\ Goto(t, "link", "idle")
    /\ sidLock' = None
    /\ target' = [target EXCEPT ![t] = None]
    /\ file' = [file EXCEPT ![t] = None]
    /\ UNCHANGED <<room, userVars, viewVars, collabVars, sidReaders, mapLock>>

\* Mutant: the guard kept before is overwritten without being dropped.
ReplaceGuardLeaks(s, m) ==
    /\ mediaGuard' = [mediaGuard EXCEPT ![s] = m]
    /\ UNCHANGED viewers

\* Mutant: the wrong one of the two guards is dropped.
ReplaceGuardSwapped(s, m) ==
    /\ viewers' = DropGuard(viewers, m, s)
    /\ mediaGuard' = [mediaGuard EXCEPT ![s] = m]

\* ses.media_session_guard = Some(grd): the guard kept before is dropped.
ReplaceGuard(s, m) ==
    /\ viewers' = DropGuard(viewers, mediaGuard[s], s)
    /\ mediaGuard' = [mediaGuard EXCEPT ![s] = m]

\* link_session_to_media_file, second half: the new guard replaces the one the
\* session had. The lock is released on return.
LinkDropOld(t) ==
    /\ Goto(t, "dropOld", "idle")
    /\ ReplaceGuard(target[t], file[t])
    /\ lastOpened' = [lastOpened EXCEPT ![target[t]] = file[t]]
    /\ sidLock' = None
    /\ target' = [target EXCEPT ![t] = None]
    /\ file' = [file EXCEPT ![t] = None]
    /\ UNCHANGED <<room, userVars, sidMap, collabVars, sidReaders, mapLock>>

-----------------------------------------------------------------------------
(* Collaborative viewing *)

\* msg_join_collab. Joining again while in a collab is ignored. Otherwise the
\* previous guard is dropped before the file is looked up and the organizer
\* is asked, which is an await.
JoinCollab(s, c, m) ==
    /\ Goto(s, "idle", "joinAuthz")
    /\ ~(curCollab[s] # None /\ s \in Participants(curCollab[s]))
    /\ LeaveList(s)
    /\ room' = [room EXCEPT ![s] = c]
    /\ file' = [file EXCEPT ![s] = m]
    /\ UNCHANGED <<target, userVars, viewVars, collabMedia, lockVars>>

JoinAuthorized(s) ==
    /\ Goto(s, "joinAuthz", "joinGC")
    /\ UNCHANGED <<commandVars, userVars, viewVars, collabVars, lockVars>>

\* No such file, or the organizer denies it: the session is in no collab.
JoinDenied(s) ==
    /\ Goto(s, "joinAuthz", "idle")
    /\ room' = [room EXCEPT ![s] = None]
    /\ file' = [file EXCEPT ![s] = None]
    /\ UNCHANGED <<target, userVars, viewVars, collabVars, lockVars>>

\* Mutant: the file map is never collected.
Uncollected == collabMedia

\* garbage_collect_collab_media_file_map: forget the files of empty collabs.
Collected ==
    [c \in Collabs |-> IF Participants(c) = {} THEN None ELSE collabMedia[c]]

JoinGC(s) ==
    /\ Goto(s, "joinGC", "joinClaim")
    /\ mapLock = None
    /\ collabMedia' = Collected
    /\ UNCHANGED <<commandVars, userVars, viewVars, collabSenders, collabGuard,
                   curCollab, joinMedia, lockVars>>

\* Mutant: whoever joins sets the file.
AlwaysAdmitted(c, m) == TRUE

\* The collab has no file yet, or the one the session comes with.
Admitted(c, m) == collabMedia[c] \in {None, m}

\* Mutant: the lock is only held for the look-up and the insertion.
DropMapLock(s) == mapLock' = None

\* The lock is kept until link_session_to_collab returns.
KeepMapLock(s) == mapLock' = s

\* link_session_to_collab, under the map's write lock: the first to join sets
\* the file, the others must bring the same one.
JoinClaim(s) ==
    /\ Goto(s, "joinClaim", "joinPush")
    /\ mapLock = None
    /\ Admitted(room[s], file[s])
    /\ collabMedia' = [collabMedia EXCEPT ![room[s]] = file[s]]
    /\ KeepMapLock(s)
    /\ UNCHANGED <<commandVars, userVars, viewVars, collabSenders, collabGuard,
                   curCollab, joinMedia, sidLock, sidReaders>>

\* "Mismatching media file id for pre-existing collab": the join has failed,
\* and the session is in no collab.
JoinMismatch(s) ==
    /\ Goto(s, "joinClaim", "idle")
    /\ mapLock = None
    /\ ~Admitted(room[s], file[s])
    /\ room' = [room EXCEPT ![s] = None]
    /\ file' = [file EXCEPT ![s] = None]
    /\ UNCHANGED <<target, userVars, viewVars, collabVars, lockVars>>

\* Still under that lock the sender enters the collab's list; the handler then
\* keeps the guard and the collab id.
JoinPush(s) ==
    /\ Goto(s, "joinPush", "idle")
    /\ collabSenders' = AddSender(collabSenders, room[s], s)
    /\ collabGuard' = [collabGuard EXCEPT ![s] = room[s]]
    /\ curCollab' = [curCollab EXCEPT ![s] = room[s]]
    /\ joinMedia' = [joinMedia EXCEPT ![s] = file[s]]
    /\ mapLock' = None
    /\ room' = [room EXCEPT ![s] = None]
    /\ file' = [file EXCEPT ![s] = None]
    /\ UNCHANGED <<target, userVars, viewVars, collabMedia, sidLock, sidReaders>>

\* msg_leave_collab: the others are told first, and if a channel among them
\* were closed the command would fail there. Then the guard goes; the entry of
\* the file map waits for the next GC.
LeaveCollab(s) ==
    /\ pc[s] = "idle"
    /\ curCollab[s] # None
    /\ \A r \in Participants(curCollab[s]) : ReceiverAlive(r)
    /\ LeaveList(s)
    /\ UNCHANGED <<pc, commandVars, userVars, viewVars, collabMedia,
                   lockVars>>

-----------------------------------------------------------------------------
(* Closing: the locals of handle_ws_session are dropped in reverse order *)

\* Logout, socket closed, send error or server termination: the loop ends.
Disconnect(s) ==
    /\ Goto(s, "idle", "closeUser")
    /\ UNCHANGED <<commandVars, userVars, viewVars, collabVars, lockVars>>

\* _user_session_guard, first member: leave the user's list.
CloseUser(s) ==
    /\ Goto(s, "closeUser", "closeSid")
    /\ userSenders' = userSenders \ {s}
    /\ UNCHANGED <<commandVars, viewVars, collabVars, lockVars>>

\* Its second member: leave the sid map. The registered session is destroyed
\* before the lock is released ...
CloseSid(s) ==
    /\ Goto(s, "closeSid", "closeMedia")
    /\ SidExclusive(s)
    /\ sidLock' = s
    /\ sidMap' = sidMap \ {s}
    /\ UNCHANGED <<commandVars, userVars, viewers, mediaGuard, lastOpened,
                   collabVars, sidReaders, mapLock>>

\* ... and with it the guard of the file it viewed.
CloseMedia(s) ==
    /\ Goto(s, "closeMedia", "closeCollab")
    /\ viewers' = DropGuard(viewers, mediaGuard[s], s)
    /\ mediaGuard' = [mediaGuard EXCEPT ![s] = None]
    /\ lastOpened' = [lastOpened EXCEPT ![s] = None]
    /\ sidLock' = None
    /\ UNCHANGED <<commandVars, userVars, sidMap, collabVars, sidReaders, mapLock>>

\* The task's own UserSession, with the collab guard.
CloseCollab(s) ==
    /\ Goto(s, "closeCollab", "closeRx")
    /\ LeaveList(s)
    /\ UNCHANGED <<commandVars, userVars, viewVars, collabMedia, lockVars>>

\* Last the receiving end of the channel: from here on, sending fails.
CloseRx(s) ==
    /\ Goto(s, "closeRx", "closed")
    /\ UNCHANGED <<commandVars, userVars, viewVars, collabVars, lockVars>>

-----------------------------------------------------------------------------

\* Steps a task takes on its own, waiting for nothing but the registry's locks.
SidStep(t) ==
    \/ SidWaits(t)
    \/ t \in OrgTasks /\ NotifySend(t)

LinkStep(t) ==
    \/ LinkAdd(t)
    \/ LinkNotFound(t)
    \/ LinkDropOld(t)

JoinStep(s) ==
    \/ JoinGC(s)
    \/ JoinClaim(s)
    \/ JoinMismatch(s)
    \/ JoinPush(s)

CloseStep(s) ==
    \/ CloseUser(s)
    \/ CloseSid(s)
    \/ CloseMedia(s)
    \/ CloseCollab(s)
    \/ CloseRx(s)

\* Steps that wait for the client or the organizer, or start something.
ClientStep(s) ==
    \/ RegisterUser(s)
    \/ RegisterSid(s)
    \/ LoginAccepted(s)
    \/ LoginRefused(s)
    \/ \E m \in MediaFiles : OpenMediaFile(s, m)
    \/ \E c \in Collabs, m \in MediaFiles : JoinCollab(s, c, m)
    \/ JoinAuthorized(s)
    \/ JoinDenied(s)
    \/ LeaveCollab(s)
    \/ Disconnect(s)

Next ==
    \/ \E t \in Tasks : LinkStep(t) \/ SidStep(t)
    \/ \E s \in Sessions : ClientStep(s) \/ JoinStep(s) \/ CloseStep(s)
    \/ \E o \in OrgTasks, s \in Sessions :
          NotifySession(o, s) \/ \E m \in MediaFiles : ClientOpenMediaFile(o, s, m)

Spec == Init /\ [][Next]_vars

(***************************************************************************)
(* Tasks run on the tokio scheduler, so a task that is not blocked runs    *)
(* on. The locks are parking_lot's, whose RwLock is task-fair: a thread    *)
(* that waits for a lock released again and again gets it in the end,      *)
(* which is strong fairness. Nobody owes the server a command, and the     *)
(* organizer owes it no answer.                                            *)
(***************************************************************************)
Fairness ==
    /\ \A t \in Tasks : SF_vars(LinkStep(t)) /\ SF_vars(SidStep(t))
    /\ \A s \in Sessions : SF_vars(JoinStep(s)) /\ SF_vars(CloseStep(s))

FairSpec == Spec /\ Fairness

-----------------------------------------------------------------------------
(* Properties *)

\* Everyone in a collab came with the same media file, the one the map holds.
\* "Only the first joiner (creator) of a collab gets to set the media file":
\* a member left behind when the entry was collected or replaced would send
\* its play, pause and seek reports to viewers of another file.
CollabAgreesOnMedia ==
    \A c \in Collabs : \A s \in Participants(c) :
        /\ joinMedia[s] # None
        /\ collabMedia[c] = joinMedia[s]

\* Whoever is listed anywhere can still be sent to: a broadcast bails out at
\* the first sender that fails, so one dead entry would silence everyone
\* listed behind it. The order in which a closing session lets go of its
\* guards, and the locks around them, are what this depends on.
NoDeadSenders ==
    \A s \in Sessions :
        (\/ s \in userSenders \/ s \in sidMap
         \/ \E m \in MediaFiles : viewers[m][s] > 0
         \/ \E c \in Collabs : collabSenders[c][s] > 0) => ReceiverAlive(s)

\* A session is listed in a collab exactly as long as its handler thinks it
\* takes part, once, and in no other collab: a rejoin neither doubles the
\* events it gets nor leaves it in the collab it came from.
ParticipatesWhereItThinks ==
    \A s \in Sessions, c \in Collabs :
        collabSenders[c][s] = IF curCollab[s] = c THEN 1 ELSE 0

\* A session gets the comments of the file it holds the guard of and of no
\* other, apart from the moment within a link when the new guard has not yet
\* replaced the old one, whoever asked for the file to be opened.
NoStaleSubscription ==
    \A s \in Sessions, m \in MediaFiles :
        viewers[m][s] > 0 =>
            \/ mediaGuard[s] = m
            \/ sidLock \in Tasks /\ pc[sidLock] = "dropOld"
                /\ target[sidLock] = s /\ file[sidLock] = m

\* The map of collab files cannot outgrow the connections, although leaving
\* removes nothing from it: each session accounts for at most one entry ("will
\* keep it from growing indefinitely").
CollabMapBounded ==
    Cardinality({c \in Collabs : collabMedia[c] # None}) <= Cardinality(Sessions)

\* While anybody stays in a collab its file does not change.
MediaFixedWhileOccupied ==
    [][\A c \in Collabs :
          (\E s \in Participants(c) : collabSenders'[c][s] > 0)
              => collabMedia'[c] = collabMedia[c]]_vars

\* Opening another file than the one viewed leaves exactly one entry in its
\* list: neither lost nor doubled.
FreshOpenSubscribes ==
    [][\A t \in Tasks :
          (LinkDropOld(t) /\ mediaGuard[target[t]] # file[t])
              => viewers'[file[t]][target[t]] = 1]_vars

\* A session that has opened a file and is not being linked is a viewer of it,
\* as "Register the session as a viewer of the file" says. Opening the same
\* file again breaks it: the old guard takes the new entry along.
OpenedIsViewed ==
    \A s \in sidMap :
        (lastOpened[s] # None /\ sidLock = None) => viewers[lastOpened[s]][s] > 0

\* What the clients of the collabs see is a set of rooms (CollabRoom): joining
\* and leaving are atomic there, and an empty collab shows nothing, although
\* its file stays in the map until the next join collects it.
Room == INSTANCE CollabRoom WITH
    members <- [c \in Collabs |-> Participants(c)],
    shown <- [c \in Collabs |->
                 IF Participants(c) = {} THEN None ELSE collabMedia[c]]

ImplementsRooms == Room!Spec

\* A session that goes away is gone in the end, and out of the sid map: the
\* registration "returns a guard that will remove the sender when dropped".
\* It is not when the guard waits for a call of the organizer to let go of the
\* sid map, and that call waits behind the guard to read the map once more.
CloseCompletes == \A s \in Sessions : (pc[s] = "closeUser") ~> (pc[s] = "closed")
=============================================================================
