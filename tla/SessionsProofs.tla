--------------------------- MODULE SessionsProofs ---------------------------
(***************************************************************************)
(* Proofs about Sessions, for any number of sessions, organizer tasks,     *)
(* media files and collabs.                                                *)
(***************************************************************************)
EXTENDS Sessions, TLAPS, FiniteSetTheorems

\* Each lock is held exactly within its critical section; that of the sid map
\* may be claimed before.
LocksHeld ==
    /\ \A s \in Sessions : mapLock = s <=> pc[s] = "joinPush"
    /\ \A t \in Tasks :
          /\ pc[t] \in {"dropOld", "closeMedia"} => sidLock = t
          /\ sidLock = t =>
                pc[t] \in {"registering", "link", "closeSid", "dropOld", "closeMedia"}

\* A task that serves a command has its arguments.
CommandsPresent ==
    /\ \A t \in Tasks : pc[t] \in {"link", "dropOld"} =>
          target[t] \in Sessions /\ file[t] \in MediaFiles
    /\ \A s \in Sessions : pc[s] \in {"joinAuthz", "joinGC", "joinClaim", "joinPush"} =>
          room[s] \in Collabs /\ file[s] \in MediaFiles

\* Which lists a session may still be in, by how far its task has got.
Presence ==
    \A s \in Sessions :
        /\ s \in userSenders =>
              pc[s] \notin {"closed", "closeSid", "closeMedia", "closeCollab", "closeRx"}
        /\ s \in sidMap =>
              pc[s] \notin {"closed", "registering", "closeMedia", "closeCollab", "closeRx"}
        /\ mediaGuard[s] # None => s \in sidMap \/ pc[s] = "closeMedia"
        /\ curCollab[s] # None =>
              pc[s] \in {"idle", "link", "dropOld", "closeUser", "closeSid",
                         "closeMedia", "closeCollab"}

\* The collab lists agree with the guards, and the file map with the members;
\* an entry claimed by a session that is about to enter is still there.
Membership ==
    /\ ParticipatesWhereItThinks
    /\ \A s \in Sessions : collabGuard[s] = curCollab[s]
    /\ \A s \in Sessions : curCollab[s] # None =>
          joinMedia[s] # None /\ collabMedia[curCollab[s]] = joinMedia[s]
    /\ \A s \in Sessions : pc[s] = "joinPush" => collabMedia[room[s]] = file[s]

Linking(s, m) ==
    \E t \in Tasks : pc[t] = "dropOld" /\ target[t] = s /\ file[t] = m

\* A viewer list holds the entry of a guard, and that of a guard being made.
Viewing ==
    /\ \A t \in Tasks : pc[t] = "dropOld" =>
          target[t] \in sidMap /\ viewers[file[t]][target[t]] > 0
    /\ \A s \in Sessions, m \in MediaFiles :
          /\ ~Linking(s, m) => viewers[m][s] <= 1
          /\ mediaGuard[s] # m => viewers[m][s] <= 1
          /\ ~Linking(s, m) /\ mediaGuard[s] # m => viewers[m][s] = 0

\* The inductive invariant.
IInv ==
    /\ TypeOK
    /\ LocksHeld
    /\ CommandsPresent
    /\ Presence
    /\ Membership
    /\ Viewing

\* add_sender_to_maplist changes one entry of one list, and by one.
LEMMA AddedSender ==
    ASSUME NEW Keys, NEW list \in SenderListMap(Keys), NEW key \in Keys, NEW s \in Sessions,
           list[key][s] <= 1
    PROVE  /\ AddSender(list, key, s) \in SenderListMap(Keys)
           /\ \A r \in Sessions, k \in Keys :
                 AddSender(list, key, s)[k][r] =
                     IF r = s /\ k = key THEN list[k][r] + 1 ELSE list[k][r]
  <1> DEFINE entry == [list[key] EXCEPT ![s] = @ + 1]
  <1>1. list[key] \in [Sessions -> 0..2]
    BY DEF SenderListMap
  <1>2. entry \in [Sessions -> 0..2]
    BY <1>1
  <1>3. \A r \in Sessions : entry[r] = IF r = s THEN list[key][r] + 1 ELSE list[key][r]
    BY <1>1
  <1>4. AddSender(list, key, s) = [list EXCEPT ![key] = entry]
    BY DEF AddSender
  <1> HIDE DEF entry
  <1>5. QED
    BY <1>2, <1>3, <1>4 DEF SenderListMap

LEMMA InitIInv == Init => IInv
  BY ConstantsAssumption
  DEF Init, IInv, TypeOK, LocksHeld, CommandsPresent, Presence, Membership, Viewing,
      ParticipatesWhereItThinks, Linking, SenderListMap, Tasks, SessionLocations, OrgLocations

LEMMA NextIInv == IInv /\ [Next]_vars => IInv'
  <1> SUFFICES ASSUME IInv, [Next]_vars PROVE IInv'
    OBVIOUS
  <1> USE ConstantsAssumption DEF IInv, TypeOK, LocksHeld, CommandsPresent, Presence, Membership, Viewing,
      ParticipatesWhereItThinks, Linking, SenderListMap, Tasks, SessionLocations, OrgLocations, commandVars, userVars, viewVars, collabVars, lockVars, Goto, SidExclusive
  <1>1. ASSUME NEW s \in Sessions, RegisterUser(s) PROVE IInv'
    BY <1>1, SMTT(60) DEF RegisterUser
  <1>2. ASSUME NEW s \in Sessions, RegisterSid(s) PROVE IInv'
    BY <1>2, SMTT(60) DEF RegisterSid
  <1>3. ASSUME NEW s \in Sessions, LoginAccepted(s) PROVE IInv'
    BY <1>3, SMTT(60) DEF LoginAccepted
  <1>4. ASSUME NEW s \in Sessions, LoginRefused(s) PROVE IInv'
    BY <1>4, SMTT(60) DEF LoginRefused
  <1>5. ASSUME NEW s \in Sessions, NEW m \in MediaFiles, OpenMediaFile(s, m) PROVE IInv'
    BY <1>5, SMTT(60) DEF OpenMediaFile
  <1>6. ASSUME NEW o \in OrgTasks, NEW s \in Sessions, NEW m \in MediaFiles, ClientOpenMediaFile(o, s, m) PROVE IInv'
    BY <1>6, SMTT(60) DEF ClientOpenMediaFile
  <1>7. ASSUME NEW t \in Tasks, LinkAdd(t) PROVE IInv'
    <2>1. target[t] \in Sessions /\ file[t] \in MediaFiles /\ pc[t] = "link"
      BY <1>7 DEF LinkAdd
    <2>2. \A u \in Tasks : pc[u] # "dropOld"
      BY <1>7 DEF LinkAdd
    <2>3. \A s \in Sessions, m \in MediaFiles : viewers[m][s] <= 1
      BY <2>2
    <2>4. /\ viewers' \in SenderListMap(MediaFiles)
          /\ \A s \in Sessions, m \in MediaFiles :
                viewers'[m][s] = IF s = target[t] /\ m = file[t] THEN viewers[m][s] + 1
                                                                ELSE viewers[m][s]
      <3>1. viewers \in SenderListMap(MediaFiles) /\ viewers[file[t]][target[t]] <= 1
        BY <2>1, <2>3
      <3>2. viewers' = AddSender(viewers, file[t], target[t])
        BY <1>7 DEF LinkAdd
      <3>3. QED
        BY ONLY <2>1, <3>1, <3>2, AddedSender
    <2>5. TypeOK' /\ LocksHeld' /\ CommandsPresent' /\ Presence' /\ Membership'
      BY <1>7, <2>1, <2>4, SMTT(60) DEF LinkAdd
    <2>6. Viewing'
      <3>1. /\ target' = target /\ file' = file /\ sidMap' = sidMap /\ mediaGuard' = mediaGuard
            /\ target[t] \in sidMap
            /\ \A u \in Tasks : pc'[u] = "dropOld" <=> u = t
        BY <1>7, <2>2 DEF LinkAdd, Registered
      <3>2. \A s \in Sessions, m \in MediaFiles :
               /\ viewers[m][s] \in 0..2
               /\ mediaGuard[s] # m => viewers[m][s] = 0
        BY <2>2
      <3>3. viewers'[file[t]][target[t]] > 0
        BY ONLY <2>1, <2>4, <3>2
      <3>4. \A s \in Sessions, m \in MediaFiles :
               Linking(s, m)' <=> (s = target[t] /\ m = file[t])
        BY <3>1
      <3>5. \A u \in Tasks : pc'[u] = "dropOld" =>
               target'[u] \in sidMap' /\ viewers'[file'[u]][target'[u]] > 0
        BY <3>1, <3>3
      <3>6. \A s \in Sessions, m \in MediaFiles :
               /\ ~Linking(s, m)' => viewers'[m][s] <= 1
               /\ mediaGuard'[s] # m => viewers'[m][s] <= 1
               /\ ~Linking(s, m)' /\ mediaGuard'[s] # m => viewers'[m][s] = 0
        <4> HIDE DEF IInv, Linking
        <4>1. QED
          BY <2>3, <2>4, <3>1, <3>2, <3>4
      <3>7. QED
        BY <3>5, <3>6
    <2>7. QED
      BY <2>5, <2>6
  <1>8. ASSUME NEW t \in Tasks, LinkNotFound(t) PROVE IInv'
    BY <1>8, SMTT(60) DEF LinkNotFound, Registered
  <1>9. ASSUME NEW t \in Tasks, LinkDropOld(t) PROVE IInv'
    BY <1>9, SMTT(60) DEF LinkDropOld, ReplaceGuard, DropGuard
  <1>10. ASSUME NEW s \in Sessions, NEW c \in Collabs, NEW m \in MediaFiles, JoinCollab(s, c, m) PROVE IInv'
    BY <1>10, SMTT(60) DEF JoinCollab, LeaveList, DropGuard, Participants
  <1>11. ASSUME NEW s \in Sessions, JoinAuthorized(s) PROVE IInv'
    BY <1>11, SMTT(60) DEF JoinAuthorized
  <1>12. ASSUME NEW s \in Sessions, JoinDenied(s) PROVE IInv'
    BY <1>12, SMTT(60) DEF JoinDenied
  <1>13. ASSUME NEW s \in Sessions, JoinGC(s) PROVE IInv'
    BY <1>13, SMTT(60) DEF JoinGC, Collected, Participants
  <1>14. ASSUME NEW s \in Sessions, JoinClaim(s) PROVE IInv'
    BY <1>14, SMTT(60) DEF JoinClaim, Admitted, KeepMapLock
  <1>15. ASSUME NEW s \in Sessions, JoinMismatch(s) PROVE IInv'
    BY <1>15, SMTT(60) DEF JoinMismatch, Admitted
  <1>16. ASSUME NEW s \in Sessions, JoinPush(s) PROVE IInv'
    <2>1. pc[s] = "joinPush" /\ room[s] \in Collabs /\ file[s] \in MediaFiles
      BY <1>16 DEF JoinPush
    <2>2. curCollab[s] = None
      BY <2>1
    <2>3. /\ collabSenders' \in SenderListMap(Collabs)
          /\ \A r \in Sessions, c \in Collabs :
                collabSenders'[c][r] = IF r = s /\ c = room[s] THEN 1 ELSE collabSenders[c][r]
      <3>1. collabSenders \in SenderListMap(Collabs)
            /\ \A c \in Collabs : collabSenders[c][s] = 0
        BY <2>2
      <3>2. collabSenders' = AddSender(collabSenders, room[s], s)
        BY <1>16 DEF JoinPush
      <3>3. collabSenders[room[s]][s] <= 1
        BY <2>1, <3>1
      <3>4. QED
        BY ONLY <2>1, <3>1, <3>2, <3>3, AddedSender
    <2>4. TypeOK' /\ LocksHeld' /\ CommandsPresent' /\ Presence' /\ Viewing'
      BY <1>16, <2>1, <2>2, <2>3, SMTT(60) DEF JoinPush
    <2>5. Membership'
      BY <1>16, <2>1, <2>2, <2>3, SMTT(60) DEF JoinPush
    <2>6. QED
      BY <2>4, <2>5
  <1>17. ASSUME NEW s \in Sessions, LeaveCollab(s) PROVE IInv'
    BY <1>17, SMTT(60) DEF LeaveCollab, LeaveList, DropGuard
  <1>18. ASSUME NEW s \in Sessions, Disconnect(s) PROVE IInv'
    BY <1>18, SMTT(60) DEF Disconnect
  <1>19. ASSUME NEW s \in Sessions, CloseUser(s) PROVE IInv'
    BY <1>19, SMTT(60) DEF CloseUser
  <1>20. ASSUME NEW s \in Sessions, CloseSid(s) PROVE IInv'
    BY <1>20, SMTT(60) DEF CloseSid
  <1>21. ASSUME NEW s \in Sessions, CloseMedia(s) PROVE IInv'
    BY <1>21, SMTT(60) DEF CloseMedia, DropGuard
  <1>22. ASSUME NEW s \in Sessions, CloseCollab(s) PROVE IInv'
    BY <1>22, SMTT(60) DEF CloseCollab, LeaveList, DropGuard
  <1>23. ASSUME NEW s \in Sessions, CloseRx(s) PROVE IInv'
    BY <1>23, SMTT(60) DEF CloseRx
  <1>24. ASSUME NEW t \in Tasks, SidWaits(t) PROVE IInv'
    BY <1>24, SMTT(60) DEF SidWaits
  <1>25. ASSUME NEW o \in OrgTasks, NEW s \in Sessions, NotifySession(o, s) PROVE IInv'
    BY <1>25, SMTT(60) DEF NotifySession
  <1>26. ASSUME NEW o \in OrgTasks, NotifySend(o) PROVE IInv'
    BY <1>26, SMTT(60) DEF NotifySend
  <1>27. CASE UNCHANGED vars
    BY <1>27, SMTT(60) DEF vars
  <1>28. QED
    BY <1>1, <1>2, <1>3, <1>4, <1>5, <1>6, <1>7, <1>8, <1>9, <1>10, <1>11, <1>12, <1>13,
       <1>14, <1>15, <1>16, <1>17, <1>18, <1>19, <1>20, <1>21, <1>22, <1>23, <1>24,
       <1>25, <1>26, <1>27
    DEF Next, SidStep, LinkStep, ClientStep, JoinStep, CloseStep

-----------------------------------------------------------------------------
(* Invariants *)

\* The strengthened invariant holds in every reachable state.
THEOREM InductiveInvariant == Spec => []IInv
  BY InitIInv, NextIInv, PTL DEF Spec

\* Every variable keeps its type: in particular no list of senders ever holds
\* more than two entries of one session.
THEOREM TypeCorrect == Spec => []TypeOK
  <1>1. IInv => TypeOK
    BY DEF IInv
  <1>2. QED
    BY <1>1, InductiveInvariant, PTL

\* Everyone in a collab brought the file that the map holds for it, however
\* many sessions join, leave and disconnect around garbage collections.
THEOREM CollabsAgree == Spec => []CollabAgreesOnMedia
  <1>1. IInv => CollabAgreesOnMedia
    BY ConstantsAssumption
    DEF IInv, TypeOK, Membership, ParticipatesWhereItThinks, CollabAgreesOnMedia, Participants
  <1>2. QED
    BY <1>1, InductiveInvariant, PTL

\* No list ever holds a sender whose receiver has gone, so that a broadcast
\* never fails for a session that has ended.
THEOREM SendersAlive == Spec => []NoDeadSenders
  <1>1. IInv => NoDeadSenders
    <2> SUFFICES ASSUME IInv, NEW s \in Sessions, pc[s] = "closed"
                 PROVE  /\ s \notin userSenders /\ s \notin sidMap
                        /\ \A m \in MediaFiles : ~(viewers[m][s] > 0)
                        /\ \A c \in Collabs : ~(collabSenders[c][s] > 0)
      BY DEF NoDeadSenders, ReceiverAlive
    <2>1. s \notin userSenders /\ s \notin sidMap /\ curCollab[s] = None /\ mediaGuard[s] = None
      BY DEF IInv, Presence
    <2>2. \A c \in Collabs : collabSenders[c][s] = 0
      BY <2>1, ConstantsAssumption DEF IInv, Membership, ParticipatesWhereItThinks
    <2>3. \A m \in MediaFiles : viewers[m][s] = 0
      BY <2>1, ConstantsAssumption DEF IInv, Viewing, Linking
    <2>4. QED
      BY <2>1, <2>2, <2>3
  <1>2. QED
    BY <1>1, InductiveInvariant, PTL

\* A session is listed in the collab its handler thinks it is in, once, and
\* in no other.
THEOREM ListedWhereItThinks == Spec => []ParticipatesWhereItThinks
  <1>1. IInv => ParticipatesWhereItThinks
    BY DEF IInv, Membership
  <1>2. QED
    BY <1>1, InductiveInvariant, PTL

\* A session is subscribed to nothing but the file it holds the guard of,
\* except within the link that is replacing that guard.
THEOREM NothingStale == Spec => []NoStaleSubscription
  <1>1. IInv => NoStaleSubscription
    BY ConstantsAssumption
    DEF IInv, TypeOK, SenderListMap, Viewing, Linking, LocksHeld, NoStaleSubscription, Tasks
  <1>2. QED
    BY <1>1, InductiveInvariant, PTL

-----------------------------------------------------------------------------
(* The file map is bounded *)

\* The collabs the file map has an entry for.
Entries == {c \in Collabs : collabMedia[c] # None}

\* Each entry of the file map can be charged to a session of its own, and to
\* none that has just collected and may now claim another entry.
Charged ==
    \E payer \in [Entries -> Sessions] :
        /\ \A c, d \in Entries : payer[c] = payer[d] => c = d
        /\ \A c \in Entries : pc[payer[c]] # "joinClaim"

\* No step but garbage collection brings a session before its claim.
LEMMA WhoMayClaim ==
    ASSUME TypeOK, [Next]_vars
    PROVE  \/ /\ UNCHANGED collabMedia
              /\ \A s \in Sessions : pc'[s] = "joinClaim" => pc[s] = "joinClaim"
           \/ \E s \in Sessions : JoinGC(s) \/ JoinClaim(s)
  BY DEF TypeOK, Tasks, Goto, SessionLocations, OrgLocations, Next, SidStep, SidWaits,
         NotifySession, NotifySend,
         LinkStep, ClientStep, JoinStep, CloseStep, vars, collabVars, commandVars, userVars,
         viewVars, RegisterUser, RegisterSid, LoginAccepted, LoginRefused, OpenMediaFile,
         ClientOpenMediaFile, LinkAdd, LinkNotFound, LinkDropOld, JoinCollab, JoinAuthorized,
         JoinDenied, JoinMismatch, JoinPush, LeaveCollab, Disconnect, CloseUser, CloseSid,
         CloseMedia, CloseCollab, CloseRx

\* After a collection every entry is charged to somebody who is in its collab,
\* and a session is in one collab only.
LEMMA CollectionCharges ==
    ASSUME IInv, NEW s \in Sessions, JoinGC(s)
    PROVE  Charged'
  <1> DEFINE member == [c \in Entries' |-> CHOOSE r \in Sessions : r \in Participants(c)]
  <1>1. \A c \in Entries' : c \in Collabs /\ Participants(c) # {}
    BY DEF JoinGC, Collected, Entries, IInv, TypeOK
  <1>2. \A c \in Entries' : member[c] \in Sessions /\ member[c] \in Participants(c)
    BY <1>1 DEF Participants
  <1>3. \A c \in Collabs : \A r \in Participants(c) : r \in Sessions /\ curCollab[r] = c
    BY DEF Participants, IInv, TypeOK, Membership, ParticipatesWhereItThinks
  <1>4. \A c \in Collabs : \A r \in Participants(c) : pc[r] # "joinClaim" /\ pc[r] # "joinGC"
    BY <1>3, ConstantsAssumption DEF IInv, Presence
  <1>5. \A r \in Sessions : pc'[r] = "joinClaim" => r = s \/ pc[r] = "joinClaim"
    BY DEF JoinGC, Goto, IInv, TypeOK, Tasks
  <1>6. pc[s] = "joinGC"
    BY DEF JoinGC, Goto
  <1>7. member \in [Entries' -> Sessions]
    BY <1>2
  <1> HIDE DEF member
  <1>8. \A c, d \in Entries' : member[c] = member[d] => c = d
    BY <1>1, <1>2, <1>3
  <1>9. \A c \in Entries' : pc'[member[c]] # "joinClaim"
    BY <1>1, <1>2, <1>4, <1>5, <1>6
  <1>10. QED
    BY <1>7, <1>8, <1>9 DEF Charged

\* A session that claims an entry pays for it: nothing was charged to it.
LEMMA ClaimIsCharged ==
    ASSUME IInv, Charged, NEW s \in Sessions, JoinClaim(s)
    PROVE  Charged'
  <1>1. PICK payer \in [Entries -> Sessions] :
           /\ \A c, d \in Entries : payer[c] = payer[d] => c = d
           /\ \A c \in Entries : pc[payer[c]] # "joinClaim"
    BY DEF Charged
  <1>2. pc[s] = "joinClaim" /\ room[s] \in Collabs
    BY DEF JoinClaim, Goto, IInv, CommandsPresent
  <1>3. Entries' \subseteq Entries \cup {room[s]}
    BY <1>2 DEF JoinClaim, Entries, IInv, TypeOK
  <1>4. \A r \in Sessions : pc'[r] = "joinClaim" => r # s /\ pc[r] = "joinClaim"
    BY DEF JoinClaim, Goto, IInv, TypeOK, Tasks
  <1> DEFINE paid == [c \in Entries' |-> IF c \in Entries THEN payer[c] ELSE s]
  <1>5. paid \in [Entries' -> Sessions]
    BY <1>1
  <1>6. \A c \in Entries' : paid[c] = IF c \in Entries THEN payer[c] ELSE s
    OBVIOUS
  <1>7. \A c \in Entries : payer[c] \in Sessions /\ payer[c] # s
    BY <1>1, <1>2
  <1> HIDE DEF paid
  <1>8. \A c, d \in Entries' : paid[c] = paid[d] => c = d
    BY <1>1, <1>3, <1>6, <1>7
  <1>9. \A c \in Entries' : pc'[paid[c]] # "joinClaim"
    BY <1>1, <1>4, <1>6, <1>7
  <1>10. QED
    BY <1>5, <1>8, <1>9 DEF Charged

LEMMA InitCharged == Init => Charged
  <1> SUFFICES ASSUME Init PROVE Charged
    OBVIOUS
  <1>1. Entries = {}
    BY DEF Init, Entries
  <1> USE DEF Charged
  <1>2. [c \in Entries |-> CHOOSE s \in Sessions : TRUE] \in [Entries -> Sessions]
    BY <1>1
  <1>3. QED
    <2> WITNESS [c \in Entries |-> CHOOSE s \in Sessions : TRUE] \in [Entries -> Sessions]
    <2>1. QED
      BY <1>1

LEMMA NextCharged == IInv /\ Charged /\ [Next]_vars => Charged'
  <1> SUFFICES ASSUME IInv, Charged, [Next]_vars PROVE Charged'
    OBVIOUS
  <1>1. ASSUME NEW s \in Sessions, JoinGC(s) PROVE Charged'
    BY <1>1, CollectionCharges
  <1>2. ASSUME NEW s \in Sessions, JoinClaim(s) PROVE Charged'
    BY <1>2, ClaimIsCharged
  <1>3. ASSUME UNCHANGED collabMedia,
               \A s \in Sessions : pc'[s] = "joinClaim" => pc[s] = "joinClaim"
        PROVE  Charged'
    <2>1. Entries' = Entries
      BY <1>3 DEF Entries
    <2>2. QED
      BY <1>3, <2>1 DEF Charged
  <1>4. QED
    BY <1>1, <1>2, <1>3, WhoMayClaim DEF IInv

\* However sessions join, leave and disconnect, there are never more entries in
\* the file map than connections: with finitely many of these it cannot grow.
THEOREM CollabMapIsBounded ==
    ASSUME IsFiniteSet(Sessions)
    PROVE  Spec => []CollabMapBounded
  <1>1. ASSUME Charged PROVE CollabMapBounded
    <2>1. PICK payer \in [Entries -> Sessions] :
             \A c, d \in Entries : payer[c] = payer[d] => c = d
      BY <1>1 DEF Charged
    <2>2. payer \in Injection(Entries, Sessions)
      BY <2>1 DEF Injection, IsInjective
    <2>3. Cardinality(Entries) <= Cardinality(Sessions)
      BY <1>1, <2>2, FS_Injection
    <2>4. QED
      BY <2>3 DEF CollabMapBounded, Entries
  <1>2. Spec => []Charged
    BY InitIInv, NextIInv, InitCharged, NextCharged, PTL DEF Spec
  <1>3. Charged => CollabMapBounded
    BY <1>1
  <1>4. QED
    BY <1>2, <1>3, PTL

-----------------------------------------------------------------------------
(* Action properties *)

\* Only garbage collection and the claim of a join touch the file map.
LEMMA WhoSetsTheFile ==
    ASSUME [Next]_vars
    PROVE  \/ UNCHANGED collabMedia
           \/ \E s \in Sessions : JoinGC(s) \/ JoinClaim(s)
  BY DEF Next, SidStep, SidWaits, NotifySession, NotifySend,
         LinkStep, ClientStep, JoinStep, CloseStep, vars, collabVars, commandVars, userVars,
         viewVars, RegisterUser, RegisterSid, LoginAccepted, LoginRefused, OpenMediaFile,
         ClientOpenMediaFile, LinkAdd, LinkNotFound, LinkDropOld, JoinCollab, JoinAuthorized,
         JoinDenied, JoinMismatch, JoinPush, LeaveCollab, Disconnect, CloseUser, CloseSid,
         CloseMedia, CloseCollab, CloseRx

\* The file of a collab does not change under those who are in it and stay.
THEOREM MediaFixed == Spec => MediaFixedWhileOccupied
  <1>1. IInv /\ [Next]_vars =>
          [\A c \in Collabs : (\E s \in Participants(c) : collabSenders'[c][s] > 0)
              => collabMedia'[c] = collabMedia[c]]_vars
    <2> SUFFICES ASSUME IInv, [Next]_vars, NEW c \in Collabs, NEW r \in Participants(c)
                 PROVE  collabMedia'[c] = collabMedia[c]
      OBVIOUS
    <2>1. /\ r \in Sessions
          /\ collabMedia[c] = joinMedia[r] /\ joinMedia[r] # None
          /\ collabMedia \in [Collabs -> MediaFiles \cup {None}]
      BY ConstantsAssumption
      DEF IInv, TypeOK, Membership, ParticipatesWhereItThinks, Participants
    <2>2. ASSUME NEW s \in Sessions, JoinGC(s) PROVE collabMedia'[c] = collabMedia[c]
      BY <2>1, <2>2 DEF JoinGC, Collected
    <2>3. ASSUME NEW s \in Sessions, JoinClaim(s) PROVE collabMedia'[c] = collabMedia[c]
      BY <2>1, <2>3 DEF JoinClaim, Admitted
    <2>4. QED
      BY <2>2, <2>3, WhoSetsTheFile
  <1>2. QED
    BY <1>1, InductiveInvariant, PTL DEF Spec, MediaFixedWhileOccupied

\* A session that opens another file than the one it views ends up in its
\* list exactly once.
THEOREM FreshOpens == Spec => FreshOpenSubscribes
  <1>1. IInv => [\A t \in Tasks : (LinkDropOld(t) /\ mediaGuard[target[t]] # file[t])
                   => viewers'[file[t]][target[t]] = 1]_vars
    <2> SUFFICES ASSUME IInv, NEW t \in Tasks, LinkDropOld(t), mediaGuard[target[t]] # file[t]
                 PROVE  viewers'[file[t]][target[t]] = 1
      OBVIOUS
    <2>1. pc[t] = "dropOld" /\ target[t] \in Sessions /\ file[t] \in MediaFiles
      BY DEF LinkDropOld, Goto, IInv, CommandsPresent
    <2>2. viewers[file[t]][target[t]] = 1
      BY <2>1 DEF IInv, TypeOK, SenderListMap, Viewing
    <2>3. viewers' = DropGuard(viewers, mediaGuard[target[t]], target[t])
      BY DEF LinkDropOld, ReplaceGuard
    <2>4. QED
      BY <2>1, <2>2, <2>3 DEF DropGuard, IInv, TypeOK, SenderListMap
  <1>2. QED
    BY <1>1, InductiveInvariant, PTL DEF FreshOpenSubscribes

-----------------------------------------------------------------------------
(* Sessions implements CollabRoom                                          *)

\* The room a client sees, per collab: the refinement mapping of Room.
Members == [c \in Collabs |-> Participants(c)]

Shown == [c \in Collabs |-> IF Participants(c) = {} THEN None ELSE collabMedia[c]]

\* Leaving a list, for whatever reason, is leaving the room, or nothing.
LEMMA LeaveListRefines ==
    ASSUME IInv, NEW s \in Sessions, LeaveList(s), UNCHANGED collabMedia
    PROVE  (\E c \in Collabs : Room!Leave(s, c)) \/ UNCHANGED <<Members, Shown>>
  <1> USE DEF IInv, TypeOK, Membership, ParticipatesWhereItThinks, SenderListMap
  <1>1. CASE curCollab[s] = None
    <2>1. UNCHANGED collabSenders
      BY <1>1 DEF LeaveList, DropGuard
    <2>2. QED
      BY <2>1 DEF Members, Shown, Participants
  <1>2. ASSUME NEW c \in Collabs, c = curCollab[s] PROVE Room!Leave(s, c)
    <2>1. c # None /\ collabGuard[s] = c
      BY <1>2, ConstantsAssumption
    <2>2. collabSenders' = [collabSenders EXCEPT ![c][s] = 0]
      BY <2>1 DEF LeaveList, DropGuard
    <2>3. \A d \in Collabs, r \in Sessions :
             collabSenders'[d][r] = IF d = c /\ r = s THEN 0 ELSE collabSenders[d][r]
      BY <1>2, <2>2
    <2>4. \A d \in Collabs :
             Participants(d)' = IF d = c THEN Participants(d) \ {s} ELSE Participants(d)
      BY ONLY <2>3 DEF Participants
    <2>5. s \in Participants(c)
      BY <1>2 DEF Participants
    <2>6. Members' = [Members EXCEPT ![c] = @ \ {s}]
      BY ONLY <1>2, <2>4 DEF Members
    <2>7. Shown' = [Shown EXCEPT ![c] = IF Participants(c) = {s} THEN None ELSE @]
      BY ONLY <1>2, <2>4, <2>5, UNCHANGED collabMedia DEF Shown
    <2>8. Members[c] = Participants(c)
      BY <1>2 DEF Members
    <2>9. QED
      BY ONLY <2>5, <2>6, <2>7, <2>8 DEF Room!Leave, Members, Shown
  <1>3. QED
    BY <1>1, <1>2

\* The end of a join is entering the room.
LEMMA JoinPushRefines ==
    ASSUME IInv, NEW s \in Sessions, JoinPush(s)
    PROVE  \E c \in Collabs, m \in MediaFiles : Room!Join(s, c, m)
  <1>0. room[s] \in Collabs /\ file[s] \in MediaFiles
    BY DEF JoinPush, Goto, IInv, CommandsPresent
  <1> SUFFICES ASSUME NEW c \in Collabs, NEW m \in MediaFiles, c = room[s], m = file[s]
               PROVE  Room!Join(s, c, m)
    BY <1>0
  <1>1. pc[s] = "joinPush" /\ c \in Collabs /\ m \in MediaFiles /\ m # None
    BY ConstantsAssumption DEF JoinPush, Goto
  <1>2. /\ collabMedia' = collabMedia
        /\ collabMedia[c] = m
        /\ curCollab[s] = None
        /\ \A d \in Collabs : collabSenders[d][s] = 0
    BY <1>1, ConstantsAssumption
    DEF JoinPush, IInv, Presence, Membership, ParticipatesWhereItThinks
  <1>3. collabSenders \in SenderListMap(Collabs) /\ collabSenders[c][s] <= 1
    BY <1>1, <1>2 DEF IInv, TypeOK
  <1>4. collabSenders' = AddSender(collabSenders, c, s)
    BY DEF JoinPush
  <1>5. \A d \in Collabs, r \in Sessions :
           collabSenders'[d][r] = IF r = s /\ d = c THEN 1 ELSE collabSenders[d][r]
    BY <1>1, <1>2, <1>3, <1>4, AddedSender
  <1>5a. \A d \in Collabs :
           Participants(d)' = IF d = c THEN Participants(d) \cup {s} ELSE Participants(d)
    BY ONLY <1>5, s \in Sessions, 1 > 0 DEF Participants
  <1>6. Members' = [Members EXCEPT ![c] = @ \cup {s}]
    BY ONLY <1>1, <1>5a DEF Members
  <1>7. Shown' = [Shown EXCEPT ![c] = m]
    BY ONLY <1>1, <1>2, <1>5a DEF Shown
  <1>8. /\ \A d \in Collabs : s \notin Members[d]
        /\ Members[c] = {} \/ Shown[c] = m
    BY <1>1, <1>2 DEF Members, Shown, Participants
  <1>9. QED
    BY <1>6, <1>7, <1>8 DEF Room!Join, Members, Shown

\* Collecting the entries of empty collabs, and claiming an empty one, does
\* not show; nor does anything else that leaves the two maps alone.
LEMMA HiddenSteps ==
    ASSUME IInv, NEW s \in Sessions, JoinGC(s) \/ JoinClaim(s)
    PROVE  UNCHANGED <<Members, Shown>>
  <1>1. UNCHANGED collabSenders
    BY DEF JoinGC, JoinClaim
  <1>2. UNCHANGED Members
    BY <1>1 DEF Members, Participants
  <1>3. \A c \in Collabs : Participants(c) # {} => collabMedia[c] # None
    BY ConstantsAssumption
    DEF IInv, TypeOK, Membership, ParticipatesWhereItThinks, Participants
  <1>4. \A c \in Collabs : Participants(c)' = Participants(c)
    BY <1>1 DEF Participants
  <1>5. \A c \in Collabs : Participants(c) # {} => collabMedia'[c] = collabMedia[c]
    <2>1. CASE JoinGC(s)
      BY <2>1 DEF JoinGC, Collected
    <2>2. CASE JoinClaim(s)
      BY <1>3, <2>2 DEF JoinClaim, Admitted, IInv, TypeOK
    <2>3. QED
      BY <2>1, <2>2
  <1>6. UNCHANGED Shown
    BY <1>4, <1>5 DEF Shown
  <1>7. QED
    BY <1>2, <1>6

\* The other steps leave the collab lists and the file map alone.
LEMMA WhoTouchesTheRooms ==
    ASSUME [Next]_vars
    PROVE  \/ UNCHANGED <<collabSenders, collabMedia>>
           \/ \E s \in Sessions : JoinPush(s) \/ JoinGC(s) \/ JoinClaim(s)
           \/ \E s \in Sessions : LeaveList(s) /\ UNCHANGED collabMedia
  BY DEF Next, SidStep, SidWaits, NotifySession, NotifySend,
         LinkStep, ClientStep, JoinStep, CloseStep, vars, collabVars, commandVars, userVars,
         viewVars, RegisterUser, RegisterSid, LoginAccepted, LoginRefused, OpenMediaFile,
         ClientOpenMediaFile, LinkAdd, LinkNotFound, LinkDropOld, JoinCollab, JoinAuthorized,
         JoinDenied, JoinMismatch, LeaveCollab, Disconnect, CloseUser, CloseSid,
         CloseMedia, CloseCollab, CloseRx

\* What clients see of the collabs is a set of rooms, each showing one file:
\* the two locks, the guards and the lazy garbage collection do not show.
THEOREM RefinesRooms == Spec => ImplementsRooms
  <1>1. Init => Room!Init
    BY DEF Init, Room!Init, Participants
  <1>2. IInv /\ [Next]_vars => [Room!Next]_(Room!vars)
    <2> SUFFICES ASSUME IInv, [Next]_vars PROVE Room!Next \/ UNCHANGED <<Members, Shown>>
      BY DEF Room!vars, Members, Shown
    <2>1. CASE UNCHANGED <<collabSenders, collabMedia>>
      BY <2>1 DEF Members, Shown, Participants
    <2>2. ASSUME NEW s \in Sessions, JoinPush(s) PROVE Room!Next
      BY <2>2, JoinPushRefines DEF Room!Next
    <2>3. ASSUME NEW s \in Sessions, JoinGC(s) \/ JoinClaim(s)
          PROVE  UNCHANGED <<Members, Shown>>
      BY <2>3, HiddenSteps
    <2>4. ASSUME NEW s \in Sessions, LeaveList(s), UNCHANGED collabMedia
          PROVE  Room!Next \/ UNCHANGED <<Members, Shown>>
      BY <2>4, LeaveListRefines DEF Room!Next
    <2>5. QED
      BY <2>1, <2>2, <2>3, <2>4, WhoTouchesTheRooms
  <1>3. QED
    BY <1>1, <1>2, InductiveInvariant, PTL DEF Spec, ImplementsRooms, Room!Spec
=============================================================================
