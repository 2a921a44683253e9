------------------------- MODULE CommentSyncProofs -------------------------
(***************************************************************************)
(* Proofs about CommentSync, for any clients, organizer calls, files and   *)
(* bounds.                                                                 *)
(***************************************************************************)
EXTENDS CommentSync, TLAPS, FiniteSetTheorems

Changing == {"edit", "retract", "reread", "check", "delete", "announceDel"}

\* A task that serves a command has its arguments.
PresentAt(t) ==
    /\ pc[t] # "idle" => cmd[t] \in Command /\ cmd[t].file \in MediaFiles
    /\ pc[t] = "insert" => cmd[t].id < nextId
    /\ pc[t] \in Changing =>
           cmd[t].id \in Ids /\ cmd[t].id < nextId /\ cmd[t].file = media[cmd[t].id]
    /\ pc[t] = "announceDel" => ~Row(cmd[t].id)

CommandsPresent == \A t \in Tasks : PresentAt(t)

\* Rows have ids the database gave, and belong to a file.
RowsPast ==
    \A i \in Ids : (Row(i) => i < nextId) /\ (i < nextId => media[i] \in MediaFiles)

\* A text has no more versions than there were edits, those under way aside.
Editing == {t \in Tasks : pc[t] = "edit"}

EditsCounted ==
    /\ IsFiniteSet(Editing)
    /\ \A i \in Ids : Row(i) => text[i] + Cardinality(Editing) <= edits + 1
    /\ Cardinality(Editing) <= edits

Typed == TypeOK /\ CommandsPresent /\ RowsPast /\ EditsCounted

-----------------------------------------------------------------------------
(* Data.                                                                   *)

LEMMA IdsTyped == Ids \subseteq Nat \ {0} /\ NoId = 0 /\ NoId \notin Ids /\ Texts \subseteq Nat \ {0}
  BY ConstantsAssumption DEF Ids, NoId, Texts

LEMMA MessageTyped ==
  /\ \A m \in MediaFiles : [type |-> "openMediaFile", file |-> m] \in Message
  /\ \A m \in MediaFiles : \A c \in SUBSET Comments :
        [type |-> "addComments", file |-> m, comments |-> c] \in Message
  /\ \A i \in Ids : [type |-> "delComment", id |-> i] \in Message
  BY DEF Message

LEMMA CommentsOfTyped ==
  ASSUME TypeOK, NEW m
  PROVE  CommentsOf(m) \in SUBSET Comments
  BY DEF CommentsOf, Row, TypeOK, Comments

LEMMA BroadcastTyped ==
  ASSUME inbox \in [Sessions -> Seq(Message)], NEW t, NEW m, NEW msg \in Message,
         Broadcast(t, m, msg)
  PROVE  inbox' \in [Sessions -> Seq(Message)]
<1> HIDE DEF Message
<1> QED
  BY DEF Broadcast

LEMMA SendTyped ==
  ASSUME inbox \in [Sessions -> Seq(Message)], NEW s \in Sessions, NEW msg \in Message,
         Send(s, msg)
  PROVE  inbox' \in [Sessions -> Seq(Message)]
  BY DEF Send

LEMMA HeadTyped ==
  ASSUME NEW q \in Seq(Message), q # <<>>
  PROVE  Head(q) \in Message /\ Tail(q) \in Seq(Message)
  OBVIOUS

LEMMA ReceivedTyped ==
  ASSUME TypeOK, NEW s \in Sessions, NEW msg \in Message
  PROVE  Received(s, msg) \in [Ids -> Texts \cup {0}]
<1>1. CASE msg.type = "openMediaFile"
  BY <1>1 DEF Received
<1>2. CASE msg.type = "addComments"
  <2>1. msg.comments \in SUBSET Comments
    BY <1>2 DEF Message
  <2>2. \A i \in Ids : (\E c \in msg.comments : c[1] = i)
            => (CHOOSE c \in msg.comments : c[1] = i) \in msg.comments
    OBVIOUS
  <2>3. \A c \in Comments : c[2] \in Texts
    BY DEF Comments
  <2>4. view[s] \in [Ids -> Texts \cup {0}]
    BY DEF TypeOK
  <2> QED
    BY <1>2, <2>1, <2>2, <2>3, <2>4 DEF Received
<1>3. CASE msg.type = "delComment"
  <2>1. msg.id \in Ids
    BY <1>3 DEF Message
  <2> QED
    BY <1>3, <2>1 DEF Received, TypeOK
<1> QED
  BY <1>1, <1>2, <1>3 DEF Message

-----------------------------------------------------------------------------
(* Types.                                                                  *)

LEMMA InitTyped == Init => Typed
<1> SUFFICES ASSUME Init PROVE Typed
  OBVIOUS
<1>1. nextId \in 1 .. MaxComments + 1 /\ 1 \in Texts /\ Editing = {}
  BY ConstantsAssumption DEF Init, Texts, Editing
<1>2. media \in [Ids -> MediaFiles \cup {None}]
      /\ \A i \in Ids : i < nextId => media[i] \in MediaFiles
  BY <1>1, IdsTyped DEF Init
<1>3. TypeOK
  BY <1>1, <1>2, ConstantsAssumption DEF Init, TypeOK, Locations
<1>4. CommandsPresent
  BY DEF Init, CommandsPresent, PresentAt, Changing
<1>5. RowsPast
  BY <1>2 DEF Init, RowsPast, Row
<1>6. EditsCounted
  BY <1>1, FS_EmptySet DEF Init, EditsCounted, Row
<1> QED
  BY <1>3, <1>4, <1>5, <1>6 DEF Typed

\* A step of one task leaves the others their arguments.
LEMMA OthersPresent ==
  ASSUME CommandsPresent, NEW t,
         \A u \in Tasks \ {t} : pc'[u] = pc[u] /\ cmd'[u] = cmd[u],
         nextId \in Nat, nextId' \in Nat, nextId <= nextId',
         \A i \in Ids : i < nextId =>
             media'[i] = media[i] /\ (text[i] = 0 => text'[i] = 0),
         t \in Tasks => PresentAt(t)'
  PROVE  CommandsPresent'
<1> SUFFICES ASSUME NEW u \in Tasks \ {t} PROVE PresentAt(u)'
  BY DEF CommandsPresent
<1>1. PresentAt(u) /\ pc'[u] = pc[u] /\ cmd'[u] = cmd[u]
  BY DEF CommandsPresent
<1>2. cmd[u] \in Command => cmd[u].id \in Nat /\ cmd[u].id \in Ids \cup {NoId}
  <2>1. \A i \in Ids \cup {NoId} : i \in Nat
    BY IdsTyped
  <2> QED
    BY <2>1 DEF Command
<1> QED
  BY <1>1, <1>2 DEF PresentAt, Row, Changing

LEMMA EditsKept ==
  ASSUME EditsCounted, edits \in Nat, UNCHANGED edits, Editing' = Editing,
         \A i \in Ids : text'[i] \in {text[i], 0} \/ (text'[i] = 1)
  PROVE  EditsCounted'
<1>1. Cardinality(Editing) \in Nat
  BY FS_CardinalityType DEF EditsCounted
<1> QED
  BY <1>1 DEF EditsCounted, Row

\* A step between locations other than "edit".
LEMMA NotEditing ==
  ASSUME pc \in [Tasks -> Locations], NEW t, NEW to, to # "edit",
         pc' = [pc EXCEPT ![t] = to], pc[t] # "edit"
  PROVE  Editing' = Editing
  BY DEF Editing

LEMMA TasksTyped == Sessions \subseteq Tasks
  BY DEF Tasks

Rest == CommandsPresent /\ RowsPast /\ EditsCounted

LEMMA GoingOn ==
  ASSUME Typed, NEW t \in Tasks, NEW from, NEW to \in Locations, Goto(t, from, to),
         from \notin {"idle", "edit"}, to \notin {"idle", "insert", "edit", "announceDel"},
         to \in Changing => from \in Changing, UNCHANGED <<dbVars, cmd, edits>>
  PROVE  Rest' /\ pc' \in [Tasks -> Locations]
<1> USE DEF dbVars
<1>1. PresentAt(t) /\ nextId \in Nat /\ pc[t] = from /\ pc' = [pc EXCEPT ![t] = to]
  BY DEF Typed, CommandsPresent, TypeOK, Goto
<1>2. pc' \in [Tasks -> Locations] /\ pc'[t] = to
  BY <1>1 DEF Typed, TypeOK
<1>3. PresentAt(t)'
  BY <1>1, <1>2 DEF PresentAt, Row
<1>4. CommandsPresent'
  BY <1>1, <1>3, OthersPresent DEF Typed, TypeOK
<1>5. Editing' = Editing
  BY <1>1, NotEditing DEF Typed, TypeOK
<1>6. EditsCounted' /\ RowsPast'
  BY <1>5, EditsKept DEF RowsPast, Row, Typed, TypeOK
<1> QED
  BY <1>2, <1>4, <1>6 DEF Rest

LEMMA Finishing ==
  ASSUME Typed, NEW t \in Tasks, NEW from, Done(t, from), from # "edit",
         UNCHANGED <<dbVars, edits>>
  PROVE  /\ Rest' /\ pc' \in [Tasks -> Locations]
         /\ cmd' \in [Tasks -> Command \cup {NoCommand}]
         /\ copy' \in [Tasks -> SUBSET Comments]
<1> USE DEF dbVars
<1>1. /\ nextId \in Nat /\ pc[t] = from /\ pc' = [pc EXCEPT ![t] = "idle"]
      /\ cmd' = [cmd EXCEPT ![t] = NoCommand] /\ copy' = [copy EXCEPT ![t] = {}]
  BY DEF Typed, TypeOK, Goto, Done
<1>2. /\ pc' \in [Tasks -> Locations] /\ pc'[t] = "idle"
      /\ cmd' \in [Tasks -> Command \cup {NoCommand}]
      /\ copy' \in [Tasks -> SUBSET Comments]
  BY <1>1 DEF Typed, TypeOK, Locations
<1>3. PresentAt(t)'
  BY <1>2 DEF PresentAt, Changing
<1>4. CommandsPresent'
  BY <1>1, <1>3, OthersPresent DEF Typed, TypeOK
<1>5. Editing' = Editing
  BY <1>1, NotEditing DEF Typed, TypeOK
<1>6. EditsCounted' /\ RowsPast'
  BY <1>5, EditsKept DEF RowsPast, Row, Typed, TypeOK
<1> QED
  BY <1>2, <1>4, <1>6 DEF Rest

LEMMA Beginning ==
  ASSUME Typed, NEW t \in Tasks, NEW s \in Sessions, NEW m \in MediaFiles,
         NEW i \in Ids \cup {NoId}, NEW to \in Locations, Begin(t, s, m, i, to),
         UNCHANGED dbVars, to \notin {"idle", "announceDel"},
         to = "insert" => i < nextId,
         to \in Changing => i \in Ids /\ i < nextId /\ m = media[i]
  PROVE  /\ CommandsPresent' /\ RowsPast' /\ pc' \in [Tasks -> Locations]
         /\ cmd' \in [Tasks -> Command \cup {NoCommand}]
         /\ issued' \in 0 .. MaxCommands
         /\ to # "edit" => Editing' = Editing
<1> USE DEF dbVars
<1> DEFINE c == [session |-> s, file |-> m, id |-> i]
<1>1. /\ nextId \in Nat /\ pc' = [pc EXCEPT ![t] = to] /\ pc[t] = "idle"
      /\ cmd' = [cmd EXCEPT ![t] = c] /\ issued < MaxCommands /\ issued' = issued + 1
  BY DEF Typed, TypeOK, Goto, Begin
<1>2. c \in Command /\ c.file = m /\ c.id = i
  BY DEF Command
<1> HIDE DEF c
<1>3. /\ pc' \in [Tasks -> Locations] /\ pc'[t] = to /\ cmd'[t] = c
      /\ cmd' \in [Tasks -> Command \cup {NoCommand}]
      /\ issued' \in 0 .. MaxCommands
  BY <1>1, <1>2, ConstantsAssumption DEF Typed, TypeOK
<1>4. PresentAt(t)'
  BY <1>2, <1>3 DEF PresentAt, Row
<1>5. CommandsPresent'
  BY <1>1, <1>4, OthersPresent DEF Typed, TypeOK
<1>6. to # "edit" => Editing' = Editing
  BY <1>1, NotEditing DEF Typed, TypeOK
<1>7. RowsPast'
  BY DEF RowsPast, Row, Typed
<1> QED
  BY <1>3, <1>5, <1>6, <1>7

LEMMA OpenTyped ==
  ASSUME Typed, NEW t \in Tasks, NEW s \in Sessions, NEW m \in MediaFiles,
         OpenMediaFile(t, s, m)
  PROVE  Typed'
<1> USE DEF dbVars, viewerVars, clientVars, historyVars
<1>1. /\ CommandsPresent' /\ RowsPast' /\ pc' \in [Tasks -> Locations]
      /\ cmd' \in [Tasks -> Command \cup {NoCommand}]
      /\ issued' \in 0 .. MaxCommands /\ Editing' = Editing
  BY Beginning DEF OpenMediaFile, Locations, Changing
<1>2. TypeOK'
  BY <1>1 DEF OpenMediaFile, Typed, TypeOK
<1> QED
  BY <1>1, <1>2, EditsKept DEF OpenMediaFile, Typed, TypeOK

LEMMA OpenStepTyped ==
  ASSUME Typed, NEW t \in Tasks, OpenStep(t)
  PROVE  Typed'
<1> USE DEF dbVars, viewerVars, clientVars, historyVars, boundVars
<1>1. PresentAt(t)
  BY DEF Typed, CommandsPresent
<1>2. CASE Link(t)
  <2>1. Rest' /\ pc' \in [Tasks -> Locations]
    BY <1>2, GoingOn DEF Link, Locations, Changing
  <2>2. cmd[t].session \in Sessions /\ cmd[t].file \in MediaFiles
    BY <1>1, <1>2 DEF Link, Goto, PresentAt, Command
  <2>3. TypeOK'
    BY <1>2, <2>1, <2>2 DEF Link, Typed, TypeOK
  <2> QED
    BY <2>1, <2>3 DEF Rest, Typed
<1>3. CASE SendOpen(t)
  <2>1. Rest' /\ pc' \in [Tasks -> Locations]
    BY <1>3, GoingOn DEF SendOpen, Locations, Changing
  <2>2. cmd[t].session \in Sessions /\ cmd[t].file \in MediaFiles
    BY <1>1, <1>3 DEF SendOpen, Goto, PresentAt, Command
  <2>3. inbox' \in [Sessions -> Seq(Message)]
    BY <1>3, <2>2, SendTyped, MessageTyped DEF SendOpen, Typed, TypeOK
  <2>4. TypeOK'
    BY <1>3, <2>1, <2>3 DEF SendOpen, Typed, TypeOK
  <2> QED
    BY <2>1, <2>4 DEF Rest, Typed
<1>4. CASE OpenFails(t)
  <2>1. /\ Rest' /\ pc' \in [Tasks -> Locations]
        /\ cmd' \in [Tasks -> Command \cup {NoCommand}]
        /\ copy' \in [Tasks -> SUBSET Comments]
    BY <1>4, Finishing DEF OpenFails
  <2>2. TypeOK'
    BY <1>4, <2>1 DEF OpenFails, Typed, TypeOK
  <2> QED
    BY <2>1, <2>2 DEF Rest, Typed
<1>5. CASE ReadSnapshot(t)
  <2>1. Rest' /\ pc' \in [Tasks -> Locations]
    BY <1>5, GoingOn DEF ReadSnapshot, Locations, Changing
  <2>2. TypeOK'
    BY <1>5, <2>1, CommentsOfTyped DEF ReadSnapshot, Typed, TypeOK
  <2> QED
    BY <2>1, <2>2 DEF Rest, Typed
<1>6. CASE SendSnapshot(t)
  <2>1. /\ Rest' /\ pc' \in [Tasks -> Locations]
        /\ cmd' \in [Tasks -> Command \cup {NoCommand}]
        /\ copy' \in [Tasks -> SUBSET Comments]
    BY <1>6, Finishing DEF SendSnapshot
  <2>2. /\ cmd[t].session \in Sessions /\ cmd[t].file \in MediaFiles
        /\ copy[t] \in SUBSET Comments
    BY <1>1, <1>6 DEF SendSnapshot, Done, Goto, PresentAt, Command, Typed, TypeOK
  <2>3. inbox' \in [Sessions -> Seq(Message)]
    BY <1>6, <2>2, SendTyped, MessageTyped DEF SendSnapshot, Typed, TypeOK
  <2>4. TypeOK'
    BY <1>6, <2>1, <2>3 DEF SendSnapshot, Typed, TypeOK
  <2> QED
    BY <2>1, <2>4 DEF Rest, Typed
<1> QED
  BY <1>2, <1>3, <1>4, <1>5, <1>6 DEF OpenStep

LEMMA ThreadTyped ==
  ASSUME NEW i
  PROVE  Thread(i) \subseteq Ids /\ (i \in Ids /\ Row(i) => i \in Thread(i))
  BY DEF Thread

\* What the steps have in common that end in a message to the viewers, or without.
LEMMA EndTyped ==
  ASSUME Typed, NEW t \in Tasks, NEW from, Done(t, from), from # "edit",
         UNCHANGED <<dbVars, viewerVars, clientVars, boundVars, historyVars>>,
         inbox' \in [Sessions -> Seq(Message)]
  PROVE  Typed'
<1> USE DEF dbVars, viewerVars, clientVars, historyVars, boundVars
<1>1. /\ Rest' /\ pc' \in [Tasks -> Locations]
      /\ cmd' \in [Tasks -> Command \cup {NoCommand}]
      /\ copy' \in [Tasks -> SUBSET Comments]
  BY Finishing
<1>2. TypeOK'
  BY <1>1 DEF Typed, TypeOK
<1> QED
  BY <1>1, <1>2 DEF Rest, Typed

LEMMA InsertTyped ==
  ASSUME Typed, NEW t \in Tasks, Insert(t)
  PROVE  Typed'
<1> USE DEF viewerVars, clientVars, historyVars, boundVars
<1>1. /\ PresentAt(t) /\ pc[t] = "insert" /\ pc' = [pc EXCEPT ![t] = "announce"]
      /\ nextId \in Ids /\ nextId' = nextId + 1 /\ nextId' \in 1 .. MaxComments + 1
  BY ConstantsAssumption DEF Insert, Goto, Typed, CommandsPresent, TypeOK, Ids
<1>2. /\ cmd[t] \in Command /\ cmd[t].file \in MediaFiles /\ cmd[t].id \in Ids \cup {NoId}
      /\ 1 \in Texts /\ <<nextId, 1>> \in Comments
  BY <1>1, ConstantsAssumption DEF PresentAt, Command, Texts, Comments
<1>3. TypeOK'
  BY <1>1, <1>2 DEF Insert, Typed, TypeOK, Locations
<1>4. PresentAt(t)'
  BY <1>1, <1>2, <1>3 DEF Insert, PresentAt, Changing, Typed, TypeOK
<1>5. CommandsPresent'
  BY <1>1, <1>4, IdsTyped, OthersPresent DEF Insert, Typed, TypeOK
<1>6. Editing' = Editing
  BY <1>1, NotEditing DEF Typed, TypeOK
<1>7. EditsCounted'
  BY <1>6, EditsKept DEF Insert, Typed, TypeOK
<1>8. RowsPast'
  BY <1>1, <1>2, IdsTyped DEF Insert, RowsPast, Row, Typed, TypeOK
<1> QED
  BY <1>3, <1>5, <1>7, <1>8 DEF Typed

LEMMA EditTyped ==
  ASSUME Typed, NEW t \in Tasks, Edit(t)
  PROVE  Typed'
<1> USE DEF viewerVars, clientVars, historyVars, boundVars
<1> DEFINE i == cmd[t].id
<1>1. /\ PresentAt(t) /\ pc[t] = "edit" /\ pc' = [pc EXCEPT ![t] = "retract"]
      /\ i \in Ids /\ i < nextId /\ nextId \in Nat
  BY DEF Edit, Goto, Typed, CommandsPresent, PresentAt, Changing, TypeOK
<1>2. /\ Editing' = Editing \ {t} /\ t \in Editing
      /\ IsFiniteSet(Editing') /\ Cardinality(Editing') = Cardinality(Editing) - 1
      /\ Cardinality(Editing) \in Nat /\ Cardinality(Editing') \in Nat
  <2>1. Editing' = Editing \ {t} /\ t \in Editing
    BY <1>1 DEF Editing, Typed, TypeOK
  <2> QED
    BY <2>1, FS_RemoveElement, FS_CardinalityType DEF Typed, EditsCounted
<1>3. Row(i) => text[i] \in Nat /\ text[i] + Cardinality(Editing) <= edits + 1
  <2>1. \A n \in Texts \cup {0} : n \in Nat
    BY IdsTyped
  <2>2. text[i] \in Texts \cup {0}
    BY <1>1 DEF Typed, TypeOK
  <2> QED
    BY <1>1, <2>1, <2>2 DEF Typed, EditsCounted
<1>4. edits \in Nat /\ edits <= MaxEdits /\ MaxEdits \in Nat
  BY ConstantsAssumption DEF Typed, TypeOK
<1>5. text' \in [Ids -> Texts \cup {0}]
  <2>1. Row(i) => text[i] + 1 \in Texts
    BY <1>2, <1>3, <1>4 DEF Texts
  <2> QED
    BY <1>1, <2>1 DEF Edit, Typed, TypeOK
<1>6. TypeOK'
  BY <1>1, <1>5 DEF Edit, Typed, TypeOK, Locations
<1>7. PresentAt(t)'
  BY <1>1 DEF Edit, PresentAt, Changing, Typed, TypeOK
<1>8. \A j \in Ids : text'[j] = 0 <=> text[j] = 0
  BY <1>1, <1>3 DEF Edit, Row, Typed, TypeOK
<1>9. CommandsPresent'
  BY <1>1, <1>7, <1>8, OthersPresent DEF Edit, Typed, TypeOK
<1>10. RowsPast'
  BY <1>8 DEF Edit, RowsPast, Row, Typed
<1>11. EditsCounted'
  <2>1. \A j \in Ids : text'[j] = text[j] \/ (Row(j) /\ text[j] \in Nat /\ text'[j] = text[j] + 1)
    BY <1>1, <1>3 DEF Edit, Typed, TypeOK
  <2>2. \A j \in Ids : text[j] \in Nat /\ (text[j] # 0 => text[j] + Cardinality(Editing) <= edits + 1)
    <3>1. \A n \in Texts \cup {0} : n \in Nat
      BY IdsTyped
    <3>2. \A j \in Ids : text[j] \in Texts \cup {0}
      BY DEF Typed, TypeOK
    <3> QED
      BY <3>1, <3>2 DEF Typed, EditsCounted, Row
  <2>3. UNCHANGED edits /\ Cardinality(Editing) <= edits
    BY DEF Edit, Typed, EditsCounted
  <2>4. \A j \in Ids : text'[j] # 0 => text'[j] + Cardinality(Editing') <= edits' + 1
    BY <1>2, <1>4, <1>8, <2>1, <2>2, <2>3
  <2>5. Cardinality(Editing') <= edits'
    BY <1>2, <1>4, <2>3
  <2> QED
    BY <1>2, <2>4, <2>5 DEF EditsCounted, Row
<1> QED
  BY <1>6, <1>9, <1>10, <1>11 DEF Typed

LEMMA DeleteTyped ==
  ASSUME Typed, NEW t \in Tasks, Delete(t)
  PROVE  Typed'
<1> USE DEF viewerVars, clientVars, historyVars, boundVars
<1> DEFINE i == cmd[t].id
<1>1. /\ PresentAt(t) /\ pc[t] = "delete" /\ pc' = [pc EXCEPT ![t] = "announceDel"]
      /\ i \in Ids /\ i < nextId /\ nextId \in Nat
  BY DEF Delete, Goto, Typed, CommandsPresent, PresentAt, Changing, TypeOK
<1>2. TypeOK'
  BY <1>1, ThreadTyped DEF Delete, Typed, TypeOK, Locations
<1>3. (\A j \in Ids : text'[j] \in {text[j], 0}) /\ text'[i] = 0
  BY <1>1, ThreadTyped DEF Delete, Row
<1>4. PresentAt(t)'
  BY <1>1, <1>3 DEF Delete, PresentAt, Changing, Row, Typed, TypeOK
<1>5. CommandsPresent'
  BY <1>1, <1>3, <1>4, OthersPresent DEF Delete, Typed, TypeOK
<1>6. Editing' = Editing
  BY <1>1, NotEditing DEF Typed, TypeOK
<1>7. EditsCounted'
  BY <1>3, <1>6, EditsKept DEF Delete, Typed, TypeOK
<1>8. RowsPast'
  BY <1>3 DEF Delete, RowsPast, Row, Typed
<1> QED
  BY <1>2, <1>5, <1>7, <1>8 DEF Typed

LEMMA CommentStepTyped ==
  ASSUME Typed, NEW t \in Tasks, CommentStep(t)
  PROVE  Typed'
<1> USE DEF dbVars, viewerVars, clientVars, historyVars, boundVars
<1>1. PresentAt(t)
  BY DEF Typed, CommandsPresent
<1>2. CASE Insert(t) \/ Edit(t) \/ Delete(t)
  BY <1>2, InsertTyped, EditTyped, DeleteTyped
<1>3. CASE InsertFails(t) \/ RereadFails(t) \/ RefuseDelete(t)
  BY <1>3, EndTyped DEF InsertFails, RereadFails, RefuseDelete, Typed, TypeOK
<1>4. CASE Announce(t)
  <2>1. cmd[t].file \in MediaFiles /\ copy[t] \in SUBSET Comments
    BY <1>1, <1>4 DEF Announce, Done, Goto, PresentAt, Typed, TypeOK
  <2>2. inbox' \in [Sessions -> Seq(Message)]
    BY <1>4, <2>1, BroadcastTyped, MessageTyped DEF Announce, Typed, TypeOK
  <2> QED
    BY <1>4, <2>2, EndTyped DEF Announce
<1>5. CASE AnnounceDel(t)
  <2>1. cmd[t].id \in Ids
    BY <1>1, <1>5 DEF AnnounceDel, Done, Goto, PresentAt, Changing
  <2>2. inbox' \in [Sessions -> Seq(Message)]
    BY <1>5, <2>1, BroadcastTyped, MessageTyped DEF AnnounceDel, Typed, TypeOK
  <2> QED
    BY <1>5, <2>2, EndTyped DEF AnnounceDel
<1>6. CASE Retract(t)
  <2>1. Rest' /\ pc' \in [Tasks -> Locations]
    BY <1>6, GoingOn DEF Retract, Locations, Changing
  <2>2. cmd[t].id \in Ids
    BY <1>1, <1>6 DEF Retract, Goto, PresentAt, Changing
  <2>3. inbox' \in [Sessions -> Seq(Message)]
    BY <1>6, <2>2, BroadcastTyped, MessageTyped DEF Retract, Typed, TypeOK
  <2>4. TypeOK'
    BY <1>6, <2>1, <2>3 DEF Retract, Typed, TypeOK
  <2> QED
    BY <2>1, <2>4 DEF Rest, Typed
<1>7. CASE Reread(t)
  <2>1. Rest' /\ pc' \in [Tasks -> Locations]
    BY <1>7, GoingOn DEF Reread, Locations, Changing
  <2>2. <<cmd[t].id, text[cmd[t].id]>> \in Comments
    BY <1>1, <1>7 DEF Reread, Goto, PresentAt, Changing, Row, Comments, Typed, TypeOK
  <2>3. TypeOK'
    BY <1>7, <2>1, <2>2 DEF Reread, Typed, TypeOK
  <2> QED
    BY <2>1, <2>3 DEF Rest, Typed
<1>8. CASE NoReplies(t)
  <2>1. Rest' /\ pc' \in [Tasks -> Locations]
    BY <1>8, GoingOn DEF NoReplies, Locations, Changing
  <2>2. TypeOK'
    BY <1>8, <2>1 DEF NoReplies, Typed, TypeOK
  <2> QED
    BY <2>1, <2>2 DEF Rest, Typed
<1> QED
  BY <1>2, <1>3, <1>4, <1>5, <1>6, <1>7, <1>8 DEF CommentStep

LEMMA EditCommentTyped ==
  ASSUME Typed, NEW t \in Sessions, NEW i \in Ids, EditComment(t, i)
  PROVE  Typed'
<1> USE DEF dbVars, viewerVars, clientVars, historyVars
<1>1. i < nextId /\ media[i] \in MediaFiles /\ t \in Tasks /\ pc[t] = "idle"
  BY TasksTyped DEF EditComment, Begin, Goto, Typed, RowsPast
<1>2. /\ CommandsPresent' /\ RowsPast' /\ pc' \in [Tasks -> Locations]
      /\ cmd' \in [Tasks -> Command \cup {NoCommand}]
      /\ issued' \in 0 .. MaxCommands
  BY <1>1, Beginning DEF EditComment, Locations
<1>3. edits \in Nat /\ edits' = edits + 1 /\ edits' \in 0 .. MaxEdits /\ UNCHANGED text
  BY ConstantsAssumption DEF EditComment, Typed, TypeOK
<1>4. TypeOK'
  BY <1>2, <1>3 DEF EditComment, Typed, TypeOK
<1>5. /\ IsFiniteSet(Editing') /\ Cardinality(Editing') = Cardinality(Editing) + 1
      /\ Cardinality(Editing) \in Nat
  <2>1. Editing' = Editing \cup {t} /\ t \notin Editing
    BY <1>1 DEF EditComment, Begin, Goto, Editing, Typed, TypeOK
  <2> QED
    BY <2>1, FS_AddElement, FS_CardinalityType DEF Typed, EditsCounted
<1>6. \A j \in Ids : text[j] \in Nat
  <2>1. \A n \in Texts \cup {0} : n \in Nat
    BY IdsTyped
  <2>2. \A j \in Ids : text[j] \in Texts \cup {0}
    BY DEF Typed, TypeOK
  <2> QED
    BY <2>1, <2>2
<1>7. EditsCounted'
  BY <1>3, <1>5, <1>6 DEF EditsCounted, Row, Typed
<1> QED
  BY <1>2, <1>4, <1>7 DEF Typed

LEMMA UserStepTyped ==
  ASSUME Typed, NEW s \in Sessions, UserStep(s)
  PROVE  Typed'
<1> USE DEF dbVars, viewerVars, clientVars, historyVars, boundVars, taskVars
<1>1. s \in Tasks
  BY TasksTyped
<1>2. ASSUME NEW m \in MediaFiles, NEW i \in Ids \cup {NoId}, AddComment(s, m, i)
      PROVE  Typed'
  <2>0. i < nextId
    BY <1>2, ConstantsAssumption DEF AddComment, NoId, Typed, TypeOK
  <2>1. /\ CommandsPresent' /\ RowsPast' /\ pc' \in [Tasks -> Locations]
        /\ cmd' \in [Tasks -> Command \cup {NoCommand}]
        /\ issued' \in 0 .. MaxCommands /\ Editing' = Editing
    BY <1>1, <1>2, <2>0, Beginning DEF AddComment, Locations, Changing
  <2>2. TypeOK'
    BY <1>2, <2>1 DEF AddComment, Typed, TypeOK
  <2> QED
    BY <1>2, <2>1, <2>2, EditsKept DEF AddComment, Typed, TypeOK
<1>3. ASSUME NEW i \in Ids, DelComment(s, i)
      PROVE  Typed'
  <2>0. i < nextId /\ media[i] \in MediaFiles
    BY <1>3 DEF DelComment, Typed, RowsPast
  <2>1. /\ CommandsPresent' /\ RowsPast' /\ pc' \in [Tasks -> Locations]
        /\ cmd' \in [Tasks -> Command \cup {NoCommand}]
        /\ issued' \in 0 .. MaxCommands /\ Editing' = Editing
    BY <1>1, <1>3, <2>0, Beginning DEF DelComment, Locations, Changing
  <2>2. TypeOK'
    BY <1>3, <2>1 DEF DelComment, Typed, TypeOK
  <2> QED
    BY <1>3, <2>1, <2>2, EditsKept DEF DelComment, Typed, TypeOK
<1>4. CASE ClosePlayer(s)
  <2>1. TypeOK'
    BY <1>4 DEF ClosePlayer, Typed, TypeOK
  <2> QED
    BY <1>4, <2>1 DEF ClosePlayer, Typed, CommandsPresent, PresentAt, RowsPast, Row,
                      EditsCounted, Editing
<1>5. CASE Reconnect(s)
  <2>0. shown[s] \in MediaFiles
    BY <1>5 DEF Reconnect, Typed, TypeOK
  <2>1. /\ CommandsPresent' /\ RowsPast' /\ pc' \in [Tasks -> Locations]
        /\ cmd' \in [Tasks -> Command \cup {NoCommand}]
        /\ issued' \in 0 .. MaxCommands /\ Editing' = Editing
    BY <1>1, <1>5, <2>0, Beginning DEF Reconnect, Locations, Changing
  <2>2. TypeOK'
    BY <1>5, <2>1 DEF Reconnect, Typed, TypeOK
  <2> QED
    BY <1>5, <2>1, <2>2, EditsKept DEF Reconnect, Typed, TypeOK
<1> QED
  BY <1>2, <1>3, <1>4, <1>5, EditCommentTyped DEF UserStep

LEMMA ReceiveTyped ==
  ASSUME Typed, NEW s \in Sessions, Receive(s)
  PROVE  Typed'
<1> USE DEF dbVars, viewerVars, historyVars, boundVars, taskVars
<1>1. Head(inbox[s]) \in Message /\ Tail(inbox[s]) \in Seq(Message)
  BY HeadTyped DEF Receive, Typed, TypeOK
<1>2. Head(inbox[s]).type = "openMediaFile" => Head(inbox[s]).file \in MediaFiles
  BY <1>1 DEF Message
<1>3. Received(s, Head(inbox[s])) \in [Ids -> Texts \cup {0}]
  BY <1>1, ReceivedTyped DEF Typed
<1>4. TypeOK'
  BY <1>1, <1>2, <1>3 DEF Receive, Typed, TypeOK
<1> QED
  BY <1>4 DEF Receive, Typed, CommandsPresent, PresentAt, RowsPast, Row, EditsCounted, Editing

LEMMA NextTyped == Typed /\ [Next]_vars => Typed'
<1> SUFFICES ASSUME Typed, [Next]_vars PROVE Typed'
  OBVIOUS
<1> USE DEF dbVars, viewerVars, clientVars, historyVars, boundVars, taskVars
<1>1. ASSUME NEW t \in Tasks, NEW s \in Sessions, NEW m \in MediaFiles,
             OpenMediaFile(t, s, m)
      PROVE  Typed'
  BY <1>1, OpenTyped
<1>2. ASSUME NEW t \in Tasks, OpenStep(t)
      PROVE  Typed'
  BY <1>2, OpenStepTyped
<1>3. ASSUME NEW m \in MediaFiles, Transcoded(m)
      PROVE  Typed'
  <2>1. TypeOK'
    BY <1>3 DEF Transcoded, Typed, TypeOK
  <2> QED
    BY <1>3, <2>1 DEF Transcoded, Typed, CommandsPresent, PresentAt, RowsPast, Row,
                      EditsCounted, Editing
<1>4. ASSUME NEW s \in Sessions, CommentStep(s) \/ UserStep(s) \/ Receive(s)
      PROVE  Typed'
  BY <1>4, TasksTyped, CommentStepTyped, UserStepTyped, ReceiveTyped
<1>5. CASE UNCHANGED vars
  <2>1. TypeOK'
    BY <1>5 DEF vars, Typed, TypeOK
  <2> QED
    BY <1>5, <2>1 DEF vars, Typed, CommandsPresent, PresentAt, RowsPast, Row,
                      EditsCounted, Editing
<1> QED
  BY <1>1, <1>2, <1>3, <1>4, <1>5 DEF Next

(* Every variable keeps its type; in particular, no text has more versions *)
(* than there were edits.                                                  *)
THEOREM TypeCorrect == Spec => []TypeOK
<1>1. Typed => TypeOK
  BY DEF Typed
<1> QED
  BY InitTyped, NextTyped, <1>1, PTL DEF Spec

-----------------------------------------------------------------------------
(* Nothing is missing.                                                     *)

\* Messages q on their way to a client that shows the file f, and n of comment i:
\* after the last of them it shows m, and comment i if that is one of m.
Opens(msg) == msg.type = "openMediaFile"

Kills(msg, i) == Opens(msg) \/ (msg.type = "delComment" /\ msg.id = i)

Brings(msg, m, i) ==
    msg.type = "addComments" /\ msg.file = m /\ \E c \in msg.comments : c[1] = i

WillShow(q, f, m) ==
    \E k \in 0 .. Len(q) :
        /\ IF k = 0 THEN f = m ELSE Opens(q[k]) /\ q[k].file = m
        /\ \A l \in k + 1 .. Len(q) : ~Opens(q[l])

WillHave(q, n, m, i) ==
    \E k \in 0 .. Len(q) :
        /\ IF k = 0 THEN n # 0 ELSE Brings(q[k], m, i)
        /\ \A l \in k + 1 .. Len(q) : ~Kills(q[l], i)

\* A task is about to send comment i of m to the session s.
Carries(t, i) == \E c \in copy[t] : c[1] = i

PendingAt(t, s, m, i) ==
    /\ cmd[t].file = m
    /\ \/ cmd[t].session = s /\ pc[t] \in {"open", "snapshot"}
       \/ cmd[t].session = s /\ pc[t] = "sendSnapshot" /\ Carries(t, i)
       \/ pc[t] = "announce" /\ Carries(t, i)
       \/ pc[t] = "reread" /\ cmd[t].id = i

Pending(s, m, i) == \E t \in Tasks : PendingAt(t, s, m, i)

\* A listed client that is going to show m has every comment, or will have it.
Due(s, m, i) ==
    /\ listed[s] = m /\ Row(i) /\ media[i] = m
    /\ WillShow(inbox[s], shown[s], m)

Coming ==
    \A s \in Sessions, m \in MediaFiles, i \in Ids :
        Due(s, m, i) => WillHave(inbox[s], view[s][i], m, i) \/ Pending(s, m, i)

\* Only files that can be played are ever shown.
MayShow(q, f, m) == f = m \/ \E k \in 1 .. Len(q) : Opens(q[k]) /\ q[k].file = m

Playing ==
    \A s \in Sessions, m \in MediaFiles : MayShow(inbox[s], shown[s], m) => m \in playable

SyncInv == Typed /\ Playing /\ Coming

LEMMA AppendShows ==
  ASSUME NEW q \in Seq(Message), NEW msg \in Message, NEW f, NEW m,
         WillShow(Append(q, msg), f, m)
  PROVE  IF Opens(msg) THEN msg.file = m ELSE WillShow(q, f, m)
<1> HIDE DEF Message
<1> DEFINE p == Append(q, msg)
<1>1. /\ Len(q) \in Nat /\ Len(p) = Len(q) + 1 /\ p[Len(q) + 1] = msg
      /\ \A k \in 1 .. Len(q) : p[k] = q[k]
  OBVIOUS
<1> HIDE DEF p
<1>2. PICK k \in 0 .. Len(p) :
        /\ IF k = 0 THEN f = m ELSE Opens(p[k]) /\ p[k].file = m
        /\ \A l \in k + 1 .. Len(p) : ~Opens(p[l])
  BY DEF WillShow, p
<1>3. CASE k = Len(q) + 1
  BY <1>1, <1>2, <1>3
<1>4. CASE k \in 0 .. Len(q)
  <2>1. ~Opens(msg)
    BY <1>1, <1>2, <1>4
  <2>2. /\ IF k = 0 THEN f = m ELSE Opens(q[k]) /\ q[k].file = m
        /\ \A l \in k + 1 .. Len(q) : ~Opens(q[l])
    BY <1>1, <1>2, <1>4
  <2> QED
    BY <1>4, <2>1, <2>2 DEF WillShow
<1> QED
  BY <1>1, <1>3, <1>4

LEMMA WillIsMay ==
  ASSUME NEW q \in Seq(Message), NEW f, NEW m, WillShow(q, f, m)
  PROVE  MayShow(q, f, m)
<1> HIDE DEF Message
<1> QED
  BY DEF WillShow, MayShow

LEMMA AppendMay ==
  ASSUME NEW q \in Seq(Message), NEW msg \in Message, NEW f, NEW m,
         MayShow(Append(q, msg), f, m)
  PROVE  MayShow(q, f, m) \/ (Opens(msg) /\ msg.file = m)
<1> HIDE DEF Message
<1> DEFINE p == Append(q, msg)
<1>1. /\ Len(q) \in Nat /\ Len(p) = Len(q) + 1 /\ p[Len(q) + 1] = msg
      /\ \A k \in 1 .. Len(q) : p[k] = q[k]
  OBVIOUS
<1>2. MayShow(p, f, m)
  OBVIOUS
<1> HIDE DEF p
<1>3. CASE f = m
  BY <1>3 DEF MayShow
<1>4. ASSUME NEW k \in 1 .. Len(p), Opens(p[k]), p[k].file = m
      PROVE  MayShow(q, f, m) \/ (Opens(msg) /\ msg.file = m)
  <2>1. CASE k = Len(q) + 1
    BY <1>1, <1>4, <2>1
  <2>2. CASE k \in 1 .. Len(q)
    BY <1>1, <1>4, <2>2 DEF MayShow
  <2> QED
    BY <1>1, <2>1, <2>2
<1> QED
  BY <1>2, <1>3, <1>4 DEF MayShow

LEMMA TailMay ==
  ASSUME NEW q \in Seq(Message), q # <<>>, NEW f, NEW m,
         MayShow(Tail(q), IF Opens(Head(q)) THEN Head(q).file ELSE f, m)
  PROVE  MayShow(q, f, m)
<1> HIDE DEF Message
<1> DEFINE p == Tail(q)
<1>1. /\ Len(p) \in Nat /\ Len(q) = Len(p) + 1 /\ q[1] = Head(q)
      /\ \A k \in 1 .. Len(p) : p[k] = q[k + 1]
  OBVIOUS
<1>2. MayShow(p, IF Opens(q[1]) THEN q[1].file ELSE f, m)
  OBVIOUS
<1> HIDE DEF p
<1>3. CASE Opens(q[1]) /\ q[1].file = m
  BY <1>1, <1>3 DEF MayShow
<1>4. CASE f = m
  BY <1>4 DEF MayShow
<1>5. ASSUME NEW k \in 1 .. Len(p), Opens(p[k]), p[k].file = m
      PROVE  MayShow(q, f, m)
  <2>1. k + 1 \in 1 .. Len(q) /\ Opens(q[k + 1]) /\ q[k + 1].file = m
    BY <1>1, <1>5
  <2> QED
    BY <2>1 DEF MayShow
<1> QED
  BY <1>2, <1>3, <1>4, <1>5 DEF MayShow

LEMMA AppendHas ==
  ASSUME NEW q \in Seq(Message), NEW msg \in Message, NEW n, NEW m, NEW i,
         Brings(msg, m, i) \/ (WillHave(q, n, m, i) /\ ~Kills(msg, i))
  PROVE  WillHave(Append(q, msg), n, m, i)
<1> HIDE DEF Message
<1> DEFINE p == Append(q, msg)
<1>1. /\ Len(q) \in Nat /\ Len(p) = Len(q) + 1 /\ p[Len(q) + 1] = msg
      /\ \A k \in 1 .. Len(q) : p[k] = q[k]
  OBVIOUS
<1> HIDE DEF p
<1>2. CASE Brings(msg, m, i)
  <2>1. /\ Len(q) + 1 \in 0 .. Len(p) /\ Brings(p[Len(q) + 1], m, i) /\ Len(q) + 1 # 0
        /\ \A l \in Len(q) + 1 + 1 .. Len(p) : ~Kills(p[l], i)
    BY <1>1, <1>2
  <2> QED
    BY <2>1 DEF WillHave, p
<1>3. CASE WillHave(q, n, m, i) /\ ~Kills(msg, i)
  <2>1. PICK k \in 0 .. Len(q) :
          /\ IF k = 0 THEN n # 0 ELSE Brings(q[k], m, i)
          /\ \A l \in k + 1 .. Len(q) : ~Kills(q[l], i)
    BY <1>3 DEF WillHave
  <2>2. /\ k \in 0 .. Len(p)
        /\ IF k = 0 THEN n # 0 ELSE Brings(p[k], m, i)
        /\ \A l \in k + 1 .. Len(p) : ~Kills(p[l], i)
    BY <1>1, <1>3, <2>1
  <2> QED
    BY <2>2 DEF WillHave, p
<1> QED
  BY <1>2, <1>3

LEMMA TailShows ==
  ASSUME NEW q \in Seq(Message), q # <<>>, NEW f, NEW m,
         WillShow(Tail(q), IF Opens(Head(q)) THEN Head(q).file ELSE f, m)
  PROVE  WillShow(q, f, m)
<1> HIDE DEF Message
<1> DEFINE p == Tail(q)
           g == IF Opens(Head(q)) THEN Head(q).file ELSE f
<1>1. /\ Len(p) \in Nat /\ Len(q) = Len(p) + 1 /\ q[1] = Head(q)
      /\ \A k \in 1 .. Len(p) : p[k] = q[k + 1]
  OBVIOUS
<1>2. g = IF Opens(q[1]) THEN q[1].file ELSE f
  OBVIOUS
<1> HIDE DEF p, g
<1>3. PICK k \in 0 .. Len(p) :
        /\ IF k = 0 THEN g = m ELSE Opens(p[k]) /\ p[k].file = m
        /\ \A l \in k + 1 .. Len(p) : ~Opens(p[l])
  BY DEF WillShow, p, g
<1>4. \A l \in k + 2 .. Len(q) : ~Opens(q[l])
  <2> SUFFICES ASSUME NEW l \in k + 2 .. Len(q) PROVE ~Opens(q[l])
    OBVIOUS
  <2>1. l - 1 \in k + 1 .. Len(p) /\ p[l - 1] = q[l]
    BY <1>1
  <2> QED
    BY <1>3, <2>1
<1>5. CASE k # 0 \/ Opens(q[1])
  <2>1. k + 1 \in 0 .. Len(q) /\ Opens(q[k + 1]) /\ q[k + 1].file = m
    BY <1>1, <1>2, <1>3, <1>5
  <2> QED
    BY <1>4, <2>1 DEF WillShow
<1>6. CASE k = 0 /\ ~Opens(q[1])
  <2>1. f = m /\ \A l \in 0 + 1 .. Len(q) : ~Opens(q[l])
    BY <1>1, <1>2, <1>3, <1>4, <1>6
  <2> QED
    BY <1>1, <2>1 DEF WillShow
<1> QED
  BY <1>5, <1>6

LEMMA TailHas ==
  ASSUME NEW q \in Seq(Message), q # <<>>, NEW n, NEW next, NEW m, NEW i,
         WillHave(q, n, m, i),
         n # 0 /\ ~Kills(Head(q), i) => next # 0,
         Brings(Head(q), m, i) /\ (\A l \in 2 .. Len(q) : ~Kills(q[l], i)) => next # 0
  PROVE  WillHave(Tail(q), next, m, i)
<1> HIDE DEF Message
<1> DEFINE p == Tail(q)
<1>1. /\ Len(p) \in Nat /\ Len(q) = Len(p) + 1 /\ q[1] = Head(q)
      /\ \A k \in 1 .. Len(p) : p[k] = q[k + 1]
  OBVIOUS
<1> HIDE DEF p
<1>2. PICK k \in 0 .. Len(q) :
        /\ IF k = 0 THEN n # 0 ELSE Brings(q[k], m, i)
        /\ \A l \in k + 1 .. Len(q) : ~Kills(q[l], i)
  BY DEF WillHave
<1>3. CASE k \in {0, 1}
  <2>1. next # 0 /\ \A l \in 2 .. Len(q) : ~Kills(q[l], i)
    BY <1>1, <1>2, <1>3
  <2>2. \A l \in 0 + 1 .. Len(p) : ~Kills(p[l], i)
    BY <1>1, <2>1
  <2> QED
    BY <1>1, <2>1, <2>2 DEF WillHave, p
<1>4. CASE k \notin {0, 1}
  <2> DEFINE j == k - 1
  <2>1. j \in 0 .. Len(p) /\ j # 0 /\ Brings(p[j], m, i)
    BY <1>1, <1>2, <1>4
  <2>2. \A l \in j + 1 .. Len(p) : ~Kills(p[l], i)
    BY <1>1, <1>2, <1>4
  <2> HIDE DEF j
  <2> QED
    BY <2>1, <2>2 DEF WillHave, p
<1> QED
  BY <1>3, <1>4

\* Sending a message to some sessions, which shows no other file.
LEMMA PendingKept ==
  ASSUME NEW s, NEW m, NEW i, NEW t, Pending(s, m, i),
         \A u \in Tasks \ {t} : pc'[u] = pc[u] /\ cmd'[u] = cmd[u] /\ copy'[u] = copy[u],
         PendingAt(t, s, m, i) => PendingAt(t, s, m, i)'
  PROVE  Pending(s, m, i)'
  BY DEF Pending, PendingAt, Carries

LEMMA InitSync == Init => SyncInv
<1> SUFFICES ASSUME Init PROVE SyncInv
  OBVIOUS
<1>1. \A s \in Sessions, m \in MediaFiles :
        ~WillShow(inbox[s], shown[s], m) /\ ~MayShow(inbox[s], shown[s], m)
  BY ConstantsAssumption DEF Init, WillShow, MayShow
<1> QED
  BY <1>1, InitTyped DEF SyncInv, Playing, Coming, Due

\* A step of t that neither shows nor sends anything, to a client that is not
\* about to get something from t, or goes on to get it.
LEMMA StillComing ==
  ASSUME SyncInv, NEW s \in Sessions, NEW m \in MediaFiles, NEW i \in Ids, NEW t,
         \A u \in Tasks \ {t} : pc'[u] = pc[u] /\ cmd'[u] = cmd[u] /\ copy'[u] = copy[u],
         inbox'[s] = inbox[s], shown'[s] = shown[s], view'[s] = view[s],
         listed'[s] = listed[s], media'[i] = media[i], Row(i)' => Row(i),
         Due(s, m, i) /\ PendingAt(t, s, m, i) => PendingAt(t, s, m, i)',
         Due(s, m, i)'
  PROVE  (WillHave(inbox[s], view[s][i], m, i) \/ Pending(s, m, i))'
<1>1. Due(s, m, i)
  BY DEF Due
<1>2. WillHave(inbox[s], view[s][i], m, i) \/ Pending(s, m, i)
  BY <1>1 DEF SyncInv, Coming
<1>3. WillHave(inbox[s], view[s][i], m, i) => WillHave(inbox[s], view[s][i], m, i)'
  BY DEF WillHave
<1> QED
  BY <1>1, <1>2, <1>3, PendingKept

\* The same for a message that opens nothing.
LEMMA SentComing ==
  ASSUME SyncInv, NEW s \in Sessions, NEW m \in MediaFiles, NEW i \in Ids, NEW t,
         \A u \in Tasks \ {t} : pc'[u] = pc[u] /\ cmd'[u] = cmd[u] /\ copy'[u] = copy[u],
         NEW msg \in Message, ~Opens(msg), inbox'[s] = Append(inbox[s], msg),
         shown'[s] = shown[s], view'[s] = view[s],
         listed'[s] = listed[s], media'[i] = media[i], Row(i)' => Row(i),
         Due(s, m, i) /\ Kills(msg, i) => Pending(s, m, i)',
         Due(s, m, i) /\ PendingAt(t, s, m, i)
             => PendingAt(t, s, m, i)' \/ Brings(msg, m, i),
         Due(s, m, i)'
  PROVE  (WillHave(inbox[s], view[s][i], m, i) \/ Pending(s, m, i))'
<1>1. inbox[s] \in Seq(Message)
  BY DEF SyncInv, Typed, TypeOK
<1>2. Due(s, m, i)
  BY <1>1, AppendShows DEF Due
<1>3. WillHave(inbox[s], view[s][i], m, i) \/ Pending(s, m, i)
  BY <1>2 DEF SyncInv, Coming
<1>4. CASE Kills(msg, i)
  BY <1>2, <1>4
<1>5. CASE Brings(msg, m, i)
  BY <1>1, <1>5, AppendHas
<1>6. CASE WillHave(inbox[s], view[s][i], m, i) /\ ~Kills(msg, i)
  BY <1>1, <1>6, AppendHas
<1>7. CASE Pending(s, m, i) /\ ~Brings(msg, m, i)
  BY <1>2, <1>7, PendingKept
<1> QED
  BY <1>3, <1>4, <1>5, <1>6, <1>7

LEMMA PlayingKept ==
  ASSUME Playing, playable \subseteq playable',
         \A s \in Sessions, m \in MediaFiles :
             MayShow(inbox[s], shown[s], m)' => MayShow(inbox[s], shown[s], m) \/ m \in playable'
  PROVE  Playing'
  BY DEF Playing

LEMMA QuietStep ==
  ASSUME SyncInv, NEW t,
         \A u \in Tasks \ {t} : pc'[u] = pc[u] /\ cmd'[u] = cmd[u] /\ copy'[u] = copy[u],
         UNCHANGED <<inbox, shown, view, listed, media>>, playable \subseteq playable',
         \A i \in Ids : Row(i)' => Row(i),
         \A s \in Sessions, m \in MediaFiles, i \in Ids :
             Due(s, m, i) /\ PendingAt(t, s, m, i) => PendingAt(t, s, m, i)'
  PROVE  Playing' /\ Coming'
<1>1. Playing'
  BY PlayingKept DEF SyncInv
<1>2. Coming'
  BY StillComing DEF Coming
<1> QED
  BY <1>1, <1>2

LEMMA BroadcastStep ==
  ASSUME SyncInv, NEW t,
         \A u \in Tasks \ {t} : pc'[u] = pc[u] /\ cmd'[u] = cmd[u] /\ copy'[u] = copy[u],
         NEW msg \in Message, ~Opens(msg), Broadcast(t, cmd[t].file, msg),
         UNCHANGED <<shown, view, listed, dbVars>>,
         \A s \in Sessions, m \in MediaFiles, i \in Ids :
             /\ Due(s, m, i) /\ Kills(msg, i) => Pending(s, m, i)'
             /\ Due(s, m, i) /\ PendingAt(t, s, m, i) /\ listed[s] = cmd[t].file
                    => PendingAt(t, s, m, i)' \/ Brings(msg, m, i)
             /\ Due(s, m, i) /\ PendingAt(t, s, m, i) => listed[s] = cmd[t].file
  PROVE  Playing' /\ Coming'
<1>0. UNCHANGED <<text, media, playable>>
  BY DEF dbVars
<1>1. \A s \in Sessions : inbox[s] \in Seq(Message) /\
        inbox'[s] = IF listed[s] = cmd[t].file THEN Append(inbox[s], msg) ELSE inbox[s]
  BY DEF Broadcast, Recipients, Viewers, SyncInv, Typed, TypeOK
<1>2. Playing'
  <2>1. ASSUME NEW s \in Sessions, NEW m \in MediaFiles, MayShow(inbox[s], shown[s], m)'
        PROVE  MayShow(inbox[s], shown[s], m)
    BY <1>1, <2>1, AppendMay
  <2> QED
    BY <1>0, <2>1, PlayingKept DEF SyncInv
<1>3. Coming'
  <2> SUFFICES ASSUME NEW s \in Sessions, NEW m \in MediaFiles, NEW i \in Ids, Due(s, m, i)'
               PROVE  (WillHave(inbox[s], view[s][i], m, i) \/ Pending(s, m, i))'
    BY DEF Coming
  <2>1. CASE listed[s] = cmd[t].file
    BY <1>0, <1>1, <2>1, SentComing DEF Row
  <2>2. CASE listed[s] # cmd[t].file
    BY <1>0, <1>1, <2>2, StillComing DEF Row
  <2> QED
    BY <2>1, <2>2
<1> QED
  BY <1>2, <1>3

LEMMA SendShows ==
  ASSUME NEW s \in Sessions, NEW msg \in Message, inbox[s] \in Seq(Message),
         inbox'[s] = Append(inbox[s], msg), UNCHANGED shown,
         \A o \in Sessions \ {s} : inbox'[o] = inbox[o],
         NEW o \in Sessions, NEW n, MayShow(inbox[o], shown[o], n)'
  PROVE  MayShow(inbox[o], shown[o], n) \/ (Opens(msg) /\ msg.file = n)
<1>1. MayShow(inbox'[o], shown[o], n)
  OBVIOUS
<1>2. CASE o = s
  <2>1. MayShow(Append(inbox[s], msg), shown[s], n)
    BY <1>1, <1>2
  <2> QED
    BY <1>2, <2>1, AppendMay
<1>3. CASE o # s
  BY <1>1, <1>3
<1> QED
  BY <1>2, <1>3

LEMMA BeginSync ==
  ASSUME SyncInv, NEW t \in Tasks, NEW s, NEW m, NEW i, NEW to, Begin(t, s, m, i, to),
         UNCHANGED <<dbVars, viewerVars, inbox, clientVars, copy>>
  PROVE  Playing' /\ Coming'
<1>1. /\ pc[t] = "idle"
      /\ \A u \in Tasks \ {t} : pc'[u] = pc[u] /\ cmd'[u] = cmd[u] /\ copy'[u] = copy[u]
  BY DEF Begin, Goto, SyncInv, Typed, TypeOK
<1> QED
  BY <1>1, QuietStep DEF dbVars, viewerVars, clientVars, PendingAt, Row

LEMMA OpenStepSync ==
  ASSUME SyncInv, NEW t \in Tasks, OpenStep(t)
  PROVE  Playing' /\ Coming'
<1> USE DEF dbVars, viewerVars, clientVars
<1> DEFINE s == cmd[t].session
           m == cmd[t].file
<1>1. /\ \A u \in Tasks \ {t} : pc'[u] = pc[u] /\ cmd'[u] = cmd[u] /\ copy'[u] = copy[u]
      /\ UNCHANGED <<text, media, playable, shown, view>>
  BY DEF OpenStep, Link, SendOpen, OpenFails, ReadSnapshot, SendSnapshot, Done, Goto,
         SyncInv, Typed, TypeOK
<1>2. s \in Sessions /\ m \in MediaFiles
  <2>1. PresentAt(t) /\ pc[t] # "idle"
    BY DEF OpenStep, Link, SendOpen, OpenFails, ReadSnapshot, SendSnapshot, Done, Goto,
           SyncInv, Typed, CommandsPresent
  <2> QED
    BY <2>1 DEF PresentAt, Command
<1>3. CASE Link(t)
  <2>1. /\ pc[t] = "link" /\ pc'[t] = "open" /\ UNCHANGED <<inbox, cmd>>
        /\ listed'[s] \in {None, m} /\ \A o \in Sessions \ {s} : listed'[o] = listed[o]
    BY <1>2, <1>3 DEF Link, Goto, SyncInv, Typed, TypeOK
  <2>2. Playing'
    BY <1>1, <2>1, PlayingKept DEF SyncInv
  <2>3. ASSUME NEW o \in Sessions, NEW n \in MediaFiles, NEW i \in Ids, Due(o, n, i)'
        PROVE  (WillHave(inbox[o], view[o][i], n, i) \/ Pending(o, n, i))'
    <3>1. CASE o = s
      <4>1. n = m
        BY <2>1, <2>3, <3>1, ConstantsAssumption DEF Due
      <4>2. PendingAt(t, o, n, i)'
        BY <2>1, <3>1, <4>1 DEF PendingAt
      <4> QED
        BY <4>2 DEF Pending
    <3>2. CASE o # s
      BY <1>1, <2>1, <2>3, <3>2, StillComing DEF PendingAt, Row
    <3> QED
      BY <3>1, <3>2
  <2> QED
    BY <2>2, <2>3 DEF Coming
<1>4. CASE SendOpen(t)
  <2> DEFINE msg == [type |-> "openMediaFile", file |-> m]
  <2>1. /\ pc[t] = "open" /\ pc'[t] = "snapshot" /\ UNCHANGED <<listed, cmd>> /\ m \in playable
        /\ inbox'[s] = Append(inbox[s], msg) /\ inbox[s] \in Seq(Message)
        /\ \A o \in Sessions \ {s} : inbox'[o] = inbox[o]
    BY <1>2, <1>4 DEF SendOpen, Send, Goto, SyncInv, Typed, TypeOK
  <2>2. msg \in Message /\ Opens(msg) /\ msg.file = m
    BY <1>2, MessageTyped DEF Opens
  <2> HIDE DEF msg
  <2>3. \A n \in MediaFiles : WillShow(inbox'[s], shown'[s], n) => n = m
    BY <1>1, <2>1, <2>2, AppendShows
  <2>4. Playing'
    <3>1. ASSUME NEW o \in Sessions, NEW n \in MediaFiles, MayShow(inbox[o], shown[o], n)'
          PROVE  MayShow(inbox[o], shown[o], n) \/ n \in playable
      <4>1. msg \in Message /\ s \in Sessions /\ UNCHANGED shown
        BY <1>1, <1>2, <2>2
      <4>2. MayShow(inbox[o], shown[o], n) \/ (Opens(msg) /\ msg.file = n)
        BY <2>1, <3>1, <4>1, SendShows
      <4> QED
        BY <2>1, <2>2, <4>2
    <3> QED
      BY <1>1, <3>1, PlayingKept DEF SyncInv
  <2>5. ASSUME NEW o \in Sessions, NEW n \in MediaFiles, NEW i \in Ids, Due(o, n, i)'
        PROVE  (WillHave(inbox[o], view[o][i], n, i) \/ Pending(o, n, i))'
    <3>1. CASE o = s
      <4>1. n = m
        BY <2>3, <2>5, <3>1 DEF Due
      <4>2. PendingAt(t, o, n, i)'
        BY <2>1, <3>1, <4>1 DEF PendingAt
      <4> QED
        BY <4>2 DEF Pending
    <3>2. CASE o # s
      BY <1>1, <2>1, <2>5, <3>2, StillComing DEF PendingAt, Row
    <3> QED
      BY <3>1, <3>2
  <2> QED
    BY <2>4, <2>5 DEF Coming
<1>5. CASE OpenFails(t)
  <2>1. ASSUME NEW o \in Sessions, NEW n \in MediaFiles, NEW i \in Ids, Due(o, n, i)
        PROVE  ~PendingAt(t, o, n, i)
    <3>1. n \in playable
      BY <2>1, WillIsMay DEF Due, SyncInv, Playing, Typed, TypeOK
    <3> QED
      BY <1>5, <3>1 DEF OpenFails, Done, Goto, PendingAt
  <2> QED
    BY <1>1, <1>5, <2>1, QuietStep DEF OpenFails, Row
<1>6. CASE ReadSnapshot(t)
  <2>1. /\ pc[t] = "snapshot" /\ pc'[t] = "sendSnapshot" /\ UNCHANGED <<listed, cmd, inbox>>
        /\ copy'[t] = CommentsOf(m)
    BY <1>6 DEF ReadSnapshot, Goto, SyncInv, Typed, TypeOK
  <2>2. ASSUME NEW o \in Sessions, NEW n \in MediaFiles, NEW i \in Ids,
               Due(o, n, i), PendingAt(t, o, n, i)
        PROVE  PendingAt(t, o, n, i)'
    <3>1. <<i, text[i]>> \in CommentsOf(m)
      BY <2>2 DEF Due, PendingAt, CommentsOf
    <3>2. Carries(t, i)'
      BY <2>1, <3>1 DEF Carries
    <3> QED
      BY <2>1, <2>2, <3>2 DEF PendingAt
  <2> QED
    BY <1>1, <2>1, <2>2, QuietStep DEF Row
<1>7. CASE SendSnapshot(t)
  <2> DEFINE msg == [type |-> "addComments", file |-> m, comments |-> copy[t]]
  <2>1. /\ pc[t] = "sendSnapshot" /\ UNCHANGED listed
        /\ inbox'[s] = Append(inbox[s], msg) /\ inbox[s] \in Seq(Message)
        /\ \A o \in Sessions \ {s} : inbox'[o] = inbox[o]
        /\ copy[t] \in SUBSET Comments
    BY <1>2, <1>7 DEF SendSnapshot, Send, Done, Goto, SyncInv, Typed, TypeOK
  <2>2. /\ msg \in Message /\ ~Opens(msg) /\ \A i : ~Kills(msg, i)
        /\ \A i : Carries(t, i) => Brings(msg, m, i)
    BY <1>2, <2>1, MessageTyped DEF Opens, Kills, Brings, Carries
  <2> HIDE DEF msg
  <2>3. Playing'
    <3>1. ASSUME NEW o \in Sessions, NEW n \in MediaFiles, MayShow(inbox[o], shown[o], n)'
          PROVE  MayShow(inbox[o], shown[o], n)
      BY <1>1, <1>2, <2>1, <2>2, <3>1, SendShows
    <3> QED
      BY <1>1, <3>1, PlayingKept DEF SyncInv
  <2>4. ASSUME NEW o \in Sessions, NEW n \in MediaFiles, NEW i \in Ids, Due(o, n, i)'
        PROVE  (WillHave(inbox[o], view[o][i], n, i) \/ Pending(o, n, i))'
    <3>1. CASE o = s
      <4>1. PendingAt(t, o, n, i) => Brings(msg, n, i)
        BY <2>1, <2>2 DEF PendingAt
      <4> QED
        BY <1>1, <2>1, <2>2, <2>4, <3>1, <4>1, SentComing DEF Row
    <3>2. CASE o # s
      BY <1>1, <2>1, <2>4, <3>2, StillComing DEF PendingAt, Row
    <3> QED
      BY <3>1, <3>2
  <2> QED
    BY <2>3, <2>4 DEF Coming
<1> QED
  BY <1>3, <1>4, <1>5, <1>6, <1>7 DEF OpenStep

LEMMA CommentStepSync ==
  ASSUME SyncInv, NEW t \in Tasks, CommentStep(t), Typed'
  PROVE  Playing' /\ Coming'
<1> USE DEF dbVars, viewerVars, clientVars
<1> DEFINE j == cmd[t].id
<1>1. /\ \A u \in Tasks \ {t} : pc'[u] = pc[u] /\ cmd'[u] = cmd[u] /\ copy'[u] = copy[u]
      /\ UNCHANGED <<playable, shown, view, listed>>
  BY DEF CommentStep, Insert, InsertFails, Announce, Edit, Retract, Reread, RereadFails,
         NoReplies, RefuseDelete, Delete, AnnounceDel, Done, Goto,
         SyncInv, Typed, TypeOK
<1>2. PresentAt(t)
  BY DEF SyncInv, Typed, CommandsPresent
<1>3. CASE Insert(t)
  <2>1. /\ pc[t] = "insert" /\ pc'[t] = "announce" /\ UNCHANGED <<inbox, cmd>>
        /\ text' = [text EXCEPT ![nextId] = 1]
        /\ media' = [media EXCEPT ![nextId] = cmd[t].file]
        /\ copy'[t] = {<<nextId, 1>>}
    BY <1>3 DEF Insert, Goto, SyncInv, Typed, TypeOK
  <2>2. Playing'
    BY <1>1, <2>1, PlayingKept DEF SyncInv
  <2>3. ASSUME NEW s \in Sessions, NEW m \in MediaFiles, NEW i \in Ids, Due(s, m, i)'
        PROVE  (WillHave(inbox[s], view[s][i], m, i) \/ Pending(s, m, i))'
    <3>1. CASE i = nextId
      <4>1. cmd'[t].file = m
        BY <2>1, <2>3, <3>1 DEF Due, SyncInv, Typed, TypeOK
      <4>2. PendingAt(t, s, m, i)'
        BY <2>1, <3>1, <4>1 DEF PendingAt, Carries
      <4> QED
        BY <4>2 DEF Pending
    <3>2. CASE i # nextId
      <4>1. media'[i] = media[i] /\ (Row(i)' => Row(i))
        BY <2>1, <3>2 DEF Row, SyncInv, Typed, TypeOK
      <4> QED
        BY <1>1, <2>1, <2>3, <4>1, StillComing DEF PendingAt
    <3> QED
      BY <3>1, <3>2
  <2> QED
    BY <2>2, <2>3 DEF Coming
<1>4. CASE InsertFails(t) \/ NoReplies(t) \/ RefuseDelete(t)
  <2>1. pc[t] \in {"insert", "check"} /\ UNCHANGED <<inbox, text, media>>
    BY <1>4 DEF InsertFails, NoReplies, RefuseDelete, Done, Goto
  <2> QED
    BY <1>1, <2>1, QuietStep DEF PendingAt, Row
<1>5. CASE Edit(t) \/ Delete(t)
  <2>1. pc[t] \in {"edit", "delete"} /\ UNCHANGED <<inbox, media>>
    BY <1>5 DEF Edit, Delete, Goto
  <2>2. \A i \in Ids : Row(i)' => Row(i)
    BY <1>5 DEF Edit, Delete, Row, SyncInv, Typed, TypeOK
  <2> QED
    BY <1>1, <2>1, <2>2, QuietStep DEF PendingAt
<1>6. CASE Reread(t)
  <2>1. /\ pc[t] = "reread" /\ pc'[t] = "announce" /\ UNCHANGED <<inbox, text, media, cmd>>
        /\ copy'[t] = {<<j, text[j]>>}
    BY <1>6 DEF Reread, Goto, SyncInv, Typed, TypeOK
  <2>2. ASSUME NEW s \in Sessions, NEW m \in MediaFiles, NEW i \in Ids, PendingAt(t, s, m, i)
        PROVE  PendingAt(t, s, m, i)'
    BY <2>1, <2>2 DEF PendingAt, Carries
  <2> QED
    BY <1>1, <2>1, <2>2, QuietStep DEF Row
<1>7. CASE RereadFails(t)
  <2>1. pc[t] = "reread" /\ ~Row(j) /\ UNCHANGED <<inbox, text, media>>
    BY <1>7 DEF RereadFails, Done, Goto
  <2> QED
    BY <1>1, <2>1, QuietStep DEF PendingAt, Due, Row
<1>8. CASE Announce(t)
  <2> DEFINE msg == [type |-> "addComments", file |-> cmd[t].file, comments |-> copy[t]]
  <2>1. pc[t] = "announce" /\ copy[t] \in SUBSET Comments /\ cmd[t].file \in MediaFiles
    BY <1>2, <1>8 DEF Announce, Done, Goto, PresentAt, SyncInv, Typed, TypeOK
  <2>2. /\ msg \in Message /\ ~Opens(msg) /\ \A i : ~Kills(msg, i)
        /\ \A i : Carries(t, i) => Brings(msg, cmd[t].file, i)
    BY <2>1, MessageTyped DEF Opens, Kills, Brings, Carries
  <2>3. Broadcast(t, cmd[t].file, msg) /\ UNCHANGED dbVars
    BY <1>8 DEF Announce
  <2> HIDE DEF msg
  <2>4. \A s \in Sessions, m \in MediaFiles, i \in Ids :
          Due(s, m, i) /\ PendingAt(t, s, m, i)
              => Brings(msg, m, i) /\ listed[s] = cmd[t].file
    BY <2>1, <2>2 DEF PendingAt, Due
  <2> QED
    BY <1>1, <2>2, <2>3, <2>4, BroadcastStep
<1>9. CASE Retract(t) \/ AnnounceDel(t)
  <2> DEFINE msg == [type |-> "delComment", id |-> j]
  <2>1. /\ pc[t] \in {"retract", "announceDel"} /\ j \in Ids
        /\ cmd[t].file = media[j] /\ (pc[t] = "announceDel" => ~Row(j))
        /\ pc[t] = "retract" => pc'[t] = "reread" /\ UNCHANGED cmd
    BY <1>2, <1>9 DEF Retract, AnnounceDel, Done, Goto, PresentAt, Changing,
                      SyncInv, Typed, TypeOK
  <2>2. msg \in Message /\ ~Opens(msg) /\ \A i : Kills(msg, i) => i = j
    BY <2>1, MessageTyped DEF Opens, Kills
  <2>3. Broadcast(t, cmd[t].file, msg) /\ UNCHANGED dbVars
    BY <1>9 DEF Retract, AnnounceDel
  <2> HIDE DEF msg
  <2>4. ASSUME NEW s \in Sessions, NEW m \in MediaFiles, NEW i \in Ids,
               Due(s, m, i), Kills(msg, i)
        PROVE  Pending(s, m, i)'
    <3>1. i = j /\ pc[t] = "retract" /\ cmd[t].file = m
      BY <2>1, <2>2, <2>4 DEF Due
    <3>2. PendingAt(t, s, m, i)'
      BY <2>1, <3>1 DEF PendingAt
    <3> QED
      BY <3>2 DEF Pending
  <2>5. \A s, m, i : ~PendingAt(t, s, m, i)
    BY <2>1 DEF PendingAt
  <2> QED
    BY <1>1, <2>2, <2>3, <2>4, <2>5, BroadcastStep
<1> QED
  BY <1>3, <1>4, <1>5, <1>6, <1>7, <1>8, <1>9 DEF CommentStep

LEMMA ReceivedKeeps ==
  ASSUME TypeOK, NEW s \in Sessions, NEW msg \in Message, NEW i \in Ids,
         (view[s][i] # 0 /\ ~Kills(msg, i)) \/ Brings(msg, shown[s], i)
  PROVE  Received(s, msg)[i] # 0
<1>1. view[s] \in [Ids -> Texts \cup {0}] /\ ~Opens(msg)
  BY DEF TypeOK, Kills, Brings, Opens
<1>2. CASE msg.type = "addComments"
  <2>1. \A c \in msg.comments : c \in Comments /\ c[2] # 0
    BY <1>2, IdsTyped DEF Message, Comments
  <2>2. CASE msg.file = shown[s] /\ \E c \in msg.comments : c[1] = i
    <3>1. (CHOOSE c \in msg.comments : c[1] = i) \in msg.comments
      BY <2>2
    <3>2. Received(s, msg)[i] = (CHOOSE c \in msg.comments : c[1] = i)[2]
      BY <1>2, <2>2 DEF Received
    <3> QED
      BY <2>1, <3>1, <3>2
  <2>3. CASE ~(msg.file = shown[s] /\ \E c \in msg.comments : c[1] = i)
    <3>1. Received(s, msg)[i] = view[s][i]
      BY <1>2, <2>3 DEF Received
    <3> QED
      BY <2>3, <3>1 DEF Brings
  <2> QED
    BY <2>2, <2>3
<1>3. CASE msg.type = "delComment"
  BY <1>1, <1>3 DEF Received, Kills, Brings
<1> QED
  BY <1>1, <1>2, <1>3 DEF Message, Opens

LEMMA ReceiveSync ==
  ASSUME SyncInv, NEW s \in Sessions, Receive(s)
  PROVE  Playing' /\ Coming'
<1> USE DEF dbVars, viewerVars, taskVars
<1> DEFINE q == inbox[s]
           h == Head(q)
<1>1. /\ q \in Seq(Message) /\ q # <<>> /\ h \in Message /\ h = q[1]
      /\ inbox'[s] = Tail(q) /\ view'[s] = Received(s, h)
      /\ shown'[s] = IF Opens(h) THEN h.file ELSE shown[s]
      /\ \A o \in Sessions \ {s} : /\ inbox'[o] = inbox[o] /\ view'[o] = view[o]
                                    /\ shown'[o] = shown[o]
      /\ UNCHANGED <<playable, text, media, listed, pc, cmd, copy>>
  BY HeadTyped DEF Receive, Opens, SyncInv, Typed, TypeOK
<1>2. ASSUME NEW o \in Sessions, NEW m
      PROVE  /\ WillShow(inbox'[o], shown'[o], m) => WillShow(inbox[o], shown[o], m)
             /\ MayShow(inbox'[o], shown'[o], m) => MayShow(inbox[o], shown[o], m)
  BY <1>1, TailShows, TailMay
<1>3. Playing'
  BY <1>1, <1>2, PlayingKept DEF SyncInv
<1>4. ASSUME NEW o \in Sessions, NEW m \in MediaFiles, NEW i \in Ids, Due(o, m, i)'
      PROVE  (WillHave(inbox[o], view[o][i], m, i) \/ Pending(o, m, i))'
  <2>1. Due(o, m, i)
    BY <1>1, <1>2, <1>4 DEF Due, Row
  <2>2. Pending(o, m, i) => Pending(o, m, i)'
    BY <1>1 DEF Pending, PendingAt, Carries
  <2>3. CASE WillHave(inbox[o], view[o][i], m, i) /\ o # s
    BY <1>1, <2>3
  <2>4. CASE WillHave(inbox[o], view[o][i], m, i) /\ o = s
    <3>1. view[s][i] # 0 /\ ~Kills(h, i) => view'[s][i] # 0
      BY <1>1, ReceivedKeeps DEF SyncInv, Typed
    <3>2. ASSUME Brings(h, m, i), \A l \in 2 .. Len(q) : ~Kills(q[l], i)
          PROVE  view'[s][i] # 0
      <4>1. PICK k \in 0 .. Len(q) : IF k = 0 THEN shown[s] = m ELSE Opens(q[k])
        BY <2>1, <2>4 DEF Due, WillShow
      <4>2. \A l \in 2 .. Len(q) : ~Opens(q[l])
        BY <3>2 DEF Kills
      <4>3. ~Opens(q[1])
        BY <1>1, <3>2 DEF Brings, Opens
      <4>4. Len(q) \in Nat
        BY <1>1
      <4>5. shown[s] = m
        <5> HIDE DEF q
        <5> QED
          BY <4>1, <4>2, <4>3, <4>4
      <4> QED
        BY <1>1, <3>2, <4>5, ReceivedKeeps DEF SyncInv, Typed
    <3>3. WillHave(q, view[s][i], m, i)
      BY <2>4
    <3>4. WillHave(Tail(q), view'[s][i], m, i)
      BY <1>1, <3>1, <3>2, <3>3, TailHas
    <3> QED
      BY <1>1, <2>4, <3>4
  <2> QED
    BY <2>1, <2>2, <2>3, <2>4 DEF SyncInv, Coming
<1> QED
  BY <1>3, <1>4 DEF Coming

LEMMA ClosePlayerSync ==
  ASSUME SyncInv, NEW s \in Sessions, ClosePlayer(s)
  PROVE  Playing' /\ Coming'
<1> USE DEF dbVars, viewerVars, taskVars
<1>1. /\ UNCHANGED <<inbox, playable, text, media, listed, pc, cmd, copy>>
      /\ shown'[s] = None
      /\ \A o \in Sessions \ {s} : view'[o] = view[o] /\ shown'[o] = shown[o]
  BY DEF ClosePlayer, SyncInv, Typed, TypeOK
<1>2. ASSUME NEW o \in Sessions, NEW m \in MediaFiles, WillShow(inbox'[o], shown'[o], m)
      PROVE  /\ WillShow(inbox[o], shown[o], m)
             /\ o = s => \E k \in 1 .. Len(inbox[o]) : Opens(inbox[o][k])
  BY <1>1, <1>2, ConstantsAssumption DEF WillShow
<1>3. Playing'
  <2>1. \A o \in Sessions, m \in MediaFiles :
          MayShow(inbox[o], shown[o], m)' => MayShow(inbox[o], shown[o], m)
    BY <1>1, ConstantsAssumption DEF MayShow
  <2> QED
    BY <1>1, <2>1, PlayingKept DEF SyncInv
<1>4. ASSUME NEW o \in Sessions, NEW m \in MediaFiles, NEW i \in Ids, Due(o, m, i)'
      PROVE  (WillHave(inbox[o], view[o][i], m, i) \/ Pending(o, m, i))'
  <2>1. Due(o, m, i)
    BY <1>1, <1>2, <1>4 DEF Due, Row
  <2>2. Pending(o, m, i) => Pending(o, m, i)'
    BY <1>1 DEF Pending, PendingAt, Carries
  <2>3. CASE WillHave(inbox[o], view[o][i], m, i) /\ o # s
    BY <1>1, <2>3
  <2>4. CASE WillHave(inbox[o], view[o][i], m, i) /\ o = s
    <3>1. PICK k \in 0 .. Len(inbox[s]) :
            /\ IF k = 0 THEN view[s][i] # 0 ELSE Brings(inbox[s][k], m, i)
            /\ \A l \in k + 1 .. Len(inbox[s]) : ~Kills(inbox[s][l], i)
      BY <2>4 DEF WillHave
    <3>2. PICK l \in 1 .. Len(inbox[s]) : Opens(inbox[s][l])
      BY <1>2, <1>4, <2>4 DEF Due
    <3>3. k # 0
      BY <3>1, <3>2 DEF Kills
    <3>4. WillHave(inbox[s], view'[s][i], m, i)
      BY <3>1, <3>3 DEF WillHave
    <3> QED
      BY <1>1, <2>4, <3>4
  <2> QED
    BY <2>1, <2>2, <2>3, <2>4 DEF SyncInv, Coming
<1> QED
  BY <1>3, <1>4 DEF Coming

LEMMA ReconnectSync ==
  ASSUME SyncInv, NEW s \in Sessions, Reconnect(s)
  PROVE  Playing' /\ Coming'
<1> USE DEF dbVars, clientVars
<1>1. /\ UNCHANGED <<playable, text, media, shown, view, copy>> /\ pc[s] = "idle"
      /\ inbox'[s] = <<>> /\ listed'[s] = None /\ shown[s] # None
      /\ \A o \in Sessions \ {s} : inbox'[o] = inbox[o] /\ listed'[o] = listed[o]
      /\ \A u \in Tasks \ {s} : pc'[u] = pc[u] /\ cmd'[u] = cmd[u] /\ copy'[u] = copy[u]
  BY DEF Reconnect, Begin, Goto, SyncInv, Typed, TypeOK
<1>2. Coming'
  <2> SUFFICES ASSUME NEW o \in Sessions, NEW m \in MediaFiles, NEW i \in Ids, Due(o, m, i)'
               PROVE  (WillHave(inbox[o], view[o][i], m, i) \/ Pending(o, m, i))'
    BY DEF Coming
  <2>1. o # s
    BY <1>1, ConstantsAssumption DEF Due
  <2> QED
    BY <1>1, <2>1, StillComing DEF PendingAt, Row
<1>3. Playing'
  <2>1. \A o \in Sessions, m \in MediaFiles :
          MayShow(inbox[o], shown[o], m)' => MayShow(inbox[o], shown[o], m)
    BY <1>1 DEF MayShow
  <2> QED
    BY <1>1, <2>1, PlayingKept DEF SyncInv
<1> QED
  BY <1>2, <1>3

LEMMA NextSync == SyncInv /\ [Next]_vars => SyncInv'
<1> SUFFICES ASSUME SyncInv, [Next]_vars PROVE SyncInv'
  OBVIOUS
<1>1. Typed'
  BY NextTyped DEF SyncInv
<1>2. ASSUME NEW t \in Tasks, NEW s \in Sessions, NEW m \in MediaFiles,
             OpenMediaFile(t, s, m)
      PROVE  Playing' /\ Coming'
  BY <1>2, BeginSync DEF OpenMediaFile
<1>3. ASSUME NEW t \in Tasks, OpenStep(t)
      PROVE  Playing' /\ Coming'
  BY <1>3, OpenStepSync
<1>4. ASSUME NEW m \in MediaFiles, Transcoded(m)
      PROVE  Playing' /\ Coming'
  BY <1>4, QuietStep DEF Transcoded, viewerVars, clientVars, taskVars, PendingAt, Carries, Row
<1>5. ASSUME NEW s \in Sessions, CommentStep(s) \/ Receive(s)
      PROVE  Playing' /\ Coming'
  BY <1>1, <1>5, TasksTyped, CommentStepSync, ReceiveSync
<1>6. ASSUME NEW s \in Sessions, UserStep(s)
      PROVE  Playing' /\ Coming'
  <2>1. ASSUME NEW m, NEW i, AddComment(s, m, i) \/ EditComment(s, i) \/ DelComment(s, i)
        PROVE  Playing' /\ Coming'
    BY <2>1, TasksTyped, BeginSync DEF AddComment, EditComment, DelComment
  <2> QED
    BY <1>6, <2>1, ClosePlayerSync, ReconnectSync DEF UserStep
<1>7. ASSUME UNCHANGED vars
      PROVE  Playing' /\ Coming'
  BY <1>7, QuietStep DEF vars, dbVars, viewerVars, clientVars, taskVars, PendingAt, Carries, Row
<1> QED
  BY <1>1, <1>2, <1>3, <1>4, <1>5, <1>6, <1>7 DEF Next, SyncInv

(* However opening, adding, editing, deleting, closing the player and      *)
(* losing the connection overlap, a client that attends a file has all of  *)
(* its comments once nothing is on its way.                                *)
THEOREM NothingMissed == Spec => []NothingMissing
<1>1. SyncInv => NothingMissing
  <2> SUFFICES ASSUME SyncInv, Settled, NEW s \in Sessions, NEW i \in Ids,
                      Attends(s), Row(i), media[i] = shown[s]
               PROVE  view[s][i] # 0
    BY DEF NothingMissing
  <2> DEFINE m == shown[s]
  <2>1. m \in MediaFiles /\ listed[s] = m /\ inbox[s] = <<>>
    BY DEF Attends, Settled, SyncInv, Typed, TypeOK
  <2>2. WillShow(inbox[s], shown[s], m)
    BY <2>1 DEF WillShow
  <2>3. ~Pending(s, m, i)
    BY DEF Settled, Pending, PendingAt
  <2>4. WillHave(inbox[s], view[s][i], m, i)
    BY <2>1, <2>2, <2>3 DEF SyncInv, Coming, Due
  <2> QED
    BY <2>1, <2>4 DEF WillHave
<1> QED
  BY InitSync, NextSync, <1>1, PTL DEF Spec
=============================================================================
