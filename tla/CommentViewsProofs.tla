------------------------- MODULE CommentViewsProofs -------------------------
(***************************************************************************)
(* Proofs about CommentSync, continued: what viewers are shown is what the *)
(* database holds.                                                         *)
(***************************************************************************)
EXTENDS CommentSyncProofs

\* What a task has read and not yet sent is of the file it serves, and is still
\* what the database holds, unless the comment is raced.
KeptAt(t) ==
    \A c \in copy[t] :
        /\ pc[t] \in {"sendSnapshot", "announce"}
        /\ c[1] < nextId /\ media[c[1]] = cmd[t].file
        /\ c[1] \notin raced => c[2] = text[c[1]]

Kept == \A t \in Tasks : KeptAt(t)

\* Clients show comments of the file they show, and are sent comments that go
\* with the file named in the message.
FiledMsg(msg) ==
    msg.type = "addComments" =>
        \A c \in msg.comments : c[1] < nextId /\ media[c[1]] = msg.file

FiledAt(s) ==
    /\ \A i \in Ids : view[s][i] # 0 => i < nextId /\ media[i] = shown[s]
    /\ \A k \in 1 .. Len(inbox[s]) : FiledMsg(inbox[s][k])

Filed == \A s \in Sessions : FiledAt(s)

\* Messages q on their way to a client that shows version n of comment i: after
\* the last of them it may show another version than v.
StaleFor(msg, i, v) ==
    msg.type = "addComments" /\ \E c \in msg.comments : c[1] = i /\ c[2] # v

Outdated(q, n, i, v) ==
    \E k \in 0 .. Len(q) :
        /\ IF k = 0 THEN n \notin {0, v} ELSE StaleFor(q[k], i, v)
        /\ \A l \in k + 1 .. Len(q) : ~Kills(q[l], i)

\* A task is about to make the session s of m, or all sessions, forget comment i.
CorrectingAt(t, s, m, i) ==
    \/ pc[t] = "open" /\ cmd[t].session = s /\ cmd[t].file = m
    \/ pc[t] \in {"retract", "announceDel"} /\ cmd[t].id = i

Correcting(s, m, i) == \E t \in Tasks : CorrectingAt(t, s, m, i)

\* A listed client that is going to show m, and an old version of its comment i,
\* will be told to remove it.
Off(s, m, i) ==
    /\ listed[s] = m /\ media[i] = m /\ i \notin raced
    /\ WillShow(inbox[s], shown[s], m)
    /\ Outdated(inbox[s], view[s][i], i, text[i])

Timely ==
    \A s \in Sessions, m \in MediaFiles, i \in Ids : Off(s, m, i) => Correcting(s, m, i)

AgreeInv == SyncInv /\ Kept /\ Filed /\ Timely

-----------------------------------------------------------------------------
(* What was read is still so.                                              *)

\* Rows keep the file they were inserted with.
DataKept ==
    /\ nextId \in Nat /\ nextId' \in Nat /\ nextId <= nextId'
    /\ \A i \in Ids : i < nextId => media'[i] = media[i]
    /\ raced \subseteq raced'

OthersUnchanged(t) ==
    \A u \in Tasks \ {t} : pc'[u] = pc[u] /\ cmd'[u] = cmd[u] /\ copy'[u] = copy[u]

LEMMA KeptStep ==
  ASSUME TypeOK, Kept, NEW t, DataKept, OthersUnchanged(t), t \in Tasks => KeptAt(t)',
         \A u \in Tasks \ {t}, i \in Ids :
             Carries(u, i) /\ i < nextId /\ i \notin raced' => text'[i] = text[i]
  PROVE  Kept'
<1> SUFFICES ASSUME NEW u \in Tasks, u # t, NEW c \in copy[u]
             PROVE  /\ pc[u] \in {"sendSnapshot", "announce"}
                    /\ c[1] < nextId' /\ media'[c[1]] = cmd[u].file
                    /\ c[1] \notin raced' => c[2] = text'[c[1]]
  BY DEF Kept, KeptAt, OthersUnchanged
<1>1. c[1] \in Ids /\ c[1] \in Nat
  <2>1. copy[u] \in SUBSET Comments
    BY DEF TypeOK
  <2>2. c \in Comments
    BY <2>1
  <2> QED
    BY <2>2, IdsTyped DEF Comments
<1>2. /\ pc[u] \in {"sendSnapshot", "announce"}
      /\ c[1] < nextId /\ media[c[1]] = cmd[u].file
      /\ c[1] \notin raced => c[2] = text[c[1]]
  BY DEF Kept, KeptAt
<1>3. Carries(u, c[1])
  BY DEF Carries
<1> QED
  BY <1>1, <1>2, <1>3 DEF DataKept

LEMMA NothingHeld ==
  ASSUME Kept, NEW t \in Tasks, pc[t] \notin {"sendSnapshot", "announce"}
  PROVE  copy[t] = {}
  BY DEF Kept, KeptAt

LEMMA NextData ==
  ASSUME TypeOK, TypeOK', [Next]_vars
  PROVE  DataKept
<1> USE DEF dbVars, viewerVars, clientVars, taskVars, boundVars, historyVars
<1>0. nextId \in Nat /\ nextId' \in Nat
  BY ConstantsAssumption DEF TypeOK
<1>1. ASSUME UNCHANGED <<nextId, media>>, raced \subseteq raced'
      PROVE  DataKept
  BY <1>0, <1>1 DEF DataKept
<1>2. ASSUME NEW t \in Tasks, NEW s, NEW m, OpenMediaFile(t, s, m)
      PROVE  DataKept
  BY <1>1, <1>2 DEF OpenMediaFile
<1>3. ASSUME NEW t \in Tasks, OpenStep(t)
      PROVE  DataKept
  BY <1>1, <1>3 DEF OpenStep, Link, SendOpen, OpenFails, ReadSnapshot, SendSnapshot
<1>4. ASSUME NEW m, Transcoded(m)
      PROVE  DataKept
  BY <1>1, <1>4 DEF Transcoded
<1>5. ASSUME NEW t \in Sessions, Insert(t)
      PROVE  DataKept
  <2>1. /\ media' = [media EXCEPT ![nextId] = cmd[t].file]
        /\ nextId' = nextId + 1 /\ raced' = raced
        /\ media \in [Ids -> MediaFiles \cup {None}]
    BY <1>5 DEF Insert, TypeOK
  <2> QED
    BY <1>0, <2>1, IdsTyped DEF DataKept
<1>6. ASSUME NEW t \in Sessions, CommentStep(t), ~Insert(t)
      PROVE  DataKept
  <2>1. UNCHANGED <<nextId, media>> /\ raced \subseteq raced'
    BY <1>6 DEF CommentStep, InsertFails, Announce, Edit, Retract, Reread, RereadFails,
                NoReplies, RefuseDelete, Delete, AnnounceDel
  <2> QED
    BY <1>1, <2>1
<1>7. ASSUME NEW s \in Sessions, UserStep(s) \/ Receive(s)
      PROVE  DataKept
  <2>1. UNCHANGED <<nextId, media>> /\ raced \subseteq raced'
    BY <1>7 DEF UserStep, AddComment, EditComment, DelComment, ClosePlayer, Reconnect, Receive
  <2> QED
    BY <1>1, <2>1
<1>8. CASE UNCHANGED vars
  BY <1>1, <1>8 DEF vars
<1> QED
  BY <1>2, <1>3, <1>4, <1>5, <1>6, <1>7, <1>8 DEF Next

LEMMA SameKept ==
  ASSUME TypeOK, Kept, NEW t, DataKept, OthersUnchanged(t), text' = text,
         t \in Tasks => copy'[t] = {}
  PROVE  Kept'
  BY KeptStep DEF KeptAt

LEMMA OpenStepKept ==
  ASSUME Typed, Kept, NEW t \in Tasks, OpenStep(t), DataKept
  PROVE  Kept'
<1> USE DEF dbVars, viewerVars, clientVars
<1>1. OthersUnchanged(t) /\ text' = text
  BY DEF OpenStep, Link, SendOpen, OpenFails, ReadSnapshot, SendSnapshot, Done, Goto,
         OthersUnchanged, Typed, TypeOK
<1>2. CASE Link(t) \/ SendOpen(t)
  <2>1. copy'[t] = {}
    BY <1>2, NothingHeld DEF Link, SendOpen, Goto
  <2> QED
    BY <1>1, <2>1, SameKept DEF Typed
<1>3. CASE ReadSnapshot(t)
  <2>1. pc'[t] = "sendSnapshot" /\ copy'[t] = CommentsOf(cmd[t].file)
    BY <1>3 DEF ReadSnapshot, Goto, Typed, TypeOK
  <2>2. \A c \in CommentsOf(cmd[t].file) :
          c[1] < nextId /\ media[c[1]] = cmd[t].file /\ c[2] = text[c[1]]
    BY DEF CommentsOf, Typed, RowsPast
  <2>3. UNCHANGED <<text, media, nextId, cmd, raced>>
    BY <1>3 DEF ReadSnapshot, historyVars
  <2>4. KeptAt(t)'
    BY <2>1, <2>2, <2>3 DEF KeptAt
  <2> QED
    BY <1>1, <2>3, <2>4, KeptStep DEF Typed
<1>4. CASE OpenFails(t) \/ SendSnapshot(t)
  <2>1. copy'[t] = {}
    BY <1>4 DEF OpenFails, SendSnapshot, Done, Typed, TypeOK
  <2> QED
    BY <1>1, <2>1, SameKept DEF Typed
<1> QED
  BY <1>2, <1>3, <1>4 DEF OpenStep

LEMMA CommentStepKept ==
  ASSUME Typed, Kept, NEW t \in Tasks, CommentStep(t), DataKept
  PROVE  Kept'
<1> USE DEF dbVars, viewerVars, clientVars
<1> DEFINE j == cmd[t].id
<1>1. OthersUnchanged(t)
  BY DEF CommentStep, Insert, InsertFails, Announce, Edit, Retract, Reread, RereadFails,
         NoReplies, RefuseDelete, Delete, AnnounceDel, Done, Goto, OthersUnchanged,
         Typed, TypeOK
<1>2. CASE Insert(t)
  <2>1. /\ pc'[t] = "announce" /\ copy'[t] = {<<nextId, 1>>} /\ cmd' = cmd
        /\ text' = [text EXCEPT ![nextId] = 1] /\ media' = [media EXCEPT ![nextId] = cmd[t].file]
        /\ nextId' = nextId + 1 /\ nextId \in Ids
    BY <1>2, ConstantsAssumption DEF Insert, Goto, Ids, Typed, TypeOK
  <2>2. nextId < nextId + 1
    BY <2>1, IdsTyped
  <2>3. text'[nextId] = 1 /\ media'[nextId] = cmd[t].file
    BY <2>1 DEF Typed, TypeOK
  <2>4. KeptAt(t)'
    BY <2>1, <2>2, <2>3 DEF KeptAt
  <2>5. \A i \in Ids : i < nextId => text'[i] = text[i]
    BY <2>1, IdsTyped DEF Typed, TypeOK
  <2> QED
    BY <1>1, <2>4, <2>5, KeptStep DEF Typed
<1>3. CASE InsertFails(t) \/ Announce(t) \/ RereadFails(t) \/ RefuseDelete(t) \/ AnnounceDel(t)
  <2>1. copy'[t] = {} /\ text' = text
    BY <1>3 DEF InsertFails, Announce, RereadFails, RefuseDelete, AnnounceDel, Done,
                Typed, TypeOK
  <2> QED
    BY <1>1, <2>1, SameKept DEF Typed
<1>4. CASE Retract(t) \/ NoReplies(t)
  <2>1. copy'[t] = {} /\ text' = text
    BY <1>4, NothingHeld DEF Retract, NoReplies, Goto
  <2> QED
    BY <1>1, <2>1, SameKept DEF Typed
<1>5. CASE Reread(t)
  <2>1. /\ pc[t] = "reread" /\ pc'[t] = "announce" /\ copy'[t] = {<<j, text[j]>>}
        /\ UNCHANGED <<text, media, nextId, cmd>>
    BY <1>5 DEF Reread, Goto, Typed, TypeOK
  <2>2. j < nextId /\ cmd[t].file = media[j]
    BY <2>1 DEF Typed, CommandsPresent, PresentAt, Changing
  <2>3. KeptAt(t)'
    BY <2>1, <2>2 DEF KeptAt
  <2> QED
    BY <1>1, <2>1, <2>3, KeptStep DEF Typed
<1>6. CASE Edit(t) \/ Delete(t)
  <2>1. copy'[t] = {}
    BY <1>6, NothingHeld DEF Edit, Delete, Goto
  <2>2. ASSUME NEW u \in Tasks \ {t}, NEW i \in Ids, Carries(u, i), i \notin raced'
        PROVE  text'[i] = text[i]
    <3>1. i = j => InOthersHands(t, i)
      BY <2>2 DEF InOthersHands, Carries
    <3>2. CASE Edit(t)
      <4>1. i # j /\ text' = IF Row(j) THEN [text EXCEPT ![j] = @ + 1] ELSE text
        BY <2>2, <3>1, <3>2 DEF Edit
      <4> QED
        BY <4>1 DEF Typed, TypeOK
    <3>3. CASE Delete(t)
      <4>1. /\ text' = [k \in Ids |-> IF k \in Thread(j) THEN 0 ELSE text[k]]
            /\ raced' = raced \cup (Thread(j) \ {j})
                          \cup (IF InOthersHands(t, j) THEN {j} ELSE {})
        BY <3>3 DEF Delete
      <4>2. i # j /\ i \notin Thread(j)
        BY <2>2, <3>1, <4>1
      <4> QED
        BY <4>1, <4>2
    <3> QED
      BY <1>6, <3>2, <3>3
  <2>3. KeptAt(t)'
    BY <2>1 DEF KeptAt
  <2> QED
    BY <1>1, <2>2, <2>3, KeptStep DEF Typed
<1> QED
  BY <1>2, <1>3, <1>4, <1>5, <1>6 DEF CommentStep

LEMMA BeginKept ==
  ASSUME Typed, Kept, DataKept, NEW t \in Tasks, NEW s, NEW m, NEW i, NEW to,
         Begin(t, s, m, i, to), UNCHANGED <<text, copy>>
  PROVE  Kept'
<1>1. OthersUnchanged(t)
  BY DEF Begin, Goto, OthersUnchanged, Typed, TypeOK
<1>2. copy'[t] = {}
  BY NothingHeld DEF Begin, Goto
<1> QED
  BY <1>1, <1>2, SameKept DEF Typed

LEMMA NextKept ==
  ASSUME Typed, Kept, [Next]_vars, Typed'
  PROVE  Kept'
<1> USE DEF dbVars, viewerVars, clientVars
<1>1. DataKept
  BY NextData DEF Typed
<1>2. ASSUME NEW t \in Tasks, NEW s \in Sessions, NEW m \in MediaFiles,
             OpenMediaFile(t, s, m)
      PROVE  Kept'
  BY <1>1, <1>2, BeginKept DEF OpenMediaFile
<1>3. ASSUME NEW t \in Tasks, OpenStep(t)
      PROVE  Kept'
  BY <1>1, <1>3, OpenStepKept
<1>4. ASSUME NEW s \in Sessions, CommentStep(s)
      PROVE  Kept'
  BY <1>1, <1>4, TasksTyped, CommentStepKept
<1>5. ASSUME UNCHANGED <<text, pc, cmd, copy, raced, media, nextId>>
      PROVE  Kept'
  BY <1>5 DEF Kept, KeptAt
<1>6. ASSUME NEW s \in Sessions, UserStep(s)
      PROVE  Kept'
  <2>1. ASSUME NEW m, NEW i, AddComment(s, m, i) \/ EditComment(s, i) \/ DelComment(s, i)
        PROVE  Kept'
    BY <1>1, <2>1, TasksTyped, BeginKept DEF AddComment, EditComment, DelComment
  <2>2. CASE Reconnect(s)
    BY <1>1, <2>2, TasksTyped, BeginKept DEF Reconnect
  <2>3. CASE ClosePlayer(s)
    BY <1>5, <2>3 DEF ClosePlayer, taskVars, historyVars
  <2> QED
    BY <1>6, <2>1, <2>2, <2>3 DEF UserStep
<1>7. ASSUME NEW s \in Sessions, Receive(s)
      PROVE  Kept'
  BY <1>5, <1>7 DEF Receive, taskVars, historyVars
<1>8. ASSUME NEW m, Transcoded(m)
      PROVE  Kept'
  BY <1>5, <1>8 DEF Transcoded, taskVars, historyVars
<1>9. CASE UNCHANGED vars
  BY <1>5, <1>9 DEF vars, taskVars, historyVars
<1> QED
  BY <1>2, <1>3, <1>4, <1>6, <1>7, <1>8, <1>9 DEF Next

-----------------------------------------------------------------------------
(* Comments are shown with their file.                                     *)

LEMMA MessageKept ==
  ASSUME DataKept, NEW msg \in Message, FiledMsg(msg)
  PROVE  FiledMsg(msg)'
<1> SUFFICES ASSUME msg.type = "addComments", NEW c \in msg.comments
             PROVE  c[1] < nextId' /\ media'[c[1]] = msg.file
  BY DEF FiledMsg
<1>1. msg.comments \in SUBSET Comments
  BY DEF Message
<1>2. c[1] \in Ids /\ c[1] \in Nat
  <2>1. c \in Comments
    BY <1>1
  <2> QED
    BY <2>1, IdsTyped DEF Comments
<1>3. c[1] < nextId /\ media[c[1]] = msg.file
  BY DEF FiledMsg
<1> QED
  BY <1>2, <1>3 DEF DataKept

\* A client that gets no message, or one more.
Gets(s, msg) ==
    msg \in Message /\ FiledMsg(msg) /\ inbox'[s] = Append(inbox[s], msg)

LEMMA FiledStep ==
  ASSUME TypeOK, Filed, DataKept, NEW s \in Sessions,
         inbox'[s] \in {inbox[s], <<>>} \/ \E msg : Gets(s, msg),
         view'[s] = view[s], shown'[s] = shown[s]
  PROVE  FiledAt(s)'
<1>1. \A i \in Ids : view'[s][i] # 0 => i < nextId' /\ media'[i] = shown'[s]
  BY IdsTyped DEF Filed, FiledAt, DataKept
<1>2. inbox[s] \in Seq(Message)
  BY DEF TypeOK
<1>3. \A k \in 1 .. Len(inbox[s]) : inbox[s][k] \in Message /\ FiledMsg(inbox[s][k])
  BY <1>2 DEF Filed, FiledAt
<1>4. ASSUME NEW k \in 1 .. Len(inbox'[s])
      PROVE  FiledMsg(inbox[s][k])'
  <2> DEFINE q == inbox[s]
             p == inbox'[s]
  <2>1. p[k] \in Message /\ FiledMsg(p[k])
    <3>1. CASE p = q
      BY <1>3, <1>4, <3>1
    <3>2. ASSUME NEW msg, Gets(s, msg)
          PROVE  p[k] \in Message /\ FiledMsg(p[k])
      <4>0. msg \in Message /\ FiledMsg(msg) /\ p = Append(q, msg)
        BY <3>2 DEF Gets
      <4>1. Len(p) = Len(q) + 1 /\ Len(q) \in Nat
        BY <1>2, <4>0
      <4>2. k \in 1 .. Len(q) => p[k] = q[k]
        BY <1>2, <4>0
      <4>3. k = Len(q) + 1 => p[k] = msg
        BY <1>2, <4>0
      <4> QED
        BY <1>3, <1>4, <4>0, <4>1, <4>2, <4>3
    <3>3. CASE p = <<>>
      BY <1>4, <3>3
    <3> QED
      BY <3>1, <3>2, <3>3
  <2>2. PICK n \in Message : n = p[k] /\ FiledMsg(n)
    BY <2>1
  <2>3. FiledMsg(n)'
    BY MessageKept, <2>2
  <2> QED
    BY <2>2, <2>3 DEF FiledMsg
<1> QED
  BY <1>1, <1>4 DEF FiledAt

LEMMA CopyFiled ==
  ASSUME Typed, Kept, NEW t \in Tasks, NEW m \in MediaFiles, m = cmd[t].file
  PROVE  LET msg == [type |-> "addComments", file |-> m, comments |-> copy[t]]
         IN  msg \in Message /\ FiledMsg(msg) /\ ~Opens(msg) /\ \A i : ~Kills(msg, i)
<1> DEFINE msg == [type |-> "addComments", file |-> m, comments |-> copy[t]]
<1>1. msg \in Message
  BY MessageTyped DEF Typed, TypeOK
<1>2. FiledMsg(msg)
  BY DEF FiledMsg, Kept, KeptAt
<1> QED
  BY <1>1, <1>2 DEF Opens, Kills

LEMMA OpenStepFiled ==
  ASSUME Typed, Kept, Filed, DataKept, NEW t \in Tasks, OpenStep(t)
  PROVE  Filed'
<1> USE DEF clientVars
<1>1. UNCHANGED <<view, shown>>
  BY DEF OpenStep, Link, SendOpen, OpenFails, ReadSnapshot, SendSnapshot
<1> SUFFICES ASSUME NEW s \in Sessions PROVE FiledAt(s)'
  BY DEF Filed
<1>2. CASE inbox' = inbox
  BY <1>1, <1>2, FiledStep DEF Typed
<1>3. ASSUME NEW msg \in Message, FiledMsg(msg), Send(cmd[t].session, msg)
      PROVE  FiledAt(s)'
  <2>1. inbox'[s] = inbox[s] \/ Gets(s, msg)
    BY <1>3 DEF Send, Gets, Typed, TypeOK
  <2> QED
    BY <1>1, <2>1, FiledStep DEF Typed
<1>4. CASE SendOpen(t)
  <2>1. cmd[t].file \in MediaFiles
    BY <1>4 DEF SendOpen, Goto, Typed, CommandsPresent, PresentAt
  <2> DEFINE msg == [type |-> "openMediaFile", file |-> cmd[t].file]
  <2>2. msg \in Message /\ FiledMsg(msg)
    BY <2>1, MessageTyped DEF FiledMsg
  <2>3. Send(cmd[t].session, msg)
    BY <1>4 DEF SendOpen
  <2> QED
    BY <1>3, <2>2, <2>3
<1>5. CASE SendSnapshot(t)
  <2>1. cmd[t].file \in MediaFiles
    BY <1>5 DEF SendSnapshot, Done, Goto, Typed, CommandsPresent, PresentAt
  <2> DEFINE msg == [type |-> "addComments", file |-> cmd[t].file, comments |-> copy[t]]
  <2>2. msg \in Message /\ FiledMsg(msg)
    BY <2>1, CopyFiled
  <2>3. Send(cmd[t].session, msg)
    BY <1>5 DEF SendSnapshot
  <2> QED
    BY <1>3, <2>2, <2>3
<1>6. CASE Link(t) \/ OpenFails(t) \/ ReadSnapshot(t)
  BY <1>2, <1>6 DEF Link, OpenFails, ReadSnapshot
<1> QED
  BY <1>4, <1>5, <1>6 DEF OpenStep

LEMMA CommentStepFiled ==
  ASSUME Typed, Kept, Filed, DataKept, NEW t \in Tasks, CommentStep(t)
  PROVE  Filed'
<1> USE DEF clientVars
<1>1. UNCHANGED <<view, shown>>
  BY DEF CommentStep, Insert, InsertFails, Announce, Edit, Retract, Reread, RereadFails,
         NoReplies, RefuseDelete, Delete, AnnounceDel
<1> SUFFICES ASSUME NEW s \in Sessions PROVE FiledAt(s)'
  BY DEF Filed
<1>2. CASE inbox' = inbox
  BY <1>1, <1>2, FiledStep DEF Typed
<1>3. ASSUME NEW msg \in Message, FiledMsg(msg), Broadcast(t, cmd[t].file, msg)
      PROVE  FiledAt(s)'
  <2>1. inbox'[s] = inbox[s] \/ Gets(s, msg)
    BY <1>3 DEF Broadcast, Gets
  <2> QED
    BY <1>1, <2>1, FiledStep DEF Typed
<1>4. CASE Announce(t)
  <2>1. cmd[t].file \in MediaFiles
    BY <1>4 DEF Announce, Done, Goto, Typed, CommandsPresent, PresentAt
  <2> DEFINE msg == [type |-> "addComments", file |-> cmd[t].file, comments |-> copy[t]]
  <2>2. msg \in Message /\ FiledMsg(msg)
    BY <2>1, CopyFiled
  <2>3. Broadcast(t, cmd[t].file, msg)
    BY <1>4 DEF Announce
  <2> QED
    BY <1>3, <2>2, <2>3
<1>5. CASE Retract(t) \/ AnnounceDel(t)
  <2>1. cmd[t].id \in Ids
    BY <1>5 DEF Retract, AnnounceDel, Done, Goto, Typed, CommandsPresent, PresentAt, Changing
  <2> DEFINE msg == [type |-> "delComment", id |-> cmd[t].id]
  <2>2. msg \in Message /\ FiledMsg(msg)
    BY <2>1, MessageTyped DEF FiledMsg
  <2>3. Broadcast(t, cmd[t].file, msg)
    BY <1>5 DEF Retract, AnnounceDel
  <2> QED
    BY <1>3, <2>2, <2>3
<1>6. CASE ~(Announce(t) \/ Retract(t) \/ AnnounceDel(t))
  <2>1. inbox' = inbox
    BY <1>6 DEF CommentStep, Insert, InsertFails, Edit, Reread, RereadFails,
                NoReplies, RefuseDelete, Delete
  <2> QED
    BY <1>2, <2>1
<1> QED
  BY <1>4, <1>5, <1>6

\* A comment the client shows after a message was shown before, or is one of the
\* comments of the message, which is of the file shown.
LEMMA ReceivedFrom ==
  ASSUME TypeOK, NEW s \in Sessions, NEW msg \in Message, NEW i \in Ids,
         Received(s, msg)[i] # 0
  PROVE  /\ ~Opens(msg)
         /\ \/ Received(s, msg)[i] = view[s][i] /\ ~Kills(msg, i)
            \/ /\ msg.type = "addComments" /\ msg.file = shown[s]
               /\ \E c \in msg.comments : c[1] = i /\ c[2] = Received(s, msg)[i]
<1>1. view[s] \in [Ids -> Texts \cup {0}]
  BY DEF TypeOK
<1>2. CASE msg.type = "openMediaFile"
  BY <1>2 DEF Received
<1>3. CASE msg.type = "addComments"
  <2>1. ~Opens(msg) /\ ~Kills(msg, i)
    BY <1>3 DEF Opens, Kills
  <2>2. CASE msg.file = shown[s] /\ \E c \in msg.comments : c[1] = i
    <3> DEFINE d == CHOOSE c \in msg.comments : c[1] = i
    <3>1. d \in msg.comments /\ d[1] = i
      BY <2>2
    <3>2. Received(s, msg)[i] = d[2]
      BY <1>3, <2>2 DEF Received
    <3> QED
      BY <1>3, <2>1, <2>2, <3>1, <3>2
  <2>3. CASE ~(msg.file = shown[s] /\ \E c \in msg.comments : c[1] = i)
    <3>1. Received(s, msg)[i] = view[s][i]
      BY <1>3, <2>3 DEF Received
    <3> QED
      BY <2>1, <3>1
  <2> QED
    BY <2>2, <2>3
<1>4. CASE msg.type = "delComment"
  <2>1. Received(s, msg) = [view[s] EXCEPT ![msg.id] = 0]
    BY <1>4 DEF Received
  <2>2. msg.id # i /\ Received(s, msg)[i] = view[s][i]
    BY <1>1, <2>1
  <2> QED
    BY <1>4, <2>2 DEF Opens, Kills
<1> QED
  BY <1>2, <1>3, <1>4 DEF Message

LEMMA ReceiveFiled ==
  ASSUME Typed, Filed, NEW s \in Sessions, Receive(s)
  PROVE  Filed'
<1> USE DEF dbVars
<1> DEFINE q == inbox[s]
           h == Head(q)
<1>1. /\ q \in Seq(Message) /\ q # <<>> /\ h \in Message /\ h = q[1]
      /\ inbox'[s] = Tail(q) /\ view'[s] = Received(s, h)
      /\ shown'[s] = IF Opens(h) THEN h.file ELSE shown[s]
      /\ \A o \in Sessions \ {s} : /\ inbox'[o] = inbox[o] /\ view'[o] = view[o]
                                    /\ shown'[o] = shown[o]
      /\ UNCHANGED <<media, nextId>>
  BY HeadTyped DEF Receive, Opens, Typed, TypeOK
<1>2. ASSUME NEW o \in Sessions \ {s}
      PROVE  FiledAt(o)'
  BY <1>1 DEF Filed, FiledAt, FiledMsg
<1>3. ASSUME NEW i \in Ids, view'[s][i] # 0
      PROVE  i < nextId /\ media[i] = shown'[s]
  <2>1. FiledMsg(h) /\ (view[s][i] # 0 => i < nextId /\ media[i] = shown[s])
    <3>1. 1 \in 1 .. Len(q)
      BY <1>1
    <3> QED
      BY <1>1, <3>1 DEF Filed, FiledAt
  <2> HIDE DEF h
  <2>2. /\ ~Opens(h)
        /\ \/ view'[s][i] = view[s][i]
           \/ /\ h.type = "addComments" /\ h.file = shown[s]
              /\ \E c \in h.comments : c[1] = i
    BY <1>1, <1>3, ReceivedFrom DEF Typed
  <2> QED
    BY <1>1, <1>3, <2>1, <2>2 DEF FiledMsg
<1>4. \A k \in 1 .. Len(Tail(q)) : FiledMsg(Tail(q)[k])
  <2>1. \A k \in 1 .. Len(Tail(q)) : Tail(q)[k] = q[k + 1] /\ k + 1 \in 1 .. Len(q)
    BY <1>1
  <2> QED
    BY <2>1 DEF Filed, FiledAt
<1>5. FiledAt(s)'
  BY <1>1, <1>3, <1>4 DEF FiledAt, FiledMsg
<1> QED
  BY <1>2, <1>5 DEF Filed

LEMMA NextFiled ==
  ASSUME Typed, Kept, Filed, [Next]_vars, Typed'
  PROVE  Filed'
<1> USE DEF dbVars, viewerVars, clientVars
<1>1. DataKept
  BY NextData DEF Typed
<1>2. ASSUME UNCHANGED <<view, shown>>,
             \A s \in Sessions : inbox'[s] \in {inbox[s], <<>>}
      PROVE  Filed'
  BY <1>1, <1>2, FiledStep DEF Filed, Typed
<1>3. ASSUME NEW t \in Tasks, NEW s \in Sessions, NEW m \in MediaFiles,
             OpenMediaFile(t, s, m)
      PROVE  Filed'
  BY <1>2, <1>3 DEF OpenMediaFile
<1>4. ASSUME NEW t \in Tasks, OpenStep(t)
      PROVE  Filed'
  BY <1>1, <1>4, OpenStepFiled
<1>5. ASSUME NEW s \in Sessions, CommentStep(s)
      PROVE  Filed'
  BY <1>1, <1>5, TasksTyped, CommentStepFiled
<1>6. ASSUME NEW s \in Sessions, UserStep(s)
      PROVE  Filed'
  <2>1. ASSUME NEW m, NEW i, AddComment(s, m, i) \/ EditComment(s, i) \/ DelComment(s, i)
        PROVE  Filed'
    BY <1>2, <2>1 DEF AddComment, EditComment, DelComment
  <2>2. CASE Reconnect(s)
    <3>1. UNCHANGED <<view, shown>> /\ \A o \in Sessions : inbox'[o] \in {inbox[o], <<>>}
      BY <2>2 DEF Reconnect, Typed, TypeOK
    <3> QED
      BY <1>2, <3>1
  <2>3. CASE ClosePlayer(s)
    <3>1. /\ UNCHANGED <<inbox, media, nextId>> /\ \A i \in Ids : view'[s][i] = 0
          /\ \A o \in Sessions \ {s} : view'[o] = view[o] /\ shown'[o] = shown[o]
      BY <2>3 DEF ClosePlayer, Typed, TypeOK
    <3> QED
      BY <3>1 DEF Filed, FiledAt, FiledMsg
  <2> QED
    BY <1>6, <2>1, <2>2, <2>3 DEF UserStep
<1>7. ASSUME NEW s \in Sessions, Receive(s)
      PROVE  Filed'
  BY <1>7, ReceiveFiled
<1>8. ASSUME NEW m, Transcoded(m)
      PROVE  Filed'
  BY <1>2, <1>8 DEF Transcoded
<1>9. CASE UNCHANGED vars
  BY <1>2, <1>9 DEF vars
<1> QED
  BY <1>3, <1>4, <1>5, <1>6, <1>7, <1>8, <1>9 DEF Next

-----------------------------------------------------------------------------
(* Old versions are on their way out.                                      *)

LEMMA AppendOutdated ==
  ASSUME NEW q \in Seq(Message), NEW msg \in Message, NEW n, NEW i, NEW v,
         Outdated(Append(q, msg), n, i, v)
  PROVE  StaleFor(msg, i, v) \/ (Outdated(q, n, i, v) /\ ~Kills(msg, i))
<1> HIDE DEF Message
<1> DEFINE p == Append(q, msg)
<1>1. /\ Len(q) \in Nat /\ Len(p) = Len(q) + 1 /\ p[Len(q) + 1] = msg
      /\ \A k \in 1 .. Len(q) : p[k] = q[k]
  OBVIOUS
<1> HIDE DEF p
<1>2. PICK k \in 0 .. Len(p) :
        /\ IF k = 0 THEN n \notin {0, v} ELSE StaleFor(p[k], i, v)
        /\ \A l \in k + 1 .. Len(p) : ~Kills(p[l], i)
  BY DEF Outdated, p
<1>3. CASE k = Len(q) + 1
  BY <1>1, <1>2, <1>3
<1>4. CASE k \in 0 .. Len(q)
  <2>1. ~Kills(msg, i)
    BY <1>1, <1>2, <1>4
  <2>2. /\ IF k = 0 THEN n \notin {0, v} ELSE StaleFor(q[k], i, v)
        /\ \A l \in k + 1 .. Len(q) : ~Kills(q[l], i)
    BY <1>1, <1>2, <1>4
  <2> QED
    BY <1>4, <2>1, <2>2 DEF Outdated
<1> QED
  BY <1>1, <1>3, <1>4

LEMMA TailOutdated ==
  ASSUME NEW q \in Seq(Message), q # <<>>, NEW n, NEW next, NEW i, NEW v,
         Outdated(Tail(q), next, i, v),
         next \notin {0, v} => StaleFor(Head(q), i, v) \/ (n \notin {0, v} /\ ~Kills(Head(q), i))
  PROVE  Outdated(q, n, i, v)
<1> HIDE DEF Message
<1> DEFINE p == Tail(q)
<1>1. /\ Len(p) \in Nat /\ Len(q) = Len(p) + 1 /\ q[1] = Head(q)
      /\ \A k \in 1 .. Len(p) : p[k] = q[k + 1]
  OBVIOUS
<1> HIDE DEF p
<1>2. PICK k \in 0 .. Len(p) :
        /\ IF k = 0 THEN next \notin {0, v} ELSE StaleFor(p[k], i, v)
        /\ \A l \in k + 1 .. Len(p) : ~Kills(p[l], i)
  BY DEF Outdated, p
<1>3. \A l \in k + 2 .. Len(q) : ~Kills(q[l], i)
  <2> SUFFICES ASSUME NEW l \in k + 2 .. Len(q) PROVE ~Kills(q[l], i)
    OBVIOUS
  <2>1. l - 1 \in k + 1 .. Len(p) /\ p[l - 1] = q[l]
    BY <1>1
  <2> QED
    BY <1>2, <2>1
<1>4. CASE k # 0 \/ StaleFor(q[1], i, v)
  <2>1. k + 1 \in 0 .. Len(q) /\ k + 1 # 0 /\ StaleFor(q[k + 1], i, v)
    BY <1>1, <1>2, <1>4
  <2> QED
    BY <1>3, <2>1 DEF Outdated
<1>5. CASE k = 0 /\ ~StaleFor(q[1], i, v)
  <2>1. n \notin {0, v} /\ \A l \in 0 + 1 .. Len(q) : ~Kills(q[l], i)
    BY <1>1, <1>2, <1>3, <1>5
  <2> QED
    BY <1>1, <2>1 DEF Outdated
<1> QED
  BY <1>4, <1>5

\* A step of t that neither shows nor sends anything to the session.
LEMMA StillTimely ==
  ASSUME Timely, NEW s \in Sessions, NEW m \in MediaFiles, NEW i \in Ids, NEW t,
         OthersUnchanged(t), raced \subseteq raced',
         inbox'[s] = inbox[s], shown'[s] = shown[s], view'[s] = view[s],
         listed'[s] = listed[s], media'[i] = media[i], text'[i] = text[i],
         Off(s, m, i) /\ CorrectingAt(t, s, m, i) => CorrectingAt(t, s, m, i)',
         Off(s, m, i)'
  PROVE  Correcting(s, m, i)'
<1>1. Off(s, m, i)
  BY DEF Off
<1>2. PICK u \in Tasks : CorrectingAt(u, s, m, i)
  BY <1>1 DEF Timely, Correcting
<1>3. CorrectingAt(u, s, m, i)'
  BY <1>1, <1>2 DEF OthersUnchanged, CorrectingAt
<1> QED
  BY <1>3 DEF Correcting

\* The same for a message that opens nothing.
LEMMA SentTimely ==
  ASSUME TypeOK, Timely, NEW s \in Sessions, NEW m \in MediaFiles, NEW i \in Ids, NEW t,
         OthersUnchanged(t), raced \subseteq raced',
         NEW msg \in Message, ~Opens(msg), inbox'[s] = Append(inbox[s], msg),
         shown'[s] = shown[s], view'[s] = view[s],
         listed'[s] = listed[s], media'[i] = media[i], text'[i] = text[i],
         StaleFor(msg, i, text[i]) => i \in raced,
         Off(s, m, i) /\ CorrectingAt(t, s, m, i)
             => CorrectingAt(t, s, m, i)' \/ Kills(msg, i),
         Off(s, m, i)'
  PROVE  Correcting(s, m, i)'
<1>1. inbox[s] \in Seq(Message)
  BY DEF TypeOK
<1>2. Off(s, m, i) /\ ~Kills(msg, i)
  <2>1. WillShow(Append(inbox[s], msg), shown[s], m)
    BY DEF Off
  <2>2. Outdated(Append(inbox[s], msg), view[s][i], i, text[i])
    BY DEF Off
  <2>3. i \notin raced
    BY DEF Off
  <2>4. WillShow(inbox[s], shown[s], m)
    BY <1>1, <2>1, AppendShows
  <2>5. Outdated(inbox[s], view[s][i], i, text[i]) /\ ~Kills(msg, i)
    BY <1>1, <2>2, <2>3, AppendOutdated
  <2> QED
    BY <2>3, <2>4, <2>5 DEF Off
<1>3. PICK u \in Tasks : CorrectingAt(u, s, m, i)
  BY <1>2 DEF Timely, Correcting
<1>4. CorrectingAt(u, s, m, i)'
  BY <1>2, <1>3 DEF OthersUnchanged, CorrectingAt
<1> QED
  BY <1>4 DEF Correcting

\* A step of t that shows and sends nothing to anybody, and changes no comments.
LEMMA QuietTimely ==
  ASSUME Timely, NEW t, OthersUnchanged(t), raced \subseteq raced',
         UNCHANGED <<inbox, shown, view, listed, media, text>>,
         \A s \in Sessions, m \in MediaFiles, i \in Ids :
             Off(s, m, i) /\ CorrectingAt(t, s, m, i) => CorrectingAt(t, s, m, i)'
  PROVE  Timely'
  BY StillTimely DEF Timely

LEMMA OpenStepTimely ==
  ASSUME AgreeInv, NEW t \in Tasks, OpenStep(t)
  PROVE  Timely'
<1> USE DEF dbVars, viewerVars, clientVars, historyVars
<1> DEFINE s == cmd[t].session
           m == cmd[t].file
<1>1. /\ OthersUnchanged(t)
      /\ UNCHANGED <<text, media, playable, shown, view, raced>>
  BY DEF OpenStep, Link, SendOpen, OpenFails, ReadSnapshot, SendSnapshot, Done, Goto,
         OthersUnchanged, AgreeInv, SyncInv, Typed, TypeOK
<1>2. s \in Sessions /\ m \in MediaFiles
  <2>1. PresentAt(t) /\ pc[t] # "idle"
    BY DEF OpenStep, Link, SendOpen, OpenFails, ReadSnapshot, SendSnapshot, Done, Goto,
           AgreeInv, SyncInv, Typed, CommandsPresent
  <2> QED
    BY <2>1 DEF PresentAt, Command
<1>3. CASE Link(t)
  <2>1. /\ pc[t] = "link" /\ pc'[t] = "open" /\ UNCHANGED <<inbox, cmd>>
        /\ listed'[s] \in {None, m} /\ \A o \in Sessions \ {s} : listed'[o] = listed[o]
    BY <1>2, <1>3 DEF Link, Goto, AgreeInv, SyncInv, Typed, TypeOK
  <2> SUFFICES ASSUME NEW o \in Sessions, NEW n \in MediaFiles, NEW i \in Ids, Off(o, n, i)'
               PROVE  Correcting(o, n, i)'
    BY DEF Timely
  <2>2. CASE o = s
    <3>1. n = m
      BY <2>1, <2>2, ConstantsAssumption DEF Off
    <3>2. CorrectingAt(t, o, n, i)'
      BY <2>1, <2>2, <3>1 DEF CorrectingAt
    <3> QED
      BY <3>2 DEF Correcting
  <2>3. CASE o # s
    <3>1. ~CorrectingAt(t, o, n, i)
      BY <2>1 DEF CorrectingAt
    <3> QED
      BY <1>1, <2>1, <2>3, <3>1, StillTimely DEF AgreeInv
  <2> QED
    BY <2>2, <2>3
<1>4. CASE SendOpen(t)
  <2> DEFINE msg == [type |-> "openMediaFile", file |-> m]
  <2>1. /\ pc[t] = "open" /\ UNCHANGED listed
        /\ inbox'[s] = Append(inbox[s], msg) /\ inbox[s] \in Seq(Message)
        /\ \A o \in Sessions \ {s} : inbox'[o] = inbox[o]
    BY <1>2, <1>4 DEF SendOpen, Send, Goto, AgreeInv, SyncInv, Typed, TypeOK
  <2>2. msg \in Message /\ \A i, v : Kills(msg, i) /\ ~StaleFor(msg, i, v)
    BY <1>2, MessageTyped DEF Opens, Kills, StaleFor
  <2> HIDE DEF msg
  <2> SUFFICES ASSUME NEW o \in Sessions, NEW n \in MediaFiles, NEW i \in Ids, Off(o, n, i)'
               PROVE  Correcting(o, n, i)'
    BY DEF Timely
  <2>3. CASE o = s
    <3>1. Outdated(Append(inbox[s], msg), view[s][i], i, text[i])
      BY <1>1, <2>1, <2>3 DEF Off
    <3> QED
      BY <2>1, <2>2, <3>1, AppendOutdated
  <2>4. CASE o # s
    <3>1. ~CorrectingAt(t, o, n, i)
      BY <2>1, <2>4 DEF CorrectingAt
    <3> QED
      BY <1>1, <2>1, <2>4, <3>1, StillTimely DEF AgreeInv
  <2> QED
    BY <2>3, <2>4
<1>5. CASE OpenFails(t)
  <2>1. pc[t] = "open" /\ m \notin playable /\ UNCHANGED <<inbox, listed>>
    BY <1>5 DEF OpenFails, Done, Goto
  <2>2. ASSUME NEW o \in Sessions, NEW n \in MediaFiles, NEW i \in Ids,
               Off(o, n, i), CorrectingAt(t, o, n, i)
        PROVE  FALSE
    <3>1. n = m /\ WillShow(inbox[o], shown[o], n)
      BY <2>1, <2>2 DEF CorrectingAt, Off
    <3>2. MayShow(inbox[o], shown[o], n)
      BY <3>1, WillIsMay DEF AgreeInv, SyncInv, Typed, TypeOK
    <3> QED
      BY <2>1, <3>1, <3>2 DEF AgreeInv, SyncInv, Playing
  <2> QED
    BY <1>1, <2>1, <2>2, QuietTimely DEF AgreeInv
<1>6. CASE ReadSnapshot(t)
  <2>1. pc[t] = "snapshot" /\ UNCHANGED <<inbox, listed>>
    BY <1>6 DEF ReadSnapshot, Goto
  <2> QED
    BY <1>1, <2>1, QuietTimely DEF AgreeInv, CorrectingAt
<1>7. CASE SendSnapshot(t)
  <2> DEFINE msg == [type |-> "addComments", file |-> m, comments |-> copy[t]]
  <2>1. /\ pc[t] = "sendSnapshot" /\ UNCHANGED listed
        /\ inbox'[s] = Append(inbox[s], msg)
        /\ \A o \in Sessions \ {s} : inbox'[o] = inbox[o]
    BY <1>2, <1>7 DEF SendSnapshot, Send, Done, Goto, AgreeInv, SyncInv, Typed, TypeOK
  <2>2. msg \in Message /\ ~Opens(msg)
    BY <1>2, CopyFiled DEF AgreeInv, SyncInv
  <2>3. \A i \in Ids : StaleFor(msg, i, text[i]) => i \in raced
    BY DEF StaleFor, AgreeInv, Kept, KeptAt
  <2>4. \A o, n, i : ~CorrectingAt(t, o, n, i)
    BY <2>1 DEF CorrectingAt
  <2> HIDE DEF msg
  <2> SUFFICES ASSUME NEW o \in Sessions, NEW n \in MediaFiles, NEW i \in Ids, Off(o, n, i)'
               PROVE  Correcting(o, n, i)'
    BY DEF Timely
  <2>5. CASE o = s
    BY <1>1, <2>1, <2>2, <2>3, <2>4, <2>5, SentTimely DEF AgreeInv, SyncInv, Typed
  <2>6. CASE o # s
    BY <1>1, <2>1, <2>4, <2>6, StillTimely DEF AgreeInv
  <2> QED
    BY <2>5, <2>6
<1> QED
  BY <1>3, <1>4, <1>5, <1>6, <1>7 DEF OpenStep

\* A message to all viewers of the file of t's command.
LEMMA BroadcastTimely ==
  ASSUME TypeOK, Timely, NEW t, OthersUnchanged(t),
         NEW msg \in Message, ~Opens(msg), Broadcast(t, cmd[t].file, msg),
         UNCHANGED <<shown, view, listed, text, media, raced>>,
         \A i \in Ids : StaleFor(msg, i, text[i]) => i \in raced,
         \A s \in Sessions, m \in MediaFiles, i \in Ids :
             Off(s, m, i) /\ CorrectingAt(t, s, m, i)
                 => listed[s] = cmd[t].file /\ Kills(msg, i)
  PROVE  Timely'
<1>1. \A s \in Sessions :
        inbox'[s] = IF listed[s] = cmd[t].file THEN Append(inbox[s], msg) ELSE inbox[s]
  BY DEF Broadcast, Recipients, Viewers
<1> SUFFICES ASSUME NEW s \in Sessions, NEW m \in MediaFiles, NEW i \in Ids, Off(s, m, i)'
             PROVE  Correcting(s, m, i)'
  BY DEF Timely
<1>2. CASE listed[s] = cmd[t].file
  BY <1>1, <1>2, SentTimely
<1>3. CASE listed[s] # cmd[t].file
  BY <1>1, <1>3, StillTimely
<1> QED
  BY <1>2, <1>3

LEMMA CommentStepTimely ==
  ASSUME AgreeInv, NEW t \in Tasks, CommentStep(t)
  PROVE  Timely'
<1> USE DEF dbVars, viewerVars, clientVars, historyVars
<1> DEFINE j == cmd[t].id
<1>1. /\ OthersUnchanged(t)
      /\ UNCHANGED <<shown, view, listed>> /\ raced \subseteq raced'
  BY DEF CommentStep, Insert, InsertFails, Announce, Edit, Retract, Reread, RereadFails,
         NoReplies, RefuseDelete, Delete, AnnounceDel, Done, Goto, OthersUnchanged,
         AgreeInv, SyncInv, Typed, TypeOK
<1>2. PresentAt(t)
  BY DEF AgreeInv, SyncInv, Typed, CommandsPresent
<1>3. CASE Insert(t)
  <2>1. /\ pc[t] = "insert" /\ UNCHANGED inbox
        /\ text' = [text EXCEPT ![nextId] = 1]
        /\ media' = [media EXCEPT ![nextId] = cmd[t].file]
    BY <1>3 DEF Insert, Goto
  <2> SUFFICES ASSUME NEW s \in Sessions, NEW m \in MediaFiles, NEW i \in Ids, Off(s, m, i)'
               PROVE  Correcting(s, m, i)'
    BY DEF Timely
  <2>2. CASE i = nextId
    <3>1. ~(i < nextId)
      BY <2>2, IdsTyped
    <3>2. view[s][i] = 0
      BY <3>1 DEF AgreeInv, Filed, FiledAt
    <3>3. ASSUME NEW k \in 1 .. Len(inbox[s]), NEW v
          PROVE  ~StaleFor(inbox[s][k], i, v)
      BY <3>1, <3>3 DEF StaleFor, AgreeInv, Filed, FiledAt, FiledMsg
    <3>4. ~Outdated(inbox[s], view[s][i], i, text'[i])
      BY <3>2, <3>3 DEF Outdated
    <3> QED
      BY <1>1, <2>1, <3>4 DEF Off
  <2>3. CASE i # nextId
    <3>1. media'[i] = media[i] /\ text'[i] = text[i]
      BY <2>1, <2>3 DEF AgreeInv, SyncInv, Typed, TypeOK
    <3> QED
      BY <1>1, <2>1, <3>1, StillTimely DEF AgreeInv, CorrectingAt
  <2> QED
    BY <2>2, <2>3
<1>4. CASE InsertFails(t) \/ NoReplies(t) \/ RefuseDelete(t) \/ Reread(t) \/ RereadFails(t)
  <2>1. pc[t] \in {"insert", "check", "reread"} /\ UNCHANGED <<inbox, text, media>>
    BY <1>4 DEF InsertFails, NoReplies, RefuseDelete, Reread, RereadFails, Done, Goto
  <2> QED
    BY <1>1, <2>1, QuietTimely DEF AgreeInv, CorrectingAt
<1>5. CASE Edit(t) \/ Delete(t)
  <2>1. /\ pc[t] \in {"edit", "delete"} /\ pc'[t] \in {"retract", "announceDel"}
        /\ UNCHANGED <<inbox, media, cmd>>
    BY <1>5 DEF Edit, Delete, Goto, AgreeInv, SyncInv, Typed, TypeOK
  <2> SUFFICES ASSUME NEW s \in Sessions, NEW m \in MediaFiles, NEW i \in Ids, Off(s, m, i)'
               PROVE  Correcting(s, m, i)'
    BY DEF Timely
  <2>2. CASE i = j
    <3>1. CorrectingAt(t, s, m, i)'
      BY <2>1, <2>2 DEF CorrectingAt
    <3> QED
      BY <3>1 DEF Correcting
  <2>3. CASE i # j
    <3>1. i \notin raced'
      BY DEF Off
    <3>2. text'[i] = text[i]
      <4>1. CASE Edit(t)
        BY <2>3, <4>1 DEF Edit, AgreeInv, SyncInv, Typed, TypeOK
      <4>2. CASE Delete(t)
        <5>1. /\ text' = [k \in Ids |-> IF k \in Thread(j) THEN 0 ELSE text[k]]
              /\ Thread(j) \ {j} \subseteq raced'
          BY <4>2 DEF Delete
        <5> QED
          BY <2>3, <3>1, <5>1
      <4> QED
        BY <1>5, <4>1, <4>2
    <3>3. ~CorrectingAt(t, s, m, i)
      BY <2>1 DEF CorrectingAt
    <3> QED
      BY <1>1, <2>1, <3>2, <3>3, StillTimely DEF AgreeInv
  <2> QED
    BY <2>2, <2>3
<1>6. CASE Announce(t)
  <2> DEFINE msg == [type |-> "addComments", file |-> cmd[t].file, comments |-> copy[t]]
  <2>1. pc[t] = "announce" /\ cmd[t].file \in MediaFiles
    BY <1>2, <1>6 DEF Announce, Done, Goto, PresentAt
  <2>2. msg \in Message /\ ~Opens(msg)
    BY <2>1, CopyFiled DEF AgreeInv, SyncInv
  <2>3. \A i \in Ids : StaleFor(msg, i, text[i]) => i \in raced
    BY DEF StaleFor, AgreeInv, Kept, KeptAt
  <2>4. \A s, m, i : ~CorrectingAt(t, s, m, i)
    BY <2>1 DEF CorrectingAt
  <2>5. Broadcast(t, cmd[t].file, msg) /\ UNCHANGED <<text, media, raced>>
    BY <1>6 DEF Announce
  <2> HIDE DEF msg
  <2> QED
    BY <1>1, <2>2, <2>3, <2>4, <2>5, BroadcastTimely DEF AgreeInv, SyncInv, Typed
<1>7. CASE Retract(t) \/ AnnounceDel(t)
  <2> DEFINE msg == [type |-> "delComment", id |-> j]
  <2>1. /\ pc[t] \in {"retract", "announceDel"} /\ j \in Ids
        /\ cmd[t].file = media[j]
    BY <1>2, <1>7 DEF Retract, AnnounceDel, Done, Goto, PresentAt, Changing
  <2>2. msg \in Message /\ ~Opens(msg) /\ Kills(msg, j) /\ \A i, v : ~StaleFor(msg, i, v)
    BY <2>1, MessageTyped DEF Opens, Kills, StaleFor
  <2>3. Broadcast(t, cmd[t].file, msg) /\ UNCHANGED <<text, media, raced>>
    BY <1>7 DEF Retract, AnnounceDel
  <2> HIDE DEF msg
  <2>4. ASSUME NEW s \in Sessions, NEW m \in MediaFiles, NEW i \in Ids,
               Off(s, m, i), CorrectingAt(t, s, m, i)
        PROVE  listed[s] = cmd[t].file /\ Kills(msg, i)
    BY <2>1, <2>2, <2>4 DEF Off, CorrectingAt
  <2> QED
    BY <1>1, <2>2, <2>3, <2>4, BroadcastTimely DEF AgreeInv, SyncInv, Typed
<1> QED
  BY <1>3, <1>4, <1>5, <1>6, <1>7 DEF CommentStep

LEMMA ReceiveTimely ==
  ASSUME AgreeInv, NEW s \in Sessions, Receive(s)
  PROVE  Timely'
<1> USE DEF dbVars, viewerVars, taskVars, historyVars
<1> DEFINE q == inbox[s]
           h == Head(q)
<1>1. /\ q \in Seq(Message) /\ q # <<>> /\ h \in Message /\ h = q[1]
      /\ inbox'[s] = Tail(q) /\ view'[s] = Received(s, h)
      /\ shown'[s] = IF Opens(h) THEN h.file ELSE shown[s]
      /\ \A o \in Sessions \ {s} : /\ inbox'[o] = inbox[o] /\ view'[o] = view[o]
                                    /\ shown'[o] = shown[o]
      /\ UNCHANGED <<text, media, listed, pc, cmd, copy, raced>>
  BY HeadTyped DEF Receive, Opens, AgreeInv, SyncInv, Typed, TypeOK
<1>2. OthersUnchanged(s) /\ \A o, m, i : CorrectingAt(s, o, m, i) => CorrectingAt(s, o, m, i)'
  BY <1>1 DEF OthersUnchanged, CorrectingAt
<1> SUFFICES ASSUME NEW o \in Sessions, NEW m \in MediaFiles, NEW i \in Ids, Off(o, m, i)'
             PROVE  Correcting(o, m, i)'
  BY DEF Timely
<1>3. CASE o # s
  BY <1>1, <1>2, <1>3, StillTimely DEF AgreeInv
<1>4. CASE o = s
  <2> DEFINE v == text[i]
             n == view[s][i]
             next == view'[s][i]
  <2>1. next \notin {0, v} => StaleFor(h, i, v) \/ (n \notin {0, v} /\ ~Kills(h, i))
    <3> SUFFICES ASSUME next \notin {0, v}, ~(next = n /\ ~Kills(h, i))
                 PROVE  StaleFor(h, i, v)
      OBVIOUS
    <3>1. Received(s, h)[i] # 0 /\ next = Received(s, h)[i]
      BY <1>1
    <3>2. /\ h.type = "addComments"
          /\ \E c \in h.comments : c[1] = i /\ c[2] = next
      BY <1>1, <3>1, ReceivedFrom DEF AgreeInv, SyncInv, Typed
    <3> QED
      BY <3>2 DEF StaleFor
  <2> HIDE DEF h, v, n, next
  <2>2. Outdated(Tail(q), next, i, v) /\ WillShow(Tail(q), shown'[s], m)
    BY <1>1, <1>4 DEF Off, next, v
  <2>3. Outdated(q, n, i, v)
    BY <1>1, <2>1, <2>2, TailOutdated DEF h
  <2>4. WillShow(q, shown[s], m)
    BY <1>1, <2>2, TailShows DEF h
  <2>5. Off(s, m, i)
    BY <1>1, <1>4, <2>3, <2>4 DEF Off, n, v
  <2>6. Correcting(s, m, i)
    BY <2>5 DEF AgreeInv, Timely
  <2> QED
    BY <1>1, <1>4, <2>6 DEF Correcting, CorrectingAt
<1> QED
  BY <1>3, <1>4

LEMMA ClosePlayerTimely ==
  ASSUME AgreeInv, NEW s \in Sessions, ClosePlayer(s)
  PROVE  Timely'
<1> USE DEF dbVars, viewerVars, taskVars, historyVars
<1>1. /\ UNCHANGED <<inbox, text, media, listed, pc, cmd, copy, raced>>
      /\ shown'[s] = None /\ \A i \in Ids : view'[s][i] = 0
      /\ \A o \in Sessions \ {s} : view'[o] = view[o] /\ shown'[o] = shown[o]
  BY DEF ClosePlayer, AgreeInv, SyncInv, Typed, TypeOK
<1> SUFFICES ASSUME NEW o \in Sessions, NEW m \in MediaFiles, NEW i \in Ids, Off(o, m, i)'
             PROVE  Correcting(o, m, i)'
  BY DEF Timely
<1>2. WillShow(inbox[o], shown[o], m)
  BY <1>1, ConstantsAssumption DEF Off, WillShow
<1>3. Outdated(inbox[o], view[o][i], i, text[i])
  BY <1>1 DEF Off, Outdated
<1>4. Correcting(o, m, i)
  BY <1>1, <1>2, <1>3 DEF Off, AgreeInv, Timely
<1> QED
  BY <1>1, <1>4 DEF Correcting, CorrectingAt

LEMMA BeginTimely ==
  ASSUME AgreeInv, NEW t \in Tasks, NEW s, NEW m, NEW i, NEW to, Begin(t, s, m, i, to),
         UNCHANGED <<inbox, shown, view, listed, media, text, raced, copy>>
  PROVE  Timely'
<1>1. pc[t] = "idle" /\ OthersUnchanged(t)
  BY DEF Begin, Goto, OthersUnchanged, AgreeInv, SyncInv, Typed, TypeOK
<1> QED
  BY <1>1, QuietTimely DEF AgreeInv, CorrectingAt

LEMMA ReconnectTimely ==
  ASSUME AgreeInv, NEW s \in Sessions, Reconnect(s)
  PROVE  Timely'
<1> USE DEF dbVars, clientVars, historyVars
<1>1. /\ UNCHANGED <<text, media, shown, view, raced>> /\ pc[s] = "idle" /\ OthersUnchanged(s)
      /\ listed'[s] = None
      /\ \A o \in Sessions \ {s} : inbox'[o] = inbox[o] /\ listed'[o] = listed[o]
  BY DEF Reconnect, Begin, Goto, OthersUnchanged, AgreeInv, SyncInv, Typed, TypeOK
<1> SUFFICES ASSUME NEW o \in Sessions, NEW m \in MediaFiles, NEW i \in Ids, Off(o, m, i)'
             PROVE  Correcting(o, m, i)'
  BY DEF Timely
<1>2. o # s
  BY <1>1, ConstantsAssumption DEF Off
<1> QED
  BY <1>1, <1>2, StillTimely DEF AgreeInv, CorrectingAt

LEMMA NextTimely == AgreeInv /\ [Next]_vars => Timely'
<1> SUFFICES ASSUME AgreeInv, [Next]_vars PROVE Timely'
  OBVIOUS
<1> USE DEF dbVars, viewerVars, clientVars, historyVars
<1>1. ASSUME NEW t \in Tasks, NEW s \in Sessions, NEW m \in MediaFiles,
             OpenMediaFile(t, s, m)
      PROVE  Timely'
  BY <1>1, BeginTimely DEF OpenMediaFile
<1>2. ASSUME NEW t \in Tasks, OpenStep(t)
      PROVE  Timely'
  BY <1>2, OpenStepTimely
<1>3. ASSUME NEW s \in Sessions, CommentStep(s) \/ Receive(s)
      PROVE  Timely'
  BY <1>3, TasksTyped, CommentStepTimely, ReceiveTimely
<1>4. ASSUME NEW s \in Sessions, UserStep(s)
      PROVE  Timely'
  <2>1. ASSUME NEW m, NEW i, AddComment(s, m, i) \/ EditComment(s, i) \/ DelComment(s, i)
        PROVE  Timely'
    BY <2>1, TasksTyped, BeginTimely DEF AddComment, EditComment, DelComment
  <2> QED
    BY <1>4, <2>1, ClosePlayerTimely, ReconnectTimely DEF UserStep
<1>5. ASSUME UNCHANGED <<inbox, shown, view, listed, media, text, raced, pc, cmd, copy>>
      PROVE  Timely'
  BY <1>5, QuietTimely DEF AgreeInv, OthersUnchanged, CorrectingAt
<1>6. ASSUME NEW m, Transcoded(m)
      PROVE  Timely'
  BY <1>5, <1>6 DEF Transcoded, taskVars
<1>7. CASE UNCHANGED vars
  BY <1>5, <1>7 DEF vars, taskVars
<1> QED
  BY <1>1, <1>2, <1>3, <1>4, <1>6, <1>7 DEF Next

-----------------------------------------------------------------------------

LEMMA InitAgree == Init => AgreeInv
<1> SUFFICES ASSUME Init PROVE AgreeInv
  OBVIOUS
<1>1. Kept
  BY DEF Init, Kept, KeptAt
<1>2. Filed
  BY DEF Init, Filed, FiledAt
<1>3. Timely
  BY ConstantsAssumption DEF Init, Timely, Off
<1> QED
  BY <1>1, <1>2, <1>3, InitSync DEF AgreeInv

LEMMA NextAgree == AgreeInv /\ [Next]_vars => AgreeInv'
<1> SUFFICES ASSUME AgreeInv, [Next]_vars PROVE AgreeInv'
  OBVIOUS
<1>1. SyncInv'
  BY NextSync DEF AgreeInv
<1>2. Kept' /\ Filed'
  BY <1>1, NextKept, NextFiled DEF AgreeInv, SyncInv
<1>3. Timely'
  BY NextTimely
<1> QED
  BY <1>1, <1>2, <1>3 DEF AgreeInv

(* However commands, broadcasts and connections overlap, a client that     *)
(* attends a file shows what the database holds once nothing is on its     *)
(* way, but for comments changed while a task had them in its hands.       *)
THEOREM ViewsInAgreement == Spec => []ViewsAgree
<1>1. AgreeInv => ViewsAgree
  <2> SUFFICES ASSUME AgreeInv, Settled, NEW s \in Sessions, NEW i \in Ids \ raced, Attends(s)
               PROVE  view[s][i] = IF media[i] = shown[s] THEN text[i] ELSE 0
    BY DEF ViewsAgree
  <2> DEFINE m == shown[s]
  <2>1. /\ m \in MediaFiles /\ listed[s] = m /\ inbox[s] = <<>>
        /\ \A t \in Tasks : pc[t] = "idle"
    BY DEF Attends, Settled, AgreeInv, SyncInv, Typed, TypeOK
  <2>2. WillShow(inbox[s], shown[s], m)
    BY <2>1 DEF WillShow
  <2>3. CASE media[i] # m
    BY <2>3 DEF AgreeInv, Filed, FiledAt
  <2>4. CASE media[i] = m
    <3>1. view[s][i] \in {0, text[i]}
      <4>1. ~Off(s, m, i)
        BY <2>1 DEF AgreeInv, Timely, Correcting, CorrectingAt
      <4>2. ~Outdated(inbox[s], view[s][i], i, text[i])
        BY <2>1, <2>2, <2>4, <4>1 DEF Off
      <4> QED
        BY <2>1, <4>2 DEF Outdated
    <3>2. Row(i) => view[s][i] # 0
      <4> SUFFICES ASSUME Row(i) PROVE view[s][i] # 0
        OBVIOUS
      <4>1. ~Pending(s, m, i)
        BY <2>1 DEF Pending, PendingAt
      <4>2. WillHave(inbox[s], view[s][i], m, i)
        BY <2>1, <2>2, <2>4, <4>1 DEF AgreeInv, SyncInv, Coming, Due
      <4> QED
        BY <2>1, <4>2 DEF WillHave
    <3> QED
      BY <2>4, <3>1, <3>2 DEF Row
  <2> QED
    BY <2>3, <2>4
<1> QED
  BY InitAgree, NextAgree, <1>1, PTL DEF Spec
=============================================================================
