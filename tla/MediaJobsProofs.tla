-------------------------- MODULE MediaJobsProofs --------------------------
(***************************************************************************)
(* Proofs about MediaJobs, for any files, workers and bounds.              *)
(***************************************************************************)
EXTENDS MediaJobs, TLAPS, FiniteSetTheorems, WellFoundedInduction

\* A worker that is not idle has a job.
WorkersBusy == \A w \in Workers : pc[w] # "idle" => job[w] \in Jobs

\* What the type invariant needs to be inductive.
Typed == TypeOK /\ WorkersBusy

-----------------------------------------------------------------------------
(* Data.                                                                   *)

LEMMA IdsAreNaturals == Ids \subseteq Nat /\ Len(Legacy) \in Nat /\ 0 \in Ids
  BY ConstantsAssumption DEF Ids

LEMMA EmptyDirTyped == EmptyDir \in Dirs
  BY IdsAreNaturals DEF EmptyDir, Dirs

LEMMA NewRowTyped == ASSUME NEW n \in Ids PROVE NewRow(n) \in Rows
  BY DEF NewRow, Rows

\* A function that is bounded on a set that is not empty has a maximum there.
LEMMA MaxExists ==
  ASSUME NEW S, S # {}, NEW f, \A s \in S : f[s].added \in Nat,
         NEW n \in Nat, \A s \in S : f[s].added <= n
  PROVE  \E s \in S : \A o \in S : f[o].added <= f[s].added
<1> DEFINE Gaps == {n - f[s].added : s \in S}
           R == OpToRel(<, Nat)
<1>1. Gaps \subseteq Nat /\ Gaps # {}
  OBVIOUS
<1>2. PICK x \in Gaps : \A y \in Gaps : <<y, x>> \notin R
  <2> HIDE DEF Gaps, R
  <2>1. IsWellFoundedOn(R, Nat)
    BY NatLessThanWellFounded DEF R
  <2> QED
    BY <1>1, <2>1, WFMin
<1>3. \A y \in Gaps : ~(y < x)
  BY <1>1, <1>2 DEF OpToRel
<1>4. PICK s \in S : x = n - f[s].added
  BY <1>2
<1>5. ASSUME NEW o \in S
      PROVE  f[o].added <= f[s].added
  <2>1. n - f[o].added \in Gaps
    OBVIOUS
  <2>2. ~(n - f[o].added < n - f[s].added)
    BY <1>3, <1>4, <2>1
  <2> QED
    BY <2>2
<1> QED
  BY <1>5

\* The chain goes on with a file that has a row.
LEMMA NextLegacyTyped ==
  ASSUME NEW table \in [Files -> Rows \cup {None}]
  PROVE  /\ NextLegacy(table) \in Files \cup {None}
         /\ NextLegacy(table) # None => table[NextLegacy(table)] \in Rows
<1>1. CASE Missing(table) = {}
  BY <1>1, ConstantsAssumption DEF NextLegacy
<1>2. CASE Missing(table) # {}
  <2> DEFINE n == Len(Legacy) + MaxIngests
  <2>1. n \in Nat /\ \A s \in Missing(table) : table[s].added \in Nat /\ table[s].added <= n
    BY ConstantsAssumption DEF Missing, Rows, Ids
  <2>2. \E s \in Missing(table) : \A o \in Missing(table) : table[o].added <= table[s].added
    <3> HIDE DEF n
    <3> QED
      BY <1>2, <2>1, MaxExists
  <2>3. Newest(table, Missing(table)) \in Missing(table)
    BY <2>2 DEF Newest
  <2>4. \A m \in Missing(table) : m \in Files /\ table[m] \in Rows
    BY DEF Missing
  <2> QED
    BY <1>2, <2>3, <2>4 DEF NextLegacy
<1> QED
  BY <1>1, <1>2

LEMMA QueuedTyped ==
  ASSUME NEW table \in [Files -> Rows \cup {None}], NEW m \in Files \cup {None},
         m # None => table[m] \in Rows
  PROVE  Queued(table, m) \in Seq(Jobs)
<1>1. m # None => LegacyJob(table, m) \in Jobs
  BY DEF LegacyJob, Job, Jobs, Rows
<1> QED
  BY <1>1 DEF Queued

LEMMA MadeTyped ==
  ASSUME disk \in [Files -> Dirs \cup {None}], NEW m \in Files
  PROVE  Made(m) \in Dirs
  BY EmptyDirTyped DEF Made

LEMMA WorkDirTyped ==
  ASSUME disk \in [Files -> Dirs \cup {None}], NEW j \in Jobs
  PROVE  WithWorkDir(j) \in Dirs
<1>1. j.file \in Files
  BY DEF Jobs
<1>2. Made(j.file) \in Dirs
  BY <1>1, MadeTyped
<1> QED
  BY <1>2 DEF WithWorkDir, Dirs

LEMMA ScriptOutputTyped ==
  ASSUME NEW j \in Jobs, disk[j.file] \in Dirs, CanSucceed(j)
  PROVE  WithScriptOutput(disk[j.file], j) \in Dirs
<1>1. CASE j.op = "transcode"
  <2>1. disk[j.file].work \cup {j.id} \in SUBSET Ids
    BY <1>1 DEF CanSucceed, Dirs, Jobs
  <2> QED
    BY <1>1, <2>1 DEF WithScriptOutput, Dirs
<1>2. CASE j.op # "transcode"
  BY <1>2 DEF WithScriptOutput, Dirs
<1> QED
  BY <1>1, <1>2

LEMMA MoveOutputTyped ==
  ASSUME NEW d \in Dirs, NEW n \in Ids, d.work # None
  PROVE  MoveOutput(d, n) \in Dirs
<1>1. d.work \ {n} \in SUBSET Ids
  BY DEF Dirs
<1> QED
  BY <1>1 DEF MoveOutput, Dirs

LEMMA MoveThumbsTyped ==
  ASSUME NEW d \in Dirs
  PROVE  MoveThumbs(d) \in Dirs
  BY DEF MoveThumbs, Dirs

LEMMA WithoutWorkDirTyped ==
  ASSUME NEW d \in Dirs, NEW j
  PROVE  WithoutWorkDir(d, j) \in Dirs
  BY DEF WithoutWorkDir, Dirs

LEMMA UpdateTyped ==
  ASSUME NEW table \in [Files -> Rows \cup {None}], NEW m \in Files, NEW row,
         table[m] # None => row \in Rows
  PROVE  Update(table, m, row) \in [Files -> Rows \cup {None}]
  BY DEF Update

LEMMA DbFailsTyped ==
  ASSUME faults \in 0 .. MaxFaults, NEW S, IsFiniteSet(S), NEW bad \in SUBSET S,
         DbFails(S, bad)
  PROVE  faults' \in 0 .. MaxFaults
<1>1. Cardinality(bad) \in Nat
  BY FS_Subset, FS_CardinalityType
<1> QED
  BY <1>1, ConstantsAssumption DEF DbFails

LEMMA StatementsFinite == IsFiniteSet(Statements) /\ IsFiniteSet({"recomp"})
<1>1. IsFiniteSet({"has"})
  BY FS_Singleton
<1>2. IsFiniteSet({"has"} \cup {"dims"})
  BY <1>1, FS_AddElement
<1>3. IsFiniteSet(({"has"} \cup {"dims"}) \cup {"next"})
  BY <1>2, FS_AddElement
<1>4. IsFiniteSet((({"has"} \cup {"dims"}) \cup {"next"}) \cup {"done"})
  BY <1>3, FS_AddElement
<1>5. Statements = (({"has"} \cup {"dims"}) \cup {"next"}) \cup {"done"}
  BY DEF Statements
<1> QED
  BY <1>4, <1>5, FS_Singleton

LEMMA HeadOfResults ==
  ASSUME results \in Seq(Results), results # <<>>
  PROVE  /\ Head(results) \in Results /\ Tail(results) \in Seq(Results)
         /\ Head(results).job \in Jobs /\ Head(results).job.file \in Files
         /\ Head(results).job.id \in Ids
<1>1. Head(results) \in Results /\ Tail(results) \in Seq(Results)
  OBVIOUS
<1>2. Head(results).job \in Jobs
  BY <1>1 DEF Results
<1> QED
  BY <1>1, <1>2 DEF Jobs

-----------------------------------------------------------------------------
(* Types.                                                                  *)

LEMMA InitTyped == Init => Typed
<1> SUFFICES ASSUME Init PROVE Typed
  OBVIOUS
<1>1. rows \in [Files -> Rows \cup {None}]
  <2>1. ASSUME NEW n \in 1 .. Len(Legacy), NEW m
        PROVE  [NewRow(n) EXCEPT !.recomp = (m \in Recompressed)] \in Rows
    <3>1. n \in Ids
      BY ConstantsAssumption DEF Ids
    <3>2. ASSUME NEW b \in BOOLEAN
          PROVE  [NewRow(n) EXCEPT !.recomp = b] \in Rows
      BY <3>1 DEF NewRow, Rows
    <3>3. (m \in Recompressed) \in BOOLEAN
      OBVIOUS
    <3> QED
      BY <3>2, <3>3, Zenon
  <2>2. ASSUME NEW m \in Files
        PROVE  rows[m] \in Rows \cup {None}
    <3> DEFINE age == {n \in 1 .. Len(Legacy) : Legacy[n] = m}
    <3>1. rows[m] = IF age = {} THEN None
                    ELSE [NewRow(CHOOSE n \in age : TRUE) EXCEPT
                              !.recomp = (m \in Recompressed)]
      BY DEF Init
    <3>2. age # {} => (CHOOSE n \in age : TRUE) \in 1 .. Len(Legacy)
      OBVIOUS
    <3> QED
      BY <2>1, <3>1, <3>2
  <2> QED
    BY <2>2 DEF Init
<1>2. disk \in [Files -> Dirs \cup {None}]
  BY IdsAreNaturals DEF Init, EmptyDir, Dirs
<1>3. legacy \in Files \cup {None} /\ queue \in Seq(Jobs)
  BY <1>1, NextLegacyTyped, QueuedTyped DEF Init
<1>4. ingests \in Ids /\ faults \in 0 .. MaxFaults
  BY ConstantsAssumption DEF Init, Ids
<1>5. /\ results \in Seq(Results)
      /\ pc \in [Workers -> Locations]
      /\ job \in [Workers -> Jobs \cup {None}]
      /\ \A w \in Workers : pc[w] = "idle"
  BY DEF Init, Locations
<1>6. trashing \subseteq Files /\ stale \subseteq Files /\ failed \subseteq Files
  BY DEF Init
<1>7. broken \in BOOLEAN
  BY DEF Init
<1> QED
  BY <1>1, <1>2, <1>3, <1>4, <1>5, <1>6, <1>7 DEF Typed, TypeOK, WorkersBusy

LEMMA IngestTyped == ASSUME Typed, NEW m \in Files, Ingest(m) PROVE Typed'
<1> USE DEF Typed, TypeOK, WorkersBusy
<1>1. ingests' \in Ids
  BY IdsAreNaturals, ConstantsAssumption DEF Ingest, Ids
<1>2. rows' \in [Files -> Rows \cup {None}]
  BY <1>1, NewRowTyped DEF Ingest
<1>3. disk' \in [Files -> Dirs \cup {None}]
  BY IdsAreNaturals DEF Ingest, EmptyDir, Dirs
<1>4. queue' \in Seq(Jobs)
  <2> DEFINE t == Job("transcode", m, ingests', "orig")
             h == Job("thumbs", m, ingests', "orig")
  <2>1. t \in Jobs /\ h \in Jobs
    BY <1>1 DEF Job, Jobs
  <2>2. \/ queue' = queue \o <<t, h>>
        \/ queue' = Append(queue, h)
        \/ queue' = queue
    BY DEF Ingest
  <2> HIDE DEF t, h
  <2>3. <<t, h>> \in Seq(Jobs)
    BY <2>1
  <2>4. queue \o <<t, h>> \in Seq(Jobs) /\ Append(queue, h) \in Seq(Jobs)
    BY <2>1, <2>3
  <2> QED
    BY <2>2, <2>4
<1>5. UNCHANGED <<results, pc, job, legacy, trashing, faults, stale, broken>>
      /\ failed' \subseteq Files
  BY DEF Ingest
<1> QED
  BY <1>1, <1>2, <1>3, <1>4, <1>5

LEMMA DeletionTyped ==
  ASSUME Typed, NEW m \in Files, DeleteRow(m) \/ MoveToTrash(m)
  PROVE  Typed'
  BY DEF DeleteRow, MoveToTrash, Typed, TypeOK, WorkersBusy, poolVars,
         boundVars, histVars

LEMMA CrashTyped == ASSUME Typed, Crash PROVE Typed'
<1> USE DEF Typed, TypeOK, WorkersBusy
<1>1. legacy' \in Files \cup {None} /\ queue' \in Seq(Jobs)
  BY NextLegacyTyped, QueuedTyped DEF Crash
<1>2. faults' \in 0 .. MaxFaults
  BY ConstantsAssumption DEF Crash, Fault
<1> QED
  BY <1>1, <1>2 DEF Crash, Locations

LEMMA MarksTyped ==
  ASSUME Typed, NEW j \in Jobs
  PROVE  /\ MarkFailed(j) \/ UNCHANGED failed => failed' \subseteq Files
         /\ MarkStale(j) \/ UNCHANGED stale => stale' \subseteq Files
<1>1. j.file \in Files
  BY DEF Jobs
<1> QED
  BY <1>1 DEF MarkFailed, MarkStale, Typed, TypeOK

LEMMA TakeTyped == ASSUME Typed, NEW w \in Workers, Take(w) PROVE Typed'
<1> USE DEF Typed, TypeOK, WorkersBusy
<1>1. Head(queue) \in Jobs /\ Tail(queue) \in Seq(Jobs)
  BY DEF Take
<1>2. Failure(Head(queue)) \in Results
  BY <1>1 DEF Failure, Results
<1>3. CASE HasInput(Head(queue))
  BY <1>1, <1>3 DEF Take, boundVars, Locations
<1>4. CASE ~HasInput(Head(queue))
  <2>1. /\ results' = Append(results, Failure(Head(queue)))
        /\ queue' = Tail(queue)
        /\ UNCHANGED <<rows, disk, pc, job, legacy, trashing>>
        /\ UNCHANGED <<boundVars, stale, broken>>
        /\ MarkFailed(Head(queue))
    BY <1>4 DEF Take
  <2>2. results' \in Seq(Results) /\ queue' \in Seq(Jobs)
    BY <1>1, <1>2, <2>1
  <2>3. failed' \subseteq Files
    BY <1>1, <2>1, MarksTyped
  <2> QED
    BY <2>1, <2>2, <2>3 DEF boundVars
<1> QED
  BY <1>3, <1>4

LEMMA ReportTyped ==
  ASSUME Typed, NEW w \in Workers, NEW r \in Results, Report(w, r),
         disk' \in [Files -> Dirs \cup {None}], faults' \in 0 .. MaxFaults,
         failed' \subseteq Files
  PROVE  Typed'
  BY DEF Report, Typed, TypeOK, WorkersBusy, Locations

LEMMA GoToTyped ==
  ASSUME Typed, NEW w \in Workers, pc[w] # "idle",
         NEW there \in Locations, GoTo(w, there),
         disk' \in [Files -> Dirs \cup {None}], faults' \in 0 .. MaxFaults,
         stale' \subseteq Files, failed' \subseteq Files
  PROVE  Typed'
  BY DEF GoTo, Typed, TypeOK, WorkersBusy

LEMMA FaultTyped ==
  ASSUME Typed, Fault \/ UNCHANGED faults
  PROVE  faults' \in 0 .. MaxFaults
  BY ConstantsAssumption DEF Fault, Typed, TypeOK

LEMMA MakeWorkDirTyped ==
  ASSUME Typed, NEW w \in Workers, MakeWorkDir(w)
  PROVE  Typed'
<1>1. job[w] \in Jobs /\ job[w].file \in Files
  BY DEF MakeWorkDir, Typed, WorkersBusy, Jobs
<1>2. disk' \in [Files -> Dirs \cup {None}]
  <2>1. WithWorkDir(job[w]) \in Dirs
    BY <1>1, WorkDirTyped DEF Typed, TypeOK
  <2> QED
    BY <1>1, <2>1 DEF MakeWorkDir, Typed, TypeOK
<1>3. CASE GoTo(w, "script") /\ UNCHANGED <<faults, stale, failed>>
  <2>1. pc[w] # "idle" /\ "script" \in Locations
    BY DEF MakeWorkDir, Locations
  <2> QED
    BY <1>1, <1>2, <1>3, <2>1, GoToTyped, FaultTyped, MarksTyped
<1>4. CASE RefuseEnvironment(w)
  <2>1. Failure(job[w]) \in Results
    BY <1>1 DEF Failure, Results
  <2> QED
    BY <1>1, <1>2, <1>4, <2>1, ReportTyped, FaultTyped, MarksTyped DEF RefuseEnvironment
<1> QED
  BY <1>3, <1>4 DEF MakeWorkDir

LEMMA ScriptTyped ==
  ASSUME Typed, NEW w \in Workers,
         ScriptSucceeds(w) \/ ScriptMisnames(w) \/ ScriptFails(w)
  PROVE  Typed'
<1>1. /\ job[w] \in Jobs /\ job[w].file \in Files /\ job[w].id \in Ids /\ pc[w] # "idle"
      /\ {"ok", "misnamed", "error"} \subseteq Locations
  BY DEF ScriptSucceeds, ScriptMisnames, ScriptFails, Typed, WorkersBusy, Jobs, Locations
<1>2. CASE ScriptSucceeds(w)
  <2>1. disk[job[w].file] \in Dirs
    BY <1>1, <1>2 DEF ScriptSucceeds, CanSucceed, HasInput, Typed, TypeOK
  <2>2. WithScriptOutput(disk[job[w].file], job[w]) \in Dirs
    BY <1>1, <1>2, <2>1, ScriptOutputTyped DEF ScriptSucceeds
  <2>3. disk' \in [Files -> Dirs \cup {None}]
    BY <1>1, <1>2, <2>1, <2>2 DEF ScriptSucceeds, Typed, TypeOK
  <2>4. failed' \subseteq Files /\ stale' \subseteq Files
    BY <1>1, <1>2, MarksTyped DEF ScriptSucceeds
  <2> QED
    BY <1>1, <1>2, <2>3, <2>4, GoToTyped, FaultTyped DEF ScriptSucceeds
<1>3. CASE ScriptMisnames(w) \/ ScriptFails(w)
  <2>1. failed' \subseteq Files /\ stale' \subseteq Files
    BY <1>1, <1>3, MarksTyped DEF ScriptMisnames, ScriptFails
  <2>2. disk' \in [Files -> Dirs \cup {None}] /\ faults' \in 0 .. MaxFaults
    BY <1>3, FaultTyped DEF ScriptMisnames, ScriptFails, Typed, TypeOK
  <2> QED
    BY <1>1, <1>3, <2>1, <2>2, GoToTyped DEF ScriptMisnames, ScriptFails
<1> QED
  BY <1>2, <1>3

\* The last steps of a worker on its job.
LEMMA AtTheEnd ==
  ASSUME Typed, NEW w \in Workers,
         FindOutput(w) \/ MoveImages(w) \/ RemoveWorkDir(w) \/ Answer(w)
  PROVE  /\ job[w] \in Jobs /\ job[w].file \in Files /\ job[w].id \in Ids
         /\ pc[w] # "idle"
         /\ disk[job[w].file] \in Dirs \cup {None}
         /\ faults' \in 0 .. MaxFaults /\ failed' \subseteq Files /\ stale' \subseteq Files
<1>1. pc[w] # "idle" /\ UNCHANGED <<faults, failed>>
  BY DEF FindOutput, MoveImages, RemoveWorkDir, Answer
<1>2. job[w] \in Jobs /\ job[w].file \in Files /\ job[w].id \in Ids
  BY <1>1 DEF Typed, WorkersBusy, Jobs
<1>3. stale' \subseteq Files
  BY <1>2, MarksTyped DEF FindOutput, MoveImages, RemoveWorkDir, Answer
<1> QED
  BY <1>1, <1>2, <1>3 DEF Typed, TypeOK

\* What an answer says.
LEMMA AnswerIs ==
  ASSUME Typed, NEW w \in Workers, Answer(w)
  PROVE  \E q \in Results :
             /\ Report(w, q)
             /\ q.job = job[w] /\ (q.ok <=> pc[w] = "done")
             /\ q.thumbs <=> q.ok /\ q.job.op = "thumbs" /\ HasImages(disk[q.job.file])
<1> DEFINE j == job[w]
           ok == pc[w] = "done"
           shown == ok /\ j.op = "thumbs" /\ HasImages(disk[j.file])
           q == [job |-> j, ok |-> ok, thumbs |-> shown]
<1>1. Report(w, q)
  BY DEF Answer
<1>2. q.job = j /\ q.ok = ok /\ q.thumbs = shown
  OBVIOUS
<1>3. q \in Results
  <2>1. j \in Jobs
    BY AtTheEnd
  <2>2. shown \in BOOLEAN
    OBVIOUS
  <2> HIDE DEF j, shown
  <2> QED
    BY <2>1, <2>2 DEF Results
<1> HIDE DEF q
<1> QED
  BY <1>1, <1>2, <1>3

LEMMA EndTyped ==
  ASSUME Typed, NEW w \in Workers,
         FindOutput(w) \/ MoveImages(w) \/ RemoveWorkDir(w) \/ Answer(w)
  PROVE  Typed'
<1> DEFINE j == job[w]
           m == j.file
<1>1. /\ j \in Jobs /\ m \in Files /\ j.id \in Ids /\ pc[w] # "idle"
      /\ disk[m] \in Dirs \cup {None}
      /\ faults' \in 0 .. MaxFaults /\ failed' \subseteq Files /\ stale' \subseteq Files
      /\ {"moved", "done", "undone"} \subseteq Locations
  BY AtTheEnd DEF Locations
<1>2. CASE FindOutput(w)
  <2>1. CASE UNCHANGED disk /\ Report(w, Failure(j))
    <3>1. Failure(j) \in Results
      BY <1>1 DEF Failure, Results
    <3> QED
      BY <1>1, <2>1, <3>1, ReportTyped DEF Typed, TypeOK
  <2>2. CASE /\ disk[m] # None /\ disk[m].work # None /\ GoTo(w, "moved")
             /\ disk' = [disk EXCEPT ![m] = MoveOutput(disk[m], j.id)]
    <3>1. MoveOutput(disk[m], j.id) \in Dirs
      BY <1>1, <2>2, MoveOutputTyped
    <3>2. disk' \in [Files -> Dirs \cup {None}]
      BY <1>1, <2>2, <3>1 DEF Typed, TypeOK
    <3> QED
      BY <1>1, <2>2, <3>2, GoToTyped
  <2> QED
    BY <1>2, <2>1, <2>2 DEF FindOutput
<1>3. CASE MoveImages(w)
  <2>1. disk' \in [Files -> Dirs \cup {None}]
    BY <1>1, <1>3, MoveThumbsTyped DEF MoveImages, Typed, TypeOK
  <2> QED
    BY <1>1, <1>3, <2>1, GoToTyped DEF MoveImages
<1>4. CASE RemoveWorkDir(w)
  <2>1. disk' \in [Files -> Dirs \cup {None}]
    BY <1>1, <1>4, WithoutWorkDirTyped DEF RemoveWorkDir, Typed, TypeOK
  <2>2. GoTo(w, "done") \/ GoTo(w, "undone")
    BY <1>4 DEF RemoveWorkDir
  <2> QED
    BY <1>1, <2>1, <2>2, GoToTyped
<1>5. CASE Answer(w)
  BY <1>1, <1>5, AnswerIs, ReportTyped DEF Answer, Typed, TypeOK
<1> QED
  BY <1>2, <1>3, <1>4, <1>5

LEMMA HandleTranscodedTyped == ASSUME Typed, HandleTranscoded PROVE Typed'
<1> DEFINE j == Head(results).job
           m == j.file
<1> USE DEF Typed, TypeOK, WorkersBusy
<1>1. j \in Jobs /\ m \in Files /\ j.id \in Ids /\ results' \in Seq(Results)
  BY HeadOfResults DEF HandleTranscoded
<1>2. disk' \in [Files -> Dirs \cup {None}]
  <2>1. Made(m) \in Dirs
    BY <1>1, MadeTyped
  <2>2. [Made(m) EXCEPT !.link = j.id] \in Dirs
    BY <1>1, <2>1 DEF Dirs
  <2> QED
    BY <1>1, <2>1, <2>2 DEF HandleTranscoded
<1>3. rows' \in [Files -> Rows \cup {None}]
  <2>1. rows[m] # None => [rows[m] EXCEPT !.recomp = TRUE] \in Rows
    BY <1>1 DEF Rows
  <2>2. Update(rows, m, [rows[m] EXCEPT !.recomp = TRUE])
            \in [Files -> Rows \cup {None}]
    BY <1>1, <2>1, UpdateTyped
  <2> QED
    BY <2>2 DEF HandleTranscoded
<1>4. faults' \in 0 .. MaxFaults
  BY DbFailsTyped, StatementsFinite DEF HandleTranscoded
<1>5. stale' \subseteq Files
  BY <1>1 DEF HandleTranscoded, MarkStale
<1> QED
  BY <1>1, <1>2, <1>3, <1>4, <1>5 DEF HandleTranscoded, poolVars

LEMMA HandleThumbsTyped == ASSUME Typed, HandleThumbs PROVE Typed'
<1> DEFINE r == Head(results)
           m == r.job.file
<1> USE DEF Typed, TypeOK, WorkersBusy
<1>1. r \in Results /\ r.job \in Jobs /\ m \in Files /\ results' \in Seq(Results)
  BY HeadOfResults DEF HandleThumbs
<1>2. PICK bad \in SUBSET Statements :
        LET shown == IF r.thumbs THEN Update(rows, m, WithThumbs(rows[m], bad))
                     ELSE rows
            next == IF "next" \in bad THEN None ELSE NextLegacy(shown) IN
        /\ DbFails(Statements, bad)
        /\ IF ContinuesChain(r, bad)
           THEN /\ legacy' = next
                /\ queue' = queue \o Queued(shown, next)
                /\ broken' = (next = None /\ Missing(shown) # {})
           ELSE /\ broken' = (broken \/ legacy = m)
                /\ UNCHANGED <<legacy, queue>>
        /\ rows' = IF MarksDone(r, bad)
                   THEN Update(shown, m, [shown[m] EXCEPT !.done = TRUE])
                   ELSE shown
        /\ failed' = IF MarksDone(r, bad) THEN failed ELSE failed \cup {m}
  BY DEF HandleThumbs
<1> DEFINE shown == IF r.thumbs THEN Update(rows, m, WithThumbs(rows[m], bad))
                    ELSE rows
           next == IF "next" \in bad THEN None ELSE NextLegacy(shown)
<1>3. faults' \in 0 .. MaxFaults
  BY <1>2, DbFailsTyped, StatementsFinite
<1>4. shown \in [Files -> Rows \cup {None}]
  <2>1. rows[m] # None => WithThumbs(rows[m], bad) \in Rows
    BY <1>1 DEF WithThumbs, Rows
  <2> QED
    BY <1>1, <2>1, UpdateTyped
<1>5. rows' \in [Files -> Rows \cup {None}]
  <2> HIDE DEF shown
  <2>1. shown[m] # None => [shown[m] EXCEPT !.done = TRUE] \in Rows
    BY <1>1, <1>4 DEF Rows
  <2>2. Update(shown, m, [shown[m] EXCEPT !.done = TRUE]) \in [Files -> Rows \cup {None}]
    BY <1>1, <1>4, <2>1, UpdateTyped
  <2> QED
    BY <1>2, <1>4, <2>2 DEF shown
<1>6. legacy' \in Files \cup {None} /\ queue' \in Seq(Jobs)
  <2>1. next \in Files \cup {None} /\ (next # None => shown[next] \in Rows)
    <3> HIDE DEF shown
    <3> QED
      BY <1>4, NextLegacyTyped
  <2>2. Queued(shown, next) \in Seq(Jobs)
    <3> HIDE DEF shown, next
    <3> QED
      BY <1>4, <2>1, QueuedTyped
  <2>3. IF ContinuesChain(r, bad)
        THEN legacy' = next /\ queue' = queue \o Queued(shown, next)
        ELSE UNCHANGED <<legacy, queue>>
    BY <1>2
  <2> HIDE DEF shown, next
  <2>4. queue \o Queued(shown, next) \in Seq(Jobs)
    BY <2>2
  <2> QED
    BY <2>1, <2>3, <2>4
<1>7. broken' \in BOOLEAN /\ failed' \subseteq Files /\ stale' \subseteq Files
  <2>1. stale' \subseteq Files
    BY <1>1 DEF HandleThumbs, MarkStale
  <2>2. failed' \subseteq Files
    BY <1>1, <1>2
  <2>3. broken' \in BOOLEAN
    BY <1>2
  <2> QED
    BY <2>1, <2>2, <2>3
<1> QED
  BY <1>1, <1>3, <1>5, <1>6, <1>7 DEF HandleThumbs

LEMMA HandleFailureTyped == ASSUME Typed, HandleFailure PROVE Typed'
<1> USE DEF Typed, TypeOK, WorkersBusy
<1>1. Head(results).job.file \in Files /\ results' \in Seq(Results)
  BY HeadOfResults DEF HandleFailure
<1> QED
  BY <1>1 DEF HandleFailure, poolVars, boundVars

LEMMA NextTyped == Typed /\ [Next]_vars => Typed'
<1> SUFFICES ASSUME Typed, [Next]_vars PROVE Typed'
  OBVIOUS
<1>1. ASSUME NEW m \in Files, Ingest(m) \/ DeleteRow(m) \/ MoveToTrash(m)
      PROVE  Typed'
  BY <1>1, IngestTyped, DeletionTyped
<1>2. ASSUME NEW w \in Workers, WorkerStep(w)
      PROVE  Typed'
  BY <1>2, TakeTyped, MakeWorkDirTyped, ScriptTyped, EndTyped DEF WorkerStep
<1>3. CASE HandleResult
  BY <1>3, HandleTranscodedTyped, HandleThumbsTyped, HandleFailureTyped
  DEF HandleResult
<1>4. CASE Crash
  BY <1>4, CrashTyped
<1>5. CASE UNCHANGED vars
  BY <1>5 DEF vars, poolVars, boundVars, histVars, Typed, TypeOK, WorkersBusy
<1> QED
  BY <1>1, <1>2, <1>3, <1>4, <1>5 DEF Next

\* Rows, directories, jobs and results have their types: a worker that is busy
\* has a job, and the chain goes on with a file that has a row.
THEOREM TypeCorrect == Spec => []TypeOK
<1>1. Typed => TypeOK
  BY DEF Typed
<1> QED
  BY InitTyped, NextTyped, <1>1, PTL DEF Spec

-----------------------------------------------------------------------------
(* Ingestions: a new one has a greater id than any row, job or result.     *)

Held(s) == {s[k] : k \in 1 .. Len(s)}

LEMMA HeldByTail ==
  ASSUME NEW T, NEW s \in Seq(T), s # <<>>
  PROVE  Held(Tail(s)) \subseteq Held(s) /\ Head(s) \in Held(s)
<1>1. Len(Tail(s)) = Len(s) - 1 /\ Len(s) \in Nat /\ Len(s) >= 1
  OBVIOUS
<1>2. \A k \in 1 .. Len(Tail(s)) : Tail(s)[k] = s[k + 1] /\ k + 1 \in 1 .. Len(s)
  BY <1>1
<1>3. Head(s) = s[1] /\ 1 \in 1 .. Len(s)
  BY <1>1
<1> QED
  BY <1>2, <1>3 DEF Held

LEMMA HeldByAppend ==
  ASSUME NEW T, NEW s \in Seq(T), NEW e \in T
  PROVE  Held(Append(s, e)) \subseteq Held(s) \cup {e}
<1>1. Len(Append(s, e)) = Len(s) + 1 /\ Len(s) \in Nat
  OBVIOUS
<1>2. \A k \in 1 .. Len(s) + 1 :
        Append(s, e)[k] = IF k = Len(s) + 1 THEN e ELSE s[k]
  OBVIOUS
<1>3. ASSUME NEW k \in 1 .. Len(Append(s, e))
      PROVE  Append(s, e)[k] \in Held(s) \cup {e}
  BY <1>1, <1>2 DEF Held
<1> QED
  BY <1>3 DEF Held

LEMMA HeldByConcat ==
  ASSUME NEW T, NEW s \in Seq(T), NEW t \in Seq(T)
  PROVE  Held(s \o t) \subseteq Held(s) \cup Held(t)
<1>1. Len(s \o t) = Len(s) + Len(t) /\ Len(s) \in Nat /\ Len(t) \in Nat
  OBVIOUS
<1>2. \A k \in 1 .. Len(s) + Len(t) :
        (s \o t)[k] = IF k <= Len(s) THEN s[k] ELSE t[k - Len(s)]
  OBVIOUS
<1>3. ASSUME NEW k \in 1 .. Len(s \o t)
      PROVE  (s \o t)[k] \in Held(s) \cup Held(t)
  <2>1. CASE k <= Len(s)
    BY <1>1, <1>2, <2>1 DEF Held
  <2>2. CASE k > Len(s)
    <3>1. k - Len(s) \in 1 .. Len(t)
      BY <1>1, <2>2
    <3> QED
      BY <1>1, <1>2, <2>2, <3>1 DEF Held
  <2> QED
    BY <1>1, <2>1, <2>2
<1> QED
  BY <1>3 DEF Held

LEMMA HeldByTyped ==
  ASSUME NEW T, NEW s \in Seq(T)
  PROVE  Held(s) \subseteq T
  BY DEF Held

LEMMA HeldByEmpty == Held(<<>>) = {}
  BY DEF Held

RowsPast(table, n) == \A m \in Files : table[m] # None => table[m].added <= n

\* Nothing is of a later ingestion than the last.
IdsPast ==
    /\ RowsPast(rows, ingests)
    /\ \A j \in Held(queue) : j.id <= ingests
    /\ \A w \in Workers : pc[w] # "idle" => job[w].id <= ingests
    /\ \A r \in Held(results) : r.job.id <= ingests

LEMMA QueuedPast ==
  ASSUME NEW table \in [Files -> Rows \cup {None}], NEW n \in Nat,
         RowsPast(table, n)
  PROVE  \A j \in Held(Queued(table, NextLegacy(table))) : j.id <= n
<1> DEFINE m == NextLegacy(table)
<1>1. CASE m = None
  BY <1>1, HeldByEmpty DEF Queued
<1>2. CASE m # None
  <2>1. m \in Files /\ table[m].added <= n
    <3>1. m \in Files \cup {None} /\ table[m] \in Rows
      BY <1>2, NextLegacyTyped
    <3> HIDE DEF m
    <3> QED
      BY <1>2, <3>1, ConstantsAssumption DEF RowsPast
  <2>2. LegacyJob(table, m).id <= n
    BY <2>1 DEF LegacyJob, Job
  <2>3. Queued(table, m) = <<LegacyJob(table, m)>>
    BY <1>2 DEF Queued
  <2> HIDE DEF m
  <2>4. Held(<<LegacyJob(table, m)>>) \subseteq {LegacyJob(table, m)}
    BY DEF Held
  <2> QED
    BY <2>2, <2>3, <2>4 DEF m
<1> QED
  BY <1>1, <1>2

LEMMA InitPast == Init => IdsPast
<1> SUFFICES ASSUME Init PROVE IdsPast
  OBVIOUS
<1>1. Typed
  BY InitTyped
<1>2. RowsPast(rows, ingests)
  <2>1. ASSUME NEW m \in Files, rows[m] # None
        PROVE  rows[m].added <= ingests
    <3> DEFINE age == {n \in 1 .. Len(Legacy) : Legacy[n] = m}
               n == CHOOSE n \in age : TRUE
    <3>1. rows[m] = IF age = {} THEN None
                    ELSE [NewRow(n) EXCEPT !.recomp = (m \in Recompressed)]
      BY DEF Init
    <3>2. age # {} /\ n \in 1 .. Len(Legacy)
      BY <2>1, <3>1
    <3>3. rows[m].added = n
      BY <3>1, <3>2 DEF NewRow
    <3> QED
      BY <3>2, <3>3, IdsAreNaturals DEF Init
  <2> QED
    BY <2>1 DEF RowsPast
<1>3. \A j \in Held(queue) : j.id <= ingests
  <2>1. ingests \in Nat /\ queue = Queued(rows, NextLegacy(rows))
    BY IdsAreNaturals DEF Init
  <2> QED
    BY <1>1, <1>2, <2>1, QueuedPast DEF Typed, TypeOK
<1> QED
  BY <1>2, <1>3, HeldByEmpty DEF Init, IdsPast

LEMMA NextPast == Typed /\ IdsPast /\ [Next]_vars => IdsPast'
<1> SUFFICES ASSUME Typed, IdsPast, [Next]_vars
             PROVE  IdsPast'
  OBVIOUS
<1>0. ingests \in Nat /\ \A m \in Files : rows[m] # None => rows[m].added \in Nat
  BY IdsAreNaturals DEF Typed, TypeOK, Rows
<1>1. ASSUME NEW m \in Files, Ingest(m)
      PROVE  IdsPast'
  <2> DEFINE t == Job("transcode", m, ingests', "orig")
             h == Job("thumbs", m, ingests', "orig")
  <2>1. /\ ingests' = ingests + 1 /\ rows' = [rows EXCEPT ![m] = NewRow(ingests')]
        /\ UNCHANGED <<results, pc, job>>
        /\ \/ queue' = queue \o <<t, h>> \/ queue' = Append(queue, h)
           \/ UNCHANGED queue
    BY <1>1 DEF Ingest
  <2>2. RowsPast(rows, ingests)'
    BY <1>0, <2>1 DEF IdsPast, RowsPast, NewRow, Typed, TypeOK
  <2>3. t \in Jobs /\ h \in Jobs /\ t.id = ingests' /\ h.id = ingests'
    BY <1>1, IngestTyped DEF Job, Jobs, Typed, TypeOK
  <2>4. Held(queue') \subseteq Held(queue) \cup {t, h}
    <3> HIDE DEF t, h
    <3>1. <<t, h>> \in Seq(Jobs) /\ Held(<<t, h>>) \subseteq {t, h}
      BY <2>3 DEF Held
    <3> QED
      BY <2>1, <2>3, <3>1, HeldByConcat, HeldByAppend DEF Typed, TypeOK
  <2>5. /\ \A j \in Held(queue) : j \in Jobs /\ j.id \in Nat /\ j.id <= ingests
        /\ \A r \in Held(results) : r.job \in Jobs /\ r.job.id \in Nat /\ r.job.id <= ingests
        /\ \A w \in Workers : pc[w] # "idle" => job[w].id \in Nat /\ job[w].id <= ingests
    <3>1. Held(queue) \subseteq Jobs /\ Held(results) \subseteq Results
      BY HeldByTyped DEF Typed, TypeOK
    <3>2. \A j \in Jobs : j.id \in Nat
      BY IdsAreNaturals DEF Jobs
    <3>3. \A r \in Results : r.job \in Jobs
      BY DEF Results
    <3> QED
      BY <3>1, <3>2, <3>3 DEF IdsPast, Typed, WorkersBusy
  <2> HIDE DEF t, h
  <2>6. \A j \in Held(queue') : j.id <= ingests'
    BY <1>0, <2>1, <2>3, <2>4, <2>5
  <2>7. \A r \in Held(results') : r.job.id <= ingests'
    BY <1>0, <2>1, <2>5
  <2>8. \A w \in Workers : pc'[w] # "idle" => job'[w].id <= ingests'
    BY <1>0, <2>1, <2>5
  <2> QED
    BY <2>2, <2>6, <2>7, <2>8 DEF IdsPast
<1>2. ASSUME NEW m \in Files, DeleteRow(m) \/ MoveToTrash(m)
      PROVE  IdsPast'
  BY <1>2 DEF DeleteRow, MoveToTrash, poolVars, boundVars, IdsPast, RowsPast, Typed, TypeOK
<1>3. CASE Crash
  <2>1. /\ UNCHANGED <<rows, ingests>> /\ results' = <<>>
        /\ queue' = Queued(rows, NextLegacy(rows))
        /\ \A w \in Workers : pc'[w] = "idle"
    BY <1>3 DEF Crash
  <2>2. \A j \in Held(queue') : j.id <= ingests
    BY <1>0, <2>1, QueuedPast DEF IdsPast, Typed, TypeOK
  <2> QED
    BY <2>1, <2>2, HeldByEmpty DEF IdsPast
<1>4. ASSUME NEW w \in Workers, Take(w)
      PROVE  IdsPast'
  <2> DEFINE j == Head(queue)
  <2>1. /\ j \in Held(queue) /\ j \in Jobs /\ j.id <= ingests
        /\ Held(Tail(queue)) \subseteq Held(queue)
    BY <1>4, HeldByTail, HeldByTyped DEF Take, IdsPast, Typed, TypeOK
  <2>2. Failure(j) \in Results /\ Failure(j).job = j
    BY <2>1 DEF Failure, Results
  <2>3. /\ UNCHANGED <<rows, ingests>> /\ queue' = Tail(queue)
        /\ \/ /\ job' = [job EXCEPT ![w] = j] /\ pc' = [pc EXCEPT ![w] = "mkdir"]
              /\ UNCHANGED results
           \/ results' = Append(results, Failure(j)) /\ UNCHANGED <<pc, job>>
    BY <1>4 DEF Take, boundVars
  <2> HIDE DEF j
  <2>4. Held(results') \subseteq Held(results) \cup {Failure(j)}
    BY <2>2, <2>3, HeldByAppend DEF Typed, TypeOK
  <2>5. \A v \in Workers : pc'[v] # "idle" => job'[v].id <= ingests
    BY <2>1, <2>3 DEF IdsPast, Typed, TypeOK
  <2> QED
    BY <2>1, <2>2, <2>3, <2>4, <2>5 DEF IdsPast
<1>5. ASSUME NEW w \in Workers, NEW there, pc[w] # "idle", GoTo(w, there)
      PROVE  IdsPast'
  BY <1>5 DEF GoTo, IdsPast, Typed, TypeOK
<1>6. ASSUME NEW w \in Workers, NEW r \in Results, r.job = job[w], pc[w] # "idle",
             Report(w, r)
      PROVE  IdsPast'
  <2>1. Held(results') \subseteq Held(results) \cup {r}
    BY <1>6, HeldByAppend DEF Report, Typed, TypeOK
  <2> QED
    BY <1>6, <2>1 DEF Report, IdsPast, Typed, TypeOK
<1>7. ASSUME NEW w \in Workers, WorkerStep(w), ~Take(w)
      PROVE  IdsPast'
  <2>1. pc[w] # "idle" /\ job[w] \in Jobs
    BY <1>7 DEF WorkerStep, MakeWorkDir, ScriptSucceeds, ScriptMisnames,
                ScriptFails, FindOutput, MoveImages, RemoveWorkDir, Answer, Typed, WorkersBusy
  <2>2. Failure(job[w]) \in Results /\ Failure(job[w]).job = job[w]
    BY <2>1 DEF Failure, Results
  <2>3. CASE MakeWorkDir(w)
    BY <1>5, <1>6, <2>1, <2>2, <2>3 DEF MakeWorkDir, RefuseEnvironment
  <2>4. CASE ScriptSucceeds(w) \/ ScriptMisnames(w) \/ ScriptFails(w)
    BY <1>5, <2>1, <2>4 DEF ScriptSucceeds, ScriptMisnames, ScriptFails
  <2>5. CASE FindOutput(w)
    BY <1>5, <1>6, <2>1, <2>2, <2>5 DEF FindOutput
  <2>6. CASE MoveImages(w) \/ RemoveWorkDir(w)
    BY <1>5, <2>1, <2>6 DEF MoveImages, RemoveWorkDir
  <2>7. CASE Answer(w)
    BY <1>6, <2>1, <2>7, AnswerIs
  <2> QED
    BY <1>7, <2>3, <2>4, <2>5, <2>6, <2>7 DEF WorkerStep
<1>8. CASE HandleTranscoded \/ HandleFailure
  <2>1. Held(results') \subseteq Held(results)
    BY <1>8, HeldByTail DEF HandleTranscoded, HandleFailure, Typed, TypeOK
  <2>2. UNCHANGED <<queue, pc, job, ingests>>
    BY <1>8 DEF HandleTranscoded, HandleFailure, poolVars, boundVars
  <2>3. RowsPast(rows, ingests)'
    <3>1. Head(results).job.file \in Files
      BY <1>8, HeadOfResults DEF HandleTranscoded, HandleFailure, Typed, TypeOK
    <3>2. \/ rows' = rows
          \/ rows' = Update(rows, Head(results).job.file,
                            [rows[Head(results).job.file] EXCEPT !.recomp = TRUE])
      BY <1>8 DEF HandleTranscoded, HandleFailure
    <3> QED
      BY <2>2, <3>1, <3>2 DEF Update, IdsPast, RowsPast, Typed, TypeOK, Rows
  <2> QED
    BY <2>1, <2>2, <2>3 DEF IdsPast
<1>9. CASE HandleThumbs
  <2> DEFINE r == Head(results)
             m == r.job.file
  <2>1. m \in Files /\ Held(results') \subseteq Held(results)
    BY <1>9, HeadOfResults, HeldByTail DEF HandleThumbs, Typed, TypeOK
  <2>2. PICK bad \in SUBSET Statements :
          LET shown == IF r.thumbs THEN Update(rows, m, WithThumbs(rows[m], bad))
                       ELSE rows
              next == IF "next" \in bad THEN None ELSE NextLegacy(shown) IN
          /\ \/ queue' = queue \o Queued(shown, next)
             \/ UNCHANGED queue
          /\ \/ rows' = Update(shown, m, [shown[m] EXCEPT !.done = TRUE])
             \/ rows' = shown
    BY <1>9 DEF HandleThumbs
  <2> DEFINE shown == IF r.thumbs THEN Update(rows, m, WithThumbs(rows[m], bad))
                      ELSE rows
             next == IF "next" \in bad THEN None ELSE NextLegacy(shown)
  <2>3. UNCHANGED <<pc, job, ingests>>
    BY <1>9 DEF HandleThumbs
  <2>4. shown \in [Files -> Rows \cup {None}] /\ RowsPast(shown, ingests)
    <3>1. rows[m] # None => /\ WithThumbs(rows[m], bad) \in Rows
                            /\ WithThumbs(rows[m], bad).added = rows[m].added
      BY <2>1 DEF WithThumbs, Rows, Typed, TypeOK
    <3> QED
      BY <2>1, <3>1 DEF Update, IdsPast, RowsPast, Typed, TypeOK
  <2>5. RowsPast(rows, ingests)'
    <3>1. rows' = Update(shown, m, [shown[m] EXCEPT !.done = TRUE]) \/ rows' = shown
      BY <2>2
    <3> HIDE DEF shown
    <3> QED
      BY <2>1, <2>3, <2>4, <3>1 DEF Update, RowsPast, Rows
  <2>6. \A j \in Held(queue') : j.id <= ingests
    <3>1. queue' = queue \o Queued(shown, next) \/ UNCHANGED queue
      BY <2>2
    <3> HIDE DEF shown
    <3>2. Queued(shown, next) \in Seq(Jobs)
      BY <2>4, NextLegacyTyped, QueuedTyped
    <3>3. \A j \in Held(Queued(shown, next)) : j.id <= ingests
      BY <1>0, <2>4, QueuedPast, HeldByEmpty DEF Queued
    <3> HIDE DEF next
    <3> QED
      BY <3>1, <3>2, <3>3, HeldByConcat DEF IdsPast, Typed, TypeOK
  <2> QED
    BY <2>1, <2>3, <2>5, <2>6 DEF IdsPast
<1>10. CASE UNCHANGED vars
  BY <1>10 DEF vars, poolVars, boundVars, IdsPast, RowsPast
<1> QED
  BY <1>1, <1>2, <1>3, <1>4, <1>7, <1>8, <1>9, <1>10 DEF Next, HandleResult

-----------------------------------------------------------------------------
(* What rows say of the disk.                                              *)

\* A job of the present ingestion of its file.
Current(j) ==
    LET m == j.file IN
    m \notin stale /\ rows[m] # None /\ rows[m].added = j.id

HasOutput(j) == LET d == disk[j.file] IN d # None /\ j.id \in d.outputs

\* The result says what is so.
Truthful(r) ==
    /\ r.thumbs => HasImages(disk[r.job.file])
    /\ r.ok /\ r.job.op = "transcode" => HasOutput(r.job)

\* A worker that has found the output of its transcoding, and has not yet said so.
HasMoved(w) == pc[w] \in {"moved", "done"} /\ job[w].op = "transcode"

\* What such a job or its result promises is there until it is handled.
Delivered ==
    /\ \A w \in Workers : HasMoved(w) /\ Current(job[w]) => HasOutput(job[w])
    /\ \A r \in Held(results) : Current(r.job) => Truthful(r)

SafetyInv ==
    /\ Typed
    /\ IdsPast
    /\ RecompressedPlays
    /\ ThumbsShownExist
    /\ Delivered

\* Directories grow, but for those of files deleted or hit by something stale.
GrowsAt(m) ==
    disk[m] # None =>
        /\ disk'[m] # None
        /\ disk[m].thumbs => disk'[m].thumbs
        /\ disk[m].outputs \subseteq disk'[m].outputs
        /\ disk[m].link # None => disk'[m].link = disk[m].link

\* A row is that of before, or that of a new ingestion.
SameRow(m) ==
    /\ m \notin stale /\ rows[m] # None /\ rows'[m].added = rows[m].added
    /\ GrowsAt(m)

NewlyIngested(m) ==
    rows'[m].added = ingests + 1 /\ ~rows'[m].recomp /\ ~rows'[m].has

Grows ==
    \A m \in Files \ stale' : rows'[m] # None => SameRow(m) \/ NewlyIngested(m)

LEMMA KeepsPlaying ==
  ASSUME SafetyInv, Grows,
         \A m \in Files \ stale' : rows'[m] # None /\ rows'[m].recomp =>
             \/ rows[m].recomp
             \/ disk'[m] # None /\ disk'[m].link \in disk'[m].outputs
  PROVE  RecompressedPlays'
<1> SUFFICES ASSUME NEW m \in Files, m \notin stale', rows'[m] # None, rows'[m].recomp
             PROVE  disk'[m] # None /\ disk'[m].link \in disk'[m].outputs
  BY DEF RecompressedPlays
<1>1. CASE SameRow(m) /\ rows[m].recomp
  <2>1. disk[m] # None /\ disk[m].link \in disk[m].outputs
    BY <1>1 DEF SafetyInv, RecompressedPlays, SameRow
  <2>2. disk[m].link # None
    BY <2>1, ConstantsAssumption DEF SafetyInv, Typed, TypeOK, Dirs
  <2> QED
    BY <1>1, <2>1, <2>2 DEF SameRow, GrowsAt
<1> QED
  BY <1>1 DEF Grows, NewlyIngested

LEMMA KeepsThumbs ==
  ASSUME SafetyInv, Grows,
         \A m \in Files \ stale' : rows'[m] # None /\ rows'[m].has =>
             rows[m].has \/ (disk'[m] # None /\ disk'[m].thumbs)
  PROVE  ThumbsShownExist'
<1> SUFFICES ASSUME NEW m \in Files, m \notin stale', rows'[m] # None, rows'[m].has
             PROVE  disk'[m] # None /\ disk'[m].thumbs
  BY DEF ThumbsShownExist
<1>1. CASE SameRow(m) /\ rows[m].has
  BY <1>1 DEF SafetyInv, ThumbsShownExist, SameRow, GrowsAt
<1> QED
  BY <1>1 DEF Grows, NewlyIngested

\* A new result, if there is one, says what is so.
NewsTruthful ==
    \A r \in Held(results') :
        r \in Held(results) \/ (Current(r.job)' => Truthful(r)')

\* A worker's next step is the same as before, unless it has just moved its output.
MovesTruly ==
    \A w \in Workers : HasMoved(w)' =>
        (HasMoved(w) /\ job'[w] = job[w]) \/ HasOutput(job[w])'

LEMMA KeepsDelivered ==
  ASSUME SafetyInv, Typed', Grows, NewsTruthful, MovesTruly
  PROVE  Delivered'
<1>1. ASSUME NEW j \in Jobs, j.id <= ingests, Current(j)'
      PROVE  SameRow(j.file) /\ Current(j)
  <2>1. j.file \in Files /\ j.id \in Nat /\ ingests \in Nat
    BY IdsAreNaturals DEF SafetyInv, Typed, TypeOK, Jobs
  <2>2. j.file \notin stale' /\ rows'[j.file] # None /\ rows'[j.file].added = j.id
    BY <1>1 DEF Current
  <2>3. SameRow(j.file)
    BY <1>1, <2>1, <2>2 DEF Grows, NewlyIngested
  <2> QED
    BY <2>2, <2>3 DEF SameRow, Current
<1>2. ASSUME NEW j \in Jobs, SameRow(j.file)
      PROVE  /\ HasOutput(j) => HasOutput(j)'
             /\ HasImages(disk[j.file]) => HasImages(disk'[j.file])
  BY <1>2 DEF SameRow, GrowsAt, HasOutput, HasImages
<1>3. ASSUME NEW w \in Workers, NEW j, j = job'[w], HasMoved(w)', Current(j)'
      PROVE  HasOutput(j)'
  <2>1. ASSUME HasMoved(w), j = job[w]
        PROVE  HasOutput(j)'
    <3>1. pc[w] # "idle"
      BY <2>1 DEF HasMoved
    <3>2. j \in Jobs /\ j.id <= ingests
      BY <2>1, <3>1 DEF SafetyInv, Typed, WorkersBusy, IdsPast
    <3>3. SameRow(j.file) /\ Current(j)
      BY <1>1, <1>3, <3>2
    <3> QED
      BY <1>2, <2>1, <3>2, <3>3 DEF SafetyInv, Delivered
  <2>2. CASE HasOutput(job[w])'
    BY <1>3, <2>2 DEF HasOutput
  <2> QED
    BY <1>3, <2>1, <2>2 DEF MovesTruly
<1>4. ASSUME NEW r \in Held(results'), Current(r.job)'
      PROVE  Truthful(r)'
  <2>1. CASE r \in Held(results)
    <3>1. r \in Results /\ r.job \in Jobs /\ r.job.id <= ingests
      <4>1. r \in Results
        BY <2>1, HeldByTyped DEF SafetyInv, Typed, TypeOK
      <4> QED
        BY <2>1, <4>1 DEF Results, SafetyInv, IdsPast
    <3>2. SameRow(r.job.file) /\ Current(r.job)
      BY <1>1, <1>4, <3>1
    <3>3. Truthful(r)
      BY <2>1, <3>2 DEF SafetyInv, Delivered
    <3> QED
      BY <1>2, <3>1, <3>2, <3>3 DEF Truthful
  <2> QED
    BY <1>4, <2>1 DEF NewsTruthful
<1>5. ASSUME NEW w \in Workers, (HasMoved(w) /\ Current(job[w]))'
      PROVE  HasOutput(job[w])'
  <2>1. PICK j : j = job'[w]
    OBVIOUS
  <2>2. Current(j)' /\ HasMoved(w)'
    BY <1>5, <2>1 DEF Current
  <2>3. HasOutput(j)'
    BY <1>3, <2>1, <2>2
  <2> QED
    BY <2>1, <2>3 DEF HasOutput
<1> QED
  BY <1>4, <1>5 DEF Delivered

LEMMA IdleMoves ==
  ASSUME \/ UNCHANGED <<pc, job>>
         \/ \A w \in Workers : pc'[w] = "idle"
  PROVE  MovesTruly
  BY DEF MovesTruly, HasMoved

LEMMA NoNews ==
  ASSUME Held(results') \subseteq Held(results)
  PROVE  NewsTruthful
  BY DEF NewsTruthful

LEMMA KeepsSafety ==
  ASSUME SafetyInv, Grows, Typed', IdsPast',
         \A m \in Files \ stale' : rows'[m] # None /\ rows[m] # None =>
             /\ rows'[m].recomp => rows[m].recomp
             /\ rows'[m].has => rows[m].has,
         NewsTruthful, MovesTruly
  PROVE  SafetyInv'
<1>1. \A m \in Files \ stale' : rows'[m] # None =>
        (rows'[m].recomp => rows[m].recomp) /\ (rows'[m].has => rows[m].has)
  BY DEF Grows, SameRow, NewlyIngested
<1> QED
  BY <1>1, KeepsPlaying, KeepsThumbs, KeepsDelivered DEF SafetyInv

LEMMA InitSafe == Init => SafetyInv
<1> SUFFICES ASSUME Init PROVE SafetyInv
  OBVIOUS
<1>1. Delivered
  BY HeldByEmpty DEF Init, Delivered, HasMoved
<1>2. ASSUME NEW m \in Files, rows[m] # None
      PROVE  /\ rows[m].recomp => disk[m] # None /\ disk[m].link \in disk[m].outputs
             /\ ~rows[m].has
  <2>1. PICK n : rows[m] = [NewRow(n) EXCEPT !.recomp = (m \in Recompressed)]
    BY <1>2 DEF Init
  <2>2. ~rows[m].has
    BY <2>1 DEF NewRow
  <2>3. rows[m].recomp =>
          disk[m] = [EmptyDir EXCEPT !.orig = TRUE, !.outputs = {0}, !.link = 0]
    BY <1>2 DEF Init
  <2>4. [EmptyDir EXCEPT !.orig = TRUE, !.outputs = {0}, !.link = 0] \in Dirs
    BY IdsAreNaturals DEF EmptyDir, Dirs
  <2>5. rows[m].recomp => disk[m] # None /\ disk[m].link = 0 /\ disk[m].outputs = {0}
    BY <2>3, <2>4, ConstantsAssumption DEF EmptyDir
  <2> QED
    BY <2>2, <2>5
<1> QED
  BY <1>1, <1>2, InitTyped, InitPast
  DEF SafetyInv, RecompressedPlays, ThumbsShownExist

LEMMA IngestSafe ==
  ASSUME SafetyInv, NEW m \in Files, Ingest(m), Typed', IdsPast'
  PROVE  SafetyInv'
<1>1. /\ rows[m] = None /\ rows' = [rows EXCEPT ![m] = NewRow(ingests + 1)]
      /\ \A o \in Files \ {m} : disk'[o] = disk[o] /\ rows'[o] = rows[o]
      /\ UNCHANGED <<stale, results, pc, job>>
  BY DEF Ingest, SafetyInv, Typed, TypeOK
<1>2. NewlyIngested(m)
  BY <1>1 DEF NewlyIngested, NewRow, SafetyInv, Typed, TypeOK
<1>3. \A o \in Files \ {m} : GrowsAt(o)
  BY <1>1 DEF GrowsAt
<1>4. Grows
  BY <1>1, <1>2, <1>3 DEF Grows, SameRow
<1> QED
  BY <1>1, <1>4, KeepsSafety, IdleMoves, NoNews

LEMMA DeletionSafe ==
  ASSUME SafetyInv, NEW m \in Files, DeleteRow(m) \/ MoveToTrash(m),
         Typed', IdsPast'
  PROVE  SafetyInv'
<1>1. /\ UNCHANGED <<results, pc, job>>
      /\ \A o \in Files \ stale' : rows'[o] # None =>
            o \notin stale /\ rows'[o] = rows[o] /\ disk'[o] = disk[o]
  BY DEF DeleteRow, MoveToTrash, poolVars, boundVars, histVars, SafetyInv, Typed, TypeOK
<1>2. Grows
  BY <1>1 DEF Grows, SameRow, GrowsAt
<1> QED
  BY <1>1, <1>2, KeepsSafety, IdleMoves, NoNews

LEMMA OneDirGrows ==
  ASSUME Typed, NEW m \in Files, NEW d \in Dirs, disk' = [disk EXCEPT ![m] = d],
         disk[m] # None =>
             /\ disk[m].thumbs => d.thumbs
             /\ disk[m].outputs \subseteq d.outputs
             /\ disk[m].link # None => d.link = disk[m].link
  PROVE  \A o \in Files : GrowsAt(o)
<1>1. GrowsAt(m)
  BY ConstantsAssumption DEF GrowsAt, Typed, TypeOK
<1>2. ASSUME NEW o \in Files, o # m
      PROVE  GrowsAt(o)
  BY <1>2 DEF GrowsAt, Typed, TypeOK
<1> QED
  BY <1>1, <1>2

\* A worker changes one directory, and adds to it.
LEMMA WorkerSafe ==
  ASSUME SafetyInv, NEW w \in Workers, WorkerStep(w), Typed', IdsPast'
  PROVE  SafetyInv'
<1> DEFINE j == job[w]
           m == j.file
<1>1. UNCHANGED rows /\ stale \subseteq stale'
  BY DEF WorkerStep, Take, MakeWorkDir, ScriptSucceeds, ScriptMisnames, ScriptFails,
         FindOutput, MoveImages, RemoveWorkDir, Answer, MarkStale, GoTo,
         RefuseEnvironment, Report
<1>2. ASSUME \A o \in Files : GrowsAt(o), NewsTruthful, MovesTruly
      PROVE  SafetyInv'
  <2>1. Grows
    BY <1>1, <1>2 DEF Grows, SameRow
  <2> QED
    BY <1>1, <1>2, <2>1, KeepsSafety
<1>3. ASSUME NEW q \in Results, results' = Append(results, q),
             Current(q.job)' => Truthful(q)'
      PROVE  NewsTruthful
  <2>1. Held(results') \subseteq Held(results) \cup {q}
    BY <1>3, HeldByAppend DEF SafetyInv, Typed, TypeOK
  <2> QED
    BY <1>3, <2>1 DEF NewsTruthful
<1>4. ASSUME NEW i \in Jobs, results' = Append(results, Failure(i))
      PROVE  NewsTruthful
  <2>1. Failure(i) \in Results /\ Truthful(Failure(i))'
    BY DEF Failure, Results, Truthful
  <2> QED
    BY <1>3, <1>4, <2>1
<1>5. ASSUME UNCHANGED results
      PROVE  NewsTruthful
  BY <1>5, NoNews
<1>6. ASSUME NEW there, GoTo(w, there),
             there \in {"moved", "done"} /\ j.op = "transcode" =>
                 HasMoved(w) \/ HasOutput(j)'
      PROVE  MovesTruly
  BY <1>6 DEF MovesTruly, HasMoved, HasOutput, GoTo, SafetyInv, Typed, TypeOK
<1>7. ASSUME NEW r, Report(w, r)
      PROVE  MovesTruly
  BY <1>7 DEF MovesTruly, HasMoved, Report, SafetyInv, Typed, TypeOK
<1>8. CASE Take(w)
  <2>1. \A o \in Files : GrowsAt(o)
    BY <1>8 DEF Take, GrowsAt
  <2>2. Head(queue) \in Jobs
    BY <1>8 DEF Take, SafetyInv, Typed, TypeOK
  <2>3. NewsTruthful
    BY <1>4, <1>5, <1>8, <2>2 DEF Take
  <2>4. MovesTruly
    BY <1>8 DEF Take, MovesTruly, HasMoved, SafetyInv, Typed, TypeOK
  <2> QED
    BY <1>2, <2>1, <2>3, <2>4
<1>9. ASSUME ~Take(w)
      PROVE  j \in Jobs /\ m \in Files /\ j.id \in Ids /\ disk[m] \in Dirs \cup {None}
  BY <1>9 DEF WorkerStep, MakeWorkDir, ScriptSucceeds, ScriptMisnames, ScriptFails,
              FindOutput, MoveImages, RemoveWorkDir, Answer, SafetyInv, Typed, TypeOK,
              WorkersBusy, Jobs
<1>10. ASSUME ~Take(w), NEW d \in Dirs, disk' = [disk EXCEPT ![m] = d],
              disk[m] # None =>
                  /\ disk[m].thumbs => d.thumbs
                  /\ disk[m].outputs \subseteq d.outputs /\ d.link = disk[m].link
       PROVE  disk'[m] = d /\ d # None /\ \A o \in Files : GrowsAt(o)
  BY <1>9, <1>10, OneDirGrows, ConstantsAssumption DEF SafetyInv, Typed, TypeOK
<1>11. ASSUME UNCHANGED disk
       PROVE  \A o \in Files : GrowsAt(o)
  BY <1>11 DEF GrowsAt
<1>12. ASSUME MakeWorkDir(w), ~Take(w)
       PROVE  SafetyInv'
  <2>1. disk' = [disk EXCEPT ![m] = WithWorkDir(j)] /\ WithWorkDir(j) \in Dirs
    BY <1>9, <1>12, WorkDirTyped DEF MakeWorkDir, SafetyInv, Typed, TypeOK
  <2>2. ASSUME disk[m] # None
        PROVE  /\ WithWorkDir(j).thumbs = disk[m].thumbs
               /\ WithWorkDir(j).outputs = disk[m].outputs
               /\ WithWorkDir(j).link = disk[m].link
    BY <1>9, <1>12, <2>2 DEF WithWorkDir, Made, Dirs
  <2>3. \A o \in Files : GrowsAt(o)
    BY <1>10, <1>12, <2>1, <2>2
  <2>4. NewsTruthful
    BY <1>4, <1>5, <1>9, <1>12 DEF MakeWorkDir, GoTo, RefuseEnvironment, Report
  <2>5. MovesTruly
    BY <1>6, <1>7, <1>12 DEF MakeWorkDir, RefuseEnvironment
  <2> QED
    BY <1>2, <2>3, <2>4, <2>5
<1>13. ASSUME ScriptSucceeds(w) \/ ScriptMisnames(w) \/ ScriptFails(w), ~Take(w)
       PROVE  SafetyInv'
  <2>1. NewsTruthful
    BY <1>5, <1>13 DEF ScriptSucceeds, ScriptMisnames, ScriptFails, GoTo
  <2>2. MovesTruly
    BY <1>6, <1>13 DEF ScriptSucceeds, ScriptMisnames, ScriptFails
  <2>3. CASE UNCHANGED disk
    BY <1>2, <1>11, <2>1, <2>2, <2>3
  <2>4. CASE ScriptSucceeds(w)
    <3> DEFINE d == WithScriptOutput(disk[m], j)
    <3>1. disk[m] \in Dirs /\ CanSucceed(j)
      BY <1>9, <1>13, <2>4 DEF ScriptSucceeds, CanSucceed, HasInput
    <3>2. disk' = [disk EXCEPT ![m] = d] /\ d \in Dirs
      BY <1>9, <1>13, <2>4, <3>1, ScriptOutputTyped DEF ScriptSucceeds
    <3>3. d.thumbs = disk[m].thumbs /\ d.outputs = disk[m].outputs /\ d.link = disk[m].link
      BY <3>1 DEF WithScriptOutput, Dirs
    <3> HIDE DEF d
    <3>4. \A o \in Files : GrowsAt(o)
      BY <1>10, <1>13, <3>2, <3>3
    <3> QED
      BY <1>2, <2>1, <2>2, <3>4
  <2> QED
    BY <1>13, <2>3, <2>4 DEF ScriptMisnames, ScriptFails
<1>14. ASSUME FindOutput(w), ~Take(w)
       PROVE  SafetyInv'
  <2>1. CASE UNCHANGED disk /\ Report(w, Failure(j))
    <3>1. NewsTruthful
      BY <1>4, <1>9, <1>14, <2>1 DEF Report
    <3> QED
      BY <1>2, <1>7, <1>11, <2>1, <3>1
  <2>2. CASE /\ disk[m] # None /\ disk[m].work # None /\ GoTo(w, "moved")
             /\ disk' = [disk EXCEPT ![m] = MoveOutput(disk[m], j.id)]
    <3> DEFINE d == MoveOutput(disk[m], j.id)
    <3>1. /\ d \in Dirs /\ j.id \in d.outputs /\ disk[m].outputs \subseteq d.outputs
          /\ d.thumbs = disk[m].thumbs /\ d.link = disk[m].link
      BY <1>9, <1>14, <2>2, MoveOutputTyped DEF MoveOutput, Dirs
    <3>2. disk' = [disk EXCEPT ![m] = d]
      BY <2>2
    <3> HIDE DEF d
    <3>3. disk'[m] = d /\ d # None /\ \A o \in Files : GrowsAt(o)
      BY <1>10, <1>14, <3>1, <3>2
    <3>4. HasOutput(j)'
      <4>1. job' = job
        BY <2>2 DEF GoTo
      <4> QED
        BY <3>1, <3>3, <4>1 DEF HasOutput
    <3> QED
      BY <1>2, <1>5, <1>6, <2>2, <3>3, <3>4 DEF GoTo
  <2> QED
    BY <1>14, <2>1, <2>2 DEF FindOutput
<1>15. ASSUME MoveImages(w), ~Take(w)
       PROVE  SafetyInv'
  <2>1. j.op = "thumbs" /\ GoTo(w, "moved")
    BY <1>15 DEF MoveImages
  <2>2. NewsTruthful /\ MovesTruly
    BY <1>5, <1>6, <2>1 DEF GoTo
  <2>3. CASE disk[m] = None
    BY <1>2, <1>11, <1>15, <2>2, <2>3 DEF MoveImages
  <2>4. CASE disk[m] # None
    <3> DEFINE d == MoveThumbs(disk[m])
    <3>1. /\ d \in Dirs /\ d.outputs = disk[m].outputs /\ d.link = disk[m].link
          /\ disk[m].thumbs => d.thumbs
      BY <1>9, <1>15, <2>4, MoveThumbsTyped DEF MoveThumbs, Dirs
    <3>2. disk' = [disk EXCEPT ![m] = d]
      BY <1>15, <2>4 DEF MoveImages
    <3> HIDE DEF d
    <3> QED
      BY <1>2, <1>10, <1>15, <2>2, <3>1, <3>2
  <2> QED
    BY <2>3, <2>4
<1>16. ASSUME RemoveWorkDir(w), ~Take(w)
       PROVE  SafetyInv'
  <2>1. \/ pc[w] = "moved" /\ GoTo(w, "done")
        \/ pc[w] = "error" /\ GoTo(w, "undone")
    BY <1>16 DEF RemoveWorkDir
  <2>2. NewsTruthful /\ MovesTruly
    BY <1>5, <1>6, <2>1 DEF GoTo, HasMoved
  <2>3. CASE disk[m] = None
    BY <1>2, <1>11, <1>16, <2>2, <2>3 DEF RemoveWorkDir
  <2>4. CASE disk[m] # None
    <3> DEFINE d == WithoutWorkDir(disk[m], j)
    <3>1. /\ d \in Dirs /\ d.outputs = disk[m].outputs /\ d.link = disk[m].link
          /\ d.thumbs = disk[m].thumbs
      BY <1>9, <1>16, <2>4, WithoutWorkDirTyped DEF WithoutWorkDir, Dirs
    <3>2. disk' = [disk EXCEPT ![m] = d]
      BY <1>16, <2>4 DEF RemoveWorkDir
    <3> HIDE DEF d
    <3> QED
      BY <1>2, <1>10, <1>16, <2>2, <3>1, <3>2
  <2> QED
    BY <2>3, <2>4
<1>17. ASSUME Answer(w), ~Take(w)
       PROVE  SafetyInv'
  <2>1. PICK q \in Results :
            /\ Report(w, q)
            /\ q.job = j /\ (q.ok <=> pc[w] = "done")
            /\ q.thumbs <=> q.ok /\ q.job.op = "thumbs" /\ HasImages(disk[q.job.file])
    BY <1>17, AnswerIs DEF SafetyInv
  <2>2. UNCHANGED <<disk, stale>>
    BY <1>17 DEF Answer
  <2>3. ASSUME Current(q.job)'
        PROVE  Truthful(q)'
    <3>1. Current(j)
      BY <1>1, <2>1, <2>2, <2>3 DEF Current
    <3>2. q.ok /\ j.op = "transcode" => HasOutput(j)
      BY <2>1, <3>1 DEF SafetyInv, Delivered, HasMoved
    <3> QED
      BY <2>1, <2>2, <3>2 DEF Truthful, HasOutput
  <2>4. NewsTruthful
    BY <1>3, <2>1, <2>3 DEF Report
  <2> QED
    BY <1>2, <1>7, <1>11, <2>1, <2>2, <2>4
<1> QED
  BY <1>8, <1>12, <1>13, <1>14, <1>15, <1>16, <1>17 DEF WorkerStep

LEMMA CrashSafe == ASSUME SafetyInv, Crash, Typed', IdsPast' PROVE SafetyInv'
<1>1. /\ UNCHANGED <<rows, disk, stale>> /\ results' = <<>>
      /\ \A w \in Workers : pc'[w] = "idle"
  BY DEF Crash
<1>2. Grows
  BY <1>1 DEF Grows, SameRow, GrowsAt
<1> QED
  BY <1>1, <1>2, HeldByEmpty, KeepsSafety, IdleMoves, NoNews

LEMMA HandleFailureSafe ==
  ASSUME SafetyInv, HandleFailure, Typed', IdsPast'
  PROVE  SafetyInv'
<1>1. UNCHANGED <<rows, disk, pc, job, stale>> /\ Held(results') \subseteq Held(results)
  BY HeldByTail DEF HandleFailure, poolVars, SafetyInv, Typed, TypeOK
<1>2. Grows
  BY <1>1 DEF Grows, SameRow, GrowsAt
<1> QED
  BY <1>1, <1>2, KeepsSafety, IdleMoves, NoNews

\* A result is of the present ingestion, or marks the file, or finds no row.
LEMMA StaleOrCurrent ==
  ASSUME SafetyInv, results # <<>>, MarkStale(Head(results).job)
  PROVE  LET r == Head(results)  m == r.job.file IN
         /\ r \in Held(results) /\ stale \subseteq stale'
         /\ m \in Files \ stale' /\ rows[m] # None => Truthful(r)
<1> DEFINE r == Head(results)
           m == r.job.file
<1>1. r \in Held(results)
  BY HeldByTail DEF SafetyInv, Typed, TypeOK
<1>2. stale \subseteq stale'
  BY DEF MarkStale
<1>3. ASSUME m \in Files \ stale', rows[m] # None
      PROVE  Truthful(r)
  <2>1. Current(r.job)
    BY <1>2, <1>3 DEF MarkStale, Current
  <2> QED
    BY <1>1, <2>1 DEF SafetyInv, Delivered
<1> QED
  BY <1>1, <1>2, <1>3

LEMMA HandleTranscodedSafe ==
  ASSUME SafetyInv, HandleTranscoded, Typed', IdsPast'
  PROVE  SafetyInv'
<1> DEFINE r == Head(results)
           j == r.job
           m == j.file
           linked == Made(m).link = None
           d == IF linked THEN [Made(m) EXCEPT !.link = j.id] ELSE Made(m)
<1>1. /\ r \in Held(results) /\ stale \subseteq stale' /\ r.ok /\ j.op = "transcode"
      /\ m \in Files \ stale' /\ rows[m] # None => Truthful(r)
  BY StaleOrCurrent DEF HandleTranscoded
<1>2. m \in Files /\ j.id \in Ids /\ Made(m) \in Dirs
  BY HeadOfResults, MadeTyped DEF HandleTranscoded, SafetyInv, Typed, TypeOK
<1>3. /\ disk' = [disk EXCEPT ![m] = d]
      /\ \/ rows' = rows
         \/ linked /\ rows' = Update(rows, m, [rows[m] EXCEPT !.recomp = TRUE])
  BY DEF HandleTranscoded
<1>3a. Held(results') \subseteq Held(results) /\ UNCHANGED <<pc, job>>
  BY HeldByTail DEF HandleTranscoded, poolVars, SafetyInv, Typed, TypeOK
<1>4. d \in Dirs /\ d # None /\ disk'[m] = d
  <2>1. d \in Dirs
    BY <1>2 DEF Dirs
  <2> HIDE DEF d
  <2> QED
    BY <1>2, <1>3, <2>1, ConstantsAssumption DEF SafetyInv, Typed, TypeOK
<1>5. disk[m] # None => /\ d.thumbs = disk[m].thumbs /\ d.outputs = disk[m].outputs
                        /\ disk[m].link # None => d.link = disk[m].link
  BY <1>2 DEF Made, Dirs
<1>6. linked => d.link = j.id
  BY <1>2 DEF Dirs
<1> HIDE DEF d, linked
<1>7. \A o \in Files : GrowsAt(o)
  BY <1>2, <1>3, <1>4, <1>5, OneDirGrows DEF SafetyInv
<1>8. \A o \in Files : rows'[o] # None =>
        /\ rows[o] # None /\ rows'[o].added = rows[o].added /\ rows'[o].has = rows[o].has
        /\ o # m \/ ~linked => rows'[o].recomp = rows[o].recomp
  BY <1>2, <1>3 DEF Update, SafetyInv, Typed, TypeOK, Rows
<1>9. Grows
  BY <1>1, <1>7, <1>8 DEF Grows, SameRow
<1>10. RecompressedPlays'
  <2>1. ASSUME m \notin stale', rows[m] # None, linked
        PROVE  disk'[m] # None /\ disk'[m].link \in disk'[m].outputs
    BY <1>1, <1>2, <1>4, <1>5, <1>6, <2>1 DEF Truthful, HasOutput
  <2> QED
    BY <1>8, <1>9, <2>1, KeepsPlaying
<1>11. ThumbsShownExist'
  BY <1>8, <1>9, KeepsThumbs
<1>12. Delivered'
  BY <1>3a, <1>9, KeepsDelivered, IdleMoves, NoNews
<1> QED
  BY <1>10, <1>11, <1>12 DEF SafetyInv

LEMMA HandleThumbsSafe ==
  ASSUME SafetyInv, HandleThumbs, Typed', IdsPast'
  PROVE  SafetyInv'
<1> DEFINE r == Head(results)
           m == r.job.file
<1>1. /\ stale \subseteq stale'
      /\ m \in Files \ stale' /\ rows[m] # None => Truthful(r)
  BY StaleOrCurrent DEF HandleThumbs
<1>2. /\ m \in Files /\ UNCHANGED <<disk, pc, job>>
      /\ Held(results') \subseteq Held(results)
  BY HeadOfResults, HeldByTail DEF HandleThumbs, SafetyInv, Typed, TypeOK
<1>3. PICK bad \in SUBSET Statements :
        LET shown == IF r.thumbs THEN Update(rows, m, WithThumbs(rows[m], bad))
                     ELSE rows IN
        \/ rows' = Update(shown, m, [shown[m] EXCEPT !.done = TRUE])
        \/ rows' = shown
  BY DEF HandleThumbs
<1> DEFINE shown == IF r.thumbs THEN Update(rows, m, WithThumbs(rows[m], bad))
                    ELSE rows
<1>4. /\ shown \in [Files -> Rows \cup {None}]
      /\ \A o \in Files : shown[o] # None =>
            /\ rows[o] # None /\ shown[o].added = rows[o].added
            /\ shown[o].recomp = rows[o].recomp
            /\ o # m \/ ~r.thumbs => shown[o].has = rows[o].has
  <2>1. ASSUME rows[m] # None
        PROVE  /\ WithThumbs(rows[m], bad) \in Rows
               /\ WithThumbs(rows[m], bad).added = rows[m].added
               /\ WithThumbs(rows[m], bad).recomp = rows[m].recomp
    <3>1. rows[m] \in Rows
      BY <1>2, <2>1 DEF SafetyInv, Typed, TypeOK
    <3> QED
      BY <3>1 DEF WithThumbs, Rows
  <2> QED
    BY <1>2, <2>1 DEF Update, SafetyInv, Typed, TypeOK
<1>5. rows' = Update(shown, m, [shown[m] EXCEPT !.done = TRUE]) \/ rows' = shown
  BY <1>3
<1> HIDE DEF shown
<1>6. \A o \in Files : rows'[o] # None =>
        /\ shown[o] # None /\ rows'[o].added = shown[o].added
        /\ rows'[o].recomp = shown[o].recomp /\ rows'[o].has = shown[o].has
  BY <1>2, <1>4, <1>5 DEF Update, Rows
<1>7. Grows
  BY <1>1, <1>2, <1>4, <1>6 DEF Grows, SameRow, GrowsAt
<1>8. RecompressedPlays'
  BY <1>4, <1>6, <1>7, KeepsPlaying
<1>9. ThumbsShownExist'
  <2>1. m \notin stale' /\ rows[m] # None /\ r.thumbs => disk'[m] # None /\ disk'[m].thumbs
    BY <1>1, <1>2 DEF Truthful, HasImages
  <2> QED
    BY <1>4, <1>6, <1>7, <2>1, KeepsThumbs
<1>10. Delivered'
  BY <1>2, <1>7, KeepsDelivered, IdleMoves, NoNews
<1> QED
  BY <1>8, <1>9, <1>10 DEF SafetyInv

LEMMA NextSafe == SafetyInv /\ [Next]_vars => SafetyInv'
<1> SUFFICES ASSUME SafetyInv, [Next]_vars PROVE SafetyInv'
  OBVIOUS
<1>1. Typed' /\ IdsPast'
  BY NextTyped, NextPast DEF SafetyInv
<1>2. ASSUME NEW m \in Files, Ingest(m) \/ DeleteRow(m) \/ MoveToTrash(m)
      PROVE  SafetyInv'
  BY <1>1, <1>2, IngestSafe, DeletionSafe
<1>3. ASSUME NEW w \in Workers, WorkerStep(w)
      PROVE  SafetyInv'
  BY <1>1, <1>3, WorkerSafe
<1>4. CASE HandleResult
  BY <1>1, <1>4, HandleTranscodedSafe, HandleThumbsSafe, HandleFailureSafe
  DEF HandleResult
<1>5. CASE Crash
  BY <1>1, <1>5, CrashSafe
<1>6. CASE UNCHANGED vars
  <2>1. UNCHANGED <<rows, disk, results, pc, job, stale>>
    BY <1>6 DEF vars, poolVars, histVars
  <2> QED
    BY <1>1, <2>1 DEF SafetyInv, RecompressedPlays, ThumbsShownExist, Delivered, Current,
                      Truthful, HasMoved, HasOutput
<1> QED
  BY <1>2, <1>3, <1>4, <1>5, <1>6 DEF Next

(* A row with recompression_done has a video.mp4 that leads to a           *)
(* transcoded file, whatever is deleted, lost by crashes or fails, unless  *)
(* something meant for an earlier file of its id has hit it.               *)
THEOREM RecompressedPlayable == Spec => []RecompressedPlays
<1>1. SafetyInv => RecompressedPlays
  BY DEF SafetyInv
<1> QED
  BY InitSafe, NextSafe, <1>1, PTL DEF Spec

(* A row with has_thumbnail has images in thumbs/, although the jobs of a  *)
(* file share, move and remove one work directory.                         *)
THEOREM ThumbsAreThere == Spec => []ThumbsShownExist
<1>1. SafetyInv => ThumbsShownExist
  BY DEF SafetyInv
<1> QED
  BY InitSafe, NextSafe, <1>1, PTL DEF Spec

-----------------------------------------------------------------------------
(* What thumbs_done says of a picture.                                     *)

\* There are images of the file, or there will be when its script's output is moved.
Illustrated(d) == d # None /\ (d.thumbs \/ d.thumbWork = "images")

PicturesOnly ==
    /\ \A m \in Files : Illustrated(disk[m]) => m \in Pictures
    /\ \A r \in Held(results) : r.thumbs => r.job.file \in Pictures
    /\ \A m \in Files :
        rows[m] # None /\ (rows[m].has \/ rows[m].sheet) => m \in Pictures

\* A thumbnailing of a picture as it is now ingested, of which none has failed.
Concerns(j) ==
    j.op = "thumbs" /\ j.file \in Pictures /\ j.file \notin failed /\ Current(j)

\* Such a script leads to images in thumbs/: no other worker removes them before they
\* are moved there, since that worker would have moved some itself.
Right(w) ==
    /\ pc[w] = "ok" /\ Concerns(job[w]) => Illustrated(disk[job[w].file])
    /\ pc[w] \in {"moved", "done"} /\ Concerns(job[w]) => HasImages(disk[job[w].file])
    /\ pc[w] \in {"error", "undone"} => ~Concerns(job[w])

WorkersRight == \A w \in Workers : Right(w)
Fruitless(r) == r.ok /\ ~r.thumbs /\ Concerns(r.job)
ResultsRight == \A r \in Held(results) : ~Fruitless(r)

DoneInv ==
    Typed /\ IdsPast /\ PicturesOnly /\ WorkersRight /\ ResultsRight /\ DoneIsComplete

LEMMA InitDone == Init => DoneInv
<1> SUFFICES ASSUME Init PROVE DoneInv
  OBVIOUS
<1>1. results = <<>> /\ \A w \in Workers : pc[w] = "idle"
  BY DEF Init
<1>2. ASSUME NEW m \in Files, rows[m] # None
      PROVE  ~rows[m].has /\ ~rows[m].sheet /\ ~rows[m].done
  <2>1. PICK n : rows[m] = [NewRow(n) EXCEPT !.recomp = (m \in Recompressed)]
    BY <1>2 DEF Init
  <2> QED
    BY <2>1 DEF NewRow
<1>3. ASSUME NEW m \in Files, disk[m] # None
      PROVE  ~disk[m].thumbs /\ disk[m].thumbWork = "none"
  <2>1. \/ disk[m] = [EmptyDir EXCEPT !.orig = TRUE, !.outputs = {0}, !.link = 0]
        \/ disk[m] = [EmptyDir EXCEPT !.orig = TRUE]
    BY <1>3 DEF Init
  <2> QED
    BY <2>1 DEF EmptyDir
<1>4. PicturesOnly
  BY <1>1, <1>2, <1>3, HeldByEmpty DEF PicturesOnly, Illustrated
<1>5. WorkersRight /\ ResultsRight
  BY <1>1, HeldByEmpty DEF WorkersRight, Right, ResultsRight
<1>6. DoneIsComplete
  BY <1>2 DEF DoneIsComplete
<1> QED
  BY <1>4, <1>5, <1>6, InitTyped, InitPast DEF DoneInv

\* Of a file that nothing has hit, the row is that of before, or that of a new
\* ingestion.
SteadyRows ==
    \A m \in Files \ (stale' \cup failed') : rows'[m] # None =>
        \/ m \notin stale \cup failed /\ rows[m] # None /\ rows'[m].added = rows[m].added
        \/ rows'[m].added = ingests + 1

\* No images are lost, but of a file that is deleted or hit by something.
Excused(m) == m \in stale' \cup failed' \/ rows[m] = None

SteadyAt(m) ==
    /\ Illustrated(disk[m]) => Illustrated(disk'[m])
    /\ HasImages(disk[m]) => HasImages(disk'[m])

SteadyImages ==
    \A m \in Files : rows'[m] # None => Excused(m) \/ SteadyAt(m)

\* A worker goes on with its job only with what it should have.
SteadyWorkers ==
    \A w \in Workers : (pc'[w] = pc[w] /\ job'[w] = job[w]) \/ Right(w)'

SteadyResults ==
    \A r \in Held(results') : r \in Held(results) \/ ~Fruitless(r)'

LEMMA KeepsDone ==
  ASSUME DoneInv, Typed', IdsPast', PicturesOnly', DoneIsComplete',
         SteadyRows, SteadyImages, SteadyWorkers, SteadyResults
  PROVE  DoneInv'
<1>1. ASSUME NEW j \in Jobs, j.id <= ingests, Concerns(j)'
      PROVE  Concerns(j) /\ SteadyAt(j.file)
  <2>1. j.id \in Nat /\ ingests \in Nat /\ j.file \in Files
    BY IdsAreNaturals DEF DoneInv, Typed, TypeOK, Jobs
  <2>2. /\ j.op = "thumbs" /\ j.file \in Pictures
        /\ j.file \in Files \ (stale' \cup failed')
        /\ rows'[j.file] # None /\ rows'[j.file].added = j.id
    BY <1>1, <2>1 DEF Concerns, Current
  <2>3. /\ j.file \notin stale \cup failed /\ rows[j.file] # None
        /\ rows[j.file].added = j.id
    BY <1>1, <2>1, <2>2 DEF SteadyRows
  <2> QED
    BY <2>2, <2>3 DEF Concerns, Current, SteadyImages, Excused
<1>2. WorkersRight'
  <2>1. ASSUME NEW w \in Workers, pc'[w] = pc[w], job'[w] = job[w], pc[w] # "idle"
        PROVE  Right(w)'
    <3>1. PICK j : j = job[w]
      OBVIOUS
    <3>2. j \in Jobs /\ j.id <= ingests
      BY <2>1, <3>1 DEF DoneInv, Typed, WorkersBusy, IdsPast
    <3>3. Concerns(j)' => Concerns(j) /\ SteadyAt(j.file)
      BY <1>1, <3>2
    <3>4. Concerns(job[w])' => Concerns(j)'
      BY <2>1, <3>1 DEF Concerns, Current
    <3> QED
      BY <2>1, <3>1, <3>3, <3>4 DEF DoneInv, WorkersRight, Right, SteadyAt
  <2>2. ASSUME NEW w \in Workers, pc'[w] = "idle"
        PROVE  Right(w)'
    BY <2>2 DEF Right
  <2> QED
    BY <2>1, <2>2 DEF SteadyWorkers, WorkersRight
<1>3. ResultsRight'
  <2>1. ASSUME NEW r \in Held(results), Fruitless(r)'
        PROVE  FALSE
    <3>1. r \in Results
      BY HeldByTyped DEF DoneInv, Typed, TypeOK
    <3>2. r.job \in Jobs /\ r.job.id <= ingests
      BY <3>1 DEF Results, DoneInv, IdsPast
    <3>3. Concerns(r.job)
      BY <1>1, <2>1, <3>2 DEF Fruitless
    <3> QED
      BY <2>1, <3>3 DEF DoneInv, ResultsRight, Fruitless
  <2> QED
    BY <2>1 DEF SteadyResults, ResultsRight
<1> QED
  BY <1>2, <1>3 DEF DoneInv

LEMMA SameWorkers == UNCHANGED <<pc, job>> => SteadyWorkers
  BY DEF SteadyWorkers

LEMMA FewerResults == Held(results') \subseteq Held(results) => SteadyResults
  BY DEF SteadyResults

LEMMA IngestDone ==
  ASSUME DoneInv, NEW m \in Files, Ingest(m), Typed', IdsPast'
  PROVE  DoneInv'
<1>1. /\ rows' = [rows EXCEPT ![m] = NewRow(ingests + 1)]
      /\ disk' = [disk EXCEPT ![m] = [EmptyDir EXCEPT !.orig = TRUE]]
      /\ rows[m] = None /\ UNCHANGED <<results, pc, job, stale>> /\ failed \subseteq failed'
  BY DEF Ingest
<1>2. /\ rows'[m].added = ingests + 1
      /\ ~rows'[m].has /\ ~rows'[m].sheet /\ ~rows'[m].done
      /\ ~Illustrated(disk'[m])
      /\ \A o \in Files \ {m} : rows'[o] = rows[o] /\ disk'[o] = disk[o]
  BY <1>1 DEF NewRow, EmptyDir, Illustrated, DoneInv, Typed, TypeOK
<1>3. PicturesOnly'
  BY <1>1, <1>2 DEF DoneInv, PicturesOnly, Illustrated
<1>4. DoneIsComplete'
  BY <1>1, <1>2 DEF DoneInv, DoneIsComplete
<1>5. SteadyRows
  BY <1>1, <1>2 DEF SteadyRows
<1>6. SteadyImages
  BY <1>1, <1>2 DEF SteadyImages, SteadyAt, Excused
<1> QED
  BY <1>1, <1>3, <1>4, <1>5, <1>6, KeepsDone, SameWorkers, FewerResults

LEMMA DeletionDone ==
  ASSUME DoneInv, NEW m \in Files, DeleteRow(m) \/ MoveToTrash(m),
         Typed', IdsPast'
  PROVE  DoneInv'
<1>1. /\ UNCHANGED <<results, pc, job, failed>> /\ stale \subseteq stale'
      /\ \A o \in Files : rows'[o] # None => rows'[o] = rows[o]
      /\ \A o \in Files : disk'[o] = disk[o] \/ disk'[o] = None
      /\ \A o \in Files \ stale' : rows'[o] # None => disk'[o] = disk[o]
  BY DEF DeleteRow, MoveToTrash, poolVars, boundVars, histVars, DoneInv, Typed, TypeOK
<1>2. PicturesOnly'
  BY <1>1 DEF DoneInv, PicturesOnly, Illustrated
<1>3. DoneIsComplete'
  BY <1>1 DEF DoneInv, DoneIsComplete
<1>4. SteadyRows /\ SteadyImages
  BY <1>1 DEF SteadyRows, SteadyImages, SteadyAt, Excused
<1> QED
  BY <1>1, <1>2, <1>3, <1>4, KeepsDone, SameWorkers, FewerResults

\* A crash forgets the failures of the files it will thumbnail again, and with them
\* whatever could have been wrong for them.
LEMMA CrashDone == ASSUME DoneInv, Crash, Typed', IdsPast' PROVE DoneInv'
<1>1. /\ UNCHANGED <<rows, disk, stale>> /\ failed' = failed \ Missing(rows)
      /\ results' = <<>> /\ \A w \in Workers : pc'[w] = "idle"
  BY DEF Crash
<1>2. PicturesOnly'
  BY <1>1, HeldByEmpty DEF DoneInv, PicturesOnly, Illustrated
<1>3. DoneIsComplete'
  BY <1>1 DEF DoneInv, DoneIsComplete, Missing
<1>4. WorkersRight' /\ ResultsRight'
  BY <1>1, HeldByEmpty DEF WorkersRight, Right, ResultsRight
<1> QED
  BY <1>2, <1>3, <1>4 DEF DoneInv

\* A result that is as it should be joins the others.
Joins(q) ==
    /\ results' = Append(results, q)
    /\ ~Fruitless(q)'
    /\ q.thumbs => q.job.file \in Pictures

\* What every step of a worker keeps.
LEMMA WorkerKeeps ==
  ASSUME DoneInv, NEW w \in Workers, WorkerStep(w), Typed', IdsPast',
         SteadyImages, SteadyWorkers,
         \A m \in Files : Illustrated(disk'[m]) => Illustrated(disk[m]) \/ m \in Pictures,
         UNCHANGED results \/ \E q \in Results : Joins(q)
  PROVE  DoneInv'
<1>1. UNCHANGED rows /\ stale \subseteq stale' /\ failed \subseteq failed'
  BY DEF WorkerStep, Take, MakeWorkDir, ScriptSucceeds, ScriptMisnames, ScriptFails,
         FindOutput, MoveImages, RemoveWorkDir, Answer, MarkStale, MarkFailed, GoTo,
         RefuseEnvironment, Report
<1>2. ASSUME NEW r \in Held(results')
      PROVE  r \in Held(results) \/ ((r.thumbs => r.job.file \in Pictures) /\ ~Fruitless(r)')
  <2>1. ASSUME NEW q \in Results, Joins(q)
        PROVE  \/ r \in Held(results)
               \/ (r.thumbs => r.job.file \in Pictures) /\ ~Fruitless(r)'
    <3>1. r \in Held(results) \/ r = q
      BY <1>2, <2>1, HeldByAppend DEF Joins, DoneInv, Typed, TypeOK
    <3>2. r = q => ~Fruitless(r)'
      BY <2>1 DEF Joins, Fruitless, Concerns, Current
    <3> QED
      BY <2>1, <3>1, <3>2 DEF Joins
  <2>2. CASE UNCHANGED results
    BY <1>2, <2>2
  <2> QED
    BY <2>1, <2>2
<1>3. PicturesOnly'
  BY <1>1, <1>2 DEF DoneInv, PicturesOnly, Illustrated
<1>4. DoneIsComplete'
  BY <1>1 DEF DoneInv, DoneIsComplete
<1>5. SteadyRows
  BY <1>1 DEF SteadyRows
<1>6. SteadyResults
  BY <1>2 DEF SteadyResults
<1> QED
  BY <1>3, <1>4, <1>5, <1>6, KeepsDone

\* The worker itself goes on, or reports and is idle.
LEMMA OneWorkerSteady ==
  ASSUME Typed, NEW w \in Workers,
         \/ \E r : Report(w, r)
         \/ \E there : GoTo(w, there) /\ Right(w)'
  PROVE  SteadyWorkers
<1>1. ASSUME NEW v \in Workers, v # w
      PROVE  pc'[v] = pc[v] /\ job'[v] = job[v]
  BY <1>1 DEF Report, GoTo, Typed, TypeOK
<1>2. ASSUME NEW r, Report(w, r)
      PROVE  Right(w)'
  <2>1. pc'[w] = "idle"
    BY <1>2 DEF Report, Typed, TypeOK
  <2> QED
    BY <2>1 DEF Right
<1> QED
  BY <1>1, <1>2 DEF SteadyWorkers

LEMMA FailureJoins ==
  ASSUME NEW j \in Jobs, results' = Append(results, Failure(j))
  PROVE  \E q \in Results : Joins(q)
<1>1. Failure(j) \in Results /\ ~Failure(j).thumbs /\ ~Fruitless(Failure(j))'
  BY DEF Failure, Results, Fruitless
<1> QED
  BY <1>1 DEF Joins

LEMMA TakeDone ==
  ASSUME DoneInv, NEW w \in Workers, Take(w), Typed', IdsPast'
  PROVE  DoneInv'
<1> DEFINE j == Head(queue)
<1>1. WorkerStep(w) /\ UNCHANGED disk
  BY DEF WorkerStep, Take
<1>2. j \in Jobs
  BY DEF Take, DoneInv, Typed, TypeOK
<1>3. SteadyImages
  BY <1>1 DEF SteadyImages, SteadyAt
<1>4. SteadyWorkers
  <2>1. \A v \in Workers : (pc'[v] = pc[v] /\ job'[v] = job[v]) \/ pc'[v] = "mkdir"
    BY DEF Take, DoneInv, Typed, TypeOK
  <2> QED
    BY <2>1 DEF SteadyWorkers, Right
<1>5. UNCHANGED results \/ results' = Append(results, Failure(j))
  BY DEF Take
<1> HIDE DEF j
<1> QED
  BY <1>1, <1>2, <1>3, <1>4, <1>5, WorkerKeeps, FailureJoins

\* Steps that change one directory, and lose no images.
LEMMA OneDirSteady ==
  ASSUME Typed, NEW m \in Files, NEW d \in Dirs, disk' = [disk EXCEPT ![m] = d],
         \/ Excused(m)
         \/ /\ Illustrated(disk[m]) => Illustrated(d)
            /\ HasImages(disk[m]) => HasImages(d),
         Illustrated(d) => Illustrated(disk[m]) \/ m \in Pictures
  PROVE  /\ disk'[m] = d /\ d # None /\ SteadyImages
         /\ \A o \in Files : Illustrated(disk'[o]) => Illustrated(disk[o]) \/ o \in Pictures
<1>1. disk'[m] = d /\ d # None /\ \A o \in Files \ {m} : disk'[o] = disk[o]
  BY ConstantsAssumption DEF Typed, TypeOK
<1> QED
  BY <1>1 DEF SteadyImages, SteadyAt

LEMMA NoDirSteady ==
  ASSUME UNCHANGED disk
  PROVE  /\ SteadyImages
         /\ \A o \in Files : Illustrated(disk'[o]) => Illustrated(disk[o]) \/ o \in Pictures
  BY DEF SteadyImages, SteadyAt

LEMMA MakeWorkDirDone ==
  ASSUME DoneInv, NEW w \in Workers, MakeWorkDir(w), Typed', IdsPast'
  PROVE  DoneInv'
<1> DEFINE j == job[w]
           m == j.file
<1>1. WorkerStep(w) /\ j \in Jobs /\ m \in Files
  BY DEF WorkerStep, MakeWorkDir, DoneInv, Typed, WorkersBusy, Jobs
<1>2. disk' = [disk EXCEPT ![m] = WithWorkDir(j)] /\ WithWorkDir(j) \in Dirs
  BY <1>1, WorkDirTyped DEF MakeWorkDir, DoneInv, Typed, TypeOK
<1>3. /\ Illustrated(disk[m]) <=> Illustrated(WithWorkDir(j))
      /\ HasImages(disk[m]) => HasImages(WithWorkDir(j))
  <2>1. Made(m) \in Dirs
    BY <1>1, MadeTyped DEF DoneInv, Typed, TypeOK
  <2>2. /\ WithWorkDir(j).thumbs = Made(m).thumbs
        /\ WithWorkDir(j).thumbWork = "images" <=> Made(m).thumbWork = "images"
    BY <2>1 DEF WithWorkDir, Dirs
  <2>3. WithWorkDir(j) # None
    BY <1>2, ConstantsAssumption
  <2> QED
    BY <2>2, <2>3 DEF Illustrated, HasImages, Made, EmptyDir
<1>4. /\ SteadyImages
      /\ \A o \in Files : Illustrated(disk'[o]) => Illustrated(disk[o]) \/ o \in Pictures
  BY <1>1, <1>2, <1>3, OneDirSteady DEF DoneInv
<1>5. SteadyWorkers
  <2>1. GoTo(w, "script") => Right(w)'
    BY DEF GoTo, Right, DoneInv, Typed, TypeOK
  <2> QED
    BY <2>1, OneWorkerSteady DEF MakeWorkDir, RefuseEnvironment, DoneInv
<1>6. UNCHANGED results \/ results' = Append(results, Failure(j))
  BY DEF MakeWorkDir, GoTo, RefuseEnvironment, Report
<1> HIDE DEF j
<1> QED
  BY <1>1, <1>4, <1>5, <1>6, WorkerKeeps, FailureJoins

LEMMA ScriptDone ==
  ASSUME DoneInv, NEW w \in Workers, Typed', IdsPast',
         ScriptSucceeds(w) \/ ScriptMisnames(w) \/ ScriptFails(w)
  PROVE  DoneInv'
<1> DEFINE j == job[w]
           m == j.file
<1>1. WorkerStep(w) /\ j \in Jobs /\ m \in Files /\ UNCHANGED <<results, job>>
  BY DEF WorkerStep, ScriptSucceeds, ScriptMisnames, ScriptFails, GoTo, DoneInv, Typed,
         WorkersBusy, Jobs
<1>2. CASE ScriptMisnames(w) \/ ScriptFails(w)
  <2>1. UNCHANGED disk
    BY <1>2 DEF ScriptMisnames, ScriptFails
  <2>2. CASE ScriptMisnames(w)
    <3>1. pc'[w] = "misnamed" /\ GoTo(w, "misnamed")
      BY <2>2 DEF ScriptMisnames, GoTo, DoneInv, Typed, TypeOK
    <3> QED
      BY <1>1, <2>1, <3>1, OneWorkerSteady, NoDirSteady, WorkerKeeps DEF Right, DoneInv
  <2>3. CASE ScriptFails(w)
    <3>1. pc'[w] = "error" /\ GoTo(w, "error") /\ MarkFailed(j)
      BY <2>3 DEF ScriptFails, GoTo, DoneInv, Typed, TypeOK
    <3>2. ~Concerns(job[w])'
      BY <1>1, <3>1 DEF MarkFailed, Concerns
    <3> QED
      BY <1>1, <2>1, <3>1, <3>2, OneWorkerSteady, NoDirSteady, WorkerKeeps DEF Right, DoneInv
  <2> QED
    BY <1>2, <2>2, <2>3
<1>3. CASE ScriptSucceeds(w)
  <2> DEFINE d == WithScriptOutput(disk[m], j)
  <2>1. disk[m] \in Dirs /\ CanSucceed(j)
    BY <1>1, <1>3 DEF ScriptSucceeds, CanSucceed, HasInput, DoneInv, Typed, TypeOK
  <2>2. disk' = [disk EXCEPT ![m] = d] /\ d \in Dirs
    BY <1>1, <1>3, <2>1, ScriptOutputTyped DEF ScriptSucceeds
  <2>3. /\ d.thumbs = disk[m].thumbs
        /\ disk[m].thumbWork = "images" => d.thumbWork = "images" \/ m \notin Pictures
        /\ d.thumbWork = "images" => disk[m].thumbWork = "images" \/ m \in Pictures
        /\ j.op = "thumbs" /\ m \in Pictures => d.thumbWork = "images"
    BY <1>1, <2>1 DEF WithScriptOutput, Dirs, Jobs
  <2>4. d # None /\ disk[m] # None
    BY <2>1, <2>2, ConstantsAssumption
  <2>5. Illustrated(disk[m]) => m \in Pictures
    BY <1>1 DEF DoneInv, PicturesOnly
  <2>6. /\ Illustrated(disk[m]) => Illustrated(d)
        /\ HasImages(disk[m]) => HasImages(d)
        /\ Illustrated(d) => Illustrated(disk[m]) \/ m \in Pictures
        /\ j.op = "thumbs" /\ m \in Pictures => Illustrated(d)
    BY <2>3, <2>4, <2>5 DEF Illustrated, HasImages
  <2> HIDE DEF d
  <2>7. /\ SteadyImages /\ disk'[m] = d
        /\ \A o \in Files : Illustrated(disk'[o]) => Illustrated(disk[o]) \/ o \in Pictures
    BY <1>1, <2>2, <2>6, OneDirSteady DEF DoneInv
  <2>8. pc'[w] = "ok" /\ GoTo(w, "ok")
    BY <1>3 DEF ScriptSucceeds, GoTo, DoneInv, Typed, TypeOK
  <2>9. Right(w)'
    <3>1. Concerns(job[w])' => Illustrated(disk[job[w].file])'
      BY <1>1, <2>6, <2>7 DEF Concerns, Illustrated
    <3> QED
      BY <2>8, <3>1 DEF Right
  <2> QED
    BY <1>1, <2>7, <2>8, <2>9, OneWorkerSteady, WorkerKeeps DEF DoneInv
<1> QED
  BY <1>2, <1>3

\* The last steps of a worker change the directory of its file, if at all.
LEMMA EndKeeps ==
  ASSUME DoneInv, NEW w \in Workers, Typed', IdsPast',
         FindOutput(w) \/ MoveImages(w) \/ RemoveWorkDir(w),
         NEW there, GoTo(w, there), Right(w)',
         LET m == job[w].file IN
         \/ UNCHANGED disk
         \/ \E d \in Dirs :
                /\ disk' = [disk EXCEPT ![m] = d]
                /\ \/ Excused(m)
                   \/ /\ Illustrated(disk[m]) => Illustrated(d)
                      /\ HasImages(disk[m]) => HasImages(d)
                /\ Illustrated(d) => Illustrated(disk[m])
  PROVE  DoneInv'
<1>1. WorkerStep(w) /\ UNCHANGED results
  BY DEF WorkerStep, GoTo
<1>2. SteadyWorkers
  BY OneWorkerSteady DEF DoneInv
<1>3. job[w].file \in Files
  BY AtTheEnd DEF DoneInv
<1>4. /\ SteadyImages
      /\ \A o \in Files : Illustrated(disk'[o]) => Illustrated(disk[o]) \/ o \in Pictures
  BY <1>3, NoDirSteady, OneDirSteady DEF DoneInv
<1> QED
  BY <1>1, <1>2, <1>4, WorkerKeeps

LEMMA FindOutputDone ==
  ASSUME DoneInv, NEW w \in Workers, FindOutput(w), Typed', IdsPast'
  PROVE  DoneInv'
<1> DEFINE j == job[w]
           m == j.file
<1>1. /\ WorkerStep(w) /\ j \in Jobs /\ m \in Files /\ j.id \in Ids
      /\ disk[m] \in Dirs \cup {None} /\ j.op = "transcode"
  BY AtTheEnd DEF WorkerStep, FindOutput, DoneInv
<1>2. CASE UNCHANGED disk /\ Report(w, Failure(j))
  <2>1. results' = Append(results, Failure(j)) /\ SteadyWorkers
    BY <1>2, OneWorkerSteady DEF Report, DoneInv
  <2> QED
    BY <1>1, <1>2, <2>1, NoDirSteady, WorkerKeeps, FailureJoins
<1>3. CASE /\ disk[m] # None /\ disk[m].work # None /\ GoTo(w, "moved")
           /\ disk' = [disk EXCEPT ![m] = MoveOutput(disk[m], j.id)]
  <2> DEFINE d == MoveOutput(disk[m], j.id)
  <2>1. /\ d \in Dirs /\ disk' = [disk EXCEPT ![m] = d]
        /\ d.thumbs = disk[m].thumbs /\ d.thumbWork = disk[m].thumbWork
    BY <1>1, <1>3, MoveOutputTyped DEF MoveOutput, Dirs
  <2> HIDE DEF d
  <2>2. /\ Illustrated(disk[m]) <=> Illustrated(d)
        /\ HasImages(disk[m]) => HasImages(d)
    BY <1>3, <2>1, ConstantsAssumption DEF Illustrated, HasImages
  <2>3. Right(w)'
    <3>1. pc'[w] = "moved" /\ job' = job
      BY <1>3 DEF GoTo, DoneInv, Typed, TypeOK
    <3> QED
      BY <1>1, <3>1 DEF Right, Concerns
  <2> QED
    BY <1>3, <2>1, <2>2, <2>3, EndKeeps
<1> QED
  BY <1>2, <1>3 DEF FindOutput

LEMMA MoveImagesDone ==
  ASSUME DoneInv, NEW w \in Workers, MoveImages(w), Typed', IdsPast'
  PROVE  DoneInv'
<1> DEFINE j == job[w]
           m == j.file
           d == MoveThumbs(disk[m])
<1>1. /\ j \in Jobs /\ m \in Files /\ disk[m] \in Dirs \cup {None}
      /\ GoTo(w, "moved") /\ pc'[w] = "moved" /\ pc[w] = "ok"
      /\ UNCHANGED <<rows, stale, failed, job>>
  BY AtTheEnd DEF MoveImages, GoTo, DoneInv, Typed, TypeOK
<1>2. CASE disk[m] = None
  <2>1. UNCHANGED disk
    BY <1>2 DEF MoveImages
  <2>2. ~Concerns(j)
    BY <1>1, <1>2 DEF DoneInv, WorkersRight, Right, Illustrated
  <2>3. Right(w)'
    BY <1>1, <2>2 DEF Right, Concerns, Current
  <2> QED
    BY <1>1, <2>1, <2>3, EndKeeps
<1>3. CASE disk[m] # None
  <2>1. /\ d \in Dirs /\ disk' = [disk EXCEPT ![m] = d]
        /\ d.thumbs <=> disk[m].thumbs \/ disk[m].thumbWork = "images"
        /\ d.thumbWork # "images"
    BY <1>1, <1>3, MoveThumbsTyped DEF MoveImages, MoveThumbs, Dirs
  <2> HIDE DEF d
  <2>2. disk'[m] = d /\ d # None
    BY <1>1, <2>1, ConstantsAssumption DEF DoneInv, Typed, TypeOK
  <2>3. /\ Illustrated(disk[m]) <=> Illustrated(d)
        /\ Illustrated(disk[m]) <=> HasImages(d)
        /\ HasImages(disk[m]) => HasImages(d)
    BY <1>3, <2>1, <2>2 DEF Illustrated, HasImages
  <2>4. Right(w)'
    <3>1. Concerns(job[w])' => Concerns(j)
      BY <1>1 DEF Concerns, Current
    <3>2. Concerns(j) => HasImages(disk[job[w].file])'
      BY <1>1, <2>2, <2>3 DEF DoneInv, WorkersRight, Right, HasImages
    <3> QED
      BY <1>1, <3>1, <3>2 DEF Right
  <2> QED
    BY <1>1, <2>1, <2>3, <2>4, EndKeeps
<1> QED
  BY <1>2, <1>3

\* The step that destroys: but after a script that has moved its images to thumbs/,
\* after one that failed, or after one for an earlier file of the same id.
LEMMA RemoveWorkDirDone ==
  ASSUME DoneInv, NEW w \in Workers, RemoveWorkDir(w), Typed', IdsPast'
  PROVE  DoneInv'
<1> DEFINE j == job[w]
           m == j.file
           d == WithoutWorkDir(disk[m], j)
<1>1. /\ j \in Jobs /\ m \in Files /\ disk[m] \in Dirs \cup {None} /\ MarkStale(j)
      /\ UNCHANGED <<rows, failed, job>> /\ stale \subseteq stale'
  BY AtTheEnd DEF RemoveWorkDir, MarkStale, GoTo, DoneInv
<1>2. \/ pc[w] = "moved" /\ GoTo(w, "done") /\ pc'[w] = "done"
      \/ pc[w] = "error" /\ GoTo(w, "undone") /\ pc'[w] = "undone"
  BY DEF RemoveWorkDir, GoTo, DoneInv, Typed, TypeOK
<1>3. Concerns(job[w])' => Concerns(j) /\ pc[w] = "moved" /\ HasImages(disk[m])
  <2>1. Concerns(job[w])' => Concerns(j)
    BY <1>1 DEF Concerns, Current
  <2> QED
    BY <1>2, <2>1 DEF DoneInv, WorkersRight, Right
<1>4. CASE disk[m] = None
  <2>1. UNCHANGED disk
    BY <1>4 DEF RemoveWorkDir
  <2>2. Right(w)'
    BY <1>2, <1>3, <1>4 DEF Right, HasImages
  <2> QED
    BY <1>2, <2>1, <2>2, EndKeeps
<1>5. CASE disk[m] # None
  <2>1. /\ d \in Dirs /\ disk' = [disk EXCEPT ![m] = d]
        /\ d.thumbs = disk[m].thumbs
        /\ d.thumbWork = disk[m].thumbWork \/ (j.op = "thumbs" /\ d.thumbWork = "none")
    BY <1>1, <1>5, WithoutWorkDirTyped DEF RemoveWorkDir, WithoutWorkDir, Dirs, Jobs
  <2> HIDE DEF d
  <2>2. disk'[m] = d /\ d # None
    BY <1>1, <2>1, ConstantsAssumption DEF DoneInv, Typed, TypeOK
  <2>3. /\ HasImages(disk[m]) => HasImages(d) /\ Illustrated(d)
        /\ Illustrated(d) => Illustrated(disk[m])
    BY <1>5, <2>1, <2>2 DEF Illustrated, HasImages
  <2>4. Right(w)'
    <3>1. Concerns(job[w])' => pc[w] = "moved" /\ HasImages(disk[job[w].file])'
      BY <1>1, <1>3, <2>2, <2>3 DEF HasImages
    <3> QED
      BY <1>2, <3>1 DEF Right
  <2>5. ASSUME Illustrated(disk[m]), ~Illustrated(d), ~Excused(m)
        PROVE  FALSE
    <3>1. j.op = "thumbs" /\ m \in Pictures
      BY <1>1, <1>5, <2>1, <2>2, <2>5 DEF Illustrated, DoneInv, PicturesOnly
    <3>2. CASE ~Concerns(j)
      BY <1>1, <2>5, <3>1, <3>2 DEF Concerns, Current, MarkStale, Excused
    <3>3. CASE Concerns(j)
      <4>1. pc[w] = "moved" /\ HasImages(disk[m])
        BY <1>2, <3>3 DEF DoneInv, WorkersRight, Right
      <4> QED
        BY <2>3, <2>5, <4>1
    <3> QED
      BY <3>2, <3>3
  <2> QED
    BY <1>2, <2>1, <2>3, <2>4, <2>5, EndKeeps
<1> QED
  BY <1>4, <1>5

LEMMA AnswerDone ==
  ASSUME DoneInv, NEW w \in Workers, Answer(w), Typed', IdsPast'
  PROVE  DoneInv'
<1>1. WorkerStep(w) /\ UNCHANGED <<rows, disk, stale, failed>>
  BY DEF WorkerStep, Answer, Report
<1>2. PICK q \in Results :
          /\ Report(w, q)
          /\ q.job = job[w] /\ (q.ok <=> pc[w] = "done")
          /\ q.thumbs <=> q.ok /\ q.job.op = "thumbs" /\ HasImages(disk[q.job.file])
  BY AnswerIs DEF DoneInv
<1>3. ~Fruitless(q)'
  <2>1. ASSUME q.ok, ~q.thumbs, Concerns(q.job)
        PROVE  FALSE
    <3>1. q.job.op = "thumbs" /\ ~HasImages(disk[q.job.file])
      BY <1>2, <2>1 DEF Concerns
    <3> QED
      BY <1>2, <2>1, <3>1 DEF DoneInv, WorkersRight, Right
  <2> QED
    BY <1>1, <2>1 DEF Fruitless, Concerns, Current
<1>4. q.thumbs => q.job.file \in Pictures
  <2>1. job[w].file \in Files
    BY AtTheEnd DEF DoneInv
  <2> QED
    BY <1>2, <2>1 DEF HasImages, Illustrated, DoneInv, PicturesOnly
<1>5. Joins(q) /\ SteadyWorkers
  BY <1>2, <1>3, <1>4, OneWorkerSteady DEF Joins, Report, DoneInv
<1> QED
  BY <1>1, <1>5, NoDirSteady, WorkerKeeps

LEMMA HandleFailureDone ==
  ASSUME DoneInv, HandleFailure, Typed', IdsPast'
  PROVE  DoneInv'
<1>1. /\ UNCHANGED <<rows, disk, pc, job, stale, failed>>
      /\ Held(results') \subseteq Held(results)
  BY HeldByTail DEF HandleFailure, poolVars, DoneInv, Typed, TypeOK
<1>2. PicturesOnly'
  BY <1>1 DEF DoneInv, PicturesOnly, Illustrated
<1>3. DoneIsComplete'
  BY <1>1 DEF DoneInv, DoneIsComplete
<1>4. SteadyRows
  BY <1>1 DEF SteadyRows
<1> QED
  BY <1>1, <1>2, <1>3, <1>4, KeepsDone, NoDirSteady, SameWorkers, FewerResults

LEMMA HandleTranscodedDone ==
  ASSUME DoneInv, HandleTranscoded, Typed', IdsPast'
  PROVE  DoneInv'
<1> DEFINE j == Head(results).job
           m == j.file
           linked == Made(m).link = None
           d == IF linked THEN [Made(m) EXCEPT !.link = j.id] ELSE Made(m)
<1>1. m \in Files /\ j.id \in Ids /\ Made(m) \in Dirs
  BY HeadOfResults, MadeTyped DEF HandleTranscoded, DoneInv, Typed, TypeOK
<1>2. /\ disk' = [disk EXCEPT ![m] = d]
      /\ \/ rows' = rows
         \/ rows' = Update(rows, m, [rows[m] EXCEPT !.recomp = TRUE])
      /\ UNCHANGED <<pc, job, failed>> /\ stale \subseteq stale'
      /\ Held(results') \subseteq Held(results)
  BY HeldByTail DEF HandleTranscoded, poolVars, MarkStale, DoneInv, Typed, TypeOK
<1>3. d \in Dirs /\ d.thumbs = Made(m).thumbs /\ d.thumbWork = Made(m).thumbWork
  BY <1>1 DEF Dirs
<1> HIDE DEF d
<1>4. disk'[m] = d /\ \A o \in Files \ {m} : disk'[o] = disk[o]
  BY <1>1, <1>2 DEF DoneInv, Typed, TypeOK
<1>5. /\ \A o \in Files : Illustrated(disk'[o]) <=> Illustrated(disk[o])
      /\ \A o \in Files : HasImages(disk[o]) => HasImages(disk'[o])
  <2>1. d # None /\ disk'[m] = d /\ \A o \in Files \ {m} : disk'[o] = disk[o]
    BY <1>3, <1>4, ConstantsAssumption
  <2>2. Illustrated(d) <=> Illustrated(disk[m])
    BY <1>3, <2>1 DEF Illustrated, Made, EmptyDir
  <2>3. HasImages(disk[m]) => HasImages(d)
    BY <1>3, <2>1 DEF HasImages, Made
  <2> QED
    BY <2>1, <2>2, <2>3
<1>6. \A o \in Files : rows'[o] # None =>
        /\ rows[o] # None /\ rows'[o].added = rows[o].added
        /\ rows'[o].has = rows[o].has /\ rows'[o].sheet = rows[o].sheet
        /\ rows'[o].done = rows[o].done
  BY <1>1, <1>2 DEF Update, DoneInv, Typed, TypeOK, Rows
<1>8. PicturesOnly'
  <2>1. \A o \in Files : Illustrated(disk'[o]) => o \in Pictures
    BY <1>5 DEF DoneInv, PicturesOnly
  <2>2. \A r \in Held(results') : r.thumbs => r.job.file \in Pictures
    BY <1>2 DEF DoneInv, PicturesOnly
  <2>3. \A o \in Files :
          rows'[o] # None /\ (rows'[o].has \/ rows'[o].sheet) => o \in Pictures
    BY <1>6 DEF DoneInv, PicturesOnly
  <2> QED
    BY <2>1, <2>2, <2>3 DEF PicturesOnly, Illustrated
<1>9. DoneIsComplete'
  BY <1>2, <1>6 DEF DoneInv, DoneIsComplete
<1>10. SteadyRows /\ SteadyImages
  BY <1>2, <1>5, <1>6 DEF SteadyRows, SteadyImages, SteadyAt
<1> QED
  BY <1>2, <1>8, <1>9, <1>10, KeepsDone, SameWorkers, FewerResults

\* A thumbnailing that ended well and made no thumbnails is of no picture, or was
\* followed by one of a later ingestion, or there was one that failed.
LEMMA NoThumbsNoPicture ==
  ASSUME DoneInv, results # <<>>, MarkStale(Head(results).job),
         Head(results).ok, ~Head(results).thumbs, Head(results).job.op = "thumbs"
  PROVE  LET m == Head(results).job.file IN
         m \in Pictures /\ rows[m] # None => m \in stale' \cup failed
<1>1. Head(results) \in Held(results)
  BY HeldByTail DEF DoneInv, Typed, TypeOK
<1>2. ~Concerns(Head(results).job)
  BY <1>1 DEF DoneInv, ResultsRight, Fruitless
<1> QED
  BY <1>2 DEF Concerns, Current, MarkStale

LEMMA HandleThumbsDone ==
  ASSUME DoneInv, HandleThumbs, Typed', IdsPast'
  PROVE  DoneInv'
<1> DEFINE r == Head(results)
           m == r.job.file
<1>1. /\ m \in Files /\ r.ok /\ r.job.op = "thumbs" /\ results # <<>>
      /\ MarkStale(r.job) /\ stale \subseteq stale'
      /\ UNCHANGED <<disk, pc, job>> /\ Held(results') \subseteq Held(results)
      /\ r \in Held(results)
  BY HeadOfResults, HeldByTail
  DEF HandleThumbs, MarkStale, DoneInv, Typed, TypeOK
<1>2. PICK bad \in SUBSET Statements :
        LET shown == IF r.thumbs THEN Update(rows, m, WithThumbs(rows[m], bad))
                     ELSE rows IN
        /\ rows' = IF MarksDone(r, bad)
                   THEN Update(shown, m, [shown[m] EXCEPT !.done = TRUE])
                   ELSE shown
        /\ failed' = IF MarksDone(r, bad) THEN failed ELSE failed \cup {m}
  BY DEF HandleThumbs
<1> DEFINE shown == IF r.thumbs THEN Update(rows, m, WithThumbs(rows[m], bad))
                    ELSE rows
<1>3. /\ shown \in [Files -> Rows \cup {None}]
      /\ \A o \in Files : shown[o] # None =>
            /\ rows[o] # None /\ shown[o].added = rows[o].added
            /\ shown[o].done = rows[o].done
            /\ o # m \/ ~r.thumbs => /\ shown[o].has = rows[o].has
                                     /\ shown[o].sheet = rows[o].sheet
      /\ shown[m] # None /\ r.thumbs /\ {"has", "dims"} \cap bad = {} =>
            shown[m].has /\ shown[m].sheet
  <2>1. ASSUME rows[m] # None
        PROVE  /\ WithThumbs(rows[m], bad) \in Rows
               /\ WithThumbs(rows[m], bad).added = rows[m].added
               /\ WithThumbs(rows[m], bad).done = rows[m].done
               /\ {"has", "dims"} \cap bad = {} =>
                      WithThumbs(rows[m], bad).has /\ WithThumbs(rows[m], bad).sheet
    <3>1. rows[m] \in Rows
      BY <1>1, <2>1 DEF DoneInv, Typed, TypeOK
    <3> QED
      BY <3>1 DEF WithThumbs, Rows
  <2> QED
    BY <1>1, <2>1, ConstantsAssumption DEF Update, DoneInv, Typed, TypeOK
<1>4. /\ rows' = IF MarksDone(r, bad)
                 THEN Update(shown, m, [shown[m] EXCEPT !.done = TRUE])
                 ELSE shown
      /\ failed' = IF MarksDone(r, bad) THEN failed ELSE failed \cup {m}
  BY <1>2
<1> HIDE DEF shown
<1>5. \A o \in Files : rows'[o] # None =>
        /\ shown[o] # None /\ rows'[o].added = shown[o].added
        /\ rows'[o].has = shown[o].has /\ rows'[o].sheet = shown[o].sheet
        /\ o # m => rows'[o].done = shown[o].done
  BY <1>1, <1>3, <1>4 DEF Update, Rows
<1>7. r.thumbs => m \in Pictures
  BY <1>1 DEF DoneInv, PicturesOnly
<1>8. PicturesOnly'
  BY <1>1, <1>3, <1>5, <1>7 DEF DoneInv, PicturesOnly, Illustrated
<1>9. DoneIsComplete'
  <2>1. ASSUME NEW o \in Files \ (stale' \cup failed'), o # m,
               rows'[o] # None, rows'[o].done
        PROVE  rows'[o].has = (o \in Pictures) /\ rows'[o].sheet = rows'[o].has
    <3>1. o \notin stale \cup failed
      BY <1>1, <1>4
    <3>2. rows[o] # None /\ rows[o].done
      BY <1>3, <1>5, <2>1
    <3>3. rows'[o].has = rows[o].has /\ rows'[o].sheet = rows[o].sheet
      BY <1>3, <1>5, <2>1
    <3> QED
      BY <3>1, <3>2, <3>3 DEF DoneInv, DoneIsComplete
  <2>2. ASSUME m \notin stale' \cup failed', rows'[m] # None
        PROVE  rows'[m].has = (m \in Pictures) /\ rows'[m].sheet = rows'[m].has
    <3>1. MarksDone(r, bad) /\ m \notin failed
      BY <1>4, <2>2
    <3>2. rows'[m] \in Rows /\ rows[m] # None /\ shown[m] # None
          /\ rows'[m].has = shown[m].has /\ rows'[m].sheet = shown[m].sheet
      BY <1>1, <1>3, <1>5, <2>2 DEF Typed, TypeOK
    <3>3. CASE r.thumbs
      <4>1. rows'[m].has /\ rows'[m].sheet
        BY <1>3, <3>1, <3>2, <3>3 DEF MarksDone
      <4>2. rows'[m].has = TRUE /\ rows'[m].sheet = TRUE
        BY <3>2, <4>1 DEF Rows
      <4> QED
        BY <1>7, <3>3, <4>2
    <3>4. CASE ~r.thumbs
      <4>1. m \notin Pictures
        BY <1>1, <2>2, <3>1, <3>2, <3>4, NoThumbsNoPicture DEF DoneInv
      <4>2. ~rows[m].has /\ ~rows[m].sheet
        BY <1>1, <3>2, <4>1 DEF DoneInv, PicturesOnly
      <4>3. ~rows'[m].has /\ ~rows'[m].sheet
        BY <1>1, <1>3, <3>2, <3>4, <4>2
      <4>4. rows'[m].has = FALSE /\ rows'[m].sheet = FALSE
        BY <3>2, <4>3 DEF Rows
      <4>5. (m \in Pictures) = FALSE
        BY <4>1
      <4> HIDE DEF m
      <4> QED
        BY <4>4, <4>5
    <3> QED
      BY <3>3, <3>4
  <2> QED
    BY <2>1, <2>2 DEF DoneIsComplete
<1>10. SteadyRows
  BY <1>1, <1>3, <1>4, <1>5 DEF SteadyRows
<1> QED
  BY <1>1, <1>8, <1>9, <1>10, KeepsDone, NoDirSteady, SameWorkers, FewerResults

LEMMA NextDone == DoneInv /\ [Next]_vars => DoneInv'
<1> SUFFICES ASSUME DoneInv, [Next]_vars PROVE DoneInv'
  OBVIOUS
<1>1. Typed' /\ IdsPast'
  BY NextTyped, NextPast DEF DoneInv
<1>2. ASSUME NEW m \in Files, Ingest(m) \/ DeleteRow(m) \/ MoveToTrash(m)
      PROVE  DoneInv'
  BY <1>1, <1>2, IngestDone, DeletionDone
<1>3. ASSUME NEW w \in Workers, WorkerStep(w)
      PROVE  DoneInv'
  BY <1>1, <1>3, TakeDone, MakeWorkDirDone, ScriptDone, FindOutputDone, MoveImagesDone,
     RemoveWorkDirDone, AnswerDone DEF WorkerStep
<1>4. CASE HandleResult
  BY <1>1, <1>4, HandleTranscodedDone, HandleThumbsDone, HandleFailureDone
  DEF HandleResult
<1>5. CASE Crash
  BY <1>1, <1>5, CrashDone
<1>6. CASE UNCHANGED vars
  <2>1. UNCHANGED <<rows, disk, results, pc, job, stale, failed>>
    BY <1>6 DEF vars, poolVars, histVars
  <2>2. PicturesOnly' /\ DoneIsComplete'
    BY <2>1 DEF DoneInv, PicturesOnly, Illustrated, DoneIsComplete
  <2>3. SteadyRows
    BY <2>1 DEF SteadyRows
  <2> QED
    BY <1>1, <2>1, <2>2, <2>3, KeepsDone, NoDirSteady, SameWorkers, FewerResults
<1> QED
  BY <1>2, <1>3, <1>4, <1>5, <1>6 DEF Next

(* thumbs_done, which keeps a file from ever being thumbnailed again, is   *)
(* set of a picture only with its thumbnails and the dimensions of their   *)
(* sheet in the row, and of what is no picture without either, whichever   *)
(* scripts of the file share a directory, unless one of its thumbnailings  *)
(* failed or something meant for an earlier file of its id has hit it.     *)
THEOREM ThumbsDoneIsRight == Spec => []DoneIsComplete
<1>1. DoneInv => DoneIsComplete
  BY DEF DoneInv
<1> QED
  BY InitDone, NextDone, <1>1, PTL DEF Spec
=============================================================================
