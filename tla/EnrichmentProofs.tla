--------------------------- MODULE EnrichmentProofs ---------------------------
(***************************************************************************)
(* What holds of StructureEnrichment for every data set, every set of      *)
(* plans over one output directory and every behaviour of the service.     *)
(***************************************************************************)
EXTENDS StructureEnrichment, TLAPS

-----------------------------------------------------------------------------
\* Chunks and plans are about ids of the data set.
LEMMA PlansHaveIndices ==
    ASSUME NEW p \in MaybePlans, NEW i \in DOMAIN p
    PROVE  p \in Plans /\ i \in Indices /\ p[i] \in SUBSET Ids /\ i \in Nat \ {0}
<1>1. DOMAIN <<>> = {}
  OBVIOUS
<1>2. p \in Plans
  BY <1>1 DEF MaybePlans
<1>3. p \in Seq(SUBSET Ids)
  BY <1>2, EnrichmentAssumption
<1>4. i \in Indices
  BY <1>2 DEF Indices
<1> QED
  BY <1>2, <1>3, <1>4

LEMMA PlansMayBe == Plans \subseteq MaybePlans
  BY DEF MaybePlans

\* The documents of an acceptable answer are documents of the data set.
LEMMA AcceptableDocuments ==
    ASSUME NEW ids \in SUBSET Ids, NEW answer \in Answers, Acceptable(answer, ids)
    PROVE  answer.docs \in SUBSET Documents
  BY EnrichmentAssumption DEF Acceptable, Documents

-----------------------------------------------------------------------------
LEMMA TypesHoldInitially == Init => TypeOK
<1> SUFFICES ASSUME Init PROVE TypeOK
  OBVIOUS
<1>1. FilesOK
  <2>1. Absent \in FileOf(SUBSET Documents) /\ Absent \in FileOf(SUBSET Ids)
    BY DEF Absent, FileOf
  <2>2. manifest \in ManifestType
    BY DEF Init, ManifestType, Statuses, MaybePlans
  <2>3. query \in MaybePlans /\ listed \in MaybePlans
    BY DEF Init, MaybePlans
  <2>4. reported \in [Plans -> SUBSET Documents]
    BY DEF Init
  <2> QED
    BY <2>1, <2>2, <2>3, <2>4 DEF Init, FilesOK
<1>2. RunOK
  <2>1. rows \subseteq Documents /\ returned \subseteq Documents
    BY DEF Init
  <2>2. plan \in MaybePlans /\ index \in Nat \ {0}
    BY DEF Init, MaybePlans
  <2> QED
    BY <2>1, <2>2 DEF Init, RunOK
<1> QED
  BY <1>1, <1>2 DEF TypeOK

\* A step that leaves the files alone, and one that leaves the run alone.
LEMMA FilesUnchanged == FilesOK /\ UNCHANGED files => FilesOK'
  BY DEF FilesOK, files

LEMMA TypesArePreserved == TypeOK /\ [Next]_vars => TypeOK'
<1> SUFFICES ASSUME FilesOK, RunOK, [Next]_vars PROVE FilesOK' /\ RunOK'
  BY DEF TypeOK
<1>1. ASSUME NEW p \in Plans, NEW executes \in BOOLEAN, Begin(p, executes)
      PROVE  FilesOK' /\ RunOK'
  <2>1. FilesOK'
    BY <1>1 DEF Begin, FilesOK, MaybePlans
  <2>2. RunOK'
    <3>1. rows' \subseteq Documents /\ returned' \subseteq Documents
      BY <1>1 DEF Begin
    <3>2. plan' \in MaybePlans /\ index' \in Nat \ {0} /\ execute' \in BOOLEAN
      BY <1>1 DEF Begin, MaybePlans
    <3> QED
      BY <1>1, <3>1, <3>2 DEF Begin, RunOK
  <2> QED
    BY <2>1, <2>2
<1>2. CASE List
  <2>1. FilesOK'
    BY <1>2 DEF List, FilesOK, RunOK
  <2>2. RunOK'
    BY <1>2 DEF List, RunOK, run
  <2> QED
    BY <2>1, <2>2
<1>3. CASE Preview
  <2>1. manifest' \in ManifestType
    BY <1>3 DEF Preview, RunOK, ManifestType, Statuses
  <2>2. FilesOK'
    BY <1>3, <2>1 DEF Preview, FilesOK
  <2>3. RunOK'
    BY <1>3 DEF Preview, RunOK, run
  <2> QED
    BY <2>2, <2>3
<1>4. CASE Reuse
  <2>1. index \in Indices
    BY <1>4, PlansHaveIndices, PlansMayBe DEF Reuse, AtChunk, RunOK
  <2>2. chunks[index].set \subseteq Documents
    BY <2>1 DEF FilesOK, FileOf
  <2>3. RunOK'
    BY <1>4, <2>2 DEF Reuse, AtChunk, RunOK
  <2> QED
    BY <1>4, <2>3, FilesUnchanged DEF Reuse
<1>5. CASE Reject
  <2>1. RunOK'
    BY <1>5 DEF Reject, AtChunk, RunOK
  <2> QED
    BY <1>5, <2>1, FilesUnchanged DEF Reject
<1>6. ASSUME NEW answer \in Answers, Fetch(answer)
      PROVE  FilesOK' /\ RunOK'
  <2>1. rows' \subseteq Documents
    BY <1>6, PlansHaveIndices, AcceptableDocuments DEF Fetch, AtChunk, RunOK
  <2>2. RunOK'
    BY <1>6, <2>1 DEF Fetch, AtChunk, RunOK
  <2> QED
    BY <1>6, <2>2, FilesUnchanged DEF Fetch
<1>7. CASE FetchFails
  <2>1. RunOK'
    BY <1>7 DEF FetchFails, AtChunk, RunOK
  <2> QED
    BY <1>7, <2>1, FilesUnchanged DEF FetchFails
<1>8. CASE WriteChunk
  <2>1. File(rows) \in FileOf(SUBSET Documents)
    BY DEF File, FileOf, RunOK
  <2>2. chunks' \in [Indices -> FileOf(SUBSET Documents)]
    BY <1>8, <2>1 DEF WriteChunk, FilesOK
  <2>3. FilesOK'
    BY <1>8, <2>2 DEF WriteChunk, FilesOK
  <2>4. RunOK'
    BY <1>8 DEF WriteChunk, RunOK, run
  <2> QED
    BY <2>3, <2>4
<1>9. CASE WriteSidecar
  <2>1. File(plan[index]) \in FileOf(SUBSET Ids)
    BY <1>9, PlansHaveIndices, PlansMayBe DEF WriteSidecar, File, FileOf, RunOK
  <2>2. sidecars' \in [Indices -> FileOf(SUBSET Ids)]
    BY <1>9, <2>1 DEF WriteSidecar, FilesOK
  <2>3. FilesOK'
    BY <1>9, <2>2 DEF WriteSidecar, FilesOK
  <2>4. RunOK'
    BY <1>9 DEF WriteSidecar, RunOK
  <2> QED
    BY <2>3, <2>4
<1>10. CASE Report
  <2>1. manifest' \in ManifestType
    BY <1>10 DEF Report, RunOK, ManifestType, Verdict, Statuses
  <2>2. reported' \in [Plans -> SUBSET Documents]
    BY <1>10 DEF Report, FilesOK, RunOK
  <2>3. FilesOK'
    BY <1>10, <2>1, <2>2 DEF Report, FilesOK
  <2>4. RunOK'
    BY <1>10 DEF Report, RunOK, run
  <2> QED
    BY <2>3, <2>4
<1>11. CASE Abort
  <2>1. RunOK'
    BY <1>11 DEF Abort, RunOK, run
  <2> QED
    BY <1>11, <2>1, FilesUnchanged DEF Abort
<1>12. CASE UNCHANGED vars
  <2>1. RunOK'
    BY <1>12 DEF vars, run, RunOK
  <2> QED
    BY <1>12, <2>1, FilesUnchanged DEF vars
<1> QED
  BY <1>1, <1>2, <1>3, <1>4, <1>5, <1>6, <1>7, <1>8, <1>9, <1>10, <1>11, <1>12 DEF Next

\* The types hold of every state, and so nothing foreign is ever stored.
THEOREM EnrichmentTyped == Spec => []TypeOK
<1> QED
  BY TypesHoldInitially, TypesArePreserved, PTL DEF Spec

-----------------------------------------------------------------------------
(***************************************************************************)
(* The inductive invariant of reports.  A chunk and its manifest, once     *)
(* both are there, are never written again: only a chunk that is not there *)
(* is fetched, and the run writes the two files of one chunk in a row.     *)
(***************************************************************************)
\* The documents of the chunks before n of a plan, among chunk files c with
\* manifests m, that are usable.
Held(c, m, p, n) ==
    UNION {c[i].set : i \in {j \in DOMAIN p : j < n /\ c[j].exists /\ m[j] = File(p[j])}}

\* What the run has in hand is what is usable among the chunks it has passed.
InHand == pc # "idle" => returned = Held(chunks, sidecars, plan, index)

\* The chunk a run is writing has no usable contents yet.
InProgress ==
    /\ pc \in {"write", "sidecar"} =>
        rows \ {NoId} \subseteq plan[index] /\ ~sidecars[index].exists
    /\ pc = "write" => ~chunks[index].exists
    /\ pc = "sidecar" => chunks[index] = File(rows)

\* A manifest is about the chunk beside it: the comparison of the ids of a
\* chunk on disk never fails.
SidecarsMatch ==
    \A i \in Indices : sidecars[i].exists =>
        chunks[i].exists /\ chunks[i].set \ {NoId} \subseteq sidecars[i].set

IInv == TypeOK /\ InHand /\ InProgress /\ SidecarsMatch /\ ReportIsOnDisk

-----------------------------------------------------------------------------
\* How the documents in hand grow from one chunk to the next.
LEMMA NothingBeforeTheFirst ==
    ASSUME NEW p \in Plans, NEW c, NEW m PROVE Held(c, m, p, 1) = {}
  BY PlansHaveIndices, PlansMayBe DEF Held

LEMMA OneMoreChunk ==
    ASSUME NEW p \in Plans, NEW n \in DOMAIN p, NEW c, NEW m
    PROVE  IF c[n].exists /\ m[n] = File(p[n])
           THEN Held(c, m, p, n + 1) = Held(c, m, p, n) \cup c[n].set
           ELSE Held(c, m, p, n + 1) = Held(c, m, p, n)
<1> DEFINE Good(j) == c[j].exists /\ m[j] = File(p[j])
<1>1. \A j \in DOMAIN p : j < n + 1 <=> j < n \/ j = n
  BY PlansHaveIndices, PlansMayBe
<1>2. \A k, e : e \in Held(c, m, p, k) <=>
                    \E j \in DOMAIN p : j < k /\ Good(j) /\ e \in c[j].set
  BY DEF Held
<1> HIDE DEF Good
<1>3. ASSUME NEW e
      PROVE  e \in Held(c, m, p, n + 1) <=>
                 e \in Held(c, m, p, n) \/ (Good(n) /\ e \in c[n].set)
  BY <1>1, <1>2, Zenon
<1>4. CASE Good(n)
  <2>1. Held(c, m, p, n + 1) = Held(c, m, p, n) \cup c[n].set
    BY <1>3, <1>4
  <2> QED
    BY <1>4, <2>1 DEF Good
<1>5. CASE ~Good(n)
  <2>1. Held(c, m, p, n + 1) = Held(c, m, p, n)
    BY <1>3, <1>5
  <2> QED
    BY <1>5, <2>1 DEF Good
<1> QED
  BY <1>4, <1>5

LEMMA AllChunks ==
    ASSUME NEW p \in Plans, NEW n \in Nat \ {0}, n \notin DOMAIN p
    PROVE  Held(chunks, sidecars, p, n) = Stored(p)
<1>1. p \in Seq(SUBSET Ids)
  BY EnrichmentAssumption
<1>2. \A j \in DOMAIN p : j < n
  BY <1>1
<1> QED
  BY <1>2 DEF Held, Stored, Usable

\* Files that agree below n hold the same documents there.
LEMMA SameBefore ==
    ASSUME NEW p, NEW n, NEW c, NEW m, NEW d, NEW k,
           \A j \in DOMAIN p : j < n => d[j] = c[j] /\ k[j] = m[j]
    PROVE  Held(d, k, p, n) = Held(c, m, p, n)
<1>1. {j \in DOMAIN p : j < n /\ d[j].exists /\ k[j] = File(p[j])}
        = {j \in DOMAIN p : j < n /\ c[j].exists /\ m[j] = File(p[j])}
  BY Zenon
<1>2. \A j \in DOMAIN p : j < n => d[j].set = c[j].set
  OBVIOUS
<1> QED
  BY <1>1, <1>2 DEF Held

\* What is usable stays so, with the same contents, and nothing becomes usable
\* but the chunk whose manifest is written.
UsableStays ==
    \A p \in MaybePlans : \A i \in DOMAIN p :
        Usable(p, i) => Usable(p, i)' /\ chunks'[i] = chunks[i]

LEMMA FilesKeptUsable == UNCHANGED <<chunks, sidecars>> => UsableStays
  BY DEF UsableStays, Usable

LEMMA StoredGrows ==
    ASSUME UsableStays, NEW p \in MaybePlans PROVE Stored(p) \subseteq Stored(p)'
  BY DEF UsableStays, Stored

LEMMA UsableIsPreserved == TypeOK /\ InProgress /\ [Next]_vars => UsableStays
<1> SUFFICES ASSUME TypeOK, InProgress, [Next]_vars PROVE UsableStays
  OBVIOUS
<1>1. CASE WriteChunk
  <2> SUFFICES ASSUME NEW p \in MaybePlans, NEW i \in DOMAIN p, Usable(p, i)
               PROVE  Usable(p, i)' /\ chunks'[i] = chunks[i]
    BY DEF UsableStays
  <2>1. i # index
    BY <1>1 DEF WriteChunk, InProgress, Usable
  <2>2. chunks'[i] = chunks[i] /\ sidecars' = sidecars
    BY <1>1, <2>1, PlansHaveIndices, PlansMayBe DEF WriteChunk, TypeOK, FilesOK
  <2> QED
    BY <2>2 DEF Usable
<1>2. CASE WriteSidecar
  <2> SUFFICES ASSUME NEW p \in MaybePlans, NEW i \in DOMAIN p, Usable(p, i)
               PROVE  Usable(p, i)' /\ chunks'[i] = chunks[i]
    BY DEF UsableStays
  <2>1. i # index
    BY <1>2 DEF WriteSidecar, InProgress, Usable, File
  <2>2. sidecars'[i] = sidecars[i] /\ chunks' = chunks
    BY <1>2, <2>1, PlansHaveIndices, PlansMayBe DEF WriteSidecar, TypeOK, FilesOK
  <2> QED
    BY <2>2 DEF Usable
<1>3. CASE ~WriteChunk /\ ~WriteSidecar
  <2>1. UNCHANGED <<chunks, sidecars>>
    BY <1>3 DEF Next, Begin, List, Preview, Reuse, Reject, Fetch, FetchFails,
                Report, Abort, vars, files
  <2> QED
    BY <2>1, FilesKeptUsable
<1> QED
  BY <1>1, <1>2, <1>3

-----------------------------------------------------------------------------
LEMMA HandIsPreserved == TypeOK /\ InHand /\ InProgress /\ SidecarsMatch /\ [Next]_vars => InHand'
<1> SUFFICES ASSUME TypeOK, InHand, InProgress, SidecarsMatch, [Next]_vars, pc' # "idle"
             PROVE  returned' = Held(chunks', sidecars', plan', index')
  BY DEF InHand
<1>0. pc # "idle" => plan \in Plans /\ index \in Nat \ {0}
  BY DEF TypeOK, RunOK
<1>1. ASSUME NEW p \in Plans, NEW executes \in BOOLEAN, Begin(p, executes)
      PROVE  returned' = Held(chunks', sidecars', plan', index')
  BY <1>1, NothingBeforeTheFirst DEF Begin
<1>2. CASE Reuse
  <2>1. chunks[index].exists /\ sidecars[index] = File(plan[index]) /\ index \in DOMAIN plan
    BY <1>2 DEF Reuse, AtChunk, Reusable
  <2>2. Held(chunks, sidecars, plan, index + 1) = returned \cup chunks[index].set
    BY <1>0, <1>2, <2>1, OneMoreChunk DEF InHand, Reuse, AtChunk
  <2> QED
    BY <1>2, <2>2 DEF Reuse, files
<1>3. CASE Reject
  <2>1. index \in DOMAIN plan /\ plan \in Plans /\ index \in Indices
    BY <1>0, <1>3, PlansHaveIndices, PlansMayBe DEF Reject, AtChunk
  <2>2. sidecars[index] # File(plan[index])
    BY <1>3, <2>1 DEF Reject, Reusable, SidecarsMatch, File
  <2>3. Held(chunks, sidecars, plan, index + 1) = returned
    BY <1>3, <2>1, <2>2, OneMoreChunk DEF InHand, Reject, AtChunk
  <2> QED
    BY <1>3, <2>3 DEF Reject, files
<1>4. CASE FetchFails
  <2>1. index \in DOMAIN plan /\ plan \in Plans
    BY <1>0, <1>4 DEF FetchFails, AtChunk
  <2>2. Held(chunks, sidecars, plan, index + 1) = returned
    BY <1>4, <2>1, OneMoreChunk DEF InHand, FetchFails, AtChunk
  <2> QED
    BY <1>4, <2>2 DEF FetchFails, files
<1>5. CASE WriteChunk
  <2>0. plan \in Plans
    BY <1>0, <1>5 DEF WriteChunk
  <2>1. ASSUME NEW j \in DOMAIN plan, j < index PROVE chunks'[j] = chunks[j]
    <3>1. j \in Indices /\ j # index
      BY <1>0, <1>5, <2>0, <2>1, PlansHaveIndices, PlansMayBe
    <3> QED
      BY <1>5, <3>1 DEF WriteChunk, TypeOK, FilesOK
  <2>2. sidecars' = sidecars
    BY <1>5 DEF WriteChunk
  <2>3. Held(chunks', sidecars', plan, index) = Held(chunks, sidecars, plan, index)
    BY <2>1, <2>2, SameBefore
  <2> QED
    BY <1>5, <2>3 DEF WriteChunk, run, InHand
<1>6. CASE WriteSidecar
  <2>0. plan \in Plans
    BY <1>0, <1>6 DEF WriteSidecar
  <2>1. ASSUME NEW j \in DOMAIN plan, j < index PROVE sidecars'[j] = sidecars[j]
    <3>1. j \in Indices /\ j # index
      BY <1>0, <1>6, <2>0, <2>1, PlansHaveIndices, PlansMayBe
    <3> QED
      BY <1>6, <3>1 DEF WriteSidecar, TypeOK, FilesOK
  <2>2. Held(chunks', sidecars', plan, index) = returned
    <3>1. chunks' = chunks
      BY <1>6 DEF WriteSidecar
    <3>2. Held(chunks', sidecars', plan, index) = Held(chunks, sidecars, plan, index)
      BY <2>1, <3>1, SameBefore
    <3> QED
      BY <1>6, <3>2 DEF WriteSidecar, InHand
  <2>3. index \in DOMAIN plan /\ plan \in Plans /\ index \in Indices
    BY <1>0, <1>6, PlansHaveIndices, PlansMayBe DEF WriteSidecar, TypeOK, RunOK
  <2>4. sidecars'[index] = File(plan[index])
    BY <1>6, <2>3 DEF WriteSidecar, TypeOK, FilesOK
  <2>5. chunks'[index].exists /\ chunks'[index].set = rows
    BY <1>6 DEF WriteSidecar, InProgress, File
  <2>6. Held(chunks', sidecars', plan, index + 1) = returned \cup rows
    BY <2>2, <2>3, <2>4, <2>5, OneMoreChunk
  <2> QED
    BY <1>6, <2>6 DEF WriteSidecar
<1>7. ASSUME NEW answer \in Answers, Fetch(answer)
      PROVE  returned' = Held(chunks', sidecars', plan', index')
  BY <1>7 DEF Fetch, AtChunk, InHand, files
<1>8. CASE List \/ UNCHANGED vars
  BY <1>8 DEF List, InHand, vars, files, run
<1> QED
  BY <1>1, <1>2, <1>3, <1>4, <1>5, <1>6, <1>7, <1>8 DEF Next, Preview, Report, Abort

LEMMA ProgressIsPreserved ==
    TypeOK /\ InProgress /\ SidecarsMatch /\ [Next]_vars => InProgress'
<1> SUFFICES ASSUME TypeOK, InProgress, SidecarsMatch, [Next]_vars PROVE InProgress'
  OBVIOUS
<1>1. ASSUME NEW answer \in Answers, Fetch(answer) PROVE InProgress'
  <2>1. index \in Indices
    BY <1>1, PlansHaveIndices, PlansMayBe DEF Fetch, AtChunk, TypeOK, RunOK
  <2> QED
    BY <1>1, <2>1 DEF Fetch, AtChunk, Acceptable, InProgress, SidecarsMatch, files
<1>2. CASE WriteChunk
  <2>1. index \in Indices
    BY <1>2, PlansHaveIndices, PlansMayBe DEF WriteChunk, TypeOK, RunOK
  <2>2. chunks'[index] = File(rows)
    BY <1>2, <2>1 DEF WriteChunk, TypeOK, FilesOK
  <2> QED
    BY <1>2, <2>2 DEF WriteChunk, InProgress, run
<1>3. CASE UNCHANGED vars
  BY <1>3 DEF InProgress, vars, files, run
<1>4. CASE ~WriteChunk /\ ~(\E answer \in Answers : Fetch(answer)) /\ ~(UNCHANGED vars)
  <2>1. pc' \notin {"write", "sidecar"}
    BY <1>4 DEF Next, Begin, List, Preview, Reuse, Reject, FetchFails, AtChunk,
                WriteSidecar, Report, Abort
  <2> QED
    BY <2>1 DEF InProgress
<1> QED
  BY <1>1, <1>2, <1>3, <1>4

LEMMA MatchIsPreserved ==
    TypeOK /\ InProgress /\ SidecarsMatch /\ [Next]_vars => SidecarsMatch'
<1> SUFFICES ASSUME TypeOK, InProgress, SidecarsMatch, [Next]_vars,
                    NEW i \in Indices, sidecars'[i].exists
             PROVE  chunks'[i].exists /\ chunks'[i].set \ {NoId} \subseteq sidecars'[i].set
  BY DEF SidecarsMatch
<1>1. CASE WriteChunk
  <2>1. i # index
    BY <1>1 DEF WriteChunk, InProgress
  <2> QED
    BY <1>1, <2>1 DEF WriteChunk, SidecarsMatch, TypeOK, FilesOK
<1>2. CASE WriteSidecar
  <2>1. CASE i = index
    BY <1>2, <2>1 DEF WriteSidecar, InProgress, File, TypeOK, FilesOK
  <2>2. CASE i # index
    BY <1>2, <2>2 DEF WriteSidecar, SidecarsMatch, TypeOK, FilesOK
  <2> QED
    BY <2>1, <2>2
<1>3. CASE ~WriteChunk /\ ~WriteSidecar
  <2>1. UNCHANGED <<chunks, sidecars>>
    BY <1>3 DEF Next, Begin, List, Preview, Reuse, Reject, Fetch, FetchFails,
                Report, Abort, vars, files
  <2> QED
    BY <2>1 DEF SidecarsMatch
<1> QED
  BY <1>1, <1>2, <1>3

\* A report is what is stored of the plan.
LEMMA ReportIsStored ==
    ASSUME TypeOK, InHand, Report
    PROVE  plan \in Plans /\ returned = Stored(plan)
  BY AllChunks DEF TypeOK, RunOK, InHand, Report

LEMMA ReportsArePreserved == IInv /\ [Next]_vars => ReportIsOnDisk'
<1> SUFFICES ASSUME IInv, [Next]_vars PROVE ReportIsOnDisk'
  OBVIOUS
<1> USE DEF IInv
<1>1. \A p \in MaybePlans : Stored(p) \subseteq Stored(p)'
  BY UsableIsPreserved, StoredGrows
<1>2. CASE Report
  <2>1. plan \in Plans /\ returned = Stored(plan)
    BY <1>2, ReportIsStored
  <2>2. \A p \in Plans : reported'[p] \subseteq Stored(p)'
    BY <1>1, <1>2, <2>1, PlansMayBe DEF Report, ReportIsOnDisk, TypeOK, FilesOK
  <2>3. manifest'.plan = plan /\ manifest'.status = Verdict
    BY <1>2 DEF Report
  <2>4. Stored(plan) = Stored(manifest.plan)'
    BY <1>2, <2>3 DEF Report, Stored, Usable
  <2>5. Verdict = "success" => Wanted(plan) \subseteq Stored(plan)
    BY <2>1 DEF Verdict
  <2>6. Wanted(plan) = Wanted(manifest.plan)'
    BY <2>3 DEF Wanted
  <2> QED
    BY <2>2, <2>3, <2>4, <2>5, <2>6 DEF ReportIsOnDisk
<1>3. CASE ~Report
  <2>1. reported' = reported
    BY <1>3 DEF Next, Begin, List, Preview, Reuse, Reject, Fetch, FetchFails,
                WriteChunk, WriteSidecar, Abort, vars, files
  <2>2. manifest' = manifest \/ manifest'.status = "preview"
    BY <1>3 DEF Next, Begin, List, Preview, Reuse, Reject, Fetch, FetchFails,
                WriteChunk, WriteSidecar, Abort, vars, files
  <2>3. \A p \in Plans : reported'[p] \subseteq Stored(p)'
    BY <1>1, <2>1, PlansMayBe DEF ReportIsOnDisk
  <2>4. ASSUME manifest' = manifest, manifest.status = "success"
        PROVE  Wanted(manifest.plan)' \subseteq Stored(manifest.plan)'
    <3>1. manifest.plan \in MaybePlans
      BY DEF TypeOK, FilesOK, ManifestType
    <3> DEFINE q == manifest.plan
    <3>2. Wanted(q) \subseteq Stored(q) /\ Stored(q) \subseteq UNION {chunks'[i].set : i \in {j \in DOMAIN q : chunks'[j].exists /\ sidecars'[j] = File(q[j])}}
      BY <1>1, <2>4, <3>1 DEF ReportIsOnDisk, Stored, Usable
    <3> QED
      BY <2>4, <3>2 DEF Wanted, Stored, Usable
  <2> QED
    BY <2>2, <2>3, <2>4 DEF ReportIsOnDisk
<1> QED
  BY <1>2, <1>3

-----------------------------------------------------------------------------
LEMMA IInvHoldsInitially == Init => IInv
<1> SUFFICES ASSUME Init PROVE IInv
  OBVIOUS
<1>1. TypeOK
  BY TypesHoldInitially
<1>2. InHand /\ InProgress
  BY DEF Init, InHand, InProgress
<1>3. SidecarsMatch
  BY DEF Init, SidecarsMatch, Absent
<1>4. ReportIsOnDisk
  BY DEF Init, ReportIsOnDisk
<1> QED
  BY <1>1, <1>2, <1>3, <1>4 DEF IInv

LEMMA IInvIsPreserved == IInv /\ [Next]_vars => IInv'
  BY TypesArePreserved, HandIsPreserved, ProgressIsPreserved, MatchIsPreserved,
     ReportsArePreserved DEF IInv

LEMMA EnrichmentInvariant == Spec => []IInv
  BY IInvHoldsInitially, IInvIsPreserved, PTL DEF Spec

\* What the manifest and all earlier reports say is on disk, complete.
THEOREM ReportsAreOnDisk == Spec => []ReportIsOnDisk
<1>1. IInv => ReportIsOnDisk
  BY DEF IInv
<1> QED
  BY <1>1, EnrichmentInvariant, PTL

LEMMA ReportsGrow ==
    IInv /\ [Next]_vars => \A p \in Plans : reported[p] \subseteq reported'[p]
<1> SUFFICES ASSUME IInv, [Next]_vars, NEW p \in Plans
             PROVE  reported[p] \subseteq reported'[p]
  OBVIOUS
<1>1. CASE Report
  <2>1. returned = Stored(plan)
    BY <1>1, ReportIsStored DEF IInv
  <2>2. reported[p] \subseteq Stored(p)
    BY DEF IInv, ReportIsOnDisk
  <2>3. reported'[p] = IF p = plan THEN returned ELSE reported[p]
    BY <1>1 DEF Report, IInv, TypeOK, FilesOK
  <2> QED
    BY <2>1, <2>2, <2>3
<1>2. CASE ~Report
  BY <1>2 DEF Next, Begin, List, Preview, Reuse, Reject, Fetch, FetchFails,
              WriteChunk, WriteSidecar, Abort, vars, files
<1> QED
  BY <1>1, <1>2

\* Resuming a plan never reports less than before.
THEOREM ResumingKeepsProgress == Spec => ResumeKeepsProgress
<1>1. IInv /\ [Next]_vars => [\A p \in Plans : reported[p] \subseteq reported'[p]]_vars
  BY ReportsGrow
<1> QED
  BY <1>1, EnrichmentInvariant, PTL DEF Spec, ResumeKeepsProgress
=============================================================================
