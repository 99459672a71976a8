------------------------- MODULE StructureEnrichment -------------------------
(***************************************************************************)
(* run_structure_enrichment: a resumable acquisition.  The ids of a plan   *)
(* are asked of the service chunk by chunk; each chunk goes to a file and  *)
(* then to a manifest beside it, and a later run takes a chunk from disk   *)
(* when its manifest was written for the same ids.  A run may die at any   *)
(* point, a service call may raise, and its answer may be incomplete,      *)
(* carry ids nobody asked for or carry an id twice.                        *)
(*                                                                         *)
(* A file is replaced by one rename, from a temporary name no reader looks *)
(* at: a write is one step.  A document keeps its id only, and a plan is   *)
(* the sequence of its chunks.  Nothing locks the output files: runs over  *)
(* the same files are taken one after the other here.                      *)
(***************************************************************************)
EXTENDS Naturals, Sequences

CONSTANTS
    Ids,         \* material ids of the existing data set
    NoId,        \* a document without an id
    Foreign,     \* an id nobody asked for
    Plans,       \* sequences of sets of ids, the slices of sorted ids
    Answers      \* of the service: [docs, duplicated]

Documents == Ids \cup {NoId}

ASSUME EnrichmentAssumption ==
    /\ Foreign # NoId /\ {NoId, Foreign} \cap Ids = {}
    /\ Plans \subseteq Seq(SUBSET Ids)
    /\ Answers \subseteq [docs : SUBSET (Documents \cup {Foreign}), duplicated : BOOLEAN]

VARIABLES
    query,     \* query_plan.json: its plan
    listed,    \* material_ids_manifest.json: the plan whose ids it counts
    chunks,    \* structure_chunk_<i>.jsonl: its documents
    sidecars,  \* structure_chunk_<i>.manifest.json: the ids it was requested for
    manifest,  \* acquisition_manifest.json: [status, plan]
    reported,  \* for each plan, what the last report on it said was returned
    pc, plan, execute,
    index,     \* the chunk the run is at
    rows,      \* an answer that is not on disk yet
    returned,  \* documents in hand
    failed     \* some chunk is among the errors

files == <<query, listed, chunks, sidecars, manifest, reported>>
run == <<plan, execute, index, rows, returned, failed>>
vars == <<files, run, pc>>

\* The contents of a file: a set, and whether the file exists.
Absent == [exists |-> FALSE, set |-> {}]
File(set) == [exists |-> TRUE, set |-> set]

\* _chunks: sorted ids in slices of the given size.
Slices(ids, size) ==
    [i \in 1 .. (Len(ids) + size - 1) \div size |->
        {ids[j] : j \in {k \in DOMAIN ids : (i - 1) * size < k /\ k <= i * size}}]

Wanted(p) == UNION {p[i] : i \in DOMAIN p}
Indices == UNION {DOMAIN p : p \in Plans}

Init ==
    /\ query = <<>> /\ listed = <<>>
    /\ chunks = [i \in Indices |-> Absent]
    /\ sidecars = [i \in Indices |-> Absent]
    /\ manifest = [status |-> "none", plan |-> <<>>]
    /\ reported = [p \in Plans |-> {}]
    /\ pc = "idle" /\ plan = <<>> /\ execute = FALSE
    /\ index = 1 /\ rows = {} /\ returned = {} /\ failed = FALSE

-----------------------------------------------------------------------------
\* The plan is written to disk before anything else is done.
Begin(p, executes) ==
    /\ pc = "idle"
    /\ query' = p
    /\ pc' = "list"
    /\ plan' = p /\ execute' = executes
    /\ index' = 1 /\ rows' = {} /\ returned' = {} /\ failed' = FALSE
    /\ UNCHANGED <<listed, chunks, sidecars, manifest, reported>>

List ==
    /\ pc = "list"
    /\ listed' = plan
    /\ pc' = IF execute THEN "chunk" ELSE "preview"
    /\ UNCHANGED <<query, chunks, sidecars, manifest, reported, run>>

\* A preview replaces the manifest of whatever ran before it.
Preview ==
    /\ pc = "preview"
    /\ manifest' = [status |-> "preview", plan |-> plan]
    /\ pc' = "idle"
    /\ UNCHANGED <<query, listed, chunks, sidecars, reported, run>>

\* The loop over the chunks is at one of them.
AtChunk == pc = "chunk" /\ index \in DOMAIN plan

\* Mutant of Reusable: a chunk needs no manifest.
ReusableTorn(i) ==
    /\ sidecars[i] \in {Absent, File(plan[i])}
    /\ chunks[i].set \ {NoId} \subseteq plan[i]

\* Why a chunk that is on disk is taken for the ids of this plan.
Reusable(i) ==
    /\ sidecars[i] = File(plan[i])
    /\ chunks[i].set \ {NoId} \subseteq plan[i]

Reuse ==
    /\ AtChunk /\ chunks[index].exists /\ Reusable(index)
    /\ returned' = returned \cup chunks[index].set
    /\ index' = index + 1
    /\ UNCHANGED <<files, pc, plan, execute, rows, failed>>

\* A chunk without a manifest, or of other ids, is an error and is not
\* asked for again.
Reject ==
    /\ AtChunk /\ chunks[index].exists /\ ~Reusable(index)
    /\ failed' = TRUE
    /\ index' = index + 1
    /\ UNCHANGED <<files, pc, plan, execute, rows, returned>>

\* Mutant of Acceptable: the ids of an answer are not compared.
AcceptableUnseen(answer, ids) == ~answer.duplicated

\* An answer may lack ids: then they are missing, and stay so.
Acceptable(answer, ids) == answer.docs \ {NoId} \subseteq ids /\ ~answer.duplicated

\* Mutant of Fetch: a chunk on disk is asked for again.
FetchAgain(answer) ==
    /\ AtChunk
    /\ Acceptable(answer, plan[index])
    /\ rows' = answer.docs
    /\ pc' = "write"
    /\ UNCHANGED <<files, plan, execute, index, returned, failed>>

Fetch(answer) ==
    /\ AtChunk /\ ~chunks[index].exists
    /\ Acceptable(answer, plan[index])
    /\ rows' = answer.docs
    /\ pc' = "write"
    /\ UNCHANGED <<files, plan, execute, index, returned, failed>>

\* The call raises, or its answer is refused.
FetchFails ==
    /\ AtChunk /\ ~chunks[index].exists
    /\ failed' = TRUE
    /\ index' = index + 1
    /\ UNCHANGED <<files, pc, plan, execute, rows, returned>>

WriteChunk ==
    /\ pc = "write"
    /\ chunks' = [chunks EXCEPT ![index] = File(rows)]
    /\ pc' = "sidecar"
    /\ UNCHANGED <<query, listed, sidecars, manifest, reported, run>>

WriteSidecar ==
    /\ pc = "sidecar"
    /\ sidecars' = [sidecars EXCEPT ![index] = File(plan[index])]
    /\ returned' = returned \cup rows
    /\ rows' = {}
    /\ index' = index + 1
    /\ pc' = "chunk"
    /\ UNCHANGED <<query, listed, chunks, manifest, reported, plan, execute, failed>>

Verdict ==
    IF ~failed /\ Wanted(plan) \subseteq returned THEN "success"
    ELSE IF returned # {} THEN "partial_success" ELSE "failed"

Report ==
    /\ pc = "chunk" /\ index \notin DOMAIN plan
    /\ manifest' = [status |-> Verdict, plan |-> plan]
    /\ reported' = [reported EXCEPT ![plan] = returned]
    /\ pc' = "idle"
    /\ UNCHANGED <<query, listed, chunks, sidecars, run>>

\* The run dies, or opening the client, reading or writing a file raises.
Abort ==
    /\ pc # "idle"
    /\ pc' = "idle"
    /\ UNCHANGED <<files, run>>

Next ==
    \/ \E p \in Plans, executes \in BOOLEAN : Begin(p, executes)
    \/ List \/ Preview \/ Reuse \/ Reject
    \/ \E answer \in Answers : Fetch(answer)
    \/ FetchFails \/ WriteChunk \/ WriteSidecar \/ Report \/ Abort

Spec == Init /\ [][Next]_vars

-----------------------------------------------------------------------------
(***************************************************************************)
(* Properties.                                                             *)
(***************************************************************************)
Statuses == {"none", "preview", "success", "partial_success", "failed"}
FileOf(sets) == [exists : BOOLEAN, set : sets]

MaybePlans == Plans \cup {<<>>}
ManifestType == [status : Statuses, plan : MaybePlans]

FilesOK ==
    /\ query \in MaybePlans /\ listed \in MaybePlans
    /\ chunks \in [Indices -> FileOf(SUBSET Documents)]
    /\ sidecars \in [Indices -> FileOf(SUBSET Ids)]
    /\ manifest \in ManifestType
    /\ reported \in [Plans -> SUBSET Documents]

RunOK ==
    /\ pc \in {"idle", "list", "preview", "chunk", "write", "sidecar"}
    /\ plan \in MaybePlans /\ execute \in BOOLEAN
    /\ pc # "idle" => plan \in Plans
    /\ index \in Nat \ {0} /\ failed \in BOOLEAN
    /\ pc \in {"write", "sidecar"} => index \in DOMAIN plan
    /\ rows \subseteq Documents /\ returned \subseteq Documents

\* Nothing but documents of the existing data set reaches a chunk, the
\* documents in hand or a report, whatever the service answers.
TypeOK == FilesOK /\ RunOK

\* The documents of chunks that were asked for as this plan asks for them, and
\* completed.
Usable(p, i) == chunks[i].exists /\ sidecars[i] = File(p[i])
Stored(p) == UNION {chunks[i].set : i \in {j \in DOMAIN p : Usable(p, j)}}

\* What any report ever said of a plan is on disk, in chunks of that plan and
\* with their manifests, after whatever runs of other plans, previews and
\* deaths came later; and a manifest that says success is about a plan whose
\* ids are all on disk.
ReportIsOnDisk ==
    /\ \A p \in Plans : reported[p] \subseteq Stored(p)
    /\ manifest.status = "success" => Wanted(manifest.plan) \subseteq Stored(manifest.plan)

\* A run that resumes a plan reports at least the documents any earlier run
\* of the plan reported, however the service answers this time.
ResumeKeepsProgress ==
    [][\A p \in Plans : reported[p] \subseteq reported'[p]]_vars
=============================================================================
