--------------------------- MODULE IngestPipeline ---------------------------
(***************************************************************************)
(* How a collection gets its segments: the routes that create it and add   *)
(* sources (collections/routes.ts), and the `ingest`, `materialize` and    *)
(* `cid-pull` jobs (collections/*-worker.ts).  The job queue contributes   *)
(* what PgBossJobQueue establishes: one active root job at a time, one     *)
(* materialize job per segment ever, handlers started once; a job whose    *)
(* process dies is not run again.  Steps are the stretches between awaits. *)
(***************************************************************************)
EXTENDS CollectionRow

CONSTANTS CasRetries    \* CAS_RETRIES of the materialize worker

ASSUME RetryAssumption == CasRetries \in Nat \ {0}

VARIABLES
  create,       \* POST / or POST /cid of the collection: how far it got
  route,        \* POST /:id/sources for a source: how far it got
  root,         \* the active root job, by the step it is at
  todo, got,    \* ingest: sources still to fetch, sources fetched
  rootAborted,  \* its signal has fired
  pullPrev,     \* cid-pull: the head it read before putLocalHead
  mat,          \* the materialize job of a segment, by the step it is at
  matHead,      \* the head it read
  matTry,       \* attempt
  matAborted    \* segments whose materialize signal has fired

ingestVars == <<create, route, root, todo, got, rootAborted, pullPrev, mat, matHead, matTry, matAborted>>
routeVars == <<create, route>>
rootVars == <<root, todo, got, rootAborted, pullPrev>>
matVars == <<mat, matHead, matTry, matAborted>>

\* "lost": the process died, the jobs row still says running.
Queued == {"queuedIngest", "queuedPull"}
IngestSteps == {"mark", "fetch", "enqueue"}
PullSteps == {"download", "readPrev", "put", "record"}
RootSteps == Queued \cup IngestSteps \cup PullSteps
MatRunning == {"read", "put", "record"}

IngestTypeOK ==
  /\ create \in {"none", "ingest", "mark", "pull", "done", "busy"}
  /\ route \in [Source -> {"none", "checked", "added"}]
  /\ root \in {"idle", "lost"} \cup RootSteps
  /\ todo \subseteq Source /\ got \subseteq Source
  /\ rootAborted \in BOOLEAN
  /\ pullPrev \in Manifest \cup {None}
  /\ mat \in [Segment -> {"none", "queued", "done", "failed", "cancelled", "lost"} \cup MatRunning]
  /\ matHead \in [Segment -> Manifest \cup {None}]
  /\ matTry \in [Segment -> 0..CasRetries]
  /\ matAborted \subseteq Segment

IngestInit ==
  /\ create = "none"
  /\ route = [s \in Source |-> "none"]
  /\ root = "idle" /\ todo = {} /\ got = {} /\ rootAborted = FALSE /\ pullPrev = None
  /\ mat = [g \in Segment |-> "none"]
  /\ matHead = [g \in Segment |-> None]
  /\ matTry = [g \in Segment |-> 0]
  /\ matAborted = {}

-----------------------------------------------------------------------------
(* Routes *)

\* enqueue of a root job: it takes the collection's slot, or answers busy.
EnqueueRoot(r) ==
  root = "idle" /\ root' = r /\ rootAborted' = FALSE /\ UNCHANGED <<todo, got, pullPrev>>
Busy == root # "idle" /\ UNCHANGED rootVars

\* POST / inserts the collection with its sources; POST /cid inserts it empty.
CreateCollection(S) ==
  /\ create = "none"
  /\ create' = IF S = {} THEN "mark" ELSE "ingest"
  /\ status' = "creating"
  /\ sourceStatus' = [s \in Source |-> IF s \in S THEN "pending" ELSE "absent"]
  /\ UNCHANGED <<checkpoint, published, head, blobs, faults, route, rootVars, matVars>>

MarkImporting ==
  /\ create = "mark" /\ create' = "pull"
  /\ SetStatus("importing")
  /\ UNCHANGED <<faults, route, rootVars, matVars>>

CreateEnqueue ==
  /\ \/ create = "ingest" /\ EnqueueRoot("queuedIngest") /\ create' = "done"
     \/ create = "pull" /\ EnqueueRoot("queuedPull") /\ create' = "done"
     \/ create \in {"ingest", "pull"} /\ Busy /\ create' = "busy"
  /\ UNCHANGED <<rowVars, route, matVars>>

\* POST /:id/sources reads the row; "importing" and "creating" pass.
AddSourcesCheck(s) ==
  /\ route[s] = "none" /\ sourceStatus[s] = "absent"
  /\ status \notin {"absent", "ingesting", "promoting"}
  /\ route' = [route EXCEPT ![s] = "checked"]
  /\ UNCHANGED <<rowVars, create, rootVars, matVars>>

AddSource(s) ==
  /\ route[s] = "checked"
  /\ route' = [route EXCEPT ![s] = "added"]
  /\ sourceStatus' = [sourceStatus EXCEPT ![s] = "pending"]
  /\ UNCHANGED <<status, checkpoint, published, head, blobs, faults, create, rootVars, matVars>>

\* A busy answer (409) keeps the source pending.
AddSourcesEnqueue(s) ==
  /\ route[s] = "added"
  /\ route' = [route EXCEPT ![s] = "none"]
  /\ EnqueueRoot("queuedIngest") \/ Busy
  /\ UNCHANGED <<rowVars, create, matVars>>

\* DELETE /api/jobs/:id : a queued job is gone, a running one is told.
CancelRoot ==
  /\ root \in RootSteps /\ ~rootAborted
  /\ IF root \in Queued
     THEN root' = "idle" /\ UNCHANGED rootAborted
     ELSE rootAborted' = TRUE /\ UNCHANGED root
  /\ UNCHANGED <<rowVars, routeVars, todo, got, pullPrev, matVars>>

CancelMat(g) ==
  /\ mat[g] \in {"queued"} \cup MatRunning /\ g \notin matAborted
  /\ IF mat[g] = "queued"
     THEN mat' = [mat EXCEPT ![g] = "cancelled"] /\ UNCHANGED matAborted
     ELSE matAborted' = matAborted \cup {g} /\ UNCHANGED mat
  /\ UNCHANGED <<rowVars, routeVars, rootVars, matHead, matTry>>

-----------------------------------------------------------------------------
(* ingest *)

\* The job ends and gives back the slot; the handler's locals are gone.
RootEnds == root' = "idle" /\ todo' = {} /\ got' = {} /\ pullPrev' = None /\ UNCHANGED rootAborted

\* The handler reads the sources: those pending or failed, else all of them.
IngestRead ==
  /\ root = "queuedIngest"
  /\ LET present == {s \in Source : sourceStatus[s] # "absent"}
         pending == {s \in present : sourceStatus[s] \in {"pending", "failed"}}
     IN todo' = IF pending # {} THEN pending ELSE present
  /\ root' = "mark"
  /\ UNCHANGED <<rowVars, routeVars, got, rootAborted, pullPrev, matVars>>

IngestMark ==
  /\ root = "mark"
  /\ SetStatus("ingesting")
  /\ root' = "fetch"
  /\ UNCHANGED <<faults, routeVars, todo, got, rootAborted, pullPrev, matVars>>

\* One turn of the loop: a source whose fetch throws, also because the signal
\* fired, is failed and the loop goes on.
FetchSource(s) ==
  /\ root = "fetch" /\ s \in todo /\ ~rootAborted
  /\ todo' = todo \ {s}
  /\ \/ /\ got' = got \cup {s}
        /\ sourceStatus' = [sourceStatus EXCEPT ![s] = "complete"]
     \/ /\ UNCHANGED got
        /\ sourceStatus' = [sourceStatus EXCEPT ![s] = "failed"]
  /\ UNCHANGED <<status, checkpoint, published, head, blobs, faults,
                 routeVars, root, rootAborted, pullPrev, matVars>>

NothingFetched ==
  /\ root = "fetch" /\ todo = {} /\ got = {}
  /\ SetStatus("ingestion_failed")
  /\ RootEnds
  /\ UNCHANGED <<faults, routeVars, matVars>>

\* Mutant: the segment is handed over before it is uploaded.
BuildUnsaved ==
  /\ root = "fetch" /\ todo = {} /\ got # {} /\ ~rootAborted
  /\ root' = "enqueue"
  /\ UNCHANGED <<rowVars, routeVars, todo, got, rootAborted, pullPrev, matVars>>

\* buildSegmentArtifact uploads the segment; the signal is read before that.
BuildSegment ==
  /\ root = "fetch" /\ todo = {} /\ got # {} /\ ~rootAborted
  /\ blobs' = blobs \cup {SegmentOf[got]}
  /\ root' = "enqueue"
  /\ UNCHANGED <<status, checkpoint, published, sourceStatus, head, faults,
                 routeVars, todo, got, rootAborted, pullPrev, matVars>>

\* Mutant: the row is ready as soon as the child is enqueued.
EnqueueReady ==
  /\ root = "enqueue"
  /\ mat' = [mat EXCEPT ![SegmentOf[got]] = IF @ = "none" THEN "queued" ELSE @]
  /\ SetStatus("ready")
  /\ RootEnds
  /\ UNCHANGED <<faults, routeVars, matHead, matTry, matAborted>>

\* The child's idempotency key names the segment: a second one is the first.
EnqueueMaterialize ==
  /\ root = "enqueue"
  /\ mat' = [mat EXCEPT ![SegmentOf[got]] = IF @ = "none" THEN "queued" ELSE @]
  /\ RootEnds
  /\ UNCHANGED <<rowVars, routeVars, matHead, matTry, matAborted>>

\* Mutant: the signal is read in the loop only.
AbortedInLoop ==
  /\ root = "fetch" /\ rootAborted
  /\ todo # {}
  /\ RootEnds
  /\ UNCHANGED <<rowVars, routeVars, matVars>>

\* throwIfAborted: the row keeps its status.
IngestAborted ==
  /\ root = "fetch" /\ rootAborted
  /\ todo # {} \/ got # {}
  /\ RootEnds
  /\ UNCHANGED <<rowVars, routeVars, matVars>>

\* A call of the handler throws; with the signal fired it only rethrows, and
\* the row is updated at best effort.
IngestFails ==
  /\ root \in IngestSteps
  /\ Fault
  /\ IF rootAborted THEN SetStatus(status) ELSE TrySetStatus("ingestion_failed")
  /\ RootEnds
  /\ UNCHANGED <<routeVars, matVars>>

-----------------------------------------------------------------------------
(* materialize *)

MatAt(g, step) == mat' = [mat EXCEPT ![g] = step]

\* The job ends; the handler's locals and its controller are gone.
MatEnds(g, how) ==
  /\ MatAt(g, how)
  /\ matHead' = [matHead EXCEPT ![g] = None]
  /\ matTry' = [matTry EXCEPT ![g] = 0]
  /\ matAborted' = matAborted \ {g}

MatStart(g) ==
  /\ mat[g] = "queued"
  /\ MatAt(g, "read")
  /\ matTry' = [matTry EXCEPT ![g] = 1]
  /\ UNCHANGED <<rowVars, routeVars, rootVars, matHead, matAborted>>

MatAborts(g) ==
  /\ mat[g] = "read" /\ g \in matAborted
  /\ MatEnds(g, "cancelled")
  /\ UNCHANGED <<rowVars, routeVars, rootVars>>

\* getHead, null also when it fails; a segment already there is only recorded.
MatRead(g) ==
  /\ mat[g] = "read" /\ g \notin matAborted
  /\ \E h \in {head, None} :
       /\ IF h = head THEN UNCHANGED faults ELSE Fault
       /\ matHead' = [matHead EXCEPT ![g] = h]
       /\ MatAt(g, IF g \in SegmentsOf(h) THEN "record" ELSE "put")
  /\ SetStatus(status)
  /\ UNCHANGED <<routeVars, rootVars, matTry, matAborted>>

Append(m, g) ==
  IF m = None THEN [segs |-> {g}, batch |-> {}] ELSE [m EXCEPT !.segs = @ \cup {g}]

\* Mutant: putHead does not compare.
MatOverwrite(g) ==
  /\ mat[g] = "put"
  /\ head' = Append(matHead[g], g)
  /\ MatAt(g, "record")
  /\ UNCHANGED <<status, checkpoint, published, sourceStatus, blobs, faults,
                 routeVars, rootVars, matHead, matTry, matAborted>>

MatPut(g) ==
  /\ mat[g] = "put" /\ matHead[g] = head
  /\ head' = Append(head, g)
  /\ MatAt(g, "record")
  /\ UNCHANGED <<status, checkpoint, published, sourceStatus, blobs, faults,
                 routeVars, rootVars, matHead, matTry, matAborted>>

\* putHead throws: on a conflict, or for another reason.
PutThrows(g) == mat[g] = "put" /\ IF matHead[g] # head THEN UNCHANGED faults ELSE Fault

\* Mutant: one attempt too many.
MatRetryOnce(g) ==
  /\ PutThrows(g) /\ matTry[g] <= CasRetries
  /\ MatAt(g, "read")
  /\ matTry' = [matTry EXCEPT ![g] = @ + 1]
  /\ SetStatus(status)
  /\ UNCHANGED <<routeVars, rootVars, matHead, matAborted>>

MatRetry(g) ==
  /\ PutThrows(g) /\ matTry[g] < CasRetries
  /\ MatAt(g, "read")
  /\ matTry' = [matTry EXCEPT ![g] = @ + 1]
  /\ SetStatus(status)
  /\ UNCHANGED <<routeVars, rootVars, matHead, matAborted>>

\* Mutant: the row is not updated.
MatSilent(g) ==
  /\ mat[g] = "record"
  /\ SetStatus(status)
  /\ MatEnds(g, "done")
  /\ UNCHANGED <<faults, routeVars, rootVars>>

MatRecord(g) ==
  /\ mat[g] = "record"
  /\ SetStatus("ready")
  /\ MatEnds(g, "done")
  /\ UNCHANGED <<faults, routeVars, rootVars>>

\* The last attempt failed, or the row could not be updated.
MatFails(g) ==
  /\ \/ PutThrows(g) /\ matTry[g] = CasRetries
     \/ mat[g] = "record" /\ Fault
  /\ IF g \in matAborted
     THEN MatEnds(g, "cancelled") /\ SetStatus(status)
     ELSE MatEnds(g, "failed") /\ TrySetStatus("ingestion_failed")
  /\ UNCHANGED <<routeVars, rootVars>>

-----------------------------------------------------------------------------
(* cid-pull *)

PullStep(from, to) ==
  /\ root = from /\ root' = to
  /\ UNCHANGED <<routeVars, todo, got, rootAborted, matVars>>

PullResolve == PullStep("queuedPull", "download") /\ UNCHANGED <<rowVars, pullPrev>>
PullDownload ==
  /\ PullStep("download", "readPrev") /\ ~rootAborted
  /\ blobs' = blobs \cup {Remote}
  /\ UNCHANGED <<status, checkpoint, published, sourceStatus, head, faults, pullPrev>>
PullReadPrev ==
  /\ PullStep("readPrev", "put") /\ ~rootAborted
  /\ \/ pullPrev' = head /\ UNCHANGED faults
     \/ pullPrev' = None /\ Fault
  /\ SetStatus(status)
PullPut ==
  /\ PullStep("put", "record") /\ pullPrev = head
  /\ head' = [segs |-> {Remote}, batch |-> {Remote}]
  /\ UNCHANGED <<status, checkpoint, published, sourceStatus, blobs, faults, pullPrev>>
PullRecord ==
  /\ root = "record" /\ RootEnds
  /\ status' = "ready"
  /\ published' = [segs |-> {Remote}, batch |-> {Remote}]
  /\ UNCHANGED <<checkpoint, sourceStatus, head, blobs, faults, routeVars, matVars>>

\* throwIfAborted, a conflict, or a call that throws.
PullFails ==
  /\ \/ root \in {"download", "readPrev"} /\ rootAborted /\ UNCHANGED faults
     \/ root = "put" /\ pullPrev # head /\ UNCHANGED faults
     \/ root \in PullSteps /\ Fault
  /\ TrySetStatus("import_failed")
  /\ RootEnds
  /\ UNCHANGED <<routeVars, matVars>>

-----------------------------------------------------------------------------
\* The process dies: requests and running handlers are gone, their rows stay.
IngestCrash ==
  /\ create' = IF create = "none" THEN "none" ELSE "done"
  /\ route' = [s \in Source |-> "none"]
  /\ root' = IF root \in RootSteps \ Queued THEN "lost" ELSE root
  /\ mat' = [g \in Segment |-> IF mat[g] \in MatRunning THEN "lost" ELSE mat[g]]
  /\ todo' = {} /\ got' = {} /\ pullPrev' = None
  /\ matHead' = [g \in Segment |-> None]
  /\ matTry' = [g \in Segment |-> 0]
  /\ matAborted' = {}
  /\ UNCHANGED rootAborted

RootJob ==
  \/ IngestRead \/ IngestMark \/ NothingFetched \/ BuildSegment \/ EnqueueMaterialize
  \/ IngestAborted \/ (\E s \in Source : FetchSource(s))
  \/ PullResolve \/ PullDownload \/ PullReadPrev \/ PullPut \/ PullRecord
  \/ IngestFails \/ PullFails
MatJob(g) ==
  MatStart(g) \/ MatAborts(g) \/ MatRead(g) \/ MatPut(g) \/ MatRetry(g)
    \/ MatRecord(g) \/ MatFails(g)

IngestNext ==
  \/ \E S \in SUBSET Source : CreateCollection(S)
  \/ MarkImporting \/ CreateEnqueue \/ CancelRoot \/ RootJob
  \/ \E s \in Source : AddSourcesCheck(s) \/ AddSource(s) \/ AddSourcesEnqueue(s)
  \/ \E g \in Segment : MatJob(g) \/ CancelMat(g)
=============================================================================
