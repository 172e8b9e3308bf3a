------------------------ MODULE CollectionServiceProofs ------------------------
(* The write side of a collection keeps its row and its disk together, for   *)
(* any number of sources, segments, promotions and faults.                   *)
EXTENDS CollectionService, TLAPS

\* An ingest hands over the segment of at least one source.
HandedOver == root = "enqueue" => got # {}

TypeInv == TypeOK /\ HandedOver

-----------------------------------------------------------------------------
(* Types, one lemma per group of actions *)

LEMMA FaultType == ASSUME RowTypeOK, Fault PROVE faults' \in 0..MaxFaults
BY RowAssumption DEF Fault, RowTypeOK

\* What an enqueue of a root job leaves in the slot.
LEMMA EnqueueTypes ==
  ASSUME TypeInv, NEW r \in Queued, EnqueueRoot(r) \/ Busy
  PROVE  /\ root' \in {"idle", "lost"} \cup RootSteps
         /\ todo' = todo /\ got' = got /\ pullPrev' = pullPrev
         /\ rootAborted' \in BOOLEAN
         /\ HandedOver'
BY DEF TypeInv, TypeOK, IngestTypeOK, HandedOver, EnqueueRoot, Busy, rootVars, RootSteps, Queued

LEMMA RouteTypes ==
  ASSUME TypeInv, UNCHANGED promoVars,
         \/ \E S \in SUBSET Source : CreateCollection(S)
         \/ MarkImporting \/ CreateEnqueue \/ CancelRoot
         \/ \E s \in Source : AddSourcesCheck(s) \/ AddSource(s) \/ AddSourcesEnqueue(s)
         \/ \E g \in Segment : CancelMat(g)
  PROVE  TypeInv'
<1> USE DEF TypeInv, TypeOK, RowTypeOK, IngestTypeOK, PromoTypeOK, HandedOver, promoVars,
        rowVars, routeVars, rootVars, matVars, CollectionStatus, SetStatus
<1>1. ASSUME NEW S \in SUBSET Source, CreateCollection(S) PROVE TypeInv'
  BY <1>1 DEF CreateCollection
<1>2. CASE MarkImporting
  BY <1>2 DEF MarkImporting
<1>3. CASE CreateEnqueue
  <2>1. \E r \in Queued : EnqueueRoot(r) \/ Busy
    BY <1>3 DEF CreateEnqueue, Queued
  <2>2. create' \in {"done", "busy"}
    BY <1>3 DEF CreateEnqueue
  <2> QED BY <1>3, <2>1, <2>2, EnqueueTypes DEF CreateEnqueue
<1>4. CASE CancelRoot
  <2>1. root' \in {"idle", root} /\ rootAborted' \in BOOLEAN
    BY <1>4 DEF CancelRoot
  <2> QED BY <1>4, <2>1 DEF CancelRoot
<1>5. ASSUME NEW s \in Source, AddSourcesCheck(s) \/ AddSource(s) PROVE TypeInv'
  BY <1>5 DEF AddSourcesCheck, AddSource
<1>6. ASSUME NEW s \in Source, AddSourcesEnqueue(s) PROVE TypeInv'
  <2>1. \E r \in Queued : EnqueueRoot(r) \/ Busy
    BY <1>6 DEF AddSourcesEnqueue, Queued
  <2> QED BY <1>6, <2>1, EnqueueTypes DEF AddSourcesEnqueue
<1>7. ASSUME NEW g \in Segment, CancelMat(g) PROVE TypeInv'
  BY <1>7 DEF CancelMat
<1> QED BY <1>1, <1>2, <1>3, <1>4, <1>5, <1>6, <1>7

LEMMA RootTypes == ASSUME TypeInv, UNCHANGED promoVars, RootJob PROVE TypeInv'
<1> USE DEF TypeInv, TypeOK, RowTypeOK, IngestTypeOK, PromoTypeOK, HandedOver, promoVars,
        rowVars, routeVars, rootVars, matVars, CollectionStatus, SetStatus, RootEnds
<1>1. CASE IngestRead
  BY <1>1 DEF IngestRead, RootSteps, IngestSteps
<1>2. CASE IngestMark \/ NothingFetched \/ IngestAborted
  BY <1>2 DEF IngestMark, NothingFetched, IngestAborted, RootSteps, IngestSteps
<1>3. ASSUME NEW s \in Source, FetchSource(s) PROVE TypeInv'
  BY <1>3 DEF FetchSource
<1>4. CASE BuildSegment
  BY <1>4, RowAssumption DEF BuildSegment, RootSteps, IngestSteps
<1>5. CASE EnqueueMaterialize
  BY <1>5, RowAssumption DEF EnqueueMaterialize
<1>6. CASE IngestFails
  BY <1>6, FaultType DEF IngestFails, TrySetStatus
<1>7. CASE PullFails
  BY <1>7, FaultType DEF PullFails, TrySetStatus
<1>8. CASE PullResolve \/ PullDownload \/ PullReadPrev
  BY <1>8, RowAssumption, FaultType
     DEF PullResolve, PullDownload, PullReadPrev, PullStep, RootSteps, PullSteps
<1>9. CASE PullPut \/ PullRecord
  BY <1>9, RowAssumption DEF PullPut, PullRecord, PullStep, RootSteps, PullSteps, Manifest
<1> QED
  BY <1>1, <1>2, <1>3, <1>4, <1>5, <1>6, <1>7, <1>8, <1>9 DEF RootJob

LEMMA AppendType ==
  ASSUME NEW m \in Manifest \cup {None}, NEW g \in Segment
  PROVE  Append(m, g) \in Manifest
BY DEF Append, Manifest

\* The read head decides where a materialize job goes on.
LEMMA MatReads ==
  ASSUME NEW g \in Segment, MatRead(g)
  PROVE  \E h \in {head, None}, to \in {"record", "put"} :
           /\ h # head => Fault
           /\ to = "record" => g \in SegmentsOf(h)
           /\ matHead' = [matHead EXCEPT ![g] = h]
           /\ mat' = [mat EXCEPT ![g] = to]
<1>1. PICK h \in {head, None} :
        /\ IF h = head THEN UNCHANGED faults ELSE Fault
        /\ matHead' = [matHead EXCEPT ![g] = h]
        /\ MatAt(g, IF g \in SegmentsOf(h) THEN "record" ELSE "put")
  BY DEF MatRead
<1>2. CASE g \in SegmentsOf(h)
  BY <1>1, <1>2 DEF MatAt
<1>3. CASE g \notin SegmentsOf(h)
  BY <1>1, <1>3 DEF MatAt
<1> QED BY <1>2, <1>3

LEMMA MatTypes ==
  ASSUME TypeInv, UNCHANGED promoVars, NEW g \in Segment, MatJob(g)
  PROVE  TypeInv'
<1> USE DEF TypeInv, TypeOK, RowTypeOK, IngestTypeOK, PromoTypeOK, HandedOver, promoVars,
        rowVars, routeVars, rootVars, matVars, CollectionStatus, SetStatus, MatAt, MatEnds, MatRunning
<1>0. 0 \in 0..CasRetries /\ 1 \in 0..CasRetries
  BY RetryAssumption
<1>1. CASE MatStart(g)
  BY <1>0, <1>1 DEF MatStart
<1>2. CASE MatAborts(g)
  BY <1>0, <1>2 DEF MatAborts
<1>3. CASE MatRead(g)
  <2>1. faults' \in 0..MaxFaults
    BY <1>3, FaultType DEF MatRead
  <2>2. \E h \in {head, None} : matHead' = [matHead EXCEPT ![g] = h]
    BY <1>3, MatReads
  <2>3. \E to \in {"record", "put"} : mat' = [mat EXCEPT ![g] = to]
    BY <1>3, MatReads
  <2> QED BY <1>3, <2>1, <2>2, <2>3 DEF MatRead
<1>4. CASE MatPut(g)
  <2>1. head' \in Manifest
    BY <1>4, AppendType DEF MatPut
  <2> QED BY <1>4, <2>1 DEF MatPut
<1>5. CASE MatRetry(g)
  <2>1. faults' \in 0..MaxFaults
    BY <1>5, FaultType DEF MatRetry, PutThrows
  <2>2. matTry[g] + 1 \in 0..CasRetries
    BY <1>5, RetryAssumption DEF MatRetry
  <2> QED BY <1>5, <2>1, <2>2 DEF MatRetry
<1>6. CASE MatRecord(g)
  BY <1>0, <1>6 DEF MatRecord
<1>7. CASE MatFails(g)
  <2>1. faults' \in 0..MaxFaults
    BY <1>7, FaultType DEF MatFails, PutThrows
  <2>2. \E how \in {"cancelled", "failed"} : MatEnds(g, how)
    BY <1>7 DEF MatFails
  <2>3. \E s \in {status, "ingestion_failed"} : SetStatus(s)
    BY <1>7 DEF MatFails, TrySetStatus
  <2> QED BY <1>0, <1>7, <2>1, <2>2, <2>3 DEF MatFails
<1> QED BY <1>1, <1>2, <1>3, <1>4, <1>5, <1>6, <1>7 DEF MatJob

LEMMA PromoTypes ==
  ASSUME TypeInv, UNCHANGED ingestVars, PromoNext
  PROVE  TypeInv'
<1> USE DEF TypeInv, TypeOK, RowTypeOK, IngestTypeOK, PromoTypeOK, HandedOver, ingestVars,
        rowVars, routeVars, rootVars, matVars, CollectionStatus, SetStatus, At, Ends, Steps
<1>1. CASE Revoke
  BY <1>1 DEF Revoke
<1>2. SUFFICES ASSUME NEW p \in Promo, PromoteCheck(p) \/ PromoJob(p) PROVE TypeInv'
  BY <1>1 DEF PromoNext
<1>3. CASE PromoteCheck(p) \/ Begin(p) \/ ReadRow(p) \/ MarkPromoting(p)
  BY <1>3 DEF PromoteCheck, Begin, ReadRow, MarkPromoting
<1>4. CASE ReadHead(p) \/ Resume(p) \/ PutEnriched(p)
  BY <1>4 DEF ReadHead, Resume, PutEnriched
<1>5. CASE Upload(p)
  BY <1>5 DEF Upload, Manifest
<1>6. CASE SaveCheckpoint(p)
  BY <1>6 DEF SaveCheckpoint
<1>7. CASE AlreadyPromoted(p) \/ MarkPromoted(p)
  BY <1>7 DEF AlreadyPromoted, MarkPromoted
<1>8. CASE PromotionFails(p)
  <2>1. faults' \in 0..MaxFaults
    BY <1>8, FaultType DEF PromotionFails
  <2>2. \E s \in {status, "promotion_failed"} : SetStatus(s)
    BY <1>8 DEF PromotionFails, TrySetStatus
  <2> QED BY <1>8, <2>1, <2>2 DEF PromotionFails
<1> QED BY <1>2, <1>3, <1>4, <1>5, <1>6, <1>7, <1>8 DEF PromoJob

LEMMA CrashTypes == ASSUME TypeInv, Crash PROVE TypeInv'
<1> USE DEF TypeInv, TypeOK, RowTypeOK, IngestTypeOK, PromoTypeOK, HandedOver
<1>1. 0 \in 0..CasRetries
  BY RetryAssumption
<1>2. RowTypeOK'
  BY FaultType DEF Crash
<1>3. IngestTypeOK' /\ HandedOver'
  BY <1>1 DEF Crash, IngestCrash, RootSteps, Queued, IngestSteps, PullSteps, MatRunning
<1>4. PromoTypeOK'
  BY DEF Crash, PromoCrash
<1> QED BY <1>2, <1>3, <1>4

LEMMA InitTypes == Init => TypeInv
<1> USE DEF Init, RowInit, IngestInit, PromoInit
<1>1. Init => RowTypeOK
  BY RowAssumption DEF RowTypeOK
<1>2. Init => IngestTypeOK /\ HandedOver
  <2> SUFFICES ASSUME Init PROVE IngestTypeOK /\ HandedOver
    OBVIOUS
  <2>1. matTry \in [Segment -> 0..CasRetries]
    BY RetryAssumption
  <2>2. mat \in [Segment -> {"none", "queued", "done", "failed", "cancelled", "lost"} \cup MatRunning]
    OBVIOUS
  <2>3. matHead \in [Segment -> Manifest \cup {None}] /\ pullPrev \in Manifest \cup {None}
    OBVIOUS
  <2> QED BY <2>1, <2>2, <2>3 DEF IngestTypeOK, HandedOver
<1>3. Init => PromoTypeOK
  BY DEF PromoTypeOK
<1> QED BY <1>1, <1>2, <1>3 DEF TypeInv, TypeOK

LEMMA StepTypes == TypeInv /\ [Next]_vars => TypeInv'
<1> SUFFICES ASSUME TypeInv, [Next]_vars PROVE TypeInv'
  OBVIOUS
<1>1. CASE IngestNext /\ UNCHANGED promoVars
  BY <1>1, RouteTypes, RootTypes, MatTypes DEF IngestNext
<1>2. CASE UNCHANGED vars
  BY <1>2 DEF vars, TypeInv, TypeOK, RowTypeOK, IngestTypeOK, PromoTypeOK, HandedOver,
              rowVars, ingestVars, promoVars
<1> QED BY <1>1, <1>2, PromoTypes, CrashTypes DEF Next

\* The row, the routes, the root job, the materialize jobs and the promotions
\* keep their types, and the ingest worker only hands over a segment that
\* SegmentOf is defined for.
THEOREM CollectionTypes == Spec => []TypeOK
<1>1. TypeInv => TypeOK
  BY DEF TypeInv
<1> QED BY <1>1, InitTypes, StepTypes, PTL DEF Spec

-----------------------------------------------------------------------------
(* What a step can do to the row and the disk *)

\* No manifest is mistaken for none.
LEMMA ManifestSegments ==
  /\ \A m \in Manifest : SegmentsOf(m) = m.segs /\ m # None
  /\ SegmentsOf(None) = {}
  /\ \A g \in Segment : \A m \in Manifest \cup {None} :
       SegmentsOf(Append(m, g)) = SegmentsOf(m) \cup {g}
<1>1. \A m \in Manifest : SegmentsOf(m) = m.segs /\ m # None
  BY RowAssumption DEF SegmentsOf
<1>2. SegmentsOf(None) = {}
  BY DEF SegmentsOf
<1>3. ASSUME NEW g \in Segment, NEW m \in Manifest \cup {None}
      PROVE  SegmentsOf(Append(m, g)) = SegmentsOf(m) \cup {g}
  <2>1. SegmentsOf(Append(m, g)) = Append(m, g).segs
    BY <1>1, AppendType
  <2>2. CASE m = None
    BY <1>2, <2>1, <2>2 DEF Append
  <2>3. CASE m # None
    BY <1>1, <2>1, <2>3 DEF Append, Manifest
  <2> QED BY <2>2, <2>3
<1> QED BY <1>1, <1>2, <1>3

HeadPut == (\E g \in Segment : MatPut(g)) \/ PullPut \/ \E p \in Promo : PutEnriched(p)
RowPublished == PullRecord \/ \E p \in Promo : SaveCheckpoint(p) \/ MarkPromoted(p)
RowReady ==
  (\E g \in Segment : MatRecord(g)) \/ PullRecord
    \/ \E p \in Promo : AlreadyPromoted(p) \/ MarkPromoted(p)

Quiet ==
  /\ blobs \subseteq blobs'
  /\ HeadPut \/ head' = head
  /\ RowPublished \/ UNCHANGED <<published, checkpoint>>
  /\ RowReady \/ status' \in {status} \cup (CollectionStatus \ {"ready", "promoted"})

\* Nothing deletes a segment; only a put moves the head; only three updates
\* name a published manifest, and only four make the row ready or promoted.
LEMMA Writers == [Next]_vars => Quiet
<1> SUFFICES ASSUME [Next]_vars PROVE Quiet
  OBVIOUS
<1> USE DEF Quiet, HeadPut, RowPublished, RowReady, rowVars, SetStatus, TrySetStatus, CollectionStatus
<1>1. ASSUME IngestNext PROVE Quiet
  <2>1. CASE \/ \E S \in SUBSET Source : CreateCollection(S)
             \/ MarkImporting \/ CreateEnqueue \/ CancelRoot
             \/ \E s \in Source : AddSourcesCheck(s) \/ AddSource(s) \/ AddSourcesEnqueue(s)
             \/ \E g \in Segment : CancelMat(g)
    BY <2>1 DEF CreateCollection, MarkImporting, CreateEnqueue, CancelRoot, AddSourcesCheck,
                AddSource, AddSourcesEnqueue, CancelMat
  <2>2. CASE \/ IngestRead \/ IngestMark \/ NothingFetched \/ BuildSegment \/ EnqueueMaterialize
             \/ IngestAborted \/ IngestFails \/ \E s \in Source : FetchSource(s)
    BY <2>2 DEF IngestRead, IngestMark, NothingFetched, BuildSegment,
         EnqueueMaterialize, IngestAborted, FetchSource, IngestFails
  <2>3. CASE PullResolve \/ PullDownload \/ PullReadPrev \/ PullPut \/ PullRecord \/ PullFails
    BY <2>3 DEF PullResolve, PullDownload, PullReadPrev, PullPut, PullRecord, PullFails
  <2>4. ASSUME NEW g \in Segment, MatJob(g) PROVE Quiet
    BY <2>4 DEF MatJob, MatStart, MatAborts, MatRead, MatPut, MatRetry, MatRecord, MatFails
  <2> QED BY <1>1, <2>1, <2>2, <2>3, <2>4 DEF IngestNext, RootJob
<1>2. ASSUME NEW p \in Promo, PromoteCheck(p) \/ PromoJob(p) PROVE Quiet
  BY <1>2 DEF PromoJob, PromoteCheck, Begin, ReadRow, MarkPromoting, ReadHead, AlreadyPromoted,
       Resume, Upload, SaveCheckpoint, PutEnriched, MarkPromoted, PromotionFails
<1>3. CASE Revoke \/ Crash \/ UNCHANGED vars
  BY <1>3 DEF Revoke, Crash, vars
<1> QED BY <1>1, <1>2, <1>3 DEF Next, PromoNext

-----------------------------------------------------------------------------
(* "Upload segments first, verify, then publish head" *)

\* Storage holds what an ingest job is about to hand over, what an import is
\* about to put, and every segment a materialize job was ever enqueued for.
JobsStored ==
  /\ root = "enqueue" => SegmentOf[got] \in blobs
  /\ root \in {"readPrev", "put", "record"} => Remote \in blobs
  /\ \A g \in Segment : mat[g] # "none" => g \in blobs

\* It holds whatever a promotion has read or made of it.
PromosStored ==
  \A p \in Promo :
    SegmentsOf(readPub[p]) \cup SegmentsOf(readHead[p]) \cup SegmentsOf(enriched[p]) \subseteq blobs

StoredInv == HeadVerified /\ JobsStored /\ PromosStored

LEMMA JobsStoredStep ==
  ASSUME TypeInv, JobsStored, IngestNext \/ (IngestCrash /\ UNCHANGED blobs)
  PROVE  JobsStored'
<1> USE DEF JobsStored, TypeInv, TypeOK, IngestTypeOK, rowVars, routeVars, rootVars, matVars,
        SetStatus, TrySetStatus, EnqueueRoot, Busy, RootEnds, PullStep, MatAt, MatEnds
<1>1. CASE \/ \E S \in SUBSET Source : CreateCollection(S)
           \/ MarkImporting \/ CreateEnqueue \/ CancelRoot
           \/ \E s \in Source : AddSourcesCheck(s) \/ AddSource(s) \/ AddSourcesEnqueue(s)
  <2>1. root' \in Queued \cup {root, "idle"}
    BY <1>1 DEF CreateCollection, MarkImporting, CreateEnqueue, CancelRoot, AddSourcesCheck,
         AddSource, AddSourcesEnqueue, Queued
  <2>2. UNCHANGED <<got, blobs, mat>>
    BY <1>1 DEF CreateCollection, MarkImporting, CreateEnqueue, CancelRoot, AddSourcesCheck,
         AddSource, AddSourcesEnqueue
  <2> QED BY <2>1, <2>2 DEF Queued
<1>2. ASSUME NEW g \in Segment, CancelMat(g) PROVE JobsStored'
  BY <1>2 DEF CancelMat
<1>3. CASE IngestRead \/ IngestMark \/ NothingFetched \/ IngestAborted \/ IngestFails
           \/ \E s \in Source : FetchSource(s)
  BY <1>3 DEF IngestRead, IngestMark, NothingFetched, IngestAborted, IngestFails, FetchSource
<1>4. CASE BuildSegment
  BY <1>4 DEF BuildSegment
<1>5. CASE EnqueueMaterialize
  BY <1>5 DEF EnqueueMaterialize
<1>6. CASE PullResolve \/ PullDownload \/ PullReadPrev \/ PullPut \/ PullRecord \/ PullFails
  BY <1>6 DEF PullResolve, PullDownload, PullReadPrev, PullPut, PullRecord, PullFails
<1>7. ASSUME NEW g \in Segment, MatJob(g) PROVE JobsStored'
  <2>1. mat[g] # "none"
    BY <1>7 DEF MatJob, MatStart, MatAborts, MatRead, MatPut, MatRetry, PutThrows, MatRecord, MatFails
  <2>2. \A h \in Segment \ {g} : mat'[h] = mat[h]
    BY <1>7, MatReads DEF MatJob, MatStart, MatAborts, MatPut, MatRetry, MatRecord, MatFails
  <2>3. UNCHANGED <<root, got, blobs>>
    BY <1>7 DEF MatJob, MatStart, MatAborts, MatRead, MatPut, MatRetry, MatRecord, MatFails
  <2> QED BY <2>1, <2>2, <2>3
<1>8. CASE IngestCrash /\ UNCHANGED blobs
  <2>1. root' \notin {"enqueue", "readPrev", "put", "record"}
    BY <1>8 DEF IngestCrash, RootSteps, IngestSteps, PullSteps, Queued
  <2>2. \A g \in Segment : mat'[g] # "none" => mat[g] # "none"
    <3>1. mat' = [g \in Segment |-> IF mat[g] \in MatRunning THEN "lost" ELSE mat[g]]
      BY <1>8 DEF IngestCrash
    <3> QED BY <3>1 DEF MatRunning
  <2> QED BY <1>8, <2>1, <2>2
<1> QED
  BY <1>1, <1>2, <1>3, <1>4, <1>5, <1>6, <1>7, <1>8 DEF IngestNext, RootJob

\* What a promotion holds comes from the published manifest and the head.
LEMMA PromosStoredStep ==
  ASSUME TypeInv, HeadVerified, PromosStored, PromoNext \/ PromoCrash, UNCHANGED blobs
  PROVE  PromosStored'
<1> USE DEF HeadVerified, PromosStored, TypeInv, TypeOK, RowTypeOK, PromoTypeOK, At, Ends
<1>1. CASE Revoke
  BY <1>1 DEF Revoke
<1>2. CASE PromoCrash
  BY <1>2, ManifestSegments DEF PromoCrash
<1>3. ASSUME NEW p \in Promo, PromoteCheck(p) \/ PromoJob(p) PROVE PromosStored'
  <2> SUFFICES ASSUME NEW q \in Promo
               PROVE  /\ SegmentsOf(readPub'[q]) \subseteq blobs
                      /\ SegmentsOf(readHead'[q]) \subseteq blobs
                      /\ SegmentsOf(enriched'[q]) \subseteq blobs
    OBVIOUS
  <2>1. CASE PromoteCheck(p) \/ Begin(p) \/ MarkPromoting(p) \/ SaveCheckpoint(p) \/ PutEnriched(p)
    BY <2>1 DEF PromoteCheck, Begin, MarkPromoting, SaveCheckpoint, PutEnriched
  <2>2. CASE ReadRow(p)
    BY <2>2 DEF ReadRow
  <2>3. CASE ReadHead(p) \/ Resume(p)
    BY <2>3 DEF ReadHead, Resume
  <2>4. CASE Upload(p)
    <3>1. SegmentsOf(enriched'[p]) = readHead[p].segs
      <4>1. enriched'[p] = [segs |-> readHead[p].segs, batch |-> readHead[p].segs]
        BY <2>4 DEF Upload
      <4>2. enriched'[p] \in Manifest
        BY <2>4, <4>1 DEF Upload, Manifest
      <4> QED BY <4>1, <4>2, ManifestSegments
    <3> QED BY <2>4, <3>1 DEF Upload
  <2>5. CASE AlreadyPromoted(p) \/ MarkPromoted(p) \/ PromotionFails(p)
    BY <2>5, ManifestSegments DEF AlreadyPromoted, MarkPromoted, PromotionFails
  <2> QED BY <1>3, <2>1, <2>2, <2>3, <2>4, <2>5 DEF PromoJob
<1> QED BY <1>1, <1>2, <1>3 DEF PromoNext

LEMMA HeadVerifiedStep ==
  ASSUME TypeInv, StoredInv, [Next]_vars
  PROVE  HeadVerified'
<1> USE DEF StoredInv, HeadVerified
<1>0. Quiet
  BY Writers
<1>1. SegmentsOf(head') \subseteq blobs'
  <2>1. ASSUME NEW g \in Segment, MatPut(g) PROVE SegmentsOf(head') \subseteq blobs'
    <3>1. SegmentsOf(head') = SegmentsOf(head) \cup {g}
      BY <2>1, ManifestSegments DEF MatPut, TypeInv, TypeOK, RowTypeOK
    <3>2. g \in blobs
      BY <2>1 DEF MatPut, JobsStored
    <3> QED BY <1>0, <3>1, <3>2 DEF Quiet
  <2>2. CASE PullPut
    <3>1. head' \in Manifest /\ head'.segs = {Remote}
      BY <2>2, RowAssumption DEF PullPut, Manifest
    <3>2. Remote \in blobs
      BY <2>2 DEF PullPut, PullStep, JobsStored
    <3> QED BY <1>0, <3>1, <3>2, ManifestSegments DEF Quiet
  <2>3. ASSUME NEW p \in Promo, PutEnriched(p) PROVE SegmentsOf(head') \subseteq blobs'
    BY <1>0, <2>3 DEF PutEnriched, PromosStored, Quiet
  <2> QED BY <1>0, <2>1, <2>2, <2>3 DEF Quiet, HeadPut
<1>2. SegmentsOf(published') \subseteq blobs'
  <2>1. CASE PullRecord
    <3>1. published' \in Manifest /\ published'.segs = {Remote}
      BY <2>1, RowAssumption DEF PullRecord, Manifest
    <3>2. Remote \in blobs
      BY <2>1 DEF PullRecord, JobsStored
    <3> QED BY <1>0, <3>1, <3>2, ManifestSegments DEF Quiet
  <2>2. ASSUME NEW p \in Promo, SaveCheckpoint(p) \/ MarkPromoted(p)
        PROVE  SegmentsOf(published') \subseteq blobs'
    BY <1>0, <2>2 DEF SaveCheckpoint, MarkPromoted, PromosStored, Quiet
  <2> QED BY <1>0, <2>1, <2>2 DEF Quiet, RowPublished
<1> QED BY <1>1, <1>2

LEMMA StoredStep == TypeInv /\ StoredInv /\ [Next]_vars => StoredInv'
<1> SUFFICES ASSUME TypeInv, StoredInv, [Next]_vars PROVE StoredInv'
  OBVIOUS
<1> USE DEF StoredInv
<1>0. HeadVerified' /\ blobs \subseteq blobs'
  BY HeadVerifiedStep, Writers DEF Quiet
<1>1. CASE IngestNext /\ UNCHANGED promoVars
  <2>1. PromosStored'
    BY <1>0, <1>1 DEF PromosStored, promoVars
  <2>2. TypeInv /\ JobsStored /\ IngestNext
    BY <1>1
  <2>3. JobsStored'
    BY <2>2, JobsStoredStep
  <2> QED BY <1>0, <2>1, <2>3
<1>2. CASE PromoNext /\ UNCHANGED ingestVars
  <2>1. UNCHANGED blobs
    BY <1>2 DEF PromoNext, PromoJob, Revoke, PromoteCheck, Begin, ReadRow, MarkPromoting,
         ReadHead, AlreadyPromoted, Resume, Upload, SaveCheckpoint, PutEnriched, MarkPromoted,
         PromotionFails, TrySetStatus, SetStatus, rowVars
  <2>2. JobsStored'
    BY <1>2, <2>1 DEF JobsStored, ingestVars
  <2> QED BY <1>0, <1>2, <2>1, <2>2, PromosStoredStep
<1>3. CASE Crash
  BY <1>0, <1>3, JobsStoredStep, PromosStoredStep DEF Crash
<1>4. CASE UNCHANGED vars
  BY <1>4 DEF vars, rowVars, ingestVars, promoVars, HeadVerified, JobsStored, PromosStored
<1> QED BY <1>1, <1>2, <1>3, <1>4 DEF Next

\* The local head and the published manifest never name a segment whose bytes
\* are not in storage: jobs are enqueued, heads put and manifests recorded only
\* for what was uploaded, downloaded or read from a head before.
THEOREM HeadIsVerified == Spec => []HeadVerified
<1>1. ASSUME Init PROVE StoredInv
  <2>1. HeadVerified /\ JobsStored
    BY <1>1, ManifestSegments DEF Init, RowInit, IngestInit, HeadVerified, JobsStored
  <2>2. PromosStored
    BY <1>1, ManifestSegments DEF Init, RowInit, PromoInit, PromosStored
  <2> QED BY <2>1, <2>2 DEF StoredInv
<1>2. TypeInv /\ StoredInv /\ [Next]_vars => TypeInv' /\ StoredInv'
  BY StepTypes, StoredStep
<1>3. StoredInv => HeadVerified
  BY DEF StoredInv
<1> QED BY InitTypes, <1>1, <1>2, <1>3, PTL DEF Spec

-----------------------------------------------------------------------------
(* A row that says ready or promoted is never ahead of the disk *)

\* What a promotion has read and made by the step it is at.
PromotionInv ==
  \A p \in Promo :
    /\ readCp[p] # "none" => SegmentsOf(readPub[p]) # {}
    /\ step[p] \in {"resume", "upload", "checkpoint", "put", "record"} =>
         SegmentsOf(readHead[p]) # {}
    /\ step[p] = "resume" => readCp[p] = "uploaded"
    /\ step[p] \in {"checkpoint", "put", "record"} =>
         /\ SegmentsOf(enriched[p]) # {}
         /\ readCp[p] = "uploaded" \/ SegmentsOf(enriched[p]) = SegmentsOf(readHead[p])

\* Whoever is about to update the row has put the head, or found it put.
WrittenInv ==
  /\ ReadyMeansHead
  /\ head # None => SegmentsOf(head) # {}
  /\ checkpoint # "none" => SegmentsOf(published) # {}
  /\ root = "record" => head # None
  /\ \A g \in Segment : mat[g] = "record" => head # None
  /\ \A p \in Promo : step[p] = "record" => head # None

LEMMA PromotionStep ==
  ASSUME TypeInv, WrittenInv, PromotionInv, PromoNext \/ PromoCrash
  PROVE  PromotionInv'
<1> USE DEF PromotionInv, TypeInv, TypeOK, RowTypeOK, PromoTypeOK, At, Ends
<1>1. CASE Revoke
  BY <1>1 DEF Revoke
<1>2. CASE PromoCrash
  BY <1>2 DEF PromoCrash
<1>3. ASSUME NEW p \in Promo, PromoteCheck(p) \/ PromoJob(p) PROVE PromotionInv'
  <2>1. CASE PromoteCheck(p) \/ Begin(p) \/ MarkPromoting(p) \/ SaveCheckpoint(p) \/ PutEnriched(p)
    BY <2>1 DEF PromoteCheck, Begin, MarkPromoting, SaveCheckpoint, PutEnriched
  <2>2. CASE ReadRow(p)
    BY <2>2 DEF ReadRow, WrittenInv
  <2>3. CASE ReadHead(p)
    BY <2>3 DEF ReadHead, WrittenInv
  <2>4. CASE Resume(p)
    BY <2>4 DEF Resume
  <2>5. CASE Upload(p)
    <3>1. readHead[p] \in Manifest
      BY <2>5, ManifestSegments DEF Upload
    <3>2. enriched'[p] = [segs |-> readHead[p].segs, batch |-> readHead[p].segs]
      BY <2>5 DEF Upload
    <3>3. SegmentsOf(enriched'[p]) = SegmentsOf(readHead[p])
      BY <3>1, <3>2, ManifestSegments DEF Manifest
    <3> QED BY <2>5, <3>3 DEF Upload
  <2>6. CASE AlreadyPromoted(p) \/ MarkPromoted(p) \/ PromotionFails(p)
    BY <2>6 DEF AlreadyPromoted, MarkPromoted, PromotionFails
  <2> QED BY <1>3, <2>1, <2>2, <2>3, <2>4, <2>5, <2>6 DEF PromoJob
<1> QED BY <1>1, <1>2, <1>3 DEF PromoNext

\* A head that was put stays, and it has segments.
LEMMA HeadStays ==
  ASSUME TypeInv, WrittenInv, PromotionInv, [Next]_vars
  PROVE  /\ head # None => head' # None
         /\ head' # None => SegmentsOf(head') # {}
         /\ HeadPut => head' # None
<1>1. ASSUME NEW g \in Segment, MatPut(g) PROVE SegmentsOf(head') # {}
  BY <1>1, ManifestSegments DEF MatPut, TypeInv, TypeOK, RowTypeOK
<1>2. CASE PullPut
  <2>1. head' \in Manifest /\ head'.segs = {Remote}
    BY <1>2, RowAssumption DEF PullPut, Manifest
  <2> QED BY <2>1, ManifestSegments
<1>3. ASSUME NEW p \in Promo, PutEnriched(p) PROVE SegmentsOf(head') # {}
  BY <1>3 DEF PutEnriched, At, PromotionInv
<1> QED BY <1>1, <1>2, <1>3, Writers, ManifestSegments DEF Quiet, HeadPut, WrittenInv

\* A published manifest stays, and it has segments.
LEMMA PublishedStays ==
  ASSUME TypeInv, WrittenInv, PromotionInv, [Next]_vars
  PROVE  checkpoint' # "none" => SegmentsOf(published') # {}
<1>1. CASE PullRecord
  <2>1. published' \in Manifest /\ published'.segs = {Remote}
    BY <1>1, RowAssumption DEF PullRecord, Manifest
  <2> QED BY <2>1, ManifestSegments
<1>2. ASSUME NEW p \in Promo, SaveCheckpoint(p) \/ MarkPromoted(p)
      PROVE  SegmentsOf(published') # {}
  BY <1>2 DEF SaveCheckpoint, MarkPromoted, At, PromotionInv
<1> QED BY <1>1, <1>2, Writers DEF Quiet, RowPublished, WrittenInv

\* Who comes to the step that updates the row has just put the head, or seen it.
LEMMA ArrivalsPut ==
  ASSUME TypeInv, [Next]_vars
  PROVE  /\ root' = "record" => root = "record" \/ HeadPut
         /\ \A g \in Segment : mat'[g] = "record" => mat[g] = "record" \/ head # None \/ HeadPut
         /\ \A p \in Promo : step'[p] = "record" =>
              PutEnriched(p) \/ (step[p] = "record" /\ enriched'[p] = enriched[p])
<1> USE DEF TypeInv, TypeOK, IngestTypeOK, PromoTypeOK, HeadPut
<1>1. root' = "record" => root = "record" \/ HeadPut
  <2> USE DEF rootVars, ingestVars
  <2>1. CASE IngestNext
    <3>1. CASE \/ \E S \in SUBSET Source : CreateCollection(S)
               \/ MarkImporting \/ CreateEnqueue \/ CancelRoot
               \/ \E s \in Source : AddSourcesCheck(s) \/ AddSource(s) \/ AddSourcesEnqueue(s)
      BY <3>1 DEF CreateCollection, MarkImporting, CreateEnqueue, CancelRoot, AddSourcesCheck,
           AddSource, AddSourcesEnqueue, EnqueueRoot, Busy
    <3>2. CASE RootJob
      BY <3>2 DEF RootJob, IngestRead, IngestMark, NothingFetched, BuildSegment,
           EnqueueMaterialize, IngestAborted, FetchSource, PullResolve, PullDownload,
           PullReadPrev, PullRecord, IngestFails, PullFails, RootEnds, PullStep
    <3>3. CASE \E g \in Segment : MatJob(g) \/ CancelMat(g)
      BY <3>3 DEF MatJob, CancelMat, MatStart, MatAborts, MatRead, MatPut, MatRetry, MatRecord, MatFails
    <3> QED BY <2>1, <3>1, <3>2, <3>3 DEF IngestNext
  <2> QED BY <2>1 DEF Next, Crash, IngestCrash, vars
<1>2. ASSUME NEW g \in Segment, mat'[g] = "record", mat[g] # "record"
      PROVE  head # None \/ HeadPut
  <2> USE DEF matVars, ingestVars
  <2>1. CASE IngestNext
    <3>1. CASE \/ \E S \in SUBSET Source : CreateCollection(S)
               \/ MarkImporting \/ CreateEnqueue \/ CancelRoot
               \/ \E s \in Source : AddSourcesCheck(s) \/ AddSource(s) \/ AddSourcesEnqueue(s)
      BY <1>2, <3>1 DEF CreateCollection, MarkImporting, CreateEnqueue, CancelRoot, AddSourcesCheck,
           AddSource, AddSourcesEnqueue
    <3>2. CASE RootJob
      BY <1>2, <3>2 DEF RootJob, IngestRead, IngestMark, NothingFetched, BuildSegment,
           EnqueueMaterialize, IngestAborted, FetchSource, PullResolve, PullDownload,
           PullReadPrev, PullPut, PullRecord, IngestFails, PullFails, PullStep
    <3>3. ASSUME NEW h \in Segment, MatJob(h) \/ CancelMat(h) PROVE head # None \/ HeadPut
      <4>1. CASE MatRead(h)
        BY <1>2, <4>1, MatReads, ManifestSegments
      <4>2. CASE MatPut(h)
        BY <4>2
      <4> QED
        BY <1>2, <3>3, <4>1, <4>2
           DEF MatJob, CancelMat, MatStart, MatAborts, MatRetry, MatRecord, MatFails, MatAt, MatEnds
    <3> QED BY <2>1, <3>1, <3>2, <3>3 DEF IngestNext
  <2>2. CASE Crash
    <3>1. mat' = [h \in Segment |-> IF mat[h] \in MatRunning THEN "lost" ELSE mat[h]]
      BY <2>2 DEF Crash, IngestCrash
    <3> QED BY <1>2, <3>1
  <2> QED BY <1>2, <2>1, <2>2 DEF Next, vars
<1>3. ASSUME NEW p \in Promo, step'[p] = "record", ~PutEnriched(p)
      PROVE  step[p] = "record" /\ enriched'[p] = enriched[p]
  <2>1. ASSUME NEW q \in Promo, PromoteCheck(q) \/ PromoJob(q)
        PROVE  step[p] = "record" /\ enriched'[p] = enriched[p]
    <3>1. CASE PutEnriched(q)
      BY <1>3, <3>1 DEF PutEnriched, At
    <3> QED
      BY <1>3, <2>1, <3>1 DEF PromoJob, PromoteCheck, Begin, ReadRow, MarkPromoting, ReadHead,
           AlreadyPromoted, Resume, Upload, SaveCheckpoint, MarkPromoted, PromotionFails, At, Ends
  <2>2. CASE Crash
    <3>1. step' = [q \in Promo |-> IF step[q] = "none" THEN "none" ELSE "done"]
      BY <2>2 DEF Crash, PromoCrash
    <3> QED BY <1>3, <3>1
  <2> QED BY <1>3, <2>1, <2>2 DEF Next, PromoNext, Revoke, vars, promoVars
<1> QED BY <1>1, <1>2, <1>3

LEMMA WrittenStep ==
  TypeInv /\ WrittenInv /\ PromotionInv /\ [Next]_vars => WrittenInv' /\ PromotionInv'
<1> SUFFICES ASSUME TypeInv, WrittenInv, PromotionInv, [Next]_vars
             PROVE  WrittenInv' /\ PromotionInv'
  OBVIOUS
<1>1. PromotionInv'
  BY PromotionStep DEF Next, Crash, vars, promoVars, PromotionInv
<1>2. ReadyMeansHead'
  <2>1. RowReady => head # None
    BY DEF RowReady, WrittenInv, MatRecord, PullRecord, AlreadyPromoted, MarkPromoted
  <2>2. status' \in {"ready", "promoted"} => head # None
    BY <2>1, Writers, ManifestSegments DEF Quiet, WrittenInv, ReadyMeansHead
  <2> QED BY <2>2, HeadStays DEF ReadyMeansHead
<1>3. /\ head' # None => SegmentsOf(head') # {}
      /\ checkpoint' # "none" => SegmentsOf(published') # {}
  BY HeadStays, PublishedStays
<1>4. root' = "record" => head' # None
  BY ArrivalsPut, HeadStays DEF WrittenInv
<1>5. \A g \in Segment : mat'[g] = "record" => head' # None
  BY ArrivalsPut, HeadStays DEF WrittenInv
<1>6. \A p \in Promo : step'[p] = "record" => head' # None
  BY ArrivalsPut, HeadStays DEF WrittenInv, HeadPut
<1> QED BY <1>1, <1>2, <1>3, <1>4, <1>5, <1>6 DEF WrittenInv

LEMMA InitWritten == Init => WrittenInv /\ PromotionInv
<1> SUFFICES ASSUME Init PROVE WrittenInv /\ PromotionInv
  OBVIOUS
<1>1. WrittenInv
  BY DEF Init, RowInit, IngestInit, PromoInit, WrittenInv, ReadyMeansHead
<1>2. PromotionInv
  BY DEF Init, PromoInit, PromotionInv
<1> QED BY <1>1, <1>2

\* A row says ready or promoted only when the local head has been written,
\* whichever of the materialize, pull and promote workers updated it, and in
\* whatever order they and the crashes of the process came.
THEOREM ReadyHasHead == Spec => []ReadyMeansHead
<1>1. WrittenInv => ReadyMeansHead
  BY DEF WrittenInv
<1> QED BY <1>1, InitTypes, StepTypes, InitWritten, WrittenStep, PTL DEF Spec

\* No append to the head and no full promotion loses a segment that another
\* worker put there: an append and a promotion put back what they read, and the
\* compare-and-swap only lets them when nobody has put the head since.
THEOREM HeadKeepsSegments == Spec => SegmentsKept
<1> DEFINE Kept == \/ SegmentsOf(head) \subseteq SegmentsOf(head')
                   \/ PullPut
                   \/ \E p \in Promo : readCp[p] = "uploaded" /\ PutEnriched(p)
<1>1. ASSUME TypeInv, PromotionInv, [Next]_vars PROVE Kept
  <2>1. ASSUME NEW g \in Segment, MatPut(g) PROVE Kept
    BY <1>1, <2>1, ManifestSegments DEF MatPut, TypeInv, TypeOK, RowTypeOK
  <2>2. ASSUME NEW p \in Promo, PutEnriched(p) PROVE Kept
    BY <1>1, <2>2 DEF PutEnriched, At, PromotionInv
  <2> QED BY <1>1, <2>1, <2>2, Writers DEF Quiet, HeadPut
<1>2. TypeInv /\ PromotionInv /\ [Next]_vars => [Kept]_vars
  BY <1>1
<1> QED BY <1>2, InitTypes, StepTypes, InitWritten, WrittenStep, PTL DEF Spec, SegmentsKept

-----------------------------------------------------------------------------
(* What a promotion records as published is in the head *)

\* A manifest that was published has all its segments in one batch.
Whole(m) == m # None => m.batch = m.segs

RecordInv ==
  /\ RecordedIsInHead
  /\ head # None => head.batch \subseteq head.segs
  /\ Whole(published)
  /\ \A p \in Promo : Whole(readPub[p]) /\ Whole(enriched[p])

\* The step loses no segment by resuming an older upload.
KeepStep == \A p \in Promo : PutEnriched(p) => SegmentsOf(head) \subseteq SegmentsOf(head')

LEMMA WholeStep ==
  ASSUME TypeInv, RecordInv, [Next]_vars
  PROVE  Whole(published') /\ \A p \in Promo : Whole(readPub'[p]) /\ Whole(enriched'[p])
<1> USE DEF Whole, RecordInv, TypeInv, TypeOK, PromoTypeOK
<1>1. Whole(published')
  <2>1. CASE PullRecord
    BY <2>1 DEF PullRecord
  <2>2. ASSUME NEW p \in Promo, SaveCheckpoint(p) \/ MarkPromoted(p) PROVE Whole(published')
    BY <2>2 DEF SaveCheckpoint, MarkPromoted
  <2> QED BY <2>1, <2>2, Writers DEF Quiet, RowPublished
<1>2. ASSUME NEW q \in Promo PROVE Whole(readPub'[q]) /\ Whole(enriched'[q])
  <2>1. ASSUME NEW p \in Promo, PromoteCheck(p) \/ PromoJob(p)
        PROVE  Whole(readPub'[q]) /\ Whole(enriched'[q])
    <3>1. CASE PromoteCheck(p) \/ Begin(p) \/ MarkPromoting(p) \/ ReadHead(p) \/ SaveCheckpoint(p)
               \/ PutEnriched(p)
      BY <3>1 DEF PromoteCheck, Begin, MarkPromoting, ReadHead, SaveCheckpoint, PutEnriched
    <3>2. CASE ReadRow(p) \/ Resume(p)
      BY <3>2 DEF ReadRow, Resume
    <3>3. CASE Upload(p)
      BY <3>3 DEF Upload
    <3>4. CASE AlreadyPromoted(p) \/ MarkPromoted(p) \/ PromotionFails(p)
      BY <3>4 DEF AlreadyPromoted, MarkPromoted, PromotionFails, Ends
    <3> QED BY <2>1, <3>1, <3>2, <3>3, <3>4 DEF PromoJob
  <2>2. CASE Crash
    BY <2>2 DEF Crash, PromoCrash
  <2> QED BY <2>1, <2>2 DEF Next, PromoNext, Revoke, vars, promoVars
<1> QED BY <1>1, <1>2

\* Once the imported segment is in the head it stays; without it, a step only
\* adds to the segments and the batch of the head.
LEMMA HeadGrows ==
  ASSUME TypeInv, PromotionInv, RecordInv, [Next]_vars, [KeepStep]_vars,
         head # None, head' \in Manifest, Remote \notin head'.segs
  PROVE  head.segs \subseteq head'.segs /\ head.batch \subseteq head'.batch
<1>0. head \in Manifest
  BY DEF TypeInv, TypeOK, RowTypeOK
<1>1. ASSUME NEW g \in Segment, MatPut(g)
      PROVE  head.segs \subseteq head'.segs /\ head.batch \subseteq head'.batch
  BY <1>0, <1>1 DEF MatPut, Append, Manifest
<1>2. CASE PullPut
  BY <1>2 DEF PullPut
<1>3. ASSUME NEW p \in Promo, PutEnriched(p)
      PROVE  head.segs \subseteq head'.segs /\ head.batch \subseteq head'.batch
  <2>1. CASE UNCHANGED vars
    BY <2>1 DEF vars, rowVars
  <2>2. CASE KeepStep
    <3>1. head.segs \subseteq head'.segs
      BY <1>0, <1>3, <2>2, ManifestSegments DEF KeepStep
    <3>2. head'.batch = head'.segs
      BY <1>3, ManifestSegments DEF PutEnriched, RecordInv, Whole
    <3> QED BY <3>1, <3>2 DEF RecordInv
  <2> QED BY <2>1, <2>2
<1> QED BY <1>1, <1>2, <1>3, Writers DEF Quiet, HeadPut

LEMMA RecordStep ==
  ASSUME TypeInv, WrittenInv, PromotionInv, RecordInv, [Next]_vars, [KeepStep]_vars
  PROVE  RecordInv'
<1>0. TypeInv' /\ head' \in Manifest \cup {None}
  BY StepTypes DEF TypeInv, TypeOK, RowTypeOK
<1>1. head' # None => head'.batch \subseteq head'.segs
  <2>1. ASSUME NEW g \in Segment, MatPut(g) PROVE head'.batch \subseteq head'.segs
    <3>1. CASE head = None
      BY <2>1, <3>1 DEF MatPut, Append
    <3>2. CASE head # None
      BY <2>1, <3>2 DEF MatPut, Append, RecordInv, Manifest, TypeInv, TypeOK, RowTypeOK
    <3> QED BY <3>1, <3>2
  <2>2. CASE PullPut
    BY <2>2 DEF PullPut
  <2>3. ASSUME NEW p \in Promo, PutEnriched(p), head' # None PROVE head'.batch \subseteq head'.segs
    BY <2>3 DEF PutEnriched, RecordInv, Whole
  <2> QED BY <2>1, <2>2, <2>3, Writers DEF Quiet, HeadPut, RecordInv
<1>2. RecordedIsInHead'
  <2> SUFFICES ASSUME NEW q \in Promo, step'[q] = "record", Remote \notin SegmentsOf(head')
               PROVE  /\ enriched'[q].segs \subseteq SegmentsOf(head')
                      /\ enriched'[q].batch \subseteq head'.batch
    BY DEF RecordedIsInHead
  <2>1. CASE PutEnriched(q)
    <3>1. head' = enriched'[q] /\ head' # None
      BY <2>1, HeadStays DEF PutEnriched, HeadPut
    <3> QED BY <1>0, <3>1, ManifestSegments
  <2>2. CASE step[q] = "record" /\ enriched'[q] = enriched[q]
    <3>1. head # None /\ head' # None
      BY <2>2, HeadStays DEF WrittenInv
    <3>2. head \in Manifest /\ head' \in Manifest
      BY <1>0, <3>1 DEF TypeInv, TypeOK, RowTypeOK
    <3>3. head.segs \subseteq head'.segs /\ head.batch \subseteq head'.batch
      BY <3>1, <3>2, ManifestSegments, HeadGrows
    <3>4. Remote \notin SegmentsOf(head)
      BY <3>2, <3>3, ManifestSegments
    <3> QED BY <2>2, <3>2, <3>3, <3>4, ManifestSegments DEF RecordInv, RecordedIsInHead
  <2> QED BY <2>1, <2>2, ArrivalsPut
<1> QED BY <1>1, <1>2, WholeStep DEF RecordInv

\* What a finishing promotion records as published is in the local head, its
\* batch included, although materialize jobs and other promotions put that head
\* meanwhile (unless an import has replaced it), in every behaviour in which no
\* promotion resumes an upload that is older than the head.
THEOREM RecordedStaysInHead == Spec /\ ResumeKeepsSegments => []RecordedIsInHead
<1>1. ASSUME Init PROVE RecordInv
  <2>1. RecordedIsInHead
    BY <1>1 DEF Init, PromoInit, RecordedIsInHead
  <2>2. Whole(published) /\ \A p \in Promo : Whole(readPub[p]) /\ Whole(enriched[p])
    BY <1>1 DEF Init, RowInit, PromoInit, Whole
  <2> QED BY <1>1, <2>1, <2>2 DEF RecordInv, Init, RowInit
<1>2. RecordInv => RecordedIsInHead
  BY DEF RecordInv
<1>3. ResumeKeepsSegments <=> [][KeepStep]_vars
  BY PTL DEF ResumeKeepsSegments, KeepStep
<1>4. TypeInv /\ WrittenInv /\ PromotionInv /\ RecordInv /\ [Next]_vars /\ [KeepStep]_vars => RecordInv'
  BY RecordStep
<1> QED
  BY <1>1, <1>2, <1>3, <1>4, InitTypes, StepTypes, InitWritten, WrittenStep, PTL DEF Spec
=============================================================================
