-------------------------- MODULE CollectionService --------------------------
(***************************************************************************)
(* The write side of the web server for one collection: its ingest         *)
(* pipeline and its promotions interleave on the same row, sources,        *)
(* manifest head and blobs, and a process that dies takes down both.       *)
(***************************************************************************)
EXTENDS IngestPipeline, Promotion

vars == <<rowVars, ingestVars, promoVars>>

TypeOK == RowTypeOK /\ IngestTypeOK /\ PromoTypeOK

Init == RowInit /\ IngestInit /\ PromoInit

Crash ==
  /\ Fault
  /\ IngestCrash /\ PromoCrash
  /\ UNCHANGED <<status, checkpoint, published, sourceStatus, head, blobs>>

Next ==
  \/ IngestNext /\ UNCHANGED promoVars
  \/ PromoNext /\ UNCHANGED ingestVars
  \/ Crash

Spec == Init /\ [][Next]_vars

\* A running process runs its handlers and requests on.
FairSpec ==
  /\ Spec
  /\ WF_vars(RootJob /\ UNCHANGED promoVars)
  /\ \A g \in Segment : WF_vars(MatJob(g) /\ UNCHANGED promoVars)
  /\ \A p \in Promo : WF_vars(PromoJob(p) /\ UNCHANGED ingestVars)
-----------------------------------------------------------------------------
(* Safety *)

\* "Upload segments first, verify, then publish head": the local head and the
\* published manifest only name segments whose bytes are in storage.
HeadVerified == SegmentsOf(head) \cup SegmentsOf(published) \subseteq blobs

\* A row that says ready or promoted is never ahead of the disk: the head has
\* been written, whichever worker changed the row.
ReadyMeansHead == status \in {"ready", "promoted"} => SegmentsOf(head) # {}

\* What a finishing promotion is about to record as published is in the head,
\* batch included, although materialize jobs append to that head meanwhile (an
\* import that replaces the head is the exception; so is a second promotion
\* that resumes an upload older than the head, see ResumeKeepsSegments).
RecordedIsInHead ==
  \A p \in Promo : step[p] = "record" /\ Remote \notin SegmentsOf(head) =>
    /\ enriched[p].segs \subseteq SegmentsOf(head)
    /\ enriched[p].batch \subseteq head.batch

\* No append or full promotion loses a segment of the head that another
\* worker put there; an import replaces the head, a resuming promotion may.
SegmentsKept ==
  [][\/ SegmentsOf(head) \subseteq SegmentsOf(head')
     \/ PullPut
     \/ \E p \in Promo : readCp[p] = "uploaded" /\ PutEnriched(p)]_vars

(* Liveness *)

\* A root job that starts ends, or its process dies.
RootJobEnds == (root \in RootSteps \ Queued) ~> (root \in {"idle", "lost"})

\* A queued materialize job takes the collection out of `ingesting`, whatever
\* other workers do to the head, unless it is cancelled or its process dies.
MaterializeLands ==
  \A g \in Segment :
    (mat[g] = "queued") ~> (mat[g] \in {"cancelled", "lost"} \/ status # "ingesting")

\* A promotion leaves `promoting`, revoked or not.
PromotingEnds == (status = "promoting") ~> (status # "promoting")

-----------------------------------------------------------------------------
(* Claims of the sources that the code does not keep *)

\* "The collection stays in `ingesting` until materialize lands": an ingest
\* that has built its segment leaves a materialize job that is still to land
\* (the segment's job having been cancelled aside).
Materializing == \E g \in Segment : mat[g] \in {"queued"} \cup MatRunning
IngestHandsOver ==
  [][EnqueueMaterialize /\ status = "ingesting" /\ mat[SegmentOf[got]] # "cancelled"
       => Materializing']_vars

\* "So the local head gets stamped": resuming an upload loses no segment.
ResumeKeepsSegments ==
  [][\A p \in Promo : PutEnriched(p) => SegmentsOf(head) \subseteq SegmentsOf(head')]_vars
=============================================================================
