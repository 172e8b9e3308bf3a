---------------------------- MODULE CollectionRow ----------------------------
(***************************************************************************)
(* What the workers of the web server share about one collection: its      *)
(* database row and the rows of its sources (db/), and, on disk, its       *)
(* manifest head and segment blobs (packages/store).                       *)
(*                                                                         *)
(* Segments are content-addressed: SegmentOf[S] is the one built from the  *)
(* chunks of the sources S, the same one for sources fetched with the same *)
(* content (a source added twice is two rows).  A manifest is its segments *)
(* and the batch of them a promotion has published; putHead is taken to be *)
(* the compare-and-swap that ManifestStore shows it to be for one writer   *)
(* at a time.                                                              *)
(***************************************************************************)
EXTENDS Naturals

CONSTANTS
  Source,       \* rows of the sources table
  Segment,      \* storage ids of segments
  SegmentOf,    \* the segment built from a set of sources
  Remote,       \* the one segment of the imported manifest
  None,         \* no manifest
  MaxFaults     \* bound: failing calls and crashes in a behaviour

Manifest == [segs : SUBSET Segment, batch : SUBSET Segment]

ASSUME RowAssumption ==
  /\ MaxFaults \in Nat
  /\ Remote \in Segment
  /\ SegmentOf \in [(SUBSET Source) \ {{}} -> Segment \ {Remote}]
  /\ None \notin Manifest

VARIABLES
  status,       \* collections.status; "absent" before the row exists
  checkpoint,   \* collections.promote_checkpoint
  published,    \* the manifest that collections.manifest_cid names
  sourceStatus, \* sources.status; "absent" before the row exists
  head,         \* the local manifest head
  blobs,        \* segments whose bytes are in local storage
  faults        \* counts against MaxFaults

rowVars == <<status, checkpoint, published, sourceStatus, head, blobs, faults>>

CollectionStatus ==
  {"creating", "ingesting", "ready", "ingestion_failed", "importing",
   "import_failed", "promoting", "promoted", "promotion_failed"}

RowTypeOK ==
  /\ status \in {"absent"} \cup CollectionStatus
  /\ checkpoint \in {"none", "uploaded", "on_chain_written"}
  /\ published \in Manifest \cup {None}
  /\ sourceStatus \in [Source -> {"absent", "pending", "complete", "failed"}]
  /\ head \in Manifest \cup {None}
  /\ blobs \subseteq Segment
  /\ faults \in 0..MaxFaults

RowInit ==
  /\ status = "absent"
  /\ checkpoint = "none"
  /\ published = None
  /\ sourceStatus = [s \in Source |-> "absent"]
  /\ head = None
  /\ blobs = {}
  /\ faults = 0

Fault == faults < MaxFaults /\ faults' = faults + 1

\* updateCollectionStatus; every other column and the disk stay.
SetStatus(s) == status' = s /\ UNCHANGED <<checkpoint, published, sourceStatus, head, blobs>>

\* A failing worker's update: one that throws too is swallowed.
TrySetStatus(s) == SetStatus(s) \/ (SetStatus(status) /\ faults' # faults)

SegmentsOf(m) == IF m = None THEN {} ELSE m.segs
=============================================================================
