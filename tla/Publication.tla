---------------------------- MODULE Publication ----------------------------
(***************************************************************************)
(* `wtfoc promote` publishes a local collection as one archive with a      *)
(* manifest, `wtfoc pull` copies a published collection to another site.   *)
(* A site is a head beside files of its own: the archive index and the     *)
(* document catalog (the sidecars) and the stored blobs.  Both commands    *)
(* take their parts one after another while ingests and edge extractions   *)
(* change them.                                                            *)
(*                                                                         *)
(* An artifact is what the bytes of a part depend on: its kind and the     *)
(* documents it was made of.  Content addresses name artifacts by their    *)
(* bytes, so an artifact stands for its storage id and for its CID.  A     *)
(* head is read through the schema validation, and put without it.         *)
(***************************************************************************)
EXTENDS Naturals, FiniteSets

CONSTANTS
  Desk,          \* terminals in which a command can run
  Site,          \* directories that hold the collection
  Home,          \* the site that has it from the start
  Document,
  First,         \* the document that was ingested there
  MaxPublish,    \* bound: commands started
  MaxStops       \* bound: commands killed

ASSUME PublicationConstants ==
  /\ Home \in Site
  /\ First \in Document
  /\ IsFiniteSet(Document)
  /\ {MaxPublish, MaxStops} \subseteq Nat

Artifact == [kind : {"segment", "layer", "blob", "index", "catalog"}, of : SUBSET Document]
Art(kind, D) == [kind |-> kind, of |-> D]
Each(kind, D) == {Art(kind, {d}) : d \in D}

\* No head file, or one that cannot be read.
Blank == [id |-> 0, segs |-> {}, layers |-> {}, refs |-> {}, batches |-> {}]

VARIABLES
  siteHead,      \* <collection>.json of each site; its id is the headId
  siteIndex,     \* <collection>.raw-source-index.json, {} for no file
  siteCatalog,   \* <collection>.document-catalog.json, {} for no file
  blobs,         \* the local storage
  published,     \* the manifests that were uploaded, with all their artifacts
  cmd,           \* the command of each terminal
  stamps,        \* heads made so far, which numbers them
  doubtful,      \* history: sites and manifests for which nothing is promised
  effort         \* commands and kills so far, against their bounds

pubVars == <<siteHead, siteIndex, siteCatalog, blobs, published, cmd, stamps, doubtful, effort>>
siteVars == <<siteHead, siteIndex, siteCatalog, blobs>>

Resting == [at |-> "idle", site |-> Home, docs |-> {}, force |-> FALSE, base |-> 0,
            head |-> Blank, index |-> {}, catalog |-> {}, arts |-> {}, doubt |-> FALSE]

Manifest == [id : Nat, segs : SUBSET Artifact, layers : SUBSET Artifact,
             refs : SUBSET Artifact, batches : SUBSET [at : Nat, of : SUBSET Artifact]]
DeskCommand ==
  [at : {"idle", "append", "save catalog", "save index", "take index", "take catalog", "decide",
         "promote head", "fetch", "pull index", "pull catalog", "pull head"},
   site : Site, docs : SUBSET Document, force : BOOLEAN, base : Nat, head : Manifest,
   index : SUBSET Document, catalog : SUBSET Document, arts : SUBSET Artifact, doubt : BOOLEAN]

PubTypeOK ==
  /\ siteHead \in [Site -> Manifest]
  /\ {siteIndex, siteCatalog} \subseteq [Site -> SUBSET Document]
  /\ blobs \in [Site -> SUBSET Artifact]
  /\ published \subseteq Manifest
  /\ stamps \in Nat \ {0}
  /\ cmd \in [Desk -> DeskCommand]
  /\ doubtful \in [sites : SUBSET Site, ids : SUBSET (1..stamps)]
  /\ effort \in [commands : 0..MaxPublish, kills : 0..MaxStops]

PubInit ==
  LET here(s, X) == IF s = Home THEN X ELSE {}
      seg == Each("segment", {First})
  IN
  /\ siteHead = [s \in Site |-> IF s = Home THEN [Blank EXCEPT !.id = 1, !.segs = seg] ELSE Blank]
  /\ siteIndex = [s \in Site |-> here(s, {First})]
  /\ siteCatalog = [s \in Site |-> here(s, {First})]
  /\ blobs = [s \in Site |-> here(s, seg \cup Each("blob", {First}))]
  /\ published = {}
  /\ cmd = [t \in Desk |-> Resting]
  /\ stamps = 1
  /\ doubtful = [sites |-> {}, ids |-> {}]
  /\ effort = [commands |-> 0, kills |-> 0]

-----------------------------------------------------------------------------
(* The schema of a manifest *)

\* Every artifact of a batch is named elsewhere in the manifest, and none is in
\* two batches.
Valid(m) ==
  /\ \A b \in m.batches : b.of \subseteq m.segs \cup m.layers \cup m.refs
  /\ \A b, c \in m.batches : b # c => b.of \cap c.of = {}

\* getHead: a file that does not pass counts as none.
Got(s) == IF Valid(siteHead[s]) THEN siteHead[s] ELSE Blank

Begins(t, r) ==
  /\ cmd[t].at = "idle" /\ effort.commands < MaxPublish
  /\ effort' = [effort EXCEPT !.commands = @ + 1]
  /\ cmd' = [cmd EXCEPT ![t] = r]

Goes(t, at) == cmd' = [cmd EXCEPT ![t].at = at]
Ends(t) == cmd' = [cmd EXCEPT ![t] = Resting]

-----------------------------------------------------------------------------
(* wtfoc ingest of one document, as far as the other commands see it *)

\* Known from the catalog if there is one, else from the segments.
IsKnown(s, d) ==
  IF siteCatalog[s] # {} THEN d \in siteCatalog[s] ELSE Art("segment", {d}) \in Got(s).segs

\* It reads its files and stores the raw source and the segment...
Ingest(t, s, d) ==
  /\ Begins(t, [Resting EXCEPT
       !.at = IF IsKnown(s, d) THEN "save catalog" ELSE "append",
       !.site = s, !.docs = {d}, !.index = siteIndex[s], !.catalog = siteCatalog[s]])
  /\ blobs' = [blobs EXCEPT ![s] = @ \cup Each("blob", {d} \ siteIndex[s]) \cup
                                   (IF IsKnown(s, d) THEN {} ELSE Each("segment", {d}))]
  /\ UNCHANGED <<siteHead, siteIndex, siteCatalog, published, stamps, doubtful>>

Collecting(u, s) == cmd[u].site = s /\ cmd[u].at \in {"take index", "take catalog"}

\* ...appends to the head a new one, which keeps the batches but neither the
\* layers nor the artifact refs...
AppendItem(t) ==
  LET s == cmd[t].site IN
  /\ cmd[t].at = "append"
  /\ siteHead' = [siteHead EXCEPT
       ![s] = [Blank EXCEPT !.id = stamps + 1, !.segs = Got(s).segs \cup Each("segment", cmd[t].docs),
                            !.batches = Got(s).batches]]
  /\ stamps' = stamps + 1
  /\ cmd' = [u \in Desk |->
       IF u = t THEN [cmd[t] EXCEPT !.at = "save catalog"]
       ELSE IF Collecting(u, s) THEN [cmd[u] EXCEPT !.doubt = TRUE] ELSE cmd[u]]
  /\ doubtful' = IF Valid(siteHead[s]) THEN doubtful
                 ELSE [doubtful EXCEPT !.sites = @ \cup {s}]
  /\ UNCHANGED <<siteIndex, siteCatalog, blobs, published, effort>>

\* ...then rewrites the catalog and, if the source is new, the index.
SavesCatalog(t) ==
  LET r == cmd[t] IN
  /\ r.at = "save catalog"
  /\ siteCatalog' = [siteCatalog EXCEPT ![r.site] = r.catalog \cup r.docs]
  /\ IF r.docs \subseteq r.index THEN Ends(t) ELSE Goes(t, "save index")
  /\ UNCHANGED <<siteHead, siteIndex, blobs, published, stamps, doubtful, effort>>

SavesIndex(t) ==
  LET r == cmd[t] IN
  /\ r.at = "save index"
  /\ siteIndex' = [siteIndex EXCEPT ![r.site] = r.index \cup r.docs]
  /\ Ends(t)
  /\ UNCHANGED <<siteHead, siteCatalog, blobs, published, stamps, doubtful, effort>>

\* wtfoc extract-edges that finds edges in the segments: the other fields of
\* the head stay.
ExtractLayer(t, s) ==
  LET h == Got(s)
      layer == Art("layer", UNION {a.of : a \in h.segs})
  IN
  /\ cmd[t].at = "idle" /\ effort.commands < MaxPublish
  /\ h.id # 0 /\ h.segs \subseteq blobs[s] /\ layer \notin h.layers
  /\ siteHead' = [siteHead EXCEPT ![s] = [h EXCEPT !.id = stamps + 1, !.layers = @ \cup {layer}]]
  /\ blobs' = [blobs EXCEPT ![s] = @ \cup {layer}]
  /\ stamps' = stamps + 1
  /\ effort' = [effort EXCEPT !.commands = @ + 1]
  /\ UNCHANGED <<siteIndex, siteCatalog, published, cmd, doubtful>>

-----------------------------------------------------------------------------
(* wtfoc promote *)

Promote(t, s, force) ==
  /\ Got(s).id # 0
  /\ Begins(t, [Resting EXCEPT !.at = "take index", !.site = s, !.force = force,
                               !.head = Got(s), !.base = Got(s).id])
  /\ UNCHANGED <<siteVars, published, stamps, doubtful>>

\* enumeratePromotableArtifacts: the segments and layers of the head and, as
\* read now, the index...
TakeIndex(t) ==
  LET r == cmd[t] IN
  /\ r.at = "take index"
  /\ r.head.segs \cup r.head.layers \subseteq blobs[r.site]
  /\ cmd' = [cmd EXCEPT ![t].at = "take catalog", ![t].index = siteIndex[r.site]]
  /\ UNCHANGED <<siteVars, published, stamps, doubtful, effort>>

\* A pull has written sidecars and not its head.
HalfPulled(s) == \E u \in Desk : cmd[u].site = s /\ cmd[u].at \in {"pull catalog", "pull head"}
Unsettled(s) == s \in doubtful.sites \/ HalfPulled(s)

Sidecar(kind, D) == IF D = {} THEN {} ELSE {Art(kind, D)}

\* ...with the blobs it names, and the catalog.
TakeCatalog(t) ==
  LET r == cmd[t]
      s == r.site
  IN
  /\ r.at = "take catalog"
  /\ Each("blob", r.index) \subseteq blobs[s]
  /\ cmd' = [cmd EXCEPT
       ![t].at = "decide", ![t].doubt = @ \/ Unsettled(s),
       ![t].arts = r.head.segs \cup r.head.layers \cup Each("blob", r.index)
                     \cup Sidecar("index", r.index) \cup Sidecar("catalog", siteCatalog[s])]
  /\ UNCHANGED <<siteVars, published, stamps, doubtful, effort>>

Blobs(A) == {a \in A : a.kind \notin {"index", "catalog"}}

\* Mutant: sidecars are not compared.
CoversBlobs(refs, arts) == refs # {} /\ Blobs(arts) = Blobs(refs)
\* computeArtifactCoverage: each is covered, and there are as many.
Covers(refs, arts) ==
  refs # {} /\ arts \subseteq refs /\ Cardinality(arts) = Cardinality(refs)

AlreadyPromoted(t) ==
  /\ cmd[t].at = "decide" /\ ~cmd[t].force
  /\ Covers(cmd[t].head.refs, cmd[t].arts)
  /\ Ends(t)
  /\ UNCHANGED <<siteVars, published, stamps, doubtful, effort>>

\* bundleAndUpload: one archive of all artifacts and a manifest with one batch
\* more.
Upload(t) ==
  LET r == cmd[t]
      enriched == [r.head EXCEPT
        !.id = stamps + 1, !.refs = r.arts,
        !.batches = @ \cup {[at |-> stamps + 1, of |-> r.arts]}]
  IN
  /\ r.at = "decide"
  /\ r.force \/ ~Covers(r.head.refs, r.arts)
  /\ published' = published \cup {enriched}
  /\ stamps' = stamps + 1
  /\ cmd' = [cmd EXCEPT ![t].at = "promote head", ![t].head = enriched]
  /\ doubtful' = IF r.doubt THEN [doubtful EXCEPT !.ids = @ \cup {stamps + 1}] ELSE doubtful
  /\ UNCHANGED <<siteVars, effort>>

\* The enriched head replaces the one that was read, or the command fails.
PutPromoted(t) ==
  LET r == cmd[t] IN
  /\ r.at = "promote head"
  /\ siteHead' = IF Got(r.site).id = r.base THEN [siteHead EXCEPT ![r.site] = r.head]
                 ELSE siteHead
  /\ Ends(t)
  /\ UNCHANGED <<siteIndex, siteCatalog, blobs, published, stamps, doubtful, effort>>

-----------------------------------------------------------------------------
(* wtfoc pull *)

\* The manifest passes validation, and the site has no head that does.
Pull(t, s, m) ==
  /\ Valid(m) /\ Got(s).id = 0
  /\ Begins(t, [Resting EXCEPT !.at = "fetch", !.site = s, !.head = m, !.arts = m.refs,
                               !.doubt = m.id \in doubtful.ids])
  /\ UNCHANGED <<siteVars, published, stamps, doubtful>>

Of(kind, A) == UNION {a.of : a \in {x \in A : x.kind = kind}}

\* Mutant: the sidecars are written before anything is checked.
IndexAtOnce(t) ==
  LET r == cmd[t] IN
  /\ r.at = "fetch"
  /\ blobs' = [blobs EXCEPT ![r.site] = @ \cup Blobs(r.arts)]
  /\ siteIndex' = [siteIndex EXCEPT ![r.site] = Of("index", r.arts)]
  /\ siteCatalog' = [siteCatalog EXCEPT ![r.site] = Of("catalog", r.arts)]
  /\ \/ Goes(t, "pull head") \/ Ends(t)
  /\ UNCHANGED <<siteHead, published, stamps, doubtful, effort>>

\* pullArtifactRefs: the blobs are downloaded, checked and stored, the sidecars
\* checked and kept for later.
FetchAll(t) ==
  LET r == cmd[t] IN
  /\ r.at = "fetch"
  /\ Each("blob", Of("index", r.arts)) \subseteq r.arts
  /\ blobs' = [blobs EXCEPT ![r.site] = @ \cup Blobs(r.arts)]
  /\ Goes(t, "pull index")
  /\ UNCHANGED <<siteHead, siteIndex, siteCatalog, published, stamps, doubtful, effort>>

\* A download or a check fails, with none or all of the segments stored.
FetchFails(t) ==
  LET r == cmd[t] IN
  /\ r.at = "fetch"
  /\ \E A \in {{}, r.head.segs} : blobs' = [blobs EXCEPT ![r.site] = @ \cup A]
  /\ Ends(t)
  /\ UNCHANGED <<siteHead, siteIndex, siteCatalog, published, stamps, doubtful, effort>>

\* When all is checked the sidecars are written, those the manifest has.
PullIndex(t) ==
  LET r == cmd[t]
      D == Of("index", r.arts)
  IN
  /\ r.at = "pull index"
  /\ siteIndex' = IF D = {} THEN siteIndex ELSE [siteIndex EXCEPT ![r.site] = D]
  /\ Goes(t, "pull catalog")
  /\ UNCHANGED <<siteHead, siteCatalog, blobs, published, stamps, doubtful, effort>>

PullCatalog(t) ==
  LET r == cmd[t]
      D == Of("catalog", r.arts)
  IN
  /\ r.at = "pull catalog"
  /\ siteCatalog' = IF D = {} THEN siteCatalog ELSE [siteCatalog EXCEPT ![r.site] = D]
  /\ Goes(t, "pull head")
  /\ UNCHANGED <<siteHead, siteIndex, blobs, published, stamps, doubtful, effort>>

\* Last the head, if there still is none.
PullHead(t) ==
  LET r == cmd[t]
      free == Got(r.site).id = 0
  IN
  /\ r.at = "pull head"
  /\ siteHead' = IF free THEN [siteHead EXCEPT ![r.site] = r.head] ELSE siteHead
  /\ doubtful' = IF free /\ ~r.doubt /\ Valid(siteHead[r.site]) THEN doubtful
                 ELSE [doubtful EXCEPT !.sites = @ \cup {r.site}]
  /\ Ends(t)
  /\ UNCHANGED <<siteIndex, siteCatalog, blobs, published, stamps, effort>>

-----------------------------------------------------------------------------
\* A command is killed, or a call of it fails for good.
Stop(t) ==
  LET r == cmd[t] IN
  /\ r.at # "idle" /\ effort.kills < MaxStops
  /\ effort' = [effort EXCEPT !.kills = @ + 1]
  /\ doubtful' = IF r.at \in {"pull catalog", "pull head"}
                 THEN [doubtful EXCEPT !.sites = @ \cup {r.site}] ELSE doubtful
  /\ Ends(t)
  /\ UNCHANGED <<siteVars, published, stamps>>

PubNext ==
  \E t \in Desk :
    \/ \E s \in Site :
         \/ \E d \in Document : Ingest(t, s, d)
         \/ ExtractLayer(t, s)
         \/ \E force \in BOOLEAN : Promote(t, s, force)
         \/ \E m \in published : Pull(t, s, m)
    \/ AppendItem(t) \/ SavesCatalog(t) \/ SavesIndex(t)
    \/ TakeIndex(t) \/ TakeCatalog(t) \/ AlreadyPromoted(t) \/ Upload(t) \/ PutPromoted(t)
    \/ FetchAll(t) \/ FetchFails(t) \/ PullIndex(t) \/ PullCatalog(t) \/ PullHead(t)
    \/ Stop(t)

PubSpec == PubInit /\ [][PubNext]_pubVars

-----------------------------------------------------------------------------
(* Properties *)

\* A site has what its files name: the segments and layers of its head and the
\* blobs of its index are stored, and each document its catalog tells later
\* ingests to skip is in its head.  It holds through pulls, promotions and
\* ingests in any order, but not at a site where a pull has written sidecars
\* and no head, where a head that could not be read was replaced, or whose
\* collection was published while an ingest added to it.
SiteIsWhole ==
  \A s \in Site : ~Unsettled(s) =>
    /\ siteHead[s].segs \cup siteHead[s].layers \cup Each("blob", siteIndex[s]) \subseteq blobs[s]
    /\ Each("segment", siteCatalog[s]) \subseteq siteHead[s].segs

\* When promote answers that the collection is already fully promoted, a
\* manifest is out with exactly the artifacts it has now.
SkippedIsPublished ==
  [][\A t \in Desk : AlreadyPromoted(t) => \E m \in published : m.refs = cmd[t].arts]_pubVars

\* The manifest behind every CID that promote tells its user to share can be
\* resolved.
PublishedResolves == \A m \in published : Valid(m)
=============================================================================
