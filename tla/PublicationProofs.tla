--------------------------- MODULE PublicationProofs ---------------------------
(* What `wtfoc promote`, `wtfoc pull`, `wtfoc ingest` and `extract-edges`      *)
(* leave at a site, for any number of terminals, sites, documents, commands    *)
(* and kills.  The invariant PubInv says what each head, manifest, site and    *)
(* command carries from one step to the next.                                  *)
EXTENDS Publication, FiniteSetTheorems, FunctionTheorems, TLAPS

\* The pull r to site s is half done: sidecars are written, the head is not.
Half(r, s) == r.site = s /\ r.at \in {"pull catalog", "pull head"}

\* A site that can become settled, and the segments it has then: those of its
\* head and of the heads that half-done pulls will put.
Trusted(s) == s \notin doubtful.sites /\ \A t \in Desk : Half(cmd[t], s) => ~cmd[t].doubt
SegmentsOf(s) ==
  siteHead[s].segs \cup {a \in Artifact : \E t \in Desk : Half(cmd[t], s) /\ a \in cmd[t].head.segs}

\* Ids are given once: whatever bears an id has the same segments.
KnownAs(i, S) ==
  \/ \E s \in Site : siteHead[s].id = i /\ siteHead[s].segs = S
  \/ \E m \in published : m.id = i /\ m.segs = S
  \/ \E t \in Desk : i # 0 /\ cmd[t].base = i /\ cmd[t].head.segs = S
KnownOK ==
  \A i, S : KnownAs(i, S) =>
    /\ i <= stamps
    /\ \A R : KnownAs(i, R) => S = R

HeadOK(h) ==
  /\ \A a \in h.segs : a.kind = "segment"
  /\ \A a \in h.layers : a.kind = "layer"
  /\ h.id = 0 => h = Blank
  /\ h.refs # {} => \E m \in published : m.refs = h.refs

\* The catalog among the artifacts A names documents of segments in S.
Catalogued(A, S) == Each("segment", Of("catalog", A)) \subseteq S

ManifestOK(m) ==
  /\ HeadOK(m) /\ m.id # 0
  /\ m.segs \cup m.layers \subseteq m.refs
  /\ m.id \notin doubtful.ids => Catalogued(m.refs, m.segs)

SiteOK(s) ==
  /\ HeadOK(siteHead[s])
  /\ siteHead[s].segs \cup siteHead[s].layers \cup Each("blob", siteIndex[s]) \subseteq blobs[s]
  /\ Trusted(s) => Each("segment", siteCatalog[s]) \subseteq SegmentsOf(s)

IngestOK(r) == r.at \in {"append", "save catalog", "save index"} =>
  /\ Each("blob", r.index \cup r.docs) \subseteq blobs[r.site]
  /\ r.at = "append" => Each("segment", r.docs) \subseteq blobs[r.site]
  /\ Trusted(r.site) =>
       /\ r.at # "save index" => Each("segment", r.catalog) \subseteq SegmentsOf(r.site)
       /\ r.at = "save catalog" => Each("segment", r.docs) \subseteq SegmentsOf(r.site)

PromoteOK(r) ==
  /\ r.at \in {"take index", "take catalog", "decide", "promote head"} =>
       /\ r.base # 0 /\ siteHead[r.site].id # 0
       /\ r.head.segs \cup r.head.layers \subseteq blobs[r.site]
  /\ r.at \in {"take index", "take catalog"} /\ ~r.doubt /\ r.site \notin doubtful.sites =>
       siteHead[r.site].segs \subseteq r.head.segs
  /\ r.at = "decide" => /\ r.head.segs \cup r.head.layers \subseteq r.arts
                        /\ ~r.doubt => Catalogued(r.arts, r.head.segs)
  /\ r.at = "promote head" => r.head \in published

PullOK(r) == r.at \in {"fetch", "pull index", "pull catalog", "pull head"} =>
  /\ r.head \in published /\ r.arts = r.head.refs
  /\ ~r.doubt => Catalogued(r.arts, r.head.segs)
  /\ r.at # "fetch" =>
       Blobs(r.arts) \cup Each("blob", Of("index", r.arts)) \subseteq blobs[r.site]

CommandOK(r) == HeadOK(r.head) /\ IngestOK(r) /\ PromoteOK(r) /\ PullOK(r)

PubInv ==
  /\ PubTypeOK /\ KnownOK
  /\ \A s \in Site : SiteOK(s)
  /\ \A m \in published : ManifestOK(m)
  /\ \A t \in Desk : CommandOK(cmd[t])

-----------------------------------------------------------------------------
(* Types of the model's operators *)

LEMMA BlankType == /\ Blank \in Manifest /\ Blank.id = 0 /\ Blank.segs = {}
                   /\ Blank.layers = {} /\ Blank.refs = {} /\ Blank.batches = {}
BY DEF Blank, Manifest

LEMMA RestingType == /\ Resting \in DeskCommand /\ Resting.at = "idle" /\ Resting.base = 0
                     /\ Resting.head = Blank /\ Resting.site = Home /\ Resting.doubt = FALSE
                     /\ Resting.docs = {} /\ Resting.index = {} /\ Resting.catalog = {}
                     /\ Resting.arts = {} /\ Resting.force = FALSE
BY BlankType, PublicationConstants DEF Resting, DeskCommand

LEMMA EachType ==
  ASSUME NEW kind \in {"segment", "layer", "blob", "index", "catalog"},
         NEW D, D \subseteq Document
  PROVE  /\ Each(kind, D) \subseteq Artifact
         /\ Art(kind, D) \in Artifact /\ Art(kind, D).kind = kind /\ Art(kind, D).of = D
         /\ \A a \in Each(kind, D) : a.kind = kind
BY DEF Each, Art, Artifact

LEMMA EachUnion == \A kind, D, E : Each(kind, D \cup E) = Each(kind, D) \cup Each(kind, E)
BY DEF Each

LEMMA OfType ==
  ASSUME NEW kind, NEW A, A \subseteq Artifact PROVE Of(kind, A) \subseteq Document
BY DEF Of, Artifact

LEMMA GotIs ==
  ASSUME NEW s \in Site, PubTypeOK, HeadOK(siteHead[s])
  PROVE  /\ Got(s) \in Manifest /\ HeadOK(Got(s))
         /\ Got(s) = siteHead[s] \/ Got(s) = Blank
         /\ Got(s).id # 0 => Got(s) = siteHead[s]
         /\ Got(s).id = 0 => Blank = siteHead[s] \/ ~Valid(siteHead[s])
         /\ Valid(siteHead[s]) => Got(s) = siteHead[s]
  <1>1. HeadOK(Blank)
    BY BlankType DEF HeadOK
  <1>2. siteHead[s] \in Manifest
    BY DEF PubTypeOK
  <1>3. Got(s) = IF Valid(siteHead[s]) THEN siteHead[s] ELSE Blank
    BY DEF Got
  <1>4. siteHead[s].id = 0 => siteHead[s] = Blank
    BY DEF HeadOK
  <1> QED BY <1>1, <1>2, <1>3, <1>4, BlankType

-----------------------------------------------------------------------------
(* What a step leaves to the commands that do not take it *)

Grows ==
  /\ \A s \in Site : /\ blobs[s] \subseteq blobs'[s]
                     /\ Trusted(s)' => Trusted(s) /\ SegmentsOf(s) \subseteq SegmentsOf(s)'
                     /\ siteHead[s].id # 0 => siteHead'[s].id # 0
  /\ published \subseteq published' /\ doubtful.sites \subseteq doubtful'.sites

LEMMA HeadKept ==
  ASSUME NEW h, HeadOK(h), published \subseteq published'
  PROVE  HeadOK(h)'
BY DEF HeadOK

LEMMA CommandKept ==
  ASSUME NEW r \in DeskCommand, CommandOK(r), Grows,
         r.at \in {"take index", "take catalog"} /\ ~r.doubt /\ r.site \notin doubtful'.sites =>
           siteHead'[r.site].segs \subseteq siteHead[r.site].segs
  PROVE  CommandOK(r)'
<1>1. r.site \in Site
  BY DEF DeskCommand
<1>2. HeadOK(r.head)'
  BY HeadKept DEF CommandOK, Grows
<1>3. IngestOK(r)'
  BY <1>1 DEF CommandOK, IngestOK, Grows
<1>4. PromoteOK(r)'
  BY <1>1 DEF CommandOK, PromoteOK, Grows, Catalogued
<1>5. PullOK(r)'
  BY <1>1 DEF CommandOK, PullOK, Grows, Catalogued
<1> QED BY <1>2, <1>3, <1>4, <1>5 DEF CommandOK

LEMMA RestingOK == CommandOK(Resting)
BY RestingType, BlankType DEF CommandOK, HeadOK, IngestOK, PromoteOK, PullOK

\* What a half-done pull of terminal u leaves behind: the pull goes on, or its
\* segments are in the head, or the site is doubtful.
Carried(u) ==
  \A s \in Site : Half(cmd[u], s) =>
    \/ s \in doubtful'.sites
    \/ ~cmd[u].doubt /\ cmd[u].head.segs \subseteq siteHead'[s].segs
    \/ Half(cmd'[u], s) /\ cmd'[u].head = cmd[u].head /\ cmd'[u].doubt = cmd[u].doubt

LEMMA GrowsWith ==
  ASSUME \A u \in Desk : Carried(u),
         published \subseteq published', doubtful.sites \subseteq doubtful'.sites,
         \A s \in Site : blobs[s] \subseteq blobs'[s],
         \A s \in Site : siteHead[s].id # 0 => siteHead'[s].id # 0,
         \A s \in Site : s \notin doubtful'.sites => siteHead[s].segs \subseteq siteHead'[s].segs
  PROVE  Grows
<1>1. ASSUME NEW s \in Site, Trusted(s)'
      PROVE  Trusted(s) /\ SegmentsOf(s) \subseteq SegmentsOf(s)'
  <2>1. s \notin doubtful'.sites /\ \A u \in Desk : Half(cmd'[u], s) => ~cmd'[u].doubt
    BY <1>1 DEF Trusted, Half
  <2>2. \A u \in Desk : Half(cmd[u], s) =>
          \/ ~cmd[u].doubt /\ cmd[u].head.segs \subseteq siteHead'[s].segs
          \/ Half(cmd'[u], s) /\ cmd'[u].head = cmd[u].head /\ cmd'[u].doubt = cmd[u].doubt
    BY <2>1 DEF Carried
  <2>3. Trusted(s)
    BY <2>1, <2>2 DEF Trusted
  <2>4. SegmentsOf(s) \subseteq SegmentsOf(s)'
    BY <2>1, <2>2 DEF SegmentsOf, Half
  <2> QED BY <2>3, <2>4
<1> QED BY <1>1 DEF Grows

\* A step of terminal t that puts no head.
Carries(r, n) ==
  \A s \in Site : Half(r, s) =>
    s \in doubtful'.sites \/ (Half(n, s) /\ n.head = r.head /\ n.doubt = r.doubt)

LEMMA GrowsIf ==
  ASSUME PubTypeOK, NEW t \in Desk, NEW n \in DeskCommand, cmd' = [cmd EXCEPT ![t] = n],
         UNCHANGED siteHead, published \subseteq published',
         \A s \in Site : blobs[s] \subseteq blobs'[s],
         doubtful.sites \subseteq doubtful'.sites, Carries(cmd[t], n)
  PROVE  Grows
<1>1. cmd'[t] = n /\ \A u \in Desk : u # t => cmd'[u] = cmd[u]
  BY DEF PubTypeOK
<1>2. \A u \in Desk : Carried(u)
  BY <1>1 DEF Carried, Carries, Half
<1> QED BY <1>2, GrowsWith

LEMMA OtherCommand ==
  ASSUME PubInv, Grows, NEW u \in Desk, cmd'[u] = cmd[u],
         cmd[u].at \in {"take index", "take catalog"} /\ ~cmd[u].doubt
           /\ cmd[u].site \notin doubtful'.sites
             => siteHead'[cmd[u].site].segs \subseteq siteHead[cmd[u].site].segs
  PROVE  CommandOK(cmd[u])'
<1>1. PICK r \in DeskCommand : r = cmd[u]
  BY DEF PubInv, PubTypeOK
<1>2. CommandOK(r)
  BY <1>1 DEF PubInv
<1>3. CommandOK(r)'
  BY <1>1, <1>2, CommandKept
<1> QED BY <1>1, <1>3

LEMMA SiteKept ==
  ASSUME PubInv, Grows, NEW s \in Site, UNCHANGED <<siteIndex, siteCatalog>>,
         HeadOK(siteHead[s])', siteHead'[s].segs \cup siteHead'[s].layers \subseteq blobs'[s]
  PROVE  SiteOK(s)'
BY DEF PubInv, SiteOK, Grows

LEMMA ManifestKept ==
  ASSUME PubInv, NEW m \in published, published \subseteq published',
         doubtful.ids \subseteq doubtful'.ids
  PROVE  ManifestOK(m)'
<1>1. HeadOK(m)'
  BY HeadKept DEF PubInv, ManifestOK
<1> QED BY <1>1 DEF PubInv, ManifestOK, Catalogued

\* The next id is new.
LEMMA NewId ==
  ASSUME PubInv, NEW T, stamps' \in {stamps, stamps + 1},
         \A i, S : KnownAs(i, S)' =>
           \/ KnownAs(i, S)
           \/ i = stamps + 1 /\ stamps' = stamps + 1 /\ S = T
  PROVE  KnownOK'
<1>1. stamps \in Nat
  BY DEF PubInv, PubTypeOK
<1>2. \A i, S : KnownAs(i, S) => i \in Nat /\ i <= stamps /\ \A R : KnownAs(i, R) => S = R
  <2>1. /\ \A s \in Site : siteHead[s].id \in Nat
        /\ \A m \in published : m.id \in Nat
        /\ \A t \in Desk : cmd[t].base \in Nat
    BY DEF PubInv, PubTypeOK, DeskCommand, Manifest
  <2>2. \A i, S : KnownAs(i, S) => i \in Nat
    BY <2>1 DEF KnownAs
  <2> QED BY <2>2 DEF PubInv, KnownOK
<1>3. ASSUME NEW i, NEW S, KnownAs(i, S)' PROVE i <= stamps'
  BY <1>1, <1>2, <1>3
<1>4. ASSUME NEW i, NEW S, NEW R, KnownAs(i, S)', KnownAs(i, R)' PROVE S = R
  <2>1. ~KnownAs(stamps + 1, S) /\ ~KnownAs(stamps + 1, R)
    BY <1>1, <1>2
  <2> QED BY <1>2, <1>4, <2>1
<1> QED BY <1>3, <1>4 DEF KnownOK

LEMMA Advance ==
  ASSUME PubInv, NEW t \in Desk, NEW n \in DeskCommand, cmd' = [cmd EXCEPT ![t] = n],
         UNCHANGED <<siteHead, published, stamps>>, Grows,
         siteIndex' \in [Site -> SUBSET Document], siteCatalog' \in [Site -> SUBSET Document],
         blobs' \in [Site -> SUBSET Artifact],
         doubtful' \in [sites : SUBSET Site, ids : SUBSET (1..stamps)],
         doubtful'.ids = doubtful.ids,
         effort' \in [commands : 0..MaxPublish, kills : 0..MaxStops],
         \A s \in Site : Each("blob", siteIndex'[s]) \subseteq blobs'[s],
         \A s \in Site : Trusted(s)' => Each("segment", siteCatalog'[s]) \subseteq SegmentsOf(s)',
         CommandOK(n)',
         n.base # 0 => \/ n.base = cmd[t].base /\ n.head.segs = cmd[t].head.segs
                       \/ KnownAs(n.base, n.head.segs)
  PROVE  PubInv'
<1>1. cmd'[t] = n /\ \A u \in Desk : u # t => cmd'[u] = cmd[u]
  BY DEF PubInv, PubTypeOK
<1>2. PubTypeOK'
  BY DEF PubInv, PubTypeOK
<1>3. \A i, S : KnownAs(i, S)' => KnownAs(i, S)
  BY <1>1 DEF KnownAs
<1>4. KnownOK'
  BY <1>3 DEF PubInv, KnownOK
<1>5. ASSUME NEW s \in Site PROVE SiteOK(s)'
  <2>1. HeadOK(siteHead[s])'
    BY DEF HeadOK, PubInv, SiteOK, Grows
  <2> QED BY <2>1 DEF PubInv, SiteOK, Grows
<1>6. ASSUME NEW m \in published' PROVE ManifestOK(m)'
  BY DEF PubInv, ManifestOK, HeadOK, Catalogued
<1>7. ASSUME NEW u \in Desk PROVE CommandOK(cmd[u])'
  <2>1. CASE u = t
    BY <1>1, <2>1
  <2>2. CASE u # t
    <3>1. PICK r \in DeskCommand : r = cmd[u]
      BY DEF PubInv, PubTypeOK
    <3>2. CommandOK(r)
      BY <3>1 DEF PubInv
    <3>3. CommandOK(r)'
      BY <3>2, CommandKept
    <3>4. cmd'[u] = r
      BY <1>1, <2>2, <3>1
    <3> QED BY <3>3, <3>4
  <2> QED BY <2>1, <2>2
<1> QED BY <1>2, <1>4, <1>5, <1>6, <1>7 DEF PubInv

-----------------------------------------------------------------------------
(* The steps that put no head and publish nothing *)

\* What the invariant says of terminal t and its site.
LEMMA OfCommand ==
  ASSUME PubInv, NEW t \in Desk
  PROVE  \E r \in DeskCommand :
           /\ r = cmd[t] /\ CommandOK(r) /\ r.site \in Site /\ SiteOK(r.site)
           /\ r.head \in Manifest /\ r.arts \subseteq Artifact
           /\ r.docs \subseteq Document /\ r.index \subseteq Document
           /\ r.catalog \subseteq Document
<1>1. cmd[t] \in DeskCommand /\ CommandOK(cmd[t])
  BY DEF PubInv, PubTypeOK
<1>2. cmd[t].site \in Site
  BY <1>1 DEF DeskCommand
<1>3. SiteOK(cmd[t].site)
  BY <1>2 DEF PubInv
<1> QED BY <1>1, <1>2, <1>3 DEF DeskCommand

\* The command is over, and has left no half-done pull that is trusted.
LEMMA Over ==
  ASSUME PubInv, NEW t \in Desk, Ends(t), UNCHANGED <<siteHead, published, stamps>>,
         siteIndex' \in [Site -> SUBSET Document], siteCatalog' \in [Site -> SUBSET Document],
         blobs' \in [Site -> SUBSET Artifact],
         \A s \in Site : blobs[s] \subseteq blobs'[s],
         doubtful' \in [sites : SUBSET Site, ids : SUBSET (1..stamps)],
         doubtful'.ids = doubtful.ids, doubtful.sites \subseteq doubtful'.sites,
         effort' \in [commands : 0..MaxPublish, kills : 0..MaxStops],
         \A s \in Site : Half(cmd[t], s) => s \in doubtful'.sites,
         \A s \in Site : Each("blob", siteIndex'[s]) \subseteq blobs'[s],
         \A s \in Site : Trusted(s) => Each("segment", siteCatalog'[s]) \subseteq SegmentsOf(s)
  PROVE  PubInv'
<1>1. Resting \in DeskCommand /\ Resting.base = 0
  BY RestingType
<1>2. cmd' = [cmd EXCEPT ![t] = Resting]
  BY DEF Ends
<1>3. Carries(cmd[t], Resting)
  BY DEF Carries
<1>4. Grows
  BY <1>1, <1>2, <1>3, GrowsIf DEF PubInv
<1>5. CommandOK(Resting)'
  <2>1. Resting.at # "take index" /\ Resting.at # "take catalog"
    BY RestingType
  <2> QED BY <1>1, <1>4, <2>1, RestingOK, CommandKept
<1>6. \A s \in Site : Trusted(s)' => Each("segment", siteCatalog'[s]) \subseteq SegmentsOf(s)'
  BY <1>4 DEF Grows
<1> QED BY <1>1, <1>2, <1>4, <1>5, <1>6, Advance

LEMMA IngestKeeps ==
  ASSUME PubInv, NEW t \in Desk, NEW s \in Site, NEW d \in Document, Ingest(t, s, d)
  PROVE  PubInv'
<1>1. PICK n \in DeskCommand :
        /\ n = [Resting EXCEPT !.at = IF IsKnown(s, d) THEN "save catalog" ELSE "append",
                  !.site = s, !.docs = {d}, !.index = siteIndex[s], !.catalog = siteCatalog[s]]
        /\ n.at = (IF IsKnown(s, d) THEN "save catalog" ELSE "append")
        /\ n.site = s /\ n.docs = {d} /\ n.index = siteIndex[s] /\ n.catalog = siteCatalog[s]
        /\ n.head = Blank /\ n.base = 0
  <2>1. siteIndex[s] \subseteq Document /\ siteCatalog[s] \subseteq Document
    BY DEF PubInv, PubTypeOK
  <2>2. PICK at \in {"save catalog", "append"} :
          at = (IF IsKnown(s, d) THEN "save catalog" ELSE "append")
    OBVIOUS
  <2> DEFINE m == [Resting EXCEPT !.at = at, !.site = s, !.docs = {d}, !.index = siteIndex[s],
                                  !.catalog = siteCatalog[s]]
  <2>3. Resting \in DeskCommand /\ Resting.head = Blank /\ Resting.base = 0
    BY RestingType
  <2>4. m \in DeskCommand
    BY <2>1, <2>3 DEF DeskCommand
  <2>5. /\ m.at = at /\ m.site = s /\ m.docs = {d} /\ m.index = siteIndex[s]
        /\ m.catalog = siteCatalog[s] /\ m.head = Blank /\ m.base = 0
    BY <2>3 DEF DeskCommand
  <2> QED BY <2>2, <2>4, <2>5
<1>2. /\ cmd' = [cmd EXCEPT ![t] = n] /\ cmd[t].at = "idle"
      /\ effort.commands < MaxPublish /\ effort' = [effort EXCEPT !.commands = @ + 1]
      /\ UNCHANGED <<siteHead, siteIndex, siteCatalog, published, stamps, doubtful>>
  BY <1>1 DEF Ingest, Begins
<1>3. \A v \in Site : blobs'[v] \in SUBSET Artifact /\ blobs[v] \subseteq blobs'[v]
  <2>1. Each("segment", {d}) \subseteq Artifact /\ Each("blob", {d} \ siteIndex[s]) \subseteq Artifact
    BY EachType
  <2> QED BY <2>1 DEF Ingest, PubInv, PubTypeOK
<1>4. blobs' \in [Site -> SUBSET Artifact]
  BY <1>3 DEF Ingest, PubInv, PubTypeOK
<1>5. /\ Each("blob", {d} \ siteIndex[s]) \subseteq blobs'[s]
      /\ ~IsKnown(s, d) => Each("segment", {d}) \subseteq blobs'[s]
  BY DEF Ingest, PubInv, PubTypeOK
<1>6. Grows
  <2>1. Carries(cmd[t], n)
    BY <1>2 DEF Carries, Half
  <2> QED BY <1>1, <1>2, <1>3, <2>1, GrowsIf DEF PubInv
<1>7. effort' \in [commands : 0..MaxPublish, kills : 0..MaxStops]
  <2>1. effort.commands + 1 \in 0..MaxPublish
    BY <1>2, PublicationConstants DEF PubInv, PubTypeOK
  <2> QED BY <1>2, <2>1 DEF PubInv, PubTypeOK
<1>8. SiteOK(s)
  BY <1>2, <1>3, <1>6 DEF PubInv, SiteOK
<1>9. IngestOK(n)'
  <2>1. Each("blob", siteIndex[s] \cup {d}) \subseteq blobs'[s]
    <3>1. siteIndex[s] \cup {d} = siteIndex[s] \cup ({d} \ siteIndex[s])
      OBVIOUS
    <3>2. Each("blob", siteIndex[s]) \subseteq blobs'[s]
      BY <1>3, <1>8 DEF SiteOK
    <3> QED BY <1>5, <3>1, <3>2, EachUnion
  <2>2. ASSUME Trusted(s)'
        PROVE  /\ Each("segment", siteCatalog[s]) \subseteq SegmentsOf(s)'
               /\ IsKnown(s, d) => Each("segment", {d}) \subseteq SegmentsOf(s)'
    <3>1. /\ Each("segment", siteCatalog[s]) \subseteq SegmentsOf(s)
          /\ SegmentsOf(s) \subseteq SegmentsOf(s)'
      BY <1>6, <1>8, <2>2 DEF Grows, SiteOK
    <3>2. Got(s).segs \subseteq SegmentsOf(s)
      <4>1. HeadOK(siteHead[s]) /\ PubTypeOK
        BY <1>8 DEF SiteOK, PubInv
      <4>2. Got(s) = siteHead[s] \/ Got(s) = Blank
        BY <4>1, GotIs
      <4> QED BY <4>2, BlankType DEF SegmentsOf
    <3>3. d \in siteCatalog[s] => Art("segment", {d}) \in Each("segment", siteCatalog[s])
      BY DEF Each
    <3>4. IsKnown(s, d) => d \in siteCatalog[s] \/ Art("segment", {d}) \in Got(s).segs
      BY DEF IsKnown
    <3>5. Each("segment", {d}) = {Art("segment", {d})}
      BY DEF Each
    <3> QED BY <3>1, <3>2, <3>3, <3>4, <3>5
  <2> QED BY <1>1, <1>5, <2>1, <2>2 DEF IngestOK
<1>10. CommandOK(n)'
  <2>1. HeadOK(Blank)'
    BY BlankType DEF HeadOK
  <2> QED BY <1>1, <1>9, <2>1 DEF CommandOK, PromoteOK, PullOK
<1>11. \A v \in Site : Each("blob", siteIndex'[v]) \subseteq blobs'[v]
  BY <1>2, <1>3 DEF PubInv, SiteOK
<1>12. \A v \in Site : Trusted(v)' => Each("segment", siteCatalog'[v]) \subseteq SegmentsOf(v)'
  BY <1>2, <1>6 DEF PubInv, SiteOK, Grows
<1>13. siteIndex' \in [Site -> SUBSET Document] /\ siteCatalog' \in [Site -> SUBSET Document]
       /\ doubtful' \in [sites : SUBSET Site, ids : SUBSET (1..stamps)]
  BY <1>2 DEF PubInv, PubTypeOK
<1> QED BY <1>1, <1>2, <1>4, <1>6, <1>7, <1>10, <1>11, <1>12, <1>13, Advance

LEMMA SavesCatalogKeeps ==
  ASSUME PubInv, NEW t \in Desk, SavesCatalog(t)
  PROVE  PubInv'
<1>1. PICK r \in DeskCommand :
        /\ r = cmd[t] /\ CommandOK(r) /\ r.site \in Site /\ SiteOK(r.site)
        /\ r.docs \subseteq Document /\ r.index \subseteq Document /\ r.catalog \subseteq Document
  BY OfCommand
<1>2. /\ r.at = "save catalog"
      /\ siteCatalog' = [siteCatalog EXCEPT ![r.site] = r.catalog \cup r.docs]
      /\ UNCHANGED <<siteHead, siteIndex, blobs, published, stamps, doubtful, effort>>
  BY <1>1 DEF SavesCatalog
<1>3. /\ siteIndex' \in [Site -> SUBSET Document]
      /\ doubtful' \in [sites : SUBSET Site, ids : SUBSET (1..stamps)]
      /\ blobs' \in [Site -> SUBSET Artifact]
      /\ effort' \in [commands : 0..MaxPublish, kills : 0..MaxStops]
      /\ \A s \in Site : Each("blob", siteIndex'[s]) \subseteq blobs'[s]
  BY <1>2 DEF PubInv, PubTypeOK, SiteOK
<1>4. siteCatalog' \in [Site -> SUBSET Document]
  BY <1>1, <1>2 DEF PubInv, PubTypeOK
<1>5. ASSUME NEW s \in Site, Trusted(s)
      PROVE  Each("segment", siteCatalog'[s]) \subseteq SegmentsOf(s)
  <2>1. CASE s = r.site
    <3>1. siteCatalog'[s] = r.catalog \cup r.docs
      BY <1>2, <2>1 DEF PubInv, PubTypeOK
    <3>2. /\ Each("segment", r.catalog) \subseteq SegmentsOf(s)
          /\ Each("segment", r.docs) \subseteq SegmentsOf(s)
      BY <1>1, <1>2, <1>5, <2>1 DEF CommandOK, IngestOK
    <3> QED BY <3>1, <3>2, EachUnion
  <2>2. CASE s # r.site
    BY <1>2, <1>5, <2>2 DEF PubInv, PubTypeOK, SiteOK
  <2> QED BY <2>1, <2>2
<1>6. CASE r.docs \subseteq r.index
  <2>1. Ends(t)
    BY <1>1, <1>6 DEF SavesCatalog
  <2>2. \A s \in Site : ~Half(cmd[t], s)
    BY <1>1, <1>2 DEF Half
  <2> QED BY <1>2, <1>3, <1>4, <1>5, <2>1, <2>2, Over
<1>7. CASE ~(r.docs \subseteq r.index)
  <2>1. PICK n \in DeskCommand : n = [r EXCEPT !.at = "save index"]
    BY DEF DeskCommand
  <2>2. /\ n.at = "save index" /\ n.site = r.site /\ n.docs = r.docs /\ n.index = r.index
        /\ n.head = r.head /\ n.base = r.base
    BY <2>1 DEF DeskCommand
  <2>3. cmd' = [cmd EXCEPT ![t] = n]
    BY <1>1, <1>7, <2>1 DEF SavesCatalog, Goes
  <2>4. Grows
    <3>1. Carries(cmd[t], n)
      BY <1>1, <1>2 DEF Carries, Half
    <3> QED BY <1>2, <2>3, <3>1, GrowsIf DEF PubInv
  <2>5. CommandOK(n)'
    <3>1. HeadOK(n.head)'
      BY <1>1, <1>2, <2>2, HeadKept DEF CommandOK
    <3> QED BY <1>1, <1>2, <2>2, <3>1 DEF CommandOK, IngestOK, PromoteOK, PullOK
  <2>6. \A s \in Site : Trusted(s)' => Each("segment", siteCatalog'[s]) \subseteq SegmentsOf(s)'
    BY <1>5, <2>4 DEF Grows
  <2> QED BY <1>1, <1>2, <1>3, <1>4, <2>2, <2>3, <2>4, <2>5, <2>6, Advance
<1> QED BY <1>6, <1>7

\* Nothing that the types and the sites speak of changes.
LEMMA SitesRest ==
  ASSUME PubInv, UNCHANGED <<siteVars, doubtful, stamps>>
  PROVE  /\ siteIndex' \in [Site -> SUBSET Document] /\ siteCatalog' \in [Site -> SUBSET Document]
         /\ blobs' \in [Site -> SUBSET Artifact]
         /\ doubtful' \in [sites : SUBSET Site, ids : SUBSET (1..stamps)]
         /\ doubtful'.ids = doubtful.ids /\ doubtful'.sites = doubtful.sites
         /\ \A s \in Site : blobs[s] \subseteq blobs'[s]
         /\ \A s \in Site : Each("blob", siteIndex'[s]) \subseteq blobs'[s]
         /\ \A s \in Site : Trusted(s) => Each("segment", siteCatalog'[s]) \subseteq SegmentsOf(s)
         /\ Grows => \A s \in Site : Trusted(s)' =>
                       Each("segment", siteCatalog'[s]) \subseteq SegmentsOf(s)'
<1>1. UNCHANGED <<siteHead, siteIndex, siteCatalog, blobs>>
  BY DEF siteVars
<1>2. /\ siteIndex \in [Site -> SUBSET Document] /\ siteCatalog \in [Site -> SUBSET Document]
      /\ blobs \in [Site -> SUBSET Artifact]
      /\ doubtful \in [sites : SUBSET Site, ids : SUBSET (1..stamps)]
  BY DEF PubInv, PubTypeOK
<1>3. \A s \in Site : SiteOK(s)
  BY DEF PubInv
<1> QED BY <1>1, <1>2, <1>3 DEF SiteOK, Grows

LEMMA SavesIndexKeeps ==
  ASSUME PubInv, NEW t \in Desk, SavesIndex(t)
  PROVE  PubInv'
<1>1. PICK r \in DeskCommand :
        /\ r = cmd[t] /\ CommandOK(r) /\ r.site \in Site /\ SiteOK(r.site)
        /\ r.docs \subseteq Document /\ r.index \subseteq Document /\ r.catalog \subseteq Document
  BY OfCommand
<1>2. /\ r.at = "save index"
      /\ siteIndex' = [siteIndex EXCEPT ![r.site] = r.index \cup r.docs]
      /\ Ends(t)
      /\ UNCHANGED <<siteHead, siteCatalog, blobs, published, stamps, doubtful, effort>>
  BY <1>1 DEF SavesIndex
<1>3. /\ siteCatalog' \in [Site -> SUBSET Document]
      /\ doubtful' \in [sites : SUBSET Site, ids : SUBSET (1..stamps)]
      /\ blobs' \in [Site -> SUBSET Artifact]
      /\ effort' \in [commands : 0..MaxPublish, kills : 0..MaxStops]
      /\ \A s \in Site : Trusted(s) => Each("segment", siteCatalog'[s]) \subseteq SegmentsOf(s)
  BY <1>2 DEF PubInv, PubTypeOK, SiteOK
<1>4. siteIndex' \in [Site -> SUBSET Document]
  BY <1>1, <1>2 DEF PubInv, PubTypeOK
<1>5. ASSUME NEW s \in Site
      PROVE  Each("blob", siteIndex'[s]) \subseteq blobs'[s]
  <2>1. CASE s = r.site
    <3>1. siteIndex'[s] = r.index \cup r.docs
      BY <1>2, <2>1 DEF PubInv, PubTypeOK
    <3> QED BY <1>1, <1>2, <2>1, <3>1 DEF CommandOK, IngestOK
  <2>2. CASE s # r.site
    BY <1>2, <1>5, <2>2 DEF PubInv, PubTypeOK, SiteOK
  <2> QED BY <2>1, <2>2
<1>6. \A s \in Site : ~Half(cmd[t], s)
  BY <1>1, <1>2 DEF Half
<1> QED BY <1>2, <1>3, <1>4, <1>5, <1>6, Over

LEMMA AlreadyPromotedKeeps ==
  ASSUME PubInv, NEW t \in Desk, AlreadyPromoted(t)
  PROVE  PubInv'
<1>1. /\ cmd[t].at = "decide" /\ Ends(t)
      /\ UNCHANGED <<siteVars, published, stamps, doubtful, effort>>
  BY DEF AlreadyPromoted
<1>2. \A s \in Site : ~Half(cmd[t], s)
  BY <1>1 DEF Half
<1>3. UNCHANGED siteHead /\ effort' \in [commands : 0..MaxPublish, kills : 0..MaxStops]
  BY <1>1 DEF siteVars, PubInv, PubTypeOK
<1> QED BY <1>1, <1>2, <1>3, SitesRest, Over

LEMMA StopKeeps ==
  ASSUME PubInv, NEW t \in Desk, Stop(t)
  PROVE  PubInv'
<1>1. PICK r \in DeskCommand : r = cmd[t] /\ r.site \in Site
  BY OfCommand
<1>2. /\ effort.kills < MaxStops /\ effort' = [effort EXCEPT !.kills = @ + 1]
      /\ doubtful' = IF r.at \in {"pull catalog", "pull head"}
                     THEN [doubtful EXCEPT !.sites = @ \cup {r.site}] ELSE doubtful
      /\ Ends(t)
      /\ UNCHANGED <<siteHead, siteIndex, siteCatalog, blobs, published, stamps>>
  BY <1>1 DEF Stop, siteVars
<1>3. effort' \in [commands : 0..MaxPublish, kills : 0..MaxStops]
  <2>1. effort.kills \in 0..MaxStops /\ MaxStops \in Nat
    BY PublicationConstants DEF PubInv, PubTypeOK
  <2>2. effort.kills < MaxStops
    BY <1>2
  <2>3. effort.kills + 1 \in 0..MaxStops
    BY <2>1, <2>2
  <2> QED BY <1>2, <2>3 DEF PubInv, PubTypeOK
<1>4. /\ doubtful' \in [sites : SUBSET Site, ids : SUBSET (1..stamps)]
      /\ doubtful'.ids = doubtful.ids /\ doubtful.sites \subseteq doubtful'.sites
      /\ \A s \in Site : Half(r, s) => s \in doubtful'.sites
  BY <1>1, <1>2 DEF PubInv, PubTypeOK, Half
<1>5. /\ siteIndex' \in [Site -> SUBSET Document] /\ siteCatalog' \in [Site -> SUBSET Document]
      /\ blobs' \in [Site -> SUBSET Artifact]
      /\ \A s \in Site : blobs[s] \subseteq blobs'[s]
      /\ \A s \in Site : Each("blob", siteIndex'[s]) \subseteq blobs'[s]
      /\ \A s \in Site : Trusted(s) => Each("segment", siteCatalog'[s]) \subseteq SegmentsOf(s)
  BY <1>2 DEF PubInv, PubTypeOK, SiteOK
<1> QED BY <1>1, <1>2, <1>3, <1>4, <1>5, Over

LEMMA FetchFailsKeeps ==
  ASSUME PubInv, NEW t \in Desk, FetchFails(t)
  PROVE  PubInv'
<1>1. PICK r \in DeskCommand : r = cmd[t] /\ r.site \in Site /\ r.head \in Manifest
  BY OfCommand
<1>2. /\ r.at = "fetch" /\ Ends(t)
      /\ UNCHANGED <<siteHead, siteIndex, siteCatalog, published, stamps, doubtful, effort>>
  BY <1>1 DEF FetchFails
<1>3. PICK A \in SUBSET Artifact : blobs' = [blobs EXCEPT ![r.site] = @ \cup A]
  BY <1>1 DEF FetchFails, Manifest
<1>4. blobs' \in [Site -> SUBSET Artifact] /\ \A s \in Site : blobs[s] \subseteq blobs'[s]
  BY <1>1, <1>3 DEF PubInv, PubTypeOK
<1>5. \A s \in Site : ~Half(cmd[t], s)
  BY <1>1, <1>2 DEF Half
<1>6. /\ siteIndex' \in [Site -> SUBSET Document] /\ siteCatalog' \in [Site -> SUBSET Document]
      /\ doubtful' \in [sites : SUBSET Site, ids : SUBSET (1..stamps)]
      /\ effort' \in [commands : 0..MaxPublish, kills : 0..MaxStops]
      /\ \A s \in Site : Each("blob", siteIndex'[s]) \subseteq blobs'[s]
      /\ \A s \in Site : Trusted(s) => Each("segment", siteCatalog'[s]) \subseteq SegmentsOf(s)
  BY <1>2, <1>4 DEF PubInv, PubTypeOK, SiteOK
<1> QED BY <1>2, <1>4, <1>5, <1>6, Over

LEMMA PromoteKeeps ==
  ASSUME PubInv, NEW t \in Desk, NEW s \in Site, NEW force \in BOOLEAN, Promote(t, s, force)
  PROVE  PubInv'
<1>1. HeadOK(siteHead[s]) /\ PubTypeOK /\ Got(s).id # 0
  BY DEF PubInv, SiteOK, Promote
<1>2. PICK h \in Manifest : h = siteHead[s] /\ Got(s) = h /\ HeadOK(h) /\ h.id # 0
  BY <1>1, GotIs DEF PubTypeOK
<1>3. PICK n \in DeskCommand :
        /\ n = [Resting EXCEPT !.at = "take index", !.site = s, !.force = force,
                               !.head = Got(s), !.base = Got(s).id]
        /\ n.at = "take index" /\ n.site = s /\ n.head = h /\ n.base = h.id
  <2> DEFINE m == [Resting EXCEPT !.at = "take index", !.site = s, !.force = force,
                                  !.head = h, !.base = h.id]
  <2>1. Resting \in DeskCommand /\ h.id \in Nat
    BY RestingType DEF Manifest
  <2>2. m \in DeskCommand
    BY <2>1 DEF DeskCommand
  <2>3. m.at = "take index" /\ m.site = s /\ m.head = h /\ m.base = h.id
    BY <2>1 DEF DeskCommand
  <2> QED BY <1>2, <2>2, <2>3
<1>4. /\ cmd' = [cmd EXCEPT ![t] = n] /\ cmd[t].at = "idle"
      /\ effort.commands < MaxPublish /\ effort' = [effort EXCEPT !.commands = @ + 1]
      /\ UNCHANGED <<siteHead, siteVars, published, stamps, doubtful>>
  BY <1>3 DEF Promote, Begins, siteVars
<1>5. effort' \in [commands : 0..MaxPublish, kills : 0..MaxStops]
  <2>1. effort.commands + 1 \in 0..MaxPublish
    BY <1>4, PublicationConstants DEF PubInv, PubTypeOK
  <2> QED BY <1>4, <2>1 DEF PubInv, PubTypeOK
<1>6. Grows
  <2>1. Carries(cmd[t], n)
    BY <1>4 DEF Carries, Half
  <2> QED BY <1>1, <1>4, <2>1, SitesRest, GrowsIf
<1>7. CommandOK(n)'
  <2>1. HeadOK(n.head)'
    BY <1>2, <1>3, <1>4, HeadKept
  <2>2. h.segs \cup h.layers \subseteq blobs'[s]
    BY <1>2, <1>4 DEF PubInv, SiteOK, siteVars
  <2> QED BY <1>2, <1>3, <1>4, <2>1, <2>2 DEF CommandOK, IngestOK, PromoteOK, PullOK
<1>8. KnownAs(n.base, n.head.segs)
  BY <1>2, <1>3 DEF KnownAs
<1> QED BY <1>4, <1>5, <1>6, <1>7, <1>8, SitesRest, Advance

LEMMA TakeIndexKeeps ==
  ASSUME PubInv, NEW t \in Desk, TakeIndex(t)
  PROVE  PubInv'
<1>1. PICK r \in DeskCommand : r = cmd[t] /\ CommandOK(r) /\ r.site \in Site
  BY OfCommand
<1>2. PICK n \in DeskCommand : n = [r EXCEPT !.at = "take catalog", !.index = siteIndex[r.site]]
  BY <1>1 DEF PubInv, PubTypeOK, DeskCommand
<1>3. /\ n.at = "take catalog" /\ n.site = r.site /\ n.head = r.head /\ n.base = r.base
      /\ n.doubt = r.doubt
  BY <1>2 DEF DeskCommand
<1>4. /\ r.at = "take index" /\ cmd' = [cmd EXCEPT ![t] = n]
      /\ UNCHANGED <<siteHead, siteVars, published, stamps, doubtful, effort>>
  <2>1. cmd' = [cmd EXCEPT ![t] = [@ EXCEPT !.at = "take catalog", !.index = siteIndex[r.site]]]
    BY <1>1 DEF TakeIndex, PubInv, PubTypeOK
  <2> QED BY <1>1, <1>2, <2>1 DEF TakeIndex, siteVars
<1>5. Grows
  <2>1. Carries(cmd[t], n)
    BY <1>1, <1>4 DEF Carries, Half
  <2> QED BY <1>4, <2>1, SitesRest, GrowsIf DEF PubInv
<1>6. CommandOK(n)'
  <2>1. HeadOK(n.head)'
    BY <1>1, <1>3, <1>4, HeadKept DEF CommandOK
  <2> QED BY <1>1, <1>3, <1>4, <2>1 DEF CommandOK, IngestOK, PromoteOK, PullOK, siteVars
<1>7. effort' \in [commands : 0..MaxPublish, kills : 0..MaxStops]
  BY <1>4 DEF PubInv, PubTypeOK
<1> QED BY <1>1, <1>3, <1>4, <1>5, <1>6, <1>7, SitesRest, Advance

LEMMA PullKeeps ==
  ASSUME PubInv, NEW t \in Desk, NEW s \in Site, NEW m \in published, Pull(t, s, m)
  PROVE  PubInv'
<1>1. m \in Manifest /\ ManifestOK(m) /\ PubTypeOK
  BY DEF PubInv, PubTypeOK
<1>2. PICK n \in DeskCommand :
        /\ n = [Resting EXCEPT !.at = "fetch", !.site = s, !.head = m, !.arts = m.refs,
                               !.doubt = m.id \in doubtful.ids]
        /\ n.at = "fetch" /\ n.site = s /\ n.head = m /\ n.arts = m.refs
        /\ n.doubt = (m.id \in doubtful.ids) /\ n.base = 0
  <2>1. PICK doubt \in BOOLEAN : doubt = (m.id \in doubtful.ids)
    <3>1. (m.id \in doubtful.ids) \in BOOLEAN
      OBVIOUS
    <3> QED BY <3>1, Zenon
  <2> DEFINE c == [Resting EXCEPT !.at = "fetch", !.site = s, !.head = m, !.arts = m.refs,
                                  !.doubt = doubt]
  <2>2. Resting \in DeskCommand /\ Resting.base = 0 /\ m.refs \subseteq Artifact
    BY <1>1, RestingType DEF Manifest
  <2>3. c \in DeskCommand
    BY <1>1, <2>2 DEF DeskCommand
  <2>4. /\ c.at = "fetch" /\ c.site = s /\ c.head = m /\ c.arts = m.refs /\ c.doubt = doubt
        /\ c.base = 0
    BY <2>2 DEF DeskCommand
  <2> QED BY <2>1, <2>3, <2>4
<1>3. /\ cmd' = [cmd EXCEPT ![t] = n] /\ cmd[t].at = "idle"
      /\ effort.commands < MaxPublish /\ effort' = [effort EXCEPT !.commands = @ + 1]
      /\ UNCHANGED <<siteHead, siteVars, published, stamps, doubtful>>
  BY <1>2 DEF Pull, Begins, siteVars
<1>4. effort' \in [commands : 0..MaxPublish, kills : 0..MaxStops]
  <2>1. effort.commands + 1 \in 0..MaxPublish
    BY <1>3, PublicationConstants DEF PubInv, PubTypeOK
  <2> QED BY <1>3, <2>1 DEF PubInv, PubTypeOK
<1>5. Grows
  <2>1. Carries(cmd[t], n)
    BY <1>3 DEF Carries, Half
  <2> QED BY <1>1, <1>3, <2>1, SitesRest, GrowsIf
<1>6. CommandOK(n)'
  <2>1. HeadOK(n.head)'
    BY <1>1, <1>2, <1>3, HeadKept DEF ManifestOK
  <2>2. ~n.doubt => Catalogued(n.arts, n.head.segs)'
    BY <1>1, <1>2 DEF ManifestOK, Catalogued
  <2> QED BY <1>2, <1>3, <2>1, <2>2 DEF CommandOK, IngestOK, PromoteOK, PullOK
<1> QED BY <1>2, <1>3, <1>4, <1>5, <1>6, SitesRest, Advance

LEMMA TakeCatalogKeeps ==
  ASSUME PubInv, NEW t \in Desk, TakeCatalog(t)
  PROVE  PubInv'
<1>1. PICK r \in DeskCommand :
        /\ r = cmd[t] /\ CommandOK(r) /\ r.site \in Site /\ SiteOK(r.site)
        /\ r.head \in Manifest /\ r.index \subseteq Document
  BY OfCommand
<1>2. PICK D \in SUBSET Document : D = siteCatalog[r.site]
  BY <1>1 DEF PubInv, PubTypeOK
<1>3. PICK A : A = r.head.segs \cup r.head.layers \cup Each("blob", r.index)
                     \cup Sidecar("index", r.index) \cup Sidecar("catalog", D)
  OBVIOUS
<1>4. /\ A \subseteq Artifact
      /\ \A a \in A : a.kind = "catalog" => a.of \subseteq D
  <2>1. r.head.segs \subseteq Artifact /\ r.head.layers \subseteq Artifact
    BY <1>1 DEF Manifest
  <2>2. /\ \A a \in r.head.segs : a.kind = "segment"
        /\ \A a \in r.head.layers : a.kind = "layer"
    BY <1>1 DEF CommandOK, HeadOK
  <2>3. Each("blob", r.index) \subseteq Artifact /\ \A a \in Each("blob", r.index) : a.kind = "blob"
    BY <1>1, EachType
  <2>4. /\ Art("index", r.index) \in Artifact /\ Art("index", r.index).kind = "index"
        /\ Art("catalog", D) \in Artifact /\ Art("catalog", D).of = D
    BY <1>1, EachType
  <2>5. /\ Sidecar("index", r.index) \subseteq {Art("index", r.index)}
        /\ Sidecar("catalog", D) \subseteq {Art("catalog", D)}
    BY DEF Sidecar
  <2> QED BY <1>3, <2>1, <2>2, <2>3, <2>4, <2>5
<1>5. PICK doubt \in BOOLEAN : doubt = (r.doubt \/ Unsettled(r.site))
  <2>1. (r.doubt \/ Unsettled(r.site)) \in BOOLEAN
    OBVIOUS
  <2> QED BY <2>1, Zenon
<1>6. PICK n \in DeskCommand : n = [r EXCEPT !.at = "decide", !.doubt = doubt, !.arts = A]
  BY <1>4 DEF DeskCommand
<1>7. /\ n.at = "decide" /\ n.site = r.site /\ n.head = r.head /\ n.base = r.base
      /\ n.doubt = doubt /\ n.arts = A
  BY <1>6 DEF DeskCommand
<1>8. /\ r.at = "take catalog"
      /\ UNCHANGED <<siteHead, siteVars, published, stamps, doubtful, effort>>
  BY <1>1 DEF TakeCatalog, siteVars
<1>9. cmd' = [cmd EXCEPT ![t] = n]
  <2>1. cmd' = [cmd EXCEPT ![t] = [r EXCEPT !.at = "decide", !.doubt = r.doubt \/ Unsettled(r.site),
                                            !.arts = A]]
    BY <1>1, <1>2, <1>3 DEF TakeCatalog, PubInv, PubTypeOK
  <2> QED BY <1>5, <1>6, <2>1
<1>10. Grows
  <2>1. Carries(cmd[t], n)
    BY <1>1, <1>8 DEF Carries, Half
  <2> QED BY <1>8, <1>9, <2>1, SitesRest, GrowsIf DEF PubInv
<1>11. ~doubt => Catalogued(A, r.head.segs)
  <2>1. ASSUME ~doubt
        PROVE  Each("segment", D) \subseteq r.head.segs
    <3>1. ~r.doubt /\ r.site \notin doubtful.sites /\ \A u \in Desk : ~Half(cmd[u], r.site)
      BY <1>5, <2>1 DEF Unsettled, HalfPulled, Half
    <3>2. siteHead[r.site].segs \subseteq r.head.segs
      BY <1>1, <1>8, <3>1 DEF CommandOK, PromoteOK
    <3>3. Trusted(r.site) /\ SegmentsOf(r.site) = siteHead[r.site].segs
      BY <3>1 DEF Trusted, SegmentsOf
    <3> QED BY <1>1, <1>2, <3>2, <3>3 DEF SiteOK
  <2>2. Of("catalog", A) \subseteq D
    BY <1>4 DEF Of
  <2>3. Each("segment", Of("catalog", A)) \subseteq Each("segment", D)
    BY <2>2 DEF Each
  <2> QED BY <2>1, <2>3 DEF Catalogued
<1>12. CommandOK(n)'
  <2>1. HeadOK(n.head)'
    BY <1>1, <1>7, <1>8, HeadKept DEF CommandOK
  <2>2. n.head.segs \cup n.head.layers \subseteq n.arts
    BY <1>3, <1>7
  <2>3. ~n.doubt => Catalogued(n.arts, n.head.segs)'
    BY <1>7, <1>11 DEF Catalogued
  <2> QED BY <1>1, <1>7, <1>8, <2>1, <2>2, <2>3 DEF CommandOK, IngestOK, PromoteOK, PullOK, siteVars
<1>13. effort' \in [commands : 0..MaxPublish, kills : 0..MaxStops]
  BY <1>8 DEF PubInv, PubTypeOK
<1> QED BY <1>1, <1>7, <1>8, <1>9, <1>10, <1>12, <1>13, SitesRest, Advance

LEMMA FetchAllKeeps ==
  ASSUME PubInv, NEW t \in Desk, FetchAll(t)
  PROVE  PubInv'
<1>1. PICK r \in DeskCommand :
        /\ r = cmd[t] /\ CommandOK(r) /\ r.site \in Site /\ r.head \in Manifest
        /\ r.arts \subseteq Artifact
  BY OfCommand
<1>2. PICK n \in DeskCommand : n = [r EXCEPT !.at = "pull index"]
  BY DEF DeskCommand
<1>3. /\ n.at = "pull index" /\ n.site = r.site /\ n.head = r.head /\ n.base = r.base
      /\ n.doubt = r.doubt /\ n.arts = r.arts
  BY <1>2 DEF DeskCommand
<1>4. /\ r.at = "fetch" /\ Each("blob", Of("index", r.arts)) \subseteq r.arts
      /\ blobs' = [blobs EXCEPT ![r.site] = @ \cup Blobs(r.arts)]
      /\ cmd' = [cmd EXCEPT ![t] = n]
      /\ UNCHANGED <<siteHead, siteIndex, siteCatalog, published, stamps, doubtful, effort>>
  BY <1>1, <1>2 DEF FetchAll, Goes
<1>5. /\ blobs' \in [Site -> SUBSET Artifact] /\ \A s \in Site : blobs[s] \subseteq blobs'[s]
      /\ Blobs(r.arts) \subseteq blobs'[r.site]
  BY <1>1, <1>4 DEF PubInv, PubTypeOK, Blobs
<1>6. Grows
  <2>1. Carries(cmd[t], n)
    BY <1>1, <1>4 DEF Carries, Half
  <2> QED BY <1>4, <1>5, <2>1, GrowsIf DEF PubInv
<1>7. CommandOK(n)'
  <2>1. HeadOK(n.head)'
    BY <1>1, <1>3, <1>4, HeadKept DEF CommandOK
  <2>2. Each("blob", Of("index", r.arts)) \subseteq Blobs(r.arts)
    <3>1. Of("index", r.arts) \subseteq Document
      BY <1>1, OfType
    <3>2. \A a \in Each("blob", Of("index", r.arts)) : a.kind = "blob"
      BY <3>1, EachType
    <3> QED BY <1>4, <3>2 DEF Blobs
  <2>3. Blobs(n.arts)' \cup Each("blob", Of("index", n.arts))' \subseteq blobs'[n.site]
    BY <1>3, <1>5, <2>2 DEF Blobs
  <2>4. r.head \in published /\ r.arts = r.head.refs /\ (~r.doubt => Catalogued(r.arts, r.head.segs))
    BY <1>1, <1>4 DEF CommandOK, PullOK
  <2> QED BY <1>3, <1>4, <2>1, <2>3, <2>4 DEF CommandOK, IngestOK, PromoteOK, PullOK, Catalogued
<1>8. /\ siteIndex' \in [Site -> SUBSET Document] /\ siteCatalog' \in [Site -> SUBSET Document]
      /\ doubtful' \in [sites : SUBSET Site, ids : SUBSET (1..stamps)]
      /\ effort' \in [commands : 0..MaxPublish, kills : 0..MaxStops]
      /\ \A s \in Site : Each("blob", siteIndex'[s]) \subseteq blobs'[s]
      /\ \A s \in Site : Trusted(s)' => Each("segment", siteCatalog'[s]) \subseteq SegmentsOf(s)'
  BY <1>4, <1>5, <1>6 DEF PubInv, PubTypeOK, SiteOK, Grows
<1> QED BY <1>1, <1>3, <1>4, <1>5, <1>6, <1>7, <1>8, Advance

LEMMA PullIndexKeeps ==
  ASSUME PubInv, NEW t \in Desk, PullIndex(t)
  PROVE  PubInv'
<1>1. PICK r \in DeskCommand :
        /\ r = cmd[t] /\ CommandOK(r) /\ r.site \in Site /\ r.head \in Manifest
        /\ r.arts \subseteq Artifact
  BY OfCommand
<1>2. PICK n \in DeskCommand : n = [r EXCEPT !.at = "pull catalog"]
  BY DEF DeskCommand
<1>3. /\ n.at = "pull catalog" /\ n.site = r.site /\ n.head = r.head /\ n.base = r.base
      /\ n.doubt = r.doubt /\ n.arts = r.arts
  BY <1>2 DEF DeskCommand
<1>4. PICK D \in SUBSET Document : D = Of("index", r.arts)
  BY <1>1, OfType
<1>5. /\ r.at = "pull index"
      /\ siteIndex' = IF D = {} THEN siteIndex ELSE [siteIndex EXCEPT ![r.site] = D]
      /\ cmd' = [cmd EXCEPT ![t] = n]
      /\ UNCHANGED <<siteHead, siteCatalog, blobs, published, stamps, doubtful, effort>>
  BY <1>1, <1>2, <1>4 DEF PullIndex, Goes
<1>6. Grows
  <2>1. Carries(cmd[t], n)
    BY <1>1, <1>5 DEF Carries, Half
  <2> QED BY <1>5, <2>1, GrowsIf DEF PubInv
<1>7. /\ r.head \in published /\ r.arts = r.head.refs /\ (~r.doubt => Catalogued(r.arts, r.head.segs))
      /\ Blobs(r.arts) \cup Each("blob", Of("index", r.arts)) \subseteq blobs[r.site]
  BY <1>1, <1>5 DEF CommandOK, PullOK
<1>8. CommandOK(n)'
  <2>1. HeadOK(n.head)'
    BY <1>1, <1>3, <1>5, HeadKept DEF CommandOK
  <2> QED BY <1>3, <1>5, <1>7, <2>1 DEF CommandOK, IngestOK, PromoteOK, PullOK, Catalogued
<1>9. /\ siteIndex' \in [Site -> SUBSET Document]
      /\ \A s \in Site : siteIndex'[s] = siteIndex[s] \/ (s = r.site /\ siteIndex'[s] = D)
  BY <1>1, <1>5 DEF PubInv, PubTypeOK
<1>10. \A s \in Site : Each("blob", siteIndex'[s]) \subseteq blobs'[s]
  <2>1. \A s \in Site : Each("blob", siteIndex[s]) \subseteq blobs[s]
    BY DEF PubInv, SiteOK
  <2> QED BY <1>4, <1>5, <1>7, <1>9, <2>1
<1>11. /\ siteCatalog' \in [Site -> SUBSET Document] /\ blobs' \in [Site -> SUBSET Artifact]
       /\ doubtful' \in [sites : SUBSET Site, ids : SUBSET (1..stamps)]
       /\ effort' \in [commands : 0..MaxPublish, kills : 0..MaxStops]
       /\ \A s \in Site : Trusted(s)' => Each("segment", siteCatalog'[s]) \subseteq SegmentsOf(s)'
  BY <1>5, <1>6 DEF PubInv, PubTypeOK, SiteOK, Grows
<1> QED BY <1>1, <1>3, <1>5, <1>6, <1>8, <1>9, <1>10, <1>11, Advance

LEMMA PullCatalogKeeps ==
  ASSUME PubInv, NEW t \in Desk, PullCatalog(t)
  PROVE  PubInv'
<1>1. PICK r \in DeskCommand :
        /\ r = cmd[t] /\ CommandOK(r) /\ r.site \in Site /\ r.head \in Manifest
        /\ r.arts \subseteq Artifact
  BY OfCommand
<1>2. PICK n \in DeskCommand : n = [r EXCEPT !.at = "pull head"]
  BY DEF DeskCommand
<1>3. /\ n.at = "pull head" /\ n.site = r.site /\ n.head = r.head /\ n.base = r.base
      /\ n.doubt = r.doubt /\ n.arts = r.arts
  BY <1>2 DEF DeskCommand
<1>4. PICK D \in SUBSET Document : D = Of("catalog", r.arts)
  BY <1>1, OfType
<1>5. /\ r.at = "pull catalog"
      /\ siteCatalog' = IF D = {} THEN siteCatalog ELSE [siteCatalog EXCEPT ![r.site] = D]
      /\ cmd' = [cmd EXCEPT ![t] = n]
      /\ UNCHANGED <<siteHead, siteIndex, blobs, published, stamps, doubtful, effort>>
  BY <1>1, <1>2, <1>4 DEF PullCatalog, Goes
<1>6. Grows
  <2>1. Carries(cmd[t], n)
    BY <1>1, <1>3, <1>5 DEF Carries, Half
  <2> QED BY <1>5, <2>1, GrowsIf DEF PubInv
<1>7. /\ r.head \in published /\ r.arts = r.head.refs /\ (~r.doubt => Catalogued(r.arts, r.head.segs))
      /\ Blobs(r.arts) \cup Each("blob", Of("index", r.arts)) \subseteq blobs[r.site]
  BY <1>1, <1>5 DEF CommandOK, PullOK
<1>8. CommandOK(n)'
  <2>1. HeadOK(n.head)'
    BY <1>1, <1>3, <1>5, HeadKept DEF CommandOK
  <2> QED BY <1>3, <1>5, <1>7, <2>1 DEF CommandOK, IngestOK, PromoteOK, PullOK, Catalogued
<1>9. /\ siteCatalog' \in [Site -> SUBSET Document]
      /\ \A s \in Site : \/ siteCatalog'[s] = siteCatalog[s]
                         \/ s = r.site /\ siteCatalog'[s] = D
  BY <1>1, <1>5 DEF PubInv, PubTypeOK
<1>10. ASSUME NEW s \in Site, Trusted(s)'
       PROVE  Each("segment", siteCatalog'[s]) \subseteq SegmentsOf(s)'
  <2>1. CASE siteCatalog'[s] = siteCatalog[s]
    BY <1>6, <1>10, <2>1 DEF PubInv, SiteOK, Grows
  <2>2. CASE s = r.site /\ siteCatalog'[s] = D
    <3>1. cmd'[t] = n
      BY <1>5 DEF PubInv, PubTypeOK
    <3>2. Half(cmd'[t], s)
      BY <1>3, <2>2, <3>1 DEF Half
    <3>3. ~r.doubt
      BY <1>3, <1>10, <3>1, <3>2 DEF Trusted, Half
    <3>4. Each("segment", D) \subseteq r.head.segs
      BY <1>4, <1>7, <3>3 DEF Catalogued
    <3>5. r.head.segs \subseteq SegmentsOf(s)'
      BY <1>1, <1>3, <3>1, <3>2 DEF SegmentsOf, Half, Manifest
    <3> QED BY <2>2, <3>4, <3>5
  <2> QED BY <1>9, <2>1, <2>2
<1>11. /\ siteIndex' \in [Site -> SUBSET Document] /\ blobs' \in [Site -> SUBSET Artifact]
       /\ doubtful' \in [sites : SUBSET Site, ids : SUBSET (1..stamps)]
       /\ effort' \in [commands : 0..MaxPublish, kills : 0..MaxStops]
       /\ \A s \in Site : Each("blob", siteIndex'[s]) \subseteq blobs'[s]
  BY <1>5 DEF PubInv, PubTypeOK, SiteOK
<1> QED BY <1>1, <1>3, <1>5, <1>6, <1>8, <1>9, <1>10, <1>11, Advance

-----------------------------------------------------------------------------
(* The steps that make a manifest or put a head *)

LEMMA UploadKeeps ==
  ASSUME PubInv, NEW t \in Desk, Upload(t)
  PROVE  PubInv'
<1>1. PICK r \in DeskCommand :
        /\ r = cmd[t] /\ CommandOK(r) /\ r.site \in Site
        /\ r.head \in Manifest /\ r.arts \subseteq Artifact
  BY OfCommand
<1>2. stamps \in Nat \ {0} /\ stamps + 1 \in Nat /\ stamps + 1 # 0
  BY DEF PubInv, PubTypeOK
<1>3. PICK e \in Manifest :
        /\ e = [r.head EXCEPT !.id = stamps + 1, !.refs = r.arts,
                  !.batches = @ \cup {[at |-> stamps + 1, of |-> r.arts]}]
        /\ e.id = stamps + 1 /\ e.segs = r.head.segs /\ e.layers = r.head.layers /\ e.refs = r.arts
  <2>1. r.head.batches \cup {[at |-> stamps + 1, of |-> r.arts]}
          \subseteq [at : Nat, of : SUBSET Artifact]
    BY <1>1, <1>2 DEF Manifest
  <2> DEFINE m == [r.head EXCEPT !.id = stamps + 1, !.refs = r.arts,
                     !.batches = @ \cup {[at |-> stamps + 1, of |-> r.arts]}]
  <2>2. m \in Manifest
    BY <1>1, <1>2, <2>1 DEF Manifest
  <2>3. m.id = stamps + 1 /\ m.segs = r.head.segs /\ m.layers = r.head.layers /\ m.refs = r.arts
    BY <1>1 DEF Manifest
  <2> QED BY <2>2, <2>3
<1>4. PICK n \in DeskCommand : n = [r EXCEPT !.at = "promote head", !.head = e]
  BY <1>1, <1>3 DEF DeskCommand
<1>5. n.at = "promote head" /\ n.site = r.site /\ n.head = e /\ n.base = r.base
  BY <1>4 DEF DeskCommand
<1>6. /\ r.at = "decide" /\ published' = published \cup {e} /\ stamps' = stamps + 1
      /\ doubtful' = IF r.doubt THEN [doubtful EXCEPT !.ids = @ \cup {stamps + 1}] ELSE doubtful
      /\ UNCHANGED <<siteHead, siteIndex, siteCatalog, blobs, effort>>
  BY <1>1, <1>3 DEF Upload, siteVars
<1>7. cmd' = [cmd EXCEPT ![t] = n] /\ cmd'[t] = n /\ \A u \in Desk : u # t => cmd'[u] = cmd[u]
  <2>1. cmd' = [cmd EXCEPT ![t] = [r EXCEPT !.at = "promote head", !.head = e]]
    BY <1>1, <1>3 DEF Upload, PubInv, PubTypeOK
  <2> QED BY <1>4, <2>1 DEF PubInv, PubTypeOK
<1>8. /\ doubtful' \in [sites : SUBSET Site, ids : SUBSET (1..stamps')]
      /\ doubtful'.sites = doubtful.sites /\ doubtful.ids \subseteq doubtful'.ids
      /\ r.doubt => stamps + 1 \in doubtful'.ids
  BY <1>2, <1>6 DEF PubInv, PubTypeOK
<1>9. Grows
  <2>1. Carries(cmd[t], n)
    BY <1>1, <1>6 DEF Carries, Half
  <2> QED BY <1>6, <1>7, <1>8, <2>1, GrowsIf DEF PubInv
<1>10. PubTypeOK'
  BY <1>2, <1>6, <1>7, <1>8 DEF PubInv, PubTypeOK
<1>11. KnownOK'
  <2>1. \A i, S : KnownAs(i, S)' =>
          KnownAs(i, S) \/ (i = stamps + 1 /\ stamps' = stamps + 1 /\ S = r.head.segs)
    <3>1. \A u \in Desk : cmd'[u].base = cmd[u].base /\ cmd'[u].head.segs = cmd[u].head.segs
      <4>1. n.base = cmd[t].base /\ n.head.segs = cmd[t].head.segs
        BY <1>1, <1>3, <1>5
      <4>2. cmd'[t] = n /\ \A u \in Desk : u # t => cmd'[u] = cmd[u]
        BY <1>7
      <4> QED BY <4>1, <4>2
    <3>2. /\ UNCHANGED siteHead /\ stamps' = stamps + 1
          /\ \A m \in published' : m \in published \/ (m.id = stamps + 1 /\ m.segs = r.head.segs)
      BY <1>3, <1>6
    <3> QED BY <3>1, <3>2 DEF KnownAs
  <2> QED BY <1>6, <2>1, NewId
<1>12. HeadOK(e)' /\ ManifestOK(e)'
  <2>1. /\ HeadOK(r.head) /\ r.head.segs \cup r.head.layers \subseteq r.arts
        /\ ~r.doubt => Catalogued(r.arts, r.head.segs)
    BY <1>1, <1>6 DEF CommandOK, PromoteOK
  <2>2. HeadOK(e)'
    BY <1>2, <1>3, <1>6, <2>1 DEF HeadOK
  <2> QED BY <1>2, <1>3, <1>8, <2>1, <2>2 DEF ManifestOK, Catalogued
<1>13. ASSUME NEW m \in published' PROVE ManifestOK(m)'
  BY <1>6, <1>8, <1>12, ManifestKept
<1>14. ASSUME NEW s \in Site PROVE SiteOK(s)'
  <2>1. HeadOK(siteHead[s])'
    BY <1>6 DEF PubInv, SiteOK, HeadOK
  <2> QED BY <1>6, <1>9, <2>1, SiteKept DEF PubInv, SiteOK
<1>15. CommandOK(n)'
  BY <1>1, <1>3, <1>5, <1>6, <1>12 DEF CommandOK, IngestOK, PromoteOK, PullOK
<1>16. ASSUME NEW u \in Desk PROVE CommandOK(cmd[u])'
  BY <1>6, <1>7, <1>9, <1>15, OtherCommand
<1> QED BY <1>10, <1>11, <1>13, <1>14, <1>16 DEF PubInv

LEMMA PutPromotedKeeps ==
  ASSUME PubInv, NEW t \in Desk, PutPromoted(t)
  PROVE  PubInv'
<1>1. PICK r \in DeskCommand :
        /\ r = cmd[t] /\ CommandOK(r) /\ r.site \in Site /\ SiteOK(r.site) /\ r.head \in Manifest
  BY OfCommand
<1>2. /\ r.at = "promote head"
      /\ siteHead' = IF Got(r.site).id = r.base THEN [siteHead EXCEPT ![r.site] = r.head]
                     ELSE siteHead
      /\ Ends(t)
      /\ UNCHANGED <<siteIndex, siteCatalog, blobs, published, stamps, doubtful, effort>>
  BY <1>1 DEF PutPromoted
<1>3. /\ r.base # 0 /\ r.head.segs \cup r.head.layers \subseteq blobs[r.site] /\ HeadOK(r.head)
      /\ r.head \in published /\ r.head.id # 0
  BY <1>1, <1>2 DEF CommandOK, PromoteOK, ManifestOK, PubInv
<1>4. ASSUME NEW s \in Site
      PROVE  \/ siteHead'[s] = siteHead[s]
             \/ s = r.site /\ siteHead'[s] = r.head /\ r.head.segs = siteHead[s].segs
  <2>1. CASE s = r.site /\ Got(r.site).id = r.base
    <3>1. siteHead[s].id = r.base
      BY <1>1, <1>3, <2>1, GotIs DEF PubInv, SiteOK
    <3>2. KnownAs(r.base, siteHead[s].segs) /\ KnownAs(r.base, r.head.segs)
      BY <1>1, <1>3, <3>1 DEF KnownAs
    <3>3. r.head.segs = siteHead[s].segs
      BY <3>2 DEF PubInv, KnownOK
    <3> QED BY <1>2, <2>1, <3>3 DEF PubInv, PubTypeOK
  <2>2. CASE ~(s = r.site /\ Got(r.site).id = r.base)
    BY <1>2, <2>2 DEF PubInv, PubTypeOK
  <2> QED BY <2>1, <2>2
<1>5. /\ Resting \in DeskCommand /\ Resting.base = 0 /\ cmd'[t] = Resting
      /\ \A u \in Desk : u # t => cmd'[u] = cmd[u]
  BY <1>2, RestingType DEF Ends, PubInv, PubTypeOK
<1>6. Grows
  <2>1. \A u \in Desk : Carried(u)
    BY <1>1, <1>2, <1>5 DEF Carried, Half
  <2>2. \A s \in Site : siteHead[s].id # 0 => siteHead'[s].id # 0
    BY <1>3, <1>4
  <2>3. \A s \in Site : siteHead[s].segs \subseteq siteHead'[s].segs
    BY <1>4
  <2> QED BY <1>2, <2>1, <2>2, <2>3, GrowsWith
<1>7. PubTypeOK'
  <2>1. siteHead' \in [Site -> Manifest]
    BY <1>1, <1>2 DEF PubInv, PubTypeOK
  <2>2. cmd' \in [Desk -> DeskCommand]
    BY <1>2, <1>5 DEF Ends, PubInv, PubTypeOK
  <2> QED BY <1>2, <2>1, <2>2 DEF PubInv, PubTypeOK
<1>8. KnownOK'
  <2>1. \A i, S : KnownAs(i, S)' => KnownAs(i, S)
    BY <1>2, <1>3, <1>4, <1>5 DEF KnownAs
  <2> QED BY <1>2, <2>1, NewId
<1>9. ASSUME NEW s \in Site PROVE SiteOK(s)'
  <2>1. HeadOK(siteHead[s]) /\ siteHead[s].segs \cup siteHead[s].layers \subseteq blobs[s]
    BY DEF PubInv, SiteOK
  <2>2. HeadOK(siteHead'[s]) /\ siteHead'[s].segs \cup siteHead'[s].layers \subseteq blobs'[s]
    BY <1>2, <1>3, <1>4, <2>1
  <2>3. HeadOK(siteHead[s])'
    BY <1>2, <2>2 DEF HeadOK
  <2> QED BY <1>2, <1>6, <2>2, <2>3, SiteKept
<1>10. ASSUME NEW m \in published' PROVE ManifestOK(m)'
  BY <1>2, ManifestKept
<1>11. ASSUME NEW u \in Desk PROVE CommandOK(cmd[u])'
  <2>1. CASE u = t
    <3>1. Resting.at # "take index" /\ Resting.at # "take catalog"
      BY RestingType
    <3>2. CommandOK(Resting)'
      BY <1>5, <1>6, <3>1, RestingOK, CommandKept
    <3> QED BY <1>5, <2>1, <3>2
  <2>2. CASE u # t
    <3>1. cmd[u].site \in Site
      BY DEF PubInv, PubTypeOK, DeskCommand
    <3>2. siteHead'[cmd[u].site].segs \subseteq siteHead[cmd[u].site].segs
      BY <1>4, <3>1
    <3> QED BY <1>5, <1>6, <2>2, <3>2, OtherCommand
  <2> QED BY <2>1, <2>2
<1> QED BY <1>7, <1>8, <1>9, <1>10, <1>11 DEF PubInv

LEMMA PullHeadKeeps ==
  ASSUME PubInv, NEW t \in Desk, PullHead(t)
  PROVE  PubInv'
<1>1. PICK r \in DeskCommand :
        /\ r = cmd[t] /\ CommandOK(r) /\ r.site \in Site /\ SiteOK(r.site) /\ r.head \in Manifest
  BY OfCommand
<1> DEFINE free == Got(r.site).id = 0
<1>2. /\ r.at = "pull head"
      /\ siteHead' = IF free THEN [siteHead EXCEPT ![r.site] = r.head] ELSE siteHead
      /\ doubtful' = IF free /\ ~r.doubt /\ Valid(siteHead[r.site]) THEN doubtful
                     ELSE [doubtful EXCEPT !.sites = @ \cup {r.site}]
      /\ Ends(t)
      /\ UNCHANGED <<siteIndex, siteCatalog, blobs, published, stamps, effort>>
  BY <1>1 DEF PullHead
<1>3. /\ doubtful' \in [sites : SUBSET Site, ids : SUBSET (1..stamps)]
      /\ doubtful'.ids = doubtful.ids /\ doubtful.sites \subseteq doubtful'.sites
      /\ r.site \notin doubtful'.sites => free /\ ~r.doubt /\ Valid(siteHead[r.site])
  BY <1>1, <1>2 DEF PubInv, PubTypeOK
<1>4. /\ r.head \in published /\ ManifestOK(r.head) /\ r.head.id # 0
      /\ r.head.segs \cup r.head.layers \subseteq blobs[r.site]
  <2>1. r.head \in published /\ r.arts = r.head.refs /\ Blobs(r.arts) \subseteq blobs[r.site]
    BY <1>1, <1>2 DEF CommandOK, PullOK
  <2>2. ManifestOK(r.head)
    BY <2>1 DEF PubInv
  <2>3. r.head.segs \cup r.head.layers \subseteq Blobs(r.arts)
    BY <2>1, <2>2 DEF ManifestOK, HeadOK, Blobs
  <2> QED BY <2>1, <2>2, <2>3 DEF ManifestOK
<1>5. ASSUME NEW s \in Site
      PROVE  siteHead'[s] = siteHead[s] \/ (s = r.site /\ siteHead'[s] = r.head)
  BY <1>2 DEF PubInv, PubTypeOK
<1>6. /\ Resting \in DeskCommand /\ Resting.base = 0 /\ cmd'[t] = Resting
      /\ \A u \in Desk : u # t => cmd'[u] = cmd[u]
  BY <1>2, RestingType DEF Ends, PubInv, PubTypeOK
<1>7. r.site \notin doubtful'.sites => siteHead[r.site] = Blank /\ siteHead'[r.site] = r.head
  <2>1. ASSUME r.site \notin doubtful'.sites
        PROVE  siteHead[r.site] = Blank /\ siteHead'[r.site] = r.head
    <3>1. siteHead[r.site] = Blank
      BY <1>1, <1>3, <2>1, GotIs DEF PubInv, SiteOK
    <3> QED BY <1>1, <1>2, <1>3, <2>1, <3>1 DEF PubInv, PubTypeOK
  <2> QED BY <2>1
<1>8. Grows
  <2>1. \A u \in Desk : Carried(u)
    BY <1>1, <1>3, <1>6, <1>7 DEF Carried, Half
  <2>2. \A s \in Site : siteHead[s].id # 0 => siteHead'[s].id # 0
    BY <1>4, <1>5
  <2>3. \A s \in Site : s \notin doubtful'.sites => siteHead[s].segs \subseteq siteHead'[s].segs
    BY <1>5, <1>7, BlankType
  <2> QED BY <1>2, <1>3, <2>1, <2>2, <2>3, GrowsWith
<1>9. PubTypeOK'
  <2>1. siteHead' \in [Site -> Manifest]
    BY <1>1, <1>2 DEF PubInv, PubTypeOK
  <2>2. cmd' \in [Desk -> DeskCommand]
    BY <1>2, <1>6 DEF Ends, PubInv, PubTypeOK
  <2> QED BY <1>2, <1>3, <2>1, <2>2 DEF PubInv, PubTypeOK
<1>10. KnownOK'
  <2>1. \A i, S : KnownAs(i, S)' => KnownAs(i, S)
    BY <1>2, <1>4, <1>5, <1>6 DEF KnownAs
  <2> QED BY <1>2, <2>1, NewId
<1>11. ASSUME NEW s \in Site PROVE SiteOK(s)'
  <2>1. HeadOK(siteHead[s]) /\ siteHead[s].segs \cup siteHead[s].layers \subseteq blobs[s]
    BY DEF PubInv, SiteOK
  <2>2. HeadOK(siteHead'[s]) /\ siteHead'[s].segs \cup siteHead'[s].layers \subseteq blobs'[s]
    BY <1>2, <1>4, <1>5, <2>1 DEF ManifestOK
  <2>3. HeadOK(siteHead[s])'
    BY <1>2, <2>2 DEF HeadOK
  <2> QED BY <1>2, <1>8, <2>2, <2>3, SiteKept
<1>12. ASSUME NEW m \in published' PROVE ManifestOK(m)'
  BY <1>2, <1>3, ManifestKept
<1>13. ASSUME NEW u \in Desk PROVE CommandOK(cmd[u])'
  <2>1. CASE u = t
    <3>1. Resting.at # "take index" /\ Resting.at # "take catalog"
      BY RestingType
    <3>2. CommandOK(Resting)'
      BY <1>6, <1>8, <3>1, RestingOK, CommandKept
    <3> QED BY <1>6, <2>1, <3>2
  <2>2. CASE u # t
    <3>1. cmd[u].site \in Site
      BY DEF PubInv, PubTypeOK, DeskCommand
    <3>2. cmd[u].at \in {"take index", "take catalog"} => siteHead[cmd[u].site].id # 0
      BY DEF PubInv, CommandOK, PromoteOK
    <3>3. cmd[u].at \in {"take index", "take catalog"} /\ ~cmd[u].doubt
            /\ cmd[u].site \notin doubtful'.sites
              => siteHead'[cmd[u].site].segs \subseteq siteHead[cmd[u].site].segs
      BY <1>5, <1>7, <3>1, <3>2, BlankType
    <3> QED BY <1>6, <1>8, <2>2, <3>3, OtherCommand
  <2> QED BY <2>1, <2>2
<1> QED BY <1>9, <1>10, <1>11, <1>12, <1>13 DEF PubInv

LEMMA ExtractLayerKeeps ==
  ASSUME PubInv, NEW t \in Desk, NEW s \in Site, ExtractLayer(t, s)
  PROVE  PubInv'
<1>1. stamps \in Nat \ {0} /\ stamps + 1 \in Nat /\ stamps + 1 # 0
  BY DEF PubInv, PubTypeOK
<1>2. PICK h \in Manifest : h = siteHead[s] /\ h = Got(s) /\ HeadOK(h)
  <2>1. HeadOK(siteHead[s]) /\ PubTypeOK /\ Got(s).id # 0
    BY DEF PubInv, SiteOK, ExtractLayer
  <2> QED BY <2>1, GotIs
<1>3. PICK layer \in Artifact : layer = Art("layer", UNION {a.of : a \in h.segs}) /\ layer.kind = "layer"
  <2>1. UNION {a.of : a \in h.segs} \subseteq Document
    BY DEF Manifest, Artifact
  <2> DEFINE D == UNION {a.of : a \in h.segs}
  <2> HIDE DEF D
  <2>2. Art("layer", D) \in Artifact /\ Art("layer", D).kind = "layer"
    BY <2>1, EachType DEF D
  <2> QED BY <2>2 DEF D
<1>4. PICK e \in Manifest :
        /\ e = [h EXCEPT !.id = stamps + 1, !.layers = @ \cup {layer}]
        /\ e.id = stamps + 1 /\ e.segs = h.segs /\ e.layers = h.layers \cup {layer}
        /\ e.refs = h.refs
  <2> DEFINE m == [h EXCEPT !.id = stamps + 1, !.layers = @ \cup {layer}]
  <2>1. m \in Manifest
    BY <1>1 DEF Manifest
  <2>2. /\ m.id = stamps + 1 /\ m.segs = h.segs /\ m.layers = h.layers \cup {layer}
        /\ m.refs = h.refs
    BY DEF Manifest
  <2> QED BY <2>1, <2>2
<1>5. /\ effort.commands < MaxPublish
      /\ siteHead' = [siteHead EXCEPT ![s] = e] /\ stamps' = stamps + 1
      /\ blobs' = [blobs EXCEPT ![s] = @ \cup {layer}]
      /\ effort' = [effort EXCEPT !.commands = @ + 1]
      /\ UNCHANGED <<siteIndex, siteCatalog, published, cmd, doubtful>>
  BY <1>2, <1>3, <1>4 DEF ExtractLayer
<1>6. siteHead'[s] = e /\ \A v \in Site : v # s => siteHead'[v] = siteHead[v]
  BY <1>5 DEF PubInv, PubTypeOK
<1>7. \A v \in Site : siteHead'[v].segs = siteHead[v].segs
  BY <1>2, <1>4, <1>6
<1>8. blobs' \in [Site -> SUBSET Artifact] /\ \A v \in Site : blobs[v] \subseteq blobs'[v]
  BY <1>5 DEF PubInv, PubTypeOK
<1>9. Grows
  <2>1. \A u \in Desk : Carried(u)
    BY <1>5 DEF Carried, Half
  <2>2. \A v \in Site : siteHead[v].id # 0 => siteHead'[v].id # 0
    BY <1>1, <1>4, <1>6
  <2> QED BY <1>5, <1>7, <1>8, <2>1, <2>2, GrowsWith
<1>10. PubTypeOK'
  <2>1. effort.commands \in 0..MaxPublish /\ MaxPublish \in Nat
    BY PublicationConstants DEF PubInv, PubTypeOK
  <2>2. effort.commands < MaxPublish
    BY <1>5
  <2>3. effort.commands + 1 \in 0..MaxPublish
    BY <2>1, <2>2
  <2>4. effort' \in [commands : 0..MaxPublish, kills : 0..MaxStops]
    BY <1>5, <2>3 DEF PubInv, PubTypeOK
  <2>5. 1..stamps \subseteq 1..(stamps + 1)
    BY <1>1
  <2> QED BY <1>1, <1>5, <1>8, <2>4, <2>5 DEF PubInv, PubTypeOK
<1>11. KnownOK'
  <2>1. \A i, S : KnownAs(i, S)' =>
          KnownAs(i, S) \/ (i = stamps + 1 /\ stamps' = stamps + 1 /\ S = h.segs)
    BY <1>4, <1>5, <1>6 DEF KnownAs
  <2> QED BY <1>5, <2>1, NewId
<1>12. ASSUME NEW v \in Site PROVE SiteOK(v)'
  <2>1. HeadOK(siteHead[v]) /\ siteHead[v].segs \cup siteHead[v].layers \subseteq blobs[v]
    BY DEF PubInv, SiteOK
  <2>2. HeadOK(e)'
    BY <1>1, <1>2, <1>3, <1>4, <1>5 DEF HeadOK
  <2>3. HeadOK(siteHead[v])'
    BY <1>5, <1>6, <2>1, <2>2 DEF HeadOK
  <2>4. siteHead'[v].segs \cup siteHead'[v].layers \subseteq blobs'[v]
    <3>1. CASE v = s
      BY <1>2, <1>4, <1>5, <1>6, <2>1, <3>1 DEF PubInv, PubTypeOK
    <3>2. CASE v # s
      BY <1>6, <1>8, <2>1, <3>2
    <3> QED BY <3>1, <3>2
  <2> QED BY <1>5, <1>9, <2>3, <2>4, SiteKept
<1>13. ASSUME NEW m \in published' PROVE ManifestOK(m)'
  BY <1>5, ManifestKept
<1>14. ASSUME NEW u \in Desk PROVE CommandOK(cmd[u])'
  <2>1. cmd[u].site \in Site
    BY DEF PubInv, PubTypeOK, DeskCommand
  <2> QED BY <1>5, <1>7, <1>9, <2>1, OtherCommand
<1> QED BY <1>10, <1>11, <1>12, <1>13, <1>14 DEF PubInv

LEMMA AppendItemKeeps ==
  ASSUME PubInv, NEW t \in Desk, AppendItem(t)
  PROVE  PubInv'
<1>1. PICK r \in DeskCommand :
        /\ r = cmd[t] /\ CommandOK(r) /\ r.site \in Site /\ SiteOK(r.site)
        /\ r.docs \subseteq Document /\ r.head \in Manifest
  BY OfCommand
<1>2. stamps \in Nat \ {0} /\ stamps + 1 \in Nat /\ stamps + 1 # 0
  BY DEF PubInv, PubTypeOK
<1>3. PICK g \in Manifest :
        /\ g = Got(r.site) /\ HeadOK(g) /\ g \in {siteHead[r.site], Blank}
        /\ Valid(siteHead[r.site]) => g = siteHead[r.site]
  BY <1>1, GotIs DEF PubInv, SiteOK
<1>4. /\ Each("segment", r.docs) \subseteq Artifact
      /\ \A a \in Each("segment", r.docs) : a.kind = "segment"
  BY <1>1, EachType
<1>5. PICK e \in Manifest :
        /\ e = [Blank EXCEPT !.id = stamps + 1, !.segs = g.segs \cup Each("segment", r.docs),
                             !.batches = g.batches]
        /\ e.id = stamps + 1 /\ e.segs = g.segs \cup Each("segment", r.docs)
        /\ e.layers = {} /\ e.refs = {}
  <2> DEFINE m == [Blank EXCEPT !.id = stamps + 1, !.segs = g.segs \cup Each("segment", r.docs),
                                !.batches = g.batches]
  <2>1. m \in Manifest
    BY <1>2, <1>4, BlankType DEF Manifest
  <2>2. /\ m.id = stamps + 1 /\ m.segs = g.segs \cup Each("segment", r.docs)
        /\ m.layers = {} /\ m.refs = {}
    BY BlankType DEF Manifest
  <2> QED BY <2>1, <2>2
<1>6. /\ r.at = "append"
      /\ siteHead' = [siteHead EXCEPT ![r.site] = e] /\ stamps' = stamps + 1
      /\ cmd' = [u \in Desk |->
           IF u = t THEN [r EXCEPT !.at = "save catalog"]
           ELSE IF Collecting(u, r.site) THEN [cmd[u] EXCEPT !.doubt = TRUE] ELSE cmd[u]]
      /\ doubtful' = IF Valid(siteHead[r.site]) THEN doubtful
                     ELSE [doubtful EXCEPT !.sites = @ \cup {r.site}]
      /\ UNCHANGED <<siteIndex, siteCatalog, blobs, published, effort>>
  BY <1>1, <1>3, <1>5 DEF AppendItem
<1>7. PICK n \in DeskCommand : n = [r EXCEPT !.at = "save catalog"]
  BY DEF DeskCommand
<1>8. /\ n.at = "save catalog" /\ n.site = r.site /\ n.docs = r.docs /\ n.index = r.index
      /\ n.catalog = r.catalog /\ n.head = r.head /\ n.base = r.base
  BY <1>7 DEF DeskCommand
<1>9. cmd'[t] = n /\ \A u \in Desk : ~(u = t \/ Collecting(u, r.site)) => cmd'[u] = cmd[u]
  BY <1>6, <1>7
<1>10. ASSUME NEW u \in Desk, u # t, Collecting(u, r.site)
       PROVE  \E q, m \in DeskCommand :
                /\ q = cmd[u] /\ CommandOK(q) /\ cmd'[u] = m /\ m.doubt
                /\ m.at = q.at /\ m.site = q.site /\ m.head = q.head /\ m.base = q.base
                /\ q.site = r.site /\ q.at \in {"take index", "take catalog"}
  <2>1. PICK q \in DeskCommand : q = cmd[u] /\ CommandOK(q)
    BY DEF PubInv, PubTypeOK
  <2> DEFINE m == [q EXCEPT !.doubt = TRUE]
  <2>2. m \in DeskCommand
    BY DEF DeskCommand
  <2>3. m.doubt /\ m.at = q.at /\ m.site = q.site /\ m.head = q.head /\ m.base = q.base
    BY DEF DeskCommand
  <2>4. cmd'[u] = m
    BY <1>6, <1>10, <2>1
  <2>5. q.site = r.site /\ q.at \in {"take index", "take catalog"}
    BY <1>10, <2>1 DEF Collecting
  <2> QED BY <2>1, <2>2, <2>3, <2>4, <2>5
<1>11. siteHead'[r.site] = e /\ \A s \in Site : s # r.site => siteHead'[s] = siteHead[s]
  BY <1>1, <1>6 DEF PubInv, PubTypeOK
<1>12. /\ doubtful' \in [sites : SUBSET Site, ids : SUBSET (1..stamps')]
       /\ doubtful'.ids = doubtful.ids /\ doubtful.sites \subseteq doubtful'.sites
       /\ r.site \notin doubtful'.sites => Valid(siteHead[r.site])
  <2>1. 1..stamps \subseteq 1..(stamps + 1)
    BY <1>2
  <2> QED BY <1>1, <1>6, <2>1 DEF PubInv, PubTypeOK
<1>13. Grows
  <2>1. \A u \in Desk : Carried(u)
    <3>1. \A u \in Desk, s \in Site : Half(cmd[u], s) => u # t /\ ~Collecting(u, r.site)
      BY <1>1, <1>6 DEF Half, Collecting
    <3> QED BY <1>9, <3>1 DEF Carried
  <2>2. \A s \in Site : siteHead[s].id # 0 => siteHead'[s].id # 0
    BY <1>2, <1>5, <1>11
  <2>3. \A s \in Site : s \notin doubtful'.sites => siteHead[s].segs \subseteq siteHead'[s].segs
    BY <1>3, <1>5, <1>11, <1>12
  <2> QED BY <1>6, <1>12, <2>1, <2>2, <2>3, GrowsWith
<1>14. PubTypeOK'
  <2>1. siteHead' \in [Site -> Manifest]
    BY <1>6 DEF PubInv, PubTypeOK
  <2>2. cmd' \in [Desk -> DeskCommand]
    <3>1. ASSUME NEW u \in Desk PROVE cmd'[u] \in DeskCommand
      <4>1. CASE u # t /\ Collecting(u, r.site)
        BY <1>10, <4>1
      <4>2. CASE ~(u # t /\ Collecting(u, r.site))
        BY <1>9, <4>2 DEF PubInv, PubTypeOK
      <4> QED BY <4>1, <4>2
    <3> QED BY <1>6, <3>1
  <2> QED BY <1>2, <1>6, <1>12, <2>1, <2>2 DEF PubInv, PubTypeOK
<1>15. KnownOK'
  <2>1. \A u \in Desk : cmd'[u].base = cmd[u].base /\ cmd'[u].head = cmd[u].head
    BY <1>1, <1>8, <1>9, <1>10
  <2>2. \A i, S : KnownAs(i, S)' =>
          KnownAs(i, S) \/ (i = stamps + 1 /\ stamps' = stamps + 1 /\ S = e.segs)
    BY <1>5, <1>6, <1>11, <2>1 DEF KnownAs
  <2>3. stamps' = stamps + 1
    BY <1>6
  <2> QED BY <2>2, <2>3, NewId
<1>16. /\ Each("blob", r.index \cup r.docs) \cup Each("segment", r.docs) \subseteq blobs[r.site]
       /\ Trusted(r.site) => Each("segment", r.catalog) \subseteq SegmentsOf(r.site)
  BY <1>1, <1>6 DEF CommandOK, IngestOK
<1>17. ASSUME NEW s \in Site PROVE SiteOK(s)'
  <2>1. HeadOK(siteHead[s]) /\ siteHead[s].segs \cup siteHead[s].layers \subseteq blobs[s]
    BY DEF PubInv, SiteOK
  <2>2. HeadOK(e)'
    BY <1>2, <1>3, <1>4, <1>5 DEF HeadOK
  <2>3. HeadOK(siteHead[s])'
    BY <1>6, <1>11, <2>1, <2>2 DEF HeadOK
  <2>4. siteHead'[s].segs \cup siteHead'[s].layers \subseteq blobs'[s]
    BY <1>3, <1>5, <1>6, <1>11, <1>16, <2>1, BlankType
  <2> QED BY <1>6, <1>13, <2>3, <2>4, SiteKept
<1>18. ASSUME NEW m \in published' PROVE ManifestOK(m)'
  BY <1>6, <1>12, ManifestKept
<1>19. CommandOK(n)'
  <2>1. HeadOK(n.head)'
    BY <1>1, <1>6, <1>8, HeadKept DEF CommandOK
  <2>2. Trusted(r.site)' => /\ Each("segment", r.catalog) \subseteq SegmentsOf(r.site)'
                            /\ Each("segment", r.docs) \subseteq SegmentsOf(r.site)'
    BY <1>1, <1>5, <1>11, <1>13, <1>16 DEF Grows, SegmentsOf
  <2> QED BY <1>6, <1>8, <1>16, <2>1, <2>2 DEF CommandOK, IngestOK, PromoteOK, PullOK
<1>20. ASSUME NEW u \in Desk PROVE CommandOK(cmd[u])'
  <2>1. CASE u = t
    BY <1>9, <1>19, <2>1
  <2>2. CASE u # t /\ Collecting(u, r.site)
    <3>1. PICK q, m \in DeskCommand :
            /\ q = cmd[u] /\ CommandOK(q) /\ cmd'[u] = m /\ m.doubt
            /\ m.at = q.at /\ m.site = q.site /\ m.head = q.head /\ m.base = q.base
            /\ q.site = r.site /\ q.at \in {"take index", "take catalog"}
      BY <1>10, <2>2
    <3>2. HeadOK(m.head)'
      BY <1>6, <3>1, HeadKept DEF CommandOK
    <3>3. PromoteOK(m)'
      <4>1. q.base # 0 /\ q.head.segs \cup q.head.layers \subseteq blobs[r.site]
        BY <3>1 DEF CommandOK, PromoteOK
      <4>2. siteHead'[r.site].id # 0 /\ UNCHANGED blobs
        BY <1>2, <1>5, <1>6, <1>11
      <4> QED BY <3>1, <4>1, <4>2 DEF PromoteOK
    <3>4. IngestOK(m)' /\ PullOK(m)'
      BY <3>1 DEF IngestOK, PullOK
    <3>5. CommandOK(m)'
      BY <3>2, <3>3, <3>4 DEF CommandOK
    <3> QED BY <3>1, <3>5
  <2>3. CASE u # t /\ ~Collecting(u, r.site)
    <3>1. cmd[u].site \in Site
      BY DEF PubInv, PubTypeOK, DeskCommand
    <3>2. cmd'[u] = cmd[u]
      BY <1>9, <2>3
    <3>3. cmd[u].at \in {"take index", "take catalog"} =>
            siteHead'[cmd[u].site].segs \subseteq siteHead[cmd[u].site].segs
      BY <1>11, <2>3, <3>1 DEF Collecting
    <3> QED BY <1>13, <3>2, <3>3, OtherCommand
  <2> QED BY <2>1, <2>2, <2>3
<1> QED BY <1>14, <1>15, <1>17, <1>18, <1>20 DEF PubInv

-----------------------------------------------------------------------------
LEMMA PubInitOK == PubInit => PubInv
<1> SUFFICES ASSUME PubInit PROVE PubInv
  OBVIOUS
<1> DEFINE D == {First}
<1>1. PICK h \in Manifest : /\ h = [Blank EXCEPT !.id = 1, !.segs = Each("segment", D)]
                            /\ h.id = 1 /\ h.segs = Each("segment", D) /\ h.layers = {}
                            /\ h.refs = {}
  <2> DEFINE m == [Blank EXCEPT !.id = 1, !.segs = Each("segment", D)]
  <2>1. Each("segment", D) \subseteq Artifact
    BY EachType, PublicationConstants
  <2>2. m \in Manifest
    BY <2>1, BlankType DEF Manifest
  <2>3. m.id = 1 /\ m.segs = Each("segment", D) /\ m.layers = {} /\ m.refs = {}
    BY BlankType DEF Manifest
  <2> QED BY <2>2, <2>3
<1>2. /\ siteHead = [s \in Site |-> IF s = Home THEN h ELSE Blank]
      /\ siteIndex = [s \in Site |-> IF s = Home THEN D ELSE {}]
      /\ siteCatalog = [s \in Site |-> IF s = Home THEN D ELSE {}]
      /\ blobs = [s \in Site |-> IF s = Home THEN Each("segment", D) \cup Each("blob", D) ELSE {}]
      /\ published = {} /\ cmd = [t \in Desk |-> Resting] /\ stamps = 1
      /\ doubtful = [sites |-> {}, ids |-> {}] /\ effort = [commands |-> 0, kills |-> 0]
  BY <1>1 DEF PubInit
<1>3. /\ Each("segment", D) \subseteq Artifact /\ Each("blob", D) \subseteq Artifact
      /\ \A a \in Each("segment", D) : a.kind = "segment"
      /\ Each("segment", {}) = {} /\ Each("blob", {}) = {} /\ D \subseteq Document
  BY EachType, PublicationConstants DEF Each
<1> HIDE DEF D
<1>4. PubTypeOK
  <2>1. 0 \in 0..MaxPublish /\ 0 \in 0..MaxStops
    BY PublicationConstants
  <2>2. effort \in [commands : 0..MaxPublish, kills : 0..MaxStops]
    BY <1>2, <2>1
  <2> QED BY <1>2, <1>3, <2>2, BlankType, RestingType DEF PubTypeOK
<1>5. KnownOK
  <2>1. \A i, S : KnownAs(i, S) =>
          (i = 1 /\ S = Each("segment", D)) \/ (i = 0 /\ S = {})
    BY <1>1, <1>2, BlankType, RestingType DEF KnownAs
  <2>2. ASSUME NEW i, NEW S, KnownAs(i, S)
        PROVE  i <= stamps /\ \A R : KnownAs(i, R) => S = R
    <3>1. stamps = 1
      BY <1>2
    <3>2. i \in {0, 1}
      BY <2>1, <2>2
    <3>3. ASSUME NEW R, KnownAs(i, R) PROVE S = R
      <4>1. (i = 1 /\ S = Each("segment", D)) \/ (i = 0 /\ S = {})
        BY <2>1, <2>2
      <4>2. (i = 1 /\ R = Each("segment", D)) \/ (i = 0 /\ R = {})
        BY <2>1, <3>3
      <4> QED BY <4>1, <4>2
    <3> QED BY <3>1, <3>2, <3>3
  <2> QED BY <2>2 DEF KnownOK
<1>6. ASSUME NEW s \in Site PROVE SiteOK(s)
  <2>1. HeadOK(Blank) /\ HeadOK(h)
    BY <1>1, <1>3, BlankType DEF HeadOK
  <2>2. CASE s = Home
    BY <1>1, <1>2, <2>1, <2>2 DEF SiteOK, SegmentsOf
  <2>3. CASE s # Home
    BY <1>2, <1>3, <2>1, <2>3, BlankType DEF SiteOK, SegmentsOf
  <2> QED BY <2>2, <2>3
<1>7. \A t \in Desk : CommandOK(cmd[t])
  BY <1>2, RestingOK
<1> QED BY <1>2, <1>4, <1>5, <1>6, <1>7 DEF PubInv

LEMMA PubStepOK == PubInv /\ [PubNext]_pubVars => PubInv'
<1> SUFFICES ASSUME PubInv, [PubNext]_pubVars PROVE PubInv'
  OBVIOUS
<1>1. CASE UNCHANGED pubVars
  <2>1. /\ UNCHANGED <<siteHead, siteIndex, siteCatalog, blobs, published, cmd, stamps>>
        /\ UNCHANGED <<doubtful, effort>>
    BY <1>1 DEF pubVars
  <2>2. PubTypeOK' /\ KnownOK'
    BY <2>1 DEF PubInv, PubTypeOK, KnownOK, KnownAs
  <2>3. \A s \in Site : HeadOK(siteHead[s])'
    BY <2>1 DEF PubInv, SiteOK, HeadOK
  <2>4. \A m \in published : ManifestOK(m)'
    BY <2>1 DEF PubInv, ManifestOK, HeadOK, Catalogued
  <2>5. \A s \in Site : Trusted(s)' = Trusted(s) /\ SegmentsOf(s)' = SegmentsOf(s)
    BY <2>1 DEF Trusted, SegmentsOf, Half
  <2>6. Grows
    BY <2>1, <2>5 DEF Grows
  <2>7. \A t \in Desk : CommandOK(cmd[t])'
    BY <2>1, <2>6, OtherCommand
  <2>8. \A s \in Site : SiteOK(s)'
    BY <2>1, <2>3, <2>6, SiteKept DEF PubInv, SiteOK
  <2> QED BY <2>1, <2>2, <2>4, <2>7, <2>8 DEF PubInv
<1>2. CASE PubNext
  BY <1>2, IngestKeeps, ExtractLayerKeeps, PromoteKeeps, PullKeeps, AppendItemKeeps,
     SavesCatalogKeeps, SavesIndexKeeps, TakeIndexKeeps, TakeCatalogKeeps, AlreadyPromotedKeeps,
     UploadKeeps, PutPromotedKeeps, FetchAllKeeps, FetchFailsKeeps, PullIndexKeeps,
     PullCatalogKeeps, PullHeadKeeps, StopKeeps DEF PubNext
<1> QED BY <1>1, <1>2

LEMMA PubInvariance == PubSpec => []PubInv
BY PubInitOK, PubStepOK, PTL DEF PubSpec

-----------------------------------------------------------------------------
(* What the invariant gives *)

\* Heads, manifests, sidecars, blobs and commands have their types, and no id is
\* marked that was not given.
THEOREM PubTypes == PubSpec => []PubTypeOK
<1>1. PubInv => PubTypeOK
  BY DEF PubInv
<1> QED BY <1>1, PubInvariance, PTL

\* Whatever promotions, pulls, ingests and extractions run at the same time, and
\* wherever they are killed: a site has the blobs of all its files name and its
\* catalog names no document that its head lacks, unless a pull wrote sidecars
\* there and no head, an unreadable head was replaced, or its collection was
\* published while an ingest added to it.
THEOREM SitesAreWhole == PubSpec => []SiteIsWhole
<1>1. PubInv => SiteIsWhole
  <2> SUFFICES ASSUME PubInv, NEW s \in Site, ~Unsettled(s)
               PROVE  /\ siteHead[s].segs \cup siteHead[s].layers
                           \cup Each("blob", siteIndex[s]) \subseteq blobs[s]
                      /\ Each("segment", siteCatalog[s]) \subseteq siteHead[s].segs
    BY DEF SiteIsWhole
  <2>1. s \notin doubtful.sites /\ \A t \in Desk : ~Half(cmd[t], s)
    BY DEF Unsettled, HalfPulled, Half
  <2>2. Trusted(s) /\ SegmentsOf(s) = siteHead[s].segs
    BY <2>1 DEF Trusted, SegmentsOf
  <2> QED BY <2>2 DEF PubInv, SiteOK
<1> QED BY <1>1, PubInvariance, PTL

LEMMA FiniteArtifacts == IsFiniteSet(Artifact)
<1> DEFINE Kind == {"segment", "layer", "blob", "index", "catalog"}
           f == [a \in Artifact |-> <<a.kind, a.of>>]
<1>1. IsFiniteSet(Kind)
  <2>1. /\ IsFiniteSet({"segment"}) /\ IsFiniteSet({"layer"}) /\ IsFiniteSet({"blob"})
        /\ IsFiniteSet({"index"}) /\ IsFiniteSet({"catalog"})
    BY FS_Singleton
  <2>2. IsFiniteSet({"segment"} \cup {"layer"}) /\ IsFiniteSet({"blob"} \cup {"index"})
    BY <2>1, FS_Union
  <2>3. IsFiniteSet(({"segment"} \cup {"layer"}) \cup ({"blob"} \cup {"index"}))
    BY <2>2, FS_Union
  <2>4. IsFiniteSet((({"segment"} \cup {"layer"}) \cup ({"blob"} \cup {"index"})) \cup {"catalog"})
    BY <2>1, <2>3, FS_Union
  <2>5. Kind = (({"segment"} \cup {"layer"}) \cup ({"blob"} \cup {"index"})) \cup {"catalog"}
    OBVIOUS
  <2> QED BY <2>4, <2>5
<1>2. IsFiniteSet(SUBSET Document)
  BY PublicationConstants, FS_SUBSET
<1>3. IsFiniteSet(Kind \X SUBSET Document)
  BY <1>1, <1>2, FS_Product
<1>4. f \in [Artifact -> Kind \X SUBSET Document]
  BY DEF Artifact
<1>5. \A a, b \in Artifact : f[a] = f[b] => a = b
  BY DEF Artifact
<1>6. f \in Injection(Artifact, Kind \X SUBSET Document)
  BY <1>4, <1>5, Fun_IsInj
<1> QED BY <1>3, <1>6, FS_Injection

\* "Already fully promoted" is never said of artifacts that no manifest out there
\* lists: the refs a head carries are those of a manifest that was uploaded, and
\* the coverage test, subset and equal number, makes them the ones found now.
THEOREM SkipsArePublished == PubSpec => SkippedIsPublished
<1> DEFINE Skipped == \A t \in Desk : AlreadyPromoted(t) => \E m \in published : m.refs = cmd[t].arts
<1>1. PubInv /\ [PubNext]_pubVars => [Skipped]_pubVars
  <2> SUFFICES ASSUME PubInv, NEW t \in Desk, AlreadyPromoted(t)
               PROVE  \E m \in published : m.refs = cmd[t].arts
    OBVIOUS
  <2>1. PICK r \in DeskCommand :
          r = cmd[t] /\ CommandOK(r) /\ r.head \in Manifest /\ r.arts \subseteq Artifact
    BY OfCommand
  <2>2. /\ r.head.refs # {} /\ r.arts \subseteq r.head.refs
        /\ Cardinality(r.arts) = Cardinality(r.head.refs)
    BY <2>1 DEF AlreadyPromoted, Covers
  <2>3. IsFiniteSet(r.head.refs)
    <3>1. r.head.refs \in SUBSET Artifact
      BY <2>1 DEF Manifest
    <3> QED BY <3>1, FiniteArtifacts, FS_Subset
  <2>4. r.arts = r.head.refs
    <3>1. r.arts \in SUBSET r.head.refs
      BY <2>2
    <3> QED BY <2>2, <2>3, <3>1, FS_Subset
  <2> QED BY <2>1, <2>2, <2>4 DEF CommandOK, HeadOK
<1>2. PubSpec => [][Skipped]_pubVars
  BY <1>1, PubInvariance, PTL DEF PubSpec
<1> QED BY <1>2 DEF SkippedIsPublished

=============================================================================
