---------------------------- MODULE CliIngestProofs ----------------------------
(* What `wtfoc ingest` makes later runs skip is stored in the segments of the *)
(* head, for any number of terminals, documents, sources, texts, edits and    *)
(* kills, whatever the order of the commands' steps.                          *)
EXTENDS CliIngest, TLAPS

HeadTexts == Texts(head.chunks)

\* An entry of the catalog, and whatever it superseded, has its texts in S.
Stored(e, S) == e.fps \cup Texts(e.chunks) \cup Texts(e.superseded) \subseteq S
CatalogStored(cat, S) == \A d \in Doc : cat[d] # NoEntry => Stored(cat[d], S)

\* What a command skips is stored; what it will record is stored or batched.
RunStored(r, S) ==
  /\ CatalogStored(r.catalog, S)
  /\ r.fps \cup Texts(r.ids) \subseteq S
  /\ Texts(r.pending) \subseteq S \cup Texts(r.batch)

\* A document edited up to its source's cursor is stored.
Passed(cs, S) ==
  \A d \in Doc : upstream[d].time <= cs[SourceOf[d]] /\ ~upstream[d].raced
                   => upstream[d].texts \subseteq S

\* So is what a whole run has listed, or it is in its batch.
ListedStored(r, S) ==
  r.only = Doc =>
    \A d \in Doc : SourceOf[d] = r.src /\ d \notin r.todo /\ ~upstream[d].raced
                     => upstream[d].texts \subseteq S \cup Texts(r.batch)

\* A command that records anything is an ingest of one source.
Phases(r) ==
  /\ r.phase = "idle" => r = Idle
  /\ r.phase \in {"catalog", "archive", "cursor"} => r.batch = {}
  /\ r.phase \in {"catalog", "archive", "cursor"} => r.todo = {}
  /\ r.phase \in {"catalog", "cursor"} => r.pending # {}
  /\ r.todo # {} \/ r.pending # {} => r.src \in Source /\ ~r.replace
  /\ r.src \in Source => r.since <= r.cursors[r.src]

\* No cursor is ahead of the clock.
Behind(cs) == \A s \in Source : cs[s] <= used.time

RunOK(r) ==
  /\ Phases(r)
  /\ r.maxTime <= used.time /\ Behind(r.cursors)
  /\ ~rebuilt => /\ RunStored(r, HeadTexts)
                 /\ Passed(r.cursors, HeadTexts)
                 /\ ListedStored(r, HeadTexts)

FilesOK ==
  /\ \A d \in Doc : 1 <= upstream[d].time /\ upstream[d].time <= used.time
  /\ Behind(cursors)
  /\ ~rebuilt => CatalogStored(catalog, HeadTexts) /\ Passed(cursors, HeadTexts)

CliInv == CliTypeOK /\ FilesOK /\ \A p \in Proc : RunOK(run[p])

-----------------------------------------------------------------------------
(* The operators of the specification *)

LEMMA Types ==
  /\ 0 \in Time /\ 1 \in Time /\ Time \subseteq Nat
  /\ NoCatalog \in [Doc -> Entry \cup {NoEntry}]
  /\ NoCursors \in [Source -> Time]
  /\ Idle \in RunState
<1>1. 0 \in Time /\ 1 \in Time /\ Time \subseteq Nat
  BY IngestConstants DEF Time
<1>2. NoCatalog \in [Doc -> Entry \cup {NoEntry}] /\ NoCursors \in [Source -> Time]
  BY <1>1 DEF NoCatalog, NoCursors
<1> QED BY <1>1, <1>2 DEF Idle, RunState, Phase

LEMMA TextsOf ==
  ASSUME NEW C, NEW D
  PROVE  /\ Texts({}) = {}
         /\ Texts(C \cup D) = Texts(C) \cup Texts(D)
         /\ C \subseteq D => Texts(C) \subseteq Texts(D)
         /\ C \subseteq Chunk => Texts(C) \subseteq Text
BY DEF Texts, Chunk

LEMMA VersionTexts ==
  ASSUME CliTypeOK, NEW d \in Doc
  PROVE  Version(d) \subseteq Chunk /\ Texts(Version(d)) = upstream[d].texts
<1>1. upstream[d] \in [time : Time, texts : SUBSET Text, raced : BOOLEAN]
  BY DEF CliTypeOK
<1>2. Version(d) = {[doc |-> d, ver |-> upstream[d].time, text |-> x] : x \in upstream[d].texts}
  BY DEF Version
<1>3. Version(d) \subseteq Chunk
  BY <1>1, <1>2 DEF Chunk
<1>4. ASSUME NEW x \in upstream[d].texts PROVE x \in Texts(Version(d))
  <2>1. [doc |-> d, ver |-> upstream[d].time, text |-> x] \in Version(d)
    BY <1>2
  <2> QED BY <2>1 DEF Texts
<1>5. Texts(Version(d)) \subseteq upstream[d].texts
  BY <1>2 DEF Texts
<1> QED BY <1>3, <1>4, <1>5

\* What the catalog makes a run skip has the types of chunks and fingerprints,
\* and is stored when the entries are.
LEMMA KnownStored ==
  ASSUME NEW cat \in [Doc -> Entry \cup {NoEntry}], NEW C \in SUBSET Chunk
  PROVE  /\ KnownIds(cat, C) \subseteq Chunk
         /\ KnownFps(cat, C) \subseteq Text
         /\ \A S : CatalogStored(cat, S) /\ Texts(C) \subseteq S =>
              KnownFps(cat, C) \cup Texts(KnownIds(cat, C)) \subseteq S
<1>1. \A e \in Entries(cat) : e \in Entry /\ \E d \in Doc : cat[d] # NoEntry /\ e = cat[d]
  BY DEF Entries
<1>2. CASE Entries(cat) = {}
  BY <1>2, TextsOf DEF KnownIds, KnownFps
<1>3. CASE Entries(cat) # {}
  <2>1. KnownIds(cat, C) = UNION {e.chunks \cup e.superseded : e \in Entries(cat)}
        /\ KnownFps(cat, C) = UNION {e.fps : e \in Entries(cat)}
    BY <1>3 DEF KnownIds, KnownFps
  <2>2. KnownIds(cat, C) \subseteq Chunk /\ KnownFps(cat, C) \subseteq Text
    BY <1>1, <2>1 DEF Entry
  <2>3. ASSUME NEW S, CatalogStored(cat, S)
        PROVE  KnownFps(cat, C) \subseteq S /\ Texts(KnownIds(cat, C)) \subseteq S
    <3>1. \A e \in Entries(cat) : Stored(e, S)
      BY <1>1, <2>3 DEF CatalogStored
    <3>2. ASSUME NEW x \in KnownIds(cat, C) PROVE x.text \in S
      BY <2>1, <3>1 DEF Stored, Texts
    <3> QED BY <2>1, <3>1, <3>2 DEF Stored, Texts
  <2> QED BY <2>2, <2>3
<1> QED BY <1>2, <1>3

\* An updated entry records nothing that the old entry and the recorded chunks
\* did not have.
LEMMA UpdateStored ==
  ASSUME NEW e \in Entry \cup {NoEntry}, NEW C \in SUBSET Chunk, C # {}, NEW mutable \in BOOLEAN,
         NEW u, u = UpdateDocument(e, C, mutable)
  PROVE  /\ u \in Entry
         /\ \A S : (e # NoEntry => Stored(e, S)) /\ Texts(C) \subseteq S => Stored(u, S)
<1> DEFINE ver == (CHOOSE c \in C : TRUE).ver
<1>1. ver \in Time /\ Texts(C) \subseteq Text
  BY DEF Chunk, Texts
<1>2. CASE e = NoEntry
  <2>1. u = [ver |-> ver, chunks |-> C, superseded |-> {}, fps |-> Texts(C)]
    BY <1>2 DEF UpdateDocument
  <2> QED BY <1>1, <1>2, <2>1, TextsOf DEF Entry, Stored
<1>3. CASE e # NoEntry /\ ~mutable
  <2>1. u = [e EXCEPT !.ver = ver, !.chunks = @ \cup C, !.fps = @ \cup Texts(C)]
    BY <1>3 DEF UpdateDocument
  <2>2. u \in Entry
    BY <1>1, <1>3, <2>1 DEF Entry
  <2>3. u.fps = e.fps \cup Texts(C) /\ u.chunks = e.chunks \cup C /\ u.superseded = e.superseded
    BY <1>3, <2>1 DEF Entry
  <2>4. Texts(u.chunks) = Texts(e.chunks) \cup Texts(C)
    BY <2>3, TextsOf
  <2> QED BY <1>3, <2>2, <2>3, <2>4 DEF Stored
<1>4. CASE e # NoEntry /\ mutable /\ e.ver = ver
  BY <1>4 DEF UpdateDocument
<1>5. CASE e # NoEntry /\ mutable /\ e.ver # ver
  <2>1. u = [ver |-> ver, chunks |-> C, superseded |-> e.superseded \cup e.chunks,
             fps |-> e.fps \cup Texts(C)]
    BY <1>5 DEF UpdateDocument
  <2>2. u \in Entry
    <3>1. e.superseded \cup e.chunks \in SUBSET Chunk /\ e.fps \cup Texts(C) \in SUBSET Text
      BY <1>1, <1>5 DEF Entry
    <3> HIDE DEF ver
    <3> QED BY <1>1, <2>1, <3>1 DEF Entry
  <2>3. Texts(u.superseded) = Texts(e.superseded) \cup Texts(e.chunks)
    BY <2>1, TextsOf
  <2>4. u.chunks = C /\ u.fps = e.fps \cup Texts(C)
    BY <2>1
  <2> QED BY <1>5, <2>2, <2>3, <2>4 DEF Stored
<1> HIDE DEF ver
<1> QED BY <1>2, <1>3, <1>4, <1>5

\* So the whole catalog of a run, brought up to date.
LEMMA CatalogUpdated ==
  ASSUME NEW cat \in [Doc -> Entry \cup {NoEntry}], NEW pending \in SUBSET Chunk
  PROVE  /\ UpdateCatalog(cat, pending) \in [Doc -> Entry \cup {NoEntry}]
         /\ \A S : CatalogStored(cat, S) /\ Texts(pending) \subseteq S
              => CatalogStored(UpdateCatalog(cat, pending), S)
<1> DEFINE C(d) == {c \in pending : c.doc = d}
           u(d) == UpdateDocument(cat[d], C(d), d \notin AppendOnly)
           new == UpdateCatalog(cat, pending)
<1>1. new = [d \in Doc |-> IF C(d) = {} THEN cat[d] ELSE u(d)]
  BY DEF UpdateCatalog
<1>2. ASSUME NEW d \in Doc, C(d) # {}
      PROVE  /\ u(d) \in Entry
             /\ \A S : (cat[d] # NoEntry => Stored(cat[d], S)) /\ Texts(C(d)) \subseteq S => Stored(u(d), S)
  <2>1. cat[d] \in Entry \cup {NoEntry} /\ C(d) \in SUBSET Chunk /\ (d \notin AppendOnly) \in BOOLEAN
    OBVIOUS
  <2> HIDE DEF C
  <2> QED BY <1>2, <2>1, UpdateStored
<1>3. \A d \in Doc : Texts(C(d)) \subseteq Texts(pending)
  BY DEF Texts
<1> HIDE DEF C, u, new
<1>4. new \in [Doc -> Entry \cup {NoEntry}]
  BY <1>1, <1>2
<1>5. ASSUME NEW S, CatalogStored(cat, S), Texts(pending) \subseteq S
      PROVE  CatalogStored(new, S)
  BY <1>1, <1>2, <1>3, <1>5 DEF CatalogStored
<1> QED BY <1>4, <1>5 DEF new

-----------------------------------------------------------------------------
(* Steps *)

\* Nothing that holds of the texts of the head stops holding when it grows.
LEMMA Grown ==
  ASSUME NEW r \in RunState, NEW S, NEW T, S \subseteq T
  PROVE  /\ \A cat : CatalogStored(cat, S) => CatalogStored(cat, T)
         /\ \A cs : Passed(cs, S) => Passed(cs, T)
         /\ RunStored(r, S) => RunStored(r, T)
         /\ ListedStored(r, S) => ListedStored(r, T)
BY DEF CatalogStored, Stored, Passed, RunStored, ListedStored

\* A step of one command that writes no file is about that command alone.
LEMMA LocalStep ==
  ASSUME CliInv, NEW p \in Proc, NEW r \in RunState, RunOK(r),
         run' = [run EXCEPT ![p] = r],
         UNCHANGED <<upstream, head, catalog, archive, cursors, rebuilt>>,
         used' \in [runs : 0..MaxRuns, crashes : 0..MaxKills, time : Time], used'.time = used.time
  PROVE  CliInv'
<1>1. CliTypeOK'
  BY DEF CliInv, CliTypeOK
<1>2. FilesOK'
  BY DEF CliInv, FilesOK, HeadTexts, Passed, Behind
<1>3. \A q \in Proc : run'[q] = IF q = p THEN r ELSE run[q]
  BY DEF CliInv, CliTypeOK
<1>4. \A q \in Proc : RunOK(run'[q])
  BY <1>3 DEF CliInv
<1>5. ASSUME NEW q \in Proc PROVE RunOK(run[q])'
  <2>1. RunOK(run'[q])
    BY <1>4
  <2> QED
    BY <2>1 DEF RunOK, HeadTexts, Passed, ListedStored, Behind
<1> QED BY <1>1, <1>2, <1>5 DEF CliInv

\* Every document has been written at least once.
LEMMA NoCursorPassed == ASSUME CliInv PROVE Passed(NoCursors, HeadTexts)
<1> SUFFICES ASSUME NEW d \in Doc, upstream[d].time <= NoCursors[SourceOf[d]] PROVE FALSE
  BY DEF Passed
<1>1. NoCursors[SourceOf[d]] = 0
  BY IngestConstants DEF NoCursors
<1>2. upstream[d].time \in Nat
  BY Types DEF CliInv, CliTypeOK
<1> QED BY <1>1, <1>2 DEF CliInv, FilesOK

\* An idle command meets every condition.
LEMMA IdleOK == ASSUME CliInv PROVE RunOK(Idle)
<1>1. used.time \in Nat
  BY Types DEF CliInv, CliTypeOK
<1>2. Phases(Idle)
  BY DEF Phases, Idle, NoCursors
<1>3. RunStored(Idle, HeadTexts)
  BY TextsOf DEF RunStored, Idle, CatalogStored, NoCatalog
<1>4. ListedStored(Idle, HeadTexts)
  BY DEF ListedStored, Idle
<1>5. Passed(NoCursors, HeadTexts)
  BY NoCursorPassed
<1> QED BY <1>1, <1>2, <1>3, <1>4, <1>5 DEF RunOK, Idle, NoCursors, Behind

LEMMA StartStep ==
  ASSUME CliInv, NEW p \in Proc, NEW r \in RunState, RunOK(r), Start(p, r)
  PROVE  CliInv'
<1>1. used' \in [runs : 0..MaxRuns, crashes : 0..MaxKills, time : Time] /\ used'.time = used.time
  BY IngestConstants DEF Start, CliInv, CliTypeOK
<1> QED BY <1>1, LocalStep DEF Start, Step

LEMMA BeginStep ==
  ASSUME CliInv, NEW p \in Proc, NEW s \in Source, NEW only \in SUBSET Doc,
         NEW since \in {0, cursors[s]}, Begin(p, s, only, since)
  PROVE  CliInv'
<1> DEFINE r == [Idle EXCEPT
      !.phase = "stream", !.src = s, !.only = only, !.since = since,
      !.catalog = catalog, !.archive = archive, !.cursors = cursors,
      !.ids = KnownIds(catalog, head.chunks), !.fps = KnownFps(catalog, head.chunks),
      !.todo = {d \in Doc : SourceOf[d] = s}]
<1>1. /\ head.chunks \in SUBSET Chunk /\ catalog \in [Doc -> Entry \cup {NoEntry}]
      /\ cursors \in [Source -> Time] /\ archive \in SUBSET Chunk /\ used.time \in Nat
  BY Types DEF CliInv, CliTypeOK
<1>10. since \in Time /\ since <= cursors[s]
  <2>1. cursors[s] \in Time /\ cursors[s] \in Nat
    BY <1>1, Types
  <2> QED BY <2>1, Types
<1>2. KnownIds(catalog, head.chunks) \subseteq Chunk /\ KnownFps(catalog, head.chunks) \subseteq Text
  BY <1>1, KnownStored
<1>3. r \in RunState
  BY <1>1, <1>10, <1>2, Types DEF RunState, Phase
<1>4. /\ r.phase = "stream" /\ r.src = s /\ r.since = since /\ ~r.replace /\ r.catalog = catalog
      /\ r.cursors = cursors /\ r.ids = KnownIds(catalog, head.chunks)
      /\ r.fps = KnownFps(catalog, head.chunks) /\ r.todo = {d \in Doc : SourceOf[d] = s}
      /\ r.pending = {} /\ r.batch = {} /\ r.maxTime = 0
  BY DEF Idle
<1>5. Start(p, r)
  BY DEF Begin
<1> HIDE DEF r
<1>6. Phases(r)
  BY <1>4, <1>10 DEF Phases
<1>7. ~rebuilt => RunStored(r, HeadTexts)
  BY <1>1, <1>4, KnownStored, TextsOf DEF CliInv, FilesOK, RunStored, HeadTexts
<1>8. ~rebuilt => Passed(r.cursors, HeadTexts) /\ ListedStored(r, HeadTexts)
  BY <1>4 DEF CliInv, FilesOK, ListedStored
<1>9. RunOK(r)
  BY <1>1, <1>4, <1>6, <1>7, <1>8 DEF RunOK, CliInv, FilesOK
<1> QED BY <1>3, <1>5, <1>9, StartStep

\* A reingest records nothing: its chunks only go to the segments.
LEMMA ReingestStep ==
  ASSUME CliInv, NEW p \in Proc, NEW C \in SUBSET Chunk,
         Start(p, [Idle EXCEPT !.phase = "stream", !.replace = TRUE, !.batch = C])
  PROVE  CliInv'
<1> DEFINE r == [Idle EXCEPT !.phase = "stream", !.replace = TRUE, !.batch = C]
<1>1. r \in RunState
  BY Types DEF RunState, Phase
<1>2. /\ r.phase = "stream" /\ r.src = NoEntry /\ r.only = {} /\ r.since = 0 /\ r.replace = TRUE
      /\ r.catalog = NoCatalog /\ r.cursors = NoCursors /\ r.ids = {} /\ r.fps = {} /\ r.todo = {}
      /\ r.pending = {} /\ r.batch = C /\ r.maxTime = 0
  BY DEF Idle
<1>3. used.time \in Nat
  BY Types DEF CliInv, CliTypeOK
<1> HIDE DEF r
<1>4. Phases(r)
  BY <1>2 DEF Phases, NoCursors
<1>5. RunStored(r, HeadTexts)
  BY <1>2, TextsOf DEF RunStored, CatalogStored, NoCatalog
<1>6. ListedStored(r, HeadTexts)
  BY <1>2 DEF ListedStored
<1>7. RunOK(r)
  BY <1>2, <1>3, <1>4, <1>5, <1>6, NoCursorPassed DEF RunOK, Behind, NoCursors
<1> QED BY <1>1, <1>7, StartStep DEF r

LEMMA StartsStep ==
  ASSUME CliInv, NEW p \in Proc,
         \/ \E s \in Source, only \in {Doc} \cup {{d} : d \in Doc} :
              \E since \in {0, cursors[s]} : Begin(p, s, only, since)
         \/ \E keep \in {Doc} \cup {{d} : d \in Doc} :
              \/ Reingest(p, keep)
              \/ \E skipMissing \in BOOLEAN : ReplayRaw(p, keep, skipMissing)
  PROVE  CliInv'
<1>1. \A only \in {Doc} \cup {{d} : d \in Doc} : only \in SUBSET Doc
  OBVIOUS
<1>2. head.chunks \in SUBSET Chunk /\ archive \in SUBSET Chunk
  BY DEF CliInv, CliTypeOK
<1>3. ASSUME NEW s \in Source, NEW only \in SUBSET Doc, NEW since \in {0, cursors[s]},
             Begin(p, s, only, since)
      PROVE  CliInv'
  BY <1>3, BeginStep
<1>4. ASSUME NEW keep, Reingest(p, keep) PROVE CliInv'
  <2>1. {c \in head.chunks : c.doc \in keep} \in SUBSET Chunk
    BY <1>2
  <2> QED BY <1>4, <2>1, ReingestStep DEF Reingest
<1>5. ASSUME NEW keep, NEW skipMissing, ReplayRaw(p, keep, skipMissing) PROVE CliInv'
  <2>1. {c \in archive : c.doc \in keep} \in SUBSET Chunk
    BY <1>2
  <2> QED BY <1>5, <2>1, ReingestStep DEF ReplayRaw
<1> QED BY <1>1, <1>3, <1>4, <1>5

LEMMA SkipStep == ASSUME CliInv, NEW p \in Proc, NEW d \in Doc, Skip(p, d) PROVE CliInv'
<1> DEFINE r == run[p]
           n == [r EXCEPT !.todo = @ \ {d}]
<1>1. r \in RunState /\ RunOK(r)
  BY DEF CliInv, CliTypeOK
<1>2. /\ r.phase = "stream" /\ d \in r.todo
      /\ upstream[d].texts = {} \/ upstream[d].time < r.since
      /\ run' = [run EXCEPT ![p] = n]
      /\ UNCHANGED <<upstream, head, catalog, archive, cursors, rebuilt, used>>
  BY DEF Skip, Step
<1>3. n \in RunState /\ n = [r EXCEPT !.todo = r.todo \ {d}]
  BY <1>1 DEF RunState
<1>4. /\ n.phase = "stream" /\ n.todo = r.todo \ {d} /\ n.only = r.only /\ n.src = r.src
      /\ n.since = r.since /\ n.catalog = r.catalog /\ n.cursors = r.cursors /\ n.ids = r.ids
      /\ n.fps = r.fps /\ n.pending = r.pending /\ n.batch = r.batch /\ n.maxTime = r.maxTime
      /\ n.replace = r.replace
  BY <1>1, <1>2 DEF RunState
<1> HIDE DEF n
<1>5. Phases(n)
  BY <1>1, <1>2, <1>4 DEF RunOK, Phases
<1>6. ASSUME ~rebuilt PROVE ListedStored(n, HeadTexts)
  <2>1. ASSUME SourceOf[d] = r.src, ~upstream[d].raced PROVE upstream[d].texts \subseteq HeadTexts
    <3>1. r.src \in Source /\ r.since <= r.cursors[r.src]
      BY <1>1, <1>2 DEF RunOK, Phases
    <3>2. upstream[d].time \in Nat /\ r.since \in Nat /\ r.cursors[r.src] \in Nat
      BY <1>1, <3>1, Types DEF CliInv, CliTypeOK, RunState
    <3>3. upstream[d].time < r.since => upstream[d].time <= r.cursors[SourceOf[d]]
      BY <2>1, <3>1, <3>2
    <3> QED BY <1>1, <1>2, <1>6, <2>1, <3>3 DEF RunOK, Passed
  <2> QED BY <1>1, <1>4, <1>6, <2>1 DEF RunOK, ListedStored
<1>7. RunOK(n)
  BY <1>1, <1>4, <1>5, <1>6 DEF RunOK, RunStored
<1> QED BY <1>2, <1>3, <1>7, LocalStep DEF CliInv, CliTypeOK

LEMMA FetchStep == ASSUME CliInv, NEW p \in Proc, NEW d \in Doc, Fetch(p, d) PROVE CliInv'
<1> DEFINE r == run[p]
           C == IF d \in r.only THEN Version(d) ELSE {}
           n == [r EXCEPT
             !.todo = @ \ {d},
             !.maxTime = IF upstream[d].time > @ THEN upstream[d].time ELSE @,
             !.archived = @ \/ ~InArchive(r.archive, d),
             !.archive = IF InArchive(@, d) THEN @ ELSE @ \cup Version(d),
             !.pending = @ \cup C,
             !.batch = @ \cup Unknown(r, C)]
           newest == IF upstream[d].time > r.maxTime THEN upstream[d].time ELSE r.maxTime
<1>1. r \in RunState /\ RunOK(r)
  BY DEF CliInv, CliTypeOK
<1>2. /\ r.phase = "stream" /\ d \in r.todo
      /\ run' = [run EXCEPT ![p] = n]
      /\ UNCHANGED <<upstream, head, catalog, archive, cursors, rebuilt, used>>
  BY DEF Fetch, Step
<1>3. Version(d) \subseteq Chunk /\ Texts(Version(d)) = upstream[d].texts
  BY VersionTexts DEF CliInv
<1>4. C \in SUBSET Chunk /\ Unknown(r, C) \in SUBSET C
  BY <1>3 DEF Unknown
<1>5. newest \in Time /\ newest <= used.time
  BY <1>1, Types DEF RunOK, CliInv, CliTypeOK, FilesOK, RunState
<1> HIDE DEF C
<1>6. n = [r EXCEPT
             !.todo = r.todo \ {d}, !.maxTime = newest,
             !.archived = r.archived \/ ~InArchive(r.archive, d),
             !.archive = IF InArchive(r.archive, d) THEN r.archive ELSE r.archive \cup Version(d),
             !.pending = r.pending \cup C, !.batch = r.batch \cup Unknown(r, C)]
  BY <1>1 DEF RunState
<1> HIDE DEF n, newest
<1>7. n \in RunState
  <2>1. (IF InArchive(r.archive, d) THEN r.archive ELSE r.archive \cup Version(d)) \in SUBSET Chunk
    BY <1>1, <1>3 DEF RunState
  <2>2. (r.archived \/ ~InArchive(r.archive, d)) \in BOOLEAN
    OBVIOUS
  <2>3. r.pending \cup C \in SUBSET Chunk /\ r.batch \cup Unknown(r, C) \in SUBSET Chunk
        /\ r.todo \ {d} \in SUBSET Doc
    BY <1>1, <1>4 DEF RunState
  <2> QED BY <1>1, <1>5, <1>6, <2>1, <2>2, <2>3 DEF RunState
<1>8. /\ n.phase = "stream" /\ n.todo = r.todo \ {d} /\ n.only = r.only /\ n.src = r.src
      /\ n.since = r.since /\ n.catalog = r.catalog /\ n.cursors = r.cursors /\ n.ids = r.ids
      /\ n.fps = r.fps /\ n.pending = r.pending \cup C /\ n.batch = r.batch \cup Unknown(r, C)
      /\ n.maxTime = newest /\ n.replace = r.replace
  BY <1>1, <1>2, <1>6 DEF RunState
<1>9. Phases(n)
  BY <1>1, <1>2, <1>8 DEF RunOK, Phases
<1>10. ASSUME ~rebuilt PROVE Texts(C) \subseteq HeadTexts \cup Texts(n.batch)
  <2>1. ASSUME NEW c \in C, c \notin Unknown(r, C) PROVE c.text \in HeadTexts
    <3>1. r.fps \subseteq HeadTexts /\ Texts(r.ids) \subseteq HeadTexts
      BY <1>1, <1>10 DEF RunOK, RunStored
    <3>2. c.text \in r.fps \/ c \in r.ids
      BY <2>1 DEF Unknown
    <3> QED BY <3>1, <3>2 DEF Texts
  <2> QED BY <1>8, <2>1 DEF Texts
<1>11. ASSUME ~rebuilt PROVE RunStored(n, HeadTexts)
  <2>1. Texts(n.pending) = Texts(r.pending) \cup Texts(C) /\ Texts(r.batch) \subseteq Texts(n.batch)
    BY <1>8, TextsOf
  <2> QED BY <1>1, <1>8, <1>10, <1>11, <2>1 DEF RunOK, RunStored
<1>12. ASSUME ~rebuilt PROVE ListedStored(n, HeadTexts)
  <2>1. Texts(r.batch) \subseteq Texts(n.batch)
    BY <1>8, TextsOf
  <2>2. n.only = Doc => upstream[d].texts = Texts(C)
    BY <1>3, <1>8 DEF C
  <2> QED BY <1>1, <1>8, <1>10, <1>12, <2>1, <2>2 DEF RunOK, ListedStored
<1>13. RunOK(n)
  BY <1>1, <1>5, <1>8, <1>9, <1>11, <1>12 DEF RunOK
<1> QED BY <1>2, <1>7, <1>13, LocalStep DEF CliInv, CliTypeOK

\* A full batch is handed over, or the stream of a run has come to its end.
LEMMA FlushStep ==
  ASSUME CliInv, NEW p \in Proc, Flush(p) \/ EndStream(p)
  PROVE  CliInv'
<1> DEFINE r == run[p]
<1>1. r \in RunState /\ RunOK(r) /\ head.puts \in Nat
  BY DEF CliInv, CliTypeOK
<1>2. UNCHANGED <<upstream, head, catalog, archive, cursors, rebuilt, used>>
  BY DEF Flush, EndStream
<1>3. ASSUME NEW to \in {"put", "catalog", "archive"}, NEW base \in Nat,
             r.phase = "stream",
             to # "put" => r.todo = {} /\ r.batch = {},
             to = "catalog" => r.pending # {},
             run' = [run EXCEPT ![p] = [r EXCEPT !.phase = to, !.base = base]]
      PROVE  CliInv'
  <2> DEFINE n == [r EXCEPT !.phase = to, !.base = base]
  <2>1. n \in RunState
    BY <1>1 DEF RunState, Phase
  <2>2. /\ n.phase = to /\ n.todo = r.todo /\ n.only = r.only /\ n.src = r.src
        /\ n.since = r.since /\ n.catalog = r.catalog /\ n.cursors = r.cursors /\ n.ids = r.ids
        /\ n.fps = r.fps /\ n.pending = r.pending /\ n.batch = r.batch /\ n.maxTime = r.maxTime
        /\ n.replace = r.replace
    BY <1>1 DEF RunState
  <2> HIDE DEF n
  <2>3. Phases(n)
    BY <1>1, <1>3, <2>2 DEF RunOK, Phases
  <2>4. RunOK(n)
    BY <1>1, <2>2, <2>3 DEF RunOK, RunStored, ListedStored
  <2> QED BY <1>2, <1>3, <2>1, <2>4, LocalStep DEF n, CliInv, CliTypeOK
<1>4. CASE Flush(p)
  <2>1. r.phase = "stream" /\ run' = [run EXCEPT ![p] = [r EXCEPT !.phase = "put", !.base = head.puts]]
    BY <1>4 DEF Flush, Step
  <2> QED BY <1>1, <1>3, <2>1
<1>5. CASE EndStream(p)
  <2>1. /\ r.phase = "stream" /\ r.todo = {} /\ r.batch = {}
        /\ Step(p, IF r.pending # {} THEN [r EXCEPT !.phase = "catalog"]
                   ELSE IF r.archived THEN [r EXCEPT !.phase = "archive"]
                   ELSE Idle)
    BY <1>5 DEF EndStream
  <2>2. \A to : [r EXCEPT !.phase = to] = [r EXCEPT !.phase = to, !.base = r.base]
    BY <1>1 DEF RunState
  <2>3. CASE r.pending # {}
    <3>1. run' = [run EXCEPT ![p] = [r EXCEPT !.phase = "catalog"]]
      BY <2>1, <2>3 DEF Step
    <3>2. r.base \in Nat
      BY <1>1 DEF RunState
    <3> QED BY <1>3, <2>1, <2>2, <2>3, <3>1, <3>2
  <2>4. CASE r.pending = {} /\ r.archived
    <3>1. run' = [run EXCEPT ![p] = [r EXCEPT !.phase = "archive"]]
      BY <2>1, <2>4 DEF Step
    <3>2. r.base \in Nat
      BY <1>1 DEF RunState
    <3> QED BY <1>3, <2>1, <2>2, <3>1, <3>2
  <2>5. CASE r.pending = {} /\ ~r.archived
    <3>1. run' = [run EXCEPT ![p] = Idle]
      BY <2>1, <2>5 DEF Step
    <3> QED BY <1>2, <3>1, IdleOK, Types, LocalStep DEF CliInv, CliTypeOK
  <2> QED BY <2>3, <2>4, <2>5
<1> QED BY <1>4, <1>5

\* A conflict and a kill forget the command.
LEMMA GoneStep ==
  ASSUME CliInv, NEW p \in Proc, PutConflict(p) \/ Kill(p)
  PROVE  CliInv'
<1>1. run' = [run EXCEPT ![p] = Idle] /\ UNCHANGED <<upstream, head, catalog, archive, cursors, rebuilt>>
  BY DEF PutConflict, Kill, Step
<1>2. used' \in [runs : 0..MaxRuns, crashes : 0..MaxKills, time : Time] /\ used'.time = used.time
  BY IngestConstants DEF PutConflict, Kill, CliInv, CliTypeOK
<1> QED BY <1>1, <1>2, IdleOK, Types, LocalStep

\* A step that writes a file: the head has lost no text, so the other commands
\* are where they were.
LEMMA FileStep ==
  ASSUME CliInv, NEW p \in Proc, CliTypeOK', FilesOK', RunOK(run[p])',
         \A q \in Proc \ {p} : run'[q] = run[q],
         UNCHANGED <<upstream, used>>, rebuilt => rebuilt',
         ~rebuilt' => HeadTexts \subseteq HeadTexts'
  PROVE  CliInv'
<1> SUFFICES ASSUME NEW q \in Proc, q # p PROVE RunOK(run[q])'
  BY DEF CliInv
<1>1. RunOK(run[q]) /\ run[q] \in RunState /\ run'[q] = run[q]
  BY DEF CliInv, CliTypeOK
<1>2. ASSUME ~rebuilt'
      PROVE  RunStored(run[q], HeadTexts') /\ Passed(run[q].cursors, HeadTexts')
             /\ ListedStored(run[q], HeadTexts')
  BY <1>1, <1>2, Grown DEF RunOK
<1> QED
  BY <1>1, <1>2 DEF RunOK, Phases, Behind, RunStored, CatalogStored, Stored, Passed, ListedStored

LEMMA PutStep == ASSUME CliInv, NEW p \in Proc, PutSegment(p) PROVE CliInv'
<1> DEFINE r == run[p]
<1>1. r \in RunState /\ RunOK(r) /\ r.phase = "put"
  BY DEF CliInv, CliTypeOK, PutSegment
<1>2. PICK b \in Batch(r) :
        /\ head' = [chunks |-> IF r.replace THEN b ELSE head.chunks \cup b, puts |-> head.puts + 1]
        /\ Step(p, [r EXCEPT !.phase = "stream", !.batch = @ \ b, !.replace = FALSE])
  BY DEF PutSegment
<1>3. rebuilt' = (rebuilt \/ r.replace) /\ UNCHANGED <<upstream, catalog, archive, cursors, used>>
  BY DEF PutSegment
<1> DEFINE n == [r EXCEPT !.phase = "stream", !.batch = r.batch \ b, !.replace = FALSE]
<1>4. b \in SUBSET r.batch /\ r.batch \in SUBSET Chunk
  BY <1>1 DEF Batch, RunState
<1>5. n \in RunState
  BY <1>1, <1>4 DEF RunState, Phase
<1>6. run' = [run EXCEPT ![p] = n]
  BY <1>1, <1>2 DEF Step, RunState
<1>7. run'[p] = n /\ \A q \in Proc \ {p} : run'[q] = run[q]
  BY <1>6 DEF CliInv, CliTypeOK
<1>8. /\ n.phase = "stream" /\ n.todo = r.todo /\ n.only = r.only /\ n.src = r.src
      /\ n.since = r.since /\ n.catalog = r.catalog /\ n.cursors = r.cursors /\ n.ids = r.ids
      /\ n.fps = r.fps /\ n.pending = r.pending /\ n.batch = r.batch \ b /\ n.maxTime = r.maxTime
      /\ ~n.replace
  BY <1>1 DEF RunState
<1> HIDE DEF n
<1>9. head' \in [chunks : SUBSET Chunk, puts : Nat]
  BY <1>2, <1>4 DEF CliInv, CliTypeOK
<1>10. CliTypeOK'
  BY <1>3, <1>5, <1>6, <1>9 DEF CliInv, CliTypeOK
<1>11. ASSUME ~rebuilt'
       PROVE  ~rebuilt /\ HeadTexts \subseteq HeadTexts' /\ Texts(b) \subseteq HeadTexts'
  <2>1. ~r.replace
    BY <1>3, <1>11
  <2>2. head'.chunks = head.chunks \cup b
    BY <1>2, <2>1
  <2> QED BY <1>3, <1>11, <2>2, TextsOf DEF HeadTexts
<1>12. FilesOK'
  BY <1>1, <1>3, <1>11, Grown DEF CliInv, FilesOK, Behind, Passed, CatalogStored, Stored
<1>13. ASSUME ~rebuilt'
       PROVE  RunStored(n, HeadTexts') /\ Passed(n.cursors, HeadTexts') /\ ListedStored(n, HeadTexts')
  <2>1. RunStored(r, HeadTexts') /\ Passed(r.cursors, HeadTexts') /\ ListedStored(r, HeadTexts')
    BY <1>1, <1>11, <1>13, Grown DEF RunOK
  <2>2. Texts(r.batch) \subseteq HeadTexts' \cup Texts(n.batch)
    BY <1>8, <1>11, <1>13 DEF Texts
  <2> QED BY <1>8, <2>1, <2>2 DEF RunStored, ListedStored
<1>14. Phases(n)
  BY <1>1, <1>8 DEF RunOK, Phases
<1>15. RunOK(run[p])'
  <2>1. n.maxTime <= used'.time /\ \A s \in Source : n.cursors[s] <= used'.time
    BY <1>1, <1>3, <1>8 DEF RunOK, Behind
  <2> QED
    BY <1>3, <1>7, <1>13, <1>14, <2>1
       DEF RunOK, Phases, Behind, RunStored, CatalogStored, Stored, Passed, ListedStored
<1> QED BY <1>3, <1>7, <1>10, <1>11, <1>12, <1>15, FileStep

\* The files of a run that has come to its end.
LEMMA SaveStep ==
  ASSUME CliInv, NEW p \in Proc, SaveCatalog(p) \/ SaveArchive(p) \/ SaveCursor(p)
  PROVE  CliInv'
<1> DEFINE r == run[p]
<1>1. r \in RunState /\ RunOK(r) /\ r.phase \in {"catalog", "archive", "cursor"}
  BY DEF CliInv, CliTypeOK, SaveCatalog, SaveArchive, SaveCursor
<1>2. UNCHANGED <<upstream, head, rebuilt, used>> /\ HeadTexts' = HeadTexts
  BY DEF SaveCatalog, SaveArchive, SaveCursor, HeadTexts
<1>3. r.todo = {} /\ r.batch = {} /\ (r.phase \in {"catalog", "cursor"} => r.pending # {} /\ r.src \in Source)
  BY <1>1 DEF RunOK, Phases
<1>4. \E n \in RunState :
        /\ run' = [run EXCEPT ![p] = n]
        /\ RunOK(n)
  <2>1. ASSUME NEW to \in {"archive", "cursor"}, to = "cursor" => r.pending # {},
               run' = [run EXCEPT ![p] = [r EXCEPT !.phase = to]]
        PROVE  \E n \in RunState : run' = [run EXCEPT ![p] = n] /\ RunOK(n)
    <3> DEFINE n == [r EXCEPT !.phase = to]
    <3>1. n \in RunState
      BY <1>1 DEF RunState, Phase
    <3>2. /\ n.phase = to /\ n.todo = r.todo /\ n.only = r.only /\ n.src = r.src
          /\ n.since = r.since /\ n.catalog = r.catalog /\ n.cursors = r.cursors /\ n.ids = r.ids
          /\ n.fps = r.fps /\ n.pending = r.pending /\ n.batch = r.batch /\ n.maxTime = r.maxTime
          /\ n.replace = r.replace
      BY <1>1 DEF RunState
    <3>3. run' = [run EXCEPT ![p] = n]
      BY <2>1
    <3> HIDE DEF n
    <3>4. Phases(n)
      BY <1>1, <1>3, <2>1, <3>2 DEF RunOK, Phases
    <3>5. RunOK(n)
      BY <1>1, <3>2, <3>4 DEF RunOK, RunStored, ListedStored
    <3> QED BY <3>1, <3>3, <3>5
  <2>2. ASSUME run' = [run EXCEPT ![p] = Idle]
        PROVE  \E n \in RunState : run' = [run EXCEPT ![p] = n] /\ RunOK(n)
    BY <2>2, IdleOK, Types
  <2>3. CASE SaveCatalog(p)
    <3>1. r.phase = "catalog" /\ Step(p, [r EXCEPT !.phase = IF r.archived THEN "archive" ELSE "cursor"])
      BY <2>3 DEF SaveCatalog
    <3>2. CASE r.archived
      <4>1. run' = [run EXCEPT ![p] = [r EXCEPT !.phase = "archive"]]
        BY <3>1, <3>2 DEF Step
      <4> QED BY <2>1, <4>1
    <3>3. CASE ~r.archived
      <4>1. run' = [run EXCEPT ![p] = [r EXCEPT !.phase = "cursor"]]
        BY <3>1, <3>3 DEF Step
      <4> QED BY <1>3, <2>1, <3>1, <4>1
    <3> QED BY <3>2, <3>3
  <2>4. CASE SaveArchive(p)
    <3>1. Step(p, IF r.pending = {} THEN Idle ELSE [r EXCEPT !.phase = "cursor"])
      BY <2>4 DEF SaveArchive
    <3>2. CASE r.pending = {}
      BY <2>2, <3>1, <3>2 DEF Step
    <3>3. CASE r.pending # {}
      <4>1. run' = [run EXCEPT ![p] = [r EXCEPT !.phase = "cursor"]]
        BY <3>1, <3>3 DEF Step
      <4> QED BY <2>1, <3>3, <4>1
    <3> QED BY <3>2, <3>3
  <2>5. CASE SaveCursor(p)
    BY <2>2, <2>5 DEF SaveCursor, Step
  <2> QED BY <2>3, <2>4, <2>5
<1>5. PICK n \in RunState : run' = [run EXCEPT ![p] = n] /\ RunOK(n)
  BY <1>4
<1>6. run'[p] = n /\ \A q \in Proc \ {p} : run'[q] = run[q]
  BY <1>5 DEF CliInv, CliTypeOK
<1>7. RunOK(run[p])'
  BY <1>2, <1>5, <1>6
     DEF RunOK, Phases, Behind, RunStored, CatalogStored, Stored, Passed, ListedStored
<1>8. /\ catalog' \in [Doc -> Entry \cup {NoEntry}]
      /\ ~rebuilt => CatalogStored(catalog', HeadTexts)
  <2>1. CASE SaveCatalog(p)
    <3>1. catalog' = UpdateCatalog(r.catalog, r.pending)
      BY <2>1 DEF SaveCatalog
    <3>2. r.catalog \in [Doc -> Entry \cup {NoEntry}] /\ r.pending \in SUBSET Chunk
      BY <1>1 DEF RunState
    <3>3. ~rebuilt => CatalogStored(r.catalog, HeadTexts) /\ Texts(r.pending) \subseteq HeadTexts
      BY <1>1, <1>3, TextsOf DEF RunOK, RunStored
    <3> QED BY <3>1, <3>2, <3>3, CatalogUpdated
  <2>2. CASE SaveArchive(p) \/ SaveCursor(p)
    BY <2>2 DEF SaveArchive, SaveCursor, CliInv, CliTypeOK, FilesOK
  <2> QED BY <2>1, <2>2
<1>9. /\ cursors' \in [Source -> Time] /\ \A s \in Source : cursors'[s] <= used.time
      /\ ~rebuilt => Passed(cursors', HeadTexts)
  <2>1. CASE SaveCursor(p) /\ ~IsPartial(r)
    <3>1. cursors' = [r.cursors EXCEPT ![r.src] = CursorValue(r)] /\ r.only = Doc /\ r.src \in Source
      BY <1>3, <2>1 DEF SaveCursor, IsPartial
    <3>2. /\ r.cursors \in [Source -> Time] /\ r.maxTime \in Time /\ r.maxTime <= used.time
          /\ \A s \in Source : r.cursors[s] <= used.time
      BY <1>1 DEF RunState, RunOK, Behind
    <3>3. CursorValue(r) \in Time /\ CursorValue(r) <= used.time
      BY <3>1, <3>2 DEF CursorValue
    <3>4. ASSUME NEW d \in Doc, ~rebuilt, upstream[d].time <= cursors'[SourceOf[d]], ~upstream[d].raced
          PROVE  upstream[d].texts \subseteq HeadTexts
      <4>1. SourceOf[d] \in Source
        BY IngestConstants
      <4>2. CASE SourceOf[d] = r.src
        BY <1>1, <1>3, <3>1, <3>4, <4>2, TextsOf DEF RunOK, ListedStored
      <4>3. CASE SourceOf[d] # r.src
        <5>1. cursors'[SourceOf[d]] = r.cursors[SourceOf[d]]
          BY <3>1, <3>2, <4>1, <4>3
        <5> QED BY <1>1, <3>4, <5>1 DEF RunOK, Passed
      <4> QED BY <4>2, <4>3
    <3> QED BY <3>1, <3>2, <3>3, <3>4 DEF Passed
  <2>2. CASE cursors' = cursors
    BY <2>2 DEF CliInv, CliTypeOK, FilesOK, Behind
  <2> QED BY <2>1, <2>2 DEF SaveCatalog, SaveArchive, SaveCursor
<1>10. archive' \subseteq Chunk
  BY <1>1 DEF SaveCatalog, SaveArchive, SaveCursor, CliInv, CliTypeOK, RunState
<1>11. CliTypeOK'
  BY <1>2, <1>5, <1>8, <1>9, <1>10 DEF CliInv, CliTypeOK
<1>12. FilesOK'
  BY <1>2, <1>8, <1>9 DEF CliInv, FilesOK, Behind, Passed, CatalogStored, Stored
<1> QED BY <1>2, <1>6, <1>7, <1>11, <1>12, FileStep

\* An edit is later than every cursor, and a whole run that has listed the
\* document is marked as raced.
LEMMA EditStep == ASSUME CliInv, NEW d \in Doc, Edit(d) PROVE CliInv'
<1>1. PICK T \in SUBSET Text :
        upstream' = [upstream EXCEPT ![d] = [time |-> used.time + 1, texts |-> T, raced |-> Listed(d)]]
  BY DEF Edit
<1>2. /\ used.time \in Nat /\ used.time + 1 \in Time
      /\ used' = [used EXCEPT !.time = used.time + 1]
      /\ UNCHANGED <<head, catalog, archive, cursors, run, rebuilt>>
  BY IngestConstants, Types DEF Edit, CliInv, CliTypeOK, Time
<1>3. /\ upstream'[d] = [time |-> used.time + 1, texts |-> T, raced |-> Listed(d)]
      /\ \A e \in Doc \ {d} : upstream'[e] = upstream[e]
      /\ used'.time = used.time + 1
  BY <1>1, <1>2 DEF CliInv, CliTypeOK
<1>4. CliTypeOK'
  <2>1. Listed(d) \in BOOLEAN
    BY DEF Listed
  <2> QED BY <1>1, <1>2, <2>1 DEF CliInv, CliTypeOK
<1>5. ASSUME NEW cs \in [Source -> Time], Behind(cs)
      PROVE  /\ \A s \in Source : cs[s] <= used'.time
             /\ Passed(cs, HeadTexts) =>
                  \A e \in Doc : upstream'[e].time <= cs[SourceOf[e]] /\ ~upstream'[e].raced
                                   => upstream'[e].texts \subseteq HeadTexts
  <2>1. \A s \in Source : cs[s] \in Nat /\ cs[s] <= used.time
    BY <1>5, Types DEF Behind
  <2>2. SourceOf[d] \in Source
    BY IngestConstants
  <2>3. ~(upstream'[d].time <= cs[SourceOf[d]])
    BY <1>2, <1>3, <2>1, <2>2
  <2> QED BY <1>2, <1>3, <2>1, <2>3 DEF Passed
<1>6. FilesOK'
  <2>1. \A e \in Doc : 1 <= upstream'[e].time /\ upstream'[e].time <= used'.time
    <3>1. \A e \in Doc : upstream[e].time \in Nat /\ 1 <= upstream[e].time /\ upstream[e].time <= used.time
      BY Types DEF CliInv, CliTypeOK, FilesOK
    <3> QED BY <1>2, <1>3, <3>1
  <2>2. cursors \in [Source -> Time] /\ Behind(cursors)
    BY DEF CliInv, CliTypeOK, FilesOK
  <2> QED
    BY <1>2, <1>5, <2>1, <2>2 DEF CliInv, FilesOK, Behind, Passed, CatalogStored, Stored, HeadTexts
<1>7. ASSUME NEW p \in Proc PROVE RunOK(run[p])'
  <2> DEFINE r == run[p]
  <2>1. r \in RunState /\ RunOK(r)
    BY DEF CliInv, CliTypeOK
  <2>2. r.maxTime <= used'.time /\ \A s \in Source : r.cursors[s] <= used'.time
    <3>1. r.maxTime \in Nat /\ r.cursors \in [Source -> Time]
      BY <2>1, Types DEF RunState
    <3> QED BY <1>2, <1>3, <1>5, <2>1, <3>1 DEF RunOK
  <2>3. ASSUME ~rebuilt, NEW e \in Doc, upstream'[e].time <= r.cursors[SourceOf[e]], ~upstream'[e].raced
        PROVE  upstream'[e].texts \subseteq HeadTexts
    <3>1. r.cursors \in [Source -> Time]
      BY <2>1 DEF RunState
    <3> QED BY <1>5, <2>1, <2>3, <3>1 DEF RunOK
  <2>4. ASSUME ~rebuilt, r.only = Doc, NEW e \in Doc, SourceOf[e] = r.src, e \notin r.todo, ~upstream'[e].raced
        PROVE  upstream'[e].texts \subseteq HeadTexts \cup Texts(r.batch)
    <3>1. CASE e = d
      <4>1. r.phase # "idle"
        BY <2>1, <2>4 DEF RunOK, Phases, Idle
      <4>2. Listed(d)
        BY <2>4, <3>1, <4>1 DEF Listed
      <4> QED BY <1>3, <2>4, <3>1, <4>2
    <3>2. CASE e # d
      BY <1>3, <2>1, <2>4, <3>2 DEF RunOK, ListedStored
    <3> QED BY <3>1, <3>2
  <2> QED
    BY <1>2, <2>1, <2>2, <2>3, <2>4
       DEF RunOK, Phases, Behind, RunStored, CatalogStored, Stored, Passed, ListedStored, HeadTexts
<1> QED BY <1>4, <1>6, <1>7 DEF CliInv

-----------------------------------------------------------------------------
(* The theorems *)

LEMMA InitCli == CliInit => CliInv
<1> SUFFICES ASSUME CliInit PROVE CliInv
  OBVIOUS
<1>1. CliTypeOK
  <2>1. upstream \in [Doc -> [time : Time, texts : SUBSET Text, raced : BOOLEAN]]
    BY Types DEF CliInit
  <2>2. /\ head \in [chunks : SUBSET Chunk, puts : Nat]
        /\ used \in [runs : 0..MaxRuns, crashes : 0..MaxKills, time : Time]
    BY IngestConstants, Types DEF CliInit
  <2> QED BY <2>1, <2>2, Types DEF CliInit, CliTypeOK
<1>2. FilesOK
  <2>1. ~\E d \in Doc : upstream[d].time <= NoCursors[SourceOf[d]]
    BY IngestConstants DEF CliInit, NoCursors
  <2>2. used.time = 1 /\ \A d \in Doc : upstream[d].time = 1
    BY DEF CliInit
  <2> QED BY <2>1, <2>2 DEF CliInit, FilesOK, CatalogStored, NoCatalog, Behind, NoCursors, Passed
<1>3. RunOK(Idle)
  <2>1. \A d \in Doc : ~(upstream[d].time <= NoCursors[SourceOf[d]])
    BY IngestConstants DEF CliInit, NoCursors
  <2>2. RunStored(Idle, HeadTexts) /\ ListedStored(Idle, HeadTexts)
    BY TextsOf DEF RunStored, ListedStored, Idle, CatalogStored, NoCatalog
  <2>3. Phases(Idle) /\ used.time = 1
    BY DEF CliInit, Phases, Idle, NoCursors
  <2> QED BY <2>1, <2>2, <2>3 DEF RunOK, Idle, Passed, Behind, NoCursors
<1> QED BY <1>1, <1>2, <1>3 DEF CliInv, CliInit

LEMMA StepCli == CliInv /\ [CliNext]_cliVars => CliInv'
<1> SUFFICES ASSUME CliInv, [CliNext]_cliVars PROVE CliInv'
  OBVIOUS
<1>1. CASE UNCHANGED cliVars
  BY <1>1 DEF cliVars, CliInv, CliTypeOK, FilesOK, RunOK, Phases, Behind, RunStored, CatalogStored,
              Stored, Passed, ListedStored, HeadTexts
<1>2. ASSUME NEW p \in Proc, Command(p) PROVE CliInv'
  BY <1>2, SkipStep, FetchStep, FlushStep, PutStep, GoneStep, SaveStep DEF Command
<1> QED BY <1>1, <1>2, EditStep, StartsStep, GoneStep DEF CliNext

\* The files, the head and the memory of the commands keep their types.
THEOREM CliTypes == CliSpec => []CliTypeOK
<1>1. CliInv => CliTypeOK
  BY DEF CliInv
<1> QED BY <1>1, InitCli, StepCli, PTL DEF CliSpec

\* Until a reingest replaces the segments, whatever the document catalog makes
\* a later ingest skip has its text in a segment of the head: the catalog is
\* written after the puts of its run, from the copy that run had read, and no
\* other ingest takes a segment out.
THEOREM CatalogIsStored == CliSpec => []CataloguedIsStored
<1>1. CliInv => CataloguedIsStored
  BY DEF CliInv, FilesOK, CatalogStored, Stored, CataloguedIsStored, Entries, HeadTexts
<1> QED BY <1>1, InitCli, StepCli, PTL DEF CliSpec

\* An edit that the cursor of its source has passed is in the head, unless it
\* was made while a run that had listed the document was going on: a cursor is
\* saved by a run that has listed the whole source and put all it found new.
THEOREM EditsAreNotSkipped == CliSpec => []NothingSkipped
<1>1. CliInv => NothingSkipped
  BY DEF CliInv, FilesOK, Passed, NothingSkipped, HeadTexts
<1> QED BY <1>1, InitCli, StepCli, PTL DEF CliSpec

\* A segment leaves the head only with the first put of a reingest, however
\* commands overlap: the head is put back with what was read of it, and only
\* if nobody has put it since.
THEOREM SegmentsStay == CliSpec => SegmentsOnlyGrow
<1> DEFINE Grows == head.chunks \subseteq head'.chunks \/ \E p \in Proc : run[p].replace /\ PutSegment(p)
<1>1. ASSUME CliNext PROVE Grows
  <2>1. ASSUME NEW p \in Proc, PutSegment(p) PROVE Grows
    <3>1. \E b : head' = [chunks |-> IF run[p].replace THEN b ELSE head.chunks \cup b,
                         puts |-> head.puts + 1]
      BY <2>1 DEF PutSegment
    <3>2. CASE ~run[p].replace
      BY <3>1, <3>2
    <3> QED BY <2>1, <3>2
  <2>2. ASSUME NEW p \in Proc, Command(p), ~PutSegment(p) PROVE UNCHANGED head
    BY <2>2 DEF Command, Skip, Fetch, Flush, PutConflict, EndStream, SaveCatalog, SaveArchive, SaveCursor
  <2>3. ASSUME NEW d \in Doc, Edit(d) PROVE UNCHANGED head
    BY <2>3 DEF Edit
  <2> QED
    BY <1>1, <2>1, <2>2, <2>3 DEF CliNext, Begin, Reingest, ReplayRaw, Start, Kill
<1>2. [CliNext]_cliVars => [Grows]_cliVars
  BY <1>1
<1> QED BY <1>2, PTL DEF CliSpec, SegmentsOnlyGrow
=============================================================================
