------------------------------ MODULE CliIngest ------------------------------
(***************************************************************************)
(* `wtfoc ingest` and `wtfoc reingest` on one local collection: the files  *)
(* they keep beside the manifest (document catalog, archive index, source  *)
(* cursors), the head they append segments to, and what happens when two   *)
(* commands overlap or one dies between two files.                         *)
(*                                                                         *)
(* Data is abstracted to what the deduplication tells apart: a document    *)
(* version is the time of its last edit and the set of its texts, a chunk  *)
(* is one text of one version (its id hashes all three, its fingerprint    *)
(* the text alone).  Each file is replaced by a rename, so a reader sees   *)
(* it whole; the head moves by the compare-and-swap of HeadRegister.       *)
(***************************************************************************)
EXTENDS Naturals, FiniteSets

CONSTANTS
  Proc,         \* terminals in which a command can run
  Doc, Source, Text,
  SourceOf,     \* the source a document comes from
  AppendOnly,   \* documents whose type is append-only (HN stories, comments)
  NoEntry,      \* no catalog entry
  MaxBatch,     \* --batch-size
  MaxTime,      \* bound: edits made at the sources
  MaxRuns,      \* bound: commands started
  MaxKills      \* bound: commands killed

ASSUME IngestConstants ==
  /\ SourceOf \in [Doc -> Source]
  /\ AppendOnly \subseteq Doc
  /\ MaxBatch \in Nat \ {0}
  /\ MaxTime \in Nat \ {0}
  /\ {MaxRuns, MaxKills} \subseteq Nat

Time == 0..MaxTime
Chunk == [doc : Doc, ver : Time, text : Text]
Entry == [ver : Time, chunks : SUBSET Chunk, superseded : SUBSET Chunk, fps : SUBSET Text]

ASSUME NoEntryAssumption == NoEntry \notin Entry

VARIABLES
  upstream,     \* the documents at their sources
  head,         \* chunks of the head's segments; how often the head was put
  catalog,      \* <collection>.document-catalog.json
  archive,      \* <collection>.raw-source-index.json, as chunks
  cursors,      \* <collection>.ingest-cursors.json, 0 for none
  run,          \* the command of each terminal
  rebuilt,      \* a reingest has replaced the segments
  used          \* runs and crashes so far, against their bounds

cliVars == <<upstream, head, catalog, archive, cursors, run, rebuilt, used>>

Texts(C) == {c.text : c \in C}
NoCatalog == [d \in Doc |-> NoEntry]
NoCursors == [s \in Source |-> 0]

\* What a command holds in memory between two awaits.
Idle == [phase |-> "idle", replace |-> FALSE, src |-> NoEntry, only |-> {}, since |-> 0,
         catalog |-> NoCatalog, archive |-> {}, cursors |-> NoCursors,
         ids |-> {}, fps |-> {}, todo |-> {}, pending |-> {}, batch |-> {},
         archived |-> FALSE, maxTime |-> 0, base |-> 0]

Phase == {"idle", "stream", "put", "catalog", "archive", "cursor"}

RunState ==
  [phase : Phase, replace : BOOLEAN, src : Source \cup {NoEntry}, only : SUBSET Doc,
   since : Time, catalog : [Doc -> Entry \cup {NoEntry}], archive : SUBSET Chunk,
   cursors : [Source -> Time], ids : SUBSET Chunk, fps : SUBSET Text, todo : SUBSET Doc,
   pending : SUBSET Chunk, batch : SUBSET Chunk, archived : BOOLEAN, maxTime : Time, base : Nat]

CliTypeOK ==
  /\ upstream \in [Doc -> [time : Time, texts : SUBSET Text, raced : BOOLEAN]]
  /\ head \in [chunks : SUBSET Chunk, puts : Nat]
  /\ catalog \in [Doc -> Entry \cup {NoEntry}]
  /\ archive \subseteq Chunk
  /\ cursors \in [Source -> Time]
  /\ run \in [Proc -> RunState]
  /\ rebuilt \in BOOLEAN
  /\ used \in [runs : 0..MaxRuns, crashes : 0..MaxKills, time : Time]

CliInit ==
  /\ \E T \in SUBSET Text :
       upstream = [d \in Doc |-> [time |-> 1, texts |-> T, raced |-> FALSE]]
  /\ head = [chunks |-> {}, puts |-> 0]
  /\ catalog = NoCatalog
  /\ archive = {}
  /\ cursors = NoCursors
  /\ run = [p \in Proc |-> Idle]
  /\ rebuilt = FALSE
  /\ used = [runs |-> 0, crashes |-> 0, time |-> 1]

-----------------------------------------------------------------------------
(* The sources: a document is written, rewritten or deleted. *)

\* A command that is running has been given an earlier text of the document.
Listed(d) ==
  \E p \in Proc : run[p].phase # "idle" /\ run[p].src = SourceOf[d] /\ d \notin run[p].todo

Edit(d) ==
  /\ used.time < MaxTime
  /\ used' = [used EXCEPT !.time = @ + 1]
  /\ \E T \in SUBSET Text \ {upstream[d].texts} :
       upstream' = [upstream EXCEPT
         ![d] = [time |-> used.time + 1, texts |-> T, raced |-> Listed(d)]]
  /\ UNCHANGED <<head, catalog, archive, cursors, run, rebuilt>>

Version(d) == {[doc |-> d, ver |-> upstream[d].time, text |-> x] : x \in upstream[d].texts}

-----------------------------------------------------------------------------
(* The document catalog *)

\* Mutable documents supersede their previous version, append-only ones
\* collect chunks; a version already recorded changes nothing.
UpdateDocument(entry, C, mutable) ==
  LET ver == (CHOOSE c \in C : TRUE).ver IN
  IF entry = NoEntry
  THEN [ver |-> ver, chunks |-> C, superseded |-> {}, fps |-> Texts(C)]
  ELSE IF ~mutable
  THEN [entry EXCEPT !.ver = ver, !.chunks = @ \cup C, !.fps = @ \cup Texts(C)]
  ELSE IF entry.ver = ver
  THEN entry
  ELSE [ver |-> ver, chunks |-> C, superseded |-> entry.superseded \cup entry.chunks,
        fps |-> entry.fps \cup Texts(C)]

UpdateCatalog(cat, pending) ==
  [d \in Doc |->
     LET C == {c \in pending : c.doc = d}
     IN IF C = {} THEN cat[d] ELSE UpdateDocument(cat[d], C, d \notin AppendOnly)]

Entries(cat) == {cat[d] : d \in {e \in Doc : cat[e] # NoEntry}}

\* What a run skips: from the catalog when it has entries, else from the
\* segments of the head.
KnownIds(cat, C) ==
  IF Entries(cat) = {} THEN C ELSE UNION {e.chunks \cup e.superseded : e \in Entries(cat)}
KnownFps(cat, C) ==
  IF Entries(cat) = {} THEN Texts(C) ELSE UNION {e.fps : e \in Entries(cat)}

-----------------------------------------------------------------------------
(* wtfoc ingest *)

Step(p, r) == run' = [run EXCEPT ![p] = r]

Start(p, r) ==
  /\ run[p].phase = "idle" /\ used.runs < MaxRuns
  /\ used' = [used EXCEPT !.runs = @ + 1]
  /\ Step(p, r)
  /\ UNCHANGED <<upstream, head, catalog, archive, cursors, rebuilt>>

\* The command reads its files.  `only` is the --document-ids filter, all of
\* Doc without one; --since replaces the stored cursor, here by the beginning.
Begin(p, s, only, since) ==
  Start(p, [Idle EXCEPT
    !.phase = "stream", !.src = s, !.only = only, !.since = since,
    !.catalog = catalog, !.archive = archive, !.cursors = cursors,
    !.ids = KnownIds(catalog, head.chunks), !.fps = KnownFps(catalog, head.chunks),
    !.todo = {d \in Doc : SourceOf[d] = s}])

\* Mutant: a run that filters its documents counts as a whole one.
NeverPartial(r) == FALSE
IsPartial(r) == r.only # Doc

InArchive(arch, d) == \E c \in arch : c.doc = d /\ c.ver = upstream[d].time

\* The adapter lists a document unless it is gone or older than `since`.
Skip(p, d) ==
  LET r == run[p] IN
  /\ r.phase = "stream" /\ d \in r.todo
  /\ upstream[d].texts = {} \/ upstream[d].time < r.since
  /\ Step(p, [r EXCEPT !.todo = @ \ {d}])
  /\ UNCHANGED <<upstream, head, catalog, archive, cursors, rebuilt, used>>

Unknown(r, C) == {c \in C : c.text \notin r.fps /\ c \notin r.ids}

\* One document of the stream: its time counts for the cursor and its source
\* is archived before the filters apply; what is left is recorded for the
\* catalog and, unless known, batched.
Fetch(p, d) ==
  LET r == run[p]
      C == IF d \in r.only THEN Version(d) ELSE {}
  IN
  /\ r.phase = "stream" /\ d \in r.todo /\ Cardinality(r.batch) < MaxBatch
  /\ upstream[d].texts # {} /\ upstream[d].time >= r.since
  /\ Step(p, [r EXCEPT
       !.todo = @ \ {d},
       !.maxTime = IF upstream[d].time > @ THEN upstream[d].time ELSE @,
       !.archived = @ \/ ~InArchive(r.archive, d),
       !.archive = IF InArchive(@, d) THEN @ ELSE @ \cup Version(d),
       !.pending = @ \cup C,
       !.batch = @ \cup Unknown(r, C)])
  /\ UNCHANGED <<upstream, head, catalog, archive, cursors, rebuilt, used>>

\* A full batch, or what is left at the end, has its segment published; then
\* the head is read...
Flush(p) ==
  LET r == run[p] IN
  /\ r.phase = "stream" /\ r.batch # {}
  /\ Cardinality(r.batch) >= MaxBatch \/ r.todo = {}
  /\ Step(p, [r EXCEPT !.phase = "put", !.base = head.puts])
  /\ UNCHANGED <<upstream, head, catalog, archive, cursors, rebuilt, used>>

Batch(r) ==
  {b \in SUBSET r.batch : Cardinality(b) = MaxBatch \/ (b = r.batch /\ Cardinality(b) < MaxBatch)}

\* Mutant: every batch replaces the segments before it.
PutAlone(p) ==
  LET r == run[p] IN
  /\ r.phase = "put" /\ r.base = head.puts
  /\ \E b \in Batch(r) :
       /\ head' = [chunks |-> b, puts |-> head.puts + 1]
       /\ Step(p, [r EXCEPT !.phase = "stream", !.batch = @ \ b, !.replace = FALSE])
  /\ rebuilt' = (rebuilt \/ r.replace)
  /\ UNCHANGED <<upstream, catalog, archive, cursors, used>>

\* ...and put back with the segment, the first segment of a reingest alone.
PutSegment(p) ==
  LET r == run[p] IN
  /\ r.phase = "put" /\ r.base = head.puts
  /\ \E b \in Batch(r) :
       /\ head' = [chunks |-> IF r.replace THEN b ELSE head.chunks \cup b,
                   puts |-> head.puts + 1]
       /\ Step(p, [r EXCEPT !.phase = "stream", !.batch = @ \ b, !.replace = FALSE])
  /\ rebuilt' = (rebuilt \/ r.replace)
  /\ UNCHANGED <<upstream, catalog, archive, cursors, used>>

\* Mutant: the conflict is swallowed and the batch dropped.
ConflictSwallowed(p) ==
  /\ run[p].phase = "put" /\ run[p].base # head.puts
  /\ Step(p, [run[p] EXCEPT !.phase = "stream", !.batch = {}])
  /\ UNCHANGED <<upstream, head, catalog, archive, cursors, rebuilt, used>>

\* Somebody else put the head: the command ends with an error.
PutConflict(p) ==
  /\ run[p].phase = "put" /\ run[p].base # head.puts
  /\ Step(p, Idle)
  /\ UNCHANGED <<upstream, head, catalog, archive, cursors, rebuilt, used>>

\* The stream has ended.  Nothing recorded means nothing to save but the
\* archive; a reingest (which has no source) saves nothing at all.
EndStream(p) ==
  LET r == run[p] IN
  /\ r.phase = "stream" /\ r.todo = {} /\ r.batch = {}
  /\ Step(p, IF r.pending # {} THEN [r EXCEPT !.phase = "catalog"]
             ELSE IF r.archived THEN [r EXCEPT !.phase = "archive"]
             ELSE Idle)
  /\ UNCHANGED <<upstream, head, catalog, archive, cursors, rebuilt, used>>

\* The whole file is rewritten from the copy read at the start.
SaveCatalog(p) ==
  LET r == run[p] IN
  /\ r.phase = "catalog"
  /\ catalog' = UpdateCatalog(r.catalog, r.pending)
  /\ Step(p, [r EXCEPT !.phase = IF r.archived THEN "archive" ELSE "cursor"])
  /\ UNCHANGED <<upstream, head, archive, cursors, rebuilt, used>>

SaveArchive(p) ==
  LET r == run[p] IN
  /\ r.phase = "archive"
  /\ archive' = r.archive
  /\ Step(p, IF r.pending = {} THEN Idle ELSE [r EXCEPT !.phase = "cursor"])
  /\ UNCHANGED <<upstream, head, catalog, cursors, rebuilt, used>>

\* Mutant: the instant after the newest time seen.
AfterNewest(r) == r.maxTime + 1

\* A cursor never goes back to an older time than the one stored.
CursorValue(r) ==
  LET existing == r.cursors[r.src] IN IF existing > r.maxTime THEN existing ELSE r.maxTime

SaveCursor(p) ==
  LET r == run[p] IN
  /\ r.phase = "cursor"
  /\ cursors' = IF IsPartial(r) THEN cursors
                ELSE [r.cursors EXCEPT ![r.src] = CursorValue(r)]
  /\ Step(p, Idle)
  /\ UNCHANGED <<upstream, head, catalog, archive, rebuilt, used>>

-----------------------------------------------------------------------------
(* wtfoc reingest, in place *)

\* The stored chunks of the documents that --ignore leaves.
Reingest(p, keep) ==
  LET C == {c \in head.chunks : c.doc \in keep} IN
  /\ C # {}
  /\ Start(p, [Idle EXCEPT !.phase = "stream", !.replace = TRUE, !.batch = C])

\* --replay-raw: every archived version is chunked again.  A document without
\* raw source stops the command unless --skip-missing-raw is given.
ReplayRaw(p, keep, skipMissing) ==
  LET C == {c \in archive : c.doc \in keep} IN
  /\ C # {}
  /\ skipMissing \/ {c.doc : c \in head.chunks} \subseteq {c.doc : c \in archive}
  /\ Start(p, [Idle EXCEPT !.phase = "stream", !.replace = TRUE, !.batch = C])

-----------------------------------------------------------------------------
\* The process is killed; what it has not saved is gone.
Kill(p) ==
  /\ run[p].phase # "idle" /\ used.crashes < MaxKills
  /\ used' = [used EXCEPT !.crashes = @ + 1]
  /\ Step(p, Idle)
  /\ UNCHANGED <<upstream, head, catalog, archive, cursors, rebuilt>>

Command(p) ==
  \/ \E d \in Doc : Skip(p, d) \/ Fetch(p, d)
  \/ Flush(p) \/ PutSegment(p) \/ PutConflict(p) \/ EndStream(p)
  \/ SaveCatalog(p) \/ SaveArchive(p) \/ SaveCursor(p)

CliNext ==
  \/ \E d \in Doc : Edit(d)
  \/ \E p \in Proc :
       \/ \E s \in Source, only \in {Doc} \cup {{d} : d \in Doc} :
            \E since \in {0, cursors[s]} : Begin(p, s, only, since)
       \/ \E keep \in {Doc} \cup {{d} : d \in Doc} :
            \/ Reingest(p, keep)
            \/ \E skipMissing \in BOOLEAN : ReplayRaw(p, keep, skipMissing)
       \/ Command(p) \/ Kill(p)

CliSpec == CliInit /\ [][CliNext]_cliVars

-----------------------------------------------------------------------------
(* Properties *)

\* What the catalog makes later runs skip is stored: until a reingest replaces
\* the segments, every fingerprint and every current chunk of the catalog has
\* its text in the head, whichever commands overlapped or were killed.
CataloguedIsStored ==
  ~rebuilt => \A e \in Entries(catalog) : e.fps \cup Texts(e.chunks) \subseteq Texts(head.chunks)

\* No edit is skipped for good: when the cursor of a source has passed the last
\* edit of a document, its texts are in the head, unless the edit was made
\* behind the back of a run that had listed the document and was still going.
NothingSkipped ==
  ~rebuilt => \A d \in Doc :
    upstream[d].time <= cursors[SourceOf[d]] /\ ~upstream[d].raced
      => upstream[d].texts \subseteq Texts(head.chunks)

\* Overlapping commands never drop each other's segments, save for the first
\* segment of a reingest.
SegmentsOnlyGrow ==
  [][head.chunks \subseteq head'.chunks \/ \E p \in Proc : run[p].replace /\ PutSegment(p)]_cliVars
=============================================================================
