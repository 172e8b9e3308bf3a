----------------------------- MODULE EdgeLayers -----------------------------
(***************************************************************************)
(* Edges derived after the ingest: `wtfoc extract-edges` keeps an overlay  *)
(* and a status file per extractor beside the manifest and publishes the   *)
(* overlay as an immutable layer of the head; `compact-edges` replaces the *)
(* layers by one; `materialize-edges` bakes the overlays into segments.    *)
(* All three read the head, work for minutes and put a head of their own,  *)
(* while ingests and other commands put theirs.                            *)
(*                                                                         *)
(* An extractor finds at most one edge per chunk, so an edge is the pair   *)
(* of the two; the hash of a context is the set of its chunk ids, which    *)
(* are derived from their content.                                         *)
(***************************************************************************)
EXTENDS Naturals, FiniteSets

CONSTANTS
  Shell,          \* terminals in which a command can run
  Extractor, Context, ChunkId,
  ContextOf,      \* the source a chunk belongs to
  FailOpen,       \* extractors that return fewer edges instead of throwing
  MaxCommands,    \* bound: commands started
  MaxHeadChanges, \* bound: ingests and reingests meanwhile
  MaxToolKills    \* bound: commands killed

ASSUME EdgeConstants ==
  /\ ContextOf \in [ChunkId -> Context]
  /\ FailOpen \subseteq Extractor
  /\ {MaxCommands, MaxHeadChanges, MaxToolKills} \subseteq Nat

Edges == Extractor \X ChunkId
Hash == SUBSET ChunkId            \* {} for a context that is pending or failed
EdgeHead == [chunks : SUBSET ChunkId, baked : SUBSET Edges, layers : SUBSET (SUBSET Edges)]

VARIABLES
  edgeHead,     \* what the head refers to
  puts,         \* how often the head was put: its compare-and-swap id
  overlayOf,    \* {extractor}/edges.json: the chunks it holds an edge of
  statusOf,     \* {extractor}/status.json: the hash each context was completed at
  tool,         \* the command of each terminal
  found,        \* history: chunks the last recorded extraction returned an edge of
  excused,      \* history: extractors whose files were damaged in a known way
  spent         \* commands, head changes and kills, against their bounds

edgeVars == <<edgeHead, puts, overlayOf, statusOf, tool, found, excused, spent>>
worldOf == <<edgeHead, puts>>
sidecars == <<overlayOf, statusOf>>

ChunksIn(S, c) == {k \in S : ContextOf[k] = c}
OfExtractor(X, e) == {x[2] : x \in {y \in X : y[1] = e}}
EdgesOf(e, S) == {e} \X S
Live(h) == {x \in UNION h.layers : x[2] \in h.chunks}
NoHead == [chunks |-> {}, baked |-> {}, layers |-> {}]
NoOverlays == [e \in Extractor |-> {}]

\* What a command holds between two awaits: the head it loaded first and the
\* one it read again before its put; the extractors left, the one at work with
\* its contexts, overlay and status; the overlays a materialize will clear.
AtRest == [at |-> "idle", kind |-> "none", first |-> NoHead, firstPut |-> 0,
           base |-> NoHead, basePut |-> 0, rest |-> {}, ext |-> {}, todo |-> {},
           ov |-> {}, st |-> [c \in Context |-> {}], fresh |-> FALSE, pruned |-> FALSE,
           all |-> NoOverlays]

ToolState ==
  [at : {"idle", "next", "prune", "contexts", "overlay", "upload", "put", "clear"},
   kind : {"none", "extract", "compact", "materialize"},
   first : EdgeHead, firstPut : Nat, base : EdgeHead, basePut : Nat,
   rest : SUBSET Extractor, ext : {{}} \cup {{e} : e \in Extractor}, todo : SUBSET Context,
   ov : SUBSET ChunkId, st : [Context -> Hash], fresh : BOOLEAN, pruned : BOOLEAN,
   all : [Extractor -> SUBSET ChunkId]]

EdgeTypeOK ==
  /\ edgeHead \in EdgeHead /\ puts \in Nat
  /\ overlayOf \in [Extractor -> SUBSET ChunkId]
  /\ statusOf \in [Extractor -> [Context -> Hash]]
  /\ tool \in [Shell -> ToolState]
  /\ found \in [Extractor -> SUBSET ChunkId]
  /\ excused \subseteq Extractor
  /\ spent \in [commands : 0..MaxCommands, changes : 0..MaxHeadChanges, kills : 0..MaxToolKills]

\* A collection that was ingested, before the first extraction.
EdgeInit ==
  /\ edgeHead \in {[NoHead EXCEPT !.chunks = S] : S \in (SUBSET ChunkId) \ {{}}}
  /\ puts = 1
  /\ overlayOf = NoOverlays
  /\ statusOf = [e \in Extractor |-> [c \in Context |-> {}]]
  /\ tool = [t \in Shell |-> AtRest]
  /\ found = NoOverlays
  /\ excused = {}
  /\ spent = [commands |-> 0, changes |-> 0, kills |-> 0]

---------------------------------------------------------------------------
Working(e) == \E t \in Shell : \/ tool[t].kind = "materialize"
                               \/ e \in tool[t].rest \cup tool[t].ext
Move(t, r) == tool' = [tool EXCEPT ![t] = r]

\* getHead, the first of two; what a command does with the head follows it.
Load(t, kind, es) ==
  /\ tool[t].at = "idle"
  /\ spent.commands < MaxCommands
  /\ spent' = [spent EXCEPT !.commands = @ + 1]
  /\ excused' = excused \cup {e \in es : Working(e)}
  /\ Move(t, [AtRest EXCEPT !.at = IF kind = "extract" THEN "next" ELSE "upload",
                            !.kind = kind, !.first = edgeHead, !.firstPut = puts,
                            !.rest = IF kind = "extract" THEN es ELSE {},
                            !.all = IF kind = "materialize" THEN overlayOf ELSE NoOverlays])
  /\ UNCHANGED <<worldOf, sidecars, found>>

LoadExtract(t) == \E es \in (SUBSET Extractor) \ {{}} : Load(t, "extract", es)
\* Nothing to compact without a layer.
LoadCompact(t) == edgeHead.layers # {} /\ Load(t, "compact", {})
\* Nothing to materialize without an edge in some overlay.
LoadMaterialize(t) ==
  /\ \E e \in Extractor : overlayOf[e] # {}
  /\ Load(t, "materialize", Extractor)

\* getContextsToProcess: new, failed and changed contexts, by the status FILE.
ToProcess(e, S) == {c \in {ContextOf[k] : k \in S} : statusOf[e][c] # ChunksIn(S, c)}

\* On to the next extractor, or the command is done.
NextExtractor(r) == IF r.rest = {} THEN AtRest
                    ELSE [AtRest EXCEPT !.at = "next", !.kind = r.kind, !.rest = r.rest,
                                        !.first = r.first, !.firstPut = r.firstPut]

\* The next extractor: its files are read and what the head no longer has is
\* pruned from both, the overlay file first.
OpenSidecars(t) ==
  /\ tool[t].at = "next"
  /\ \E e \in tool[t].rest :
       LET S == tool[t].first.chunks
           kept == overlayOf[e] \cap S
           st == [c \in Context |-> IF ChunksIn(S, c) = {} THEN {} ELSE statusOf[e][c]]
           stale == kept # overlayOf[e] \/ st # statusOf[e]
           todo == ToProcess(e, S)
       IN /\ overlayOf' = [overlayOf EXCEPT ![e] = kept]
          /\ Move(t, IF todo = {} /\ ~stale
                     THEN NextExtractor([tool[t] EXCEPT !.rest = @ \ {e}])
                     ELSE [tool[t] EXCEPT !.at = IF stale THEN "prune" ELSE "contexts",
                                          !.rest = @ \ {e}, !.ext = {e}, !.todo = todo,
                                          !.ov = kept, !.st = st, !.fresh = FALSE,
                                          !.pruned = kept # overlayOf[e]])
  /\ UNCHANGED <<worldOf, statusOf, found, excused, spent>>

PruneStatus(t) ==
  /\ tool[t].at = "prune"
  /\ \E e \in tool[t].ext : statusOf' = [statusOf EXCEPT ![e] = tool[t].st]
  /\ Move(t, [tool[t] EXCEPT !.at = "contexts"])
  /\ UNCHANGED <<worldOf, overlayOf, found, excused, spent>>

\* Mutant: each context's edges replace the overlay.
MergedOnlyNew(old, new) == new
\* mergeOverlayEdges
Merged(old, new) == old \cup new

\* The extractor returned.  Under the write lock of the process the edges are
\* merged in memory and the status file is written, then the overlay file.
FinishContext(t) ==
  /\ tool[t].at = "contexts"
  /\ \E c \in tool[t].todo, e \in tool[t].ext :
       LET hash == ChunksIn(tool[t].first.chunks, c)
           st == [tool[t].st EXCEPT ![c] = hash]
       IN \E new \in SUBSET hash :
            /\ e \in FailOpen \/ new = hash
            /\ statusOf' = [statusOf EXCEPT ![e] = st]
            /\ found' = [found EXCEPT ![e] = (@ \ hash) \cup new]
            /\ Move(t, [tool[t] EXCEPT !.at = "overlay", !.todo = @ \ {c}, !.st = st,
                                       !.ov = Merged(@, new), !.fresh = @ \/ new # {}])
  /\ UNCHANGED <<worldOf, overlayOf, excused, spent>>

WriteOverlay(t) ==
  /\ tool[t].at = "overlay"
  /\ \E e \in tool[t].ext : overlayOf' = [overlayOf EXCEPT ![e] = tool[t].ov]
  /\ Move(t, [tool[t] EXCEPT !.at = "contexts"])
  /\ UNCHANGED <<worldOf, statusOf, found, excused, spent>>

\* The extractor threw: the context is recorded as failed and tried next time.
FailContext(t) ==
  /\ tool[t].at = "contexts"
  /\ \E c \in tool[t].todo, e \in tool[t].ext :
       LET st == [tool[t].st EXCEPT ![c] = {}]
       IN /\ e \notin FailOpen
          /\ statusOf' = [statusOf EXCEPT ![e] = st]
          /\ Move(t, [tool[t] EXCEPT !.todo = @ \ {c}, !.st = st])
  /\ UNCHANGED <<worldOf, overlayOf, found, excused, spent>>

\* Interrupted: the contexts not reached and the extractors left are given up.
Interrupt(t) ==
  /\ tool[t].at = "contexts" /\ tool[t].todo # {}
  /\ excused' = excused \cup (IF tool[t].pruned THEN tool[t].ext ELSE {})
  /\ Move(t, [tool[t] EXCEPT !.todo = {}, !.rest = {}])
  /\ UNCHANGED <<worldOf, sidecars, found, spent>>

\* A layer is stored only if some context returned an edge.
EndContexts(t) ==
  /\ tool[t].at = "contexts" /\ tool[t].todo = {}
  /\ Move(t, IF tool[t].fresh THEN [tool[t] EXCEPT !.at = "upload"] ELSE NextExtractor(tool[t]))
  /\ UNCHANGED <<worldOf, sidecars, found, excused, spent>>

\* Mutant: the manifest derived from the head loaded first.
ReadIdOnly(t) ==
  /\ tool[t].at = "upload"
  /\ Move(t, [tool[t] EXCEPT !.at = "put", !.basePut = puts, !.base = tool[t].first])
  /\ UNCHANGED <<worldOf, sidecars, found, excused, spent>>

\* The second getHead.  An extract or a compact derives the manifest from it,
\* a materialize takes from it the id alone.
ReadAgain(t) ==
  /\ tool[t].at = "upload"
  /\ Move(t, [tool[t] EXCEPT !.at = "put", !.basePut = puts,
                !.base = IF tool[t].kind = "materialize" THEN tool[t].first ELSE edgeHead])
  /\ UNCHANGED <<worldOf, sidecars, found, excused, spent>>

\* The manifest a command puts.  A compact that could not load a segment keeps
\* the edges of every chunk.
Published(t) ==
  LET r == tool[t] IN
  CASE r.kind = "extract" ->
         {[r.base EXCEPT !.layers = @ \cup {EdgesOf(e, r.ov)}] : e \in r.ext}
    [] r.kind = "compact" ->
         {[r.base EXCEPT !.layers = {L}] : L \in {Live(r.first), UNION r.first.layers}}
    [] OTHER ->
         {[r.base EXCEPT !.baked = @ \cup {x \in Edges : x[2] \in r.all[x[1]] \cap r.first.chunks}]}

Put(t) ==
  /\ tool[t].at = "put" /\ tool[t].basePut = puts
  /\ edgeHead' \in Published(t)
  /\ puts' = puts + 1
  /\ Move(t, IF tool[t].kind = "materialize" THEN [tool[t] EXCEPT !.at = "clear"]
             ELSE NextExtractor(tool[t]))
  /\ UNCHANGED <<sidecars, found, excused, spent>>

\* putHead throws and nothing catches it: the command exits.
Clash(t) ==
  /\ tool[t].at = "put" /\ tool[t].basePut # puts
  /\ Move(t, AtRest)
  /\ UNCHANGED <<worldOf, sidecars, found, excused, spent>>

\* What was placed leaves the overlay; the edges of chunks that the first head
\* did not have stay.
ClearOverlay(t) ==
  /\ tool[t].at = "clear"
  /\ \E e \in Extractor :
       /\ tool[t].all[e] # {}
       /\ overlayOf' = [overlayOf EXCEPT ![e] = tool[t].all[e] \ tool[t].first.chunks]
       /\ LET all == [tool[t].all EXCEPT ![e] = {}]
          IN Move(t, IF all = NoOverlays THEN AtRest ELSE [tool[t] EXCEPT !.all = all])
  /\ UNCHANGED <<worldOf, statusOf, found, excused, spent>>

KillTool(t) ==
  LET r == tool[t] IN
  /\ r.at # "idle"
  /\ spent.kills < MaxToolKills
  /\ spent' = [spent EXCEPT !.kills = @ + 1]
  /\ excused' = excused \cup (IF r.at \in {"prune", "overlay"} \/ (r.pruned /\ r.todo # {})
                              THEN r.ext ELSE {})
  /\ Move(t, AtRest)
  /\ UNCHANGED <<worldOf, sidecars, found>>

---------------------------------------------------------------------------
\* Whoever else puts the head.  Neither carries its layers over, and a
\* reingest leaves the baked edges behind with the segments it replaces.
HeadChanges(h) ==
  /\ spent.changes < MaxHeadChanges
  /\ spent' = [spent EXCEPT !.changes = @ + 1]
  /\ edgeHead' = h
  /\ puts' = puts + 1
  /\ UNCHANGED <<sidecars, tool, found>>

IngestAppends ==
  /\ \E k \in ChunkId \ edgeHead.chunks :
       HeadChanges([edgeHead EXCEPT !.chunks = @ \cup {k}, !.layers = {}])
  /\ UNCHANGED excused

ReingestReplaces ==
  /\ \E S \in (SUBSET ChunkId) \ {{}} : HeadChanges([NoHead EXCEPT !.chunks = S])
  /\ excused' = excused \cup {x[1] : x \in edgeHead.baked}

ToolStep(t) ==
  \/ LoadExtract(t) \/ LoadCompact(t) \/ LoadMaterialize(t)
  \/ OpenSidecars(t) \/ PruneStatus(t)
  \/ FinishContext(t) \/ WriteOverlay(t) \/ FailContext(t)
  \/ Interrupt(t) \/ EndContexts(t)
  \/ ReadAgain(t) \/ Put(t) \/ Clash(t) \/ ClearOverlay(t)
  \/ KillTool(t)

EdgeNext == (\E t \in Shell : ToolStep(t)) \/ IngestAppends \/ ReingestReplaces
EdgeSpec == EdgeInit /\ [][EdgeNext]_edgeVars

---------------------------------------------------------------------------
\* A context whose status file says it was completed at the hash it has in the
\* head is never extracted again.  So every edge its extraction returned is
\* still in the overlay or baked into the segments, whatever was pruned,
\* cleared, interrupted or replaced since, unless a command is at work on the
\* extractor right now.  Excused are the extractors whose
\* files the code can damage: killed between the status and the overlay write,
\* stopped between a prune and the extraction that makes up for it, used by
\* two commands at once, or baked into segments that a reingest replaced.
StatusIsBacked ==
  \A e \in Extractor \ excused, c \in Context :
    LET hash == statusOf[e][c] IN
      hash # {} /\ hash = ChunksIn(edgeHead.chunks, c) =>
        \/ hash \cap found[e] \subseteq overlayOf[e] \cup OfExtractor(edgeHead.baked, e)
        \/ \E t \in Shell : e \in tool[t].ext

\* Putting the head, a command takes nothing out of it: no chunk, no baked
\* edge, and no layer's edge of a chunk that is there.  A compact and a
\* materialize promise it only while no one puts the head between their reads.
PutsKeep ==
  [][\A t \in Shell :
       /\ puts' # puts /\ tool[t].at = "put" /\ tool'[t] # tool[t]
       /\ tool[t].kind = "extract" \/ tool[t].firstPut + 1 = puts'
       => /\ edgeHead.chunks \subseteq edgeHead'.chunks
          /\ edgeHead.baked \subseteq edgeHead'.baked
          /\ Live(edgeHead) \subseteq Live(edgeHead')]_edgeVars
=============================================================================
