--------------------------- MODULE EdgeTraceProofs ---------------------------
(* For any terminals, extractors, contexts and chunks: a context that counts  *)
(* as extracted has its edges, and a command that puts a head takes nothing   *)
(* out of it.  For any collection, seeds and limits: the lineage a trace      *)
(* returns is a walk along the edges, and the walk is complete.               *)
EXTENDS EdgeLayers, Trace, SequenceTheorems, FiniteSetTheorems, FunctionTheorems, TLAPS

\* A command that may touch the files of an extractor.
Works(t, e) == tool[t].kind = "materialize" \/ e \in tool[t].rest \cup tool[t].ext
Baked(e) == OfExtractor(edgeHead.baked, e)

\* What a terminal is at goes with the command it runs.
ShapeOK(t) ==
  /\ tool[t].at = "idle" <=> tool[t].kind = "none"
  /\ tool[t].at \in {"next", "prune", "contexts", "overlay"} => tool[t].kind = "extract"
  /\ tool[t].at = "clear" => tool[t].kind = "materialize"
  /\ tool[t].at = "next" \/ tool[t].kind # "extract" => tool[t].ext = {}
  /\ tool[t].kind = "extract" => tool[t].at = "next" \/ tool[t].ext # {}
  /\ tool[t].kind # "extract" => tool[t].rest = {}
  /\ tool[t].at \in {"upload", "put"} => tool[t].todo = {}

\* A head that was read is the head as long as its id is.
HeadsOK(t) ==
  /\ tool[t].firstPut <= puts /\ tool[t].basePut <= puts
  /\ tool[t].firstPut = puts => tool[t].first = edgeHead
  /\ tool[t].at = "put" /\ tool[t].kind = "materialize" => tool[t].base = tool[t].first
  /\ tool[t].at = "put" /\ tool[t].kind # "materialize" /\ tool[t].basePut = puts =>
       tool[t].base = edgeHead

\* The hash of a context is of its own chunks.
OwnChunks(st) == \A c \in Context : \A k \in st[c] : ContextOf[k] = c
HashesOK ==
  /\ \A e \in Extractor : OwnChunks(statusOf[e])
  /\ \A t \in Shell : OwnChunks(tool[t].st)

\* The files of an extractor that are not excused are one command's.
SoleOK == \A e \in Extractor \ excused, t, u \in Shell : Works(t, e) /\ Works(u, e) => t = u

\* What the command at work on extractor e has in memory of its files, and the
\* edges of completed contexts: in the overlay it will write or baked.
ExtractOK(t, e) ==
  /\ tool[t].at # "overlay" => overlayOf[e] = tool[t].ov
  /\ tool[t].at # "prune" => statusOf[e] = tool[t].st
  /\ \A c \in Context : \/ tool[t].pruned /\ c \in tool[t].todo
                        \/ tool[t].st[c] \cap found[e] \subseteq tool[t].ov \cup Baked(e)

\* The overlays a materialize has loaded are on disk until it has baked them.
MaterializeOK(t, e) ==
  /\ tool[t].at \in {"upload", "put"} =>
       overlayOf[e] = tool[t].all[e] /\ Baked(e) \subseteq OfExtractor(tool[t].first.baked, e)
  /\ tool[t].at = "clear" =>
       \/ tool[t].all[e] = {}
       \/ overlayOf[e] = tool[t].all[e] /\ tool[t].all[e] \cap tool[t].first.chunks \subseteq Baked(e)

\* Without a command at work the edges of every completed context are there.
RestOK(e) ==
  (\A t \in Shell : e \notin tool[t].ext) =>
    \A c \in Context : statusOf[e][c] \cap found[e] \subseteq overlayOf[e] \cup Baked(e)

EdgeFilesOK(e) ==
  /\ RestOK(e)
  /\ \A t \in Shell : /\ e \in tool[t].ext => ExtractOK(t, e)
                      /\ tool[t].kind = "materialize" => MaterializeOK(t, e)

EdgeInv ==
  /\ EdgeTypeOK /\ puts # 0 /\ HashesOK /\ SoleOK
  /\ \A t \in Shell : ShapeOK(t) /\ HeadsOK(t)
  /\ \A e \in Extractor \ excused : EdgeFilesOK(e)

-----------------------------------------------------------------------------
(* Helpers *)

LEMMA OfExtractorIs ==
  ASSUME NEW X, X \subseteq Edges, NEW e, NEW k
  PROVE  k \in OfExtractor(X, e) <=> <<e, k>> \in X
<1>1. ASSUME <<e, k>> \in X PROVE k \in OfExtractor(X, e)
  <2>1. <<e, k>>[1] = e /\ <<e, k>>[2] = k
    OBVIOUS
  <2> QED BY <1>1, <2>1 DEF OfExtractor
<1>2. ASSUME k \in OfExtractor(X, e) PROVE <<e, k>> \in X
  <2>1. PICK x \in X : x[1] = e /\ x[2] = k
    BY <1>2 DEF OfExtractor
  <2>2. x = <<x[1], x[2]>>
    BY DEF Edges
  <2> QED BY <2>1, <2>2
<1> QED BY <1>1, <1>2

LEMMA AtRestTypes ==
  /\ NoHead \in EdgeHead /\ NoOverlays \in [Extractor -> SUBSET ChunkId]
  /\ [c \in Context |-> {}] \in [Context -> Hash]
  /\ AtRest \in ToolState
<1>1. NoHead \in EdgeHead
  BY DEF NoHead, EdgeHead
<1>2. NoOverlays \in [Extractor -> SUBSET ChunkId]
  BY DEF NoOverlays
<1>3. [c \in Context |-> {}] \in [Context -> Hash]
  BY DEF Hash
<1> QED BY <1>1, <1>2, <1>3 DEF AtRest, ToolState

LEMMA AtRestIs ==
  /\ AtRest.at = "idle" /\ AtRest.kind = "none" /\ AtRest.first = NoHead /\ AtRest.firstPut = 0
  /\ AtRest.basePut = 0 /\ AtRest.rest = {} /\ AtRest.ext = {} /\ AtRest.todo = {}
  /\ \A c \in Context : AtRest.st[c] = {}
BY DEF AtRest

\* What is left of a command that goes on to its next extractor.
LEMMA NextIs ==
  ASSUME NEW q \in ToolState
  PROVE  /\ NextExtractor(q) \in ToolState
         /\ NextExtractor(q).rest = q.rest
         /\ NextExtractor(q).ext = {} /\ NextExtractor(q).todo = {}
         /\ NextExtractor(q).basePut = 0
         /\ \A c \in Context : NextExtractor(q).st[c] = {}
         /\ \/ NextExtractor(q).at = "idle" /\ NextExtractor(q).kind = "none"
               /\ NextExtractor(q).firstPut = 0 /\ q.rest = {}
            \/ NextExtractor(q).at = "next" /\ NextExtractor(q).kind = q.kind
               /\ NextExtractor(q).firstPut = q.firstPut /\ NextExtractor(q).first = q.first
<1>1. CASE q.rest = {}
  BY <1>1, AtRestTypes, AtRestIs DEF NextExtractor
<1>2. CASE q.rest # {}
  <2>1. PICK n : n = [AtRest EXCEPT !.at = "next", !.kind = q.kind, !.rest = q.rest,
                                    !.first = q.first, !.firstPut = q.firstPut]
    OBVIOUS
  <2>2. n \in ToolState
    BY <2>1, AtRestTypes DEF ToolState
  <2>3. /\ n.at = "next" /\ n.kind = q.kind /\ n.rest = q.rest /\ n.first = q.first
        /\ n.firstPut = q.firstPut /\ n.ext = {} /\ n.todo = {} /\ n.basePut = 0
        /\ \A c \in Context : n.st[c] = {}
    BY <2>1 DEF AtRest
  <2>4. NextExtractor(q) = n
    BY <1>2, <2>1 DEF NextExtractor
  <2> QED BY <2>2, <2>3, <2>4
<1> QED BY <1>1, <1>2

\* An extractor whose files stay, and that terminal t was not at work on.
LEMMA RestKept ==
  ASSUME EdgeInv, NEW e \in Extractor \ excused, NEW t \in Shell, e \notin tool[t].ext,
         \A u \in Shell \ {t} : tool'[u] = tool[u],
         overlayOf'[e] = overlayOf[e], statusOf'[e] = statusOf[e], found'[e] = found[e],
         Baked(e) \subseteq Baked(e)'
  PROVE  RestOK(e)'
<1>1. RestOK(e)
  BY DEF EdgeInv, EdgeFilesOK
<1>2. (\A u \in Shell : e \notin tool'[u].ext) => \A u \in Shell : e \notin tool[u].ext
  OBVIOUS
<1> QED BY <1>1, <1>2 DEF RestOK

\* The command is through with extractor e, or gives it up with nothing pruned.
LEMMA WorkEnds ==
  ASSUME EdgeInv, NEW e \in Extractor \ excused, NEW t \in Shell, e \in tool[t].ext,
         tool[t].at \notin {"prune", "overlay"}, ~tool[t].pruned \/ tool[t].todo = {},
         overlayOf'[e] = overlayOf[e], statusOf'[e] = statusOf[e], found'[e] = found[e],
         Baked(e) \subseteq Baked(e)'
  PROVE  RestOK(e)'
<1>1. ExtractOK(t, e)
  BY DEF EdgeInv, EdgeFilesOK
<1>2. overlayOf[e] = tool[t].ov /\ statusOf[e] = tool[t].st
  BY <1>1 DEF ExtractOK
<1>3. \A c \in Context : tool[t].st[c] \cap found[e] \subseteq tool[t].ov \cup Baked(e)
  BY <1>1 DEF ExtractOK
<1> QED BY <1>2, <1>3 DEF RestOK

-----------------------------------------------------------------------------
(* A step of terminal t *)

LEMMA ToolKeeps ==
  ASSUME EdgeInv, NEW t \in Shell, NEW r, tool' = [tool EXCEPT ![t] = r],
         EdgeTypeOK', ShapeOK(t)', HeadsOK(t)', HashesOK', excused \subseteq excused',
         puts' = puts + 1 \/ UNCHANGED worldOf,
         \A e \in Extractor \ excused' :
           /\ Works(t, e)' => Works(t, e) \/ \A u \in Shell : ~Works(u, e)
           /\ Works(t, e) \/ /\ overlayOf'[e] = overlayOf[e] /\ statusOf'[e] = statusOf[e]
                             /\ found'[e] = found[e] /\ Baked(e)' = Baked(e)
           /\ Works(t, e) \/ Works(t, e)' =>
                /\ RestOK(e)'
                /\ e \in tool'[t].ext => ExtractOK(t, e)'
                /\ tool'[t].kind = "materialize" => MaterializeOK(t, e)'
  PROVE  EdgeInv'
<1>1. \A u \in Shell \ {t} : tool'[u] = tool[u]
  BY DEF EdgeInv, EdgeTypeOK
<1>2. puts \in Nat /\ puts # 0 /\ puts' \in Nat /\ puts' # 0
  BY DEF EdgeInv, EdgeTypeOK, worldOf
<1>3. ASSUME NEW u \in Shell PROVE ShapeOK(u)' /\ HeadsOK(u)'
  <2>1. CASE u = t
    BY <2>1
  <2>2. CASE u # t
    <3>1. tool'[u] = tool[u] /\ ShapeOK(u) /\ HeadsOK(u)
      BY <1>1, <2>2 DEF EdgeInv
    <3>2. tool[u].firstPut \in Nat /\ tool[u].basePut \in Nat
      BY DEF EdgeInv, EdgeTypeOK, ToolState
    <3>3. ShapeOK(u)'
      BY <3>1 DEF ShapeOK
    <3>4. CASE puts' = puts + 1
      <4>1. tool[u].firstPut < puts' /\ tool[u].basePut < puts'
        BY <1>2, <3>1, <3>2, <3>4 DEF HeadsOK
      <4>2. /\ tool[u].firstPut <= puts' /\ tool[u].basePut <= puts'
            /\ tool[u].firstPut # puts' /\ tool[u].basePut # puts'
        BY <1>2, <3>2, <4>1
      <4>3. tool[u].at = "put" /\ tool[u].kind = "materialize" => tool[u].base = tool[u].first
        BY <3>1 DEF HeadsOK
      <4> QED BY <3>1, <3>3, <4>2, <4>3 DEF HeadsOK
    <3>5. CASE UNCHANGED worldOf
      <4>1. puts' = puts /\ edgeHead' = edgeHead
        BY <3>5 DEF worldOf
      <4> QED BY <3>1, <3>3, <4>1 DEF HeadsOK
    <3> QED BY <3>4, <3>5
  <2> QED BY <2>1, <2>2
<1>4. ASSUME NEW e \in Extractor \ excused', NEW u \in Shell \ {t}
      PROVE  /\ Works(u, e)' <=> Works(u, e)
             /\ Works(u, e) => ~Works(t, e) /\ ~Works(t, e)'
  <2>1. Works(u, e)' <=> Works(u, e)
    BY <1>1 DEF Works
  <2>2. Works(u, e) => ~Works(t, e)
    BY DEF EdgeInv, SoleOK
  <2> QED BY <2>1, <2>2
<1>5. SoleOK'
  <2> SUFFICES ASSUME NEW e \in Extractor \ excused', NEW u \in Shell, NEW w \in Shell,
                      Works(u, e)', Works(w, e)'
               PROVE  u = w
    BY DEF SoleOK
  <2>1. u # t /\ w # t => u = w
    BY <1>4 DEF EdgeInv, SoleOK
  <2> QED BY <1>4, <2>1
<1>6. ASSUME NEW e \in Extractor \ excused' PROVE EdgeFilesOK(e)'
  <2>1. EdgeFilesOK(e)
    BY DEF EdgeInv
  <2>2. RestOK(e)'
    <3>1. CASE Works(t, e) \/ Works(t, e)'
      BY <3>1
    <3>2. CASE ~Works(t, e) /\ ~Works(t, e)'
      <4>1. e \notin tool[t].ext
        BY <3>2 DEF Works
      <4> QED BY <1>1, <3>2, <4>1, RestKept
    <3> QED BY <3>1, <3>2
  <2>3. ASSUME NEW u \in Shell
        PROVE  /\ e \in tool'[u].ext => ExtractOK(u, e)'
               /\ tool'[u].kind = "materialize" => MaterializeOK(u, e)'
    <3>1. CASE u = t
      BY <3>1 DEF Works
    <3>2. CASE u # t /\ Works(u, e)
      <4>1. ~Works(t, e) /\ tool'[u] = tool[u]
        BY <1>1, <1>4, <3>2
      <4>2. /\ overlayOf'[e] = overlayOf[e] /\ statusOf'[e] = statusOf[e]
            /\ found'[e] = found[e] /\ Baked(e)' = Baked(e)
        BY <4>1
      <4>3. e \in tool[u].ext => ExtractOK(u, e)'
        BY <2>1, <4>1, <4>2 DEF EdgeFilesOK, ExtractOK
      <4>4. tool[u].kind = "materialize" => MaterializeOK(u, e)'
        BY <2>1, <4>1, <4>2 DEF EdgeFilesOK, MaterializeOK
      <4> QED BY <4>1, <4>3, <4>4
    <3>3. CASE u # t /\ ~Works(u, e)
      <4>1. tool'[u] = tool[u]
        BY <1>1, <3>3
      <4> QED BY <3>3, <4>1 DEF Works
    <3> QED BY <3>1, <3>2, <3>3
  <2> QED BY <2>2, <2>3 DEF EdgeFilesOK
<1> QED BY <1>2, <1>3, <1>5, <1>6 DEF EdgeInv

-----------------------------------------------------------------------------
(* The steps of a command *)

\* A command that starts excuses the extractors somebody works on already.
LEMMA LoadKeeps ==
  ASSUME EdgeInv, NEW t \in Shell, NEW kind \in {"extract", "compact", "materialize"},
         NEW es \in SUBSET Extractor, kind = "compact" => es = {},
         kind = "materialize" => es = Extractor, Load(t, kind, es)
  PROVE  EdgeInv'
<1>1. /\ tool[t].at = "idle" /\ tool[t].kind = "none" /\ tool[t].rest = {} /\ tool[t].ext = {}
      /\ puts \in Nat /\ puts # 0 /\ edgeHead \in EdgeHead
      /\ overlayOf \in [Extractor -> SUBSET ChunkId]
  BY DEF Load, EdgeInv, ShapeOK, EdgeTypeOK
<1>2. PICK n : n = [AtRest EXCEPT !.at = IF kind = "extract" THEN "next" ELSE "upload",
                            !.kind = kind, !.first = edgeHead, !.firstPut = puts,
                            !.rest = IF kind = "extract" THEN es ELSE {},
                            !.all = IF kind = "materialize" THEN overlayOf ELSE NoOverlays]
  OBVIOUS
<1>3. n \in ToolState
  BY <1>1, <1>2, AtRestTypes DEF ToolState
<1>4. /\ n.at = IF kind = "extract" THEN "next" ELSE "upload"
      /\ n.kind = kind /\ n.first = edgeHead /\ n.firstPut = puts
      /\ n.rest = IF kind = "extract" THEN es ELSE {}
      /\ n.ext = {} /\ n.todo = {} /\ n.basePut = 0 /\ \A c \in Context : n.st[c] = {}
      /\ kind = "materialize" => n.all = overlayOf
  BY <1>2 DEF AtRest
<1>5. /\ tool' = [tool EXCEPT ![t] = n] /\ UNCHANGED <<edgeHead, puts, overlayOf, statusOf, found>>
      /\ excused' = excused \cup {e \in es : Working(e)}
      /\ spent.commands < MaxCommands /\ spent' = [spent EXCEPT !.commands = @ + 1]
  BY <1>2 DEF Load, Move, worldOf, sidecars
<1>6. tool'[t] = n /\ \A u \in Shell \ {t} : tool'[u] = tool[u]
  BY <1>5 DEF EdgeInv, EdgeTypeOK
<1>7. EdgeTypeOK'
  <2>1. spent.commands \in 0..MaxCommands /\ MaxCommands \in Nat
    BY EdgeConstants DEF EdgeInv, EdgeTypeOK
  <2>2. spent.commands + 1 \in 0..MaxCommands
    BY <1>5, <2>1
  <2>3. spent' \in [commands : 0..MaxCommands, changes : 0..MaxHeadChanges, kills : 0..MaxToolKills]
    BY <1>5, <2>2 DEF EdgeInv, EdgeTypeOK
  <2>4. tool' \in [Shell -> ToolState]
    BY <1>3, <1>5 DEF EdgeInv, EdgeTypeOK
  <2>5. excused' \subseteq Extractor
    BY <1>5 DEF EdgeInv, EdgeTypeOK
  <2> QED BY <1>5, <2>3, <2>4, <2>5 DEF EdgeInv, EdgeTypeOK
<1>8. ShapeOK(t)'
  BY <1>4, <1>6 DEF ShapeOK
<1>9. HeadsOK(t)'
  BY <1>1, <1>4, <1>5, <1>6 DEF HeadsOK
<1>10. HashesOK'
  <2>1. OwnChunks(n.st)
    BY <1>4 DEF OwnChunks
  <2> QED BY <1>5, <1>6, <2>1 DEF EdgeInv, HashesOK
<1>11. ASSUME NEW e \in Extractor \ excused'
       PROVE  /\ Works(t, e)' => \A u \in Shell : ~Works(u, e)
              /\ RestOK(e)' /\ e \notin tool'[t].ext
              /\ tool'[t].kind = "materialize" => MaterializeOK(t, e)'
  <2>1. Works(t, e)' => e \in es
    BY <1>4, <1>6 DEF Works
  <2>2. e \in es => \A u \in Shell : ~Works(u, e)
    BY <1>5 DEF Working, Works
  <2>3. e \in Extractor \ excused /\ e \notin tool[t].ext /\ Baked(e)' = Baked(e)
    BY <1>1, <1>5 DEF Baked
  <2>4. RestOK(e)'
    BY <1>5, <1>6, <2>3, RestKept
  <2>5. tool'[t].kind = "materialize" => MaterializeOK(t, e)'
    BY <1>4, <1>5, <1>6 DEF MaterializeOK, Baked
  <2> QED BY <1>4, <1>6, <2>1, <2>2, <2>4, <2>5
<1>12. \A e \in Extractor \ excused' : Baked(e)' = Baked(e)
  BY <1>5 DEF Baked
<1> QED BY <1>5, <1>7, <1>8, <1>9, <1>10, <1>11, <1>12, ToolKeeps DEF worldOf

\* What an extract knows of the extractor it is at.
LEMMA AtWork ==
  ASSUME EdgeInv, NEW t \in Shell, NEW e \in tool[t].ext
  PROVE  /\ tool[t] \in ToolState /\ tool[t].kind = "extract" /\ tool[t].ext = {e}
         /\ e \in Extractor /\ \A x : Works(t, x) <=> x = e \/ x \in tool[t].rest
         /\ e \notin excused => RestOK(e) /\ ExtractOK(t, e)
         /\ OwnChunks(tool[t].st)
<1>1. tool[t] \in ToolState
  BY DEF EdgeInv, EdgeTypeOK
<1>2. tool[t].ext = {e} /\ e \in Extractor
  BY <1>1 DEF ToolState
<1>3. tool[t].kind = "extract"
  BY <1>1 DEF ToolState, EdgeInv, ShapeOK
<1>4. \A x : Works(t, x) <=> x = e \/ x \in tool[t].rest
  BY <1>2, <1>3 DEF Works
<1>5. e \notin excused => RestOK(e) /\ ExtractOK(t, e)
  BY <1>2 DEF EdgeInv, EdgeFilesOK
<1> QED BY <1>1, <1>2, <1>3, <1>4, <1>5 DEF EdgeInv, HashesOK

FilesTyped ==
  /\ overlayOf \in [Extractor -> SUBSET ChunkId] /\ found \in [Extractor -> SUBSET ChunkId]
  /\ statusOf \in [Extractor -> [Context -> Hash]] /\ excused \subseteq Extractor

\* The files of every extractor but e rest.
OthersRest(e) ==
  /\ excused \subseteq excused'
  /\ \A x \in Extractor \ {e} : /\ overlayOf'[x] = overlayOf[x] /\ statusOf'[x] = statusOf[x]
                               /\ found'[x] = found[x]

\* A step of an extract that is at work on e: what is left to show of it.
LEMMA ExtractKeeps ==
  ASSUME EdgeInv, NEW t \in Shell, NEW e \in tool[t].ext, NEW n \in ToolState,
         tool' = [tool EXCEPT ![t] = n], UNCHANGED worldOf, UNCHANGED spent,
         FilesTyped', OthersRest(e), OwnChunks(n.st), OwnChunks(statusOf'[e]),
         ShapeOK(t)', n.rest \subseteq tool[t].rest, n.ext \subseteq {e}, n.kind # "materialize",
         HeadsOK(t)', 
         e \notin excused' => RestOK(e)' /\ (e \in n.ext => ExtractOK(t, e)')
  PROVE  EdgeInv'
<1>1. tool'[t] = n /\ \A u \in Shell \ {t} : tool'[u] = tool[u]
  BY DEF EdgeInv, EdgeTypeOK
<1>2. edgeHead' = edgeHead /\ puts' = puts
  BY DEF worldOf
<1>3. EdgeTypeOK'
  BY <1>2 DEF EdgeInv, EdgeTypeOK, FilesTyped
<1>4. HashesOK'
  <2>1. \A x \in Extractor : OwnChunks(statusOf'[x])
    BY DEF EdgeInv, HashesOK, OthersRest
  <2>2. \A u \in Shell : OwnChunks(tool'[u].st)
    BY <1>1 DEF EdgeInv, HashesOK
  <2> QED BY <2>1, <2>2 DEF HashesOK
<1>0. excused \subseteq excused'
  BY DEF OthersRest
<1>5. ASSUME NEW x \in Extractor \ excused'
      PROVE  /\ Works(t, x)' => Works(t, x)
             /\ Works(t, x) \/ /\ overlayOf'[x] = overlayOf[x] /\ statusOf'[x] = statusOf[x]
                               /\ found'[x] = found[x] /\ Baked(x)' = Baked(x)
             /\ RestOK(x)' /\ (x \in n.ext => ExtractOK(t, x)')
  <2>1. Works(t, x)' => Works(t, x)
    BY <1>1, AtWork DEF Works
  <2>2. Baked(x)' = Baked(x)
    BY <1>2 DEF Baked
  <2>3. CASE x = e
    BY <2>1, <2>2, <2>3, AtWork
  <2>4. CASE x # e
    <3>1. overlayOf'[x] = overlayOf[x] /\ statusOf'[x] = statusOf[x] /\ found'[x] = found[x]
      BY <2>4 DEF OthersRest
    <3>2. x \notin tool[t].ext /\ x \notin n.ext
      BY <2>4, AtWork
    <3>3. RestOK(x)'
      BY <1>0, <1>1, <2>2, <3>1, <3>2, RestKept
    <3> QED BY <2>1, <2>2, <3>1, <3>2, <3>3
  <2> QED BY <2>3, <2>4
<1> QED BY <1>0, <1>1, <1>3, <1>4, <1>5, ToolKeeps

\* The same with the command still at work on e, and its heads as they were.
LEMMA StillAtWork ==
  ASSUME EdgeInv, NEW t \in Shell, NEW e \in tool[t].ext, NEW n \in ToolState,
         tool' = [tool EXCEPT ![t] = n], UNCHANGED <<edgeHead, puts, spent>>,
         FilesTyped', OthersRest(e), OwnChunks(n.st), OwnChunks(statusOf'[e]),
         n.at \in {"contexts", "overlay", "upload"}, n.at = "upload" => n.todo = {},
         n.rest \subseteq tool[t].rest, n.ext = tool[t].ext, n.kind = tool[t].kind,
         n.first = tool[t].first, n.firstPut = tool[t].firstPut,
         n.base = tool[t].base, n.basePut = tool[t].basePut,
         e \notin excused' => ExtractOK(t, e)'
  PROVE  EdgeInv'
<1>1. tool'[t] = n /\ \A u \in Shell \ {t} : tool'[u] = tool[u]
  BY DEF EdgeInv, EdgeTypeOK
<1>2. n.kind = "extract" /\ n.ext = {e}
  BY AtWork
<1>3. ShapeOK(t)'
  BY <1>1, <1>2 DEF ShapeOK
<1>4. HeadsOK(t)'
  BY <1>1, <1>2 DEF EdgeInv, HeadsOK
<1>5. RestOK(e)'
  BY <1>1, <1>2 DEF RestOK
<1>6. UNCHANGED worldOf /\ UNCHANGED spent /\ n.ext \subseteq {e} /\ n.kind # "materialize"
  BY <1>2 DEF worldOf
<1>7. e \notin excused' => RestOK(e)' /\ (e \in n.ext => ExtractOK(t, e)')
  BY <1>5
<1> QED BY <1>3, <1>4, <1>6, <1>7, ExtractKeeps

LEMMA PruneStatusKeeps ==
  ASSUME EdgeInv, NEW t \in Shell, PruneStatus(t) PROVE EdgeInv'
<1>1. PICK e \in tool[t].ext : statusOf' = [statusOf EXCEPT ![e] = tool[t].st]
  BY DEF PruneStatus
<1>2. /\ tool[t] \in ToolState /\ e \in Extractor
      /\ e \notin excused => ExtractOK(t, e)
      /\ OwnChunks(tool[t].st)
  BY AtWork
<1>3. PICK n \in ToolState : n = [tool[t] EXCEPT !.at = "contexts"]
  BY <1>2 DEF ToolState
<1>4. /\ n.at = "contexts" /\ n.rest = tool[t].rest /\ n.ext = tool[t].ext /\ n.kind = tool[t].kind
      /\ n.first = tool[t].first /\ n.firstPut = tool[t].firstPut
      /\ n.base = tool[t].base /\ n.basePut = tool[t].basePut
      /\ n.st = tool[t].st /\ n.ov = tool[t].ov /\ n.todo = tool[t].todo /\ n.pruned = tool[t].pruned
  BY <1>2, <1>3 DEF ToolState
<1>5. /\ tool' = [tool EXCEPT ![t] = n] /\ tool[t].at = "prune"
      /\ UNCHANGED <<edgeHead, puts, spent, overlayOf, found, excused>>
  BY <1>3 DEF PruneStatus, Move, worldOf
<1>6. statusOf' \in [Extractor -> [Context -> Hash]] /\ statusOf'[e] = tool[t].st
      /\ \A x \in Extractor \ {e} : statusOf'[x] = statusOf[x]
  BY <1>1, <1>2 DEF EdgeInv, EdgeTypeOK, ToolState
<1>7. tool'[t] = n
  BY <1>5 DEF EdgeInv, EdgeTypeOK
<1>8. e \notin excused' => ExtractOK(t, e)'
  BY <1>2, <1>4, <1>5, <1>6, <1>7 DEF ExtractOK, Baked
<1>9. FilesTyped' /\ OthersRest(e) /\ OwnChunks(statusOf'[e])
  BY <1>2, <1>5, <1>6 DEF EdgeInv, EdgeTypeOK, FilesTyped, OthersRest
<1> QED BY <1>2, <1>4, <1>5, <1>8, <1>9, StillAtWork

\* The extractor returned for context c: its edges are in memory, and the chunks
\* of other contexts are others.
LEMMA FinishContextKeeps ==
  ASSUME EdgeInv, NEW t \in Shell, FinishContext(t) PROVE EdgeInv'
<1>1. PICK c \in tool[t].todo, e \in tool[t].ext :
        \E new \in SUBSET ChunksIn(tool[t].first.chunks, c) :
          /\ statusOf' = [statusOf EXCEPT ![e] = [tool[t].st EXCEPT ![c] = ChunksIn(tool[t].first.chunks, c)]]
          /\ found' = [found EXCEPT ![e] = (@ \ ChunksIn(tool[t].first.chunks, c)) \cup new]
          /\ tool' = [tool EXCEPT ![t] =
               [tool[t] EXCEPT !.at = "overlay", !.todo = @ \ {c},
                               !.st = [tool[t].st EXCEPT ![c] = ChunksIn(tool[t].first.chunks, c)],
                               !.ov = Merged(@, new), !.fresh = @ \/ new # {}]]
  BY DEF FinishContext, Move
<1>2. PICK hash : hash = ChunksIn(tool[t].first.chunks, c)
  OBVIOUS
<1>3. PICK new \in SUBSET hash :
          /\ statusOf' = [statusOf EXCEPT ![e] = [tool[t].st EXCEPT ![c] = hash]]
          /\ found' = [found EXCEPT ![e] = (@ \ hash) \cup new]
          /\ tool' = [tool EXCEPT ![t] =
               [tool[t] EXCEPT !.at = "overlay", !.todo = @ \ {c},
                               !.st = [tool[t].st EXCEPT ![c] = hash],
                               !.ov = Merged(@, new), !.fresh = @ \/ new # {}]]
  BY <1>1, <1>2
<1>4. /\ tool[t] \in ToolState /\ e \in Extractor /\ c \in Context
      /\ tool[t].kind = "extract" /\ tool[t].ext = {e}
      /\ e \notin excused => ExtractOK(t, e)
      /\ OwnChunks(tool[t].st)
  BY AtWork DEF ToolState
<1>5. hash \subseteq ChunkId /\ \A k \in hash : ContextOf[k] = c
  BY <1>2, <1>4 DEF ChunksIn, ToolState, EdgeHead
<1>6. PICK st : st = [tool[t].st EXCEPT ![c] = hash]
  OBVIOUS
<1>7. /\ st \in [Context -> Hash] /\ st[c] = hash
      /\ \A x \in Context \ {c} : st[x] = tool[t].st[x]
  BY <1>4, <1>5, <1>6 DEF ToolState, Hash
<1>8. PICK n : n = [tool[t] EXCEPT !.at = "overlay", !.todo = @ \ {c}, !.st = st,
                                   !.ov = Merged(@, new), !.fresh = @ \/ new # {}]
  OBVIOUS
<1>9. n \in ToolState
  <2>1. (tool[t].fresh \/ new # {}) \in BOOLEAN
    OBVIOUS
  <2>2. Merged(tool[t].ov, new) \in SUBSET ChunkId /\ tool[t].todo \ {c} \in SUBSET Context
    BY <1>4, <1>5 DEF Merged, ToolState
  <2>3. "overlay" \in {"idle", "next", "prune", "contexts", "overlay", "upload", "put", "clear"}
    OBVIOUS
  <2> QED BY <1>4, <1>7, <1>8, <2>1, <2>2, <2>3, Zenon DEF ToolState
<1>10. /\ n.at = "overlay" /\ n.rest = tool[t].rest /\ n.ext = tool[t].ext /\ n.kind = tool[t].kind
       /\ n.first = tool[t].first /\ n.firstPut = tool[t].firstPut
       /\ n.base = tool[t].base /\ n.basePut = tool[t].basePut
       /\ n.st = st /\ n.ov = tool[t].ov \cup new /\ n.todo = tool[t].todo \ {c}
       /\ n.pruned = tool[t].pruned
  BY <1>4, <1>8 DEF ToolState, Merged
<1>11. /\ tool' = [tool EXCEPT ![t] = n] /\ tool[t].at = "contexts"
       /\ statusOf' = [statusOf EXCEPT ![e] = st]
       /\ UNCHANGED <<edgeHead, puts, spent, overlayOf, excused>>
  BY <1>3, <1>6, <1>8 DEF FinishContext, worldOf
<1>12. /\ statusOf' \in [Extractor -> [Context -> Hash]] /\ statusOf'[e] = st
       /\ found' \in [Extractor -> SUBSET ChunkId] /\ found'[e] = (found[e] \ hash) \cup new
       /\ \A x \in Extractor \ {e} : statusOf'[x] = statusOf[x] /\ found'[x] = found[x]
  <2>1. statusOf \in [Extractor -> [Context -> Hash]] /\ found \in [Extractor -> SUBSET ChunkId]
    BY DEF EdgeInv, EdgeTypeOK
  <2>2. statusOf' \in [Extractor -> [Context -> Hash]] /\ statusOf'[e] = st
    BY <1>4, <1>7, <1>11, <2>1
  <2>3. (found[e] \ hash) \cup new \in SUBSET ChunkId
    BY <1>4, <1>5, <2>1
  <2>4. found' \in [Extractor -> SUBSET ChunkId] /\ found'[e] = (found[e] \ hash) \cup new
    BY <1>3, <1>4, <2>1, <2>3
  <2>5. \A x \in Extractor \ {e} : statusOf'[x] = statusOf[x] /\ found'[x] = found[x]
    BY <1>3, <1>11, <2>1
  <2> QED BY <2>2, <2>4, <2>5
<1>13. tool'[t] = n
  BY <1>11 DEF EdgeInv, EdgeTypeOK
<1>14. OwnChunks(st)
  BY <1>4, <1>5, <1>7 DEF OwnChunks
<1>15. ASSUME e \notin excused' PROVE ExtractOK(t, e)'
  <2>1. ExtractOK(t, e) /\ Baked(e)' = Baked(e)
    BY <1>4, <1>11, <1>15 DEF Baked
  <2>2. ASSUME NEW x \in Context, ~(n.pruned /\ x \in n.todo)
        PROVE  n.st[x] \cap found'[e] \subseteq n.ov \cup Baked(e)
    <3>1. CASE x = c
      BY <1>7, <1>10, <1>12, <3>1
    <3>2. CASE x # c
      <4>1. ~(tool[t].pruned /\ x \in tool[t].todo)
        BY <1>10, <2>2, <3>2
      <4>2. tool[t].st[x] \cap found[e] \subseteq tool[t].ov \cup Baked(e)
        BY <2>1, <4>1 DEF ExtractOK
      <4>3. \A k \in tool[t].st[x] : k \notin hash
        BY <1>4, <1>5, <3>2 DEF OwnChunks
      <4> QED BY <1>7, <1>10, <1>12, <3>2, <4>2, <4>3
    <3> QED BY <3>1, <3>2
  <2> QED BY <1>10, <1>12, <1>13, <2>1, <2>2 DEF ExtractOK
<1>16. FilesTyped' /\ OthersRest(e)
  BY <1>11, <1>12 DEF EdgeInv, EdgeTypeOK, FilesTyped, OthersRest
<1>17. OwnChunks(n.st) /\ OwnChunks(statusOf'[e])
  BY <1>10, <1>12, <1>14
<1>18. n.at \in {"contexts", "overlay", "upload"} /\ n.at # "upload" /\ n.rest \subseteq tool[t].rest
  BY <1>10
<1> QED BY <1>9, <1>10, <1>11, <1>15, <1>16, <1>17, <1>18, StillAtWork

LEMMA WriteOverlayKeeps ==
  ASSUME EdgeInv, NEW t \in Shell, WriteOverlay(t) PROVE EdgeInv'
<1>1. PICK e \in tool[t].ext : overlayOf' = [overlayOf EXCEPT ![e] = tool[t].ov]
  BY DEF WriteOverlay
<1>2. /\ tool[t] \in ToolState /\ e \in Extractor
      /\ e \notin excused => ExtractOK(t, e)
      /\ OwnChunks(tool[t].st)
  BY AtWork
<1>3. PICK n \in ToolState : n = [tool[t] EXCEPT !.at = "contexts"]
  BY <1>2 DEF ToolState
<1>4. /\ n.at = "contexts" /\ n.rest = tool[t].rest /\ n.ext = tool[t].ext /\ n.kind = tool[t].kind
      /\ n.first = tool[t].first /\ n.firstPut = tool[t].firstPut
      /\ n.base = tool[t].base /\ n.basePut = tool[t].basePut
      /\ n.st = tool[t].st /\ n.ov = tool[t].ov /\ n.todo = tool[t].todo /\ n.pruned = tool[t].pruned
  BY <1>2, <1>3 DEF ToolState
<1>5. /\ tool' = [tool EXCEPT ![t] = n] /\ tool[t].at = "overlay"
      /\ UNCHANGED <<edgeHead, puts, spent, statusOf, found, excused>>
  BY <1>3 DEF WriteOverlay, Move, worldOf
<1>6. overlayOf' \in [Extractor -> SUBSET ChunkId] /\ overlayOf'[e] = tool[t].ov
      /\ \A x \in Extractor \ {e} : overlayOf'[x] = overlayOf[x]
  BY <1>1, <1>2 DEF EdgeInv, EdgeTypeOK, ToolState
<1>7. tool'[t] = n
  BY <1>5 DEF EdgeInv, EdgeTypeOK
<1>8. e \notin excused' => ExtractOK(t, e)'
  BY <1>2, <1>4, <1>5, <1>6, <1>7 DEF ExtractOK, Baked
<1>9. FilesTyped' /\ OthersRest(e) /\ OwnChunks(statusOf'[e])
  BY <1>2, <1>5, <1>6 DEF EdgeInv, EdgeTypeOK, HashesOK, FilesTyped, OthersRest
<1> QED BY <1>2, <1>4, <1>5, <1>8, <1>9, StillAtWork

\* A context that failed counts as nothing.
LEMMA FailContextKeeps ==
  ASSUME EdgeInv, NEW t \in Shell, FailContext(t) PROVE EdgeInv'
<1>1. PICK c \in tool[t].todo, e \in tool[t].ext :
        /\ statusOf' = [statusOf EXCEPT ![e] = [tool[t].st EXCEPT ![c] = {}]]
        /\ tool' = [tool EXCEPT ![t] = [tool[t] EXCEPT !.todo = @ \ {c},
                                                      !.st = [tool[t].st EXCEPT ![c] = {}]]]
  BY DEF FailContext, Move
<1>2. /\ tool[t] \in ToolState /\ e \in Extractor /\ c \in Context
      /\ e \notin excused => ExtractOK(t, e)
      /\ OwnChunks(tool[t].st)
  BY AtWork DEF ToolState
<1>3. PICK st : st = [tool[t].st EXCEPT ![c] = {}]
  OBVIOUS
<1>4. /\ st \in [Context -> Hash] /\ st[c] = {}
      /\ \A x \in Context \ {c} : st[x] = tool[t].st[x]
  BY <1>2, <1>3 DEF ToolState, Hash
<1>5. PICK n : n = [tool[t] EXCEPT !.todo = @ \ {c}, !.st = st]
  OBVIOUS
<1>6. n \in ToolState
  BY <1>2, <1>4, <1>5 DEF ToolState
<1>7. /\ tool' = [tool EXCEPT ![t] = n] /\ tool[t].at = "contexts"
      /\ statusOf' = [statusOf EXCEPT ![e] = st]
      /\ UNCHANGED <<edgeHead, puts, spent, overlayOf, found, excused>>
  BY <1>1, <1>3, <1>5 DEF FailContext, worldOf
<1>8. /\ n.at = "contexts" /\ n.rest = tool[t].rest /\ n.ext = tool[t].ext /\ n.kind = tool[t].kind
      /\ n.first = tool[t].first /\ n.firstPut = tool[t].firstPut
      /\ n.base = tool[t].base /\ n.basePut = tool[t].basePut
      /\ n.st = st /\ n.ov = tool[t].ov /\ n.todo = tool[t].todo \ {c} /\ n.pruned = tool[t].pruned
  BY <1>2, <1>5, <1>7 DEF ToolState
<1>9. statusOf' \in [Extractor -> [Context -> Hash]] /\ statusOf'[e] = st
      /\ \A x \in Extractor \ {e} : statusOf'[x] = statusOf[x]
  BY <1>2, <1>4, <1>7 DEF EdgeInv, EdgeTypeOK
<1>10. tool'[t] = n
  BY <1>7 DEF EdgeInv, EdgeTypeOK
<1>11. ASSUME e \notin excused' PROVE ExtractOK(t, e)'
  <2>1. ExtractOK(t, e) /\ Baked(e)' = Baked(e)
    BY <1>2, <1>7, <1>11 DEF Baked
  <2>2. ASSUME NEW x \in Context, ~(n.pruned /\ x \in n.todo)
        PROVE  n.st[x] \cap found'[e] \subseteq n.ov \cup Baked(e)
    <3>1. CASE x = c
      BY <1>4, <1>8, <3>1
    <3>2. CASE x # c
      <4>1. ~(tool[t].pruned /\ x \in tool[t].todo)
        BY <1>8, <2>2, <3>2
      <4> QED BY <1>4, <1>7, <1>8, <2>1, <3>2, <4>1 DEF ExtractOK
    <3> QED BY <3>1, <3>2
  <2> QED BY <1>7, <1>8, <1>9, <1>10, <2>1, <2>2 DEF ExtractOK
<1>12. OwnChunks(st)
  BY <1>2, <1>4 DEF OwnChunks
<1>13. FilesTyped' /\ OthersRest(e)
  BY <1>7, <1>9 DEF EdgeInv, EdgeTypeOK, FilesTyped, OthersRest
<1>14. OwnChunks(n.st) /\ OwnChunks(statusOf'[e])
  BY <1>8, <1>9, <1>12
<1> QED BY <1>6, <1>7, <1>8, <1>11, <1>13, <1>14, StillAtWork

\* Interrupted: what was pruned and not extracted again is excused.
LEMMA InterruptKeeps ==
  ASSUME EdgeInv, NEW t \in Shell, Interrupt(t) PROVE EdgeInv'
<1>1. /\ tool[t].at = "contexts" /\ tool[t].todo # {}
      /\ excused' = excused \cup (IF tool[t].pruned THEN tool[t].ext ELSE {})
      /\ UNCHANGED <<edgeHead, puts, overlayOf, statusOf, found, spent>>
  BY DEF Interrupt, worldOf, sidecars
<1>2. PICK e : e \in tool[t].ext
  BY <1>1 DEF EdgeInv, ShapeOK
<1>3. /\ tool[t] \in ToolState /\ e \in Extractor /\ tool[t].ext = {e}
      /\ e \notin excused => ExtractOK(t, e)
      /\ OwnChunks(tool[t].st)
  BY <1>2, AtWork
<1>4. PICK n \in ToolState : n = [tool[t] EXCEPT !.todo = {}, !.rest = {}]
  BY <1>3 DEF ToolState
<1>5. /\ n.at = "contexts" /\ n.rest = {} /\ n.ext = tool[t].ext /\ n.kind = tool[t].kind
      /\ n.first = tool[t].first /\ n.firstPut = tool[t].firstPut
      /\ n.base = tool[t].base /\ n.basePut = tool[t].basePut
      /\ n.st = tool[t].st /\ n.ov = tool[t].ov /\ n.todo = {} /\ n.pruned = tool[t].pruned
  BY <1>1, <1>3, <1>4 DEF ToolState
<1>6. tool' = [tool EXCEPT ![t] = n]
  BY <1>4 DEF Interrupt, Move
<1>7. tool'[t] = n
  BY <1>6 DEF EdgeInv, EdgeTypeOK
<1>8. e \notin excused' => ExtractOK(t, e)'
  <2>1. e \notin excused' => ~tool[t].pruned /\ e \notin excused
    BY <1>1, <1>2
  <2> QED BY <1>1, <1>3, <1>5, <1>7, <2>1 DEF ExtractOK, Baked
<1>9. FilesTyped' /\ OthersRest(e) /\ OwnChunks(statusOf'[e])
  BY <1>1, <1>3 DEF EdgeInv, EdgeTypeOK, HashesOK, FilesTyped, OthersRest
<1>10. n.at \in {"contexts", "overlay", "upload"} /\ n.at # "upload" /\ n.rest \subseteq tool[t].rest
  BY <1>5
<1> QED BY <1>1, <1>2, <1>3, <1>5, <1>6, <1>8, <1>9, <1>10, StillAtWork

\* The command leaves its extractor, for the next one or for good.
LEMMA LeavesExtractor ==
  ASSUME EdgeInv, NEW t \in Shell, NEW n, tool' = [tool EXCEPT ![t] = n],
         UNCHANGED <<overlayOf, statusOf, found>>, edgeHead' \in EdgeHead,
         puts' = puts + 1 \/ UNCHANGED worldOf, edgeHead'.baked = edgeHead.baked,
         spent' \in [commands : 0..MaxCommands, changes : 0..MaxHeadChanges, kills : 0..MaxToolKills],
         excused \subseteq excused', excused' \subseteq Extractor,
         (tool[t].at \in {"prune", "overlay"} \/ (tool[t].pruned /\ tool[t].todo # {}))
           => tool[t].ext \subseteq excused',
         n = AtRest \/ (n = NextExtractor(tool[t]) /\ tool[t].kind = "extract")
  PROVE  EdgeInv'
<1>1. tool'[t] = n /\ \A u \in Shell \ {t} : tool'[u] = tool[u]
  BY DEF EdgeInv, EdgeTypeOK
<1>2. /\ tool[t] \in ToolState /\ HeadsOK(t) /\ puts \in Nat /\ puts # 0
      /\ tool[t].firstPut \in Nat
  BY DEF EdgeInv, EdgeTypeOK, ToolState
<1>3. /\ n \in ToolState /\ n.ext = {} /\ n.todo = {} /\ n.basePut = 0
      /\ \A c \in Context : n.st[c] = {}
  BY <1>2, AtRestTypes, AtRestIs, NextIs
<1>4. \/ n.at = "idle" /\ n.kind = "none" /\ n.firstPut = 0 /\ n.rest = {}
      \/ /\ n.at = "next" /\ n.kind = "extract" /\ n.rest = tool[t].rest
         /\ n.firstPut = tool[t].firstPut /\ n.first = tool[t].first
  BY <1>2, AtRestIs, NextIs
<1>5. EdgeTypeOK'
  <2>1. tool' \in [Shell -> ToolState]
    BY <1>3 DEF EdgeInv, EdgeTypeOK
  <2>2. puts' \in Nat
    BY <1>2 DEF worldOf
  <2> QED BY <2>1, <2>2 DEF EdgeInv, EdgeTypeOK
<1>6. ShapeOK(t)'
  BY <1>1, <1>3, <1>4 DEF ShapeOK
<1>7. HeadsOK(t)'
  <2>1. CASE puts' = puts + 1
    <3>1. n.firstPut \in Nat /\ n.firstPut < puts' /\ n.basePut < puts'
      BY <1>2, <1>3, <1>4, <2>1 DEF HeadsOK
    <3>2. n.firstPut # puts' /\ n.firstPut <= puts' /\ n.basePut <= puts'
      BY <1>2, <1>3, <2>1, <3>1
    <3> QED BY <1>1, <1>4, <3>2 DEF HeadsOK
  <2>2. CASE UNCHANGED worldOf
    <3>1. puts' = puts /\ edgeHead' = edgeHead
      BY <2>2 DEF worldOf
    <3>2. n.firstPut <= puts /\ n.basePut <= puts /\ (n.firstPut = puts => n.first = edgeHead)
      BY <1>2, <1>3, <1>4 DEF HeadsOK
    <3> QED BY <1>1, <1>4, <3>1, <3>2 DEF HeadsOK
  <2> QED BY <2>1, <2>2
<1>8. HashesOK'
  <2>1. OwnChunks(n.st)
    BY <1>3 DEF OwnChunks
  <2> QED BY <1>1, <2>1 DEF EdgeInv, HashesOK
<1>9. ASSUME NEW e \in Extractor \ excused'
      PROVE  /\ Works(t, e)' => Works(t, e)
             /\ Baked(e)' = Baked(e) /\ RestOK(e)'
  <2>0. e \in Extractor \ excused
    OBVIOUS
  <2>1. Works(t, e)' => Works(t, e)
    BY <1>1, <1>3, <1>4 DEF Works
  <2>2. Baked(e)' = Baked(e)
    BY DEF Baked, OfExtractor
  <2>3. CASE e \in tool[t].ext
    <3>1. tool[t].at \notin {"prune", "overlay"} /\ (~tool[t].pruned \/ tool[t].todo = {})
      BY <1>9, <2>3
    <3>2. RestOK(e)'
      BY <2>0, <2>2, <2>3, <3>1, WorkEnds
    <3> QED BY <2>1, <2>2, <3>2
  <2>4. CASE e \notin tool[t].ext
    <3>1. RestOK(e)'
      BY <1>1, <2>0, <2>2, <2>4, RestKept
    <3> QED BY <2>1, <2>2, <3>1
  <2> QED BY <2>1, <2>2, <2>3, <2>4
<1>10. tool'[t].ext = {} /\ tool'[t].kind # "materialize"
  BY <1>1, <1>3, <1>4
<1> QED BY <1>5, <1>6, <1>7, <1>8, <1>9, <1>10, ToolKeeps

\* The contexts are through: a layer is uploaded, or the next extractor's turn.
LEMMA EndContextsKeeps ==
  ASSUME EdgeInv, NEW t \in Shell, EndContexts(t) PROVE EdgeInv'
<1>1. /\ tool[t].at = "contexts" /\ tool[t].todo = {}
      /\ UNCHANGED <<edgeHead, puts, overlayOf, statusOf, found, excused, spent>>
  BY DEF EndContexts, worldOf, sidecars
<1>2. PICK e : e \in tool[t].ext
  BY <1>1 DEF EdgeInv, ShapeOK
<1>3. /\ tool[t] \in ToolState /\ e \in Extractor /\ tool[t].ext = {e} /\ tool[t].kind = "extract"
      /\ e \notin excused => ExtractOK(t, e)
      /\ OwnChunks(tool[t].st)
  BY <1>2, AtWork
<1>4. CASE tool[t].fresh
  <2>1. PICK n \in ToolState : n = [tool[t] EXCEPT !.at = "upload"]
    BY <1>3 DEF ToolState
  <2>2. /\ n.at = "upload" /\ n.rest = tool[t].rest /\ n.ext = tool[t].ext /\ n.kind = tool[t].kind
        /\ n.first = tool[t].first /\ n.firstPut = tool[t].firstPut
        /\ n.base = tool[t].base /\ n.basePut = tool[t].basePut
        /\ n.st = tool[t].st /\ n.ov = tool[t].ov /\ n.todo = {} /\ n.pruned = tool[t].pruned
    BY <1>1, <1>3, <2>1 DEF ToolState
  <2>3. tool' = [tool EXCEPT ![t] = n]
    BY <1>4, <2>1 DEF EndContexts, Move
  <2>4. tool'[t] = n
    BY <2>3 DEF EdgeInv, EdgeTypeOK
  <2>5. e \notin excused' => ExtractOK(t, e)'
    BY <1>1, <1>3, <2>2, <2>4 DEF ExtractOK, Baked
  <2>6. FilesTyped' /\ OthersRest(e) /\ OwnChunks(statusOf'[e])
    BY <1>1, <1>3 DEF EdgeInv, EdgeTypeOK, HashesOK, FilesTyped, OthersRest
  <2>7. n.at \in {"contexts", "overlay", "upload"} /\ n.rest \subseteq tool[t].rest
    BY <2>2
  <2> QED BY <1>1, <1>2, <1>3, <2>2, <2>3, <2>5, <2>6, <2>7, StillAtWork
<1>5. CASE ~tool[t].fresh
  <2>1. tool' = [tool EXCEPT ![t] = NextExtractor(tool[t])]
    BY <1>5 DEF EndContexts, Move
  <2>2. /\ edgeHead' \in EdgeHead /\ UNCHANGED worldOf /\ excused' \subseteq Extractor
        /\ spent' \in [commands : 0..MaxCommands, changes : 0..MaxHeadChanges, kills : 0..MaxToolKills]
    BY <1>1 DEF EdgeInv, EdgeTypeOK, worldOf
  <2> QED BY <1>1, <1>3, <2>1, <2>2, LeavesExtractor
<1> QED BY <1>4, <1>5

\* putHead throws; or the process is killed, which damages the files between
\* their two writes and those that were pruned and not extracted again.
LEMMA StopsKeep ==
  ASSUME EdgeInv, NEW t \in Shell, Clash(t) \/ KillTool(t) PROVE EdgeInv'
<1>1. /\ tool' = [tool EXCEPT ![t] = AtRest]
      /\ UNCHANGED <<edgeHead, puts, overlayOf, statusOf, found>>
  BY DEF Clash, KillTool, Move, worldOf, sidecars
<1>2. /\ excused \subseteq excused' /\ excused' \subseteq Extractor
      /\ (tool[t].at \in {"prune", "overlay"} \/ (tool[t].pruned /\ tool[t].todo # {}))
           => tool[t].ext \subseteq excused'
  <2>1. tool[t].ext \subseteq Extractor /\ excused \subseteq Extractor
    BY DEF EdgeInv, EdgeTypeOK, ToolState
  <2>2. CASE Clash(t)
    BY <2>1, <2>2 DEF Clash, EdgeInv, ShapeOK
  <2>3. CASE KillTool(t)
    <3>1. excused' = excused \cup
             (IF tool[t].at \in {"prune", "overlay"} \/ (tool[t].pruned /\ tool[t].todo # {})
              THEN tool[t].ext ELSE {})
      BY <2>3 DEF KillTool
    <3>2. CASE tool[t].at \in {"prune", "overlay"} \/ (tool[t].pruned /\ tool[t].todo # {})
      BY <2>1, <3>1, <3>2
    <3>3. CASE ~(tool[t].at \in {"prune", "overlay"} \/ (tool[t].pruned /\ tool[t].todo # {}))
      BY <2>1, <3>1, <3>3
    <3> QED BY <3>2, <3>3
  <2> QED BY <2>2, <2>3
<1>3. spent' \in [commands : 0..MaxCommands, changes : 0..MaxHeadChanges, kills : 0..MaxToolKills]
  <2>1. CASE Clash(t)
    BY <2>1 DEF Clash, EdgeInv, EdgeTypeOK
  <2>2. CASE KillTool(t)
    <3>1. spent.kills \in 0..MaxToolKills /\ MaxToolKills \in Nat /\ spent.kills < MaxToolKills
      BY <2>2, EdgeConstants DEF KillTool, EdgeInv, EdgeTypeOK
    <3>2. spent.kills + 1 \in 0..MaxToolKills
      BY <3>1
    <3> QED BY <2>2, <3>2 DEF KillTool, EdgeInv, EdgeTypeOK
  <2> QED BY <2>1, <2>2
<1>4. edgeHead' \in EdgeHead /\ UNCHANGED worldOf /\ edgeHead'.baked = edgeHead.baked
  BY <1>1 DEF EdgeInv, EdgeTypeOK, worldOf
<1> QED BY <1>1, <1>2, <1>3, <1>4, LeavesExtractor

\* The second getHead: an extract or a compact takes the head as it is now.
LEMMA ReadAgainKeeps ==
  ASSUME EdgeInv, NEW t \in Shell, ReadAgain(t) PROVE EdgeInv'
<1>1. /\ tool[t].at = "upload" /\ tool[t] \in ToolState /\ edgeHead \in EdgeHead
      /\ puts \in Nat /\ HeadsOK(t) /\ ShapeOK(t) /\ OwnChunks(tool[t].st)
      /\ UNCHANGED <<edgeHead, puts, overlayOf, statusOf, found, excused, spent>>
  BY DEF ReadAgain, EdgeInv, EdgeTypeOK, HashesOK, worldOf, sidecars
<1>2. PICK base \in EdgeHead :
        base = IF tool[t].kind = "materialize" THEN tool[t].first ELSE edgeHead
  BY <1>1 DEF ToolState
<1>3. PICK n \in ToolState : n = [tool[t] EXCEPT !.at = "put", !.basePut = puts, !.base = base]
  BY <1>1, <1>2 DEF ToolState
<1>4. /\ n.at = "put" /\ n.basePut = puts /\ n.base = base /\ n.kind = tool[t].kind
      /\ n.first = tool[t].first /\ n.firstPut = tool[t].firstPut
      /\ n.rest = tool[t].rest /\ n.ext = tool[t].ext /\ n.todo = tool[t].todo
      /\ n.st = tool[t].st /\ n.ov = tool[t].ov /\ n.pruned = tool[t].pruned /\ n.all = tool[t].all
  BY <1>1, <1>3 DEF ToolState
<1>5. tool' = [tool EXCEPT ![t] = n]
  BY <1>2, <1>3 DEF ReadAgain, Move
<1>6. tool'[t] = n /\ \A u \in Shell \ {t} : tool'[u] = tool[u]
  BY <1>5 DEF EdgeInv, EdgeTypeOK
<1>7. EdgeTypeOK' /\ HashesOK'
  BY <1>1, <1>4, <1>5, <1>6 DEF EdgeInv, EdgeTypeOK, HashesOK
<1>8. ShapeOK(t)'
  BY <1>1, <1>4, <1>6 DEF ShapeOK
<1>9. HeadsOK(t)'
  BY <1>1, <1>2, <1>4, <1>6 DEF HeadsOK
<1>10. ASSUME NEW e \in Extractor \ excused'
       PROVE  /\ Works(t, e)' => Works(t, e)
              /\ Baked(e)' = Baked(e) /\ RestOK(e)'
              /\ e \in tool'[t].ext => ExtractOK(t, e)'
              /\ tool'[t].kind = "materialize" => MaterializeOK(t, e)'
  <2>1. EdgeFilesOK(e) /\ e \in Extractor \ excused
    BY <1>1 DEF EdgeInv
  <2>2. Baked(e)' = Baked(e)
    BY <1>1 DEF Baked
  <2>3. Works(t, e)' => Works(t, e)
    BY <1>4, <1>6 DEF Works
  <2>4. RestOK(e)'
    <3>1. \A u \in Shell : tool'[u].ext = tool[u].ext
      BY <1>4, <1>6
    <3> QED BY <1>1, <2>1, <2>2, <3>1 DEF EdgeFilesOK, RestOK
  <2>5. e \in n.ext => ExtractOK(t, e)'
    BY <1>1, <1>4, <1>6, <2>1, <2>2 DEF EdgeFilesOK, ExtractOK
  <2>6. n.kind = "materialize" => MaterializeOK(t, e)'
    BY <1>1, <1>4, <1>6, <2>1, <2>2 DEF EdgeFilesOK, MaterializeOK
  <2> QED BY <1>6, <2>2, <2>3, <2>4, <2>5, <2>6
<1>11. UNCHANGED worldOf /\ excused \subseteq excused'
  BY <1>1 DEF worldOf
<1> QED BY <1>1, <1>5, <1>7, <1>8, <1>9, <1>10, <1>11, ToolKeeps

\* A command that puts knows the head it replaces, or the one it loaded first.
LEMMA PutKeeps ==
  ASSUME EdgeInv, NEW t \in Shell, Put(t) PROVE EdgeInv'
<1>1. /\ tool[t].at = "put" /\ tool[t].basePut = puts /\ puts' = puts + 1
      /\ tool[t] \in ToolState /\ puts \in Nat /\ HeadsOK(t) /\ ShapeOK(t) /\ tool[t].todo = {}
      /\ OwnChunks(tool[t].st) /\ edgeHead \in EdgeHead /\ tool[t].kind # "none"
      /\ UNCHANGED <<overlayOf, statusOf, found, excused, spent>>
  BY DEF Put, EdgeInv, EdgeTypeOK, HashesOK, ShapeOK, sidecars
<1>2. /\ tool[t].first \in EdgeHead /\ tool[t].base \in EdgeHead /\ tool[t].ov \subseteq ChunkId
      /\ tool[t].firstPut \in Nat /\ tool[t].all \in [Extractor -> SUBSET ChunkId]
      /\ tool[t].ext \subseteq Extractor
  BY <1>1 DEF ToolState
<1>3. CASE tool[t].kind = "materialize"
  <2>1. PICK X : X = {x \in Edges : x[2] \in tool[t].all[x[1]] \cap tool[t].first.chunks}
    OBVIOUS
  <2>2. edgeHead' = [tool[t].base EXCEPT !.baked = @ \cup X] /\ tool[t].base = tool[t].first
    BY <1>1, <1>3, <2>1 DEF Put, Published, HeadsOK
  <2>3. edgeHead' \in EdgeHead /\ edgeHead'.baked = tool[t].first.baked \cup X
    BY <1>2, <2>1, <2>2 DEF EdgeHead
  <2>4. PICK n \in ToolState : n = [tool[t] EXCEPT !.at = "clear"]
    BY <1>1 DEF ToolState
  <2>5. /\ n.at = "clear" /\ n.basePut = puts /\ n.base = tool[t].base /\ n.kind = "materialize"
        /\ n.first = tool[t].first /\ n.firstPut = tool[t].firstPut
        /\ n.rest = {} /\ n.ext = {} /\ n.todo = {} /\ n.st = tool[t].st /\ n.all = tool[t].all
    BY <1>1, <1>3, <2>4 DEF ToolState, ShapeOK
  <2>6. tool' = [tool EXCEPT ![t] = n]
    BY <1>3, <2>4 DEF Put, Move
  <2>7. tool'[t] = n /\ \A u \in Shell \ {t} : tool'[u] = tool[u]
    BY <2>6 DEF EdgeInv, EdgeTypeOK
  <2>8. EdgeTypeOK' /\ HashesOK'
    BY <1>1, <2>3, <2>5, <2>6, <2>7 DEF EdgeInv, EdgeTypeOK, HashesOK
  <2>9. ShapeOK(t)'
    BY <2>5, <2>7 DEF ShapeOK
  <2>10. HeadsOK(t)'
    <3>1. n.firstPut <= puts' /\ n.firstPut # puts' /\ n.basePut <= puts'
      BY <1>1, <1>2, <2>5 DEF HeadsOK
    <3> QED BY <2>5, <2>7, <3>1 DEF HeadsOK
  <2>11. ASSUME NEW e \in Extractor \ excused'
         PROVE  Works(t, e) /\ RestOK(e)' /\ MaterializeOK(t, e)'
    <3>1. EdgeFilesOK(e) /\ MaterializeOK(t, e) /\ e \in Extractor \ excused
      BY <1>1, <1>3 DEF EdgeInv, EdgeFilesOK
    <3>2. /\ overlayOf[e] = tool[t].all[e]
          /\ Baked(e) \subseteq OfExtractor(tool[t].first.baked, e)
      BY <1>1, <3>1 DEF MaterializeOK
    <3>3. \A k : k \in Baked(e)' <=> <<e, k>> \in tool[t].first.baked \cup X
      <4>1. edgeHead'.baked \subseteq Edges
        BY <2>3 DEF EdgeHead
      <4> QED BY <2>3, <4>1, OfExtractorIs DEF Baked
    <3>4. Baked(e) \subseteq Baked(e)'
      <4>1. tool[t].first.baked \subseteq Edges
        BY <1>2 DEF EdgeHead
      <4> QED BY <3>2, <3>3, <4>1, OfExtractorIs
    <3>5. tool[t].all[e] \cap tool[t].first.chunks \subseteq Baked(e)'
      <4>1. ASSUME NEW k \in tool[t].all[e] \cap tool[t].first.chunks PROVE <<e, k>> \in X
        <5>1. <<e, k>> \in Edges
          BY <1>2 DEF Edges
        <5> QED BY <2>1, <4>1, <5>1
      <4> QED BY <3>3, <4>1
    <3>6. RestOK(e)'
      <4>1. tool[t].ext = {}
        BY <1>1, <1>3 DEF ShapeOK
      <4> QED BY <1>1, <2>7, <3>1, <3>4, <4>1, RestKept
    <3>7. MaterializeOK(t, e)'
      BY <1>1, <2>5, <2>7, <3>2, <3>5 DEF MaterializeOK
    <3> QED BY <1>3, <3>6, <3>7 DEF Works
  <2>12. tool'[t].ext = {} /\ excused \subseteq excused'
    BY <1>1, <2>5, <2>7
  <2> QED BY <1>1, <2>6, <2>8, <2>9, <2>10, <2>11, <2>12, ToolKeeps
<1>4. CASE tool[t].kind # "materialize"
  <2>1. tool[t].base = edgeHead
    BY <1>1, <1>4 DEF HeadsOK
  <2>2. PICK Ls \in SUBSET (SUBSET Edges) : edgeHead' = [edgeHead EXCEPT !.layers = Ls]
    <3>1. CASE tool[t].kind = "extract"
      <4>1. PICK e \in tool[t].ext :
              edgeHead' = [edgeHead EXCEPT !.layers = @ \cup {EdgesOf(e, tool[t].ov)}]
        BY <2>1, <3>1 DEF Put, Published
      <4>2. EdgesOf(e, tool[t].ov) \in SUBSET Edges
        BY <1>2 DEF EdgesOf, Edges
      <4>3. edgeHead.layers \cup {EdgesOf(e, tool[t].ov)} \in SUBSET (SUBSET Edges)
        BY <1>1, <4>2 DEF EdgeHead
      <4> QED BY <4>1, <4>3
    <3>2. CASE tool[t].kind = "compact"
      <4>1. PICK L \in {Live(tool[t].first), UNION tool[t].first.layers} :
              edgeHead' = [edgeHead EXCEPT !.layers = {L}]
        BY <2>1, <3>2 DEF Put, Published
      <4>2. Live(tool[t].first) \subseteq (UNION tool[t].first.layers)
        BY DEF Live
      <4>3. (UNION tool[t].first.layers) \subseteq Edges
        BY <1>2 DEF EdgeHead
      <4>4. {L} \in SUBSET (SUBSET Edges)
        BY <4>1, <4>2, <4>3
      <4> QED BY <4>1, <4>4
    <3> QED BY <1>1, <1>4, <3>1, <3>2 DEF ToolState
  <2>3. edgeHead' \in EdgeHead /\ edgeHead'.baked = edgeHead.baked
    BY <1>1, <2>2 DEF EdgeHead
  <2>4. tool' = [tool EXCEPT ![t] = NextExtractor(tool[t])]
    BY <1>4 DEF Put, Move
  <2>5. NextExtractor(tool[t]) = AtRest \/ tool[t].kind = "extract"
    BY <1>1 DEF ShapeOK, NextExtractor
  <2>6. /\ excused \subseteq excused' /\ excused' \subseteq Extractor
        /\ spent' \in [commands : 0..MaxCommands, changes : 0..MaxHeadChanges, kills : 0..MaxToolKills]
    BY <1>1 DEF EdgeInv, EdgeTypeOK
  <2> QED BY <1>1, <2>3, <2>4, <2>5, <2>6, LeavesExtractor
<1> QED BY <1>3, <1>4

\* What was baked leaves the overlay file, extractor after extractor.
LEMMA ClearOverlayKeeps ==
  ASSUME EdgeInv, NEW t \in Shell, ClearOverlay(t) PROVE EdgeInv'
<1>1. PICK e \in Extractor :
        /\ tool[t].all[e] # {}
        /\ overlayOf' = [overlayOf EXCEPT ![e] = tool[t].all[e] \ tool[t].first.chunks]
        /\ tool' = [tool EXCEPT ![t] =
             IF [tool[t].all EXCEPT ![e] = {}] = NoOverlays THEN AtRest
             ELSE [tool[t] EXCEPT !.all = [tool[t].all EXCEPT ![e] = {}]]]
  BY DEF ClearOverlay, Move
<1>2. /\ tool[t].at = "clear" /\ tool[t] \in ToolState /\ tool[t].kind = "materialize"
      /\ puts \in Nat /\ puts # 0 /\ HeadsOK(t) /\ ShapeOK(t) /\ OwnChunks(tool[t].st)
      /\ overlayOf \in [Extractor -> SUBSET ChunkId]
      /\ UNCHANGED <<edgeHead, puts, statusOf, found, excused, spent>>
  BY DEF ClearOverlay, EdgeInv, EdgeTypeOK, HashesOK, ShapeOK, worldOf
<1>3. PICK all : all = [tool[t].all EXCEPT ![e] = {}]
  OBVIOUS
<1>4. /\ tool[t].all \in [Extractor -> SUBSET ChunkId]
      /\ all \in [Extractor -> SUBSET ChunkId] /\ all[e] = {}
      /\ \A x \in Extractor \ {e} : all[x] = tool[t].all[x]
  BY <1>2, <1>3 DEF ToolState
<1>5. PICK n : n = IF all = NoOverlays THEN AtRest ELSE [tool[t] EXCEPT !.all = all]
  OBVIOUS
<1>6. n \in ToolState
  <2>1. [tool[t] EXCEPT !.all = all] \in ToolState
    BY <1>2, <1>4 DEF ToolState
  <2> QED BY <1>5, <2>1, AtRestTypes
<1>7. /\ n.kind = "none" \/ n.kind = "materialize"
      /\ \/ n = AtRest
         \/ /\ n.at = "clear" /\ n.kind = "materialize" /\ n.first = tool[t].first
            /\ n.firstPut = tool[t].firstPut /\ n.base = tool[t].base
            /\ n.basePut = tool[t].basePut /\ n.st = tool[t].st /\ n.all = all
            /\ n.rest = tool[t].rest /\ n.ext = tool[t].ext
  BY <1>2, <1>5, AtRestIs DEF ToolState
<1>8. tool' = [tool EXCEPT ![t] = n]
  BY <1>1, <1>3, <1>5
<1>9. tool'[t] = n /\ \A u \in Shell \ {t} : tool'[u] = tool[u]
  BY <1>8 DEF EdgeInv, EdgeTypeOK
<1>10. tool[t].ext = {} /\ tool[t].rest = {} /\ n.ext = {} /\ n.rest = {}
  BY <1>2, <1>7, AtRestIs DEF ShapeOK
<1>11. /\ overlayOf' \in [Extractor -> SUBSET ChunkId]
       /\ overlayOf'[e] = tool[t].all[e] \ tool[t].first.chunks
       /\ \A x \in Extractor \ {e} : overlayOf'[x] = overlayOf[x]
  BY <1>1, <1>2, <1>4
<1>12. EdgeTypeOK'
  BY <1>2, <1>6, <1>8, <1>11 DEF EdgeInv, EdgeTypeOK
<1>13. HashesOK'
  <2>1. OwnChunks(AtRest.st)
    BY AtRestIs DEF OwnChunks
  <2> QED BY <1>2, <1>7, <1>9, <2>1 DEF EdgeInv, HashesOK
<1>14. ShapeOK(t)'
  BY <1>7, <1>9, <1>10, AtRestIs DEF ShapeOK
<1>15. HeadsOK(t)'
  <2>1. CASE n = AtRest
    BY <1>2, <1>9, <2>1, AtRestIs DEF HeadsOK
  <2>2. CASE n # AtRest
    BY <1>2, <1>7, <1>9, <2>2 DEF HeadsOK
  <2> QED BY <2>1, <2>2
<1>16. ASSUME NEW x \in Extractor \ excused'
       PROVE  /\ Works(t, x) /\ RestOK(x)' /\ x \notin tool'[t].ext
              /\ tool'[t].kind = "materialize" => MaterializeOK(t, x)'
  <2>1. Works(t, x) /\ x \in Extractor \ excused
    BY <1>2 DEF Works
  <2>2. RestOK(x) /\ MaterializeOK(t, x)
    BY <1>2, <2>1 DEF EdgeInv, EdgeFilesOK
  <2>3. \A u \in Shell : x \notin tool[u].ext
    <3>1. ASSUME NEW u \in Shell, x \in tool[u].ext PROVE FALSE
      <4>1. Works(u, x)
        BY <3>1 DEF Works
      <4>2. u = t
        BY <2>1, <4>1 DEF EdgeInv, SoleOK
      <4> QED BY <1>10, <3>1, <4>2
    <3> QED BY <3>1
  <2>4. Baked(x)' = Baked(x)
    BY <1>2 DEF Baked
  <2>5. RestOK(x)'
    <3>1. \A c \in Context : statusOf[x][c] \cap found[x] \subseteq overlayOf[x] \cup Baked(x)
      BY <2>2, <2>3 DEF RestOK
    <3>2. overlayOf[x] \subseteq overlayOf'[x] \cup Baked(x)
      <4>1. CASE x = e
        BY <1>1, <1>2, <1>11, <2>2, <4>1 DEF MaterializeOK
      <4>2. CASE x # e
        BY <1>11, <4>2
      <4> QED BY <4>1, <4>2
    <3> QED BY <1>2, <2>4, <3>1, <3>2 DEF RestOK
  <2>6. ASSUME n.kind = "materialize" PROVE MaterializeOK(t, x)'
    <3>1. n.at = "clear" /\ n.first = tool[t].first /\ n.all = all
      BY <1>7, <2>6, AtRestIs
    <3>2. CASE x = e
      BY <1>4, <1>9, <3>1, <3>2 DEF MaterializeOK
    <3>3. CASE x # e
      BY <1>2, <1>4, <1>9, <1>11, <2>2, <2>4, <3>1, <3>3 DEF MaterializeOK
    <3> QED BY <3>2, <3>3
  <2> QED BY <1>9, <1>10, <2>1, <2>5, <2>6
<1>17. UNCHANGED worldOf /\ excused \subseteq excused'
  BY <1>2 DEF worldOf
<1> QED BY <1>8, <1>12, <1>13, <1>14, <1>15, <1>16, <1>17, ToolKeeps

\* The next extractor: what is pruned is gone from the head, and the contexts
\* that keep their hash are in it with every chunk.
LEMMA OpenSidecarsKeeps ==
  ASSUME EdgeInv, NEW t \in Shell, OpenSidecars(t) PROVE EdgeInv'
<1>1. /\ tool[t].at = "next" /\ tool[t] \in ToolState /\ tool[t].kind = "extract" /\ tool[t].ext = {}
      /\ puts \in Nat /\ puts # 0 /\ HeadsOK(t) /\ tool[t].rest \subseteq Extractor
      /\ tool[t].first \in EdgeHead
      /\ overlayOf \in [Extractor -> SUBSET ChunkId]
      /\ statusOf \in [Extractor -> [Context -> Hash]]
      /\ UNCHANGED <<edgeHead, puts, statusOf, found, excused, spent>>
  BY DEF OpenSidecars, EdgeInv, EdgeTypeOK, ShapeOK, ToolState, worldOf
<1>2. PICK S : S = tool[t].first.chunks
  OBVIOUS
<1>3. PICK e \in tool[t].rest :
        LET H == tool[t].first.chunks
            kept == overlayOf[e] \cap H
            st == [c \in Context |-> IF ChunksIn(H, c) = {} THEN {} ELSE statusOf[e][c]]
            stale == kept # overlayOf[e] \/ st # statusOf[e]
            todo == ToProcess(e, H)
        IN /\ overlayOf' = [overlayOf EXCEPT ![e] = kept]
           /\ tool' = [tool EXCEPT ![t] =
                IF todo = {} /\ ~stale
                THEN NextExtractor([tool[t] EXCEPT !.rest = @ \ {e}])
                ELSE [tool[t] EXCEPT !.at = IF stale THEN "prune" ELSE "contexts",
                                     !.rest = @ \ {e}, !.ext = {e}, !.todo = todo,
                                     !.ov = kept, !.st = st, !.fresh = FALSE,
                                     !.pruned = kept # overlayOf[e]]]
  BY Zenon DEF OpenSidecars, Move
<1>4. PICK kept : kept = overlayOf[e] \cap S
  OBVIOUS
<1>5. PICK st : st = [c \in Context |-> IF ChunksIn(S, c) = {} THEN {} ELSE statusOf[e][c]]
  OBVIOUS
<1>6. PICK todo : todo = ToProcess(e, S)
  OBVIOUS
<1>7. PICK stale \in BOOLEAN : stale <=> kept # overlayOf[e] \/ st # statusOf[e]
  OBVIOUS
<1>8. PICK pruned \in BOOLEAN : pruned <=> kept # overlayOf[e]
  OBVIOUS
<1>9. /\ overlayOf' = [overlayOf EXCEPT ![e] = kept]
      /\ tool' = [tool EXCEPT ![t] =
           IF todo = {} /\ ~stale
           THEN NextExtractor([tool[t] EXCEPT !.rest = @ \ {e}])
           ELSE [tool[t] EXCEPT !.at = IF stale THEN "prune" ELSE "contexts",
                                !.rest = @ \ {e}, !.ext = {e}, !.todo = todo,
                                !.ov = kept, !.st = st, !.fresh = FALSE, !.pruned = pruned]]
  BY <1>2, <1>3, <1>4, <1>5, <1>6, <1>7, <1>8
<1>10. /\ e \in Extractor /\ S \subseteq ChunkId /\ kept \subseteq ChunkId /\ kept \subseteq overlayOf[e]
       /\ st \in [Context -> Hash] /\ todo \subseteq Context
  <2>1. e \in Extractor /\ S \subseteq ChunkId /\ kept \subseteq ChunkId /\ kept \subseteq overlayOf[e]
    BY <1>1, <1>2, <1>4 DEF EdgeHead
  <2>2. st \in [Context -> Hash]
    BY <1>1, <1>5, <2>1 DEF Hash
  <2>3. todo \subseteq Context
    BY <1>6, <2>1, EdgeConstants DEF ToProcess
  <2> QED BY <2>1, <2>2, <2>3
<1>11. PICK q \in ToolState : q = [tool[t] EXCEPT !.rest = @ \ {e}]
  BY <1>1 DEF ToolState
<1>0. PICK place \in {"prune", "contexts"} : place = IF stale THEN "prune" ELSE "contexts"
  OBVIOUS
<1>12. PICK w : w = [tool[t] EXCEPT !.at = place, !.rest = @ \ {e}, !.ext = {e}, !.todo = todo,
                                    !.ov = kept, !.st = st, !.fresh = FALSE, !.pruned = pruned]
  OBVIOUS
<1>13. w \in ToolState
  <2>1. place \in {"idle", "next", "prune", "contexts", "overlay", "upload", "put", "clear"}
    OBVIOUS
  <2>2. {e} \in {{}} \cup {{x} : x \in Extractor}
    BY <1>10
  <2>3. FALSE \in BOOLEAN /\ pruned \in BOOLEAN
    OBVIOUS
  <2>4. tool[t].rest \ {e} \in SUBSET Extractor /\ todo \in SUBSET Context /\ kept \in SUBSET ChunkId
    BY <1>1, <1>10
  <2> QED BY <1>1, <1>10, <1>12, <2>1, <2>2, <2>3, <2>4, Zenon DEF ToolState
<1>14. /\ w.at = place /\ w.kind = "extract"
       /\ w.rest = tool[t].rest \ {e} /\ w.ext = {e} /\ w.todo = todo /\ w.ov = kept /\ w.st = st
       /\ w.first = tool[t].first /\ w.firstPut = tool[t].firstPut /\ w.basePut = tool[t].basePut
       /\ w.pruned = pruned
  BY <1>1, <1>12 DEF ToolState
<1>15. /\ q.rest = tool[t].rest \ {e} /\ q.kind = "extract"
       /\ q.first = tool[t].first /\ q.firstPut = tool[t].firstPut
  BY <1>1, <1>11 DEF ToolState
<1>16. PICK n \in ToolState :
         /\ tool' = [tool EXCEPT ![t] = n]
         /\ \/ n = NextExtractor(q) /\ todo = {} /\ ~stale
            \/ n = w
  BY <1>0, <1>9, <1>11, <1>12, <1>13, NextIs
<1>17. tool'[t] = n /\ \A u \in Shell \ {t} : tool'[u] = tool[u]
  BY <1>16 DEF EdgeInv, EdgeTypeOK
<1>18. /\ overlayOf' \in [Extractor -> SUBSET ChunkId] /\ overlayOf'[e] = kept
       /\ \A x \in Extractor \ {e} : overlayOf'[x] = overlayOf[x]
  BY <1>1, <1>9, <1>10
<1>19. OwnChunks(st) /\ OwnChunks(NextExtractor(q).st)
  <2>1. OwnChunks(statusOf[e])
    BY <1>10 DEF EdgeInv, HashesOK
  <2> QED BY <1>5, <2>1, NextIs DEF OwnChunks
<1>20. EdgeTypeOK' /\ HashesOK'
  <2>1. EdgeTypeOK'
    BY <1>1, <1>16, <1>18 DEF EdgeInv, EdgeTypeOK
  <2>2. OwnChunks(n.st)
    BY <1>14, <1>16, <1>19
  <2> QED BY <1>1, <1>17, <2>1, <2>2 DEF EdgeInv, HashesOK
<1>21. ShapeOK(t)'
  <2>1. CASE n = w
    BY <1>14, <1>17, <2>1 DEF ShapeOK
  <2>2. CASE n = NextExtractor(q)
    BY <1>15, <1>17, <2>2, NextIs DEF ShapeOK
  <2> QED BY <1>16, <2>1, <2>2
<1>22. HeadsOK(t)'
  <2>1. CASE n = w
    BY <1>1, <1>14, <1>17, <2>1 DEF HeadsOK
  <2>2. CASE n = NextExtractor(q)
    BY <1>1, <1>15, <1>17, <2>2, NextIs DEF HeadsOK
  <2> QED BY <1>16, <2>1, <2>2
<1>23. ASSUME NEW x \in Extractor \ excused'
       PROVE  /\ Works(t, x)' => Works(t, x)
              /\ Works(t, x) \/ /\ overlayOf'[x] = overlayOf[x] /\ statusOf'[x] = statusOf[x]
                                /\ found'[x] = found[x] /\ Baked(x)' = Baked(x)
              /\ RestOK(x)' /\ (x \in tool'[t].ext => ExtractOK(t, x)')
  <2>1. Works(t, x)' => Works(t, x)
    BY <1>1, <1>14, <1>15, <1>16, <1>17, NextIs DEF Works
  <2>2. Works(t, e)
    BY DEF Works
  <2>3. x \in Extractor \ excused /\ Baked(x)' = Baked(x) /\ RestOK(x)
    BY <1>1 DEF Baked, EdgeInv, EdgeFilesOK
  <2>4. CASE x # e \/ (kept = overlayOf[e] /\ n # w)
    <3>1. overlayOf'[x] = overlayOf[x] /\ statusOf'[x] = statusOf[x] /\ found'[x] = found[x]
      BY <1>1, <1>18, <2>3, <2>4
    <3>2. RestOK(x)'
      BY <1>1, <1>17, <2>3, <3>1, RestKept
    <3>3. x \notin n.ext
      BY <1>14, <1>16, <2>4, NextIs
    <3> QED BY <1>17, <2>1, <2>3, <3>1, <3>2, <3>3
  <2>5. CASE x = e /\ n = w
    <3>1. RestOK(e)'
      BY <1>14, <1>17, <2>5 DEF RestOK
    <3>2. \A u \in Shell : e \notin tool[u].ext
      <4>1. ASSUME NEW u \in Shell, e \in tool[u].ext PROVE FALSE
        <5>1. Works(u, e)
          BY <4>1 DEF Works
        <5>2. u = t
          BY <2>2, <2>3, <2>5, <5>1 DEF EdgeInv, SoleOK
        <5> QED BY <1>1, <4>1, <5>2
      <4> QED BY <4>1
    <3>3. \A c \in Context : statusOf[e][c] \cap found[e] \subseteq overlayOf[e] \cup Baked(e)
      BY <2>3, <2>5, <3>2 DEF RestOK
    <3>4. ASSUME NEW c \in Context, ~(pruned /\ c \in todo)
          PROVE  st[c] \cap found[e] \subseteq kept \cup Baked(e)
      <4>1. CASE ChunksIn(S, c) = {}
        BY <1>5, <4>1
      <4>2. CASE ChunksIn(S, c) # {} /\ ~pruned
        BY <1>5, <1>8, <3>3, <4>2
      <4>3. CASE ChunksIn(S, c) # {} /\ c \notin todo
        <5>1. \E k \in S : ContextOf[k] = c
          BY <4>3 DEF ChunksIn
        <5>2. statusOf[e][c] = ChunksIn(S, c)
          BY <1>6, <4>3, <5>1 DEF ToProcess
        <5>3. ChunksIn(S, c) \subseteq S
          BY DEF ChunksIn
        <5> QED BY <1>4, <1>5, <3>3, <4>3, <5>2, <5>3
      <4> QED BY <3>4, <4>1, <4>2, <4>3
    <3>5. ~stale => statusOf[e] = st
      BY <1>7
    <3>6. ExtractOK(t, e)'
      BY <1>0, <1>1, <1>7, <1>14, <1>17, <1>18, <2>3, <2>5, <3>4, <3>5 DEF ExtractOK
    <3> QED BY <2>1, <2>2, <2>5, <3>1, <3>6
  <2> QED BY <1>7, <1>16, <2>4, <2>5
<1>24. UNCHANGED worldOf /\ excused \subseteq excused' /\ tool'[t].kind # "materialize"
  BY <1>1, <1>14, <1>15, <1>16, <1>17, NextIs DEF worldOf
<1> QED BY <1>16, <1>20, <1>21, <1>22, <1>23, <1>24, ToolKeeps

-----------------------------------------------------------------------------
(* A step of somebody else, and the invariant *)

\* Another head: every id that was read is older, and what was baked is baked,
\* unless its extractor is excused.
LEMMA HeadChangesKeep ==
  ASSUME EdgeInv, IngestAppends \/ ReingestReplaces PROVE EdgeInv'
<1>1. /\ edgeHead \in EdgeHead /\ puts \in Nat /\ puts # 0
      /\ excused \subseteq Extractor
      /\ spent \in [commands : 0..MaxCommands, changes : 0..MaxHeadChanges, kills : 0..MaxToolKills]
  BY DEF EdgeInv, EdgeTypeOK
<1>2. /\ spent.changes < MaxHeadChanges /\ spent' = [spent EXCEPT !.changes = @ + 1]
      /\ puts' = puts + 1 /\ UNCHANGED <<overlayOf, statusOf, tool, found>>
  BY DEF IngestAppends, ReingestReplaces, HeadChanges, sidecars
<1>3. /\ edgeHead' \in EdgeHead /\ excused \subseteq excused' /\ excused' \subseteq Extractor
      /\ \A e \in Extractor \ excused' : Baked(e)' = Baked(e)
  <2>1. CASE IngestAppends
    <3>1. PICK k \in ChunkId :
            edgeHead' = [edgeHead EXCEPT !.chunks = @ \cup {k}, !.layers = {}]
      BY <2>1 DEF IngestAppends, HeadChanges
    <3>2. edgeHead' \in EdgeHead /\ edgeHead'.baked = edgeHead.baked
      BY <1>1, <3>1 DEF EdgeHead
    <3>3. excused' = excused
      BY <2>1 DEF IngestAppends
    <3> QED BY <1>1, <3>2, <3>3 DEF Baked
  <2>2. CASE ReingestReplaces
    <3>1. PICK S \in SUBSET ChunkId : edgeHead' = [NoHead EXCEPT !.chunks = S]
      BY <2>2 DEF ReingestReplaces, HeadChanges
    <3>2. edgeHead' \in EdgeHead /\ edgeHead'.baked = {}
      BY <3>1 DEF EdgeHead, NoHead
    <3>3. excused' = excused \cup {x[1] : x \in edgeHead.baked}
      BY <2>2 DEF ReingestReplaces
    <3>4. \A x \in edgeHead.baked : x[1] \in Extractor
      BY <1>1 DEF EdgeHead, Edges
    <3>5. ASSUME NEW e \in Extractor \ excused' PROVE Baked(e)' = Baked(e)
      <4>1. Baked(e) = {}
        BY <3>3 DEF Baked, OfExtractor
      <4>2. Baked(e)' = {}
        BY <3>2 DEF Baked, OfExtractor
      <4> QED BY <4>1, <4>2
    <3> QED BY <1>1, <3>2, <3>3, <3>4, <3>5
  <2> QED BY <2>1, <2>2
<1>4. EdgeTypeOK' /\ puts' # 0
  <2>1. spent.changes \in 0..MaxHeadChanges /\ MaxHeadChanges \in Nat
    BY <1>1, EdgeConstants
  <2>2. spent.changes + 1 \in 0..MaxHeadChanges
    BY <1>2, <2>1
  <2>3. spent' \in [commands : 0..MaxCommands, changes : 0..MaxHeadChanges, kills : 0..MaxToolKills]
    BY <1>1, <1>2, <2>2
  <2>4. puts' \in Nat /\ puts' # 0
    BY <1>1, <1>2
  <2> QED BY <1>2, <1>3, <2>3, <2>4 DEF EdgeInv, EdgeTypeOK
<1>5. ASSUME NEW t \in Shell PROVE ShapeOK(t)' /\ HeadsOK(t)'
  <2>1. ShapeOK(t) /\ HeadsOK(t) /\ tool[t].firstPut \in Nat /\ tool[t].basePut \in Nat
    BY DEF EdgeInv, EdgeTypeOK, ToolState
  <2>2. ShapeOK(t)'
    BY <1>2, <2>1 DEF ShapeOK
  <2>3. tool[t].firstPut <= puts /\ tool[t].basePut <= puts
    BY <2>1 DEF HeadsOK
  <2>4. /\ tool[t].firstPut <= puts' /\ tool[t].basePut <= puts'
        /\ tool[t].firstPut # puts' /\ tool[t].basePut # puts'
    BY <1>1, <1>2, <2>1, <2>3
  <2>5. HeadsOK(t)'
    BY <1>2, <2>1, <2>4 DEF HeadsOK
  <2> QED BY <2>2, <2>5
<1>6. SoleOK' /\ HashesOK'
  BY <1>2, <1>3 DEF EdgeInv, SoleOK, HashesOK, Works
<1>7. ASSUME NEW e \in Extractor \ excused' PROVE EdgeFilesOK(e)'
  <2>1. EdgeFilesOK(e) /\ Baked(e)' = Baked(e)
    BY <1>3 DEF EdgeInv
  <2>2. RestOK(e)'
    BY <1>2, <2>1 DEF EdgeFilesOK, RestOK
  <2>3. ASSUME NEW t \in Shell
        PROVE  /\ e \in tool'[t].ext => ExtractOK(t, e)'
               /\ tool'[t].kind = "materialize" => MaterializeOK(t, e)'
    <3>1. e \in tool[t].ext => ExtractOK(t, e)'
      BY <1>2, <2>1 DEF EdgeFilesOK, ExtractOK
    <3>2. tool[t].kind = "materialize" => MaterializeOK(t, e)'
      BY <1>2, <2>1 DEF EdgeFilesOK, MaterializeOK
    <3> QED BY <1>2, <3>1, <3>2
  <2> QED BY <2>2, <2>3 DEF EdgeFilesOK
<1> QED BY <1>4, <1>5, <1>6, <1>7 DEF EdgeInv

LEMMA EdgeInitially == EdgeInit => EdgeInv
<1> SUFFICES ASSUME EdgeInit PROVE EdgeInv
  OBVIOUS
<1>1. PICK S \in SUBSET ChunkId : edgeHead = [NoHead EXCEPT !.chunks = S]
  BY DEF EdgeInit
<1>2. edgeHead \in EdgeHead
  BY <1>1 DEF NoHead, EdgeHead
<1>3. \A t \in Shell : tool[t] = AtRest
  BY DEF EdgeInit
<1>4. \A e \in Extractor, c \in Context : statusOf[e][c] = {}
  BY DEF EdgeInit
<1>5. EdgeTypeOK
  <2>1. tool \in [Shell -> ToolState]
    BY AtRestTypes DEF EdgeInit
  <2>2. statusOf \in [Extractor -> [Context -> Hash]]
    BY AtRestTypes DEF EdgeInit
  <2>3. spent \in [commands : 0..MaxCommands, changes : 0..MaxHeadChanges, kills : 0..MaxToolKills]
    BY EdgeConstants DEF EdgeInit
  <2> QED BY <1>2, <2>1, <2>2, <2>3, AtRestTypes DEF EdgeInit, EdgeTypeOK
<1>6. puts = 1
  BY DEF EdgeInit
<1>7. ASSUME NEW t \in Shell PROVE ShapeOK(t) /\ HeadsOK(t)
  BY <1>3, <1>6, AtRestIs DEF ShapeOK, HeadsOK
<1>8. HashesOK
  BY <1>3, <1>4, AtRestIs DEF HashesOK, OwnChunks
<1>9. SoleOK
  BY <1>3, AtRestIs DEF SoleOK, Works
<1>10. ASSUME NEW e \in Extractor PROVE EdgeFilesOK(e)
  BY <1>3, <1>4, AtRestIs DEF EdgeFilesOK, RestOK
<1> QED BY <1>5, <1>6, <1>7, <1>8, <1>9, <1>10 DEF EdgeInv

LEMMA ToolStepKeeps ==
  ASSUME EdgeInv, NEW t \in Shell, ToolStep(t) PROVE EdgeInv'
<1>1. CASE LoadExtract(t)
  <2>1. PICK es \in SUBSET Extractor : Load(t, "extract", es)
    BY <1>1 DEF LoadExtract
  <2> QED BY <2>1, LoadKeeps
<1>2. CASE LoadCompact(t)
  <2>1. Load(t, "compact", {})
    BY <1>2 DEF LoadCompact
  <2> QED BY <2>1, LoadKeeps
<1>3. CASE LoadMaterialize(t)
  <2>1. Load(t, "materialize", Extractor)
    BY <1>3 DEF LoadMaterialize
  <2> QED BY <2>1, LoadKeeps
<1> QED BY <1>1, <1>2, <1>3, OpenSidecarsKeeps, PruneStatusKeeps, FinishContextKeeps,
           WriteOverlayKeeps, FailContextKeeps, InterruptKeeps, EndContextsKeeps,
           ReadAgainKeeps, PutKeeps, StopsKeep, ClearOverlayKeeps
        DEF ToolStep

LEMMA EdgeStays == EdgeInv /\ [EdgeNext]_edgeVars => EdgeInv'
<1> SUFFICES ASSUME EdgeInv, [EdgeNext]_edgeVars PROVE EdgeInv'
  OBVIOUS
<1>1. CASE UNCHANGED edgeVars
  <2> USE <1>1 DEF edgeVars
  <2>1. EdgeTypeOK' /\ HashesOK' /\ puts' # 0
    BY DEF EdgeInv, EdgeTypeOK, HashesOK
  <2>2. SoleOK'
    BY DEF EdgeInv, SoleOK, Works
  <2>3. \A t \in Shell : ShapeOK(t)' /\ HeadsOK(t)'
    BY DEF EdgeInv, ShapeOK, HeadsOK
  <2>4. \A e \in Extractor \ excused' : EdgeFilesOK(e)'
    BY DEF EdgeInv, EdgeFilesOK, RestOK, ExtractOK, MaterializeOK, Baked
  <2> QED BY <2>1, <2>2, <2>3, <2>4 DEF EdgeInv
<1>2. CASE \E t \in Shell : ToolStep(t)
  BY <1>2, ToolStepKeeps
<1>3. CASE IngestAppends \/ ReingestReplaces
  BY <1>3, HeadChangesKeep
<1> QED BY <1>1, <1>2, <1>3 DEF EdgeNext

LEMMA EdgeInvariance == EdgeSpec => []EdgeInv
BY EdgeInitially, EdgeStays, PTL DEF EdgeSpec

\* The edge commands keep their types: a command holds a head, an extractor's
\* files and the overlays of a materialize, as extract-edges.ts and
\* materialize-edges.ts carry them from await to await.
THEOREM EdgeTypes == EdgeSpec => []EdgeTypeOK
<1>1. EdgeInv => EdgeTypeOK
  BY DEF EdgeInv
<1> QED BY <1>1, EdgeInvariance, PTL

\* A context that the status file calls complete, and that no command of the
\* edge pipeline is at work on, has every edge its extraction returned in the
\* overlay or in the segments: whatever was pruned, cleared, interrupted, killed
\* or put meanwhile by any number of commands, for every extractor whose files
\* the code did not damage in one of the ways that excuse it.
THEOREM CompletedIsKept == EdgeSpec => []StatusIsBacked
<1>1. EdgeInv => StatusIsBacked
  BY DEF EdgeInv, EdgeFilesOK, RestOK, StatusIsBacked, Baked
<1> QED BY <1>1, EdgeInvariance, PTL

\* The head a command puts, of the head that is there.
LEMMA PublishedKeeps ==
  ASSUME EdgeInv, NEW t \in Shell, Put(t), tool[t].kind = "extract" \/ tool[t].firstPut = puts
  PROVE  /\ edgeHead.chunks \subseteq edgeHead'.chunks
         /\ edgeHead.baked \subseteq edgeHead'.baked
         /\ Live(edgeHead) \subseteq Live(edgeHead')
<1>1. /\ tool[t].at = "put" /\ tool[t].basePut = puts /\ edgeHead' \in Published(t)
      /\ HeadsOK(t) /\ edgeHead \in EdgeHead /\ tool[t].kind # "none"
      /\ tool[t].kind \in {"none", "extract", "compact", "materialize"}
  BY DEF Put, EdgeInv, ShapeOK, EdgeTypeOK, ToolState
<1>2. tool[t].kind # "extract" => tool[t].first = edgeHead
  BY <1>1 DEF HeadsOK
<1>3. tool[t].base = edgeHead
  BY <1>1, <1>2 DEF HeadsOK
<1>4. CASE tool[t].kind = "extract"
  <2>1. PICK e \in tool[t].ext :
          edgeHead' = [edgeHead EXCEPT !.layers = @ \cup {EdgesOf(e, tool[t].ov)}]
    BY <1>1, <1>3, <1>4 DEF Published
  <2>2. /\ edgeHead'.chunks = edgeHead.chunks /\ edgeHead'.baked = edgeHead.baked
        /\ edgeHead.layers \subseteq edgeHead'.layers
    BY <1>1, <2>1 DEF EdgeHead
  <2> QED BY <2>2 DEF Live
<1>5. CASE tool[t].kind = "compact"
  <2>1. PICK L \in {Live(edgeHead), UNION edgeHead.layers} : edgeHead' = [edgeHead EXCEPT !.layers = {L}]
    BY <1>1, <1>2, <1>3, <1>5 DEF Published
  <2>2. /\ edgeHead'.chunks = edgeHead.chunks /\ edgeHead'.baked = edgeHead.baked
        /\ edgeHead'.layers = {L}
    BY <1>1, <2>1 DEF EdgeHead
  <2>3. Live(edgeHead) \subseteq L
    BY <2>1 DEF Live
  <2>4. \A x \in Live(edgeHead) : x[2] \in edgeHead.chunks
    BY DEF Live
  <2>5. (UNION {L}) = L
    OBVIOUS
  <2> QED BY <2>2, <2>3, <2>4, <2>5 DEF Live
<1>6. CASE tool[t].kind = "materialize"
  <2>1. PICK B : edgeHead' = [edgeHead EXCEPT !.baked = @ \cup B]
    BY <1>1, <1>3, <1>6 DEF Published
  <2>2. /\ edgeHead'.chunks = edgeHead.chunks /\ edgeHead.baked \subseteq edgeHead'.baked
        /\ edgeHead'.layers = edgeHead.layers
    BY <1>1, <2>1 DEF EdgeHead
  <2> QED BY <2>2 DEF Live
<1> QED BY <1>1, <1>4, <1>5, <1>6

\* Only a put of its own moves a command that is about to put while the head
\* changes.
LEMMA MovesByPut ==
  ASSUME EdgeInv, EdgeNext, NEW t \in Shell, tool'[t] # tool[t], puts' # puts
  PROVE  Put(t)
<1>1. PICK u \in Shell : ToolStep(u)
  BY DEF EdgeNext, IngestAppends, ReingestReplaces, HeadChanges
<1>2. CASE Put(u)
  <2>1. u = t
    <3>1. ASSUME u # t PROVE FALSE
      <4>1. \E r : tool' = [tool EXCEPT ![u] = r]
        BY <1>2 DEF Put, Move
      <4> QED BY <3>1, <4>1 DEF EdgeInv, EdgeTypeOK
    <3> QED BY <3>1
  <2> QED BY <1>2, <2>1
<1>3. ASSUME ~Put(u) PROVE FALSE
  BY <1>1, <1>3
     DEF ToolStep, LoadExtract, LoadCompact, LoadMaterialize, Load, OpenSidecars, PruneStatus,
         FinishContext, WriteOverlay, FailContext, Interrupt, EndContexts, ReadAgain, Clash,
         ClearOverlay, KillTool, worldOf
<1> QED BY <1>2, <1>3

\* A command that puts the head takes nothing out of it, no chunk, no baked edge
\* and no layer's edge of a chunk that is there: putHead's compare-and-swap is on
\* the id of the head an extract derived its manifest from.  A compact and a
\* materialize promise it if nobody put between their two reads.
THEOREM CommandsKeepTheHead == EdgeSpec => PutsKeep
<1> DEFINE Kept ==
      \A t \in Shell :
        (/\ puts' # puts /\ tool[t].at = "put" /\ tool'[t] # tool[t]
         /\ tool[t].kind = "extract" \/ tool[t].firstPut + 1 = puts')
        => /\ edgeHead.chunks \subseteq edgeHead'.chunks
           /\ edgeHead.baked \subseteq edgeHead'.baked
           /\ Live(edgeHead) \subseteq Live(edgeHead')
<1>1. EdgeInv /\ [EdgeNext]_edgeVars => [Kept]_edgeVars
  <2> SUFFICES ASSUME EdgeInv, EdgeNext, NEW t \in Shell,
                      puts' # puts, tool[t].at = "put", tool'[t] # tool[t],
                      tool[t].kind = "extract" \/ tool[t].firstPut + 1 = puts'
               PROVE  /\ edgeHead.chunks \subseteq edgeHead'.chunks
                      /\ edgeHead.baked \subseteq edgeHead'.baked
                      /\ Live(edgeHead) \subseteq Live(edgeHead')
    OBVIOUS
  <2>1. Put(t)
    BY MovesByPut
  <2>2. puts' = puts + 1 /\ puts \in Nat /\ tool[t].firstPut \in Nat
    BY <2>1 DEF Put, EdgeInv, EdgeTypeOK, ToolState
  <2>3. tool[t].kind = "extract" \/ tool[t].firstPut = puts
    BY <2>2
  <2> QED BY <2>1, <2>3, PublishedKeeps
<1>2. EdgeSpec => [][Kept]_edgeVars
  BY <1>1, EdgeInvariance, PTL DEF EdgeSpec
<1> QED BY <1>2 DEF PutsKeep

-----------------------------------------------------------------------------
(* The trace *)

Hop == [chunk : Nat, parent : Nat]

\* A hop with a parent was linked from it, and has an allowed type.
HopOK(i) ==
  /\ hops[i].chunk \in ChunkNo /\ hops[i].parent \in 0..(i - 1)
  /\ hops[i].parent # 0 => /\ <<hops[hops[i].parent].chunk, hops[i].chunk>> \in asked.links
                           /\ Allowed(hops[i].chunk)

\* One function solves the equation of the depths, and DepthOf is it.
Labels(d) == d = [i \in 0..Len(hops) |->
                    IF i = 0 \/ hops[i].parent = 0 THEN 0 ELSE 1 + d[hops[i].parent]]
DepthOK ==
  /\ \A d : Labels(d) <=> d = DepthOf
  /\ DepthOf \in [0..Len(hops) -> 0..MaxHops]

\* The calls of followEdges are at hops one deeper each.
StackOK ==
  /\ Len(stack) <= MaxHops
  /\ \A j \in 1..Len(stack) : stack[j] \in 1..Len(hops) /\ DepthOf[stack[j]] = j - 1
  /\ stage # "seeds" => stack = <<>>

\* A hop that is not too deep and has targets left is being followed.
Follows(i) == DepthOf[i] < MaxHops => Targets(i) = {} \/ \E j \in 1..Len(stack) : stack[j] = i
Walked ==
  (stage = "seeds" \/ (stage = "fallback" /\ typesLeft = TypesIn)) /\ ~Full =>
    \A i \in 1..Len(hops) : Follows(i)

AskedOK ==
  /\ asked.links \subseteq ChunkNo \X ChunkNo
  /\ asked.typeOf \in [ChunkNo -> SourceType] /\ asked.allowed \subseteq SourceType
HopsOK ==
  /\ hops \in Seq(Hop) /\ Len(hops) <= MaxTotal
  /\ visited = {hops[i].chunk : i \in 1..Len(hops)}
  /\ \A i \in 1..Len(hops) : HopOK(i)
LeftOK ==
  /\ seedsLeft \subseteq ChunkNo /\ typesLeft \subseteq TypesIn
  /\ stage \in {"seeds", "fallback", "done"}

TraceInv ==
  /\ AskedOK /\ HopsOK /\ LeftOK
  /\ stack \in Seq(Nat) /\ StackOK /\ DepthOK /\ Walked

\* Every chunk of a finite set comes at its place in the ascending order.
LEMMA AscendingIs ==
  ASSUME NEW S \in SUBSET Nat, IsFiniteSet(S)
  PROVE  /\ Ascending(S) \in [1..Cardinality(S) -> S]
         /\ \A k \in S : \E i \in 1..Cardinality(S) : Ascending(S)[i] = k
<1>1. PICK n \in Nat : n = Cardinality(S)
  BY FS_CardinalityType
<1>2. PICK rank : rank = [k \in S |-> Cardinality({j \in S : j < k})]
  OBVIOUS
<1>3. ASSUME NEW k \in S PROVE IsFiniteSet({j \in S : j < k}) /\ rank[k] \in 0..(n - 1)
  <2>1. PICK B \in SUBSET S : B = {j \in S : j < k}
    OBVIOUS
  <2>2. k \notin B
    BY <2>1
  <2>3. IsFiniteSet(B) /\ Cardinality(B) <= n /\ Cardinality(B) # n
    BY <1>1, <2>2, FS_Subset
  <2>4. Cardinality(B) \in 0..(n - 1)
    BY <1>1, <2>3, FS_CardinalityType
  <2> QED BY <1>2, <2>1, <2>3, <2>4
<1>4. ASSUME NEW k \in S, NEW l \in S, k < l PROVE rank[k] # rank[l]
  <2>1. PICK B : B = {j \in S : j < k}
    OBVIOUS
  <2>2. PICK C : C = {j \in S : j < l}
    OBVIOUS
  <2>3. k \in Nat /\ l \in Nat /\ S \subseteq Nat
    OBVIOUS
  <2>4. B \in SUBSET C /\ k \in C /\ k \notin B
    <3>1. \A j \in S : j < k => j < l
      BY <1>4, <2>3
    <3>2. k < l /\ ~(k < k)
      BY <1>4, <2>3
    <3> QED BY <2>1, <2>2, <3>1, <3>2
  <2>5. IsFiniteSet(C) /\ rank[k] = Cardinality(B) /\ rank[l] = Cardinality(C)
    BY <1>2, <1>3, <2>1, <2>2
  <2> QED BY <2>4, <2>5, FS_Subset
<1>5. ASSUME NEW k \in S, NEW l \in S, rank[k] = rank[l] PROVE k = l
  <2>1. k \in Nat /\ l \in Nat /\ ~(k < l) /\ ~(l < k)
    BY <1>4, <1>5
  <2> QED BY <2>1
<1>6. ASSUME NEW i \in 1..n PROVE \E k \in S : rank[k] = i - 1
  <2>1. rank \in [S -> 0..(n - 1)]
    BY <1>2, <1>3
  <2>2. rank \in Injection(S, 0..(n - 1))
    BY <1>5, <2>1 DEF Injection, IsInjective
  <2>3. IsFiniteSet(0..(n - 1)) /\ Cardinality(0..(n - 1)) = n
    BY FS_Interval
  <2>4. rank \in Surjection(S, 0..(n - 1))
    BY <1>1, <2>2, <2>3, FS_Injection
  <2>5. i - 1 \in 0..(n - 1)
    OBVIOUS
  <2> QED BY <2>4, <2>5 DEF Surjection
<1>7. ASSUME NEW i \in 1..n PROVE Ascending(S)[i] \in S /\ rank[Ascending(S)[i]] = i - 1
  <2>1. Ascending(S)[i] = CHOOSE k \in S : Cardinality({j \in S : j < k}) = i - 1
    BY <1>1 DEF Ascending
  <2>2. PICK k \in S : Cardinality({j \in S : j < k}) = i - 1
    BY <1>2, <1>6
  <2>3. /\ Ascending(S)[i] \in S
        /\ Cardinality({j \in S : j < Ascending(S)[i]}) = i - 1
    BY <2>1, <2>2
  <2> QED BY <1>2, <2>3
<1>8. Ascending(S) \in [1..n -> S]
  BY <1>1, <1>7 DEF Ascending
<1>9. ASSUME NEW k \in S PROVE \E i \in 1..n : Ascending(S)[i] = k
  <2>1. rank[k] \in 0..(n - 1)
    BY <1>3
  <2>2. PICK i \in 1..n : i - 1 = rank[k]
    BY <2>1
  <2> QED BY <1>5, <1>7, <2>2
<1> QED BY <1>1, <1>8, <1>9

\* Hops that are appended below hops that are there have depths of their own,
\* and change no other.
LEMMA DepthGrows ==
  ASSUME DepthOK, NEW n \in Nat, n = Len(hops), NEW m \in Nat, m = Len(hops'), n <= m,
         \A i \in 1..n : hops'[i] = hops[i] /\ hops[i].parent \in 0..(i - 1),
         \A i \in (n + 1)..m :
           hops'[i].parent \in 0..n /\ (hops'[i].parent # 0 => DepthOf[hops'[i].parent] < MaxHops)
  PROVE  /\ DepthOK' /\ \A i \in 0..n : DepthOf'[i] = DepthOf[i]
         /\ \A i \in (n + 1)..m :
              DepthOf'[i] = IF hops'[i].parent = 0 THEN 0 ELSE 1 + DepthOf[hops'[i].parent]
<1>1. PICK e : e = [i \in 0..m |->
                      IF i <= n THEN DepthOf[i]
                      ELSE IF hops'[i].parent = 0 THEN 0 ELSE 1 + DepthOf[hops'[i].parent]]
  OBVIOUS
<1>2. Labels(DepthOf) /\ DepthOf \in [0..n -> 0..MaxHops] /\ MaxHops \in Nat
  BY TraceConstants DEF DepthOK
<1>3. \A i \in 0..n : i \in 0..m /\ e[i] = DepthOf[i]
  BY <1>1
<1>4. ASSUME NEW i \in 0..m
      PROVE  e[i] = IF i = 0 \/ hops'[i].parent = 0 THEN 0 ELSE 1 + e[hops'[i].parent]
  <2>1. CASE i = 0
    BY <1>2, <1>3, <2>1 DEF Labels
  <2>2. CASE i \in 1..n
    <3>1. hops'[i] = hops[i] /\ hops[i].parent \in 0..(i - 1)
      BY <2>2
    <3>2. hops[i].parent \in 0..n
      BY <2>2, <3>1
    <3>3. DepthOf[i] = IF hops[i].parent = 0 THEN 0 ELSE 1 + DepthOf[hops[i].parent]
      BY <1>2, <2>2 DEF Labels
    <3> QED BY <1>3, <2>2, <3>1, <3>2, <3>3
  <2>3. CASE i \in (n + 1)..m
    <3>1. hops'[i].parent \in 0..n
      BY <2>3
    <3>2. ~(i <= n) /\ i # 0
      BY <2>3
    <3>3. e[i] = IF hops'[i].parent = 0 THEN 0 ELSE 1 + DepthOf[hops'[i].parent]
      BY <1>1, <3>2
    <3> QED BY <1>3, <3>1, <3>2, <3>3
  <2>4. i = 0 \/ i \in 1..n \/ i \in (n + 1)..m
    OBVIOUS
  <2> QED BY <2>1, <2>2, <2>3, <2>4
<1>5. Labels(e)'
  <2>1. e = [i \in 0..m |-> e[i]]
    BY <1>1
  <2> QED BY <1>4, <2>1 DEF Labels
<1>6. ASSUME NEW d, Labels(d)' PROVE d = e
  <2>1. d = [i \in 0..m |-> IF i = 0 \/ hops'[i].parent = 0 THEN 0 ELSE 1 + d[hops'[i].parent]]
    BY <1>6 DEF Labels
  <2>2. PICK r : r = [i \in 0..n |-> d[i]]
    OBVIOUS
  <2>3. ASSUME NEW i \in 0..n
        PROVE  r[i] = IF i = 0 \/ hops[i].parent = 0 THEN 0 ELSE 1 + r[hops[i].parent]
    <3>1. i \in 0..m /\ r[i] = d[i]
      BY <2>2
    <3>2. i # 0 => i \in 1..n
      OBVIOUS
    <3>3. i # 0 => hops'[i] = hops[i] /\ hops[i].parent \in 0..n
      BY <3>2
    <3>4. i # 0 => r[hops[i].parent] = d[hops[i].parent]
      BY <2>2, <3>3
    <3>5. d[i] = IF i = 0 \/ hops'[i].parent = 0 THEN 0 ELSE 1 + d[hops'[i].parent]
      BY <2>1, <3>1
    <3> QED BY <3>1, <3>3, <3>4, <3>5
  <2>4. Labels(r)
    <3>1. r = [i \in 0..n |-> r[i]]
      BY <2>2
    <3> QED BY <2>3, <3>1 DEF Labels
  <2>5. r = DepthOf
    BY <2>4 DEF DepthOK
  <2>6. ASSUME NEW i \in 0..m PROVE d[i] = e[i]
    <3>1. CASE i \in 0..n
      BY <1>3, <2>2, <2>5, <3>1
    <3>2. CASE i \notin 0..n
      <4>1. i \in (n + 1)..m /\ i # 0 /\ ~(i <= n)
        BY <3>2
      <4>2. hops'[i].parent \in 0..n
        BY <4>1
      <4>3. d[hops'[i].parent] = DepthOf[hops'[i].parent]
        BY <2>2, <2>5, <4>2
      <4> QED BY <1>1, <2>1, <4>1, <4>3
    <3> QED BY <3>1, <3>2
  <2>7. d = [i \in 0..m |-> d[i]] /\ e = [i \in 0..m |-> e[i]]
    BY <1>1, <2>1
  <2> QED BY <2>6, <2>7
<1>7. DepthOf' = e
  <2>1. DepthOf' = CHOOSE d : Labels(d)'
    BY Zenon DEF DepthOf, Labels
  <2> QED BY <1>5, <1>6, <2>1
<1>8. ASSUME NEW i \in 0..m PROVE e[i] \in 0..MaxHops
  <2>1. CASE i \in 0..n
    BY <1>2, <1>3, <2>1
  <2>2. CASE i \notin 0..n
    <3>1. i \in (n + 1)..m /\ ~(i <= n)
      BY <2>2
    <3>2. e[i] = IF hops'[i].parent = 0 THEN 0 ELSE 1 + DepthOf[hops'[i].parent]
      BY <1>1, <3>1
    <3>3. hops'[i].parent # 0 => /\ DepthOf[hops'[i].parent] \in 0..MaxHops
                                 /\ DepthOf[hops'[i].parent] < MaxHops
      BY <1>2, <3>1
    <3>4. 0 \in 0..MaxHops /\ \A x \in 0..MaxHops : x < MaxHops => 1 + x \in 0..MaxHops
      BY <1>2
    <3> QED BY <3>2, <3>3, <3>4
  <2> QED BY <2>1, <2>2
<1>9. e \in [0..m -> 0..MaxHops]
  <2>1. e = [i \in 0..m |-> e[i]]
    BY <1>1
  <2> QED BY <1>8, <2>1
<1>10. DepthOK'
  BY <1>5, <1>6, <1>7, <1>9 DEF DepthOK
<1>11. ASSUME NEW i \in (n + 1)..m
       PROVE  e[i] = IF hops'[i].parent = 0 THEN 0 ELSE 1 + DepthOf[hops'[i].parent]
  <2>1. i \in 0..m /\ ~(i <= n)
    OBVIOUS
  <2> QED BY <1>1, <2>1
<1> QED BY <1>3, <1>7, <1>10, <1>11

\* Hops that are appended below hops that are there, over edges of the question.
LEMMA HopsGrow ==
  ASSUME HopsOK, DepthOK, asked' = asked, hops' \in Seq(Hop),
         NEW n \in Nat, n = Len(hops), NEW m \in Nat, m = Len(hops'), n <= m, m <= MaxTotal,
         \A i \in 1..n : hops'[i] = hops[i],
         \A i \in (n + 1)..m :
           /\ hops'[i].chunk \in ChunkNo /\ hops'[i].parent \in 0..n
           /\ hops'[i].parent # 0 => /\ <<hops[hops'[i].parent].chunk, hops'[i].chunk>> \in asked.links
                                     /\ Allowed(hops'[i].chunk)
                                     /\ DepthOf[hops'[i].parent] < MaxHops,
         visited' = visited \cup {hops'[i].chunk : i \in (n + 1)..m}
  PROVE  /\ HopsOK' /\ DepthOK' /\ \A i \in 0..n : DepthOf'[i] = DepthOf[i]
         /\ \A i \in (n + 1)..m :
              DepthOf'[i] = IF hops'[i].parent = 0 THEN 0 ELSE 1 + DepthOf[hops'[i].parent]
<1>1. \A i \in 1..n : HopOK(i)
  BY DEF HopsOK
<1>2. \A i \in 1..n : hops'[i] = hops[i] /\ hops[i].parent \in 0..(i - 1)
  BY <1>1 DEF HopOK
<1>3. \A k : Allowed(k)' <=> Allowed(k)
  BY DEF Allowed
<1>4. ASSUME NEW i \in 1..m PROVE HopOK(i)'
  <2>1. CASE i \in 1..n
    <3>1. hops[i].parent # 0 => hops[i].parent \in 1..n
      BY <1>2, <2>1
    <3>2. hops[i].parent # 0 => hops'[hops[i].parent] = hops[hops[i].parent]
      BY <1>2, <3>1
    <3> QED BY <1>1, <1>2, <1>3, <2>1, <3>2 DEF HopOK
  <2>2. CASE i \notin 1..n
    <3>1. i \in (n + 1)..m
      BY <2>2
    <3>0. hops'[i].parent \in 0..n
      BY <3>1
    <3>2. hops'[i].parent \in 0..(i - 1)
      BY <3>0, <3>1
    <3>3. hops'[i].parent # 0 => hops'[i].parent \in 1..n
      BY <3>0
    <3>4. hops'[i].parent # 0 => hops'[hops'[i].parent] = hops[hops'[i].parent]
      BY <1>2, <3>3
    <3> QED BY <1>3, <3>1, <3>2, <3>4 DEF HopOK
  <2> QED BY <2>1, <2>2
<1>5. visited' = {hops'[i].chunk : i \in 1..m}
  <2>1. \A i \in 1..m : i \in 1..n \/ i \in (n + 1)..m
    OBVIOUS
  <2>2. \A i \in 1..n : i \in 1..m
    OBVIOUS
  <2>3. \A i \in (n + 1)..m : i \in 1..m
    OBVIOUS
  <2>4. visited = {hops[i].chunk : i \in 1..n}
    BY DEF HopsOK
  <2> QED BY <1>2, <2>1, <2>2, <2>3, <2>4
<1>6. HopsOK'
  BY <1>4, <1>5 DEF HopsOK
<1> QED BY <1>2, <1>6, DepthGrows

LEMMA AppendKeeps ==
  ASSUME NEW s \in Seq(Nat), NEW x \in Nat, NEW j \in 1..Len(s) PROVE Append(s, x)[j] = s[j]
BY AppendProperties

\* The call of followEdges for the hop that was appended: its depth is the
\* number of calls it is below.
LEMMA CallIs ==
  ASSUME NEW n \in Nat, Len(hops') = n + 1, stack \in Seq(Nat), StackOK,
         \A j \in 1..Len(stack) : stack[j] \in 1..n,
         stack' = Call(stack, Len(hops'), hops'),
         \A i \in 0..n : DepthOf'[i] = DepthOf[i], DepthOf'[n + 1] = Len(stack),
         stage' = "seeds"
  PROVE  /\ stack' \in Seq(Nat) /\ StackOK'
         /\ \A j \in 1..Len(stack) : j \in 1..Len(stack') /\ stack'[j] = stack[j]
         /\ (DepthOf'[n + 1] < MaxHops /\ ~Full') => \E j \in 1..Len(stack') : stack'[j] = n + 1
<1>1. PICK L \in Nat : L = Len(stack)
  OBVIOUS
<1>2. L <= MaxHops /\ MaxHops \in Nat /\ MaxTotal \in Nat
  BY <1>1, TraceConstants DEF StackOK
<1>3. ASSUME NEW j \in 1..L PROVE stack[j] \in 1..n /\ DepthOf'[stack[j]] = j - 1
  <2>1. stack[j] \in 1..n /\ DepthOf[stack[j]] = j - 1
    BY <1>1 DEF StackOK
  <2>2. stack[j] \in 0..n
    BY <2>1
  <2> QED BY <2>1, <2>2
<1>4. CASE L < MaxHops /\ n + 1 < MaxTotal
  <2>1. stack' = Append(stack, n + 1)
    BY <1>1, <1>4 DEF Call
  <2>2. stack' \in Seq(Nat) /\ Len(stack') = L + 1 /\ stack'[L + 1] = n + 1
    BY <1>1, <2>1, AppendProperties
  <2>3. \A j \in 1..L : j \in 1..(L + 1) /\ stack'[j] = stack[j]
    <3>1. ASSUME NEW j \in 1..Len(stack) PROVE stack'[j] = stack[j]
      <4>1. n + 1 \in Nat
        OBVIOUS
      <4> QED BY <2>1, <4>1, AppendKeeps
    <3>2. \A j \in 1..L : j \in 1..(L + 1)
      OBVIOUS
    <3> QED BY <1>1, <3>1, <3>2
  <2>4. ASSUME NEW j \in 1..(L + 1)
        PROVE  stack'[j] \in 1..(n + 1) /\ DepthOf'[stack'[j]] = j - 1
    <3>1. CASE j \in 1..L
      <4>1. stack'[j] = stack[j] /\ stack[j] \in 1..n /\ DepthOf'[stack[j]] = j - 1
        BY <1>3, <2>3, <3>1
      <4> QED BY <4>1
    <3>2. CASE j = L + 1
      BY <1>1, <2>2, <3>2
    <3> QED BY <3>1, <3>2
  <2>5. StackOK'
    BY <1>2, <1>4, <2>2, <2>4 DEF StackOK
  <2>6. L + 1 \in 1..(L + 1)
    OBVIOUS
  <2> QED BY <1>1, <2>2, <2>3, <2>5, <2>6
<1>5. CASE ~(L < MaxHops /\ n + 1 < MaxTotal)
  <2>1. stack' = stack
    BY <1>1, <1>5 DEF Call
  <2>2. StackOK'
    BY <1>1, <1>2, <1>3, <2>1 DEF StackOK
  <2>3. ~(DepthOf'[n + 1] < MaxHops /\ ~Full')
    BY <1>1, <1>2, <1>5 DEF Full
  <2> QED BY <1>1, <2>1, <2>2, <2>3
<1> QED BY <1>4, <1>5

\* A hop with as many targets as before, or fewer, is still followed.
LEMMA StillFollows ==
  ASSUME NEW i, Follows(i), DepthOf'[i] = DepthOf[i], asked' = asked, visited \subseteq visited',
         hops'[i] = hops[i], \A j \in 1..Len(stack) : j \in 1..Len(stack') /\ stack'[j] = stack[j]
  PROVE  Follows(i)'
<1>1. Targets(i)' \subseteq Targets(i)
  BY DEF Targets, Allowed
<1> QED BY <1>1 DEF Follows

\* A hop is appended and followed: a seed, or a target of the hop that the last
\* call is at.
LEMMA HopIsWalked ==
  ASSUME TraceInv, stage = "seeds", ~Full, NEW k \in ChunkNo, NEW parent,
         \/ parent = 0 /\ stack = <<>>
         \/ stack # <<>> /\ parent = stack[Len(stack)] /\ k \in Targets(parent),
         visited' = visited \cup {k}, hops' = AddHop(k, parent),
         stack' = Call(stack, Len(hops'), hops'), seedsLeft' \subseteq seedsLeft,
         UNCHANGED <<asked, typesLeft, stage>>
  PROVE  TraceInv'
<1>1. PICK n \in Nat : n = Len(hops)
  BY DEF TraceInv, HopsOK
<1>2. PICK L \in Nat : L = Len(stack)
  BY DEF TraceInv
<1>3. /\ hops \in Seq(Hop) /\ stack \in Seq(Nat) /\ HopsOK /\ DepthOK /\ StackOK
      /\ MaxTotal \in Nat /\ MaxHops \in Nat /\ n < MaxTotal /\ L <= MaxHops
  BY <1>1, <1>2, TraceConstants DEF TraceInv, HopsOK, StackOK, Full
<1>4. /\ parent = 0 /\ L = 0
      \/ /\ parent \in 1..n /\ DepthOf[parent] = L - 1 /\ L \in Nat \ {0}
         /\ <<hops[parent].chunk, k>> \in asked.links /\ Allowed(k)
  <2>1. CASE stack = <<>>
    BY <1>2, <2>1
  <2>2. CASE stack # <<>>
    <3>1. L \in Nat \ {0}
      BY <1>2, <1>3, <2>2, EmptySeq
    <3>2. L \in 1..L
      BY <3>1
    <3>3. parent = stack[L] /\ parent \in 1..n /\ DepthOf[parent] = L - 1
      BY <1>1, <1>2, <1>3, <2>2, <3>2 DEF StackOK
    <3> QED BY <2>2, <3>1, <3>3 DEF Targets
  <2> QED BY <2>1, <2>2
<1>5. parent \in 0..n /\ parent \in Nat /\ k \in Nat /\ [chunk |-> k, parent |-> parent] \in Hop
  BY <1>4 DEF ChunkNo, Hop
<1>6. /\ hops' \in Seq(Hop) /\ Len(hops') = n + 1
      /\ hops'[n + 1] = [chunk |-> k, parent |-> parent]
  BY <1>1, <1>3, <1>5, AppendProperties DEF AddHop
<1>7. ASSUME NEW i \in 1..n PROVE hops'[i] = hops[i]
  BY <1>1, <1>3, <1>5, AppendProperties DEF AddHop
<1>8. \A i \in (n + 1)..(n + 1) : i = n + 1
  OBVIOUS
<1>9. n + 1 \in (n + 1)..(n + 1) /\ n + 1 \in Nat /\ n <= n + 1 /\ n + 1 <= MaxTotal
  BY <1>3
<1>10. parent # 0 => DepthOf[parent] < MaxHops
  BY <1>3, <1>4
<1>11. /\ HopsOK' /\ DepthOK' /\ \A i \in 0..n : DepthOf'[i] = DepthOf[i]
       /\ \A i \in (n + 1)..(n + 1) :
            DepthOf'[i] = IF hops'[i].parent = 0 THEN 0 ELSE 1 + DepthOf[hops'[i].parent]
  <2>1. \A i \in (n + 1)..(n + 1) : hops'[i].chunk = k /\ hops'[i].parent = parent
    BY <1>6, <1>8
  <2>2. \A i \in (n + 1)..(n + 1) :
          /\ hops'[i].chunk \in ChunkNo /\ hops'[i].parent \in 0..n
          /\ hops'[i].parent # 0 => /\ <<hops[hops'[i].parent].chunk, hops'[i].chunk>> \in asked.links
                                    /\ Allowed(hops'[i].chunk)
                                    /\ DepthOf[hops'[i].parent] < MaxHops
    BY <1>4, <1>5, <1>10, <2>1
  <2>3. visited' = visited \cup {hops'[i].chunk : i \in (n + 1)..(n + 1)}
    BY <1>9, <2>1
  <2> QED BY <1>1, <1>3, <1>6, <1>7, <1>9, <2>2, <2>3, HopsGrow
<1>12. DepthOf'[n + 1] = L
  <2>1. DepthOf'[n + 1] = IF parent = 0 THEN 0 ELSE 1 + DepthOf[parent]
    BY <1>6, <1>9, <1>11
  <2> QED BY <1>4, <2>1
<1>13. \A j \in 1..L : stack[j] \in 1..n
  BY <1>1, <1>2, <1>3 DEF StackOK
<1>14. /\ stack' \in Seq(Nat) /\ StackOK'
       /\ \A j \in 1..Len(stack) : j \in 1..Len(stack') /\ stack'[j] = stack[j]
       /\ (DepthOf'[n + 1] < MaxHops /\ ~Full') => \E j \in 1..Len(stack') : stack'[j] = n + 1
  BY <1>2, <1>3, <1>6, <1>11, <1>12, <1>13, CallIs
<1>15. Walked'
  <2> SUFFICES ASSUME ~Full', NEW i \in 1..(n + 1) PROVE Follows(i)'
    BY <1>6 DEF Walked
  <2>1. CASE i \in 1..n
    <3>1. Follows(i)
      BY <1>1, <2>1 DEF TraceInv, Walked
    <3>2. DepthOf'[i] = DepthOf[i] /\ hops'[i] = hops[i]
      BY <1>7, <1>11, <2>1
    <3> QED BY <1>14, <3>1, <3>2, StillFollows
  <2>2. CASE i = n + 1
    BY <1>14, <2>2 DEF Follows
  <2> QED BY <2>1, <2>2
<1>16. AskedOK' /\ LeftOK'
  BY DEF TraceInv, AskedOK, LeftOK, TypesIn
<1> QED BY <1>11, <1>14, <1>15, <1>16 DEF TraceInv

LEMMA TakeSeedKeeps == ASSUME TraceInv, TakeSeed PROVE TraceInv'
<1>1. PICK s \in seedsLeft :
        /\ seedsLeft' = seedsLeft \ {s}
        /\ IF s \in visited \/ ~Allowed(s)
           THEN UNCHANGED <<hops, visited, stack>>
           ELSE /\ visited' = visited \cup {s}
                /\ hops' = AddHop(s, 0)
                /\ stack' = Call(<<>>, Len(hops'), hops')
  BY DEF TakeSeed
<1>2. /\ stage = "seeds" /\ stack = <<>> /\ ~Full /\ s \in ChunkNo
      /\ UNCHANGED <<asked, typesLeft, stage>>
  BY DEF TakeSeed, TraceInv, LeftOK
<1>3. CASE s \in visited \/ ~Allowed(s)
  <2>1. UNCHANGED <<hops, visited, stack, asked, typesLeft, stage>> /\ seedsLeft' \subseteq seedsLeft
    BY <1>1, <1>2, <1>3
  <2>2. AskedOK' /\ HopsOK' /\ LeftOK' /\ stack' \in Seq(Nat)
    BY <2>1 DEF TraceInv, AskedOK, HopsOK, HopOK, LeftOK, TypesIn, Allowed
  <2>3. DepthOf' = DepthOf
    BY <2>1 DEF DepthOf
  <2>4. StackOK' /\ DepthOK'
    BY <2>1, <2>3 DEF TraceInv, StackOK, DepthOK, Labels
  <2>5. Walked'
    BY <2>1, <2>3 DEF TraceInv, Walked, Follows, Targets, Allowed, Full, TypesIn
  <2> QED BY <2>2, <2>4, <2>5 DEF TraceInv
<1>4. CASE ~(s \in visited \/ ~Allowed(s))
  <2>1. /\ visited' = visited \cup {s} /\ hops' = AddHop(s, 0)
        /\ stack' = Call(stack, Len(hops'), hops') /\ seedsLeft' \subseteq seedsLeft
    BY <1>1, <1>2, <1>4
  <2> QED BY <1>2, <2>1, HopIsWalked
<1> QED BY <1>3, <1>4

LEMMA FollowEdgeKeeps == ASSUME TraceInv, FollowEdge PROVE TraceInv'
<1>1. PICK k \in Targets(stack[Len(stack)]) :
        /\ visited' = visited \cup {k}
        /\ hops' = AddHop(k, stack[Len(stack)])
        /\ stack' = Call(stack, Len(hops'), hops')
  BY DEF FollowEdge
<1>2. /\ stack # <<>> /\ ~Full /\ UNCHANGED <<asked, seedsLeft, typesLeft, stage>>
      /\ k \in ChunkNo
  BY DEF FollowEdge, Targets
<1>3. stage = "seeds"
  BY <1>2 DEF TraceInv, StackOK
<1>4. PICK parent : parent = stack[Len(stack)]
  OBVIOUS
<1> QED BY <1>1, <1>2, <1>3, <1>4, HopIsWalked

\* Nothing is found by a step that only ends a call or a stage.
LEMMA HopsRest ==
  ASSUME TraceInv, UNCHANGED <<asked, hops, visited, seedsLeft, typesLeft>>,
         stage' \in {"seeds", "fallback", "done"}
  PROVE  AskedOK' /\ HopsOK' /\ LeftOK' /\ DepthOf' = DepthOf /\ DepthOK'
<1>1. AskedOK' /\ HopsOK' /\ LeftOK'
  BY DEF TraceInv, AskedOK, HopsOK, HopOK, LeftOK, TypesIn, Allowed
<1>2. DepthOf' = DepthOf
  BY DEF DepthOf
<1>3. DepthOK'
  BY <1>2 DEF TraceInv, DepthOK, Labels
<1> QED BY <1>1, <1>2, <1>3

\* followEdges returns with every target of its hop visited, or out of hops.
LEMMA ReturnKeeps == ASSUME TraceInv, Return PROVE TraceInv'
<1>1. PICK L \in Nat : L = Len(stack)
  BY DEF TraceInv
<1>2. /\ stack # <<>> /\ stack \in Seq(Nat) /\ stack' = SubSeq(stack, 1, L - 1)
      /\ Full \/ Targets(stack[L]) = {}
      /\ UNCHANGED <<asked, hops, visited, seedsLeft, typesLeft, stage>>
  BY <1>1 DEF Return, TraceInv
<1>3. L \in Nat \ {0}
  BY <1>1, <1>2, EmptySeq
<1>4. \A i \in 1..(L - 1) : i \in 1..L
  OBVIOUS
<1>5. \A i \in 1..(L - 1) : stack[i] \in Nat
  BY <1>1, <1>2, <1>4, ElementOfSeq
<1>6. /\ stack' \in Seq(Nat) /\ Len(stack') = IF 1 <= L - 1 THEN (L - 1) - 1 + 1 ELSE 0
      /\ \A i \in 1..((L - 1) - 1 + 1) : stack'[i] = stack[1 + i - 1]
  BY <1>2, <1>3, <1>5, SubSeqProperties
<1>7. Len(stack') = L - 1
  BY <1>3, <1>6
<1>8. ASSUME NEW i \in 1..(L - 1) PROVE stack'[i] = stack[i]
  <2>1. i \in 1..((L - 1) - 1 + 1) /\ 1 + i - 1 = i
    BY <1>3
  <2> QED BY <1>6, <2>1
<1>9. AskedOK' /\ HopsOK' /\ LeftOK' /\ DepthOf' = DepthOf /\ DepthOK'
  <2>1. stage' \in {"seeds", "fallback", "done"}
    BY <1>2 DEF TraceInv, LeftOK
  <2> QED BY <1>2, <2>1, HopsRest
<1>10. stage = "seeds" /\ L <= MaxHops /\ MaxHops \in Nat
  BY <1>1, <1>2, TraceConstants DEF TraceInv, StackOK
<1>11. StackOK'
  <2>1. ASSUME NEW j \in 1..(L - 1) PROVE stack'[j] \in 1..Len(hops) /\ DepthOf[stack'[j]] = j - 1
    BY <1>1, <1>4, <1>8 DEF TraceInv, StackOK
  <2>2. L - 1 <= MaxHops
    BY <1>10
  <2> QED BY <1>2, <1>7, <1>9, <1>10, <2>1, <2>2 DEF StackOK
<1>12. Walked'
  <2> SUFFICES ASSUME ~Full', NEW i \in 1..Len(hops) PROVE Follows(i)'
    BY <1>2 DEF Walked
  <2>1. ~Full
    BY <1>2 DEF Full
  <2>2. Targets(i)' = Targets(i)
    BY <1>2 DEF Targets, Allowed
  <2>3. Follows(i)
    BY <1>10, <2>1 DEF TraceInv, Walked
  <2>4. ASSUME NEW j \in 1..L, stack[j] = i, Targets(i) # {}
        PROVE  j \in 1..(L - 1) /\ stack'[j] = i
    <3>1. j # L
      BY <1>2, <2>1, <2>4
    <3>2. j \in 1..(L - 1)
      BY <3>1
    <3> QED BY <1>8, <2>4, <3>2
  <2> QED BY <1>1, <1>7, <1>9, <2>2, <2>3, <2>4 DEF Follows
<1> QED BY <1>6, <1>9, <1>11, <1>12 DEF TraceInv

\* The stages end with no call left.
LEMMA StageEnds == ASSUME TraceInv, EndSeeds \/ EndTrace PROVE TraceInv'
<1>1. /\ UNCHANGED <<asked, hops, visited, stack, seedsLeft, typesLeft>>
      /\ stage' \in {"fallback", "done"} /\ stack = <<>>
  BY DEF EndSeeds, EndTrace, TraceInv, StackOK
<1>2. AskedOK' /\ HopsOK' /\ LeftOK' /\ DepthOf' = DepthOf /\ DepthOK'
  BY <1>1, HopsRest
<1>3. StackOK' /\ stack' \in Seq(Nat)
  BY <1>1, <1>2 DEF TraceInv, StackOK
<1>4. Walked'
  <2>1. CASE EndTrace
    BY <2>1 DEF EndTrace, Walked
  <2>2. CASE EndSeeds
    <3>1. stage = "seeds"
      BY <2>2 DEF EndSeeds
    <3> QED BY <1>1, <1>2, <3>1 DEF TraceInv, Walked, Follows, Targets, Allowed, Full
  <2> QED BY <2>1, <2>2
<1> QED BY <1>2, <1>3, <1>4 DEF TraceInv

\* The fallback appends roots, and has looked at a type of the question.
LEMMA FillTypeKeeps == ASSUME TraceInv, FillType PROVE TraceInv'
<1>1. PICK ty \in typesLeft :
        /\ typesLeft' = typesLeft \ {ty}
        /\ IF Cardinality(HopsOf(ty)) >= MaxPerSource
           THEN UNCHANGED <<hops, visited>>
           ELSE \E S \in Take(ty) :
                  /\ visited' = visited \cup S
                  /\ hops' = hops \o [i \in 1..Cardinality(S) |->
                                        [chunk |-> Ascending(S)[i], parent |-> 0]]
  BY DEF FillType
<1>2. stage = "fallback" /\ UNCHANGED <<asked, stack, seedsLeft, stage>>
  BY DEF FillType
<1>3. stack = <<>> /\ stack \in Seq(Nat) /\ HopsOK /\ DepthOK /\ AskedOK /\ LeftOK
  BY <1>2 DEF TraceInv, StackOK
<1>4. AskedOK' /\ LeftOK' /\ ty \in TypesIn' /\ TypesIn' = TypesIn
  BY <1>1, <1>2, <1>3 DEF AskedOK, LeftOK, TypesIn
<1>5. HopsOK' /\ DepthOK'
  <2>1. CASE UNCHANGED <<hops, visited>>
    <3>1. DepthOf' = DepthOf
      BY <2>1 DEF DepthOf
    <3> QED BY <1>2, <1>3, <2>1, <3>1 DEF HopsOK, HopOK, DepthOK, Labels, Allowed
  <2>2. ASSUME NEW S \in Take(ty), visited' = visited \cup S,
               hops' = hops \o [i \in 1..Cardinality(S) |->
                                  [chunk |-> Ascending(S)[i], parent |-> 0]]
        PROVE  HopsOK' /\ DepthOK'
    <3>1. S \subseteq ChunkNo /\ Len(hops) + Cardinality(S) <= MaxTotal
      BY DEF Take, Window
    <3>2. IsFiniteSet(ChunkNo) /\ S \in SUBSET Nat
      BY <3>1, TraceConstants, FS_Interval DEF ChunkNo
    <3>3. IsFiniteSet(S) /\ Cardinality(S) \in Nat
      BY <3>1, <3>2, FS_Subset, FS_CardinalityType
    <3>4. PICK c \in Nat : c = Cardinality(S)
      BY <3>3
    <3>5. PICK n \in Nat : n = Len(hops)
      BY <1>3 DEF HopsOK
    <3>6. PICK asc \in [1..c -> S] : asc = Ascending(S) /\ \A k \in S : \E i \in 1..c : asc[i] = k
      BY <3>2, <3>3, <3>4, AscendingIs
    <3>7. PICK new : new = [i \in 1..c |-> [chunk |-> asc[i], parent |-> 0]]
      OBVIOUS
    <3>8. ASSUME NEW i \in 1..c
          PROVE  new[i].chunk = asc[i] /\ new[i].parent = 0 /\ new[i] \in Hop /\ asc[i] \in S
      BY <3>2, <3>6, <3>7 DEF Hop
    <3>9. new \in Seq(Hop) /\ Len(new) = c
      <4>1. new \in [1..c -> Hop]
        BY <3>7, <3>8
      <4> QED BY <4>1, SeqDef, LenProperties
    <3>10. hops' = hops \o new
      BY <2>2, <3>4, <3>6, <3>7
    <3>11. hops \in Seq(Hop)
      BY <1>3 DEF HopsOK
    <3>12. /\ hops' \in Seq(Hop) /\ Len(hops') = n + c
           /\ \A i \in 1..(n + c) : hops'[i] = IF i <= n THEN hops[i] ELSE new[i - n]
      BY <3>5, <3>9, <3>10, <3>11, ConcatProperties
    <3>13. ASSUME NEW i \in 1..n PROVE hops'[i] = hops[i]
      <4>1. i \in 1..(n + c) /\ i <= n
        OBVIOUS
      <4> QED BY <3>12, <4>1
    <3>14. ASSUME NEW i \in (n + 1)..(n + c)
           PROVE  hops'[i].chunk = asc[i - n] /\ hops'[i].parent = 0 /\ i - n \in 1..c
      <4>1. i \in 1..(n + c) /\ ~(i <= n) /\ i - n \in 1..c
        OBVIOUS
      <4> QED BY <3>8, <3>12, <4>1
    <3>15. visited' = visited \cup {hops'[i].chunk : i \in (n + 1)..(n + c)}
      <4>1. ASSUME NEW k \in S PROVE \E i \in (n + 1)..(n + c) : hops'[i].chunk = k
        <5>1. PICK j \in 1..c : asc[j] = k
          BY <3>6
        <5>2. n + j \in (n + 1)..(n + c) /\ (n + j) - n = j
          OBVIOUS
        <5>3. hops'[n + j].chunk = k
          BY <3>14, <5>1, <5>2
        <5> QED BY <5>2, <5>3
      <4>2. \A i \in (n + 1)..(n + c) : hops'[i].chunk \in S
        BY <3>6, <3>14
      <4> QED BY <2>2, <4>1, <4>2
    <3>16. \A i \in (n + 1)..(n + c) :
             hops'[i].chunk \in ChunkNo /\ hops'[i].parent = 0 /\ hops'[i].parent \in 0..n
      BY <3>1, <3>6, <3>14
    <3>17. n + c \in Nat /\ n <= n + c /\ n + c <= MaxTotal
      BY <3>1, <3>4, <3>5
    <3>18. asked' = asked
      BY <1>2
    <3> QED BY <1>3, <3>5, <3>12, <3>13, <3>15, <3>16, <3>17, <3>18, HopsGrow
  <2> QED BY <1>1, <2>1, <2>2
<1>6. StackOK'
  <2>1. Len(stack') = 0 /\ MaxHops \in Nat
    BY <1>2, <1>3, EmptySeq, TraceConstants
  <2> QED BY <1>2, <1>3, <2>1 DEF StackOK
<1>7. Walked'
  BY <1>1, <1>2, <1>4 DEF Walked
<1> QED BY <1>2, <1>3, <1>4, <1>5, <1>6, <1>7 DEF TraceInv

LEMMA TraceInitially == TraceInit => TraceInv
<1> SUFFICES ASSUME TraceInit PROVE TraceInv
  OBVIOUS
<1>1. /\ asked \in [links : SUBSET (ChunkNo \X ChunkNo), typeOf : [ChunkNo -> SourceType],
                    allowed : SUBSET SourceType, near : ChunkNo]
      /\ hops = <<>> /\ visited = {} /\ stack = <<>>
      /\ seedsLeft \subseteq 1..asked.near /\ typesLeft = TypesIn /\ stage = "seeds"
  BY DEF TraceInit
<1>2. AskedOK
  BY <1>1 DEF AskedOK
<1>3. LeftOK
  <2>1. asked.near \in 1..Chunks /\ Chunks \in Nat
    BY <1>1, TraceConstants DEF ChunkNo
  <2>2. \A i \in 1..asked.near : i \in ChunkNo
    BY <2>1 DEF ChunkNo
  <2> QED BY <1>1, <2>2 DEF LeftOK
<1>4. Len(hops) = 0 /\ Len(stack) = 0 /\ hops \in Seq(Hop) /\ stack \in Seq(Nat)
  BY <1>1, EmptySeq
<1>5. MaxTotal \in Nat /\ MaxHops \in Nat
  BY TraceConstants
<1>6. \A i : i \notin 1..0
  OBVIOUS
<1>7. HopsOK
  <2>1. 0 <= MaxTotal
    BY <1>5
  <2> QED BY <1>1, <1>4, <1>6, <2>1 DEF HopsOK
<1>8. DepthOK
  <2>1. PICK e : e = [i \in 0..0 |-> 0]
    OBVIOUS
  <2>2. \A i \in 0..0 : i = 0
    OBVIOUS
  <2>3. ASSUME NEW d PROVE Labels(d) <=> d = e
    <3>1. [i \in 0..0 |-> IF i = 0 \/ hops[i].parent = 0 THEN 0 ELSE 1 + d[hops[i].parent]] = e
      BY <2>1, <2>2
    <3> QED BY <1>4, <3>1 DEF Labels
  <2>4. DepthOf = CHOOSE d : Labels(d)
    BY Zenon DEF DepthOf, Labels
  <2>5. DepthOf = e
    BY <2>3, <2>4
  <2>6. e \in [0..0 -> 0..MaxHops]
    BY <1>5, <2>1
  <2> QED BY <1>4, <2>3, <2>5, <2>6 DEF DepthOK
<1>9. StackOK
  BY <1>1, <1>4, <1>5, <1>6 DEF StackOK
<1>10. Walked
  BY <1>4, <1>6 DEF Walked
<1> QED BY <1>2, <1>3, <1>4, <1>7, <1>8, <1>9, <1>10 DEF TraceInv

LEMMA TraceStays == TraceInv /\ [TraceNext]_traceVars => TraceInv'
<1> SUFFICES ASSUME TraceInv, [TraceNext]_traceVars PROVE TraceInv'
  OBVIOUS
<1>1. CASE UNCHANGED traceVars
  <2>1. UNCHANGED <<asked, hops, visited, stack, seedsLeft, typesLeft, stage>>
    BY <1>1 DEF traceVars
  <2>2. stage' \in {"seeds", "fallback", "done"}
    BY <2>1 DEF TraceInv, LeftOK
  <2>3. AskedOK' /\ HopsOK' /\ LeftOK' /\ DepthOf' = DepthOf /\ DepthOK'
    BY <2>1, <2>2, HopsRest
  <2>4. StackOK' /\ stack' \in Seq(Nat)
    BY <2>1, <2>3 DEF TraceInv, StackOK
  <2>5. Walked'
    BY <2>1, <2>3 DEF TraceInv, Walked, Follows, Targets, Allowed, Full, TypesIn
  <2> QED BY <2>3, <2>4, <2>5 DEF TraceInv
<1> QED BY <1>1, TakeSeedKeeps, FollowEdgeKeeps, ReturnKeeps, StageEnds, FillTypeKeeps
        DEF TraceNext

LEMMA TraceInvariance == TraceSpec => []TraceInv
BY TraceInitially, TraceStays, PTL DEF TraceSpec

\* A trace keeps its types, and finds no more than its budget of hops: a parent
\* index is that of an earlier hop, and the visited set is the chunks of the hops.
THEOREM TraceTypes == TraceSpec => []TraceTypeOK
<1>1. TraceInv => TraceTypeOK
  <2> SUFFICES ASSUME TraceInv PROVE TraceTypeOK
    OBVIOUS
  <2>1. DOMAIN hops = 1..Len(hops) /\ DOMAIN stack = 1..Len(stack)
    BY LenProperties DEF TraceInv, HopsOK
  <2>2. typesLeft \subseteq SourceType
    BY DEF TraceInv, AskedOK, LeftOK, TypesIn
  <2>3. \A i \in DOMAIN hops : hops[i].chunk \in ChunkNo /\ hops[i].parent \in 0..(i - 1)
    BY <2>1 DEF TraceInv, HopsOK, HopOK
  <2>4. \A i \in DOMAIN stack : stack[i] \in DOMAIN hops
    BY <2>1 DEF TraceInv, StackOK
  <2>5. visited = {hops[i].chunk : i \in DOMAIN hops} /\ Len(hops) <= MaxTotal
    BY <2>1 DEF TraceInv, HopsOK
  <2> QED BY <2>2, <2>3, <2>4, <2>5 DEF TraceTypeOK, TraceInv, AskedOK, LeftOK
<1> QED BY <1>1, TraceInvariance, PTL

\* The lineage chains of a trace are walks along the edges: whatever the seeds,
\* the limits and the order of the edges, a hop with a parent was linked from it,
\* has an allowed type, and is at most maxHops below its seed.
THEOREM LineagesAreWalks == TraceSpec => []LineageIsAWalk
<1>1. TraceInv => LineageIsAWalk
  <2> SUFFICES ASSUME TraceInv, NEW i \in DOMAIN hops, hops[i].parent # 0
               PROVE  /\ <<hops[hops[i].parent].chunk, hops[i].chunk>> \in asked.links
                      /\ DepthOf[i] <= MaxHops
                      /\ Allowed(hops[i].chunk)
    BY DEF LineageIsAWalk
  <2>1. i \in 1..Len(hops) /\ Len(hops) \in Nat
    BY LenProperties DEF TraceInv, HopsOK
  <2>2. HopOK(i)
    BY <2>1 DEF TraceInv, HopsOK
  <2>3. i \in 0..Len(hops) /\ MaxHops \in Nat
    BY <2>1, TraceConstants
  <2>4. DepthOf[i] \in 0..MaxHops
    BY <2>3 DEF TraceInv, DepthOK
  <2>5. DepthOf[i] <= MaxHops
    BY <2>3, <2>4
  <2> QED BY <2>2, <2>5 DEF HopOK
<1> QED BY <1>1, TraceInvariance, PTL

\* The walk leaves nothing out: unless it ran out of hops, every allowed target of
\* a hop less than maxHops deep is a hop when the fallback starts.
THEOREM WalksAreComplete == TraceSpec => []WalkIsComplete
<1>1. TraceInv => WalkIsComplete
  <2> SUFFICES ASSUME TraceInv, stage = "fallback", typesLeft = TypesIn, ~Full,
                      NEW i \in DOMAIN hops, DepthOf[i] < MaxHops
               PROVE  Targets(i) = {}
    BY DEF WalkIsComplete
  <2>1. i \in 1..Len(hops)
    BY LenProperties DEF TraceInv, HopsOK
  <2>2. Follows(i)
    BY <2>1 DEF TraceInv, Walked
  <2>3. stack = <<>>
    BY DEF TraceInv, StackOK
  <2>4. \A j : j \notin 1..Len(stack)
    BY <2>3, EmptySeq
  <2> QED BY <2>2, <2>4 DEF Follows
<1> QED BY <1>1, TraceInvariance, PTL

=============================================================================
