---------------------------- MODULE MCLocalTools ----------------------------
(* The parts of the command line that share no state with one another.  A   *)
(* behaviour exercises one of them, the others rest at their initial state. *)
EXTENDS ManifestStore, CliIngest, Nightly, EdgeLayers, Trace, Publication, TLC

CONSTANTS d1, d2, s1, k1, k2, a, b, c, c1, c2, ty1

OneSource == (d1 :> s1) @@ (d2 :> s1)
TwoContexts == (a :> c1) @@ (b :> c1) @@ (c :> c2)
\* The terminals are the same in the ingest, edge and publication parts, and the chunks a
\* and b of one context bear the names of the two texts.
Symmetry == Permutations(Proc) \cup Permutations(Text)

\* Bound: edits and kills share MaxTime, no source is empty at first, and of two
\* commands that overlap one at most is a reingest or filters its documents.
IngestSmall ==
  /\ used.time + used.crashes <= MaxTime
  /\ \E p \in Proc : run[p].phase = "idle" \/ run[p].only = Doc

\* Bound: two full nights of two fires, or three fires and one night of theirs
\* that changes no file of the repository.
NightSmall == fire[MaxFires].at = "idle" \/ (nights <= 1 /\ checkout \cup dirty = {})

\* Bound: two edge commands with one extractor, or one with several, among two
\* events of ingests, reingests and kills, from a chunk of each context.
NeverRun(e) == /\ \A x \in Context : statusOf[e][x] = {}
               /\ \A t \in Shell : e \notin tool[t].rest \cup tool[t].ext
EdgeSmall ==
  /\ spent.changes + spent.kills <= 2
  /\ spent.commands <= 1 \/ \A e \in FailOpen : NeverRun(e)

\* Bound: of four chunks one is too far from the query; the nearest has the type
\* ty1, which is always allowed, the farthest another one.
NoQuestion == [links |-> {}, typeOf |-> [k \in ChunkNo |-> ty1], allowed |-> {ty1}, near |-> 1]
TraceAtRest ==
  /\ asked = NoQuestion /\ hops = <<>> /\ visited = {} /\ stack = <<>>
  /\ seedsLeft = {} /\ typesLeft = {} /\ stage = "done"
SomeTrace ==
  /\ TraceInit
  /\ asked.typeOf[1] = ty1 /\ asked.typeOf[Chunks] # ty1
  /\ asked.near = Chunks - 1 /\ ty1 \in asked.allowed

VARIABLE part

toolVars == <<part, vars, cliVars, nightVars, edgeVars, traceVars, pubVars>>

ToolInit ==
  /\ part \in {"store", "ingest", "night", "edges", "trace", "publish"}
  /\ Init /\ CliInit /\ NightInit
  /\ EdgeInit /\ PubInit
  /\ part # "night" => tried = {}
  /\ \A d \in Doc : upstream[d].texts # {} /\ (part # "ingest" => upstream[d].texts = Text)
  /\ edgeHead.chunks = IF part = "edges" THEN {a, c} ELSE ChunkId
  /\ IF part = "trace" THEN SomeTrace ELSE TraceAtRest

ToolNext ==
  \/ /\ part = "store"
     /\ Next /\ UNCHANGED <<part, cliVars, nightVars, edgeVars, traceVars, pubVars>>
  \/ /\ part = "ingest"
     /\ CliNext /\ IngestSmall' /\ UNCHANGED <<part, vars, nightVars, edgeVars, traceVars, pubVars>>
  \/ /\ part = "night"
     /\ NightNext /\ NightSmall' /\ UNCHANGED <<part, vars, cliVars, edgeVars, traceVars, pubVars>>
  \/ /\ part = "edges"
     /\ EdgeNext /\ EdgeSmall' /\ UNCHANGED <<part, vars, cliVars, nightVars, traceVars, pubVars>>
  \/ /\ part = "trace"
     /\ TraceNext /\ UNCHANGED <<part, vars, cliVars, nightVars, edgeVars, pubVars>>
  \/ /\ part = "publish"
     /\ PubNext /\ UNCHANGED <<part, vars, cliVars, nightVars, edgeVars, traceVars>>

ToolSpec == ToolInit /\ [][ToolNext]_toolVars

\* The part that is exercised keeps its types.
ToolTypeOK ==
  /\ part = "store" => TypeOK
  /\ part = "ingest" => CliTypeOK
  /\ part = "night" => NightTypeOK
  /\ part = "edges" => EdgeTypeOK
  /\ part = "trace" => TraceTypeOK
  /\ part = "publish" => PubTypeOK
=============================================================================
