-------------------------------- MODULE Trace --------------------------------
(***************************************************************************)
(* trace(): from the seeds of a vector search, a depth-first walk along the *)
(* edges under a budget of hops, then a semantic fallback for the source   *)
(* types that came off badly.                                              *)
(*                                                                         *)
(* Chunks are numbered by their similarity to the query, the nearest first, *)
(* and the first `near` of them reach minScore.  Boosts, the diversity rule *)
(* and the reranker drop and reorder seeds, so any seeds come in any order; *)
(* the order of edges is that of Map insertions and left open as well.     *)
(* `links` is the edge index with its targets resolved: a relation that    *)
(* need not be symmetric, as a reverse edge is found under the raw target. *)
(***************************************************************************)
EXTENDS Naturals, FiniteSets
LOCAL INSTANCE Sequences

CONSTANTS
  Chunks,        \* how many chunks the collection has
  SourceType,
  MaxTotal, MaxHops, MaxPerSource,
  MaxLinks       \* bound: pairs of linked chunks

ASSUME TraceConstants ==
  {Chunks, MaxHops, MaxPerSource, MaxLinks} \subseteq Nat /\ MaxTotal \in Nat \ {0}

ChunkNo == 1..Chunks

VARIABLES
  asked,     \* the collection and the options of the call
  hops,      \* the hops found: chunk and index of the parent hop, 0 for none
  visited,
  stack,     \* calls of followEdges: the index of the hop each one is at
  seedsLeft,
  typesLeft, \* source types the fallback has yet to look at
  stage      \* "seeds", "fallback" or "done"

traceVars == <<asked, hops, visited, stack, seedsLeft, typesLeft, stage>>

TypesIn == {asked.typeOf[k] : k \in ChunkNo}
Allowed(k) == asked.typeOf[k] \in asked.allowed
HopsOf(ty) == {i \in DOMAIN hops : asked.typeOf[hops[i].chunk] = ty}
Full == Len(hops) >= MaxTotal

TraceTypeOK ==
  /\ asked.links \subseteq ChunkNo \X ChunkNo
  /\ asked.typeOf \in [ChunkNo -> SourceType] /\ asked.allowed \subseteq SourceType
  /\ \A i \in DOMAIN hops : hops[i].chunk \in ChunkNo /\ hops[i].parent \in 0..(i - 1)
  /\ Len(hops) <= MaxTotal
  /\ visited = {hops[i].chunk : i \in DOMAIN hops}
  /\ \A i \in DOMAIN stack : stack[i] \in DOMAIN hops
  /\ seedsLeft \subseteq ChunkNo /\ typesLeft \subseteq SourceType
  /\ stage \in {"seeds", "fallback", "done"}

TraceInit ==
  /\ asked \in [links : {L \in SUBSET {p \in ChunkNo \X ChunkNo : p[1] # p[2]} :
                           Cardinality(L) <= MaxLinks},
                typeOf : [ChunkNo -> SourceType],
                allowed : (SUBSET SourceType) \ {{}},
                near : ChunkNo]
  /\ hops = <<>> /\ visited = {} /\ stack = <<>>
  /\ seedsLeft \in {S \in SUBSET (1..asked.near) : Cardinality(S) <= 2 * MaxTotal}
  /\ typesLeft = TypesIn
  /\ stage = "seeds"

\* followEdges returns at once if it is too deep or enough was found.
Call(st, h, found) == IF Len(st) < MaxHops /\ Len(found) < MaxTotal THEN Append(st, h) ELSE st

\* Mutant: a hop remembers the seed it came from instead of its parent.
AddToSeed(k, parent) == Append(hops, [chunk |-> k, parent |-> IF stack = <<>> THEN 0 ELSE stack[1]])
AddHop(k, parent) == Append(hops, [chunk |-> k, parent |-> parent])

\* A chunk that an edge reached already is not walked from again.
TakeSeed ==
  /\ stage = "seeds" /\ stack = <<>> /\ ~Full
  /\ \E s \in seedsLeft :
       /\ seedsLeft' = seedsLeft \ {s}
       /\ IF s \in visited \/ ~Allowed(s)
          THEN UNCHANGED <<hops, visited, stack>>
          ELSE /\ visited' = visited \cup {s}
               /\ hops' = AddHop(s, 0)
               /\ stack' = Call(<<>>, Len(hops'), hops')
  /\ UNCHANGED <<asked, typesLeft, stage>>

Targets(h) == {k \in ChunkNo \ visited : <<hops[h].chunk, k>> \in asked.links /\ Allowed(k)}

\* The recursion goes on from a target before the next one is looked at.
FollowEdge ==
  /\ stack # <<>> /\ ~Full
  /\ \E k \in Targets(stack[Len(stack)]) :
       /\ visited' = visited \cup {k}
       /\ hops' = AddHop(k, stack[Len(stack)])
       /\ stack' = Call(stack, Len(hops'), hops')
  /\ UNCHANGED <<asked, seedsLeft, typesLeft, stage>>

\* Mutant: followEdges returns after its first target.
ReturnEarly ==
  /\ stack # <<>>
  /\ Full \/ (\E i \in DOMAIN hops : hops[i].parent = stack[Len(stack)])
          \/ Targets(stack[Len(stack)]) = {}
  /\ stack' = SubSeq(stack, 1, Len(stack) - 1)
  /\ UNCHANGED <<asked, hops, visited, seedsLeft, typesLeft, stage>>
Return ==
  /\ stack # <<>>
  /\ Full \/ Targets(stack[Len(stack)]) = {}
  /\ stack' = SubSeq(stack, 1, Len(stack) - 1)
  /\ UNCHANGED <<asked, hops, visited, seedsLeft, typesLeft, stage>>

EndSeeds ==
  /\ stage = "seeds" /\ stack = <<>>
  /\ Full \/ seedsLeft = {}
  /\ stage' = "fallback"
  /\ UNCHANGED <<asked, hops, visited, stack, seedsLeft, typesLeft>>

\* The fallback searches as many candidates as it needs and has visited, of
\* whatever type, and takes those of its type.  It asks for no filter.
Window(ty) ==
  LET size == (MaxPerSource - Cardinality(HopsOf(ty))) + Cardinality(visited)
  IN {k \in ChunkNo \ visited : k <= size /\ k <= asked.near /\ asked.typeOf[k] = ty}
Take(ty) ==
  {S \in SUBSET Window(ty) :
     /\ \A k \in S, j \in Window(ty) : j < k => j \in S
     /\ \/ S = Window(ty)
        \/ Len(hops) + Cardinality(S) = MaxTotal
        \/ Cardinality(HopsOf(ty)) + Cardinality(S) = MaxPerSource
     /\ Len(hops) + Cardinality(S) <= MaxTotal
     /\ Cardinality(HopsOf(ty)) + Cardinality(S) <= MaxPerSource}
Ascending(S) == [i \in 1..Cardinality(S) |->
                   CHOOSE k \in S : Cardinality({j \in S : j < k}) = i - 1]

FillType ==
  /\ stage = "fallback" /\ ~Full
  /\ \E ty \in typesLeft :
       /\ typesLeft' = typesLeft \ {ty}
       /\ IF Cardinality(HopsOf(ty)) >= MaxPerSource
          THEN UNCHANGED <<hops, visited>>
          ELSE \E S \in Take(ty) :
                 /\ visited' = visited \cup S
                 /\ hops' = hops \o [i \in 1..Cardinality(S) |->
                                       [chunk |-> Ascending(S)[i], parent |-> 0]]
  /\ UNCHANGED <<asked, stack, seedsLeft, stage>>

EndTrace ==
  /\ stage = "fallback"
  /\ Full \/ typesLeft = {}
  /\ stage' = "done"
  /\ UNCHANGED <<asked, hops, visited, stack, seedsLeft, typesLeft>>

TraceNext == TakeSeed \/ FollowEdge \/ Return \/ EndSeeds \/ FillType \/ EndTrace
TraceSpec == TraceInit /\ [][TraceNext]_traceVars

---------------------------------------------------------------------------
\* buildLineageChains: the path from a root to a hop by parent indices.
DepthOf == LET d[i \in 0..Len(hops)] ==
                 IF i = 0 \/ hops[i].parent = 0 THEN 0 ELSE 1 + d[hops[i].parent]
           IN d

\* The tree the lineage chains are read from is the walk: every hop with a
\* parent was linked from it, is no deeper than maxHops below a seed, and has
\* a type the caller asked for.
LineageIsAWalk ==
  \A i \in DOMAIN hops : hops[i].parent # 0 =>
    /\ <<hops[hops[i].parent].chunk, hops[i].chunk>> \in asked.links
    /\ DepthOf[i] <= MaxHops
    /\ Allowed(hops[i].chunk)

\* The walk is complete within its budget: as long as it did not run out of
\* hops, whatever is linked from a hop less than maxHops deep and has an allowed
\* type is a hop too when the fallback starts.
WalkIsComplete ==
  stage = "fallback" /\ typesLeft = TypesIn /\ ~Full =>
    \A i \in DOMAIN hops : DepthOf[i] < MaxHops => Targets(i) = {}
=============================================================================
