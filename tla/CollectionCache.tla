--------------------------- MODULE CollectionCache ---------------------------
(***************************************************************************)
(* The web server's cache of one loaded collection (index.ts,              *)
(* getCollection): an entry is served unseen for a while after it was      *)
(* validated, then compared with the head; loads of one head are shared.   *)
(* Heads are numbered in the order they were put.  A load downloads every  *)
(* segment of its head, from the disk or from IPFS, and may fail.          *)
(***************************************************************************)
EXTENDS Naturals

CONSTANTS
  Request,      \* requests for the collection that can be open at once
  NoEntry,      \* nothing cached
  MaxHead,      \* bound: heads put
  MaxEvents     \* bound: loads that fail and evictions

ASSUME CacheConstants == {MaxHead, MaxEvents} \subseteq Nat

VARIABLES
  newest,       \* the head on disk, 0 for none
  cache,        \* collectionCache: the entry's head, its identity, its freshness
  inflight,     \* collectionInflight: the heads being loaded
  asked,        \* the requests
  loadsDone,    \* loads that finished, the identity of the next entry
  events        \* against MaxEvents

cacheVars == <<newest, cache, inflight, asked, loadsDone, events>>

Head == 0..MaxHead
CacheEntry == [head : Head, id : Nat, fresh : BOOLEAN]
Unasked == [phase |-> "idle", saw |-> NoEntry, since |-> 0, head |-> 0]

CacheTypeOK ==
  /\ newest \in Head
  /\ cache \in CacheEntry \cup {NoEntry}
  /\ inflight \subseteq Head
  /\ asked \in [Request -> [phase : {"idle", "read", "load", "join", "answered", "failed"},
                            saw : CacheEntry \cup {NoEntry}, since : Head, head : Head]]
  /\ {loadsDone, events} \subseteq Nat

CacheInit ==
  /\ newest = 0
  /\ cache = NoEntry
  /\ inflight = {}
  /\ asked = [r \in Request |-> Unasked]
  /\ loadsDone = 0
  /\ events = 0

\* A worker or a command puts the next head.
PutNext ==
  /\ newest < MaxHead
  /\ newest' = newest + 1
  /\ UNCHANGED <<cache, inflight, asked, loadsDone, events>>

\* FRESHNESS_TTL_MS have passed since the entry was validated.
GoesStale ==
  /\ cache # NoEntry /\ cache.fresh
  /\ cache' = [cache EXCEPT !.fresh = FALSE]
  /\ UNCHANGED <<newest, inflight, asked, loadsDone, events>>

\* The idle sweep drops the entry, or the Qdrant sweep deletes its index.
Evict ==
  /\ cache # NoEntry /\ events < MaxEvents
  /\ cache' = NoEntry
  /\ events' = events + 1
  /\ UNCHANGED <<newest, inflight, asked, loadsDone>>

Settle(r, p, h) == [asked EXCEPT ![r].phase = p, ![r].head = h, ![r].saw = NoEntry]

\* A request finds a fresh entry, or goes on to read the head.
AskCollection(r) ==
  /\ asked[r].phase \in {"idle", "answered", "failed"}
  /\ asked' = [asked EXCEPT ![r] =
       IF cache # NoEntry /\ cache.fresh
       THEN Unasked
       ELSE [Unasked EXCEPT !.phase = "read", !.saw = cache, !.since = newest]]
  /\ UNCHANGED <<newest, cache, inflight, loadsDone, events>>

\* The head is the one of the entry the request saw, which may have left the
\* cache since: it is marked validated and served.
Validate(r) ==
  LET saw == asked[r].saw IN
  /\ asked[r].phase = "read"
  /\ saw # NoEntry /\ saw.head = newest
  /\ cache' = IF cache # NoEntry /\ cache.id = saw.id
              THEN [cache EXCEPT !.fresh = TRUE] ELSE cache
  /\ asked' = Settle(r, "answered", saw.head)
  /\ UNCHANGED <<newest, inflight, loadsDone, events>>

\* Mutant: a load of the collection is joined whatever head it loads.
JoinsAny(h) == IF inflight = {} THEN {} ELSE {CHOOSE f \in inflight : TRUE}

\* The load in progress that a request for head h joins.
Joins(h) == inflight \cap {h}

\* The head has changed: the request joins a load of it or starts one.
ReadHead(r) ==
  LET saw == asked[r].saw IN
  /\ asked[r].phase = "read"
  /\ saw # NoEntry => saw.head # newest
  /\ \/ newest = 0 /\ asked' = Settle(r, "failed", 0) /\ UNCHANGED inflight
     \/ newest # 0 /\ Joins(newest) = {}
        /\ asked' = Settle(r, "load", newest)
        /\ inflight' = inflight \cup {newest}
     \/ newest # 0 /\ UNCHANGED inflight
        /\ \E f \in Joins(newest) : asked' = Settle(r, "join", f)
  /\ UNCHANGED <<newest, cache, loadsDone, events>>

\* Everybody who waits for the load of h hears how it ended.
Waiting(h) == {r \in Request : asked[r].phase \in {"load", "join"} /\ asked[r].head = h}
Tell(h, p) ==
  asked' = [r \in Request |-> IF r \in Waiting(h) THEN [asked[r] EXCEPT !.phase = p] ELSE asked[r]]

\* loadedAt is the time the load ends, so no entry is later than the one just
\* loaded and the guard of the write always holds.
Loaded(r) ==
  /\ asked[r].phase = "load"
  /\ cache' = [head |-> asked[r].head, id |-> loadsDone + 1, fresh |-> TRUE]
  /\ loadsDone' = loadsDone + 1
  /\ inflight' = inflight \ {asked[r].head}
  /\ Tell(asked[r].head, "answered")
  /\ UNCHANGED <<newest, events>>

\* Mutant: a load that fails stays registered.
LoadStuck(r) ==
  /\ asked[r].phase = "load" /\ events < MaxEvents
  /\ events' = events + 1
  /\ Tell(asked[r].head, "failed")
  /\ UNCHANGED <<newest, cache, inflight, loadsDone>>

LoadFails(r) ==
  /\ asked[r].phase = "load" /\ events < MaxEvents
  /\ events' = events + 1
  /\ inflight' = inflight \ {asked[r].head}
  /\ Tell(asked[r].head, "failed")
  /\ UNCHANGED <<newest, cache, loadsDone>>

CacheNext ==
  \/ PutNext \/ GoesStale \/ Evict
  \/ \E r \in Request :
       AskCollection(r) \/ Validate(r) \/ ReadHead(r) \/ Loaded(r) \/ LoadFails(r)

CacheSpec == CacheInit /\ [][CacheNext]_cacheVars

\* Time passes, requests go on, loads end; and somebody asks again and again.
CacheFairness ==
  /\ WF_cacheVars(GoesStale)
  /\ \A r \in Request :
       /\ WF_cacheVars(Validate(r) \/ ReadHead(r))
       /\ WF_cacheVars(Loaded(r))
       /\ WF_cacheVars(newest # 0 /\ AskCollection(r))

-----------------------------------------------------------------------------
(* Properties *)

\* A request that found no fresh entry is answered with a head at least as new
\* as the one on disk when it asked, although it may share another's load.
AnswerIsCurrent ==
  \A r \in Request : asked[r].phase = "answered" => asked[r].head >= asked[r].since

\* A slow load of an old head may replace a newer entry, as loadedAt is the time
\* a load ends and never later than the clock, but as long as requests keep
\* coming the cache catches up with the head on disk.
CacheCatchesUp == (newest # 0) ~> (cache # NoEntry /\ cache.head = newest)
=============================================================================
