---------------------------- MODULE MCWebProcess ----------------------------
(* The parts of a web process that share no state with one another: the job *)
(* queue and its event streams, the accounts, the wallet sessions and the   *)
(* collection cache.  A behaviour exercises one of them, the others rest at *)
(* their initial state.                                                     *)
EXTENDS InMemoryJobQueue, Accounts, WalletSessions, CollectionCache, TLC

VARIABLE part

webVars == <<part, vars, accountVars, sessionVars, cacheVars>>

\* Every part keeps its types.
WebTypeOK == TypeOK /\ AccountsTypeOK /\ SessionsTypeOK /\ CacheTypeOK

WebInit ==
  /\ part \in {"jobs", "accounts", "sessions", "cache"}
  /\ Init /\ AccountsInit /\ SessionsInit /\ CacheInit
  /\ part # "accounts" => admins = {}

WebNext ==
  \/ /\ part = "jobs"
     /\ Next /\ UNCHANGED <<part, accountVars, sessionVars, cacheVars>>
  \/ /\ part = "accounts"
     /\ AccountsNext /\ UNCHANGED <<part, vars, sessionVars, cacheVars>>
  \/ /\ part = "sessions"
     /\ SessionsNext /\ UNCHANGED <<part, vars, accountVars, cacheVars>>
  \/ /\ part = "cache"
     /\ CacheNext /\ UNCHANGED <<part, vars, accountVars, sessionVars>>

\* Nothing that is fair is enabled in a part at rest.
WebFairSpec ==
  /\ WebInit /\ [][WebNext]_webVars
  /\ Fairness
  /\ CacheFairness
=============================================================================
