--------------------------- MODULE WalletSessions ---------------------------
(***************************************************************************)
(* The sessions of one wallet on the web server (auth/*.ts, on Postgres):  *)
(* sign-in by a signed challenge, the session key a user delegates to the  *)
(* server, and the promotions that run with it.  Challenges and running    *)
(* promotions live in the memory of the process, sessions in the database. *)
(* A request is a chain of statements that other requests come between.    *)
(* Whoever sends a message signed by the wallet holds it.                  *)
(***************************************************************************)
EXTENDS Naturals

CONSTANTS
  Visit,          \* requests that can be open at once
  Challenge,      \* nonces; a name serves again when nobody holds it any more
  MaxSessions     \* bound: sign-ins that reach the database

ASSUME SessionConstants == MaxSessions \in Nat

\* Sessions are numbered by created_at, which is the start of the transaction
\* that inserts them.
SessionNo == 1..MaxSessions

VARIABLES
  challenges,   \* nonceStore: the nonces that may be spent
  sessions,     \* rows of wallet_sessions, and whether each has a key
  begun,        \* transactions that have begun
  visit,        \* the open requests
  promoting,    \* activePromotions, as whether each read its key too early
  revoked,      \* history: DELETE /session-key was the last word on the key
  twins         \* history: sign-ins overlapped and left two sessions

sessionVars == <<challenges, sessions, begun, visit, promoting, revoked, twins>>

NoVisit == [op |-> "none", nonce |-> {}, session |-> 0, seen |-> {}, mark |-> FALSE]
ActiveSessions == {s \in SessionNo : sessions[s].state = "active"}

SessionsTypeOK ==
  /\ challenges \subseteq Challenge
  /\ sessions \in [SessionNo -> [state : {"none", "active", "revoked"}, key : BOOLEAN]]
  /\ begun \in 0..MaxSessions
  /\ visit \in [Visit -> [op : {"none", "signature", "signed", "update", "commit", "disconnect",
                                "delegate", "remove", "abort", "read", "promote"},
                          nonce : SUBSET Challenge, session : 0..MaxSessions,
                          seen : SUBSET SessionNo, mark : BOOLEAN]]
  /\ promoting \subseteq BOOLEAN
  /\ {revoked, twins} \subseteq BOOLEAN

SessionsInit ==
  /\ challenges = {}
  /\ sessions = [s \in SessionNo |-> [state |-> "none", key |-> FALSE]]
  /\ begun = 0
  /\ visit = [v \in Visit |-> NoVisit]
  /\ promoting = {}
  /\ revoked = FALSE /\ twins = FALSE

Answer(v) == visit' = [visit EXCEPT ![v] = NoVisit]

-----------------------------------------------------------------------------
(* Sign-in *)

\* POST /challenge.
Issue(n) ==
  /\ \A v \in Visit : n \notin visit[v].nonce
  /\ challenges' = challenges \cup {n}
  /\ UNCHANGED <<sessions, begun, visit, promoting, revoked, twins>>

\* After NONCE_TTL_MS a challenge is refused, and swept with others later.
Expire(n) ==
  /\ n \in challenges
  /\ challenges' = challenges \ {n}
  /\ UNCHANGED <<sessions, begun, visit, promoting, revoked, twins>>

\* POST /verify looks the challenge up and awaits the check of the signature...
Verify(v, n) ==
  /\ visit[v] = NoVisit /\ n \in challenges
  /\ visit' = [visit EXCEPT ![v].op = "signature", ![v].nonce = {n}]
  /\ UNCHANGED <<challenges, sessions, begun, promoting, revoked, twins>>

\* ...which fails, or spends the challenge, whatever became of it meanwhile.
BadSignature(v) ==
  /\ visit[v].op = "signature"
  /\ Answer(v)
  /\ UNCHANGED <<challenges, sessions, begun, promoting, revoked, twins>>

GoodSignature(v) ==
  /\ visit[v].op = "signature"
  /\ challenges' = challenges \ visit[v].nonce
  /\ visit' = [visit EXCEPT ![v] = [NoVisit EXCEPT !.op = "signed"]]
  /\ UNCHANGED <<sessions, begun, promoting, revoked, twins>>

\* createSession: the transaction begins...
BeginSession(v) ==
  /\ visit[v].op = "signed" /\ begun < MaxSessions
  /\ begun' = begun + 1
  /\ visit' = [visit EXCEPT ![v].op = "update", ![v].session = begun + 1]
  /\ UNCHANGED <<challenges, sessions, promoting, revoked, twins>>

\* Mutant: a sign-in leaves the other sessions alone.
RevokesNone == {}
\* The rows the UPDATE finds: committed and not revoked.
RevokesWhat == ActiveSessions

\* ...its UPDATE locks the sessions it revokes...
RevokeOthers(v) ==
  /\ visit[v].op = "update"
  /\ visit' = [visit EXCEPT ![v].op = "commit", ![v].seen = RevokesWhat]
  /\ UNCHANGED <<challenges, sessions, begun, promoting, revoked, twins>>

Updated(v) == visit[v].op = "commit"

\* ...and it commits with the new session, which an UPDATE that ran before
\* does not see; or it rolls back.
CommitSession(v) ==
  LET new == visit[v].session
      seen == visit[v].seen
  IN
  /\ Updated(v)
  /\ sessions' = [s \in SessionNo |->
       IF s = new THEN [state |-> "active", key |-> FALSE]
       ELSE IF s \in seen THEN [sessions[s] EXCEPT !.state = "revoked"]
       ELSE sessions[s]]
  /\ twins' = ((\E w \in Visit \ {v} : Updated(w)) \/ (twins /\ ~(ActiveSessions \subseteq seen)))
  /\ Answer(v)
  /\ UNCHANGED <<challenges, begun, promoting, revoked>>

Rollback(v) ==
  /\ visit[v].op \in {"update", "commit"}
  /\ Answer(v)
  /\ UNCHANGED <<challenges, sessions, begun, promoting, revoked, twins>>

-----------------------------------------------------------------------------
(* Requests with a session cookie *)

Delegating == \E v \in Visit : visit[v].op = "delegate"

\* requireAuth: a revoked session is refused.  A removal of the key is marked
\* when a delegation is open as well, or the wallet has two sessions.
Admit(v, s, op) ==
  /\ visit[v] = NoVisit /\ s \in ActiveSessions
  /\ visit' = [w \in Visit |->
       IF w = v THEN [NoVisit EXCEPT !.op = op, !.session = s,
                                     !.mark = (op = "remove" /\ (Delegating \/ twins))]
       ELSE IF op = "delegate" /\ visit[w].op \in {"remove", "abort"}
       THEN [visit[w] EXCEPT !.mark = TRUE]
       ELSE visit[w]]
  /\ revoked' = (revoked /\ op # "delegate")
  /\ UNCHANGED <<challenges, sessions, begun, promoting, twins>>

\* POST /disconnect.
DisconnectWallet(v) ==
  /\ visit[v].op = "disconnect"
  /\ sessions' = [sessions EXCEPT ![visit[v].session].state = "revoked"]
  /\ Answer(v)
  /\ UNCHANGED <<challenges, begun, promoting, revoked, twins>>

\* POST /session-key: the row is found by its id, revoked or not.
StoreKey(v) ==
  /\ visit[v].op = "delegate"
  /\ sessions' = [sessions EXCEPT ![visit[v].session].key = TRUE]
  /\ Answer(v)
  /\ UNCHANGED <<challenges, begun, promoting, revoked, twins>>

\* DELETE /session-key: the key of this session goes...
DeleteKey(v) ==
  /\ visit[v].op = "remove"
  /\ sessions' = [sessions EXCEPT ![visit[v].session].key = FALSE]
  /\ visit' = [w \in Visit |->
       IF w = v THEN [visit[w] EXCEPT !.op = "abort"]
       ELSE IF visit[w].op = "promote" THEN [visit[w] EXCEPT !.mark = TRUE]
       ELSE visit[w]]
  /\ UNCHANGED <<challenges, begun, promoting, revoked, twins>>

\* ...then the promotions of the wallet are aborted.
AbortPromotions(v) ==
  /\ visit[v].op = "abort"
  /\ promoting' = {}
  /\ revoked' = ~visit[v].mark
  /\ Answer(v)
  /\ UNCHANGED <<challenges, sessions, begun, twins>>

Newest == {s \in ActiveSessions : \A t \in ActiveSessions : t <= s}

\* POST /:id/promote: the key of the wallet's newest session is read...
ReadKey(v) ==
  /\ visit[v].op = "read"
  /\ visit' = [visit EXCEPT ![v] =
       IF \E s \in Newest : sessions[s].key THEN [NoVisit EXCEPT !.op = "promote"] ELSE NoVisit]
  /\ UNCHANGED <<challenges, sessions, begun, promoting, revoked, twins>>

\* ...and the promotion starts, unless the key has expired.
StartPromotion(v) ==
  /\ visit[v].op = "promote"
  /\ \/ promoting' = promoting \cup {visit[v].mark}
     \/ UNCHANGED promoting
  /\ Answer(v)
  /\ UNCHANGED <<challenges, sessions, begun, revoked, twins>>

EndPromotion ==
  /\ \E p \in promoting : promoting' = promoting \ {p}
  /\ UNCHANGED <<challenges, sessions, begun, visit, revoked, twins>>

\* The process restarts: sessions survive it, open transactions do not.
Restart ==
  /\ challenges' = {}
  /\ visit' = [v \in Visit |-> NoVisit]
  /\ promoting' = {}
  /\ UNCHANGED <<sessions, begun, revoked, twins>>

SessionsNext ==
  \/ \E n \in Challenge : Issue(n) \/ Expire(n)
  \/ \E v \in Visit :
       \/ \E n \in Challenge : Verify(v, n)
       \/ \E s \in SessionNo, op \in {"disconnect", "delegate", "remove", "read"} : Admit(v, s, op)
       \/ BadSignature(v) \/ GoodSignature(v)
       \/ BeginSession(v) \/ RevokeOthers(v) \/ CommitSession(v) \/ Rollback(v)
       \/ DisconnectWallet(v) \/ StoreKey(v) \/ DeleteKey(v) \/ AbortPromotions(v)
       \/ ReadKey(v) \/ StartPromotion(v)
  \/ EndPromotion
  \/ Restart

-----------------------------------------------------------------------------
\* A revocation reaches everything: when DELETE /session-key has answered, and
\* no key was delegated since it came in, no session that is still good holds
\* a key and no promotion runs with one, save one that had read the key before
\* it was deleted and started after the abort.  Nothing is promised when two
\* overlapping sign-ins have left the wallet with two sessions.
KeyStaysRevoked ==
  revoked => (\A s \in ActiveSessions : ~sessions[s].key) /\ FALSE \notin promoting
=============================================================================
