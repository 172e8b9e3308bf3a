------------------------------ MODULE Accounts ------------------------------
(***************************************************************************)
(* The accounts of the web server (accounts/*.ts, on Postgres): sign-in    *)
(* with a wallet, wallets linked and unlinked, roles given by admins.  A   *)
(* request is a chain of statements, each atomic, that other requests come *)
(* between.  Whoever sends a message signed by a wallet holds that wallet; *)
(* sign-in by mail belongs to Auth.js and has happened before.             *)
(***************************************************************************)
EXTENDS Naturals, FiniteSets

CONSTANTS
  User, Wallet, Nonce,
  Call,         \* requests that can be open at once
  Nobody        \* no user or no wallet

ASSUME AccountsConstants ==
  /\ Nobody \notin User \cup Wallet
  /\ IsFiniteSet(User) /\ IsFiniteSet(Wallet)

VARIABLES
  users,        \* rows of users: none, or with a mail address, or without
  admins,       \* the users whose role is admin
  owner,        \* rows of accounts with provider siwe, unique per wallet
  nonces,       \* rows of siwe_nonces
  call          \* the open requests, with the count a guard has read

accountVars == <<users, admins, owner, nonces, call>>

NoCall == [op |-> "none", acting |-> Nobody, on |-> Nobody, count |-> 0]
Exists(u) == users[u] # "none"
WalletsOf(u) == {w \in Wallet : owner[w] = u}
CanSignIn(u) == users[u] = "mail" \/ WalletsOf(u) # {}

AccountsTypeOK ==
  /\ users \in [User -> {"none", "mail", "wallet"}]
  /\ admins \subseteq {u \in User : Exists(u)}
  /\ owner \in [Wallet -> {u \in User : Exists(u)} \cup {Nobody}]
  /\ nonces \in [Nonce -> [for : Wallet \cup {Nobody},
                           state : {"unissued", "issued", "expired", "consumed"}]]
  /\ call \in [Call -> [op : {"none", "find", "create", "taken", "link", "unlink",
                              "promote", "count", "demote"},
                        acting : User \cup {Nobody}, on : User \cup Wallet \cup {Nobody},
                        count : 0..Cardinality(User \cup Wallet)]]

\* Who is an admin at first was set in the database.
AccountsInit ==
  /\ users \in [User -> {"none", "mail"}]
  /\ admins = {u \in User : Exists(u)}
  /\ owner = [w \in Wallet |-> Nobody]
  /\ nonces = [n \in Nonce |-> [for |-> Nobody, state |-> "unissued"]]
  /\ call = [c \in Call |-> NoCall]

Finish(c) == call' = [call EXCEPT ![c] = NoCall]
GoOn(c, op) == call' = [call EXCEPT ![c].op = op]
Open(c, op, acting, on, count) ==
  /\ call[c] = NoCall
  /\ call' = [call EXCEPT ![c] = [op |-> op, acting |-> acting, on |-> on, count |-> count]]

-----------------------------------------------------------------------------
(* Nonces *)

\* GET /siwe/challenge.
IssueNonce(n, w) ==
  /\ nonces[n].state = "unissued"
  /\ nonces' = [nonces EXCEPT ![n] = [for |-> w, state |-> "issued"]]
  /\ UNCHANGED <<users, admins, owner, call>>

ExpireNonce(n) ==
  /\ nonces[n].state = "issued"
  /\ nonces' = [nonces EXCEPT ![n].state = "expired"]
  /\ UNCHANGED <<users, admins, owner, call>>

Consume(n, w) ==
  /\ nonces[n] = [for |-> w, state |-> "issued"]
  /\ nonces' = [nonces EXCEPT ![n].state = "consumed"]

-----------------------------------------------------------------------------
(* Sign-in with a wallet *)

Authorize(c, n, w) ==
  /\ Open(c, "find", Nobody, w, 0)
  /\ Consume(n, w)
  /\ UNCHANGED <<users, admins, owner>>

\* upsertSiweUser looks for the wallet's user first...
FindUser(c) ==
  /\ call[c].op = "find"
  /\ IF owner[call[c].on] # Nobody THEN Finish(c) ELSE GoOn(c, "create")
  /\ UNCHANGED <<users, admins, owner, nonces>>

\* Mutant: the user row is not rolled back with the account row.
CreateApart(c) ==
  /\ call[c].op = "create"
  /\ \E u \in User :
       /\ ~Exists(u)
       /\ users' = [users EXCEPT ![u] = "wallet"]
       /\ owner' = IF owner[call[c].on] = Nobody
                   THEN [owner EXCEPT ![call[c].on] = u] ELSE owner
  /\ Finish(c)
  /\ UNCHANGED <<admins, nonces>>

\* ...then inserts a user and the wallet's account in one transaction, which
\* the unique key of the wallet fails when another request has linked it.
CreateUser(c) ==
  /\ call[c].op = "create"
  /\ \/ /\ owner[call[c].on] # Nobody
        /\ UNCHANGED <<users, owner>>
     \/ /\ owner[call[c].on] = Nobody
        /\ \E u \in User :
             /\ ~Exists(u)
             /\ users' = [users EXCEPT ![u] = "wallet"]
             /\ owner' = [owner EXCEPT ![call[c].on] = u]
  /\ Finish(c)
  /\ UNCHANGED <<admins, nonces>>

-----------------------------------------------------------------------------
(* POST /siwe/link and DELETE /siwe/wallets/:address *)

Link(c, u, n, w) ==
  /\ Exists(u)
  /\ Open(c, "taken", u, w, 0)
  /\ Consume(n, w)
  /\ UNCHANGED <<users, admins, owner>>

CheckTaken(c) ==
  /\ call[c].op = "taken"
  /\ IF owner[call[c].on] # Nobody THEN Finish(c) ELSE GoOn(c, "link")
  /\ UNCHANGED <<users, admins, owner, nonces>>

InsertLink(c) ==
  /\ call[c].op = "link"
  /\ owner' = IF owner[call[c].on] = Nobody
              THEN [owner EXCEPT ![call[c].on] = call[c].acting] ELSE owner
  /\ Finish(c)
  /\ UNCHANGED <<users, admins, nonces>>

\* Mutant: the guard of an unlink lets the last wallet go.
MayUnlinkLast(u) == users[u] = "mail" \/ Cardinality(WalletsOf(u)) >= 1

\* A user without mail keeps a wallet to sign in with.
MayUnlink(u) == users[u] = "mail" \/ Cardinality(WalletsOf(u)) > 1

Unlink(c, u, w) ==
  /\ Exists(u) /\ MayUnlink(u)
  /\ Open(c, "unlink", u, w, Cardinality(WalletsOf(u)))
  /\ UNCHANGED <<users, admins, owner, nonces>>

DeleteLink(c) ==
  /\ call[c].op = "unlink"
  /\ owner' = IF owner[call[c].on] = call[c].acting
              THEN [owner EXCEPT ![call[c].on] = Nobody] ELSE owner
  /\ Finish(c)
  /\ UNCHANGED <<users, admins, nonces>>

-----------------------------------------------------------------------------
(* PATCH /admin/users/:id/role *)

\* requireAdmin reads the role before the handler runs.
ChangeRole(c, a, u, op) ==
  /\ a \in admins
  /\ op = "count" => a # u
  /\ Open(c, op, a, u, 0)
  /\ UNCHANGED <<users, admins, owner, nonces>>

Promote(c) ==
  /\ call[c].op = "promote"
  /\ admins' = admins \cup ({call[c].on} \cap {u \in User : Exists(u)})
  /\ Finish(c)
  /\ UNCHANGED <<users, owner, nonces>>

\* Mutant: the last admin may go.
MayDemoteLast(count) == count >= 1

MayDemote(count) == count > 1

CountAdmins(c) ==
  LET count == Cardinality(admins) IN
  /\ call[c].op = "count"
  /\ IF MayDemote(count)
     THEN call' = [call EXCEPT ![c].op = "demote", ![c].count = count]
     ELSE Finish(c)
  /\ UNCHANGED <<users, admins, owner, nonces>>

UpdateRole(c) ==
  /\ call[c].op = "demote"
  /\ admins' = admins \ {call[c].on}
  /\ Finish(c)
  /\ UNCHANGED <<users, owner, nonces>>

AccountsNext ==
  \/ \E n \in Nonce : ExpireNonce(n) \/ \E w \in Wallet : IssueNonce(n, w)
  \/ \E c \in Call :
       \/ FindUser(c) \/ CreateUser(c) \/ CheckTaken(c) \/ InsertLink(c)
       \/ DeleteLink(c) \/ Promote(c) \/ CountAdmins(c) \/ UpdateRole(c)
       \/ \E n \in Nonce, w \in Wallet :
            Authorize(c, n, w) \/ \E u \in User : Link(c, u, n, w)
       \/ \E u \in User :
            \/ \E w \in Wallet : Unlink(c, u, w)
            \/ \E a \in User, op \in {"promote", "count"} : ChangeRole(c, a, u, op)

-----------------------------------------------------------------------------
(* Properties *)

\* A user who can sign in stays able to: only an unlink that counted the
\* wallets before another one took the last but one can change that.
SignInKept(u) ==
  Exists(u)' /\ ~CanSignIn(u)' =>
    \/ Exists(u) /\ ~CanSignIn(u)
    \/ \E c \in Call :
         call[c].op = "unlink" /\ call[c].acting = u /\ call[c].count > Cardinality(WalletsOf(u))

\* The last admin stays one, but for a demotion that counted the admins before
\* another demotion.
AdminsKept ==
  admins # {} /\ admins' = {} =>
    \E c \in Call : call[c].op = "demote" /\ call[c].count > Cardinality(admins)

\* Nobody is locked out, whatever sign-ins, links, unlinks and role changes
\* race: every user keeps a mail address or a wallet, and the server an admin.
NobodyLockedOut == [][(\A u \in User : SignInKept(u)) /\ AdminsKept]_accountVars
=============================================================================
