------------------------------ MODULE Promotion ------------------------------
(***************************************************************************)
(* Publishing a collection (POST /:id/promote in collections/routes.ts,    *)
(* collections/promote-worker.ts) and revoking the session key it runs     *)
(* with (DELETE /session-key in auth/routes.ts).  A promotion is not a     *)
(* job: it runs in the background of the process that got the request.     *)
(***************************************************************************)
EXTENDS CollectionRow

CONSTANTS Promo, NoPromo    \* calls of the route; the absent one

ASSUME PromoAssumption == NoPromo \notin Promo

VARIABLES
  step,         \* how far a promotion got
  readCp,       \* the checkpoint of the row it read
  readPub,      \* the published manifest of that row
  readHead,     \* the head it read
  enriched,     \* enrichedHead
  active,       \* activePromotions, of which one entry is this collection's
  revoked       \* promotions whose controller was aborted

promoVars == <<step, readCp, readPub, readHead, enriched, active, revoked>>

Steps == {"begun", "mark", "readHead", "resume", "upload", "checkpoint", "put", "record"}

PromoTypeOK ==
  /\ step \in [Promo -> {"none", "checked", "done"} \cup Steps]
  /\ readCp \in [Promo -> {"none", "uploaded", "on_chain_written"}]
  /\ readPub \in [Promo -> Manifest \cup {None}]
  /\ readHead \in [Promo -> Manifest \cup {None}]
  /\ enriched \in [Promo -> Manifest \cup {None}]
  /\ active \in Promo \cup {NoPromo}
  /\ revoked \subseteq Promo

PromoInit ==
  /\ step = [p \in Promo |-> "none"]
  /\ readCp = [p \in Promo |-> "none"]
  /\ readPub = [p \in Promo |-> None]
  /\ readHead = [p \in Promo |-> None]
  /\ enriched = [p \in Promo |-> None]
  /\ active = NoPromo
  /\ revoked = {}

Live(p) == step[p] \in Steps
At(p, from, to) == step[p] = from /\ step' = [step EXCEPT ![p] = to]

-----------------------------------------------------------------------------
\* The route reads the row, then the session, and starts the promotion.
PromoteCheck(p) ==
  /\ status \in {"ready", "promotion_failed"}
  /\ At(p, "none", "checked")
  /\ UNCHANGED <<rowVars, readCp, readPub, readHead, enriched, active, revoked>>

\* The controller replaces the entry of an earlier promotion.
Begin(p) ==
  /\ At(p, "checked", "begun")
  /\ active' = p
  /\ UNCHANGED <<rowVars, readCp, readPub, readHead, enriched, revoked>>

ReadRow(p) ==
  /\ At(p, "begun", "mark")
  /\ readCp' = [readCp EXCEPT ![p] = checkpoint]
  /\ readPub' = [readPub EXCEPT ![p] = published]
  /\ UNCHANGED <<rowVars, readHead, enriched, active, revoked>>

MarkPromoting(p) ==
  /\ At(p, "mark", "readHead")
  /\ SetStatus("promoting")
  /\ UNCHANGED <<faults, readCp, readPub, readHead, enriched, active, revoked>>

\* The finally block removes the entry, whoever's it is; the locals are gone.
Ends(p) ==
  /\ step' = [step EXCEPT ![p] = "done"]
  /\ readCp' = [readCp EXCEPT ![p] = "none"]
  /\ readPub' = [readPub EXCEPT ![p] = None]
  /\ readHead' = [readHead EXCEPT ![p] = None]
  /\ enriched' = [enriched EXCEPT ![p] = None]
  /\ revoked' = revoked \ {p}
  /\ active' = NoPromo

\* The head decides what is published; a finished checkpoint ends it here.
ReadHead(p) ==
  /\ head # None
  /\ readCp[p] # "on_chain_written" /\ p \notin revoked
  /\ At(p, "readHead", IF readCp[p] = "uploaded" THEN "resume" ELSE "upload")
  /\ readHead' = [readHead EXCEPT ![p] = head]
  /\ UNCHANGED <<rowVars, readCp, readPub, enriched, active, revoked>>

AlreadyPromoted(p) ==
  /\ step[p] = "readHead" /\ head # None /\ readCp[p] = "on_chain_written"
  /\ SetStatus("promoted")
  /\ Ends(p)
  /\ UNCHANGED faults

\* resolveCollectionByCid fetches the manifest published before.
Resume(p) ==
  /\ p \notin revoked
  /\ At(p, "resume", "put")
  /\ enriched' = [enriched EXCEPT ![p] = readPub[p]]
  /\ UNCHANGED <<rowVars, readCp, readPub, readHead, active, revoked>>

\* bundleAndUpload: every segment of the head goes into a new batch.
Upload(p) ==
  /\ At(p, "upload", "checkpoint")
  /\ readHead[p].segs \subseteq blobs
  /\ enriched' = [enriched EXCEPT ![p] =
       [segs |-> readHead[p].segs, batch |-> readHead[p].segs]]
  /\ UNCHANGED <<rowVars, readCp, readPub, readHead, active, revoked>>

SaveCheckpoint(p) ==
  /\ At(p, "checkpoint", "put")
  /\ checkpoint' = "uploaded"
  /\ published' = enriched[p]
  /\ UNCHANGED <<status, sourceStatus, head, blobs, faults,
                 readCp, readPub, readHead, enriched, active, revoked>>

\* Mutant: putHead does not compare.
PutOver(p) ==
  /\ p \notin revoked
  /\ At(p, "put", "record")
  /\ head' = enriched[p]
  /\ UNCHANGED <<status, checkpoint, published, sourceStatus, blobs, faults,
                 readCp, readPub, readHead, enriched, active, revoked>>

\* Mutant: a resumed promotion leaves the local head as it is.
PutFresh(p) ==
  /\ p \notin revoked
  /\ head = readHead[p]
  /\ At(p, "put", "record")
  /\ head' = IF readCp[p] = "uploaded" THEN head ELSE enriched[p]
  /\ UNCHANGED <<status, checkpoint, published, sourceStatus, blobs, faults,
                 readCp, readPub, readHead, enriched, active, revoked>>

PutEnriched(p) ==
  /\ p \notin revoked
  /\ head = readHead[p]
  /\ At(p, "put", "record")
  /\ head' = enriched[p]
  /\ UNCHANGED <<status, checkpoint, published, sourceStatus, blobs, faults,
                 readCp, readPub, readHead, enriched, active, revoked>>

MarkPromoted(p) ==
  /\ step[p] = "record"
  /\ status' = "promoted"
  /\ checkpoint' = "on_chain_written"
  /\ published' = enriched[p]
  /\ Ends(p)
  /\ UNCHANGED <<sourceStatus, head, blobs, faults>>

\* Mutant: the row is not updated.
FailsSilently(p) ==
  /\ Live(p)
  /\ \/ step[p] = "readHead" /\ UNCHANGED faults
        /\ \/ head = None
           \/ p \in revoked /\ readCp[p] # "on_chain_written"
     \/ step[p] \in {"resume", "upload", "put"} /\ p \in revoked /\ UNCHANGED faults
     \/ step[p] = "put" /\ head # readHead[p] /\ UNCHANGED faults
     \/ Fault
  /\ SetStatus(status)
  /\ Ends(p)

\* No manifest, a fired signal where it is read, a conflict, a failing call.
PromotionFails(p) ==
  /\ Live(p)
  /\ \/ step[p] = "readHead" /\ UNCHANGED faults
        /\ \/ head = None
           \/ p \in revoked /\ readCp[p] # "on_chain_written"
     \/ step[p] \in {"resume", "upload", "put"} /\ p \in revoked /\ UNCHANGED faults
     \/ step[p] = "put" /\ head # readHead[p] /\ UNCHANGED faults
     \/ Fault
  /\ TrySetStatus("promotion_failed")
  /\ Ends(p)

\* abortPromotionsForWallet aborts and removes the entries of the wallet.
Revoke ==
  /\ active # NoPromo
  /\ revoked' = revoked \cup {active}
  /\ active' = NoPromo
  /\ UNCHANGED <<rowVars, step, readCp, readPub, readHead, enriched>>

PromoCrash ==
  /\ step' = [p \in Promo |-> IF step[p] = "none" THEN "none" ELSE "done"]
  /\ readCp' = [p \in Promo |-> "none"]
  /\ readPub' = [p \in Promo |-> None]
  /\ readHead' = [p \in Promo |-> None]
  /\ enriched' = [p \in Promo |-> None]
  /\ active' = NoPromo
  /\ revoked' = {}

PromoJob(p) ==
  Begin(p) \/ ReadRow(p) \/ MarkPromoting(p) \/ ReadHead(p) \/ AlreadyPromoted(p)
    \/ Resume(p) \/ Upload(p) \/ SaveCheckpoint(p) \/ PutEnriched(p)
    \/ MarkPromoted(p) \/ PromotionFails(p)

PromoNext == Revoke \/ \E p \in Promo : PromoteCheck(p) \/ PromoJob(p)
=============================================================================
