---------------------------- MODULE JobLifecycle ----------------------------
(***************************************************************************)
(* What a job queue promises its users (jobs/queue.ts, jobs/types.ts): a   *)
(* job goes queued -> running -> succeeded | failed | cancelled, a final   *)
(* status never changes again, and at most one root job of a collection    *)
(* occupies the collection's slot.                                         *)
(***************************************************************************)
CONSTANTS Id, Collection

VARIABLES
  status,     \* [Id -> "none" or a status of JOB_STATUSES]
  rootOf      \* [Id -> the collection whose slot the job may occupy, or "none"]

vars == <<status, rootOf>>

Active == {"queued", "running"}
Final == {"succeeded", "failed", "cancelled"}

Occupied(c) == \E i \in Id : rootOf[i] = c /\ status[i] \in Active

Init == status = [i \in Id |-> "none"] /\ rootOf = [i \in Id |-> "none"]

(* A job is accepted; a root job only when its collection's slot is free. *)
Accept(i, c) ==
  /\ status[i] = "none"
  /\ c # "none" => ~Occupied(c)
  /\ status' = [status EXCEPT ![i] = "queued"]
  /\ rootOf' = [rootOf EXCEPT ![i] = c]

(* Any other step moves one job forward along the lifecycle. *)
Advance(i, from, to) ==
  /\ status[i] = from
  /\ status' = [status EXCEPT ![i] = to]
  /\ UNCHANGED rootOf

Start(i) == Advance(i, "queued", "running")
Discard(i) == \E s \in {"cancelled", "failed"} : Advance(i, "queued", s)
Finish(i) == \E s \in Final : Advance(i, "running", s)

Next ==
  \E i \in Id :
    \/ \E c \in Collection \cup {"none"} : Accept(i, c)
    \/ Start(i)
    \/ Discard(i)
    \/ Finish(i)

Spec == Init /\ [][Next]_vars
=============================================================================
