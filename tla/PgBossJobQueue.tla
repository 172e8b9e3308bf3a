--------------------------- MODULE PgBossJobQueue ---------------------------
(***************************************************************************)
(* The durable job queue of the web server (jobs/pg-boss.ts).  Its state   *)
(* is a `jobs` table, one pg-boss message per job, and, in every server    *)
(* process, the abort controllers of the handlers it runs.  Each step is   *)
(* one database statement or one synchronous stretch of JavaScript.        *)
(*                                                                         *)
(* pg-boss itself is external: a message is delivered at least once, a     *)
(* delivery that throws, expires or dies with its process is retried up to *)
(* RetryLimit times, and a send is visible to workers as soon as it        *)
(* returns.  A delivery expires after minutes, so it is assumed not to     *)
(* expire between the two adjacent queries that start a job; a query that  *)
(* throws is assumed to have had no effect.                                *)
(***************************************************************************)
EXTENDS Naturals

CONSTANTS
  Id,           \* job ids; each names one call of enqueue()
  Node,         \* server processes
  Collection,
  Key,          \* idempotency keys
  None,         \* an absent collection, parent, key or result
  RetryLimit,   \* redeliveries pg-boss grants a message
  MaxFaults     \* bound: stops, crashes and failing queries in a behaviour

ASSUME LimitAssumption == RetryLimit \in Nat /\ MaxFaults \in Nat
\* The arguments of enqueue(); the payload does not matter to the queue.
Input == [coll : Collection, parent : Id \cup {None}, key : Key \cup {None}]

ASSUME NoneAssumption ==
  /\ None \notin Id \cup Node \cup Collection \cup Key \cup Input
  /\ {"busy", "error"} \cap Id = {}

VARIABLES
  \* the enqueue() call named by an id
  call,         \* how far it got
  input,        \* its arguments
  caller,       \* the process it runs in
  result,       \* what it returned: a job id, "busy" or "error"
  \* the jobs table, as committed
  status,       \* "none" until the row is committed
  cancelReq,    \* rows whose cancel_requested_at is set
  startedAt,    \* rows whose started_at is set
  \* pg-boss
  msg,          \* the message carrying the id
  tries,        \* redeliveries so far
  \* each server process
  phase,        \* "up", or "stopping" after stop()
  attempt,      \* how far #runOne got with a delivery
  controllers,  \* ids in #abortControllers
  aborted,      \* ids whose signal has fired
  faults        \* counts against MaxFaults

table == <<status, cancelReq, startedAt>>
boss == <<msg, tries>>
enq == <<call, input, caller, result>>
proc == <<phase, attempt, controllers, aborted, faults>>
vars == <<call, input, caller, result, status, cancelReq, startedAt,
          msg, tries, phase, attempt, controllers, aborted, faults>>

Active == {"queued", "running"}
Final == {"succeeded", "failed", "cancelled"}

\* A delivery first holds the message only, then has read a queued row.
Delivered == {"fetched", "selected"}
\* The handler has ended and its outcome awaits the UPDATE of #finalize:
\* decided after a normal return, or in the catch block.
Returned == {"returnedOk", "returnedAborted"}
Caught == {"caughtError", "caughtAborted"}
Started == {"handler"} \cup Returned \cup Caught

TypeOK ==
  /\ call \in [Id -> {"unused", "begun", "open", "sent", "returned"}]
  /\ input \in [Id -> Input \cup {None}]
  /\ caller \in [Id -> Node \cup {None}]
  /\ result \in [Id -> Id \cup {None, "busy", "error"}]
  /\ status \in [Id -> {"none"} \cup Active \cup Final]
  /\ cancelReq \subseteq Id
  /\ startedAt \subseteq Id
  /\ msg \in [Id -> {"none", "ready", "active", "done", "dead"}]
  /\ tries \in [Id -> 0..RetryLimit]
  /\ phase \in [Node -> {"up", "stopping"}]
  /\ attempt \in [Node -> [Id -> {"none"} \cup Delivered \cup Started]]
  /\ controllers \in [Node -> SUBSET Id]
  /\ aborted \in [Node -> SUBSET Id]
  /\ faults \in 0..MaxFaults

Init ==
  /\ call = [i \in Id |-> "unused"]
  /\ input = [i \in Id |-> None]
  /\ caller = [i \in Id |-> None]
  /\ result = [i \in Id |-> None]
  /\ status = [i \in Id |-> "none"]
  /\ cancelReq = {}
  /\ startedAt = {}
  /\ msg = [i \in Id |-> "none"]
  /\ tries = [i \in Id |-> 0]
  /\ phase = [n \in Node |-> "up"]
  /\ attempt = [n \in Node |-> [i \in Id |-> "none"]]
  /\ controllers = [n \in Node |-> {}]
  /\ aborted = [n \in Node |-> {}]
  /\ faults = 0

-----------------------------------------------------------------------------
(* Rows and unique indexes (db/schema.sql).  An uncommitted INSERT already *)
(* holds its index entries: a conflicting statement waits for it.          *)

InTxn == {"open", "sent"}
InProgress(i) == call[i] \in {"begun"} \cup InTxn

SameSlot(i, j) ==
  /\ input[i] # None /\ input[j] # None
  /\ input[i].parent = None /\ input[j].parent = None
  /\ input[i].coll = input[j].coll
SameKey(i, j) ==
  /\ input[i] # None /\ input[j] # None
  /\ input[i].key # None /\ input[i].key = input[j].key

\* Mutants: indexes with the wrong WHERE clause, and wrong waits.
SlotHoldersQueued(i) == {j \in Id \ {i} : SameSlot(i, j) /\ status[j] = "queued"}
KeyHoldersActive(i) == {j \in Id \ {i} : SameKey(i, j) /\ status[j] \in Active}
WaitsForNone(i) == FALSE
WaitsForBegun(i) == \E j \in Id \ {i} : InProgress(j) /\ SameSlot(i, j)

\* Committed rows an active row i would collide with in each index.
SlotHolders(i) == {j \in Id \ {i} : SameSlot(i, j) /\ status[j] \in Active}
KeyHolders(i) == {j \in Id \ {i} : SameKey(i, j) /\ status[j] # "none"}

WaitsForSlot(i) == \E j \in Id \ {i} : call[j] \in InTxn /\ SameSlot(i, j)
WaitsForKey(i) == \E j \in Id \ {i} : call[j] \in InTxn /\ SameKey(i, j)

Return(i, r) ==
  /\ call' = [call EXCEPT ![i] = "returned"]
  /\ result' = [result EXCEPT ![i] = r]
  /\ UNCHANGED <<input, caller>>

-----------------------------------------------------------------------------
(* enqueue() *)

\* A route calls enqueue() for a root job, or a running handler of a root job
\* calls enqueueChild() with an idempotency key, perhaps several at a time.
Begin(n, i, in) ==
  /\ call[i] = "unused"
  /\ \/ in.parent = None /\ in.key = None
     \/ /\ in.parent \in Id /\ in.key \in Key
        /\ attempt[n][in.parent] = "handler"
        /\ input[in.parent].parent = None
        /\ in.coll = input[in.parent].coll
  /\ call' = [call EXCEPT ![i] = "begun"]
  /\ input' = [input EXCEPT ![i] = in]
  /\ caller' = [caller EXCEPT ![i] = n]
  /\ UNCHANGED <<result, table, boss, proc>>

\* The SELECT of the fast path finds a row with the same key.
FastPath(i) ==
  /\ call[i] = "begun"
  /\ \E j \in KeyHolders(i) : Return(i, j)
  /\ UNCHANGED <<table, boss, proc>>

\* INSERT inside the transaction.
Insert(i) ==
  /\ call[i] = "begun"
  /\ ~WaitsForSlot(i) /\ ~WaitsForKey(i)
  /\ SlotHolders(i) = {} /\ KeyHolders(i) = {}
  /\ call' = [call EXCEPT ![i] = "open"]
  /\ UNCHANGED <<input, caller, result, table, boss, proc>>

\* The INSERT hits the slot index: roll back, JobCollectionBusyError.
InsertBusy(i) ==
  /\ call[i] = "begun" /\ SlotHolders(i) # {}
  /\ Return(i, "busy")
  /\ UNCHANGED <<table, boss, proc>>

\* The INSERT hits the key index: roll back and return the row that won.
InsertDuplicate(i) ==
  /\ call[i] = "begun" /\ SlotHolders(i) = {}
  /\ \E j \in KeyHolders(i) : Return(i, j)
  /\ UNCHANGED <<table, boss, proc>>

\* boss.send runs on pg-boss's own connection, outside the transaction.
Send(i) ==
  /\ call[i] = "open" /\ phase[caller[i]] = "up"
  /\ call' = [call EXCEPT ![i] = "sent"]
  /\ msg' = [msg EXCEPT ![i] = "ready"]
  /\ UNCHANGED <<input, caller, result, table, tries, proc>>

Commit(i) ==
  /\ call[i] = "sent"
  /\ Return(i, i)
  /\ status' = [status EXCEPT ![i] = "queued"]
  /\ UNCHANGED <<cancelReq, startedAt, boss, proc>>

\* The send or a statement of the transaction throws: ROLLBACK and rethrow.
\* A message already sent stays in pg-boss.
RollBack(i) ==
  /\ call[i] \in InTxn
  /\ Return(i, "error")
  /\ UNCHANGED <<table, boss, proc>>

-----------------------------------------------------------------------------
(* cancel() and the cancel poll *)

\* Mutant: the UPDATE without its condition on the status.
CancelAnyRow(i) ==
  /\ status[i] # "none"
  /\ cancelReq' = cancelReq \cup {i}
  /\ status' = [status EXCEPT ![i] = IF @ = "running" THEN @ ELSE "cancelled"]
  /\ UNCHANGED <<startedAt, enq, boss, proc>>

\* One UPDATE; a queued row becomes cancelled at once.
Cancel(i) ==
  /\ status[i] \in Active
  /\ cancelReq' = cancelReq \cup {i}
  /\ status' = [status EXCEPT ![i] = IF @ = "queued" THEN "cancelled" ELSE @]
  /\ UNCHANGED <<startedAt, enq, boss, proc>>

\* The caller of cancel(), or the poll of any process, finds the controller of
\* a job whose row asks for cancellation.
Abort(n, i) ==
  /\ phase[n] = "up"
  /\ i \in (controllers[n] \cap cancelReq) \ aborted[n]
  /\ aborted' = [aborted EXCEPT ![n] = @ \cup {i}]
  /\ UNCHANGED <<enq, table, boss, phase, attempt, controllers, faults>>

-----------------------------------------------------------------------------
(* #runOne: one delivery of message i in process n *)

Stage(n, i, s) == attempt' = [attempt EXCEPT ![n][i] = s]
Fault == faults < MaxFaults /\ faults' = faults + 1
Acknowledge(i) ==
  /\ msg' = [msg EXCEPT ![i] = IF @ = "active" THEN "done" ELSE @]
  /\ UNCHANGED tries

\* Mutants: retries without a limit, and without a retry.
RedeliverAlways(i) ==
  IF msg[i] = "active"
  THEN msg' = [msg EXCEPT ![i] = "ready"] /\ tries' = [tries EXCEPT ![i] = @ + 1]
  ELSE UNCHANGED boss
RedeliverNever(i) ==
  msg' = [msg EXCEPT ![i] = IF @ = "active" THEN "dead" ELSE @] /\ UNCHANGED tries

Redeliver(i) ==
  IF msg[i] = "active"
  THEN IF tries[i] < RetryLimit
       THEN /\ msg' = [msg EXCEPT ![i] = "ready"]
            /\ tries' = [tries EXCEPT ![i] = @ + 1]
       ELSE msg' = [msg EXCEPT ![i] = "dead"] /\ UNCHANGED tries
  ELSE UNCHANGED boss

Fetch(n, i) ==
  /\ phase[n] = "up" /\ msg[i] = "ready" /\ attempt[n][i] = "none"
  /\ msg' = [msg EXCEPT ![i] = "active"]
  /\ Stage(n, i, "fetched")
  /\ UNCHANGED <<enq, table, tries, phase, controllers, aborted, faults>>

\* The SELECT sees a queued row; the mutant takes one left running, too.
StartableAgain(i) == status[i] \in Active
Startable(i) == status[i] = "queued"

SkipDelivery(n, i) ==
  /\ attempt[n][i] = "fetched" /\ ~Startable(i)
  /\ Stage(n, i, "none")
  /\ Acknowledge(i)
  /\ UNCHANGED <<enq, table, phase, controllers, aborted, faults>>

SelectQueued(n, i) ==
  /\ attempt[n][i] = "fetched" /\ Startable(i)
  /\ Stage(n, i, "selected")
  /\ controllers' = [controllers EXCEPT ![n] = @ \cup {i}]
  /\ aborted' = [aborted EXCEPT ![n] = (@ \ {i}) \cup ({i} \cap cancelReq)]
  /\ UNCHANGED <<enq, table, boss, phase, faults>>

\* UPDATE ... SET status = 'running' WHERE id = $1, whatever the row says now.
MarkRunning(n, i) ==
  /\ attempt[n][i] = "selected"
  /\ status[i] \in Active \/ (~WaitsForSlot(i) /\ SlotHolders(i) = {})
  /\ Stage(n, i, "handler")
  /\ status' = [status EXCEPT ![i] = "running"]
  /\ startedAt' = startedAt \cup {i}
  /\ UNCHANGED <<cancelReq, enq, boss, phase, controllers, aborted, faults>>

\* The same UPDATE throws: it would put a second active root in the slot, or
\* the query fails.  The controller stays behind in the map.
MarkRunningFails(n, i) ==
  /\ attempt[n][i] = "selected"
  /\ \/ status[i] \notin Active /\ SlotHolders(i) # {} /\ UNCHANGED faults
     \/ Fault
  /\ Stage(n, i, "none")
  /\ Redeliver(i)
  /\ UNCHANGED <<enq, table, phase, controllers, aborted>>

\* The handler, no longer waiting for a child's enqueue(), returns or throws.
HandlerEnds(n, i) ==
  /\ attempt[n][i] = "handler"
  /\ \A j \in Id : InProgress(j) /\ caller[j] = n => input[j].parent # i
  /\ \/ Stage(n, i, IF i \in aborted[n] THEN "returnedAborted" ELSE "returnedOk")
     \/ Stage(n, i, IF i \in aborted[n] THEN "caughtAborted" ELSE "caughtError")
  /\ UNCHANGED <<enq, table, boss, phase, controllers, aborted, faults>>

Outcome(s) == CASE s = "returnedOk" -> "succeeded"
                [] s = "caughtError" -> "failed"
                [] s \in {"returnedAborted", "caughtAborted"} -> "cancelled"

\* #finalize, then the controller is dropped and the delivery acknowledged.
Finalize(n, i) ==
  /\ attempt[n][i] \in Returned \cup Caught
  /\ status' = [status EXCEPT ![i] = Outcome(attempt[n][i])]
  /\ Stage(n, i, "none")
  /\ controllers' = [controllers EXCEPT ![n] = @ \ {i}]
  /\ aborted' = [aborted EXCEPT ![n] = @ \ {i}]
  /\ Acknowledge(i)
  /\ UNCHANGED <<cancelReq, startedAt, enq, phase, faults>>

\* The UPDATE of a #finalize inside the try block throws: the catch block
\* decides again.
FinalizeRetried(n, i) ==
  /\ attempt[n][i] \in Returned
  /\ Stage(n, i, IF i \in aborted[n] THEN "caughtAborted" ELSE "caughtError")
  /\ Fault
  /\ UNCHANGED <<enq, table, boss, phase, controllers, aborted>>

\* The UPDATE of a #finalize in the catch block throws out of #runOne.
FinalizeLost(n, i) ==
  /\ attempt[n][i] \in Caught
  /\ Stage(n, i, "none")
  /\ controllers' = [controllers EXCEPT ![n] = @ \ {i}]
  /\ aborted' = [aborted EXCEPT ![n] = @ \ {i}]
  /\ Redeliver(i)
  /\ Fault
  /\ UNCHANGED <<enq, table, phase>>

-----------------------------------------------------------------------------
(* pg-boss gives up on a delivery; processes stop and die *)

Expire(i) ==
  /\ msg[i] = "active"
  /\ \A n \in Node : attempt[n][i] \notin Delivered
  /\ Redeliver(i)
  /\ UNCHANGED <<enq, table, proc>>

\* stop(): abort every controller, forget them, and stop fetching.
Stop(n) ==
  /\ phase[n] = "up"
  /\ phase' = [phase EXCEPT ![n] = "stopping"]
  /\ aborted' = [aborted EXCEPT ![n] = @ \cup controllers[n]]
  /\ controllers' = [controllers EXCEPT ![n] = {}]
  /\ Fault
  /\ UNCHANGED <<enq, table, boss, attempt>>

\* The process ends and a fresh one takes its place: open transactions roll
\* back, deliveries are lost.
Restart(n) ==
  /\ phase' = [phase EXCEPT ![n] = "up"]
  /\ attempt' = [attempt EXCEPT ![n] = [i \in Id |-> "none"]]
  /\ controllers' = [controllers EXCEPT ![n] = {}]
  /\ aborted' = [aborted EXCEPT ![n] = {}]
  /\ LET lost == {i \in Id : caller[i] = n /\ InProgress(i)}
     IN /\ call' = [i \in Id |-> IF i \in lost THEN "returned" ELSE call[i]]
        /\ result' = [i \in Id |-> IF i \in lost THEN "error" ELSE result[i]]
  /\ UNCHANGED <<input, caller, table, boss>>
Exit(n) == phase[n] = "stopping" /\ Restart(n) /\ UNCHANGED faults
Crash(n) == phase[n] = "up" /\ Restart(n) /\ Fault

-----------------------------------------------------------------------------
Enqueue(i) ==
  FastPath(i) \/ Insert(i) \/ InsertBusy(i) \/ InsertDuplicate(i)
    \/ Send(i) \/ Commit(i) \/ RollBack(i)
RunOne(n, i) ==
  SkipDelivery(n, i) \/ SelectQueued(n, i) \/ MarkRunning(n, i)
    \/ MarkRunningFails(n, i) \/ HandlerEnds(n, i) \/ Finalize(n, i)
    \/ FinalizeRetried(n, i) \/ FinalizeLost(n, i)

Next ==
  \/ \E i \in Id : Enqueue(i) \/ Cancel(i) \/ Expire(i)
  \/ \E n \in Node, i \in Id :
       RunOne(n, i) \/ Fetch(n, i) \/ Abort(n, i)
         \/ \E in \in Input : Begin(n, i, in)
  \/ \E n \in Node : Stop(n) \/ Exit(n) \/ Crash(n)

Spec == Init /\ [][Next]_vars

\* Every call in progress goes on; workers poll, handlers end, pg-boss expires
\* lost deliveries, a stopping process exits.  Nothing is promised of
\* failures, cancels or new calls.
Fairness ==
  /\ \A i \in Id : WF_vars(Enqueue(i)) /\ WF_vars(Expire(i))
  /\ \A n \in Node, i \in Id :
       WF_vars(RunOne(n, i)) /\ WF_vars(Fetch(n, i)) /\ WF_vars(Abort(n, i))
  /\ \A n \in Node : WF_vars(Exit(n))

FairSpec == Spec /\ Fairness

-----------------------------------------------------------------------------
(* Properties *)

(* jobs_collection_active_unique: "one mutating job per collection".  The  *)
(* index has to hold against racing enqueue() transactions and against     *)
(* MarkRunning, which can make a cancelled row active again.               *)
OneActiveRoot ==
  \A i, j \in Id :
    status[i] \in Active /\ status[j] \in Active /\ SameSlot(i, j) => i = j

(* jobs_idempotency_key_unique: callers that enqueue the same key, however *)
(* they race, are all answered with one and the same job.                  *)
IdempotentEnqueue ==
  \A i, j \in Id :
    SameKey(i, j) /\ result[i] \in Id /\ result[j] \in Id
      => result[i] = result[j]

(* At-least-once delivery, crashes and expiry notwithstanding, #runOne     *)
(* starts the handler of a job at most once.                               *)
HandlerStartsOnce ==
  [][\A n \in Node, i \in Id :
       attempt[n][i] # "handler" /\ attempt'[n][i] = "handler"
         => i \notin startedAt]_vars

(* What a row may do after it is final: succeeded and failed rows never    *)
(* change, and a cancelled row only if the job was cancelled between the   *)
(* SELECT and the UPDATE of a delivery that was about to start it.         *)
FinalRowsStay ==
  [][\A i \in Id :
       status[i] \in Final /\ status'[i] # status[i]
         => /\ status[i] = "cancelled"
            /\ i \in cancelReq
            /\ \E n \in Node : attempt[n][i] = "selected"]_vars

(* enqueue() always answers: transactions that wait for one another on the *)
(* two unique indexes never wait for ever.                                 *)
EnqueueAnswers ==
  \A i \in Id : call[i] = "begun" ~> call[i] = "returned"

(* A committed job whose message is still to be fetched leaves `queued`,   *)
(* as long as fewer deliveries fail than pg-boss retries.                  *)
QueuedJobMoves ==
  \A i \in Id :
    status[i] = "queued" /\ msg[i] = "ready" ~> status[i] # "queued"

-----------------------------------------------------------------------------
(* Inductive strengthenings; PgBossJobQueueProofs proves the safety        *)
(* properties above from them.                                             *)

(* A row is committed by the return of its enqueue(), its message sent     *)
(* before that.                                                            *)
TxnInv ==
  \A i \in Id :
    /\ call[i] = "unused" <=> input[i] = None
    /\ call[i] # "returned" => status[i] = "none" /\ result[i] = None
    /\ call[i] \in {"unused", "begun", "open"} => msg[i] = "none"

(* The slot index, entries of open transactions included.                  *)
SlotInv ==
  /\ OneActiveRoot
  /\ \A i, j \in Id :
       call[i] \in InTxn /\ SameSlot(i, j) /\ i # j
         => call[j] \notin InTxn /\ status[j] \notin Active

(* The key index likewise, and what its answers refer to.                  *)
KeyEntry(i) == status[i] # "none" \/ call[i] \in InTxn
KeyInv ==
  /\ \A i, j \in Id : KeyEntry(i) /\ KeyEntry(j) /\ SameKey(i, j) => i = j
  /\ \A i \in Id : result[i] \in Id =>
       /\ status[result[i]] # "none"
       /\ result[i] = i \/ SameKey(i, result[i])

(* A job not yet started has one delivery at most that could start it, and *)
(* that delivery holds the message; a started one has one live handler at  *)
(* most, whose row says running.                                           *)
StartInv ==
  /\ \A i \in startedAt : status[i] \notin {"none", "queued"}
  /\ \A i \in Id : status[i] = "cancelled" /\ i \notin startedAt => i \in cancelReq
  /\ \A n \in Node, i \in Id :
       /\ attempt[n][i] \in Started => i \in startedAt /\ status[i] = "running"
       /\ attempt[n][i] = "selected" =>
            i \notin startedAt /\ status[i] \in {"queued", "cancelled"}
       /\ attempt[n][i] \in Delivered /\ i \notin startedAt => msg[i] = "active"
       /\ \A m \in Node : n # m =>
            /\ attempt[n][i] \in Delivered /\ attempt[m][i] \in Delivered
                 => i \in startedAt
            /\ attempt[n][i] \in Started => attempt[m][i] \notin Started

(* The inductive invariant.                                                *)
IInv == TypeOK /\ TxnInv /\ SlotInv /\ KeyInv /\ StartInv

-----------------------------------------------------------------------------
(* Claims of the repository that the code does not keep *)

(* jobs/pg-boss.ts: pg-boss owns execution and retry, so a job whose       *)
(* process died is run again and ends.                                     *)
RunningJobEnds ==
  \A i \in Id : status[i] = "running" ~> status[i] \in Final

(* jobs/pg-boss.ts, #runOne: with the row missing there is nothing to do,  *)
(* so every queued job still leaves `queued`.                              *)
QueuedJobLeaves ==
  \A i \in Id : status[i] = "queued" ~> status[i] # "queued"
=============================================================================
