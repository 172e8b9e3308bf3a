----------------------- MODULE PgBossJobQueueProofs -----------------------
(***************************************************************************)
(* Proofs about the durable job queue, for every set of jobs, processes,   *)
(* collections and keys and every bound on retries and faults.             *)
(***************************************************************************)
EXTENDS PgBossJobQueue, TLAPS

(* Every step that is not a stutter is one of these; the lemmas below have *)
(* one case for each.                                                      *)
IdStep(i) == Enqueue(i) \/ Cancel(i) \/ Expire(i)
NodeIdStep(n, i) ==
  RunOne(n, i) \/ Fetch(n, i) \/ Abort(n, i) \/ \E in \in Input : Begin(n, i, in)
NodeStep(n) == Stop(n) \/ Exit(n) \/ Crash(n)

(* The bounds are numbers. *)
LEMMA LimitsAreNat == RetryLimit \in Nat /\ MaxFaults \in Nat
BY LimitAssumption DEF LimitAssumption

(* Giving up on a delivery, or acknowledging it, keeps the types of the    *)
(* pg-boss state.                                                          *)
LEMMA RedeliverType ==
  ASSUME NEW i \in Id, TypeOK, Redeliver(i)
  PROVE  /\ msg' \in [Id -> {"none", "ready", "active", "done", "dead"}]
         /\ tries' \in [Id -> 0..RetryLimit]
<1>1. CASE msg[i] = "active" /\ tries[i] < RetryLimit
  <2>1. tries[i] + 1 \in 0..RetryLimit
    BY <1>1, LimitsAreNat DEF TypeOK
  <2> QED BY <1>1, <2>1 DEF TypeOK, Redeliver
<1>2. CASE ~(msg[i] = "active" /\ tries[i] < RetryLimit)
  BY <1>2 DEF TypeOK, Redeliver, boss
<1> QED BY <1>1, <1>2

(* A delivery that moves on to a known stage keeps the type of attempt.    *)
LEMMA StageType ==
  ASSUME NEW n \in Node, NEW i \in Id, TypeOK,
         NEW s \in {"none"} \cup Delivered \cup Started, Stage(n, i, s)
  PROVE  attempt' \in [Node -> [Id -> {"none"} \cup Delivered \cup Started]]
  BY DEF TypeOK, Stage

(* The state variables keep the types of the rows, messages and maps they  *)
(* stand for, in every step of enqueue(), #runOne, cancel() and stop().    *)
LEMMA TypeStep ==
  ASSUME TypeOK, [Next]_vars
  PROVE  TypeOK'
<1> USE DEF TypeOK, table, boss, enq, proc
<1>1. ASSUME NEW i \in Id, IdStep(i) PROVE TypeOK'
  <2>1. CASE Expire(i)
    BY <2>1, RedeliverType DEF Expire
  <2>2. CASE Cancel(i)
    BY <2>2 DEF Cancel, Active, Final
  <2>3. CASE FastPath(i)
    BY <2>3 DEF FastPath, Return, KeyHolders
  <2>4. CASE Insert(i)
    BY <2>4 DEF Insert
  <2>5. CASE InsertBusy(i)
    BY <2>5 DEF InsertBusy, Return
  <2>6. CASE InsertDuplicate(i)
    BY <2>6 DEF InsertDuplicate, Return, KeyHolders
  <2>7. CASE Send(i)
    BY <2>7 DEF Send
  <2>8. CASE Commit(i)
    BY <2>8 DEF Commit, Return, Active
  <2>9. CASE RollBack(i)
    BY <2>9 DEF RollBack, Return
  <2> QED BY <1>1, <2>1, <2>2, <2>3, <2>4, <2>5, <2>6, <2>7, <2>8, <2>9
          DEF IdStep, Enqueue
<1>2. ASSUME NEW n \in Node, NEW i \in Id, NodeIdStep(n, i) PROVE TypeOK'
  <2> USE DEF Stage, Delivered, Started, Returned, Caught
  <2>1. CASE SkipDelivery(n, i)
    BY <2>1 DEF SkipDelivery, Acknowledge
  <2>2. CASE SelectQueued(n, i)
    BY <2>2 DEF SelectQueued
  <2>3. CASE MarkRunning(n, i)
    BY <2>3 DEF MarkRunning, Active
  <2>4. CASE MarkRunningFails(n, i)
    <3>1. faults' \in 0..MaxFaults
      BY <2>4, LimitsAreNat DEF MarkRunningFails, Fault
    <3> QED BY <2>4, <3>1, RedeliverType DEF MarkRunningFails
  <2>5. CASE HandlerEnds(n, i)
    <3>1. PICK s \in Returned \cup Caught : Stage(n, i, s)
      BY <2>5 DEF HandlerEnds
    <3>2. attempt' \in [Node -> [Id -> {"none"} \cup Delivered \cup Started]]
      BY <3>1, StageType
    <3> QED BY <2>5, <3>2 DEF HandlerEnds
  <2>6. CASE Finalize(n, i)
    BY <2>6 DEF Finalize, Acknowledge, Outcome, Final
  <2>7. CASE FinalizeRetried(n, i)
    BY <2>7, LimitsAreNat DEF FinalizeRetried, Fault
  <2>8. CASE FinalizeLost(n, i)
    BY <2>8, RedeliverType, LimitsAreNat DEF FinalizeLost, Fault
  <2>9. CASE Fetch(n, i)
    BY <2>9 DEF Fetch
  <2>10. CASE Abort(n, i)
    BY <2>10 DEF Abort
  <2>11. CASE \E in \in Input : Begin(n, i, in)
    BY <2>11 DEF Begin
  <2> QED BY <1>2, <2>1, <2>2, <2>3, <2>4, <2>5, <2>6, <2>7, <2>8, <2>9, <2>10, <2>11
          DEF NodeIdStep, RunOne
<1>3. ASSUME NEW n \in Node, NodeStep(n) PROVE TypeOK'
  <2>1. CASE Stop(n)
    BY <2>1, LimitsAreNat DEF Stop, Fault
  <2>2. CASE Exit(n)
    BY <2>2 DEF Exit, Restart
  <2>3. CASE Crash(n)
    BY <2>3, LimitsAreNat DEF Crash, Restart, Fault
  <2> QED BY <1>3, <2>1, <2>2, <2>3 DEF NodeStep
<1>4. CASE UNCHANGED vars
  BY <1>4 DEF vars
<1> QED BY <1>1, <1>2, <1>3, <1>4 DEF Next, IdStep, NodeIdStep, NodeStep

(* TypeOK holds in every state the queue reaches.                          *)
THEOREM TypeCorrect == Spec => []TypeOK
<1>1. Init => TypeOK
  BY LimitsAreNat DEF Init, TypeOK
<1> QED BY <1>1, TypeStep, PTL DEF Spec
(* A row appears in the table only when its enqueue() returns. *)
LEMMA TxnStep ==
  ASSUME TypeOK, TxnInv, StartInv, [Next]_vars
  PROVE  TxnInv'
<1> USE DEF TypeOK, TxnInv, StartInv, InTxn, table, boss, enq, proc
<1>1. ASSUME NEW i \in Id, IdStep(i) PROVE TxnInv'
  <2>1. CASE FastPath(i)
    BY <2>1 DEF FastPath, Return
  <2>2. CASE Insert(i)
    BY <2>2 DEF Insert
  <2>3. CASE InsertBusy(i)
    BY <2>3 DEF InsertBusy, Return
  <2>4. CASE InsertDuplicate(i)
    BY <2>4 DEF InsertDuplicate, Return
  <2>5. CASE Send(i)
    BY <2>5 DEF Send
  <2>6. CASE Commit(i)
    BY <2>6 DEF Commit, Return
  <2>7. CASE RollBack(i)
    BY <2>7 DEF RollBack, Return, InTxn
  <2>8. CASE Cancel(i)
    BY <2>8 DEF Cancel, Active
  <2>9. CASE Expire(i)
    BY <2>9 DEF Expire, Redeliver
  <2> QED BY <1>1, <2>1, <2>2, <2>3, <2>4, <2>5, <2>6, <2>7, <2>8, <2>9
          DEF IdStep, Enqueue
<1>2. ASSUME NEW n \in Node, NEW i \in Id, NodeIdStep(n, i) PROVE TxnInv'
  <2>1. CASE SkipDelivery(n, i)
    BY <2>1 DEF SkipDelivery, Acknowledge, Stage
  <2>2. CASE SelectQueued(n, i)
    BY <2>2 DEF SelectQueued, Stage
  <2>3. CASE MarkRunning(n, i)
    BY <2>3 DEF MarkRunning, Stage
  <2>4. CASE MarkRunningFails(n, i)
    BY <2>4 DEF MarkRunningFails, Redeliver, Stage
  <2>5. CASE HandlerEnds(n, i)
    BY <2>5 DEF HandlerEnds, Stage
  <2>6. CASE Finalize(n, i)
    BY <2>6 DEF Finalize, Acknowledge, Stage, Started, Outcome
  <2>7. CASE FinalizeRetried(n, i)
    BY <2>7 DEF FinalizeRetried, Stage
  <2>8. CASE FinalizeLost(n, i)
    BY <2>8 DEF FinalizeLost, Redeliver, Stage
  <2>9. CASE Fetch(n, i)
    BY <2>9 DEF Fetch
  <2>10. CASE Abort(n, i)
    BY <2>10 DEF Abort
  <2>11. CASE \E in \in Input : Begin(n, i, in)
    BY <2>11, NoneAssumption DEF Begin, NoneAssumption
  <2> QED BY <1>2, <2>1, <2>2, <2>3, <2>4, <2>5, <2>6, <2>7, <2>8, <2>9, <2>10, <2>11
          DEF NodeIdStep, RunOne
<1>3. ASSUME NEW n \in Node, NodeStep(n) PROVE TxnInv'
  <2>1. CASE Stop(n)
    BY <2>1 DEF Stop
  <2>2. CASE Exit(n)
    BY <2>2 DEF Exit, Restart, InProgress
  <2>3. CASE Crash(n)
    BY <2>3 DEF Crash, Restart, InProgress
  <2> QED BY <1>3, <2>1, <2>2, <2>3 DEF NodeStep
<1>4. CASE UNCHANGED vars
  BY <1>4 DEF vars
<1> QED BY <1>1, <1>2, <1>3, <1>4 DEF Next, IdStep, NodeIdStep, NodeStep

(* The slot index admits neither a second root nor its resurrection. *)
LEMMA SlotStep ==
  ASSUME TypeOK, TxnInv, SlotInv, StartInv, [Next]_vars
  PROVE  SlotInv'
<1> USE DEF TypeOK, TxnInv, SlotInv, StartInv, OneActiveRoot, InTxn, SameSlot, Active, table, boss, enq, proc
<1>1. ASSUME NEW i \in Id, IdStep(i) PROVE SlotInv'
  <2>1. CASE FastPath(i)
    BY <2>1 DEF FastPath, Return
  <2>2. CASE Insert(i)
    BY <2>2 DEF Insert, WaitsForSlot, SlotHolders
  <2>3. CASE InsertBusy(i)
    BY <2>3 DEF InsertBusy, Return
  <2>4. CASE InsertDuplicate(i)
    BY <2>4 DEF InsertDuplicate, Return
  <2>5. CASE Send(i)
    BY <2>5 DEF Send
  <2>6. CASE Commit(i)
    BY <2>6 DEF Commit, Return
  <2>7. CASE RollBack(i)
    BY <2>7 DEF RollBack, Return
  <2>8. CASE Cancel(i)
    BY <2>8 DEF Cancel
  <2>9. CASE Expire(i)
    BY <2>9 DEF Expire
  <2> QED BY <1>1, <2>1, <2>2, <2>3, <2>4, <2>5, <2>6, <2>7, <2>8, <2>9
          DEF IdStep, Enqueue
<1>2. ASSUME NEW n \in Node, NEW i \in Id, NodeIdStep(n, i) PROVE SlotInv'
  <2>1. CASE SkipDelivery(n, i)
    BY <2>1 DEF SkipDelivery
  <2>2. CASE SelectQueued(n, i)
    BY <2>2 DEF SelectQueued
  <2>3. CASE MarkRunning(n, i)
    BY <2>3 DEF MarkRunning, WaitsForSlot, SlotHolders
  <2>4. CASE MarkRunningFails(n, i)
    BY <2>4 DEF MarkRunningFails
  <2>5. CASE HandlerEnds(n, i)
    BY <2>5 DEF HandlerEnds
  <2>6. CASE Finalize(n, i)
    BY <2>6 DEF Finalize, Outcome, Started
  <2>7. CASE FinalizeRetried(n, i)
    BY <2>7 DEF FinalizeRetried
  <2>8. CASE FinalizeLost(n, i)
    BY <2>8 DEF FinalizeLost
  <2>9. CASE Fetch(n, i)
    BY <2>9 DEF Fetch
  <2>10. CASE Abort(n, i)
    BY <2>10 DEF Abort
  <2>11. CASE \E in \in Input : Begin(n, i, in)
    <3>1. PICK in \in Input : Begin(n, i, in)
      BY <2>11
    <3>2. /\ status[i] = "none" /\ call'[i] = "begun"
          /\ UNCHANGED status
          /\ \A j \in Id \ {i} : call'[j] = call[j] /\ input'[j] = input[j]
      BY <3>1 DEF Begin
    <3>3. \A j, k \in Id \ {i} : SameSlot(j, k)' <=> SameSlot(j, k)
      BY <3>2
    <3> HIDE DEF SameSlot
    <3>4. ASSUME NEW j \in Id, NEW k \in Id, SameSlot(j, k)', j # k,
                 status'[j] \in Active, status'[k] \in Active
          PROVE  FALSE
      <4>1. j # i /\ k # i
        BY <3>2, <3>4
      <4> QED BY <3>2, <3>3, <3>4, <4>1
    <3>5. ASSUME NEW j \in Id, NEW k \in Id, SameSlot(j, k)', j # k, call'[j] \in InTxn
          PROVE  call'[k] \notin InTxn /\ status'[k] \notin Active
      <4>1. j # i
        BY <3>2, <3>5
      <4>2. CASE k = i
        BY <3>2, <4>2
      <4>3. CASE k # i
        BY <3>2, <3>3, <3>5, <4>1, <4>3
      <4> QED BY <4>2, <4>3
    <3> QED BY <3>4, <3>5
  <2> QED BY <1>2, <2>1, <2>2, <2>3, <2>4, <2>5, <2>6, <2>7, <2>8, <2>9, <2>10, <2>11
          DEF NodeIdStep, RunOne
<1>3. ASSUME NEW n \in Node, NodeStep(n) PROVE SlotInv'
  <2>1. CASE Stop(n)
    BY <2>1 DEF Stop
  <2>2. CASE Exit(n)
    BY <2>2 DEF Exit, Restart, InProgress
  <2>3. CASE Crash(n)
    BY <2>3 DEF Crash, Restart, InProgress
  <2> QED BY <1>3, <2>1, <2>2, <2>3 DEF NodeStep
<1>4. CASE UNCHANGED vars
  BY <1>4 DEF vars
<1> QED BY <1>1, <1>2, <1>3, <1>4 DEF Next, IdStep, NodeIdStep, NodeStep

(* The transactions a dying process loses leave nothing in the key index.  *)
LEMMA RestartKeepsKeys ==
  ASSUME TypeOK, KeyInv, NEW n \in Node, Restart(n)
  PROVE  KeyInv'
<1>1. /\ UNCHANGED <<input, status>>
      /\ \A i \in Id : call'[i] \in InTxn => call[i] \in InTxn
  BY DEF TypeOK, Restart, table, InTxn
<1>2. \A i \in Id : result'[i] \in Id => result'[i] = result[i]
  BY NoneAssumption DEF TypeOK, Restart, NoneAssumption
<1>3. \A i, j \in Id : SameKey(i, j)' <=> SameKey(i, j)
  BY <1>1 DEF SameKey
<1>4. \A i \in Id : KeyEntry(i)' => KeyEntry(i)
  BY <1>1 DEF KeyEntry, InTxn
<1> QED BY <1>1, <1>2, <1>3, <1>4 DEF KeyInv

(* The key index gives every key one row, and callers are told of it. *)
LEMMA KeyStep ==
  ASSUME TypeOK, TxnInv, KeyInv, StartInv, [Next]_vars
  PROVE  KeyInv'
<1> USE DEF TypeOK, TxnInv, KeyInv, StartInv, KeyEntry, InTxn, SameKey, table, boss, enq, proc
<1>1. ASSUME NEW i \in Id, IdStep(i) PROVE KeyInv'
  <2>1. CASE FastPath(i)
    BY <2>1 DEF FastPath, Return, KeyHolders
  <2>2. CASE Insert(i)
    BY <2>2 DEF Insert, WaitsForKey, KeyHolders
  <2>3. CASE InsertBusy(i)
    BY <2>3, NoneAssumption DEF InsertBusy, Return, NoneAssumption
  <2>4. CASE InsertDuplicate(i)
    BY <2>4 DEF InsertDuplicate, Return, KeyHolders
  <2>5. CASE Send(i)
    BY <2>5 DEF Send
  <2>6. CASE Commit(i)
    BY <2>6 DEF Commit, Return
  <2>7. CASE RollBack(i)
    BY <2>7, NoneAssumption DEF RollBack, Return, NoneAssumption
  <2>8. CASE Cancel(i)
    BY <2>8 DEF Cancel, Active
  <2>9. CASE Expire(i)
    BY <2>9 DEF Expire
  <2> QED BY <1>1, <2>1, <2>2, <2>3, <2>4, <2>5, <2>6, <2>7, <2>8, <2>9
          DEF IdStep, Enqueue
<1>2. ASSUME NEW n \in Node, NEW i \in Id, NodeIdStep(n, i) PROVE KeyInv'
  <2>1. CASE SkipDelivery(n, i)
    BY <2>1 DEF SkipDelivery
  <2>2. CASE SelectQueued(n, i)
    BY <2>2 DEF SelectQueued
  <2>3. CASE MarkRunning(n, i)
    <3>1. /\ status[i] # "none" /\ status' = [status EXCEPT ![i] = "running"]
          /\ UNCHANGED enq
      BY <2>3 DEF MarkRunning
    <3>2. \A j \in Id : status'[j] # "none" <=> status[j] # "none"
      BY <3>1
    <3> QED BY <3>1, <3>2
  <2>4. CASE MarkRunningFails(n, i)
    BY <2>4 DEF MarkRunningFails
  <2>5. CASE HandlerEnds(n, i)
    BY <2>5 DEF HandlerEnds
  <2>6. CASE Finalize(n, i)
    <3>1. /\ status[i] # "none"
          /\ status' = [status EXCEPT ![i] = Outcome(attempt[n][i])]
          /\ Outcome(attempt[n][i]) # "none"
          /\ UNCHANGED enq
      BY <2>6 DEF Finalize, Outcome, Started, Returned, Caught
    <3>2. \A j \in Id : status'[j] # "none" <=> status[j] # "none"
      BY <3>1
    <3> QED BY <3>1, <3>2
  <2>7. CASE FinalizeRetried(n, i)
    BY <2>7 DEF FinalizeRetried
  <2>8. CASE FinalizeLost(n, i)
    BY <2>8 DEF FinalizeLost
  <2>9. CASE Fetch(n, i)
    BY <2>9 DEF Fetch
  <2>10. CASE Abort(n, i)
    BY <2>10 DEF Abort
  <2>11. CASE \E in \in Input : Begin(n, i, in)
    BY <2>11, NoneAssumption DEF Begin, NoneAssumption
  <2> QED BY <1>2, <2>1, <2>2, <2>3, <2>4, <2>5, <2>6, <2>7, <2>8, <2>9, <2>10, <2>11
          DEF NodeIdStep, RunOne
<1>3. ASSUME NEW n \in Node, NodeStep(n) PROVE KeyInv'
  <2>1. CASE Stop(n)
    BY <2>1 DEF Stop
  <2>2. CASE Exit(n)
    BY <2>2, RestartKeepsKeys DEF Exit
  <2>3. CASE Crash(n)
    BY <2>3, RestartKeepsKeys DEF Crash
  <2> QED BY <1>3, <2>1, <2>2, <2>3 DEF NodeStep
<1>4. CASE UNCHANGED vars
  BY <1>4 DEF vars
<1> QED BY <1>1, <1>2, <1>3, <1>4 DEF Next, IdStep, NodeIdStep, NodeStep

(* No second delivery can reach the UPDATE that starts a job. *)
LEMMA StartStep ==
  ASSUME TypeOK, TxnInv, StartInv, [Next]_vars
  PROVE  StartInv'
<1> USE DEF TypeOK, TxnInv, StartInv, Delivered, Started, Returned, Caught, Stage, table, boss, enq, proc
<1>1. ASSUME NEW i \in Id, IdStep(i) PROVE StartInv'
  <2>1. CASE FastPath(i)
    BY <2>1 DEF FastPath, Return
  <2>2. CASE Insert(i)
    BY <2>2 DEF Insert
  <2>3. CASE InsertBusy(i)
    BY <2>3 DEF InsertBusy, Return
  <2>4. CASE InsertDuplicate(i)
    BY <2>4 DEF InsertDuplicate, Return
  <2>5. CASE Send(i)
    BY <2>5 DEF Send
  <2>6. CASE Commit(i)
    BY <2>6 DEF Commit, Return
  <2>7. CASE RollBack(i)
    BY <2>7 DEF RollBack, Return, InTxn
  <2>8. CASE Cancel(i)
    BY <2>8 DEF Cancel, Active
  <2>9. CASE Expire(i)
    BY <2>9 DEF Expire, Redeliver
  <2> QED BY <1>1, <2>1, <2>2, <2>3, <2>4, <2>5, <2>6, <2>7, <2>8, <2>9
          DEF IdStep, Enqueue
<1>2. ASSUME NEW n \in Node, NEW i \in Id, NodeIdStep(n, i) PROVE StartInv'
  <2>1. CASE SkipDelivery(n, i)
    BY <2>1 DEF SkipDelivery, Acknowledge, Startable
  <2>2. CASE SelectQueued(n, i)
    BY <2>2 DEF SelectQueued, Startable
  <2>3. CASE MarkRunning(n, i)
    BY <2>3 DEF MarkRunning
  <2>4. CASE MarkRunningFails(n, i)
    BY <2>4 DEF MarkRunningFails, Redeliver
  <2>5. CASE HandlerEnds(n, i)
    <3>1. PICK s \in Returned \cup Caught : Stage(n, i, s)
      BY <2>5 DEF HandlerEnds
    <3>2. attempt[n][i] = "handler" /\ UNCHANGED <<table, boss, enq>>
      BY <2>5 DEF HandlerEnds
    <3> QED BY <3>1, <3>2
  <2>6. CASE Finalize(n, i)
    BY <2>6 DEF Finalize, Acknowledge, Outcome
  <2>7. CASE FinalizeRetried(n, i)
    BY <2>7 DEF FinalizeRetried
  <2>8. CASE FinalizeLost(n, i)
    BY <2>8 DEF FinalizeLost, Redeliver
  <2>9. CASE Fetch(n, i)
    BY <2>9 DEF Fetch
  <2>10. CASE Abort(n, i)
    BY <2>10 DEF Abort
  <2>11. CASE \E in \in Input : Begin(n, i, in)
    BY <2>11 DEF Begin
  <2> QED BY <1>2, <2>1, <2>2, <2>3, <2>4, <2>5, <2>6, <2>7, <2>8, <2>9, <2>10, <2>11
          DEF NodeIdStep, RunOne
<1>3. ASSUME NEW n \in Node, NodeStep(n) PROVE StartInv'
  <2>1. CASE Stop(n)
    BY <2>1 DEF Stop
  <2>2. CASE Exit(n)
    BY <2>2 DEF Exit, Restart
  <2>3. CASE Crash(n)
    BY <2>3 DEF Crash, Restart
  <2> QED BY <1>3, <2>1, <2>2, <2>3 DEF NodeStep
<1>4. CASE UNCHANGED vars
  BY <1>4 DEF vars
<1> QED BY <1>1, <1>2, <1>3, <1>4 DEF Next, IdStep, NodeIdStep, NodeStep

-----------------------------------------------------------------------------
(* IInv holds in every state the queue reaches.                            *)
THEOREM Invariance == Spec => []IInv
<1>1. Init => IInv
  <2>1. Init => TypeOK
    BY LimitsAreNat DEF Init, TypeOK
  <2>2. Init => TxnInv /\ SlotInv /\ StartInv
    BY DEF Init, TxnInv, SlotInv, StartInv, OneActiveRoot, Active, InTxn, Delivered,
           Started, Returned, Caught
  <2>3. Init => KeyInv
    BY NoneAssumption DEF Init, KeyInv, KeyEntry, InTxn, NoneAssumption
  <2> QED BY <2>1, <2>2, <2>3 DEF IInv
<1>2. IInv /\ [Next]_vars => IInv'
  BY TypeStep, TxnStep, SlotStep, KeyStep, StartStep DEF IInv
<1> QED BY <1>1, <1>2, PTL DEF Spec

(* One mutating root job per collection, for any number of servers,        *)
(* collections and jobs: racing inserts, cancels and late starts included. *)
THEOREM OneActiveRootHolds == Spec => []OneActiveRoot
<1>1. IInv => OneActiveRoot
  BY DEF IInv, SlotInv
<1> QED BY <1>1, Invariance, PTL

(* Every answer to the same idempotency key is the same job.               *)
THEOREM IdempotentEnqueueHolds == Spec => []IdempotentEnqueue
<1>1. IInv => IdempotentEnqueue
  <2>1. SUFFICES ASSUME IInv, NEW i \in Id, NEW j \in Id, SameKey(i, j),
                        result[i] \in Id, result[j] \in Id
                 PROVE  result[i] = result[j]
    BY DEF IdempotentEnqueue
  <2>2. SameKey(result[i], result[j])
    BY <2>1 DEF IInv, KeyInv, SameKey
  <2>3. KeyEntry(result[i]) /\ KeyEntry(result[j])
    BY <2>1 DEF IInv, KeyInv, KeyEntry
  <2> QED BY <2>1, <2>2, <2>3 DEF IInv, KeyInv
<1> QED BY <1>1, Invariance, PTL

(* However often pg-boss redelivers and processes die, no handler is ever  *)
(* started a second time.                                                  *)
THEOREM HandlerStartsOnceHolds == Spec => HandlerStartsOnce
<1> DEFINE Once ==
      \A n \in Node, i \in Id :
        attempt[n][i] # "handler" /\ attempt'[n][i] = "handler" => i \notin startedAt
<1>1. IInv /\ [Next]_vars => [Once]_vars
  <2>1. SUFFICES ASSUME IInv, Next, NEW n \in Node, NEW i \in Id,
                        attempt[n][i] # "handler", attempt'[n][i] = "handler"
                 PROVE  i \notin startedAt
    OBVIOUS
  <2>2. attempt[n][i] = "selected"
    <3>1. ASSUME NEW j \in Id, IdStep(j) PROVE FALSE
      BY <2>1, <3>1 DEF IdStep, Enqueue, FastPath, Insert, InsertBusy, InsertDuplicate,
                        Send, Commit, RollBack, Cancel, Expire, proc
    <3>2. ASSUME NEW m \in Node, NEW j \in Id, NodeIdStep(m, j)
          PROVE  attempt[n][i] = "selected"
      <4>1. CASE MarkRunning(m, j)
        BY <2>1, <4>1 DEF MarkRunning, Stage, IInv, TypeOK
      <4>2. CASE ~MarkRunning(m, j)
        <5>1. UNCHANGED attempt
              \/ \E s \in {"none", "fetched", "selected"} \cup Returned \cup Caught :
                   Stage(m, j, s)
          BY <3>2, <4>2 DEF NodeIdStep, RunOne, SkipDelivery, SelectQueued,
             MarkRunningFails, HandlerEnds, Finalize, FinalizeRetried, FinalizeLost,
             Fetch, Abort, Begin, proc, Returned, Caught
        <5> QED BY <2>1, <5>1 DEF Stage, IInv, TypeOK, Returned, Caught
      <4> QED BY <4>1, <4>2
    <3>3. ASSUME NEW m \in Node, NodeStep(m) PROVE FALSE
      BY <2>1, <3>3 DEF NodeStep, Stop, Exit, Crash, Restart, IInv, TypeOK
    <3> QED BY <2>1, <3>1, <3>2, <3>3 DEF Next, IdStep, NodeIdStep, NodeStep
  <2> QED BY <2>1, <2>2 DEF IInv, StartInv
<1> QED BY <1>1, Invariance, PTL DEF Spec, HandlerStartsOnce

(* Succeeded and failed rows never change; a cancelled row comes back only *)
(* through a delivery that had read it before the cancel.                  *)
THEOREM FinalRowsStayHolds == Spec => FinalRowsStay
<1> DEFINE Stay(i) ==
      status[i] \in Final /\ status'[i] # status[i] =>
        /\ status[i] = "cancelled"
        /\ i \in cancelReq
        /\ \E n \in Node : attempt[n][i] = "selected"
<1>1. IInv /\ [Next]_vars => [\A i \in Id : Stay(i)]_vars
  <2>1. SUFFICES ASSUME IInv, Next, NEW i \in Id,
                        status[i] \in Final, status'[i] # status[i]
                 PROVE  /\ status[i] = "cancelled"
                        /\ i \in cancelReq
                        /\ \E n \in Node : attempt[n][i] = "selected"
    OBVIOUS
  <2>2. ASSUME NEW j \in Id, IdStep(j) PROVE FALSE
    BY <2>1, <2>2 DEF IdStep, Enqueue, FastPath, Insert, InsertBusy, InsertDuplicate, Send,
       Commit, RollBack, Cancel, Expire, table, Final, Active, IInv, TypeOK, TxnInv
  <2>3. ASSUME NEW n \in Node, NEW j \in Id, NodeIdStep(n, j)
        PROVE  attempt[n][i] = "selected"
    <3>1. CASE MarkRunning(n, j)
      BY <2>1, <3>1 DEF MarkRunning, IInv, TypeOK
    <3>2. CASE Finalize(n, j)
      BY <2>1, <3>2 DEF Finalize, IInv, TypeOK, StartInv, Started, Final
    <3>3. CASE ~MarkRunning(n, j) /\ ~Finalize(n, j)
      BY <2>1, <2>3, <3>3 DEF NodeIdStep, RunOne, SkipDelivery, SelectQueued,
         MarkRunningFails, HandlerEnds, FinalizeRetried, FinalizeLost, Fetch, Abort,
         Begin, table
    <3> QED BY <3>1, <3>2, <3>3
  <2>4. ASSUME NEW n \in Node, NodeStep(n) PROVE FALSE
    BY <2>1, <2>4 DEF NodeStep, Stop, Exit, Crash, Restart, table
  <2>5. PICK n \in Node : attempt[n][i] = "selected"
    BY <2>1, <2>2, <2>3, <2>4 DEF Next, IdStep, NodeIdStep, NodeStep
  <2> QED BY <2>1, <2>5 DEF IInv, StartInv, Final
<1> QED BY <1>1, Invariance, PTL DEF Spec, FinalRowsStay
=============================================================================
