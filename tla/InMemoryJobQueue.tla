-------------------------- MODULE InMemoryJobQueue --------------------------
(***************************************************************************)
(* The job queue used without a database (jobs/in-memory.ts) and the event *)
(* stream of one job (jobs/routes.ts, GET /:id/events).  JavaScript runs   *)
(* each stretch between two awaits without interruption, so every action   *)
(* is one such stretch.  One stream per job is enough: streams share       *)
(* nothing.                                                                *)
(***************************************************************************)
CONSTANTS
  Id, Collection, Key,
  None,         \* an absent parent, key or record
  Watched       \* bound: the jobs whose event stream is opened

ASSUME WatchedAssumption == Watched \subseteq Id
ASSUME NoneAssumption == None \notin Id \cup Collection \cup Key

VARIABLES
  status,       \* "none" before enqueue() creates the record
  input,        \* the arguments the record keeps
  cancelReq,    \* records whose cancelRequestedAt is set
  index,        \* #idempotencyIndex
  started,      \* #started
  microtasks,   \* ids whose #dispatch is scheduled
  controllers,  \* ids in #abortControllers
  aborted,      \* ids whose signal has fired
  stream,       \* how far the event stream of a job got
  seen          \* the last status the stream sent

queue == <<status, input, cancelReq, index, started, microtasks, controllers, aborted>>
vars == <<status, input, cancelReq, index, started, microtasks,
          controllers, aborted, stream, seen>>

Active == {"queued", "running"}
Final == {"succeeded", "failed", "cancelled"}
Status == {"none"} \cup Active \cup Final
Input == [coll : Collection, parent : Id \cup {None}, key : Key \cup {None},
          handled : BOOLEAN]

TypeOK ==
  /\ status \in [Id -> Status]
  /\ input \in [Id -> Input \cup {None}]
  /\ cancelReq \subseteq Id
  /\ index \in [Key -> Id \cup {None}]
  /\ started \in BOOLEAN
  /\ microtasks \subseteq Id
  /\ controllers \subseteq Id
  /\ aborted \subseteq Id
  /\ stream \in [Id -> {"unopened", "read", "listening", "closed"}]
  /\ seen \in [Id -> Status]

Init ==
  /\ status = [i \in Id |-> "none"]
  /\ input = [i \in Id |-> None]
  /\ cancelReq = {}
  /\ index = [k \in Key |-> None]
  /\ started = FALSE
  /\ microtasks = {}
  /\ controllers = {}
  /\ aborted = {}
  /\ stream = [i \in Id |-> "unopened"]
  /\ seen = [i \in Id |-> "none"]

-----------------------------------------------------------------------------
\* Mutant: only the final snapshot is sent.
EmitFinal(i, s) ==
  IF stream[i] = "listening" /\ s \in Final
  THEN seen' = [seen EXCEPT ![i] = s] /\ stream' = [stream EXCEPT ![i] = "closed"]
  ELSE UNCHANGED <<seen, stream>>

\* #emit: a listening stream is sent the snapshot, and closes on a final one.
Emit(i, s) ==
  IF stream[i] = "listening"
  THEN /\ seen' = [seen EXCEPT ![i] = s]
       /\ stream' = [stream EXCEPT ![i] = IF s \in Final THEN "closed" ELSE @]
  ELSE UNCHANGED <<seen, stream>>

IsRoot(i) == input[i] # None /\ input[i].parent = None

\* Mutant: a running root does not count.
HasQueuedRoot(c) == \E i \in Id : IsRoot(i) /\ input[i].coll = c /\ status[i] = "queued"

HasActiveRoot(c) ==
  \E i \in Id : IsRoot(i) /\ input[i].coll = c /\ status[i] \in Active

\* Roots are enqueued by routes, children by the handler of a running root.
Legal(in) ==
  \/ in.parent = None /\ in.key = None
  \/ /\ in.parent \in Id /\ in.key \in Key
     /\ status[in.parent] = "running" /\ IsRoot(in.parent)
     /\ in.coll = input[in.parent].coll

\* The index learns the key of a record that has one; the mutant indexes
\* a record without a key too.
IndexAlways(i, in) == index' = [k \in Key \cup {in.key} |-> IF k = in.key THEN i ELSE index[k]]
Indexed(i, in) == index' = [k \in Key |-> IF k = in.key THEN i ELSE index[k]]

\* A known key or a busy collection leaves the queue as it is.
Enqueue(i, in) ==
  /\ status[i] = "none" /\ Legal(in)
  /\ in.key # None => index[in.key] = None
  /\ in.parent = None => ~HasActiveRoot(in.coll)
  /\ status' = [status EXCEPT ![i] = "queued"]
  /\ input' = [input EXCEPT ![i] = in]
  /\ Indexed(i, in)
  /\ microtasks' = IF started THEN microtasks \cup {i} ELSE microtasks
  /\ UNCHANGED <<cancelReq, started, controllers, aborted, stream, seen>>

Cancel(i) ==
  /\ status[i] \in Active
  /\ LET s == IF status[i] = "queued" THEN "cancelled" ELSE status[i]
     IN status' = [status EXCEPT ![i] = s] /\ Emit(i, s)
  /\ cancelReq' = cancelReq \cup {i}
  /\ aborted' = aborted \cup ({i} \cap controllers)
  /\ UNCHANGED <<input, index, started, microtasks, controllers>>

-----------------------------------------------------------------------------
(* #dispatch *)

DispatchStale(i) ==
  /\ i \in microtasks /\ status[i] # "queued"
  /\ microtasks' = microtasks \ {i}
  /\ UNCHANGED <<status, input, cancelReq, index, started, controllers,
                 aborted, stream, seen>>

\* No handler is registered for the type: the record fails, nobody is told.
DispatchUnhandled(i) ==
  /\ i \in microtasks /\ status[i] = "queued" /\ ~input[i].handled
  /\ microtasks' = microtasks \ {i}
  /\ status' = [status EXCEPT ![i] = "failed"]
  /\ UNCHANGED <<input, cancelReq, index, started, controllers, aborted, stream, seen>>

\* Mutant: a job whose microtask runs after stop() waits for the next start().
DispatchStarted(i) ==
  /\ started /\ i \in microtasks /\ status[i] = "queued" /\ input[i].handled
  /\ microtasks' = microtasks \ {i}
  /\ status' = [status EXCEPT ![i] = "running"]
  /\ controllers' = controllers \cup {i}
  /\ aborted' = aborted \cup ({i} \cap cancelReq)
  /\ Emit(i, "running")
  /\ UNCHANGED <<input, cancelReq, index, started>>

Dispatch(i) ==
  /\ i \in microtasks /\ status[i] = "queued" /\ input[i].handled
  /\ microtasks' = microtasks \ {i}
  /\ status' = [status EXCEPT ![i] = "running"]
  /\ controllers' = controllers \cup {i}
  /\ aborted' = aborted \cup ({i} \cap cancelReq)
  /\ Emit(i, "running")
  /\ UNCHANGED <<input, cancelReq, index, started>>

\* The handler returns or throws.
HandlerEnds(i) ==
  /\ status[i] = "running"
  /\ \E s \in {"succeeded", "failed"} :
       LET outcome == IF i \in aborted THEN "cancelled" ELSE s
       IN status' = [status EXCEPT ![i] = outcome] /\ Emit(i, outcome)
  /\ controllers' = controllers \ {i}
  /\ UNCHANGED <<input, cancelReq, index, started, microtasks, aborted>>

StartQueue ==
  /\ ~started
  /\ started' = TRUE
  /\ UNCHANGED <<status, input, cancelReq, index, microtasks, controllers,
                 aborted, stream, seen>>

\* Mutant: the controllers are forgotten without being aborted.
StopForgets ==
  /\ started
  /\ started' = FALSE
  /\ controllers' = {}
  /\ UNCHANGED <<status, input, cancelReq, index, microtasks, aborted, stream, seen>>

StopQueue ==
  /\ started
  /\ started' = FALSE
  /\ aborted' = aborted \cup controllers
  /\ controllers' = {}
  /\ UNCHANGED <<status, input, cancelReq, index, microtasks, stream, seen>>

-----------------------------------------------------------------------------
(* GET /:id/events: get(), send the snapshot, subscribe(), hold open *)

OpenStream(i) ==
  /\ i \in Watched /\ stream[i] = "unopened" /\ status[i] # "none"
  /\ stream' = [stream EXCEPT ![i] = "read"]
  /\ seen' = [seen EXCEPT ![i] = status[i]]
  /\ UNCHANGED queue

\* The stream closes by itself when the snapshot it sent was already final.
Subscribe(i) ==
  /\ stream[i] = "read"
  /\ stream' = [stream EXCEPT ![i] = IF seen[i] \in Final THEN "closed" ELSE "listening"]
  /\ UNCHANGED <<queue, seen>>

Disconnect(i) ==
  /\ stream[i] = "listening"
  /\ stream' = [stream EXCEPT ![i] = "closed"]
  /\ UNCHANGED <<queue, seen>>

-----------------------------------------------------------------------------
RunJob(i) == DispatchStale(i) \/ DispatchUnhandled(i) \/ Dispatch(i) \/ HandlerEnds(i)

Next ==
  \/ StartQueue \/ StopQueue
  \/ \E i \in Id :
       \/ \E in \in Input : Enqueue(i, in)
       \/ Cancel(i) \/ RunJob(i)
       \/ OpenStream(i) \/ Subscribe(i) \/ Disconnect(i)

Spec == Init /\ [][Next]_vars

\* Microtasks run, handlers end, a stream that was opened gets to subscribe.
Fairness == \A i \in Id : WF_vars(RunJob(i)) /\ WF_vars(Subscribe(i))

FairSpec == Spec /\ Fairness

-----------------------------------------------------------------------------
(* Properties *)

(* The queue keeps the promise of JobLifecycle: final statuses stay, and   *)
(* one root job at most occupies a collection.                             *)
Lifecycle ==
  INSTANCE JobLifecycle WITH
    rootOf <- [i \in Id |-> IF IsRoot(i) THEN input[i].coll ELSE "none"]
ImplementsLifecycle == Lifecycle!Spec

(* A cancel that was accepted is kept: whatever stop(), start() and the    *)
(* handler do afterwards, the job can only end cancelled.                  *)
CancelIsKept ==
  \A i \in cancelReq : status[i] \in {"running", "cancelled"}

(* A subscribed stream is told of every change of status, save for a job   *)
(* that fails because its type has no handler.                             *)
StreamHears ==
  [][\A i \in Id :
       stream[i] = "listening" /\ status'[i] # status[i] /\ input[i].handled
         => seen'[i] = status'[i]]_vars

(* A job enqueued while the queue is started ends, whatever else happens.  *)
ScheduledJobEnds ==
  \A i \in Id : i \in microtasks ~> status[i] \in Final
=============================================================================
