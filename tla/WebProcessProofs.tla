--------------------------- MODULE WebProcessProofs ---------------------------
(* The parts of a web process that MCWebProcess checks side by side, for any  *)
(* number of jobs, requests, users, sessions and heads: the job queue without *)
(* a database, the wallet sessions, the accounts and the collection cache.    *)
EXTENDS MCWebProcess, FiniteSetTheorems, TLAPS

-----------------------------------------------------------------------------
(* The job queue *)

\* A running job can be reached by stop(), or has been; a job that was asked to
\* end has been told so; and a stream is opened for a job that exists.
JobsOK ==
  /\ \A i \in Id : status[i] = "running" => i \in controllers \cup aborted
  /\ \A i \in cancelReq :
       /\ status[i] \in {"running", "cancelled"}
       /\ status[i] = "running" => i \in aborted
  /\ \A i \in Id : stream[i] # "unopened" => status[i] # "none"

JobsInv == TypeOK /\ JobsOK

LEMMA JobsInit == Init => JobsInv
BY WatchedAssumption DEF Init, JobsInv, TypeOK, JobsOK, Status, Active, Final

LEMMA EmitTypes ==
  ASSUME TypeOK, NEW i \in Id, NEW s \in Status, Emit(i, s)
  PROVE  /\ seen' \in [Id -> Status]
         /\ stream' \in [Id -> {"unopened", "read", "listening", "closed"}]
         /\ \A j \in Id : stream'[j] = "unopened" <=> stream[j] = "unopened"
         /\ \A j \in Id : j # i => stream'[j] = stream[j] /\ seen'[j] = seen[j]
         /\ stream[i] = "listening" => seen'[i] = s
<1>1. CASE stream[i] = "listening"
  <2>1. /\ seen' = [seen EXCEPT ![i] = s]
        /\ \E to \in {"closed", "listening"} : stream' = [stream EXCEPT ![i] = to]
    BY <1>1 DEF Emit
  <2> QED BY <1>1, <2>1 DEF TypeOK
<1>2. CASE stream[i] # "listening"
  BY <1>2 DEF Emit, TypeOK
<1> QED BY <1>1, <1>2

LEMMA JobsStep == JobsInv /\ [Next]_vars => JobsInv'
<1> SUFFICES ASSUME JobsInv, [Next]_vars PROVE JobsInv'
  OBVIOUS
<1> USE DEF JobsInv
<1>1. CASE UNCHANGED vars
  BY <1>1 DEF vars, TypeOK, JobsOK
<1>2. CASE StartQueue
  BY <1>2 DEF StartQueue, TypeOK, JobsOK
<1>3. CASE StopQueue
  BY <1>3 DEF StopQueue, TypeOK, JobsOK
<1>4. ASSUME NEW i \in Id, NEW in \in Input, Enqueue(i, in) PROVE JobsInv'
  <2>1. /\ status[i] = "none" /\ in.key \in Key \cup {None}
        /\ UNCHANGED <<cancelReq, started, controllers, aborted, stream, seen>>
        /\ status' = [status EXCEPT ![i] = "queued"]
        /\ input' = [input EXCEPT ![i] = in]
        /\ microtasks' \subseteq microtasks \cup {i}
        /\ index' = [k \in Key |-> IF k = in.key THEN i ELSE index[k]]
    BY <1>4 DEF Enqueue, Indexed, Input
  <2>2. TypeOK'
    BY <2>1 DEF TypeOK, Status, Active, Final
  <2>3. JobsOK'
    BY <2>1 DEF JobsOK, TypeOK
  <2> QED BY <2>2, <2>3
<1>5. ASSUME NEW i \in Id, Cancel(i) PROVE JobsInv'
  <2>1. PICK s \in Status :
          /\ s = IF status[i] = "queued" THEN "cancelled" ELSE status[i]
          /\ status' = [status EXCEPT ![i] = s] /\ Emit(i, s)
    BY <1>5 DEF Cancel, Status, Active, Final
  <2>2. /\ status[i] \in {"queued", "running"}
        /\ cancelReq' = cancelReq \cup {i}
        /\ aborted' = aborted \cup ({i} \cap controllers)
        /\ UNCHANGED <<input, index, started, microtasks, controllers>>
    BY <1>5 DEF Cancel, Active
  <2>3. TypeOK'
    BY <2>1, <2>2, EmitTypes DEF TypeOK
  <2>4. JobsOK'
    BY <2>1, <2>2, EmitTypes DEF JobsOK, TypeOK
  <2> QED BY <2>3, <2>4
<1>6. ASSUME NEW i \in Id, DispatchStale(i) PROVE JobsInv'
  BY <1>6 DEF DispatchStale, TypeOK, JobsOK
<1>7. ASSUME NEW i \in Id, DispatchUnhandled(i) PROVE JobsInv'
  BY <1>7 DEF DispatchUnhandled, TypeOK, JobsOK, Status, Final
<1>8. ASSUME NEW i \in Id, Dispatch(i) PROVE JobsInv'
  <2>1. "running" \in Status
    BY DEF Status, Active
  <2>2. /\ status[i] = "queued" /\ Emit(i, "running")
        /\ status' = [status EXCEPT ![i] = "running"]
        /\ controllers' = controllers \cup {i} /\ aborted' = aborted \cup ({i} \cap cancelReq)
        /\ microtasks' = microtasks \ {i}
        /\ UNCHANGED <<input, cancelReq, index, started>>
    BY <1>8 DEF Dispatch
  <2>3. TypeOK'
    BY <2>1, <2>2, EmitTypes DEF TypeOK
  <2>4. JobsOK'
    BY <2>1, <2>2, EmitTypes DEF JobsOK, TypeOK
  <2> QED BY <2>3, <2>4
<1>9. ASSUME NEW i \in Id, HandlerEnds(i) PROVE JobsInv'
  <2>1. PICK s \in Status :
          /\ s \in Final /\ (i \in aborted => s = "cancelled")
          /\ status' = [status EXCEPT ![i] = s] /\ Emit(i, s)
    BY <1>9 DEF HandlerEnds, Status, Final
  <2>2. /\ status[i] = "running" /\ controllers' = controllers \ {i}
        /\ UNCHANGED <<input, cancelReq, index, started, microtasks, aborted>>
    BY <1>9 DEF HandlerEnds
  <2>3. TypeOK'
    BY <2>1, <2>2, EmitTypes DEF TypeOK
  <2>4. JobsOK'
    BY <2>1, <2>2, EmitTypes DEF JobsOK, TypeOK, Final
  <2> QED BY <2>3, <2>4
<1>10. ASSUME NEW i \in Id, OpenStream(i) \/ Subscribe(i) \/ Disconnect(i) PROVE JobsInv'
  <2>1. PICK to \in {"read", "closed", "listening"} : stream' = [stream EXCEPT ![i] = to]
    BY <1>10 DEF OpenStream, Subscribe, Disconnect
  <2>2. UNCHANGED queue /\ status[i] # "none"
    BY <1>10 DEF OpenStream, Subscribe, Disconnect, JobsOK, TypeOK
  <2>3. seen' \in [Id -> Status]
    BY <1>10 DEF OpenStream, Subscribe, Disconnect, TypeOK
  <2> QED BY <2>1, <2>2, <2>3 DEF queue, TypeOK, JobsOK
<1> QED BY <1>1, <1>2, <1>3, <1>4, <1>5, <1>6, <1>7, <1>8, <1>9, <1>10 DEF Next, RunJob

LEMMA JobsInvariance == Spec => []JobsInv
BY JobsInit, JobsStep, PTL DEF Spec

(* The queue's records, index, controllers and streams keep their types.      *)
THEOREM QueueTypes == Spec => []TypeOK
<1>1. JobsInv => TypeOK
  BY DEF JobsInv
<1> QED BY <1>1, JobsInvariance, PTL

(* A cancel that the queue accepted is kept for any number of jobs: stop(),   *)
(* start(), the handler and later calls leave the job only one end,           *)
(* cancelled.                                                                 *)
THEOREM CancelsAreKept == Spec => []CancelIsKept
<1>1. JobsInv => CancelIsKept
  BY DEF JobsInv, JobsOK, CancelIsKept
<1> QED BY <1>1, JobsInvariance, PTL

LEMMA StreamStep ==
  ASSUME JobsInv, [Next]_vars, NEW i \in Id,
         stream[i] = "listening", status'[i] # status[i], input[i].handled
  PROVE  seen'[i] = status'[i]
<1> USE DEF JobsInv
<1>1. CASE UNCHANGED vars
  BY <1>1 DEF vars
<1>2. CASE StartQueue \/ StopQueue
  BY <1>2 DEF StartQueue, StopQueue
<1>3. ASSUME NEW j \in Id, NEW in \in Input, Enqueue(j, in) PROVE FALSE
  <2>1. i = j /\ status[i] = "none"
    BY <1>3 DEF Enqueue, TypeOK
  <2> QED BY <2>1 DEF JobsOK
<1>4. ASSUME NEW j \in Id, Cancel(j) PROVE seen'[i] = status'[i]
  <2>1. i = j
    BY <1>4 DEF Cancel, TypeOK
  <2> QED BY <1>4, <2>1 DEF Cancel, Emit, TypeOK
<1>5. ASSUME NEW j \in Id, DispatchStale(j) \/ DispatchUnhandled(j) PROVE FALSE
  BY <1>5 DEF DispatchStale, DispatchUnhandled, TypeOK
<1>6. ASSUME NEW j \in Id, Dispatch(j) \/ HandlerEnds(j) PROVE seen'[i] = status'[i]
  <2>1. i = j
    BY <1>6 DEF Dispatch, HandlerEnds, TypeOK
  <2>2. PICK s : status' = [status EXCEPT ![i] = s] /\ Emit(i, s)
    BY <1>6, <2>1 DEF Dispatch, HandlerEnds
  <2> QED BY <2>2 DEF Emit, TypeOK
<1>7. ASSUME NEW j \in Id, OpenStream(j) \/ Subscribe(j) \/ Disconnect(j) PROVE FALSE
  BY <1>7 DEF OpenStream, Subscribe, Disconnect, queue
<1> QED BY <1>1, <1>2, <1>3, <1>4, <1>5, <1>6, <1>7 DEF Next, RunJob

(* An event stream that has subscribed is told of every change of its job's   *)
(* status by the step that makes it: no snapshot falls between get() and      *)
(* subscribe() once it listens, save the failure of a type without a handler. *)
THEOREM StreamsHear == Spec => StreamHears
<1> DEFINE Body ==
      \A i \in Id :
        stream[i] = "listening" /\ status'[i] # status[i] /\ input[i].handled
          => seen'[i] = status'[i]
<1>1. JobsInv /\ [Next]_vars => [Body]_vars
  BY StreamStep
<1>2. Spec => [][Body]_vars
  BY <1>1, JobsInvariance, PTL DEF Spec
<1> QED BY <1>2 DEF StreamHears

(* The queue implements JobLifecycle.  A root job stands for its collection   *)
(* in rootOf, which only the step that accepts it writes.                     *)
RootOf(i) == IF IsRoot(i) THEN input[i].coll ELSE "none"

LEMMA RefinesStep == JobsInv /\ [Next]_vars => [Lifecycle!Next]_(Lifecycle!vars)
<1> SUFFICES ASSUME JobsInv, [Next]_vars PROVE [Lifecycle!Next]_(Lifecycle!vars)
  OBVIOUS
<1> DEFINE rootOf == [i \in Id |-> RootOf(i)]
<1> USE DEF JobsInv
<1>1. CASE UNCHANGED <<status, input>>
  BY <1>1 DEF Lifecycle!vars, IsRoot
<1>2. ASSUME NEW i \in Id, NEW in \in Input, Enqueue(i, in) PROVE Lifecycle!Next
  <2>1. /\ status[i] = "none" /\ status' = [status EXCEPT ![i] = "queued"]
        /\ input' = [input EXCEPT ![i] = in]
        /\ in.parent = None => ~HasActiveRoot(in.coll)
    BY <1>2 DEF Enqueue
  <2>0. PICK c : c = RootOf(i)'
    OBVIOUS
  <2>2. /\ c \in Collection \cup {"none"}
        /\ c # "none" => in.parent = None /\ c = in.coll
    BY <2>1, <2>0 DEF RootOf, IsRoot, TypeOK, Input
  <2>3. rootOf' = [rootOf EXCEPT ![i] = c]
    <3>1. \A j \in Id : j # i => RootOf(j)' = RootOf(j)
      BY <2>1 DEF RootOf, IsRoot, TypeOK
    <3> QED BY <2>0, <3>1
  <2>4. c # "none" => ~Lifecycle!Occupied(c)
    <3> SUFFICES ASSUME c # "none", NEW j \in Id, rootOf[j] = c, status[j] \in Active
                 PROVE  FALSE
      BY DEF Lifecycle!Occupied, Lifecycle!Active, Active, RootOf
    <3>1. IsRoot(j) /\ input[j].coll = c
      BY DEF RootOf
    <3> QED BY <2>1, <2>2, <3>1 DEF HasActiveRoot
  <2>5. Lifecycle!Accept(i, c)
    BY <2>1, <2>3, <2>4 DEF Lifecycle!Accept, RootOf
  <2> QED BY <2>2, <2>5 DEF Lifecycle!Next
<1>3. ASSUME NEW i \in Id, UNCHANGED input, NEW s,
             status' = [status EXCEPT ![i] = s],
             \/ status[i] = "queued" /\ s \in {"running", "cancelled", "failed"}
             \/ status[i] = "running" /\ s \in Final
      PROVE  Lifecycle!Next
  <2>1. UNCHANGED rootOf
    BY <1>3 DEF RootOf, IsRoot
  <2>2. Lifecycle!Advance(i, status[i], s)
    BY <1>3, <2>1 DEF Lifecycle!Advance, RootOf
  <2> QED BY <1>3, <2>2
        DEF Lifecycle!Next, Lifecycle!Start, Lifecycle!Discard, Lifecycle!Finish,
            Lifecycle!Final, Final
<1>4. ASSUME NEW i \in Id, Cancel(i) PROVE [Lifecycle!Next]_(Lifecycle!vars)
  <2>1. CASE status[i] = "queued"
    BY <1>3, <1>4, <2>1 DEF Cancel
  <2>2. CASE status[i] = "running"
    BY <1>1, <1>4, <2>2 DEF Cancel, TypeOK
  <2> QED BY <1>4, <2>1, <2>2 DEF Cancel, Active
<1>5. ASSUME NEW i \in Id, RunJob(i) PROVE [Lifecycle!Next]_(Lifecycle!vars)
  <2>1. CASE DispatchStale(i)
    BY <1>1, <2>1 DEF DispatchStale
  <2>2. CASE DispatchUnhandled(i) \/ Dispatch(i)
    BY <1>3, <2>2 DEF DispatchUnhandled, Dispatch
  <2>3. CASE HandlerEnds(i)
    <3>1. PICK s \in Final : status' = [status EXCEPT ![i] = s]
      BY <2>3 DEF HandlerEnds, Final
    <3> QED BY <1>3, <2>3, <3>1 DEF HandlerEnds
  <2> QED BY <1>5, <2>1, <2>2, <2>3 DEF RunJob
<1>6. ASSUME \/ UNCHANGED vars \/ StartQueue \/ StopQueue
             \/ \E i \in Id : OpenStream(i) \/ Subscribe(i) \/ Disconnect(i)
      PROVE  [Lifecycle!Next]_(Lifecycle!vars)
  BY <1>1, <1>6 DEF vars, queue, StartQueue, StopQueue, OpenStream, Subscribe, Disconnect
<1> QED BY <1>2, <1>4, <1>5, <1>6 DEF Next

(* Whatever order calls, microtasks, handlers, stop() and start() come in,    *)
(* the queue implements the lifecycle it promises: a final status stays, and  *)
(* one root job at most is queued or running for a collection.                *)
THEOREM QueueImplementsLifecycle == Spec => ImplementsLifecycle
<1>1. Init => Lifecycle!Init
  BY DEF Init, Lifecycle!Init, IsRoot
<1> QED BY <1>1, RefinesStep, JobsInvariance, PTL DEF Spec, ImplementsLifecycle, Lifecycle!Spec

-----------------------------------------------------------------------------
(* The wallet sessions *)

Keyless == \A s \in ActiveSessions : ~sessions[s].key
PromotionsMarked == \A w \in Visit : visit[w].op = "promote" => visit[w].mark

\* The wallet has one session unless its sign-ins overlapped, for an open one
\* sees every session it must end; a removal that is not marked has no
\* delegation beside it and its session holds the only key there is, until it
\* is deleted and the promotions that read it are marked.
SessionsOK ==
  /\ ~twins => /\ \A s, t \in ActiveSessions : s = t
               /\ \A v \in Visit : Updated(v) => ActiveSessions \subseteq visit[v].seen
  /\ \A v \in Visit : ~visit[v].mark =>
       /\ visit[v].op \in {"remove", "abort"} => ~Delegating
       /\ visit[v].op = "remove" =>
            \A s \in ActiveSessions : s # visit[v].session => ~sessions[s].key
       /\ visit[v].op = "abort" => Keyless /\ PromotionsMarked
  /\ revoked => Keyless /\ PromotionsMarked /\ ~Delegating /\ FALSE \notin promoting

SessionsInv == SessionsTypeOK /\ SessionsOK

SessionRow == [state : {"none", "active", "revoked"}, key : BOOLEAN]
VisitRecord == [op : {"none", "signature", "signed", "update", "commit", "disconnect",
                      "delegate", "remove", "abort", "read", "promote"},
                nonce : SUBSET Challenge, session : 0..MaxSessions,
                seen : SUBSET SessionNo, mark : BOOLEAN]

LEMMA SessionsInitOK == SessionsInit => SessionsInv
<1> SUFFICES ASSUME SessionsInit PROVE SessionsInv
  OBVIOUS
<1>1. NoVisit \in VisitRecord
  BY SessionConstants DEF NoVisit, VisitRecord
<1>2. SessionsTypeOK
  <2>1. visit \in [Visit -> VisitRecord]
    BY <1>1 DEF SessionsInit
  <2>2. sessions \in [SessionNo -> SessionRow] /\ begun \in 0..MaxSessions
    BY SessionConstants DEF SessionsInit, SessionRow
  <2> QED BY <2>1, <2>2 DEF SessionsInit, SessionsTypeOK, VisitRecord, SessionRow
<1>3. ActiveSessions = {}
  BY DEF SessionsInit, ActiveSessions
<1> QED BY <1>2, <1>3 DEF SessionsInit, SessionsInv, SessionsOK, Updated, NoVisit,
             Keyless, PromotionsMarked, Delegating

\* A step of one request that moves neither sessions nor history, deletes no
\* mark and starts neither a delegation, a removal nor a promotion.
LEMMA QuietVisit ==
  ASSUME SessionsInv, NEW v \in Visit, NEW r \in VisitRecord,
         visit' = [visit EXCEPT ![v] = r],
         r.op \in {"none", "signature", "signed", "update", "commit"},
         r.op = "commit" => r.seen = ActiveSessions \/ r = visit[v],
         \A s \in SessionNo : sessions'[s].state = "active" => sessions[s].state = "active",
         \A s \in SessionNo : sessions'[s].key => sessions[s].key,
         revoked' = revoked, twins' = twins,
         revoked => promoting' \subseteq promoting \cup {TRUE}
  PROVE  SessionsOK'
<1> USE DEF SessionsInv, SessionsTypeOK, VisitRecord
<1>1. ActiveSessions' \subseteq ActiveSessions
  BY DEF ActiveSessions
<1>2. \A w \in Visit : w # v => visit'[w] = visit[w]
  OBVIOUS
<1>3. visit'[v] = r
  OBVIOUS
<1>4. Delegating' => Delegating
  BY <1>2, <1>3 DEF Delegating
<1>5. Keyless => Keyless'
  BY <1>1 DEF Keyless, ActiveSessions
<1>6. PromotionsMarked => PromotionsMarked'
  BY <1>2, <1>3 DEF PromotionsMarked
<1>7. ~twins' => /\ \A s, t \in ActiveSessions' : s = t
                 /\ \A w \in Visit : Updated(w)' => ActiveSessions' \subseteq visit'[w].seen
  BY <1>1, <1>2, <1>3 DEF SessionsOK, Updated
<1>8. \A w \in Visit : ~visit'[w].mark =>
       /\ visit'[w].op \in {"remove", "abort"} => ~Delegating'
       /\ visit'[w].op = "remove" =>
            \A s \in ActiveSessions' : s # visit'[w].session => ~sessions'[s].key
       /\ visit'[w].op = "abort" => Keyless' /\ PromotionsMarked'
  BY <1>1, <1>2, <1>3, <1>4, <1>5, <1>6 DEF SessionsOK, ActiveSessions
<1>9. revoked' => Keyless' /\ PromotionsMarked' /\ ~Delegating' /\ FALSE \notin promoting'
  BY <1>4, <1>5, <1>6 DEF SessionsOK
<1> QED BY <1>7, <1>8, <1>9 DEF SessionsOK

LEMMA NoVisitType == NoVisit \in VisitRecord
BY SessionConstants DEF NoVisit, VisitRecord

LEMMA SignInStep ==
  ASSUME SessionsInv, NEW v \in Visit,
         \/ \E n \in Challenge : Verify(v, n)
         \/ BadSignature(v) \/ GoodSignature(v)
         \/ BeginSession(v) \/ RevokeOthers(v) \/ Rollback(v)
  PROVE  SessionsInv'
<1> USE DEF SessionsInv, SessionsTypeOK
<1>1. /\ UNCHANGED <<sessions, promoting, revoked, twins>>
      /\ challenges' \subseteq challenges /\ begun' \in 0..MaxSessions
  BY SessionConstants
     DEF Verify, BadSignature, GoodSignature, BeginSession, RevokeOthers, Rollback
<1>2. visit[v] \in VisitRecord
  BY DEF VisitRecord
<1>3. PICK r \in VisitRecord :
        /\ visit' = [visit EXCEPT ![v] = r]
        /\ r.op \in {"none", "signature", "signed", "update", "commit"}
        /\ r.op = "commit" => r.seen = ActiveSessions
  <2>1. CASE \E n \in Challenge : Verify(v, n)
    <3>1. PICK n \in Challenge : Verify(v, n)
      BY <2>1
    <3> DEFINE r == [visit[v] EXCEPT !.op = "signature", !.nonce = {n}]
    <3>2. r \in VisitRecord /\ r.op = "signature"
      BY <1>2 DEF VisitRecord
    <3>3. visit' = [visit EXCEPT ![v] = r]
      BY <3>1 DEF Verify
    <3> QED BY <3>2, <3>3
  <2>2. CASE BadSignature(v) \/ Rollback(v)
    BY <2>2, NoVisitType DEF BadSignature, Rollback, Answer, NoVisit
  <2>3. CASE GoodSignature(v)
    <3> DEFINE r == [NoVisit EXCEPT !.op = "signed"]
    <3>1. r \in VisitRecord /\ r.op = "signed"
      BY NoVisitType DEF VisitRecord
    <3> QED BY <2>3, <3>1 DEF GoodSignature
  <2>4. CASE BeginSession(v)
    <3> DEFINE r == [visit[v] EXCEPT !.op = "update", !.session = begun + 1]
    <3>0. begun + 1 \in 0..MaxSessions
      BY <2>4, SessionConstants DEF BeginSession
    <3>1. r \in VisitRecord /\ r.op = "update"
      BY <1>2, <3>0 DEF VisitRecord
    <3>2. visit' = [visit EXCEPT ![v] = r]
      BY <2>4 DEF BeginSession
    <3> QED BY <3>1, <3>2
  <2>5. CASE RevokeOthers(v)
    <3> DEFINE r == [visit[v] EXCEPT !.op = "commit", !.seen = ActiveSessions]
    <3>1. r \in VisitRecord /\ r.op = "commit" /\ r.seen = ActiveSessions
      BY <1>2 DEF VisitRecord, ActiveSessions
    <3>2. visit' = [visit EXCEPT ![v] = r]
      BY <2>5 DEF RevokeOthers, RevokesWhat
    <3> QED BY <3>1, <3>2
  <2> QED BY <2>1, <2>2, <2>3, <2>4, <2>5
<1>4. SessionsTypeOK'
  BY <1>1, <1>3 DEF VisitRecord
<1>5. SessionsOK'
  BY <1>1, <1>3, QuietVisit
<1> QED BY <1>4, <1>5

LEMMA CommitStep ==
  ASSUME SessionsInv, NEW v \in Visit, CommitSession(v)
  PROVE  SessionsInv'
<1> USE DEF SessionsInv, SessionsTypeOK
<1>1. /\ Updated(v) /\ visit' = [visit EXCEPT ![v] = NoVisit]
      /\ UNCHANGED <<challenges, begun, promoting, revoked>>
      /\ sessions' \in [SessionNo -> SessionRow]
      /\ twins' \in BOOLEAN
  BY DEF CommitSession, Answer, SessionRow
<1>2. \A s \in SessionNo :
        /\ sessions'[s].key => sessions[s].key
        /\ sessions'[s].state = "active" =>
             \/ s = visit[v].session /\ ~sessions'[s].key
             \/ s \in ActiveSessions \ visit[v].seen /\ sessions'[s].key = sessions[s].key
  BY DEF CommitSession, ActiveSessions
<1>3. Keyless => Keyless'
  BY <1>2 DEF Keyless, ActiveSessions
<1>4. SessionsTypeOK'
  BY <1>1, NoVisitType DEF SessionRow, VisitRecord
<1>5. ~twins' => /\ ActiveSessions \subseteq visit[v].seen
                 /\ \A w \in Visit : ~Updated(w)'
  <2> SUFFICES ASSUME ~twins' PROVE /\ ActiveSessions \subseteq visit[v].seen
                                    /\ \A w \in Visit : ~Updated(w)'
    OBVIOUS
  <2>1. /\ \A w \in Visit \ {v} : ~Updated(w)
        /\ twins => ActiveSessions \subseteq visit[v].seen
    BY DEF CommitSession
  <2> QED BY <1>1, <2>1 DEF SessionsOK, Updated, NoVisit
<1>6. ~twins' => /\ \A s, t \in ActiveSessions' : s = t
                 /\ \A w \in Visit : Updated(w)' => ActiveSessions' \subseteq visit'[w].seen
  BY <1>2, <1>5 DEF ActiveSessions
<1>7. \A w \in Visit : w # v => visit'[w] = visit[w]
  BY <1>1
<1>8. visit'[v].op = "none"
  BY <1>1 DEF NoVisit
<1>9. (Delegating' => Delegating) /\ (PromotionsMarked => PromotionsMarked')
  BY <1>7, <1>8 DEF Delegating, PromotionsMarked
<1>10. \A w \in Visit : ~visit'[w].mark =>
       /\ visit'[w].op \in {"remove", "abort"} => ~Delegating'
       /\ visit'[w].op = "remove" =>
            \A s \in ActiveSessions' : s # visit'[w].session => ~sessions'[s].key
       /\ visit'[w].op = "abort" => Keyless' /\ PromotionsMarked'
  BY <1>2, <1>3, <1>7, <1>8, <1>9 DEF SessionsOK, ActiveSessions
<1>11. revoked' => Keyless' /\ PromotionsMarked' /\ ~Delegating' /\ FALSE \notin promoting'
  BY <1>1, <1>3, <1>9 DEF SessionsOK
<1> QED BY <1>4, <1>6, <1>10, <1>11 DEF SessionsOK

LEMMA AdmitStep ==
  ASSUME SessionsInv, NEW v \in Visit, NEW s \in SessionNo,
         NEW op \in {"disconnect", "delegate", "remove", "read"}, Admit(v, s, op)
  PROVE  SessionsInv'
<1> USE DEF SessionsInv, SessionsTypeOK
<1> DEFINE mine == [NoVisit EXCEPT !.op = op, !.session = s,
                                   !.mark = (op = "remove" /\ (Delegating \/ twins))]
<1>1. /\ s \in ActiveSessions
      /\ UNCHANGED <<challenges, sessions, begun, promoting, twins>>
      /\ revoked' = (revoked /\ op # "delegate")
      /\ visit' = [w \in Visit |->
           IF w = v THEN mine
           ELSE IF op = "delegate" /\ visit[w].op \in {"remove", "abort"}
           THEN [visit[w] EXCEPT !.mark = TRUE]
           ELSE visit[w]]
  BY DEF Admit
<1>2. /\ mine \in VisitRecord /\ mine.op = op /\ mine.session = s
      /\ mine.mark = (op = "remove" /\ (Delegating \/ twins))
  <2>1. PICK m \in BOOLEAN : m = (op = "remove" /\ (Delegating \/ twins))
    OBVIOUS
  <2>2. s \in 0..MaxSessions
    BY SessionConstants DEF SessionNo
  <2>3. mine = [NoVisit EXCEPT !.op = op, !.session = s, !.mark = m]
    BY <2>1
  <2>4. mine \in VisitRecord /\ mine.op = op /\ mine.session = s /\ mine.mark = m
    BY <2>2, <2>3, NoVisitType DEF VisitRecord
  <2> QED BY <2>1, <2>4
<1> HIDE DEF mine
<1>3. /\ visit'[v] = mine
      /\ \A w \in Visit : w # v =>
           /\ visit'[w] \in VisitRecord
           /\ visit'[w].op = visit[w].op /\ visit'[w].session = visit[w].session
           /\ visit'[w].seen = visit[w].seen
           /\ ~visit'[w].mark => ~visit[w].mark
           /\ op = "delegate" /\ visit[w].op \in {"remove", "abort"} => visit'[w].mark
           /\ visit[w].op \notin {"remove", "abort"} => visit'[w] = visit[w]
  BY <1>1 DEF VisitRecord
<1>4. SessionsTypeOK'
  <2>1. visit' \in [Visit -> VisitRecord]
    BY <1>1, <1>2, <1>3
  <2>2. revoked' \in BOOLEAN
    BY <1>1
  <2> QED BY <1>1, <2>1, <2>2 DEF VisitRecord
<1>5. ActiveSessions' = ActiveSessions /\ Keyless' = Keyless
  BY <1>1 DEF ActiveSessions, Keyless
<1>6. PromotionsMarked => PromotionsMarked'
  BY <1>2, <1>3 DEF PromotionsMarked
<1>7. Delegating' => Delegating \/ op = "delegate"
  BY <1>2, <1>3 DEF Delegating
<1>8. ~twins' => /\ \A r, t \in ActiveSessions' : r = t
                 /\ \A w \in Visit : Updated(w)' => ActiveSessions' \subseteq visit'[w].seen
  BY <1>1, <1>2, <1>3, <1>5 DEF SessionsOK, Updated
<1>9. ASSUME NEW w \in Visit, ~visit'[w].mark
      PROVE  /\ visit'[w].op \in {"remove", "abort"} => ~Delegating'
             /\ visit'[w].op = "remove" =>
                  \A t \in ActiveSessions' : t # visit'[w].session => ~sessions'[t].key
             /\ visit'[w].op = "abort" => Keyless' /\ PromotionsMarked'
  <2>1. CASE w = v
    <3>1. visit'[w].op = "remove" => ~Delegating /\ ~twins
      BY <1>2, <1>3, <1>9, <2>1
    <3>2. visit'[w].op = "remove" => ~Delegating' /\ \A t \in ActiveSessions' : t = s
      BY <1>1, <1>2, <1>3, <1>5, <1>7, <2>1, <3>1 DEF SessionsOK
    <3> QED BY <1>2, <1>3, <2>1, <3>2
  <2>2. CASE w # v
    <3>1. /\ visit'[w].op = visit[w].op /\ visit'[w].session = visit[w].session
          /\ ~visit[w].mark
          /\ visit[w].op \in {"remove", "abort"} => op # "delegate"
      BY <1>3, <1>9, <2>2
    <3> QED BY <1>1, <1>5, <1>6, <1>7, <3>1 DEF SessionsOK
  <2> QED BY <2>1, <2>2
<1>10. revoked' => Keyless' /\ PromotionsMarked' /\ ~Delegating' /\ FALSE \notin promoting'
  BY <1>1, <1>5, <1>6, <1>7 DEF SessionsOK
<1> QED BY <1>4, <1>8, <1>9, <1>10 DEF SessionsOK

LEMMA KeyStep ==
  ASSUME SessionsInv, NEW v \in Visit, DisconnectWallet(v) \/ StoreKey(v)
  PROVE  SessionsInv'
<1> USE DEF SessionsInv, SessionsTypeOK
<1>1. /\ visit' = [visit EXCEPT ![v] = NoVisit] /\ NoVisit.op = "none"
      /\ UNCHANGED <<challenges, begun, promoting, revoked, twins>>
  BY DEF DisconnectWallet, StoreKey, Answer, NoVisit
<1>0. sessions' \in [SessionNo -> SessionRow]
  <2>1. \A s \in SessionNo : sessions[s] \in SessionRow
    BY DEF SessionRow
  <2>2. ASSUME NEW s \in SessionNo PROVE sessions'[s] \in SessionRow
    <3>1. sessions'[s] \in {sessions[s], [sessions[s] EXCEPT !.state = "revoked"],
                            [sessions[s] EXCEPT !.key = TRUE]}
      BY DEF DisconnectWallet, StoreKey
    <3> QED BY <2>1, <3>1 DEF SessionRow
  <2>3. sessions' = [s \in SessionNo |-> sessions'[s]]
    BY DEF DisconnectWallet, StoreKey
  <2> QED BY <2>2, <2>3
<1>2. SessionsTypeOK'
  BY <1>0, <1>1, NoVisitType DEF SessionRow, VisitRecord
<1>3. CASE DisconnectWallet(v)
  <2>1. \A s \in SessionNo :
          /\ sessions'[s].state = "active" => sessions[s].state = "active"
          /\ sessions'[s].key => sessions[s].key
    BY <1>3 DEF DisconnectWallet
  <2>2. SessionsOK'
    BY <1>1, <2>1, NoVisitType, QuietVisit
  <2> QED BY <1>2, <2>2
<1>4. CASE StoreKey(v)
  <2>1. Delegating
    BY <1>4 DEF StoreKey, Delegating
  <2>2. /\ \A w \in Visit : visit'[w].op \in {"remove", "abort"} => visit'[w].mark
        /\ ~revoked'
    BY <1>1, <2>1 DEF SessionsOK
  <2>3. ActiveSessions' = ActiveSessions
    BY <1>4 DEF StoreKey, ActiveSessions
  <2>4. ~twins' => /\ \A s, t \in ActiveSessions' : s = t
                   /\ \A w \in Visit : Updated(w)' => ActiveSessions' \subseteq visit'[w].seen
    BY <1>1, <2>3 DEF SessionsOK, Updated
  <2>5. SessionsOK'
    BY <2>2, <2>4 DEF SessionsOK
  <2> QED BY <1>2, <2>5
<1> QED BY <1>3, <1>4

LEMMA DeleteKeyStep ==
  ASSUME SessionsInv, NEW v \in Visit, DeleteKey(v)
  PROVE  SessionsInv'
<1> USE DEF SessionsInv, SessionsTypeOK
<1>1. /\ visit[v].op = "remove"
      /\ UNCHANGED <<challenges, begun, promoting, revoked, twins>>
      /\ sessions' = [sessions EXCEPT ![visit[v].session].key = FALSE]
      /\ visit' = [w \in Visit |->
           IF w = v THEN [visit[w] EXCEPT !.op = "abort"]
           ELSE IF visit[w].op = "promote" THEN [visit[w] EXCEPT !.mark = TRUE]
           ELSE visit[w]]
  BY DEF DeleteKey
<1>2. \A w \in Visit :
        /\ visit'[w] \in VisitRecord
        /\ visit'[w].op = IF w = v THEN "abort" ELSE visit[w].op
        /\ visit'[w].mark = ((w # v /\ visit[w].op = "promote") \/ visit[w].mark)
        /\ visit'[w].session = visit[w].session /\ visit'[w].seen = visit[w].seen
  <2> SUFFICES ASSUME NEW w \in Visit
               PROVE  /\ visit'[w] \in VisitRecord
                      /\ visit'[w].op = IF w = v THEN "abort" ELSE visit[w].op
                      /\ visit'[w].mark = ((w # v /\ visit[w].op = "promote") \/ visit[w].mark)
                      /\ visit'[w].session = visit[w].session /\ visit'[w].seen = visit[w].seen
    OBVIOUS
  <2>1. visit[w] \in VisitRecord
    BY DEF VisitRecord
  <2>2. CASE w = v
    BY <1>1, <2>1, <2>2 DEF VisitRecord
  <2>3. CASE w # v /\ visit[w].op = "promote"
    BY <1>1, <2>1, <2>3 DEF VisitRecord
  <2>4. CASE w # v /\ visit[w].op # "promote"
    BY <1>1, <2>1, <2>4 DEF VisitRecord
  <2> QED BY <2>2, <2>3, <2>4
<1>3. \A s \in SessionNo :
        /\ sessions'[s] \in SessionRow /\ sessions'[s].state = sessions[s].state
        /\ sessions'[s].key => sessions[s].key /\ s # visit[v].session
  <2> SUFFICES ASSUME NEW s \in SessionNo
               PROVE  /\ sessions'[s] \in SessionRow /\ sessions'[s].state = sessions[s].state
                      /\ sessions'[s].key => sessions[s].key /\ s # visit[v].session
    OBVIOUS
  <2>1. sessions'[s] = IF s = visit[v].session THEN [sessions[s] EXCEPT !.key = FALSE]
                       ELSE sessions[s]
    BY <1>1
  <2> QED BY <2>1 DEF SessionRow
<1>4. SessionsTypeOK'
  <2>1. visit' \in [Visit -> VisitRecord] /\ sessions' \in [SessionNo -> SessionRow]
    BY <1>1, <1>2, <1>3
  <2> QED BY <1>1, <2>1 DEF VisitRecord, SessionRow
<1>5. ActiveSessions' = ActiveSessions /\ (Keyless => Keyless')
  BY <1>3 DEF ActiveSessions, Keyless
<1>6. PromotionsMarked' /\ Delegating' = Delegating
  BY <1>1, <1>2 DEF PromotionsMarked, Delegating
<1>7. ~twins' => /\ \A r, t \in ActiveSessions' : r = t
                 /\ \A w \in Visit : Updated(w)' => ActiveSessions' \subseteq visit'[w].seen
  BY <1>1, <1>2, <1>5 DEF SessionsOK, Updated
<1>8. \A w \in Visit : ~visit'[w].mark =>
       /\ visit'[w].op \in {"remove", "abort"} => ~Delegating'
       /\ visit'[w].op = "remove" =>
            \A s \in ActiveSessions' : s # visit'[w].session => ~sessions'[s].key
       /\ visit'[w].op = "abort" => Keyless' /\ PromotionsMarked'
  <2> SUFFICES ASSUME NEW w \in Visit, ~visit'[w].mark
               PROVE  /\ visit'[w].op \in {"remove", "abort"} => ~Delegating'
                      /\ visit'[w].op = "remove" =>
                           \A s \in ActiveSessions' : s # visit'[w].session => ~sessions'[s].key
                      /\ visit'[w].op = "abort" => Keyless' /\ PromotionsMarked'
    OBVIOUS
  <2>1. CASE w = v
    <3>1. ~visit[v].mark /\ visit'[w].op = "abort"
      BY <1>2, <2>1
    <3>2. ~Delegating /\ Keyless'
      BY <1>1, <1>3, <1>5, <3>1 DEF SessionsOK, Keyless, ActiveSessions
    <3> QED BY <1>6, <3>1, <3>2
  <2>2. CASE w # v
    <3>1. ~visit[w].mark /\ visit'[w].op = visit[w].op /\ visit'[w].session = visit[w].session
      BY <1>2, <2>2
    <3> QED BY <1>3, <1>5, <1>6, <3>1 DEF SessionsOK, ActiveSessions
  <2> QED BY <2>1, <2>2
<1>9. revoked' => Keyless' /\ PromotionsMarked' /\ ~Delegating' /\ FALSE \notin promoting'
  BY <1>1, <1>5, <1>6 DEF SessionsOK
<1> QED BY <1>4, <1>7, <1>8, <1>9 DEF SessionsOK

LEMMA AbortStep ==
  ASSUME SessionsInv, NEW v \in Visit, AbortPromotions(v)
  PROVE  SessionsInv'
<1> USE DEF SessionsInv, SessionsTypeOK
<1>1. /\ visit[v].op = "abort" /\ visit' = [visit EXCEPT ![v] = NoVisit]
      /\ NoVisit.op = "none" /\ promoting' = {}
      /\ revoked' = ~visit[v].mark /\ revoked' \in BOOLEAN
      /\ UNCHANGED <<challenges, sessions, begun, twins>>
  BY DEF AbortPromotions, Answer, NoVisit
<1>2. SessionsTypeOK'
  BY <1>1, NoVisitType DEF VisitRecord
<1>3. /\ \A w \in Visit : w # v => visit'[w] = visit[w]
      /\ visit'[v].op = "none"
  BY <1>1
<1>4. ActiveSessions' = ActiveSessions /\ Keyless' = Keyless
  BY <1>1 DEF ActiveSessions, Keyless
<1>5. (PromotionsMarked => PromotionsMarked') /\ (Delegating' => Delegating)
  BY <1>3 DEF PromotionsMarked, Delegating
<1>6. revoked' => Keyless' /\ PromotionsMarked' /\ ~Delegating' /\ FALSE \notin promoting'
  BY <1>1, <1>4, <1>5 DEF SessionsOK
<1>7. ~twins' => /\ \A r, t \in ActiveSessions' : r = t
                 /\ \A w \in Visit : Updated(w)' => ActiveSessions' \subseteq visit'[w].seen
  BY <1>1, <1>3, <1>4 DEF SessionsOK, Updated
<1>8. \A w \in Visit : ~visit'[w].mark =>
       /\ visit'[w].op \in {"remove", "abort"} => ~Delegating'
       /\ visit'[w].op = "remove" =>
            \A s \in ActiveSessions' : s # visit'[w].session => ~sessions'[s].key
       /\ visit'[w].op = "abort" => Keyless' /\ PromotionsMarked'
  BY <1>1, <1>3, <1>4, <1>5 DEF SessionsOK
<1> QED BY <1>2, <1>6, <1>7, <1>8 DEF SessionsOK

LEMMA PromoteStep ==
  ASSUME SessionsInv, NEW v \in Visit, ReadKey(v) \/ StartPromotion(v)
  PROVE  SessionsInv'
<1> USE DEF SessionsInv, SessionsTypeOK
<1>1. CASE StartPromotion(v) \/ (ReadKey(v) /\ Keyless)
  <2>1. /\ visit' = [visit EXCEPT ![v] = NoVisit]
        /\ promoting' \subseteq BOOLEAN
        /\ UNCHANGED <<challenges, sessions, begun, revoked, twins>>
    <3>1. CASE StartPromotion(v)
      BY <3>1 DEF StartPromotion, Answer
    <3>2. CASE ReadKey(v) /\ Keyless
      BY <3>2 DEF ReadKey, Keyless, Newest
    <3> QED BY <1>1, <3>1, <3>2
  <2>2. revoked => promoting' \subseteq promoting \cup {TRUE}
    <3>1. CASE StartPromotion(v)
      <4>1. revoked => visit[v].mark = TRUE
        BY <3>1 DEF StartPromotion, SessionsOK, PromotionsMarked
      <4> QED BY <3>1, <4>1 DEF StartPromotion
    <3>2. CASE ReadKey(v)
      BY <3>2 DEF ReadKey
    <3> QED BY <1>1, <3>1, <3>2
  <2>3. SessionsTypeOK'
    BY <2>1, NoVisitType DEF VisitRecord
  <2>4. SessionsOK'
    BY <2>1, <2>2, NoVisitType, QuietVisit DEF NoVisit
  <2> QED BY <2>3, <2>4
<1>2. CASE ReadKey(v) /\ ~Keyless
  <2>1. PICK r \in VisitRecord :
          /\ visit' = [visit EXCEPT ![v] = r]
          /\ r.op \in {"none", "promote"}
    <3>1. [NoVisit EXCEPT !.op = "promote"] \in VisitRecord
      BY NoVisitType DEF VisitRecord
    <3> QED BY <1>2, <3>1, NoVisitType DEF ReadKey, NoVisit
  <2>2. UNCHANGED <<challenges, sessions, begun, promoting, revoked, twins>>
    BY <1>2 DEF ReadKey
  <2>3. SessionsTypeOK'
    BY <2>1, <2>2 DEF VisitRecord
  <2>4. /\ \A w \in Visit : w # v => visit'[w] = visit[w]
        /\ visit'[v].op \in {"none", "promote"}
    BY <2>1
  <2>5. ActiveSessions' = ActiveSessions
    BY <2>2 DEF ActiveSessions
  <2>6. Delegating' => Delegating
    BY <2>4 DEF Delegating
  <2>7. ~twins' => /\ \A s, t \in ActiveSessions' : s = t
                   /\ \A w \in Visit : Updated(w)' => ActiveSessions' \subseteq visit'[w].seen
    BY <2>2, <2>4, <2>5 DEF SessionsOK, Updated
  <2>8. \A w \in Visit : ~visit'[w].mark =>
         /\ visit'[w].op \in {"remove", "abort"} => ~Delegating'
         /\ visit'[w].op = "remove" =>
              \A s \in ActiveSessions' : s # visit'[w].session => ~sessions'[s].key
         /\ visit'[w].op = "abort" => Keyless' /\ PromotionsMarked'
    BY <1>2, <2>2, <2>4, <2>5, <2>6 DEF SessionsOK
  <2>9. ~revoked'
    BY <1>2, <2>2 DEF SessionsOK
  <2> QED BY <2>3, <2>7, <2>8, <2>9 DEF SessionsOK
<1> QED BY <1>1, <1>2

LEMMA SessionsStep == SessionsInv /\ [SessionsNext]_sessionVars => SessionsInv'
<1> SUFFICES ASSUME SessionsInv, [SessionsNext]_sessionVars PROVE SessionsInv'
  OBVIOUS
<1>1. ASSUME UNCHANGED <<sessions, begun, visit, revoked, twins>>,
             challenges' \subseteq Challenge, promoting' \subseteq promoting
      PROVE  SessionsInv'
  BY <1>1 DEF SessionsInv, SessionsTypeOK, SessionsOK, Keyless, PromotionsMarked,
              ActiveSessions, Delegating, Updated
<1>2. CASE \/ UNCHANGED sessionVars \/ EndPromotion
           \/ \E n \in Challenge : Issue(n) \/ Expire(n)
  <2>1. /\ UNCHANGED <<sessions, begun, visit, revoked, twins>>
        /\ challenges' \subseteq Challenge /\ promoting' \subseteq promoting
    BY <1>2 DEF sessionVars, EndPromotion, Issue, Expire, SessionsInv, SessionsTypeOK
  <2> QED BY <1>1, <2>1
<1>3. CASE Restart
  <2>1. /\ \A v \in Visit : visit'[v] = NoVisit
        /\ UNCHANGED <<sessions, begun, revoked, twins>>
        /\ challenges' = {} /\ promoting' = {}
    BY <1>3 DEF Restart
  <2>2. visit' \in [Visit -> VisitRecord]
    BY <1>3, NoVisitType DEF Restart
  <2>3. SessionsTypeOK'
    BY <2>1, <2>2 DEF SessionsInv, SessionsTypeOK, VisitRecord
  <2>4. SessionsOK'
    <3>1. \A v \in Visit : visit'[v].op = "none"
      BY <2>1 DEF NoVisit
    <3>2. ActiveSessions' = ActiveSessions /\ Keyless' = Keyless
      BY <2>1 DEF ActiveSessions, Keyless
    <3>3. PromotionsMarked' /\ ~Delegating' /\ \A v \in Visit : ~Updated(v)'
      BY <3>1 DEF PromotionsMarked, Delegating, Updated
    <3> QED BY <2>1, <3>1, <3>2, <3>3 DEF SessionsInv, SessionsOK
  <2> QED BY <2>3, <2>4 DEF SessionsInv
<1> QED BY <1>2, <1>3, SignInStep, CommitStep, AdmitStep, KeyStep, DeleteKeyStep, AbortStep,
           PromoteStep DEF SessionsNext

LEMMA SessionsInvariance == SessionsInit /\ [][SessionsNext]_sessionVars => []SessionsInv
BY SessionsInitOK, SessionsStep, PTL

(* The wallet's challenges, sessions, transactions and open requests keep     *)
(* their types.                                                               *)
THEOREM SessionTypes == SessionsInit /\ [][SessionsNext]_sessionVars => []SessionsTypeOK
<1>1. SessionsInv => SessionsTypeOK
  BY DEF SessionsInv
<1> QED BY <1>1, SessionsInvariance, PTL

(* Once DELETE /session-key has answered, and no delegation came in since, no *)
(* session that is still good holds a key and no promotion runs with one,     *)
(* save one that had read the key before it was deleted: for any number of    *)
(* requests, sign-ins, promotions and restarts in any order.                  *)
THEOREM KeysStayRevoked == SessionsInit /\ [][SessionsNext]_sessionVars => []KeyStaysRevoked
<1>1. SessionsInv => KeyStaysRevoked
  BY DEF SessionsInv, SessionsOK, Keyless, KeyStaysRevoked
<1> QED BY <1>1, SessionsInvariance, PTL

-----------------------------------------------------------------------------
(* The collection cache *)

\* The head a request saw as it asked is on disk; what it waits for or was
\* given is no older.
CacheOK ==
  \A r \in Request :
    /\ asked[r].since <= newest
    /\ asked[r].phase \in {"load", "join", "answered"} => asked[r].since <= asked[r].head

CacheInv == CacheTypeOK /\ CacheOK

AskedRecord == [phase : {"idle", "read", "load", "join", "answered", "failed"},
                saw : CacheEntry \cup {NoEntry}, since : Head, head : Head]

LEMMA HeadTypes == 0 \in Head /\ (\A h \in Head : h \in Nat /\ h <= MaxHead)
BY CacheConstants DEF Head

LEMMA Freshness ==
  ASSUME NEW c \in CacheEntry, NEW b \in BOOLEAN
  PROVE  [c EXCEPT !.fresh = b] \in CacheEntry
BY DEF CacheEntry

LEMMA CacheInitOK == CacheInit => CacheInv
<1> SUFFICES ASSUME CacheInit PROVE CacheInv
  OBVIOUS
<1>1. Unasked \in AskedRecord
  BY HeadTypes DEF Unasked, AskedRecord
<1>2. asked \in [Request -> AskedRecord]
  BY <1>1 DEF CacheInit
<1> QED BY <1>2, HeadTypes DEF CacheInit, CacheInv, CacheTypeOK, CacheOK, AskedRecord, Unasked

\* A request goes on to another phase with a head on disk, or asks anew.
LEMMA RequestStep ==
  ASSUME CacheInv, NEW r \in Request, NEW n \in AskedRecord,
         asked' = [asked EXCEPT ![r] = n], UNCHANGED newest,
         n.since <= newest,
         n.phase \in {"load", "join", "answered"} => n.since <= n.head
  PROVE  asked' \in [Request -> AskedRecord] /\ CacheOK'
<1>1. asked' \in [Request -> AskedRecord]
  BY DEF CacheInv, CacheTypeOK, AskedRecord
<1> QED BY <1>1 DEF CacheInv, CacheTypeOK, CacheOK

LEMMA SettleStep ==
  ASSUME CacheInv, NEW r \in Request, NEW h \in Head,
         NEW p \in {"load", "join", "answered", "failed"},
         asked' = Settle(r, p, h), UNCHANGED newest, p = "failed" \/ h = newest
  PROVE  asked' \in [Request -> AskedRecord] /\ CacheOK'
<1> DEFINE n == [asked[r] EXCEPT !.phase = p, !.head = h, !.saw = NoEntry]
<1>1. asked[r] \in AskedRecord
  BY DEF CacheInv, CacheTypeOK, AskedRecord
<1>2. /\ n \in AskedRecord
      /\ n.phase = p /\ n.head = h /\ n.since = asked[r].since
  BY <1>1 DEF AskedRecord
<1>3. asked' = [asked EXCEPT ![r] = n]
  BY DEF Settle
<1>4. n.since <= newest
  BY <1>2 DEF CacheInv, CacheOK
<1> HIDE DEF n
<1> QED BY <1>2, <1>3, <1>4, RequestStep

LEMMA TellStep ==
  ASSUME CacheInv, NEW h \in Head, NEW p \in {"answered", "failed"}, Tell(h, p),
         UNCHANGED newest
  PROVE  asked' \in [Request -> AskedRecord] /\ CacheOK'
<1>1. \A r \in Request :
        /\ asked'[r] \in AskedRecord
        /\ asked'[r].since = asked[r].since /\ asked'[r].head = asked[r].head
        /\ asked'[r].phase # asked[r].phase => asked[r].phase \in {"load", "join"}
  <2> SUFFICES ASSUME NEW r \in Request
               PROVE  /\ asked'[r] \in AskedRecord
                      /\ asked'[r].since = asked[r].since /\ asked'[r].head = asked[r].head
                      /\ asked'[r].phase # asked[r].phase => asked[r].phase \in {"load", "join"}
    OBVIOUS
  <2>1. asked[r] \in AskedRecord
    BY DEF CacheInv, CacheTypeOK, AskedRecord
  <2>2. asked'[r] = IF r \in Waiting(h) THEN [asked[r] EXCEPT !.phase = p] ELSE asked[r]
    BY DEF Tell
  <2> QED BY <2>1, <2>2 DEF AskedRecord, Waiting
<1>2. asked' \in [Request -> AskedRecord]
  BY <1>1 DEF Tell
<1>3. CacheOK'
  BY <1>1 DEF CacheInv, CacheOK
<1> QED BY <1>2, <1>3

LEMMA CacheStep == CacheInv /\ [CacheNext]_cacheVars => CacheInv'
<1> SUFFICES ASSUME CacheInv, [CacheNext]_cacheVars PROVE CacheInv'
  OBVIOUS
<1> USE DEF CacheInv
<1>0. asked \in [Request -> AskedRecord]
  BY DEF CacheTypeOK, AskedRecord
<1>1. CASE UNCHANGED cacheVars
  BY <1>1 DEF cacheVars, CacheTypeOK, CacheOK
<1>2. CASE PutNext
  <2>1. newest' \in Head /\ newest' = newest + 1
    BY <1>2, CacheConstants DEF PutNext, CacheTypeOK, Head
  <2>2. CacheTypeOK'
    BY <1>2, <2>1 DEF PutNext, CacheTypeOK
  <2>3. CacheOK'
    <3>1. newest \in Nat /\ \A r \in Request : asked[r].since \in Nat
      BY <1>0, HeadTypes DEF CacheTypeOK, AskedRecord
    <3> QED BY <1>2, <2>1, <3>1 DEF PutNext, CacheOK
  <2> QED BY <2>2, <2>3
<1>3. CASE GoesStale \/ Evict
  <2>1. /\ cache' \in CacheEntry \cup {NoEntry} /\ events' \in Nat
        /\ UNCHANGED <<newest, inflight, asked, loadsDone>>
    <3>1. CASE GoesStale
      <4>1. cache \in CacheEntry /\ cache' = [cache EXCEPT !.fresh = FALSE]
        BY <3>1 DEF GoesStale, CacheTypeOK
      <4> QED BY <3>1, <4>1, Freshness DEF GoesStale, CacheTypeOK
    <3>2. CASE Evict
      BY <3>2 DEF Evict, CacheTypeOK
    <3> QED BY <1>3, <3>1, <3>2
  <2> QED BY <2>1 DEF CacheTypeOK, CacheOK
<1>4. ASSUME NEW r \in Request, AskCollection(r) PROVE CacheInv'
  <2> DEFINE late == [Unasked EXCEPT !.phase = "read", !.saw = cache, !.since = newest]
  <2>1. /\ Unasked \in AskedRecord /\ Unasked.since = 0 /\ Unasked.phase = "idle"
        /\ late \in AskedRecord /\ late.since = newest /\ late.phase = "read"
    BY HeadTypes DEF Unasked, AskedRecord, CacheTypeOK
  <2>2. PICK n \in {Unasked, late} : asked' = [asked EXCEPT ![r] = n]
    BY <1>4 DEF AskCollection
  <2> HIDE DEF late
  <2>3. UNCHANGED <<newest, cache, inflight, loadsDone, events>>
    BY <1>4 DEF AskCollection
  <2>4. asked' \in [Request -> AskedRecord] /\ CacheOK'
    <3>1. newest \in Nat /\ 0 <= newest /\ newest <= newest
      BY HeadTypes DEF CacheTypeOK
    <3>2. n \in AskedRecord /\ n.since <= newest /\ n.phase \in {"idle", "read"}
      BY <2>1, <2>2, <3>1
    <3> QED BY <2>2, <2>3, <3>2, RequestStep
  <2> QED BY <2>3, <2>4 DEF CacheTypeOK, AskedRecord
<1>5. ASSUME NEW r \in Request, Validate(r) PROVE CacheInv'
  <2>1. /\ asked' = Settle(r, "answered", newest)
        /\ UNCHANGED <<newest, inflight, loadsDone, events>>
    BY <1>5 DEF Validate
  <2>2. cache' \in CacheEntry \cup {NoEntry}
    BY <1>5, Freshness DEF Validate, CacheTypeOK
  <2>3. asked' \in [Request -> AskedRecord] /\ CacheOK'
    BY <2>1, SettleStep DEF CacheTypeOK
  <2> QED BY <2>1, <2>2, <2>3 DEF CacheTypeOK, AskedRecord
<1>6. ASSUME NEW r \in Request, ReadHead(r) PROVE CacheInv'
  <2>1. /\ \/ asked' = Settle(r, "failed", 0)
           \/ asked' = Settle(r, "load", newest)
           \/ asked' = Settle(r, "join", newest)
        /\ inflight' \subseteq inflight \cup {newest}
        /\ UNCHANGED <<newest, cache, loadsDone, events>>
    BY <1>6 DEF ReadHead, Joins
  <2>2. asked' \in [Request -> AskedRecord] /\ CacheOK'
    BY <2>1, SettleStep, HeadTypes DEF CacheTypeOK
  <2> QED BY <2>1, <2>2 DEF CacheTypeOK, AskedRecord
<1>7. ASSUME NEW r \in Request, Loaded(r) \/ LoadFails(r) PROVE CacheInv'
  <2>1. asked[r].head \in Head
    BY <1>0 DEF AskedRecord
  <2>2. /\ Tell(asked[r].head, "answered") \/ Tell(asked[r].head, "failed")
        /\ UNCHANGED newest /\ inflight' \subseteq inflight
        /\ loadsDone' \in Nat /\ events' \in Nat
    BY <1>7 DEF Loaded, LoadFails, CacheTypeOK
  <2>3. cache' \in CacheEntry \cup {NoEntry}
    <3>1. CASE Loaded(r)
      <4>1. cache' = [head |-> asked[r].head, id |-> loadsDone', fresh |-> TRUE]
        BY <3>1 DEF Loaded
      <4> QED BY <2>1, <2>2, <4>1 DEF CacheEntry
    <3>2. CASE LoadFails(r)
      BY <3>2 DEF LoadFails, CacheTypeOK
    <3> QED BY <1>7, <3>1, <3>2
  <2>4. asked' \in [Request -> AskedRecord] /\ CacheOK'
    BY <2>1, <2>2, TellStep
  <2> QED BY <2>2, <2>3, <2>4 DEF CacheTypeOK, AskedRecord
<1> QED BY <1>1, <1>2, <1>3, <1>4, <1>5, <1>6, <1>7 DEF CacheNext

LEMMA CacheInvariance == CacheSpec => []CacheInv
BY CacheInitOK, CacheStep, PTL DEF CacheSpec

(* The cache's entry, its loads and the open requests keep their types.       *)
THEOREM CacheTypes == CacheSpec => []CacheTypeOK
<1>1. CacheInv => CacheTypeOK
  BY DEF CacheInv
<1> QED BY <1>1, CacheInvariance, PTL

(* A request that finds no fresh entry gets a head at least as new as the one *)
(* on disk when it asked, although loads are shared, entries replaced and     *)
(* evicted, and heads put meanwhile.                                          *)
THEOREM AnswersAreCurrent == CacheSpec => []AnswerIsCurrent
<1>1. CacheInv => AnswerIsCurrent
  BY HeadTypes DEF CacheInv, CacheTypeOK, CacheOK, AnswerIsCurrent
<1> QED BY <1>1, CacheInvariance, PTL

-----------------------------------------------------------------------------
(* The accounts *)

\* What a request works on is of the kind its statements expect, the user it
\* acts for exists, and a guard that let it go on counted more than one.
CallsOK ==
  \A c \in Call :
    /\ call[c].op \in {"find", "create", "taken", "link", "unlink"} => call[c].on \in Wallet
    /\ call[c].op \in {"taken", "link", "unlink"} =>
         call[c].acting \in User /\ Exists(call[c].acting)
    /\ call[c].op = "unlink" => users[call[c].acting] = "mail" \/ call[c].count > 1
    /\ call[c].op = "demote" => call[c].count > 1

AccountsInv == AccountsTypeOK /\ CallsOK

Existing == {u \in User : Exists(u)}
CallRecord == [op : {"none", "find", "create", "taken", "link", "unlink",
                     "promote", "count", "demote"},
               acting : User \cup {Nobody}, on : User \cup Wallet \cup {Nobody},
               count : 0..Cardinality(User \cup Wallet)]
NonceRecord == [for : Wallet \cup {Nobody},
                state : {"unissued", "issued", "expired", "consumed"}]

\* A count of users or of wallets.
LEMMA Counts ==
  ASSUME NEW S, S \subseteq User \/ S \subseteq Wallet
  PROVE  Cardinality(S) \in 0..Cardinality(User \cup Wallet) /\ Cardinality(S) \in Nat
<1>1. IsFiniteSet(User \cup Wallet)
  BY AccountsConstants, FS_Union
<1>2. S \subseteq User \cup Wallet
  OBVIOUS
<1>3. IsFiniteSet(S) /\ Cardinality(S) <= Cardinality(User \cup Wallet)
  BY <1>1, <1>2, FS_Subset
<1> QED BY <1>1, <1>3, FS_CardinalityType

LEMMA NoCallType == NoCall \in CallRecord /\ NoCall.op = "none"
<1>1. 0 \in 0..Cardinality(User \cup Wallet)
  BY Counts, FS_EmptySet
<1> QED BY <1>1 DEF NoCall, CallRecord

LEMMA AccountsInitOK == AccountsInit => AccountsInv
<1> SUFFICES ASSUME AccountsInit PROVE AccountsInv
  OBVIOUS
<1>1. call \in [Call -> CallRecord] /\ \A c \in Call : call[c].op = "none"
  BY NoCallType DEF AccountsInit
<1>2. nonces \in [Nonce -> NonceRecord]
  BY DEF AccountsInit, NonceRecord
<1>3. AccountsTypeOK
  BY <1>1, <1>2 DEF AccountsInit, AccountsTypeOK, CallRecord, NonceRecord
<1> QED BY <1>1, <1>3 DEF AccountsInv, CallsOK

\* A request goes on; no user goes, and those with a mail address keep it.
LEMMA CallStep ==
  ASSUME AccountsInv, NEW c \in Call, NEW n \in CallRecord,
         call' = [call EXCEPT ![c] = n],
         \A u \in User : /\ Exists(u) => users'[u] = users[u]
                         /\ users'[u] \in {"none", "mail", "wallet"},
         users' = [u \in User |-> users'[u]],
         n.op \in {"find", "create", "taken", "link", "unlink"} => n.on \in Wallet,
         n.op \in {"taken", "link", "unlink"} => n.acting \in User /\ Exists(n.acting),
         n.op = "unlink" => users[n.acting] = "mail" \/ n.count > 1,
         n.op = "demote" => n.count > 1,
         admins' \subseteq Existing,
         owner' \in [Wallet -> Existing' \cup {Nobody}],
         nonces' \in [Nonce -> NonceRecord]
  PROVE  AccountsInv'
<1> USE DEF AccountsInv, AccountsTypeOK
<1>1. call' \in [Call -> CallRecord] /\ users' \in [User -> {"none", "mail", "wallet"}]
  BY DEF CallRecord
<1>2. \A u \in User : Exists(u) => Exists(u)'
  BY DEF Exists
<1>3. AccountsTypeOK'
  BY <1>1, <1>2 DEF CallRecord, NonceRecord, Existing
<1>4. call'[c] = n /\ \A d \in Call : d # c => call'[d] = call[d]
  OBVIOUS
<1>5. CallsOK'
  <2> SUFFICES ASSUME NEW d \in Call, NEW m, m = call'[d]
               PROVE  /\ m.op \in {"find", "create", "taken", "link", "unlink"} => m.on \in Wallet
                      /\ m.op \in {"taken", "link", "unlink"} =>
                           m.acting \in User /\ Exists(m.acting)'
                      /\ m.op = "unlink" => users'[m.acting] = "mail" \/ m.count > 1
                      /\ m.op = "demote" => m.count > 1
    BY DEF CallsOK, Exists
  <2>1. /\ m.op \in {"find", "create", "taken", "link", "unlink"} => m.on \in Wallet
        /\ m.op \in {"taken", "link", "unlink"} => m.acting \in User /\ Exists(m.acting)
        /\ m.op = "unlink" => users[m.acting] = "mail" \/ m.count > 1
        /\ m.op = "demote" => m.count > 1
    BY <1>4 DEF CallsOK
  <2> QED BY <1>2, <2>1
<1> QED BY <1>3, <1>5

\* The same when no user and no admin changes, but a request, a nonce and a
\* wallet may.
LEMMA PlainStep ==
  ASSUME AccountsInv, NEW c \in Call, NEW n \in CallRecord,
         call' = [call EXCEPT ![c] = n],
         n.op \in {"find", "create", "taken", "link", "unlink"} => n.on \in Wallet,
         n.op \in {"taken", "link", "unlink"} => n.acting \in User /\ Exists(n.acting),
         n.op = "unlink" => users[n.acting] = "mail" \/ n.count > 1,
         n.op = "demote" => n.count > 1,
         UNCHANGED users, admins' \subseteq Existing,
         owner' \in [Wallet -> Existing \cup {Nobody}],
         nonces' \in [Nonce -> NonceRecord]
  PROVE  AccountsInv'
<1>1. /\ \A u \in User : users'[u] = users[u] /\ users'[u] \in {"none", "mail", "wallet"}
      /\ users' = [u \in User |-> users'[u]]
      /\ Existing' = Existing
  BY DEF AccountsInv, AccountsTypeOK, Existing, Exists
<1> QED BY <1>1, CallStep

LEMMA NonceTypes ==
  ASSUME AccountsInv, NEW n \in Nonce, NEW w \in Wallet,
         IssueNonce(n, w) \/ ExpireNonce(n) \/ Consume(n, w)
  PROVE  nonces' \in [Nonce -> NonceRecord]
<1>1. nonces[n] \in NonceRecord /\ nonces \in [Nonce -> NonceRecord]
  BY DEF AccountsInv, AccountsTypeOK, NonceRecord
<1>2. \E m \in {[for |-> w, state |-> "issued"], [nonces[n] EXCEPT !.state = "expired"],
                [nonces[n] EXCEPT !.state = "consumed"]} :
        nonces' = [nonces EXCEPT ![n] = m]
  BY <1>1 DEF IssueNonce, ExpireNonce, Consume
<1> QED BY <1>1, <1>2 DEF NonceRecord

\* A request opens, on a wallet or on a user.
LEMMA OpenStep ==
  ASSUME AccountsInv, NEW c \in Call,
         \/ \E n \in Nonce, w \in Wallet :
              Authorize(c, n, w) \/ \E u \in User : Link(c, u, n, w)
         \/ \E u \in User : \/ \E w \in Wallet : Unlink(c, u, w)
                            \/ \E a \in User, op \in {"promote", "count"} :
                                 ChangeRole(c, a, u, op)
  PROVE  AccountsInv'
<1>1. UNCHANGED <<users, admins, owner>>
  BY DEF Authorize, Link, Unlink, ChangeRole
<1>2. admins \subseteq Existing /\ owner \in [Wallet -> Existing \cup {Nobody}]
  BY DEF AccountsInv, AccountsTypeOK, Existing
<1>3. nonces' \in [Nonce -> NonceRecord]
  <2>1. \/ UNCHANGED nonces
        \/ \E n \in Nonce, w \in Wallet : Consume(n, w)
    BY DEF Authorize, Link, Unlink, ChangeRole
  <2> QED BY <2>1, NonceTypes DEF AccountsInv, AccountsTypeOK, NonceRecord
<1>4. PICK op \in {"find", "taken", "unlink", "promote", "count"},
           acting \in User \cup {Nobody}, on \in User \cup Wallet,
           count \in 0..Cardinality(User \cup Wallet) :
        /\ Open(c, op, acting, on, count)
        /\ op \in {"find", "taken", "unlink"} => on \in Wallet
        /\ op \in {"taken", "unlink"} => acting \in User /\ Exists(acting)
        /\ op = "unlink" => users[acting] = "mail" \/ count > 1
  <2>1. 0 \in 0..Cardinality(User \cup Wallet)
    BY Counts, FS_EmptySet
  <2>2. CASE \E n \in Nonce, w \in Wallet :
               Authorize(c, n, w) \/ \E u \in User : Link(c, u, n, w)
    BY <2>1, <2>2 DEF Authorize, Link
  <2>3. CASE \E u \in User, w \in Wallet : Unlink(c, u, w)
    <3>1. PICK u \in User, w \in Wallet : Unlink(c, u, w)
      BY <2>3
    <3>2. Cardinality(WalletsOf(u)) \in 0..Cardinality(User \cup Wallet)
      BY Counts DEF WalletsOf
    <3> QED BY <3>1, <3>2 DEF Unlink, MayUnlink
  <2>4. CASE \E u \in User, a \in User, op \in {"promote", "count"} : ChangeRole(c, a, u, op)
    BY <2>1, <2>4 DEF ChangeRole
  <2> QED BY <2>2, <2>3, <2>4
<1>5. PICK n : n = [op |-> op, acting |-> acting, on |-> on, count |-> count]
  OBVIOUS
<1>6. /\ n \in CallRecord
      /\ n.op = op /\ n.acting = acting /\ n.on = on /\ n.count = count
  BY <1>5 DEF CallRecord
<1>7. call' = [call EXCEPT ![c] = n]
  BY <1>4, <1>5 DEF Open
<1> QED BY <1>1, <1>2, <1>3, <1>4, <1>6, <1>7, PlainStep

\* A request goes on to its next statement, or ends.
LEMMA GoOnStep ==
  ASSUME AccountsInv, NEW c \in Call,
         FindUser(c) \/ CheckTaken(c) \/ CountAdmins(c)
  PROVE  AccountsInv'
<1>1. UNCHANGED <<users, admins, owner, nonces>>
  BY DEF FindUser, CheckTaken, CountAdmins
<1>2. /\ admins \subseteq Existing /\ owner \in [Wallet -> Existing \cup {Nobody}]
      /\ nonces \in [Nonce -> NonceRecord] /\ call[c] \in CallRecord
  BY DEF AccountsInv, AccountsTypeOK, Existing, CallRecord, NonceRecord
<1>3. Cardinality(admins) \in 0..Cardinality(User \cup Wallet)
  BY <1>2, Counts DEF Existing
<1> DEFINE Next1(op) == [call[c] EXCEPT !.op = op]
           Demote == [call[c] EXCEPT !.op = "demote", !.count = Cardinality(admins)]
<1>4. PICK n : /\ call' = [call EXCEPT ![c] = n]
               /\ \/ n = NoCall
                  \/ call[c].op = "find" /\ n = Next1("create")
                  \/ call[c].op = "taken" /\ n = Next1("link")
                  \/ Cardinality(admins) > 1 /\ n = Demote
  BY DEF FindUser, CheckTaken, CountAdmins, Finish, GoOn, MayDemote
<1>5. CASE n = NoCall
  BY <1>1, <1>2, <1>4, <1>5, NoCallType, PlainStep
<1>6. ASSUME NEW op \in {"create", "link"}, n = Next1(op),
             call[c].op \in {"find", "taken"}, op = "link" => call[c].op = "taken"
      PROVE  AccountsInv'
  <2>1. n \in CallRecord /\ n.op = op /\ n.on = call[c].on /\ n.acting = call[c].acting
    BY <1>2, <1>6 DEF CallRecord
  <2>2. /\ call[c].on \in Wallet
        /\ op = "link" => call[c].acting \in User /\ Exists(call[c].acting)
    BY <1>6 DEF AccountsInv, CallsOK
  <2> QED BY <1>1, <1>2, <1>4, <1>6, <2>1, <2>2, PlainStep
<1>7. CASE Cardinality(admins) > 1 /\ n = Demote
  <2>1. n \in CallRecord /\ n.op = "demote" /\ n.count = Cardinality(admins)
    BY <1>2, <1>3, <1>7 DEF CallRecord
  <2> QED BY <1>1, <1>2, <1>4, <1>7, <2>1, PlainStep
<1> QED BY <1>4, <1>5, <1>6, <1>7

\* The wallet's row is inserted with its user, inserted, deleted, or left.
LEMMA WriteStep ==
  ASSUME AccountsInv, NEW c \in Call,
         CreateUser(c) \/ InsertLink(c) \/ DeleteLink(c) \/ Promote(c) \/ UpdateRole(c)
  PROVE  AccountsInv'
<1>1. /\ call' = [call EXCEPT ![c] = NoCall] /\ UNCHANGED nonces
      /\ nonces \in [Nonce -> NonceRecord]
  BY DEF CreateUser, InsertLink, DeleteLink, Promote, UpdateRole, Finish,
         AccountsInv, AccountsTypeOK, NonceRecord
<1>2. admins \subseteq Existing /\ owner \in [Wallet -> Existing \cup {Nobody}]
  BY DEF AccountsInv, AccountsTypeOK, Existing
<1>3. CASE CreateUser(c)
  <2>1. \/ UNCHANGED <<users, owner>>
        \/ \E u \in User : /\ ~Exists(u) /\ users' = [users EXCEPT ![u] = "wallet"]
                           /\ owner' = [owner EXCEPT ![call[c].on] = u]
    BY <1>3 DEF CreateUser
  <2>2. /\ users' = [u \in User |-> users'[u]]
        /\ \A u \in User : /\ Exists(u) => users'[u] = users[u]
                           /\ users'[u] \in {"none", "mail", "wallet"}
    BY <2>1 DEF AccountsInv, AccountsTypeOK, Exists
  <2>3. Existing \subseteq Existing'
    BY <2>2 DEF Existing, Exists
  <2>4. owner' \in [Wallet -> Existing' \cup {Nobody}]
    <3>1. CASE UNCHANGED <<users, owner>>
      BY <1>2, <2>3, <3>1
    <3>2. ASSUME NEW u \in User, users' = [users EXCEPT ![u] = "wallet"],
                 owner' = [owner EXCEPT ![call[c].on] = u]
          PROVE  owner' \in [Wallet -> Existing' \cup {Nobody}]
      <4>1. u \in Existing'
        BY <3>2 DEF Existing, Exists, AccountsInv, AccountsTypeOK
      <4> QED BY <1>2, <2>3, <3>2, <4>1
    <3> QED BY <2>1, <3>1, <3>2
  <2>5. UNCHANGED admins
    BY <1>3 DEF CreateUser
  <2> QED BY <1>1, <1>2, <2>2, <2>4, <2>5, NoCallType, CallStep
<1>4. CASE InsertLink(c) \/ DeleteLink(c)
  <2>1. UNCHANGED <<users, admins>>
    BY <1>4 DEF InsertLink, DeleteLink
  <2>2. call[c].op = "link" => call[c].acting \in Existing
    BY DEF AccountsInv, CallsOK, Existing
  <2>3. owner' \in [Wallet -> Existing \cup {Nobody}]
    BY <1>2, <1>4, <2>2 DEF InsertLink, DeleteLink
  <2> QED BY <1>1, <1>2, <2>1, <2>3, NoCallType, PlainStep
<1>5. CASE Promote(c) \/ UpdateRole(c)
  <2>1. UNCHANGED <<users, owner>> /\ admins' \subseteq Existing
    BY <1>2, <1>5 DEF Promote, UpdateRole, Existing
  <2> QED BY <1>1, <1>2, <2>1, NoCallType, PlainStep
<1> QED BY <1>3, <1>4, <1>5

LEMMA AccountsStep == AccountsInv /\ [AccountsNext]_accountVars => AccountsInv'
<1> SUFFICES ASSUME AccountsInv, [AccountsNext]_accountVars PROVE AccountsInv'
  OBVIOUS
<1>1. CASE UNCHANGED accountVars
  BY <1>1 DEF accountVars, AccountsInv, AccountsTypeOK, CallsOK, Exists
<1>2. CASE \E n \in Nonce : ExpireNonce(n) \/ \E w \in Wallet : IssueNonce(n, w)
  <2>1. UNCHANGED <<users, admins, owner, call>>
    BY <1>2 DEF ExpireNonce, IssueNonce
  <2>2. nonces' \in [Nonce -> NonceRecord]
    <3>1. CASE \E n \in Nonce : ExpireNonce(n)
      <4>1. PICK n \in Nonce : ExpireNonce(n)
        BY <3>1
      <4>2. nonces' = [nonces EXCEPT ![n] = [nonces[n] EXCEPT !.state = "expired"]]
        BY <4>1 DEF ExpireNonce, AccountsInv, AccountsTypeOK
      <4> QED BY <4>2 DEF NonceRecord, AccountsInv, AccountsTypeOK
    <3>2. CASE \E n \in Nonce, w \in Wallet : IssueNonce(n, w)
      BY <3>2, NonceTypes
    <3> QED BY <1>2, <3>1, <3>2
  <2> QED BY <2>1, <2>2 DEF NonceRecord, AccountsInv, AccountsTypeOK, CallsOK, Exists
<1> QED BY <1>1, <1>2, OpenStep, GoOnStep, WriteStep DEF AccountsNext

LEMMA AccountsInvariance == AccountsInit /\ [][AccountsNext]_accountVars => []AccountsInv
BY AccountsInitOK, AccountsStep, PTL

(* Users, admins, wallets, nonces and requests keep their types: every admin  *)
(* and every owner of a wallet is a user.                                     *)
THEOREM AccountTypes == AccountsInit /\ [][AccountsNext]_accountVars => []AccountsTypeOK
<1>1. AccountsInv => AccountsTypeOK
  BY DEF AccountsInv
<1> QED BY <1>1, AccountsInvariance, PTL

LEMMA SignInStays ==
  ASSUME AccountsInv, AccountsNext, NEW u \in User, Exists(u)', ~CanSignIn(u)'
  PROVE  \/ Exists(u) /\ ~CanSignIn(u)
         \/ \E c \in Call : /\ call[c].op = "unlink" /\ call[c].acting = u
                            /\ call[c].count > Cardinality(WalletsOf(u))
<1> USE DEF AccountsInv, AccountsTypeOK
<1>1. CASE UNCHANGED <<users, owner>>
  BY <1>1 DEF Exists, CanSignIn, WalletsOf
<1>2. ASSUME NEW c \in Call, CreateUser(c), ~UNCHANGED <<users, owner>>
      PROVE  Exists(u) /\ ~CanSignIn(u)
  <2>1. PICK o \in User : /\ ~Exists(o) /\ users' = [users EXCEPT ![o] = "wallet"]
                          /\ owner' = [owner EXCEPT ![call[c].on] = o]
                          /\ owner[call[c].on] = Nobody
    BY <1>2 DEF CreateUser
  <2>2. call[c].on \in Wallet
    BY <1>2 DEF CreateUser, CallsOK
  <2>3. u # o
    BY <2>1, <2>2 DEF CanSignIn, WalletsOf
  <2>4. WalletsOf(u) \subseteq WalletsOf(u)'
    BY <2>1, AccountsConstants DEF WalletsOf
  <2> QED BY <2>1, <2>3, <2>4 DEF Exists, CanSignIn
<1>3. ASSUME NEW c \in Call, InsertLink(c) PROVE Exists(u) /\ ~CanSignIn(u)
  <2>1. WalletsOf(u) \subseteq WalletsOf(u)'
    BY <1>3, AccountsConstants DEF InsertLink, WalletsOf
  <2> QED BY <1>3, <2>1 DEF InsertLink, Exists, CanSignIn
<1>4. ASSUME NEW c \in Call, DeleteLink(c)
      PROVE  \/ Exists(u) /\ ~CanSignIn(u)
             \/ /\ call[c].op = "unlink" /\ call[c].acting = u
                /\ call[c].count > Cardinality(WalletsOf(u))
  <2>1. /\ call[c].op = "unlink" /\ UNCHANGED users
        /\ owner' = IF owner[call[c].on] = call[c].acting
                    THEN [owner EXCEPT ![call[c].on] = Nobody] ELSE owner
    BY <1>4 DEF DeleteLink
  <2>2. WalletsOf(u) \ {call[c].on} \subseteq WalletsOf(u)'
    BY <2>1 DEF WalletsOf
  <2>3. Exists(u)
    BY <2>1 DEF Exists
  <2>4. CASE CanSignIn(u)
    <3>1. users[u] # "mail" /\ WalletsOf(u) # {} /\ WalletsOf(u)' = {}
      BY <2>1, <2>4 DEF CanSignIn
    <3>2. WalletsOf(u) = {call[c].on}
      BY <2>2, <3>1
    <3>3. owner[call[c].on] = u /\ owner' # owner
      BY <3>1, <3>2 DEF WalletsOf
    <3>4. call[c].acting = u
      BY <2>1, <3>3
    <3>5. call[c].count > 1
      BY <2>1, <3>1, <3>4 DEF CallsOK
    <3>6. Cardinality(WalletsOf(u)) = 1
      BY <3>2, FS_Singleton
    <3> QED BY <2>1, <3>4, <3>5, <3>6
  <2> QED BY <2>3, <2>4
<1>5. ASSUME NEW c \in Call,
             \/ FindUser(c) \/ CheckTaken(c) \/ Promote(c) \/ CountAdmins(c) \/ UpdateRole(c)
             \/ \E n \in Nonce, w \in Wallet :
                  Authorize(c, n, w) \/ \E x \in User : Link(c, x, n, w)
             \/ \E x \in User : \/ \E w \in Wallet : Unlink(c, x, w)
                                \/ \E a \in User, op \in {"promote", "count"} :
                                     ChangeRole(c, a, x, op)
      PROVE  UNCHANGED <<users, owner>>
  BY <1>5 DEF FindUser, CheckTaken, Promote, CountAdmins, UpdateRole, Authorize, Link, Unlink,
              ChangeRole
<1>6. ASSUME NEW n \in Nonce, ExpireNonce(n) \/ \E w \in Wallet : IssueNonce(n, w)
      PROVE  UNCHANGED <<users, owner>>
  BY <1>6 DEF ExpireNonce, IssueNonce
<1> QED BY <1>1, <1>2, <1>3, <1>4, <1>5, <1>6 DEF AccountsNext

LEMMA AdminsStay ==
  ASSUME AccountsInv, AccountsNext, admins # {}, admins' = {}
  PROVE  \E c \in Call : call[c].op = "demote" /\ call[c].count > Cardinality(admins)
<1>1. PICK c \in Call : UpdateRole(c)
  BY DEF AccountsNext, FindUser, CreateUser, CheckTaken, InsertLink, DeleteLink, Promote,
         CountAdmins, Authorize, Link, Unlink, ChangeRole, ExpireNonce, IssueNonce
<1>2. call[c].op = "demote" /\ call[c].count > 1
  BY <1>1 DEF UpdateRole, AccountsInv, CallsOK
<1>3. admins = {call[c].on}
  BY <1>1 DEF UpdateRole
<1>4. Cardinality(admins) = 1
  BY <1>3, FS_Singleton
<1> QED BY <1>2, <1>4

(* Whatever sign-ins, links, unlinks and role changes race, a user who can    *)
(* sign in stays able to and the server keeps an admin, unless an unlink or a *)
(* demotion counted before another one: the guard of a request bounds what    *)
(* its write can do, for any number of users, wallets and requests.           *)
THEOREM NobodyIsLockedOut == AccountsInit /\ [][AccountsNext]_accountVars => NobodyLockedOut
<1> DEFINE Body == (\A u \in User : SignInKept(u)) /\ AdminsKept
<1>1. AccountsInv /\ [AccountsNext]_accountVars => [Body]_accountVars
  BY SignInStays, AdminsStay DEF SignInKept, AdminsKept
<1>2. AccountsInit /\ [][AccountsNext]_accountVars => [][Body]_accountVars
  BY <1>1, AccountsInvariance, PTL
<1> QED BY <1>2 DEF NobodyLockedOut

-----------------------------------------------------------------------------
(* A web process runs each part by itself, so it keeps the types of them all. *)
THEOREM WebTypes == WebInit /\ [][WebNext]_webVars => []WebTypeOK
<1>1. WebInit => Init /\ SessionsInit /\ CacheInit /\ AccountsInit
  BY DEF WebInit
<1>2. [WebNext]_webVars => /\ [Next]_vars /\ [SessionsNext]_sessionVars
                           /\ [CacheNext]_cacheVars /\ [AccountsNext]_accountVars
  BY DEF WebNext, webVars
<1>3. TypeOK /\ SessionsTypeOK /\ CacheTypeOK /\ AccountsTypeOK => WebTypeOK
  BY DEF WebTypeOK
<1> QED BY <1>1, <1>2, <1>3, QueueTypes, SessionTypes, CacheTypes, AccountTypes, PTL
        DEF Spec, CacheSpec

=============================================================================
