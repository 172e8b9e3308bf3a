--------------------------- MODULE NightlyProofs ---------------------------
(* For any number of fires and kills: the lock of the nightly cron lets one   *)
(* fire work at a time, as long as nobody removed a lock that was not the     *)
(* dead fire's it had judged; and what the nights remember is kept: no        *)
(* variant tried twice, no push of what was not accepted, one issue per       *)
(* silence window.                                                            *)
EXTENDS Nightly, FiniteSetTheorems, TLAPS

\* A pid in the lock is that of a fire that got as far as the night.
PidInv ==
  lock.pid # Unset => fire[lock.pid].at \in Inside \cup {"done", "dead"}

\* Whoever is about to override a lock judged a fire that has ended, for good.
JudgedInv ==
  \A f \in Fire : fire[f].at = "stale" =>
    fire[f].judged \in Fire /\ fire[fire[f].judged].at \in {"done", "dead"}

\* The lock directory is the working fire's, or that of the one fire between
\* mkdir and the pid file.
HoldInv ==
  ~stolen => \A f \in Fire :
    /\ fire[f].at \in Inside => lock = [held |-> TRUE, pid |-> f]
    /\ fire[f].at = "mkdir" =>
         lock = [held |-> TRUE, pid |-> Unset] /\ \A g \in Fire : fire[g].at = "mkdir" => g = f

LockInv == LockTypeOK /\ PidInv /\ JudgedInv /\ HoldInv

\* What a step of the night does to the lock: nothing, and the fire stays inside.
Work(f) ==
  /\ fire[f].at \in Inside
  /\ \E r \in FireState : r.at \in Inside /\ fire' = [fire EXCEPT ![f] = r]
  /\ UNCHANGED <<lock, stolen>>

LEMMA ConstantTypes ==
  /\ Unset \notin Fire /\ Fire \subseteq Nat
  /\ \A place \in Inside \cup {"idle", "mkdir", "probe", "stale", "retry", "done", "dead"} :
       Fresh(place) \in FireState
BY NightlyAssumption DEF Fire, Fresh, FireState, Verdict

\* The moves of the program counter alone are work.
LEMMA Moves ==
  ASSUME LockTypeOK, NEW f \in Fire, fire[f].at \in Inside, NEW place \in Inside,
         Goto(f, place) \/ Enter(f, place), UNCHANGED <<lock, stolen>>
  PROVE  Work(f)
<1>1. CASE Goto(f, place)
  <2>1. [fire[f] EXCEPT !.at = place] \in FireState
    BY DEF LockTypeOK, FireState
  <2>2. fire' = [fire EXCEPT ![f] = [fire[f] EXCEPT !.at = place]]
    BY <1>1 DEF Goto, LockTypeOK
  <2> QED BY <2>1, <2>2 DEF Work, LockTypeOK, FireState
<1>2. CASE Enter(f, place)
  BY <1>2, ConstantTypes DEF Enter, Work, Fresh
<1> QED BY <1>1, <1>2

-----------------------------------------------------------------------------
(* The night itself *)

\* An update of the locals that stays inside is work.
LEMMA Updates ==
  ASSUME LockTypeOK, NEW f \in Fire, fire[f].at \in Inside,
         NEW r \in FireState, r.at \in Inside, fire' = [fire EXCEPT ![f] = r],
         UNCHANGED <<lock, stolen>>
  PROVE  Work(f)
BY DEF Work

LEMMA NightWorks ==
  ASSUME LockTypeOK, NEW f \in Fire,
         \/ Preflight(f) \/ Sweep(f) \/ Detect(f) \/ PlanFilings(f) \/ OpenIssue(f)
         \/ RecordIssue(f) \/ SettleIncidents(f) \/ ExpandFixture(f) \/ ReadTried(f) \/ EndCycle(f)
         \/ ProposeVariant(f) \/ ProposePatch(f) \/ Materialize(f) \/ Decide(f) \/ LogTried(f)
         \/ WriteChange(f) \/ CommitChange(f) \/ PushBranch(f)
  PROVE  Work(f)
<1>0. fire[f] \in FireState BY DEF LockTypeOK
<1> USE DEF At
<1>1. CASE Preflight(f)
  BY <1>1, Moves DEF Preflight, Inside
<1>2. CASE Sweep(f)
  BY <1>2, Moves DEF Sweep, Inside
<1>3. CASE Detect(f)
  <2>1. PICK bad \in SUBSET Corpus, ok \in SUBSET Corpus :
           IF bad = {} THEN Enter(f, "leave")
           ELSE fire' = [fire EXCEPT ![f].at = "issues", ![f].todo = bad, ![f].clear = ok]
    BY <1>3 DEF Detect
  <2>2. [fire[f] EXCEPT !.at = "issues", !.todo = bad, !.clear = ok] \in FireState
    BY <1>0 DEF FireState, Inside
  <2>3. fire[f].at \in Inside /\ UNCHANGED <<lock, stolen>>
    BY <1>3 DEF Detect, Inside
  <2>4. CASE bad = {}
    BY <2>1, <2>3, <2>4, Moves DEF Inside
  <2>5. CASE bad # {}
    <3>1. fire' = [fire EXCEPT ![f] =
                     [fire[f] EXCEPT !.at = "issues", !.todo = bad, !.clear = ok]]
      BY <2>1, <2>5
    <3> QED BY <1>0, <2>2, <2>3, <3>1, Updates DEF FireState, Inside
  <2> QED BY <2>4, <2>5
<1>4. CASE PlanFilings(f)
  <2> DEFINE r == [fire[f] EXCEPT !.at = "file", !.todo = {c \in @ : incident[c] # "recent"},
                                  !.clear = {c \in @ : incident[c] # "none"}]
  <2>1. r \in FireState /\ r.at \in Inside
    BY <1>0 DEF FireState, Inside
  <2>2. fire' = [fire EXCEPT ![f] = r]
    BY <1>4 DEF PlanFilings
  <2> QED BY <1>4, <2>1, <2>2, Updates DEF PlanFilings, Inside
<1>5. CASE OpenIssue(f)
  <2>1. PICK c \in fire[f].todo :
          fire' = [fire EXCEPT ![f].at = "filed", ![f].now = c] \/ Enter(f, "loop")
    BY <1>5 DEF OpenIssue
  <2> DEFINE r == [fire[f] EXCEPT !.at = "filed", !.now = c]
  <2>2. r \in FireState /\ r.at \in Inside
    BY <1>0 DEF FireState, Inside
  <2>3. fire' = [fire EXCEPT ![f] = r] \/ Enter(f, "loop")
    BY <2>1
  <2>4. fire[f].at \in Inside /\ UNCHANGED <<lock, stolen>>
    BY <1>5 DEF OpenIssue, Inside
  <2> QED BY <2>2, <2>3, <2>4, Updates, Moves DEF Inside
<1>6. CASE RecordIssue(f)
  <2> DEFINE r == [fire[f] EXCEPT !.at = "file", !.todo = @ \ {fire[f].now}, !.now = Unset]
  <2>1. r \in FireState /\ r.at \in Inside
    BY <1>0 DEF FireState, Inside
  <2>2. fire' = [fire EXCEPT ![f] = r]
    BY <1>6 DEF RecordIssue
  <2> QED BY <1>6, <2>1, <2>2, Updates DEF RecordIssue, Inside
<1>7. CASE SettleIncidents(f)
  BY <1>7, Moves DEF SettleIncidents, Inside
<1>8. CASE ExpandFixture(f)
  <2>1. PICK x \in Fixture : fire' = [fire EXCEPT ![f].at = "write", ![f].what = x]
    BY <1>8 DEF ExpandFixture
  <2> DEFINE r == [fire[f] EXCEPT !.at = "write", !.what = x]
  <2>2. r \in FireState /\ r.at \in Inside
    BY <1>0 DEF FireState, Inside, Change
  <2>3. fire' = [fire EXCEPT ![f] = r]
    BY <2>1
  <2> QED BY <1>8, <2>2, <2>3, Updates DEF ExpandFixture, Inside
<1>9. CASE ReadTried(f)
  <2> DEFINE r == [fire[f] EXCEPT !.at = "propose", !.seen = RecentlyTried]
  <2>1. r \in FireState /\ r.at \in Inside
    BY <1>0 DEF FireState, Inside, RecentlyTried
  <2>2. fire' = [fire EXCEPT ![f] = r]
    BY <1>9 DEF ReadTried
  <2> QED BY <1>9, <2>1, <2>2, Updates DEF ReadTried, Inside
<1>10. CASE EndCycle(f)
  BY <1>10, Moves DEF EndCycle, Inside
<1>11. CASE ProposeVariant(f) \/ ProposePatch(f)
  <2>1. PICK p \in Proposed : fire' = [fire EXCEPT ![f].at = "materialize", ![f].what = p]
    BY <1>11 DEF ProposeVariant, ProposePatch, Proposed
  <2> DEFINE r == [fire[f] EXCEPT !.at = "materialize", !.what = p]
  <2>2. r \in FireState /\ r.at \in Inside
    BY <1>0 DEF FireState, Inside, Change
  <2>3. fire' = [fire EXCEPT ![f] = r]
    BY <2>1
  <2> QED BY <1>11, <2>2, <2>3, Updates DEF ProposeVariant, ProposePatch, Inside
<1>12. CASE Materialize(f)
  <2> DEFINE v == IF fire[f].what \in Knob THEN "errored" ELSE "rejected"
             r == [fire[f] EXCEPT !.at = "logged", !.verdict = v]
  <2>1. r \in FireState /\ r.at \in Inside
    BY <1>0 DEF FireState, Inside, Verdict
  <2>2. Goto(f, "decide") \/ fire' = [fire EXCEPT ![f] = r]
    BY <1>12 DEF Materialize
  <2>3. fire[f].at \in Inside /\ UNCHANGED <<lock, stolen>>
    BY <1>12 DEF Materialize, Inside
  <2> QED BY <2>1, <2>2, <2>3, Updates, Moves DEF Inside
<1>13. CASE Decide(f)
  <2>1. PICK v \in {"accepted", "rejected"} :
          fire' = [fire EXCEPT ![f].at = "logged", ![f].verdict = v]
    BY <1>13 DEF Decide
  <2> DEFINE r == [fire[f] EXCEPT !.at = "logged", !.verdict = v]
  <2>2. r \in FireState /\ r.at \in Inside
    BY <1>0 DEF FireState, Inside, Verdict
  <2>3. fire' = [fire EXCEPT ![f] = r]
    BY <2>1
  <2> QED BY <1>13, <2>2, <2>3, Updates DEF Decide, Inside
<1>14. CASE LogTried(f)
  <2> DEFINE p == fire[f].what
             r == [Fresh(IF p \in Patch THEN "push" ELSE "write") EXCEPT !.what = p]
  <2>1. r \in FireState /\ r.at \in Inside
    BY <1>0, ConstantTypes DEF FireState, Inside, Fresh
  <2>2. Enter(f, "leave") \/ fire' = [fire EXCEPT ![f] = r]
    BY <1>14 DEF LogTried
  <2>3. fire[f].at \in Inside /\ UNCHANGED <<lock, stolen>>
    BY <1>14 DEF LogTried, Inside
  <2> QED BY <2>1, <2>2, <2>3, Updates, Moves DEF Inside
<1>15. CASE WriteChange(f)
  BY <1>15, Moves DEF WriteChange, GitFails, Inside
<1>16. CASE CommitChange(f)
  BY <1>16, Moves DEF CommitChange, GitFails, Inside
<1>17. CASE PushBranch(f)
  BY <1>17, Moves DEF PushBranch, Inside
<1> QED
  BY <1>1, <1>2, <1>3, <1>4, <1>5, <1>6, <1>7, <1>8, <1>9, <1>10, <1>11, <1>12, <1>13,
     <1>14, <1>15, <1>16, <1>17

-----------------------------------------------------------------------------
(* The lock *)

LEMMA WorkKeeps ==
  ASSUME LockInv, NEW f \in Fire, Work(f)
  PROVE  LockInv'
<1>1. PICK r \in FireState : r.at \in Inside /\ fire' = [fire EXCEPT ![f] = r]
  BY DEF Work
<1>2. fire \in [Fire -> FireState] /\ UNCHANGED <<lock, stolen>> /\ fire[f].at \in Inside
  BY DEF LockInv, LockTypeOK, Work
<1>3. \A g \in Fire \ {f} : fire'[g] = fire[g]
  BY <1>1, <1>2
<1>4. fire'[f] = r
  BY <1>1, <1>2
<1>5. LockTypeOK'
  BY <1>1, <1>2 DEF LockInv, LockTypeOK
<1>6. PidInv'
  BY <1>1, <1>2, <1>3, <1>4 DEF LockInv, LockTypeOK, PidInv
<1>7. JudgedInv'
  BY <1>1, <1>2, <1>3, <1>4 DEF LockInv, JudgedInv, Inside
<1>8. HoldInv'
  BY <1>1, <1>2, <1>3, <1>4 DEF LockInv, HoldInv, Inside
<1> QED BY <1>5, <1>6, <1>7, <1>8 DEF LockInv

\* What the other steps do to the fire that takes them.
LEMMA Places ==
  ASSUME LockTypeOK, NEW f \in Fire,
         NEW place \in Inside \cup {"idle", "mkdir", "probe", "stale", "retry", "done", "dead"},
         Goto(f, place) \/ Enter(f, place)
  PROVE  /\ fire' \in [Fire -> FireState] /\ fire'[f].at = place
         /\ \A g \in Fire \ {f} : fire'[g] = fire[g]
<1>1. CASE Goto(f, place)
  <2>1. [fire[f] EXCEPT !.at = place] \in FireState
    BY DEF LockTypeOK, FireState
  <2>2. fire' = [fire EXCEPT ![f] = [fire[f] EXCEPT !.at = place]]
    BY <1>1 DEF Goto, LockTypeOK
  <2> QED BY <2>1, <2>2 DEF LockTypeOK, FireState
<1>2. CASE Enter(f, place)
  BY <1>2, ConstantTypes DEF Enter, Fresh, LockTypeOK
<1> QED BY <1>1, <1>2

LEMMA MakeLockKeeps == ASSUME LockInv, NEW f \in Fire, MakeLock(f) PROVE LockInv'
<1> USE DEF LockInv, At
<1>1. fire[f].at \in {"idle", "retry"} /\ UNCHANGED stolen
  BY DEF MakeLock
<1>2. PICK place \in {"mkdir", "probe", "done"} :
        /\ Goto(f, place) \/ Enter(f, place)
        /\ place = "mkdir" => ~lock.held /\ lock' = [held |-> TRUE, pid |-> Unset]
        /\ place # "mkdir" => lock' = lock
  BY DEF MakeLock
<1>3. /\ fire' \in [Fire -> FireState] /\ fire'[f].at = place
      /\ \A g \in Fire \ {f} : fire'[g] = fire[g]
  BY <1>2, Places
<1>4. LockTypeOK'
  <2>1. lock' \in [held : BOOLEAN, pid : Fire \cup {Unset}]
    <3>1. CASE place = "mkdir"
      <4>1. lock' = [held |-> TRUE, pid |-> Unset] BY <1>2, <3>1
      <4> QED BY <4>1
    <3>2. CASE place # "mkdir" BY <1>2, <3>2 DEF LockTypeOK
    <3> QED BY <3>1, <3>2
  <2> QED BY <1>1, <1>3, <2>1 DEF LockTypeOK
<1>5. PidInv'
  BY <1>1, <1>2, <1>3 DEF PidInv, LockTypeOK, Inside
<1>6. JudgedInv'
  BY <1>1, <1>2, <1>3 DEF JudgedInv
<1>7. HoldInv'
  BY <1>1, <1>2, <1>3 DEF HoldInv, Inside
<1> QED BY <1>4, <1>5, <1>6, <1>7

LEMMA WritePidKeeps == ASSUME LockInv, NEW f \in Fire, WritePid(f) PROVE LockInv'
<1> USE DEF LockInv, At
<1>1. /\ fire[f].at = "mkdir" /\ UNCHANGED stolen
      /\ Goto(f, "preflight")
      /\ lock' = IF lock.held THEN [lock EXCEPT !.pid = f] ELSE lock
  BY DEF WritePid
<1>2. /\ fire' \in [Fire -> FireState] /\ fire'[f].at = "preflight"
      /\ \A g \in Fire \ {f} : fire'[g] = fire[g]
  BY <1>1, Places DEF Inside
<1>3. LockTypeOK'
  BY <1>1, <1>2 DEF LockTypeOK
<1>4. PidInv'
  BY <1>1, <1>2 DEF PidInv, LockTypeOK, Inside
<1>5. JudgedInv'
  BY <1>1, <1>2 DEF JudgedInv
<1>6. HoldInv'
  <2> SUFFICES ASSUME ~stolen'
               PROVE  /\ lock' = [held |-> TRUE, pid |-> f]
                      /\ \A g \in Fire \ {f} : fire'[g].at \notin Inside \cup {"mkdir"}
    BY <1>2 DEF HoldInv, Inside
  <2>1. lock = [held |-> TRUE, pid |-> Unset]
    BY <1>1 DEF HoldInv
  <2>2. ASSUME NEW g \in Fire \ {f} PROVE fire[g].at \notin Inside \cup {"mkdir"}
    <3>1. fire[g].at # "mkdir" BY <1>1 DEF HoldInv
    <3>2. fire[g].at \notin Inside BY <1>1, <2>1, ConstantTypes DEF HoldInv
    <3> QED BY <3>1, <3>2
  <2>3. lock' = [held |-> TRUE, pid |-> f]
    BY <1>1, <2>1
  <2> QED BY <1>2, <2>2, <2>3
<1> QED BY <1>3, <1>4, <1>5, <1>6

LEMMA ProbeKeeps == ASSUME LockInv, NEW f \in Fire, Probe(f) PROVE LockInv'
<1> USE DEF LockInv, At
<1>1. fire[f].at = "probe" /\ UNCHANGED <<lock, stolen>>
  BY DEF Probe
<1>2. CASE lock.pid # Unset /\ ~Alive(lock.pid)
  <2> DEFINE r == [fire[f] EXCEPT !.at = "stale", !.judged = lock.pid]
  <2>1. lock.pid \in Fire /\ fire[lock.pid].at \in {"done", "dead"}
    BY <1>2 DEF LockTypeOK, PidInv, Alive, Inside
  <2>0. fire[f] \in FireState
    BY DEF LockTypeOK
  <2>2. r \in FireState /\ r.at = "stale" /\ r.judged = lock.pid
    BY <2>0, <2>1 DEF FireState
  <2>3. fire' = [fire EXCEPT ![f] = r]
    BY <1>2 DEF Probe
  <2>4. /\ fire' \in [Fire -> FireState] /\ fire'[f] = r
        /\ \A g \in Fire \ {f} : fire'[g] = fire[g]
    BY <2>2, <2>3 DEF LockTypeOK
  <2>5. LockTypeOK'
    BY <1>1, <2>4 DEF LockTypeOK
  <2>6. PidInv'
    BY <1>1, <2>1, <2>4 DEF PidInv
  <2>7. JudgedInv'
    <3>1. \A g \in Fire : fire[g].at \in {"done", "dead"} => fire'[g].at \in {"done", "dead"}
      BY <1>1, <2>4
    <3>2. ASSUME NEW g \in Fire, fire'[g].at = "stale"
          PROVE  fire'[g].judged \in Fire /\ fire[fire'[g].judged].at \in {"done", "dead"}
      <4>1. CASE g = f BY <2>1, <2>2, <2>4, <4>1
      <4>2. CASE g # f BY <2>4, <3>2, <4>2 DEF JudgedInv
      <4> QED BY <4>1, <4>2
    <3> QED BY <3>1, <3>2 DEF JudgedInv
  <2>8. HoldInv'
    BY <1>1, <2>2, <2>4 DEF HoldInv, Inside
  <2> QED BY <2>5, <2>6, <2>7, <2>8
<1>3. CASE ~(lock.pid # Unset /\ ~Alive(lock.pid))
  <2>1. Enter(f, "done")
    BY <1>3 DEF Probe
  <2>2. /\ fire' \in [Fire -> FireState] /\ fire'[f].at = "done"
        /\ \A g \in Fire \ {f} : fire'[g] = fire[g]
    BY <2>1, Places
  <2>3. LockTypeOK'
    BY <1>1, <2>2 DEF LockTypeOK
  <2>4. PidInv'
    BY <1>1, <2>2 DEF PidInv, LockTypeOK
  <2>5. JudgedInv'
    BY <1>1, <2>2 DEF JudgedInv
  <2>6. HoldInv'
    BY <1>1, <2>2 DEF HoldInv, Inside
  <2> QED BY <2>3, <2>4, <2>5, <2>6
<1> QED BY <1>2, <1>3

\* The judged fire has ended, so a lock with its pid is nobody's.
LEMMA OverrideKeeps == ASSUME LockInv, NEW f \in Fire, Override(f) PROVE LockInv'
<1> USE DEF LockInv, At
<1>1. /\ fire[f].at = "stale" /\ lock' = NoLock /\ Enter(f, "retry")
      /\ stolen' = (stolen \/ (lock.held /\ lock.pid # fire[f].judged))
  BY DEF Override
<1>2. /\ fire' \in [Fire -> FireState] /\ fire'[f].at = "retry"
      /\ \A g \in Fire \ {f} : fire'[g] = fire[g]
  BY <1>1, Places
<1>3. LockTypeOK'
  BY <1>1, <1>2 DEF LockTypeOK, NoLock
<1>4. PidInv'
  BY <1>1 DEF PidInv, NoLock
<1>5. JudgedInv'
  BY <1>1, <1>2 DEF JudgedInv
<1>6. HoldInv'
  <2> SUFFICES ASSUME ~stolen', NEW g \in Fire
               PROVE  fire'[g].at \notin Inside \cup {"mkdir"}
    BY DEF HoldInv
  <2>1. ~stolen /\ (lock.held => lock.pid = fire[f].judged)
    BY <1>1 DEF LockTypeOK
  <2>2. fire[f].judged \in Fire /\ fire[fire[f].judged].at \in {"done", "dead"}
    BY <1>1 DEF JudgedInv
  <2>3. fire[g].at \notin Inside \cup {"mkdir"}
    BY <2>1, <2>2, ConstantTypes DEF HoldInv, Inside
  <2> QED BY <1>2, <2>3 DEF Inside
<1> QED BY <1>3, <1>4, <1>5, <1>6

LEMMA LeaveKeeps == ASSUME LockInv, NEW f \in Fire, Leave(f) PROVE LockInv'
<1> USE DEF LockInv, At
<1>1. /\ fire[f].at = "leave" /\ lock' = NoLock /\ Enter(f, "done")
      /\ stolen' = (stolen \/ (lock.held /\ lock.pid # f))
  BY DEF Leave
<1>2. /\ fire' \in [Fire -> FireState] /\ fire'[f].at = "done"
      /\ \A g \in Fire \ {f} : fire'[g] = fire[g]
  BY <1>1, Places
<1>3. LockTypeOK'
  BY <1>1, <1>2 DEF LockTypeOK, NoLock
<1>4. PidInv'
  BY <1>1 DEF PidInv, NoLock
<1>5. JudgedInv'
  BY <1>1, <1>2 DEF JudgedInv
<1>6. HoldInv'
  <2> SUFFICES ASSUME ~stolen', NEW g \in Fire
               PROVE  fire'[g].at \notin Inside \cup {"mkdir"}
    BY DEF HoldInv
  <2>1. ~stolen /\ lock = [held |-> TRUE, pid |-> f]
    BY <1>1 DEF HoldInv, LockTypeOK, Inside
  <2>2. g # f => fire[g].at \notin Inside \cup {"mkdir"}
    BY <2>1, ConstantTypes DEF HoldInv
  <2> QED BY <1>2, <2>2 DEF Inside
<1> QED BY <1>3, <1>4, <1>5, <1>6

LEMMA KillKeeps == ASSUME LockInv, NEW f \in Fire, KillFire(f) PROVE LockInv'
<1> USE DEF LockInv, At
<1>1. Alive(f) /\ Enter(f, "dead") /\ UNCHANGED <<lock, stolen>>
  BY DEF KillFire
<1>2. /\ fire' \in [Fire -> FireState] /\ fire'[f].at = "dead"
      /\ \A g \in Fire \ {f} : fire'[g] = fire[g]
  BY <1>1, Places
<1>3. LockTypeOK'
  BY <1>1, <1>2 DEF LockTypeOK
<1>4. PidInv'
  BY <1>1, <1>2 DEF PidInv, LockTypeOK
<1>5. JudgedInv'
  BY <1>1, <1>2 DEF JudgedInv
<1>6. HoldInv'
  BY <1>1, <1>2 DEF HoldInv, Inside
<1> QED BY <1>3, <1>4, <1>5, <1>6

LEMMA StepKeeps == LockInv /\ [NightNext]_nightVars => LockInv'
<1> SUFFICES ASSUME LockInv, [NightNext]_nightVars PROVE LockInv'
  OBVIOUS
<1>1. ASSUME NEW f \in Fire, NightStep(f) PROVE LockInv'
  BY <1>1, MakeLockKeeps, WritePidKeeps, ProbeKeeps, OverrideKeeps, LeaveKeeps, KillKeeps,
     NightWorks, WorkKeeps DEF NightStep, LockInv
<1>2. CASE Restore \/ TimePasses \/ UNCHANGED nightVars
  <2>1. UNCHANGED <<fire, lock, stolen>>
    BY <1>2 DEF Restore, TimePasses, nightVars
  <2> QED BY <2>1 DEF LockInv, LockTypeOK, PidInv, JudgedInv, HoldInv
<1> QED BY <1>1, <1>2 DEF NightNext

LEMMA InitKeeps == NightInit => LockInv
<1> SUFFICES ASSUME NightInit PROVE LockInv
  OBVIOUS
<1>1. lock = NoLock /\ stolen = FALSE /\ fire = [f \in Fire |-> Fresh("idle")]
  BY DEF NightInit
<1>2. fire \in [Fire -> FireState]
  BY <1>1, ConstantTypes
<1>3. \A f \in Fire : fire[f].at = "idle"
  BY <1>1 DEF Fresh
<1>4. LockTypeOK
  BY <1>1, <1>2 DEF LockTypeOK, NoLock
<1>5. PidInv
  BY <1>1 DEF PidInv, NoLock
<1>6. JudgedInv /\ HoldInv
  BY <1>3 DEF JudgedInv, HoldInv, Inside
<1> QED BY <1>4, <1>5, <1>6 DEF LockInv

\* The lock keeps its type, a judged fire has ended, and the lock is the working
\* fire's: mkdir, the pid file and the trap of run-nightly.sh.
THEOREM LockInvariant == NightSpec => []LockInv
BY InitKeeps, StepKeeps, PTL DEF NightSpec

\* At most one fire is past the lock, until somebody removes a lock that was not
\* the dead fire's: two fires that judge the same dead holder can.
THEOREM OneNightHolds == NightSpec => []OneNightAtATime
<1>1. LockInv => OneNightAtATime
  BY ConstantTypes DEF LockInv, HoldInv, OneNightAtATime
<1> QED BY <1>1, LockInvariant, PTL

-----------------------------------------------------------------------------
(* What a night remembers *)

Accepted(p) == \E r \in tried : r.what = p /\ r.verdict = "accepted"

\* A fire that weighs, logs or publishes does it for a proposal, and what it
\* publishes was logged as accepted.
FireOK(f) ==
  /\ fire[f].at = "filed" => fire[f].now \in Corpus
  /\ fire[f].at \in {"materialize", "decide", "logged"} => fire[f].what \in Proposed
  /\ fire[f].at \in {"write", "commit", "push"} =>
       fire[f].what \in Change /\ (fire[f].what \in Proposed => Accepted(fire[f].what))
  /\ fire[f].at \in {"write", "commit"} => fire[f].what \notin Patch

\* Commits and modifications outlive their fires.
RepoOK ==
  \A p \in Proposed : p \in checkout \cup dirty \cup (UNION pushed) => Accepted(p)

\* What a fire that works alone has read is still so.
AloneOK(f) ==
  /\ fire[f].at = "propose" => RecentlyTried \subseteq fire[f].seen
  /\ fire[f].at \in {"materialize", "decide", "logged"} => fire[f].what \notin RecentlyTried
  /\ fire[f].at = "decide" => rows[StageOf(fire[f].what)] = fire[f].what
  /\ fire[f].at \in {"file", "filed"} => \A c \in fire[f].todo : incident[c] # "recent"
  /\ fire[f].at = "filed" => fire[f].now \in fire[f].todo

\* An issue of this silence window is recorded, or about to be.
Recorded(c) ==
  issued[c] = 1 => \/ incident[c] = "recent"
                   \/ \E f \in Fire : fire[f].at = "filed" /\ fire[f].now = c
PastOK ==
  /\ repeats = {} /\ borrowed = {}
  /\ \A c \in Corpus \ unsure : issued[c] \in {0, 1} /\ Recorded(c)

NightInv ==
  /\ LockInv /\ NightTypeOK /\ RepoOK
  /\ \A f \in Fire : FireOK(f)
  /\ ~stolen => PastOK /\ \A f \in Fire : AloneOK(f)

\* A step of fire f.  A fire that works does it alone, so nobody else has read
\* what it changes.
LEMMA FireKeeps ==
  ASSUME NightInv, LockInv', NEW f \in Fire,
         \A g \in Fire \ {f} : fire'[g] = fire[g],
         NightTypeOK', RepoOK', FireOK(f)',
         \A p : Accepted(p) => Accepted(p)',
         stolen => stolen',
         fire[f].at \in Inside \/ UNCHANGED <<incident, tried, rows>>,
         ~stolen /\ ~stolen' => PastOK' /\ AloneOK(f)'
  PROVE  NightInv'
<1>1. ASSUME NEW g \in Fire PROVE FireOK(g)'
  <2>1. CASE g = f
    BY <2>1
  <2>2. CASE g # f
    <3>1. FireOK(g) /\ fire'[g] = fire[g]
      BY <2>2 DEF NightInv
    <3> QED BY <3>1 DEF FireOK
  <2> QED BY <2>1, <2>2
<1>2. ASSUME ~stolen', NEW g \in Fire PROVE AloneOK(g)'
  <2>1. ~stolen /\ AloneOK(f)' /\ AloneOK(g)
    BY <1>2 DEF NightInv
  <2>2. CASE g # f /\ fire[f].at \in Inside
    <3>1. fire[g].at \notin Inside
      BY <2>1, <2>2, ConstantTypes DEF NightInv, LockInv, HoldInv
    <3>2. fire'[g] = fire[g]
      BY <2>2
    <3> QED BY <3>1, <3>2 DEF AloneOK, Inside
  <2>3. CASE g # f /\ UNCHANGED <<incident, tried, rows>>
    <3>1. fire'[g] = fire[g]
      BY <2>3
    <3>2. RecentlyTried' = RecentlyTried
      BY <2>3 DEF RecentlyTried
    <3> QED BY <2>1, <2>3, <3>1, <3>2 DEF AloneOK
  <2> QED BY <2>1, <2>2, <2>3
<1> QED BY <1>1, <1>2 DEF NightInv

\* A step that reads and writes nothing of this.
LEMMA QuietKeeps ==
  ASSUME NightInv, LockInv', NEW f \in Fire,
         \A g \in Fire \ {f} : fire'[g] = fire[g],
         fire'[f].at \notin {"filed", "materialize", "decide", "logged", "write", "commit", "push",
                             "propose", "file"},
         UNCHANGED <<worldVars, borrowed, repeats, issued>>,
         unsure \subseteq unsure', unsure' \subseteq Corpus,
         fire[f].at = "filed" => fire[f].now \in unsure',
         nights' \in 0..MaxNights, kills' \in 0..MaxFireKills, stolen => stolen'
  PROVE  NightInv'
<1>1. UNCHANGED <<incident, tried, rows, checkout, dirty, pushed, borrowed, repeats, issued>>
  BY DEF worldVars
<1>2. NightTypeOK'
  BY <1>1 DEF NightInv, NightTypeOK, LockInv
<1>3. RepoOK' /\ \A p : Accepted(p) => Accepted(p)'
  BY <1>1 DEF NightInv, RepoOK, Accepted
<1>4. FireOK(f)' /\ AloneOK(f)'
  BY DEF FireOK, AloneOK
<1>5. ASSUME ~stolen PROVE PastOK'
  <2>1. PastOK
    BY <1>5 DEF NightInv
  <2>2. ASSUME NEW c \in Corpus \ unsure' PROVE Recorded(c)'
    <3>1. Recorded(c) /\ c \notin unsure'
      BY <2>1, <2>2 DEF PastOK
    <3>2. ASSUME NEW g \in Fire, fire[g].at = "filed", fire[g].now = c
          PROVE  fire'[g] = fire[g]
      BY <3>1, <3>2
    <3> QED BY <1>1, <3>1, <3>2 DEF Recorded
  <2> QED BY <1>1, <2>1, <2>2 DEF PastOK
<1> QED BY <1>1, <1>2, <1>3, <1>4, <1>5, FireKeeps

LEMMA LockStepsQuiet ==
  ASSUME NightInv, LockInv', NEW f \in Fire,
         \/ MakeLock(f) \/ WritePid(f) \/ Probe(f) \/ Override(f) \/ Leave(f) \/ KillFire(f)
         \/ Preflight(f) \/ Sweep(f) \/ Detect(f) \/ EndCycle(f)
  PROVE  NightInv'
<1> USE DEF At
<1>1. LockTypeOK /\ NightTypeOK /\ fire \in [Fire -> FireState]
  BY DEF NightInv, NightTypeOK, LockTypeOK
<1>2. fire[f].now \in Corpus \/ fire[f].at # "filed"
  BY DEF NightInv, FireOK
<1>3. /\ \A g \in Fire \ {f} : fire'[g] = fire[g]
      /\ fire'[f].at \in {"mkdir", "probe", "done", "preflight", "stale", "retry", "dead", "sweep",
                          "leave", "detect", "issues"}
  <2>1. CASE Probe(f) \/ Detect(f)
    <3>1. \/ \E r : fire' = [fire EXCEPT ![f] = r] /\ r.at \in {"stale", "issues"}
          \/ \E place \in {"done", "leave"} : Enter(f, place)
      <4>1. CASE Probe(f)
        BY <1>1, <4>1 DEF Probe, FireState
      <4>2. CASE Detect(f)
        <5>1. PICK bad \in SUBSET Corpus, ok \in SUBSET Corpus :
                 IF bad = {} THEN Enter(f, "leave")
                 ELSE fire' = [fire EXCEPT ![f].at = "issues", ![f].todo = bad, ![f].clear = ok]
          BY <4>2 DEF Detect
        <5> DEFINE r == [fire[f] EXCEPT !.at = "issues", !.todo = bad, !.clear = ok]
        <5>2. r.at = "issues"
          BY <1>1 DEF FireState
        <5>3. Enter(f, "leave") \/ fire' = [fire EXCEPT ![f] = r]
          BY <5>1
        <5> QED BY <5>2, <5>3
      <4> QED BY <2>1, <4>1, <4>2
    <3> QED BY <1>1, <3>1, Places DEF Inside
  <2>2. CASE ~(Probe(f) \/ Detect(f))
    <3>1. \E place \in {"mkdir", "probe", "done", "preflight", "retry", "dead", "sweep", "leave",
                        "detect"} : Goto(f, place) \/ Enter(f, place)
      BY <2>2 DEF MakeLock, WritePid, Override, Leave, KillFire, Preflight, Sweep, EndCycle
    <3> QED BY <1>1, <3>1, Places DEF Inside
  <2> QED BY <2>1, <2>2
<1>4. /\ UNCHANGED <<worldVars, borrowed, repeats, issued>>
      /\ unsure' = unsure \/ (fire[f].at = "filed" /\ unsure' = unsure \cup {fire[f].now})
      /\ fire[f].at = "filed" => fire[f].now \in unsure'
      /\ stolen => stolen'
  <2>1. CASE KillFire(f)
    BY <2>1 DEF KillFire, pastVars
  <2>2. CASE ~KillFire(f)
    <3>1. UNCHANGED <<worldVars, pastVars>>
      BY <2>2 DEF MakeLock, WritePid, Probe, Override, Leave, Preflight, Sweep, Detect, EndCycle
    <3>2. fire[f].at # "filed"
      BY <2>2 DEF MakeLock, WritePid, Probe, Override, Leave, Preflight, Sweep, Detect, EndCycle
    <3>3. stolen => stolen'
      BY <2>2 DEF MakeLock, WritePid, Probe, Override, Leave, Preflight, Sweep, Detect, EndCycle
    <3> QED BY <3>1, <3>2, <3>3 DEF pastVars
  <2> QED BY <2>1, <2>2
<1>5. nights' \in 0..MaxNights
  <2>1. nights' = nights \/ (nights < MaxNights /\ nights' = nights + 1)
    BY DEF MakeLock, WritePid, Probe, Override, Leave, KillFire, Preflight, Sweep, Detect, EndCycle
  <2>2. nights \in 0..MaxNights /\ MaxNights \in Nat
    BY <1>1, NightlyAssumption DEF NightTypeOK
  <2> QED BY <2>1, <2>2
<1>6. kills' \in 0..MaxFireKills
  <2>1. kills' = kills \/ (kills < MaxFireKills /\ kills' = kills + 1)
    BY DEF MakeLock, WritePid, Probe, Override, Leave, KillFire, Preflight, Sweep, Detect, EndCycle
  <2>2. kills \in 0..MaxFireKills /\ MaxFireKills \in Nat
    BY <1>1, NightlyAssumption DEF NightTypeOK
  <2> QED BY <2>1, <2>2
<1>7. unsure \subseteq unsure' /\ unsure' \subseteq Corpus
  BY <1>1, <1>2, <1>4 DEF NightTypeOK
<1> QED BY <1>3, <1>4, <1>5, <1>6, <1>7, QuietKeeps

\* A step of the night that reads, and writes only its own locals.
LEMMA ReadKeeps ==
  ASSUME NightInv, LockInv', NEW f \in Fire, NEW r, fire' = [fire EXCEPT ![f] = r],
         fire[f].at # "filed", UNCHANGED <<worldVars, pastVars, nights, kills, stolen>>,
         FireOK(f)', ~stolen => AloneOK(f)'
  PROVE  NightInv'
<1>1. UNCHANGED <<incident, tried, rows, checkout, dirty, pushed, borrowed, repeats, issued, unsure>>
  BY DEF worldVars, pastVars
<1>2. fire'[f] = r /\ \A g \in Fire \ {f} : fire'[g] = fire[g]
  BY DEF NightInv, LockInv, LockTypeOK
<1>3. NightTypeOK'
  BY <1>1 DEF NightInv, NightTypeOK, LockInv
<1>4. RepoOK' /\ \A p : Accepted(p) => Accepted(p)'
  BY <1>1 DEF NightInv, RepoOK, Accepted
<1>5. ASSUME ~stolen PROVE PastOK'
  <2>1. PastOK
    BY <1>5 DEF NightInv
  <2>2. ASSUME NEW c \in Corpus \ unsure' PROVE Recorded(c)'
    <3>1. Recorded(c)
      BY <1>1, <2>1, <2>2 DEF PastOK
    <3>2. ASSUME NEW g \in Fire, fire[g].at = "filed" PROVE fire'[g] = fire[g]
      BY <1>2, <3>2
    <3> QED BY <1>1, <3>1, <3>2 DEF Recorded
  <2> QED BY <1>1, <2>1, <2>2 DEF PastOK
<1> QED BY <1>1, <1>2, <1>3, <1>4, <1>5, FireKeeps

LEMMA ReadersKeep ==
  ASSUME NightInv, LockInv', NEW f \in Fire,
         \/ PlanFilings(f) \/ ExpandFixture(f) \/ ReadTried(f) \/ ProposeVariant(f)
         \/ ProposePatch(f)
  PROVE  NightInv'
<1> USE DEF At
<1>1. fire \in [Fire -> FireState] /\ fire[f] \in FireState
  BY DEF NightInv, LockInv, LockTypeOK
<1>2. UNCHANGED <<worldVars, pastVars, nights, kills, stolen>> /\ fire[f].at # "filed"
  BY DEF PlanFilings, ExpandFixture, ReadTried, ProposeVariant, ProposePatch
<1>3. UNCHANGED <<tried, incident>> /\ RecentlyTried' = RecentlyTried
  BY <1>2 DEF worldVars, RecentlyTried
<1>4. CASE PlanFilings(f)
  <2>1. PICK r : /\ fire' = [fire EXCEPT ![f] = r] /\ r.at = "file"
                 /\ r.todo = {c \in fire[f].todo : incident[c] # "recent"}
    <3> DEFINE r == [fire[f] EXCEPT !.at = "file", !.todo = {c \in @ : incident[c] # "recent"},
                                    !.clear = {c \in @ : incident[c] # "none"}]
    <3>1. fire' = [fire EXCEPT ![f] = r]
      BY <1>4 DEF PlanFilings
    <3>2. r.at = "file" /\ r.todo = {c \in fire[f].todo : incident[c] # "recent"}
      BY <1>1 DEF FireState
    <3> QED BY <3>1, <3>2
  <2>2. fire'[f] = r
    BY <1>1, <2>1
  <2>3. FireOK(f)' /\ AloneOK(f)'
    BY <1>3, <2>1, <2>2 DEF FireOK, AloneOK
  <2> QED BY <1>2, <2>1, <2>3, ReadKeeps
<1>5. CASE ExpandFixture(f)
  <2>1. PICK r : fire' = [fire EXCEPT ![f] = r] /\ r.at = "write" /\ r.what \in Fixture
    <3>1. PICK x \in Fixture : fire' = [fire EXCEPT ![f].at = "write", ![f].what = x]
      BY <1>5 DEF ExpandFixture
    <3> DEFINE r == [fire[f] EXCEPT !.at = "write", !.what = x]
    <3>2. fire' = [fire EXCEPT ![f] = r]
      BY <3>1
    <3>3. r.at = "write" /\ r.what = x
      BY <1>1 DEF FireState
    <3> QED BY <3>2, <3>3
  <2>2. fire'[f] = r
    BY <1>1, <2>1
  <2>3. r.what \in Change /\ r.what \notin Proposed /\ r.what \notin Patch
    BY <2>1, NightlyAssumption DEF Change, Proposed
  <2>4. FireOK(f)' /\ AloneOK(f)'
    BY <2>1, <2>2, <2>3 DEF FireOK, AloneOK
  <2> QED BY <1>2, <2>1, <2>4, ReadKeeps
<1>6. CASE ReadTried(f)
  <2>1. PICK r : fire' = [fire EXCEPT ![f] = r] /\ r.at = "propose" /\ r.seen = RecentlyTried
    <3> DEFINE r == [fire[f] EXCEPT !.at = "propose", !.seen = RecentlyTried]
    <3>1. fire' = [fire EXCEPT ![f] = r]
      BY <1>6 DEF ReadTried
    <3>2. r.at = "propose" /\ r.seen = RecentlyTried
      BY <1>1 DEF FireState
    <3> QED BY <3>1, <3>2
  <2>2. fire'[f] = r
    BY <1>1, <2>1
  <2>3. FireOK(f)' /\ AloneOK(f)'
    BY <1>3, <2>1, <2>2 DEF FireOK, AloneOK
  <2> QED BY <1>2, <2>1, <2>3, ReadKeeps
<1>7. CASE ProposeVariant(f) \/ ProposePatch(f)
  <2>1. fire[f].at = "propose" /\ (~stolen => RecentlyTried \subseteq fire[f].seen)
    BY <1>7 DEF ProposeVariant, ProposePatch, NightInv, AloneOK
  <2>2. PICK p \in Proposed : /\ fire' = [fire EXCEPT ![f].at = "materialize", ![f].what = p]
                              /\ p \in Patch \/ p \notin fire[f].seen
    BY <1>7 DEF ProposeVariant, ProposePatch, Proposed
  <2>3. ~stolen => p \notin RecentlyTried
    BY <2>1, <2>2, NightlyAssumption DEF RecentlyTried
  <2>4. PICK r : fire' = [fire EXCEPT ![f] = r] /\ r.at = "materialize" /\ r.what = p
    <3> DEFINE r == [fire[f] EXCEPT !.at = "materialize", !.what = p]
    <3>1. fire' = [fire EXCEPT ![f] = r]
      BY <2>2
    <3>2. r.at = "materialize" /\ r.what = p
      BY <1>1 DEF FireState
    <3> QED BY <3>1, <3>2
  <2>5. fire'[f] = r
    BY <1>1, <2>4
  <2>6. FireOK(f)' /\ (~stolen => AloneOK(f)')
    BY <1>3, <2>3, <2>4, <2>5 DEF FireOK, AloneOK
  <2> QED BY <1>2, <2>4, <2>6, ReadKeeps
<1> QED BY <1>4, <1>5, <1>6, <1>7

\* The only fire that works is f.
LEMMA Alone ==
  ASSUME NightInv, ~stolen, NEW f \in Fire, fire[f].at \in Inside, NEW g \in Fire,
         fire[g].at \in Inside
  PROVE  g = f
BY ConstantTypes DEF NightInv, LockInv, HoldInv

LEMMA OpenIssueKeeps ==
  ASSUME NightInv, LockInv', NEW f \in Fire, OpenIssue(f)
  PROVE  NightInv'
<1> USE DEF At
<1>1. fire \in [Fire -> FireState] /\ fire[f] \in FireState
  BY DEF NightInv, LockInv, LockTypeOK
<1>2. PICK c \in fire[f].todo :
        \/ /\ fire' = [fire EXCEPT ![f].at = "filed", ![f].now = c]
           /\ issued' = [issued EXCEPT ![c] = @ + 1]
        \/ /\ Enter(f, "loop")
           /\ UNCHANGED issued
  BY DEF OpenIssue
<1>3. /\ fire[f].at = "file" /\ c \in Corpus
      /\ UNCHANGED <<incident, tried, rows, checkout, dirty, pushed>>
      /\ UNCHANGED <<nights, kills, stolen, borrowed, repeats, unsure>>
  BY <1>1, <1>2 DEF OpenIssue, worldVars, FireState
<1>4. RepoOK' /\ \A p : Accepted(p) => Accepted(p)'
  BY <1>3 DEF NightInv, RepoOK, Accepted
<1>5. ~stolen => /\ PastOK /\ AloneOK(f)
                 /\ \A g \in Fire : fire[g].at # "filed"
  BY <1>3, Alone DEF NightInv, Inside
<1>6. CASE /\ fire' = [fire EXCEPT ![f].at = "filed", ![f].now = c]
           /\ issued' = [issued EXCEPT ![c] = @ + 1]
  <2>1. PICK r : /\ fire' = [fire EXCEPT ![f] = r] /\ r.at = "filed" /\ r.now = c
                 /\ r.todo = fire[f].todo
    <3> DEFINE r == [fire[f] EXCEPT !.at = "filed", !.now = c]
    <3>1. fire' = [fire EXCEPT ![f] = r]
      BY <1>6
    <3>2. r.at = "filed" /\ r.now = c /\ r.todo = fire[f].todo
      BY <1>1 DEF FireState
    <3> QED BY <3>1, <3>2
  <2>2. fire'[f] = r /\ \A g \in Fire \ {f} : fire'[g] = fire[g]
    BY <1>1, <2>1
  <2>3. issued \in [Corpus -> Nat] /\ issued' \in [Corpus -> Nat]
    BY <1>3, <1>6 DEF NightInv, NightTypeOK
  <2>4. NightTypeOK'
    BY <1>3, <2>3 DEF NightInv, NightTypeOK, LockInv
  <2>5. FireOK(f)' /\ (~stolen => AloneOK(f)')
    BY <1>2, <1>3, <1>5, <2>1, <2>2 DEF FireOK, AloneOK
  <2>6. ASSUME ~stolen PROVE PastOK'
    <3>1. ASSUME NEW k \in Corpus \ unsure' PROVE issued'[k] \in {0, 1} /\ Recorded(k)'
      <4>1. issued[k] \in {0, 1} /\ Recorded(k)
        BY <1>3, <1>5, <2>6, <3>1 DEF PastOK
      <4>2. CASE k = c
        <5>1. incident[c] # "recent"
          BY <1>2, <1>3, <1>5, <2>6 DEF AloneOK
        <5>2. issued[k] = 0
          BY <1>5, <2>6, <4>1, <4>2, <5>1 DEF Recorded
        <5>3. issued'[k] = 1
          BY <1>6, <2>3, <3>1, <4>2, <5>2
        <5> QED BY <2>1, <2>2, <4>2, <5>3 DEF Recorded
      <4>3. CASE k # c
        <5>1. issued'[k] = issued[k]
          BY <1>6, <2>3, <3>1, <4>3
        <5>2. issued[k] = 1 => incident'[k] = "recent"
          BY <1>3, <1>5, <2>6, <4>1 DEF Recorded
        <5> QED BY <4>1, <5>1, <5>2 DEF Recorded
      <4> QED BY <4>2, <4>3
    <3> QED BY <1>3, <1>5, <2>6, <3>1 DEF PastOK
  <2> QED BY <1>3, <1>4, <2>2, <2>4, <2>5, <2>6, FireKeeps
<1>7. CASE Enter(f, "loop") /\ UNCHANGED issued
  <2>1. Fresh("loop").at = "loop"
    BY DEF Fresh
  <2>2. fire'[f].at = "loop" /\ \A g \in Fire \ {f} : fire'[g] = fire[g]
    BY <1>1, <1>7, <2>1 DEF Enter
  <2>3. nights \in 0..MaxNights /\ kills \in 0..MaxFireKills /\ unsure \subseteq Corpus
    BY DEF NightInv, NightTypeOK
  <2> QED BY <1>3, <1>7, <2>2, <2>3, QuietKeeps DEF worldVars
<1> QED BY <1>2, <1>6, <1>7

LEMMA RecordIssueKeeps ==
  ASSUME NightInv, LockInv', NEW f \in Fire, RecordIssue(f)
  PROVE  NightInv'
<1> USE DEF At
<1>1. fire \in [Fire -> FireState] /\ fire[f] \in FireState
  BY DEF NightInv, LockInv, LockTypeOK
<1>2. PICK c \in Corpus : fire[f].at = "filed" /\ fire[f].now = c
  BY DEF RecordIssue, NightInv, FireOK
<1>3. /\ incident' = [incident EXCEPT ![c] = "recent"]
      /\ UNCHANGED <<tried, rows, checkout, dirty, pushed>>
      /\ UNCHANGED <<nights, kills, stolen, borrowed, repeats, issued, unsure>>
  BY <1>2 DEF RecordIssue, gitVars, pastVars
<1>4. PICK r : fire' = [fire EXCEPT ![f] = r] /\ r.at = "file" /\ r.todo = fire[f].todo \ {c}
  <2> DEFINE r == [fire[f] EXCEPT !.at = "file", !.todo = @ \ {fire[f].now}, !.now = Unset]
  <2>1. fire' = [fire EXCEPT ![f] = r]
    BY DEF RecordIssue
  <2>2. r.at = "file" /\ r.todo = fire[f].todo \ {c}
    BY <1>1, <1>2 DEF FireState
  <2> QED BY <2>1, <2>2
<1>5. fire'[f] = r /\ \A g \in Fire \ {f} : fire'[g] = fire[g]
  BY <1>1, <1>4
<1>6. /\ incident \in [Corpus -> {"none", "recent", "silent"}]
      /\ incident' \in [Corpus -> {"none", "recent", "silent"}]
  BY <1>3 DEF NightInv, NightTypeOK
<1>7. NightTypeOK'
  BY <1>3, <1>6 DEF NightInv, NightTypeOK, LockInv
<1>8. RepoOK' /\ \A p : Accepted(p) => Accepted(p)'
  BY <1>3 DEF NightInv, RepoOK, Accepted
<1>9. ASSUME ~stolen PROVE PastOK' /\ AloneOK(f)'
  <2>1. PastOK /\ AloneOK(f) /\ \A g \in Fire : fire[g].at = "filed" => g = f
    BY <1>2, <1>9, Alone DEF NightInv, Inside
  <2>2. AloneOK(f)'
    <3>1. \A k \in fire[f].todo \ {c} : incident'[k] # "recent"
      BY <1>1, <1>2, <1>3, <1>6, <2>1 DEF AloneOK, FireState
    <3> QED BY <1>4, <1>5, <3>1 DEF AloneOK
  <2>3. ASSUME NEW k \in Corpus \ unsure' PROVE issued'[k] \in {0, 1} /\ Recorded(k)'
    <3>1. issued[k] \in {0, 1} /\ Recorded(k)
      BY <1>3, <2>1, <2>3 DEF PastOK
    <3>2. issued[k] = 1 => incident'[k] = "recent"
      BY <1>2, <1>3, <1>6, <2>1, <3>1 DEF Recorded
    <3> QED BY <1>3, <3>1, <3>2 DEF Recorded
  <2> QED BY <1>3, <2>1, <2>2, <2>3 DEF PastOK
<1>10. FireOK(f)'
  BY <1>4, <1>5 DEF FireOK
<1> QED BY <1>2, <1>3, <1>5, <1>7, <1>8, <1>9, <1>10, FireKeeps DEF Inside

LEMMA SettleKeeps ==
  ASSUME NightInv, LockInv', NEW f \in Fire, SettleIncidents(f)
  PROVE  NightInv'
<1> USE DEF At
<1>1. fire \in [Fire -> FireState] /\ fire[f] \in FireState
  BY DEF NightInv, LockInv, LockTypeOK
<1>2. /\ fire[f].at = "file" /\ Enter(f, "loop")
      /\ incident' = [c \in Corpus |-> IF c \in fire[f].clear THEN "none" ELSE incident[c]]
      /\ issued' = [c \in Corpus |-> IF c \in fire[f].clear THEN 0 ELSE issued[c]]
      /\ UNCHANGED <<tried, rows, checkout, dirty, pushed>>
      /\ UNCHANGED <<nights, kills, stolen, borrowed, repeats, unsure>>
  BY DEF SettleIncidents, gitVars
<1>3. fire'[f].at = "loop" /\ \A g \in Fire \ {f} : fire'[g] = fire[g]
  <2>1. Fresh("loop").at = "loop"
    BY DEF Fresh
  <2> QED BY <1>1, <1>2, <2>1 DEF Enter
<1>4. /\ incident' \in [Corpus -> {"none", "recent", "silent"}]
      /\ issued' \in [Corpus -> Nat]
  BY <1>2 DEF NightInv, NightTypeOK
<1>5. NightTypeOK'
  BY <1>2, <1>4 DEF NightInv, NightTypeOK, LockInv
<1>6. RepoOK' /\ \A p : Accepted(p) => Accepted(p)'
  BY <1>2 DEF NightInv, RepoOK, Accepted
<1>7. FireOK(f)' /\ AloneOK(f)'
  BY <1>3 DEF FireOK, AloneOK
<1>8. ASSUME ~stolen PROVE PastOK'
  <2>1. PastOK /\ \A g \in Fire : fire[g].at # "filed"
    BY <1>2, <1>8, Alone DEF NightInv, Inside
  <2>2. ASSUME NEW k \in Corpus \ unsure' PROVE issued'[k] \in {0, 1} /\ Recorded(k)'
    <3>1. issued[k] \in {0, 1} /\ Recorded(k)
      BY <1>2, <2>1, <2>2 DEF PastOK
    <3>2. issued[k] = 1 => incident[k] = "recent"
      BY <2>1, <3>1 DEF Recorded
    <3>3. /\ issued'[k] = IF k \in fire[f].clear THEN 0 ELSE issued[k]
          /\ incident'[k] = IF k \in fire[f].clear THEN "none" ELSE incident[k]
      BY <1>2, <2>2
    <3> QED BY <3>1, <3>2, <3>3 DEF Recorded
  <2> QED BY <1>2, <2>1, <2>2 DEF PastOK
<1> QED BY <1>2, <1>3, <1>5, <1>6, <1>7, <1>8, FireKeeps DEF Inside

\* A step that has nothing to do with the issues.
LEMMA IssuesRest ==
  ASSUME NightInv, ~stolen, NEW f \in Fire, fire[f].at # "filed",
         \A g \in Fire \ {f} : fire'[g] = fire[g],
         UNCHANGED <<incident, issued, unsure>>, repeats' = {}, borrowed' = {}
  PROVE  PastOK'
<1>1. PastOK
  BY DEF NightInv
<1>2. ASSUME NEW k \in Corpus \ unsure' PROVE Recorded(k)'
  <2>1. Recorded(k)
    BY <1>1, <1>2 DEF PastOK
  <2>2. ASSUME NEW g \in Fire, fire[g].at = "filed" PROVE fire'[g] = fire[g]
    BY <2>2
  <2> QED BY <2>1, <2>2 DEF Recorded
<1> QED BY <1>1, <1>2 DEF PastOK

LEMMA MaterializeKeeps ==
  ASSUME NightInv, LockInv', NEW f \in Fire, Materialize(f)
  PROVE  NightInv'
<1> USE DEF At
<1>1. fire \in [Fire -> FireState] /\ fire[f] \in FireState
  BY DEF NightInv, LockInv, LockTypeOK
<1>2. PICK p \in Proposed : p = fire[f].what
  BY DEF Materialize, NightInv, FireOK
<1>3. /\ fire[f].at = "materialize"
      /\ UNCHANGED <<incident, tried, checkout, dirty, pushed>>
      /\ UNCHANGED <<nights, kills, stolen, borrowed, repeats, issued, unsure>>
  BY DEF Materialize, gitVars, pastVars
<1>4. PICK r :
        /\ fire' = [fire EXCEPT ![f] = r] /\ r.what = p
        /\ \/ rows' = [rows EXCEPT ![StageOf(p)] = p] /\ r.at = "decide"
           \/ rows' \in {rows, [rows EXCEPT ![StageOf(p)] = p]} /\ r.at = "logged"
  <2> DEFINE v == IF p \in Knob THEN "errored" ELSE "rejected"
             r == [fire[f] EXCEPT !.at = "decide"]
             q == [fire[f] EXCEPT !.at = "logged", !.verdict = v]
  <2>1. \/ rows' = [rows EXCEPT ![StageOf(p)] = p] /\ fire' = [fire EXCEPT ![f] = r]
        \/ /\ rows' \in {rows, [rows EXCEPT ![StageOf(p)] = p]}
           /\ fire' = [fire EXCEPT ![f] = q]
    BY <1>2 DEF Materialize, Goto
  <2>2. r.at = "decide" /\ r.what = p /\ q.at = "logged" /\ q.what = p
    BY <1>1, <1>2 DEF FireState
  <2> QED BY <2>1, <2>2
<1>5. fire'[f] = r /\ \A g \in Fire \ {f} : fire'[g] = fire[g]
  BY <1>1, <1>4
<1>6. StageOf(p) \in Stage /\ rows \in [Stage -> Proposed \cup {Unset}]
  BY DEF StageOf, Stage, NightInv, NightTypeOK
<1>7. NightTypeOK'
  <2>1. rows' \in [Stage -> Proposed \cup {Unset}]
    BY <1>4, <1>6
  <2> QED BY <1>3, <2>1 DEF NightInv, NightTypeOK, LockInv
<1>8. RepoOK' /\ \A x : Accepted(x) => Accepted(x)'
  BY <1>3 DEF NightInv, RepoOK, Accepted
<1>9. FireOK(f)'
  BY <1>4, <1>5 DEF FireOK
<1>10. ASSUME ~stolen PROVE PastOK' /\ AloneOK(f)'
  <2>1. p \notin RecentlyTried /\ repeats = {} /\ borrowed = {}
    BY <1>2, <1>3, <1>10 DEF NightInv, AloneOK, PastOK
  <2>2. RecentlyTried' = RecentlyTried
    BY <1>3 DEF RecentlyTried
  <2>3. r.at = "decide" => rows'[StageOf(p)] = p
    BY <1>4, <1>6
  <2>4. AloneOK(f)'
    BY <1>4, <1>5, <2>1, <2>2, <2>3 DEF AloneOK
  <2>5. PastOK'
    BY <1>3, <1>5, <1>10, <2>1, IssuesRest
  <2> QED BY <2>4, <2>5
<1> QED BY <1>3, <1>5, <1>7, <1>8, <1>9, <1>10, FireKeeps DEF Inside

LEMMA DecideKeeps ==
  ASSUME NightInv, LockInv', NEW f \in Fire, Decide(f)
  PROVE  NightInv'
<1> USE DEF At
<1>1. fire \in [Fire -> FireState] /\ fire[f] \in FireState
  BY DEF NightInv, LockInv, LockTypeOK
<1>2. PICK p \in Proposed : p = fire[f].what
  BY DEF Decide, NightInv, FireOK
<1>3. /\ fire[f].at = "decide"
      /\ UNCHANGED <<incident, tried, rows, checkout, dirty, pushed>>
      /\ UNCHANGED <<nights, kills, stolen, repeats, issued, unsure>>
  BY DEF Decide, worldVars
<1>4. PICK r :
        /\ fire' = [fire EXCEPT ![f] = r] /\ r.what = p /\ r.at = "logged"
        /\ \/ borrowed' = borrowed
           \/ borrowed' = borrowed \cup {p} /\ rows[StageOf(p)] # p
  <2>1. PICK v \in {"accepted", "rejected"} :
          /\ fire' = [fire EXCEPT ![f].at = "logged", ![f].verdict = v]
          /\ borrowed' = IF v = "accepted" /\ rows[StageOf(p)] # p
                         THEN borrowed \cup {p} ELSE borrowed
    BY <1>2 DEF Decide
  <2> DEFINE r == [fire[f] EXCEPT !.at = "logged", !.verdict = v]
  <2>2. fire' = [fire EXCEPT ![f] = r]
    BY <2>1
  <2>3. r.at = "logged" /\ r.what = p
    BY <1>1, <1>2 DEF FireState
  <2> QED BY <2>1, <2>2, <2>3
<1>5. fire'[f] = r /\ \A g \in Fire \ {f} : fire'[g] = fire[g]
  BY <1>1, <1>4
<1>6. NightTypeOK'
  BY <1>3, <1>4 DEF NightInv, NightTypeOK, LockInv
<1>7. RepoOK' /\ \A x : Accepted(x) => Accepted(x)'
  BY <1>3 DEF NightInv, RepoOK, Accepted
<1>8. FireOK(f)'
  BY <1>4, <1>5 DEF FireOK
<1>9. ASSUME ~stolen PROVE PastOK' /\ AloneOK(f)'
  <2>1. p \notin RecentlyTried /\ rows[StageOf(p)] = p /\ repeats = {} /\ borrowed = {}
    BY <1>2, <1>3, <1>9 DEF NightInv, AloneOK, PastOK
  <2>2. RecentlyTried' = RecentlyTried
    BY <1>3 DEF RecentlyTried
  <2>3. AloneOK(f)'
    BY <1>4, <1>5, <2>1, <2>2 DEF AloneOK
  <2>4. PastOK'
    BY <1>3, <1>4, <1>5, <1>9, <2>1, IssuesRest
  <2> QED BY <2>3, <2>4
<1> QED BY <1>3, <1>5, <1>6, <1>7, <1>8, <1>9, FireKeeps DEF Inside

LEMMA LogTriedKeeps ==
  ASSUME NightInv, LockInv', NEW f \in Fire, LogTried(f)
  PROVE  NightInv'
<1> USE DEF At
<1>1. fire \in [Fire -> FireState] /\ fire[f] \in FireState
  BY DEF NightInv, LockInv, LockTypeOK
<1>2. PICK p \in Proposed : p = fire[f].what
  BY DEF LogTried, NightInv, FireOK
<1>3. PICK v \in Verdict : v = fire[f].verdict
  BY <1>1 DEF FireState
<1>4. /\ fire[f].at = "logged"
      /\ tried' = tried \cup {[what |-> p, verdict |-> v, old |-> FALSE]}
      /\ repeats' = IF p \in RecentlyTried THEN repeats \cup {p} ELSE repeats
      /\ UNCHANGED <<incident, rows, checkout, dirty, pushed>>
      /\ UNCHANGED <<nights, kills, stolen, borrowed, issued, unsure>>
  BY <1>2, <1>3 DEF LogTried, gitVars
<1>5. PICK r :
        /\ fire' = [fire EXCEPT ![f] = r]
        /\ \/ r.at = "leave"
           \/ /\ v = "accepted" /\ r.what = p
              /\ r.at = IF p \in Patch THEN "push" ELSE "write"
  <2> DEFINE place == IF p \in Patch THEN "push" ELSE "write"
             r == [Fresh(place) EXCEPT !.what = p]
  <2>1. Enter(f, "leave") \/ (v = "accepted" /\ fire' = [fire EXCEPT ![f] = r])
    BY <1>2, <1>3 DEF LogTried
  <2>2. r.at = place /\ r.what = p /\ Fresh("leave").at = "leave"
    BY DEF Fresh
  <2> QED BY <2>1, <2>2 DEF Enter
<1>6. fire'[f] = r /\ \A g \in Fire \ {f} : fire'[g] = fire[g]
  BY <1>1, <1>5
<1>7. NightTypeOK'
  <2> DEFINE Row == [what : Proposed, verdict : Verdict, old : BOOLEAN]
  <2>0. [what |-> p, verdict |-> v, old |-> FALSE] \in Row
    OBVIOUS
  <2>1. tried' \subseteq Row
    BY <1>4, <2>0 DEF NightInv, NightTypeOK
  <2>2. repeats' \subseteq Knob
    BY <1>4 DEF NightInv, NightTypeOK, RecentlyTried
  <2> QED BY <1>4, <2>1, <2>2 DEF NightInv, NightTypeOK, LockInv
<1>8. \A x : Accepted(x) => Accepted(x)'
  BY <1>4 DEF Accepted
<1>9. RepoOK'
  BY <1>4, <1>8 DEF NightInv, RepoOK
<1>10. FireOK(f)'
  <2>1. v = "accepted" => Accepted(p)'
    <3>1. PICK row : row = [what |-> p, verdict |-> v, old |-> FALSE]
      OBVIOUS
    <3>2. row \in tried' /\ row.what = p /\ row.verdict = v
      BY <1>4, <3>1
    <3> QED BY <3>2 DEF Accepted
  <2>2. p \in Change
    BY <1>2 DEF Change
  <2> QED BY <1>5, <1>6, <2>1, <2>2 DEF FireOK
<1>11. ASSUME ~stolen PROVE PastOK' /\ AloneOK(f)'
  <2>1. p \notin RecentlyTried /\ repeats = {} /\ borrowed = {}
    BY <1>2, <1>4, <1>11 DEF NightInv, AloneOK, PastOK
  <2>2. AloneOK(f)'
    BY <1>5, <1>6 DEF AloneOK
  <2>3. PastOK'
    BY <1>4, <1>6, <1>11, <2>1, IssuesRest
  <2> QED BY <2>2, <2>3
<1> QED BY <1>4, <1>6, <1>7, <1>8, <1>9, <1>10, <1>11, FireKeeps DEF Inside

\* The promoters: what they write, commit and push was accepted, or lay there.
LEMMA PromotersKeep ==
  ASSUME NightInv, LockInv', NEW f \in Fire,
         WriteChange(f) \/ CommitChange(f) \/ PushBranch(f)
  PROVE  NightInv'
<1> USE DEF At
<1>1. fire \in [Fire -> FireState] /\ fire[f] \in FireState /\ LockTypeOK
  BY DEF NightInv, LockInv, LockTypeOK
<1>2. /\ fire[f].at \in {"write", "commit", "push"}
      /\ UNCHANGED <<incident, tried, rows>>
      /\ UNCHANGED <<nights, kills, stolen, borrowed, repeats, issued, unsure>>
  BY DEF WriteChange, CommitChange, PushBranch, logVars, pastVars
<1>3. PICK p \in Change : p = fire[f].what /\ (p \in Proposed => Accepted(p))
  BY <1>2 DEF NightInv, FireOK
<1>4. checkout \subseteq Change /\ dirty \subseteq Change /\ pushed \subseteq SUBSET Change
  BY DEF NightInv, NightTypeOK
<1>5. /\ checkout' \subseteq Change /\ dirty' \subseteq Change /\ pushed' \subseteq SUBSET Change
      /\ checkout' \cup dirty' \cup (UNION pushed') \subseteq checkout \cup dirty \cup {p} \cup (UNION pushed)
  <2>1. CASE WriteChange(f)
    <3>1. dirty' \subseteq dirty \cup {p} /\ UNCHANGED <<checkout, pushed>>
      BY <1>3, <2>1 DEF WriteChange
    <3> QED BY <1>4, <3>1
  <2>2. CASE CommitChange(f)
    <3>1. checkout' \subseteq checkout \cup dirty /\ dirty' \subseteq dirty /\ UNCHANGED pushed
      BY <2>2 DEF CommitChange
    <3> QED BY <1>4, <3>1
  <2>3. CASE PushBranch(f)
    <3>1. pushed' \subseteq pushed \cup {{p}, checkout} /\ UNCHANGED <<checkout, dirty>>
      BY <1>3, <2>3 DEF PushBranch
    <3> QED BY <1>4, <3>1
  <2> QED BY <2>1, <2>2, <2>3
<1>6. PICK r :
        /\ fire' = [fire EXCEPT ![f] = r]
        /\ \/ r.at \in {"read", "leave"}
           \/ r.at \in {"commit", "push"} /\ fire[f].at \in {"write", "commit"} /\ r.what = p
  <2>1. \/ \E place \in {"read", "leave"} : Enter(f, place)
        \/ fire[f].at \in {"write", "commit"} /\ \E place \in {"commit", "push"} : Goto(f, place)
    BY DEF WriteChange, CommitChange, PushBranch, GitFails
  <2>2. ASSUME NEW place \in {"read", "leave"}, Enter(f, place)
        PROVE  fire' = [fire EXCEPT ![f] = Fresh(place)] /\ Fresh(place).at = place
    BY <2>2 DEF Enter, Fresh
  <2>3. ASSUME NEW place \in {"commit", "push"}, Goto(f, place)
        PROVE  \E r : fire' = [fire EXCEPT ![f] = r] /\ r.at = place /\ r.what = p
    <3> DEFINE r == [fire[f] EXCEPT !.at = place]
    <3>1. fire' = [fire EXCEPT ![f] = r]
      BY <2>3 DEF Goto
    <3>2. r.at = place /\ r.what = p
      BY <1>1, <1>3 DEF FireState
    <3> QED BY <3>1, <3>2
  <2> QED BY <2>1, <2>2, <2>3
<1>7. fire'[f] = r /\ \A g \in Fire \ {f} : fire'[g] = fire[g]
  BY <1>1, <1>6
<1>8. NightTypeOK'
  BY <1>2, <1>5 DEF NightInv, NightTypeOK, LockInv
<1>9. RepoOK' /\ \A x : Accepted(x) => Accepted(x)'
  BY <1>2, <1>3, <1>5 DEF NightInv, RepoOK, Accepted
<1>10. FireOK(f)'
  <2>1. fire[f].at \in {"write", "commit"} => p \notin Patch
    BY <1>3 DEF NightInv, FireOK
  <2> QED BY <1>3, <1>6, <1>7, <1>9, <2>1 DEF FireOK
<1>11. ASSUME ~stolen PROVE PastOK' /\ AloneOK(f)'
  <2>1. repeats = {} /\ borrowed = {}
    BY <1>11 DEF NightInv, PastOK
  <2>2. PastOK'
    BY <1>2, <1>7, <1>11, <2>1, IssuesRest
  <2>3. AloneOK(f)'
    BY <1>6, <1>7 DEF AloneOK
  <2> QED BY <2>2, <2>3
<1> QED BY <1>2, <1>7, <1>8, <1>9, <1>10, <1>11, FireKeeps DEF Inside

\* The maintainer checks out main again: what the branch had is forgotten.
LEMMA RestoreKeeps == ASSUME NightInv, LockInv', Restore PROVE NightInv'
<1>1. UNCHANGED <<fire, lock, incident, tried, rows, dirty, pushed, nights, kills, stolen,
                  borrowed, repeats, issued, unsure>> /\ checkout' = {}
  BY DEF Restore, logVars, pastVars
<1>2. NightTypeOK' /\ RepoOK'
  BY <1>1 DEF NightInv, NightTypeOK, LockInv, RepoOK, Accepted
<1>3. \A f \in Fire : FireOK(f)'
  BY <1>1 DEF NightInv, FireOK, Accepted
<1>4. ASSUME ~stolen PROVE PastOK' /\ \A f \in Fire : AloneOK(f)'
  <2>1. RecentlyTried' = RecentlyTried
    BY <1>1 DEF RecentlyTried
  <2>2. PastOK /\ \A f \in Fire : AloneOK(f)
    BY <1>4 DEF NightInv
  <2>3. PastOK'
    BY <1>1, <2>2 DEF PastOK, Recorded
  <2>4. \A f \in Fire : AloneOK(f)'
    BY <1>1, <2>1, <2>2 DEF AloneOK
  <2> QED BY <2>3, <2>4
<1> QED BY <1>1, <1>2, <1>3, <1>4 DEF NightInv

\* A week or a month passes between the nights: rows grow old, none is lost, and
\* no issue counts for the new silence window.
LEMMA TimePassesKeeps == ASSUME NightInv, LockInv', TimePasses PROVE NightInv'
<1>1. PICK month \in BOOLEAN : tried' = {[r EXCEPT !.old = @ \/ month] : r \in tried}
  BY DEF TimePasses
<1>2. /\ incident' = [c \in Corpus |-> IF incident[c] = "recent" THEN "silent" ELSE incident[c]]
      /\ issued' = [c \in Corpus |-> 0]
      /\ UNCHANGED <<fire, rows, checkout, dirty, pushed, nights, kills, stolen>>
      /\ UNCHANGED <<borrowed, repeats, unsure>>
  BY DEF TimePasses, gitVars
<1>3. \A f \in Fire : fire'[f].at \in {"idle", "done", "dead"}
  BY <1>2 DEF TimePasses, Alive, At
<1>4. tried \subseteq [what : Proposed, verdict : Verdict, old : BOOLEAN]
  BY DEF NightInv, NightTypeOK
<1>5. \A r \in tried : /\ [r EXCEPT !.old = @ \/ month] \in
                            [what : Proposed, verdict : Verdict, old : BOOLEAN]
                       /\ [r EXCEPT !.old = @ \/ month].what = r.what
                       /\ [r EXCEPT !.old = @ \/ month].verdict = r.verdict
  BY <1>4
<1>6. tried' \subseteq [what : Proposed, verdict : Verdict, old : BOOLEAN]
  BY <1>1, <1>5
<1>7. incident' \in [Corpus -> {"none", "recent", "silent"}]
  <2>1. incident \in [Corpus -> {"none", "recent", "silent"}]
    BY DEF NightInv, NightTypeOK
  <2> QED BY <1>2, <2>1
<1>8. issued' \in [Corpus -> Nat] /\ \A c \in Corpus : issued'[c] = 0
  BY <1>2
<1>9. NightTypeOK'
  BY <1>2, <1>6, <1>7, <1>8 DEF NightInv, NightTypeOK, LockInv
<1>10. ASSUME NEW p, Accepted(p) PROVE Accepted(p)'
  <2>1. PICK r \in tried : r.what = p /\ r.verdict = "accepted"
    BY <1>10 DEF Accepted
  <2>2. [r EXCEPT !.old = @ \/ month] \in tried'
    BY <1>1, <2>1
  <2> QED BY <1>5, <2>1, <2>2 DEF Accepted
<1>11. RepoOK'
  BY <1>2, <1>10 DEF NightInv, RepoOK
<1>12. \A f \in Fire : FireOK(f)' /\ AloneOK(f)'
  BY <1>3 DEF FireOK, AloneOK
<1>13. ASSUME ~stolen PROVE PastOK'
  BY <1>2, <1>8, <1>13 DEF NightInv, PastOK, Recorded
<1> QED BY <1>2, <1>9, <1>11, <1>12, <1>13 DEF NightInv

\* The first night finds nothing, or issues of this window and variants that
\* could not be swept.
LEMMA NightInitHolds == NightInit => NightInv
<1> SUFFICES ASSUME NightInit PROVE NightInv
  OBVIOUS
<1>1. LockInv
  BY InitKeeps
<1>2. PICK filed \in {{}, Corpus} :
        /\ incident = [c \in Corpus |-> IF c \in filed THEN "recent" ELSE "none"]
        /\ issued = [c \in Corpus |-> Cardinality(filed \cap {c})]
        /\ tried = [what : IF filed = {} THEN {} ELSE Queue, verdict : {"errored"}, old : {FALSE}]
  BY DEF NightInit
<1>3. \A c \in Corpus : issued[c] = IF c \in filed THEN 1 ELSE 0
  <2>1. ASSUME NEW c \in Corpus PROVE issued[c] = IF c \in filed THEN 1 ELSE 0
    <3>1. CASE c \in filed
      <4>1. filed \cap {c} = {c}
        BY <3>1
      <4> QED BY <1>2, <3>1, <4>1, FS_Singleton
    <3>2. CASE c \notin filed
      <4>1. filed \cap {c} = {}
        BY <3>2
      <4> QED BY <1>2, <3>2, <4>1, FS_EmptySet
    <3> QED BY <3>1, <3>2
  <2> QED BY <2>1
<1>4. issued \in [Corpus -> Nat]
  <2>1. \A c \in Corpus : Cardinality(filed \cap {c}) \in Nat
    BY <1>2, <1>3
  <2> QED BY <1>2, <2>1
<1>5. tried \subseteq [what : Proposed, verdict : Verdict, old : BOOLEAN]
  <2>1. (IF filed = {} THEN {} ELSE Queue) \subseteq Proposed
    BY NightlyAssumption DEF Proposed
  <2> QED BY <1>2, <2>1 DEF Verdict
<1>6. incident \in [Corpus -> {"none", "recent", "silent"}]
  BY <1>2
<1>7. rows \in [Stage -> Proposed \cup {Unset}]
  BY DEF NightInit
<1>8. /\ checkout = {} /\ dirty = {} /\ pushed = {} /\ nights = 0 /\ kills = 0
      /\ stolen = FALSE /\ borrowed = {} /\ repeats = {} /\ unsure = {}
  BY DEF NightInit
<1>9. NightTypeOK
  BY <1>1, <1>4, <1>5, <1>6, <1>7, <1>8, NightlyAssumption DEF NightTypeOK, LockInv
<1>10. \A f \in Fire : FireOK(f) /\ AloneOK(f)
  <2>1. \A f \in Fire : fire[f].at = "idle"
    BY DEF NightInit, Fresh
  <2> QED BY <2>1 DEF FireOK, AloneOK
<1>11. RepoOK
  BY <1>8 DEF RepoOK
<1>12. PastOK
  BY <1>2, <1>3, <1>8 DEF PastOK, Recorded
<1> QED BY <1>1, <1>9, <1>10, <1>11, <1>12 DEF NightInv

LEMMA NightStepKeeps == NightInv /\ [NightNext]_nightVars => NightInv'
<1> SUFFICES ASSUME NightInv, [NightNext]_nightVars PROVE NightInv'
  OBVIOUS
<1>1. LockInv'
  BY StepKeeps DEF NightInv
<1>2. ASSUME NEW f \in Fire, NightStep(f) PROVE NightInv'
  BY <1>1, <1>2, LockStepsQuiet, ReadersKeep, OpenIssueKeeps, RecordIssueKeeps, SettleKeeps,
     MaterializeKeeps, DecideKeeps, LogTriedKeeps, PromotersKeep DEF NightStep
<1>3. CASE Restore
  BY <1>1, <1>3, RestoreKeeps
<1>4. CASE TimePasses
  BY <1>1, <1>4, TimePassesKeeps
<1>5. CASE UNCHANGED nightVars
  <2>1. UNCHANGED <<fire, lock, incident, tried, rows, checkout, dirty, pushed>>
    BY <1>5 DEF nightVars
  <2>2. UNCHANGED <<nights, kills, stolen, borrowed, repeats, issued, unsure>>
    BY <1>5 DEF nightVars
  <2>3. NightTypeOK' /\ RepoOK'
    BY <1>1, <2>1, <2>2 DEF NightInv, NightTypeOK, LockInv, RepoOK, Accepted
  <2>4. \A f \in Fire : FireOK(f)'
    BY <2>1, <2>2 DEF NightInv, FireOK, Accepted
  <2>5. RecentlyTried' = RecentlyTried
    BY <2>1 DEF RecentlyTried
  <2>6. ASSUME ~stolen PROVE PastOK' /\ \A f \in Fire : AloneOK(f)'
    <3>1. PastOK /\ \A f \in Fire : AloneOK(f)
      BY <2>6 DEF NightInv
    <3>2. PastOK'
      BY <2>1, <2>2, <3>1 DEF PastOK, Recorded
    <3>3. \A f \in Fire : AloneOK(f)'
      BY <2>1, <2>5, <3>1 DEF AloneOK
    <3> QED BY <3>2, <3>3
  <2> QED BY <1>1, <2>2, <2>3, <2>4, <2>6 DEF NightInv
<1> QED BY <1>2, <1>3, <1>4, <1>5 DEF NightNext

LEMMA NightInvariance == NightSpec => []NightInv
BY NightInitHolds, NightStepKeeps, PTL DEF NightSpec

\* The variables of a night keep their types, whatever fires overlap and whichever
\* of them are killed.
THEOREM NightTypes == NightSpec => []NightTypeOK
<1>1. NightInv => NightTypeOK
  BY DEF NightInv
<1> QED BY <1>1, NightInvariance, PTL

\* Between nights that do not overlap no variant is tried again within thirty
\* days: what autonomous-loop.ts read of the tried log before it asked the model
\* still covers it when the row is appended.
THEOREM NothingTriedTwice == NightSpec => []TriedOnce
<1>1. NightInv => TriedOnce
  BY DEF NightInv, PastOK, TriedOnce
<1> QED BY <1>1, NightInvariance, PTL

\* Every variant and patch on origin was accepted in the tried log, also what a
\* branch inherits of failed pushes and killed fires; and acceptance rests on the
\* candidate's own sweep.
THEOREM PushesWereAccepted == NightSpec => []PushedWasAccepted
<1>1. ASSUME NightInv PROVE PushedWasAccepted
  <2>1. ASSUME NEW branch \in pushed, NEW p \in branch \cap Proposed PROVE Accepted(p)
    BY <1>1, <2>1 DEF NightInv, RepoOK
  <2>2. ~stolen => borrowed = {}
    BY <1>1 DEF NightInv, PastOK
  <2> QED BY <2>1, <2>2 DEF PushedWasAccepted, Accepted
<1> QED BY <1>1, NightInvariance, PTL

\* file-regression-issue.ts opens one issue per incident and silence window; only
\* a kill between gh issue create and the state file makes it open another.
THEOREM OneIssuePerWindow == NightSpec => []IssueOnce
<1>1. ASSUME NightInv PROVE IssueOnce
  <2>1. ASSUME ~stolen, NEW c \in Corpus \ unsure PROVE issued[c] <= 1
    BY <1>1, <2>1 DEF NightInv, PastOK
  <2> QED BY <2>1 DEF IssueOnce
<1> QED BY <1>1, NightInvariance, PTL

=============================================================================
