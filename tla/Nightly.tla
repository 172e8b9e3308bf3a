------------------------------- MODULE Nightly -------------------------------
(* The nightly research cron: the wrapper script with its lock directory     *)
(* (scripts/autoresearch/cron/run-nightly.sh) and, under it, one night's      *)
(* sweep, regression issues (file-regression-issue.ts) and autonomous loop    *)
(* (autonomous-loop.ts with the materializers and the promoters).             *)
(*                                                                            *)
(* A Fire is one process of the script; fires may overlap, and may be killed  *)
(* at any step, which leaves the lock, the checkout and the logs as they are. *)
EXTENDS Integers, FiniteSets

CONSTANTS
  MaxFires,     \* processes of the wrapper script, numbered as they start
  Corpus,       \* corpora the detector reports on, in order, one incident key each
  Knob,         \* <<axis, value>> proposals for a variant of the matrix
  Patch,        \* code patches, told apart by their base commit
  Fixture,      \* expansions of the gold query fixture
  Queue,        \* the knobs among them that the planner goes through
  Promotable,   \* knobs whose axis the promoter can rewrite in the matrix file
  Hiding,       \* knobs that, once in the matrix, remove the production variant
  Unset,
  MaxFireKills, \* fires that are killed
  MaxNights     \* fires that get past the preflight

ASSUME NightlyAssumption ==
  /\ Corpus \subseteq Nat /\ Queue \subseteq Knob /\ Promotable \subseteq Knob /\ Hiding \subseteq Promotable
  /\ Knob \cap Patch = {} /\ Knob \cap Fixture = {} /\ Patch \cap Fixture = {}
  /\ Unset \notin Nat \cup Knob \cup Patch \cup Fixture
  /\ MaxFires \in Nat /\ MaxFireKills \in Nat /\ MaxNights \in Nat

Fire == 1..MaxFires
NoLock == [held |-> FALSE, pid |-> Unset]
Proposed == Knob \cup Patch
Change == Proposed \cup Fixture
Verdict == {"accepted", "rejected", "errored"}
Stage == {"variant", "patch"}
StageOf(p) == IF p \in Knob THEN "variant" ELSE "patch"

Inside == {"preflight", "sweep", "detect", "issues", "file", "filed", "loop", "read", "propose",
           "materialize", "decide", "logged", "write", "commit", "push", "leave"}

VARIABLES
  fire,       \* where each fire is, and its local variables
  lock,       \* the lock directory and the pid file in it
  incident,   \* the state file of each incident: "none", "recent" or "silent"
  tried,      \* rows of tried.jsonl: [what, verdict, old]
  rows,       \* whose sweep the last rows of runs.jsonl are, per proposal stage
  checkout,       \* changes committed on the branch the repository has checked out
  dirty,      \* changes in its working tree that are not committed
  pushed,     \* branches on origin, each the set of changes it carries
  nights,     \* fires past the preflight so far
  kills,      \* fires killed so far
  stolen,     \* history: a lock was removed that was not the dead fire's
  borrowed,   \* history: proposals accepted on the rows of another sweep
  repeats,    \* history: variants logged although a row younger than 30 days was
  issued,     \* history: issues opened per corpus in the current silence window
  unsure      \* history: corpora whose issue was opened and not recorded

nightVars == <<fire, lock, incident, tried, rows, checkout, dirty, pushed, nights, kills,
               stolen, borrowed, repeats, issued, unsure>>

Fresh(place) == [at |-> place, judged |-> Unset, todo |-> {}, clear |-> {}, now |-> Unset,
                 seen |-> {}, what |-> Unset, verdict |-> "rejected"]

At(f, place) == fire[f].at = place
Goto(f, place) == fire' = [fire EXCEPT ![f].at = place]
Enter(f, place) == fire' = [fire EXCEPT ![f] = Fresh(place)]  \* locals are of no more use
Alive(f) == ~At(f, "idle") /\ ~At(f, "done") /\ ~At(f, "dead")

\* Rows younger than thirty days, as alreadyTried sees them.
RecentlyTried == {p \in Knob : \E r \in tried : r.what = p /\ ~r.old}

worldVars == <<incident, tried, rows, checkout, dirty, pushed>>
pastVars == <<borrowed, repeats, issued, unsure>>
logVars == <<incident, tried, rows>>
gitVars == <<checkout, dirty, pushed>>

FireState ==
  [at : Inside \cup {"idle", "mkdir", "probe", "stale", "retry", "done", "dead"},
   judged : Fire \cup {Unset}, todo : SUBSET Corpus, clear : SUBSET Corpus,
   now : Corpus \cup {Unset}, seen : SUBSET Knob, what : Change \cup {Unset}, verdict : Verdict]

LockTypeOK ==
  /\ fire \in [Fire -> FireState]
  /\ lock \in [held : BOOLEAN, pid : Fire \cup {Unset}]
  /\ stolen \in BOOLEAN

NightTypeOK ==
  /\ LockTypeOK
  /\ incident \in [Corpus -> {"none", "recent", "silent"}]
  /\ tried \subseteq [what : Proposed, verdict : Verdict, old : BOOLEAN]
  /\ rows \in [Stage -> Proposed \cup {Unset}]
  /\ checkout \subseteq Change /\ dirty \subseteq Change
  /\ pushed \subseteq SUBSET Change
  /\ nights \in 0..MaxNights /\ kills \in 0..MaxFireKills
  /\ borrowed \subseteq Proposed /\ repeats \subseteq Knob
  /\ issued \in [Corpus -> Nat] /\ unsure \subseteq Corpus

\* Nothing has run yet; or a night that opened the issues and whose variants
\* could not be swept.
NightInit ==
  /\ fire = [f \in Fire |-> Fresh("idle")]
  /\ lock = NoLock
  /\ \E filed \in {{}, Corpus} :
       /\ incident = [c \in Corpus |-> IF c \in filed THEN "recent" ELSE "none"]
       /\ issued = [c \in Corpus |-> Cardinality(filed \cap {c})]
       /\ tried = [what : IF filed = {} THEN {} ELSE Queue, verdict : {"errored"}, old : {FALSE}]
  /\ rows = [s \in Stage |-> Unset]
  /\ checkout = {} /\ dirty = {} /\ pushed = {}
  /\ nights = 0 /\ kills = 0 /\ stolen = FALSE
  /\ borrowed = {} /\ repeats = {}
  /\ unsure = {}

-----------------------------------------------------------------------------
(* The lock *)

\* mkdir "$LOCK_DIR": atomic, on the first attempt and after an override.
MakeLock(f) ==
  /\ At(f, "retry") \/ (At(f, "idle") /\ \A g \in 1..(f - 1) : ~At(g, "idle"))
  /\ IF ~lock.held
     THEN /\ lock' = [held |-> TRUE, pid |-> Unset]
          /\ Goto(f, "mkdir")
     ELSE /\ Enter(f, IF At(f, "idle") THEN "probe" ELSE "done")
          /\ UNCHANGED lock
  /\ UNCHANGED <<worldVars, pastVars, nights, kills, stolen>>

\* echo $$ > "$PID_FILE": the write fails quietly when the directory is gone.
WritePid(f) ==
  /\ At(f, "mkdir")
  /\ lock' = IF lock.held THEN [lock EXCEPT !.pid = f] ELSE lock
  /\ Goto(f, "preflight")
  /\ UNCHANGED <<worldVars, pastVars, nights, kills, stolen>>

\* Mutant: the holder's process is not looked for.
ProbePidOnly(f) ==
  /\ At(f, "probe")
  /\ IF lock.pid # Unset
     THEN fire' = [fire EXCEPT ![f].at = "stale", ![f].judged = lock.pid]
     ELSE Enter(f, "done")
  /\ UNCHANGED <<lock, worldVars, pastVars, nights, kills, stolen>>

\* The holder's pid is read; a missing one and a live one both skip this fire.
Probe(f) ==
  /\ At(f, "probe")
  /\ IF lock.pid # Unset /\ ~Alive(lock.pid)
     THEN fire' = [fire EXCEPT ![f].at = "stale", ![f].judged = lock.pid]
     ELSE Enter(f, "done")
  /\ UNCHANGED <<lock, worldVars, pastVars, nights, kills, stolen>>

\* rm -rf "$LOCK_DIR": whatever lock is there by now.
Override(f) ==
  /\ At(f, "stale")
  /\ stolen' = (stolen \/ (lock.held /\ lock.pid # fire[f].judged))
  /\ lock' = NoLock
  /\ Enter(f, "retry")
  /\ UNCHANGED <<worldVars, pastVars, nights, kills>>

\* The EXIT trap removes the lock directory, its own or not.
Leave(f) ==
  /\ At(f, "leave")
  /\ lock' = NoLock
  /\ stolen' = (stolen \/ (lock.held /\ lock.pid # f))
  /\ Enter(f, "done")
  /\ UNCHANGED <<worldVars, pastVars, nights, kills>>

\* The machine goes down, or the process is killed: the trap does not run.
KillFire(f) ==
  /\ Alive(f) /\ kills < MaxFireKills
  /\ kills' = kills + 1
  /\ Enter(f, "dead")
  /\ unsure' = IF At(f, "filed") THEN unsure \cup {fire[f].now} ELSE unsure
  /\ UNCHANGED <<lock, worldVars, nights, borrowed, repeats, issued, stolen>>

-----------------------------------------------------------------------------
(* One night *)

\* Preflight fails (exit 75 or a crash) or passes.
Preflight(f) ==
  /\ At(f, "preflight")
  /\ \/ /\ nights < MaxNights
        /\ nights' = nights + 1
        /\ Goto(f, "sweep")
     \/ /\ Enter(f, "leave")
        /\ UNCHANGED nights
  /\ UNCHANGED <<lock, worldVars, pastVars, kills, stolen>>

\* The sweep runs the production variant of the matrix in the working tree, and
\* throws when that matrix no longer has it.
Sweep(f) ==
  /\ At(f, "sweep")
  /\ \/ Enter(f, "leave")
     \/ /\ Hiding \cap (checkout \cup dirty) = {}
        /\ Goto(f, "detect")
  /\ UNCHANGED <<lock, worldVars, pastVars, nights, kills, stolen>>

\* The detector says which corpora breach a floor or regress and which are ok;
\* the rest have too little history.  Without a finding the night is over.
Detect(f) ==
  /\ At(f, "detect")
  /\ \E bad \in SUBSET Corpus : \E ok \in SUBSET (Corpus \ bad) :
       IF bad = {}
       THEN Enter(f, "leave")
       ELSE fire' = [fire EXCEPT ![f].at = "issues", ![f].todo = bad,
                       ![f].clear = ok]
  /\ UNCHANGED <<lock, worldVars, pastVars, nights, kills, stolen>>

\* Mutant: the silence window is not looked at.
PlanFilingsLoud(f) ==
  /\ At(f, "issues")
  /\ fire' = [fire EXCEPT ![f].at = "file",
                          ![f].clear = {c \in @ : incident[c] # "none"}]
  /\ UNCHANGED <<lock, worldVars, pastVars, nights, kills, stolen>>

\* The state files decide it all before anything is filed: a finding gets an
\* issue when its incident has none or was silent for a week, and incidents of
\* corpora that are ok tonight will be forgotten.
PlanFilings(f) ==
  /\ At(f, "issues")
  /\ fire' = [fire EXCEPT ![f].at = "file",
                          ![f].todo = {c \in @ : incident[c] # "recent"},
                          ![f].clear = {c \in @ : incident[c] # "none"}]
  /\ UNCHANGED <<lock, worldVars, pastVars, nights, kills, stolen>>

\* gh issue create, finding after finding.  A failure ends the script; the
\* wrapper logs it and goes on to the loop.
OpenIssue(f) ==
  /\ At(f, "file")
  /\ \E c \in fire[f].todo :
       /\ \A b \in fire[f].todo : c <= b
       /\ \/ /\ fire' = [fire EXCEPT ![f].at = "filed", ![f].now = c]
             /\ issued' = [issued EXCEPT ![c] = @ + 1]
          \/ /\ Enter(f, "loop")
             /\ UNCHANGED issued
  /\ UNCHANGED <<lock, worldVars, nights, kills, stolen, borrowed, repeats, unsure>>

\* writeState, after the issue exists.
RecordIssue(f) ==
  /\ At(f, "filed")
  /\ incident' = [incident EXCEPT ![fire[f].now] = "recent"]
  /\ fire' = [fire EXCEPT ![f].at = "file", ![f].todo = @ \ {fire[f].now},
                          ![f].now = Unset]
  /\ UNCHANGED <<lock, tried, rows, gitVars, pastVars, nights, kills, stolen>>

\* Nothing left to create: the state files of recovered incidents are unlinked.
SettleIncidents(f) ==
  /\ At(f, "file") /\ fire[f].todo = {}
  /\ incident' = [c \in Corpus |-> IF c \in fire[f].clear THEN "none" ELSE incident[c]]
  /\ issued' = [c \in Corpus |-> IF c \in fire[f].clear THEN 0 ELSE issued[c]]
  /\ Enter(f, "loop")
  /\ UNCHANGED <<lock, tried, rows, gitVars, nights, kills, stolen, borrowed, repeats, unsure>>

\* A coverage gap in the gold fixture: new queries are spliced in and promoted
\* under their own branch, before the variant flow (a failure is caught), or
\* instead of it when no layer dominates the failures.
ExpandFixture(f) ==
  /\ At(f, "loop")
  /\ \E x \in Fixture :
       /\ x \notin checkout \cup dirty                   \* the splice makes a difference
       /\ dirty \subseteq Fixture                    \* no unrelated change
       /\ fire' = [fire EXCEPT ![f].at = "write", ![f].what = x]
  /\ UNCHANGED <<lock, worldVars, pastVars, nights, kills, stolen>>

\* readTriedLog: what the rest of this cycle knows of earlier attempts.
ReadTried(f) ==
  /\ At(f, "loop") \/ At(f, "read")
  /\ fire' = [fire EXCEPT ![f].at = "propose", ![f].seen = RecentlyTried]
  /\ UNCHANGED <<lock, worldVars, pastVars, nights, kills, stolen>>

\* The cycle ends without an attempt: no model, nothing left to try, the fixture
\* was its only subject, or the GPU cannot be switched to the sweep's mode.
EndCycle(f) ==
  /\ fire[f].at \in {"loop", "read", "propose", "materialize"}
  /\ Enter(f, "leave")
  /\ UNCHANGED <<lock, worldVars, pastVars, nights, kills, stolen>>

\* Mutant: the proposal is not looked up in the tried log.
ProposeAny(f) ==
  /\ At(f, "propose")
  /\ \E p \in Knob : fire' = [fire EXCEPT ![f].at = "materialize", ![f].what = p]
  /\ UNCHANGED <<lock, worldVars, pastVars, nights, kills, stolen>>

\* The model's proposal, or the planner's next candidate when the model has none
\* or repeats itself: either way one that has not been tried.
ProposeVariant(f) ==
  /\ At(f, "propose")
  /\ \E p \in Knob \ fire[f].seen :
       fire' = [fire EXCEPT ![f].at = "materialize", ![f].what = p]
  /\ UNCHANGED <<lock, worldVars, pastVars, nights, kills, stolen>>

\* The queue of variants is exhausted and code patches are allowed.
ProposePatch(f) ==
  /\ At(f, "propose")
  /\ Queue \subseteq fire[f].seen
  /\ \E p \in Patch : fire' = [fire EXCEPT ![f].at = "materialize", ![f].what = p]
  /\ UNCHANGED <<lock, worldVars, pastVars, nights, kills, stolen>>

\* Mutant: a sweep that throws is weighed like one that ran.
MaterializeAnyway(f) ==
  /\ At(f, "materialize")
  /\ rows' \in {rows, [rows EXCEPT ![StageOf(fire[f].what)] = fire[f].what]}
  /\ Goto(f, "decide")
  /\ UNCHANGED <<lock, incident, tried, gitVars, pastVars, nights, kills, stolen>>

\* The candidate's sweep appends its rows to the run log, or throws, before or
\* after the first of them: then the attempt is logged as it is (a patch that
\* could not run counts as rejected).
Materialize(f) ==
  /\ At(f, "materialize")
  /\ LET p == fire[f].what
         swept == [rows EXCEPT ![StageOf(p)] = p]
     IN \/ rows' = swept /\ Goto(f, "decide")
        \/ /\ rows' \in {rows, swept}
           /\ fire' = [fire EXCEPT ![f].at = "logged",
                         ![f].verdict = IF p \in Knob THEN "errored" ELSE "rejected"]
  /\ UNCHANGED <<lock, incident, tried, gitVars, pastVars, nights, kills, stolen>>

\* The rows of the last sweep of this stage are taken for the candidate's own
\* and weighed against the nightly baselines; too few baselines reject it.
Decide(f) ==
  /\ At(f, "decide")
  /\ \E verdict \in {"accepted", "rejected"} :
       /\ fire' = [fire EXCEPT ![f].at = "logged", ![f].verdict = verdict]
       /\ borrowed' = IF verdict = "accepted" /\ rows[StageOf(fire[f].what)] # fire[f].what
                      THEN borrowed \cup {fire[f].what} ELSE borrowed
  /\ UNCHANGED <<lock, worldVars, nights, kills, stolen, repeats, issued, unsure>>

\* A change the promoter refuses: its axis cannot be rewritten, the matrix has
\* the value already, or the working tree holds something else.
Refused(p) ==
  /\ p \in Knob
  /\ p \notin Promotable \/ p \in checkout \cup dirty \/ ~(dirty \subseteq Knob)

\* appendTriedRow, whatever the verdict; only an accepted proposal goes on.
LogTried(f) ==
  /\ At(f, "logged")
  /\ LET p == fire[f].what
         v == fire[f].verdict
     IN /\ tried' = tried \cup {[what |-> p, verdict |-> v, old |-> FALSE]}
        /\ repeats' = IF p \in RecentlyTried THEN repeats \cup {p} ELSE repeats
        /\ IF v # "accepted" \/ Refused(p)
           THEN Enter(f, "leave")
           ELSE fire' = [fire EXCEPT ![f] =
                  [Fresh(IF p \in Patch THEN "push" ELSE "write") EXCEPT !.what = p]]
  /\ UNCHANGED <<lock, incident, rows, gitVars, nights, kills, stolen, borrowed, issued, unsure>>

\* A git command of a promoter throws: the fixture path catches it and goes on,
\* the variant path ends the loop.  Nothing is undone.
GitFails(f) == Enter(f, IF fire[f].what \in Fixture THEN "read" ELSE "leave")

\* git checkout -b from whatever is checked out, and the file is rewritten.
WriteChange(f) ==
  /\ At(f, "write")
  /\ \/ dirty' = dirty \cup {fire[f].what} /\ Goto(f, "commit")
     \/ GitFails(f) /\ UNCHANGED dirty
  /\ UNCHANGED <<lock, logVars, checkout, pushed, pastVars, nights, kills, stolen>>

\* git add of the one file, and the commit.
CommitChange(f) ==
  /\ At(f, "commit")
  /\ LET file == IF fire[f].what \in Knob THEN Knob ELSE Fixture
     IN \/ /\ checkout' = checkout \cup (dirty \cap file)
           /\ dirty' = dirty \ file
           /\ Goto(f, "push")
        \/ GitFails(f) /\ UNCHANGED <<checkout, dirty>>
  /\ UNCHANGED <<lock, logVars, pushed, pastVars, nights, kills, stolen>>

\* git push and gh pr create: a patch's branch is the worktree's, the others
\* carry everything the checkout had.  The checkout stays on the new branch.
PushBranch(f) ==
  /\ At(f, "push")
  /\ \/ pushed' = pushed \cup {IF fire[f].what \in Patch THEN {fire[f].what} ELSE checkout}
     \/ UNCHANGED pushed
  /\ IF fire[f].what \in Fixture
     THEN Enter(f, "read")
     ELSE Enter(f, "leave")
  /\ UNCHANGED <<lock, logVars, checkout, dirty, pastVars, nights, kills, stolen>>

-----------------------------------------------------------------------------
(* Around the nights *)

\* The maintainer checks out main again.
Restore ==
  /\ \A f \in Fire : ~Alive(f)
  /\ checkout # {}
  /\ checkout' = {}
  /\ UNCHANGED <<fire, lock, logVars, dirty, pushed, pastVars, nights, kills, stolen>>

\* A week passes, or a month: silence windows end, rows of the tried log grow old.
TimePasses ==
  /\ \A f \in Fire : ~Alive(f)
  /\ tried # {} \/ \E c \in Corpus : incident[c] = "recent"
  /\ incident' = [c \in Corpus |-> IF incident[c] = "recent" THEN "silent" ELSE incident[c]]
  /\ issued' = [c \in Corpus |-> 0]
  /\ \E month \in BOOLEAN :
       tried' = {[r EXCEPT !.old = @ \/ month] : r \in tried}
  /\ UNCHANGED <<fire, lock, rows, gitVars, nights, kills, stolen, borrowed, repeats, unsure>>

NightStep(f) ==
  \/ MakeLock(f) \/ WritePid(f) \/ Probe(f) \/ Override(f) \/ Leave(f) \/ KillFire(f)
  \/ Preflight(f) \/ Sweep(f) \/ Detect(f) \/ PlanFilings(f) \/ OpenIssue(f) \/ RecordIssue(f) \/ SettleIncidents(f)
  \/ ExpandFixture(f) \/ ReadTried(f) \/ EndCycle(f)
  \/ ProposeVariant(f) \/ ProposePatch(f) \/ Materialize(f) \/ Decide(f) \/ LogTried(f)
  \/ WriteChange(f) \/ CommitChange(f) \/ PushBranch(f)

NightNext ==
  \/ \E f \in Fire : NightStep(f)
  \/ Restore
  \/ TimePasses

NightSpec == NightInit /\ [][NightNext]_nightVars

-----------------------------------------------------------------------------
(* Properties *)

\* At most one fire is past the lock, as long as nobody removed a lock other than
\* the dead fire's it had judged stale: run-nightly.sh reads the pid and removes
\* the directory in two steps, so two fires that judge the same dead holder can
\* remove each other's fresh lock.
OneNightAtATime ==
  ~stolen => \A f, g \in Fire : fire[f].at \in Inside /\ fire[g].at \in Inside => f = g

\* Between nights that do not overlap no variant is tried twice within thirty
\* days, though the tried log is read long before the row is appended and the
\* model proposes what it likes.
TriedOnce == ~stolen => repeats = {}

\* Whatever reaches origin for a variant or a patch was accepted in the tried
\* log first, also when a branch inherits what earlier nights, failed pushes and
\* killed fires left committed or modified in the checkout; and acceptance rests
\* on a sweep of that very proposal.
PushedWasAccepted ==
  /\ \A branch \in pushed : \A p \in branch \cap Proposed :
       \E r \in tried : r.what = p /\ r.verdict = "accepted"
  /\ ~stolen => borrowed = {}

\* Within one silence window an incident gets one issue, unless a fire was killed
\* after gh created it and before its state file was written.
IssueOnce ==
  ~stolen => \A c \in Corpus \ unsure : issued[c] <= 1
=============================================================================
