---------------------------- MODULE ManifestStore ----------------------------
(***************************************************************************)
(* LocalManifestStore (packages/store, manifest/local.ts): the head of one *)
(* collection is a JSON file, its id the hash of the file.  putHead reads  *)
(* the file and compares, then writeFile truncates it and writes the new   *)
(* text; each of these is an await, and nothing locks the file.  A file    *)
(* that does not parse reads as no head.                                   *)
(*                                                                         *)
(* The writers are the materialize jobs, imports, promotions and commands  *)
(* of one collection.  Each appends its segment to the head it read, and   *)
(* reads again on a conflict.                                              *)
(***************************************************************************)
EXTENDS Naturals

CONSTANTS
  Writer, None,
  Empty, Corrupt,   \* a file just truncated, or with the tail of another text
  MaxCrashes    \* bound: processes that die

ASSUME StoreAssumption ==
  /\ Empty # Corrupt
  /\ \A h \in SUBSET Writer : h \notin {None, Empty, Corrupt}
  /\ None \notin {Empty, Corrupt}
  /\ MaxCrashes \in Nat

VARIABLES
  file,     \* None, the text of a head, Empty or Corrupt
  step,     \* how far a writer got
  held,     \* the head it read
  acked,    \* writers whose putHead has returned
  disturbed, \* history: a put overlapped another, or died while rewriting
  crashes   \* counts against MaxCrashes

vars == <<file, step, held, acked, disturbed, crashes>>

Heads == (SUBSET Writer) \cup {None}
Putting == {"checked", "truncated"}

TypeOK ==
  /\ file \in Heads \cup {Empty, Corrupt}
  /\ step \in [Writer -> {"idle", "building", "done"} \cup Putting]
  /\ \A w \in Writer : held[w] \notin {Empty, Corrupt}
  /\ held \in [Writer -> Heads]
  /\ acked \subseteq Writer
  /\ disturbed \in BOOLEAN
  /\ crashes \in 0..MaxCrashes

Init ==
  /\ file = None
  /\ step = [w \in Writer |-> "idle"]
  /\ held = [w \in Writer |-> None]
  /\ acked = {}
  /\ disturbed = FALSE
  /\ crashes = 0

\* getHead.
Visible == IF file \in {Empty, Corrupt} THEN None ELSE file
Content(h) == IF h = None THEN {} ELSE h

\* Mutant: the file is not parsed.
ReadRaw(w) ==
  /\ step[w] = "idle"
  /\ step' = [step EXCEPT ![w] = "building"]
  /\ held' = [held EXCEPT ![w] = file]
  /\ UNCHANGED <<file, acked, disturbed, crashes>>

Read(w) ==
  /\ step[w] = "idle"
  /\ step' = [step EXCEPT ![w] = "building"]
  /\ held' = [held EXCEPT ![w] = Visible]
  /\ UNCHANGED <<file, acked, disturbed, crashes>>

Overlapped == \E v \in Writer : step[v] \in Putting

\* Mutant: no comparison.
CheckNothing(w) ==
  /\ step[w] = "building"
  /\ step' = [step EXCEPT ![w] = "checked"]
  /\ disturbed' = (disturbed \/ Overlapped)
  /\ UNCHANGED <<file, held, acked, crashes>>

\* putHead reads the head and compares its id with prevHeadId.
Check(w) ==
  /\ step[w] = "building"
  /\ Visible = held[w]
  /\ step' = [step EXCEPT ![w] = "checked"]
  /\ disturbed' = (disturbed \/ Overlapped)
  /\ UNCHANGED <<file, held, acked, crashes>>

Conflict(w) ==
  /\ step[w] = "building"
  /\ Visible # held[w]
  /\ step' = [step EXCEPT ![w] = "idle"]
  /\ UNCHANGED <<file, held, acked, disturbed, crashes>>

\* writeFile opens the file, which empties it ...
Truncate(w) ==
  /\ step[w] = "checked"
  /\ step' = [step EXCEPT ![w] = "truncated"]
  /\ file' = Empty
  /\ UNCHANGED <<held, acked, disturbed, crashes>>

\* ... and writes from its start: over a longer text, that leaves its tail.
Write(w) ==
  /\ step[w] = "truncated"
  /\ step' = [step EXCEPT ![w] = "done"]
  /\ acked' = acked \cup {w}
  /\ \/ file' = Content(held[w]) \cup {w}
     \/ file # Empty /\ file' = Corrupt
  /\ UNCHANGED <<held, disturbed, crashes>>

Crash(w) ==
  /\ crashes < MaxCrashes
  /\ step[w] \in {"building"} \cup Putting
  /\ step' = [step EXCEPT ![w] = "idle"]
  /\ crashes' = crashes + 1
  /\ disturbed' = (disturbed \/ step[w] = "truncated")
  /\ UNCHANGED <<file, held, acked>>

PutHead(w) == Check(w) \/ Conflict(w) \/ Truncate(w) \/ Write(w)
Next == \E w \in Writer : Read(w) \/ PutHead(w) \/ Crash(w)

Spec == Init /\ [][Next]_vars

-----------------------------------------------------------------------------
\* The head while a file is being rewritten is the old one, until the write.
HeadSeen ==
  IF \E w \in Writer : step[w] = "truncated"
  THEN held[CHOOSE w \in Writer : step[w] = "truncated"]
  ELSE Visible

Register == INSTANCE HeadRegister WITH head <- HeadSeen

(* Until puts overlap, or a process dies in the middle of a rewrite, the   *)
(* store is the register that the other modules take it to be.             *)
ActsAsRegister ==
  [][~disturbed' => Register!Next \/ UNCHANGED Register!vars]_vars

(* The segment of a writer whose putHead has returned is in the head that  *)
(* a reader sees, except while the file is being rewritten, and unless     *)
(* puts overlapped or a process died at that point.                        *)
AckedKept ==
  ~disturbed /\ (\A w \in Writer : step[w] # "truncated") => acked \subseteq Content(Visible)

(* manifest-store.ts, "rejects if it doesn't match the current head": a    *)
(* put that goes through replaces the head that its caller read.           *)
PutReplacesWhatItRead ==
  [][\A w \in Writer : Truncate(w) => Visible = held[w]]_vars
=============================================================================
