---------------------------- MODULE HeadRegister ----------------------------
(***************************************************************************)
(* What a ManifestStore promises (packages/common, interfaces/             *)
(* manifest-store.ts): one head per collection, that putHead replaces only *)
(* if it still is the head the caller read.  The head is the set of        *)
(* writers whose segment it lists.                                         *)
(***************************************************************************)
CONSTANTS Writer, None

Content(h) == IF h = None THEN {} ELSE h

VARIABLES
  head,     \* the current head, or None
  held,     \* the head each writer read
  acked     \* writers whose putHead has returned

vars == <<head, held, acked>>

Init == head = None /\ held = [w \in Writer |-> None] /\ acked = {}

\* getHead may answer null while a put is under way.
Read(w) ==
  /\ \E h \in {head, None} : held' = [held EXCEPT ![w] = h]
  /\ UNCHANGED <<head, acked>>

Put(w) ==
  /\ held[w] = head
  /\ head' = Content(head) \cup {w}
  /\ acked' = acked \cup {w}
  /\ UNCHANGED held

Next == \E w \in Writer : Read(w) \/ Put(w)

Spec == Init /\ [][Next]_vars
=============================================================================
