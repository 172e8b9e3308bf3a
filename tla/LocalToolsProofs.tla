-------------------------- MODULE LocalToolsProofs --------------------------
(***************************************************************************)
(* Theorems about ManifestStore, for every set of writers: it has the type *)
(* it declares, it keeps what it acknowledged, and, as long as puts do not *)
(* disturb one another, it implements the register of HeadRegister.  Last, *)
(* the types of the composition of the command line's parts.               *)
(***************************************************************************)
EXTENDS MCLocalTools, CliIngestProofs, NightlyProofs, PublicationProofs, EdgeTraceProofs


(* The store starts with the declared type.                                *)
LEMMA TypeInit == ASSUME Init PROVE TypeOK
<1>1. crashes \in 0..MaxCrashes
  BY StoreAssumption DEF Init
<1>2. disturbed \in BOOLEAN
  BY Zenon DEF Init
<1>3. \A w \in Writer : held[w] \notin {Empty, Corrupt}
  BY StoreAssumption DEF Init
<1> QED BY <1>1, <1>2, <1>3 DEF Init, TypeOK, Heads

(* Every state of the store has the declared type.                         *)
THEOREM TypeCorrect == Spec => []TypeOK
<1>1. Init => TypeOK
  BY TypeInit
<1>2. TypeOK /\ [Next]_vars => TypeOK'
  <2> SUFFICES ASSUME TypeOK, [Next]_vars PROVE TypeOK'
    OBVIOUS
  <2>1. CASE UNCHANGED vars
    BY <2>1 DEF vars, TypeOK
  <2>2. ASSUME NEW w \in Writer, Read(w) PROVE TypeOK'
    <3>1. Visible \in Heads /\ Visible \notin {Empty, Corrupt}
      BY StoreAssumption DEF Visible, TypeOK, Heads
    <3> QED BY <2>2, <3>1 DEF Read, TypeOK
  <2>3. ASSUME NEW w \in Writer, PutHead(w) PROVE TypeOK'
    <3>1. CASE Check(w) \/ Conflict(w) \/ Truncate(w)
      BY <3>1 DEF Check, Conflict, Truncate, TypeOK, Putting, Heads, Overlapped
    <3>2. CASE Write(w)
      BY <3>2 DEF Write, Content, TypeOK, Heads
    <3> QED BY <2>3, <3>1, <3>2 DEF PutHead
  <2>4. ASSUME NEW w \in Writer, Crash(w) PROVE TypeOK'
    BY <2>4, StoreAssumption DEF Crash, TypeOK
  <2> QED BY <2>1, <2>2, <2>3, <2>4 DEF Next
<1> QED BY <1>1, <1>2, PTL DEF Spec

(* Why nothing acknowledged is lost: as long as puts have not overlapped,  *)
(* at most one writer is between its check and its write, and the file is  *)
(* still the head it checked against, or is emptied by that writer alone.  *)
OnePut ==
  \A v, w \in Writer : step[v] \in Putting /\ step[w] \in Putting => v = w
FileKnown ==
  /\ \A w \in Writer : step[w] = "checked" => file = held[w]
  /\ \A w \in Writer : step[w] = "truncated" => file = Empty /\ acked \subseteq Content(held[w])
  /\ (\A w \in Writer : step[w] # "truncated") => file \in Heads /\ acked \subseteq Content(file)
Inv == TypeOK /\ (~disturbed => OnePut /\ FileKnown)

(* A reader never takes a torn file for a head.                            *)
LEMMA WholeIsVisible ==
  ASSUME file \in Heads PROVE Visible = file
BY StoreAssumption DEF Heads, Visible

(* Every step keeps the invariant.                                         *)
LEMMA InvStep ==
  ASSUME Inv, TypeOK', [Next]_vars PROVE Inv'
<1> SUFFICES ASSUME ~disturbed' PROVE (OnePut /\ FileKnown)'
  BY DEF Inv
<1> USE DEF Inv
<1>1. CASE UNCHANGED vars
  BY <1>1 DEF vars, OnePut, FileKnown, Content
<1>2. ASSUME NEW w \in Writer, Read(w) PROVE (OnePut /\ FileKnown)'
  BY <1>2 DEF Read, OnePut, FileKnown, Content, Putting, TypeOK
<1>3. ASSUME NEW w \in Writer, Check(w) PROVE (OnePut /\ FileKnown)'
  <2>1. ~disturbed /\ \A v \in Writer : step[v] \notin Putting
    BY <1>3 DEF Check, Overlapped
  <2>2. file = held[w]
    BY <1>3, <2>1, WholeIsVisible DEF Check, FileKnown, Putting
  <2> QED BY <1>3, <2>1, <2>2 DEF Check, OnePut, FileKnown, Content, Putting, TypeOK
<1>4. ASSUME NEW w \in Writer, Conflict(w) PROVE (OnePut /\ FileKnown)'
  BY <1>4 DEF Conflict, OnePut, FileKnown, Content, Putting, TypeOK
<1>5. ASSUME NEW w \in Writer, Truncate(w) PROVE (OnePut /\ FileKnown)'
  <2>1. ~disturbed /\ \A v \in Writer : step[v] # "truncated"
    BY <1>5 DEF Truncate, OnePut, Putting
  <2>2. acked \subseteq Content(held[w])
    BY <1>5, <2>1 DEF Truncate, FileKnown
  <2>3. OnePut'
    BY <1>5, <2>1 DEF Truncate, OnePut, Putting, TypeOK
  <2>4. FileKnown'
    BY <1>5, <2>1, <2>2 DEF Truncate, FileKnown, OnePut, Content, Putting, TypeOK
  <2> QED BY <2>3, <2>4
<1>6. ASSUME NEW w \in Writer, Write(w) PROVE (OnePut /\ FileKnown)'
  <2>1. ~disturbed /\ file = Empty /\ acked \subseteq Content(held[w])
    BY <1>6 DEF Write, FileKnown
  <2>2. \A v \in Writer : v # w => step[v] \notin Putting
    BY <1>6, <2>1 DEF Write, OnePut, Putting
  <2>3. \A v \in Writer : step'[v] \notin Putting
    BY <1>6, <2>2 DEF Write, Putting, TypeOK
  <2>4. file' = Content(held[w]) \cup {w} /\ file' \in Heads
    BY <1>6, <2>1 DEF Write, TypeOK, Heads, Content
  <2>5. file' \in SUBSET Writer
    BY <2>4 DEF Heads, Content, TypeOK
  <2>6. acked' \subseteq Content(file')
    BY <1>6, <2>1, <2>4, <2>5, StoreAssumption DEF Write, Content
  <2> QED BY <2>3, <2>4, <2>6 DEF OnePut, FileKnown, Putting
<1>7. ASSUME NEW w \in Writer, Crash(w) PROVE (OnePut /\ FileKnown)'
  <2>1. ~disturbed /\ step[w] # "truncated"
    BY <1>7 DEF Crash
  <2> QED BY <1>7, <2>1 DEF Crash, OnePut, FileKnown, Content, Putting, TypeOK
<1> QED BY <1>1, <1>2, <1>3, <1>4, <1>5, <1>6, <1>7 DEF Next, PutHead

(* The invariant holds at the start ...                                    *)
LEMMA InitInv == Init => Inv
<1> SUFFICES ASSUME Init PROVE OnePut /\ FileKnown
  BY TypeInit DEF Inv
<1>1. OnePut
  BY DEF Init, OnePut, Putting
<1>2. FileKnown
  BY DEF Init, FileKnown, Heads
<1> QED BY <1>1, <1>2

(* ... and in every state.                                                 *)
THEOREM Invariance == Spec => []Inv
<1>1. Init => Inv
  BY InitInv
<1>2. Inv /\ TypeOK' /\ [Next]_vars => Inv'
  BY InvStep
<1> QED BY <1>1, <1>2, TypeCorrect, PTL DEF Spec

(* What a writer was told is stored stays in the head that readers see.    *)
THEOREM AckedKeptHolds == Spec => []AckedKept
<1>1. Inv => AckedKept
  BY WholeIsVisible DEF Inv, FileKnown, AckedKept
<1> QED BY <1>1, Invariance, PTL

-----------------------------------------------------------------------------
(* Refinement. *)

\* The store while nothing has disturbed a put.
RInv == Inv /\ ~disturbed

(* Once disturbed, always disturbed.                                       *)
LEMMA DisturbedStays == ASSUME [Next]_vars, ~disturbed' PROVE ~disturbed
<1>1. CASE UNCHANGED vars
  BY <1>1 DEF vars
<1>2. ASSUME NEW w \in Writer, Read(w) \/ PutHead(w) \/ Crash(w) PROVE ~disturbed
  BY <1>2 DEF Read, PutHead, Check, Conflict, Truncate, Write, Crash
<1> QED BY <1>1, <1>2 DEF Next

(* The head is what the one writer in its rewrite had read, or the file.   *)
SeenIs ==
  /\ \A w \in Writer : step[w] = "truncated" => HeadSeen = held[w]
  /\ (\A w \in Writer : step[w] # "truncated") => HeadSeen = file /\ Visible = file

LEMMA HeadSeenIs == ASSUME RInv PROVE SeenIs
<1>1. ASSUME NEW w \in Writer, step[w] = "truncated" PROVE HeadSeen = held[w]
  <2>1. \A v \in Writer : step[v] = "truncated" => v = w
    BY <1>1 DEF RInv, Inv, OnePut, Putting
  <2>2. (CHOOSE v \in Writer : step[v] = "truncated") = w
    BY <1>1, <2>1
  <2> QED BY <1>1, <2>2 DEF HeadSeen
<1>2. ASSUME \A w \in Writer : step[w] # "truncated" PROVE HeadSeen = file /\ Visible = file
  BY <1>2, WholeIsVisible DEF RInv, Inv, FileKnown, HeadSeen
<1> QED BY <1>1, <1>2 DEF SeenIs

(* Every step of the store is a read or a put of the register, or nothing  *)
(* it sees: the put happens when the text is written.                      *)
LEMMA RefinementStep ==
  ASSUME RInv, RInv', SeenIs, SeenIs', [Next]_vars
  PROVE  Register!Next \/ UNCHANGED Register!vars
<1> USE DEF SeenIs
<1> TypeOK /\ OnePut /\ FileKnown
  BY DEF RInv, Inv
<1>1. CASE UNCHANGED vars
  <2>1. HeadSeen' = HeadSeen
    BY <1>1 DEF vars
  <2> QED BY <1>1, <2>1 DEF vars, Register!vars
<1>2. ASSUME NEW w \in Writer, Read(w) PROVE Register!Read(w)
  <2>1. HeadSeen' = HeadSeen
    BY <1>2 DEF Read, TypeOK
  <2>2. Visible \in {HeadSeen, None}
    BY DEF Visible, FileKnown
  <2> QED BY <1>2, <2>1, <2>2 DEF Read, Register!Read
<1>3. ASSUME NEW w \in Writer, Check(w) \/ Conflict(w) PROVE UNCHANGED Register!vars
  <2>1. HeadSeen' = HeadSeen
    BY <1>3 DEF Check, Conflict, TypeOK
  <2> QED BY <1>3, <2>1 DEF Check, Conflict, Register!vars
<1>4. ASSUME NEW w \in Writer, Truncate(w) PROVE UNCHANGED Register!vars
  <2>1. HeadSeen = held[w]
    BY <1>4 DEF Truncate, OnePut, FileKnown, Putting
  <2>2. HeadSeen' = held'[w]
    BY <1>4 DEF Truncate, TypeOK
  <2> QED BY <1>4, <2>1, <2>2 DEF Truncate, Register!vars
<1>5. ASSUME NEW w \in Writer, Write(w) PROVE Register!Put(w)
  <2>1. held[w] = HeadSeen /\ file = Empty
    BY <1>5 DEF Write, FileKnown
  <2>2. \A v \in Writer : step'[v] # "truncated"
    BY <1>5 DEF Write, OnePut, Putting, TypeOK
  <2>3. HeadSeen' = Content(held[w]) \cup {w}
    BY <1>5, <2>1, <2>2 DEF Write
  <2> QED BY <1>5, <2>1, <2>3 DEF Write, Content, Register!Put, Register!Content
<1>6. ASSUME NEW w \in Writer, Crash(w) PROVE UNCHANGED Register!vars
  <2>1. step[w] # "truncated"
    BY <1>6 DEF Crash, RInv
  <2>2. HeadSeen' = HeadSeen
    BY <1>6, <2>1 DEF Crash, TypeOK
  <2> QED BY <1>6, <2>2 DEF Crash, Register!vars
<1> QED BY <1>1, <1>2, <1>3, <1>4, <1>5, <1>6 DEF Next, PutHead, Register!Next

(* The register starts as the store does.                                  *)
LEMMA RefinementInit == ASSUME Init PROVE Register!Init
<1>1. HeadSeen = None
  BY StoreAssumption DEF Init, HeadSeen, Visible
<1> QED BY <1>1 DEF Init, Register!Init

(* Spec keeps what the refinement needs.                                   *)
LEMMA SeenInvariance == Spec => [](Inv /\ (~disturbed => SeenIs))
<1>1. Inv /\ ~disturbed => SeenIs
  BY HeadSeenIs DEF RInv
<1> QED BY <1>1, Invariance, PTL

(* A step after which puts are still undisturbed is a step of the register. *)
LEMMA UndisturbedStep ==
  Inv /\ Inv' /\ (~disturbed => SeenIs) /\ (~disturbed => SeenIs)' /\ [Next]_vars
    => (~disturbed' => Register!Next \/ UNCHANGED Register!vars)
<1> SUFFICES ASSUME Inv, Inv', ~disturbed => SeenIs, (~disturbed => SeenIs)',
                    [Next]_vars, ~disturbed'
             PROVE  Register!Next \/ UNCHANGED Register!vars
  OBVIOUS
<1>1. ~disturbed
  BY DisturbedStays
<1> QED BY <1>1, RefinementStep DEF RInv

(* ActsAsRegister, for every set of writers and any number of crashes.     *)
THEOREM ActsAsRegisterHolds == Spec => ActsAsRegister
BY SeenInvariance, UndisturbedStep, PTL DEF Spec, ActsAsRegister

(* A store whose puts nothing disturbs implements the register.            *)
THEOREM Refinement == Spec /\ []~disturbed => Register!Spec
<1>1. Init => Register!Init
  BY RefinementInit
<1>2. Inv /\ Inv' /\ (~disturbed => SeenIs) /\ (~disturbed => SeenIs)' /\ [Next]_vars /\ ~disturbed'
        => [Register!Next]_(Register!vars)
  BY UndisturbedStep
<1> QED BY <1>1, <1>2, SeenInvariance, PTL DEF Spec, Register!Spec

-----------------------------------------------------------------------------
(* The composition *)

\* Every step is one of the part that the behaviour exercises, and leaves the
\* variables of the others alone.
LEMMA PartsStep ==
  [ToolNext]_toolVars =>
    /\ part' = part
    /\ [Next]_vars /\ [CliNext]_cliVars /\ [NightNext]_nightVars
    /\ [EdgeNext]_edgeVars /\ [TraceNext]_traceVars /\ [PubNext]_pubVars
BY Zenon DEF ToolNext, toolVars

\* The part that a behaviour exercises keeps its types, for any terminals, fires,
\* sites, extractors and questions, and whatever the bounds of the run are.
THEOREM ToolTypes == ToolSpec => []ToolTypeOK
<1>1. ToolInit => /\ Init /\ CliInit /\ NightInit /\ EdgeInit /\ PubInit
                  /\ part = "trace" => TraceInit
  BY DEF ToolInit, SomeTrace
<1>2. [ToolNext]_toolVars =>
        /\ (part = "trace")' <=> part = "trace"
        /\ [Next]_vars /\ [CliNext]_cliVars /\ [NightNext]_nightVars
        /\ [EdgeNext]_edgeVars /\ [TraceNext]_traceVars /\ [PubNext]_pubVars
  BY PartsStep
<1>3. TypeOK /\ CliTypeOK /\ NightTypeOK /\ EdgeTypeOK /\ (part = "trace" => TraceTypeOK) /\ PubTypeOK
        => ToolTypeOK
  BY DEF ToolTypeOK
<1> QED BY <1>1, <1>2, <1>3, TypeCorrect, CliTypes, NightTypes, EdgeTypes, TraceTypes, PubTypes, PTL
        DEF ToolSpec, Spec, CliSpec, NightSpec, EdgeSpec, TraceSpec, PubSpec
=============================================================================
