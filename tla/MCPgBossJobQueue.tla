-------------------------- MODULE MCPgBossJobQueue --------------------------
EXTENDS PgBossJobQueue, TLC

\* Processes and ids are interchangeable.
Symmetry == Permutations(Node) \cup Permutations(Id)

\* Bound: two jobs with MaxFaults faults while one process is busy, and one fault
\* while both are, or a root and two children on one process with one fault.
Quiet(n) ==
  /\ phase[n] = "up" /\ controllers[n] = {} /\ aborted[n] = {}
  /\ \A i \in Id : (caller[i] = n => ~InProgress(i)) /\ attempt[n][i] = "none"
Idle(n) == Quiet(n) /\ \A i \in Id : caller[i] # n
TwoChildren == \E i, j \in Id : i # j /\ {input[i].parent, input[j].parent} \subseteq Id
Small ==
  /\ faults <= 1 \/ \E n \in Node : Quiet(n)
  /\ \/ \E i \in Id : call[i] = "unused"
     \/ (\E n \in Node : Idle(n)) /\ faults <= 1 /\ TwoChildren
=============================================================================
