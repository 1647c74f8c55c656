---------------------------- MODULE NodeTableMC ----------------------------
(***************************************************************************)
(* The node table on small instances, and its refinement of DiagramStore.  *)
(***************************************************************************)
EXTENDS NodeTable

\* A hash under which different keys share chains.
MCHash(l, a, b) == l + 2 * a

\* The diagram a slot stands for.
Diagram[n \in Slot] ==
  IF n < 2 THEN <<n>>
  ELSE IF LOW[n] = -1 THEN <<-1>>
  ELSE <<LEVEL[n], Diagram[LOW[n]], Diagram[HIGH[n]]>>

\* What a client may take without a reference on it is never collected: the
\* constants, and what bdd_ithvar and bdd_nithvar return.
ASSUME AtomAssumption == Atoms \subseteq 0..(2 * VarNum + 1)

LiteralDiagram(n) ==
  IF n < 2 THEN <<n>> ELSE <<InitLevel[n], <<InitLow[n]>>, <<InitHigh[n]>>>>

HeldSlots == {n \in 0..SlotBound : held[n] > 0}

\* What the client keeps, the results of the running operation, and the last
\* one, as diagrams.
Kept == [d \in {Diagram[n] : n \in HeldSlots} |->
           held[CHOOSE n \in HeldSlots : Diagram[n] = d]]
Temps == [i \in DOMAIN bddrefstack |-> Diagram[bddrefstack[i]]]
Answer == Diagram[result]

Store == INSTANCE DiagramStore WITH
  Operands <- {LiteralDiagram(n) : n \in Atoms},
  kept <- Kept, temps <- Temps, answer <- Answer, exhausted <- bdderrorcond

\* The node table implements the store of diagrams: what bdd_makenode,
\* bdd_addref and bdd_delref do to slots, through collections, resizes and
\* reuse of slots, is what the store does to diagrams.
ImplementsDiagramStore == Store!Spec

=============================================================================
