----------------------------- MODULE Diagrams -----------------------------
(***************************************************************************)
(* Decision diagrams as values.  The unique table holds one node for a     *)
(* level and two children (NodeTable: UniqueTable, ReducedOrdered), so     *)
(* that a node number stands for the diagram below it, and two numbers are *)
(* equal when the diagrams are.  Here a constant is <<VarNum, value>>, an  *)
(* inner node <<level, low, high>>.                                        *)
(***************************************************************************)
EXTENDS Integers, FiniteSets, Sequences

CONSTANT VarNum    \* bddvarnum, and the level of the constants

ASSUME VarNumAssumption == VarNum \in Nat \ {0}

Levels == 0..(VarNum - 1)

Const(b) == <<VarNum, b>>
Zero == Const(0)
One == Const(1)

ISCONST(d) == Len(d) = 2
Value(d) == d[2]
Level(d) == d[1]
Low(d) == d[2]
High(d) == d[3]

\* bdd_makenode: equal children make no node.
makenode(level, low, high) == IF low = high THEN low ELSE <<level, low, high>>

\* The cofactors of d at a level that is not below its top.
LowAt(d, level) == IF Level(d) = level THEN Low(d) ELSE d
HighAt(d, level) == IF Level(d) = level THEN High(d) ELSE d

Upper(l, r) == IF Level(l) <= Level(r) THEN Level(l) ELSE Level(r)

\* The nodes of a literal: bddvarset[2v] and bddvarset[2v+1].
Literal(level) == makenode(level, Zero, One)
NegLiteral(level) == makenode(level, One, Zero)

\* What bdd_mark and bdd_markcount reach.
RECURSIVE Nodes(_)
Nodes(d) == IF ISCONST(d) THEN {} ELSE {d} \cup Nodes(Low(d)) \cup Nodes(High(d))

----------------------------------------------------------------------------
\* Meanings: an assignment is the set of the levels that are true in it.

Assignments == SUBSET Levels

RECURSIVE ValueAt(_, _)
ValueAt(d, s) ==
  IF ISCONST(d) THEN Value(d)
  ELSE ValueAt(IF Level(d) \in s THEN High(d) ELSE Low(d), s)

Meaning(d) == {s \in Assignments : ValueAt(d, s) = 1}

\* The diagram of a set of assignments, from a level on.
RECURSIVE From(_, _)
From(S, level) ==
  IF level = VarNum THEN Const(IF S = {} THEN 0 ELSE 1)
  ELSE makenode(level, From({s \in S : level \notin s}, level + 1),
                       From({s \in S : level \in s}, level + 1))

Diagram(S) == From(S, 0)

\* The levels a set of assignments depends on.
Flip(s, level) == IF level \in s THEN s \ {level} ELSE s \cup {level}
Support(S) == {l \in Levels : \E s \in S : Flip(s, l) \notin S}

\* Reduced and ordered.
RECURSIVE WellFormed(_)
WellFormed(d) ==
  IF ISCONST(d) THEN d \in {Zero, One}
  ELSE /\ Low(d) # High(d)
       /\ Level(d) < Level(Low(d)) /\ Level(d) < Level(High(d))
       /\ WellFormed(Low(d)) /\ WellFormed(High(d))

=============================================================================
