------------------------------ MODULE ReorderMC ------------------------------
(***************************************************************************)
(* Sessions of reordering on small node tables: the literals of all        *)
(* variables, which bdd_setvarnum made first, then the nodes of the        *)
(* functions held, children made before parents or not.                    *)
(***************************************************************************)
EXTENDS ReorderClient

D == INSTANCE Diagrams

\* The nodes of functions that are no literals.
Literals == [i \in 1..(2 * VarNum) |->
  IF i % 2 = 1 THEN D!Literal((i - 1) \div 2) ELSE D!NegLiteral((i - 2) \div 2)]
LiteralSet == {Literals[i] : i \in DOMAIN Literals}
NodesOf(roots) == UNION {D!Nodes(r) : r \in roots} \ LiteralSet

Arrangements(S) ==
  {f \in [1..Cardinality(S) -> S] : \A i, j \in 1..Cardinality(S) : i # j => f[i] # f[j]}

SlotOf(layout, d) ==
  IF D!ISCONST(d) THEN D!Value(d) ELSE 1 + (CHOOSE i \in DOMAIN layout : layout[i] = d)

\* roots: diagrams with the client's references.
TableOf(layout, roots, size) ==
  [n \in 0..(size - 1) |->
    IF n < 2 THEN [level |-> VarNum, low |-> n, high |-> n, refcou |-> MaxRef]
    ELSE IF n - 1 > Len(layout) THEN [level |-> 0, low |-> -1, high |-> 0, refcou |-> 0]
    ELSE LET d == layout[n - 1] IN
         [level |-> D!Level(d), low |-> SlotOf(layout, D!Low(d)), high |-> SlotOf(layout, D!High(d)),
          refcou |-> IF d \in LiteralSet THEN MaxRef ELSE IF d \in roots THEN 1 ELSE 0]]

\* A held node's held descendants are in lower slots.
RootsRise(f, roots) ==
  \A i \in DOMAIN f : f[i] \in roots =>
    \A j \in DOMAIN f : f[j] \in roots \cap D!Nodes(f[i]) => j <= i

TablesOf(roots, size) ==
  {TableOf(Literals \o f, roots, size) : f \in Arrangements(NodesOf(roots))}
TablesRising(roots, size) ==
  {TableOf(Literals \o f, roots, size) : f \in {g \in Arrangements(NodesOf(roots)) : RootsRise(g, roots)}}

Func(P(_)) == D!Diagram({s \in SUBSET Variables : P(s)})
All == Func(LAMBDA s : s = {0, 1, 2})
Lower == Func(LAMBDA s : {1, 2} \subseteq s)
Parity == Func(LAMBDA s : Cardinality(s) % 2 = 1)
Choice == Func(LAMBDA s : IF 0 \in s THEN 1 \in s ELSE 2 \in s)

MCTables == TablesRising({All, Lower}, 14) \cup TablesRising({Choice, Lower}, 11) \cup TablesRising({Parity}, 12)
MCAnyTables == TablesOf({All, Lower}, 14)
=============================================================================
