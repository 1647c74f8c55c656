---------------------------- MODULE StoreProofs ----------------------------
(***************************************************************************)
(* The node table implements the store of diagrams, for every number of    *)
(* variables, table size, hash function and MAXREF.                        *)
(*                                                                         *)
(* A slot stands for the diagram below it (Diagram).  The diagrams are     *)
(* defined by recursion; that they exist, that two nodes never have one    *)
(* diagram, and that a node and all below it keep theirs, is shown level   *)
(* by level.  With the inductive invariant of the table, every step of the *)
(* table is then a step of the store, or none.                             *)
(***************************************************************************)
EXTENDS NodeTableMC, NodeTableProofs

----------------------------------------------------------------------------
\* Diagrams of any table.

\* The nodes in S, with those below them, ordered.
Ordered(S, level, low, high) ==
  /\ S \subseteq Nat /\ {0, 1} \subseteq S
  /\ level[0] = VarNum /\ level[1] = VarNum
  /\ \A n \in S : level[n] \in 0..VarNum /\ low[n] # -1
  /\ \A n \in S \ {0, 1} :
       /\ low[n] \in S /\ high[n] \in S
       /\ level[n] < level[low[n]] /\ level[n] < level[high[n]]

\* And unique.
Nodes(S, level, low, high) ==
  /\ Ordered(S, level, low, high)
  /\ \A m, n \in S \ {0, 1} :
       level[m] = level[n] /\ low[m] = low[n] /\ high[m] = high[n] => m = n

\* The diagram of a node, when those of its children are in f.
Opened(f, n, level, low, high) ==
  IF n < 2 THEN <<n>>
  ELSE IF low[n] = -1 THEN <<-1>>
  ELSE <<level[n], f[low[n]], f[high[n]]>>

IsDiagram(f, slots, level, low, high) ==
  f = [n \in slots |-> Opened(f, n, level, low, high)]

LEMMA BelowNode ==
  ASSUME NEW S, NEW level, NEW low, NEW high, Ordered(S, level, low, high), NEW n \in S \ {0, 1}
  PROVE  /\ low[n] \in S /\ high[n] \in S
         /\ level[n] < level[low[n]] /\ level[n] < level[high[n]]
         /\ level[n] \in Nat /\ level[low[n]] \in Nat /\ level[high[n]] \in Nat
         /\ level[n] < VarNum
  <1>1. low[n] \in S /\ high[n] \in S /\ level[n] < level[low[n]] /\ level[n] < level[high[n]]
    BY DEF Ordered
  <1>2. \A m \in S : level[m] \in 0..VarNum
    BY DEF Ordered
  <1>3. level[n] \in 0..VarNum /\ level[low[n]] \in 0..VarNum /\ level[high[n]] \in 0..VarNum
    BY <1>1, <1>2
  <1>4. QED
    BY <1>1, <1>3, SizeAssumption

\* Every table has diagrams.
LEMMA DiagramExists ==
  ASSUME NEW slots \in SUBSET Nat, NEW S \in SUBSET slots, NEW level, NEW low, NEW high,
         Ordered(S, level, low, high), \A n \in slots \ S : low[n] = -1
  PROVE  \E f : IsDiagram(f, slots, level, low, high)
  <1> USE SizeAssumption
  <1> DEFINE U(f, n) == Opened(f, n, level, low, high)
             Done(k) == {n \in slots : n \in S \ {0, 1} => k <= level[n]}
             Right(f, k) == \A n \in Done(k) : f[n] = U(f, n)
             P(k) == \E f : f = [n \in slots |-> f[n]] /\ Right(f, k)
             T == {j \in 0..VarNum : ~P(VarNum - j)}
  <1>1. VarNum \in Nat
    OBVIOUS
  <1>2. P(VarNum)
    <2> DEFINE f == [n \in slots |-> IF n < 2 THEN <<n>> ELSE <<-1>>]
    <2>1. ASSUME NEW n \in slots, n \in S \ {0, 1} => VarNum <= level[n]
          PROVE  f[n] = U(f, n)
      <3>1. n \notin S \ {0, 1}
        BY <2>1, BelowNode
      <3>2. QED
        BY <3>1 DEF Opened, Ordered
    <2>2. f = [n \in slots |-> f[n]]
      OBVIOUS
    <2> HIDE DEF f, U
    <2>3. QED
      BY <2>1, <2>2
  <1>3. ASSUME NEW k \in 1..VarNum, P(k) PROVE P(k - 1)
    <2>1. PICK f : f = [n \in slots |-> f[n]] /\ Right(f, k)
      BY <1>3
    <2> DEFINE g == [n \in slots |-> IF n \in Done(k - 1) THEN U(f, n) ELSE f[n]]
    <2>2. g = [n \in slots |-> g[n]]
      OBVIOUS
    <2>3. ASSUME NEW n \in Done(k - 1) PROVE g[n] = U(g, n)
      <3>1. g[n] = U(f, n)
        BY <2>3
      <3>2. CASE n \in S \ {0, 1}
        <4>1. /\ low[n] \in S /\ high[n] \in S
              /\ level[n] < level[low[n]] /\ level[n] < level[high[n]]
              /\ level[n] \in Nat /\ level[low[n]] \in Nat /\ level[high[n]] \in Nat
          BY <3>2, BelowNode
        <4>2. k - 1 <= level[n]
          BY <2>3, <3>2
        <4>3. ASSUME NEW c \in {low[n], high[n]} PROVE g[c] = f[c]
          <5>1. k <= level[c] /\ c \in slots /\ k - 1 <= level[c]
            <6>1. level[n] < level[c] /\ level[c] \in Nat /\ c \in slots
              BY <4>1
            <6>2. QED
              BY <4>1, <4>2, <6>1
          <5>2. c \in Done(k) /\ c \in Done(k - 1)
            BY <5>1
          <5>3. g[c] = U(f, c)
            BY <5>2
          <5>4. f[c] = U(f, c)
            BY <2>1, <5>2
          <5>5. QED
            BY <5>3, <5>4
        <4> HIDE DEF g
        <4>4. U(g, n) = U(f, n)
          BY <4>3 DEF Opened
        <4>5. QED
          BY <3>1, <4>4
      <3>3. CASE n \notin S \ {0, 1}
        <4>1. n < 2 \/ low[n] = -1
          BY <2>3, <3>3
        <4> HIDE DEF g
        <4>2. U(g, n) = U(f, n)
          BY <4>1 DEF Opened
        <4>3. QED
          BY <3>1, <4>2
      <3>4. QED
        BY <3>2, <3>3
    <2> HIDE DEF g, U, Done
    <2>4. QED
      BY <2>2, <2>3
  <1> HIDE DEF P
  <1>4. T = {}
    <2>1. SUFFICES ASSUME T # {} PROVE FALSE
      OBVIOUS
    <2>2. PICK j \in T : \A i \in T : j <= i
      <3>1. T \in SUBSET Nat
        BY <1>1
      <3> HIDE DEF T
      <3>2. QED
        BY <2>1, <3>1, LeastNatural
    <2>3. j \in 0..VarNum /\ ~P(VarNum - j)
      BY <2>2
    <2>4. j # 0
      BY <1>1, <1>2, <2>3
    <2>5. j - 1 \in 0..VarNum /\ j - 1 \notin T
      BY <1>1, <2>2, <2>3, <2>4
    <2>6. P(VarNum - (j - 1)) /\ VarNum - (j - 1) \in 1..VarNum
      BY <1>1, <2>3, <2>4, <2>5
    <2>7. (VarNum - (j - 1)) - 1 = VarNum - j
      BY <1>1, <2>3
    <2>8. P(VarNum - j)
      BY <1>3, <2>6, <2>7
    <2>9. QED
      BY <2>3, <2>8
  <1>5. P(0)
    <2>1. VarNum \in 0..VarNum /\ VarNum - VarNum = 0
      BY <1>1
    <2>2. QED
      BY <1>4, <2>1
  <1>6. PICK f : f = [n \in slots |-> f[n]] /\ Right(f, 0)
    BY <1>5 DEF P
  <1>7. Done(0) = slots
    BY BelowNode
  <1>8. \A n \in slots : f[n] = U(f, n)
    BY <1>6, <1>7
  <1>9. f = [n \in slots |-> U(f, n)]
    <2> HIDE DEF U
    <2>1. QED
      BY <1>6, <1>8
  <1>10. QED
    BY <1>9 DEF IsDiagram

\* Two tables that agree on some nodes, and on all below these, give them the
\* same diagrams.
LEMMA DiagramAgrees ==
  ASSUME NEW S, NEW f, NEW slots, NEW level, NEW low, NEW high,
         NEW g, NEW slots2, NEW level2, NEW low2, NEW high2,
         IsDiagram(f, slots, level, low, high), IsDiagram(g, slots2, level2, low2, high2),
         S \subseteq slots, S \subseteq slots2, Ordered(S, level, low, high),
         \A n \in S : level2[n] = level[n] /\ low2[n] = low[n] /\ high2[n] = high[n]
  PROVE  \A n \in S : f[n] = g[n]
  <1> USE SizeAssumption
  <1> DEFINE T == {VarNum - level[n] : n \in {m \in S : f[m] # g[m]}}
  <1>1. \A n \in S : level[n] \in 0..VarNum /\ n \in Nat
    BY DEF Ordered
  <1>2. /\ \A n \in S : f[n] = Opened(f, n, level, low, high)
        /\ \A n \in S : g[n] = Opened(g, n, level2, low2, high2)
    BY DEF IsDiagram
  <1>3. T = {}
    <2>1. SUFFICES ASSUME T # {} PROVE FALSE
      OBVIOUS
    <2>2. T \in SUBSET Nat
      BY <1>1
    <2>3. PICK j \in T : \A i \in T : j <= i
      <3> HIDE DEF T
      <3>1. QED
        BY <2>1, <2>2, LeastNatural
    <2>4. PICK n \in S : f[n] # g[n] /\ j = VarNum - level[n]
      BY <2>3
    <2>5. CASE n \in {0, 1}
      <3>1. n < 2
        BY <2>5
      <3>2. f[n] = Opened(f, n, level, low, high) /\ g[n] = Opened(g, n, level2, low2, high2)
        BY <1>2
      <3>3. f[n] = <<n>> /\ g[n] = <<n>>
        BY <3>1, <3>2 DEF Opened
      <3>4. QED
        BY <2>4, <3>3
    <2>6. CASE n \notin {0, 1}
      <3>1. /\ low[n] \in S /\ high[n] \in S
            /\ level[n] < level[low[n]] /\ level[n] < level[high[n]]
        BY <2>6 DEF Ordered
      <3>2. ASSUME NEW c \in S, level[n] < level[c] PROVE f[c] = g[c]
        <4>1. SUFFICES ASSUME f[c] # g[c] PROVE FALSE
          OBVIOUS
        <4>2. VarNum - level[c] \in T
          BY <4>1
        <4>3. j <= VarNum - level[c]
          BY <2>3, <4>2
        <4>4. QED
          BY <1>1, <2>4, <3>2, <4>3
      <3>3. f[low[n]] = g[low[n]] /\ f[high[n]] = g[high[n]]
        BY <3>1, <3>2
      <3>4. Opened(f, n, level, low, high) = Opened(g, n, level2, low2, high2)
        BY <3>3 DEF Opened
      <3>5. QED
        BY <1>2, <2>4, <3>4
    <2>7. QED
      BY <2>5, <2>6
  <1>4. QED
    BY <1>3

\* How the diagram of a node looks.
Shaped(f, n, level, low, high) ==
  /\ n < 2 => f[n] = <<n>>
  /\ n \notin {0, 1} => f[n] = <<level[n], f[low[n]], f[high[n]]>>

LEMMA DiagramOf ==
  ASSUME NEW slots, NEW S \in SUBSET slots, NEW f, NEW level, NEW low, NEW high,
         IsDiagram(f, slots, level, low, high), Nodes(S, level, low, high),
         NEW n \in S
  PROVE  Shaped(f, n, level, low, high)
  <1>1. f[n] = Opened(f, n, level, low, high) /\ n \in Nat /\ low[n] # -1
    BY DEF IsDiagram, Nodes, Ordered
  <1>2. QED
    BY <1>1 DEF Opened, Shaped

\* Two nodes never have one diagram.
LEMMA DiagramInjective ==
  ASSUME NEW slots, NEW S \in SUBSET slots, NEW f, NEW level, NEW low, NEW high,
         IsDiagram(f, slots, level, low, high), Nodes(S, level, low, high)
  PROVE  \A m, n \in S : f[m] = f[n] => m = n
  <1> USE SizeAssumption
  <1> DEFINE Twin(m) == \E n \in S : f[m] = f[n] /\ m # n
             T == {VarNum - level[m] : m \in {x \in S : Twin(x)}}
  <1>1. \A n \in S : level[n] \in 0..VarNum /\ n \in Nat
    BY DEF Nodes, Ordered
  <1>2. \A n \in S : Shaped(f, n, level, low, high)
    BY DiagramOf
  <1>3. T = {}
    <2>1. SUFFICES ASSUME T # {} PROVE FALSE
      OBVIOUS
    <2>2. T \in SUBSET Nat
      BY <1>1
    <2>3. PICK j \in T : \A i \in T : j <= i
      <3> HIDE DEF T
      <3>1. QED
        BY <2>1, <2>2, LeastNatural
    <2>4. PICK m \in S : Twin(m) /\ j = VarNum - level[m]
      BY <2>3
    <2>5. PICK n \in S : f[m] = f[n] /\ m # n
      BY <2>4
    <2>6. /\ m < 2 => f[m] = <<m>>
          /\ n < 2 => f[n] = <<n>>
          /\ m \notin {0, 1} => f[m] = <<level[m], f[low[m]], f[high[m]]>>
          /\ n \notin {0, 1} => f[n] = <<level[n], f[low[n]], f[high[n]]>>
      <3> HIDE DEF T, Twin
      <3>1. QED
        BY <1>2 DEF Shaped
    <2>7. m \notin {0, 1} /\ n \notin {0, 1}
      <3>1. m \in Nat /\ n \in Nat
        BY <1>1
      <3>2. \A x, y, z, u : <<x>> # <<y, z, u>>
        OBVIOUS
      <3>3. \A x, y : <<x>> = <<y>> => x = y
        OBVIOUS
      <3>4. (m < 2 <=> m \in {0, 1}) /\ (n < 2 <=> n \in {0, 1})
        BY <3>1
      <3>5. QED
        BY <2>5, <2>6, <3>2, <3>3, <3>4
    <2>8. level[m] = level[n] /\ f[low[m]] = f[low[n]] /\ f[high[m]] = f[high[n]]
      BY <2>5, <2>6, <2>7
    <2>9. ASSUME NEW c \in S, NEW d \in S, level[m] < level[c], f[c] = f[d] PROVE c = d
      <3>1. SUFFICES ASSUME c # d PROVE FALSE
        OBVIOUS
      <3>2. Twin(c)
        BY <2>9, <3>1
      <3>3. VarNum - level[c] \in T
        BY <3>2
      <3>4. j <= VarNum - level[c]
        BY <2>3, <3>3
      <3>5. QED
        BY <1>1, <2>4, <2>9, <3>4
    <2>10. /\ low[m] \in S /\ high[m] \in S /\ low[n] \in S /\ high[n] \in S
           /\ level[m] < level[low[m]] /\ level[m] < level[high[m]]
      BY <2>7 DEF Nodes, Ordered
    <2>11. low[m] = low[n] /\ high[m] = high[n]
      BY <2>8, <2>9, <2>10
    <2>12. QED
      BY <2>5, <2>7, <2>8, <2>11 DEF Nodes, Ordered
  <1>4. QED
    BY <1>3

----------------------------------------------------------------------------
\* The diagrams of the node table.

\* Some nodes with those below them, among such nodes.
LEMMA PartNodes ==
  ASSUME NEW T, NEW S \in SUBSET T, NEW level, NEW low, NEW high, Nodes(T, level, low, high),
         {0, 1} \subseteq S, \A n \in S \ {0, 1} : low[n] \in S /\ high[n] \in S
  PROVE  Nodes(S, level, low, high)
  BY DEF Nodes, Ordered

LEMMA LiveNodes == IInv => /\ Nodes(Live, LEVEL, LOW, HIGH)
                           /\ Live \in SUBSET Slot /\ Slot \in SUBSET Nat
                           /\ \A n \in Slot \ Live : LOW[n] = -1
  <1> USE SizeAssumption
  <1> SUFFICES ASSUME IInv
               PROVE  /\ Nodes(Live, LEVEL, LOW, HIGH)
                      /\ Live \in SUBSET Slot /\ Slot \in SUBSET Nat
                      /\ \A n \in Slot \ Live : LOW[n] = -1
    OBVIOUS
  <1>1. /\ Live \in SUBSET Slot /\ Slot \in SUBSET Nat
        /\ \A n \in Slot \ Live : LOW[n] = -1
        /\ \A n \in Live : LOW[n] # -1
    <2>1. bddnodesize \in Nat
      BY DEF IInv, TypeOK, TableType
    <2>2. Slot \in SUBSET Nat
      BY <2>1 DEF Slot
    <2>3. QED
      BY <2>2 DEF Live
  <1>2. \A n \in {0, 1} : n \in Live /\ LEVEL[n] = VarNum
    <2>1. \A n \in {0, 1} : n \in 0..(2 * VarNum + 1) /\ n \in 0..(InitSize - 1) /\ n < 2
      OBVIOUS
    <2>2. \A n \in {0, 1} : InitLevel[n] = VarNum
      BY <2>1 DEF InitLevel
    <2>3. QED
      BY <2>1, <2>2 DEF IInv, LiteralsStay
  <1>3. \A n \in Live : LEVEL[n] \in 0..VarNum
    BY <1>1 DEF IInv, TypeOK, TableType
  <1>4. QED
    BY <1>1, <1>2, <1>3 DEF Nodes, Ordered, IInv, ReducedOrdered, UniqueTable

\* What no collection takes is a part with all below it.
LEMMA SurvivorsNodes ==
  ASSUME IInv
  PROVE  /\ Nodes(Survivors, LEVEL, LOW, HIGH) /\ Survivors \in SUBSET Live
         /\ 0 \in Survivors
         /\ \A n \in 0..(2 * VarNum + 1) : n \in Survivors
         /\ \A i \in DOMAIN bddrefstack : bddrefstack[i] \in Survivors
         /\ \A n \in 0..SlotBound : held[n] > 0 => n \in Survivors
  <1>1. /\ Survivors \in SUBSET Live /\ \A n \in Survivors : Children(n) \subseteq Survivors
        /\ \A n \in 0..(2 * VarNum + 1) : n \in Survivors
        /\ \A i \in DOMAIN bddrefstack : bddrefstack[i] \in Survivors
        /\ \A n \in 0..SlotBound : held[n] > 0 => n \in Survivors
    BY ProtectedSurvive
  <1>2. {0, 1} \subseteq Survivors
    BY DEF Survivors
  <1>3. ASSUME NEW n \in Survivors \ {0, 1} PROVE LOW[n] \in Survivors /\ HIGH[n] \in Survivors
    <2>1. n \in Nat /\ LOW[n] # -1
      BY <1>1, LiveNodes DEF Nodes, Ordered
    <2>2. QED
      BY <1>1, <2>1 DEF Children
  <1>4. QED
    BY <1>1, <1>2, <1>3, LiveNodes, PartNodes

\* Diagram exists.
LEMMA DiagramRight == IInv => IsDiagram(Diagram, Slot, LEVEL, LOW, HIGH)
  <1> SUFFICES ASSUME IInv PROVE IsDiagram(Diagram, Slot, LEVEL, LOW, HIGH)
    OBVIOUS
  <1>1. \E f : IsDiagram(f, Slot, LEVEL, LOW, HIGH)
    BY LiveNodes, DiagramExists DEF Nodes
  <1>2. Diagram = CHOOSE f : IsDiagram(f, Slot, LEVEL, LOW, HIGH)
    BY DEF Diagram, IsDiagram, Opened
  <1>3. QED
    BY <1>1, <1>2

\* The diagram of a node, and that no other node has it.
LEMMA DiagramShaped ==
  IInv => /\ \A n \in Live : Shaped(Diagram, n, LEVEL, LOW, HIGH)
          /\ \A m, n \in Live : Diagram[m] = Diagram[n] => m = n
  <1> SUFFICES ASSUME IInv
               PROVE  /\ \A n \in Live : Shaped(Diagram, n, LEVEL, LOW, HIGH)
                      /\ \A m, n \in Live : Diagram[m] = Diagram[n] => m = n
    OBVIOUS
  <1>1. IsDiagram(Diagram, Slot, LEVEL, LOW, HIGH)
    BY DiagramRight
  <1>2. \A n \in Live : Shaped(Diagram, n, LEVEL, LOW, HIGH)
    BY <1>1, LiveNodes, DiagramOf
  <1>3. \A m, n \in Live : Diagram[m] = Diagram[n] => m = n
    BY <1>1, LiveNodes, DiagramInjective
  <1>4. QED
    BY <1>2, <1>3

AllShaped == \A n \in Live : Shaped(Diagram, n, LEVEL, LOW, HIGH)

LEMMA ShapesRight == IInv => AllShaped
  BY DiagramShaped DEF AllShaped

\* A step that leaves some nodes, and all below them, leaves their diagrams.
LEMMA DiagramKept ==
  ASSUME IInv, IInv', NEW S \in SUBSET Live, S \subseteq Live',
         Nodes(S, LEVEL, LOW, HIGH), \A n \in S : SameNode(n)
  PROVE  \A n \in S : Diagram'[n] = Diagram[n]
  <1>1. IsDiagram(Diagram, Slot, LEVEL, LOW, HIGH)
    BY DiagramRight
  <1>2. IsDiagram(Diagram, Slot, LEVEL, LOW, HIGH)'
    BY DiagramRight, PTL
  <1> DEFINE g == Diagram'  slots2 == Slot'  level2 == LEVEL'  low2 == LOW'  high2 == HIGH'
  <1>3. IsDiagram(g, slots2, level2, low2, high2)
    BY <1>2
  <1>4. S \subseteq Slot /\ S \subseteq slots2
    BY DEF Live
  <1>5. \A n \in S : level2[n] = LEVEL[n] /\ low2[n] = LOW[n] /\ high2[n] = HIGH[n]
    BY DEF SameNode
  <1> HIDE DEF g, slots2, level2, low2, high2
  <1>6. \A n \in S : Diagram[n] = g[n]
    BY <1>1, <1>3, <1>4, <1>5, DiagramAgrees DEF Nodes
  <1>7. QED
    BY <1>6 DEF g

LEMMA SameDiagram == ASSUME UNCHANGED table PROVE Diagram' = Diagram
  BY DEF table, Diagram, Slot

----------------------------------------------------------------------------
\* What the client keeps.

Held(h) == {n \in 0..SlotBound : h[n] > 0}

\* k has the diagrams of the held nodes, each with the number of references.
IsKept(k, f, h) ==
  /\ k = [d \in {f[n] : n \in Held(h)} |-> k[d]]
  /\ \A n \in Held(h) : k[f[n]] = h[n]

LEMMA KeptRight == IInv => IsKept(Kept, Diagram, held) /\ Held(held) \subseteq Live
  <1> SUFFICES ASSUME IInv PROVE IsKept(Kept, Diagram, held) /\ Held(held) \subseteq Live
    OBVIOUS
  <1>1. Held(held) \subseteq Live /\ HeldSlots = Held(held)
    BY DEF Held, HeldSlots, IInv, ProtectedLive
  <1>2. Kept = [d \in {Diagram[n] : n \in Held(held)} |->
                  held[CHOOSE n \in Held(held) : Diagram[n] = d]]
    BY <1>1 DEF Kept
  <1>3. ASSUME NEW n \in Held(held) PROVE Kept[Diagram[n]] = held[n]
    <2> DEFINE c == CHOOSE m \in Held(held) : Diagram[m] = Diagram[n]
    <2>1. c \in Held(held) /\ Diagram[c] = Diagram[n]
      OBVIOUS
    <2>2. c = n
      BY <1>1, <2>1, DiagramShaped
    <2>3. Kept[Diagram[n]] = held[c]
      BY <1>2
    <2>4. QED
      BY <2>2, <2>3
  <1>4. QED
    BY <1>1, <1>2, <1>3 DEF IsKept

\* There is one such function.
LEMMA KeptEqual ==
  ASSUME NEW k, NEW f, NEW h, NEW k2, NEW f2, IsKept(k, f, h), IsKept(k2, f2, h),
         \A n \in Held(h) : f2[n] = f[n]
  PROVE  k2 = k
  <1>1. {f2[n] : n \in Held(h)} = {f[n] : n \in Held(h)}
    OBVIOUS
  <1>2. \A d \in {f[n] : n \in Held(h)} : k2[d] = k[d]
    BY DEF IsKept
  <1>3. QED
    BY <1>1, <1>2 DEF IsKept


----------------------------------------------------------------------------
\* The store's words for the nodes of the table.

LEMMA DiagramLevel ==
  ASSUME IInv, NEW n \in Live
  PROVE  Store!Level(Diagram[n]) = LEVEL[n]
  <1>1. Shaped(Diagram, n, LEVEL, LOW, HIGH)
    BY DiagramShaped
  <1>2. CASE n \in {0, 1}
    <2>1. n < 2 /\ LEVEL[n] = VarNum
      BY <1>2, LiveNodes DEF Nodes, Ordered
    <2>2. Diagram[n] = <<n>>
      BY <1>1, <2>1 DEF Shaped
    <2>3. QED
      BY <2>1, <2>2 DEF Store!Level
  <1>3. CASE n \notin {0, 1}
    <2>1. Diagram[n] = <<LEVEL[n], Diagram[LOW[n]], Diagram[HIGH[n]]>>
      BY <1>1, <1>3 DEF Shaped
    <2>2. QED
      BY <2>1 DEF Store!Level
  <1>4. QED
    BY <1>2, <1>3

\* The operands and cofactors that the client can name, the store has too.
LEMMA KnownKept ==
  ASSUME IInv, NEW n, Known(n)
  PROVE  Diagram[n] \in Store!Known
  <1>1. PICK m \in Slot : held[m] > 0 /\ n \in {m} \cup Children(m)
    BY DEF Known
  <1>2. m \in Held(held) /\ m \in Live
    <2>1. m \in 0..SlotBound
      <3>1. bddnodesize \in Nat /\ SlotBound \in Nat /\ bddnodesize <= SlotBound
        BY SizeAssumption DEF IInv, TypeOK, TableType
      <3>2. QED
        BY <3>1 DEF Slot
    <2>2. QED
      BY <1>1, <2>1, KeptRight DEF Held
  <1>3. Diagram[m] \in DOMAIN Kept
    BY <1>2, KeptRight DEF IsKept
  <1>4. CASE n = m
    BY <1>3, <1>4 DEF Store!Known
  <1>5. CASE n \in Children(m)
    <2>1. m \notin {0, 1} /\ n \in {LOW[m], HIGH[m]}
      BY <1>5 DEF Children
    <2>2. Diagram[m] = <<LEVEL[m], Diagram[LOW[m]], Diagram[HIGH[m]]>>
      BY <1>2, <2>1, DiagramShaped DEF Shaped
    <2>3. Store!Children(Diagram[m]) = {Diagram[LOW[m]], Diagram[HIGH[m]]}
      BY <2>2 DEF Store!Children
    <2>4. QED
      BY <1>3, <2>1, <2>3 DEF Store!Known
  <1>6. QED
    BY <1>1, <1>4, <1>5

\* The constants and the nodes of the variables stand for what their slots
\* were given.
LEMMA AtomDiagram ==
  ASSUME IInv, NEW n \in Atoms
  PROVE  Diagram[n] = LiteralDiagram(n)
  <1> USE SizeAssumption
  <1>1. n \in 0..(2 * VarNum + 1)
    BY AtomAssumption
  <1>2. n \in Live /\ LEVEL[n] = InitLevel[n] /\ LOW[n] = InitLow[n] /\ HIGH[n] = InitHigh[n]
    BY <1>1 DEF IInv, LiteralsStay
  <1>3. Shaped(Diagram, n, LEVEL, LOW, HIGH)
    BY <1>2, DiagramShaped
  <1>4. CASE n < 2
    BY <1>3, <1>4 DEF Shaped, LiteralDiagram
  <1>5. CASE ~(n < 2)
    <2>1. LOW[n] \in {0, 1} /\ HIGH[n] \in {0, 1}
      <3>1. VarNode(n) /\ n \in 0..(InitSize - 1)
        BY <1>1, <1>5 DEF VarNode
      <3>2. InitLow[n] = n % 2 /\ InitHigh[n] = 1 - (n % 2)
        BY <1>5, <3>1 DEF InitLow, InitHigh
      <3>3. n \in Nat /\ n % 2 \in {0, 1}
        BY <1>1
      <3>4. QED
        BY <1>2, <3>2, <3>3
    <2>2. \A c \in {0, 1} : Diagram[c] = <<c>>
      BY LiveNodes, DiagramShaped DEF Nodes, Ordered, Shaped
    <2>3. Diagram[n] = <<LEVEL[n], Diagram[LOW[n]], Diagram[HIGH[n]]>>
      BY <1>1, <1>3, <1>5 DEF Shaped
    <2>4. QED
      BY <1>2, <1>5, <2>1, <2>2, <2>3 DEF LiteralDiagram
  <1>6. QED
    BY <1>4, <1>5

\* A node with the diagrams of a and b below it is the node of that key.
LEMMA NoSuchDiagram ==
  ASSUME IInv, NEW l \in 0..(VarNum - 1), NEW a \in Live, NEW b \in Live, Matches(l, a, b) = {},
         NEW n \in Live
  PROVE  Diagram[n] # <<l, Diagram[a], Diagram[b]>>
  <1> SUFFICES ASSUME Diagram[n] = <<l, Diagram[a], Diagram[b]>> PROVE FALSE
    OBVIOUS
  <1>1. Shaped(Diagram, n, LEVEL, LOW, HIGH) /\ n \in Nat
    BY DiagramShaped, LiveNodes DEF Nodes, Ordered
  <1>2. n \notin {0, 1}
    <2>1. \A x, y, z, u : <<x>> # <<y, z, u>>
      OBVIOUS
    <2>2. n < 2 => Diagram[n] = <<n>>
      BY <1>1 DEF Shaped
    <2>3. QED
      BY <1>1, <2>1, <2>2
  <1>3. Diagram[n] = <<LEVEL[n], Diagram[LOW[n]], Diagram[HIGH[n]]>>
    BY <1>1, <1>2 DEF Shaped
  <1>4. LEVEL[n] = l /\ Diagram[LOW[n]] = Diagram[a] /\ Diagram[HIGH[n]] = Diagram[b]
    BY <1>3
  <1>5. LOW[n] \in Live /\ HIGH[n] \in Live
    BY <1>2, LiveNodes DEF Nodes, Ordered
  <1>6. LOW[n] = a /\ HIGH[n] = b
    BY <1>4, <1>5, DiagramShaped
  <1>7. l \in 0..VarNum /\ TableOK
    BY SizeAssumption DEF IInv, TypeOK, TableOK
  <1>8. QED
    BY <1>2, <1>4, <1>6, <1>7, NoMatch

\* The literals are never missing.
LEMMA NoSuchLiteral ==
  ASSUME IInv, NEW l \in 0..(VarNum - 1), NEW a \in Live, NEW b \in Live, Matches(l, a, b) = {}
  PROVE  <<l, Diagram[a], Diagram[b]>> \notin Store!Literals
  <1> USE SizeAssumption
  <1>1. ASSUME NEW k \in 0..(VarNum - 1), NEW i \in {0, 1}
        PROVE  \E n \in Live : Diagram[n] = <<k, <<i>>, <<1 - i>>>>
    <2> DEFINE n == 2 * k + 2 + i
    <2>1. n \in 2..(2 * VarNum + 1) /\ n \in 0..(InitSize - 1) /\ n \in 0..(2 * VarNum + 1)
      OBVIOUS
    <2>2. (n - 2) \div 2 = k /\ n % 2 = i
      OBVIOUS
    <2> HIDE DEF n
    <2>3. InitLevel[n] = k /\ InitLow[n] = i /\ InitHigh[n] = 1 - i
      BY <2>1, <2>2 DEF InitLevel, InitLow, InitHigh, VarNode
    <2>4. n \in Live /\ LEVEL[n] = k /\ LOW[n] = i /\ HIGH[n] = 1 - i
      BY <2>1, <2>3 DEF IInv, LiteralsStay
    <2>5. Diagram[n] = <<LEVEL[n], Diagram[LOW[n]], Diagram[HIGH[n]]>>
      BY <2>1, <2>4, DiagramShaped DEF Shaped
    <2>6. \A c \in {0, 1} : Diagram[c] = <<c>>
      BY LiveNodes, DiagramShaped DEF Nodes, Ordered, Shaped
    <2>7. i \in {0, 1} /\ 1 - i \in {0, 1}
      OBVIOUS
    <2>8. QED
      BY <2>4, <2>5, <2>6, <2>7
  <1>2. ASSUME NEW k \in 0..(VarNum - 1)
        PROVE  Store!Literal(k) = {<<k, <<0>>, <<1>>>>, <<k, <<1>>, <<0>>>>}
    <2>1. <<0>> # <<1>>
      OBVIOUS
    <2>2. QED
      BY <2>1 DEF Store!Literal, Store!Node, Store!False, Store!True
  <1>3. SUFFICES ASSUME NEW k \in 0..(VarNum - 1),
                        <<l, Diagram[a], Diagram[b]>> \in Store!Literal(k)
                 PROVE  FALSE
    BY DEF Store!Literals
  <1>4. \A k1 \in 0..(VarNum - 1) : \A i \in {0, 1} :
          \E n \in Live : Diagram[n] = <<k1, <<i>>, <<1 - i>>>>
    BY <1>1
  <1>5. 1 - 0 = 1 /\ 1 - 1 = 0
    OBVIOUS
  <1>6. PICK n \in Live : Diagram[n] = <<l, Diagram[a], Diagram[b]>>
    <2>1. \/ <<l, Diagram[a], Diagram[b]>> = <<k, <<0>>, <<1>>>>
          \/ <<l, Diagram[a], Diagram[b]>> = <<k, <<1>>, <<0>>>>
      BY <1>2, <1>3
    <2>2. QED
      BY <1>4, <1>5, <2>1
  <1>7. QED
    BY <1>6, NoSuchDiagram


----------------------------------------------------------------------------
\* Steps.

\* The diagrams of a sequence of nodes.
DiagramsOf(f, s) == [i \in DOMAIN s |-> f[s[i]]]

\* A recursion replaces the top of the reference stack by a result.
Replaced(f, f2, s, k, x) ==
  /\ DiagramsOf(f2, Append(SubSeq(s, 1, k), x))
       = Append(SubSeq(DiagramsOf(f, s), 1, k), f2[x])
  /\ Len(DiagramsOf(f, s)) = Len(s)

LEMMA DiagramsReplaced ==
  ASSUME NEW f, NEW f2, NEW s \in Seq(Nat), NEW k \in 0..Len(s), NEW x \in Nat,
         \A i \in 1..k : f2[s[i]] = f[s[i]]
  PROVE  Replaced(f, f2, s, k, x)
  <1> DEFINE D == DiagramsOf(f, s)
             V == {f[s[i]] : i \in 1..Len(s)}
             p == SubSeq(s, 1, k)
             P == SubSeq(D, 1, k)
  <1>1. Len(s) \in Nat /\ DOMAIN s = 1..Len(s) /\ k \in Nat
    OBVIOUS
  <1>2. D = [i \in 1..Len(s) |-> f[s[i]]]
    BY <1>1 DEF DiagramsOf
  <1>3. D \in Seq(V) /\ Len(D) = Len(s)
    <2> HIDE DEF V
    <2>1. \A i \in 1..Len(s) : f[s[i]] \in V
      BY DEF V
    <2>2. QED
      BY <1>1, <1>2, <2>1
  <1>4. /\ p \in Seq(Nat) /\ Len(p) = k /\ DOMAIN p = 1..k
        /\ \A i \in 1..k : p[i] = s[i]
    BY <1>1
  <1>5. /\ P \in Seq(V) /\ Len(P) = k
        /\ \A i \in 1..k : P[i] = f[s[i]]
    <2> HIDE DEF D, V
    <2>1. \A i \in 1..k : P[i] = D[i]
      BY <1>3
    <2>2. \A i \in 1..k : D[i] = f[s[i]]
      BY <1>1, <1>2
    <2>3. QED
      BY <1>3, <2>1, <2>2
  <1> HIDE DEF D, V, p, P
  <1> DEFINE A == Append(p, x)  y == f2[x]  B == Append(P, y)
  <1>6. /\ DOMAIN A = 1..(k + 1) /\ A[k + 1] = x
        /\ \A i \in 1..k : A[i] = p[i]
    BY <1>1, <1>4
  <1> HIDE DEF y
  <1>7. /\ B \in Seq(V \cup {y}) /\ DOMAIN B = 1..(k + 1) /\ B[k + 1] = y
        /\ \A i \in 1..k : B[i] = P[i]
    <2>1. P \in Seq(V \cup {y}) /\ y \in V \cup {y}
      BY <1>5
    <2>2. QED
      BY <1>1, <1>5, <2>1
  <1> HIDE DEF A, B
  <1>8. B = [i \in 1..(k + 1) |-> B[i]]
    BY <1>1, <1>7
  <1>9. ASSUME NEW i \in 1..(k + 1) PROVE f2[A[i]] = B[i]
    <2>1. CASE i = k + 1
      BY <1>6, <1>7, <2>1 DEF y
    <2>2. CASE i \in 1..k
      <3>1. A[i] = s[i] /\ B[i] = f[s[i]]
        BY <1>4, <1>5, <1>6, <1>7, <2>2
      <3>2. QED
        BY <2>2, <3>1
    <2>3. QED
      BY <1>1, <2>1, <2>2
  <1>10. DiagramsOf(f2, A) = B
    BY <1>6, <1>8, <1>9 DEF DiagramsOf
  <1>11. QED
    BY <1>3, <1>10 DEF D, p, P, A, B, y, Replaced

\* What every step keeps.
LEMMA StepKeeps ==
  ASSUME IInv, [Next]_vars
  PROVE  /\ IInv'
         /\ \A n \in Survivors : n \in Live' /\ Diagram'[n] = Diagram[n]
         /\ held' = held => Kept' = Kept
         /\ bddrefstack' = bddrefstack => Temps' = Temps
         /\ Diagram[0] = Store!False /\ Diagram'[0] = Store!False
  <1>1. IInv'
    BY NextIInv
  <1>2. bddnodesize \in Nat /\ bddnodesize' \in Nat
    BY <1>1 DEF IInv, TypeOK, TableType
  <1>3. bddnodesize <= bddnodesize'
    <2>1. CASE UNCHANGED table
      BY <1>2, <2>1 DEF table
    <2>2. CASE Gbc
      BY <1>2, <2>2 DEF Gbc, Rebuild
    <2>3. ASSUME NEW l \in 0..(VarNum - 1), MakeNode(l) PROVE bddnodesize <= bddnodesize'
      <3>1. PICK a, b, n : bdd_makenode(l, a, b, n)
        BY <2>3 DEF MakeNode
      <3>2. CASE CollectAndTakeNode(l, a, b, n)
        <4>1. PICK size \in bddnodesize..SlotBound : Rebuild(Survivors, size, {n}, l, a, b)
          BY <3>2 DEF CollectAndTakeNode
        <4>2. QED
          BY <1>2, <4>1 DEF Rebuild
      <3>3. QED
        BY <1>2, <3>1, <3>2 DEF bdd_makenode, table, FindNode, TakeNode, ExhaustNodes,
                               RefuseNode, Rebuild
    <2>4. QED
      BY <2>1, <2>2, <2>3 DEF Next, vars, EndOp, Restart, PushRef, AddRef, DelRef,
                              SetMaxNodeNum, SetMaxIncrease, SetMinFreeNodes, ClearError
  <1>4. \A n \in Survivors : SameNode(n)
    BY SurvivorsUnchanged
  <1>5. ASSUME NEW n \in Survivors PROVE n \in Live'
    <2>1. n \in Slot /\ LOW[n] # -1
      BY SurvivorsNodes DEF Live
    <2>2. n \in Slot'
      <3> DEFINE size == bddnodesize'
      <3>1. n \in 0..(bddnodesize - 1)
        BY <2>1 DEF Slot
      <3>2. n \in 0..(size - 1)
        <4> HIDE DEF size
        <4>1. size \in Nat /\ bddnodesize \in Nat /\ bddnodesize <= size
          BY <1>2, <1>3 DEF size
        <4>2. QED
          BY <3>1, <4>1
      <3>3. QED
        BY <3>2 DEF Slot
    <2>3. QED
      BY <1>4, <2>1, <2>2 DEF SameNode, Live
  <1>6. \A n \in Survivors : Diagram'[n] = Diagram[n]
    BY <1>1, <1>4, <1>5, SurvivorsNodes, DiagramKept
  <1>7. ASSUME held' = held PROVE Kept' = Kept
    <2>1. IsKept(Kept, Diagram, held) /\ Held(held) \subseteq Live
      BY KeptRight
    <2>2. IsKept(Kept, Diagram, held)'
      BY <1>1, KeptRight, PTL
    <2> DEFINE k2 == Kept'  f2 == Diagram'
    <2>3. IsKept(k2, f2, held)
      BY <1>7, <2>2 DEF IsKept, Held
    <2>4. \A n \in Held(held) : f2[n] = Diagram[n]
      BY <1>6, SurvivorsNodes DEF Held
    <2> HIDE DEF k2, f2
    <2>5. k2 = Kept
      BY <2>1, <2>3, <2>4, KeptEqual
    <2>6. QED
      BY <2>5 DEF k2
  <1>8. ASSUME bddrefstack' = bddrefstack PROVE Temps' = Temps
    BY <1>6, <1>8, SurvivorsNodes DEF Temps
  <1>9. 0 \in Survivors /\ Diagram[0] = <<0>>
    <2>1. 0 \in Live /\ 0 < 2
      BY SurvivorsNodes
    <2>2. QED
      BY <2>1, SurvivorsNodes, DiagramShaped DEF Shaped
  <1>10. QED
    BY <1>1, <1>5, <1>6, <1>7, <1>8, <1>9 DEF Store!False


LEMMA StackNodes == ASSUME IInv PROVE bddrefstack \in Seq(Nat) /\ Slot \in SUBSET Nat
  <1> DEFINE s == bddrefstack
  <1>1. s \in Seq(Slot) /\ Slot \in SUBSET Nat
    BY LiveNodes DEF IInv, TypeOK
  <1>2. Len(s) \in Nat /\ DOMAIN s = 1..Len(s) /\ \A i \in 1..Len(s) : s[i] \in Slot
    BY <1>1
  <1>3. s = [i \in 1..Len(s) |-> s[i]] /\ \A i \in 1..Len(s) : s[i] \in Nat
    BY <1>1, <1>2
  <1>4. s \in [1..Len(s) -> Nat]
    BY <1>3
  <1>5. QED
    BY <1>1, <1>2, <1>4

\* bdd_makenode on the two results on top of the reference stack is a
\* diagram made of the last two.
LEMMA MakeNodeStore ==
  ASSUME IInv, NEW l \in 0..(VarNum - 1), MakeNode(l)
  PROVE  Store!Make(l)
  <1> USE SizeAssumption
  <1> DEFINE depth == Len(bddrefstack)
             a == bddrefstack[depth - 1]
             b == bddrefstack[depth]
             rest == SubSeq(bddrefstack, 1, depth - 2)
  <1>1. /\ bddrefstack \in Seq(Slot) /\ Slot \in SUBSET Nat /\ bddrefstack \in Seq(Nat)
        /\ depth \in Nat /\ depth >= 2
        /\ depth - 1 \in DOMAIN bddrefstack /\ depth \in DOMAIN bddrefstack
    <2>1. bddrefstack \in Seq(Slot) /\ Slot \in SUBSET Nat /\ depth >= 2 /\ bddrefstack \in Seq(Nat)
      BY StackNodes DEF MakeNode, IInv, TypeOK
    <2>2. depth \in Nat /\ DOMAIN bddrefstack = 1..depth
      BY <2>1
    <2>3. QED
      BY <2>1, <2>2
  <1>2. PICK n \in 0..(SlotBound-1) : /\ bdd_makenode(l, a, b, n)
                                     /\ bddrefstack' = Append(rest, n)
    BY DEF MakeNode
  <1>3. l < LEVEL[a] /\ l < LEVEL[b] /\ UNCHANGED <<limits, held, result>>
    BY DEF MakeNode
  <1>4. a \in Roots /\ b \in Roots /\ a \in Live /\ b \in Live /\ a \in Survivors /\ b \in Survivors
        /\ result = 0
    BY <1>1, ProtectedSurvive DEF IInv, Idle
  <1>5. /\ IInv'
        /\ \A m \in Survivors : m \in Live' /\ Diagram'[m] = Diagram[m]
        /\ Kept' = Kept
        /\ Diagram[0] = Store!False /\ Diagram'[0] = Store!False
    BY <1>3, StepKeeps DEF Next
  <1>6. /\ Temps' = Append(SubSeq(Temps, 1, depth - 2), Diagram'[n])
        /\ Len(Temps) = depth
        /\ Temps[depth - 1] = Diagram[a] /\ Temps[depth] = Diagram[b]
    <2>1. Temps = DiagramsOf(Diagram, bddrefstack)
      BY DEF Temps, DiagramsOf
    <2>2. Temps' = DiagramsOf(Diagram', Append(rest, n))
      BY <1>2 DEF Temps, DiagramsOf
    <2>3. depth - 2 \in 0..depth /\ n \in Nat
      BY <1>1
    <2>4. ASSUME NEW i \in 1..(depth - 2) PROVE Diagram'[bddrefstack[i]] = Diagram[bddrefstack[i]]
      <3>1. i \in DOMAIN bddrefstack
        BY <1>1
      <3>2. QED
        BY <1>5, <3>1, SurvivorsNodes
    <2> DEFINE f2 == Diagram'
    <2>5. \A i \in 1..(depth - 2) : f2[bddrefstack[i]] = Diagram[bddrefstack[i]]
      BY <2>4
    <2>6. Temps' = DiagramsOf(f2, Append(SubSeq(bddrefstack, 1, depth - 2), n))
      BY <2>2
    <2> HIDE DEF f2
    <2>7. Replaced(Diagram, f2, bddrefstack, depth - 2, n)
      BY <1>1, <2>3, <2>5, DiagramsReplaced
    <2>8. Temps' = Append(SubSeq(Temps, 1, depth - 2), Diagram'[n]) /\ Len(Temps) = depth
      BY <2>1, <2>6, <2>7 DEF f2, Replaced
    <2>9. QED
      BY <1>1, <2>8 DEF Temps
  <1>7. Store!Level(Diagram[a]) = LEVEL[a] /\ Store!Level(Diagram[b]) = LEVEL[b]
    BY <1>4, DiagramLevel
  <1>8. a = b <=> Diagram[a] = Diagram[b]
    BY <1>4, DiagramShaped
  <1>9. Answer' = Answer
    BY <1>3, <1>4, <1>5 DEF Answer
  <1>10. \/ a = b /\ n = a /\ UNCHANGED bdderrorcond
         \/ /\ a # b /\ LEVEL'[n] = l /\ LOW'[n] = a /\ HIGH'[n] = b /\ n \notin {0, 1}
            /\ UNCHANGED bdderrorcond
         \/ n = 0 /\ bdderrorcond' = TRUE /\ a # b /\ Matches(l, a, b) = {}
    <2> HIDE DEF a, b
    <2>1. QED
      BY <1>2, <1>3, <1>4, MakeNodeResult
  <1> DEFINE A == Diagram[a]  B == Diagram[b]
  <1> HIDE DEF a, b, rest
  <1>11. \/ Diagram'[n] = Store!Node(l, A, B) /\ UNCHANGED bdderrorcond
         \/ /\ Diagram'[n] = Store!False /\ bdderrorcond' = TRUE /\ A # B
            /\ <<l, A, B>> \notin Store!Literals \cup (DOMAIN Kept)
    <2>1. CASE a = b /\ n = a /\ UNCHANGED bdderrorcond
      BY <1>4, <1>5, <1>8, <2>1 DEF Store!Node
    <2>2. CASE /\ a # b /\ LEVEL'[n] = l /\ LOW'[n] = a /\ HIGH'[n] = b /\ n \notin {0, 1}
               /\ UNCHANGED bdderrorcond
      <3>1. n \in Live'
        <4>1. MakeNode(l)
          OBVIOUS
        <4>2. QED
          BY <1>2, <1>3, <1>4, MakeNodeTableOK
      <3>2. (IInv => AllShaped)'
        BY ShapesRight, PTL
      <3>3. Shaped(Diagram', n, LEVEL', LOW', HIGH')
        BY <1>5, <3>1, <3>2 DEF AllShaped
      <3>4. Diagram'[n] = <<LEVEL'[n], Diagram'[LOW'[n]], Diagram'[HIGH'[n]]>>
        BY <2>2, <3>3 DEF Shaped
      <3>5. Diagram'[n] = <<l, Diagram'[a], Diagram'[b]>>
        BY <2>2, <3>4
      <3>6. Diagram'[n] = <<l, A, B>>
        BY <1>4, <1>5, <3>5
      <3>7. QED
        BY <1>8, <2>2, <3>6 DEF Store!Node
    <2>3. CASE n = 0 /\ bdderrorcond' = TRUE /\ a # b /\ Matches(l, a, b) = {}
      <3>1. <<l, A, B>> \notin Store!Literals
        BY <1>4, <2>3, NoSuchLiteral
      <3>2. <<l, A, B>> \notin DOMAIN Kept
        <4>1. DOMAIN Kept = {Diagram[m] : m \in Held(held)} /\ Held(held) \subseteq Live
          BY KeptRight DEF IsKept
        <4>2. \A m \in Live : Diagram[m] # <<l, A, B>>
          BY <1>4, <2>3, NoSuchDiagram
        <4>3. QED
          BY <4>1, <4>2
      <3>3. QED
        BY <1>5, <1>8, <2>3, <3>1, <3>2
    <2>4. QED
      BY <1>10, <2>1, <2>2, <2>3
  <1> HIDE DEF A, B, depth
  <1>12. /\ Temps[Len(Temps) - 1] = A /\ Temps[Len(Temps)] = B /\ Len(Temps) >= 2
         /\ l < Store!Level(A) /\ l < Store!Level(B)
    BY <1>1, <1>3, <1>6, <1>7 DEF A, B
  <1>13. \/ /\ Temps' = Append(SubSeq(Temps, 1, Len(Temps) - 2), Store!Node(l, A, B))
            /\ UNCHANGED bdderrorcond
         \/ /\ Temps' = Append(SubSeq(Temps, 1, Len(Temps) - 2), Store!False)
            /\ bdderrorcond' = TRUE /\ A # B
            /\ <<l, A, B>> \notin Store!Literals \cup (DOMAIN Kept)
    BY <1>6, <1>11
  <1>14. QED
    BY <1>5, <1>9, <1>12, <1>13 DEF Store!Make


\* The client takes a reference on a node, or gives one back.
LEMMA CountsKept ==
  ASSUME IInv, IInv', UNCHANGED table, NEW n \in Live, NEW count \in Nat,
         held' = [held EXCEPT ![n] = count]
  PROVE  LET d == Diagram[n]
             ds == {e \in (DOMAIN Kept) \cup {d} : e = d => count > 0}
         IN  /\ d \in DOMAIN Kept <=> held[n] > 0
             /\ d \in DOMAIN Kept => Kept[d] = held[n]
             /\ Kept' = [e \in ds |-> IF e = d THEN count ELSE Kept[e]]
  <1> DEFINE d == Diagram[n]
             ds == {e \in (DOMAIN Kept) \cup {d} : e = d => count > 0}
             h2 == [held EXCEPT ![n] = count]
             k2 == [e \in ds |-> IF e = d THEN count ELSE Kept[e]]
  <1>1. IsKept(Kept, Diagram, held) /\ Held(held) \subseteq Live
    BY KeptRight
  <1>2. n \in 0..SlotBound /\ held \in [0..SlotBound -> Nat]
    <2>1. bddnodesize \in Nat /\ SlotBound \in Nat /\ bddnodesize <= SlotBound
      BY SizeAssumption DEF IInv, TypeOK, TableType
    <2>2. n \in Slot
      BY DEF Live
    <2>3. n \in 0..SlotBound
      BY <2>1, <2>2 DEF Slot
    <2>4. held \in [0..SlotBound -> Nat]
      BY DEF IInv, TypeOK
    <2>5. QED
      BY <2>3, <2>4
  <1>3. /\ d \in DOMAIN Kept <=> held[n] > 0
        /\ d \in DOMAIN Kept => Kept[d] = held[n]
    <2>1. ASSUME d \in DOMAIN Kept PROVE n \in Held(held)
      <3>1. PICK m \in Held(held) : d = Diagram[m]
        BY <1>1, <2>1 DEF IsKept
      <3>2. QED
        BY <1>1, <3>1, DiagramShaped
    <2>2. ASSUME n \in Held(held) PROVE d \in DOMAIN Kept /\ Kept[d] = held[n]
      BY <1>1, <2>2 DEF IsKept
    <2>3. n \in Held(held) <=> held[n] > 0
      BY <1>2 DEF Held
    <2>4. QED
      BY <2>1, <2>2, <2>3
  <1>4. Held(h2) \ {n} = Held(held) \ {n} /\ (n \in Held(h2) <=> count > 0)
    BY <1>2 DEF Held
  <1>5. \A m \in 0..SlotBound : h2[m] = IF m = n THEN count ELSE held[m]
    BY <1>2
  <1>6. IsKept(k2, Diagram, h2)
    <2>1. {Diagram[m] : m \in Held(h2)} = ds
      <3>1. ASSUME NEW m \in Held(h2) PROVE Diagram[m] \in ds
        <4>1. CASE m = n
          BY <1>4, <3>1, <4>1
        <4>2. CASE m # n
          <5>1. m \in Held(held) /\ m \in Live
            BY <1>1, <1>4, <3>1, <4>2
          <5>2. Diagram[m] # d
            BY <4>2, <5>1, DiagramShaped
          <5>3. QED
            BY <1>1, <5>1, <5>2 DEF IsKept
        <4>3. QED
          BY <4>1, <4>2
      <3>2. ASSUME NEW e \in ds PROVE \E m \in Held(h2) : e = Diagram[m]
        <4>1. CASE e = d
          BY <1>4, <3>2, <4>1
        <4>2. CASE e # d
          <5>1. PICK m \in Held(held) : e = Diagram[m]
            BY <1>1, <3>2, <4>2 DEF IsKept
          <5>2. m # n
            BY <4>2, <5>1
          <5>3. QED
            BY <1>4, <5>1, <5>2
        <4>3. QED
          BY <4>1, <4>2
      <3> HIDE DEF ds, h2
      <3>3. QED
        BY <3>1, <3>2
    <2>2. ASSUME NEW m \in Held(h2) PROVE k2[Diagram[m]] = h2[m]
      <3>1. Diagram[m] \in ds /\ m \in 0..SlotBound
        BY <2>1, <2>2 DEF Held
      <3>2. k2[Diagram[m]] = IF Diagram[m] = d THEN count ELSE Kept[Diagram[m]]
        BY <3>1
      <3>3. CASE m = n
        BY <1>5, <3>1, <3>2, <3>3
      <3>4. CASE m # n
        <4>1. m \in Held(held) /\ m \in Live
          BY <1>1, <1>4, <2>2, <3>4
        <4>2. Diagram[m] # d /\ Kept[Diagram[m]] = held[m]
          BY <1>1, <3>4, <4>1, DiagramShaped DEF IsKept
        <4>3. QED
          BY <1>5, <3>1, <3>2, <3>4, <4>2
      <3>5. QED
        BY <3>3, <3>4
    <2>3. k2 = [e \in ds |-> k2[e]]
      OBVIOUS
    <2> HIDE DEF k2, ds, h2
    <2>4. QED
      BY <2>1, <2>2, <2>3 DEF IsKept
  <1>7. IsKept(Kept, Diagram, held)'
    BY KeptRight, PTL
  <1>8. Diagram' = Diagram
    BY SameDiagram
  <1> DEFINE kept2 == Kept'
  <1>9. IsKept(kept2, Diagram, h2)
    BY <1>7, <1>8 DEF IsKept, Held
  <1> HIDE DEF k2, h2, kept2
  <1>10. kept2 = k2
    BY <1>6, <1>9, KeptEqual
  <1>11. QED
    BY <1>3, <1>10 DEF k2, kept2


\* bdd_addref and bdd_delref.
LEMMA AddRefStore ==
  ASSUME IInv, NEW n \in Slot, AddRef(n)
  PROVE  Store!Keep(Diagram[n]) /\ Diagram[n] \in Store!Known \cup {Answer}
  <1> USE SizeAssumption
  <1>1. /\ UNCHANGED <<table, bddrefstack, result, bdderrorcond>> /\ n \in Live
        /\ held' = [held EXCEPT ![n] = held[n] + 1] /\ (n = result \/ Known(n))
    BY DEF AddRef, Live
  <1>2. IInv' /\ n \in 0..SlotBound /\ held[n] \in Nat
    <2>1. IInv'
      BY AddRefIInv
    <2>2. bddnodesize \in Nat /\ SlotBound \in Nat /\ bddnodesize <= SlotBound
      BY DEF IInv, TypeOK, TableType
    <2>3. n \in 0..SlotBound
      BY <2>2 DEF Slot
    <2>4. held \in [0..SlotBound -> Nat]
      BY DEF IInv, TypeOK
    <2>5. QED
      BY <2>1, <2>3, <2>4
  <1> DEFINE count == held[n] + 1  d == Diagram[n]
             ds == {e \in (DOMAIN Kept) \cup {d} : e = d => count > 0}
  <1>3. count \in Nat /\ count > 0 /\ held' = [held EXCEPT ![n] = count]
    BY <1>1, <1>2
  <1> HIDE DEF count
  <1>4. /\ d \in DOMAIN Kept <=> held[n] > 0
        /\ d \in DOMAIN Kept => Kept[d] = held[n]
        /\ Kept' = [e \in ds |-> IF e = d THEN count ELSE Kept[e]]
    BY <1>1, <1>2, <1>3, CountsKept
  <1>5. ds = (DOMAIN Kept) \cup {d}
    BY <1>3
  <1>6. (IF d \in DOMAIN Kept THEN Kept[d] ELSE 0) + 1 = count
    BY <1>2, <1>4 DEF count
  <1>7. Diagram' = Diagram
    BY <1>1, SameDiagram
  <1>8. Temps' = Temps /\ Answer' = Answer
    BY <1>1, <1>7 DEF Temps, Answer
  <1>9. d \in Store!Known \cup {Answer}
    BY <1>1, KnownKept DEF Answer
  <1> HIDE DEF d, ds
  <1>10. Kept' = [e \in (DOMAIN Kept) \cup {d} |->
                    IF e = d THEN (IF d \in DOMAIN Kept THEN Kept[d] ELSE 0) + 1 ELSE Kept[e]]
    BY <1>4, <1>5, <1>6
  <1>11. QED
    BY <1>1, <1>8, <1>9, <1>10 DEF Store!Keep, d

LEMMA DelRefStore ==
  ASSUME IInv, NEW n \in Slot, DelRef(n)
  PROVE  Store!Release(Diagram[n]) /\ Diagram[n] \in DOMAIN Kept
  <1> USE SizeAssumption
  <1>1. /\ UNCHANGED <<table, bddrefstack, result, bdderrorcond>> /\ n \in Live
        /\ held' = [held EXCEPT ![n] = held[n] - 1] /\ held[n] > 0
    BY DEF DelRef, Live
  <1>2. IInv' /\ n \in 0..SlotBound /\ held[n] \in Nat
    <2>1. IInv'
      BY DelRefIInv
    <2>2. bddnodesize \in Nat /\ SlotBound \in Nat /\ bddnodesize <= SlotBound
      BY DEF IInv, TypeOK, TableType
    <2>3. n \in 0..SlotBound
      BY <2>2 DEF Slot
    <2>4. held \in [0..SlotBound -> Nat]
      BY DEF IInv, TypeOK
    <2>5. QED
      BY <2>1, <2>3, <2>4
  <1> DEFINE count == held[n] - 1  d == Diagram[n]
             ds == {e \in (DOMAIN Kept) \cup {d} : e = d => count > 0}
  <1>3. /\ count \in Nat /\ held' = [held EXCEPT ![n] = count]
        /\ count > 0 <=> held[n] > 1
    BY <1>1, <1>2
  <1> HIDE DEF count
  <1>4. /\ d \in DOMAIN Kept <=> held[n] > 0
        /\ d \in DOMAIN Kept => Kept[d] = held[n]
        /\ Kept' = [e \in ds |-> IF e = d THEN count ELSE Kept[e]]
    BY <1>1, <1>2, <1>3, CountsKept
  <1>5. d \in DOMAIN Kept /\ Kept[d] = held[n] /\ Kept[d] - 1 = count
    BY <1>1, <1>4 DEF count
  <1>6. ds = {c \in DOMAIN Kept : c # d \/ Kept[c] > 1}
    BY <1>3, <1>5
  <1>7. Diagram' = Diagram
    BY <1>1, SameDiagram
  <1>8. Temps' = Temps /\ Answer' = Answer
    BY <1>1, <1>7 DEF Temps, Answer
  <1> HIDE DEF d, ds
  <1>9. Kept' = [e \in {c \in DOMAIN Kept : c # d \/ Kept[c] > 1} |->
                   IF e = d THEN Kept[e] - 1 ELSE Kept[e]]
    BY <1>4, <1>5, <1>6
  <1>10. QED
    BY <1>1, <1>5, <1>8, <1>9 DEF Store!Release, d

\* An operation takes up an operand.
LEMMA PushRefStore ==
  ASSUME IInv, NEW n \in Slot, PushRef(n)
  PROVE  Store!Push
  <1>1. /\ bddrefstack' = Append(bddrefstack, n) /\ result' = 0
        /\ UNCHANGED <<table, held, bdderrorcond>>
        /\ n \in Atoms \/ Known(n)
    BY DEF PushRef
  <1>2. /\ bddrefstack \in Seq(Slot) /\ n \in Slot
        /\ Kept' = Kept /\ Diagram[0] = Store!False
    BY <1>1, StepKeeps DEF Next, IInv, TypeOK
  <1>3. Diagram' = Diagram
    BY <1>1, SameDiagram
  <1>4. Diagram[n] \in {LiteralDiagram(a) : a \in Atoms} \cup Store!Known
    BY <1>1, AtomDiagram, KnownKept
  <1>5. Temps' = Append(Temps, Diagram[n])
    <2> DEFINE s == bddrefstack  f == Diagram
    <2>1. /\ s \in Seq(Nat) /\ n \in Nat /\ Len(s) \in 0..Len(s)
          /\ SubSeq(s, 1, Len(s)) = s
      BY <1>2, StackNodes
    <2>2. Replaced(f, f, s, Len(s), n)
      <3> HIDE DEF s, f
      <3>1. QED
        BY <2>1, DiagramsReplaced
    <2>3. Temps = DiagramsOf(f, s) /\ Temps' = DiagramsOf(f, Append(s, n))
      BY <1>1, <1>3 DEF Temps, DiagramsOf
    <2>4. Temps \in Seq({f[m] : m \in Slot}) /\ SubSeq(Temps, 1, Len(s)) = Temps
      <3> DEFINE V == {f[m] : m \in Slot}
      <3>1. \A i \in DOMAIN s : f[s[i]] \in V
        BY <1>2
      <3> HIDE DEF V
      <3>2. Temps \in Seq(V) /\ Len(Temps) = Len(s)
        BY <1>2, <3>1 DEF Temps
      <3>3. QED
        BY <3>2 DEF V
    <2>5. QED
      BY <2>1, <2>2, <2>3, <2>4 DEF Replaced
  <1>6. Answer' = Store!False
    BY <1>1, <1>2, <1>3 DEF Answer
  <1>7. QED
    BY <1>1, <1>2, <1>4, <1>5, <1>6 DEF Store!Push


----------------------------------------------------------------------------
\* The refinement.

LEMMA InitStore == Init => Store!Init
  <1> SUFFICES ASSUME Init PROVE Store!Init
    OBVIOUS
  <1>1. /\ IInv /\ bddrefstack = <<>> /\ result = 0 /\ bdderrorcond = FALSE
        /\ held = [n \in 0..SlotBound |-> 0]
    BY InitIInv DEF Init
  <1>2. Held(held) = {}
    BY <1>1 DEF Held
  <1>3. Kept = <<>>
    <2>1. HeldSlots = {}
      BY <1>2 DEF HeldSlots, Held
    <2>2. DOMAIN Kept = {} /\ Kept = [d \in {} |-> Kept[d]]
      BY <2>1 DEF Kept
    <2>3. <<>> = [d \in {} |-> Kept[d]]
      OBVIOUS
    <2>4. QED
      BY <2>2, <2>3
  <1>4. Temps = <<>>
    BY <1>1 DEF Temps
  <1>5. Answer = <<0>>
    <2>1. 0 \in Live /\ 0 < 2
      BY <1>1, SurvivorsNodes
    <2>2. QED
      BY <1>1, <2>1, DiagramShaped DEF Shaped, Answer
  <1>6. QED
    BY <1>1, <1>3, <1>4, <1>5 DEF Store!Init, Store!False

\* Every step of the table is a step of the store, or none.
LEMMA NextStore == IInv /\ [Next]_vars => [Store!Next]_(Store!vars)
  <1> USE SizeAssumption
  <1> SUFFICES ASSUME IInv, [Next]_vars PROVE [Store!Next]_(Store!vars)
    OBVIOUS
  <1>1. /\ IInv'
        /\ \A n \in Survivors : n \in Live' /\ Diagram'[n] = Diagram[n]
        /\ held' = held => Kept' = Kept
        /\ bddrefstack' = bddrefstack => Temps' = Temps
        /\ Diagram[0] = Store!False /\ Diagram'[0] = Store!False
    BY StepKeeps
  <1>2. CASE Gbc
    <2>1. /\ held' = held /\ bddrefstack' = bddrefstack /\ bdderrorcond' = bdderrorcond
          /\ result' = IF result \in Survivors THEN result ELSE 0
      BY <1>2 DEF Gbc
    <2>2. Answer' = Answer \/ Answer' = Store!False
      BY <1>1, <2>1 DEF Answer
    <2>3. QED
      BY <1>1, <2>1, <2>2 DEF Store!Next, Store!Forget, Store!vars
  <1>3. CASE EndOp
    <2>1. /\ Len(bddrefstack) = 1 /\ result' = bddrefstack[1] /\ bddrefstack' = <<>>
          /\ UNCHANGED <<table, held, bdderrorcond>>
      BY <1>3 DEF EndOp
    <2>2. Diagram' = Diagram
      BY <2>1, SameDiagram
    <2>3. DOMAIN bddrefstack = 1..1 /\ 1 \in DOMAIN bddrefstack
      BY <2>1, StackNodes
    <2>4. Len(Temps) = 1 /\ Temps[1] = Diagram[bddrefstack[1]]
      <3> DEFINE y == Diagram[bddrefstack[1]]
      <3>1. Temps = [i \in 1..1 |-> y]
        BY <2>3 DEF Temps
      <3> HIDE DEF y
      <3>2. Len(Temps) = 1 /\ Temps[1] = y
        BY <3>1
      <3>3. QED
        BY <3>2 DEF y
    <2>5. Temps' = <<>> /\ Answer' = Temps[1]
      BY <2>1, <2>2, <2>4 DEF Temps, Answer
    <2>6. QED
      BY <1>1, <2>1, <2>4, <2>5 DEF Store!Next, Store!Finish
  <1>4. CASE Restart
    <2>1. /\ bddrefstack # <<>> /\ bddrefstack' = <<>>
          /\ UNCHANGED <<table, held, bdderrorcond, result>>
      BY <1>4 DEF Restart, Idle
    <2>2. Answer' = Answer /\ Temps' = <<>>
      BY <2>1, SameDiagram DEF Temps, Answer
    <2>3. Temps # <<>>
      <3>1. bddrefstack \in Seq(Nat)
        BY StackNodes
      <3>2. 1 \in DOMAIN bddrefstack
        BY <2>1, <3>1
      <3>3. 1 \in DOMAIN Temps
        BY <3>2 DEF Temps
      <3>4. QED
        BY <3>3
    <2>4. QED
      BY <1>1, <2>1, <2>2, <2>3 DEF Store!Next, Store!Restart
  <1>5. ASSUME NEW n \in Slot, PushRef(n) PROVE Store!Next
    BY <1>5, PushRefStore DEF Store!Next
  <1>6. ASSUME NEW l \in 0..(VarNum - 1), MakeNode(l) PROVE Store!Next
    BY <1>6, MakeNodeStore DEF Store!Next
  <1>7. ASSUME NEW n \in Slot, AddRef(n) PROVE Store!Next
    BY <1>7, AddRefStore DEF Store!Next
  <1>8. ASSUME NEW n \in Slot, DelRef(n) PROVE Store!Next
    BY <1>8, DelRefStore DEF Store!Next
  <1>9. CASE UNCHANGED <<table, held, bdderrorcond, bddrefstack, result>>
    <2>1. Answer' = Answer
      BY <1>9, SameDiagram DEF Answer
    <2>2. QED
      BY <1>1, <1>9, <2>1 DEF Store!vars
  <1>10. CASE ClearError
    <2>1. /\ UNCHANGED <<table, held, bddrefstack, result>> /\ bdderrorcond' = FALSE
      BY <1>10 DEF ClearError
    <2>2. Answer' = Answer
      BY <2>1, SameDiagram DEF Answer
    <2>3. QED
      BY <1>1, <2>1, <2>2 DEF Store!Next, Store!ClearError
  <1>11. QED
    BY <1>2, <1>3, <1>4, <1>5, <1>6, <1>7, <1>8, <1>9, <1>10
       DEF Next, vars, SetMaxNodeNum, SetMaxIncrease, SetMinFreeNodes

\* The node table implements the store of diagrams: to its clients the slots
\* that bdd_makenode returns are diagrams, which no collection, resize or
\* reuse of slots turns into others.
THEOREM StoreRefined == Spec => ImplementsDiagramStore
  <1>1. Spec => Store!Init
    BY InitStore DEF Spec
  <1>2. Spec => [][Store!Next]_(Store!vars)
    BY NextStore, Invariance, PTL DEF Spec
  <1>3. QED
    BY <1>1, <1>2 DEF ImplementsDiagramStore, Store!Spec


=============================================================================
