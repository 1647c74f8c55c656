--------------------------- MODULE ReorderProofs ---------------------------
(***************************************************************************)
(* What holds of a session of reordering for every number of variables,    *)
(* all tables it may start from and whatever moves are made: the client's  *)
(* nodes keep their functions, and bdd_setvarorder and bdd_swapvar install *)
(* the order they were asked for.                                          *)
(*                                                                         *)
(* The first does not rest on the interaction matrix, nor on the order of  *)
(* the levels in the table.  A node's function is that of its variable and *)
(* its children, so it only takes that no path goes round in a circle, and *)
(* that no node is taken away that a parent or the client still counts on. *)
(***************************************************************************)
EXTENDS ReorderClient, CallStack

----------------------------------------------------------------------------
\* The inductive invariant.

Node == [level : 0..VarNum, low : Nat \cup {-1}, high : Nat, refcou : 0..MaxRef]
Shape(t) ==
  /\ \E size \in Nat : size > 1 /\ t \in [0..(size - 1) -> Node]
  /\ t[0].level = VarNum /\ t[1].level = VarNum
  /\ \A n \in Live(t) : t[n].level \in Levels /\ t[n].low \in Known(t) /\ t[n].high \in Known(t)

\* No path goes round in a circle: in any set of nodes, one has no child.
Acyclic(t) ==
  \A S \in SUBSET Live(t) : S # {} => \E n \in S : t[n].low \notin S /\ t[n].high \notin S
TableOK(t) == Shape(t) /\ Acyclic(t)

\* The references: of each node to its children, and from outside.  A count
\* is no less than the number of those to its node, or saturated.
Claims(t) ==
  {<<n, "low", t[n].low>> : n \in Live(t)} \cup {<<n, "high", t[n].high>> : n \in Live(t)}
RootsOf(R) == {<<n, "root", n>> : n \in R}
Claimed(C, n) == {c \in C : c[3] = n}
Counts(t) == [n \in Slots(t) |-> t[n].refcou]
Backed(L, counts, C) ==
  /\ IsFiniteSet(C)
  /\ \A n \in L : counts[n] = MaxRef \/ Cardinality(Claimed(C, n)) <= counts[n]

\* The references of the table and to the client's nodes, which the counts
\* of a session back.
SessionOK(t, R) ==
  TableOK(t) /\ R \subseteq Live(t) /\ Backed(Live(t), Counts(t), Claims(t) \cup RootsOf(R))

Permutation(order) ==
  /\ order \in [Levels -> Variables]
  /\ \A i, j \in Levels : order[i] = order[j] => i = j
  /\ \A v \in Variables : \E l \in Levels : order[l] = v

HeldOK == \A n \in DOMAIN held : n \in Live(bddnodes) /\ Function[n] = held[n].function

\* What a request asks for, and where a swap is.
OrderOK ==
  /\ Permutation(bddlevel2var) /\ phase \in {"out", "in", "swap"}
  /\ request.op = "setvarorder" => request.order \in Orders
  /\ request.op = "swapvar" => request.v1 \in Variables /\ request.v2 \in Variables
  /\ phase = "swap" => var0 \in Variables /\ bddvar2level(var0) < VarNum - 1
  /\ phase # "swap" => toBeProcessed = {}

InSession ==
  /\ SessionOK(bddnodes, extroots) /\ DOMAIN held \subseteq extroots
  /\ \A n \in toBeProcessed : n \in Live(bddnodes) /\ bddnodes[n].level = var0
OutOfSession == \A n \in DOMAIN held : bddnodes[n].refcou > 0
Sound ==
  /\ TableOK(bddnodes) /\ HeldOK
  /\ IF phase = "out" THEN OutOfSession ELSE InSession
ReorderInv == OrderOK /\ (~bdderrorcond => Sound)

\* How far a request is.  PlaceOf is bddvar2level, and Wrong Misplaced, for
\* any order.
PlaceOf(order, v) == CHOOSE l \in Levels : order[l] = v
Wrong(order, wanted) == {l \in Levels : order[l] # wanted[l]}
NextPlace(order, wanted) == PlaceOf(order, wanted[Lowest(Wrong(order, wanted))])

\* Twice the moves it takes at most to set the levels up to i.
MovesBefore(i) == i * (2 * VarNum - i - 1)
MovesBound(order, wanted) ==
  IF Wrong(order, wanted) = {} THEN MovesBefore(VarNum)
  ELSE MovesBefore(Lowest(Wrong(order, wanted))) + 2 * (VarNum - 1 - NextPlace(order, wanted))

SettingOrder ==
  LET order == request.order IN
  /\ phase = "out" => Wrong(bddlevel2var, order) = {}
  /\ phase = "swap" =>
       Wrong(bddlevel2var, order) # {} /\ var0 = bddlevel2var[NextPlace(bddlevel2var, order) - 1]
  /\ 2 * moves <= MovesBound(bddlevel2var, order)

\* The upper variable has come to p1; then the lower one to p2.
GoesDown(p1, p2, l1, l2) == p1 \in l1..(l2 - 1) /\ p2 = l2
GoesUp(p1, p2, l1, l2) == p1 = l2 /\ p2 \in l1..(l2 - 1)
Swapping ==
  LET p1 == PlaceOf(bddlevel2var, request.v1)
      p2 == PlaceOf(bddlevel2var, request.v2)
      l1 == request.l1
      l2 == request.l2
  IN  /\ l1 \in Levels /\ l2 \in Levels /\ request.v1 # request.v2
      /\ \/ GoesDown(p1, p2, l1, l2) /\ phase # "out" /\ (phase = "swap" => var0 = request.v1)
         \/ /\ GoesUp(p1, p2, l1, l2) /\ (phase = "out" => p2 = l1)
            /\ phase = "swap" => p2 > l1 /\ var0 = bddlevel2var[p2 - 1]

Progress ==
  /\ moves \in Nat
  /\ request.op = "setvarorder" => SettingOrder
  /\ request.op = "swapvar" => Swapping

----------------------------------------------------------------------------
\* Tables.

Facts(t) ==
  /\ IsFiniteSet(Slots(t)) /\ Slots(t) \subseteq Nat /\ Live(t) \subseteq Slots(t)
  /\ Known(t) \subseteq Slots(t) /\ 0 \in Known(t) /\ 1 \in Known(t) /\ IsFiniteSet(Live(t))
  /\ 0 \notin Live(t) /\ 1 \notin Live(t) /\ \A n \in Slots(t) : n < 2 <=> n \in {0, 1}
  /\ t = [n \in Slots(t) |-> t[n]]
  /\ \A n \in Slots(t) :
       /\ t[n] \in Node /\ t[n].level \in 0..VarNum /\ t[n].refcou \in 0..MaxRef
       /\ n \in Live(t) <=> n \notin {0, 1} /\ t[n].low # -1
       /\ n \notin Live(t) => t[n].low = -1 \/ n = 0 \/ n = 1

LEMMA TableFacts == ASSUME NEW t, Shape(t) PROVE Facts(t)
  <1>1. PICK size \in Nat : size > 1 /\ t \in [0..(size - 1) -> Node]
    BY DEF Shape
  <1>2. Slots(t) = 0..(size - 1) /\ Slots(t) \subseteq Nat /\ 0 \in Slots(t) /\ 1 \in Slots(t)
    BY <1>1 DEF Slots
  <1>3. IsFiniteSet(Slots(t))
    BY <1>1, <1>2, FS_Interval
  <1>4. Live(t) \subseteq Slots(t) /\ 0 \notin Live(t) /\ 1 \notin Live(t)
    BY DEF Live, Inner
  <1>5. IsFiniteSet(Live(t))
    BY <1>3, <1>4, FS_Subset
  <1>6. t = [n \in Slots(t) |-> t[n]] /\ \A n \in Slots(t) : t[n] \in Node
    BY <1>1, <1>2
  <1>7. \A n \in Slots(t) : n \in Live(t) <=> n \notin {0, 1} /\ t[n].low # -1
    BY DEF Live, Inner, FreeSlots
  <1>8. \A r \in Node : r.level \in 0..VarNum /\ r.refcou \in 0..MaxRef
    BY DEF Node
  <1>9. \A n \in Slots(t) : n < 2 <=> n \in {0, 1}
    BY <1>2
  <1>10. QED
    BY <1>2, <1>3, <1>4, <1>5, <1>6, <1>7, <1>8, <1>9 DEF Facts, Known

\* What holds of a node whenever it holds of its children holds of all.
LEMMA GraphInduction ==
  ASSUME NEW t, TableOK(t), NEW P,
         \A n \in Live(t) : {t[n].low, t[n].high} \cap Live(t) \subseteq P => n \in P
  PROVE  Live(t) \subseteq P
  <1> DEFINE S == Live(t) \ P
  <1>1. SUFFICES ASSUME S # {} PROVE FALSE
    OBVIOUS
  <1>2. S \in SUBSET Live(t)
    OBVIOUS
  <1>3. PICK n \in S : t[n].low \notin S /\ t[n].high \notin S
    BY <1>1, <1>2 DEF TableOK, Acyclic
  <1>4. QED
    BY <1>3

\* A function on slots may be defined at each node from its values at the
\* children: G gives the value at a node, b elsewhere.
Recursion(t, X, b, G, S, f) ==
  \A n \in X : f[n] = IF n \in S THEN G[<<n, f[t[n].low], f[t[n].high]>>] ELSE b[n]

LEMMA GraphRecursion ==
  ASSUME NEW t, TableOK(t), NEW X, Known(t) \subseteq X, NEW V, NEW b \in [X -> V],
         NEW G \in [Live(t) \X V \X V -> V]
  PROVE  \E f \in [X -> V] : Recursion(t, X, b, G, Live(t), f)
  <1> DEFINE Under(S) == \A n \in S : {t[n].low, t[n].high} \cap Live(t) \subseteq S
             Sol(S, f) == Under(S) /\ Recursion(t, X, b, G, S, f)
             W == {n \in Live(t) : \E S \in SUBSET Live(t) : n \in S /\ \E f \in [X -> V] : Sol(S, f)}
             At(n, v) == \E S \in SUBSET Live(t) : n \in S /\ \E f \in [X -> V] : Sol(S, f) /\ v = f[n]
             h == [n \in X |-> IF n \in W THEN CHOOSE v : At(n, v) ELSE b[n]]
  <1>1. /\ Live(t) \subseteq X
        /\ \A n \in Live(t) : t[n].low \in X /\ t[n].high \in X
    BY DEF TableOK, Shape, Known
  <1>2. ASSUME NEW R \in SUBSET Live(t), NEW S \in SUBSET Live(t), NEW f \in [X -> V], NEW g \in [X -> V],
               Sol(R, f), Sol(S, g)
        PROVE  \A n \in R \cap S : f[n] = g[n]
    <2> DEFINE P == {n \in Live(t) : n \in R \cap S => f[n] = g[n]}
    <2>1. ASSUME NEW n \in Live(t), {t[n].low, t[n].high} \cap Live(t) \subseteq P PROVE n \in P
      <3>1. SUFFICES ASSUME n \in R, n \in S PROVE f[n] = g[n]
        OBVIOUS
      <3>2. ASSUME NEW c \in {t[n].low, t[n].high} PROVE f[c] = g[c]
        <4>1. c \in X
          BY <1>1
        <4>2. CASE c \in Live(t)
          BY <1>2, <2>1, <3>1, <4>2
        <4>3. CASE c \notin Live(t)
          BY <1>2, <4>1, <4>3 DEF Recursion
        <4>4. QED
          BY <4>2, <4>3
      <3>3. f[n] = G[<<n, f[t[n].low], f[t[n].high]>>] /\ g[n] = G[<<n, g[t[n].low], g[t[n].high]>>]
        BY <1>1, <1>2, <3>1 DEF Recursion
      <3>4. QED
        BY <3>2, <3>3
    <2>2. Live(t) \subseteq P
      <3> HIDE DEF P
      <3>1. QED
        BY <2>1, GraphInduction
    <2>3. QED
      BY <2>2
  <1>3. ASSUME NEW S \in SUBSET Live(t), NEW f \in [X -> V], Sol(S, f), NEW n \in S
        PROVE  n \in W /\ h[n] = f[n]
    <2>1. n \in W /\ n \in X /\ At(n, f[n])
      BY <1>1, <1>3
    <2>2. ASSUME NEW v, At(n, v) PROVE v = f[n]
      BY <1>2, <1>3, <2>2
    <2> HIDE DEF At
    <2>3. (CHOOSE v : At(n, v)) = f[n]
      BY <2>1, <2>2
    <2> HIDE DEF W, Sol
    <2>4. QED
      BY <2>1, <2>3
  <1>4. ASSUME NEW n \in W
        PROVE  \E S \in SUBSET Live(t) : n \in S /\ \E f \in [X -> V] : Sol(S, f)
    OBVIOUS
  <1>5. W \in SUBSET Live(t) /\ (\A n \in X \ W : h[n] = b[n]) /\ DOMAIN h = X /\ h = [n \in X |-> h[n]]
    OBVIOUS
  <1> HIDE DEF W, h, At, Sol
  <1>6. ASSUME NEW n \in W PROVE h[n] \in V
    <2>1. PICK S \in SUBSET Live(t), f \in [X -> V] : n \in S /\ Sol(S, f)
      BY <1>4
    <2>2. h[n] = f[n] /\ n \in X
      BY <1>1, <1>3, <2>1
    <2>3. QED
      BY <2>2
  <1>7. h \in [X -> V]
    <2>1. \A n \in X : h[n] \in V
      BY <1>5, <1>6
    <2>2. QED
      BY <1>5, <2>1
  <1>8. Sol(W, h)
    <2>1. ASSUME NEW n \in W
          PROVE  /\ {t[n].low, t[n].high} \cap Live(t) \subseteq W
                 /\ h[n] = G[<<n, h[t[n].low], h[t[n].high]>>]
      <3>1. PICK S \in SUBSET Live(t), f \in [X -> V] : n \in S /\ Sol(S, f)
        BY <1>4
      <3>2. Under(S) /\ Recursion(t, X, b, G, S, f) /\ n \in X
        BY <1>1, <1>5, <3>1 DEF Sol
      <3>3. ASSUME NEW c \in {t[n].low, t[n].high} PROVE h[c] = f[c] /\ (c \in Live(t) => c \in W)
        <4>1. c \in X
          BY <1>1, <1>5
        <4>2. CASE c \in Live(t)
          BY <1>3, <3>1, <3>2, <4>2
        <4>3. CASE c \notin Live(t)
          BY <1>5, <3>2, <4>1, <4>3 DEF Recursion
        <4>4. QED
          BY <4>2, <4>3
      <3>4. f[n] = G[<<n, f[t[n].low], f[t[n].high]>>]
        BY <3>1, <3>2 DEF Recursion
      <3>5. h[n] = f[n]
        BY <1>3, <3>1
      <3>6. QED
        BY <3>3, <3>4, <3>5
    <2>2. QED
      BY <1>5, <2>1 DEF Sol, Recursion
  <1>9. W = Live(t)
    <2>1. ASSUME NEW n \in Live(t), {t[n].low, t[n].high} \cap Live(t) \subseteq W PROVE n \in W
      <3>1. SUFFICES ASSUME n \notin W PROVE FALSE
        OBVIOUS
      <3> DEFINE S == W \cup {n}
                 g == [h EXCEPT ![n] = G[<<n, h[t[n].low], h[t[n].high]>>]]
      <3>2. n \in X /\ h[t[n].low] \in V /\ h[t[n].high] \in V
        BY <1>1, <1>7
      <3>3. G[<<n, h[t[n].low], h[t[n].high]>>] \in V
        BY <3>2
      <3>4. g \in [X -> V] /\ g[n] = G[<<n, h[t[n].low], h[t[n].high]>>] /\ \A m \in X : m # n => g[m] = h[m]
        BY <1>7, <3>2, <3>3
      <3>5. S \in SUBSET Live(t) /\ Under(S)
        BY <1>5, <1>8, <2>1 DEF Sol
      <3>6. Under(W) /\ \A m \in W : h[m] = G[<<m, h[t[m].low], h[t[m].high]>>]
        BY <1>1, <1>5, <1>8 DEF Sol, Recursion
      <3>7. n \notin {t[n].low, t[n].high}
        BY <2>1, <3>1
      <3> HIDE DEF g
      <3>8. ASSUME NEW m \in S PROVE g[m] = G[<<m, g[t[m].low], g[t[m].high]>>]
        <4>1. CASE m = n
          BY <1>1, <3>4, <3>7, <4>1
        <4>2. CASE m # n
          <5>1. m \in W /\ t[m].low # n /\ t[m].high # n
            BY <3>1, <3>6, <4>2
          <5>2. m \in X /\ t[m].low \in X /\ t[m].high \in X
            BY <1>1, <1>5, <5>1
          <5>3. g[m] = h[m] /\ g[t[m].low] = h[t[m].low] /\ g[t[m].high] = h[t[m].high]
            BY <3>4, <4>2, <5>1, <5>2
          <5>4. QED
            BY <3>6, <5>1, <5>3
        <4>3. QED
          BY <4>1, <4>2
      <3>9. \A m \in X \ S : g[m] = b[m]
        BY <1>5, <3>4
      <3>10. Sol(S, g)
        BY <3>5, <3>8, <3>9 DEF Sol, Recursion
      <3>11. n \in S
        OBVIOUS
      <3>12. QED
        BY <1>3, <3>1, <3>4, <3>5, <3>10, <3>11
    <2>2. Live(t) \subseteq W
      BY <2>1, GraphInduction
    <2>3. QED
      BY <1>5, <2>2
  <1>10. Recursion(t, X, b, G, Live(t), h)
    BY <1>8, <1>9 DEF Sol
  <1>11. QED
    BY <1>7, <1>10

\* The values of a recursion over numbers.
Iterates(N, V, a, G) == \E f \in [0..N -> V] : f[0] = a /\ \A i \in 1..N : f[i] = G[<<i, f[i - 1]>>]

LEMMA Iteration ==
  ASSUME NEW N \in Nat, NEW V, NEW a \in V, NEW G \in [(1..N) \X V -> V]
  PROVE  Iterates(N, V, a, G)
  <1> DEFINE Good(k, f) == f[0] = a /\ \A i \in 1..k : f[i] = G[<<i, f[i - 1]>>]
             T == {k \in 0..N : ~\E f \in [0..k -> V] : Good(k, f)}
  <1>1. SUFFICES ASSUME T # {} PROVE FALSE
    <2>1. N \in 0..N
      OBVIOUS
    <2>2. \E f \in [0..N -> V] : Good(N, f)
      BY <2>1
    <2>3. QED
      BY <2>2 DEF Iterates
  <1>2. PICK k \in T : \A j \in T : k <= j
    <2>1. T \in SUBSET Nat
      OBVIOUS
    <2> HIDE DEF T
    <2>2. QED
      BY <1>1, <2>1, LeastNatural
  <1>3. k \in 0..N /\ ~\E f \in [0..k -> V] : Good(k, f)
    OBVIOUS
  <1>4. k # 0
    <2>1. SUFFICES ASSUME k = 0 PROVE FALSE
      OBVIOUS
    <2> DEFINE f == [i \in 0..0 |-> a]
    <2>2. f \in [0..k -> V] /\ f[0] = a
      BY <2>1
    <2>3. Good(k, f)
      BY <2>1, <2>2
    <2>4. QED
      BY <1>3, <2>2, <2>3
  <1>5. k - 1 \in 0..N /\ k \in 1..N
    BY <1>3, <1>4
  <1>6. PICK f \in [0..(k - 1) -> V] : Good(k - 1, f)
    <2>1. k - 1 \notin T
      BY <1>2, <1>3, <1>4
    <2>2. QED
      BY <1>5, <2>1
  <1> DEFINE g == [i \in 0..k |-> IF i = k THEN G[<<k, f[k - 1]>>] ELSE f[i]]
  <1>7. k - 1 \in 0..(k - 1) /\ G[<<k, f[k - 1]>>] \in V
    BY <1>5
  <1>8. g \in [0..k -> V]
    BY <1>5, <1>7
  <1>9. g[k] = G[<<k, f[k - 1]>>] /\ \A i \in 0..(k - 1) : g[i] = f[i]
    BY <1>5
  <1> HIDE DEF g
  <1>10. ASSUME NEW i \in 1..k PROVE g[i] = G[<<i, g[i - 1]>>]
    <2>1. CASE i = k
      BY <1>7, <1>9, <2>1
    <2>2. CASE i # k
      <3>1. i \in 1..(k - 1) /\ i - 1 \in 0..(k - 1) /\ i \in 0..(k - 1)
        BY <1>5, <2>2
      <3>2. QED
        BY <1>6, <1>9, <3>1
    <2>3. QED
      BY <2>1, <2>2
  <1>11. g[0] = a
    BY <1>4, <1>5, <1>6, <1>9
  <1>12. QED
    BY <1>3, <1>8, <1>10, <1>11

----------------------------------------------------------------------------
\* The functions of the nodes of a table, when w gives their variables.

Functions == SUBSET (SUBSET Variables)
Branch(v, low, high) == {s \in SUBSET Variables : s \in IF v \in s THEN high ELSE low}
Meaning(t, w, f) ==
  /\ f \in [Slots(t) -> Functions]
  /\ f[0] = {} /\ f[1] = SUBSET Variables
  /\ \A n \in Live(t) : f[n] = Branch(w[n], f[t[n].low], f[t[n].high])

\* The function of slot n, from those of its children.
ValueAt(t, w, f, n) ==
  IF n < 2 THEN {s \in SUBSET Variables : n = 1}
  ELSE IF t[n].low = -1 THEN {} ELSE Branch(w[n], f[t[n].low], f[t[n].high])

LEMMA MeaningExists ==
  ASSUME NEW t, TableOK(t), NEW w
  PROVE  \E f : Meaning(t, w, f) /\ f = [n \in Slots(t) |-> ValueAt(t, w, f, n)]
  <1> DEFINE X == Slots(t)
             b == [n \in X |-> IF n < 2 THEN {s \in SUBSET Variables : n = 1} ELSE {}]
             G == [x \in Live(t) \X Functions \X Functions |-> Branch(w[x[1]], x[2], x[3])]
  <1>1. Facts(t)
    BY TableFacts DEF TableOK
  <1>2. b \in [X -> Functions]
    BY DEF Functions
  <1>3. G \in [Live(t) \X Functions \X Functions -> Functions]
    BY DEF Functions, Branch
  <1>4. Known(t) \subseteq X
    BY <1>1 DEF Facts
  <1>5. \A n \in Live(t), x, y \in Functions : G[<<n, x, y>>] = Branch(w[n], x, y)
    OBVIOUS
  <1>6. \A n \in X : n < 2 => n \notin Live(t) /\ b[n] = {s \in SUBSET Variables : n = 1}
    BY <1>1 DEF Facts
  <1>7. \A n \in X : ~(n < 2) => b[n] = {} /\ (n \in Live(t) <=> t[n].low # -1)
    BY <1>1 DEF Facts
  <1> HIDE DEF G, b
  <1>8. PICK f \in [X -> Functions] : Recursion(t, X, b, G, Live(t), f)
    BY <1>2, <1>3, <1>4, GraphRecursion
  <1>9. \A n \in Live(t) : n \in X /\ t[n].low \in X /\ t[n].high \in X
    BY <1>1, <1>4 DEF TableOK, Shape, Facts
  <1>10. ASSUME NEW n \in Live(t) PROVE f[n] = Branch(w[n], f[t[n].low], f[t[n].high])
    <2>1. f[n] = G[<<n, f[t[n].low], f[t[n].high]>>]
      BY <1>8, <1>9 DEF Recursion
    <2>2. f[t[n].low] \in Functions /\ f[t[n].high] \in Functions
      BY <1>8, <1>9
    <2>3. QED
      BY <1>5, <2>1, <2>2
  <1>11. \A n \in X \ Live(t) : f[n] = b[n]
    BY <1>8 DEF Recursion
  <1>12. f[0] = {} /\ f[1] = SUBSET Variables
    <2>1. 0 \in X /\ 1 \in X /\ 0 \notin Live(t) /\ 1 \notin Live(t)
      BY <1>1 DEF Facts
    <2>2. b[0] = {s \in SUBSET Variables : 0 = 1} /\ b[1] = {s \in SUBSET Variables : 1 = 1}
      BY <1>6, <2>1
    <2>3. QED
      BY <1>11, <2>1, <2>2
  <1>13. ASSUME NEW n \in X PROVE f[n] = ValueAt(t, w, f, n)
    BY <1>6, <1>7, <1>10, <1>11 DEF ValueAt
  <1>14. f = [n \in X |-> ValueAt(t, w, f, n)]
    BY <1>13
  <1>15. QED
    BY <1>8, <1>10, <1>12, <1>14 DEF Meaning

VariablesOf == [n \in Live(bddnodes) |-> VarOf(n)]
FunctionOK == TableOK(bddnodes) => Meaning(bddnodes, VariablesOf, Function)

LEMMA FunctionMeaning == FunctionOK
  <1> SUFFICES ASSUME TableOK(bddnodes)
               PROVE  Meaning(bddnodes, [n \in Live(bddnodes) |-> VarOf(n)], Function)
    BY DEF FunctionOK, VariablesOf
  <1> DEFINE w == [n \in Live(bddnodes) |-> VarOf(n)]
  <1>1. Facts(bddnodes)
    BY TableFacts DEF TableOK
  <1> DEFINE Sets(g, n) == IF n < 2 THEN {s \in SUBSET Variables : n = 1}
               ELSE IF bddnodes[n].low = -1 THEN {}
               ELSE {s \in SUBSET Variables : s \in g[IF VarOf(n) \in s THEN bddnodes[n].high ELSE bddnodes[n].low]}
             Right(g) ==
        g = [n \in Slots(bddnodes) |->
               IF n < 2 THEN {s \in SUBSET Variables : n = 1}
               ELSE IF bddnodes[n].low = -1 THEN {}
               ELSE {s \in SUBSET Variables : s \in g[IF VarOf(n) \in s THEN bddnodes[n].high ELSE bddnodes[n].low]}]
  <1>2. ASSUME NEW g, NEW n \in Slots(bddnodes) PROVE ValueAt(bddnodes, w, g, n) = Sets(g, n)
    <2>1. CASE n < 2 \/ bddnodes[n].low = -1
      BY <2>1 DEF ValueAt
    <2>2. CASE ~(n < 2) /\ bddnodes[n].low # -1
      <3>1. n \in Live(bddnodes)
        BY <1>1, <2>2 DEF Facts
      <3>2. w[n] = VarOf(n)
        BY <3>1
      <3> HIDE DEF w
      <3>3. ValueAt(bddnodes, w, g, n) = Branch(VarOf(n), g[bddnodes[n].low], g[bddnodes[n].high])
        BY <2>2, <3>2 DEF ValueAt
      <3>4. Sets(g, n)
            = {s \in SUBSET Variables : s \in g[IF VarOf(n) \in s THEN bddnodes[n].high ELSE bddnodes[n].low]}
        BY <2>2
      <3>5. QED
        BY <3>3, <3>4 DEF Branch
    <2>3. QED
      BY <2>1, <2>2
  <1>3. ASSUME NEW g PROVE Right(g) <=> g = [n \in Slots(bddnodes) |-> Sets(g, n)]
    OBVIOUS
  <1> HIDE DEF w, Sets, Right
  <1>4. PICK f : Meaning(bddnodes, w, f) /\ f = [n \in Slots(bddnodes) |-> ValueAt(bddnodes, w, f, n)]
    BY MeaningExists
  <1>5. Right(f)
    <2>1. \A n \in Slots(bddnodes) : f[n] = Sets(f, n)
      BY <1>2, <1>4
    <2>2. f = [n \in Slots(bddnodes) |-> Sets(f, n)]
      BY <1>4, <2>1
    <2>3. QED
      BY <1>3, <2>2
  <1>6. Function = CHOOSE g : Right(g)
    BY DEF Function, Right
  <1>7. Right(Function)
    BY <1>5, <1>6
  <1>8. Function = [n \in Slots(bddnodes) |-> Sets(Function, n)]
    BY <1>3, <1>7
  <1>9. \A n \in Slots(bddnodes) : Function[n] = ValueAt(bddnodes, w, Function, n)
    BY <1>2, <1>8
  <1>10. ASSUME NEW n \in Slots(bddnodes) PROVE Function[n] \in Functions
    BY <1>9 DEF ValueAt, Branch, Functions
  <1>11. 0 \in Slots(bddnodes) /\ 1 \in Slots(bddnodes)
    BY <1>1 DEF Facts
  <1>12. \A n \in Live(bddnodes) : n \in Slots(bddnodes) /\ ~(n < 2) /\ bddnodes[n].low # -1
    BY <1>1 DEF Facts
  <1>13. Function[0] = {} /\ Function[1] = SUBSET Variables
    <2>1. Function[0] = ValueAt(bddnodes, w, Function, 0) /\ Function[1] = ValueAt(bddnodes, w, Function, 1)
      BY <1>9, <1>11
    <2>2. QED
      BY <2>1 DEF ValueAt
  <1>14. \A n \in Live(bddnodes) : Function[n] = Branch(w[n], Function[bddnodes[n].low], Function[bddnodes[n].high])
    BY <1>9, <1>12 DEF ValueAt
  <1>15. Function \in [Slots(bddnodes) -> Functions]
    BY <1>8, <1>10
  <1>16. Meaning(bddnodes, w, Function)
    BY <1>13, <1>14, <1>15 DEF Meaning
  <1>17. QED
    BY <1>16 DEF w

LEMMA FunctionMeaningNext == FunctionOK'
  BY FunctionMeaning, PTL

\* Nodes whose variables and children stay keep their functions.
LEMMA MeaningKept ==
  ASSUME NEW t, TableOK(t), NEW u, NEW w, NEW x, NEW f, NEW g, Meaning(t, w, f), Meaning(u, x, g),
         Live(t) \subseteq Live(u),
         \A n \in Live(t) : x[n] = w[n] /\ u[n].low = t[n].low /\ u[n].high = t[n].high
  PROVE  \A n \in Known(t) : g[n] = f[n]
  <1> DEFINE P == {n \in Live(t) : g[n] = f[n]}
  <1>1. g[0] = f[0] /\ g[1] = f[1]
    BY DEF Meaning
  <1>2. ASSUME NEW n \in Live(t), {t[n].low, t[n].high} \cap Live(t) \subseteq P PROVE n \in P
    <2>1. ASSUME NEW c \in {t[n].low, t[n].high} PROVE g[c] = f[c]
      <3>1. c \in Known(t)
        BY DEF TableOK, Shape
      <3>2. QED
        BY <1>1, <1>2, <3>1 DEF Known
    <2>2. g[n] = Branch(x[n], g[u[n].low], g[u[n].high]) /\ f[n] = Branch(w[n], f[t[n].low], f[t[n].high])
      BY DEF Meaning
    <2>3. g[t[n].low] = f[t[n].low] /\ g[t[n].high] = f[t[n].high]
      BY <2>1
    <2>4. QED
      BY <2>2, <2>3
  <1>3. Live(t) \subseteq P
    <2> HIDE DEF P
    <2>1. QED
      BY <1>2, GraphInduction
  <1>4. QED
    BY <1>1, <1>3 DEF Known

----------------------------------------------------------------------------
\* Counts and claims.

Decreased(counts, n) == IF counts[n] \in 1..(MaxRef - 1) THEN [counts EXCEPT ![n] = @ - 1] ELSE counts

LEMMA OneMore ==
  ASSUME NEW S, IsFiniteSet(S), NEW x
  PROVE  Cardinality(S) \in Nat /\ Cardinality(S \cup {x}) \in Nat /\ Cardinality(S \cup {x}) <= Cardinality(S) + 1
  <1>1. Cardinality(S) \in Nat
    BY FS_CardinalityType
  <1>2. Cardinality(S \cup {x}) = IF x \in S THEN Cardinality(S) ELSE Cardinality(S) + 1
    BY FS_AddElement
  <1>3. QED
    BY <1>1, <1>2

LEMMA OneLess ==
  ASSUME NEW S, IsFiniteSet(S), NEW x \in S
  PROVE  Cardinality(S) \in Nat /\ Cardinality(S \ {x}) \in Nat /\ Cardinality(S \ {x}) = Cardinality(S) - 1
  <1>1. Cardinality(S) \in Nat /\ Cardinality(S \ {x}) \in Nat
    BY FS_CardinalityType, FS_RemoveElement
  <1>2. Cardinality(S \ {x}) = IF x \in S THEN Cardinality(S) - 1 ELSE Cardinality(S)
    BY FS_RemoveElement
  <1>3. QED
    BY <1>1, <1>2

LEMMA ClaimedFinite ==
  ASSUME NEW C, IsFiniteSet(C), NEW n
  PROVE  IsFiniteSet(Claimed(C, n)) /\ Cardinality(Claimed(C, n)) \in Nat
  <1>1. Claimed(C, n) \subseteq C
    BY DEF Claimed
  <1>2. QED
    BY <1>1, FS_Subset, FS_CardinalityType

LEMMA ClaimsFewer ==
  ASSUME NEW D, NEW L \in SUBSET D, NEW counts \in [D -> 0..MaxRef], NEW C, NEW counts2, NEW C2, Backed(L, counts, C),
         NEW L2 \in SUBSET L, C2 \subseteq C, \A n \in L2 : counts2[n] \in counts[n]..MaxRef
  PROVE  Backed(L2, counts2, C2)
  <1>1. IsFiniteSet(C) /\ IsFiniteSet(C2)
    BY FS_Subset DEF Backed
  <1>2. ASSUME NEW n \in L2 PROVE counts2[n] = MaxRef \/ Cardinality(Claimed(C2, n)) <= counts2[n]
    <2>1. Claimed(C2, n) \subseteq Claimed(C, n)
      BY DEF Claimed
    <2>2. Cardinality(Claimed(C2, n)) <= Cardinality(Claimed(C, n))
      BY <1>1, <2>1, ClaimedFinite, FS_Subset
    <2>3. Cardinality(Claimed(C2, n)) \in Nat /\ Cardinality(Claimed(C, n)) \in Nat
      BY <1>1, ClaimedFinite
    <2>4. counts[n] = MaxRef \/ Cardinality(Claimed(C, n)) <= counts[n]
      BY DEF Backed
    <2>5. counts[n] \in 0..MaxRef /\ counts2[n] \in counts[n]..MaxRef
      OBVIOUS
    <2>6. QED
      BY <2>2, <2>3, <2>4, <2>5, BoundsAssumption
  <1>3. QED
    BY <1>1, <1>2 DEF Backed

LEMMA ClaimAdded ==
  ASSUME NEW D, NEW L \in SUBSET D, NEW counts \in [D -> 0..MaxRef], NEW C, Backed(L, counts, C),
         NEW k, k[3] \in D
  PROVE  /\ Increased(counts, k[3]) \in [D -> 0..MaxRef]
         /\ \A n \in D : Increased(counts, k[3])[n] \in counts[n]..MaxRef
         /\ Increased(counts, k[3])[k[3]] > 0
         /\ Backed(L, Increased(counts, k[3]), C \cup {k})
  <1> DEFINE x == k[3]
             new == Increased(counts, x)
  <1>1. \A n \in D : counts[n] \in 0..MaxRef
    OBVIOUS
  <1>2. CASE counts[x] < MaxRef
    <2>1. new = [counts EXCEPT ![x] = counts[x] + 1]
      BY <1>2 DEF Increased
    <2>2. counts[x] + 1 \in 0..MaxRef
      BY <1>1, <1>2, BoundsAssumption
    <2> HIDE DEF new
    <2>3. new \in [D -> 0..MaxRef] /\ new[x] = counts[x] + 1 /\ \A n \in D : n # x => new[n] = counts[n]
      BY <2>1, <2>2
    <2>4. \A n \in D : new[n] \in counts[n]..MaxRef
      BY <1>1, <2>2, <2>3, BoundsAssumption
    <2>5. IsFiniteSet(C) /\ IsFiniteSet(C \cup {k})
      BY FS_AddElement DEF Backed
    <2>6. ASSUME NEW n \in L PROVE new[n] = MaxRef \/ Cardinality(Claimed(C \cup {k}, n)) <= new[n]
      <3>1. Cardinality(Claimed(C, n)) \in Nat /\ counts[n] \in 0..MaxRef /\ IsFiniteSet(Claimed(C, n))
        BY <2>5, ClaimedFinite
      <3>2. counts[n] = MaxRef \/ Cardinality(Claimed(C, n)) <= counts[n]
        BY DEF Backed
      <3>3. CASE n = x
        <4>1. Claimed(C \cup {k}, n) = Claimed(C, n) \cup {k}
          BY <3>3 DEF Claimed
        <4>2. Cardinality(Claimed(C \cup {k}, n)) <= Cardinality(Claimed(C, n)) + 1
          BY <3>1, <4>1, OneMore
        <4>3. Cardinality(Claimed(C \cup {k}, n)) \in Nat
          BY <2>5, ClaimedFinite
        <4>4. QED
          BY <1>2, <2>3, <3>1, <3>2, <3>3, <4>2, <4>3, BoundsAssumption
      <3>4. CASE n # x
        <4>1. Claimed(C \cup {k}, n) = Claimed(C, n)
          BY <3>4 DEF Claimed
        <4>2. new[n] = counts[n]
          BY <2>3, <3>4
        <4>3. QED
          BY <3>2, <4>1, <4>2
      <3>5. QED
        BY <3>3, <3>4
    <2>7. Backed(L, new, C \cup {k})
      BY <2>5, <2>6 DEF Backed
    <2>8. new[x] > 0
      BY <1>1, <2>3
    <2>9. QED
      BY <2>3, <2>4, <2>7, <2>8 DEF new
  <1>3. CASE ~(counts[x] < MaxRef)
    <2>1. new = counts /\ counts[x] = MaxRef
      BY <1>1, <1>3, BoundsAssumption DEF Increased
    <2>2. IsFiniteSet(C) /\ IsFiniteSet(C \cup {k})
      BY FS_AddElement DEF Backed
    <2>3. ASSUME NEW n \in L, counts[n] # MaxRef PROVE Cardinality(Claimed(C \cup {k}, n)) <= counts[n]
      <3>1. Claimed(C \cup {k}, n) = Claimed(C, n)
        BY <2>1, <2>3 DEF Claimed
      <3>2. QED
        BY <2>3, <3>1 DEF Backed
    <2>4. Backed(L, counts, C \cup {k})
      BY <2>2, <2>3 DEF Backed
    <2>5. \A n \in D : counts[n] \in counts[n]..MaxRef
      BY <1>1, BoundsAssumption
    <2>6. counts[x] > 0
      BY <2>1, BoundsAssumption
    <2>7. QED
      BY <2>1, <2>4, <2>5, <2>6
  <1>4. QED
    BY <1>2, <1>3

LEMMA ClaimedPositive ==
  ASSUME NEW D, NEW L \in SUBSET D, NEW counts \in [D -> 0..MaxRef], NEW C, Backed(L, counts, C), NEW k \in C, k[3] \in L
  PROVE  counts[k[3]] > 0
  <1>1. IsFiniteSet(Claimed(C, k[3])) /\ k \in Claimed(C, k[3])
    BY ClaimedFinite DEF Backed, Claimed
  <1>2. Cardinality(Claimed(C, k[3])) \in Nat /\ Cardinality(Claimed(C, k[3])) # 0
    BY <1>1, FS_EmptySet, FS_CardinalityType
  <1>3. counts[k[3]] = MaxRef \/ Cardinality(Claimed(C, k[3])) <= counts[k[3]]
    BY DEF Backed
  <1>4. counts[k[3]] \in 0..MaxRef
    OBVIOUS
  <1>5. QED
    BY <1>2, <1>3, <1>4, BoundsAssumption

LEMMA ClaimDropped ==
  ASSUME NEW D, NEW L \in SUBSET D, NEW counts \in [D -> 0..MaxRef], NEW C, Backed(L, counts, C),
         NEW k \in C, k[3] \in D
  PROVE  /\ Decreased(counts, k[3]) \in [D -> 0..MaxRef]
         /\ \A n \in D : Decreased(counts, k[3])[n] <= counts[n]
         /\ Backed(L, Decreased(counts, k[3]), C \ {k})
  <1> DEFINE x == k[3]
             new == Decreased(counts, x)
  <1>1. \A n \in D : counts[n] \in 0..MaxRef /\ counts[n] <= counts[n]
    OBVIOUS
  <1>2. IsFiniteSet(C) /\ IsFiniteSet(C \ {k})
    BY FS_RemoveElement DEF Backed
  <1>3. CASE counts[x] \in 1..(MaxRef - 1)
    <2>1. new = [counts EXCEPT ![x] = counts[x] - 1]
      BY <1>3 DEF Decreased
    <2>2. counts[x] - 1 \in 0..MaxRef
      BY <1>3, BoundsAssumption
    <2> HIDE DEF new
    <2>3. new \in [D -> 0..MaxRef] /\ new[x] = counts[x] - 1 /\ \A n \in D : n # x => new[n] = counts[n]
      BY <2>1, <2>2
    <2>4. \A n \in D : new[n] <= counts[n]
      BY <1>1, <2>2, <2>3
    <2>5. ASSUME NEW n \in L PROVE new[n] = MaxRef \/ Cardinality(Claimed(C \ {k}, n)) <= new[n]
      <3>1. Cardinality(Claimed(C, n)) \in Nat /\ counts[n] \in 0..MaxRef /\ IsFiniteSet(Claimed(C, n))
        BY <1>2, ClaimedFinite
      <3>2. counts[n] = MaxRef \/ Cardinality(Claimed(C, n)) <= counts[n]
        BY DEF Backed
      <3>3. CASE n = x
        <4>1. Claimed(C \ {k}, n) = Claimed(C, n) \ {k} /\ k \in Claimed(C, n)
          BY <3>3 DEF Claimed
        <4>2. Cardinality(Claimed(C \ {k}, n)) = Cardinality(Claimed(C, n)) - 1
          BY <3>1, <4>1, OneLess
        <4>3. QED
          BY <1>3, <2>3, <3>1, <3>2, <3>3, <4>2, BoundsAssumption
      <3>4. CASE n # x
        <4>1. Claimed(C \ {k}, n) = Claimed(C, n)
          BY <3>4 DEF Claimed
        <4>2. new[n] = counts[n]
          BY <2>3, <3>4
        <4>3. QED
          BY <3>2, <4>1, <4>2
      <3>5. QED
        BY <3>3, <3>4
    <2>6. Backed(L, new, C \ {k})
      BY <1>2, <2>5 DEF Backed
    <2>7. QED
      BY <2>3, <2>4, <2>6 DEF new
  <1>4. CASE counts[x] \notin 1..(MaxRef - 1)
    <2>1. new = counts
      BY <1>4 DEF Decreased
    <2>2. ASSUME NEW n \in L, counts[n] # MaxRef PROVE Cardinality(Claimed(C \ {k}, n)) <= counts[n]
      <3>1. Cardinality(Claimed(C \ {k}, n)) <= Cardinality(Claimed(C, n))
        <4>1. Claimed(C \ {k}, n) \subseteq Claimed(C, n)
          BY DEF Claimed
        <4>2. QED
          BY <1>2, <4>1, ClaimedFinite, FS_Subset
      <3>2. Cardinality(Claimed(C, n)) <= counts[n]
        BY <2>2 DEF Backed
      <3>3. /\ Cardinality(Claimed(C, n)) \in Nat /\ Cardinality(Claimed(C \ {k}, n)) \in Nat
            /\ counts[n] \in 0..MaxRef
        BY <1>2, ClaimedFinite
      <3>4. QED
        BY <3>1, <3>2, <3>3, BoundsAssumption
    <2>3. Backed(L, counts, C \ {k})
      BY <1>2, <2>2 DEF Backed
    <2>4. QED
      BY <1>1, <2>1, <2>3
  <1>5. QED
    BY <1>3, <1>4

LEMMA ClaimRenamed ==
  ASSUME NEW D, NEW L \in SUBSET D, NEW counts \in [D -> 0..MaxRef], NEW C, Backed(L, counts, C), NEW k \in C, NEW j, j[3] = k[3]
  PROVE  Backed(L, counts, (C \ {k}) \cup {j})
  <1>1. IsFiniteSet(C) /\ IsFiniteSet(C \ {k}) /\ IsFiniteSet((C \ {k}) \cup {j})
    BY FS_RemoveElement, FS_AddElement DEF Backed
  <1>2. ASSUME NEW n \in L, counts[n] # MaxRef
        PROVE  Cardinality(Claimed((C \ {k}) \cup {j}, n)) <= counts[n]
    <2>1. /\ Cardinality(Claimed(C, n)) \in Nat /\ counts[n] \in 0..MaxRef /\ IsFiniteSet(Claimed(C, n))
          /\ Cardinality(Claimed((C \ {k}) \cup {j}, n)) \in Nat
          /\ IsFiniteSet(Claimed(C \ {k}, n)) /\ Cardinality(Claimed(C \ {k}, n)) \in Nat
      BY <1>1, ClaimedFinite
    <2>2. Cardinality(Claimed(C, n)) <= counts[n]
      BY <1>2 DEF Backed
    <2>3. CASE n = k[3]
      <3>1. /\ k \in Claimed(C, n) /\ Claimed(C \ {k}, n) = Claimed(C, n) \ {k}
            /\ Claimed((C \ {k}) \cup {j}, n) = Claimed(C \ {k}, n) \cup {j}
        BY <2>3 DEF Claimed
      <3>2. Cardinality(Claimed(C \ {k}, n)) = Cardinality(Claimed(C, n)) - 1
        BY <2>1, <3>1, OneLess
      <3>3. Cardinality(Claimed((C \ {k}) \cup {j}, n)) <= Cardinality(Claimed(C \ {k}, n)) + 1
        BY <2>1, <3>1, OneMore
      <3>4. QED
        BY <2>1, <2>2, <3>2, <3>3, BoundsAssumption
    <2>4. CASE n # k[3]
      <3>1. Claimed((C \ {k}) \cup {j}, n) = Claimed(C, n)
        BY <2>4 DEF Claimed
      <3>2. QED
        BY <2>2, <3>1
    <2>5. QED
      BY <2>3, <2>4
  <1>3. QED
    BY <1>1, <1>2 DEF Backed

----------------------------------------------------------------------------
\* reorder_init: the counts it makes back the references of all nodes with a
\* count.  C are the references counted so far, U nodes whose children are
\* still to be.

MarkOK(s, C, U) ==
  /\ s \in Marking /\ Backed(Live(bddnodes), s.refcou, C)
  /\ \A n \in Live(bddnodes) \ U : s.refcou[n] > 0 =>
       <<n, "low", bddnodes[n].low>> \in C /\ <<n, "high", bddnodes[n].high>> \in C
Rises(s, s2) == \A n \in Slots(bddnodes) : s2.refcou[n] >= s.refcou[n]
Counted(s, s2, C, U) == \E C2 : C \subseteq C2 /\ MarkOK(s2, C2, U) /\ Rises(s, s2)

\* addref_rec on an inner node, when low and high do it on its children.
Addref(r, s, low, high) ==
  IF s.refcou[r] = 0
  THEN LET met == [s EXCEPT !.nodenum[VarAt(r)] = @ + 1, !.dep = @ \cup {VarAt(r)}]
           below == high[low[met]]
       IN  [below EXCEPT !.refcou = Increased(@, r)]
  ELSE [s EXCEPT !.refcou = Increased(@, r),
                 !.dep = @ \cup {m \in Variables : <<VarAt(r), m>> \in s.iact}]

LEMMA MarkingFields ==
  ASSUME NEW s \in Marking
  PROVE  /\ s.refcou \in [Slots(bddnodes) -> 0..MaxRef] /\ s.nodenum \in [Variables -> Nat]
         /\ s.dep \in SUBSET Variables /\ s.iact \in SUBSET (Variables \X Variables)
         /\ \A num \in [Variables -> Nat] :
              [s EXCEPT !.nodenum = num] \in Marking /\ [s EXCEPT !.nodenum = num].refcou = s.refcou
              /\ [s EXCEPT !.nodenum = num].dep = s.dep
         /\ \A d \in SUBSET Variables :
              [s EXCEPT !.dep = d] \in Marking /\ [s EXCEPT !.dep = d].refcou = s.refcou
              /\ [s EXCEPT !.dep = d].nodenum = s.nodenum
         /\ \A c \in [Slots(bddnodes) -> 0..MaxRef] :
              [s EXCEPT !.refcou = c] \in Marking /\ [s EXCEPT !.refcou = c].refcou = c
              /\ [s EXCEPT !.refcou = c].dep = s.dep
         /\ \A i \in SUBSET (Variables \X Variables) :
              [s EXCEPT !.iact = i] \in Marking /\ [s EXCEPT !.iact = i].refcou = s.refcou
  <1>1. /\ s.refcou \in [Slots(bddnodes) -> 0..MaxRef] /\ s.nodenum \in [Variables -> Nat]
        /\ s.dep \in SUBSET Variables /\ s.iact \in SUBSET (Variables \X Variables)
    BY DEF Marking
  <1>2. ASSUME NEW num \in [Variables -> Nat]
        PROVE  [s EXCEPT !.nodenum = num] \in Marking /\ [s EXCEPT !.nodenum = num].refcou = s.refcou
               /\ [s EXCEPT !.nodenum = num].dep = s.dep
    BY DEF Marking
  <1>3. ASSUME NEW d \in SUBSET Variables
        PROVE  [s EXCEPT !.dep = d] \in Marking /\ [s EXCEPT !.dep = d].refcou = s.refcou
               /\ [s EXCEPT !.dep = d].nodenum = s.nodenum
    BY DEF Marking
  <1>4. ASSUME NEW c \in [Slots(bddnodes) -> 0..MaxRef]
        PROVE  [s EXCEPT !.refcou = c] \in Marking /\ [s EXCEPT !.refcou = c].refcou = c
               /\ [s EXCEPT !.refcou = c].dep = s.dep
    BY DEF Marking
  <1>5. ASSUME NEW i \in SUBSET (Variables \X Variables)
        PROVE  [s EXCEPT !.iact = i] \in Marking /\ [s EXCEPT !.iact = i].refcou = s.refcou
    BY DEF Marking
  <1>6. QED
    BY <1>1, <1>2, <1>3, <1>4, <1>5

LEMMA MarkingSteps ==
  ASSUME NEW s \in Marking
  PROVE  /\ s.refcou \in [Slots(bddnodes) -> 0..MaxRef] /\ s.dep \subseteq Variables
         /\ \A v \in Variables :
              LET met == [s EXCEPT !.nodenum[v] = @ + 1, !.dep = @ \cup {v}]
                  start == [s EXCEPT !.dep = {v}, !.nodenum[v] = @ + 1]
              IN  met \in Marking /\ met.refcou = s.refcou /\ start \in Marking /\ start.refcou = s.refcou
         /\ \A counts \in [Slots(bddnodes) -> 0..MaxRef], dep \in SUBSET Variables :
              LET more == [s EXCEPT !.refcou = counts, !.dep = @ \cup dep]
              IN  more \in Marking /\ more.refcou = counts
         /\ \A counts \in [Slots(bddnodes) -> 0..MaxRef] :
              LET more == [s EXCEPT !.refcou = counts]
              IN  more \in Marking /\ more.refcou = counts
         /\ LET more == [s EXCEPT !.iact = @ \cup (s.dep \X s.dep)]
            IN  more \in Marking /\ more.refcou = s.refcou
  <1>1. /\ s.refcou \in [Slots(bddnodes) -> 0..MaxRef] /\ s.nodenum \in [Variables -> Nat]
        /\ s.dep \in SUBSET Variables /\ s.iact \in SUBSET (Variables \X Variables)
    BY MarkingFields
  <1>2. ASSUME NEW v \in Variables
        PROVE  LET met == [s EXCEPT !.nodenum[v] = @ + 1, !.dep = @ \cup {v}]
                   start == [s EXCEPT !.dep = {v}, !.nodenum[v] = @ + 1]
               IN  met \in Marking /\ met.refcou = s.refcou /\ start \in Marking /\ start.refcou = s.refcou
    <2> DEFINE num == [s.nodenum EXCEPT ![v] = s.nodenum[v] + 1]
               d == s.dep \cup {v}
               s1 == [s EXCEPT !.nodenum = num]
               s2 == [s EXCEPT !.dep = {v}]
    <2>1. num \in [Variables -> Nat] /\ d \in SUBSET Variables /\ {v} \in SUBSET Variables
      BY <1>1
    <2>2. [s EXCEPT !.nodenum[v] = @ + 1, !.dep = @ \cup {v}] = [s1 EXCEPT !.dep = d]
      OBVIOUS
    <2>3. s2.nodenum = s.nodenum /\ s2 \in Marking /\ s2.refcou = s.refcou
      <3> HIDE DEF num, d
      <3>1. QED
        BY <2>1, MarkingFields
    <2>4. [s EXCEPT !.dep = {v}, !.nodenum[v] = @ + 1] = [s2 EXCEPT !.nodenum = num]
      BY <2>3
    <2> HIDE DEF num, d
    <2>5. s1 \in Marking /\ s1.refcou = s.refcou
      BY <2>1, MarkingFields
    <2> HIDE DEF s1, s2
    <2>6. [s1 EXCEPT !.dep = d] \in Marking /\ [s1 EXCEPT !.dep = d].refcou = s.refcou
      BY <2>1, <2>5, MarkingFields
    <2>7. [s2 EXCEPT !.nodenum = num] \in Marking /\ [s2 EXCEPT !.nodenum = num].refcou = s.refcou
      BY <2>1, <2>3, MarkingFields
    <2>8. QED
      BY <2>2, <2>4, <2>6, <2>7
  <1>3. ASSUME NEW c \in [Slots(bddnodes) -> 0..MaxRef], NEW dep \in SUBSET Variables
        PROVE  LET more == [s EXCEPT !.refcou = c, !.dep = @ \cup dep]
               IN  more \in Marking /\ more.refcou = c
    <2> DEFINE d == s.dep \cup dep
               s1 == [s EXCEPT !.refcou = c]
    <2>1. d \in SUBSET Variables
      BY <1>1
    <2>2. [s EXCEPT !.refcou = c, !.dep = @ \cup dep] = [s1 EXCEPT !.dep = d]
      OBVIOUS
    <2> HIDE DEF d
    <2>3. s1 \in Marking /\ s1.refcou = c
      BY MarkingFields
    <2> HIDE DEF s1
    <2>4. [s1 EXCEPT !.dep = d] \in Marking /\ [s1 EXCEPT !.dep = d].refcou = c
      BY <2>1, <2>3, MarkingFields
    <2>5. QED
      BY <2>2, <2>4
  <1>4. ASSUME NEW c \in [Slots(bddnodes) -> 0..MaxRef]
        PROVE  LET more == [s EXCEPT !.refcou = c] IN more \in Marking /\ more.refcou = c
    BY MarkingFields
  <1>5. LET more == [s EXCEPT !.iact = @ \cup (s.dep \X s.dep)]
        IN  more \in Marking /\ more.refcou = s.refcou
    <2>1. s.iact \cup (s.dep \X s.dep) \in SUBSET (Variables \X Variables)
      BY <1>1
    <2>2. QED
      BY <2>1, MarkingFields
  <1>6. QED
    BY <1>1, <1>2, <1>3, <1>4, <1>5

LEMMA CountType ==
  ASSUME NEW s \in Marking PROVE \A n \in Slots(bddnodes) : s.refcou[n] \in 0..MaxRef
  BY MarkingSteps

LEMMA MarkingMore ==
  ASSUME NEW s \in Marking, NEW counts \in [Slots(bddnodes) -> 0..MaxRef], NEW dep \in SUBSET Variables
  PROVE  [s EXCEPT !.refcou = counts, !.dep = @ \cup dep].refcou = counts
  <1> DEFINE d == s.dep \cup dep
             s1 == [s EXCEPT !.refcou = counts]
  <1>1. s1 \in Marking /\ s1.refcou = counts /\ d \in SUBSET Variables
    BY MarkingFields
  <1>2. [s EXCEPT !.refcou = counts, !.dep = @ \cup dep] = [s1 EXCEPT !.dep = d]
    OBVIOUS
  <1> HIDE DEF d, s1
  <1>3. [s1 EXCEPT !.dep = d].refcou = counts
    BY <1>1, MarkingFields
  <1>4. QED
    BY <1>2, <1>3

LEMMA IncreasedType ==
  ASSUME NEW counts \in [Slots(bddnodes) -> 0..MaxRef], NEW n \in Slots(bddnodes)
  PROVE  Increased(counts, n) \in [Slots(bddnodes) -> 0..MaxRef]
  <1>1. counts[n] \in 0..MaxRef
    OBVIOUS
  <1>2. CASE counts[n] < MaxRef
    <2>1. counts[n] + 1 \in 0..MaxRef
      BY <1>1, <1>2, BoundsAssumption
    <2>2. QED
      BY <1>2, <2>1 DEF Increased
  <1>3. QED
    BY <1>2 DEF Increased

\* A node in the table, its variable and its children.
LEMMA NodeFacts ==
  ASSUME TableOK(bddnodes), Permutation(bddlevel2var), NEW n \in Live(bddnodes)
  PROVE  /\ n \in Slots(bddnodes) /\ n \in Known(bddnodes) /\ n \in Nat /\ ~(n < 2) /\ VarAt(n) \in Variables
         /\ bddnodes[n].low \in Known(bddnodes) /\ bddnodes[n].high \in Known(bddnodes)
  <1>1. Facts(bddnodes)
    BY TableFacts DEF TableOK
  <1>2. VarAt(n) \in Variables
    BY DEF TableOK, Shape, VarAt, Permutation
  <1>3. n \in Slots(bddnodes) /\ n \in Nat /\ ~(n < 2)
    BY <1>1 DEF Facts
  <1>4. QED
    BY <1>2, <1>3 DEF TableOK, Shape, Known

LEMMA AddrefType ==
  ASSUME TableOK(bddnodes), Permutation(bddlevel2var), NEW r \in Live(bddnodes), NEW s \in Marking,
         NEW low \in [Marking -> Marking], NEW high \in [Marking -> Marking]
  PROVE  Addref(r, s, low, high) \in Marking
  <1>1. r \in Slots(bddnodes) /\ VarAt(r) \in Variables
    BY NodeFacts
  <1>2. CASE s.refcou[r] = 0
    <2> DEFINE met == [s EXCEPT !.nodenum[VarAt(r)] = @ + 1, !.dep = @ \cup {VarAt(r)}]
               below == high[low[met]]
    <2>1. met \in Marking
      BY <1>1, MarkingSteps
    <2> HIDE DEF met
    <2>2. below \in Marking
      BY <2>1
    <2> HIDE DEF below
    <2>3. Increased(below.refcou, r) \in [Slots(bddnodes) -> 0..MaxRef]
      BY <1>1, <2>2, MarkingSteps, IncreasedType
    <2>4. [below EXCEPT !.refcou = Increased(below.refcou, r)] \in Marking
      BY <2>2, <2>3, MarkingSteps
    <2>5. QED
      BY <1>2, <2>4 DEF Addref, below, met
  <1>3. CASE s.refcou[r] # 0
    <2> DEFINE met == {m \in Variables : <<VarAt(r), m>> \in s.iact}
    <2>1. Increased(s.refcou, r) \in [Slots(bddnodes) -> 0..MaxRef]
      BY <1>1, MarkingSteps, IncreasedType
    <2>2. met \in SUBSET Variables
      OBVIOUS
    <2> HIDE DEF met
    <2>3. [s EXCEPT !.refcou = Increased(s.refcou, r), !.dep = @ \cup met] \in Marking
      BY <2>1, <2>2, MarkingSteps
    <2>4. QED
      BY <1>3, <2>3 DEF Addref, met
  <1>4. QED
    BY <1>2, <1>3

LEMMA AddrefRec ==
  ASSUME TableOK(bddnodes), Permutation(bddlevel2var)
  PROVE  /\ addref_rec \in [Known(bddnodes) -> [Marking -> Marking]]
         /\ \A r \in Known(bddnodes) \ Live(bddnodes), s \in Marking : addref_rec[r][s] = s
         /\ \A r \in Live(bddnodes), s \in Marking :
              addref_rec[r][s] = Addref(r, s, addref_rec[bddnodes[r].low], addref_rec[bddnodes[r].high])
  <1> DEFINE X == Known(bddnodes)
             V == [Marking -> Marking]
             b == [r \in X |-> [s \in Marking |-> s]]
             G == [x \in Live(bddnodes) \X V \X V |-> [s \in Marking |-> Addref(x[1], s, x[2], x[3])]]
             Eq(f, r, s) ==
               IF r < 2 THEN s
               ELSE IF s.refcou[r] = 0
               THEN LET met == [s EXCEPT !.nodenum[VarAt(r)] = @ + 1, !.dep = @ \cup {VarAt(r)}]
                        below == f[bddnodes[r].high][f[bddnodes[r].low][met]]
                    IN  [below EXCEPT !.refcou = Increased(@, r)]
               ELSE [s EXCEPT !.refcou = Increased(@, r),
                              !.dep = @ \cup {m \in Variables : <<VarAt(r), m>> \in s.iact}]
             Right(f) == f = [r \in X |-> [s \in Marking |-> Eq(f, r, s)]]
  <1>1. b \in [X -> V]
    OBVIOUS
  <1>2. G \in [Live(bddnodes) \X V \X V -> V]
    <2>1. ASSUME NEW x \in Live(bddnodes) \X V \X V PROVE [s \in Marking |-> Addref(x[1], s, x[2], x[3])] \in V
      <3>1. x[1] \in Live(bddnodes) /\ x[2] \in V /\ x[3] \in V
        OBVIOUS
      <3>2. \A s \in Marking : Addref(x[1], s, x[2], x[3]) \in Marking
        BY <3>1, AddrefType
      <3>3. QED
        BY <3>2
    <2>2. QED
      BY <2>1
  <1>3. \A n \in Live(bddnodes), x, y \in V : G[<<n, x, y>>] = [s \in Marking |-> Addref(n, s, x, y)]
    OBVIOUS
  <1>4. \A r \in X : b[r] = [s \in Marking |-> s]
    OBVIOUS
  <1> HIDE DEF b, G, V
  <1>5. PICK f \in [X -> V] : Recursion(bddnodes, X, b, G, Live(bddnodes), f)
    BY <1>1, <1>2, GraphRecursion
  <1>6. Facts(bddnodes)
    BY TableFacts DEF TableOK
  <1>7. \A r \in X : (r < 2 <=> r \notin Live(bddnodes))
    BY <1>6 DEF Facts, Known
  <1>8. ASSUME NEW g, NEW r \in Live(bddnodes), NEW s
        PROVE  Eq(g, r, s) = Addref(r, s, g[bddnodes[r].low], g[bddnodes[r].high])
    <2>1. ~(r < 2)
      BY <1>7 DEF Known
    <2>2. QED
      BY <2>1 DEF Addref
  <1>9. ASSUME NEW g, NEW r \in X, r \notin Live(bddnodes), NEW s PROVE Eq(g, r, s) = s
    BY <1>7, <1>9
  <1>10. addref_rec = CHOOSE g : Right(g)
    BY DEF addref_rec
  <1>11. Right(f)
    <2>1. ASSUME NEW r \in X PROVE f[r] = [s \in Marking |-> Eq(f, r, s)]
      <3> HIDE DEF Eq, Right
      <3>1. CASE r \notin Live(bddnodes)
        <4>1. f[r] = [s \in Marking |-> s]
          BY <1>4, <1>5, <3>1 DEF Recursion
        <4>2. \A s \in Marking : Eq(f, r, s) = s
          BY <1>9, <3>1
        <4>3. QED
          BY <4>1, <4>2
      <3>2. CASE r \in Live(bddnodes)
        <4>1. bddnodes[r].low \in X /\ bddnodes[r].high \in X
          BY <3>2, NodeFacts
        <4>2. f[bddnodes[r].low] \in V /\ f[bddnodes[r].high] \in V
          BY <1>5, <4>1
        <4>3. f[r] = G[<<r, f[bddnodes[r].low], f[bddnodes[r].high]>>]
          BY <1>5, <3>2 DEF Recursion
        <4>4. f[r] = [s \in Marking |-> Addref(r, s, f[bddnodes[r].low], f[bddnodes[r].high])]
          BY <1>3, <3>2, <4>2, <4>3
        <4>5. \A s \in Marking : Eq(f, r, s) = Addref(r, s, f[bddnodes[r].low], f[bddnodes[r].high])
          BY <1>8, <3>2
        <4>6. QED
          BY <4>4, <4>5
      <3>3. QED
        BY <3>1, <3>2
    <2> HIDE DEF Eq
    <2>2. QED
      BY <1>5, <2>1
  <1>12. Right(addref_rec)
    <2> HIDE DEF Right
    <2>1. QED
      BY <1>10, <1>11
  <1> HIDE DEF Eq
  <1>13. \A r \in X, s \in Marking : addref_rec[r][s] = Eq(addref_rec, r, s)
    BY <1>12
  <1>14. addref_rec = [r \in X |-> [s \in Marking |-> addref_rec[r][s]]]
    <2> DEFINE a == addref_rec
    <2>1. a = [r \in X |-> [s \in Marking |-> Eq(a, r, s)]] /\ \A r \in X, s \in Marking : a[r][s] = Eq(a, r, s)
      BY <1>12, <1>13
    <2> HIDE DEF a
    <2>2. a = [r \in X |-> [s \in Marking |-> a[r][s]]]
      BY <2>1
    <2>3. QED
      BY <2>2 DEF a
  <1>15. /\ \A r \in X \ Live(bddnodes), s \in Marking : addref_rec[r][s] = s
         /\ \A r \in Live(bddnodes), s \in Marking :
              addref_rec[r][s] = Addref(r, s, addref_rec[bddnodes[r].low], addref_rec[bddnodes[r].high])
    <2>1. ASSUME NEW r \in X \ Live(bddnodes), NEW s \in Marking PROVE addref_rec[r][s] = s
      BY <1>9, <1>13
    <2>2. ASSUME NEW r \in Live(bddnodes), NEW s \in Marking
          PROVE  addref_rec[r][s] = Addref(r, s, addref_rec[bddnodes[r].low], addref_rec[bddnodes[r].high])
      <3>1. addref_rec[r][s] = Eq(addref_rec, r, s)
        BY <1>13 DEF Known
      <3>2. QED
        BY <1>8, <3>1
    <2>3. QED
      BY <2>1, <2>2
  <1>16. addref_rec \in [X -> V]
    <2> DEFINE P == {r \in Live(bddnodes) : addref_rec[r] \in V}
    <2>1. \A r \in X : addref_rec[r] = [s \in Marking |-> addref_rec[r][s]]
      BY <1>14
    <2>2. ASSUME NEW r \in X \ Live(bddnodes) PROVE addref_rec[r] \in V
      BY <1>15, <2>1, <2>2 DEF V
    <2>3. ASSUME NEW r \in Live(bddnodes), {bddnodes[r].low, bddnodes[r].high} \cap Live(bddnodes) \subseteq P
          PROVE  r \in P
      <3>1. bddnodes[r].low \in X /\ bddnodes[r].high \in X /\ r \in X
        BY NodeFacts
      <3>2. addref_rec[bddnodes[r].low] \in V /\ addref_rec[bddnodes[r].high] \in V
        BY <2>2, <2>3, <3>1
      <3>3. \A s \in Marking : addref_rec[r][s] \in Marking
        BY <1>15, <3>2, AddrefType DEF V
      <3>4. addref_rec[r] \in V
        BY <2>1, <3>1, <3>3 DEF V
      <3>5. QED
        BY <3>4
    <2>4. Live(bddnodes) \subseteq P
      <3> HIDE DEF P
      <3>1. QED
        BY <2>3, GraphInduction
    <2>5. \A r \in X : addref_rec[r] \in V
      BY <2>2, <2>4
    <2>6. QED
      BY <1>14, <2>5
  <1>17. QED
    BY <1>15, <1>16 DEF V

LEMMA TerminalClaim ==
  ASSUME NEW s, NEW C, NEW U, MarkOK(s, C, U), NEW k, k[3] \notin Live(bddnodes)
  PROVE  MarkOK(s, C \cup {k}, U)
  <1>1. IsFiniteSet(C \cup {k})
    BY FS_AddElement DEF MarkOK, Backed
  <1>2. \A n \in Live(bddnodes) : Claimed(C \cup {k}, n) = Claimed(C, n)
    BY DEF Claimed
  <1>3. Backed(Live(bddnodes), s.refcou, C \cup {k})
    BY <1>1, <1>2 DEF MarkOK, Backed
  <1>4. QED
    BY <1>3 DEF MarkOK

LEMMA MarkIncreased ==
  ASSUME TableOK(bddnodes), NEW s, NEW C, NEW U, MarkOK(s, C, U), NEW k, k[3] \in Live(bddnodes),
         \/ s.refcou[k[3]] > 0
         \/ <<k[3], "low", bddnodes[k[3]].low>> \in C /\ <<k[3], "high", bddnodes[k[3]].high>> \in C,
         NEW s2 \in Marking, s2.refcou = Increased(s.refcou, k[3])
  PROVE  MarkOK(s2, C \cup {k}, U) /\ Rises(s, s2)
  <1> DEFINE r == k[3]
             D == Slots(bddnodes)
             L == Live(bddnodes)
             new == Increased(s.refcou, r)
  <1>1. Facts(bddnodes)
    BY TableFacts DEF TableOK
  <1>2. L \in SUBSET D /\ r \in D
    BY <1>1 DEF Facts
  <1>3. s.refcou \in [D -> 0..MaxRef] /\ Backed(L, s.refcou, C)
    BY MarkingSteps DEF MarkOK
  <1>4. /\ \A n \in D : new[n] \in s.refcou[n]..MaxRef
        /\ Backed(L, new, C \cup {k})
    BY <1>2, <1>3, ClaimAdded
  <1>5. \A n \in D : n # r => new[n] = s.refcou[n]
    BY <1>3 DEF Increased
  <1>6. \A n \in L \ U : s.refcou[n] > 0 => <<n, "low", bddnodes[n].low>> \in C /\ <<n, "high", bddnodes[n].high>> \in C
    BY DEF MarkOK
  <1>7. Rises(s, s2)
    <2>1. \A n \in D : s.refcou[n] \in 0..MaxRef /\ new[n] \in s.refcou[n]..MaxRef
      BY <1>3, <1>4
    <2> HIDE DEF new
    <2>2. \A n \in D : new[n] >= s.refcou[n]
      BY <2>1, BoundsAssumption
    <2>3. QED
      BY <2>2 DEF Rises, new
  <1>8. ASSUME NEW n \in L \ U, s2.refcou[n] > 0
        PROVE  <<n, "low", bddnodes[n].low>> \in C /\ <<n, "high", bddnodes[n].high>> \in C
    <2>1. CASE n = r
      BY <1>6, <1>8, <2>1
    <2>2. CASE n # r
      BY <1>2, <1>5, <1>6, <1>8, <2>2
    <2>3. QED
      BY <2>1, <2>2
  <1>9. QED
    BY <1>4, <1>7, <1>8 DEF MarkOK

\* A call to addref_rec counts one reference to its node, and the references
\* below it when the node had none.
LEMMA AddrefCounts ==
  ASSUME TableOK(bddnodes), Permutation(bddlevel2var)
  PROVE  \A r \in Known(bddnodes), s \in Marking : \A C, U, k :
           MarkOK(s, C, U) /\ k[3] = r => Counted(s, addref_rec[r][s], C \cup {k}, U)
  <1> DEFINE Works(r) == \A s \in Marking : \A C, U, k :
               MarkOK(s, C, U) /\ k[3] = r => Counted(s, addref_rec[r][s], C \cup {k}, U)
             P == {r \in Live(bddnodes) : Works(r)}
  <1>1. ASSUME NEW s \in Marking PROVE Rises(s, s)
    <2>1. \A n \in Slots(bddnodes) : s.refcou[n] \in 0..MaxRef
      BY MarkingSteps
    <2>2. \A n \in Slots(bddnodes) : s.refcou[n] >= s.refcou[n]
      BY <2>1
    <2>3. QED
      BY <2>2 DEF Rises
  <1>2. ASSUME NEW r \in Known(bddnodes), r \notin Live(bddnodes) PROVE Works(r)
    <2>1. SUFFICES ASSUME NEW s \in Marking, NEW C, NEW U, NEW k, MarkOK(s, C, U), k[3] = r
                   PROVE  Counted(s, addref_rec[r][s], C \cup {k}, U)
      OBVIOUS
    <2>2. MarkOK(s, C \cup {k}, U)
      BY <1>2, <2>1, TerminalClaim
    <2>3. addref_rec[r][s] = s
      BY <1>2, AddrefRec
    <2>4. QED
      BY <1>1, <2>2, <2>3 DEF Counted
  <1>3. ASSUME NEW r \in Live(bddnodes), {bddnodes[r].low, bddnodes[r].high} \cap Live(bddnodes) \subseteq P
        PROVE  Works(r)
    <2>1. SUFFICES ASSUME NEW s \in Marking, NEW C, NEW U, NEW k, MarkOK(s, C, U), k[3] = r
                   PROVE  Counted(s, addref_rec[r][s], C \cup {k}, U)
      OBVIOUS
    <2> DEFINE low == bddnodes[r].low
               high == bddnodes[r].high
               s3 == addref_rec[r][s]
    <2>2. low \in Known(bddnodes) /\ high \in Known(bddnodes) /\ VarAt(r) \in Variables /\ r \in Slots(bddnodes)
          /\ r \in Known(bddnodes)
      BY NodeFacts
    <2>3. Works(low) /\ Works(high)
      BY <1>2, <1>3, <2>2
    <2>4. s3 = Addref(r, s, addref_rec[low], addref_rec[high]) /\ s3 \in Marking
      BY <2>2, AddrefRec
    <2>5. CASE s.refcou[r] = 0
      <3> DEFINE met == [s EXCEPT !.nodenum[VarAt(r)] = @ + 1, !.dep = @ \cup {VarAt(r)}]
                 s1 == addref_rec[low][met]
                 s2 == addref_rec[high][s1]
                 kl == <<r, "low", low>>
                 kh == <<r, "high", high>>
                 U2 == U \cup {r}
      <3>1. met \in Marking /\ met.refcou = s.refcou
        BY <2>2, MarkingSteps
      <3>2. s3 = [s2 EXCEPT !.refcou = Increased(s2.refcou, r)]
        BY <2>4, <2>5 DEF Addref
      <3> HIDE DEF met
      <3>3. MarkOK(met, C, U2)
        BY <2>1, <3>1 DEF MarkOK
      <3>4. kl[3] = low /\ kh[3] = high
        OBVIOUS
      <3> HIDE DEF kl, kh, U2
      <3>5. Counted(met, s1, C \cup {kl}, U2)
        BY <2>3, <3>1, <3>3, <3>4
      <3>6. PICK C1 : C \cup {kl} \subseteq C1 /\ MarkOK(s1, C1, U2) /\ Rises(met, s1)
        BY <3>5 DEF Counted
      <3>7. Counted(s1, s2, C1 \cup {kh}, U2)
        <4>1. s1 \in Marking
          BY <3>6 DEF MarkOK
        <4> HIDE DEF s1
        <4>2. QED
          BY <2>3, <3>4, <3>6, <4>1
      <3>8. PICK C2 : C1 \cup {kh} \subseteq C2 /\ MarkOK(s2, C2, U2) /\ Rises(s1, s2)
        BY <3>7 DEF Counted
      <3>9. s1 \in Marking /\ s2 \in Marking
        BY <3>6, <3>8 DEF MarkOK
      <3> HIDE DEF s1, s2
      <3>10. MarkOK(s2, C2, U)
        <4>1. kl \in C2 /\ kh \in C2
          BY <3>6, <3>8
        <4>2. QED
          BY <3>8, <4>1 DEF MarkOK, U2, kl, kh
      <3>11. s3.refcou = Increased(s2.refcou, r)
        <4>1. s2.refcou \in [Slots(bddnodes) -> 0..MaxRef]
          BY <3>9, MarkingSteps
        <4>2. Increased(s2.refcou, r) \in [Slots(bddnodes) -> 0..MaxRef]
          BY <2>2, <4>1, IncreasedType
        <4> HIDE DEF s3
        <4>3. QED
          BY <3>2, <3>9, <4>2, MarkingSteps
      <3>12. kl \in C2 /\ kh \in C2
        BY <3>6, <3>8
      <3>13. MarkOK(s3, C2 \cup {k}, U) /\ Rises(s2, s3)
        <4> HIDE DEF s3
        <4>1. <<k[3], "low", bddnodes[k[3]].low>> \in C2 /\ <<k[3], "high", bddnodes[k[3]].high>> \in C2
          BY <2>1, <3>12 DEF kl, kh
        <4>2. QED
          BY <2>1, <2>4, <3>10, <3>11, <4>1, MarkIncreased
      <3>14. Rises(s, s3)
        <4>1. /\ s.refcou \in [Slots(bddnodes) -> 0..MaxRef] /\ s1.refcou \in [Slots(bddnodes) -> 0..MaxRef]
              /\ s2.refcou \in [Slots(bddnodes) -> 0..MaxRef] /\ s3.refcou \in [Slots(bddnodes) -> 0..MaxRef]
          BY <2>4, <3>9, MarkingSteps
        <4> HIDE DEF s3
        <4>2. ASSUME NEW n \in Slots(bddnodes) PROVE s3.refcou[n] >= s.refcou[n]
          <5>1. s1.refcou[n] >= s.refcou[n] /\ s2.refcou[n] >= s1.refcou[n] /\ s3.refcou[n] >= s2.refcou[n]
            BY <3>1, <3>6, <3>8, <3>13 DEF Rises
          <5>2. /\ s.refcou[n] \in 0..MaxRef /\ s1.refcou[n] \in 0..MaxRef
                /\ s2.refcou[n] \in 0..MaxRef /\ s3.refcou[n] \in 0..MaxRef
            BY <4>1
          <5>3. QED
            BY <5>1, <5>2, BoundsAssumption
        <4>3. QED
          BY <4>2 DEF Rises
      <3>15. C \cup {k} \subseteq C2 \cup {k}
        BY <3>6, <3>8
      <3>16. QED
        BY <3>13, <3>14, <3>15 DEF Counted
    <2>6. CASE s.refcou[r] # 0
      <3> DEFINE met == {m \in Variables : <<VarAt(r), m>> \in s.iact}
      <3>1. Increased(s.refcou, r) \in [Slots(bddnodes) -> 0..MaxRef] /\ s.refcou[r] \in 0..MaxRef
        BY <2>2, MarkingSteps, IncreasedType
      <3>2. met \in SUBSET Variables
        OBVIOUS
      <3>3. s3 = [s EXCEPT !.refcou = Increased(s.refcou, r), !.dep = @ \cup met]
        BY <2>4, <2>6 DEF Addref
      <3> DEFINE inc == Increased(s.refcou, r)
                 more == [s EXCEPT !.refcou = inc, !.dep = @ \cup met]
      <3> HIDE DEF met, s3
      <3>4. s3.refcou = inc
        <4>1. inc \in [Slots(bddnodes) -> 0..MaxRef]
          BY <3>1
        <4> HIDE DEF inc
        <4>2. more.refcou = inc
          BY <3>2, <4>1, MarkingMore
        <4>3. s3 = more
          BY <3>3 DEF inc
        <4>4. QED
          BY <4>2, <4>3
      <3>5. s.refcou[r] > 0
        BY <2>6, <3>1, BoundsAssumption
      <3>6. MarkOK(s3, C \cup {k}, U) /\ Rises(s, s3)
        <4>1. k[3] \in Live(bddnodes) /\ s.refcou[k[3]] > 0 /\ s3.refcou = Increased(s.refcou, k[3])
          BY <2>1, <3>4, <3>5
        <4>2. MarkOK(s, C, U) /\ s3 \in Marking
          BY <2>1, <2>4
        <4>3. QED
          BY <4>1, <4>2, MarkIncreased
      <3>7. QED
        BY <3>6 DEF Counted, s3
    <2>7. QED
      BY <2>5, <2>6
  <1>4. Live(bddnodes) \subseteq P
    <2>1. ASSUME NEW r \in Live(bddnodes), {bddnodes[r].low, bddnodes[r].high} \cap Live(bddnodes) \subseteq P
          PROVE  r \in P
      <3>1. Works(r)
        BY <1>3, <2>1
      <3>2. QED
        BY <3>1
    <2> HIDE DEF P
    <2>2. QED
      BY <2>1, GraphInduction
  <1>5. \A r \in Known(bddnodes) : Works(r)
    BY <1>2, <1>4
  <1>6. QED
    BY <1>5

LEMMA MarkRootCounts ==
  ASSUME TableOK(bddnodes), Permutation(bddlevel2var), NEW n \in Live(bddnodes), NEW s, NEW C, NEW U,
         MarkOK(s, C, U)
  PROVE  Counted(s, MarkRoot(s, n), C, U \ {n})
  <1> DEFINE low == bddnodes[n].low
             high == bddnodes[n].high
             start == [s EXCEPT !.dep = {VarAt(n)}, !.nodenum[VarAt(n)] = @ + 1]
             s1 == addref_rec[low][start]
             s2 == addref_rec[high][s1]
             s3 == [s2 EXCEPT !.iact = @ \cup (s2.dep \X s2.dep)]
             kl == <<n, "low", low>>
             kh == <<n, "high", high>>
  <1>1. MarkRoot(s, n) = s3
    BY DEF MarkRoot
  <1>2. low \in Known(bddnodes) /\ high \in Known(bddnodes) /\ VarAt(n) \in Variables
    BY NodeFacts
  <1>3. s \in Marking
    BY DEF MarkOK
  <1>4. start \in Marking /\ start.refcou = s.refcou
    BY <1>2, <1>3, MarkingSteps
  <1>5. kl[3] = low /\ kh[3] = high
    OBVIOUS
  <1> HIDE DEF start, kl, kh
  <1>6. MarkOK(start, C, U)
    BY <1>4 DEF MarkOK
  <1>7. Counted(start, s1, C \cup {kl}, U)
    BY <1>2, <1>4, <1>5, <1>6, AddrefCounts
  <1>8. PICK C1 : C \cup {kl} \subseteq C1 /\ MarkOK(s1, C1, U) /\ Rises(start, s1)
    BY <1>7 DEF Counted
  <1>9. s1 \in Marking
    BY <1>8 DEF MarkOK
  <1> HIDE DEF s1
  <1>10. Counted(s1, s2, C1 \cup {kh}, U)
    BY <1>2, <1>5, <1>8, <1>9, AddrefCounts
  <1>11. PICK C2 : C1 \cup {kh} \subseteq C2 /\ MarkOK(s2, C2, U) /\ Rises(s1, s2)
    BY <1>10 DEF Counted
  <1>12. s2 \in Marking
    BY <1>11 DEF MarkOK
  <1> HIDE DEF s2
  <1>13. s3 \in Marking /\ s3.refcou = s2.refcou
    BY <1>12, MarkingSteps
  <1>14. kl \in C2 /\ kh \in C2
    BY <1>8, <1>11
  <1> HIDE DEF s3
  <1>15. MarkOK(s3, C2, U \ {n})
    <2>1. ASSUME NEW m \in Live(bddnodes) \ (U \ {n}), s3.refcou[m] > 0
          PROVE  <<m, "low", bddnodes[m].low>> \in C2 /\ <<m, "high", bddnodes[m].high>> \in C2
      <3>1. CASE m = n
        BY <1>14, <3>1 DEF kl, kh
      <3>2. CASE m # n
        BY <1>11, <1>13, <2>1, <3>2 DEF MarkOK
      <3>3. QED
        BY <3>1, <3>2
    <2>2. QED
      BY <1>11, <1>13, <2>1 DEF MarkOK
  <1>16. Rises(s, s3)
    <2>1. ASSUME NEW m \in Slots(bddnodes) PROVE s3.refcou[m] >= s.refcou[m]
      <3>1. s1.refcou[m] >= s.refcou[m] /\ s2.refcou[m] >= s1.refcou[m] /\ s3.refcou[m] = s2.refcou[m]
        BY <1>4, <1>8, <1>11, <1>13 DEF Rises
      <3>2. s.refcou[m] \in 0..MaxRef /\ s1.refcou[m] \in 0..MaxRef /\ s2.refcou[m] \in 0..MaxRef
        BY <1>3, <1>9, <1>12, MarkingSteps
      <3>3. QED
        BY <3>1, <3>2, BoundsAssumption
    <2>2. QED
      BY <2>1 DEF Rises
  <1>17. QED
    BY <1>1, <1>8, <1>11, <1>15, <1>16 DEF Counted

\* The slots of a table are numbers from 0 on.
LEMMA LastSlot ==
  ASSUME NEW t, Shape(t)
  PROVE  /\ Highest(Slots(t)) \in Nat /\ Highest(Slots(t)) > 0
         /\ Slots(t) = 0..Highest(Slots(t))
  <1>1. PICK size \in Nat : size > 1 /\ t \in [0..(size - 1) -> Node]
    BY DEF Shape
  <1> DEFINE N == size - 1
  <1>2. Slots(t) = 0..N /\ N \in Nat /\ N > 0
    BY <1>1 DEF Slots
  <1>3. Highest(Slots(t)) = N
    <2> HIDE DEF N
    <2>1. N \in Slots(t) /\ \A m \in Slots(t) : m <= N
      BY <1>2
    <2>2. \A n \in Slots(t) : (\A m \in Slots(t) : m <= n) => n = N
      BY <1>2, <2>1
    <2>3. QED
      BY <2>1, <2>2 DEF Highest
  <1>4. QED
    BY <1>2, <1>3

\* The nodes, the counts or the like after a loop over the slots.
Loops(X, V, a, G) == \E f \in [X -> V] : f = [n \in X |-> IF n = 0 THEN a ELSE G[<<n, f[n - 1]>>]]

LEMMA SlotLoop ==
  ASSUME NEW t, Shape(t), NEW V, NEW a \in V, NEW G \in [Slots(t) \X V -> V]
  PROVE  Loops(Slots(t), V, a, G)
  <1> DEFINE N == Highest(Slots(t))
             X == Slots(t)
             H == [x \in (1..N) \X V |-> G[x]]
  <1>1. N \in Nat /\ X = 0..N
    BY LastSlot
  <1> HIDE DEF N, X
  <1>2. H \in [(1..N) \X V -> V]
    <2>1. \A x \in (1..N) \X V : x \in X \X V
      BY <1>1
    <2>2. \A x \in (1..N) \X V : G[x] \in V
      BY <2>1 DEF X
    <2>3. QED
      BY <2>2
  <1>3. \A i \in 1..N, v \in V : H[<<i, v>>] = G[<<i, v>>]
    OBVIOUS
  <1> HIDE DEF H
  <1>4. PICK f \in [0..N -> V] : f[0] = a /\ \A i \in 1..N : f[i] = H[<<i, f[i - 1]>>]
    <2>1. N \in Nat
      BY <1>1
    <2>2. Iterates(N, V, a, H)
      BY <1>2, <2>1, Iteration
    <2>3. QED
      BY <2>2 DEF Iterates
  <1>5. ASSUME NEW i \in 1..N PROVE f[i] = G[<<i, f[i - 1]>>]
    <2>1. i - 1 \in 0..N
      BY <1>1
    <2>2. f[i - 1] \in V
      BY <2>1
    <2>3. QED
      BY <1>3, <1>4, <2>2
  <1>6. \A n \in X : f[n] = IF n = 0 THEN a ELSE G[<<n, f[n - 1]>>]
    BY <1>1, <1>4, <1>5
  <1>7. f = [n \in X |-> IF n = 0 THEN a ELSE G[<<n, f[n - 1]>>]] /\ f \in [X -> V]
    BY <1>1, <1>6
  <1>8. QED
    BY <1>7 DEF Loops, X

LEMMA UpTo ==
  ASSUME NEW N \in Nat, NEW P, 0 \in P, \A i \in 1..N : i - 1 \in P => i \in P
  PROVE  0..N \subseteq P
  <1> DEFINE T == {i \in 0..N : i \notin P}
  <1>1. SUFFICES ASSUME T # {} PROVE FALSE
    OBVIOUS
  <1>2. PICK i \in T : \A j \in T : i <= j
    <2>1. T \in SUBSET Nat
      OBVIOUS
    <2> HIDE DEF T
    <2>2. QED
      BY <1>1, <2>1, LeastNatural
  <1>3. i \in 1..N /\ i \notin P /\ i - 1 \in 0..N
    OBVIOUS
  <1>4. i - 1 \notin T
    BY <1>2, <1>3
  <1>5. QED
    BY <1>3, <1>4

LEMMA MarkRootsCounts ==
  ASSUME TableOK(bddnodes), Permutation(bddlevel2var), NEW roots \in SUBSET Live(bddnodes), NEW s, NEW C,
         MarkOK(s, C, roots)
  PROVE  Counted(s, MarkRoots(s, roots), C, {})
  <1> DEFINE X == Slots(bddnodes)
             N == Highest(X)
             Eq(f, n) == IF n = 0 THEN s ELSE IF n \in roots THEN MarkRoot(f[n - 1], n) ELSE f[n - 1]
             Right(f) == f = [n \in X |-> IF n = 0 THEN s
                                          ELSE IF n \in roots THEN MarkRoot(f[n - 1], n) ELSE f[n - 1]]
             marked == CHOOSE f : Right(f)
             G == [x \in X \X Marking |-> IF x[1] \in roots THEN MarkRoot(x[2], x[1]) ELSE x[2]]
  <1>1. MarkRoots(s, roots) = marked[N]
    BY DEF MarkRoots
  <1>2. N \in Nat /\ X = 0..N /\ Shape(bddnodes)
    BY LastSlot DEF TableOK
  <1>3. s \in Marking
    BY DEF MarkOK
  <1>4. G \in [X \X Marking -> Marking]
    <2>1. ASSUME NEW m \in Marking, NEW n \in roots PROVE MarkRoot(m, n) \in Marking
      <3>1. \A i \in Live(bddnodes) : i \in X
        BY NodeFacts
      <3>2. \A i \in Live(bddnodes) : Cardinality(Claimed({}, i)) <= m.refcou[i]
        <4>1. ASSUME NEW i \in Live(bddnodes) PROVE Claimed({}, i) = {} /\ m.refcou[i] \in 0..MaxRef
          BY <3>1, MarkingSteps DEF Claimed
        <4>2. QED
          BY <4>1, FS_EmptySet
      <3>3. IsFiniteSet({})
        BY FS_EmptySet
      <3>4. MarkOK(m, {}, Live(bddnodes))
        BY <3>2, <3>3 DEF MarkOK, Backed
      <3>5. Counted(m, MarkRoot(m, n), {}, Live(bddnodes) \ {n})
        BY <3>4, MarkRootCounts
      <3>6. QED
        BY <3>5 DEF Counted, MarkOK
    <2>2. ASSUME NEW x \in X \X Marking PROVE (IF x[1] \in roots THEN MarkRoot(x[2], x[1]) ELSE x[2]) \in Marking
      BY <2>1
    <2>3. QED
      BY <2>2
  <1>5. \A n \in X, m \in Marking : G[<<n, m>>] = IF n \in roots THEN MarkRoot(m, n) ELSE m
    OBVIOUS
  <1> HIDE DEF G, N, X
  <1>6. PICK f \in [X -> Marking] : f = [n \in X |-> IF n = 0 THEN s ELSE G[<<n, f[n - 1]>>]]
    <2>1. Loops(X, Marking, s, G)
      BY <1>2, <1>3, <1>4, SlotLoop DEF X
    <2>2. QED
      BY <2>1 DEF Loops
  <1>7. Right(f)
    <2>1. ASSUME NEW n \in X PROVE f[n] = Eq(f, n)
      <3>1. CASE n = 0
        BY <1>6, <3>1
      <3>2. CASE n # 0
        <4>1. n - 1 \in X
          BY <1>2, <3>2
        <4>2. f[n - 1] \in Marking
          BY <4>1
        <4>3. f[n] = G[<<n, f[n - 1]>>]
          BY <1>6, <3>2
        <4>4. QED
          BY <1>5, <3>2, <4>2, <4>3
      <3>3. QED
        BY <3>1, <3>2
    <2> HIDE DEF Eq
    <2>2. f = [n \in X |-> Eq(f, n)]
      BY <2>1
    <2>3. QED
      BY <2>2 DEF Eq
  <1>8. Right(marked)
    <2> HIDE DEF Right
    <2>1. QED
      BY <1>7
  <1> HIDE DEF marked
  <1>9. marked[0] = s /\ \A n \in 1..N : marked[n] = IF n \in roots THEN MarkRoot(marked[n - 1], n) ELSE marked[n - 1]
    BY <1>2, <1>8
  <1> DEFINE P == {i \in 0..N : Counted(s, marked[i], C, roots \ (1..i))}
  <1>10. 0 \in P
    <2>1. roots \ (1..0) = roots
      OBVIOUS
    <2>2. ASSUME NEW n \in X PROVE s.refcou[n] >= s.refcou[n]
      <3>1. s.refcou[n] \in 0..MaxRef
        BY <1>3, MarkingSteps DEF X
      <3>2. QED
        BY <3>1
    <2>3. Rises(s, s)
      BY <2>2 DEF Rises, X
    <2>4. Counted(s, s, C, roots \ (1..0))
      BY <2>1, <2>3 DEF Counted
    <2>5. QED
      BY <1>2, <1>9, <2>4
  <1>11. ASSUME NEW i \in 1..N, i - 1 \in P PROVE i \in P
    <2>1. i \in 0..N /\ i - 1 \in 0..N
      BY <1>2
    <2>2. PICK C1 : C \subseteq C1 /\ MarkOK(marked[i - 1], C1, roots \ (1..(i - 1))) /\ Rises(s, marked[i - 1])
      BY <1>11 DEF Counted
    <2>3. CASE i \notin roots
      <3>1. roots \ (1..i) = roots \ (1..(i - 1))
        <4>1. 1..i = (1..(i - 1)) \cup {i}
          BY <2>1
        <4>2. QED
          BY <2>3, <4>1
      <3>2. marked[i] = marked[i - 1]
        BY <1>9, <2>3
      <3>3. Counted(s, marked[i], C, roots \ (1..i))
        BY <2>2, <3>1, <3>2 DEF Counted
      <3>4. QED
        BY <2>1, <3>3
    <2>4. CASE i \in roots
      <3>1. marked[i] = MarkRoot(marked[i - 1], i)
        BY <1>9, <2>4
      <3>2. Counted(marked[i - 1], MarkRoot(marked[i - 1], i), C1, (roots \ (1..(i - 1))) \ {i})
        BY <2>2, <2>4, MarkRootCounts
      <3>3. (roots \ (1..(i - 1))) \ {i} = roots \ (1..i)
        <4>1. 1..i = (1..(i - 1)) \cup {i}
          BY <2>1
        <4>2. QED
          BY <4>1
      <3>4. PICK C2 : C1 \subseteq C2 /\ MarkOK(marked[i], C2, roots \ (1..i)) /\ Rises(marked[i - 1], marked[i])
        BY <3>1, <3>2, <3>3 DEF Counted
      <3>5. Rises(s, marked[i])
        <4>1. marked[i] \in Marking /\ marked[i - 1] \in Marking
          BY <2>2, <3>4 DEF MarkOK
        <4>2. ASSUME NEW n \in X PROVE marked[i].refcou[n] >= s.refcou[n]
          <5>1. marked[i].refcou[n] >= marked[i - 1].refcou[n] /\ marked[i - 1].refcou[n] >= s.refcou[n]
            BY <2>2, <3>4 DEF Rises, X
          <5>2. marked[i].refcou[n] \in 0..MaxRef /\ marked[i - 1].refcou[n] \in 0..MaxRef /\ s.refcou[n] \in 0..MaxRef
            BY <1>3, <4>1, CountType DEF X
          <5>3. QED
            BY <5>1, <5>2, BoundsAssumption
        <4>3. QED
          BY <4>2 DEF Rises, X
      <3>6. Counted(s, marked[i], C, roots \ (1..i))
        BY <2>2, <3>4, <3>5 DEF Counted
      <3>7. QED
        BY <2>1, <3>6
    <2>5. QED
      BY <2>3, <2>4
  <1>12. 0..N \subseteq P
    <2> HIDE DEF P
    <2>1. N \in Nat
      BY <1>2
    <2>2. QED
      BY <1>10, <1>11, <2>1, UpTo
  <1>13. PICK C2 : C \subseteq C2 /\ MarkOK(marked[N], C2, roots \ (1..N)) /\ Rises(s, marked[N])
    <2>1. N \in 0..N
      BY <1>2
    <2>2. Counted(s, marked[N], C, roots \ (1..N))
      BY <1>12, <2>1
    <2>3. QED
      BY <2>2 DEF Counted
  <1>14. roots \ (1..N) = {}
    <2>1. \A n \in roots : n \in X /\ n # 0
      BY NodeFacts DEF X
    <2>2. QED
      BY <1>2, <2>1
  <1>15. QED
    BY <1>1, <1>13, <1>14 DEF Counted

----------------------------------------------------------------------------
\* Tables with some of the nodes of another.

Keeps(t, u) ==
  /\ Live(u) \subseteq Live(t)
  /\ \A n \in Live(u) : u[n].low = t[n].low /\ u[n].high = t[n].high

LEMMA SubTable ==
  ASSUME NEW t, TableOK(t), NEW u \in [Slots(t) -> Node], u[0].level = VarNum, u[1].level = VarNum, Keeps(t, u),
         \A n \in Live(u) : u[n].level \in Levels /\ t[n].low \in Known(u) /\ t[n].high \in Known(u)
  PROVE  TableOK(u)
  <1>1. Shape(u)
    <2>1. PICK size \in Nat : size > 1 /\ t \in [0..(size - 1) -> Node]
      BY DEF TableOK, Shape
    <2>2. Slots(t) = 0..(size - 1)
      BY <2>1 DEF Slots
    <2>3. \E k \in Nat : k > 1 /\ u \in [0..(k - 1) -> Node]
      BY <2>1, <2>2
    <2>4. \A n \in Live(u) : u[n].level \in Levels /\ u[n].low \in Known(u) /\ u[n].high \in Known(u)
      BY DEF Keeps
    <2>5. QED
      BY <2>3, <2>4 DEF Shape
  <1>2. Acyclic(u)
    <2>1. SUFFICES ASSUME NEW S \in SUBSET Live(u), S # {} PROVE \E n \in S : u[n].low \notin S /\ u[n].high \notin S
      BY DEF Acyclic
    <2>2. PICK n \in S : t[n].low \notin S /\ t[n].high \notin S
      BY <2>1 DEF TableOK, Acyclic, Keeps
    <2>3. QED
      BY <2>2 DEF Keeps
  <1>3. QED
    BY <1>1, <1>2 DEF TableOK

\* The functions of the nodes kept, when their variables are.
LEMMA KeptMeaning ==
  ASSUME NEW t, NEW u, TableOK(u), Keeps(t, u), NEW w, NEW x, \A n \in Live(u) : w[n] = x[n],
         NEW f, NEW g, Meaning(t, w, f), Meaning(u, x, g)
  PROVE  \A n \in Known(u) : g[n] = f[n]
  <1>1. \A n \in Live(u) : w[n] = x[n] /\ t[n].low = u[n].low /\ t[n].high = u[n].high
    BY DEF Keeps
  <1>2. Live(u) \subseteq Live(t)
    BY DEF Keeps
  <1>3. \A n \in Known(u) : f[n] = g[n]
    BY <1>1, <1>2, MeaningKept
  <1>4. QED
    BY <1>3

\* A node that a reference goes to is counted, so the children of nodes with
\* claims are.
LEMMA ChildrenCounted ==
  ASSUME NEW t, Facts(t), NEW C, Backed(Live(t), Counts(t), C), NEW k \in C, k[3] \in Known(t)
  PROVE  k[3] \in Live(t) => t[k[3]].refcou > 0
  <1>1. Counts(t) \in [Slots(t) -> 0..MaxRef] /\ Live(t) \in SUBSET Slots(t)
    BY DEF Facts, Counts
  <1>2. k[3] \in Live(t) => Counts(t)[k[3]] > 0
    BY <1>1, ClaimedPositive
  <1>3. QED
    BY <1>1, <1>2 DEF Counts

LEMMA RootsFinite ==
  ASSUME NEW R, IsFiniteSet(R)
  PROVE  IsFiniteSet(RootsOf(R))
  <1> DEFINE f == [n \in R |-> <<n, "root", n>>]
  <1>1. f \in [R -> RootsOf(R)] /\ \A y \in RootsOf(R) : \E n \in R : f[n] = y
    BY DEF RootsOf
  <1>2. f \in Surjection(R, RootsOf(R))
    BY <1>1 DEF Surjection
  <1>3. QED
    BY <1>2, FS_Surjection

\* The table a session works on, and the client's nodes.
LEMMA SessionStarts ==
  ASSUME TableOK(bddnodes), Permutation(bddlevel2var),
         NEW R, R = {n \in Live(bddnodes) : bddnodes[n].refcou > 0},
         NEW s, s = MarkRoots([refcou |-> [n \in Slots(bddnodes) |-> bddnodes[n].refcou],
                               nodenum |-> [v \in Variables |-> 0], dep |-> {}, iact |-> {}], R),
         NEW u, u = Swept(ByVariable(s.refcou))
  PROVE  /\ SessionOK(u, R) /\ Keeps(bddnodes, u)
         /\ \A n \in Live(u) : u[n].level = VarAt(n)
  <1> DEFINE t == bddnodes
             s0 == [refcou |-> [n \in Slots(t) |-> t[n].refcou],
                    nodenum |-> [v \in Variables |-> 0], dep |-> {}, iact |-> {}]
  <1>1. Facts(t)
    BY TableFacts DEF TableOK
  <1>2. R \subseteq Live(t) /\ IsFiniteSet(R)
    BY <1>1, FS_Subset DEF Facts
  <1>3. s0 \in Marking /\ s0.refcou = [n \in Slots(t) |-> t[n].refcou]
    <2>1. \A n \in Slots(t) : t[n].refcou \in 0..MaxRef
      BY <1>1 DEF Facts
    <2>2. [n \in Slots(t) |-> t[n].refcou] \in [Slots(t) -> 0..MaxRef]
      BY <2>1
    <2>3. QED
      BY <2>2 DEF Marking
  <1>4. MarkOK(s0, RootsOf(R), R)
    <2>1. IsFiniteSet(RootsOf(R))
      BY <1>2, RootsFinite
    <2>2. ASSUME NEW n \in Live(t) PROVE Cardinality(Claimed(RootsOf(R), n)) <= s0.refcou[n]
      <3>1. s0.refcou[n] = t[n].refcou /\ t[n].refcou \in 0..MaxRef
        BY <1>1, <1>3 DEF Facts
      <3>2. CASE n \in R
        <4>1. Claimed(RootsOf(R), n) = {<<n, "root", n>>}
          BY <3>2 DEF Claimed, RootsOf
        <4>2. Cardinality(Claimed(RootsOf(R), n)) = 1
          BY <4>1, FS_Singleton
        <4>3. QED
          BY <3>1, <3>2, <4>2
      <3>3. CASE n \notin R
        <4>1. Claimed(RootsOf(R), n) = {}
          BY <3>3 DEF Claimed, RootsOf
        <4>2. Cardinality(Claimed(RootsOf(R), n)) = 0
          BY <4>1, FS_EmptySet
        <4>3. QED
          BY <3>1, <4>2
      <3>4. QED
        BY <3>2, <3>3
    <2>3. ASSUME NEW n \in Live(t) \ R, s0.refcou[n] > 0 PROVE FALSE
      BY <1>1, <1>3, <2>3 DEF Facts
    <2> HIDE DEF s0
    <2>4. QED
      BY <1>3, <2>1, <2>2, <2>3 DEF MarkOK, Backed
  <1>5. Counted(s0, s, RootsOf(R), {})
    <2>1. s = MarkRoots(s0, R)
      OBVIOUS
    <2> HIDE DEF s0
    <2>2. QED
      BY <1>2, <1>4, <2>1, MarkRootsCounts
  <1> HIDE DEF s0
  <1>6. PICK C : RootsOf(R) \subseteq C /\ MarkOK(s, C, {}) /\ Rises(s0, s)
    BY <1>5 DEF Counted
  <1> DEFINE c == s.refcou
  <1>7. s \in Marking /\ c \in [Slots(t) -> 0..MaxRef] /\ Backed(Live(t), c, C)
    BY <1>6, MarkingSteps DEF MarkOK
  <1> HIDE DEF c
  <1>8. ASSUME NEW n \in Slots(t)
        PROVE  /\ u[n] \in Node /\ u[n].refcou = c[n] /\ u[n].high = t[n].high
               /\ n \in {0, 1} \/ c[n] # 0 => u[n].low = t[n].low
               /\ n \notin {0, 1} /\ c[n] = 0 => u[n].low = -1
               /\ u[n].level = IF n \in Live(t) THEN VarAt(n) ELSE t[n].level
    <2> DEFINE r == [t[n] EXCEPT !.level = IF n \in Live(t) THEN VarAt(n) ELSE @, !.refcou = c[n]]
               lev == IF n \in Live(t) THEN VarAt(n) ELSE t[n].level
    <2>1. ByVariable(c)[n] = r /\ n \in Slots(ByVariable(c))
      BY DEF ByVariable, Slots
    <2>2. t[n] \in Node /\ c[n] \in 0..MaxRef
      BY <1>1, <1>7 DEF Facts
    <2>3. lev \in 0..VarNum
      <3>1. VarNum \in Nat
        BY BoundsAssumption
      <3>2. CASE n \in Live(t)
        <4>1. lev \in Variables
          BY <3>2, NodeFacts
        <4>2. QED
          BY <3>1, <4>1 DEF Variables
      <3>3. CASE n \notin Live(t)
        BY <2>2, <3>3 DEF Node
      <3>4. QED
        BY <3>2, <3>3
    <2>4. r = [t[n] EXCEPT !.level = lev, !.refcou = c[n]]
      OBVIOUS
    <2> HIDE DEF lev
    <2>5. r \in Node /\ r.level = lev /\ r.refcou = c[n] /\ r.low = t[n].low /\ r.high = t[n].high
      BY <2>2, <2>3, <2>4 DEF Node
    <2> HIDE DEF r
    <2>6. u[n] = IF n >= 2 /\ r.refcou = 0 THEN [r EXCEPT !.low = -1] ELSE r
      BY <2>1 DEF Swept, c
    <2>7. [r EXCEPT !.low = -1] \in Node /\ [r EXCEPT !.low = -1].refcou = r.refcou /\ [r EXCEPT !.low = -1].low = -1
          /\ [r EXCEPT !.low = -1].level = r.level /\ [r EXCEPT !.low = -1].high = r.high
      BY <2>5 DEF Node
    <2>8. n >= 2 <=> n \notin {0, 1}
      BY <1>1 DEF Facts
    <2>9. CASE n \notin {0, 1} /\ c[n] = 0
      <3>1. u[n] = [r EXCEPT !.low = -1]
        BY <2>5, <2>6, <2>8, <2>9
      <3>2. u[n].level = lev /\ u[n].refcou = c[n] /\ u[n].high = t[n].high /\ u[n].low = -1 /\ u[n] \in Node
        BY <2>5, <2>7, <3>1
      <3>3. QED
        BY <2>9, <3>2 DEF lev
    <2>10. CASE ~(n \notin {0, 1} /\ c[n] = 0)
      <3>1. u[n] = r
        BY <2>5, <2>6, <2>8, <2>10
      <3>2. QED
        BY <2>5, <2>10, <3>1 DEF lev
    <2>11. QED
      BY <2>9, <2>10
  <1>9. Slots(u) = Slots(t) /\ u \in [Slots(t) -> Node]
    <2>1. Slots(u) = Slots(t) /\ u = [n \in Slots(t) |-> u[n]]
      BY DEF Swept, ByVariable, Slots
    <2>2. QED
      BY <1>8, <2>1
  <1>10. ASSUME NEW n
         PROVE  n \in Live(u) <=> n \in Live(t) /\ c[n] # 0
    <2>1. n \in Live(u) <=> n \in Slots(t) /\ n \notin {0, 1} /\ u[n].low # -1
      BY <1>9 DEF Live, Inner, FreeSlots
    <2>2. n \in Slots(t) => (n \in Live(t) <=> n \notin {0, 1} /\ t[n].low # -1)
      BY <1>1 DEF Facts
    <2>3. n \in Live(t) => n \in Slots(t)
      BY <1>1 DEF Facts
    <2>4. n \in Slots(t) => /\ n \in {0, 1} \/ c[n] # 0 => u[n].low = t[n].low
                            /\ n \notin {0, 1} /\ c[n] = 0 => u[n].low = -1
      BY <1>8
    <2>5. QED
      BY <2>1, <2>2, <2>3, <2>4
  <1>11. Keeps(t, u) /\ \A n \in Live(u) : n \in Live(t) /\ n \in Slots(t) /\ u[n].level = VarAt(n) /\ c[n] > 0
    <2>1. ASSUME NEW n \in Live(u)
          PROVE  n \in Live(t) /\ n \in Slots(t) /\ u[n].level = VarAt(n) /\ u[n].low = t[n].low /\ u[n].high = t[n].high
                 /\ c[n] > 0
      <3>1. n \in Live(t) /\ c[n] # 0 /\ n \in Slots(t)
        BY <1>1, <1>10 DEF Facts
      <3>2. c[n] \in 0..MaxRef
        BY <1>7, <3>1
      <3>3. c[n] > 0
        BY <3>1, <3>2
      <3>4. u[n].low = t[n].low /\ u[n].high = t[n].high
        BY <1>8, <3>1
      <3>5. u[n].level = VarAt(n)
        BY <1>8, <3>1
      <3>6. QED
        BY <3>1, <3>3, <3>4, <3>5
    <2>2. QED
      BY <2>1 DEF Keeps
  <1>12. Claims(u) \cup RootsOf(R) \subseteq C
    <2>1. ASSUME NEW n \in Live(u) PROVE <<n, "low", u[n].low>> \in C /\ <<n, "high", u[n].high>> \in C
      <3>1. <<n, "low", t[n].low>> \in C /\ <<n, "high", t[n].high>> \in C
        BY <1>6, <1>11 DEF MarkOK, c
      <3>2. QED
        BY <1>11, <3>1 DEF Keeps
    <2>2. ASSUME NEW k \in Claims(u) PROVE k \in C
      <3>1. PICK n \in Live(u) : k = <<n, "low", u[n].low>> \/ k = <<n, "high", u[n].high>>
        BY DEF Claims
      <3>2. QED
        BY <2>1, <3>1
    <2>3. QED
      BY <1>6, <2>2
  <1>13. ASSUME NEW k \in C, k[3] \in Known(t) PROVE k[3] \in Known(u)
    <2>1. k[3] \in Live(t) => c[k[3]] > 0
      BY <1>1, <1>7, ClaimedPositive DEF Facts
    <2>2. k[3] \in Live(t) => k[3] \in Live(u)
      <3>1. k[3] \in Live(t) => c[k[3]] \in 0..MaxRef
        BY <1>1, <1>7 DEF Facts
      <3>2. k[3] \in Live(t) => c[k[3]] # 0
        BY <2>1, <3>1
      <3>3. QED
        BY <1>10, <3>2
    <2>3. QED
      BY <1>13, <2>2 DEF Known
  <1>14. ASSUME NEW n \in Live(u)
         PROVE  u[n].level \in Levels /\ t[n].low \in Known(u) /\ t[n].high \in Known(u)
    <2>1. n \in Live(t) /\ u[n].level = VarAt(n)
      BY <1>11
    <2>2. VarAt(n) \in Variables /\ t[n].low \in Known(t) /\ t[n].high \in Known(t)
      BY <2>1, NodeFacts
    <2> DEFINE kl == <<n, "low", t[n].low>>
               kh == <<n, "high", t[n].high>>
    <2>3. kl \in C /\ kh \in C
      BY <1>6, <1>11 DEF MarkOK, c
    <2>4. kl[3] = t[n].low /\ kh[3] = t[n].high
      OBVIOUS
    <2> HIDE DEF kl, kh
    <2>5. t[n].low \in Known(u) /\ t[n].high \in Known(u)
      BY <1>13, <2>2, <2>3, <2>4
    <2>6. QED
      BY <2>1, <2>2, <2>5 DEF Variables, Levels
  <1>15. TableOK(u)
    <2>1. u[0].level = VarNum /\ u[1].level = VarNum
      <3>1. 0 \in Slots(t) /\ 1 \in Slots(t) /\ 0 \notin Live(t) /\ 1 \notin Live(t)
        BY <1>1 DEF Facts
      <3>2. t[0].level = VarNum /\ t[1].level = VarNum
        BY DEF TableOK, Shape
      <3>3. QED
        BY <1>8, <3>1, <3>2
    <2>2. QED
      BY <1>9, <1>11, <1>14, <2>1, SubTable
  <1>16. R \subseteq Live(u)
    <2>1. ASSUME NEW n \in R PROVE n \in Live(u)
      <3> DEFINE k == <<n, "root", n>>
      <3>1. k \in C /\ k[3] = n
        BY <1>6 DEF RootsOf
      <3> HIDE DEF k
      <3>2. n \in Live(t)
        OBVIOUS
      <3>3. n \in Known(u)
        BY <1>13, <3>1, <3>2 DEF Known
      <3>4. n \notin {0, 1}
        BY <1>1, <3>2 DEF Facts
      <3>5. QED
        BY <3>3, <3>4 DEF Known
    <2>2. QED
      BY <2>1
  <1>17. Backed(Live(u), Counts(u), Claims(u) \cup RootsOf(R))
    <2>1. \A n \in Live(u) : Counts(u)[n] = c[n]
      BY <1>8, <1>9, <1>11 DEF Counts
    <2>2. \A n \in Live(u) : c[n] \in 0..MaxRef
      BY <1>7, <1>11
    <2>3. \A n \in Live(u) : Counts(u)[n] \in c[n]..MaxRef
      BY <2>1, <2>2, BoundsAssumption
    <2>4. Live(t) \in SUBSET Slots(t) /\ Live(u) \in SUBSET Live(t)
      BY <1>1, <1>11 DEF Facts, Keeps
    <2> DEFINE D == Slots(t)
               L == Live(t)
               L2 == Live(u)
               C2 == Claims(u) \cup RootsOf(R)
               c2 == Counts(u)
    <2>5. /\ L \in SUBSET D /\ L2 \in SUBSET L /\ c \in [D -> 0..MaxRef] /\ Backed(L, c, C) /\ C2 \subseteq C
          /\ \A n \in L2 : c2[n] \in c[n]..MaxRef
      BY <1>7, <1>12, <2>3, <2>4
    <2> HIDE DEF D, L, L2, C2, c2
    <2>6. Backed(L2, c2, C2)
      BY <2>5, ClaimsFewer
    <2>7. QED
      BY <2>6 DEF L2, C2, c2
  <1>18. QED
    BY <1>11, <1>15, <1>16, <1>17 DEF SessionOK

----------------------------------------------------------------------------
\* reorder_makenode.

\* u differs from t in counts only.
SameNodes(t, u) ==
  /\ Slots(u) = Slots(t) /\ u \in [Slots(t) -> Node]
  /\ \A n \in Slots(t) : u[n].level = t[n].level /\ u[n].low = t[n].low /\ u[n].high = t[n].high

LEMMA SameTable ==
  ASSUME NEW t, TableOK(t), NEW u, SameNodes(t, u)
  PROVE  TableOK(u) /\ Live(u) = Live(t) /\ Known(u) = Known(t) /\ Claims(u) = Claims(t)
  <1>1. Facts(t)
    BY TableFacts DEF TableOK
  <1>2. ASSUME NEW n PROVE n \in Live(u) <=> n \in Live(t)
    <2>1. n \in Live(u) <=> n \in Slots(t) /\ n \notin {0, 1} /\ u[n].low # -1
      BY DEF SameNodes, Live, Inner, FreeSlots
    <2>2. n \in Live(t) <=> n \in Slots(t) /\ n \notin {0, 1} /\ t[n].low # -1
      BY <1>1 DEF Facts
    <2>3. n \in Slots(t) => u[n].low = t[n].low
      BY DEF SameNodes
    <2>4. QED
      BY <2>1, <2>2, <2>3
  <1>3. Live(u) = Live(t) /\ Known(u) = Known(t)
    BY <1>2 DEF Known
  <1>4. \A n \in Known(t) : n \in Slots(t) /\ u[n].level = t[n].level /\ u[n].low = t[n].low /\ u[n].high = t[n].high
    BY <1>1 DEF Facts, SameNodes
  <1>5. TableOK(u)
    <2>1. 0 \in Known(t) /\ 1 \in Known(t)
      BY DEF Known
    <2>2. \A n \in Live(t) : n \in Known(t)
      BY DEF Known
    <2>3. u[0].level = VarNum /\ u[1].level = VarNum
      BY <1>4, <2>1 DEF TableOK, Shape
    <2>4. \A n \in Live(u) : u[n].level \in Levels /\ t[n].low \in Known(u) /\ t[n].high \in Known(u)
      BY <1>3, <1>4, <2>2 DEF TableOK, Shape
    <2>5. Keeps(t, u)
      BY <1>3, <1>4, <2>2 DEF Keeps
    <2>6. u \in [Slots(t) -> Node]
      BY DEF SameNodes
    <2>7. QED
      BY <2>3, <2>4, <2>5, <2>6, SubTable
  <1>6. Claims(u) = Claims(t)
    <2>1. \A n \in Live(t) : u[n].low = t[n].low /\ u[n].high = t[n].high
      BY <1>4 DEF Known
    <2>2. {<<n, "low", u[n].low>> : n \in Live(t)} = {<<n, "low", t[n].low>> : n \in Live(t)}
      BY <2>1
    <2>3. {<<n, "high", u[n].high>> : n \in Live(t)} = {<<n, "high", t[n].high>> : n \in Live(t)}
      BY <2>1
    <2>4. QED
      BY <1>3, <2>2, <2>3 DEF Claims
  <1>7. QED
    BY <1>3, <1>5, <1>6

\* Counting up and down.
LEMMA Recounted ==
  ASSUME NEW t, TableOK(t), NEW x \in Slots(t), NEW c \in 0..MaxRef, NEW u, u = [t EXCEPT ![x].refcou = c]
  PROVE  SameNodes(t, u) /\ Counts(u) = [Counts(t) EXCEPT ![x] = c]
  <1>1. Facts(t)
    BY TableFacts DEF TableOK
  <1>2. t = [n \in Slots(t) |-> t[n]] /\ \A n \in Slots(t) : t[n] \in Node
    BY <1>1 DEF Facts
  <1> DEFINE r == [t[x] EXCEPT !.refcou = c]
  <1>3. r \in Node /\ r.level = t[x].level /\ r.low = t[x].low /\ r.high = t[x].high /\ r.refcou = c
    BY <1>2 DEF Node
  <1>4. u = [t EXCEPT ![x] = r]
    OBVIOUS
  <1> HIDE DEF r
  <1>5. u = [n \in Slots(t) |-> IF n = x THEN r ELSE t[n]]
    BY <1>2, <1>4
  <1>6. Slots(u) = Slots(t)
    BY <1>5 DEF Slots
  <1>7. u \in [Slots(t) -> Node]
    BY <1>2, <1>3, <1>5
  <1>8. \A n \in Slots(t) : u[n].level = t[n].level /\ u[n].low = t[n].low /\ u[n].high = t[n].high
    BY <1>3, <1>5
  <1>9. Counts(u) = [Counts(t) EXCEPT ![x] = c]
    <2>1. \A n \in Slots(t) : u[n].refcou = IF n = x THEN c ELSE t[n].refcou
      BY <1>3, <1>5
    <2>2. Counts(u) = [n \in Slots(t) |-> IF n = x THEN c ELSE t[n].refcou]
      BY <1>6, <2>1 DEF Counts
    <2>3. Counts(t) = [n \in Slots(t) |-> t[n].refcou]
      BY DEF Counts
    <2>4. QED
      BY <2>2, <2>3
  <1>10. QED
    BY <1>6, <1>7, <1>8, <1>9 DEF SameNodes

LEMMA SameNodesSelf == ASSUME NEW t, TableOK(t) PROVE SameNodes(t, t)
  <1>1. Facts(t)
    BY TableFacts DEF TableOK
  <1>2. t = [n \in Slots(t) |-> t[n]] /\ \A n \in Slots(t) : t[n] \in Node
    BY <1>1 DEF Facts
  <1>3. t \in [Slots(t) -> Node]
    BY <1>2
  <1>4. QED
    BY <1>3 DEF SameNodes

LEMMA IncrefTable ==
  ASSUME NEW t, TableOK(t), NEW x \in Slots(t)
  PROVE  SameNodes(t, INCREF(t, x)) /\ Counts(INCREF(t, x)) = Increased(Counts(t), x)
  <1>1. Counts(t)[x] = t[x].refcou /\ t[x].refcou \in 0..MaxRef
    BY TableFacts DEF TableOK, Facts, Counts
  <1>2. CASE t[x].refcou < MaxRef
    <2> DEFINE c == t[x].refcou + 1
    <2>1. c \in 0..MaxRef
      BY <1>1, <1>2, BoundsAssumption
    <2>2. INCREF(t, x) = [t EXCEPT ![x].refcou = c] /\ Increased(Counts(t), x) = [Counts(t) EXCEPT ![x] = c]
      BY <1>1, <1>2 DEF INCREF, Increased
    <2> HIDE DEF c
    <2> DEFINE u == [t EXCEPT ![x].refcou = c]
    <2>3. u = [t EXCEPT ![x].refcou = c]
      OBVIOUS
    <2> HIDE DEF u
    <2>4. SameNodes(t, u) /\ Counts(u) = [Counts(t) EXCEPT ![x] = c]
      BY <2>1, <2>3, Recounted
    <2>5. QED
      BY <2>2, <2>3, <2>4
  <1>3. CASE ~(t[x].refcou < MaxRef)
    BY <1>1, <1>3, SameNodesSelf DEF INCREF, Increased
  <1>4. QED
    BY <1>2, <1>3

LEMMA DecrefTable ==
  ASSUME NEW t, TableOK(t), NEW x \in Slots(t)
  PROVE  SameNodes(t, DECREF(t, x)) /\ Counts(DECREF(t, x)) = Decreased(Counts(t), x)
  <1>1. Counts(t)[x] = t[x].refcou /\ t[x].refcou \in 0..MaxRef
    BY TableFacts DEF TableOK, Facts, Counts
  <1>2. CASE t[x].refcou \in 1..(MaxRef - 1)
    <2> DEFINE c == t[x].refcou - 1
    <2>1. c \in 0..MaxRef
      BY <1>1, <1>2, BoundsAssumption
    <2>2. DECREF(t, x) = [t EXCEPT ![x].refcou = c] /\ Decreased(Counts(t), x) = [Counts(t) EXCEPT ![x] = c]
      BY <1>1, <1>2 DEF DECREF, Decreased
    <2> HIDE DEF c
    <2> DEFINE u == [t EXCEPT ![x].refcou = c]
    <2>3. u = [t EXCEPT ![x].refcou = c]
      OBVIOUS
    <2> HIDE DEF u
    <2>4. SameNodes(t, u) /\ Counts(u) = [Counts(t) EXCEPT ![x] = c]
      BY <2>1, <2>3, Recounted
    <2>5. QED
      BY <2>2, <2>3, <2>4
  <1>3. CASE ~(t[x].refcou \in 1..(MaxRef - 1))
    BY <1>1, <1>3, SameNodesSelf DEF DECREF, Decreased
  <1>4. QED
    BY <1>2, <1>3

\* The claims that a table's counts back, those of its own nodes among them.
Covers(t, C) == Backed(Live(t), Counts(t), C) /\ \A j \in C : j[3] \in Known(t)
CoversOwn(t, C) == Covers(t, C) /\ Claims(t) \subseteq C

LEMMA IncrefCovers ==
  ASSUME NEW t, TableOK(t), NEW C, Covers(t, C), NEW k, k[3] \in Known(t)
  PROVE  Covers(INCREF(t, k[3]), C \cup {k})
  <1> DEFINE u == INCREF(t, k[3])
  <1>1. Facts(t)
    BY TableFacts DEF TableOK
  <1>2. k[3] \in Slots(t) /\ Counts(t) \in [Slots(t) -> 0..MaxRef] /\ Live(t) \in SUBSET Slots(t)
    BY <1>1 DEF Facts, Counts
  <1>3. SameNodes(t, u) /\ Counts(u) = Increased(Counts(t), k[3])
    BY <1>2, IncrefTable
  <1> HIDE DEF u
  <1>4. Live(u) = Live(t) /\ Known(u) = Known(t)
    BY <1>3, SameTable
  <1>5. Backed(Live(t), Increased(Counts(t), k[3]), C \cup {k})
    BY <1>2, ClaimAdded DEF Covers
  <1>6. QED
    BY <1>3, <1>4, <1>5 DEF Covers, u

LEMMA DecrefBacked ==
  ASSUME NEW t, TableOK(t), NEW C, Backed(Live(t), Counts(t), C), NEW k \in C, k[3] \in Known(t)
  PROVE  LET u == DECREF(t, k[3]) IN SameNodes(t, u) /\ Backed(Live(u), Counts(u), C \ {k})
  <1> DEFINE u == DECREF(t, k[3])
  <1>1. Facts(t)
    BY TableFacts DEF TableOK
  <1>2. k[3] \in Slots(t) /\ Counts(t) \in [Slots(t) -> 0..MaxRef] /\ Live(t) \in SUBSET Slots(t)
    BY <1>1 DEF Facts, Counts
  <1>3. SameNodes(t, u) /\ Counts(u) = Decreased(Counts(t), k[3])
    BY <1>2, DecrefTable
  <1> HIDE DEF u
  <1>4. Live(u) = Live(t)
    BY <1>3, SameTable
  <1>5. Backed(Live(t), Decreased(Counts(t), k[3]), C \ {k})
    BY <1>2, ClaimDropped
  <1>6. QED
    BY <1>3, <1>4, <1>5 DEF u

\* u has the nodes of t as they are in t.
Grows(t, u) ==
  /\ Known(t) \subseteq Known(u)
  /\ \A n \in Known(t) : u[n].level = t[n].level /\ u[n].low = t[n].low /\ u[n].high = t[n].high

LEMMA SameGrows ==
  ASSUME NEW t, TableOK(t), NEW u, SameNodes(t, u)
  PROVE  Grows(t, u) /\ TableOK(u) /\ Live(u) = Live(t) /\ Known(u) = Known(t) /\ Claims(u) = Claims(t)
  <1>1. \A n \in Known(t) : n \in Slots(t)
    BY TableFacts DEF TableOK, Facts
  <1>2. TableOK(u) /\ Live(u) = Live(t) /\ Known(u) = Known(t) /\ Claims(u) = Claims(t)
    BY SameTable
  <1>3. \A n \in Slots(t) : u[n].level = t[n].level /\ u[n].low = t[n].low /\ u[n].high = t[n].high
    BY DEF SameNodes
  <1>4. QED
    BY <1>1, <1>2, <1>3 DEF Grows

LEMMA ResizedGrows ==
  ASSUME NEW t, TableOK(t), NEW T, T.nodes = t, NEW freenum, NEW num, NEW error,
         T = [nodes |-> t, freenum |-> freenum, nodenum |-> num, error |-> error],
         NEW u, u = Resized(T).nodes
  PROVE  /\ TableOK(u) /\ Grows(t, u) /\ Live(u) = Live(t) /\ Known(u) = Known(t) /\ Claims(u) = Claims(t)
         /\ \A C : Covers(t, C) => Covers(u, C)
         /\ Resized(T).error = error
  <1>1. PICK k \in Nat : k > 1 /\ t \in [0..(k - 1) -> Node]
    BY DEF TableOK, Shape
  <1>2. Facts(t) /\ Slots(t) = 0..(k - 1)
    BY <1>1, TableFacts DEF TableOK, Slots
  <1>3. Cardinality(Slots(t)) = k
    <2>1. Cardinality(0..(k - 1)) = IF 0 > k - 1 THEN 0 ELSE (k - 1) - 0 + 1
      BY <1>1, FS_Interval
    <2>2. QED
      BY <1>1, <1>2, <2>1
  <1>4. CASE k >= MaxNodeSize
    <2>1. Resized(T) = T
      BY <1>3, <1>4 DEF Resized
    <2>2. u = t /\ T.error = error
      BY <2>1
    <2>3. Grows(t, t)
      BY DEF Grows
    <2>4. QED
      BY <2>1, <2>2, <2>3
  <1>5. CASE k < MaxNodeSize
    <2> DEFINE size == IF k + MaxIncrease > MaxNodeSize THEN MaxNodeSize ELSE k + MaxIncrease
               free == [level |-> 0, low |-> -1, high |-> 0, refcou |-> 0]
               g == [n \in 0..(size - 1) |-> IF n < k THEN t[n] ELSE free]
    <2>1. size \in Nat /\ size > k
      BY <1>1, <1>5, BoundsAssumption
    <2>2. Resized(T) = [T EXCEPT !.freenum = @ + size - k, !.nodes = g]
      BY <1>3, <1>5, BoundsAssumption DEF Resized
    <2>3. free \in Node /\ free.low = -1
      BY BoundsAssumption DEF Node
    <2> HIDE DEF size, free
    <2>4. \A n \in 0..(k - 1) : n \in 0..(size - 1) /\ g[n] = t[n]
      BY <1>1, <2>1
    <2>5. \A n \in (0..(size - 1)) \ (0..(k - 1)) : g[n] = free
      BY <1>1, <2>1
    <2>6. g \in [0..(size - 1) -> Node]
      <3>1. \A n \in 0..(size - 1) : g[n] \in Node
        BY <1>1, <2>3, <2>4, <2>5
      <3>2. QED
        BY <3>1
    <2>7. DOMAIN g = 0..(size - 1)
      OBVIOUS
    <2> HIDE DEF g
    <2>8. u = g /\ Resized(T).error = error
      <3> DEFINE f2 == T.freenum + size - k
                 T1 == [nodes |-> t, freenum |-> f2, nodenum |-> num, error |-> error]
                 T2 == [nodes |-> g, freenum |-> f2, nodenum |-> num, error |-> error]
      <3>1. Resized(T) = [[T EXCEPT !.freenum = f2] EXCEPT !.nodes = g]
        BY <2>2
      <3> HIDE DEF f2
      <3>2. [T EXCEPT !.freenum = f2] = T1
        OBVIOUS
      <3>3. [T1 EXCEPT !.nodes = g] = T2
        OBVIOUS
      <3>4. T2.nodes = g /\ T2.error = error
        OBVIOUS
      <3> HIDE DEF T1, T2
      <3>5. QED
        BY <3>1, <3>2, <3>3, <3>4
    <2>9. Slots(u) = 0..(size - 1)
      BY <2>7, <2>8 DEF Slots
    <2>10. \A n \in Slots(t) : n \in Slots(u) /\ u[n] = t[n]
      BY <1>2, <2>4, <2>8, <2>9
    <2>11. ASSUME NEW n PROVE n \in Live(u) <=> n \in Live(t)
      <3>1. n \in Live(u) <=> n \in Slots(u) /\ n \notin {0, 1} /\ u[n].low # -1
        BY DEF Live, Inner, FreeSlots
      <3>2. n \in Live(t) <=> n \in Slots(t) /\ n \notin {0, 1} /\ t[n].low # -1
        BY <1>2 DEF Facts
      <3>3. n \in Slots(u) \ Slots(t) => u[n].low = -1
        BY <1>2, <2>3, <2>5, <2>8, <2>9
      <3>4. QED
        BY <2>10, <3>1, <3>2, <3>3
    <2>12. Live(u) = Live(t) /\ Known(u) = Known(t)
      BY <2>11 DEF Known
    <2>13. \A n \in Known(t) : n \in Slots(t) /\ u[n] = t[n]
      BY <1>2, <2>10 DEF Facts
    <2>14. Grows(t, u)
      BY <2>12, <2>13 DEF Grows
    <2>15. Shape(u)
      <3>1. size > 1 /\ u \in [0..(size - 1) -> Node]
        BY <1>1, <2>1, <2>6, <2>8
      <3>2. u[0].level = VarNum /\ u[1].level = VarNum
        BY <2>13 DEF TableOK, Shape, Known
      <3>3. \A n \in Live(u) : u[n].level \in Levels /\ u[n].low \in Known(u) /\ u[n].high \in Known(u)
        BY <2>12, <2>13 DEF TableOK, Shape, Known
      <3>4. QED
        BY <2>1, <3>1, <3>2, <3>3 DEF Shape
    <2>16. Acyclic(u)
      BY <2>12, <2>13 DEF TableOK, Acyclic, Known
    <2>17. Claims(u) = Claims(t)
      <3>1. \A n \in Live(t) : u[n] = t[n]
        BY <2>13 DEF Known
      <3>2. {<<n, "low", u[n].low>> : n \in Live(t)} = {<<n, "low", t[n].low>> : n \in Live(t)}
        BY <3>1
      <3>3. {<<n, "high", u[n].high>> : n \in Live(t)} = {<<n, "high", t[n].high>> : n \in Live(t)}
        BY <3>1
      <3>4. QED
        BY <2>12, <3>2, <3>3 DEF Claims
    <2>18. ASSUME NEW C, Covers(t, C) PROVE Covers(u, C)
      <3>1. \A n \in Live(t) : Counts(u)[n] = Counts(t)[n]
        <4>1. \A n \in Live(t) : n \in Slots(t) /\ n \in Slots(u) /\ u[n] = t[n]
          BY <2>10, <2>13 DEF Known
        <4>2. QED
          BY <4>1 DEF Counts
      <3>2. Backed(Live(t), Counts(u), C)
        BY <2>18, <3>1 DEF Covers, Backed
      <3>3. QED
        BY <2>12, <2>18, <3>2 DEF Covers
    <2>19. QED
      BY <2>8, <2>12, <2>14, <2>15, <2>16, <2>17, <2>18 DEF TableOK
  <1>6. QED
    BY <1>1, <1>4, <1>5, BoundsAssumption

\* A node in a free slot.
MadeAt(t, u, n, v, low, high) ==
  /\ TableOK(u) /\ Grows(t, u) /\ n \in Live(u) /\ n \notin Known(t)
  /\ u[n].level = v /\ u[n].low = low /\ u[n].high = high
  /\ Claims(u) \subseteq Claims(t) \cup {<<n, "low", low>>, <<n, "high", high>>}
  /\ \A C, k : Covers(t, C) /\ k[3] = n => Covers(u, C \cup {k})

LEMMA MadeTable ==
  ASSUME NEW t, TableOK(t), NEW n \in FreeSlots(t), NEW v \in Variables, NEW low \in Known(t), NEW high \in Known(t),
         NEW u, u = [t EXCEPT ![n] = [level |-> v, low |-> low, high |-> high, refcou |-> 1]]
  PROVE  MadeAt(t, u, n, v, low, high)
  <1>1. Facts(t)
    BY TableFacts DEF TableOK
  <1> DEFINE r == [level |-> v, low |-> low, high |-> high, refcou |-> 1]
  <1>2. n \in Slots(t) /\ n \notin {0, 1} /\ t[n].low = -1
    BY DEF FreeSlots, Inner
  <1>3. n \notin Known(t)
    BY <1>1, <1>2 DEF Facts, Known
  <1>4. low \in Nat /\ high \in Nat /\ low # -1
    BY <1>1 DEF Facts
  <1>5. r \in Node /\ r.level = v /\ r.low = low /\ r.high = high /\ r.refcou = 1
    BY <1>4, BoundsAssumption DEF Node, Variables
  <1> HIDE DEF r
  <1>6. u = [m \in Slots(t) |-> IF m = n THEN r ELSE t[m]]
    BY <1>1, <1>2 DEF Facts, r
  <1>7. Slots(u) = Slots(t)
    BY <1>6 DEF Slots
  <1>8. u[n] = r /\ \A m \in Slots(t) : m # n => u[m] = t[m]
    BY <1>2, <1>6
  <1>9. ASSUME NEW m PROVE m \in Live(u) <=> m = n \/ m \in Live(t)
    <2>1. m \in Live(u) <=> m \in Slots(t) /\ m \notin {0, 1} /\ u[m].low # -1
      BY <1>7 DEF Live, Inner, FreeSlots
    <2>2. m \in Live(t) <=> m \in Slots(t) /\ m \notin {0, 1} /\ t[m].low # -1
      BY <1>1 DEF Facts
    <2>3. CASE m = n
      BY <1>2, <1>4, <1>5, <1>8, <2>1, <2>3
    <2>4. CASE m # n
      BY <1>8, <2>1, <2>2, <2>4
    <2>5. QED
      BY <2>3, <2>4
  <1>10. Live(u) = Live(t) \cup {n} /\ Known(u) = Known(t) \cup {n} /\ n \in Live(u)
    BY <1>9 DEF Known
  <1>11. \A m \in Known(t) : m \in Slots(t) /\ m # n /\ u[m] = t[m]
    BY <1>1, <1>3, <1>8 DEF Facts
  <1>12. Grows(t, u)
    BY <1>10, <1>11 DEF Grows
  <1>13. Shape(u)
    <2>1. PICK size \in Nat : size > 1 /\ t \in [0..(size - 1) -> Node]
      BY DEF TableOK, Shape
    <2>2. Slots(t) = 0..(size - 1)
      BY <2>1 DEF Slots
    <2>3. \A m \in Slots(t) : (IF m = n THEN r ELSE t[m]) \in Node
      BY <1>1, <1>5 DEF Facts
    <2>4. u \in [0..(size - 1) -> Node]
      BY <1>6, <2>2, <2>3
    <2>5. u[0].level = VarNum /\ u[1].level = VarNum
      BY <1>11 DEF TableOK, Shape, Known
    <2>6. ASSUME NEW m \in Live(u)
          PROVE  u[m].level \in Levels /\ u[m].low \in Known(u) /\ u[m].high \in Known(u)
      <3>1. CASE m = n
        BY <1>5, <1>8, <1>10, <3>1 DEF Variables, Levels
      <3>2. CASE m \in Live(t)
        BY <1>10, <1>11, <3>2 DEF TableOK, Shape, Known
      <3>3. QED
        BY <1>10, <3>1, <3>2
    <2>7. QED
      BY <2>1, <2>4, <2>5, <2>6 DEF Shape
  <1>14. Acyclic(u)
    <2>1. SUFFICES ASSUME NEW S \in SUBSET Live(u), S # {} PROVE \E m \in S : u[m].low \notin S /\ u[m].high \notin S
      BY DEF Acyclic
    <2>2. CASE S \ {n} = {}
      <3>1. n \in S
        BY <2>1, <2>2
      <3>2. low # n /\ high # n
        BY <1>3
      <3>3. QED
        BY <1>5, <1>8, <2>2, <3>1, <3>2
    <2>3. CASE S \ {n} # {}
      <3> DEFINE P == S \ {n}
      <3>1. P \in SUBSET Live(t) /\ P # {}
        BY <1>10, <2>3
      <3>2. PICK m \in P : t[m].low \notin P /\ t[m].high \notin P
        BY <3>1 DEF TableOK, Acyclic
      <3>3. m \in Live(t) /\ m \in S
        BY <3>1
      <3>4. t[m].low # n /\ t[m].high # n /\ u[m] = t[m]
        BY <1>3, <1>11, <3>3 DEF TableOK, Shape, Known
      <3>5. QED
        BY <3>2, <3>3, <3>4
    <2>4. QED
      BY <2>2, <2>3
  <1>15. ASSUME NEW j \in Claims(u)
         PROVE  j \in Claims(t) \cup {<<n, "low", low>>, <<n, "high", high>>}
    <2>1. PICK m \in Live(u) : j = <<m, "low", u[m].low>> \/ j = <<m, "high", u[m].high>>
      BY DEF Claims
    <2>2. CASE m = n
      BY <1>5, <1>8, <2>1, <2>2
    <2>3. CASE m \in Live(t)
      <3>1. u[m] = t[m]
        BY <1>11, <2>3 DEF Known
      <3>2. QED
        BY <2>1, <2>3, <3>1 DEF Claims
    <2>4. QED
      BY <1>10, <2>2, <2>3
  <1>16. ASSUME NEW C, NEW k, Covers(t, C), k[3] = n PROVE Covers(u, C \cup {k})
    <2>1. IsFiniteSet(C \cup {k})
      BY <1>16, FS_AddElement DEF Covers, Backed
    <2>2. ASSUME NEW m \in Live(u)
          PROVE  Counts(u)[m] = MaxRef \/ Cardinality(Claimed(C \cup {k}, m)) <= Counts(u)[m]
      <3>1. CASE m = n
        <4>1. Claimed(C \cup {k}, m) = {k}
          BY <1>3, <1>16, <3>1 DEF Covers, Claimed
        <4>2. Cardinality(Claimed(C \cup {k}, m)) = 1
          BY <4>1, FS_Singleton
        <4>3. Counts(u)[m] = 1
          BY <1>2, <1>5, <1>7, <1>8, <3>1 DEF Counts
        <4>4. QED
          BY <4>2, <4>3
      <3>2. CASE m \in Live(t)
        <4>1. m # n /\ u[m] = t[m] /\ m \in Slots(t)
          BY <1>11, <3>2 DEF Known
        <4>2. Counts(u)[m] = Counts(t)[m]
          BY <1>7, <4>1 DEF Counts
        <4>3. Claimed(C \cup {k}, m) = Claimed(C, m)
          BY <1>16, <4>1 DEF Claimed
        <4>4. QED
          BY <1>16, <3>2, <4>2, <4>3 DEF Covers, Backed
      <3>3. QED
        BY <1>10, <3>1, <3>2
    <2>3. \A j \in C \cup {k} : j[3] \in Known(u)
      BY <1>10, <1>16 DEF Covers
    <2>4. QED
      BY <2>1, <2>2, <2>3 DEF Covers, Backed
  <1>17. QED
    BY <1>3, <1>5, <1>8, <1>10, <1>12, <1>13, <1>14, <1>15, <1>16 DEF TableOK, MadeAt

LEMMA LowestIn ==
  ASSUME NEW S \in SUBSET Nat, S # {}
  PROVE  Lowest(S) \in S
  <1>1. \E n \in S : \A m \in S : n <= m
    BY LeastNatural
  <1>2. QED
    BY <1>1 DEF Lowest

LEMMA GrowsTwice ==
  ASSUME NEW t, NEW u, NEW w, Grows(t, u), Grows(u, w)
  PROVE  Grows(t, w)
  BY DEF Grows

\* A node is found or made: res is for variable v with children low and high,
\* and none of those taken out of the sub-table.
Makes(t, u, v, low, high, res) ==
  /\ TableOK(u) /\ Grows(t, u) /\ res \in Known(u)
  /\ \/ low = high /\ res = low
     \/ /\ res \in Live(u) \ toBeProcessed
        /\ u[res].level = v /\ u[res].low = low /\ u[res].high = high

\* The counts of u back one more reference to res.
Backs(t, u, res) ==
  \A C, k : CoversOwn(t, C) /\ k[3] = res => \E C2 : C \cup {k} \subseteq C2 /\ CoversOwn(u, C2)

TableRecord(T) == T = [nodes |-> T.nodes, freenum |-> T.freenum, nodenum |-> T.nodenum, error |-> T.error]

LEMMA CountedUp ==
  ASSUME NEW t, TableOK(t), NEW x \in Known(t)
  PROVE  TableOK(INCREF(t, x)) /\ Grows(t, INCREF(t, x)) /\ x \in Known(INCREF(t, x)) /\ Backs(t, INCREF(t, x), x)
         /\ Live(INCREF(t, x)) = Live(t)
  <1> DEFINE u == INCREF(t, x)
  <1>1. x \in Slots(t)
    BY TableFacts DEF TableOK, Facts
  <1>2. SameNodes(t, u)
    BY <1>1, IncrefTable
  <1>3. Backs(t, u, x)
    <2>1. SUFFICES ASSUME NEW C, NEW k, CoversOwn(t, C), k[3] = x
                   PROVE  \E C2 : C \cup {k} \subseteq C2 /\ CoversOwn(u, C2)
      BY DEF Backs
    <2>2. Covers(INCREF(t, k[3]), C \cup {k})
      BY <2>1, IncrefCovers DEF CoversOwn
    <2>3. Covers(u, C \cup {k})
      BY <2>1, <2>2
    <2> HIDE DEF u
    <2>4. Claims(u) = Claims(t)
      BY <1>2, SameTable
    <2>5. CoversOwn(u, C \cup {k})
      BY <2>1, <2>3, <2>4 DEF CoversOwn
    <2>6. QED
      BY <2>5
  <1> HIDE DEF u
  <1>4. TableOK(u) /\ Grows(t, u) /\ x \in Known(u) /\ Live(u) = Live(t)
    BY <1>2, SameGrows
  <1>5. QED
    BY <1>3, <1>4 DEF u

LEMMA MakenodeMakes ==
  ASSUME NEW T, TableRecord(T), NEW t, t = T.nodes, TableOK(t), toBeProcessed \subseteq Live(t),
         NEW v \in Variables, NEW low \in Known(t), NEW high \in Known(t),
         NEW m, m = reorder_makenode(T, v, low, high), ~m.t.error
  PROVE  /\ Makes(t, m.t.nodes, v, low, high, m.res) /\ Backs(t, m.t.nodes, m.res)
         /\ ~T.error /\ TableRecord(m.t)
  <1> DEFINE found == {n \in Chained(T, v) : t[n].low = low /\ t[n].high = high}
             known == IF low = high THEN {low} ELSE found
             grown == IF T.error \/ FreeSlots(t) # {} THEN T ELSE Resized(T)
  <1>1. Facts(t)
    BY TableFacts DEF TableOK
  <1>2. found \subseteq Live(t) /\ found \subseteq Nat /\ \A n \in found : n \notin toBeProcessed /\ t[n].level = v
    BY <1>1 DEF Chained, Facts
  <1>3. m = IF known # {} THEN [res |-> Lowest(known), t |-> [T EXCEPT !.nodes = INCREF(t, Lowest(known))]]
            ELSE IF FreeSlots(grown.nodes) = {} THEN [res |-> 0, t |-> [grown EXCEPT !.error = TRUE]]
            ELSE TakeNode(grown, v, low, high)
    BY DEF reorder_makenode
  <1>4. CASE known # {}
    <2> DEFINE x == Lowest(known)
               u == INCREF(t, x)
    <2>1. \/ low = high /\ x = low
          \/ x \in Live(t) /\ x \notin toBeProcessed /\ t[x].level = v /\ t[x].low = low /\ t[x].high = high
      <3>1. CASE low = high
        <4>1. known = {low} /\ low \in Nat
          BY <1>1, <3>1 DEF Facts
        <4>2. known \in SUBSET Nat
          BY <4>1
        <4> HIDE DEF known
        <4>3. x \in known
          BY <1>4, <4>2, LowestIn
        <4>4. QED
          BY <3>1, <4>1, <4>3
      <3>2. CASE low # high
        <4>1. known = found
          BY <3>2
        <4>2. known \in SUBSET Nat
          BY <1>2, <4>1
        <4>3. x \in known
          <5> HIDE DEF known
          <5>1. QED
            BY <1>4, <4>2, LowestIn
        <4>4. x \in found
          BY <4>1, <4>3
        <4>5. QED
          BY <1>2, <4>4
      <3>3. QED
        BY <3>1, <3>2
    <2>2. m = [res |-> x, t |-> [T EXCEPT !.nodes = u]]
      BY <1>3, <1>4
    <2> HIDE DEF x, known
    <2>3. x \in Known(t)
      BY <2>1 DEF Known
    <2>4. TableOK(u) /\ Grows(t, u) /\ x \in Known(u) /\ Backs(t, u, x) /\ Live(u) = Live(t)
      BY <2>3, CountedUp
    <2> HIDE DEF u
    <2>5. m.res = x /\ m.t.nodes = u /\ m.t.error = T.error /\ TableRecord(m.t)
      <3>1. m.t = [T EXCEPT !.nodes = u] /\ m.res = x
        BY <2>2
      <3>2. m.t = [nodes |-> u, freenum |-> T.freenum, nodenum |-> T.nodenum, error |-> T.error]
        BY <3>1 DEF TableRecord
      <3>3. QED
        BY <3>1, <3>2 DEF TableRecord
    <2>6. Makes(t, u, v, low, high, x)
      <3>1. CASE low = high /\ x = low
        BY <2>4, <3>1 DEF Makes
      <3>2. CASE x \in Live(t) /\ x \notin toBeProcessed /\ t[x].level = v /\ t[x].low = low /\ t[x].high = high
        BY <2>3, <2>4, <3>2 DEF Makes, Grows
      <3>3. QED
        BY <2>1, <3>1, <3>2
    <2>7. QED
      BY <2>4, <2>5, <2>6
  <1>5. CASE known = {}
    <2> DEFINE g == grown.nodes
               n == Lowest(FreeSlots(g))
               rec == [level |-> v, low |-> low, high |-> high, refcou |-> 1]
               made == [g EXCEPT ![n] = rec]
               u1 == INCREF(made, low)
               u == INCREF(u1, high)
    <2>1. /\ TableOK(g) /\ Grows(t, g) /\ Live(g) = Live(t) /\ Known(g) = Known(t) /\ Claims(g) = Claims(t)
          /\ \A C : Covers(t, C) => Covers(g, C)
          /\ grown.error = T.error /\ TableRecord(grown)
      <3>1. CASE T.error \/ FreeSlots(t) # {}
        <4>1. grown = T
          BY <3>1
        <4>2. g = t /\ grown.error = T.error /\ TableRecord(grown)
          BY <4>1
        <4>3. Grows(t, t)
          BY DEF Grows
        <4> HIDE DEF grown, g
        <4>4. QED
          BY <4>2, <4>3
      <3>2. CASE ~(T.error \/ FreeSlots(t) # {})
        <4> DEFINE w == Resized(T)
        <4>1. grown = w
          BY <3>2
        <4>2. T = [nodes |-> t, freenum |-> T.freenum, nodenum |-> T.nodenum, error |-> T.error]
          BY DEF TableRecord
        <4>3. /\ TableOK(w.nodes) /\ Grows(t, w.nodes) /\ Live(w.nodes) = Live(t) /\ Known(w.nodes) = Known(t)
              /\ Claims(w.nodes) = Claims(t)
              /\ \A C : Covers(t, C) => Covers(w.nodes, C)
              /\ w.error = T.error
          <5> HIDE DEF grown
          <5>1. QED
            BY <4>2, ResizedGrows
        <4>4. TableRecord(w)
          <5> DEFINE old == Cardinality(Slots(T.nodes))
                     size == IF old + MaxIncrease > MaxNodeSize THEN MaxNodeSize ELSE old + MaxIncrease
                     f2 == T.freenum + size - old
                     g2 == [i \in 0..(size - 1) |-> IF i < old THEN T.nodes[i]
                              ELSE [level |-> 0, low |-> -1, high |-> 0, refcou |-> 0]]
          <5>1. w = IF old >= MaxNodeSize THEN T ELSE [[T EXCEPT !.freenum = f2] EXCEPT !.nodes = g2]
            BY DEF Resized
          <5> HIDE DEF old, size, f2, g2, w
          <5> DEFINE T1 == [nodes |-> t, freenum |-> f2, nodenum |-> T.nodenum, error |-> T.error]
                     T2 == [nodes |-> g2, freenum |-> f2, nodenum |-> T.nodenum, error |-> T.error]
          <5>2. [T EXCEPT !.freenum = f2] = T1 /\ [T1 EXCEPT !.nodes = g2] = T2
            BY DEF TableRecord
          <5>3. [[T EXCEPT !.freenum = f2] EXCEPT !.nodes = g2] = T2
            <6> HIDE DEF T1, T2
            <6>1. QED
              BY <5>2
          <5>4. CASE old >= MaxNodeSize
            BY <5>1, <5>4
          <5>5. CASE ~(old >= MaxNodeSize)
            BY <5>1, <5>3, <5>5 DEF TableRecord
          <5>6. QED
            BY <5>4, <5>5
        <4> HIDE DEF grown, w
        <4>5. QED
          BY <4>1, <4>3, <4>4
      <3>3. QED
        BY <3>1, <3>2
    <2> HIDE DEF grown
    <2>2. FreeSlots(g) # {} /\ m = TakeNode(grown, v, low, high)
      <3>1. SUFFICES ASSUME FreeSlots(g) = {} PROVE FALSE
        BY <1>3, <1>5
      <3>2. m.t = [grown EXCEPT !.error = TRUE]
        BY <1>3, <1>5, <3>1
      <3>3. m.t.error = TRUE
        BY <2>1, <3>2 DEF TableRecord
      <3>4. QED
        BY <3>3
    <2>3. m.res = n /\ m.t = [grown EXCEPT !.nodes = u, !.freenum = @ - 1, !.nodenum[v] = @ + 1]
      BY <2>2 DEF TakeNode
    <2>4. n \in FreeSlots(g)
      <3>1. FreeSlots(g) \in SUBSET Nat
        BY <2>1, TableFacts DEF TableOK, Facts, FreeSlots, Inner
      <3>2. QED
        BY <2>2, <3>1, LowestIn
    <2>5. m.t.nodes = u /\ m.t.error = T.error /\ TableRecord(m.t)
      <3> DEFINE f2 == grown.freenum - 1
                 n2 == [grown.nodenum EXCEPT ![v] = @ + 1]
      <3> HIDE DEF u, n
      <3>1. m.t = [[[grown EXCEPT !.nodes = u] EXCEPT !.freenum = [grown EXCEPT !.nodes = u].freenum - 1] EXCEPT
                      !.nodenum[v] = @ + 1]
        BY <2>3
      <3>2. [grown EXCEPT !.nodes = u]
            = [nodes |-> u, freenum |-> grown.freenum, nodenum |-> grown.nodenum, error |-> grown.error]
        BY <2>1 DEF TableRecord
      <3>3. m.t = [nodes |-> u, freenum |-> f2, nodenum |-> n2, error |-> grown.error]
        BY <3>1, <3>2
      <3> HIDE DEF f2, n2
      <3>4. QED
        BY <2>1, <3>3 DEF TableRecord
    <2> HIDE DEF g, n
    <2>6. /\ TableOK(made) /\ Grows(g, made) /\ n \in Live(made) /\ n \notin Known(g)
          /\ made[n].level = v /\ made[n].low = low /\ made[n].high = high
          /\ Claims(made) \subseteq Claims(g) \cup {<<n, "low", low>>, <<n, "high", high>>}
          /\ \A C, k : Covers(g, C) /\ k[3] = n => Covers(made, C \cup {k})
      <3>1. low \in Known(g) /\ high \in Known(g)
        BY <2>1
      <3>2. made = [g EXCEPT ![n] = [level |-> v, low |-> low, high |-> high, refcou |-> 1]]
        OBVIOUS
      <3> HIDE DEF made
      <3>3. TableOK(g)
        BY <2>1
      <3>4. MadeAt(g, made, n, v, low, high)
        BY <2>4, <3>1, <3>2, <3>3, MadeTable
      <3>5. QED
        BY <3>4 DEF MadeAt
    <2> HIDE DEF made
    <2>7. Grows(t, made)
      BY <2>1, <2>6, GrowsTwice
    <2>8. low \in Known(made) /\ high \in Known(made)
      BY <2>7 DEF Grows
    <2>9. /\ SameNodes(made, u1) /\ TableOK(u1) /\ Live(u1) = Live(made) /\ Known(u1) = Known(made)
          /\ Claims(u1) = Claims(made) /\ Grows(made, u1)
      <3>1. low \in Slots(made)
        BY <2>6, <2>8, TableFacts DEF TableOK, Facts
      <3>2. SameNodes(made, u1)
        BY <2>6, <3>1, IncrefTable
      <3> HIDE DEF u1
      <3>3. QED
        BY <2>6, <3>2, SameGrows
    <2>10. /\ SameNodes(u1, u) /\ TableOK(u) /\ Live(u) = Live(made) /\ Known(u) = Known(made)
           /\ Claims(u) = Claims(made) /\ Grows(u1, u)
      <3> HIDE DEF u1
      <3>1. high \in Slots(u1)
        BY <2>8, <2>9, TableFacts DEF TableOK, Facts
      <3>2. SameNodes(u1, u)
        BY <2>9, <3>1, IncrefTable
      <3> HIDE DEF u
      <3>3. QED
        BY <2>9, <3>2, SameGrows
    <2>11. Backs(t, u, n)
      <3>1. SUFFICES ASSUME NEW C, NEW k, CoversOwn(t, C), k[3] = n
                     PROVE  \E C2 : C \cup {k} \subseteq C2 /\ CoversOwn(u, C2)
        BY DEF Backs
      <3> DEFINE kl == <<n, "low", low>>
                 kh == <<n, "high", high>>
                 C2 == ((C \cup {k}) \cup {kl}) \cup {kh}
      <3>2. kl[3] = low /\ kh[3] = high
        OBVIOUS
      <3>3. Claims(made) \subseteq Claims(g) \cup {kl, kh}
        BY <2>6
      <3> HIDE DEF kl, kh
      <3>4. Covers(made, C \cup {k})
        BY <2>1, <2>6, <3>1 DEF CoversOwn
      <3>5. Covers(u1, (C \cup {k}) \cup {kl})
        <4>1. Covers(INCREF(made, kl[3]), (C \cup {k}) \cup {kl})
          BY <2>6, <2>8, <3>2, <3>4, IncrefCovers
        <4>2. QED
          BY <3>2, <4>1
      <3>6. Covers(u, C2)
        <4> HIDE DEF u1
        <4>1. kh[3] \in Known(u1)
          BY <2>8, <2>9, <3>2
        <4>2. Covers(INCREF(u1, kh[3]), C2)
          BY <2>9, <3>5, <4>1, IncrefCovers
        <4>3. QED
          BY <3>2, <4>2
      <3>7. Claims(u) \subseteq C2
        <4>1. Claims(t) \subseteq C
          BY <3>1 DEF CoversOwn
        <4>2. QED
          BY <2>1, <2>10, <3>3, <4>1
      <3>8. CoversOwn(u, C2) /\ C \cup {k} \subseteq C2
        BY <3>6, <3>7 DEF CoversOwn
      <3>9. QED
        BY <3>8
    <2> HIDE DEF u1, u
    <2>12. Makes(t, u, v, low, high, n)
      <3>1. Grows(made, u)
        BY <2>9, <2>10, GrowsTwice
      <3>2. Grows(t, u)
        BY <2>7, <3>1, GrowsTwice
      <3>3. n \in Live(u) /\ n \in Known(u) /\ n \in Known(made)
        BY <2>6, <2>10 DEF Known
      <3>4. u[n].level = v /\ u[n].low = low /\ u[n].high = high
        BY <2>6, <3>1, <3>3 DEF Grows
      <3>5. n \notin toBeProcessed
        BY <2>1, <2>6 DEF Known
      <3>6. QED
        BY <2>10, <3>2, <3>3, <3>4, <3>5 DEF Makes
    <2>13. ~T.error
      BY <2>5
    <2>14. QED
      BY <2>3, <2>5, <2>11, <2>12, <2>13
  <1>6. QED
    BY <1>4, <1>5

----------------------------------------------------------------------------
\* reorder_swap: a node gets the variable below it, and new children.

Lev(t) == [n \in Live(t) |-> t[n].level]

\* r has the function of a node for v with children low and high.
Has(t, v, low, high, r) ==
  /\ r \in Known(t) /\ low \in Known(t) /\ high \in Known(t)
  /\ \/ low = high /\ r = low
     \/ /\ r \in Live(t) \ toBeProcessed
        /\ t[r].level = v /\ t[r].low = low /\ t[r].high = high

LEMMA HasStays ==
  ASSUME NEW t, TableOK(t), NEW u, Grows(t, u), NEW v, NEW low, NEW high, NEW r, Has(t, v, low, high, r)
  PROVE  Has(u, v, low, high, r)
  <1>1. r \in Live(t) => r \notin {0, 1}
    BY TableFacts DEF TableOK, Facts
  <1>2. r \in Known(u) /\ low \in Known(u) /\ high \in Known(u)
    BY DEF Has, Grows
  <1>3. r \in Live(t) => r \in Live(u)
    BY <1>1, <1>2 DEF Known
  <1>4. u[r].level = t[r].level /\ u[r].low = t[r].low /\ u[r].high = t[r].high
    BY DEF Has, Grows
  <1>5. QED
    BY <1>2, <1>3, <1>4 DEF Has

LEMMA HasBranch ==
  ASSUME NEW t, TableOK(t), NEW v, NEW low, NEW high, NEW r, Has(t, v, low, high, r), NEW g, Meaning(t, Lev(t), g)
  PROVE  g[r] = Branch(v, g[low], g[high])
  <1>1. low \in Slots(t)
    BY TableFacts DEF TableOK, Facts, Has
  <1>2. g[low] \subseteq SUBSET Variables
    BY <1>1 DEF Meaning, Functions
  <1>3. CASE low = high /\ r = low
    <2>1. Branch(v, g[low], g[low]) = g[low]
      BY <1>2 DEF Branch
    <2>2. QED
      BY <1>3, <2>1
  <1>4. CASE r \in Live(t) \ toBeProcessed /\ t[r].level = v /\ t[r].low = low /\ t[r].high = high
    BY <1>4 DEF Meaning, Lev
  <1>5. QED
    BY <1>3, <1>4 DEF Has

\* The cofactors of a node for a variable.
LEMMA Cofactored ==
  ASSUME NEW t, TableOK(t), NEW f \in Known(t), NEW v \in Variables
  PROVE  /\ LowOf(t, f, v) \in Known(t) /\ HighOf(t, f, v) \in Known(t)
         /\ \A a \in {LowOf(t, f, v), HighOf(t, f, v)} : a = f \/ (f \in Live(t) /\ a \in {t[f].low, t[f].high})
         /\ \A g : Meaning(t, Lev(t), g) => g[f] = Branch(v, g[LowOf(t, f, v)], g[HighOf(t, f, v)])
  <1>1. CASE t[f].level = v
    <2>1. f \in Live(t)
      <3>1. v # VarNum
        BY BoundsAssumption DEF Variables
      <3>2. QED
        BY <1>1, <3>1 DEF TableOK, Shape, Known
    <2>2. LowOf(t, f, v) = t[f].low /\ HighOf(t, f, v) = t[f].high
      BY <1>1 DEF LowOf, HighOf
    <2>3. t[f].low \in Known(t) /\ t[f].high \in Known(t)
      BY <2>1 DEF TableOK, Shape
    <2>4. \A g : Meaning(t, Lev(t), g) => g[f] = Branch(v, g[t[f].low], g[t[f].high])
      BY <1>1, <2>1 DEF Meaning, Lev
    <2>5. QED
      BY <2>1, <2>2, <2>3, <2>4
  <1>2. CASE t[f].level # v
    <2>1. LowOf(t, f, v) = f /\ HighOf(t, f, v) = f
      BY <1>2 DEF LowOf, HighOf
    <2>2. ASSUME NEW g, Meaning(t, Lev(t), g) PROVE g[f] = Branch(v, g[f], g[f])
      <3>1. f \in Slots(t)
        BY TableFacts DEF TableOK, Facts
      <3>2. g[f] \subseteq SUBSET Variables
        BY <2>2, <3>1 DEF Meaning, Functions
      <3>3. QED
        BY <3>2 DEF Branch
    <2>3. QED
      BY <2>1, <2>2
  <1>3. QED
    BY <1>1, <1>2

\* Two tests in either order.
LEMMA BranchSwap ==
  ASSUME NEW v0, NEW v1, NEW a, NEW b, NEW c, NEW d
  PROVE  Branch(v0, Branch(v1, a, b), Branch(v1, c, d)) = Branch(v1, Branch(v0, a, c), Branch(v0, b, d))
  BY DEF Branch

\* a is a child of n or a child of such a child.
Near(t, n, a) ==
  \E f \in {t[n].low, t[n].high} : a = f \/ (f \in Live(t) /\ a \in {t[f].low, t[f].high})

Redirects(t, u, n, v, low, high) ==
  /\ Slots(u) = Slots(t) /\ u \in [Slots(t) -> Node]
  /\ u[n].level = v /\ u[n].low = low /\ u[n].high = high /\ u[n].refcou = t[n].refcou
  /\ \A m \in Slots(t) : m # n => u[m] = t[m]

LEMMA RedirectedRecord ==
  ASSUME NEW t, TableOK(t), NEW n \in Live(t), NEW v \in Variables, NEW low \in Known(t), NEW high \in Known(t),
         NEW u, u = [t EXCEPT ![n].level = v, ![n].low = low, ![n].high = high]
  PROVE  Redirects(t, u, n, v, low, high)
  <1>1. Facts(t)
    BY TableFacts DEF TableOK
  <1>2. n \in Slots(t) /\ low \in Nat /\ high \in Nat /\ t[n] \in Node /\ v \in 0..VarNum
    BY <1>1, BoundsAssumption DEF Facts, Variables
  <1> DEFINE r1 == [t[n] EXCEPT !.level = v]
             r2 == [r1 EXCEPT !.low = low]
             r3 == [r2 EXCEPT !.high = high]
             t1 == [m \in Slots(t) |-> IF m = n THEN r1 ELSE t[m]]
             t2 == [m \in Slots(t) |-> IF m = n THEN r2 ELSE t[m]]
             t3 == [m \in Slots(t) |-> IF m = n THEN r3 ELSE t[m]]
  <1>3. r1 \in Node /\ r1.level = v /\ r1.refcou = t[n].refcou
    BY <1>2 DEF Node
  <1>4. r2 \in Node /\ r2.level = v /\ r2.low = low /\ r2.refcou = t[n].refcou
    <2> HIDE DEF r1
    <2>1. QED
      BY <1>2, <1>3 DEF Node
  <1>5. r3 \in Node /\ r3.level = v /\ r3.low = low /\ r3.high = high /\ r3.refcou = t[n].refcou
    <2> HIDE DEF r2
    <2>1. QED
      BY <1>2, <1>4 DEF Node
  <1>6. u = t3
    <2>1. t = [m \in Slots(t) |-> t[m]]
      BY <1>1 DEF Facts
    <2>2. [t EXCEPT ![n].level = v] = t1
      BY <1>2, <2>1
    <2>3. [t1 EXCEPT ![n].low = low] = t2
      <3>1. t1[n] = r1
        BY <1>2
      <3> HIDE DEF r1
      <3>2. QED
        BY <1>2, <3>1
    <2>4. [t2 EXCEPT ![n].high = high] = t3
      <3>1. t2[n] = r2
        BY <1>2
      <3> HIDE DEF r2
      <3>2. QED
        BY <1>2, <3>1
    <2> HIDE DEF t1, t2, t3
    <2>5. QED
      BY <2>2, <2>3, <2>4
  <1> HIDE DEF r3
  <1>7. Slots(u) = Slots(t)
    BY <1>6 DEF Slots
  <1>8. u[n] = r3 /\ \A m \in Slots(t) : m # n => u[m] = t[m]
    BY <1>2, <1>6
  <1>9. u \in [Slots(t) -> Node]
    <2>1. \A m \in Slots(t) : (IF m = n THEN r3 ELSE t[m]) \in Node
      BY <1>1, <1>5 DEF Facts
    <2>2. QED
      BY <1>6, <2>1
  <1>10. QED
    BY <1>5, <1>7, <1>8, <1>9 DEF Redirects

LEMMA RedirectedTable ==
  ASSUME NEW t, TableOK(t), NEW n \in Live(t), NEW v \in Variables, NEW low \in Known(t), NEW high \in Known(t),
         NEW u, Redirects(t, u, n, v, low, high),
         \A r \in {low, high} : \/ Near(t, n, r)
                                \/ r \in Live(t) /\ r # n /\ Near(t, n, t[r].low) /\ Near(t, n, t[r].high)
  PROVE  TableOK(u) /\ Live(u) = Live(t) /\ Known(u) = Known(t)
  <1>1. Facts(t)
    BY TableFacts DEF TableOK
  <1>2. n \in Slots(t) /\ low \in Nat /\ high \in Nat /\ n \notin {0, 1}
    BY <1>1 DEF Facts
  <1>3. ASSUME NEW m PROVE m \in Live(u) <=> m \in Live(t)
    <2>1. m \in Live(u) <=> m \in Slots(t) /\ m \notin {0, 1} /\ u[m].low # -1
      BY DEF Redirects, Live, Inner, FreeSlots
    <2>2. m \in Live(t) <=> m \in Slots(t) /\ m \notin {0, 1} /\ t[m].low # -1
      BY <1>1 DEF Facts
    <2>3. CASE m = n
      <3>1. u[m].low \in Nat
        BY <1>2, <2>3 DEF Redirects
      <3>2. u[m].low # -1
        BY <3>1
      <3>3. QED
        BY <1>2, <2>1, <2>3, <3>2
    <2>4. CASE m # n
      BY <2>1, <2>2, <2>4 DEF Redirects
    <2>5. QED
      BY <2>3, <2>4
  <1>4. Live(u) = Live(t) /\ Known(u) = Known(t)
    BY <1>3 DEF Known
  <1>5. \A m \in Known(t) : m \in Slots(t) /\ (m # n => u[m] = t[m])
    BY <1>1 DEF Facts, Redirects
  <1>6. Shape(u)
    <2>1. PICK size \in Nat : size > 1 /\ t \in [0..(size - 1) -> Node]
      BY DEF TableOK, Shape
    <2>2. Slots(t) = 0..(size - 1)
      BY <2>1 DEF Slots
    <2>3. u \in [0..(size - 1) -> Node]
      BY <2>2 DEF Redirects
    <2>4. u[0].level = VarNum /\ u[1].level = VarNum
      BY <1>2, <1>5 DEF TableOK, Shape, Known
    <2>5. ASSUME NEW m \in Live(u)
          PROVE  u[m].level \in Levels /\ u[m].low \in Known(u) /\ u[m].high \in Known(u)
      <3>1. CASE m = n
        BY <1>4, <3>1 DEF Redirects, Variables, Levels
      <3>2. CASE m # n
        BY <1>4, <1>5, <3>2 DEF TableOK, Shape, Known
      <3>3. QED
        BY <3>1, <3>2
    <2>6. QED
      BY <2>1, <2>3, <2>4, <2>5 DEF Shape
  <1>7. Acyclic(u)
    <2>1. SUFFICES ASSUME NEW S \in SUBSET Live(t), S # {}, \A m \in S : u[m].low \in S \/ u[m].high \in S
                   PROVE  FALSE
      BY <1>4 DEF Acyclic
    <2>2. \A m \in S : m # n => u[m] = t[m]
      BY <1>5, <2>1 DEF Known
    <2>3. ASSUME NEW P \in SUBSET Live(t), P # {}, \A m \in P : t[m].low \in P \/ t[m].high \in P
          PROVE  FALSE
      BY <2>3 DEF TableOK, Acyclic
    <2>4. n \in S
      BY <2>1, <2>2, <2>3
    <2>5. PICK r \in {low, high} : r \in S
      BY <2>1, <2>4 DEF Redirects
    <2>6. PICK a \in S : Near(t, n, a)
      <3>1. CASE Near(t, n, r)
        BY <2>5, <3>1
      <3>2. CASE r \in Live(t) /\ r # n /\ Near(t, n, t[r].low) /\ Near(t, n, t[r].high)
        <4>1. u[r] = t[r] /\ (u[r].low \in S \/ u[r].high \in S)
          BY <2>1, <2>2, <2>5, <3>2
        <4>2. QED
          BY <3>2, <4>1
      <3>3. QED
        BY <3>1, <3>2
    <2>7. PICK f \in {t[n].low, t[n].high} : a = f \/ (f \in Live(t) /\ a \in {t[f].low, t[f].high})
      BY <2>6 DEF Near
    <2> DEFINE P == S \cup {f}
    <2>8. P \in SUBSET Live(t) /\ P # {}
      BY <2>1, <2>6, <2>7
    <2>9. ASSUME NEW m \in P PROVE t[m].low \in P \/ t[m].high \in P
      <3>1. CASE m = n
        BY <2>7, <3>1
      <3>2. CASE m \in S /\ m # n
        BY <2>1, <2>2, <3>2
      <3>3. CASE m = f /\ m \notin S
        BY <2>6, <2>7, <3>3
      <3>4. QED
        BY <3>1, <3>2, <3>3
    <2> HIDE DEF P
    <2>10. QED
      BY <2>3, <2>8, <2>9
  <1>8. QED
    BY <1>4, <1>6, <1>7 DEF TableOK

LEMMA RedirectedMeaning ==
  ASSUME NEW t, TableOK(t), NEW n \in Live(t), NEW v, NEW low, NEW high, NEW u, Redirects(t, u, n, v, low, high),
         TableOK(u), Live(u) = Live(t),
         NEW f, NEW g, Meaning(t, Lev(t), f), Meaning(u, Lev(u), g), f[n] = Branch(v, f[low], f[high])
  PROVE  \A m \in Known(t) : g[m] = f[m]
  <1> DEFINE P == {m \in Live(u) : g[m] = f[m]}
  <1>1. g[0] = f[0] /\ g[1] = f[1]
    BY DEF Meaning
  <1>2. \A m \in Live(t) : m \in Slots(t) /\ (m # n => u[m] = t[m])
    BY TableFacts DEF TableOK, Facts, Redirects
  <1>3. ASSUME NEW m \in Live(u), {u[m].low, u[m].high} \cap Live(u) \subseteq P PROVE m \in P
    <2>1. ASSUME NEW c \in {u[m].low, u[m].high} PROVE g[c] = f[c]
      <3>1. c \in Known(u)
        BY DEF TableOK, Shape
      <3>2. QED
        BY <1>1, <1>3, <3>1 DEF Known
    <2>2. g[m] = Branch(u[m].level, g[u[m].low], g[u[m].high])
      BY DEF Meaning, Lev
    <2>3. g[m] = Branch(u[m].level, f[u[m].low], f[u[m].high])
      BY <2>1, <2>2
    <2>4. f[m] = Branch(u[m].level, f[u[m].low], f[u[m].high])
      <3>1. CASE m = n
        BY <3>1 DEF Redirects
      <3>2. CASE m # n
        BY <1>2, <3>2 DEF Meaning, Lev
      <3>3. QED
        BY <3>1, <3>2
    <2>5. QED
      BY <2>3, <2>4
  <1>4. Live(u) \subseteq P
    <2> HIDE DEF P
    <2>1. QED
      BY <1>3, GraphInduction
  <1>5. QED
    BY <1>1, <1>4 DEF Known

\* A node lets go of its children.
LEMMA ReleasedKeeps ==
  ASSUME NEW t, TableOK(t), NEW n \in Live(t)
  PROVE  /\ SameNodes(t, Released(t, n))
         /\ \A C : /\ Backed(Live(t), Counts(t), C)
                   /\ <<n, "low", t[n].low>> \in C /\ <<n, "high", t[n].high>> \in C
                   => Backed(Live(t), Counts(Released(t, n)), (C \ {<<n, "low", t[n].low>>}) \ {<<n, "high", t[n].high>>})
  <1> DEFINE kl == <<n, "low", t[n].low>>
             kh == <<n, "high", t[n].high>>
             low == t[n].low
             high == t[n].high
             t1 == DECREF(t, low)
             u == DECREF(t1, high)
  <1>1. low \in Known(t) /\ high \in Known(t) /\ low \in Slots(t) /\ high \in Slots(t)
    BY TableFacts DEF TableOK, Shape, Facts
  <1>2. kl[3] = low /\ kh[3] = high /\ kl # kh
    OBVIOUS
  <1>3. Released(t, n) = u
    BY DEF Released
  <1> HIDE DEF kl, kh
  <1>4. SameNodes(t, t1) /\ TableOK(t1) /\ Live(t1) = Live(t) /\ Known(t1) = Known(t) /\ Slots(t1) = Slots(t)
    BY <1>1, DecrefTable, SameTable DEF SameNodes
  <1> HIDE DEF t1
  <1>5. SameNodes(t1, u)
    BY <1>1, <1>4, DecrefTable
  <1>6. SameNodes(t, u)
    <2> HIDE DEF u
    <2>1. QED
      BY <1>4, <1>5 DEF SameNodes
  <1>7. ASSUME NEW C, Backed(Live(t), Counts(t), C), kl \in C, kh \in C
        PROVE  Backed(Live(t), Counts(u), (C \ {kl}) \ {kh})
    <2>1. Backed(Live(t1), Counts(t1), C \ {kl})
      <3>1. Backed(Live(DECREF(t, kl[3])), Counts(DECREF(t, kl[3])), C \ {kl})
        BY <1>1, <1>2, <1>7, DecrefBacked
      <3>2. QED
        BY <1>2, <3>1 DEF t1
    <2>2. kh \in C \ {kl}
      BY <1>2, <1>7
    <2>3. Backed(Live(DECREF(t1, kh[3])), Counts(DECREF(t1, kh[3])), (C \ {kl}) \ {kh})
      BY <1>1, <1>2, <1>4, <2>1, <2>2, DecrefBacked
    <2>4. Live(u) = Live(t1)
      <3> HIDE DEF u
      <3>1. QED
        BY <1>4, <1>5, SameTable
    <2>5. QED
      BY <1>2, <1>4, <2>3, <2>4
  <1>8. QED
    BY <1>3, <1>6, <1>7 DEF kl, kh

\* What the nodes of t are in u, when all of them stay.
Stay(t, u) ==
  /\ Live(t) \subseteq Live(u) /\ Known(t) \subseteq Known(u)
  /\ \A f, g : Meaning(t, Lev(t), f) /\ Meaning(u, Lev(u), g) => \A m \in Known(t) : g[m] = f[m]

\* What reorder_swap makes of n: t1 and t2 are the tables after its calls to
\* reorder_makenode, r0 and r1 the new children.
Swaps(t, n, v0, v1, t1, r0, t2, r1, u) ==
  /\ n \in Live(t) /\ n \in toBeProcessed /\ t[n].level = v0 /\ v0 \in Variables /\ v1 \in Variables
  /\ Makes(t, t1, v0, LowOf(t, t[n].low, v1), LowOf(t, t[n].high, v1), r0)
  /\ Makes(t1, t2, v0, HighOf(t, t[n].low, v1), HighOf(t, t[n].high, v1), r1)
  /\ u = [Released(t2, n) EXCEPT ![n].level = v1, ![n].low = r0, ![n].high = r1]

LEMMA SwapsTable ==
  ASSUME NEW t, TableOK(t), NEW n, NEW v0, NEW v1, NEW t1, NEW r0, NEW t2, NEW r1, NEW u,
         Swaps(t, n, v0, v1, t1, r0, t2, r1, u)
  PROVE  /\ TableOK(t1) /\ TableOK(t2) /\ TableOK(u) /\ Grows(t, t1) /\ Grows(t, t2) /\ n \in Live(t2)
         /\ Live(u) = Live(t2) /\ Stay(t, u)
         /\ Redirects(Released(t2, n), u, n, v1, r0, r1) /\ r0 \in Known(t2) /\ r1 \in Known(t2)
         /\ \A m \in Known(t) : m # n => u[m].level = t[m].level
  <1> DEFINE f0 == t[n].low
             f1 == t[n].high
             a0 == LowOf(t, f0, v1)
             b0 == LowOf(t, f1, v1)
             a1 == HighOf(t, f0, v1)
             b1 == HighOf(t, f1, v1)
             w == Released(t2, n)
  <1>1. /\ n \in Live(t) /\ n \in toBeProcessed /\ t[n].level = v0 /\ v0 \in Variables /\ v1 \in Variables
        /\ Makes(t, t1, v0, a0, b0, r0) /\ Makes(t1, t2, v0, a1, b1, r1)
        /\ u = [w EXCEPT ![n].level = v1, ![n].low = r0, ![n].high = r1]
    BY DEF Swaps
  <1>2. n \in Known(t) /\ f0 \in Known(t) /\ f1 \in Known(t) /\ n \notin {0, 1}
    BY <1>1, TableFacts DEF TableOK, Shape, Facts, Known
  <1>3. TableOK(t1) /\ TableOK(t2) /\ Grows(t, t1) /\ Grows(t1, t2) /\ r0 \in Known(t1) /\ r1 \in Known(t2)
    BY <1>1 DEF Makes
  <1>4. Grows(t, t2) /\ r0 \in Known(t2)
    BY <1>3, GrowsTwice DEF Grows
  <1>5. ASSUME NEW m \in Live(t) PROVE m \in Live(t2)
    <2>1. m \in Known(t) /\ m \notin {0, 1}
      BY TableFacts DEF TableOK, Facts, Known
    <2>2. QED
      BY <1>4, <2>1 DEF Grows, Known
  <1>6. n \in Live(t2)
    BY <1>1, <1>5
  <1>7. SameNodes(t2, w)
    BY <1>3, <1>6, ReleasedKeeps
  <1>8. /\ a0 \in Known(t) /\ b0 \in Known(t) /\ a1 \in Known(t) /\ b1 \in Known(t)
        /\ \A a \in {a0, a1} : a = f0 \/ (f0 \in Live(t) /\ a \in {t[f0].low, t[f0].high})
        /\ \A a \in {b0, b1} : a = f1 \/ (f1 \in Live(t) /\ a \in {t[f1].low, t[f1].high})
    BY <1>1, <1>2, Cofactored
  <1>9. Redirects(w, u, n, v1, r0, r1) /\ TableOK(w) /\ Live(w) = Live(t2) /\ Known(w) = Known(t2) /\ Grows(t2, w)
    <2> HIDE DEF w
    <2>1. TableOK(w) /\ Live(w) = Live(t2) /\ Known(w) = Known(t2) /\ Grows(t2, w)
      BY <1>3, <1>7, SameGrows
    <2>2. Redirects(w, u, n, v1, r0, r1)
      BY <1>1, <1>3, <1>4, <1>6, <2>1, RedirectedRecord
    <2>3. QED
      BY <2>1, <2>2
  <1> HIDE DEF w, a0, b0, a1, b1
  <1>10. Grows(t, w) /\ \A m \in Known(t) : w[m].level = t[m].level /\ w[m].low = t[m].low /\ w[m].high = t[m].high
    BY <1>4, <1>9, GrowsTwice DEF Grows
  <1>11. Has(w, v0, a0, b0, r0) /\ Has(w, v0, a1, b1, r1)
    <2>1. Has(t1, v0, a0, b0, r0)
      BY <1>1, <1>3, <1>8 DEF Makes, Has, Grows
    <2>2. Has(t2, v0, a1, b1, r1)
      BY <1>1, <1>4, <1>8 DEF Makes, Has, Grows
    <2>3. Has(t2, v0, a0, b0, r0)
      BY <1>3, <2>1, HasStays
    <2>4. QED
      BY <1>3, <1>9, <2>2, <2>3, HasStays
  <1>12. \A a \in {a0, b0, a1, b1} : Near(w, n, a)
    <2>1. w[n].low = f0 /\ w[n].high = f1
      BY <1>2, <1>10
    <2>2. \A f \in {f0, f1} : w[f].low = t[f].low /\ w[f].high = t[f].high /\ (f \in Live(t) => f \in Live(w))
      BY <1>2, <1>5, <1>9, <1>10
    <2>3. ASSUME NEW f \in {f0, f1}, NEW a, a = f \/ (f \in Live(t) /\ a \in {t[f].low, t[f].high})
          PROVE  Near(w, n, a)
      <3>1. f \in {w[n].low, w[n].high} /\ (a = f \/ (f \in Live(w) /\ a \in {w[f].low, w[f].high}))
        BY <2>1, <2>2, <2>3
      <3>2. QED
        BY <3>1 DEF Near
    <2>4. QED
      BY <1>8, <2>3
  <1>13. TableOK(u) /\ Live(u) = Live(w) /\ Known(u) = Known(w)
    <2>1. ASSUME NEW r \in {r0, r1}
          PROVE  Near(w, n, r) \/ (r \in Live(w) /\ r # n /\ Near(w, n, w[r].low) /\ Near(w, n, w[r].high))
      BY <1>1, <1>11, <1>12 DEF Has
    <2>2. n \in Live(w) /\ r0 \in Known(w) /\ r1 \in Known(w) /\ v1 \in Variables
      BY <1>1, <1>3, <1>4, <1>6, <1>9
    <2>3. QED
      BY <1>9, <2>1, <2>2, RedirectedTable
  <1>14. ASSUME NEW f, NEW g, Meaning(t, Lev(t), f), Meaning(u, Lev(u), g) PROVE \A m \in Known(t) : g[m] = f[m]
    <2>1. PICK h : Meaning(w, Lev(w), h)
      BY <1>9, MeaningExists
    <2>2. \A m \in Known(t) : h[m] = f[m]
      <3>1. Live(t) \subseteq Live(w)
        BY <1>5, <1>9
      <3>2. ASSUME NEW m \in Live(t) PROVE Lev(w)[m] = Lev(t)[m] /\ w[m].low = t[m].low /\ w[m].high = t[m].high
        BY <1>10, <3>1 DEF Lev, Known
      <3>3. QED
        BY <1>14, <2>1, <3>1, <3>2, MeaningKept
    <2>3. h[n] = Branch(v0, h[f0], h[f1])
      BY <1>1, <1>2, <1>6, <1>9, <1>10, <2>1 DEF Meaning, Lev
    <2>4. h[f0] = Branch(v1, h[a0], h[a1]) /\ h[f1] = Branch(v1, h[b0], h[b1])
      <3>1. ASSUME NEW e \in {f0, f1} PROVE LowOf(w, e, v1) = LowOf(t, e, v1) /\ HighOf(w, e, v1) = HighOf(t, e, v1)
        BY <1>2, <1>10 DEF LowOf, HighOf
      <3>2. \A e \in {f0, f1} : h[e] = Branch(v1, h[LowOf(w, e, v1)], h[HighOf(w, e, v1)])
        <4>1. \A e \in {f0, f1} : e \in Known(w)
          BY <1>2, <1>10 DEF Grows
        <4>2. QED
          BY <1>1, <1>9, <2>1, <4>1, Cofactored
      <3>3. QED
        BY <3>1, <3>2 DEF a0, a1, b0, b1
    <2>5. h[r0] = Branch(v0, h[a0], h[b0]) /\ h[r1] = Branch(v0, h[a1], h[b1])
      BY <1>9, <1>11, <2>1, HasBranch
    <2>6. h[n] = Branch(v1, h[r0], h[r1])
      <3>1. h[n] = Branch(v0, Branch(v1, h[a0], h[a1]), Branch(v1, h[b0], h[b1]))
        BY <2>3, <2>4
      <3>2. QED
        BY <2>5, <3>1, BranchSwap
    <2>7. \A m \in Known(w) : g[m] = h[m]
      BY <1>6, <1>9, <1>13, <1>14, <2>1, <2>6, RedirectedMeaning
    <2>8. QED
      BY <1>10, <2>2, <2>7 DEF Grows
  <1>15. Stay(t, u)
    BY <1>5, <1>9, <1>10, <1>13, <1>14 DEF Stay, Grows
  <1>16. ASSUME NEW m \in Known(t), m # n PROVE u[m].level = t[m].level
    <2>1. m \in Slots(w)
      BY <1>9, <1>10, TableFacts DEF TableOK, Facts, Grows
    <2>2. QED
      BY <1>9, <1>10, <1>16, <2>1 DEF Redirects
  <1>17. QED
    BY <1>3, <1>4, <1>6, <1>9, <1>13, <1>15, <1>16 DEF w

\* The counts still back the references.
LEMMA SwapsCounts ==
  ASSUME NEW t, TableOK(t), NEW n, NEW v0, NEW v1, NEW t1, NEW r0, NEW t2, NEW r1, NEW u,
         Swaps(t, n, v0, v1, t1, r0, t2, r1, u), Backs(t, t1, r0), Backs(t1, t2, r1),
         NEW R, SessionOK(t, R)
  PROVE  SessionOK(u, R)
  <1> DEFINE w == Released(t2, n)
             C0 == Claims(t) \cup RootsOf(R)
             k0 == <<n, "new low", r0>>
             k1 == <<n, "new high", r1>>
             kl == <<n, "low", t[n].low>>
             kh == <<n, "high", t[n].high>>
             j0 == <<n, "low", r0>>
             j1 == <<n, "high", r1>>
  <1>1. /\ TableOK(t1) /\ TableOK(t2) /\ TableOK(u) /\ Grows(t, t1) /\ Grows(t, t2) /\ n \in Live(t2)
        /\ Live(u) = Live(t2) /\ Stay(t, u)
        /\ Redirects(w, u, n, v1, r0, r1) /\ r0 \in Known(t2) /\ r1 \in Known(t2) /\ n \in Live(t)
    <2>1. n \in Live(t)
      BY DEF Swaps
    <2>2. QED
      BY <2>1, SwapsTable
  <1>2. /\ SameNodes(t2, w) /\ TableOK(w) /\ Live(w) = Live(t2) /\ Known(w) = Known(t2) /\ Claims(w) = Claims(t2)
    <2>1. SameNodes(t2, w)
      BY <1>1, ReleasedKeeps
    <2> HIDE DEF w
    <2>2. QED
      BY <1>1, <2>1, SameTable
  <1>3. t2[n].low = t[n].low /\ t2[n].high = t[n].high
    BY <1>1 DEF Grows, Known
  <1>4. CoversOwn(t, C0)
    <2>1. \A j \in C0 : j[3] \in Known(t)
      BY DEF Claims, RootsOf, SessionOK, TableOK, Shape, Known
    <2>2. QED
      BY <2>1 DEF SessionOK, CoversOwn, Covers
  <1>5. k0[3] = r0 /\ k1[3] = r1 /\ j0[3] = r0 /\ j1[3] = r1
    OBVIOUS
  <1>6. k0 # kl /\ k0 # kh /\ k1 # kl /\ k1 # kh /\ k0 # k1 /\ j0 # k1
    OBVIOUS
  <1>7. kl \in C0 /\ kh \in C0
    BY <1>1 DEF Claims
  <1>8. /\ \A j \in C0 : j[1] # n \/ j[2] = "root" \/ j = kl \/ j = kh
        /\ \A j \in Claims(t2) : j[1] # n \/ j = kl \/ j = kh
    BY <1>3 DEF Claims, RootsOf
  <1>9. /\ kl[1] = n /\ kh[1] = n /\ k0[1] = n /\ k1[1] = n
        /\ kl[2] # "root" /\ kh[2] # "root" /\ k0[2] # "root" /\ k1[2] # "root"
    OBVIOUS
  <1>10. \A j \in RootsOf(R) : j[2] = "root"
    BY DEF RootsOf
  <1>11. \A j \in Claims(u) : j = j0 \/ j = j1 \/ (j \in Claims(t2) /\ j[1] # n)
    <2>1. ASSUME NEW m \in Live(u) PROVE \/ m = n /\ u[m].low = r0 /\ u[m].high = r1
                                         \/ m # n /\ m \in Live(t2) /\ u[m].low = t2[m].low /\ u[m].high = t2[m].high
      <3>1. CASE m = n
        BY <1>1, <3>1 DEF Redirects
      <3>2. CASE m # n
        <4>1. m \in Slots(t2) /\ Slots(w) = Slots(t2)
          BY <1>1, <1>2, TableFacts DEF TableOK, Facts, SameNodes
        <4>2. u[m] = w[m] /\ w[m].low = t2[m].low /\ w[m].high = t2[m].high
          BY <1>1, <1>2, <3>2, <4>1 DEF Redirects, SameNodes
        <4>3. QED
          BY <1>1, <3>2, <4>2
      <3>3. QED
        BY <3>1, <3>2
    <2>2. QED
      BY <2>1 DEF Claims
  <1> HIDE DEF C0, k0, k1, kl, kh, j0, j1
  <1>12. PICK C1 : C0 \cup {k0} \subseteq C1 /\ CoversOwn(t1, C1)
    BY <1>4, <1>5 DEF Backs
  <1>13. PICK C2 : C1 \cup {k1} \subseteq C2 /\ CoversOwn(t2, C2)
    BY <1>5, <1>12 DEF Backs
  <1> DEFINE C3 == (C2 \ {kl}) \ {kh}
             C4 == (C3 \ {k0}) \cup {j0}
             C5 == (C4 \ {k1}) \cup {j1}
             L == Live(t2)
             D == Slots(w)
  <1>14. Backed(L, Counts(w), C3)
    <2>1. Backed(L, Counts(t2), C2) /\ kl \in C2 /\ kh \in C2
      BY <1>7, <1>12, <1>13 DEF CoversOwn, Covers
    <2>2. kl = <<n, "low", t2[n].low>> /\ kh = <<n, "high", t2[n].high>>
      BY <1>3 DEF kl, kh
    <2> HIDE DEF kl, kh
    <2>3. QED
      BY <1>1, <2>1, <2>2, ReleasedKeeps
  <1>15. Counts(w) \in [D -> 0..MaxRef] /\ L \in SUBSET D /\ \A m \in D : w[m].refcou \in 0..MaxRef
    BY <1>2, TableFacts DEF TableOK, Facts, Counts
  <1> HIDE DEF w
  <1>16. Backed(L, Counts(w), C4)
    <2>1. k0 \in C3
      BY <1>6, <1>12, <1>13
    <2> HIDE DEF C3
    <2>2. QED
      BY <1>5, <1>14, <1>15, <2>1, ClaimRenamed
  <1>17. Backed(L, Counts(w), C5)
    <2>1. k1 \in C4
      BY <1>6, <1>12, <1>13
    <2> HIDE DEF C4
    <2>2. QED
      BY <1>5, <1>15, <1>16, <2>1, ClaimRenamed
  <1>18. Claims(u) \cup RootsOf(R) \subseteq C5
    <2>1. j0 \in C5 /\ j1 \in C5
      BY <1>6
    <2>2. ASSUME NEW j, j \in C2, j # kl, j # kh, j # k0, j # k1 PROVE j \in C5
      BY <2>2
    <2>3. ASSUME NEW j \in RootsOf(R) PROVE j \in C5
      <3>1. j \in C2
        BY <1>12, <1>13 DEF C0
      <3>2. QED
        BY <1>9, <1>10, <2>2, <3>1
    <2>4. ASSUME NEW j \in Claims(t2), j[1] # n PROVE j \in C5
      <3>1. j \in C2
        BY <1>13 DEF CoversOwn
      <3>2. QED
        BY <1>9, <2>2, <2>4, <3>1
    <2> HIDE DEF C5
    <2>5. QED
      BY <1>11, <2>1, <2>3, <2>4
  <1> HIDE DEF C5, L, D
  <1>19. Backed(Live(u), Counts(u), Claims(u) \cup RootsOf(R))
    <2>1. \A m \in Live(u) : Counts(u)[m] \in Counts(w)[m]..MaxRef
      <3>1. SUFFICES ASSUME NEW m \in Live(u) PROVE Counts(u)[m] \in Counts(w)[m]..MaxRef
        OBVIOUS
      <3>2. m \in Slots(w) /\ m \in Slots(u) /\ Slots(u) = Slots(w)
        BY <1>1, <1>2, <1>15 DEF Redirects, L, D
      <3>3. u[m].refcou = w[m].refcou
        BY <1>1, <3>2 DEF Redirects
      <3>4. Counts(u)[m] = w[m].refcou /\ Counts(w)[m] = w[m].refcou /\ w[m].refcou \in 0..MaxRef
        BY <1>15, <3>2, <3>3 DEF Counts, D
      <3> HIDE DEF Counts
      <3>5. QED
        BY <3>4, BoundsAssumption
    <2>2. Live(u) \in SUBSET L
      BY <1>1 DEF L
    <2>3. QED
      BY <1>15, <1>17, <1>18, <2>1, <2>2, ClaimsFewer
  <1>20. R \subseteq Live(u)
    BY <1>1 DEF Stay, SessionOK
  <1>21. QED
    BY <1>1, <1>19, <1>20 DEF SessionOK

\* Once the table ran full it stays so.
LEMMA RecordFields ==
  ASSUME NEW T, TableRecord(T), NEW x
  PROVE  /\ TableRecord([T EXCEPT !.nodes = x]) /\ [T EXCEPT !.nodes = x].error = T.error
         /\ TableRecord([T EXCEPT !.freenum = x]) /\ [T EXCEPT !.freenum = x].error = T.error
         /\ TableRecord([T EXCEPT !.nodenum = x]) /\ [T EXCEPT !.nodenum = x].error = T.error
         /\ TableRecord([T EXCEPT !.error = x]) /\ [T EXCEPT !.error = x].error = x
  <1> DEFINE a == T.nodes
             b == T.freenum
             c == T.nodenum
             d == T.error
  <1>1. T = [nodes |-> a, freenum |-> b, nodenum |-> c, error |-> d]
    BY DEF TableRecord
  <1> HIDE DEF a, b, c, d
  <1>2. /\ [T EXCEPT !.nodes = x] = [nodes |-> x, freenum |-> b, nodenum |-> c, error |-> d]
        /\ [T EXCEPT !.freenum = x] = [nodes |-> a, freenum |-> x, nodenum |-> c, error |-> d]
        /\ [T EXCEPT !.nodenum = x] = [nodes |-> a, freenum |-> b, nodenum |-> x, error |-> d]
        /\ [T EXCEPT !.error = x] = [nodes |-> a, freenum |-> b, nodenum |-> c, error |-> x]
    BY <1>1
  <1>3. T.error = d
    BY <1>1
  <1>4. QED
    BY <1>2, <1>3 DEF TableRecord

LEMMA ErrorStays ==
  ASSUME NEW T, TableRecord(T), NEW v, NEW low, NEW high, NEW m, m = reorder_makenode(T, v, low, high)
  PROVE  TableRecord(m.t) /\ (T.error => m.t.error)
  <1> DEFINE t == T.nodes
             found == {n \in Chained(T, v) : t[n].low = low /\ t[n].high = high}
             known == IF low = high THEN {low} ELSE found
             grown == IF T.error \/ FreeSlots(t) # {} THEN T ELSE Resized(T)
  <1>1. m = IF known # {} THEN [res |-> Lowest(known), t |-> [T EXCEPT !.nodes = INCREF(@, Lowest(known))]]
            ELSE IF FreeSlots(grown.nodes) = {} THEN [res |-> 0, t |-> [grown EXCEPT !.error = TRUE]]
            ELSE TakeNode(grown, v, low, high)
    BY DEF reorder_makenode
  <1> HIDE DEF known
  <1>2. CASE known # {}
    <2> DEFINE x == INCREF(T.nodes, Lowest(known))
    <2>1. m.t = [T EXCEPT !.nodes = x]
      BY <1>1, <1>2
    <2> HIDE DEF x
    <2>2. TableRecord([T EXCEPT !.nodes = x]) /\ [T EXCEPT !.nodes = x].error = T.error
      BY RecordFields
    <2>3. TableRecord(m.t) /\ m.t.error = T.error
      BY <2>1, <2>2
    <2>4. QED
      BY <2>3
  <1>3. CASE known = {}
    <2>1. TableRecord(grown) /\ grown.error = T.error
      <3>1. CASE grown = T
        BY <3>1
      <3>2. CASE grown = Resized(T) /\ grown # T
        <4> DEFINE old == Cardinality(Slots(T.nodes))
                   size == IF old + MaxIncrease > MaxNodeSize THEN MaxNodeSize ELSE old + MaxIncrease
                   x == T.freenum + size - old
                   y == [n \in 0..(size - 1) |-> IF n < old THEN T.nodes[n]
                                ELSE [level |-> 0, low |-> -1, high |-> 0, refcou |-> 0]]
                   T1 == [T EXCEPT !.freenum = x]
        <4>1. grown = [T1 EXCEPT !.nodes = y]
          BY <3>2 DEF Resized
        <4> HIDE DEF x, y
        <4>2. TableRecord(T1) /\ T1.error = T.error
          BY RecordFields
        <4> HIDE DEF T1, grown
        <4>3. QED
          BY <4>1, <4>2, RecordFields
      <3>3. QED
        BY <3>1, <3>2
    <2> HIDE DEF grown
    <2>2. CASE FreeSlots(grown.nodes) = {}
      <3>1. m.t = [grown EXCEPT !.error = TRUE]
        BY <1>1, <1>3, <2>2
      <3>2. TableRecord([grown EXCEPT !.error = TRUE]) /\ [grown EXCEPT !.error = TRUE].error = TRUE
        BY <2>1, RecordFields
      <3>3. TableRecord(m.t) /\ m.t.error = TRUE
        BY <3>1, <3>2
      <3>4. QED
        BY <3>3
    <2>3. CASE FreeSlots(grown.nodes) # {}
      <3> DEFINE n == Lowest(FreeSlots(grown.nodes))
                 made == [grown.nodes EXCEPT ![n] = [level |-> v, low |-> low, high |-> high, refcou |-> 1]]
                 x == INCREF(INCREF(made, low), high)
                 g1 == [grown EXCEPT !.nodes = x]
                 y == g1.freenum - 1
                 g2 == [g1 EXCEPT !.freenum = y]
                 z == [g2.nodenum EXCEPT ![v] = @ + 1]
      <3>1. m.t = [g2 EXCEPT !.nodenum = z]
        BY <1>1, <1>3, <2>3 DEF TakeNode
      <3> HIDE DEF x
      <3>2. TableRecord(g1) /\ g1.error = grown.error
        BY <2>1, RecordFields
      <3> HIDE DEF g1, y
      <3>3. TableRecord(g2) /\ g2.error = grown.error
        BY <3>2, RecordFields
      <3> HIDE DEF g2, z
      <3>4. TableRecord([g2 EXCEPT !.nodenum = z]) /\ [g2 EXCEPT !.nodenum = z].error = g2.error
        BY <3>3, RecordFields
      <3>5. TableRecord(m.t) /\ m.t.error = T.error
        BY <2>1, <3>1, <3>3, <3>4
      <3>6. QED
        BY <3>5
    <2>4. QED
      BY <2>2, <2>3
  <1>4. QED
    BY <1>2, <1>3

\* One node of a swap, unless the table ran full.
LEMMA SwapNodeKeeps ==
  ASSUME SessionOK(bddnodes, extroots), toBeProcessed \subseteq Live(bddnodes),
         NEW v0, v0 = var0, v0 \in Variables, NEW v1, v1 = Below(var0), v1 \in Variables,
         NEW n, SwapNode(n), bddnodes[n].level = v0, ~bdderrorcond',
         NEW u, u = bddnodes'
  PROVE  /\ ~bdderrorcond /\ SessionOK(u, extroots) /\ Stay(bddnodes, u)
         /\ \A m \in Known(bddnodes) : m # n => u[m].level = bddnodes[m].level
  <1> DEFINE t == bddnodes
             f0 == t[n].low
             f1 == t[n].high
             now == [nodes |-> bddnodes, freenum |-> bddfreenum, nodenum |-> nodenum, error |-> bdderrorcond]
             a0 == LowOf(t, f0, v1)
             b0 == LowOf(t, f1, v1)
             a1 == HighOf(t, f0, v1)
             b1 == HighOf(t, f1, v1)
             m0 == reorder_makenode(now, v0, a0, b0)
             t1 == m0.t.nodes
             m1 == reorder_makenode(m0.t, v0, a1, b1)
             t2 == m1.t.nodes
  <1>1. /\ n \in toBeProcessed /\ n \in Live(t)
        /\ u = [Released(t2, n) EXCEPT ![n].level = v1, ![n].low = m0.res, ![n].high = m1.res]
        /\ ~m1.t.error
    BY DEF SwapNode
  <1>2. TableRecord(now) /\ now.nodes = t /\ now.error = bdderrorcond
    BY DEF TableRecord
  <1>3. TableOK(t)
    BY DEF SessionOK
  <1>4. f0 \in Known(t) /\ f1 \in Known(t)
    BY <1>1, <1>3 DEF TableOK, Shape
  <1>5. a0 \in Known(t) /\ b0 \in Known(t) /\ a1 \in Known(t) /\ b1 \in Known(t)
    BY <1>3, <1>4, Cofactored
  <1> HIDE DEF now, a0, b0, a1, b1, m1
  <1>6. TableRecord(m0.t)
    BY <1>2, ErrorStays
  <1>7. ~m0.t.error
    BY <1>1, <1>6, ErrorStays DEF m1
  <1> HIDE DEF m0
  <1>8. Makes(t, t1, v0, a0, b0, m0.res) /\ Backs(t, t1, m0.res) /\ ~bdderrorcond
    BY <1>2, <1>3, <1>5, <1>7, MakenodeMakes DEF m0
  <1>9. TableOK(t1) /\ Grows(t, t1) /\ toBeProcessed \subseteq Live(t1) /\ a1 \in Known(t1) /\ b1 \in Known(t1)
    <2>1. TableOK(t1) /\ Grows(t, t1)
      BY <1>8 DEF Makes
    <2>2. \A m \in Live(t) : m \notin {0, 1}
      BY <1>3, TableFacts DEF TableOK, Facts
    <2>3. QED
      BY <1>5, <2>1, <2>2 DEF Grows, Known
  <1>10. Makes(t1, t2, v0, a1, b1, m1.res) /\ Backs(t1, t2, m1.res)
    BY <1>1, <1>6, <1>9, MakenodeMakes DEF m1
  <1>11. Swaps(t, n, v0, v1, t1, m0.res, t2, m1.res, u)
    BY <1>1, <1>8, <1>10 DEF Swaps, a0, b0, a1, b1
  <1> HIDE DEF t1, t2
  <1>12. SessionOK(u, extroots)
    BY <1>3, <1>8, <1>10, <1>11, SwapsCounts
  <1>13. Stay(t, u) /\ \A m \in Known(t) : m # n => u[m].level = t[m].level
    BY <1>3, <1>11, SwapsTable
  <1>14. QED
    BY <1>8, <1>12, <1>13

----------------------------------------------------------------------------
\* reorder_localGbc: nodes without references are freed.

LEMMA ZeroStays ==
  ASSUME NEW t, TableOK(t), NEW n \in Live(t), NEW m \in Slots(t), t[m].refcou = 0
  PROVE  Released(t, n)[m].refcou = 0
  <1> DEFINE low == t[n].low
             high == t[n].high
             t1 == DECREF(t, low)
             u == DECREF(t1, high)
  <1>1. low \in Slots(t) /\ high \in Slots(t)
    BY TableFacts DEF TableOK, Shape, Facts
  <1>2. ASSUME NEW w, TableOK(w), NEW x \in Slots(w), NEW j \in Slots(w), w[j].refcou = 0
        PROVE  DECREF(w, x)[j].refcou = 0
    <2>1. SameNodes(w, DECREF(w, x)) /\ Counts(DECREF(w, x)) = Decreased(Counts(w), x)
      BY <1>2, DecrefTable
    <2>2. Counts(w) \in [Slots(w) -> 0..MaxRef] /\ Counts(w)[j] = 0
      BY <1>2, TableFacts DEF TableOK, Facts, Counts
    <2>3. Decreased(Counts(w), x)[j] = 0
      <3>1. CASE x = j
        BY <2>2, <3>1 DEF Decreased
      <3>2. CASE x # j
        <4> DEFINE c == Counts(w)
        <4>1. c \in [Slots(w) -> 0..MaxRef] /\ c[j] = 0
          BY <2>2
        <4> HIDE DEF c
        <4>2. Decreased(c, x)[j] = 0
          BY <1>2, <3>2, <4>1 DEF Decreased
        <4>3. QED
          BY <4>2 DEF c
      <3>3. QED
        BY <3>1, <3>2
    <2>4. j \in Slots(DECREF(w, x))
      BY <1>2, <2>1 DEF SameNodes
    <2> DEFINE v == DECREF(w, x)
    <2>5. Counts(v)[j] = 0 /\ j \in Slots(v)
      BY <2>1, <2>3, <2>4
    <2> HIDE DEF v
    <2>6. v[j].refcou = 0
      BY <2>5 DEF Counts
    <2>7. QED
      BY <2>6 DEF v
  <1>3. TableOK(t1) /\ Slots(t1) = Slots(t) /\ t1[m].refcou = 0
    <2>1. SameNodes(t, t1)
      BY <1>1, DecrefTable
    <2>2. t1[m].refcou = 0
      BY <1>1, <1>2
    <2> HIDE DEF t1
    <2>3. QED
      BY <2>1, <2>2, SameTable DEF SameNodes
  <1> HIDE DEF t1
  <1>4. u[m].refcou = 0
    BY <1>1, <1>2, <1>3
  <1>5. QED
    BY <1>4 DEF Released, t1

\* u is t without the node n.
Without(t, u, n) ==
  /\ Slots(u) = Slots(t) /\ u \in [Slots(t) -> Node] /\ Live(u) = Live(t) \ {n} /\ Keeps(t, u)
  /\ \A m \in Live(u) : u[m].level = t[m].level
  /\ \A m \in Slots(t) : t[m].refcou = 0 => u[m].refcou = 0

LEMMA FreesOne ==
  ASSUME NEW t, NEW R, SessionOK(t, R), NEW n \in Live(t), t[n].refcou = 0,
         NEW u, u = [Released(t, n) EXCEPT ![n].low = -1]
  PROVE  SessionOK(u, R) /\ Without(t, u, n)
  <1> DEFINE w == Released(t, n)
             C == Claims(t) \cup RootsOf(R)
             kl == <<n, "low", t[n].low>>
             kh == <<n, "high", t[n].high>>
  <1>1. TableOK(t) /\ Facts(t) /\ Backed(Live(t), Counts(t), C) /\ R \subseteq Live(t)
    BY TableFacts DEF SessionOK, TableOK
  <1>2. SameNodes(t, w) /\ TableOK(w) /\ Facts(w) /\ Live(w) = Live(t) /\ Slots(w) = Slots(t)
    <2>1. SameNodes(t, w)
      BY <1>1, ReleasedKeeps
    <2> HIDE DEF w
    <2>2. QED
      BY <1>1, <2>1, SameTable, TableFacts DEF SameNodes, TableOK
  <1>3. n \in Slots(t) /\ n \notin {0, 1}
    BY <1>1 DEF Facts
  <1>4. kl \in C /\ kh \in C /\ kl[1] = n /\ kh[1] = n /\ kl[2] # "root" /\ kh[2] # "root"
    BY DEF Claims
  <1>5. /\ Slots(u) = Slots(t) /\ u \in [Slots(t) -> Node] /\ u[n].low = -1
        /\ \A m \in Slots(t) : u[m].refcou = w[m].refcou /\ (m # n => u[m] = w[m])
    <2> HIDE DEF w
    <2> DEFINE r == [w[n] EXCEPT !.low = -1]
    <2>1. w[n] \in Node
      BY <1>2, <1>3 DEF Facts
    <2>2. r \in Node /\ r.low = -1 /\ r.refcou = w[n].refcou
      BY <2>1 DEF Node
    <2>3. u = [w EXCEPT ![n] = r] /\ w \in [Slots(t) -> Node]
      BY <1>2 DEF w, SameNodes
    <2> HIDE DEF r
    <2>4. u \in [Slots(t) -> Node] /\ u[n] = r /\ \A m \in Slots(t) : m # n => u[m] = w[m]
      BY <1>3, <2>2, <2>3
    <2>5. QED
      BY <2>2, <2>4 DEF Slots
  <1> HIDE DEF w
  <1>6. \A m \in Slots(t) : m # n => u[m].level = t[m].level /\ u[m].low = t[m].low /\ u[m].high = t[m].high
    BY <1>2, <1>5 DEF SameNodes
  <1>7. Live(u) = Live(t) \ {n}
    <2>1. \A m : m \in Live(u) <=> m \in Slots(u) /\ m \notin {0, 1} /\ u[m].low # -1
      BY DEF Live, Inner, FreeSlots
    <2>2. \A m : m \in Live(t) <=> m \in Slots(t) /\ m \notin {0, 1} /\ t[m].low # -1
      BY DEF Live, Inner, FreeSlots
    <2>3. ASSUME NEW m PROVE m \in Live(u) <=> m \in Live(t) /\ m # n
      <3>1. CASE m = n
        BY <1>5, <2>1, <3>1
      <3>2. CASE m # n
        <4>1. Slots(u) = Slots(t) /\ (m \in Slots(t) => u[m].low = t[m].low)
          BY <1>5, <1>6, <3>2
        <4>2. m \in Live(u) <=> m \in Slots(t) /\ m \notin {0, 1} /\ t[m].low # -1
          BY <2>1, <4>1
        <4>3. QED
          BY <2>2, <3>2, <4>2
      <3>3. QED
        BY <3>1, <3>2
    <2>4. QED
      BY <2>3
  <1>8. \A m \in Live(u) : m \in Slots(t) /\ m # n /\ m \in Live(t)
    BY <1>1, <1>7 DEF Facts
  <1>9. Keeps(t, u) /\ \A m \in Live(u) : u[m].level = t[m].level
    BY <1>6, <1>7, <1>8 DEF Keeps
  <1>10. ASSUME NEW k \in C PROVE k[3] # n
    <2>1. SUFFICES ASSUME k[3] = n PROVE FALSE
      OBVIOUS
    <2>2. k[3] \in Known(t) /\ k[3] \in Live(t)
      BY <2>1 DEF Known
    <2> HIDE DEF C
    <2>3. t[k[3]].refcou > 0
      BY <1>1, <2>2, ChildrenCounted
    <2>4. QED
      BY <2>1, <2>3
  <1>11. \A m \in Live(t) : t[m].low # n /\ t[m].high # n
    <2>1. ASSUME NEW m \in Live(t) PROVE <<m, "low", t[m].low>> \in C /\ <<m, "high", t[m].high>> \in C
      BY DEF Claims
    <2>2. QED
      BY <1>10, <2>1
  <1>12. n \notin R
    <2>1. ASSUME n \in R PROVE <<n, "root", n>> \in C
      BY <2>1 DEF RootsOf
    <2>2. QED
      BY <1>10, <2>1
  <1>13. TableOK(u)
    <2>1. u[0].level = VarNum /\ u[1].level = VarNum
      BY <1>1, <1>3, <1>6 DEF Facts, TableOK, Shape
    <2>2. \A m \in Live(u) : u[m].level \in Levels /\ t[m].low \in Known(u) /\ t[m].high \in Known(u)
      BY <1>1, <1>3, <1>7, <1>8, <1>9, <1>11 DEF TableOK, Shape, Known
    <2>3. QED
      BY <1>1, <1>5, <1>9, <2>1, <2>2, SubTable
  <1>14. Backed(Live(t), Counts(w), (C \ {kl}) \ {kh})
    <2> HIDE DEF C
    <2>1. QED
      BY <1>1, <1>4, ReleasedKeeps DEF w
  <1>15. Claims(u) \cup RootsOf(R) \subseteq (C \ {kl}) \ {kh}
    <2>1. ASSUME NEW k \in Claims(u) PROVE k \in C /\ k[1] # n
      <3>1. PICK m \in Live(u) : k = <<m, "low", u[m].low>> \/ k = <<m, "high", u[m].high>>
        BY DEF Claims
      <3>2. m # n /\ m \in Live(t) /\ u[m].low = t[m].low /\ u[m].high = t[m].high
        BY <1>8, <1>9 DEF Keeps
      <3>3. k = <<m, "low", t[m].low>> \/ k = <<m, "high", t[m].high>>
        BY <3>1, <3>2
      <3>4. QED
        BY <3>2, <3>3 DEF Claims
    <2>2. ASSUME NEW k \in RootsOf(R) PROVE k \in C /\ k[2] = "root"
      BY DEF RootsOf
    <2> HIDE DEF C, kl, kh
    <2>3. QED
      BY <1>4, <2>1, <2>2
  <1>16. Backed(Live(u), Counts(u), Claims(u) \cup RootsOf(R))
    <2> DEFINE C2 == (C \ {kl}) \ {kh}
    <2> HIDE DEF C2
    <2>1. Counts(w) \in [Slots(t) -> 0..MaxRef] /\ Live(t) \in SUBSET Slots(t)
      BY <1>1, <1>2 DEF Facts, Counts
    <2>2. \A m \in Live(u) : Counts(u)[m] \in Counts(w)[m]..MaxRef
      <3>1. SUFFICES ASSUME NEW m \in Live(u) PROVE Counts(u)[m] \in Counts(w)[m]..MaxRef
        OBVIOUS
      <3>2. m \in Slots(w) /\ m \in Slots(u) /\ u[m].refcou = w[m].refcou /\ w[m].refcou \in 0..MaxRef
        BY <1>2, <1>5, <1>8 DEF Facts
      <3>3. Counts(u)[m] = w[m].refcou /\ Counts(w)[m] = w[m].refcou
        BY <3>2 DEF Counts
      <3> HIDE DEF Counts
      <3>4. QED
        BY <3>2, <3>3, BoundsAssumption
    <2>3. Live(u) \in SUBSET Live(t)
      BY <1>7
    <2>4. Backed(Live(t), Counts(w), C2) /\ Claims(u) \cup RootsOf(R) \subseteq C2
      BY <1>14, <1>15 DEF C2
    <2>5. PICK D, L, L2, c, c2, C1 :
            /\ D = Slots(t) /\ L = Live(t) /\ L2 = Live(u) /\ c = Counts(w) /\ c2 = Counts(u)
            /\ C1 = Claims(u) \cup RootsOf(R)
      OBVIOUS
    <2>6. /\ L \in SUBSET D /\ c \in [D -> 0..MaxRef] /\ Backed(L, c, C2) /\ L2 \in SUBSET L /\ C1 \subseteq C2
          /\ \A m \in L2 : c2[m] \in c[m]..MaxRef
      BY <2>1, <2>2, <2>3, <2>4, <2>5
    <2>7. Backed(L2, c2, C1)
      BY <2>6, ClaimsFewer
    <2>8. QED
      BY <2>5, <2>7
  <1>17. SessionOK(u, R)
    BY <1>1, <1>7, <1>12, <1>13, <1>16 DEF SessionOK
  <1>18. \A m \in Slots(t) : t[m].refcou = 0 => u[m].refcou = 0
    BY <1>1, <1>5, ZeroStays DEF w
  <1>19. QED
    BY <1>5, <1>7, <1>9, <1>17, <1>18 DEF Without

\* The table after the loop.
LEMMA LocallyFreed ==
  ASSUME NEW t, NEW R, SessionOK(t, R), NEW dead \in SUBSET Live(t), \A n \in dead : t[n].refcou = 0
  PROVE  LET u == LocalGbc(t, dead)
         IN  SessionOK(u, R) /\ Keeps(t, u) /\ \A m \in Live(u) : u[m].level = t[m].level
  <1> DEFINE X == Slots(t)
             N == Highest(X)
             Take(x, n) == [Released(x, n) EXCEPT ![n].low = -1]
             Eq(f, n) == IF n = 0 THEN t ELSE IF n \in dead THEN Take(f[n - 1], n) ELSE f[n - 1]
             Right(f) == f = [n \in X |-> IF n = 0 THEN t
                                          ELSE IF n \in dead THEN [Released(f[n - 1], n) EXCEPT ![n].low = -1]
                                          ELSE f[n - 1]]
             swept == CHOOSE f : Right(f)
             Good(x) == /\ SessionOK(x, R) /\ Slots(x) = X /\ Keeps(t, x)
                        /\ \A m \in Live(x) : x[m].level = t[m].level
                        /\ \A m \in dead : x[m].refcou = 0
             V == {x \in [X -> Node] : Good(x)}
             G == [x \in X \X V |-> IF x[1] \in dead /\ x[1] \in Live(x[2]) THEN Take(x[2], x[1]) ELSE x[2]]
  <1>1. LocalGbc(t, dead) = swept[N]
    BY DEF LocalGbc
  <1>2. N \in Nat /\ X = 0..N /\ Shape(t) /\ Facts(t) /\ t \in [X -> Node]
    <2>1. Shape(t) /\ TableOK(t)
      BY DEF SessionOK, TableOK
    <2>2. SameNodes(t, t)
      BY <2>1, SameNodesSelf
    <2>3. QED
      BY <2>1, <2>2, LastSlot, TableFacts DEF SameNodes
  <1>3. ASSUME NEW n \in dead PROVE n \in Live(t) /\ n \in X /\ n # 0
    BY <1>2 DEF Facts
  <1>4. t \in V
    <2>1. Good(t)
      BY DEF Keeps
    <2>2. QED
      BY <1>2, <2>1
  <1>5. \A x \in V : Good(x) /\ x \in [X -> Node]
    OBVIOUS
  <1>6. ASSUME NEW x \in V, NEW n \in dead, n \in Live(x)
        PROVE  Take(x, n) \in V /\ Live(Take(x, n)) = Live(x) \ {n}
    <2> DEFINE u == Take(x, n)
    <2>1. SessionOK(x, R) /\ x[n].refcou = 0 /\ Slots(x) = X /\ Keeps(t, x)
      BY <1>5, <1>6
    <2>2. \A m \in Live(x) : x[m].level = t[m].level
      BY <1>5
    <2>3. SessionOK(u, R) /\ Without(x, u, n)
      BY <1>6, <2>1, FreesOne
    <2> HIDE DEF u
    <2>4. Slots(u) = X /\ u \in [X -> Node] /\ Live(u) = Live(x) \ {n}
      BY <2>1, <2>3 DEF Without
    <2>5. Keeps(t, u) /\ \A m \in Live(u) : u[m].level = t[m].level
      BY <2>1, <2>2, <2>3 DEF Without, Keeps
    <2>6. \A m \in dead : u[m].refcou = 0
      BY <1>3, <1>5, <2>1, <2>3 DEF Without
    <2>7. Good(u)
      BY <2>3, <2>4, <2>5, <2>6
    <2>8. QED
      BY <2>4, <2>7 DEF u
  <1> HIDE DEF Good, V, Take
  <1>7. G \in [X \X V -> V]
    <2>1. ASSUME NEW y \in X \X V
          PROVE  (IF y[1] \in dead /\ y[1] \in Live(y[2]) THEN Take(y[2], y[1]) ELSE y[2]) \in V
      BY <1>6
    <2>2. QED
      BY <2>1
  <1>8. \A n \in X, x \in V : G[<<n, x>>] = IF n \in dead /\ n \in Live(x) THEN Take(x, n) ELSE x
    OBVIOUS
  <1> HIDE DEF G, N, X
  <1>9. PICK f \in [X -> V] : f = [n \in X |-> IF n = 0 THEN t ELSE G[<<n, f[n - 1]>>]]
    <2>1. Loops(X, V, t, G)
      BY <1>2, <1>4, <1>7, SlotLoop DEF X
    <2>2. QED
      BY <2>1 DEF Loops
  <1>10. ASSUME NEW i \in 1..N
         PROVE  /\ i \in X /\ i - 1 \in X /\ i - 1 \in 0..N /\ i \in 0..N /\ i # 0
                /\ f[i - 1] \in V /\ f[i] = IF i \in dead /\ i \in Live(f[i - 1]) THEN Take(f[i - 1], i) ELSE f[i - 1]
    <2>1. i \in X /\ i - 1 \in X /\ i - 1 \in 0..N /\ i \in 0..N /\ i # 0
      BY <1>2
    <2>2. f[i - 1] \in V /\ f[i] = G[<<i, f[i - 1]>>]
      BY <1>9, <2>1
    <2>3. QED
      BY <1>8, <2>1, <2>2
  <1>11. f[0] = t /\ 0 \in X /\ 0 \in 0..N
    BY <1>2, <1>9
  <1> DEFINE P == {i \in 0..N : dead \ (1..i) \subseteq Live(f[i])}
  <1>12. 0..N \subseteq P
    <2>1. 0 \in P
      BY <1>11
    <2>2. ASSUME NEW i \in 1..N, i - 1 \in P PROVE i \in P
      <3>1. dead \ (1..(i - 1)) \subseteq Live(f[i - 1]) /\ i \in 0..N
        BY <1>10, <2>2
      <3>2. 1..i = (1..(i - 1)) \cup {i}
        BY <1>2
      <3>3. Live(f[i - 1]) \ {i} \subseteq Live(f[i])
        <4>1. CASE i \in dead /\ i \in Live(f[i - 1])
          <5>1. f[i] = Take(f[i - 1], i) /\ f[i - 1] \in V
            BY <1>10, <4>1
          <5>2. Live(Take(f[i - 1], i)) = Live(f[i - 1]) \ {i}
            BY <1>6, <4>1, <5>1
          <5>3. QED
            BY <5>1, <5>2
        <4>2. CASE ~(i \in dead /\ i \in Live(f[i - 1]))
          BY <1>10, <4>2
        <4>3. QED
          BY <4>1, <4>2
      <3>4. dead \ (1..i) \subseteq Live(f[i])
        BY <3>1, <3>2, <3>3
      <3>5. QED
        BY <3>1, <3>4
    <2> HIDE DEF P
    <2>3. N \in Nat
      BY <1>2
    <2>4. QED
      BY <2>1, <2>2, <2>3, UpTo
  <1>13. ASSUME NEW i \in 1..N PROVE f[i] = IF i \in dead THEN Take(f[i - 1], i) ELSE f[i - 1]
    <2>1. i - 1 \in P
      BY <1>10, <1>12
    <2>2. i \notin 1..(i - 1)
      BY <1>2
    <2>3. i \in dead => i \in Live(f[i - 1])
      BY <2>1, <2>2
    <2>4. QED
      BY <1>10, <2>3
  <1>14. Right(f)
    <2>1. ASSUME NEW n \in X PROVE f[n] = Eq(f, n)
      <3>1. CASE n = 0
        BY <1>9, <3>1
      <3>2. CASE n # 0
        <4>1. n \in 1..N
          BY <1>2, <3>2
        <4>2. QED
          BY <1>13, <3>2, <4>1
      <3>3. QED
        BY <3>1, <3>2
    <2> HIDE DEF Eq
    <2>2. f = [n \in X |-> Eq(f, n)]
      BY <1>9, <2>1
    <2>3. QED
      BY <2>2 DEF Eq, Take
  <1>15. Right(swept)
    <2> HIDE DEF Right
    <2>1. QED
      BY <1>14
  <1> HIDE DEF swept
  <1>16. swept[0] = t /\ \A i \in 1..N : swept[i] = IF i \in dead THEN Take(swept[i - 1], i) ELSE swept[i - 1]
    <2>1. swept[0] = t
      BY <1>11, <1>15
    <2>2. ASSUME NEW i \in 1..N PROVE swept[i] = IF i \in dead THEN Take(swept[i - 1], i) ELSE swept[i - 1]
      <3>1. i \in X /\ i # 0
        BY <1>10
      <3>2. QED
        BY <1>15, <3>1 DEF Take
    <2>3. QED
      BY <2>1, <2>2
  <1> HIDE DEF Right
  <1> DEFINE Q == {i \in 0..N : swept[i] = f[i]}
  <1>17. 0..N \subseteq Q
    <2>1. 0 \in Q
      BY <1>11, <1>16
    <2>2. ASSUME NEW i \in 1..N, i - 1 \in Q PROVE i \in Q
      BY <1>10, <1>13, <1>16, <2>2
    <2> HIDE DEF Q
    <2>3. N \in Nat
      BY <1>2
    <2>4. QED
      BY <2>1, <2>2, <2>3, UpTo
  <1>18. swept[N] = f[N] /\ f[N] \in V
    <2>1. N \in 0..N /\ N \in X
      BY <1>2
    <2>2. N \in Q
      BY <1>17, <2>1
    <2>3. QED
      BY <1>9, <2>1, <2>2
  <1>19. Good(swept[N])
    BY <1>18 DEF V
  <1> DEFINE last == swept[N]
  <1>20. SessionOK(last, R) /\ Keeps(t, last) /\ \A m \in Live(last) : last[m].level = t[m].level
    BY <1>19 DEF Good
  <1>21. QED
    BY <1>1, <1>20

----------------------------------------------------------------------------
\* reorder_done.

LEMMA LevelFound ==
  ASSUME Permutation(bddlevel2var), NEW v \in Variables
  PROVE  bddvar2level(v) \in Levels /\ bddlevel2var[bddvar2level(v)] = v
  <1>1. \E l \in Levels : bddlevel2var[l] = v
    BY DEF Permutation
  <1>2. QED
    BY <1>1 DEF bddvar2level

\* What the collection finds from the roots.
LEMMA ReachedClosed ==
  ASSUME NEW t, NEW roots \in SUBSET Live(t)
  PROVE  /\ roots \subseteq Reached(t, roots) /\ Reached(t, roots) \subseteq Live(t)
         /\ \A n \in Reached(t, roots) : {t[n].low, t[n].high} \cap Live(t) \subseteq Reached(t, roots)
  <1> DEFINE closed == {S \in {roots \cup T : T \in SUBSET (Live(t) \ roots)} :
                          \A n \in S : {t[n].low, t[n].high} \cap Live(t) \subseteq S}
  <1>1. Reached(t, roots) = {n \in Live(t) : \A S \in closed : n \in S}
    BY DEF Reached
  <1>2. \A S \in closed : roots \subseteq S /\ \A n \in S : {t[n].low, t[n].high} \cap Live(t) \subseteq S
    OBVIOUS
  <1> HIDE DEF closed
  <1>3. ASSUME NEW n \in Reached(t, roots), NEW c \in {t[n].low, t[n].high} \cap Live(t) PROVE c \in Reached(t, roots)
    <2>1. \A S \in closed : n \in S
      BY <1>1
    <2>2. \A S \in closed : c \in S
      BY <1>2, <2>1
    <2>3. QED
      BY <1>1, <2>2
  <1>4. QED
    BY <1>1, <1>2, <1>3

LEMMA SessionEnds ==
  ASSUME SessionOK(bddnodes, extroots), Permutation(bddlevel2var), ReorderDone, NEW u, u = bddnodes'
  PROVE  /\ TableOK(u) /\ Keeps(bddnodes, u) /\ extroots \subseteq Live(u)
         /\ \A n \in Live(u) : bddlevel2var[u[n].level] = bddnodes[n].level
         /\ \A n \in extroots : u[n].refcou > 0
  <1> DEFINE t == bddnodes
             roots == {n \in Live(t) : CountAfter(n) > 0}
             kept == Reached(t, roots)
             freed(n) == [level |-> 0, low |-> -1, high |-> t[n].high, refcou |-> 0]
             back(n) == [t[n] EXCEPT !.level = bddvar2level(@), !.refcou = CountAfter(n)]
             entry(n) == IF n < 2 THEN t[n] ELSE IF n \notin kept THEN freed(n) ELSE back(n)
  <1>1. u = [n \in Slots(t) |-> entry(n)]
    BY DEF ReorderDone
  <1>2. TableOK(t) /\ Facts(t) /\ Backed(Live(t), Counts(t), Claims(t) \cup RootsOf(extroots)) /\ extroots \subseteq Live(t)
    BY TableFacts DEF SessionOK, TableOK
  <1>3. ASSUME NEW n \in extroots PROVE t[n].refcou > 0 /\ n \in Live(t)
    <2> DEFINE k == <<n, "root", n>>
    <2>1. k \in Claims(t) \cup RootsOf(extroots) /\ k[3] = n /\ n \in Live(t) /\ n \in Known(t)
      BY <1>2 DEF RootsOf, Known
    <2> HIDE DEF k
    <2>2. t[k[3]].refcou > 0
      BY <1>2, <2>1, ChildrenCounted
    <2>3. QED
      BY <2>1, <2>2
  <1>4. extroots \subseteq roots /\ roots \in SUBSET Live(t)
    BY <1>3 DEF CountAfter
  <1>5. kept \subseteq Live(t) /\ extroots \subseteq kept
        /\ \A n \in kept : {t[n].low, t[n].high} \cap Live(t) \subseteq kept
    <2> HIDE DEF roots
    <2>1. QED
      BY <1>4, ReachedClosed
  <1> HIDE DEF kept, roots
  <1>6. ASSUME NEW n \in Slots(t), ~(n < 2), n \notin kept
        PROVE  entry(n) \in Node /\ entry(n).low = -1
    <2>1. t[n].high \in Nat /\ 0 \in 0..VarNum /\ 0 \in 0..MaxRef
      BY <1>2, BoundsAssumption DEF Facts, Node
    <2>2. freed(n) \in Node /\ freed(n).low = -1
      BY <2>1 DEF Node
    <2>3. QED
      BY <1>6, <2>2
  <1>7. ASSUME NEW n \in kept
        PROVE  /\ entry(n) \in Node /\ entry(n).low = t[n].low /\ entry(n).high = t[n].high
               /\ entry(n).level \in Levels /\ bddlevel2var[entry(n).level] = t[n].level
               /\ entry(n).refcou = CountAfter(n)
    <2>1. n \in Live(t) /\ n \in Slots(t) /\ t[n] \in Node /\ ~(n < 2) /\ t[n].refcou \in 0..MaxRef
      BY <1>2, <1>5 DEF Facts
    <2>2. t[n].level \in Variables
      BY <1>2, <2>1 DEF TableOK, Shape, Levels, Variables
    <2>3. bddvar2level(t[n].level) \in Levels /\ bddlevel2var[bddvar2level(t[n].level)] = t[n].level
      BY <2>2, LevelFound
    <2> DEFINE l == bddvar2level(t[n].level)
               c == CountAfter(n)
               r1 == [t[n] EXCEPT !.level = l]
               r2 == [r1 EXCEPT !.refcou = c]
    <2>4. l \in 0..VarNum /\ c \in 0..MaxRef
      BY <2>1, <2>3, BoundsAssumption DEF Levels, CountAfter
    <2>5. entry(n) = r2
      BY <1>7, <2>1
    <2>6. l \in Levels /\ bddlevel2var[l] = t[n].level
      BY <2>3
    <2> HIDE DEF l, c
    <2>7. r1 \in Node /\ r1.low = t[n].low /\ r1.high = t[n].high /\ r1.level = l
      BY <2>1, <2>4 DEF Node
    <2> HIDE DEF r1
    <2>8. r2 \in Node /\ r2.low = t[n].low /\ r2.high = t[n].high /\ r2.level = l /\ r2.refcou = c
      BY <2>4, <2>7 DEF Node
    <2> HIDE DEF r2, entry
    <2>9. QED
      BY <2>5, <2>6, <2>8 DEF c
  <1>8. ASSUME NEW n \in Slots(t), n < 2 PROVE entry(n) = t[n] /\ entry(n) \in Node
    BY <1>2, <1>8 DEF Facts
  <1> HIDE DEF entry
  <1>9. u \in [Slots(t) -> Node] /\ Slots(u) = Slots(t)
    BY <1>1, <1>6, <1>7, <1>8 DEF Slots
  <1>10. \A n \in Slots(t) : u[n] = entry(n)
    BY <1>1
  <1>11. ASSUME NEW n PROVE n \in Live(u) <=> n \in kept
    <2>1. n \in Live(u) <=> n \in Slots(t) /\ n \notin {0, 1} /\ u[n].low # -1
      BY <1>9 DEF Live, Inner, FreeSlots
    <2>2. CASE n \in kept
      <3>1. n \in Slots(t) /\ n \notin {0, 1} /\ t[n].low # -1
        BY <1>2, <1>5, <2>2 DEF Facts
      <3>2. u[n].low = t[n].low
        BY <1>7, <1>10, <2>2, <3>1
      <3>3. QED
        BY <2>1, <2>2, <3>1, <3>2
    <2>3. CASE n \notin kept
      <3>1. SUFFICES ASSUME n \in Slots(t), n \notin {0, 1} PROVE u[n].low = -1
        BY <2>1, <2>3
      <3>2. ~(n < 2)
        BY <1>2, <3>1 DEF Facts
      <3>3. QED
        BY <1>6, <1>10, <2>3, <3>1, <3>2
    <2>4. QED
      BY <2>2, <2>3
  <1>12. \A n \in kept : n \in Slots(t) /\ n \in Live(t)
    BY <1>2, <1>5 DEF Facts
  <1>13. Keeps(t, u)
    <2>1. \A n \in Live(u) : u[n].low = t[n].low /\ u[n].high = t[n].high
      BY <1>7, <1>10, <1>11, <1>12
    <2>2. QED
      BY <1>11, <1>12, <2>1 DEF Keeps
  <1>14. TableOK(u)
    <2>1. u[0].level = VarNum /\ u[1].level = VarNum
      <3>1. 0 \in Slots(t) /\ 1 \in Slots(t) /\ 0 < 2 /\ 1 < 2
        BY <1>2 DEF Facts
      <3>2. u[0] = t[0] /\ u[1] = t[1]
        BY <1>8, <1>10, <3>1
      <3>3. QED
        BY <1>2, <3>2 DEF TableOK, Shape
    <2>2. ASSUME NEW n \in Live(u) PROVE u[n].level \in Levels /\ t[n].low \in Known(u) /\ t[n].high \in Known(u)
      <3>1. n \in kept /\ n \in Live(t) /\ n \in Slots(t)
        BY <1>11, <1>12
      <3>2. u[n].level \in Levels
        BY <1>7, <1>10, <3>1
      <3>3. ASSUME NEW c \in {t[n].low, t[n].high} PROVE c \in Known(u)
        <4>1. c \in Known(t)
          BY <1>2, <3>1 DEF TableOK, Shape
        <4>2. c \in Live(t) => c \in Live(u)
          BY <1>5, <1>11, <3>1
        <4>3. QED
          BY <4>1, <4>2 DEF Known
      <3>4. QED
        BY <3>2, <3>3
    <2>3. QED
      BY <1>2, <1>9, <1>13, <2>1, <2>2, SubTable
  <1>15. \A n \in Live(u) : bddlevel2var[u[n].level] = t[n].level
    BY <1>7, <1>10, <1>11, <1>12
  <1>16. ASSUME NEW n \in extroots PROVE u[n].refcou > 0 /\ n \in Live(u)
    <2>1. n \in kept /\ n \in Slots(t)
      BY <1>5, <1>12
    <2>2. u[n].refcou = t[n].refcou
      BY <1>7, <1>10, <1>16, <2>1 DEF CountAfter
    <2>3. QED
      BY <1>3, <1>11, <2>1, <2>2
  <1>17. QED
    BY <1>13, <1>14, <1>15, <1>16

----------------------------------------------------------------------------
\* The invariant at the start.

LEMMA StartTable ==
  ASSUME NEW t \in InitialTables
  PROVE  TableOK(t)
  <1> DEFINE size == Cardinality(DOMAIN t)
  <1>1. /\ IsFiniteSet(DOMAIN t) /\ size > 1 /\ DOMAIN t = 0..(size - 1)
        /\ t \in [DOMAIN t -> Node]
        /\ t[0].level = VarNum /\ t[1].level = VarNum
        /\ \A n \in Live(t) : \A c \in {t[n].low, t[n].high} : c \in Known(t) /\ t[n].level < t[c].level
    BY TableAssumption DEF Node
  <1>2. size \in Nat
    BY <1>1, FS_CardinalityType
  <1> HIDE DEF size
  <1>3. \A n \in Known(t) : n \in DOMAIN t /\ t[n] \in Node
    BY <1>1, <1>2 DEF Known, Live, Inner, Slots
  <1>4. ASSUME NEW n \in Known(t) PROVE t[n].level \in 0..VarNum
    <2>1. t[n] \in Node
      BY <1>3
    <2>2. QED
      BY <2>1 DEF Node
  <1>5. ASSUME NEW n \in Live(t), NEW c \in {t[n].low, t[n].high}
        PROVE  c \in Known(t) /\ t[n].level < t[c].level /\ t[n].level \in 0..VarNum /\ t[c].level \in 0..VarNum
    <2>1. c \in Known(t) /\ n \in Known(t) /\ t[n].level < t[c].level
      BY <1>1 DEF Known
    <2>2. QED
      BY <1>4, <2>1
  <1>6. ASSUME NEW n \in Live(t) PROVE t[n].level \in Levels
    <2>1. t[n].level < t[t[n].low].level /\ t[n].level \in 0..VarNum /\ t[t[n].low].level \in 0..VarNum
      BY <1>5
    <2>2. QED
      BY <2>1, BoundsAssumption DEF Levels
  <1>7. Shape(t)
    BY <1>1, <1>2, <1>5, <1>6 DEF Shape
  <1>8. Acyclic(t)
    <2>1. SUFFICES ASSUME NEW S \in SUBSET Live(t), S # {}
                   PROVE  \E n \in S : t[n].low \notin S /\ t[n].high \notin S
      BY DEF Acyclic
    <2> DEFINE T == {k \in Nat : \E n \in S : k = VarNum - t[n].level}
    <2>2. ASSUME NEW n \in S PROVE VarNum - t[n].level \in T
      <3>1. t[n].level \in 0..VarNum
        BY <1>4, <2>1 DEF Known
      <3>2. VarNum - t[n].level \in Nat
        BY <3>1, BoundsAssumption
      <3>3. QED
        BY <3>2
    <2>3. T # {} /\ T \in SUBSET Nat
      <3>1. PICK n \in S : TRUE
        BY <2>1
      <3>2. VarNum - t[n].level \in T
        BY <2>2
      <3>3. QED
        BY <3>2
    <2>4. \A k \in T : \E n \in S : k = VarNum - t[n].level
      OBVIOUS
    <2> HIDE DEF T
    <2>5. PICK k \in T : \A j \in T : k <= j
      BY <2>3, LeastNatural
    <2>6. PICK n \in S : k = VarNum - t[n].level
      BY <2>4
    <2>7. ASSUME NEW c \in {t[n].low, t[n].high}, c \in S PROVE FALSE
      <3>1. t[n].level < t[c].level /\ t[n].level \in 0..VarNum /\ t[c].level \in 0..VarNum
        BY <1>5, <2>1
      <3>2. k <= VarNum - t[c].level
        BY <2>2, <2>5, <2>7
      <3>3. QED
        BY <2>6, <3>1, <3>2, BoundsAssumption
    <2>8. QED
      BY <2>7
  <1>9. QED
    BY <1>7, <1>8 DEF TableOK

LEMMA ReorderStarts == ClientInit => ReorderInv
  <1>1. SUFFICES ASSUME ClientInit PROVE ReorderInv
    OBVIOUS
  <1>2. InitReorder
    BY <1>1 DEF ClientInit
  <1>3. held = [n \in {m \in Live(bddnodes) : bddnodes[m].refcou > 0} |->
                  [refs |-> bddnodes[n].refcou, function |-> Function[n]]]
    BY <1>1 DEF ClientInit
  <1>4. TableOK(bddnodes)
    BY <1>2, StartTable DEF InitReorder
  <1>5. Permutation(bddlevel2var)
    <2>1. bddlevel2var = [l \in Levels |-> l]
      BY <1>2 DEF InitReorder
    <2>2. QED
      BY <2>1 DEF Permutation, Levels, Variables
  <1>6. OrderOK
    BY <1>2, <1>5 DEF InitReorder, OrderOK
  <1>7. ASSUME NEW n \in DOMAIN held
        PROVE  n \in Live(bddnodes) /\ bddnodes[n].refcou > 0 /\ Function[n] = held[n].function
    <2>1. n \in Live(bddnodes) /\ bddnodes[n].refcou > 0
      BY <1>3
    <2>2. held[n] = [refs |-> bddnodes[n].refcou, function |-> Function[n]]
      BY <1>3, <2>1
    <2>3. QED
      BY <2>1, <2>2
  <1>8. HeldOK /\ OutOfSession
    BY <1>7 DEF HeldOK, OutOfSession
  <1>9. phase = "out"
    BY <1>2 DEF InitReorder
  <1>10. QED
    BY <1>4, <1>6, <1>8, <1>9 DEF ReorderInv, Sound

----------------------------------------------------------------------------
\* The steps, and the order of the levels.

\* Two neighbours change places.
Exchanged(order, new, l) ==
  /\ new \in [Levels -> Variables] /\ new[l] = order[l + 1] /\ new[l + 1] = order[l]
  /\ \A k \in Levels : k # l /\ k # l + 1 => new[k] = order[k]

LEMMA ExchangedOrder ==
  ASSUME NEW order, Permutation(order), NEW l \in Levels, l + 1 \in Levels,
         NEW new, new = [order EXCEPT ![l] = order[l + 1], ![l + 1] = order[l]]
  PROVE  Exchanged(order, new, l) /\ Permutation(new)
  <1>1. order \in [Levels -> Variables] /\ l # l + 1 /\ order[l] \in Variables /\ order[l + 1] \in Variables
    BY DEF Permutation, Levels
  <1>2. Exchanged(order, new, l)
    BY <1>1 DEF Exchanged
  <1> DEFINE at(k) == IF k = l THEN l + 1 ELSE IF k = l + 1 THEN l ELSE k
  <1>3. ASSUME NEW k \in Levels PROVE at(k) \in Levels /\ new[k] = order[at(k)] /\ at(at(k)) = k
    BY <1>1, <1>2 DEF Exchanged
  <1>4. ASSUME NEW i \in Levels, NEW j \in Levels, new[i] = new[j] PROVE i = j
    <2>1. at(i) \in Levels /\ at(j) \in Levels /\ order[at(i)] = order[at(j)]
      BY <1>3, <1>4
    <2> HIDE DEF at
    <2>2. at(i) = at(j)
      BY <2>1 DEF Permutation
    <2>3. QED
      BY <1>3, <2>2
  <1>5. ASSUME NEW v \in Variables PROVE \E k \in Levels : new[k] = v
    <2>1. PICK k \in Levels : order[k] = v
      BY DEF Permutation
    <2> HIDE DEF at
    <2>2. at(k) \in Levels /\ new[at(k)] = order[at(at(k))] /\ at(at(k)) = k
      BY <1>3
    <2>3. QED
      BY <2>1, <2>2
  <1>6. QED
    BY <1>2, <1>4, <1>5 DEF Permutation, Exchanged

\* The variable v goes down a level.
LEMMA SwapOrder ==
  ASSUME Permutation(bddlevel2var), NEW v \in Variables, bddvar2level(v) < VarNum - 1, SwapLevels(v),
         NEW new, new = bddlevel2var', NEW l, l = bddvar2level(v)
  PROVE  /\ l \in Levels /\ l + 1 \in Levels /\ bddlevel2var[l] = v
         /\ Exchanged(bddlevel2var, new, l) /\ Permutation(new)
  <1>1. l \in Levels /\ bddlevel2var[l] = v
    BY LevelFound
  <1>2. l + 1 \in Levels
    BY <1>1, BoundsAssumption DEF Levels
  <1>3. new = [bddlevel2var EXCEPT ![l] = bddlevel2var[l + 1], ![l + 1] = bddlevel2var[l]]
    BY <1>1 DEF SwapLevels
  <1>4. QED
    BY <1>1, <1>2, <1>3, ExchangedOrder

\* Below a variable that is not the last there is another.
LEMMA BelowFound ==
  ASSUME Permutation(bddlevel2var), NEW v \in Variables, bddvar2level(v) < VarNum - 1
  PROVE  Below(v) \in Variables
  <1>1. bddvar2level(v) \in Levels
    BY LevelFound
  <1>2. bddvar2level(v) + 1 \in Levels
    BY <1>1, BoundsAssumption DEF Levels
  <1>3. QED
    BY <1>2 DEF Below, Permutation

----------------------------------------------------------------------------
\* The functions of the client's nodes, inside a session and outside.

OutLevels == [n \in Live(bddnodes) |-> bddlevel2var[bddnodes[n].level]]
InsideOK == TableOK(bddnodes) /\ phase # "out" => Meaning(bddnodes, Lev(bddnodes), Function)
OutsideOK == TableOK(bddnodes) /\ phase = "out" => Meaning(bddnodes, OutLevels, Function)

LEMMA InsideFunction == InsideOK
  <1>1. SUFFICES ASSUME TableOK(bddnodes), phase # "out" PROVE Meaning(bddnodes, Lev(bddnodes), Function)
    BY DEF InsideOK
  <1>2. VariablesOf = Lev(bddnodes)
    BY <1>1 DEF VariablesOf, Lev, VarOf
  <1>3. QED
    BY <1>1, <1>2, FunctionMeaning DEF FunctionOK

LEMMA OutsideFunction == OutsideOK
  <1>1. SUFFICES ASSUME TableOK(bddnodes), phase = "out" PROVE Meaning(bddnodes, OutLevels, Function)
    BY DEF OutsideOK
  <1>2. VariablesOf = OutLevels
    BY <1>1 DEF VariablesOf, OutLevels, VarOf
  <1>3. QED
    BY <1>1, <1>2, FunctionMeaning DEF FunctionOK

LEMMA InsideNext == InsideOK'
  BY InsideFunction, PTL

LEMMA OutsideNext == OutsideOK'
  BY OutsideFunction, PTL

\* The step to a session, in it, or out of it keeps the client's functions.
LEMMA InsideKept ==
  ASSUME TableOK(bddnodes), phase # "out", phase' # "out", HeldOK, held' = held,
         NEW u, u = bddnodes', TableOK(u), DOMAIN held \subseteq Live(u),
         \/ Stay(bddnodes, u)
         \/ Keeps(bddnodes, u) /\ \A n \in Live(u) : u[n].level = bddnodes[n].level
  PROVE  HeldOK'
  <1>1. PICK f : f = Function
    OBVIOUS
  <1>2. PICK g : g = Function'
    OBVIOUS
  <1>3. Meaning(bddnodes, Lev(bddnodes), f)
    BY <1>1, InsideFunction DEF InsideOK
  <1>4. Meaning(u, Lev(u), g)
    <2>1. TableOK(bddnodes')
      OBVIOUS
    <2>2. Meaning(bddnodes, Lev(bddnodes), Function)'
      BY <2>1, InsideNext DEF InsideOK
    <2>3. QED
      BY <1>2, <2>2
  <1>5. \A n \in DOMAIN held : n \in Known(u) /\ n \in Live(bddnodes) /\ n \in Known(bddnodes) /\ f[n] = held[n].function
    BY <1>1 DEF HeldOK, Known
  <1>6. ASSUME NEW n \in DOMAIN held PROVE g[n] = f[n]
    <2>1. CASE Stay(bddnodes, u)
      BY <1>3, <1>4, <1>5, <2>1 DEF Stay
    <2>2. CASE Keeps(bddnodes, u) /\ \A m \in Live(u) : u[m].level = bddnodes[m].level
      <3>1. \A m \in Live(u) : Lev(bddnodes)[m] = Lev(u)[m]
        BY <2>2 DEF Lev, Keeps
      <3>2. \A m \in Known(u) : g[m] = f[m]
        BY <1>3, <1>4, <2>2, <3>1, KeptMeaning
      <3>3. QED
        BY <1>5, <3>2
    <2>3. QED
      BY <2>1, <2>2
  <1>7. \A n \in DOMAIN held : n \in Live(u) /\ g[n] = held[n].function
    BY <1>5, <1>6
  <1>8. QED
    BY <1>2, <1>7 DEF HeldOK

LEMMA StartKept ==
  ASSUME TableOK(bddnodes), phase = "out", phase' # "out", HeldOK, held' = held,
         NEW u, u = bddnodes', TableOK(u), DOMAIN held \subseteq Live(u),
         Keeps(bddnodes, u), \A n \in Live(u) : u[n].level = bddlevel2var[bddnodes[n].level]
  PROVE  HeldOK'
  <1>1. PICK f : f = Function
    OBVIOUS
  <1>2. PICK g : g = Function'
    OBVIOUS
  <1>3. Meaning(bddnodes, OutLevels, f)
    BY <1>1, OutsideFunction DEF OutsideOK
  <1>4. Meaning(u, Lev(u), g)
    <2>1. TableOK(bddnodes')
      OBVIOUS
    <2>2. Meaning(bddnodes, Lev(bddnodes), Function)'
      BY <2>1, InsideNext DEF InsideOK
    <2>3. QED
      BY <1>2, <2>2
  <1>5. \A n \in DOMAIN held : n \in Known(u) /\ f[n] = held[n].function
    BY <1>1 DEF HeldOK, Known
  <1>6. \A m \in Live(u) : OutLevels[m] = Lev(u)[m]
    BY DEF Lev, Keeps, OutLevels
  <1>7. \A m \in Known(u) : g[m] = f[m]
    BY <1>3, <1>4, <1>6, KeptMeaning
  <1>8. \A n \in DOMAIN held : n \in Live(u) /\ g[n] = held[n].function
    BY <1>5, <1>7
  <1>9. QED
    BY <1>2, <1>8 DEF HeldOK

LEMMA EndKept ==
  ASSUME TableOK(bddnodes), phase # "out", phase' = "out", HeldOK, held' = held, bddlevel2var' = bddlevel2var,
         NEW u, u = bddnodes', TableOK(u), DOMAIN held \subseteq Live(u),
         Keeps(bddnodes, u), \A n \in Live(u) : bddlevel2var[u[n].level] = bddnodes[n].level
  PROVE  HeldOK'
  <1>1. PICK f : f = Function
    OBVIOUS
  <1>2. PICK g : g = Function'
    OBVIOUS
  <1> DEFINE x == [n \in Live(u) |-> bddlevel2var[u[n].level]]
  <1>3. Meaning(bddnodes, Lev(bddnodes), f)
    BY <1>1, InsideFunction DEF InsideOK
  <1>4. Meaning(u, x, g)
    <2>1. TableOK(bddnodes')
      OBVIOUS
    <2>2. Meaning(bddnodes, OutLevels, Function)'
      BY <2>1, OutsideNext DEF OutsideOK
    <2>3. OutLevels' = x
      BY DEF OutLevels
    <2>4. QED
      BY <1>2, <2>2, <2>3
  <1>5. \A n \in DOMAIN held : n \in Known(u) /\ f[n] = held[n].function
    BY <1>1 DEF HeldOK, Known
  <1>6. \A m \in Live(u) : Lev(bddnodes)[m] = x[m]
    BY DEF Lev, Keeps
  <1> HIDE DEF x
  <1>7. \A m \in Known(u) : g[m] = f[m]
    BY <1>3, <1>4, <1>6, KeptMeaning
  <1>8. \A n \in DOMAIN held : n \in Live(u) /\ g[n] = held[n].function
    BY <1>5, <1>7
  <1>9. QED
    BY <1>2, <1>8 DEF HeldOK

----------------------------------------------------------------------------
\* Every step keeps the invariant.

RequestFor(r) ==
  /\ r.op = "setvarorder" => r.order \in Orders
  /\ r.op = "swapvar" =>
       /\ r.v1 \in Variables /\ r.v2 \in Variables
       /\ r.l1 = bddvar2level(r.v1) /\ r.l2 = bddvar2level(r.v2) /\ r.l1 < r.l2

LEMMA InitStep ==
  ASSUME ReorderInv, held' = held, NEW r, RequestFor(r), ReorderInit(r)
  PROVE  ReorderInv'
  <1> DEFINE start == [refcou |-> [n \in Slots(bddnodes) |-> bddnodes[n].refcou],
                       nodenum |-> [v \in Variables |-> 0], dep |-> {}, iact |-> {}]
  <1>1. /\ phase = "out" /\ phase' = "in" /\ request' = r
        /\ bdderrorcond' = bdderrorcond /\ bddlevel2var' = bddlevel2var /\ toBeProcessed' = toBeProcessed
    BY DEF ReorderInit
  <1>2. PICK R : R = extroots'
    OBVIOUS
  <1>3. PICK u : u = bddnodes'
    OBVIOUS
  <1>4. R = {n \in Live(bddnodes) : bddnodes[n].refcou > 0}
    BY <1>2 DEF ReorderInit
  <1>5. PICK s : s = MarkRoots(start, R)
    OBVIOUS
  <1>6. OrderOK'
    BY <1>1 DEF ReorderInv, OrderOK, RequestFor
  <1>7. ASSUME ~bdderrorcond PROVE Sound'
    <2>1. TableOK(bddnodes) /\ HeldOK /\ OutOfSession /\ Permutation(bddlevel2var)
      BY <1>1, <1>7 DEF ReorderInv, Sound, OrderOK
    <2>2. SessionOK(u, R) /\ Keeps(bddnodes, u) /\ \A n \in Live(u) : u[n].level = VarAt(n)
      <3>1. u = Swept(ByVariable(s.refcou))
        BY <1>2, <1>3, <1>5 DEF ReorderInit
      <3>2. QED
        BY <1>4, <1>5, <2>1, <3>1, SessionStarts
    <2>3. DOMAIN held \subseteq R /\ R \subseteq Live(u) /\ TableOK(u)
      BY <1>4, <2>1, <2>2 DEF HeldOK, OutOfSession, SessionOK
    <2>4. \A n \in Live(u) : u[n].level = bddlevel2var[bddnodes[n].level]
      BY <2>2 DEF VarAt
    <2>5. HeldOK'
      BY <1>1, <1>3, <2>1, <2>2, <2>3, <2>4, StartKept
    <2>6. SessionOK(bddnodes', extroots') /\ TableOK(bddnodes') /\ DOMAIN held' \subseteq extroots' /\ toBeProcessed' = {}
      BY <1>1, <1>2, <1>3, <2>2, <2>3 DEF ReorderInv, OrderOK
    <2>7. InSession'
      BY <2>6 DEF InSession
    <2>8. QED
      BY <1>1, <2>5, <2>6, <2>7 DEF Sound
  <1>8. QED
    BY <1>1, <1>6, <1>7 DEF ReorderInv

\* A step that leaves the table, in a session.
LEMMA TableLeft ==
  ASSUME Sound, phase # "out", phase' # "out", held' = held, UNCHANGED <<bddnodes, extroots>>,
         \A n \in toBeProcessed' : n \in Live(bddnodes) /\ bddnodes[n].level = var0'
  PROVE  Sound'
  <1>1. PICK u : u = bddnodes' /\ u = bddnodes
    OBVIOUS
  <1>2. SessionOK(bddnodes, extroots) /\ DOMAIN held \subseteq extroots /\ TableOK(bddnodes) /\ HeldOK
    BY DEF Sound, InSession
  <1>3. DOMAIN held \subseteq Live(u) /\ Keeps(bddnodes, u) /\ \A n \in Live(u) : u[n].level = bddnodes[n].level
    BY <1>1, <1>2 DEF SessionOK, Keeps
  <1>4. HeldOK'
    BY <1>1, <1>2, <1>3, InsideKept
  <1>5. SessionOK(bddnodes', extroots') /\ TableOK(bddnodes')
    BY <1>2
  <1>6. InSession'
    BY <1>2, <1>5 DEF InSession
  <1>7. QED
    BY <1>4, <1>5, <1>6 DEF Sound

LEMMA IndependentStep ==
  ASSUME ReorderInv, held' = held, NEW v \in Variables, SwapIndependent(v)
  PROVE  ReorderInv'
  <1>1. /\ phase = "in" /\ phase' = "in" /\ UNCHANGED <<bddnodes, extroots, bdderrorcond, toBeProcessed, request>>
        /\ bddvar2level(v) < VarNum - 1 /\ SwapLevels(v) /\ Permutation(bddlevel2var)
    BY DEF SwapIndependent, table, session, ReorderInv, OrderOK
  <1>2. Permutation(bddlevel2var')
    BY <1>1, SwapOrder
  <1>3. OrderOK'
    BY <1>1, <1>2 DEF ReorderInv, OrderOK
  <1>4. toBeProcessed' = {}
    BY <1>1 DEF ReorderInv, OrderOK
  <1>5. ~bdderrorcond => Sound'
    BY <1>1, <1>4, TableLeft DEF ReorderInv
  <1>6. QED
    BY <1>1, <1>3, <1>5 DEF ReorderInv

LEMMA DownStep ==
  ASSUME ReorderInv, held' = held, NEW v \in Variables, DownSimple(v)
  PROVE  ReorderInv'
  <1>1. /\ phase = "in" /\ phase' = "swap" /\ UNCHANGED <<bddnodes, extroots, bdderrorcond, bddlevel2var, request>>
        /\ var0' = v /\ bddvar2level(v) < VarNum - 1 /\ toBeProcessed' = Affected(v)
    BY DEF DownSimple, session
  <1>2. \A n \in toBeProcessed' : n \in Live(bddnodes) /\ bddnodes[n].level = var0'
    BY <1>1 DEF Affected
  <1>3. OrderOK'
    BY <1>1 DEF ReorderInv, OrderOK, bddvar2level
  <1>4. ~bdderrorcond => Sound'
    BY <1>1, <1>2, TableLeft DEF ReorderInv
  <1>5. QED
    BY <1>1, <1>3, <1>4 DEF ReorderInv

LEMMA SwapNodeStep ==
  ASSUME ReorderInv, held' = held, NEW n, SwapNode(n)
  PROVE  ReorderInv'
  <1>1. /\ phase = "swap" /\ phase' = "swap" /\ UNCHANGED <<extroots, bddlevel2var, var0, request>>
        /\ n \in toBeProcessed /\ toBeProcessed' = toBeProcessed \ {n}
    BY DEF SwapNode, session
  <1>2. OrderOK'
    BY <1>1 DEF ReorderInv, OrderOK, bddvar2level
  <1>3. PICK u : u = bddnodes'
    OBVIOUS
  <1>4. var0 \in Variables /\ Below(var0) \in Variables
    BY <1>1, BelowFound DEF ReorderInv, OrderOK
  <1>5. bdderrorcond => bdderrorcond'
    <2> DEFINE f0 == bddnodes[n].low
               f1 == bddnodes[n].high
               var1 == Below(var0)
               now == [nodes |-> bddnodes, freenum |-> bddfreenum, nodenum |-> nodenum, error |-> bdderrorcond]
               m0 == reorder_makenode(now, var0, LowOf(bddnodes, f0, var1), LowOf(bddnodes, f1, var1))
               m1 == reorder_makenode(m0.t, var0, HighOf(bddnodes, f0, var1), HighOf(bddnodes, f1, var1))
    <2>1. bdderrorcond' = m1.t.error
      BY DEF SwapNode
    <2>2. TableRecord(now) /\ now.error = bdderrorcond
      BY DEF TableRecord
    <2> HIDE DEF now
    <2>3. TableRecord(m0.t) /\ (now.error => m0.t.error)
      BY <2>2, ErrorStays
    <2> HIDE DEF m0
    <2>4. m0.t.error => m1.t.error
      BY <2>3, ErrorStays
    <2> HIDE DEF m1
    <2>5. QED
      BY <2>1, <2>2, <2>3, <2>4
  <1>6. ASSUME ~bdderrorcond' PROVE Sound'
    <2>1. Sound /\ InSession
      BY <1>1, <1>5, <1>6 DEF ReorderInv, Sound
    <2>2. /\ SessionOK(bddnodes, extroots) /\ DOMAIN held \subseteq extroots /\ TableOK(bddnodes) /\ HeldOK
          /\ \A m \in toBeProcessed : m \in Live(bddnodes) /\ bddnodes[m].level = var0
      BY <2>1 DEF Sound, InSession
    <2>3. toBeProcessed \subseteq Live(bddnodes) /\ bddnodes[n].level = var0
      BY <1>1, <2>2
    <2>4. /\ SessionOK(u, extroots) /\ Stay(bddnodes, u)
          /\ \A m \in Known(bddnodes) : m # n => u[m].level = bddnodes[m].level
      BY <1>3, <1>4, <1>6, <2>2, <2>3, SwapNodeKeeps
    <2>5. TableOK(u) /\ DOMAIN held \subseteq Live(u)
      BY <2>2, <2>4 DEF SessionOK
    <2>6. HeldOK'
      BY <1>1, <1>3, <2>2, <2>4, <2>5, InsideKept
    <2>7. \A m \in toBeProcessed' : m \in Live(u) /\ u[m].level = var0
      BY <1>1, <2>2, <2>4 DEF Stay, Known
    <2>8. SessionOK(bddnodes', extroots') /\ TableOK(bddnodes')
      BY <1>1, <1>3, <2>4, <2>5
    <2>9. InSession'
      BY <1>1, <1>3, <2>2, <2>7, <2>8 DEF InSession
    <2>10. QED
      BY <1>1, <2>6, <2>8, <2>9 DEF Sound
  <1>7. QED
    BY <1>2, <1>6 DEF ReorderInv

LEMMA FinishStep ==
  ASSUME ReorderInv, held' = held, FinishSwap
  PROVE  ReorderInv'
  <1>1. /\ phase = "swap" /\ phase' = "in" /\ UNCHANGED <<extroots, bdderrorcond, toBeProcessed, request>>
        /\ toBeProcessed = {} /\ SwapLevels(var0) /\ bddnodes' = LocalGbc(bddnodes, Dead(Below(var0)))
    BY DEF FinishSwap, session
  <1>2. Permutation(bddlevel2var) /\ var0 \in Variables /\ bddvar2level(var0) < VarNum - 1
    BY <1>1 DEF ReorderInv, OrderOK
  <1>3. Permutation(bddlevel2var')
    BY <1>1, <1>2, SwapOrder
  <1>4. OrderOK'
    BY <1>1, <1>3 DEF ReorderInv, OrderOK
  <1>5. ASSUME ~bdderrorcond PROVE Sound'
    <2> DEFINE dead == Dead(Below(var0))
    <2>1. Sound /\ InSession
      BY <1>1, <1>5 DEF ReorderInv, Sound
    <2>2. SessionOK(bddnodes, extroots) /\ DOMAIN held \subseteq extroots /\ TableOK(bddnodes) /\ HeldOK
      BY <2>1 DEF Sound, InSession
    <2>3. PICK u : u = bddnodes'
      OBVIOUS
    <2>4. dead \in SUBSET Live(bddnodes) /\ \A n \in dead : bddnodes[n].refcou = 0
      BY DEF Dead
    <2> HIDE DEF dead
    <2>5. u = LocalGbc(bddnodes, dead)
      BY <1>1, <2>3 DEF dead
    <2>6. SessionOK(u, extroots) /\ Keeps(bddnodes, u) /\ \A m \in Live(u) : u[m].level = bddnodes[m].level
      BY <2>2, <2>4, <2>5, LocallyFreed
    <2>7. TableOK(u) /\ DOMAIN held \subseteq Live(u)
      BY <2>2, <2>6 DEF SessionOK
    <2>8. HeldOK'
      BY <1>1, <2>2, <2>3, <2>6, <2>7, InsideKept
    <2>9. SessionOK(bddnodes', extroots') /\ TableOK(bddnodes')
      BY <1>1, <2>3, <2>6, <2>7
    <2>10. InSession'
      BY <1>1, <2>2, <2>9 DEF InSession
    <2>11. QED
      BY <1>1, <2>8, <2>9, <2>10 DEF Sound
  <1>6. QED
    BY <1>1, <1>4, <1>5 DEF ReorderInv

LEMMA DoneStep ==
  ASSUME ReorderInv, held' = held, ReorderDone
  PROVE  ReorderInv'
  <1>1. phase = "in" /\ phase' = "out" /\ UNCHANGED <<bdderrorcond, bddlevel2var, toBeProcessed, request>>
    BY DEF ReorderDone
  <1>2. OrderOK'
    BY <1>1 DEF ReorderInv, OrderOK
  <1>3. ASSUME ~bdderrorcond PROVE Sound'
    <2>1. Sound /\ InSession /\ Permutation(bddlevel2var)
      BY <1>1, <1>3 DEF ReorderInv, Sound, OrderOK
    <2>2. SessionOK(bddnodes, extroots) /\ DOMAIN held \subseteq extroots /\ TableOK(bddnodes) /\ HeldOK
      BY <2>1 DEF Sound, InSession
    <2>3. PICK u : u = bddnodes'
      OBVIOUS
    <2>4. /\ TableOK(u) /\ Keeps(bddnodes, u) /\ extroots \subseteq Live(u)
          /\ \A n \in Live(u) : bddlevel2var[u[n].level] = bddnodes[n].level
          /\ \A n \in extroots : u[n].refcou > 0
      BY <2>1, <2>2, <2>3, SessionEnds
    <2>5. DOMAIN held \subseteq Live(u)
      BY <2>2, <2>4
    <2>6. HeldOK'
      BY <1>1, <2>2, <2>3, <2>4, <2>5, EndKept
    <2>7. OutOfSession' /\ TableOK(bddnodes')
      BY <2>2, <2>3, <2>4 DEF OutOfSession
    <2>8. QED
      BY <1>1, <2>6, <2>7 DEF Sound
  <1>4. QED
    BY <1>1, <1>2, <1>3 DEF ReorderInv

\* The variable above the one that is to go up.
LEMMA AboveFound ==
  ASSUME Permutation(bddlevel2var), NEW v \in Variables, bddvar2level(v) > 0
  PROVE  /\ bddvar2level(v) - 1 \in Levels /\ bddlevel2var[bddvar2level(v) - 1] \in Variables
  <1>1. bddvar2level(v) \in Levels
    BY LevelFound
  <1>2. bddvar2level(v) - 1 \in Levels
    BY <1>1, BoundsAssumption DEF Levels
  <1>3. QED
    BY <1>2 DEF Permutation

\* What bdd_setvarorder asks for next.
LEMMA WantedFound ==
  ASSUME OrderOK, request.op = "setvarorder", Misplaced(request.order) # {}
  PROVE  /\ Lowest(Misplaced(request.order)) \in Misplaced(request.order)
         /\ request.order[Lowest(Misplaced(request.order))] \in Variables
  <1>1. request.order \in [Levels -> Variables]
    BY DEF OrderOK, Orders
  <1>2. Misplaced(request.order) \in SUBSET Nat /\ Misplaced(request.order) \subseteq Levels
    BY DEF Misplaced, Levels
  <1>3. Lowest(Misplaced(request.order)) \in Misplaced(request.order)
    BY <1>2, LowestIn
  <1>4. QED
    BY <1>1, <1>2, <1>3

LEMMA DownKeeps ==
  ASSUME ReorderInv, held' = held, NEW v \in Variables, VarDown(v)
  PROVE  ReorderInv'
  BY IndependentStep, DownStep DEF VarDown

LEMMA UpKeeps ==
  ASSUME ReorderInv, held' = held, NEW v \in Variables, VarUp(v)
  PROVE  ReorderInv'
  <1> DEFINE w == bddlevel2var[bddvar2level(v) - 1]
  <1>1. w \in Variables
    BY AboveFound DEF VarUp, ReorderInv, OrderOK
  <1>2. VarDown(w)
    BY DEF VarUp
  <1> HIDE DEF w
  <1>3. QED
    BY <1>1, <1>2, DownKeeps

LEMMA AskedFor ==
  ASSUME Ask
  PROVE  \E r : RequestFor(r) /\ ReorderInit(r)
  <1>1. CASE \E order \in Orders : bdd_setvarorder(order)
    <2>1. PICK order \in Orders : bdd_setvarorder(order)
      BY <1>1
    <2> DEFINE r == [op |-> "setvarorder", order |-> order]
    <2>2. RequestFor(r)
      BY DEF RequestFor
    <2>3. ReorderInit(r)
      BY <2>1 DEF bdd_setvarorder
    <2>4. QED
      BY <2>2, <2>3
  <1>2. CASE \E v1, v2 \in Variables : bdd_swapvar(v1, v2)
    <2>1. PICK v1 \in Variables, v2 \in Variables : bdd_swapvar(v1, v2)
      BY <1>2
    <2> DEFINE r == [op |-> "swapvar", v1 |-> v1, v2 |-> v2,
                     l1 |-> bddvar2level(v1), l2 |-> bddvar2level(v2)]
    <2>2. RequestFor(r)
      BY <2>1 DEF RequestFor, bdd_swapvar
    <2>3. ReorderInit(r)
      BY <2>1 DEF bdd_swapvar
    <2>4. QED
      BY <2>2, <2>3
  <1>3. CASE bdd_reorder
    <2> DEFINE r == [op |-> "reorder"]
    <2>1. RequestFor(r)
      BY DEF RequestFor
    <2>2. ReorderInit(r)
      BY <1>3 DEF bdd_reorder
    <2>3. QED
      BY <2>1, <2>2
  <1>4. QED
    BY <1>1, <1>2, <1>3 DEF Ask

LEMMA ReorderNext ==
  ASSUME ReorderInv, [ClientNext]_<<vars, held>>
  PROVE  ReorderInv'
  <1>1. CASE UNCHANGED <<vars, held>>
    <2>1. UNCHANGED <<bddnodes, bdderrorcond, extroots, bddlevel2var, toBeProcessed, var0, phase, request, held>>
      BY <1>1 DEF vars, table, session
    <2>2. OrderOK'
      BY <2>1 DEF ReorderInv, OrderOK, bddvar2level
    <2>3. ASSUME ~bdderrorcond PROVE Sound'
      <3>1. Sound
        BY <2>3 DEF ReorderInv
      <3>2. CASE phase = "out"
        <4>1. TableOK(bddnodes) /\ HeldOK /\ OutOfSession
          BY <3>1, <3>2 DEF Sound
        <4>2. HeldOK'
          <5>1. PICK f : f = Function
            OBVIOUS
          <5>2. PICK g : g = Function'
            OBVIOUS
          <5>3. Meaning(bddnodes, OutLevels, f)
            BY <3>2, <4>1, <5>1, OutsideFunction DEF OutsideOK
          <5>4. Meaning(bddnodes, OutLevels, g)
            <6>1. TableOK(bddnodes') /\ phase' = "out"
              BY <2>1, <3>2, <4>1
            <6>2. Meaning(bddnodes, OutLevels, Function)'
              BY <6>1, OutsideNext DEF OutsideOK
            <6>3. OutLevels' = OutLevels
              BY <2>1 DEF OutLevels
            <6>4. QED
              BY <2>1, <5>2, <6>2, <6>3
          <5>5. \A n \in Known(bddnodes) : g[n] = f[n]
            BY <4>1, <5>3, <5>4, MeaningKept
          <5>6. \A n \in DOMAIN held : n \in Live(bddnodes) /\ g[n] = held[n].function
            BY <4>1, <5>1, <5>5 DEF HeldOK, Known
          <5>7. QED
            BY <2>1, <5>2, <5>6 DEF HeldOK
        <4>3. OutOfSession' /\ TableOK(bddnodes')
          BY <2>1, <4>1 DEF OutOfSession
        <4>4. QED
          BY <2>1, <3>2, <4>2, <4>3 DEF Sound
      <3>3. CASE phase # "out"
        <4>1. \A n \in toBeProcessed' : n \in Live(bddnodes) /\ bddnodes[n].level = var0'
          BY <2>1, <3>1, <3>3 DEF Sound, InSession
        <4>2. QED
          BY <2>1, <3>1, <3>3, <4>1, TableLeft
      <3>4. QED
        BY <3>2, <3>3
    <2>4. QED
      BY <2>1, <2>2, <2>3 DEF ReorderInv
  <1>2. CASE ClientNext
    <2>1. held' = held /\ NextReorder
      BY <1>2 DEF ClientNext
    <2>2. ASSUME Ask PROVE ReorderInv'
      <3>1. PICK r : RequestFor(r) /\ ReorderInit(r)
        BY <2>2, AskedFor
      <3>2. QED
        BY <2>1, <3>1, InitStep
    <2>3. ASSUME SetVarOrder PROVE ReorderInv'
      <3>1. CASE Misplaced(request.order) = {}
        BY <2>1, <2>3, <3>1, DoneStep DEF SetVarOrder
      <3>2. CASE Misplaced(request.order) # {}
        <4> DEFINE v == request.order[Lowest(Misplaced(request.order))]
        <4>1. VarUp(v)
          BY <2>3, <3>2 DEF SetVarOrder
        <4>2. v \in Variables
          BY <2>3, <3>2, WantedFound DEF SetVarOrder, ReorderInv
        <4> HIDE DEF v
        <4>3. QED
          BY <2>1, <4>1, <4>2, UpKeeps
      <3>3. QED
        BY <3>1, <3>2
    <2>4. ASSUME SwapVar PROVE ReorderInv'
      <3>1. request.v1 \in Variables /\ request.v2 \in Variables
        BY <2>4 DEF SwapVar, ReorderInv, OrderOK
      <3>2. VarDown(request.v1) \/ VarUp(request.v2) \/ ReorderDone
        BY <2>4 DEF SwapVar
      <3>3. QED
        BY <2>1, <3>1, <3>2, DownKeeps, UpKeeps, DoneStep
    <2>5. ASSUME AnyMoves PROVE ReorderInv'
      BY <2>1, <2>5, DownKeeps, DoneStep DEF AnyMoves
    <2>6. ASSUME NEW n \in toBeProcessed, SwapNode(n) PROVE ReorderInv'
      BY <2>1, <2>6, SwapNodeStep
    <2>7. ASSUME FinishSwap PROVE ReorderInv'
      BY <2>1, <2>7, FinishStep
    <2>8. QED
      BY <2>1, <2>2, <2>3, <2>4, <2>5, <2>6, <2>7 DEF NextReorder, Step
  <1>3. QED
    BY <1>1, <1>2

\* The invariant holds in every state.
THEOREM ReorderInvariance == ClientSpec => []ReorderInv
  <1>1. ReorderInv /\ [ClientNext]_<<vars, held>> => ReorderInv'
    BY ReorderNext
  <1>2. QED
    BY ReorderStarts, <1>1, PTL DEF ClientSpec

\* A node the client holds is there and has its function, before, after and
\* between any two nodes of a swap: reorder_swap, reorder_localGbc and
\* reorder_done keep the functions, for every table and whatever is asked for.
THEOREM FunctionsKeptAlways == ClientSpec => []FunctionsKept
  <1>1. ReorderInv => FunctionsKept
    BY DEF ReorderInv, Sound, HeldOK, FunctionsKept
  <1>2. QED
    BY ReorderInvariance, <1>1, PTL

----------------------------------------------------------------------------
\* The orders the requests install.

LEMMA PlaceFound ==
  ASSUME NEW order, Permutation(order), NEW v \in Variables
  PROVE  PlaceOf(order, v) \in Levels /\ order[PlaceOf(order, v)] = v
  <1>1. \E l \in Levels : order[l] = v
    BY DEF Permutation
  <1>2. QED
    BY <1>1 DEF PlaceOf

LEMMA PlaceIs ==
  ASSUME NEW order, Permutation(order), NEW l \in Levels
  PROVE  order[l] \in Variables /\ PlaceOf(order, order[l]) = l
  <1>1. order[l] \in Variables
    BY DEF Permutation
  <1>2. PlaceOf(order, order[l]) \in Levels /\ order[PlaceOf(order, order[l])] = order[l]
    BY <1>1, PlaceFound
  <1>3. QED
    BY <1>1, <1>2 DEF Permutation

\* Where the variables are after two neighbours changed places.
LEMMA ExchangedPlaces ==
  ASSUME NEW order, Permutation(order), NEW new, Permutation(new), NEW l \in Levels, l + 1 \in Levels,
         Exchanged(order, new, l), NEW v \in Variables
  PROVE  PlaceOf(new, v) = IF PlaceOf(order, v) = l THEN l + 1
                           ELSE IF PlaceOf(order, v) = l + 1 THEN l ELSE PlaceOf(order, v)
  <1> DEFINE p == PlaceOf(order, v)
  <1>1. p \in Levels /\ order[p] = v
    BY PlaceFound
  <1> HIDE DEF p
  <1>2. CASE p = l
    <2>1. new[l + 1] = v
      BY <1>1, <1>2 DEF Exchanged
    <2>2. PlaceOf(new, v) = l + 1
      BY <2>1, PlaceIs
    <2>3. QED
      BY <1>2, <2>2 DEF p
  <1>3. CASE p = l + 1
    <2>1. new[l] = v /\ l # l + 1
      BY <1>1, <1>3 DEF Exchanged, Levels
    <2>2. PlaceOf(new, v) = l
      BY <2>1, PlaceIs
    <2>3. QED
      BY <1>3, <2>1, <2>2 DEF p
  <1>4. CASE p # l /\ p # l + 1
    <2>1. new[p] = v
      BY <1>1, <1>4 DEF Exchanged
    <2>2. PlaceOf(new, v) = p
      BY <1>1, <2>1, PlaceIs
    <2>3. QED
      BY <1>4, <2>2 DEF p
  <1>5. QED
    BY <1>2, <1>3, <1>4

LEMMA LowestIs ==
  ASSUME NEW S \in SUBSET Nat, NEW n \in S, \A m \in S : n <= m
  PROVE  Lowest(S) = n
  <1>1. ASSUME NEW k \in S, \A m \in S : k <= m PROVE k = n
    <2>1. k <= n /\ n <= k /\ k \in Nat /\ n \in Nat
      BY <1>1
    <2>2. QED
      BY <2>1
  <1>2. QED
    BY <1>1 DEF Lowest

LEMMA LowestBelow ==
  ASSUME NEW S \in SUBSET Nat, S # {}
  PROVE  Lowest(S) \in S /\ \A m \in S : Lowest(S) <= m
  <1>1. \E n \in S : \A m \in S : n <= m
    BY LeastNatural
  <1>2. QED
    BY <1>1 DEF Lowest

\* The moves the levels take.
LEMMA Multiplied ==
  ASSUME NEW x \in Nat, NEW y \in Nat
  PROVE  x * y \in Nat
  OBVIOUS

LEMMA MovesRise ==
  ASSUME NEW i \in Nat, NEW j \in Nat, i <= j, j <= VarNum
  PROVE  /\ MovesBefore(i) \in Int /\ MovesBefore(j) \in Int /\ MovesBefore(i) <= MovesBefore(j)
         /\ MovesBefore(i + 1) = MovesBefore(i) + 2 * (VarNum - 1 - i)
  <1>1. VarNum \in Nat
    BY BoundsAssumption
  <1>2. PICK n \in Nat : n = VarNum
    BY <1>1
  <1>3. i * (2 * n - i - 1) \in Int /\ j * (2 * n - j - 1) \in Int
    OBVIOUS
  <1>4. (i + 1) * (2 * n - (i + 1) - 1) = i * (2 * n - i - 1) + 2 * (n - 1 - i)
    OBVIOUS
  <1>5. i * (2 * n - i - 1) <= j * (2 * n - j - 1)
    <2>1. CASE i = j
      BY <1>3, <2>1
    <2>2. CASE i # j
      <3> DEFINE x == j - i
                 y == 2 * n - 1 - i - j
      <3>1. x \in Nat /\ y \in Nat
        BY <1>2, <2>2
      <3>2. j * (2 * n - j - 1) = i * (2 * n - i - 1) + x * y
        OBVIOUS
      <3> HIDE DEF x, y
      <3>3. x * y \in Nat
        BY <3>1, Multiplied
      <3>4. QED
        BY <1>3, <3>2, <3>3
    <2>3. QED
      BY <2>1, <2>2
  <1>6. QED
    BY <1>2, <1>3, <1>4, <1>5 DEF MovesBefore

\* The first level that is wrong, and where the variable for it is: lower down.
LEMMA WrongFacts ==
  ASSUME NEW order, Permutation(order), NEW wanted \in Orders, Wrong(order, wanted) # {},
         NEW i, i = Lowest(Wrong(order, wanted)), NEW p, p = NextPlace(order, wanted)
  PROVE  /\ i \in Levels /\ p \in Levels /\ i < p /\ order[p] = wanted[i] /\ wanted[i] \in Variables
         /\ \A k \in Levels : k < i => order[k] = wanted[k]
         /\ order[i] # wanted[i]
  <1>1. Wrong(order, wanted) \subseteq Levels /\ Wrong(order, wanted) \in SUBSET Nat
    BY DEF Wrong, Levels
  <1>2. i \in Wrong(order, wanted) /\ \A m \in Wrong(order, wanted) : i <= m
    BY <1>1, LowestBelow
  <1>3. i \in Levels /\ order[i] # wanted[i]
    BY <1>2 DEF Wrong
  <1>4. ASSUME NEW k \in Levels, k < i PROVE order[k] = wanted[k]
    <2>1. ~(i <= k)
      BY <1>3, <1>4 DEF Levels
    <2>2. QED
      BY <1>2, <2>1 DEF Wrong
  <1>5. wanted \in [Levels -> Variables] /\ \A j, k \in Levels : j # k => wanted[j] # wanted[k]
    BY DEF Orders
  <1>6. p = PlaceOf(order, wanted[i]) /\ wanted[i] \in Variables
    BY <1>3, <1>5 DEF NextPlace
  <1>7. p \in Levels /\ order[p] = wanted[i]
    BY <1>6, PlaceFound
  <1>8. p # i
    BY <1>3, <1>7
  <1>9. ~(p < i)
    BY <1>3, <1>4, <1>5, <1>7, <1>8
  <1>10. i < p
    BY <1>3, <1>7, <1>8, <1>9 DEF Levels
  <1>11. QED
    BY <1>3, <1>4, <1>6, <1>7, <1>10

\* The variable wanted goes up a level.
LEMMA MoveTowards ==
  ASSUME NEW order, Permutation(order), NEW wanted \in Orders, Wrong(order, wanted) # {},
         NEW l, l = NextPlace(order, wanted) - 1, NEW new, Permutation(new), Exchanged(order, new, l),
         NEW n \in Nat, 2 * n <= MovesBound(order, wanted)
  PROVE  l \in Levels /\ l + 1 \in Levels /\ 2 * (n + 1) <= MovesBound(new, wanted)
  <1>1. PICK i : i = Lowest(Wrong(order, wanted))
    OBVIOUS
  <1>2. PICK p : p = NextPlace(order, wanted)
    OBVIOUS
  <1>3. /\ i \in Levels /\ p \in Levels /\ i < p /\ order[p] = wanted[i] /\ wanted[i] \in Variables
        /\ \A k \in Levels : k < i => order[k] = wanted[k]
        /\ order[i] # wanted[i]
    BY <1>1, <1>2, WrongFacts
  <1>4. PICK N \in Nat : N = VarNum
    BY BoundsAssumption
  <1>5. /\ i \in 0..(N - 1) /\ p \in 0..(N - 1) /\ i < p /\ l = p - 1 /\ l \in Levels /\ l + 1 = p /\ l + 1 \in Levels
        /\ Levels = 0..(N - 1)
    BY <1>2, <1>3, <1>4 DEF Levels
  <1>6. 2 * n <= MovesBefore(i) + 2 * (N - 1 - p) /\ MovesBefore(i) \in Int
    <2>1. MovesBefore(i) \in Int
      BY <1>4, <1>5, MovesRise
    <2>2. QED
      BY <1>1, <1>2, <1>4, <2>1 DEF MovesBound
  <1>7. new[l] = wanted[i] /\ new[l + 1] = order[l] /\ \A k \in Levels : k # l /\ k # l + 1 => new[k] = order[k]
    BY <1>3, <1>5 DEF Exchanged
  <1>8. \A k \in Levels : k < i => new[k] = wanted[k]
    <2>1. ASSUME NEW k \in Levels, k < i PROVE k # l /\ k # l + 1
      BY <1>5, <2>1
    <2>2. QED
      BY <1>3, <1>7, <2>1
  <1>9. Wrong(new, wanted) \in SUBSET Levels /\ Wrong(new, wanted) \in SUBSET Nat
    BY DEF Wrong, Levels
  <1>10. CASE l # i
    <2>1. i # l + 1
      BY <1>5
    <2>2. i \in Wrong(new, wanted)
      BY <1>3, <1>7, <1>10, <2>1 DEF Wrong
    <2>3. ASSUME NEW m \in Wrong(new, wanted) PROVE i <= m
      <3>1. m \in Levels /\ new[m] # wanted[m]
        BY DEF Wrong
      <3>2. ~(m < i)
        BY <1>8, <3>1
      <3>3. QED
        BY <1>5, <3>1, <3>2
    <2>4. Lowest(Wrong(new, wanted)) = i
      BY <1>9, <2>2, <2>3, LowestIs
    <2>5. NextPlace(new, wanted) = l
      BY <1>5, <1>7, <2>4, PlaceIs DEF NextPlace
    <2>6. MovesBound(new, wanted) = MovesBefore(i) + 2 * (N - 1 - l)
      BY <1>4, <2>2, <2>4, <2>5 DEF MovesBound
    <2>7. QED
      BY <1>5, <1>6, <2>6
  <1>11. CASE l = i
    <2>1. 2 * (n + 1) <= MovesBefore(i + 1) /\ MovesBefore(i + 1) \in Int
      <3>1. MovesBefore(i + 1) = MovesBefore(i) + 2 * (N - 1 - i)
        BY <1>4, <1>5, MovesRise
      <3>2. QED
        BY <1>5, <1>6, <1>11, <3>1
    <2>2. CASE Wrong(new, wanted) = {}
      <3>1. MovesBefore(i + 1) <= MovesBefore(N) /\ MovesBefore(N) \in Int
        <4>1. i + 1 \in Nat /\ i + 1 <= N /\ N <= VarNum
          BY <1>4, <1>5
        <4>2. QED
          BY <4>1, MovesRise
      <3>2. MovesBound(new, wanted) = MovesBefore(N)
        BY <1>4, <2>2 DEF MovesBound
      <3>3. QED
        BY <1>5, <2>1, <3>1, <3>2
    <2>3. CASE Wrong(new, wanted) # {}
      <3>1. PICK j : j = Lowest(Wrong(new, wanted))
        OBVIOUS
      <3>2. PICK q : q = NextPlace(new, wanted)
        OBVIOUS
      <3>3. j \in Levels /\ q \in Levels /\ new[j] # wanted[j]
        BY <2>3, <3>1, <3>2, WrongFacts
      <3>4. i + 1 <= j
        <4>1. j # i
          BY <1>7, <1>11, <3>3
        <4>2. ~(j < i)
          BY <1>8, <3>3
        <4>3. QED
          BY <1>5, <3>3, <4>1, <4>2
      <3>5. MovesBefore(i + 1) <= MovesBefore(j) /\ MovesBefore(j) \in Int
        <4>1. i + 1 \in Nat /\ j \in Nat /\ j <= VarNum
          BY <1>4, <1>5, <3>3
        <4>2. QED
          BY <3>4, <4>1, MovesRise
      <3>6. MovesBound(new, wanted) = MovesBefore(j) + 2 * (N - 1 - q)
        BY <1>4, <2>3, <3>1, <3>2 DEF MovesBound
      <3>7. QED
        BY <1>5, <2>1, <3>3, <3>5, <3>6
    <2>4. QED
      BY <2>2, <2>3
  <1>12. QED
    BY <1>5, <1>10, <1>11

LEMMA BoundRange ==
  ASSUME NEW order, Permutation(order), NEW wanted \in Orders
  PROVE  /\ MovesBound(order, wanted) \in Nat
         /\ MovesBound(order, wanted) <= VarNum * (VarNum - 1) /\ VarNum * (VarNum - 1) \in Int
  <1>1. PICK N \in Nat : N = VarNum
    BY BoundsAssumption
  <1>2. MovesBefore(0) = 0 /\ MovesBefore(N) = N * (N - 1)
    BY <1>1 DEF MovesBefore
  <1>3. N * (N - 1) \in Int
    OBVIOUS
  <1>4. ASSUME NEW k \in Nat, k <= N PROVE MovesBefore(k) \in Int /\ 0 <= MovesBefore(k) /\ MovesBefore(k) <= N * (N - 1)
    <2>1. 0 \in Nat /\ 0 <= k /\ N <= VarNum /\ k <= VarNum
      BY <1>1, <1>4
    <2>2. MovesBefore(0) <= MovesBefore(k) /\ MovesBefore(k) \in Int
      BY <2>1, MovesRise
    <2>3. MovesBefore(k) <= MovesBefore(N)
      BY <1>1, <1>4, <2>1, MovesRise
    <2>4. QED
      BY <1>2, <2>2, <2>3
  <1>5. CASE Wrong(order, wanted) = {}
    <2>1. MovesBound(order, wanted) = MovesBefore(N)
      BY <1>1, <1>5 DEF MovesBound
    <2>2. MovesBefore(N) \in Int /\ 0 <= MovesBefore(N) /\ MovesBefore(N) <= N * (N - 1)
      BY <1>4
    <2>3. QED
      BY <1>1, <1>3, <2>1, <2>2
  <1>6. CASE Wrong(order, wanted) # {}
    <2>1. PICK i : i = Lowest(Wrong(order, wanted))
      OBVIOUS
    <2>2. PICK q : q = NextPlace(order, wanted)
      OBVIOUS
    <2>3. i \in 0..(N - 1) /\ q \in 0..(N - 1) /\ i < q
      BY <1>1, <1>6, <2>1, <2>2, WrongFacts DEF Levels
    <2>4. MovesBound(order, wanted) = MovesBefore(i) + 2 * (N - 1 - q)
      BY <1>1, <1>6, <2>1, <2>2 DEF MovesBound
    <2>5. MovesBefore(i + 1) = MovesBefore(i) + 2 * (N - 1 - i)
      <3>1. i \in Nat /\ i <= i /\ i <= VarNum
        BY <1>1, <2>3
      <3>2. QED
        BY <1>1, <3>1, MovesRise
    <2>6. i \in Nat /\ i + 1 \in Nat /\ i <= N /\ i + 1 <= N
      BY <2>3
    <2>7. MovesBefore(i) \in Int /\ 0 <= MovesBefore(i) /\ MovesBefore(i + 1) <= N * (N - 1)
      BY <1>4, <2>6
    <2>8. QED
      BY <1>1, <1>3, <2>3, <2>4, <2>5, <2>7
  <1>7. QED
    BY <1>5, <1>6

\* v is the variable that the request wants to go down next.
Toward(v) ==
  /\ request.op = "setvarorder" =>
       Wrong(bddlevel2var, request.order) # {} /\ v = bddlevel2var[NextPlace(bddlevel2var, request.order) - 1]
  /\ request.op = "swapvar" =>
       LET p1 == PlaceOf(bddlevel2var, request.v1)
           p2 == PlaceOf(bddlevel2var, request.v2)
           l1 == request.l1
           l2 == request.l2
       IN  \/ GoesDown(p1, p2, l1, l2) /\ v = request.v1
           \/ GoesUp(p1, p2, l1, l2) /\ p2 > l1 /\ v = bddlevel2var[p2 - 1]

LEMMA SwapToward == ASSUME Progress, phase = "swap" PROVE Toward(var0)
  BY DEF Progress, SettingOrder, Swapping, Toward

\* A variable has gone down.
LEMMA ExchangeProgress ==
  ASSUME OrderOK, Progress, NEW v \in Variables, bddvar2level(v) < VarNum - 1, SwapLevels(v), Toward(v),
         moves' = moves + 1, phase' = "in", request' = request
  PROVE  Progress'
  <1>1. PICK new : new = bddlevel2var'
    OBVIOUS
  <1>2. PICK l : l = bddvar2level(v)
    OBVIOUS
  <1> DEFINE order == bddlevel2var
  <1>3. /\ l \in Levels /\ l + 1 \in Levels /\ order[l] = v /\ Exchanged(order, new, l) /\ Permutation(new)
        /\ Permutation(order) /\ l = PlaceOf(order, v)
    BY <1>1, <1>2, SwapOrder DEF OrderOK, PlaceOf, bddvar2level
  <1>4. moves \in Nat /\ moves' \in Nat
    BY DEF Progress
  <1>5. ASSUME request.op = "setvarorder" PROVE SettingOrder'
    <2> DEFINE wanted == request.order
               p == NextPlace(order, wanted)
    <2>1. wanted \in Orders /\ Wrong(order, wanted) # {} /\ v = order[p - 1] /\ 2 * moves <= MovesBound(order, wanted)
      BY <1>5 DEF OrderOK, Toward, Progress, SettingOrder
    <2> HIDE DEF p
    <2>2. p \in Levels /\ \E i \in Levels : i < p
      BY <1>3, <2>1, WrongFacts DEF p
    <2>3. p - 1 \in Levels
      BY <2>2, BoundsAssumption DEF Levels
    <2>4. l = p - 1
      BY <1>3, <2>1, <2>3, PlaceIs
    <2>5. 2 * (moves + 1) <= MovesBound(new, wanted)
      BY <1>3, <1>4, <2>1, <2>4, MoveTowards DEF p
    <2>6. 2 * moves' <= MovesBound(bddlevel2var', request'.order)
      BY <1>1, <2>5
    <2>7. QED
      BY <2>6 DEF SettingOrder
  <1>6. ASSUME request.op = "swapvar" PROVE Swapping'
    <2>1. PICK v1, v2, l1, l2 : v1 = request.v1 /\ v2 = request.v2 /\ l1 = request.l1 /\ l2 = request.l2
      OBVIOUS
    <2>2. PICK p1, p2 : p1 = PlaceOf(order, v1) /\ p2 = PlaceOf(order, v2)
      OBVIOUS
    <2>3. PICK q1, q2 : q1 = PlaceOf(new, v1) /\ q2 = PlaceOf(new, v2)
      OBVIOUS
    <2>4. v1 \in Variables /\ v2 \in Variables /\ v1 # v2 /\ l1 \in Levels /\ l2 \in Levels
      BY <1>6, <2>1 DEF OrderOK, Progress, Swapping
    <2>5. p1 \in Levels /\ p2 \in Levels
      BY <1>3, <2>2, <2>4, PlaceFound
    <2>6. /\ q1 = IF p1 = l THEN l + 1 ELSE IF p1 = l + 1 THEN l ELSE p1
          /\ q2 = IF p2 = l THEN l + 1 ELSE IF p2 = l + 1 THEN l ELSE p2
      BY <1>3, <2>2, <2>3, <2>4, ExchangedPlaces
    <2>7. \/ GoesDown(p1, p2, l1, l2) /\ v = v1
          \/ GoesUp(p1, p2, l1, l2) /\ p2 > l1 /\ v = order[p2 - 1]
      BY <1>6, <2>1, <2>2 DEF Toward
    <2>8. PICK N \in Nat : N = VarNum
      BY BoundsAssumption
    <2>9. /\ p1 \in 0..(N - 1) /\ p2 \in 0..(N - 1) /\ l1 \in 0..(N - 1) /\ l2 \in 0..(N - 1) /\ l \in 0..(N - 1)
          /\ Levels = 0..(N - 1)
      BY <1>3, <2>4, <2>5, <2>8 DEF Levels
    <2>10. CASE GoesDown(p1, p2, l1, l2) /\ v = v1
      <3>1. l = p1 /\ p1 \in l1..(l2 - 1) /\ p2 = l2
        BY <1>3, <2>2, <2>10 DEF GoesDown
      <3>2. q1 = l + 1
        BY <2>6, <3>1
      <3>3. CASE p2 = l + 1
        <4>1. q2 = l /\ l2 = l + 1
          BY <2>6, <2>9, <3>1, <3>3
        <4>2. GoesUp(q1, q2, l1, l2)
          BY <2>9, <3>1, <3>2, <4>1 DEF GoesUp
        <4>3. QED
          BY <1>1, <2>1, <2>3, <2>4, <4>2 DEF Swapping
      <3>4. CASE p2 # l + 1
        <4>1. q2 = l2
          BY <2>6, <2>9, <3>1, <3>4
        <4>2. GoesDown(q1, q2, l1, l2)
          BY <2>9, <3>1, <3>2, <3>4, <4>1 DEF GoesDown
        <4>3. QED
          BY <1>1, <2>1, <2>3, <2>4, <4>2 DEF Swapping
      <3>5. QED
        BY <3>3, <3>4
    <2>11. CASE GoesUp(p1, p2, l1, l2) /\ p2 > l1 /\ v = order[p2 - 1]
      <3>1. p2 - 1 \in Levels
        BY <2>9, <2>11
      <3>2. l = p2 - 1
        BY <1>3, <2>11, <3>1, PlaceIs
      <3>3. p1 = l2 /\ p2 \in l1..(l2 - 1)
        BY <2>11 DEF GoesUp
      <3>4. q2 = l /\ q1 = p1
        BY <2>6, <2>9, <3>2, <3>3
      <3>5. GoesUp(q1, q2, l1, l2)
        BY <2>9, <2>11, <3>2, <3>3, <3>4 DEF GoesUp
      <3>6. QED
        BY <1>1, <2>1, <2>3, <2>4, <3>5 DEF Swapping
    <2>12. QED
      BY <2>7, <2>10, <2>11
  <1>7. QED
    BY <1>4, <1>5, <1>6 DEF Progress

LEMMA ProgressStarts == ClientInit => Progress
  BY DEF ClientInit, InitReorder, Progress

\* Two levels that differ are those of two variables.
LEMMA InitProgress ==
  ASSUME OrderOK, NEW r, RequestFor(r), ReorderInit(r)
  PROVE  Progress'
  <1>1. phase' = "in" /\ request' = r /\ moves' = 0 /\ bddlevel2var' = bddlevel2var /\ Permutation(bddlevel2var)
    BY DEF ReorderInit, OrderOK
  <1>2. ASSUME r.op = "setvarorder" PROVE SettingOrder'
    <2>1. r.order \in Orders
      BY <1>2 DEF RequestFor
    <2>2. MovesBound(bddlevel2var, r.order) \in Nat
      BY <1>1, <2>1, BoundRange
    <2>3. 2 * moves' <= MovesBound(bddlevel2var', request'.order)
      BY <1>1, <2>2
    <2>4. QED
      BY <1>1, <2>3 DEF SettingOrder
  <1>3. ASSUME r.op = "swapvar" PROVE Swapping'
    <2>1. PICK v1, v2, l1, l2 : v1 = r.v1 /\ v2 = r.v2 /\ l1 = r.l1 /\ l2 = r.l2
      OBVIOUS
    <2>2. /\ v1 \in Variables /\ v2 \in Variables /\ l1 < l2
          /\ l1 = PlaceOf(bddlevel2var, v1) /\ l2 = PlaceOf(bddlevel2var, v2)
      BY <1>3, <2>1 DEF RequestFor, bddvar2level, PlaceOf
    <2>3. l1 \in Levels /\ l2 \in Levels
      BY <1>1, <2>2, PlaceFound
    <2>4. v1 # v2 /\ GoesDown(l1, l2, l1, l2)
      <3>1. PICK N \in Nat : N = VarNum
        BY BoundsAssumption
      <3>2. l1 \in 0..(N - 1) /\ l2 \in 0..(N - 1)
        BY <2>3, <3>1 DEF Levels
      <3>3. l1 # l2
        BY <2>2, <3>2
      <3>4. QED
        BY <2>2, <3>2, <3>3 DEF GoesDown
    <2>5. QED
      BY <1>1, <2>1, <2>2, <2>3, <2>4 DEF Swapping
  <1>4. QED
    BY <1>1, <1>2, <1>3 DEF Progress

\* Between the nodes of a swap, and before the first, the order is as it was.
LEMMA DownProgress ==
  ASSUME Progress, NEW v, Toward(v), DownSimple(v)
  PROVE  Progress'
  <1>1. UNCHANGED <<bddlevel2var, request, moves>> /\ phase' = "swap" /\ var0' = v
    BY DEF DownSimple
  <1>2. ASSUME request.op = "setvarorder" PROVE SettingOrder'
    <2>1. SettingOrder
      BY <1>2 DEF Progress
    <2>2. /\ Wrong(bddlevel2var, request.order) # {}
          /\ v = bddlevel2var[NextPlace(bddlevel2var, request.order) - 1]
      BY <1>2 DEF Toward
    <2>3. QED
      BY <1>1, <2>1, <2>2 DEF SettingOrder
  <1>3. ASSUME request.op = "swapvar" PROVE Swapping'
    <2>1. Swapping
      BY <1>3 DEF Progress
    <2>2. LET p1 == PlaceOf(bddlevel2var, request.v1)
              p2 == PlaceOf(bddlevel2var, request.v2)
          IN  \/ GoesDown(p1, p2, request.l1, request.l2) /\ v = request.v1
              \/ GoesUp(p1, p2, request.l1, request.l2) /\ p2 > request.l1 /\ v = bddlevel2var[p2 - 1]
      BY <1>3 DEF Toward
    <2>3. QED
      BY <1>1, <2>1, <2>2 DEF Swapping
  <1>4. QED
    BY <1>1, <1>2, <1>3 DEF Progress

LEMMA NodeProgress ==
  ASSUME Progress, UNCHANGED <<bddlevel2var, request, moves, phase, var0>>
  PROVE  Progress'
  <1>1. SettingOrder' = SettingOrder
    BY DEF SettingOrder
  <1>2. Swapping' = Swapping
    BY DEF Swapping
  <1>3. QED
    BY <1>1, <1>2 DEF Progress

LEMMA VarDownProgress ==
  ASSUME OrderOK, Progress, NEW v \in Variables, Toward(v), VarDown(v)
  PROVE  Progress'
  <1>1. CASE SwapIndependent(v)
    <2>1. /\ bddvar2level(v) < VarNum - 1 /\ SwapLevels(v)
          /\ moves' = moves + 1 /\ phase' = "in" /\ request' = request
      BY <1>1 DEF SwapIndependent
    <2>2. QED
      BY <2>1, ExchangeProgress
  <1>2. CASE DownSimple(v)
    BY <1>2, DownProgress
  <1>3. QED
    BY <1>1, <1>2 DEF VarDown

LEMMA FinishProgress ==
  ASSUME OrderOK, Progress, FinishSwap
  PROVE  Progress'
  <1>1. /\ phase = "swap" /\ SwapLevels(var0) /\ phase' = "in" /\ moves' = moves + 1 /\ request' = request
    BY DEF FinishSwap
  <1>2. var0 \in Variables /\ bddvar2level(var0) < VarNum - 1
    BY <1>1 DEF OrderOK
  <1>3. Toward(var0)
    BY <1>1, SwapToward
  <1>4. QED
    BY <1>1, <1>2, <1>3, ExchangeProgress

\* reorder_done, when the request is met.
Met ==
  /\ request.op = "setvarorder" => Wrong(bddlevel2var, request.order) = {}
  /\ request.op = "swapvar" =>
       GoesUp(PlaceOf(bddlevel2var, request.v1), PlaceOf(bddlevel2var, request.v2), request.l1, request.l2)
         /\ PlaceOf(bddlevel2var, request.v2) = request.l1

LEMMA DoneProgress ==
  ASSUME Progress, Met, ReorderDone
  PROVE  Progress'
  <1>1. UNCHANGED <<bddlevel2var, request, moves>> /\ phase' = "out"
    BY DEF ReorderDone
  <1>2. ASSUME request.op = "setvarorder" PROVE SettingOrder'
    BY <1>1, <1>2 DEF Progress, SettingOrder, Met
  <1>3. ASSUME request.op = "swapvar" PROVE Swapping'
    BY <1>1, <1>3 DEF Progress, Swapping, Met
  <1>4. QED
    BY <1>1, <1>2, <1>3 DEF Progress

\* What the three requests do next is what they want.
LEMMA SetVarOrderProgress ==
  ASSUME OrderOK, Progress, SetVarOrder
  PROVE  Progress'
  <1>1. request.op = "setvarorder" /\ Misplaced(request.order) = Wrong(bddlevel2var, request.order)
    BY DEF SetVarOrder, Misplaced, Wrong
  <1>2. CASE Misplaced(request.order) = {}
    <2>1. ReorderDone
      BY <1>2 DEF SetVarOrder
    <2>2. Met
      BY <1>1, <1>2 DEF Met
    <2>3. QED
      BY <2>1, <2>2, DoneProgress
  <1>3. CASE Misplaced(request.order) # {}
    <2>1. PICK w : w = request.order[Lowest(Misplaced(request.order))]
      OBVIOUS
    <2>2. VarUp(w) /\ w \in Variables
      BY <1>1, <1>3, <2>1, WantedFound DEF SetVarOrder
    <2>3. PICK v : v = bddlevel2var[bddvar2level(w) - 1]
      OBVIOUS
    <2>4. VarDown(v) /\ v \in Variables
      BY <2>2, <2>3, AboveFound DEF VarUp, OrderOK
    <2>5. bddvar2level(w) = NextPlace(bddlevel2var, request.order)
      BY <1>1, <2>1 DEF NextPlace, PlaceOf, bddvar2level
    <2>6. Toward(v)
      BY <1>1, <1>3, <2>3, <2>5 DEF Toward
    <2>7. QED
      BY <2>4, <2>6, VarDownProgress
  <1>4. QED
    BY <1>2, <1>3

LEMMA SwapVarProgress ==
  ASSUME OrderOK, Progress, SwapVar
  PROVE  Progress'
  <1>1. PICK v1, v2, l1, l2 : v1 = request.v1 /\ v2 = request.v2 /\ l1 = request.l1 /\ l2 = request.l2
    OBVIOUS
  <1>2. PICK p1, p2 : p1 = PlaceOf(bddlevel2var, v1) /\ p2 = PlaceOf(bddlevel2var, v2)
    OBVIOUS
  <1>3. /\ request.op = "swapvar" /\ v1 \in Variables /\ v2 \in Variables /\ p1 = bddvar2level(v1) /\ p2 = bddvar2level(v2)
        /\ Permutation(bddlevel2var)
    BY <1>1, <1>2 DEF SwapVar, OrderOK, PlaceOf, bddvar2level
  <1>4. GoesDown(p1, p2, l1, l2) \/ GoesUp(p1, p2, l1, l2)
    BY <1>1, <1>2, <1>3 DEF Progress, Swapping
  <1>5. p1 \in Levels /\ p2 \in Levels /\ l1 \in Levels /\ l2 \in Levels
    <2>1. p1 \in Levels /\ p2 \in Levels
      BY <1>2, <1>3, PlaceFound
    <2>2. QED
      BY <1>1, <1>3, <2>1 DEF Progress, Swapping
  <1>6. Levels \subseteq Nat
    BY DEF Levels
  <1>7. CASE p1 < l2
    <2>1. VarDown(v1)
      BY <1>1, <1>3, <1>7 DEF SwapVar
    <2>2. GoesDown(p1, p2, l1, l2)
      BY <1>4, <1>5, <1>6, <1>7 DEF GoesUp
    <2>3. Toward(v1)
      BY <1>1, <1>2, <1>3, <2>2 DEF Toward
    <2>4. QED
      BY <1>3, <2>1, <2>3, VarDownProgress
  <1>8. CASE ~(p1 < l2) /\ p2 > l1
    <2>1. VarUp(v2)
      BY <1>1, <1>3, <1>8 DEF SwapVar
    <2>2. PICK v : v = bddlevel2var[p2 - 1]
      OBVIOUS
    <2>3. VarDown(v) /\ v \in Variables
      BY <1>3, <2>1, <2>2, AboveFound DEF VarUp
    <2>4. GoesUp(p1, p2, l1, l2)
      BY <1>4, <1>5, <1>6, <1>8 DEF GoesDown
    <2>5. Toward(v)
      BY <1>1, <1>2, <1>3, <1>8, <2>2, <2>4 DEF Toward
    <2>6. QED
      BY <2>3, <2>5, VarDownProgress
  <1>9. CASE ~(p1 < l2) /\ ~(p2 > l1)
    <2>1. ReorderDone
      BY <1>1, <1>3, <1>9 DEF SwapVar
    <2>2. GoesUp(p1, p2, l1, l2) /\ p2 = l1
      BY <1>4, <1>5, <1>6, <1>9 DEF GoesDown, GoesUp
    <2>3. Met
      BY <1>1, <1>2, <1>3, <2>2 DEF Met
    <2>4. QED
      BY <2>1, <2>3, DoneProgress
  <1>10. QED
    BY <1>7, <1>8, <1>9

LEMMA AnyMovesProgress ==
  ASSUME OrderOK, Progress, AnyMoves
  PROVE  Progress'
  <1>1. request.op = "reorder" /\ Met /\ \A v : Toward(v)
    BY DEF AnyMoves, Met, Toward
  <1>2. CASE \E v \in Variables : VarDown(v)
    BY <1>1, <1>2, VarDownProgress
  <1>3. CASE ReorderDone
    BY <1>1, <1>3, DoneProgress
  <1>4. QED
    BY <1>2, <1>3 DEF AnyMoves

LEMMA ProgressNext ==
  ASSUME ReorderInv, Progress, [ClientNext]_<<vars, held>>
  PROVE  Progress'
  <1>1. OrderOK
    BY DEF ReorderInv
  <1>2. CASE UNCHANGED <<vars, held>>
    <2>1. UNCHANGED <<bddlevel2var, request, moves, phase, var0>>
      BY <1>2 DEF vars
    <2>2. QED
      BY <2>1, NodeProgress
  <1>3. ASSUME Ask PROVE Progress'
    <2>1. PICK r : RequestFor(r) /\ ReorderInit(r)
      BY <1>3, AskedFor
    <2>2. QED
      BY <1>1, <2>1, InitProgress
  <1>4. ASSUME NEW n, SwapNode(n) PROVE Progress'
    <2>1. UNCHANGED <<bddlevel2var, request, moves, phase, var0>>
      BY <1>4 DEF SwapNode
    <2>2. QED
      BY <2>1, NodeProgress
  <1>5. CASE Step
    BY <1>1, <1>4, <1>5, SetVarOrderProgress, SwapVarProgress, AnyMovesProgress, FinishProgress DEF Step
  <1>6. QED
    BY <1>2, <1>3, <1>5 DEF ClientNext, NextReorder

\* An order without a wrong level is the one that was wanted.
LEMMA NothingWrong ==
  ASSUME NEW order, Permutation(order), NEW wanted \in Orders, Wrong(order, wanted) = {}
  PROVE  order = wanted
  <1>1. order \in [Levels -> Variables] /\ wanted \in [Levels -> Variables]
    BY DEF Permutation, Orders
  <1>2. \A l \in Levels : order[l] = wanted[l]
    BY DEF Wrong
  <1>3. QED
    BY <1>1, <1>2

LEMMA InstalledThen == ASSUME OrderOK, Progress PROVE OrderInstalled
  <1>1. ASSUME request.op = "setvarorder"
        PROVE  (phase = "out" => bddlevel2var = request.order) /\ 2 * moves <= VarNum * (VarNum - 1)
    <2>1. Permutation(bddlevel2var) /\ request.order \in Orders /\ SettingOrder /\ moves \in Nat
      BY <1>1 DEF OrderOK, Progress
    <2>2. phase = "out" => bddlevel2var = request.order
      BY <2>1, NothingWrong DEF SettingOrder
    <2>3. PICK b, c : b = MovesBound(bddlevel2var, request.order) /\ c = VarNum * (VarNum - 1)
      OBVIOUS
    <2>4. b \in Nat /\ c \in Int /\ b <= c
      BY <2>1, <2>3, BoundRange
    <2>5. 2 * moves <= b
      BY <2>1, <2>3 DEF SettingOrder
    <2>6. 2 * moves <= c
      BY <2>1, <2>4, <2>5
    <2>7. QED
      BY <2>2, <2>3, <2>6
  <1>2. ASSUME request.op = "swapvar", phase = "out"
        PROVE  bddvar2level(request.v1) = request.l2 /\ bddvar2level(request.v2) = request.l1
    BY <1>2 DEF Progress, Swapping, GoesUp, PlaceOf, bddvar2level
  <1>3. QED
    BY <1>1, <1>2 DEF OrderInstalled

\* bdd_setvarorder ends with the order it was asked for, after no more moves
\* than there are pairs of variables: every move of reorder_varup takes the
\* variable wanted at the first wrong level a level up, and no level above it
\* is touched again.  bdd_swapvar ends with the two levels exchanged.
THEOREM OrderInstalledAlways == ClientSpec => []OrderInstalled
  <1>1. ReorderInv /\ Progress /\ [ClientNext]_<<vars, held>> => Progress'
    BY ProgressNext
  <1>2. ClientSpec => []Progress
    BY ProgressStarts, ReorderInvariance, <1>1, PTL DEF ClientSpec
  <1>3. ReorderInv /\ Progress => OrderInstalled
    BY InstalledThen DEF ReorderInv
  <1>4. QED
    BY ReorderInvariance, <1>2, <1>3, PTL

=============================================================================
