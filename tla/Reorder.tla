------------------------------ MODULE Reorder ------------------------------
(***************************************************************************)
(* Dynamic variable reordering (reorder.c).  A session starts with         *)
(* reorder_init, which counts every reference to every node and notes      *)
(* which variables interact; then neighbouring levels change places, node  *)
(* by node, in place, so that the numbers clients hold stay good; at the   *)
(* end reorder_done takes the counts back and collects.  Inside a session  *)
(* the level field of a node holds its variable.                           *)
(*                                                                         *)
(* The sub-table of a variable is the set of its nodes here, without the   *)
(* order of the chains; any free slot may be the next (the lowest is).     *)
(***************************************************************************)
EXTENDS Integers, FiniteSets, Sequences

CONSTANTS
  VarNum,        \* bddvarnum
  MaxRef,        \* MAXREF
  MaxNodeSize,   \* bddmaxnodesize
  MaxIncrease,   \* bddmaxnodeincrease, from one prime to the next
  InitialTables, \* bound: the node tables sessions start from
  Sessions,      \* bound: how many sessions there are
  Requests,      \* bound: what the client asks for
  MoveBound      \* bound: the moves of one bdd_reorder

ASSUME BoundsAssumption ==
  VarNum \in Nat \ {0} /\ MaxRef \in Nat \ {0} /\ MaxNodeSize \in Nat /\ MaxIncrease \in Nat \ {0}

Variables == 0..(VarNum - 1)
Levels == 0..(VarNum - 1)

VARIABLES
  bddnodes,      \* slot -> [level, low, high, refcou]; low = -1 on a free slot
  bddfreenum,
  bddlevel2var,
  nodenum,       \* levels[v].nodenum
  iactmtx,       \* the pairs of variables that interact
  extroots,
  toBeProcessed, \* nodes of var0 taken out of its sub-table
  var0,
  phase,         \* "out", "in" a session, or in a "swap"
  request,       \* what the session is to do
  moves,
  sessions,
  bdderrorcond

Slots(nodes) == DOMAIN nodes
Inner(nodes) == Slots(nodes) \ {0, 1}
FreeSlots(nodes) == {n \in Inner(nodes) : nodes[n].low = -1}
Live(nodes) == Inner(nodes) \ FreeSlots(nodes)
Known(nodes) == Live(nodes) \cup {0, 1}

\* The tables a session may start from: the terminals, and nodes above their
\* children.
ASSUME TableAssumption ==
  \A t \in InitialTables :
    /\ IsFiniteSet(DOMAIN t) /\ Cardinality(DOMAIN t) > 1 /\ DOMAIN t = 0..(Cardinality(DOMAIN t) - 1)
    /\ t \in [DOMAIN t -> [level : 0..VarNum, low : Nat \cup {-1}, high : Nat, refcou : 0..MaxRef]]
    /\ t[0].level = VarNum /\ t[1].level = VarNum
    /\ \A n \in Live(t) : \A c \in {t[n].low, t[n].high} : c \in Known(t) /\ t[n].level < t[c].level

table == <<bddnodes, bddfreenum, nodenum, bdderrorcond>>
session == <<iactmtx, extroots>>
vars == <<table, session, bddlevel2var, toBeProcessed, var0, phase, request, moves, sessions>>

Lowest(S) == CHOOSE n \in S : \A m \in S : n <= m
Highest(S) == CHOOSE n \in S : \A m \in S : m <= n

bddvar2level(v) == CHOOSE l \in Levels : bddlevel2var[l] = v

INCREF(nodes, n) == IF nodes[n].refcou < MaxRef THEN [nodes EXCEPT ![n].refcou = @ + 1] ELSE nodes
DECREF(nodes, n) ==
  IF nodes[n].refcou \in 1..(MaxRef - 1) THEN [nodes EXCEPT ![n].refcou = @ - 1] ELSE nodes

----------------------------------------------------------------------------
\* reorder_init.

\* What the marking works on: the counts, the nodes per variable, the
\* variables met below the root (dep) and the interaction matrix so far.
Marking ==
  [refcou : [Slots(bddnodes) -> 0..MaxRef], nodenum : [Variables -> Nat],
   dep : SUBSET Variables, iact : SUBSET (Variables \X Variables)]

Increased(counts, n) == IF counts[n] < MaxRef THEN [counts EXCEPT ![n] = @ + 1] ELSE counts

\* The variable of a node, which reorder_init puts in its level field.
VarAt(n) == bddlevel2var[bddnodes[n].level]

\* addref_rec on r, as a function of the marking so far.
addref_rec[r \in Known(bddnodes)] ==
  [s \in Marking |->
     IF r < 2 THEN s
     ELSE IF s.refcou[r] = 0
     THEN LET met == [s EXCEPT !.nodenum[VarAt(r)] = @ + 1, !.dep = @ \cup {VarAt(r)}]
              below == addref_rec[bddnodes[r].high][addref_rec[bddnodes[r].low][met]]
          IN  [below EXCEPT !.refcou = Increased(@, r)]
     ELSE [s EXCEPT !.refcou = Increased(@, r),
                    !.dep = @ \cup {m \in Variables : <<VarAt(r), m>> \in s.iact}]]

\* One root of mark_roots, with addDependencies.
MarkRoot(s, n) ==
  LET start == [s EXCEPT !.dep = {VarAt(n)}, !.nodenum[VarAt(n)] = @ + 1]
      below == addref_rec[bddnodes[n].high][addref_rec[bddnodes[n].low][start]]
  IN  [below EXCEPT !.iact = @ \cup (below.dep \X below.dep)]

\* mark_roots: the marking after the slots up to n.
MarkRoots(s, roots) ==
  LET marked[n \in Slots(bddnodes)] ==
        IF n = 0 THEN s ELSE IF n \in roots THEN MarkRoot(marked[n - 1], n) ELSE marked[n - 1]
  IN  marked[Highest(Slots(bddnodes))]

\* The nodes with those counts, and with variables for levels.
ByVariable(counts) ==
  [n \in Slots(bddnodes) |->
     [bddnodes[n] EXCEPT !.level = IF n \in Live(bddnodes) THEN VarAt(n) ELSE @, !.refcou = counts[n]]]

\* reorder_gbc: what no root reaches is free.
Swept(nodes) ==
  [n \in Slots(nodes) |-> IF n >= 2 /\ nodes[n].refcou = 0 THEN [nodes[n] EXCEPT !.low = -1] ELSE nodes[n]]

ReorderInit(r) ==
  /\ phase = "out" /\ sessions < Sessions
  /\ extroots' = {n \in Live(bddnodes) : bddnodes[n].refcou > 0}
  /\ LET s == MarkRoots([refcou |-> [n \in Slots(bddnodes) |-> bddnodes[n].refcou],
                         nodenum |-> [v \in Variables |-> 0], dep |-> {}, iact |-> {}], extroots')
     IN  /\ bddnodes' = Swept(ByVariable(s.refcou))
         /\ nodenum' = s.nodenum
         /\ iactmtx' = s.iact
  /\ bddfreenum' = Cardinality(FreeSlots(bddnodes'))
  /\ phase' = "in" /\ request' = r /\ moves' = 0 /\ sessions' = sessions + 1
  /\ UNCHANGED <<bdderrorcond, bddlevel2var, toBeProcessed, var0>>

----------------------------------------------------------------------------
\* reorder_makenode, on t = [nodes, freenum, nodenum, error].

\* bdd_noderesize(0): the chains stay as they are.
Resized(t) ==
  LET old == Cardinality(Slots(t.nodes))
      size == IF old + MaxIncrease > MaxNodeSize THEN MaxNodeSize ELSE old + MaxIncrease
  IN  IF old >= MaxNodeSize THEN t
      ELSE [t EXCEPT !.freenum = @ + size - old,
                     !.nodes = [n \in 0..(size - 1) |-> IF n < old THEN t.nodes[n]
                                ELSE [level |-> 0, low |-> -1, high |-> 0, refcou |-> 0]]]

\* The sub-table of a variable: its nodes but those taken out.
Chained(t, var) == {n \in Live(t.nodes) : t.nodes[n].level = var} \ toBeProcessed

TakeNode(t, var, low, high) ==
  LET n == Lowest(FreeSlots(t.nodes))
      made == [t.nodes EXCEPT ![n] = [level |-> var, low |-> low, high |-> high, refcou |-> 1]]
  IN  [res |-> n,
       t |-> [t EXCEPT !.nodes = INCREF(INCREF(made, low), high), !.freenum = @ - 1, !.nodenum[var] = @ + 1]]

reorder_makenode(t, var, low, high) ==
  LET found == {n \in Chained(t, var) : t.nodes[n].low = low /\ t.nodes[n].high = high}
      known == IF low = high THEN {low} ELSE found
      grown == IF t.error \/ FreeSlots(t.nodes) # {} THEN t ELSE Resized(t)
  IN  IF known # {} THEN [res |-> Lowest(known), t |-> [t EXCEPT !.nodes = INCREF(@, Lowest(known))]]
      ELSE IF FreeSlots(grown.nodes) = {} THEN [res |-> 0, t |-> [grown EXCEPT !.error = TRUE]]
      ELSE TakeNode(grown, var, low, high)

----------------------------------------------------------------------------
\* reorder_vardown.

Below(v) == bddlevel2var[bddvar2level(v) + 1]
imatrixDepends(a, b) == <<a, b>> \in iactmtx

SwapLevels(v) ==
  LET l == bddvar2level(v)
  IN  bddlevel2var' = [bddlevel2var EXCEPT ![l] = bddlevel2var[l + 1], ![l + 1] = v]

\* Variables that do not interact: the levels change and no node does.
SwapIndependent(v) ==
  /\ phase = "in"
  /\ bddvar2level(v) < VarNum - 1 /\ ~imatrixDepends(v, Below(v))
  /\ SwapLevels(v)
  /\ moves' = moves + 1
  /\ UNCHANGED <<table, session, toBeProcessed, var0, phase, request, sessions>>

\* Mutant: only the low children are looked at.
AffectedLow(v) ==
  {n \in Live(bddnodes) : bddnodes[n].level = v /\ Below(v) = bddnodes[bddnodes[n].low].level}

\* reorder_downSimple: nodes with a child of the other variable are taken out.
Affected(v) ==
  {n \in Live(bddnodes) : bddnodes[n].level = v
     /\ Below(v) \in {bddnodes[bddnodes[n].low].level, bddnodes[bddnodes[n].high].level}}

DownSimple(v) ==
  /\ phase = "in"
  /\ bddvar2level(v) < VarNum - 1 /\ imatrixDepends(v, Below(v))
  /\ toBeProcessed' = Affected(v)
  /\ nodenum' = [nodenum EXCEPT ![v] =
                   Cardinality({n \in Live(bddnodes) : bddnodes[n].level = v} \ Affected(v))]
  /\ var0' = v /\ phase' = "swap"
  /\ UNCHANGED <<bddnodes, bddfreenum, bdderrorcond, session, bddlevel2var, request, moves, sessions>>

\* Mutant: a child of another variable is taken for a node of the one below.
LowOfAny(nodes, f, var) == IF f > 1 THEN nodes[f].low ELSE f

\* The cofactors of a child for the variable below.
LowOf(nodes, f, var) == IF nodes[f].level = var THEN nodes[f].low ELSE f
HighOf(nodes, f, var) == IF nodes[f].level = var THEN nodes[f].high ELSE f

\* Mutant: the references of the old children are kept.
ReleasedKept(nodes, n) == nodes

Released(nodes, n) == DECREF(DECREF(nodes, nodes[n].low), nodes[n].high)

\* reorder_swap, for one node.
SwapNode(n) ==
  LET var1 == Below(var0)
      f0 == bddnodes[n].low
      f1 == bddnodes[n].high
      now == [nodes |-> bddnodes, freenum |-> bddfreenum, nodenum |-> nodenum, error |-> bdderrorcond]
      m0 == reorder_makenode(now, var0, LowOf(bddnodes, f0, var1), LowOf(bddnodes, f1, var1))
      m1 == reorder_makenode(m0.t, var0, HighOf(bddnodes, f0, var1), HighOf(bddnodes, f1, var1))
      freed == Released(m1.t.nodes, n)
  IN  /\ phase = "swap" /\ n \in toBeProcessed
      /\ bddnodes' = [freed EXCEPT ![n].level = var1, ![n].low = m0.res, ![n].high = m1.res]
      /\ nodenum' = [m1.t.nodenum EXCEPT ![var1] = @ + 1]
      /\ bddfreenum' = m1.t.freenum /\ bdderrorcond' = m1.t.error
      /\ toBeProcessed' = toBeProcessed \ {n}
      /\ UNCHANGED <<session, bddlevel2var, var0, phase, request, moves, sessions>>

\* reorder_localGbc on the variable below: the nodes after the slots up to n.
LocalGbc(nodes, dead) ==
  LET swept[n \in Slots(nodes)] ==
        IF n = 0 THEN nodes
        ELSE IF n \in dead THEN [Released(swept[n - 1], n) EXCEPT ![n].low = -1] ELSE swept[n - 1]
  IN  swept[Highest(Slots(nodes))]

Dead(v) == {n \in Live(bddnodes) : bddnodes[n].level = v /\ bddnodes[n].refcou = 0}

FinishSwap ==
  /\ phase = "swap" /\ toBeProcessed = {}
  /\ LET var1 == Below(var0) IN
       /\ bddnodes' = LocalGbc(bddnodes, Dead(var1))
       /\ nodenum' = [nodenum EXCEPT ![var1] = @ - Cardinality(Dead(var1))]
       /\ bddfreenum' = bddfreenum + Cardinality(Dead(var1))
  /\ SwapLevels(var0)
  /\ phase' = "in" /\ moves' = moves + 1
  /\ UNCHANGED <<bdderrorcond, session, toBeProcessed, var0, request, sessions>>

VarDown(v) == SwapIndependent(v) \/ DownSimple(v)
VarUp(v) == bddvar2level(v) > 0 /\ VarDown(bddlevel2var[bddvar2level(v) - 1])

----------------------------------------------------------------------------
\* reorder_done, with the collection at its end: the roots keep the counts
\* they have now, the other nodes lose theirs.

\* bdd_mark: the smallest set with the roots and the children of its nodes.
Reached(nodes, roots) ==
  LET closed == {S \in {roots \cup T : T \in SUBSET (Live(nodes) \ roots)} :
                   \A n \in S : {nodes[n].low, nodes[n].high} \cap Live(nodes) \subseteq S}
  IN  {n \in Live(nodes) : \A S \in closed : n \in S}

CountAfter(n) == IF n \in extroots THEN bddnodes[n].refcou ELSE 0

ReorderDone ==
  /\ phase = "in"
  /\ LET kept == Reached(bddnodes, {n \in Live(bddnodes) : CountAfter(n) > 0})
     IN  bddnodes' = [n \in Slots(bddnodes) |->
           IF n < 2 THEN bddnodes[n]
           ELSE IF n \notin kept THEN [level |-> 0, low |-> -1, high |-> bddnodes[n].high, refcou |-> 0]
           ELSE [bddnodes[n] EXCEPT !.level = bddvar2level(@), !.refcou = CountAfter(n)]]
  /\ bddfreenum' = Cardinality(FreeSlots(bddnodes'))
  /\ phase' = "out" /\ nodenum' = [v \in Variables |-> 0]
  /\ extroots' = {} /\ iactmtx' = {}
  /\ UNCHANGED <<bdderrorcond, bddlevel2var, toBeProcessed, var0, request, moves, sessions>>

----------------------------------------------------------------------------
\* The requests.

\* Mutant: the last two levels are taken for right.
MisplacedUpper(order) == {l \in Levels : l < VarNum - 2 /\ bddlevel2var[l] # order[l]}

\* bdd_setvarorder: level by level, the variable wanted there goes up.
Misplaced(order) == {l \in Levels : bddlevel2var[l] # order[l]}

SetVarOrder ==
  /\ request.op = "setvarorder"
  /\ IF Misplaced(request.order) = {} THEN ReorderDone
     ELSE VarUp(request.order[Lowest(Misplaced(request.order))])

\* bdd_swapvar: the upper variable down to the other's level, then that one up.
SwapVar ==
  /\ request.op = "swapvar"
  /\ IF bddvar2level(request.v1) < request.l2 THEN VarDown(request.v1)
     ELSE IF bddvar2level(request.v2) > request.l1 THEN VarUp(request.v2)
     ELSE ReorderDone

\* bdd_reorder: whatever moves the method makes (module Sifting has them).
AnyMoves ==
  /\ request.op = "reorder"
  /\ \/ moves < MoveBound /\ \E v \in Variables : VarDown(v)
     \/ ReorderDone

bdd_setvarorder(order) == ReorderInit([op |-> "setvarorder", order |-> order])
bdd_swapvar(v1, v2) ==
  /\ bddvar2level(v1) < bddvar2level(v2)
  /\ ReorderInit([op |-> "swapvar", v1 |-> v1, v2 |-> v2,
                  l1 |-> bddvar2level(v1), l2 |-> bddvar2level(v2)])
bdd_reorder == ReorderInit([op |-> "reorder"])

Orders == {f \in [Levels -> Variables] : \A i, j \in Levels : i # j => f[i] # f[j]}

Ask ==
  \/ "setvarorder" \in Requests /\ \E order \in Orders : bdd_setvarorder(order)
  \/ "swapvar" \in Requests /\ \E v1, v2 \in Variables : bdd_swapvar(v1, v2)
  \/ "reorder" \in Requests /\ bdd_reorder

----------------------------------------------------------------------------
InitReorder ==
  /\ bddnodes \in InitialTables
  /\ bddfreenum = Cardinality(FreeSlots(bddnodes))
  /\ bddlevel2var = [l \in Levels |-> l]
  /\ nodenum = [v \in Variables |-> 0] /\ iactmtx = {} /\ extroots = {}
  /\ toBeProcessed = {} /\ var0 = 0
  /\ phase = "out" /\ request = [op |-> "none"] /\ moves = 0 /\ sessions = 0
  /\ bdderrorcond = FALSE

Step == SetVarOrder \/ SwapVar \/ AnyMoves \/ (\E n \in toBeProcessed : SwapNode(n)) \/ FinishSwap

NextReorder == Ask \/ Step

ReorderSpec == InitReorder /\ [][NextReorder]_vars

=============================================================================
