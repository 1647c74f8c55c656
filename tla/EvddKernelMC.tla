---------------------------- MODULE EvddKernelMC ----------------------------
(***************************************************************************)
(* The kernel of the edge-valued diagrams on small instances: the          *)
(* functions its edges stand for, and the programs that build them.        *)
(***************************************************************************)
EXTENDS EvddApply

----------------------------------------------------------------------------
\* Programs.  The nodes of a diagram are built bottom-up, in any order the
\* operands allow, and normalization has something to do at each of them.
Raw(to, level, low, wl, high, wh) ==
  [to |-> to, raw |-> TRUE, level |-> level, low |-> low, wl |-> wl, high |-> high, wh |-> wh]
Eager(to, level, low, wl, high, wh) ==
  [Raw(to, level, low, wl, high, wh) EXCEPT !.raw = FALSE]

\* A root over two nodes that share b, and a node t that is not made: its
\* edges are equal.
WalkCalls ==
  {Raw("b", 2, One, 2, One, 1), Raw("d", 2, One, 2, One, 0),
   Raw("e", 1, One, 0, "b", 1), Raw("c", 1, "d", 1, "b", 2),
   Raw("r", 0, "e", 2, "c", 1), Raw("t", 2, One, 2, One, 2)}
WalkNormalizes == {[from |-> "r", to |-> "n"], [from |-> "t", to |-> "n"]}

\* One function in three ways: eager, and raw with two different weights.
EqualCalls ==
  {Raw("p", 1, One, 2, One, 1), Raw("q", 0, "p", 1, One, 1), Raw("s", 0, "p", 2, One, 2),
   Eager("k", 1, One, 1, One, 2), Eager("l", 0, "k", 2, One, 1)}
EqualNormalizes == {[from |-> "q", to |-> "u"], [from |-> "s", to |-> "m"]}

\* Sums and differences of a diagram that is not normalized and one of its
\* nodes: cofactors on a level that only one of them has, and weights that
\* cancel out.
ApplyCalls ==
  {Raw("f", 1, One, 1, One, 2), Raw("h", 0, "f", 2, One, 1)}
MCApplies ==
  {[a |-> "h", b |-> "f", op |-> "sum", to |-> "v"], [a |-> "f", b |-> "h", op |-> "difference", to |-> "v"],
   [a |-> "v", b |-> "f", op |-> "difference", to |-> "w"]}
MCOperator(op, a, b) == IF op = "sum" THEN (a + b) % Modulus ELSE (a - b) % Modulus
MCApplyHash(a, b, op) == (a.node + b.node) % CacheSize

\* The client runs one of the three programs.
MCCalls == WalkCalls \cup EqualCalls \cup ApplyCalls
MCNormalizes == WalkNormalizes \cup EqualNormalizes

VARIABLE program   \* the variables the client uses

Program(calls) == {c.to : c \in calls}

MCInit ==
  /\ InitApply
  /\ program \in {Program(WalkCalls \cup WalkNormalizes), Program(EqualCalls \cup EqualNormalizes),
                   Program(ApplyCalls \cup MCApplies)}

MCNext ==
  /\ NextApply
  /\ result' # None => result'.to \in program
  /\ UNCHANGED program

MCSpec == MCInit /\ [][MCNext]_<<applyvars, program>>

----------------------------------------------------------------------------
\* What an edge stands for: the value of every assignment (the set of levels
\* that are true).
Assignments == SUBSET (0..(Terminal - 1))

NodeMeaning[n \in Slot] ==
  IF Const(n) THEN [s \in Assignments |-> 1]
  ELSE IF node[n] = Free THEN [s \in Assignments |-> 0]
  ELSE [s \in Assignments |->
          IF node[n].level \in s
            THEN evdd_value_mul(node[n].wh, NodeMeaning[node[n].high][s])
            ELSE evdd_value_mul(node[n].wl, NodeMeaning[node[n].low][s])]

Meaning(e) == LET meaning == NodeMeaning[e.node]
              IN  [s \in Assignments |-> evdd_value_mul(e.w, meaning[s])]

\* What evdd_addref protects stands for the same function through every
\* step: collections in the client, or in the middle of a walk, take away
\* and reuse other slots only.
HeldMeaning ==
  [][\A x \in Names :
       edge[x] # NoEdge /\ edge'[x] = edge[x] => Meaning(edge[x])' = Meaning(edge[x])]_vars

\* evdd_normalize returns the function it was given, and evdd_apply what the
\* operator makes of its operands, value by value: with collections in the
\* middle of the walk and of the recursion, and with whatever the cache holds
\* of earlier calls, whose slots may have other nodes by now.
ResultsRight ==
  [][/\ call # None /\ call' = None => Meaning(result.e)' = Meaning(edge[call.from])
     /\ applying # None /\ applying' = None =>
          Meaning(result.e)' =
            [s \in Assignments |-> Operator(applying.op, Meaning(edge[applying.a])[s],
                                            Meaning(edge[applying.b])[s])]]_applyvars

\* All that the walk of evdd_normalize and the recursion of evdd_apply will
\* still read is reached by the next collection: the nodes and the results in
\* their frames, and, of the walk, what its last call returned and the memo
\* ("it must survive every collection until evdd_normalize returns").
WalkProtected ==
  /\ \A i \in DOMAIN frames :
       \A n \in {frames[i].node} \cup {e.node : e \in {frames[i].low, frames[i].high} \ {NoEdge}} :
         n \in Marked({})
  /\ returned # NoEdge => returned.node \in Marked({})
  /\ \A n \in DOMAIN memo : memo[n] # NoEdge => memo[n].node \in Marked({})
  /\ \A i \in DOMAIN waiting :
       \A e \in {waiting[i].a, waiting[i].b, waiting[i].low} \ {NoEdge} : e.node \in Marked({})

\* The client's variables with edges that evdd_normalize, evdd_apply or
\* evdd_makenode made.
NormalNames == {c.to : c \in Normalizes \cup Applies} \cup {c.to : c \in {d \in Calls : ~d.raw}}

\* What the client keeps to with them: a weight 0 is that of an edge to the
\* terminal, and what is not normalized is kept apart from what is.
ASSUME NormalAssumption ==
  \A c \in Calls :
    /\ (c.wl = 0 => c.low = One) /\ (c.wh = 0 => c.high = One)
    /\ c.raw => c.to \notin NormalNames
    /\ ~c.raw => {c.low, c.high} \subseteq NormalNames \cup {One}

\* Equal functions have one edge, once evdd_normalize, evdd_apply or
\* evdd_makenode made it: the edges in these variables of the client.
Canonical ==
  \A x, y \in {z \in NormalNames : edge[z] # NoEdge} :
    Meaning(edge[x]) = Meaning(edge[y]) => edge[x] = edge[y]

=============================================================================
