----------------------------- MODULE SiftingMC -----------------------------
(***************************************************************************)
(* What the reordering methods promise, for three blocks under every size  *)
(* function of some values.                                                *)
(***************************************************************************)
EXTENDS Sifting

Neighbours(l) == {blockdown(l, b) : b \in {c \in Blocks : Next_(l, c) # NULL}}

\* No method but random leaves the table larger than it found it, and the
\* head it returns is the head of the list: whatever order its exchanges,
\* their undoing and its bookkeeping of positions came in.  "The process is
\* repeated until no further progress is done": at the end of siftite no
\* exchange of two neighbours makes the table smaller, at the end of win3ite
\* no order of three neighbours.
ProgressExhausted ==
  phase = "done" =>
    /\ first = list[1]
    /\ method # "random" => reorder_nodenum(list) <= began
    /\ method = "siftite" /\ setup.limit = 0 =>
         \A l \in Neighbours(list) : reorder_nodenum(list) <= reorder_nodenum(l)
    /\ method = "win3ite" =>
         \A b \in Blocks : Pos(list, b) + 2 <= BlockNum =>
           \A k \in 1..6 : reorder_nodenum(list) <= reorder_nodenum(Window(list, b)[k])

\* Every method ends.
MethodsEnd == phase = "run" ~> phase = "done"

----------------------------------------------------------------------------
MCPerms == {l \in [1..BlockNum -> 1..BlockNum] : \A i, j \in 1..BlockNum : i # j => l[i] # l[j]}
MCSetups ==
  {[size |-> s, limit |-> 0] : s \in [MCPerms -> {5, 6, 8}]}
    \cup {[size |-> s, limit |-> 5] : s \in {f \in [MCPerms -> {5, 6}] : f[[b \in 1..BlockNum |-> b]] = 6}}
=============================================================================
