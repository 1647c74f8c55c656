------------------------------ MODULE Sifting ------------------------------
(***************************************************************************)
(* The methods of bdd_reorder (reorder.c) on one list of variable blocks:  *)
(* win2, win3, sift, their repeated forms, and random.  A method exchanges *)
(* neighbouring blocks (blockdown) and compares the number of nodes, which *)
(* is a function of the order here, or whatever bdd_reorder_probe put in   *)
(* its place.  One step is one window, or one exchange of the sifting.     *)
(***************************************************************************)
EXTENDS Integers, FiniteSets, Sequences

CONSTANTS
  BlockNum,     \* the blocks of the list, numbered in their first order
  Setups,       \* bound: [size, limit]: the size of every order, and
                \* bddmaxnodesize - bddmaxnodeincrease - 2 or 0 for no limit
  Methods       \* bound: the methods called

ASSUME BlockAssumption == BlockNum \in Nat \ {0}

Blocks == 1..BlockNum
NULL == 0
Lists == {l \in [Blocks -> Blocks] : \A i, j \in Blocks : i # j => l[i] # l[j]}

\* bdd_reorder knows no other method.
AllMethods == {"win2", "win2ite", "win3", "win3ite", "sift", "siftite", "random"}

ASSUME SetupAssumption == Setups \subseteq [size : [Lists -> Nat], limit : Nat]
ASSUME MethodAssumption == Methods \subseteq AllMethods

VARIABLES
  list,         \* the blocks in the order of prev and next
  first,        \* the head, as the method believes
  this,
  lastsize,
  queue,        \* blocks still to be sifted
  walk,         \* the block being sifted
  moves,        \* exchanges made by reorder_random
  method, phase, setup,
  began         \* the size when the method began

vars == <<list, first, this, lastsize, queue, walk, moves, method, phase, setup, began>>

Pos(l, b) == CHOOSE i \in Blocks : l[i] = b
Next_(l, b) == IF Pos(l, b) = BlockNum THEN NULL ELSE l[Pos(l, b) + 1]
Prev(l, b) == IF Pos(l, b) = 1 THEN NULL ELSE l[Pos(l, b) - 1]

\* blockdown: a block and its successor change places (module Blocks has
\* what it does to the variables).
blockdown(l, b) ==
  LET i == Pos(l, b) IN [l EXCEPT ![i] = l[i + 1], ![i + 1] = b]

reorder_nodenum(l) == setup.size[l]

NoWalk == [block |-> NULL, up |-> FALSE, turn |-> 0, best |-> 0, bestpos |-> 0, moved |-> FALSE]

----------------------------------------------------------------------------
\* Windows of two.

\* The exchange of b with its successor made the table larger.
Undone(l, b) == reorder_nodenum(l) < reorder_nodenum(blockdown(l, b))

Win2Step ==
  /\ phase = "run" /\ method \in {"win2", "win2ite"}
  /\ Next_(list, this) # NULL
  /\ IF Undone(list, this)
     THEN this' = Next_(list, this) /\ UNCHANGED <<list, first>>
     ELSE /\ list' = blockdown(list, this)
          /\ first' = IF first = this THEN Prev(list', this) ELSE first
          /\ UNCHANGED this
  /\ UNCHANGED <<lastsize, queue, walk, moves, method, phase, setup, began>>

----------------------------------------------------------------------------
\* Windows of three: all six orders are tried, each one exchange from the
\* last, and the way is gone back to the first best.

Window(l, b) ==
  LET i == Pos(l, b)
      A == l[i]
      B == l[i + 1]
      C == l[i + 2]
      at(x, y, z) == [l EXCEPT ![i] = x, ![i + 1] = y, ![i + 2] = z]
  IN  <<l, at(B, A, C), at(B, C, A), at(C, B, A), at(C, A, B), at(A, C, B)>>

FirstBest(w) ==
  CHOOSE k \in 1..6 :
    /\ \A m \in 1..6 : reorder_nodenum(w[k]) <= reorder_nodenum(w[m])
    /\ \A m \in 1..(k - 1) : reorder_nodenum(w[k]) < reorder_nodenum(w[m])

\* *first, where the window was at the head and the last order was not best.
HeadOf(i, l, k) == IF i = 1 /\ k < 6 THEN l[1] ELSE first

\* reorder_swapwin3
SwapWin3 ==
  LET i == Pos(list, this)
      k == FirstBest(Window(list, this))
  IN  IF i + 2 > BlockNum
      THEN IF Undone(list, this) THEN this' = Next_(list, this) /\ UNCHANGED <<list, first>>
           ELSE list' = blockdown(list, this) /\ this' = this /\ first' = HeadOf(i, list', 1)
      ELSE /\ list' = Window(list, this)[k]
           /\ this' = IF k = 6 THEN this ELSE list'[i + 1]
           /\ first' = HeadOf(i, list', k)

Win3Step ==
  /\ phase = "run"
  /\ \/ method = "win3" /\ Pos(list, this) < BlockNum
     \/ method = "win3ite" /\ Pos(list, this) < BlockNum - 1
  /\ SwapWin3
  /\ UNCHANGED <<lastsize, queue, walk, moves, method, phase, setup, began>>

----------------------------------------------------------------------------
\* Sifting: reorder_sift_bestpos takes one block to both ends, as long as
\* the table does not grow too much, and back to its best place.

MaxAllowed(best) ==
  LET grown == best + best \div 5
  IN  IF setup.limit > 0 /\ setup.limit < grown THEN setup.limit ELSE grown

SiftNext ==
  /\ phase = "run" /\ method \in {"sift", "siftite"}
  /\ walk = NoWalk /\ queue # <<>>
  /\ walk' = [block |-> Head(queue), up |-> Pos(list, Head(queue)) - 1 <= BlockNum \div 2, turn |-> 0,
              best |-> reorder_nodenum(list), bestpos |-> 0, moved |-> FALSE]
  /\ queue' = Tail(queue)
  /\ UNCHANGED <<list, first, this, lastsize, moves, method, phase, setup, began>>

CanMove ==
  /\ IF walk.up THEN Prev(list, walk.block) # NULL ELSE Next_(list, walk.block) # NULL
  /\ ~walk.moved \/ reorder_nodenum(list) <= MaxAllowed(walk.best)

Moved(up) == IF up THEN blockdown(list, Prev(list, walk.block)) ELSE blockdown(list, walk.block)

\* Mutant: the best place is not set anew.
BestposKept(l, step) == walk.bestpos + step

Bestpos(l, step) == IF reorder_nodenum(l) < walk.best THEN 0 ELSE walk.bestpos + step

SiftMove ==
  /\ phase = "run" /\ walk # NoWalk /\ walk.turn < 2 /\ CanMove
  /\ list' = Moved(walk.up)
  /\ walk' = [walk EXCEPT
       !.moved = TRUE,
       !.bestpos = Bestpos(list', IF walk.up THEN -1 ELSE 1),
       !.best = IF reorder_nodenum(list') < @ THEN reorder_nodenum(list') ELSE @]
  /\ UNCHANGED <<first, this, lastsize, queue, moves, method, phase, setup, began>>

SiftTurn ==
  /\ phase = "run" /\ walk # NoWalk /\ walk.turn < 2 /\ ~CanMove
  /\ walk' = [walk EXCEPT !.turn = @ + 1, !.up = ~@, !.moved = FALSE]
  /\ UNCHANGED <<list, first, this, lastsize, queue, moves, method, phase, setup, began>>

SiftBack ==
  /\ phase = "run" /\ walk # NoWalk /\ walk.turn = 2
  /\ IF walk.bestpos = 0 THEN walk' = NoWalk /\ UNCHANGED list
     ELSE /\ list' = Moved(walk.bestpos > 0)
          /\ walk' = [walk EXCEPT !.bestpos = IF @ > 0 THEN @ - 1 ELSE @ + 1]
  /\ UNCHANGED <<first, this, lastsize, queue, moves, method, phase, setup, began>>

----------------------------------------------------------------------------
\* reorder_random: four exchanges per block, of blocks drawn at random.
RandomMove ==
  /\ phase = "run" /\ method = "random" /\ moves < 4 * BlockNum
  /\ moves' = moves + 1
  /\ \E b \in Blocks : list' = IF Next_(list, b) = NULL THEN list ELSE blockdown(list, b)
  /\ UNCHANGED <<first, this, lastsize, queue, walk, method, phase, setup, began>>

----------------------------------------------------------------------------
\* Passes.

\* qsort by the nodes of the blocks; how many they have is left open.
Start(m) ==
  /\ phase = "idle"
  /\ method' = m /\ phase' = "run"
  /\ this' = list[1] /\ first' = list[1]
  /\ lastsize' = reorder_nodenum(list) /\ began' = reorder_nodenum(list)
  /\ \/ m \in {"sift", "siftite"} /\ queue' \in Lists
     \/ m \notin {"sift", "siftite"} /\ queue' = <<>>
  /\ UNCHANGED <<list, walk, moves, setup>>

PassOver ==
  CASE method \in {"win2", "win2ite", "win3"} -> Next_(list, this) = NULL
    [] method = "win3ite" -> Pos(list, this) >= BlockNum - 1
    [] method \in {"sift", "siftite"} -> walk = NoWalk /\ queue = <<>>
    [] method = "random" -> moves = 4 * BlockNum

\* Mutant: a pass that changed nothing is followed by another.
RepeatedAlways == method \in {"win2ite", "win3ite", "siftite"}

\* The do-while loops go on as long as the size changes.
Repeated ==
  method \in {"win2ite", "win3ite", "siftite"} /\ reorder_nodenum(list) # lastsize

\* win2ite starts again from the block that was the first one once (t, block
\* 1 of the list), win3ite from the head.
NextPass ==
  /\ phase = "run" /\ PassOver /\ Repeated
  /\ lastsize' = reorder_nodenum(list)
  /\ this' = IF method = "win2ite" THEN 1 ELSE first
  /\ queue' \in IF method = "siftite" THEN Lists ELSE {<<>>}
  /\ UNCHANGED <<list, first, walk, moves, method, phase, setup, began>>

\* reorder_sift_seq and reorder_random look for the head, the others know it.
End ==
  /\ phase = "run" /\ PassOver /\ ~Repeated
  /\ phase' = "done"
  /\ first' = IF method \in {"sift", "siftite", "random"} THEN list[1] ELSE first
  /\ UNCHANGED <<list, this, lastsize, queue, walk, moves, method, setup, began>>

----------------------------------------------------------------------------
InitSifting ==
  /\ list = [b \in Blocks |-> b]
  /\ setup \in Setups
  /\ first = 1 /\ this = 1 /\ lastsize = 0 /\ queue = <<>> /\ walk = NoWalk /\ moves = 0
  /\ method = "none" /\ phase = "idle" /\ began = 0

Work ==
  \/ Win2Step \/ Win3Step
  \/ SiftNext \/ SiftMove \/ SiftTurn \/ SiftBack
  \/ RandomMove \/ NextPass \/ End

NextSifting == (\E m \in Methods : Start(m)) \/ Work

\* One thread.
SiftingSpec == InitSifting /\ [][NextSifting]_vars /\ WF_vars(Work)

=============================================================================
