------------------------------ MODULE Blocks ------------------------------
(***************************************************************************)
(* The tree of variable blocks (tree.c) and what reordering does with it   *)
(* (reorder.c): blocks are added and cleared, bdd_reorder goes down the    *)
(* tree, and blockdown takes the variables of a block past those of the    *)
(* next one, a level at a time.  Which blocks a method exchanges is left   *)
(* open (module Sifting).                                                  *)
(***************************************************************************)
EXTENDS Integers, FiniteSets, Sequences, SequencesExt

CONSTANTS
  VarNum,         \* bddvarnum
  CallBound,      \* bound: calls that add blocks
  ExchangeBound,  \* bound: exchanges of blocks
  Orders          \* bound: the orders bdd_setvarorder is called with

ASSUME VarNumAssumption == VarNum \in Nat \ {0}

Variables == 0..(VarNum - 1)
Levels == 0..(VarNum - 1)

VARIABLES
  bddlevel2var,
  vartree,    \* a list: the block and its successors by next
  blockid,
  session,    \* the block reorder_block is at, by its place in the tree
  swap,       \* the blockdown under way
  calls, exchanges

vars == <<bddlevel2var, vartree, blockid, session, swap, calls, exchanges>>

var2level(order, v) == CHOOSE l \in Levels : order[l] = v

\* A method of bdd_reorder at a block; what comes after its sub-blocks.
Idle == [stage |-> "idle", path |-> <<>>]
NoSwap == [stage |-> "none", at |-> 0, start |-> 0]

----------------------------------------------------------------------------
\* bddtree_addrange

\* The variables of a range by level, as update_seq and the qsort of
\* reorder_block have them.
LevelSequence(order, first, last) ==
  SetToSortSeq(first..last, LAMBDA v, w : var2level(order, v) < var2level(order, w))

NewBlock(first, last, fixed, sub) ==
  [first |-> first, last |-> last, fixed |-> fixed, id |-> blockid,
   seq |-> LevelSequence(bddlevel2var, first, last), nextlevel |-> sub]

Failed == <<>>    \* NULL, and the empty list

\* Mutant: only the first block goes under one that covers several.
CoveredHead(t, last) == 1

\* How many blocks from the head of t the range goes over.
Covered(t, last) ==
  CHOOSE k \in DOMAIN t :
    /\ k = Len(t) \/ last < t[k + 1].first
    /\ \A i \in 1..(k - 1) : last >= t[i + 1].first

\* The list t with the block put in, Failed where that is refused.  What
\* comes back from below is stored, refused or not.
RECURSIVE addrange(_, _, _, _)
addrange(t, first, last, fixed) ==
  IF t = <<>> THEN <<NewBlock(first, last, fixed, <<>>)>>
  ELSE
  LET b == Head(t)
      same == first = b.first /\ last = b.last
      inside == first >= b.first /\ last <= b.last
      k == Covered(t, last)
      cut == first > b.first \/ \E i \in 1..k : t[i].first <= last /\ last < t[i].last
  IN
  CASE same -> t
    [] last < b.first -> <<NewBlock(first, last, fixed, <<>>)>> \o t
    [] first > b.last -> <<b>> \o addrange(Tail(t), first, last, fixed)
    [] inside /\ ~same -> <<[b EXCEPT !.nextlevel = addrange(@, first, last, fixed)]>> \o Tail(t)
    [] OTHER -> IF cut THEN Failed
                ELSE <<NewBlock(first, last, fixed, SubSeq(t, 1, k))>> \o SubSeq(t, k + 1, Len(t))

block_is_adjacent(first, last) ==
  \E low \in Levels :
    \A v \in first..last : var2level(bddlevel2var, v) \in low..(low + last - first)

\* bdd_intaddvarblock; a negative number is an error.
Added(t, first, last, fixed) ==
  IF first \notin Variables \/ last \notin Variables \/ last < first \/ ~block_is_adjacent(first, last)
  THEN Failed ELSE addrange(t, first, last, fixed)

bdd_intaddvarblock(first, last, fixed) ==
  LET t == Added(vartree, first, last, fixed) IN
  /\ calls < CallBound /\ calls' = calls + 1
  /\ IF t = Failed THEN UNCHANGED <<vartree, blockid>>
     ELSE vartree' = t /\ blockid' = blockid + 1
  /\ UNCHANGED <<bddlevel2var, session, swap, exchanges>>

\* bdd_addvarblock takes everything between the least and the greatest
\* variable of the set.
bdd_addvarblock(S, fixed) ==
  LET low == CHOOSE v \in S : \A w \in S : v <= w
      high == CHOOSE v \in S : \A w \in S : v >= w
  IN  bdd_intaddvarblock(low, high, fixed)

\* A block for every variable in turn; what is refused is passed over.
bdd_varblockall ==
  LET tree[n \in 0..VarNum] ==
        IF n = 0 THEN vartree
        ELSE LET t == addrange(tree[n - 1], n - 1, n - 1, TRUE)
             IN  IF t = Failed THEN tree[n - 1] ELSE t
  IN  /\ calls < CallBound /\ calls' = calls + 1
      /\ vartree' = tree[VarNum] /\ blockid' = blockid + VarNum
      /\ UNCHANGED <<bddlevel2var, session, swap, exchanges>>

bdd_clrvarblocks ==
  /\ vartree # <<>>
  /\ vartree' = <<>> /\ blockid' = 0
  /\ UNCHANGED <<bddlevel2var, session, swap, calls, exchanges>>

\* bdd_setvarorder, and bdd_swapvar with an order that exchanges two, are
\* refused while there are blocks.
SetOrder(order) ==
  /\ vartree = <<>> /\ bddlevel2var' = order
  /\ UNCHANGED <<vartree, blockid, session, swap, calls, exchanges>>

----------------------------------------------------------------------------
\* reorder_block

RECURSIVE SubList(_, _)
SubList(t, path) ==
  IF path = <<>> THEN t ELSE SubList(t[Head(path)].nextlevel, Tail(path))

RECURSIVE WithSubList(_, _, _)
WithSubList(t, path, list) ==
  IF path = <<>> THEN list
  ELSE [t EXCEPT ![Head(path)].nextlevel = WithSubList(@, Tail(path), list)]

Front_(path) == SubSeq(path, 1, Len(path) - 1)
BlockAt(path) == SubList(vartree, Front_(path))[path[Len(path)]]
Siblings(path) == SubList(vartree, Front_(path))
Here == SubList(vartree, session.path)

\* Mutant: the sub-blocks of a fixed block are exchanged like others.
FreeAlways(path) == TRUE

\* The top block made for the call is free.
Free(path) == path # <<>> => ~BlockAt(path).fixed

StartReorder ==
  /\ session = Idle
  /\ session' = [stage |-> "method", path |-> <<>>]
  /\ UNCHANGED <<bddlevel2var, vartree, blockid, swap, calls, exchanges>>

\* The method is done with the sub-blocks; they are next.
Descend ==
  /\ session.stage = "method" /\ swap = NoSwap
  /\ session' = IF Here = <<>> THEN [session EXCEPT !.stage = "leave"]
                ELSE [session EXCEPT !.path = Append(@, 1)]
  /\ UNCHANGED <<bddlevel2var, vartree, blockid, swap, calls, exchanges>>

Resorted(b) == [b EXCEPT !.seq = LevelSequence(bddlevel2var, b.first, b.last)]

Leave ==
  /\ session.stage = "leave"
  /\ IF session.path = <<>> THEN session' = Idle /\ UNCHANGED vartree
     ELSE LET i == session.path[Len(session.path)]
              siblings == Siblings(session.path)
          IN  /\ vartree' = WithSubList(vartree, Front_(session.path), [siblings EXCEPT ![i] = Resorted(@)])
              /\ session' = IF i < Len(siblings)
                            THEN [stage |-> "method", path |-> Append(Front_(session.path), i + 1)]
                            ELSE [session EXCEPT !.path = Front_(@)]
  /\ UNCHANGED <<bddlevel2var, blockid, swap, calls, exchanges>>

----------------------------------------------------------------------------
\* blockdown

\* reorder_vardown and reorder_varup, nothing at the ends of the order.
vardown(order, v) ==
  LET l == var2level(order, v) IN
  IF l = VarNum - 1 THEN order ELSE [order EXCEPT ![l] = order[l + 1], ![l + 1] = v]
varup(order, v) ==
  LET l == var2level(order, v) IN
  IF l = 0 THEN order ELSE [order EXCEPT ![l] = order[l - 1], ![l - 1] = v]

Left == Here[swap.at].seq
Right == Here[swap.at + 1].seq
Above(order, v, w) == var2level(order, v) < var2level(order, w)
Adjoins(order, v, w) == var2level(order, v) + 1 = var2level(order, w)

\* Mutant: the last variable of the left block does not go first.
LeftRoundStuck ==
  LET n == Len(Left)
      moved[i \in 0..(n - 1)] ==
        IF i = 0 THEN bddlevel2var
        ELSE LET order == moved[i - 1]
             IN  IF ~Adjoins(order, Left[i], Left[i + 1]) THEN vardown(order, Left[i]) ELSE order
  IN  moved[n - 1]

\* One round of the first loop: each variable of the left block goes down
\* where there is room before the next one, the last where the right block
\* is still below.
LeftRound ==
  LET bottom == Right[Len(Right)]
      n == Len(Left)
      moved[i \in 0..n] ==
        IF i = 0 THEN bddlevel2var
        ELSE LET order == moved[i - 1]
                 room == i = n \/ ~Adjoins(order, Left[i], Left[i + 1])
             IN  IF room /\ Above(order, Left[i], bottom) THEN vardown(order, Left[i]) ELSE order
  IN  moved[n]

\* One round of the second: the right block goes up to where the left one
\* was, its last variable first.
RightRound ==
  LET n == Len(Right)
      below(order, v) == var2level(order, v) > swap.start
      moved[i \in 1..(n + 1)] ==
        IF i = n + 1 THEN bddlevel2var
        ELSE LET order == moved[i + 1]
                 room == i = 1 \/ ~Adjoins(order, Right[i - 1], Right[i])
             IN  IF room /\ below(order, Right[i]) THEN varup(order, Right[i]) ELSE order
  IN  moved[1]

BlockDown(i) ==
  /\ session.stage = "method" /\ swap = NoSwap
  /\ Free(session.path) /\ {i, i + 1} \subseteq DOMAIN Here
  /\ exchanges < ExchangeBound /\ exchanges' = exchanges + 1
  /\ swap' = [stage |-> "left", at |-> i, start |-> var2level(bddlevel2var, Here[i].seq[1])]
  /\ UNCHANGED <<bddlevel2var, vartree, blockid, session, calls>>

MoveLeft ==
  /\ swap.stage = "left"
  /\ IF Above(bddlevel2var, Left[1], Right[Len(Right)])
     THEN bddlevel2var' = LeftRound /\ UNCHANGED swap
     ELSE swap' = [swap EXCEPT !.stage = "right"] /\ UNCHANGED bddlevel2var
  /\ UNCHANGED <<vartree, blockid, session, calls, exchanges>>

\* Mutant: the blocks do not change places in the list.
MoveRightUnlinked ==
  /\ swap.stage = "right"
  /\ IF var2level(bddlevel2var, Right[1]) > swap.start
     THEN bddlevel2var' = RightRound /\ UNCHANGED swap
     ELSE swap' = NoSwap /\ UNCHANGED bddlevel2var
  /\ UNCHANGED <<vartree, blockid, session, calls, exchanges>>

MoveRight ==
  /\ swap.stage = "right"
  /\ IF var2level(bddlevel2var, Right[1]) > swap.start
     THEN bddlevel2var' = RightRound /\ UNCHANGED <<swap, vartree>>
     ELSE /\ vartree' = WithSubList(vartree, session.path,
                [Here EXCEPT ![swap.at] = Here[swap.at + 1], ![swap.at + 1] = Here[swap.at]])
          /\ swap' = NoSwap
          /\ UNCHANGED bddlevel2var
  /\ UNCHANGED <<blockid, session, calls, exchanges>>

----------------------------------------------------------------------------
InitBlocks ==
  /\ bddlevel2var = [l \in Levels |-> l]
  /\ vartree = <<>> /\ blockid = 0
  /\ session = Idle /\ swap = NoSwap
  /\ calls = 0 /\ exchanges = 0

\* What the client does between reorderings.
AddBlock(first, last, fixed) == session = Idle /\ bdd_intaddvarblock(first, last, fixed)
AddSet(S, fixed) == session = Idle /\ bdd_addvarblock(S, fixed)
AddAll == session = Idle /\ bdd_varblockall
Clear == session = Idle /\ bdd_clrvarblocks
Reordered == session = Idle /\ \E order \in Orders : SetOrder(order)

=============================================================================
