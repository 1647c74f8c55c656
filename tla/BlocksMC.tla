----------------------------- MODULE BlocksMC -----------------------------
(***************************************************************************)
(* The blocks against what the client was told: accepted holds the ranges  *)
(* bdd_addvarblock took.  plain is TRUE as long as no range overlapped a   *)
(* block in part and all were added in the first order of the variables.   *)
(***************************************************************************)
EXTENDS Blocks

VARIABLES accepted, plain
MCVars == <<vars, accepted, plain>>

FirstOrder == [l \in Levels |-> l]

\* Two ranges of which neither holds the other.
Crosses(first, last, b) ==
  /\ first <= b.last /\ b.first <= last
  /\ ~(first..last \subseteq b.first..b.last) /\ ~(b.first..b.last \subseteq first..last)

Note(ranges) ==
  /\ accepted' = accepted \cup {r \in ranges : blockid' # blockid}
  /\ plain' = /\ plain /\ bddlevel2var = FirstOrder
              /\ \A r \in ranges, b \in accepted : ~Crosses(r.first, r.last, b)

\* No variable between the two blocks, or one variable in the second.
Close(i) ==
  LET b == Here[i]
      c == Here[i + 1]
  IN  c.first = c.last \/ \E v \in b.first..b.last, w \in c.first..c.last : Adjoins(bddlevel2var, v, w)

MCInit == InitBlocks /\ accepted = {} /\ plain = TRUE

Span(S) == [first |-> CHOOSE v \in S : \A w \in S : v <= w,
            last |-> CHOOSE v \in S : \A w \in S : v >= w]

MCNext ==
  \/ \E first, last \in Variables : \E fixed \in BOOLEAN :
       first <= last /\ AddBlock(first, last, fixed) /\ Note({[first |-> first, last |-> last]})
  \/ \E S \in SUBSET Variables : S # {} /\ AddSet(S, TRUE) /\ Note({Span(S)})
  \/ AddAll /\ Note({[first |-> v, last |-> v] : v \in Variables})
  \/ Clear /\ accepted' = {} /\ plain' = TRUE
  \/ Reordered /\ UNCHANGED <<accepted, plain>>
  \/ StartReorder /\ UNCHANGED <<accepted, plain>>
  \/ Descend /\ UNCHANGED <<accepted, plain>>
  \/ Leave /\ UNCHANGED <<accepted, plain>>
  \/ MoveLeft /\ UNCHANGED <<accepted, plain>>
  \/ MoveRight /\ UNCHANGED <<accepted, plain>>
  \/ \E i \in 1..VarNum : BlockDown(i) /\ plain' = (plain /\ Close(i)) /\ UNCHANGED accepted

\* One thread: a call that began goes on.
MCSpec == MCInit /\ [][MCNext]_MCVars /\ WF_vars(MoveLeft \/ MoveRight)

----------------------------------------------------------------------------
RECURSIVE AllBlocks(_)
AllBlocks(t) == ToSet(t) \cup UNION {AllBlocks(b.nextlevel) : b \in ToSet(t)}
Lists == {vartree} \cup {b.nextlevel : b \in AllBlocks(vartree)}

Low(b) == CHOOSE l \in {var2level(bddlevel2var, v) : v \in b.first..b.last} :
            \A v \in b.first..b.last : l <= var2level(bddlevel2var, v)

\* Every block the client was told of is in the tree, and no other: in its
\* parent, and apart from the blocks beside it.
AcceptedKept ==
  plain =>
    /\ {[first |-> b.first, last |-> b.last] : b \in AllBlocks(vartree)} = accepted
    /\ \A b \in AllBlocks(vartree) : \A c \in ToSet(b.nextlevel) : c.first..c.last \subseteq b.first..b.last
    /\ \A t \in Lists : \A i, j \in DOMAIN t : i # j => t[i].first..t[i].last \cap t[j].first..t[j].last = {}

\* After any exchanges, on every level of the tree, with variables of no
\* block in between: the variables of a block are on adjacent levels, and
\* the blocks beside one another are listed as their levels go, which is
\* what the methods take next and prev for.  blockdown goes by the seq of
\* the two blocks: it is in the order of the levels for all blocks when a
\* reordering starts, and for the blocks a method may exchange now.
BlocksInOrder ==
  plain /\ swap = NoSwap =>
    /\ \A b \in AllBlocks(vartree) : \A v \in b.first..b.last :
         var2level(bddlevel2var, v) <= Low(b) + b.last - b.first
    /\ \A t \in Lists : \A i, j \in DOMAIN t : i < j => Low(t[i]) < Low(t[j])
    /\ \A b \in IF session = Idle THEN AllBlocks(vartree)
                ELSE IF session.stage = "method" THEN ToSet(Here) ELSE {} :
         b.seq = LevelSequence(bddlevel2var, b.first, b.last)

\* Adjacency without regard to what lies between the blocks: "A block's
\* variables must occupy adjacent levels".
BlocksAdjacent ==
  swap = NoSwap =>
    \A b \in AllBlocks(vartree) : \A v \in b.first..b.last :
      var2level(bddlevel2var, v) <= Low(b) + b.last - b.first

\* The two loops of blockdown come to an end.
ExchangeEnds == swap # NoSwap /\ plain ~> swap = NoSwap

\* Nothing in a fixed block changes its order but inside one of its
\* sub-blocks.
FixedKept ==
  [][plain /\ session # Idle =>
       \A b \in AllBlocks(vartree) : \A v, w \in b.first..b.last :
         b.fixed /\ (\A c \in ToSet(b.nextlevel) : ~({v, w} \subseteq c.first..c.last))
         /\ Above(bddlevel2var, v, w) => Above(bddlevel2var', v, w)]_MCVars

MCOrders == {[l \in 0..(VarNum - 1) |-> l], [l \in 0..(VarNum - 1) |-> VarNum - 1 - l]}
=============================================================================
