----------------------------- MODULE ApplyProofs -----------------------------
(***************************************************************************)
(* What holds of apply_rec and not_rec for every number of variables, size *)
(* of the table, of the cache and of MAXREF, and for all hash functions.   *)
(*                                                                         *)
(* The stacks.  What the recursion works on is reached from counted nodes  *)
(* (Reach), so a collection in the middle of it leaves the operands as     *)
(* they are; a recursive call is on nodes further down than its caller's,  *)
(* and what it returns is below its caller's level, so that bdd_makenode   *)
(* may put a node above it; the reference stack has one entry for each     *)
(* call that waits for its second result.                                  *)
(*                                                                         *)
(* The results: the function the operator makes of the functions of the    *)
(* operands, unless bdd_makenode failed.  Meaning, the function of a node, *)
(* is recursive; that it exists is shown level by level, from the          *)
(* constants up.  While no error stands, all that a running operation has  *)
(* found so far is right: the first results on the reference stack are     *)
(* those of the low cofactors of their calls, what a call returned is the  *)
(* result for its operands, and so is every entry of the cache.            *)
(***************************************************************************)
EXTENDS ApplyMC, NodeTableProofs

----------------------------------------------------------------------------
\* The inductive invariant.

\* The nodes with a count.
Counted == {n \in Live : refcou[n] > 0}

\* The nodes that no collection takes while the counts stay: all that hang
\* on a counted one.
Reach == {n \in Live : \A S \in SUBSET Live : Counted \subseteq S /\ Closed(S) => n \in S}

\* A call that waits for a result.
Frame(nodes) == [l : nodes, r : nodes, step : {"low", "high", "make"}]

\* The level of the result of a call.
Depth(frame, level) == Lesser(level[frame.l], level[frame.r])

\* Either no operation runs, and nothing of one is left, or the operands of
\* the operation, and of the next call, are protected.
PhaseOK ==
  /\ call # None => call \in [op : Operators, l : Reach, r : Reach]
  /\ calling # None => calling \in Reach \X Reach /\ returned = NoNode
  /\ returned # NoNode => returned \in Live
  /\ call = None => calling = None /\ returned = NoNode /\ frames = <<>> /\ bddrefstack = <<>>
  /\ returned # NoNode \/ bddrefstack # <<>> => result = 0

\* Only the innermost call is at bdd_makenode, with both results pushed.
FramesOK ==
  /\ frames \in Seq(Frame(Reach))
  /\ \A i \in DOMAIN frames :
       frames[i].step = "make" => i = Len(frames) /\ calling = None /\ returned = NoNode

\* Every call is on nodes below the level of its caller, and so is what it
\* returns.
Descending(fs, level) ==
  /\ \A i \in DOMAIN fs : Depth(fs[i], level) < VarNum
  /\ \A i \in 1..(Len(fs) - 1) : Depth(fs[i], level) < Depth(fs[i + 1], level)
DepthsOK ==
  /\ Descending(frames, LEVEL)
  /\ frames # <<>> =>
       /\ calling # None => Depth(Top, LEVEL) < TopLevel(calling[1], calling[2])
       /\ returned # NoNode => Depth(Top, LEVEL) < LEVEL[returned]

\* The reference stack has the first result of every call that waits for
\* its second one, and both of a call that is at bdd_makenode; all below the
\* level of the call.
ResultsOf(fs, refs, level) ==
  /\ Len(refs) = Pushed(fs, Len(fs)) + (IF AtMake(fs) THEN 1 ELSE 0)
  /\ \A i \in DOMAIN fs :
       fs[i].step # "low" => Depth(fs[i], level) < level[refs[Pushed(fs, i)]]
  /\ AtMake(fs) => Depth(fs[Len(fs)], level) < level[refs[Len(refs)]]
ReferencesOK == ResultsOf(frames, bddrefstack, LEVEL)

\* What the cache answers is a node, not above the operands it is asked for.
GoodCache(cache, nodes, level) ==
  /\ Cardinality(DOMAIN cache) \in Nat \ {0}
  /\ cache \in [0..(Cardinality(DOMAIN cache) - 1) ->
                {NoEntry} \cup [key : Operators \X nodes \X nodes, res : nodes]]
  /\ \A i \in DOMAIN cache :
       cache[i] # NoEntry =>
         Lesser(level[cache[i].key[2]], level[cache[i].key[3]]) <= level[cache[i].res]
CacheOK ==
  /\ GoodCache(applycache, Live, LEVEL)
  /\ bddresized \in BOOLEAN
  /\ cacheratio \in Nat
  /\ cacheratio > 0 => bddnodesize \div cacheratio >= 2

AInv == IInv /\ PhaseOK /\ FramesOK /\ DepthsOK /\ ReferencesOK /\ CacheOK

----------------------------------------------------------------------------
\* Protected nodes.

\* The levels of nodes: that of the constants is VarNum, those of all others
\* are smaller.
LEMMA Levels ==
  ASSUME IInv
  PROVE  /\ \A n \in Live : LEVEL[n] \in 0..VarNum /\ n \in Nat /\ n # NoNode
         /\ \A n \in Live : LEVEL[n] < VarNum <=> n >= 2
         /\ {0, 1} \subseteq Live /\ LEVEL[0] = VarNum /\ LEVEL[1] = VarNum
         /\ Live \subseteq 0..SlotBound
  <1> USE SizeAssumption
  <1>1. /\ VarNum \in Nat /\ SlotBound \in Nat /\ bddnodesize \in Nat
        /\ bddnodesize <= SlotBound /\ LEVEL \in [Slot -> 0..VarNum]
    BY DEF IInv, TypeOK, TableType
  <1>2. \A n \in Live : LEVEL[n] \in 0..VarNum /\ n \in Nat /\ n # NoNode /\ n \in 0..SlotBound
    BY <1>1 DEF Live, Slot, NoNode
  <1>3. {0, 1} \subseteq Live /\ LEVEL[0] = VarNum /\ LEVEL[1] = VarNum
    <2>1. 0 \in 0..(2 * VarNum + 1) /\ 1 \in 0..(2 * VarNum + 1)
      BY <1>1
    <2>2. InitLevel[0] = VarNum /\ InitLevel[1] = VarNum
      BY <1>1 DEF InitLevel
    <2>3. QED
      BY <2>1, <2>2 DEF IInv, LiteralsStay
  <1>4. ASSUME NEW n \in Live, n >= 2 PROVE LEVEL[n] < VarNum
    <2>1. LOW[n] \in Live /\ LEVEL[n] < LEVEL[LOW[n]]
      BY <1>2, <1>4 DEF IInv, ReducedOrdered
    <2>2. LEVEL[n] \in 0..VarNum /\ LEVEL[LOW[n]] \in 0..VarNum
      BY <1>2, <2>1
    <2>3. QED
      BY <1>1, <2>1, <2>2
  <1>5. ASSUME NEW n \in Live, ~(n >= 2) PROVE ~(LEVEL[n] < VarNum)
    <2>1. n = 0 \/ n = 1
      BY <1>2, <1>5
    <2>2. QED
      BY <1>1, <1>3, <2>1
  <1>6. QED
    BY <1>2, <1>3, <1>4, <1>5

\* What is reached from counted nodes is protected, and with a node its
\* children.
LEMMA ReachProtected ==
  ASSUME IInv
  PROVE  /\ Reach \subseteq Live /\ Counted \subseteq Reach /\ Reach \subseteq Survivors
         /\ \A n \in Reach : Children(n) \subseteq Reach
         /\ 0..(2 * VarNum + 1) \subseteq Reach
         /\ \A n \in 0..SlotBound : held[n] > 0 => n \in Reach
  <1> USE SizeAssumption
  <1>1. Reach \subseteq Live
    BY DEF Reach
  <1>2. Counted \subseteq Reach
    BY DEF Reach, Counted
  <1>3. Reach \subseteq Survivors
    <2>1. Counted \subseteq Roots /\ Roots \subseteq Live
      BY DEF Counted, Roots
    <2>2. ASSUME NEW n \in Reach, NEW T \in SUBSET (Live \ Roots), Closed(Roots \cup T)
          PROVE  n \in Roots \cup T
      <3>1. Roots \cup T \in SUBSET Live /\ Counted \subseteq Roots \cup T
        BY <2>1
      <3>2. QED
        BY <2>2, <3>1 DEF Reach
    <2>3. Reach \subseteq Marked
      BY <1>1, <2>2 DEF Marked
    <2>4. QED
      BY <2>3 DEF Survivors
  <1>4. ASSUME NEW n \in Reach, NEW c \in Children(n) PROVE c \in Reach
    <2>1. c \in Live
      BY <1>1, <1>4 DEF IInv, ReducedOrdered, Children, Live
    <2>2. ASSUME NEW S \in SUBSET Live, Counted \subseteq S, Closed(S)
          PROVE  c \in S
      <3>1. n \in S
        BY <2>2 DEF Reach
      <3>2. QED
        BY <1>4, <2>2, <3>1 DEF Closed
    <2>3. QED
      BY <2>1, <2>2 DEF Reach
  <1>5. \A n \in 0..(2 * VarNum + 1) : n \in Counted
    BY DEF IInv, LiteralsStay, Counted
  <1>6. ASSUME NEW n \in 0..SlotBound, held[n] > 0 PROVE n \in Counted
    <2>1. n \in Live /\ (refcou[n] = held[n] \/ refcou[n] = MaxRef)
      BY <1>6 DEF IInv, ProtectedLive
    <2>2. QED
      BY <1>6, <2>1 DEF Counted
  <1>7. QED
    BY <1>1, <1>2, <1>3, <1>4, <1>5, <1>6

\* What the client may name is protected: bdd_apply needs no reference of its
\* own on its operands.
LEMMA OperandsProtected ==
  ASSUME IInv, NEW n \in Slot, n \in Atoms \/ Known(n)
  PROVE  n \in Reach
  <1> USE SizeAssumption
  <1>1. CASE n \in Atoms
    BY <1>1, OperandAssumption, ReachProtected
  <1>2. CASE Known(n)
    <2>1. PICK m \in Slot : held[m] > 0 /\ n \in {m} \cup Children(m)
      BY <1>2 DEF Known
    <2>2. m \in 0..SlotBound
      BY DEF IInv, TypeOK, TableType, Slot
    <2>3. m \in Reach
      BY <2>1, <2>2, ReachProtected
    <2>4. QED
      BY <2>1, <2>3, ReachProtected
  <1>3. QED
    BY <1>1, <1>2

\* A collection in bdd_makenode leaves what is reached from counted nodes.
LEMMA ReachKept ==
  ASSUME IInv, NEW l \in 0..(VarNum - 1), NEW a \in Roots, NEW b \in Roots,
         l < LEVEL[a], l < LEVEL[b],
         NEW res, bdd_makenode(l, a, b, res)
  PROVE  /\ Reach \subseteq Reach'
         /\ \A n \in Reach : SameNode(n)
  <1>1. /\ Survivors \subseteq Live'
        /\ \A n \in Survivors : SameNode(n) /\ refcou'[n] = refcou[n]
    BY MakeNodeTableOK
  <1>2. /\ Reach \subseteq Survivors /\ Counted \subseteq Reach /\ Reach \subseteq Live
        /\ \A n \in Reach : Children(n) \subseteq Reach
    BY ReachProtected
  <1>3. \A n \in Reach : Children(n)' = Children(n)
    BY <1>1, <1>2 DEF SameNode, Children
  <1>4. Counted \subseteq Counted'
    BY <1>1, <1>2 DEF Counted
  <1>5. ASSUME NEW n \in Reach, NEW T \in SUBSET Live', Counted' \subseteq T, Closed(T)'
        PROVE  n \in T
    <2> DEFINE S == T \cap Reach
    <2>1. S \in SUBSET Live /\ Counted \subseteq S
      BY <1>2, <1>4, <1>5
    <2>2. Closed(S)
      <3>1. ASSUME NEW m \in S PROVE Children(m) \subseteq S
        <4>1. Children(m)' \subseteq T
          BY <1>5 DEF Closed
        <4>2. QED
          BY <1>2, <1>3, <4>1
      <3>2. QED
        BY <3>1 DEF Closed
    <2>3. n \in S
      BY <2>1, <2>2 DEF Reach
    <2>4. QED
      BY <2>3
  <1>6. Reach \subseteq Live'
    BY <1>1, <1>2
  <1>7. QED
    BY <1>1, <1>2, <1>5, <1>6 DEF Reach

\* While bdd_makenode does not collect, no node goes.
LEMMA LiveKept ==
  ASSUME IInv, NEW l \in 0..(VarNum - 1), NEW a \in Roots, NEW b \in Roots,
         NEW res, bdd_makenode(l, a, b, res), ~Collects(a, b, l)
  PROVE  /\ Live \subseteq Live' /\ \A n \in Live : SameNode(n)
         /\ bddnodesize' = bddnodesize
  <1>1. CASE UNCHANGED table
    BY <1>1 DEF table, SameNode, Live, Slot
  <1>2. CASE TakeNode(l, a, b, res)
    <2>1. res \notin Live
      BY <1>2 DEF TakeNode, IInv, FreeListExact
    <2>2. \A n \in Live : LEVEL'[n] = LEVEL[n] /\ LOW'[n] = LOW[n] /\ HIGH'[n] = HIGH[n]
      BY <1>2, <2>1 DEF TakeNode, IInv, TypeOK, TableType, Live
    <2>3. bddnodesize' = bddnodesize
      BY <1>2 DEF TakeNode
    <2>4. QED
      BY <2>2, <2>3 DEF SameNode, Live, Slot
  <1>3. QED
    BY <1>1, <1>2 DEF bdd_makenode, Collects, FindNode, RefuseNode

\* bdd_noderesize never makes the table smaller, and in 0..SlotBound.
LEMMA TableSize == IInv => bddnodesize \in 2..SlotBound /\ bddnodesize \in Nat /\ SlotBound \in Nat
  BY SizeAssumption DEF IInv, TypeOK, TableType

----------------------------------------------------------------------------
\* The recursion.

\* A call returns at once with one of its operands, or a constant.
LEMMA ImmediateValue ==
  ASSUME NEW op \in Operators, NEW l \in Nat, NEW r \in Nat, NEW n \in Immediate(op, l, r)
  PROVE  n \in {l, r, 0, 1}
  <1>1. CASE n \in Shortcuts(op, l, r)
    BY <1>1, CacheAssumption DEF Shortcuts
  <1>2. CASE n \notin Shortcuts(op, l, r)
    BY <1>2 DEF Immediate, OperatorValue
  <1>3. QED
    BY <1>1, <1>2

\* It does so on two constants: a call that goes on has an operand with a
\* level.
LEMMA NotImmediate ==
  ASSUME IInv, NEW op, NEW l \in Live, NEW r \in Live, Immediate(op, l, r) = {}
  PROVE  TopLevel(l, r) \in 0..(VarNum - 1)
  <1>1. ~(l < 2 /\ r < 2)
    BY DEF Immediate
  <1>2. l \in Nat /\ r \in Nat /\ LEVEL[l] \in 0..VarNum /\ LEVEL[r] \in 0..VarNum
    BY Levels
  <1>3. LEVEL[l] < VarNum \/ LEVEL[r] < VarNum
    BY <1>1, <1>2, Levels
  <1>4. QED
    BY <1>2, <1>3, SizeAssumption DEF TopLevel, Lesser

\* TopLevel is the level of one of the operands, and not below the other.
LEMMA TopLevelType ==
  ASSUME IInv, NEW l \in Live, NEW r \in Live
  PROVE  /\ TopLevel(l, r) \in 0..VarNum
         /\ TopLevel(l, r) <= LEVEL[l] /\ TopLevel(l, r) <= LEVEL[r]
  <1>1. LEVEL[l] \in 0..VarNum /\ LEVEL[r] \in 0..VarNum
    BY Levels
  <1>2. QED
    BY <1>1, SizeAssumption DEF TopLevel, Lesser

\* The operands of the two recursive calls are protected, and below the level
\* of the call.
LEMMA CofactorsDeeper ==
  ASSUME IInv, NEW l \in Reach, NEW r \in Reach, TopLevel(l, r) < VarNum,
         NEW child, child = LOW \/ child = HIGH
  PROVE  /\ Cofactors(l, r, child) \in Reach \X Reach
         /\ TopLevel(l, r) < TopLevel(Cofactors(l, r, child)[1], Cofactors(l, r, child)[2])
  <1> DEFINE level == TopLevel(l, r)
  <1>1. l \in Live /\ r \in Live /\ Reach \subseteq Live
    BY ReachProtected
  <1>2. level \in 0..VarNum /\ level <= LEVEL[l] /\ level <= LEVEL[r]
    BY <1>1, TopLevelType
  <1>3. ASSUME NEW n \in Reach, level <= LEVEL[n]
        PROVE  Cofactor(n, level, child) \in Reach /\ level < LEVEL[Cofactor(n, level, child)]
    <2>1. n \in Live /\ n \in Nat /\ LEVEL[n] \in 0..VarNum
      BY <1>1, Levels
    <2>2. CASE LEVEL[n] = level
      <3>1. n >= 2
        BY <2>1, <2>2, Levels
      <3>2. /\ child[n] \in Reach
            /\ LEVEL[n] < LEVEL[child[n]]
        <4>1. n \in Live \ {0, 1} /\ LOW[n] # -1
          BY <2>1, <3>1 DEF Live
        <4>2. LOW[n] \in Children(n) /\ HIGH[n] \in Children(n)
          BY <2>1, <3>1, <4>1 DEF Children
        <4>3. QED
          BY <4>1, <4>2, ReachProtected DEF IInv, ReducedOrdered
      <3>3. QED
        BY <2>2, <3>2 DEF Cofactor
    <2>3. CASE LEVEL[n] # level
      BY <1>2, <1>3, <2>1, <2>3 DEF Cofactor
    <2>4. QED
      BY <2>2, <2>3
  <1> DEFINE cl == Cofactor(l, level, child)
             cr == Cofactor(r, level, child)
  <1>4. Cofactors(l, r, child) = <<cl, cr>>
    BY DEF Cofactors
  <1>5. cl \in Reach /\ cr \in Reach /\ level < LEVEL[cl] /\ level < LEVEL[cr]
    BY <1>2, <1>3
  <1> HIDE DEF cl, cr, level
  <1>6. level < TopLevel(cl, cr)
    BY <1>5 DEF TopLevel, Lesser
  <1>7. QED
    BY <1>4, <1>5, <1>6 DEF level

\* The places of the results that calls wait with.
LEMMA PushedInRange ==
  ASSUME NEW nodes, NEW fs \in Seq(Frame(nodes)), NEW refs, NEW level,
         ResultsOf(fs, refs, level)
  PROVE  /\ Pushed(fs, Len(fs)) \in Nat
         /\ Pushed(fs, Len(fs)) = Len(refs) - (IF AtMake(fs) THEN 1 ELSE 0)
         /\ Len(refs) \in Nat
         /\ \A i \in DOMAIN fs : /\ Pushed(fs, i) \in Nat /\ Pushed(fs, i) <= Pushed(fs, Len(fs))
                                 /\ fs[i].step # "low" => Pushed(fs, i) > 0
  <1>1. Len(fs) \in Nat /\ DOMAIN fs = 1..Len(fs)
    OBVIOUS
  <1>2. Pushed(fs, Len(fs)) \in Nat
    BY <1>1, PushedMonotonic
  <1>3. ASSUME NEW i \in DOMAIN fs
        PROVE  /\ Pushed(fs, i) \in Nat /\ Pushed(fs, i) <= Pushed(fs, Len(fs))
               /\ fs[i].step # "low" => Pushed(fs, i) > 0
    <2>1. i \in Nat /\ i > 0 /\ i <= Len(fs)
      BY <1>1
    <2>2. /\ Pushed(fs, i) = Pushed(fs, i - 1) + (IF fs[i].step = "low" THEN 0 ELSE 1)
          /\ Pushed(fs, i - 1) \in Nat
      BY <2>1, PushedStep
    <2>3. Pushed(fs, i) \in Nat /\ Pushed(fs, i) <= Pushed(fs, Len(fs))
      BY <1>1, <2>1, PushedMonotonic
    <2>4. QED
      BY <2>2, <2>3
  <1>4. Len(refs) = Pushed(fs, Len(fs)) + (IF AtMake(fs) THEN 1 ELSE 0)
    BY DEF ResultsOf
  <1>5. QED
    BY <1>2, <1>3, <1>4

\* A call goes on with its first recursive call.
LEMMA FramePushed ==
  ASSUME NEW nodes, NEW fs \in Seq(Frame(nodes)), NEW refs, NEW level,
         NEW new \in Frame(nodes), new.step = "low",
         Descending(fs, level), ResultsOf(fs, refs, level), ~AtMake(fs),
         Depth(new, level) < VarNum,
         fs # <<>> => Depth(fs[Len(fs)], level) < Depth(new, level)
  PROVE  /\ Descending(Append(fs, new), level)
         /\ ResultsOf(Append(fs, new), refs, level)
  <1> DEFINE gs == Append(fs, new)  k == Len(fs)
  <1>1. k \in Nat /\ DOMAIN fs = 1..k /\ (k > 0 => fs # <<>>)
    OBVIOUS
  <1>2. /\ Len(gs) = k + 1 /\ DOMAIN gs = 1..(k + 1)
        /\ gs[k + 1] = new /\ \A i \in 1..k : gs[i] = fs[i]
    OBVIOUS
  <1> HIDE DEF gs
  <1>3. Descending(gs, level)
    <2>1. \A i \in DOMAIN gs : Depth(gs[i], level) < VarNum
      BY <1>1, <1>2 DEF Descending
    <2>2. ASSUME NEW i \in 1..k PROVE Depth(gs[i], level) < Depth(gs[i + 1], level)
      <3>1. CASE i = k
        BY <1>1, <1>2, <3>1
      <3>2. CASE i # k
        <4>1. i \in 1..(k - 1) /\ i + 1 \in 1..k
          <5>1. k \in Nat /\ i \in 1..k /\ i # k
            BY <1>1, <3>2
          <5> HIDE DEF k
          <5>2. QED
            BY <5>1
        <4>2. Depth(fs[i], level) < Depth(fs[i + 1], level)
          BY <4>1 DEF Descending
        <4>3. QED
          BY <1>2, <4>1, <4>2
      <3>3. QED
        BY <3>1, <3>2
    <2>3. QED
      BY <1>1, <1>2, <2>1, <2>2 DEF Descending
  <1>4. \A i \in 0..k : Pushed(gs, i) = Pushed(fs, i)
    <2>1. ASSUME NEW i \in 0..k PROVE Pushed(gs, i) = Pushed(fs, i)
      <3>1. i \in Nat /\ \A j \in 1..i : gs[j].step = fs[j].step
        BY <1>1, <1>2
      <3>2. QED
        BY <3>1, PushedSame
    <2>2. QED
      BY <2>1
  <1>5. Pushed(gs, k + 1) = Pushed(fs, k) /\ Pushed(fs, k) \in Nat
    <2>1. k + 1 \in Nat /\ k + 1 > 0 /\ (k + 1) - 1 = k /\ k \in 0..k
      BY <1>1
    <2>2. /\ Pushed(gs, k + 1) = Pushed(gs, k) + (IF gs[k + 1].step = "low" THEN 0 ELSE 1)
          /\ Pushed(gs, k) \in Nat
      BY <2>1, PushedStep
    <2>3. QED
      BY <1>2, <1>4, <2>1, <2>2
  <1>6. Len(refs) = Pushed(fs, k)
    BY <1>5 DEF ResultsOf
  <1>7. ~AtMake(gs)
    BY <1>2 DEF AtMake
  <1>8. ASSUME NEW i \in DOMAIN gs, gs[i].step # "low"
        PROVE  Depth(gs[i], level) < level[refs[Pushed(gs, i)]]
    <2>1. i \in 1..k /\ i \in 0..k
      BY <1>1, <1>2, <1>8
    <2>2. QED
      BY <1>1, <1>2, <1>4, <1>8, <2>1 DEF ResultsOf
  <1>9. ResultsOf(gs, refs, level)
    BY <1>2, <1>5, <1>6, <1>7, <1>8 DEF ResultsOf
  <1>10. QED
    BY <1>3, <1>9 DEF gs

\* A result of the innermost call is pushed: its first one, or its second one.
LEMMA ResultPushed ==
  ASSUME NEW nodes, NEW fs \in Seq(Frame(nodes)), fs # <<>>, NEW S, NEW refs \in Seq(S), NEW level,
         Descending(fs, level), ResultsOf(fs, refs, level),
         NEW n \in S, Depth(fs[Len(fs)], level) < level[n],
         NEW step, \/ fs[Len(fs)].step = "low" /\ step = "high"
                   \/ fs[Len(fs)].step = "high" /\ step = "make"
  PROVE  /\ Descending(NextStep(fs, step), level)
         /\ ResultsOf(NextStep(fs, step), Append(refs, n), level)
         /\ NextStep(fs, step) \in Seq(Frame(nodes))
         /\ Len(NextStep(fs, step)) = Len(fs)
         /\ \A i \in 1..(Len(fs) - 1) : NextStep(fs, step)[i] = fs[i]
         /\ NextStep(fs, step)[Len(fs)] = [fs[Len(fs)] EXCEPT !.step = step]
  <1> DEFINE k == Len(fs)
             top == [fs[k] EXCEPT !.step = step]
             gs == NextStep(fs, step)
             new == Append(refs, n)
  <1>1. k \in Nat /\ k > 0 /\ DOMAIN fs = 1..k /\ k \in 1..k /\ fs[k] \in Frame(nodes)
    OBVIOUS
  <1>2. top \in Frame(nodes) /\ top.l = fs[k].l /\ top.r = fs[k].r /\ top.step = step
    BY <1>1 DEF Frame
  <1>3. gs = [fs EXCEPT ![k] = top]
    BY DEF NextStep
  <1> HIDE DEF top, gs
  <1>4. /\ gs \in Seq(Frame(nodes)) /\ Len(gs) = k /\ DOMAIN gs = 1..k
        /\ \A i \in 1..(k - 1) : gs[i] = fs[i]
        /\ gs[k] = top
    <2> DEFINE F == Frame(nodes)
    <2>1. fs \in Seq(F) /\ k = Len(fs) /\ k \in 1..Len(fs) /\ top \in F /\ DOMAIN fs = 1..k
      BY <1>1, <1>2
    <2> HIDE DEF k, F
    <2>2. gs \in Seq(F) /\ Len(gs) = k
      BY <1>3, <2>1
    <2>3. DOMAIN gs = 1..k /\ gs[k] = top
      BY <1>3, <2>1
    <2>4. \A i \in 1..(k - 1) : i \in DOMAIN fs /\ i # k
      <3>1. k \in Nat \ {0}
        BY <1>1
      <3>2. QED
        BY <2>1, <3>1, PlacesBefore, Zenon
    <2>5. \A i \in 1..(k - 1) : gs[i] = fs[i]
      BY <1>3, <2>4
    <2>6. QED
      BY <2>2, <2>3, <2>5 DEF F
  <1>5. \A i \in 1..k : Depth(gs[i], level) = Depth(fs[i], level)
    BY <1>1, <1>2, <1>4 DEF Depth
  <1>6. Descending(gs, level)
    <2>1. \A i \in 1..k : Depth(gs[i], level) < VarNum
      BY <1>1, <1>5 DEF Descending
    <2>2. ASSUME NEW i \in 1..(k - 1) PROVE Depth(gs[i], level) < Depth(gs[i + 1], level)
      <3>1. i \in 1..k /\ i + 1 \in 1..k
        BY <1>1
      <3>2. Depth(fs[i], level) < Depth(fs[i + 1], level)
        BY DEF Descending
      <3>3. QED
        BY <1>5, <3>1, <3>2
    <2>3. QED
      BY <1>4, <2>1, <2>2 DEF Descending
  <1>7. ~AtMake(fs) /\ (AtMake(gs) <=> step = "make")
    BY <1>1, <1>2, <1>4 DEF AtMake
  <1>8. /\ Pushed(fs, k) = Len(refs) /\ Len(refs) \in Nat
        /\ \A i \in 1..k : Pushed(fs, i) \in Nat /\ Pushed(fs, i) <= Len(refs)
                           /\ (fs[i].step # "low" => Pushed(fs, i) > 0)
    BY <1>1, <1>7, PushedInRange
  <1>9. /\ Len(new) = Len(refs) + 1 /\ new[Len(refs) + 1] = n
        /\ \A j \in 1..Len(refs) : new[j] = refs[j]
    OBVIOUS
  <1> HIDE DEF new
  <1>10. \A i \in 0..(k - 1) : Pushed(gs, i) = Pushed(fs, i)
    <2>1. ASSUME NEW i \in 0..(k - 1) PROVE Pushed(gs, i) = Pushed(fs, i)
      <3>1. i \in Nat /\ \A j \in 1..i : gs[j].step = fs[j].step
        BY <1>1, <1>4
      <3>2. QED
        BY <3>1, PushedSame
    <2>2. QED
      BY <2>1
  <1>11. /\ Pushed(fs, k) = Pushed(fs, k - 1) + (IF fs[k].step = "low" THEN 0 ELSE 1)
         /\ Pushed(gs, k) = Pushed(fs, k - 1) + 1
         /\ Pushed(fs, k - 1) \in Nat
    <2>1. Pushed(gs, k) = Pushed(gs, k - 1) + (IF gs[k].step = "low" THEN 0 ELSE 1)
      BY <1>1, PushedStep
    <2>2. /\ Pushed(fs, k) = Pushed(fs, k - 1) + (IF fs[k].step = "low" THEN 0 ELSE 1)
          /\ Pushed(fs, k - 1) \in Nat
      BY <1>1, PushedStep
    <2>3. gs[k].step # "low" /\ k - 1 \in 0..(k - 1)
      BY <1>1, <1>2, <1>4
    <2>4. QED
      BY <1>10, <2>1, <2>2, <2>3
  <1>12. \A i \in 1..(k - 1) : gs[i].step # "low" =>
            Depth(gs[i], level) < level[new[Pushed(gs, i)]]
    <2>1. ASSUME NEW i \in 1..(k - 1), gs[i].step # "low"
          PROVE  Depth(gs[i], level) < level[new[Pushed(gs, i)]]
      <3>1. i \in 1..k /\ i \in 0..(k - 1) /\ fs[i].step # "low" /\ gs[i] = fs[i]
        BY <1>1, <1>4, <2>1
      <3>2. Pushed(gs, i) = Pushed(fs, i) /\ Pushed(fs, i) \in 1..Len(refs)
        BY <1>8, <1>10, <3>1
      <3>3. Depth(fs[i], level) < level[refs[Pushed(fs, i)]]
        BY <1>1, <3>1 DEF ResultsOf
      <3>4. QED
        BY <1>9, <3>1, <3>2, <3>3
    <2>2. QED
      BY <2>1
  <1>13. CASE fs[k].step = "low" /\ step = "high"
    <2>1. Len(new) = Pushed(gs, k) + 0
      BY <1>8, <1>9, <1>11, <1>13
    <2>2. Depth(gs[k], level) < level[new[Pushed(gs, k)]]
      <3>1. Pushed(gs, k) = Len(refs) + 1
        BY <1>8, <1>11, <1>13
      <3>2. new[Pushed(gs, k)] = n
        BY <1>9, <3>1
      <3>3. QED
        BY <1>1, <1>5, <3>2
    <2>3. ResultsOf(gs, new, level)
      BY <1>1, <1>4, <1>7, <1>12, <1>13, <2>1, <2>2 DEF ResultsOf
    <2>4. QED
      BY <1>4, <1>6, <2>3 DEF gs, new, top
  <1>14. CASE fs[k].step = "high" /\ step = "make"
    <2>1. Len(new) = Pushed(gs, k) + 1 /\ Pushed(gs, k) = Pushed(fs, k)
      BY <1>8, <1>9, <1>11, <1>14
    <2>2. Depth(gs[k], level) < level[new[Len(new)]]
      BY <1>1, <1>5, <1>9
    <2>3. Depth(gs[k], level) < level[new[Pushed(gs, k)]]
      <3>1. Depth(fs[k], level) < level[refs[Pushed(fs, k)]]
        BY <1>1, <1>14 DEF ResultsOf
      <3>2. Pushed(fs, k) \in 1..Len(refs)
        BY <1>1, <1>8, <1>14
      <3>3. QED
        BY <1>1, <1>5, <1>9, <2>1, <3>1, <3>2
    <2>4. ResultsOf(gs, new, level)
      BY <1>1, <1>4, <1>7, <1>12, <1>14, <2>1, <2>2, <2>3 DEF ResultsOf
    <2>5. QED
      BY <1>4, <1>6, <2>4 DEF gs, new, top
  <1>15. QED
    BY <1>13, <1>14

\* The innermost call returns, with its two results taken off the reference
\* stack.  The table may have changed elsewhere.
LEMMA FramePopped ==
  ASSUME NEW nodes, NEW fs \in Seq(Frame(nodes)), AtMake(fs), NEW S, NEW refs \in Seq(S),
         NEW level, Descending(fs, level), ResultsOf(fs, refs, level),
         \A i \in 1..(Len(fs) - 1) : fs[i].step # "make",
         NEW level2, \A n \in nodes \cup S : level2[n] = level[n]
  PROVE  /\ Len(refs) >= 2
         /\ Depth(fs[Len(fs)], level) < level[refs[Len(refs) - 1]]
         /\ Depth(fs[Len(fs)], level) < level[refs[Len(refs)]]
         /\ SubSeq(fs, 1, Len(fs) - 1) \in Seq(Frame(nodes))
         /\ Len(SubSeq(fs, 1, Len(fs) - 1)) = Len(fs) - 1
         /\ \A i \in 1..(Len(fs) - 1) : SubSeq(fs, 1, Len(fs) - 1)[i] = fs[i]
         /\ ~AtMake(SubSeq(fs, 1, Len(fs) - 1))
         /\ Descending(SubSeq(fs, 1, Len(fs) - 1), level2)
         /\ ResultsOf(SubSeq(fs, 1, Len(fs) - 1), SubSeq(refs, 1, Len(refs) - 2), level2)
         /\ Len(fs) > 1 => Depth(fs[Len(fs) - 1], level2) < Depth(fs[Len(fs)], level)
  <1> DEFINE k == Len(fs)
             d == Len(refs)
             gs == SubSeq(fs, 1, k - 1)
             left == SubSeq(refs, 1, d - 2)
  <1>1. k \in Nat /\ k > 0 /\ DOMAIN fs = 1..k /\ d \in Nat /\ fs # <<>> /\ k \in 1..k
    BY DEF AtMake
  <1>2. /\ Len(gs) = k - 1 /\ \A i \in 1..(k - 1) : gs[i] = fs[i]
        /\ DOMAIN gs = 1..(k - 1) /\ gs \in Seq(Frame(nodes))
    BY <1>1
  <1> HIDE DEF gs
  <1>3. fs[k].step = "make"
    BY DEF AtMake
  <1>4. /\ Pushed(fs, k) = d - 1 /\ Pushed(fs, k) > 0
    BY <1>1, <1>3, PushedInRange
  <1>5. d >= 2
    BY <1>1, <1>4
  <1>6. /\ Len(left) = d - 2 /\ \A j \in 1..(d - 2) : left[j] = refs[j]
        /\ \A j \in 1..d : refs[j] \in S
    <2>1. \A j \in 1..d : refs[j] \in S
      OBVIOUS
    <2>2. d - 2 \in Nat /\ 1 \in Nat /\ d - 2 <= Len(refs)
      BY <1>1, <1>5
    <2>3. left = [j \in 1..(d - 2) |-> refs[j]]
      BY <2>2
    <2> HIDE DEF left, d
    <2>4. Len(left) = d - 2
      BY <2>2, <2>3
    <2>5. QED
      BY <2>1, <2>3, <2>4
  <1> HIDE DEF left
  <1>7. Depth(fs[k], level) < level[refs[d - 1]] /\ Depth(fs[k], level) < level[refs[d]]
    <2>1. Depth(fs[k], level) < level[refs[Pushed(fs, k)]]
      BY <1>1, <1>3 DEF ResultsOf
    <2>2. Depth(fs[k], level) < level[refs[d]]
      BY DEF ResultsOf
    <2>3. QED
      BY <1>4, <2>1, <2>2
  <1>8. \A i \in 1..k : Depth(fs[i], level2) = Depth(fs[i], level)
    <2>1. \A i \in 1..k : fs[i] \in Frame(nodes)
      OBVIOUS
    <2>2. \A f \in Frame(nodes) : Depth(f, level2) = Depth(f, level)
      BY DEF Frame, Depth
    <2>3. QED
      BY <2>1, <2>2
  <1>9. \A i \in 1..(k - 1) : i \in 1..k
    <2> HIDE DEF k
    <2>1. QED
      BY <1>1
  <1>10. ~AtMake(gs)
    <2>1. CASE k = 1
      BY <1>2, <2>1 DEF AtMake
    <2>2. CASE k # 1
      <3>1. k - 1 \in 1..(k - 1)
        BY <1>1, <2>2
      <3>2. gs[Len(gs)] = fs[k - 1] /\ fs[k - 1].step # "make"
        BY <1>2, <3>1
      <3>3. QED
        BY <3>2 DEF AtMake
    <2>3. QED
      BY <2>1, <2>2
  <1>11. Descending(gs, level2)
    <2>1. \A i \in 1..(k - 1) : Depth(gs[i], level2) < VarNum
      BY <1>1, <1>2, <1>8, <1>9 DEF Descending
    <2>2. ASSUME NEW i \in 1..((k - 1) - 1)
          PROVE  Depth(gs[i], level2) < Depth(gs[i + 1], level2)
      <3>1. i \in 1..(k - 1) /\ i + 1 \in 1..(k - 1) /\ i \in 1..k /\ i + 1 \in 1..k
        <4>1. k \in Nat
          BY <1>1
        <4> HIDE DEF k
        <4>2. QED
          BY <4>1
      <3>2. Depth(fs[i], level) < Depth(fs[i + 1], level)
        BY <3>1 DEF Descending
      <3>3. QED
        BY <1>2, <1>8, <3>1, <3>2
    <2>3. QED
      BY <1>2, <2>1, <2>2 DEF Descending
  <1>12. \A i \in 0..(k - 1) : Pushed(gs, i) = Pushed(fs, i)
    <2>1. ASSUME NEW i \in 0..(k - 1) PROVE Pushed(gs, i) = Pushed(fs, i)
      <3>1. i \in Nat /\ \A j \in 1..i : gs[j].step = fs[j].step
        BY <1>1, <1>2
      <3>2. QED
        BY <3>1, PushedSame
    <2>2. QED
      BY <2>1
  <1>13. Pushed(fs, k - 1) = d - 2
    <2>1. /\ Pushed(fs, k) = Pushed(fs, k - 1) + (IF fs[k].step = "low" THEN 0 ELSE 1)
          /\ Pushed(fs, k - 1) \in Nat
      BY <1>1, PushedStep
    <2>2. QED
      BY <1>1, <1>3, <1>4, <2>1
  <1>14. ASSUME NEW i \in 1..(k - 1), gs[i].step # "low"
         PROVE  Depth(gs[i], level2) < level2[left[Pushed(gs, i)]]
    <2>1. i \in 1..k /\ i \in 0..(k - 1) /\ fs[i].step # "low" /\ gs[i] = fs[i] /\ i <= k - 1
          /\ i \in Nat /\ k - 1 \in Nat
      <3>1. fs[i].step # "low" /\ gs[i] = fs[i] /\ i \in 1..k
        BY <1>2, <1>9, <1>14
      <3>2. k \in Nat /\ k > 0
        BY <1>1
      <3> HIDE DEF k
      <3>3. QED
        BY <3>1, <3>2
    <2>2. Pushed(fs, i) \in Nat /\ Pushed(fs, i) > 0
      BY <1>1, <2>1, PushedInRange
    <2>3. Pushed(fs, i) <= d - 2
      BY <1>13, <2>1, PushedMonotonic
    <2>4. Depth(fs[i], level) < level[refs[Pushed(fs, i)]]
      BY <1>1, <2>1 DEF ResultsOf
    <2>5. Pushed(gs, i) = Pushed(fs, i) /\ Pushed(fs, i) \in 1..(d - 2) /\ Pushed(fs, i) \in 1..d
      BY <1>1, <1>12, <2>1, <2>2, <2>3
    <2>6. left[Pushed(gs, i)] = refs[Pushed(fs, i)] /\ refs[Pushed(fs, i)] \in S
      BY <1>6, <2>5
    <2>7. QED
      BY <1>8, <2>1, <2>4, <2>6
  <1>15. ResultsOf(gs, left, level2)
    <2>1. k - 1 \in 0..(k - 1)
      BY <1>1
    <2>2. Len(left) = Pushed(gs, Len(gs)) + 0
      BY <1>1, <1>2, <1>5, <1>6, <1>12, <1>13, <2>1
    <2>3. QED
      BY <1>2, <1>10, <1>14, <2>2 DEF ResultsOf
  <1>16. k > 1 => Depth(fs[k - 1], level2) < Depth(fs[k], level)
    <2>1. ASSUME k > 1 PROVE Depth(fs[k - 1], level2) < Depth(fs[k], level)
      <3>1. k - 1 \in 1..(k - 1) /\ k - 1 \in 1..k /\ (k - 1) + 1 = k
        BY <1>1, <2>1
      <3>2. Depth(fs[k - 1], level) < Depth(fs[(k - 1) + 1], level)
        BY <3>1 DEF Descending
      <3>3. QED
        BY <1>8, <3>1, <3>2
    <2>2. QED
      BY <2>1
  <1>17. QED
    BY <1>2, <1>5, <1>7, <1>10, <1>11, <1>15, <1>16 DEF gs, left

----------------------------------------------------------------------------
\* The cache.

\* bdd_prime_gte finds a prime, so a cache has a slot.
LEMMA NextPrimeType ==
  ASSUME NEW n \in 2..SlotBound
  PROVE  NextPrime(n) \in Nat \ {0}
  <1> USE SizeAssumption
  <1> DEFINE T == {p \in n..(2 * n) : p > 2 /\ IsPrime(p)}
  <1>1. T \in SUBSET Nat /\ T # {}
    BY BertrandAssumption
  <1>2. PICK p \in T : \A q \in T : p <= q
    BY <1>1, LeastNatural
  <1>3. \A q \in n..(p - 1) : q <= 2 \/ ~IsPrime(q)
    <2>1. SUFFICES ASSUME NEW q \in n..(p - 1), q > 2, IsPrime(q)
                   PROVE  FALSE
      OBVIOUS
    <2>2. p \in n..(2 * n)
      BY <1>2
    <2>3. q \in T /\ q < p
      BY <2>1, <2>2
    <2>4. QED
      BY <1>1, <1>2, <2>2, <2>3
  <1>4. \E x \in n..(2 * n) : x > 2 /\ IsPrime(x) /\ \A q \in n..(x - 1) : q <= 2 \/ ~IsPrime(q)
    BY <1>2, <1>3
  <1>5. NextPrime(n) \in n..(2 * n)
    BY <1>4 DEF NextPrime
  <1>6. QED
    BY <1>5

\* A cache after BddCache_init, BddCache_resize or BddCache_reset.
LEMMA EmptyCacheGood ==
  ASSUME NEW size \in Nat \ {0}, NEW nodes, NEW level
  PROVE  GoodCache(EmptyCache(size), nodes, level)
  <1>1. DOMAIN EmptyCache(size) = 0..(size - 1)
    BY DEF EmptyCache
  <1>2. Cardinality(0..(size - 1)) = size
    BY FS_Interval
  <1>3. \A i \in 0..(size - 1) : EmptyCache(size)[i] = NoEntry
    BY DEF EmptyCache
  <1>4. EmptyCache(size) \in [0..(size - 1) -> {NoEntry}]
    BY DEF EmptyCache
  <1>5. QED
    BY <1>1, <1>2, <1>3, <1>4 DEF GoodCache

\* The slot of a hash.
LEMMA SlotInRange ==
  ASSUME NEW cache, NEW nodes, NEW level, GoodCache(cache, nodes, level), NEW hash \in Nat
  PROVE  SlotOf(cache, hash) \in DOMAIN cache
  <1>1. PICK slots \in Nat \ {0} : slots = Cardinality(DOMAIN cache)
    BY DEF GoodCache
  <1>2. DOMAIN cache = 0..(slots - 1)
    BY <1>1 DEF GoodCache
  <1>3. hash % slots \in 0..(slots - 1)
    BY <1>1
  <1>4. QED
    BY <1>1, <1>2, <1>3 DEF SlotOf

\* What the cache has for a hash.
LEMMA EntryGood ==
  ASSUME NEW cache, NEW nodes, NEW level, GoodCache(cache, nodes, level), NEW hash \in Nat,
         Entry(cache, hash) # NoEntry
  PROVE  /\ Entry(cache, hash) \in [key : Operators \X nodes \X nodes, res : nodes]
         /\ Lesser(level[Entry(cache, hash).key[2]], level[Entry(cache, hash).key[3]])
              <= level[Entry(cache, hash).res]
  <1>1. SlotOf(cache, hash) \in DOMAIN cache
    BY SlotInRange
  <1>2. QED
    BY <1>1 DEF GoodCache, Entry

\* A cache stays good when nodes are added to the table.
LEMMA GoodCacheKept ==
  ASSUME NEW cache, NEW nodes, NEW level, GoodCache(cache, nodes, level),
         NEW nodes2, NEW level2, nodes \subseteq nodes2,
         \A n \in nodes : level2[n] = level[n]
  PROVE  GoodCache(cache, nodes2, level2)
  <1> DEFINE slots == Cardinality(DOMAIN cache)
             E(s) == [key : Operators \X s \X s, res : s]
  <1>1. cache \in [0..(slots - 1) -> {NoEntry} \cup E(nodes)]
    BY DEF GoodCache
  <1>2. E(nodes) \subseteq E(nodes2)
    OBVIOUS
  <1>3. cache \in [0..(slots - 1) -> {NoEntry} \cup E(nodes2)]
    BY <1>1, <1>2
  <1>4. ASSUME NEW i \in DOMAIN cache, cache[i] # NoEntry
        PROVE  /\ level2[cache[i].key[2]] = level[cache[i].key[2]]
               /\ level2[cache[i].key[3]] = level[cache[i].key[3]]
               /\ level2[cache[i].res] = level[cache[i].res]
    BY <1>1, <1>4
  <1>5. QED
    BY <1>3, <1>4 DEF GoodCache

\* BddCache_store: the slot of the hash gets the entry.
LEMMA StoredGood ==
  ASSUME NEW cache, NEW nodes, NEW level, GoodCache(cache, nodes, level), NEW hash \in Nat,
         NEW key \in Operators \X nodes \X nodes, NEW res \in nodes,
         Lesser(level[key[2]], level[key[3]]) <= level[res]
  PROVE  GoodCache(Stored(cache, hash, key, res), nodes, level)
  <1> DEFINE e == [key |-> key, res |-> res]
             new == Stored(cache, hash, key, res)
             i == SlotOf(cache, hash)
  <1>1. i \in DOMAIN cache
    BY SlotInRange
  <1>2. new = [cache EXCEPT ![i] = e] /\ DOMAIN new = DOMAIN cache
    BY DEF Stored
  <1>3. e \in [key : Operators \X nodes \X nodes, res : nodes]
    OBVIOUS
  <1>4. Lesser(level[e.key[2]], level[e.key[3]]) <= level[e.res]
    OBVIOUS
  <1> HIDE DEF new, e, i
  <1>5. new[i] = e /\ \A j \in DOMAIN cache : j # i => new[j] = cache[j]
    BY <1>1, <1>2 DEF GoodCache
  <1>6. QED
    BY <1>1, <1>2, <1>3, <1>4, <1>5 DEF GoodCache, new

----------------------------------------------------------------------------
\* The steps.

\* A step that leaves the table and the counts alone.
LEMMA TableUnchanged ==
  ASSUME UNCHANGED <<table, refcou>>
  PROVE  /\ Live' = Live /\ Slot' = Slot /\ Reach' = Reach
         /\ LEVEL' = LEVEL /\ LOW' = LOW /\ HIGH' = HIGH /\ bddnodesize' = bddnodesize
  <1>1. /\ LEVEL' = LEVEL /\ LOW' = LOW /\ HIGH' = HIGH /\ bddnodesize' = bddnodesize
        /\ refcou' = refcou
    BY DEF table
  <1>2. Slot' = Slot /\ Live' = Live
    BY <1>1 DEF Slot, Live
  <1>3. Counted' = Counted /\ \A S : Closed(S)' <=> Closed(S)
    BY <1>1, <1>2 DEF Counted, Closed, Children
  <1>4. QED
    BY <1>1, <1>2, <1>3 DEF Reach

\* One that leaves the caches alone too.
LEMMA CacheUnchanged ==
  ASSUME CacheOK, UNCHANGED <<table, cachevars>>
  PROVE  CacheOK'
  BY DEF CacheOK, cachevars, table, Live, Slot

\* Between two operations.
LEMMA NothingRuns ==
  ASSUME frames' = <<>>, bddrefstack' = <<>>
  PROVE  FramesOK' /\ DepthsOK' /\ ReferencesOK'
  <1>1. Len(frames') = 0 /\ DOMAIN frames' = {} /\ Len(bddrefstack') = 0
    OBVIOUS
  <1>2. FramesOK'
    BY <1>1 DEF FramesOK
  <1>3. DepthsOK'
    BY <1>1 DEF DepthsOK, Descending
  <1>4. Pushed(frames', 0) = 0
    BY PushedNone
  <1>5. ReferencesOK'
    BY <1>1, <1>4 DEF ReferencesOK, ResultsOf, AtMake
  <1>6. QED
    BY <1>2, <1>3, <1>5

\* The types of what a running operation has.
LEMMA Running ==
  ASSUME AInv
  PROVE  /\ bddrefstack \in Seq(Live) /\ result \in Live
         /\ frames \in Seq(Frame(Reach))
         /\ Reach \subseteq Live
         /\ bddmaxnodesize \in Nat /\ bddmaxnodeincrease \in Nat
         /\ minfreenodes \in 0..100 /\ bdderrorcond \in BOOLEAN
  <1>1. bddrefstack \in Seq(Live) /\ result \in Live
    BY DEF AInv, IInv, TypeOK, ProtectedLive
  <1>2. Reach \subseteq Live
    BY DEF Reach
  <1>3. QED
    BY <1>1, <1>2 DEF AInv, FramesOK, IInv, TypeOK

\* The innermost call that waits.
LEMMA TopFrame ==
  ASSUME AInv, frames # <<>>
  PROVE  /\ Len(frames) \in Nat \ {0} /\ Len(frames) \in DOMAIN frames
         /\ DOMAIN frames = 1..Len(frames)
         /\ Top \in Frame(Reach)
         /\ Depth(Top, LEVEL) \in 0..(VarNum - 1)
  <1> DEFINE F == Frame(Reach)
  <1>1. frames \in Seq(F)
    BY Running
  <1> HIDE DEF F
  <1>2. Len(frames) \in Nat \ {0} /\ Len(frames) \in DOMAIN frames /\ DOMAIN frames = 1..Len(frames)
    BY <1>1
  <1>3. frames[Len(frames)] \in F
    BY <1>1, <1>2
  <1>4. Top \in F
    BY <1>3 DEF Top
  <1>5. Depth(Top, LEVEL) < VarNum
    BY <1>2 DEF AInv, DepthsOK, Descending, Top
  <1>6. Depth(Top, LEVEL) \in 0..VarNum
    BY <1>4, TopLevelType, ReachProtected DEF AInv, Depth, TopLevel, F, Frame
  <1>7. QED
    BY <1>2, <1>4, <1>5, <1>6, SizeAssumption DEF F

\* bdd_apply and bdd_not.
LEMMA StartStep ==
  ASSUME AInv, NEW op \in Operators, NEW l \in Slot, NEW r \in Slot, Start(op, l, r)
  PROVE  AInv'
  <1>1. UNCHANGED <<table, refcou, limits, bdderrorcond, held>> /\ bddrefstack' = <<>>
        /\ UNCHANGED cachevars /\ UNCHANGED <<frames, returned>> /\ result' = result
    BY DEF Start
  <1>2. /\ Live' = Live /\ Reach' = Reach
    BY <1>1, TableUnchanged
  <1>3. call = None /\ calling = None /\ returned = NoNode /\ frames = <<>>
    BY DEF Start, AInv, PhaseOK
  <1>4. l \in Reach /\ r \in Reach
    <2>1. 0 \in Reach
      BY ReachProtected, SizeAssumption DEF AInv
    <2>2. QED
      BY <2>1, OperandsProtected DEF Start, AInv
  <1>5. IInv'
    <2>1. result' \in Live /\ bddrefstack' \in Seq(Live)
      BY <1>1, Running
    <2>2. QED
      BY <1>1, <2>1, Running, QuietStep DEF AInv, limits
  <1>6. PhaseOK'
    <2>1. call' \in [op : Operators, l : Reach', r : Reach']
      BY <1>2, <1>4 DEF Start
    <2>2. calling' = <<l, r>> /\ calling' # None
      BY DEF Start, None
    <2>3. call' # None
      <3>1. call' = [op |-> op, l |-> l, r |-> r]
        BY DEF Start
      <3>2. "op" \in DOMAIN call' /\ DOMAIN <<>> = {}
        BY <3>1
      <3>3. QED
        BY <3>2 DEF None
    <2>4. QED
      BY <1>1, <1>2, <1>3, <1>4, <2>1, <2>2, <2>3 DEF PhaseOK
  <1>7. FramesOK' /\ DepthsOK' /\ ReferencesOK'
    BY <1>1, <1>3, NothingRuns
  <1>8. CacheOK'
    BY <1>1, CacheUnchanged DEF AInv
  <1>9. QED
    BY <1>5, <1>6, <1>7, <1>8 DEF AInv

\* A recursive call that returns a node that is not above its operands.
LEMMA ReturnStep ==
  ASSUME AInv, calling # None, NEW n \in Live, TopLevel(calling[1], calling[2]) <= LEVEL[n],
         returned' = n, calling' = None, result' = 0,
         UNCHANGED <<call, frames, cachevars, table, refcou, limits, bdderrorcond,
                     bddrefstack, held>>
  PROVE  AInv'
  <1>1. /\ Live' = Live /\ Reach' = Reach /\ LEVEL' = LEVEL
        /\ UNCHANGED <<call, frames, table, refcou, limits, bdderrorcond, bddrefstack, held>>
        /\ UNCHANGED cachevars
    BY TableUnchanged
  <1>2. call # None /\ returned = NoNode /\ calling \in Reach \X Reach
    BY DEF AInv, PhaseOK
  <1>3. n # NoNode
    BY Levels DEF AInv
  <1>4. IInv'
    <2>1. 0 \in Live
      BY Levels DEF AInv
    <2>2. QED
      BY <1>1, <2>1, Running, QuietStep DEF AInv, limits
  <1>5. PhaseOK'
    BY <1>1, <1>2, <1>3 DEF AInv, PhaseOK
  <1>6. FramesOK'
    BY <1>1 DEF AInv, FramesOK
  <1>7. DepthsOK'
    <2>1. ASSUME frames # <<>> PROVE Depth(Top, LEVEL) < LEVEL[n]
      <3>1. Depth(Top, LEVEL) < TopLevel(calling[1], calling[2])
        BY <2>1 DEF AInv, DepthsOK
      <3>2. /\ LEVEL[n] \in Int /\ TopLevel(calling[1], calling[2]) \in Int
        BY <1>2, Levels, TopLevelType, ReachProtected, SizeAssumption DEF AInv
      <3>3. Depth(Top, LEVEL) \in Int
        BY <2>1, TopFrame, SizeAssumption
      <3>4. QED
        BY <3>1, <3>2, <3>3
    <2>2. QED
      BY <1>1, <2>1 DEF AInv, DepthsOK, Top
  <1>8. ReferencesOK'
    BY <1>1 DEF AInv, ReferencesOK
  <1>9. CacheOK'
    BY <1>1, CacheUnchanged DEF AInv
  <1>10. QED
    BY <1>4, <1>5, <1>6, <1>7, <1>8, <1>9 DEF AInv

\* What the next call is on.
LEMMA CallOperands ==
  ASSUME AInv, calling # None
  PROVE  /\ call.op \in Operators
         /\ calling[1] \in Reach /\ calling[2] \in Reach
         /\ calling[1] \in Live /\ calling[2] \in Live
         /\ calling = <<calling[1], calling[2]>>
         /\ returned = NoNode /\ call # None
         /\ ApplyHash(call.op, calling[1], calling[2]) \in Nat
  <1>1. call \in [op : Operators, l : Reach, r : Reach] /\ calling \in Reach \X Reach
        /\ returned = NoNode /\ call # None
    BY DEF AInv, PhaseOK
  <1>2. Reach \subseteq Live /\ Live \subseteq 0..SlotBound
    BY ReachProtected, Levels DEF AInv
  <1> DEFINE l == calling[1]  r == calling[2]
  <1>3. l \in Reach /\ r \in Reach /\ calling = <<l, r>> /\ call.op \in Operators
    BY <1>1
  <1> HIDE DEF l, r
  <1>4. l \in Live /\ r \in Live /\ ApplyHash(call.op, l, r) \in Nat
    BY <1>2, <1>3, CacheAssumption
  <1>5. QED
    BY <1>1, <1>3, <1>4 DEF l, r

\* A node that apply_rec finds without recursion is not above the operands.
LEMMA ImmediateNode ==
  ASSUME AInv, calling # None, NEW n \in Immediate(call.op, calling[1], calling[2])
  PROVE  n \in Live /\ TopLevel(calling[1], calling[2]) <= LEVEL[n]
  <1> DEFINE l == calling[1]  r == calling[2]
  <1>1. l \in Live /\ r \in Live /\ call.op \in Operators
    BY CallOperands
  <1>2. l \in Nat /\ r \in Nat
    BY <1>1, Levels DEF AInv
  <1>3. n \in {l, r, 0, 1}
    BY <1>1, <1>2, ImmediateValue
  <1>4. /\ TopLevel(l, r) \in 0..VarNum /\ TopLevel(l, r) <= LEVEL[l] /\ TopLevel(l, r) <= LEVEL[r]
    BY <1>1, TopLevelType DEF AInv
  <1>5. {0, 1} \subseteq Live /\ LEVEL[0] = VarNum /\ LEVEL[1] = VarNum
    BY Levels DEF AInv
  <1> HIDE DEF l, r
  <1>6. n \in Live /\ TopLevel(l, r) <= LEVEL[n]
    BY <1>1, <1>3, <1>4, <1>5, SizeAssumption
  <1>7. QED
    BY <1>6 DEF l, r

LEMMA ReturnImmediateStep == AInv /\ ReturnImmediate => AInv'
  <1> SUFFICES ASSUME AInv, ReturnImmediate PROVE AInv'
    OBVIOUS
  <1>1. PICK n \in Immediate(call.op, calling[1], calling[2]) : returned' = n
    BY DEF ReturnImmediate
  <1>2. QED
    BY <1>1, ImmediateNode, ReturnStep DEF ReturnImmediate

\* So is what the cache answers: its entries are about nodes that are still
\* there.
LEMMA CachedNode ==
  ASSUME AInv, calling # None, Hit(call.op, calling[1], calling[2]),
         NEW n, n = Entry(applycache, ApplyHash(call.op, calling[1], calling[2])).res
  PROVE  n \in Live /\ TopLevel(calling[1], calling[2]) <= LEVEL[n]
  <1> DEFINE hash == ApplyHash(call.op, calling[1], calling[2])
             e == Entry(applycache, hash)
  <1>1. hash \in Nat
    BY CallOperands
  <1>2. GoodCache(applycache, Live, LEVEL)
    BY DEF AInv, CacheOK
  <1>3. e # NoEntry /\ e.key = <<call.op, calling[1], calling[2]>>
    BY DEF Hit, Key
  <1> HIDE DEF hash
  <1>4. /\ e \in [key : Operators \X Live \X Live, res : Live]
        /\ Lesser(LEVEL[e.key[2]], LEVEL[e.key[3]]) <= LEVEL[e.res]
    BY <1>1, <1>2, <1>3, EntryGood
  <1>5. QED
    BY <1>3, <1>4 DEF TopLevel, hash

LEMMA ReturnCachedStep == AInv /\ ReturnCached => AInv'
  <1> SUFFICES ASSUME AInv, ReturnCached PROVE AInv'
    OBVIOUS
  <1>1. /\ returned' \in Live /\ TopLevel(calling[1], calling[2]) <= LEVEL[returned']
    BY CachedNode DEF ReturnCached
  <1>2. QED
    BY <1>1, ReturnStep DEF ReturnCached

\* A recursive call that goes on, with its first recursive call.
LEMMA DescendStep == AInv /\ Descend => AInv'
  <1> USE SizeAssumption
  <1> SUFFICES ASSUME AInv, Descend PROVE AInv'
    OBVIOUS
  <1> DEFINE l == calling[1]  r == calling[2]
             new == [l |-> l, r |-> r, step |-> "low"]
             next == Cofactors(l, r, LOW)
             fs == Append(frames, new)
  <1>1. /\ frames' = fs /\ calling' = next
        /\ UNCHANGED <<call, returned, cachevars, vars>>
        /\ calling # None /\ Immediate(call.op, l, r) = {}
    BY DEF Descend
  <1>2. /\ Live' = Live /\ Reach' = Reach /\ LEVEL' = LEVEL
        /\ UNCHANGED <<table, refcou, limits, bdderrorcond, bddrefstack, result, held>>
    BY <1>1, TableUnchanged DEF vars
  <1>3. /\ l \in Reach /\ r \in Reach /\ l \in Live /\ r \in Live
        /\ returned = NoNode /\ call # None
    BY <1>1, CallOperands
  <1>4. TopLevel(l, r) \in 0..(VarNum - 1)
    BY <1>1, <1>3, NotImmediate DEF AInv
  <1>5. /\ next \in Reach \X Reach
        /\ TopLevel(l, r) < TopLevel(next[1], next[2])
    BY <1>3, <1>4, CofactorsDeeper DEF AInv
  <1>6. new \in Frame(Reach) /\ new.step = "low" /\ Depth(new, LEVEL) = TopLevel(l, r)
    BY <1>3 DEF Frame, Depth, TopLevel
  <1>7. frames # <<>> => Depth(frames[Len(frames)], LEVEL) < Depth(new, LEVEL)
    BY <1>1, <1>6 DEF AInv, DepthsOK, Top
  <1> HIDE DEF l, r, new, next
  <1>8. \A i \in DOMAIN frames : frames[i].step # "make"
    BY <1>1 DEF AInv, FramesOK
  <1>9. ~AtMake(frames)
    <2>1. frames # <<>> => Len(frames) \in DOMAIN frames
      BY Running
    <2>2. QED
      BY <1>8, <2>1 DEF AtMake
  <1>10. Descending(fs, LEVEL) /\ ResultsOf(fs, bddrefstack, LEVEL)
    <2>1. Descending(frames, LEVEL) /\ ResultsOf(frames, bddrefstack, LEVEL)
      BY DEF AInv, DepthsOK, ReferencesOK
    <2>2. Depth(new, LEVEL) < VarNum
      BY <1>4, <1>6
    <2>3. QED
      BY <1>6, <1>7, <1>9, <2>1, <2>2, Running, FramePushed
  <1>11. /\ fs \in Seq(Frame(Reach)) /\ fs # <<>> /\ fs[Len(fs)] = new
         /\ \A i \in DOMAIN fs : fs[i].step # "make"
    BY <1>6, <1>8, Running
  <1> HIDE DEF fs
  <1>12. IInv'
    BY <1>2, Running, QuietStep DEF AInv, limits, IInv, Idle
  <1>13. PhaseOK'
    BY <1>1, <1>2, <1>3, <1>5 DEF AInv, PhaseOK
  <1>14. FramesOK'
    BY <1>1, <1>2, <1>11 DEF FramesOK
  <1>15. DepthsOK'
    BY <1>1, <1>2, <1>3, <1>5, <1>6, <1>10, <1>11 DEF DepthsOK, Top, TopLevel
  <1>16. ReferencesOK'
    BY <1>1, <1>2, <1>10 DEF ReferencesOK
  <1>17. CacheOK'
    BY <1>1, <1>2, CacheUnchanged DEF AInv
  <1>18. QED
    BY <1>12, <1>13, <1>14, <1>15, <1>16, <1>17 DEF AInv

\* PUSHREF of a result.
LEMMA PushStep ==
  ASSUME AInv, returned # NoNode, frames # <<>>, NEW step,
         \/ Top.step = "low" /\ step = "high"
         \/ Top.step = "high" /\ step = "make",
         bddrefstack' = Append(bddrefstack, returned), returned' = NoNode,
         frames' = NextStep(frames, step),
         step = "high" => calling' = Cofactors(Top.l, Top.r, HIGH),
         step = "make" => calling' = calling,
         UNCHANGED <<call, cachevars, table, refcou, limits, bdderrorcond, result, held>>
  PROVE  AInv'
  <1> USE SizeAssumption
  <1> DEFINE k == Len(frames)
             next == Cofactors(Top.l, Top.r, HIGH)
             gs == NextStep(frames, step)
             new == Append(bddrefstack, returned)
  <1>1. /\ Live' = Live /\ Reach' = Reach /\ LEVEL' = LEVEL
        /\ UNCHANGED <<call, cachevars, table, refcou, limits, bdderrorcond, result, held>>
    BY TableUnchanged
  <1>2. calling = None /\ returned \in Live /\ call # None /\ result = 0
    BY DEF AInv, PhaseOK
  <1>3. /\ k \in Nat \ {0} /\ DOMAIN frames = 1..k /\ Top \in Frame(Reach)
        /\ Depth(Top, LEVEL) \in 0..(VarNum - 1) /\ Top = frames[k]
    BY TopFrame DEF Top
  <1>4. frames \in Seq(Frame(Reach)) /\ bddrefstack \in Seq(Live)
    BY Running
  <1>5. Depth(frames[k], LEVEL) < LEVEL[returned]
    BY <1>3 DEF AInv, DepthsOK
  <1>6. Descending(frames, LEVEL) /\ ResultsOf(frames, bddrefstack, LEVEL)
    BY DEF AInv, DepthsOK, ReferencesOK
  <1>7. \/ frames[Len(frames)].step = "low" /\ step = "high"
        \/ frames[Len(frames)].step = "high" /\ step = "make"
    BY DEF Top
  <1>8. /\ Descending(gs, LEVEL) /\ ResultsOf(gs, new, LEVEL) /\ gs \in Seq(Frame(Reach))
        /\ Len(gs) = k /\ \A i \in 1..(k - 1) : gs[i] = frames[i]
        /\ gs[k] = [frames[k] EXCEPT !.step = step]
    <2>1. /\ frames \in Seq(Frame(Reach)) /\ frames # <<>> /\ bddrefstack \in Seq(Live)
          /\ Descending(frames, LEVEL) /\ ResultsOf(frames, bddrefstack, LEVEL)
          /\ returned \in Live /\ Depth(frames[Len(frames)], LEVEL) < LEVEL[returned]
      BY <1>2, <1>4, <1>5, <1>6
    <2>2. QED
      BY <1>7, <2>1, ResultPushed
  <1>9. gs[k].step = step /\ Depth(gs[k], LEVEL) = Depth(Top, LEVEL)
    BY <1>3, <1>8 DEF Frame, Depth
  <1>10. frames' = gs /\ bddrefstack' = new
    OBVIOUS
  <1>11. new \in Seq(Live) /\ new # <<>>
    BY <1>2, <1>4
  <1> HIDE DEF gs, new
  <1>12. frames' # <<>> /\ Top' = gs[k]
    BY <1>3, <1>8, <1>10 DEF Top
  <1>13. IInv'
    <2>1. bddrefstack' \in Seq(Live) /\ result' \in Live /\ result' = 0
      BY <1>1, <1>2, <1>10, <1>11, Running
    <2>2. QED
      BY <1>1, <2>1, Running, QuietStep DEF AInv, limits
  <1>14. /\ \A i \in 1..(k - 1) : gs[i].step # "make"
         /\ \A i \in 1..k : i = k \/ i \in 1..(k - 1)
         /\ DOMAIN gs = 1..k
    <2>1. k \in Nat \ {0} /\ DOMAIN frames = 1..k /\ k = Len(frames)
      BY <1>3
    <2>2. gs \in Seq(Frame(Reach)) /\ Len(gs) = k
      BY <1>8
    <2> HIDE DEF k
    <2>3. \A i \in 1..(k - 1) : i \in DOMAIN frames /\ i # k
      BY <2>1, PlacesBefore, Zenon
    <2>4. \A i \in DOMAIN frames : frames[i].step = "make" => i = k
      BY <2>1 DEF AInv, FramesOK
    <2>5. \A i \in 1..(k - 1) : frames[i].step # "make"
      BY <2>3, <2>4
    <2>6. DOMAIN gs = 1..k
      <3> DEFINE F == Frame(Reach)
      <3>1. gs \in Seq(F)
        BY <2>2
      <3> HIDE DEF F
      <3>2. QED
        BY <2>1, <2>2, <3>1
    <2>7. \A i \in 1..k : i = k \/ i \in 1..(k - 1)
      BY <2>1, PlacesBefore, Zenon
    <2>8. QED
      BY <1>8, <2>5, <2>6, <2>7, Zenon
  <1>15. CASE step = "high"
    <2>1. next \in Reach \X Reach /\ TopLevel(Top.l, Top.r) < TopLevel(next[1], next[2])
      <3>1. Top.l \in Reach /\ Top.r \in Reach /\ TopLevel(Top.l, Top.r) < VarNum
        BY <1>3 DEF Frame, Depth, TopLevel
      <3>2. QED
        BY <3>1, CofactorsDeeper DEF AInv
    <2>2. calling' = next
      BY <1>15
    <2>3. Depth(gs[k], LEVEL) < TopLevel(next[1], next[2])
      BY <1>9, <2>1 DEF Depth, TopLevel
    <2> HIDE DEF next
    <2>4. PhaseOK'
      BY <1>1, <1>2, <2>1, <2>2 DEF AInv, PhaseOK
    <2>5. FramesOK'
      <3>1. \A i \in 1..k : gs[i].step # "make"
        BY <1>8, <1>9, <1>15, <1>14
      <3>2. \A i \in DOMAIN gs : gs[i].step # "make"
        BY <1>14, <3>1
      <3>3. QED
        BY <1>1, <1>8, <1>10, <3>2 DEF FramesOK
    <2>6. DepthsOK'
      BY <1>1, <1>8, <1>10, <1>12, <2>2, <2>3 DEF DepthsOK, TopLevel
    <2>7. ReferencesOK' /\ CacheOK'
      BY <1>1, <1>8, <1>10, CacheUnchanged DEF ReferencesOK, AInv
    <2>8. QED
      BY <1>13, <2>4, <2>5, <2>6, <2>7 DEF AInv
  <1>16. CASE step = "make"
    <2>1. calling' = None
      BY <1>2, <1>16
    <2>2. PhaseOK'
      BY <1>1, <1>2, <2>1 DEF AInv, PhaseOK
    <2>3. FramesOK'
      <3>1. \A i \in DOMAIN gs : i = Len(gs) \/ gs[i].step # "make"
        BY <1>8, <1>14
      <3>2. calling' = None /\ returned' = NoNode
        BY <2>1
      <3>3. QED
        BY <1>1, <1>8, <1>10, <3>1, <3>2 DEF FramesOK
    <2>4. DepthsOK'
      BY <1>1, <1>8, <1>10, <2>1 DEF DepthsOK
    <2>5. ReferencesOK' /\ CacheOK'
      BY <1>1, <1>8, <1>10, CacheUnchanged DEF ReferencesOK, AInv
    <2>6. QED
      BY <1>13, <2>2, <2>3, <2>4, <2>5 DEF AInv
  <1>17. QED
    BY <1>15, <1>16

LEMMA PushLowStep == AInv /\ PushLow => AInv'
  <1> SUFFICES ASSUME AInv, PushLow PROVE AInv'
    OBVIOUS
  <1> DEFINE step == "high"
  <1>1. /\ returned # NoNode /\ frames # <<>> /\ Top.step = "low" /\ step = "high" /\ step # "make"
        /\ bddrefstack' = Append(bddrefstack, returned) /\ returned' = NoNode
        /\ frames' = NextStep(frames, step)
        /\ calling' = Cofactors(Top.l, Top.r, HIGH)
        /\ UNCHANGED <<call, cachevars, table, refcou, limits, bdderrorcond, result, held>>
    BY DEF PushLow, NextStep
  <1> HIDE DEF step
  <1>2. QED
    BY <1>1, PushStep

LEMMA PushHighStep == AInv /\ PushHigh => AInv'
  <1> SUFFICES ASSUME AInv, PushHigh PROVE AInv'
    OBVIOUS
  <1> DEFINE step == "make"
  <1>1. /\ returned # NoNode /\ frames # <<>> /\ Top.step = "high" /\ step = "make" /\ step # "high"
        /\ bddrefstack' = Append(bddrefstack, returned) /\ returned' = NoNode
        /\ frames' = NextStep(frames, step)
        /\ calling' = calling
        /\ UNCHANGED <<call, cachevars, table, refcou, limits, bdderrorcond, result, held>>
    BY DEF PushHigh, NextStep
  <1> HIDE DEF step
  <1>2. QED
    BY <1>1, PushStep

\* What bdd_makenode is called with: two nodes on the reference stack, below
\* the level of the call.
LEMMA BuildOperands ==
  ASSUME AInv, frames # <<>>, Top.step = "make",
         NEW depth, depth = Len(bddrefstack)
  PROVE  /\ bddrefstack \in Seq(Roots) /\ Roots \subseteq Live /\ AtMake(frames)
         /\ calling = None /\ returned = NoNode /\ call # None /\ result = 0
         /\ depth \in Nat /\ depth >= 2
         /\ bddrefstack[depth - 1] \in Roots /\ bddrefstack[depth] \in Roots
         /\ Depth(Top, LEVEL) \in 0..(VarNum - 1)
         /\ Depth(Top, LEVEL) < LEVEL[bddrefstack[depth - 1]]
         /\ Depth(Top, LEVEL) < LEVEL[bddrefstack[depth]]
  <1>1. bddrefstack \in Seq(Roots) /\ Roots \subseteq Live
    <2>1. \A i \in DOMAIN bddrefstack : bddrefstack[i] \in Roots
      BY DEF Roots, AInv, IInv, ProtectedLive
    <2>2. bddrefstack \in Seq(Live)
      BY Running
    <2>3. QED
      BY <2>1, <2>2 DEF Roots
  <1>2. AtMake(frames) /\ Top = frames[Len(frames)]
    BY DEF AtMake, Top
  <1>3. frames \in Seq(Frame(Reach)) /\ Len(frames) \in DOMAIN frames
    BY Running, TopFrame
  <1>4. calling = None /\ returned = NoNode
    BY <1>2, <1>3 DEF AInv, FramesOK, AtMake
  <1>5. Descending(frames, LEVEL) /\ ResultsOf(frames, bddrefstack, LEVEL)
    BY DEF AInv, DepthsOK, ReferencesOK
  <1>6. \A i \in 1..(Len(frames) - 1) : frames[i].step # "make"
    <2>1. \A i \in DOMAIN frames : frames[i].step = "make" => i = Len(frames)
      BY DEF AInv, FramesOK
    <2>2. Len(frames) \in Nat \ {0} /\ DOMAIN frames = 1..Len(frames)
      BY TopFrame
    <2>3. QED
      BY <2>1, <2>2, PlacesBefore, Zenon
  <1>7. /\ Len(bddrefstack) >= 2
        /\ Depth(frames[Len(frames)], LEVEL) < LEVEL[bddrefstack[Len(bddrefstack) - 1]]
        /\ Depth(frames[Len(frames)], LEVEL) < LEVEL[bddrefstack[Len(bddrefstack)]]
    BY <1>1, <1>2, <1>3, <1>5, <1>6, FramePopped
  <1>8. depth \in Nat /\ depth - 1 \in DOMAIN bddrefstack /\ depth \in DOMAIN bddrefstack
    BY <1>1, <1>7
  <1>9. bddrefstack[depth - 1] \in Roots /\ bddrefstack[depth] \in Roots
    <2> HIDE DEF Roots
    <2>1. QED
      BY <1>1, <1>8
  <1>10. call # None /\ result = 0
    <2>1. call # None
      BY DEF AInv, PhaseOK
    <2>2. bddrefstack # <<>>
      BY <1>1, <1>7
    <2>3. QED
      BY <2>1, <2>2 DEF AInv, PhaseOK
  <1>11. QED
    BY <1>1, <1>2, <1>4, <1>7, <1>8, <1>9, <1>10, TopFrame

\* A larger table has no smaller cache.
LEMMA QuotientMonotonic ==
  ASSUME NEW a \in Nat, NEW b \in Nat, a <= b, NEW c \in Nat, c > 0
  PROVE  a \div c <= b \div c
  OBVIOUS


\* bdd_makenode under the recursion: what the calls work on stays, the level
\* of the node it returns is the caller's or deeper, and while it does not
\* collect everything stays.
LEMMA BuildNode ==
  ASSUME AInv, NEW a \in Roots, NEW b \in Roots, NEW level \in 0..(VarNum - 1),
         level < LEVEL[a], level < LEVEL[b],
         NEW n, bdd_makenode(level, a, b, n)
  PROVE  /\ n \in Live' /\ n # NoNode /\ level <= LEVEL'[n]
         /\ Reach \subseteq Reach' /\ Roots \subseteq Survivors /\ Roots \subseteq Live'
         /\ \A m \in Reach \cup Roots : LEVEL'[m] = LEVEL[m]
         /\ bddnodesize' \in Nat /\ bddnodesize <= bddnodesize'
         /\ ~Collects(a, b, level) => Live \subseteq Live' /\ \A m \in Live : LEVEL'[m] = LEVEL[m]
  <1>1. IInv
    BY DEF AInv
  <1>2. /\ TableOK' /\ n \in Live' /\ bddnodesize <= bddnodesize' /\ Survivors \subseteq Live'
        /\ \A m \in Survivors : SameNode(m)
    BY <1>1, MakeNodeTableOK
  <1>3. Roots \subseteq Survivors
    BY RootsMarked DEF Survivors
  <1>4. Reach \subseteq Reach' /\ \A m \in Reach : SameNode(m)
    BY <1>1, ReachKept
  <1>5. n \in 0..(bddnodesize' - 1) /\ bddnodesize' \in Nat /\ n # NoNode
    <2>1. bddnodesize' \in Nat
      BY <1>2 DEF TableOK, TableType
    <2>2. n \in Slot'
      BY <1>2 DEF Live
    <2>3. n \in 0..(bddnodesize' - 1)
      BY <2>2 DEF Slot
    <2>4. n # NoNode
      BY <2>1, <2>3 DEF NoNode
    <2>5. QED
      BY <2>1, <2>3, <2>4
  <1> USE SizeAssumption
  <1>6. level <= LEVEL'[n]
    <2>1. Roots \subseteq Live
      BY DEF Roots
    <2>2. LEVEL[a] \in 0..VarNum /\ LEVEL'[n] \in 0..VarNum
      <3>1. LEVEL' \in [Slot' -> 0..VarNum] /\ n \in Slot'
        BY <1>2 DEF TableOK, TableType, Live
      <3>2. QED
        BY <1>1, <2>1, <3>1, Levels
    <2>3. CASE a = b /\ n = a
      <3>1. LEVEL'[n] = LEVEL[a]
        BY <1>2, <1>3, <2>3 DEF SameNode
      <3>2. QED
        BY <2>2, <3>1
    <2>4. CASE LEVEL'[n] = level
      BY <2>4
    <2>5. CASE n = 0
      <3>1. 0 \in Survivors /\ LEVEL[0] = VarNum
        BY <1>1, Levels DEF Survivors
      <3>2. LEVEL'[n] = VarNum
        BY <1>2, <2>5, <3>1 DEF SameNode
      <3>3. QED
        BY <3>2
    <2>6. QED
      BY <1>1, <2>3, <2>4, <2>5, MakeNodeResult
  <1>7. \A m \in Reach \cup Roots : LEVEL'[m] = LEVEL[m]
    BY <1>2, <1>3, <1>4 DEF SameNode
  <1>8. ~Collects(a, b, level) => Live \subseteq Live' /\ \A m \in Live : LEVEL'[m] = LEVEL[m]
    BY <1>1, LiveKept DEF SameNode
  <1>9. QED
    BY <1>2, <1>3, <1>4, <1>5, <1>6, <1>7, <1>8

\* The cache with the new entry, in which a collection has left nothing else.
LEMMA BuildCache ==
  ASSUME AInv, frames # <<>>, NEW collects \in BOOLEAN, NEW n \in Live',
         Reach \subseteq Live', \A m \in Reach : LEVEL'[m] = LEVEL[m],
         ~collects => Live \subseteq Live' /\ \A m \in Live : LEVEL'[m] = LEVEL[m],
         Depth(Top, LEVEL) <= LEVEL'[n], call # None,
         applycache' = Stored(IF collects THEN Reset(applycache) ELSE applycache,
                              ApplyHash(call.op, Top.l, Top.r), Key(call.op, Top.l, Top.r), n)
  PROVE  GoodCache(applycache', Live', LEVEL')
  <1> DEFINE cache == IF collects THEN Reset(applycache) ELSE applycache
             hash == ApplyHash(call.op, Top.l, Top.r)
             key == Key(call.op, Top.l, Top.r)
  <1>1. GoodCache(applycache, Live, LEVEL)
    BY DEF AInv, CacheOK
  <1>2. GoodCache(cache, Live', LEVEL')
    <2>1. CASE collects
      <3>1. Cardinality(DOMAIN applycache) \in Nat \ {0}
        BY <1>1 DEF GoodCache
      <3>2. QED
        BY <2>1, <3>1, EmptyCacheGood DEF Reset
    <2>2. CASE ~collects
      BY <1>1, <2>2, GoodCacheKept
    <2>3. QED
      BY <2>1, <2>2
  <1>3. call.op \in Operators
    BY DEF AInv, PhaseOK
  <1>4. Top.l \in Reach /\ Top.r \in Reach
    BY TopFrame DEF Frame
  <1>5. hash \in Nat
    <2>1. Top.l \in 0..SlotBound /\ Top.r \in 0..SlotBound
      BY <1>4, ReachProtected, Levels DEF AInv
    <2>2. QED
      BY <1>3, <2>1, CacheAssumption
  <1>6. key \in Operators \X Live' \X Live'
    BY <1>3, <1>4 DEF Key
  <1>7. Lesser(LEVEL'[key[2]], LEVEL'[key[3]]) <= LEVEL'[n]
    BY <1>4 DEF Key, Depth
  <1>8. applycache' = Stored(cache, hash, key, n)
    OBVIOUS
  <1> HIDE DEF cache, hash, key
  <1>9. GoodCache(Stored(cache, hash, key, n), Live', LEVEL')
    BY <1>2, <1>5, <1>6, <1>7, StoredGood
  <1>10. QED
    BY <1>8, <1>9

\* bdd_makenode in the middle of the recursion.
LEMMA BuildStep == AInv /\ Build => AInv'
  <1> SUFFICES ASSUME AInv, Build PROVE AInv'
    OBVIOUS
  <1> DEFINE depth == Len(bddrefstack)
             a == bddrefstack[depth - 1]
             b == bddrefstack[depth]
             level == TopLevel(Top.l, Top.r)
             collects == Collects(a, b, level)
             fs == SubSeq(frames, 1, Len(frames) - 1)
             left == SubSeq(bddrefstack, 1, depth - 2)
  <1>1. calling = None /\ frames # <<>> /\ Top.step = "make"
    BY DEF Build
  <1>2. PICK n : /\ bdd_makenode(level, a, b, n)
                 /\ applycache' = Stored(IF collects THEN Reset(applycache) ELSE applycache,
                                         ApplyHash(call.op, Top.l, Top.r),
                                         Key(call.op, Top.l, Top.r), n)
                 /\ returned' = n
    BY DEF Build
  <1>3. /\ bddrefstack' = left /\ frames' = fs
        /\ bddresized' = (bddresized \/ (collects /\ FewFree(Survivors) /\ MayGrow))
        /\ UNCHANGED <<call, calling, cacheratio, limits, result, held>>
    BY DEF Build
  <1>4. /\ bddrefstack \in Seq(Roots) /\ Roots \subseteq Live /\ AtMake(frames)
        /\ returned = NoNode /\ call # None /\ result = 0
        /\ depth \in Nat /\ depth >= 2 /\ a \in Roots /\ b \in Roots
        /\ Depth(Top, LEVEL) \in 0..(VarNum - 1)
        /\ Depth(Top, LEVEL) < LEVEL[a] /\ Depth(Top, LEVEL) < LEVEL[b]
    BY <1>1, BuildOperands
  <1>5. level = Depth(Top, LEVEL)
    BY DEF Depth, TopLevel
  <1>6. /\ n \in Live' /\ n # NoNode /\ level <= LEVEL'[n]
        /\ Reach \subseteq Reach' /\ Roots \subseteq Survivors /\ Roots \subseteq Live'
        /\ \A m \in Reach \cup Roots : LEVEL'[m] = LEVEL[m]
        /\ bddnodesize' \in Nat /\ bddnodesize <= bddnodesize'
        /\ ~collects => Live \subseteq Live' /\ \A m \in Live : LEVEL'[m] = LEVEL[m]
    <2> HIDE DEF a, b, level
    <2>1. QED
      BY <1>2, <1>4, <1>5, BuildNode
  <1>7. Reach' \subseteq Live'
    BY DEF Reach
  <1>8. frames \in Seq(Frame(Reach)) /\ Len(frames) \in Nat \ {0} /\ DOMAIN frames = 1..Len(frames)
    BY <1>1, Running, TopFrame
  <1>9. \A i \in 1..(Len(frames) - 1) : i \in DOMAIN frames /\ frames[i].step # "make"
    <2>1. \A i \in DOMAIN frames : frames[i].step = "make" => i = Len(frames)
      BY DEF AInv, FramesOK
    <2>2. QED
      BY <1>8, <2>1, PlacesBefore, Zenon
  <1>10. Descending(frames, LEVEL) /\ ResultsOf(frames, bddrefstack, LEVEL)
    BY DEF AInv, DepthsOK, ReferencesOK
  <1>11. /\ fs \in Seq(Frame(Reach)) /\ Len(fs) = Len(frames) - 1
         /\ \A i \in 1..(Len(frames) - 1) : fs[i] = frames[i]
         /\ Descending(fs, LEVEL') /\ ResultsOf(fs, left, LEVEL')
         /\ Len(frames) > 1 => Depth(frames[Len(frames) - 1], LEVEL') < Depth(frames[Len(frames)], LEVEL)
    <2> DEFINE level2 == LEVEL'
    <2>1. \A m \in Reach \cup Roots : level2[m] = LEVEL[m]
      BY <1>6
    <2> HIDE DEF level2
    <2>2. /\ fs \in Seq(Frame(Reach)) /\ Len(fs) = Len(frames) - 1
          /\ \A i \in 1..(Len(frames) - 1) : fs[i] = frames[i]
          /\ Descending(fs, level2) /\ ResultsOf(fs, left, level2)
          /\ Len(frames) > 1 => Depth(frames[Len(frames) - 1], level2) < Depth(frames[Len(frames)], LEVEL)
      <3>1. /\ frames \in Seq(Frame(Reach)) /\ AtMake(frames) /\ bddrefstack \in Seq(Roots)
            /\ Descending(frames, LEVEL) /\ ResultsOf(frames, bddrefstack, LEVEL)
            /\ \A i \in 1..(Len(frames) - 1) : frames[i].step # "make"
            /\ \A m \in Reach \cup Roots : level2[m] = LEVEL[m]
        BY <1>4, <1>8, <1>9, <1>10, <2>1
      <3>2. QED
        BY <3>1, FramePopped
    <2>3. QED
      BY <2>2 DEF level2
  <1>12. left \in Seq(Roots)
    <2>1. /\ bddrefstack \in Seq(Roots) /\ depth = Len(bddrefstack)
          /\ depth - 2 \in Nat /\ depth - 2 <= depth
      BY <1>4
    <2> HIDE DEF Roots, depth
    <2>2. QED
      BY <2>1
  <1> HIDE DEF fs, left
  <1>13. IInv'
    <2>1. bddrefstack' \in Seq(Survivors \cup {n})
      BY <1>3, <1>6, <1>12
    <2> HIDE DEF a, b, level, depth
    <2>2. result' = 0
      BY <1>3, <1>4
    <2>3. QED
      BY <1>2, <1>3, <1>4, <1>5, <2>1, <2>2, MakeNodeStep DEF AInv
  <1>14. PhaseOK'
    <2>1. call \in [op : Operators, l : Reach, r : Reach]
      BY <1>4 DEF AInv, PhaseOK
    <2>2. call' \in [op : Operators, l : Reach', r : Reach']
      BY <1>3, <1>6, <2>1
    <2>3. QED
      BY <1>1, <1>2, <1>3, <1>4, <1>6, <2>2 DEF PhaseOK
  <1>15. FramesOK'
    <2>1. fs \in Seq(Frame(Reach)')
      <3>1. Frame(Reach) \subseteq Frame(Reach)'
        BY <1>6 DEF Frame
      <3>2. QED
        BY <1>11, <3>1
    <2>2. \A i \in DOMAIN fs : fs[i].step # "make"
      <3>1. DOMAIN fs = 1..(Len(frames) - 1)
        <4> DEFINE F == Frame(Reach)
        <4>1. fs \in Seq(F)
          BY <1>11
        <4> HIDE DEF F
        <4>2. QED
          BY <1>8, <1>11, <4>1
      <3>2. QED
        BY <1>9, <1>11, <3>1
    <2>3. QED
      BY <1>3, <2>1, <2>2 DEF FramesOK
  <1>16. DepthsOK'
    <2>1. ASSUME fs # <<>> PROVE Depth(fs[Len(fs)], LEVEL') < LEVEL'[n]
      <3>1. Len(frames) > 1 /\ Len(fs) \in 1..(Len(frames) - 1) /\ Len(fs) = Len(frames) - 1
        BY <1>8, <1>11, <2>1
      <3>2. Depth(fs[Len(fs)], LEVEL') < Depth(frames[Len(frames)], LEVEL)
        BY <1>11, <3>1
      <3>3. Depth(frames[Len(frames)], LEVEL) \in 0..(VarNum - 1)
            /\ Depth(frames[Len(frames)], LEVEL) <= LEVEL'[n]
        BY <1>4, <1>5, <1>6 DEF Top
      <3>4. Depth(fs[Len(fs)], LEVEL') \in Int /\ LEVEL'[n] \in Int
        <4>1. fs[Len(fs)] \in Frame(Reach)
          BY <1>11, <3>1
        <4>2. fs[Len(fs)].l \in Live' /\ fs[Len(fs)].r \in Live'
          BY <1>6, <1>7, <4>1 DEF Frame
        <4>3. \A m \in Live' : LEVEL'[m] \in 0..VarNum
          <5>1. LEVEL' \in [Slot' -> 0..VarNum]
            BY <1>13 DEF IInv, TypeOK, TableType
          <5>2. QED
            BY <5>1 DEF Live
        <4>4. QED
          BY <1>6, <4>2, <4>3, SizeAssumption DEF Depth, Lesser
      <3>5. QED
        BY <3>2, <3>3, <3>4, SizeAssumption
    <2>2. calling' = None
      BY <1>1, <1>3
    <2>3. QED
      BY <1>2, <1>3, <1>11, <2>1, <2>2 DEF DepthsOK, Top
  <1>17. ReferencesOK'
    BY <1>3, <1>11 DEF ReferencesOK
  <1>18. CacheOK'
    <2>1. GoodCache(applycache', Live', LEVEL')
      <3>1. collects \in BOOLEAN
        BY DEF Collects
      <3> HIDE DEF collects, level
      <3>2. /\ Reach \subseteq Live' /\ \A m \in Reach : LEVEL'[m] = LEVEL[m]
            /\ Depth(Top, LEVEL) <= LEVEL'[n]
        BY <1>5, <1>6, <1>7
      <3>3. QED
        BY <1>1, <1>2, <1>4, <1>6, <3>1, <3>2, BuildCache
    <2>2. bddresized' \in BOOLEAN
      BY <1>3 DEF AInv, CacheOK
    <2>3. cacheratio' \in Nat /\ cacheratio' = cacheratio
      BY <1>3 DEF AInv, CacheOK
    <2>4. cacheratio > 0 => bddnodesize' \div cacheratio >= 2
      <3>1. bddnodesize \in Nat
        BY TableSize DEF AInv
      <3>2. cacheratio > 0 => bddnodesize \div cacheratio >= 2
        BY DEF AInv, CacheOK
      <3>3. cacheratio > 0 => bddnodesize \div cacheratio <= bddnodesize' \div cacheratio
        BY <1>6, <2>3, <3>1, QuotientMonotonic
      <3>4. cacheratio > 0 => bddnodesize \div cacheratio \in Int /\ bddnodesize' \div cacheratio \in Int
        BY <1>6, <2>3, <3>1
      <3>5. QED
        BY <3>2, <3>3, <3>4
    <2>5. QED
      BY <2>1, <2>2, <2>3, <2>4 DEF CacheOK
  <1>19. QED
    BY <1>13, <1>14, <1>15, <1>16, <1>17, <1>18 DEF AInv

\* The outermost call returns, and checkresize may give the operation's cache
\* the size of the table.
LEMMA FinishStep == AInv /\ Finish => AInv'
  <1> SUFFICES ASSUME AInv, Finish PROVE AInv'
    OBVIOUS
  <1>1. /\ returned # NoNode /\ frames = <<>> /\ result' = returned /\ call' = None
        /\ returned' = NoNode /\ checkresize
        /\ UNCHANGED <<calling, frames, table, refcou, limits, bdderrorcond, bddrefstack, held>>
    BY DEF Finish
  <1>2. bddrefstack = <<>>
    <2>1. Len(frames) = 0 /\ ~AtMake(frames)
      BY <1>1 DEF AtMake
    <2>2. Len(bddrefstack) = 0
      BY <2>1, PushedNone DEF AInv, ReferencesOK, ResultsOf
    <2>3. QED
      BY <2>2, Running
  <1>3. calling = None /\ returned \in Live
    BY <1>1 DEF AInv, PhaseOK
  <1>4. IInv'
    BY <1>1, <1>2, <1>3, Running, QuietStep DEF AInv, limits
  <1>5. PhaseOK'
    BY <1>1, <1>2, <1>3 DEF PhaseOK
  <1>6. FramesOK' /\ DepthsOK' /\ ReferencesOK'
    BY <1>1, <1>2, NothingRuns
  <1>7. CacheOK'
    <2>1. Live' = Live /\ LEVEL' = LEVEL /\ bddnodesize' = bddnodesize
      BY <1>1, TableUnchanged
    <2>2. GoodCache(applycache, Live, LEVEL) /\ cacheratio \in Nat
          /\ (cacheratio > 0 => bddnodesize \div cacheratio >= 2)
      BY DEF AInv, CacheOK
    <2>3. GoodCache(applycache', Live, LEVEL)
      <3>1. CASE bddresized /\ cacheratio > 0
        <4> DEFINE size == bddnodesize \div cacheratio
        <4>1. size \in 2..SlotBound
          <5>1. bddnodesize \in Nat /\ bddnodesize <= SlotBound /\ SlotBound \in Nat
            BY TableSize DEF AInv
          <5>2. size \in Nat /\ size <= bddnodesize
            BY <2>2, <3>1, <5>1
          <5>3. size >= 2
            BY <2>2, <3>1
          <5> HIDE DEF size
          <5>4. QED
            BY <5>1, <5>2, <5>3
        <4>2. applycache' = EmptyCache(NextPrime(size))
          BY <1>1, <3>1 DEF checkresize
        <4> HIDE DEF size
        <4>3. QED
          BY <4>1, <4>2, NextPrimeType, EmptyCacheGood
      <3>2. CASE ~(bddresized /\ cacheratio > 0)
        BY <1>1, <2>2, <3>2 DEF checkresize
      <3>3. QED
        BY <3>1, <3>2
    <2>4. bddresized' \in BOOLEAN /\ cacheratio' = cacheratio
      BY <1>1 DEF checkresize
    <2>5. QED
      BY <2>1, <2>2, <2>3, <2>4 DEF CacheOK
  <1>8. QED
    BY <1>4, <1>5, <1>6, <1>7 DEF AInv

\* What the client does between two operations.
LEMMA ClientStep ==
  ASSUME AInv, call = None, UNCHANGED callvars, bddrefstack' = <<>>, IInv', CacheOK'
  PROVE  AInv'
  <1>1. calling = None /\ returned = NoNode /\ frames = <<>>
    BY DEF AInv, PhaseOK
  <1>2. PhaseOK'
    BY <1>1 DEF PhaseOK, callvars
  <1>3. FramesOK' /\ DepthsOK' /\ ReferencesOK'
    BY <1>1, NothingRuns DEF callvars
  <1>4. QED
    BY <1>2, <1>3 DEF AInv

\* bdd_setcacheratio.
LEMMA SetCacheRatioStep ==
  ASSUME AInv, NEW ratio \in CacheRatios, SetCacheRatio(ratio)
  PROVE  AInv'
  <1>1. /\ call = None /\ bddnodesize \div ratio >= 2 /\ cacheratio' = ratio
        /\ applycache' = EmptyCache(NextPrime(bddnodesize \div ratio))
        /\ bddresized' = bddresized /\ UNCHANGED callvars /\ UNCHANGED vars
    BY DEF SetCacheRatio
  <1>2. ratio \in Nat \ {0}
    BY CacheAssumption
  <1>3. UNCHANGED <<table, refcou, limits, bdderrorcond, bddrefstack, result, held>>
    BY <1>1 DEF vars
  <1>4. bddrefstack = <<>>
    BY <1>1 DEF AInv, PhaseOK
  <1>5. IInv'
    BY <1>3, <1>4, Running, QuietStep DEF AInv, limits
  <1>6. CacheOK'
    <2> DEFINE size == bddnodesize \div ratio
    <2>1. size \in 2..SlotBound
      <3>1. bddnodesize \in Nat /\ bddnodesize <= SlotBound /\ SlotBound \in Nat
        BY TableSize DEF AInv
      <3>2. size \in Nat /\ size <= bddnodesize /\ size >= 2
        BY <1>1, <1>2, <3>1
      <3> HIDE DEF size
      <3>3. QED
        BY <3>1, <3>2
    <2>2. Live' = Live /\ LEVEL' = LEVEL /\ bddnodesize' = bddnodesize
      BY <1>3, TableUnchanged
    <2>3. bddresized' \in BOOLEAN
      BY <1>1 DEF AInv, CacheOK
    <2>4. cacheratio' \in Nat /\ bddnodesize' \div cacheratio' >= 2
      BY <1>1, <1>2, <2>2
    <2> HIDE DEF size
    <2>5. GoodCache(applycache', Live, LEVEL)
      BY <1>1, <2>1, NextPrimeType, EmptyCacheGood DEF size
    <2>6. QED
      BY <2>2, <2>3, <2>4, <2>5 DEF CacheOK
  <1>7. QED
    BY <1>1, <1>3, <1>4, <1>5, <1>6, ClientStep

\* bdd_gbc by the program.
LEMMA CollectAndResetStep == AInv /\ CollectAndReset => AInv'
  <1> SUFFICES ASSUME AInv, CollectAndReset PROVE AInv'
    OBVIOUS
  <1>1. /\ call = None /\ Gbc /\ applycache' = Reset(applycache)
        /\ cacheratio' = cacheratio /\ bddresized' = bddresized /\ UNCHANGED callvars
    BY DEF CollectAndReset
  <1>2. bddrefstack' = <<>> /\ bddnodesize' = bddnodesize
    BY <1>1 DEF Gbc, Idle, Rebuild
  <1>3. IInv'
    BY <1>1, GbcIInv DEF AInv
  <1>4. CacheOK'
    <2>1. Cardinality(DOMAIN applycache) \in Nat \ {0}
      BY DEF AInv, CacheOK, GoodCache
    <2>2. GoodCache(applycache', Live', LEVEL')
      BY <1>1, <2>1, EmptyCacheGood DEF Reset
    <2>3. QED
      BY <1>1, <1>2, <2>2 DEF AInv, CacheOK
  <1>5. QED
    BY <1>1, <1>2, <1>3, <1>4, ClientStep

\* bdd_clear_error.
LEMMA ClearErrorAndResetStep == AInv /\ ClearErrorAndReset => AInv'
  <1> SUFFICES ASSUME AInv, ClearErrorAndReset PROVE AInv'
    OBVIOUS
  <1>1. /\ call = None /\ ClearError /\ applycache' = Reset(applycache)
        /\ cacheratio' = cacheratio /\ bddresized' = bddresized /\ UNCHANGED callvars
    BY DEF ClearErrorAndReset
  <1>2. /\ bddrefstack = <<>> /\ bdderrorcond' \in BOOLEAN
        /\ UNCHANGED <<table, refcou, limits, bddrefstack, result, held>>
    BY <1>1 DEF ClearError, Idle
  <1>3. IInv'
    BY <1>2, Running, QuietStep DEF AInv, limits
  <1>4. CacheOK'
    <2>1. Cardinality(DOMAIN applycache) \in Nat \ {0}
      BY DEF AInv, CacheOK, GoodCache
    <2>2. GoodCache(applycache', Live', LEVEL')
      BY <1>1, <2>1, EmptyCacheGood DEF Reset
    <2>3. bddnodesize' = bddnodesize
      BY <1>2, TableUnchanged
    <2>4. QED
      BY <1>1, <2>2, <2>3 DEF AInv, CacheOK
  <1>5. QED
    BY <1>1, <1>2, <1>3, <1>4, ClientStep

\* bdd_addref and bdd_delref.
LEMMA TakeReferenceStep ==
  ASSUME AInv, NEW n \in Slot, TakeReference(n)
  PROVE  AInv'
  <1>1. call = None /\ AddRef(n) /\ UNCHANGED cachevars /\ UNCHANGED callvars
    BY DEF TakeReference
  <1>2. bddrefstack' = <<>> /\ UNCHANGED table
    BY <1>1 DEF AddRef, Idle
  <1>3. IInv'
    BY <1>1, AddRefIInv DEF AInv
  <1>4. CacheOK'
    BY <1>1, <1>2, CacheUnchanged DEF AInv
  <1>5. QED
    BY <1>1, <1>2, <1>3, <1>4, ClientStep

LEMMA GiveReferenceStep ==
  ASSUME AInv, NEW n \in Slot, GiveReference(n)
  PROVE  AInv'
  <1>1. call = None /\ DelRef(n) /\ UNCHANGED cachevars /\ UNCHANGED callvars
    BY DEF GiveReference
  <1>2. bddrefstack' = <<>> /\ UNCHANGED table
    BY <1>1 DEF DelRef, Idle
  <1>3. IInv'
    BY <1>1, DelRefIInv DEF AInv
  <1>4. CacheOK'
    BY <1>1, <1>2, CacheUnchanged DEF AInv
  <1>5. QED
    BY <1>1, <1>2, <1>3, <1>4, ClientStep

\* bdd_init.
LEMMA InitAInv == ApplyInit => AInv
  <1> SUFFICES ASSUME ApplyInit PROVE AInv
    OBVIOUS
  <1>1. /\ Init /\ applycache = EmptyCache(CacheSize) /\ cacheratio = 0 /\ bddresized = FALSE
        /\ call = None /\ calling = None /\ frames = <<>> /\ returned = NoNode
    BY DEF ApplyInit
  <1>2. IInv /\ bddrefstack = <<>>
    BY <1>1, InitIInv DEF Init
  <1>3. PhaseOK
    BY <1>1, <1>2 DEF PhaseOK
  <1>4. Len(frames) = 0 /\ DOMAIN frames = {} /\ Len(bddrefstack) = 0
    BY <1>1, <1>2
  <1>5. FramesOK /\ DepthsOK
    BY <1>1, <1>4 DEF FramesOK, DepthsOK, Descending
  <1>6. Pushed(frames, 0) = 0
    BY PushedNone
  <1>7. ReferencesOK
    BY <1>1, <1>4, <1>6 DEF ReferencesOK, ResultsOf, AtMake
  <1>8. CacheOK
    <2>1. GoodCache(applycache, Live, LEVEL)
      BY <1>1, CacheAssumption, EmptyCacheGood
    <2>2. cacheratio \in Nat /\ ~(cacheratio > 0)
      BY <1>1
    <2>3. bddresized \in BOOLEAN
      BY <1>1, Zenon
    <2>4. QED
      BY <2>1, <2>2, <2>3 DEF CacheOK
  <1>9. QED
    BY <1>2, <1>3, <1>5, <1>7, <1>8 DEF AInv

\* AInv is inductive.
LEMMA NextAInv == AInv /\ [ApplyNext]_allvars => AInv'
  <1> SUFFICES ASSUME AInv, [ApplyNext]_allvars PROVE AInv'
    OBVIOUS
  <1>1. CASE UNCHANGED allvars
    <2>1. /\ UNCHANGED <<table, refcou, limits, bdderrorcond, bddrefstack, result, held>>
          /\ UNCHANGED cachevars
          /\ UNCHANGED <<call, calling, frames, returned>>
      BY <1>1 DEF allvars, vars, callvars
    <2>2. Live' = Live /\ Reach' = Reach /\ LEVEL' = LEVEL
      BY <2>1, TableUnchanged
    <2>3. IInv'
      BY <2>1, Running, QuietStep DEF AInv, limits, IInv, Idle
    <2>4. PhaseOK'
      BY <2>1, <2>2 DEF AInv, PhaseOK
    <2>5. FramesOK'
      BY <2>1, <2>2 DEF AInv, FramesOK
    <2>6. DepthsOK'
      <3>1. frames' = frames /\ calling' = calling /\ returned' = returned /\ LEVEL' = LEVEL
        BY <2>1, <2>2
      <3>2. DepthsOK
        BY DEF AInv
      <3>3. QED
        BY <3>1, <3>2 DEF DepthsOK, Top, TopLevel
    <2>7. ReferencesOK' /\ CacheOK'
      BY <2>1, <2>2, CacheUnchanged DEF AInv, ReferencesOK
    <2>8. QED
      BY <2>3, <2>4, <2>5, <2>6, <2>7 DEF AInv
  <1>2. CASE ApplyNext
    BY <1>2, StartStep, ReturnImmediateStep, ReturnCachedStep, DescendStep, PushLowStep,
       PushHighStep, BuildStep, FinishStep, SetCacheRatioStep, CollectAndResetStep,
       ClearErrorAndResetStep, TakeReferenceStep, GiveReferenceStep DEF ApplyNext
  <1>3. QED
    BY <1>1, <1>2

----------------------------------------------------------------------------
\* The theorems.

\* AInv always holds: with collections, resizes and failures of bdd_makenode
\* between any two steps of the recursion.
THEOREM ApplyInvariance == ApplySpec => []AInv
  <1>1. QED
    BY InitAInv, NextAInv, PTL DEF ApplySpec

\* The table under the recursion is what NodeTable promises.
THEOREM ApplyTable == ApplySpec => []IInv
  <1>1. AInv => IInv
    BY DEF AInv
  <1>2. QED
    BY <1>1, ApplyInvariance, PTL

\* Every node is in the chain of its key, once, between any two steps of
\* the recursion.
THEOREM ApplyUniqueTable == ApplySpec => []UniqueTable
  <1>1. AInv => UniqueTable
    BY DEF AInv, IInv
  <1>2. QED
    BY <1>1, ApplyInvariance, PTL

\* So is the free list: every slot is a node or on it.
THEOREM ApplyFreeList == ApplySpec => []FreeListExact
  <1>1. AInv => FreeListExact
    BY DEF AInv, IInv
  <1>2. QED
    BY <1>1, ApplyInvariance, PTL

\* With every call the recursion goes down a level.
LEMMA DepthAtLeast ==
  ASSUME AInv
  PROVE  \A i \in DOMAIN frames : Depth(frames[i], LEVEL) \in Nat /\ i - 1 <= Depth(frames[i], LEVEL)
  <1> DEFINE k == Len(frames)
             d(i) == Depth(frames[i], LEVEL)
             T == {i \in 1..k : ~(i - 1 <= d(i))}
  <1>1. k \in Nat /\ DOMAIN frames = 1..k
    BY Running
  <1>2. \A i \in 1..k : d(i) \in Nat
    <2>1. ASSUME NEW i \in 1..k PROVE d(i) \in Nat
      <3>1. frames[i] \in Frame(Reach)
        BY Running
      <3>2. frames[i].l \in Live /\ frames[i].r \in Live
        BY <3>1, Running DEF Frame
      <3>3. QED
        BY <3>2, TopLevelType DEF AInv, Depth, TopLevel
    <2>2. QED
      BY <2>1
  <1>3. \A i \in 1..(k - 1) : d(i) < d(i + 1)
    BY DEF AInv, DepthsOK, Descending
  <1> HIDE DEF k, d
  <1>4. T = {}
    <2>1. SUFFICES ASSUME T # {} PROVE FALSE
      OBVIOUS
    <2>2. PICK i \in T : \A j \in T : i <= j
      <3>1. T \in SUBSET Nat
        BY <1>1
      <3> HIDE DEF T
      <3>2. QED
        BY <2>1, <3>1, LeastNatural
    <2>3. i \in 1..k /\ i # 1
      BY <1>2, <2>2
    <2>4. i - 1 \in 1..(k - 1) /\ i - 1 \in 1..k /\ (i - 1) + 1 = i
      BY <1>1, <2>3
    <2>5. (i - 1) - 1 <= d(i - 1)
      BY <1>1, <2>2, <2>4
    <2>6. d(i - 1) < d(i)
      BY <1>3, <2>4
    <2>7. d(i - 1) \in Nat /\ d(i) \in Nat
      BY <1>2, <2>3, <2>4
    <2>8. i - 1 <= d(i)
      BY <1>1, <2>3, <2>5, <2>6, <2>7
    <2>9. QED
      BY <2>2, <2>8
  <1>5. QED
    BY <1>1, <1>2, <1>4 DEF d

\* How much of the two stacks is used.
LEMMA StacksBounded ==
  ASSUME AInv
  PROVE  /\ Len(frames) <= VarNum /\ Len(bddrefstack) <= VarNum + 1
         /\ calling # None => Len(bddrefstack) <= VarNum
         /\ frames = <<>> => bddrefstack = <<>>
  <1>1. Len(frames) \in Nat /\ VarNum \in Nat \ {0}
    BY Running, SizeAssumption
  <1>2. Len(frames) <= VarNum
    <2>1. CASE frames = <<>>
      BY <1>1, <2>1
    <2>2. CASE frames # <<>>
      <3>1. Len(frames) \in DOMAIN frames /\ Depth(frames[Len(frames)], LEVEL) \in 0..(VarNum - 1)
        BY <2>2, TopFrame DEF Top
      <3>2. Len(frames) - 1 <= Depth(frames[Len(frames)], LEVEL)
        BY <3>1, DepthAtLeast
      <3>3. QED
        BY <1>1, <3>1, <3>2
    <2>3. QED
      BY <2>1, <2>2
  <1>3. Len(bddrefstack) = Pushed(frames, Len(frames)) + (IF AtMake(frames) THEN 1 ELSE 0)
    BY DEF AInv, ReferencesOK, ResultsOf
  <1>4. Pushed(frames, Len(frames)) \in Nat /\ Pushed(frames, Len(frames)) <= Len(frames)
    BY <1>1, PushedMonotonic
  <1>5. calling # None => ~AtMake(frames)
    <2>1. frames # <<>> => Len(frames) \in DOMAIN frames
      BY TopFrame
    <2>2. QED
      BY <2>1 DEF AInv, FramesOK, AtMake
  <1>6. frames = <<>> => bddrefstack = <<>>
    <2>1. ASSUME frames = <<>> PROVE bddrefstack = <<>>
      <3>1. Len(frames) = 0 /\ ~AtMake(frames)
        BY <2>1 DEF AtMake
      <3>2. Len(bddrefstack) = 0
        BY <1>3, <3>1, PushedNone
      <3>3. QED
        BY <3>2, Running
    <2>2. QED
      BY <2>1
  <1>7. QED
    BY <1>1, <1>2, <1>3, <1>4, <1>5, <1>6

\* Neither the C stack nor the reference stack is ever deeper than there are
\* levels: bdd_setvarnum's reference stack is large enough, though PUSHREF
\* does not look.
THEOREM ApplyRecursionBounded == ApplySpec => []RecursionBounded
  <1>1. AInv => RecursionBounded
    BY StacksBounded DEF RecursionBounded
  <1>2. QED
    BY <1>1, ApplyInvariance, PTL

\* An operation fails only if every slot holds a node that is still needed,
\* by itself or by others, and the table may not, or can not, get larger.
THEOREM ApplyExhaustedWhenFull == ApplySpec => ExhaustedOnlyWhenFull
  <1>1. ASSUME AInv, [ApplyNext]_allvars, bdderrorcond', ~bdderrorcond
        PROVE  Marked = Slot /\ \A q \in (bddnodesize + 1)..WantedSize : ~IsPrime(q)
    <2>1. Build
      BY <1>1 DEF ApplyNext, allvars, vars, Start, ReturnImmediate, ReturnCached, Descend,
                  PushLow, PushHigh, Finish, SetCacheRatio, CollectAndReset, Gbc,
                  ClearErrorAndReset, ClearError, TakeReference, AddRef, GiveReference, DelRef
    <2>2. PICK l, a, b, n : bdd_makenode(l, a, b, n)
      BY <2>1 DEF Build
    <2>3. ExhaustNodes(n)
      BY <1>1, <2>2 DEF bdd_makenode, FindNode, TakeNode, CollectAndTakeNode, RefuseNode
    <2>4. QED
      BY <1>1, <2>3, OutOfNodes DEF AInv
  <1>2. AInv /\ [ApplyNext]_allvars =>
          [bdderrorcond' /\ ~bdderrorcond =>
             /\ Marked = Slot
             /\ \A q \in (bddnodesize + 1)..WantedSize : ~IsPrime(q)]_vars
    BY <1>1
  <1>3. QED
    BY <1>2, ApplyInvariance, PTL DEF ApplySpec, ExhaustedOnlyWhenFull

----------------------------------------------------------------------------
\* An operation is a client of the node table.

\* The reference stack of the client.
ClientStack == IF returned = NoNode THEN bddrefstack ELSE Append(bddrefstack, returned)

\* While a node is made the two stacks are the same, and so is what a
\* collection takes.
LEMMA SameRoots ==
  ASSUME returned = NoNode
  PROVE  TableClient!Survivors = Survivors
  <1>1. ClientStack = bddrefstack
    BY DEF ClientStack
  <1>2. TableClient!Live = Live
    BY DEF TableClient!Live, Live, TableClient!Slot, Slot
  <1>3. TableClient!Roots = Roots
    BY <1>1, <1>2 DEF TableClient!Roots, Roots, ClientStack
  <1>4. \A S : TableClient!Closed(S) <=> Closed(S)
    BY DEF TableClient!Closed, Closed, TableClient!Children, Children
  <1>5. TableClient!Marked = Marked
    BY <1>2, <1>3, <1>4 DEF TableClient!Marked, Marked
  <1>6. QED
    BY <1>5 DEF TableClient!Survivors, Survivors

\* Neither the sweep nor bdd_makenode depends on the stack otherwise.
LEMMA SameRebuild ==
  ASSUME NEW keep, NEW size, NEW new, NEW l, NEW a, NEW b
  PROVE  TableClient!Rebuild(keep, size, new, l, a, b) <=> Rebuild(keep, size, new, l, a, b)
  <1>1. \A s, m, c, d : TableClient!NODEHASH(s, m, c, d) = NODEHASH(s, m, c, d)
    BY DEF TableClient!NODEHASH, NODEHASH
  <1>2. TableClient!NewBucket(size, l, a, b) = NewBucket(size, l, a, b)
    BY <1>1 DEF TableClient!NewBucket, NewBucket
  <1>3. TableClient!FreeNum(size, keep, new) = FreeNum(size, keep, new)
    BY DEF TableClient!FreeNum, FreeNum, TableClient!Cardinality, Cardinality
  <1>4. [h \in 0..(size-1) |->
          {n \in keep \ {0, 1} : h = TableClient!NODEHASH(size, LEVEL[n], LOW[n], HIGH[n])}
            \cup (IF h = TableClient!NewBucket(size, l, a, b) THEN new ELSE {})]
        = [h \in 0..(size-1) |->
            {n \in keep \ {0, 1} : h = NODEHASH(size, LEVEL[n], LOW[n], HIGH[n])}
              \cup (IF h = NewBucket(size, l, a, b) THEN new ELSE {})]
    BY <1>1, <1>2
  <1>5. QED
    BY <1>3, <1>4 DEF TableClient!Rebuild, Rebuild

LEMMA SameMakeNode ==
  ASSUME returned = NoNode, NEW l, NEW a, NEW b, NEW n
  PROVE  TableClient!bdd_makenode(l, a, b, n) <=> bdd_makenode(l, a, b, n)
  <1>1. TableClient!Survivors = Survivors
    BY SameRoots
  <1>2. TableClient!Matches(l, a, b) = Matches(l, a, b)
    BY DEF TableClient!Matches, Matches, TableClient!NODEHASH, NODEHASH
  <1>3. TableClient!FindNode(l, a, b, n) <=> FindNode(l, a, b, n)
    BY <1>2 DEF TableClient!FindNode, FindNode, TableClient!table, table
  <1>4. TableClient!TakeNode(l, a, b, n) <=> TakeNode(l, a, b, n)
    BY DEF TableClient!TakeNode, TakeNode, TableClient!NODEHASH, NODEHASH
  <1>5. \A keep, size : TableClient!SizeAfterGbc(keep, size) <=> SizeAfterGbc(keep, size)
    <2>1. \A q : TableClient!IsPrime(q) <=> IsPrime(q)
      BY DEF TableClient!IsPrime, IsPrime
    <2>2. TableClient!WantedSize = WantedSize /\ (TableClient!MayGrow <=> MayGrow)
      BY DEF TableClient!WantedSize, WantedSize, TableClient!Lesser, Lesser,
             TableClient!MayGrow, MayGrow
    <2>3. \A size : TableClient!Resized(size) <=> Resized(size)
      BY <2>1, <2>2 DEF TableClient!Resized, Resized
    <2>4. \A keep : TableClient!FewFree(keep) <=> FewFree(keep)
      BY DEF TableClient!FewFree, FewFree, TableClient!Cardinality, Cardinality
    <2>5. QED
      BY <2>3, <2>4 DEF TableClient!SizeAfterGbc, SizeAfterGbc
  <1>6. TableClient!CollectAndTakeNode(l, a, b, n) <=> CollectAndTakeNode(l, a, b, n)
    BY <1>1, <1>5, SameRebuild DEF TableClient!CollectAndTakeNode, CollectAndTakeNode
  <1>7. TableClient!Slot = Slot
    BY DEF TableClient!Slot, Slot
  <1>8. TableClient!ExhaustNodes(n) <=> ExhaustNodes(n)
    BY <1>1, <1>5, <1>7, SameRebuild DEF TableClient!ExhaustNodes, ExhaustNodes
  <1>9. TableClient!RefuseNode(n) <=> RefuseNode(n)
    BY DEF TableClient!RefuseNode, RefuseNode, TableClient!table, table
  <1>10. QED
    BY <1>2, <1>3, <1>4, <1>6, <1>8, <1>9 DEF TableClient!bdd_makenode, bdd_makenode,
       TableClient!table, table

\* A step that leaves the table, and the stack of the client.
LEMMA ClientStutters ==
  ASSUME UNCHANGED <<table, refcou, limits, bdderrorcond, result, held>>,
         ClientStack' = ClientStack
  PROVE  UNCHANGED TableClient!vars
  BY DEF TableClient!vars, TableClient!table, TableClient!limits, table, limits, ClientStack

\* A recursive call that returns: the client pushes the node.
LEMMA ReturnRefines ==
  ASSUME AInv, calling # None, NEW n \in Live, returned' = n, result' = 0,
         UNCHANGED <<table, refcou, limits, bdderrorcond, bddrefstack, held>>
  PROVE  \E m \in TableClient!Slot : TableClient!PushRef(m)
  <1>1. returned = NoNode /\ n # NoNode /\ n \in Slot /\ n \in 0..SlotBound
    BY Levels DEF AInv, PhaseOK, Live
  <1>2. ClientStack = bddrefstack /\ ClientStack' = Append(bddrefstack, n)
    BY <1>1 DEF ClientStack
  <1>3. Len(ClientStack) < VarNum + 1
    BY <1>2, StacksBounded, Running, SizeAssumption
  <1>4. TableClient!Live = Live /\ TableClient!Slot = Slot
    BY DEF TableClient!Live, Live, TableClient!Slot, Slot
  <1>5. TableClient!PushRef(n)
    BY <1>1, <1>2, <1>3, <1>4 DEF TableClient!PushRef, ClientStack, TableClient!table, table,
       TableClient!limits, limits
  <1>6. QED
    BY <1>1, <1>4, <1>5

\* bdd_makenode on the two results, with the client's stack.
LEMMA BuildRefines ==
  ASSUME AInv, Build
  PROVE  \E l \in 0..(VarNum - 1) : TableClient!MakeNode(l)
  <1> DEFINE depth == Len(bddrefstack)
             a == bddrefstack[depth - 1]
             b == bddrefstack[depth]
             level == TopLevel(Top.l, Top.r)
             left == SubSeq(bddrefstack, 1, depth - 2)
  <1>1. calling = None /\ frames # <<>> /\ Top.step = "make"
    BY DEF Build
  <1>2. PICK n \in 0..(SlotBound - 1) : bdd_makenode(level, a, b, n) /\ returned' = n
    BY DEF Build
  <1>3. bddrefstack' = left /\ UNCHANGED <<limits, result, held>>
    BY DEF Build
  <1>4. /\ returned = NoNode /\ depth >= 2 /\ level \in 0..(VarNum - 1)
        /\ level < LEVEL[a] /\ level < LEVEL[b]
    BY <1>1, BuildOperands DEF Depth, TopLevel
  <1>5. ClientStack = bddrefstack
    BY <1>4 DEF ClientStack
  <1>6. ClientStack' = Append(left, n)
    <2>1. n # NoNode
      BY <1>2, SizeAssumption DEF NoNode
    <2>2. QED
      BY <1>2, <1>3, <2>1 DEF ClientStack
  <1>7. TableClient!bdd_makenode(level, a, b, n)
    <2> HIDE DEF a, b, level
    <2>1. QED
      BY <1>2, <1>4, SameMakeNode
  <1>8. TableClient!MakeNode(level)
    BY <1>2, <1>3, <1>4, <1>5, <1>6, <1>7 DEF TableClient!MakeNode, ClientStack,
       TableClient!limits, limits
  <1>9. QED
    BY <1>4, <1>8

\* The outermost call returns: the client's operation is over.
LEMMA FinishRefines ==
  ASSUME AInv, Finish
  PROVE  TableClient!EndOp
  <1>1. /\ returned # NoNode /\ frames = <<>> /\ result' = returned /\ returned' = NoNode
        /\ UNCHANGED <<table, refcou, limits, bdderrorcond, bddrefstack, held>>
    BY DEF Finish
  <1>2. bddrefstack = <<>>
    BY <1>1, StacksBounded
  <1>3. ClientStack = <<returned>> /\ ClientStack' = <<>>
    BY <1>1, <1>2 DEF ClientStack
  <1>4. QED
    BY <1>1, <1>3 DEF TableClient!EndOp, ClientStack, TableClient!table, table,
       TableClient!limits, limits

\* What the program does between two operations.
LEMMA ProgramRefines ==
  ASSUME AInv
  PROVE  /\ CollectAndReset => TableClient!Gbc
         /\ ClearErrorAndReset => TableClient!ClearError
         /\ \A n : TakeReference(n) => TableClient!AddRef(n)
         /\ \A n : GiveReference(n) => TableClient!DelRef(n)
  <1>1. call = None => returned = NoNode
    BY DEF AInv, PhaseOK
  <1>2. /\ returned = NoNode => ClientStack = bddrefstack
        /\ returned' = NoNode => ClientStack' = bddrefstack'
    BY DEF ClientStack
  <1>3. returned = NoNode => (TableClient!Idle <=> Idle)
    BY <1>2 DEF TableClient!Idle, Idle, ClientStack
  <1>4. \A n : TableClient!Known(n) <=> Known(n)
    BY DEF TableClient!Known, Known, TableClient!Slot, Slot, TableClient!Children, Children
  <1>5. CollectAndReset => TableClient!Gbc
    <2>1. SUFFICES ASSUME CollectAndReset PROVE TableClient!Gbc
      OBVIOUS
    <2>2. Gbc /\ returned = NoNode /\ returned' = NoNode
      BY <1>1, <2>1 DEF CollectAndReset, callvars
    <2>3. TableClient!Survivors = Survivors
      BY <2>2, SameRoots
    <2>4. TableClient!Rebuild(Survivors, bddnodesize, {}, 0, 0, 0)
      BY <2>2, SameRebuild DEF Gbc
    <2>5. QED
      BY <1>2, <1>3, <2>2, <2>3, <2>4 DEF Gbc, TableClient!Gbc, ClientStack,
         TableClient!limits, limits
  <1>6. ClearErrorAndReset => TableClient!ClearError
    <2>1. SUFFICES ASSUME ClearErrorAndReset PROVE TableClient!ClearError
      OBVIOUS
    <2>2. ClearError /\ returned = NoNode /\ returned' = NoNode
      BY <1>1, <2>1 DEF ClearErrorAndReset, callvars
    <2>3. QED
      BY <1>2, <1>3, <2>2 DEF ClearError, TableClient!ClearError, ClientStack,
         TableClient!table, table, TableClient!limits, limits
  <1>7. ASSUME NEW n, TakeReference(n) PROVE TableClient!AddRef(n)
    <2>1. AddRef(n) /\ returned = NoNode /\ returned' = NoNode
      BY <1>1, <1>7 DEF TakeReference, callvars
    <2>2. TableClient!VarNode(n) <=> VarNode(n)
      BY DEF TableClient!VarNode, VarNode
    <2>3. TableClient!Cardinality({m \in Slot : held[m] > 0} \cup {n})
          = Cardinality({m \in Slot : held[m] > 0} \cup {n})
      BY DEF TableClient!Cardinality, Cardinality
    <2>4. TableClient!Slot = Slot
      BY DEF TableClient!Slot, Slot
    <2>5. \A count : TableClient!Increased(count) = Increased(count)
      BY DEF TableClient!Increased, Increased
    <2>6. UNCHANGED <<TableClient!table, TableClient!limits>>
      BY <2>1 DEF AddRef, TableClient!table, table, TableClient!limits, limits
    <2>7. QED
      BY <1>2, <1>3, <1>4, <2>1, <2>2, <2>3, <2>4, <2>5, <2>6
         DEF AddRef, TableClient!AddRef, ClientStack
  <1>8. ASSUME NEW n, GiveReference(n) PROVE TableClient!DelRef(n)
    <2>1. DelRef(n) /\ returned = NoNode /\ returned' = NoNode
      BY <1>1, <1>8 DEF GiveReference, callvars
    <2>2. \A count : TableClient!Decreased(count) = Decreased(count)
      BY DEF TableClient!Decreased, Decreased
    <2>3. UNCHANGED <<TableClient!table, TableClient!limits>>
      BY <2>1 DEF DelRef, TableClient!table, table, TableClient!limits, limits
    <2>4. QED
      BY <1>2, <1>3, <2>1, <2>2, <2>3 DEF DelRef, TableClient!DelRef, ClientStack
  <1>9. QED
    BY <1>5, <1>6, <1>7, <1>8

\* The initial states.
LEMMA InitRefines == ApplyInit => TableClient!Init
  <1> SUFFICES ASSUME ApplyInit PROVE TableClient!Init
    OBVIOUS
  <1>1. Init /\ returned = NoNode
    BY DEF ApplyInit
  <1>2. /\ TableClient!InitLevel = InitLevel /\ TableClient!InitLow = InitLow
        /\ TableClient!InitHigh = InitHigh /\ \A n : TableClient!VarNode(n) <=> VarNode(n)
    BY DEF TableClient!InitLevel, InitLevel, TableClient!InitLow, InitLow,
           TableClient!InitHigh, InitHigh, TableClient!VarNode, VarNode
  <1>3. \A s, l, a, b : TableClient!NODEHASH(s, l, a, b) = NODEHASH(s, l, a, b)
    BY DEF TableClient!NODEHASH, NODEHASH
  <1>4. QED
    BY <1>1, <1>2, <1>3 DEF Init, TableClient!Init

\* Every step is one of the client, or leaves what the client sees.
LEMMA NextRefines == AInv /\ [ApplyNext]_allvars => [TableClient!Next]_(TableClient!vars)
  <1> SUFFICES ASSUME AInv, [ApplyNext]_allvars
               PROVE  [TableClient!Next]_(TableClient!vars)
    OBVIOUS
  <1> USE DEF TableClient!Next
  <1>1. CASE UNCHANGED allvars
    <2>1. /\ UNCHANGED <<table, refcou, limits, bdderrorcond, result, held>>
          /\ bddrefstack' = bddrefstack /\ returned' = returned
      BY <1>1 DEF allvars, vars, callvars
    <2>2. QED
      BY <2>1, ClientStutters DEF ClientStack
  <1>2. CASE \E op \in Operators : \E l, r \in Slot : Start(op, l, r)
    <2>1. /\ UNCHANGED <<table, refcou, limits, bdderrorcond, result, held>>
          /\ bddrefstack' = <<>> /\ returned' = returned /\ call = None
      BY <1>2 DEF Start
    <2>2. bddrefstack = <<>>
      BY <2>1 DEF AInv, PhaseOK
    <2>3. QED
      BY <2>1, <2>2, ClientStutters DEF ClientStack
  <1>3. CASE ReturnImmediate
    <2>1. PICK n \in Live : returned' = n
      BY <1>3, ImmediateNode DEF ReturnImmediate
    <2>2. \E m \in TableClient!Slot : TableClient!PushRef(m)
      BY <1>3, <2>1, ReturnRefines DEF ReturnImmediate
    <2>3. QED
      BY <2>2
  <1>4. CASE ReturnCached
    <2>1. PICK n \in Live : returned' = n
      BY <1>4, CachedNode DEF ReturnCached
    <2>2. \E m \in TableClient!Slot : TableClient!PushRef(m)
      BY <1>4, <2>1, ReturnRefines DEF ReturnCached
    <2>3. QED
      BY <2>2
  <1>5. CASE Descend
    <2>1. /\ UNCHANGED <<table, refcou, limits, bdderrorcond, result, held>>
          /\ bddrefstack' = bddrefstack /\ returned' = returned
      BY <1>5 DEF Descend, vars
    <2>2. QED
      BY <2>1, ClientStutters DEF ClientStack
  <1>6. CASE PushLow \/ PushHigh
    <2>1. /\ UNCHANGED <<table, refcou, limits, bdderrorcond, result, held>>
          /\ bddrefstack' = Append(bddrefstack, returned)
          /\ returned' = NoNode /\ returned # NoNode
      BY <1>6 DEF PushLow, PushHigh
    <2>2. QED
      BY <2>1, ClientStutters DEF ClientStack
  <1>7. CASE Build
    BY <1>7, BuildRefines
  <1>8. CASE Finish
    BY <1>8, FinishRefines
  <1>9. CASE \E ratio \in CacheRatios : SetCacheRatio(ratio)
    <2>1. /\ UNCHANGED <<table, refcou, limits, bdderrorcond, result, held>>
          /\ bddrefstack' = bddrefstack /\ returned' = returned
      BY <1>9 DEF SetCacheRatio, vars, callvars
    <2>2. QED
      BY <2>1, ClientStutters DEF ClientStack
  <1>10. CASE CollectAndReset \/ ClearErrorAndReset
    BY <1>10, ProgramRefines
  <1>11. CASE \E n \in Slot : TakeReference(n) \/ GiveReference(n)
    <2>1. TableClient!Slot = Slot
      BY DEF TableClient!Slot, Slot
    <2>2. QED
      BY <1>11, <2>1, ProgramRefines
  <1>12. QED
    BY <1>1, <1>2, <1>3, <1>4, <1>5, <1>6, <1>7, <1>8, <1>9, <1>10, <1>11 DEF ApplyNext

\* An operation is a client of the node table: its recursion, whatever
\* collections do in between, is a sequence of the steps of NodeTable.
THEOREM ApplyRefinesTable == ApplySpec => ImplementsNodeTable
  <1>1. ApplySpec => TableClient!Init
    BY InitRefines DEF ApplySpec
  <1>2. ApplySpec => [][TableClient!Next]_(TableClient!vars)
    BY NextRefines, ApplyInvariance, PTL DEF ApplySpec
  <1>3. QED
    BY <1>1, <1>2 DEF ImplementsNodeTable, TableClient!Spec

----------------------------------------------------------------------------
\* Diagrams and their meaning.

\* The nodes in S, with those below them.
Diagrams(S, level, low, high) ==
  /\ {0, 1} \subseteq S /\ level[0] = VarNum /\ level[1] = VarNum
  /\ \A n \in S : level[n] \in 0..VarNum /\ low[n] # -1
  /\ \A n \in S \ {0, 1} :
       /\ low[n] \in S /\ high[n] \in S
       /\ level[n] < level[low[n]] /\ level[n] < level[high[n]]

\* The function of a node, when those of the nodes below it are in f.
Unfolded(f, n, level, low, high) ==
  IF n = 0 \/ low[n] = -1 THEN {}
  ELSE IF n = 1 THEN Assignments
  ELSE {s \in Assignments : s \in f[IF level[n] \in s THEN high[n] ELSE low[n]]}

IsMeaning(f, slots, level, low, high) ==
  f = [n \in slots |-> Unfolded(f, n, level, low, high)]

\* Every table has a meaning.
LEMMA MeaningExists ==
  ASSUME NEW slots, NEW S \in SUBSET slots, NEW level, NEW low, NEW high,
         Diagrams(S, level, low, high), \A n \in slots \ S : low[n] = -1
  PROVE  \E f : IsMeaning(f, slots, level, low, high)
  <1> USE SizeAssumption
  <1> DEFINE U(f, n) == Unfolded(f, n, level, low, high)
             Done(k) == {n \in slots : n \in S \ {0, 1} => k <= level[n]}
             Right(f, k) == \A n \in Done(k) : f[n] = U(f, n)
             P(k) == \E f : f = [n \in slots |-> f[n]] /\ Right(f, k)
             T == {j \in 0..VarNum : ~P(VarNum - j)}
  <1>1. VarNum \in Nat
    OBVIOUS
  <1>2. P(VarNum)
    <2> DEFINE f == [n \in slots |-> IF n = 1 THEN Assignments ELSE {}]
    <2>1. ASSUME NEW n \in slots, n \in S \ {0, 1} => VarNum <= level[n]
          PROVE  f[n] = U(f, n)
      <3>1. n \notin S \ {0, 1}
        BY <2>1 DEF Diagrams
      <3>2. QED
        BY <3>1 DEF Unfolded, Diagrams
    <2>2. f = [n \in slots |-> f[n]]
      OBVIOUS
    <2> HIDE DEF f, U
    <2>3. QED
      BY <2>1, <2>2
  <1>3. ASSUME NEW k \in 1..VarNum, P(k) PROVE P(k - 1)
    <2>1. PICK f : f = [n \in slots |-> f[n]] /\ Right(f, k)
      BY <1>3
    <2> DEFINE g == [n \in slots |-> IF n \in Done(k - 1) THEN U(f, n) ELSE f[n]]
    <2>2. g = [n \in slots |-> g[n]]
      OBVIOUS
    <2>3. ASSUME NEW n \in Done(k - 1) PROVE g[n] = U(g, n)
      <3>1. g[n] = U(f, n)
        BY <2>3
      <3>2. CASE n \in S \ {0, 1}
        <4>1. /\ low[n] \in S /\ high[n] \in S
              /\ level[n] < level[low[n]] /\ level[n] < level[high[n]]
              /\ level[n] \in Nat /\ level[low[n]] \in Nat /\ level[high[n]] \in Nat
          BY <3>2 DEF Diagrams
        <4>2. k - 1 <= level[n]
          BY <2>3, <3>2
        <4>3. ASSUME NEW c \in {low[n], high[n]} PROVE g[c] = f[c]
          <5>1. k <= level[c] /\ c \in slots /\ k - 1 <= level[c]
            BY <4>1, <4>2
          <5>2. c \in Done(k) /\ c \in Done(k - 1)
            BY <5>1
          <5>3. g[c] = U(f, c)
            BY <5>2
          <5>4. f[c] = U(f, c)
            BY <2>1, <5>2
          <5>5. QED
            BY <5>3, <5>4
        <4> HIDE DEF g
        <4>4. U(g, n) = U(f, n)
          BY <4>3 DEF Unfolded
        <4>5. QED
          BY <3>1, <4>4
      <3>3. CASE n \notin S \ {0, 1}
        <4>1. n = 0 \/ n = 1 \/ low[n] = -1
          BY <2>3, <3>3
        <4> HIDE DEF g
        <4>2. U(g, n) = U(f, n)
          BY <4>1 DEF Unfolded
        <4>3. QED
          BY <3>1, <4>2
      <3>4. QED
        BY <3>2, <3>3
    <2> HIDE DEF g, U, Done
    <2>4. QED
      BY <2>2, <2>3
  <1> HIDE DEF P
  <1>4. T = {}
    <2>1. SUFFICES ASSUME T # {} PROVE FALSE
      OBVIOUS
    <2>2. PICK j \in T : \A i \in T : j <= i
      <3>1. T \in SUBSET Nat
        BY <1>1
      <3> HIDE DEF T
      <3>2. QED
        BY <2>1, <3>1, LeastNatural
    <2>3. j \in 0..VarNum /\ ~P(VarNum - j)
      BY <2>2
    <2>4. j # 0
      BY <1>1, <1>2, <2>3
    <2>5. j - 1 \in 0..VarNum /\ j - 1 \notin T
      BY <1>1, <2>2, <2>3, <2>4
    <2>6. P(VarNum - (j - 1)) /\ VarNum - (j - 1) \in 1..VarNum
      BY <1>1, <2>3, <2>4, <2>5
    <2>7. (VarNum - (j - 1)) - 1 = VarNum - j
      BY <1>1, <2>3
    <2>8. P(VarNum - j)
      BY <1>3, <2>6, <2>7
    <2>9. QED
      BY <2>3, <2>8
  <1>5. P(0)
    <2>1. VarNum \in 0..VarNum /\ VarNum - VarNum = 0
      BY <1>1
    <2>2. QED
      BY <1>4, <2>1
  <1>6. PICK f : f = [n \in slots |-> f[n]] /\ Right(f, 0)
    BY <1>5 DEF P
  <1>7. Done(0) = slots
    BY DEF Diagrams
  <1>8. \A n \in slots : f[n] = U(f, n)
    BY <1>6, <1>7
  <1>9. f = [n \in slots |-> U(f, n)]
    <2> HIDE DEF U
    <2>1. QED
      BY <1>6, <1>8
  <1>10. QED
    BY <1>9 DEF IsMeaning

\* Two tables that agree on some nodes, and on all below these, give them the
\* same meaning.
LEMMA MeaningAgrees ==
  ASSUME NEW S, NEW f, NEW slots, NEW level, NEW low, NEW high,
         NEW g, NEW slots2, NEW level2, NEW low2, NEW high2,
         IsMeaning(f, slots, level, low, high), IsMeaning(g, slots2, level2, low2, high2),
         S \subseteq slots, S \subseteq slots2, Diagrams(S, level, low, high),
         \A n \in S : level2[n] = level[n] /\ low2[n] = low[n] /\ high2[n] = high[n]
  PROVE  \A n \in S : f[n] = g[n]
  <1> USE SizeAssumption
  <1> DEFINE T == {VarNum - level[n] : n \in {m \in S : f[m] # g[m]}}
  <1>1. \A n \in S : level[n] \in 0..VarNum
    BY DEF Diagrams
  <1>2. /\ \A n \in S : f[n] = Unfolded(f, n, level, low, high)
        /\ \A n \in S : g[n] = Unfolded(g, n, level2, low2, high2)
    BY DEF IsMeaning
  <1>3. T = {}
    <2>1. SUFFICES ASSUME T # {} PROVE FALSE
      OBVIOUS
    <2>2. T \in SUBSET Nat
      BY <1>1
    <2>3. PICK j \in T : \A i \in T : j <= i
      <3> HIDE DEF T
      <3>1. QED
        BY <2>1, <2>2, LeastNatural
    <2>4. PICK n \in S : f[n] # g[n] /\ j = VarNum - level[n]
      BY <2>3
    <2>5. CASE n \in {0, 1}
      BY <1>2, <2>4, <2>5 DEF Unfolded
    <2>6. CASE n \notin {0, 1}
      <3>1. /\ low[n] \in S /\ high[n] \in S
            /\ level[n] < level[low[n]] /\ level[n] < level[high[n]]
        BY <2>6 DEF Diagrams
      <3>2. ASSUME NEW c \in S, level[n] < level[c] PROVE f[c] = g[c]
        <4>1. SUFFICES ASSUME f[c] # g[c] PROVE FALSE
          OBVIOUS
        <4>2. VarNum - level[c] \in T
          BY <4>1
        <4>3. j <= VarNum - level[c]
          BY <2>3, <4>2
        <4>4. QED
          BY <1>1, <2>4, <3>2, <4>3
      <3>3. f[low[n]] = g[low[n]] /\ f[high[n]] = g[high[n]]
        BY <3>1, <3>2
      <3>4. Unfolded(f, n, level, low, high) = Unfolded(g, n, level2, low2, high2)
        BY <3>3 DEF Unfolded
      <3>5. QED
        BY <1>2, <2>4, <3>4
    <2>7. QED
      BY <2>5, <2>6
  <1>4. QED
    BY <1>3

\* A function of each node in S: those of the constants, and of a node what
\* its level chooses between those of its children.
Shannon(f, S, level, low, high) ==
  /\ {0, 1} \subseteq S /\ level[0] = VarNum /\ level[1] = VarNum
  /\ f[0] = {} /\ f[1] = Assignments
  /\ \A n \in S : f[n] \subseteq Assignments
  /\ \A n \in S \ {0, 1} : \A s \in Assignments :
       s \in f[n] <=> IF level[n] \in s THEN s \in f[high[n]] ELSE s \in f[low[n]]

LEMMA NodeMeaning ==
  ASSUME NEW slots, NEW S \in SUBSET slots, NEW f, NEW level, NEW low, NEW high,
         IsMeaning(f, slots, level, low, high), Diagrams(S, level, low, high)
  PROVE  Shannon(f, S, level, low, high)
  <1>1. \A n \in S : f[n] = Unfolded(f, n, level, low, high)
    BY DEF IsMeaning
  <1>2. /\ {0, 1} \subseteq S /\ level[0] = VarNum /\ level[1] = VarNum
        /\ low[1] # -1 /\ \A n \in S : low[n] # -1
    BY DEF Diagrams
  <1>3. f[0] = {}
    <2>1. f[0] = Unfolded(f, 0, level, low, high)
      BY <1>1, <1>2
    <2>2. QED
      BY <2>1 DEF Unfolded
  <1>4. f[1] = Assignments
    <2>1. f[1] = Unfolded(f, 1, level, low, high)
      BY <1>1, <1>2
    <2>2. QED
      BY <1>2, <2>1 DEF Unfolded
  <1>5. \A n \in S : f[n] \subseteq Assignments
    BY <1>1 DEF Unfolded
  <1>6. ASSUME NEW n \in S \ {0, 1}, NEW s \in Assignments
        PROVE  s \in f[n] <=> IF level[n] \in s THEN s \in f[high[n]] ELSE s \in f[low[n]]
    <2>1. f[n] = {t \in Assignments : t \in f[IF level[n] \in t THEN high[n] ELSE low[n]]}
      BY <1>1, <1>2 DEF Unfolded
    <2>2. QED
      BY <2>1
  <1>7. QED
    BY <1>2, <1>3, <1>4, <1>5, <1>6 DEF Shannon

\* The cofactor of a node, at a level that is not below it.
Part(n, depth, child, level) == IF level[n] = depth THEN child[n] ELSE n

LEMMA CofactorMeaning ==
  ASSUME NEW S, NEW f, NEW level, NEW low, NEW high, Shannon(f, S, level, low, high),
         NEW n \in S, NEW depth \in 0..(VarNum - 1), NEW s \in Assignments
  PROVE  s \in f[n] <=> IF depth \in s THEN s \in f[Part(n, depth, high, level)]
                                       ELSE s \in f[Part(n, depth, low, level)]
  <1>1. CASE level[n] = depth
    <2>1. n \in S \ {0, 1}
      BY <1>1, SizeAssumption DEF Shannon
    <2>2. s \in f[n] <=> IF level[n] \in s THEN s \in f[high[n]] ELSE s \in f[low[n]]
      BY <2>1 DEF Shannon
    <2>3. QED
      BY <1>1, <2>2 DEF Part
  <1>2. CASE level[n] # depth
    BY <1>2 DEF Part
  <1>3. QED
    BY <1>1, <1>2

\* What an operator does to two functions, at one assignment.
LEMMA OperatorAt ==
  ASSUME NEW op, NEW A, NEW B, NEW s
  PROVE  s \in OperatorMeaning(op, A, B) <=>
           /\ s \in Assignments
           /\ OperatorValue(op, IF s \in A THEN 1 ELSE 0, IF s \in B THEN 1 ELSE 0) = 1
  BY DEF OperatorMeaning

\* n is the result for the cofactors of the operands of a call.
Computes(op, f, frame, child, level, n) ==
  f[n] = OperatorMeaning(op, f[Part(frame.l, Depth(frame, level), child, level)],
                             f[Part(frame.r, Depth(frame, level), child, level)])

\* n is the node bdd_makenode gives for the children a and b.
MadeFrom(n, depth, a, b, level, low, high) ==
  \/ n = a /\ n = b
  \/ n \notin {0, 1} /\ level[n] = depth /\ low[n] = a /\ high[n] = b

\* The node of the results for the cofactors is the result for the operands.
LEMMA BuildMeaning ==
  ASSUME NEW S, NEW f, NEW level, NEW low, NEW high, Shannon(f, S, level, low, high),
         NEW op, NEW frame, frame.l \in S, frame.r \in S,
         Depth(frame, level) \in 0..(VarNum - 1),
         NEW a, NEW b, Computes(op, f, frame, low, level, a), Computes(op, f, frame, high, level, b),
         NEW n \in S,
         MadeFrom(n, Depth(frame, level), a, b, level, low, high)
  PROVE  f[n] = OperatorMeaning(op, f[frame.l], f[frame.r])
  <1> DEFINE depth == Depth(frame, level)
             l0 == Part(frame.l, depth, low, level)  l1 == Part(frame.l, depth, high, level)
             r0 == Part(frame.r, depth, low, level)  r1 == Part(frame.r, depth, high, level)
  <1>1. f[a] = OperatorMeaning(op, f[l0], f[r0]) /\ f[b] = OperatorMeaning(op, f[l1], f[r1])
    BY DEF Computes
  <1>2. ASSUME NEW s \in Assignments
        PROVE  s \in f[n] <=> IF depth \in s THEN s \in f[b] ELSE s \in f[a]
    <2>1. CASE n = a /\ n = b
      BY <2>1
    <2>2. CASE n \notin {0, 1} /\ level[n] = depth /\ low[n] = a /\ high[n] = b
      <3>1. s \in f[n] <=> IF level[n] \in s THEN s \in f[high[n]] ELSE s \in f[low[n]]
        BY <2>2 DEF Shannon
      <3>2. QED
        BY <2>2, <3>1
    <2>3. QED
      BY <2>1, <2>2 DEF MadeFrom
  <1>3. ASSUME NEW s \in Assignments
        PROVE  /\ s \in f[frame.l] <=> IF depth \in s THEN s \in f[l1] ELSE s \in f[l0]
               /\ s \in f[frame.r] <=> IF depth \in s THEN s \in f[r1] ELSE s \in f[r0]
    BY CofactorMeaning
  <1>4. f[n] \subseteq Assignments
    BY DEF Shannon
  <1> HIDE DEF depth, l0, l1, r0, r1
  <1>5. ASSUME NEW s \in Assignments
        PROVE  s \in f[n] <=> s \in OperatorMeaning(op, f[frame.l], f[frame.r])
    <2>1. CASE depth \in s
      <3>1. s \in f[n] <=> s \in OperatorMeaning(op, f[l1], f[r1])
        BY <1>1, <1>2, <2>1
      <3>2. (s \in f[frame.l] <=> s \in f[l1]) /\ (s \in f[frame.r] <=> s \in f[r1])
        BY <1>3, <2>1
      <3>3. QED
        BY <3>1, <3>2, OperatorAt
    <2>2. CASE depth \notin s
      <3>1. s \in f[n] <=> s \in OperatorMeaning(op, f[l0], f[r0])
        BY <1>1, <1>2, <2>2
      <3>2. (s \in f[frame.l] <=> s \in f[l0]) /\ (s \in f[frame.r] <=> s \in f[r0])
        BY <1>3, <2>2
      <3>3. QED
        BY <3>1, <3>2, OperatorAt
    <2>3. QED
      BY <2>1, <2>2
  <1>6. OperatorMeaning(op, f[frame.l], f[frame.r]) \subseteq Assignments
    BY DEF OperatorMeaning
  <1>7. QED
    BY <1>4, <1>5, <1>6

\* The results that need no recursion are right: the shortcuts of apply_rec
\* follow from the operator tables.
LEMMA ImmediateMeaning ==
  ASSUME NEW op \in Operators, NEW l \in Nat, NEW r \in Nat, NEW n \in Immediate(op, l, r),
         NEW f, f[0] = {}, f[1] = Assignments,
         f[l] \subseteq Assignments, f[r] \subseteq Assignments
  PROVE  f[n] = OperatorMeaning(op, f[l], f[r])
  <1>1. f[n] \subseteq Assignments
    BY ImmediateValue
  <1>2. OperatorMeaning(op, f[l], f[r]) \subseteq Assignments
    BY DEF OperatorMeaning
  <1>3. ASSUME NEW s \in Assignments
        PROVE  s \in f[n] <=> OperatorValue(op, IF s \in f[l] THEN 1 ELSE 0,
                                                IF s \in f[r] THEN 1 ELSE 0) = 1
    <2>1. CASE n \in Shortcuts(op, l, r)
      <3>1. CASE op = "and"
        BY <2>1, <3>1 DEF Shortcuts, OperatorValue, oprres
      <3>2. CASE op = "or"
        BY <2>1, <3>2 DEF Shortcuts, OperatorValue, oprres
      <3>3. CASE op = "xor"
        BY <2>1, <3>3 DEF Shortcuts, OperatorValue, oprres
      <3>4. CASE op = "nand"
        BY <2>1, <3>4 DEF Shortcuts, OperatorValue, oprres
      <3>5. CASE op = "nor"
        BY <2>1, <3>5 DEF Shortcuts, OperatorValue, oprres
      <3>6. CASE op = "imp"
        BY <2>1, <3>6 DEF Shortcuts, OperatorValue, oprres
      <3>7. CASE op \notin {"and", "or", "xor", "nand", "nor", "imp"}
        BY <2>1, <3>7 DEF Shortcuts
      <3>8. QED
        BY <3>1, <3>2, <3>3, <3>4, <3>5, <3>6, <3>7
    <2>2. CASE n \notin Shortcuts(op, l, r)
      <3>1. l \in {0, 1} /\ r \in {0, 1} /\ n = OperatorValue(op, l, r)
        BY <2>2 DEF Immediate
      <3>2. n \in {0, 1}
        BY <3>1 DEF OperatorValue
      <3>3. (s \in f[n] <=> n = 1) /\ (IF s \in f[l] THEN 1 ELSE 0) = l
            /\ (IF s \in f[r] THEN 1 ELSE 0) = r
        BY <3>1, <3>2
      <3>4. QED
        BY <3>1, <3>3
    <2>3. QED
      BY <2>1, <2>2
  <1>4. \A s \in Assignments : s \in f[n] <=> s \in OperatorMeaning(op, f[l], f[r])
    BY <1>3, OperatorAt
  <1>5. QED
    BY <1>1, <1>2, <1>4

----------------------------------------------------------------------------
\* The inductive invariant.

\* The operands of the recursive call that a frame makes next, or waits for.
Parts(frame, child, level) ==
  <<Part(frame.l, Depth(frame, level), child, level),
    Part(frame.r, Depth(frame, level), child, level)>>
NextParts(frame, level, low, high) ==
  Parts(frame, IF frame.step = "low" THEN low ELSE high, level)

\* The operands of the innermost call of all, in the operation c.
Asked(c, fs, level, low, high) ==
  IF fs = <<>> THEN <<c.l, c.r>> ELSE NextParts(fs[Len(fs)], level, low, high)

\* Every call has the operands its caller gave it.
Linked(c, fs, level, low, high) ==
  /\ fs # <<>> => fs[1].l = c.l /\ fs[1].r = c.r
  /\ \A i \in 1..(Len(fs) - 1) :
       <<fs[i + 1].l, fs[i + 1].r>> = NextParts(fs[i], level, low, high)

\* The results on the reference stack are right.
Found(op, f, fs, refs, level, low, high) ==
  /\ \A i \in DOMAIN fs :
       fs[i].step # "low" => Computes(op, f, fs[i], low, level, refs[Pushed(fs, i)])
  /\ AtMake(fs) => Computes(op, f, fs[Len(fs)], high, level, refs[Len(refs)])

\* n is the result for two operands.
Answers(op, f, operands, n) == f[n] = OperatorMeaning(op, f[operands[1]], f[operands[2]])

\* All that the running operation has found is right, unless bdd_makenode
\* has failed.
RunOK ==
  /\ Linked(call, frames, LEVEL, LOW, HIGH)
  /\ calling # None => calling = Asked(call, frames, LEVEL, LOW, HIGH)
  /\ ~bdderrorcond =>
       /\ Found(call.op, Meaning, frames, bddrefstack, LEVEL, LOW, HIGH)
       /\ returned # NoNode =>
            Answers(call.op, Meaning, Asked(call, frames, LEVEL, LOW, HIGH), returned)

\* The part of CacheSound that AInv does not have: the entries are right.
EntriesRight(cache, f) ==
  \A i \in DOMAIN cache :
    cache[i] # NoEntry =>
      f[cache[i].res] = OperatorMeaning(cache[i].key[1], f[cache[i].key[2]], f[cache[i].key[3]])

MInv ==
  /\ AInv
  /\ call # None => RunOK
  /\ ~bdderrorcond => EntriesRight(applycache, Meaning)

----------------------------------------------------------------------------
\* The recursion.

\* A call goes on with its first recursive call.
LEMMA FoundPushed ==
  ASSUME NEW nodes, NEW fs \in Seq(Frame(nodes)), NEW refs, NEW new \in Frame(nodes),
         NEW c, NEW op, NEW f, NEW level, NEW low, NEW high,
         new.step = "low", ~AtMake(fs), <<new.l, new.r>> = Asked(c, fs, level, low, high),
         Linked(c, fs, level, low, high)
  PROVE  /\ Linked(c, Append(fs, new), level, low, high)
         /\ Asked(c, Append(fs, new), level, low, high) = Parts(new, low, level)
         /\ Found(op, f, fs, refs, level, low, high) =>
              Found(op, f, Append(fs, new), refs, level, low, high)
  <1> DEFINE gs == Append(fs, new)  k == Len(fs)
  <1>1. k \in Nat /\ DOMAIN fs = 1..k /\ (k > 0 => fs # <<>>)
    OBVIOUS
  <1>2. /\ Len(gs) = k + 1 /\ DOMAIN gs = 1..(k + 1) /\ gs # <<>>
        /\ gs[k + 1] = new /\ \A i \in 1..k : gs[i] = fs[i]
    OBVIOUS
  <1> HIDE DEF gs
  <1>3. Asked(c, gs, level, low, high) = Parts(new, low, level)
    BY <1>2 DEF Asked, NextParts
  <1>4. ASSUME NEW i \in 1..k
        PROVE  <<gs[i + 1].l, gs[i + 1].r>> = NextParts(gs[i], level, low, high)
    <2>1. CASE i = k
      <3>1. fs # <<>> /\ gs[i + 1] = new /\ gs[i] = fs[Len(fs)]
        BY <1>1, <1>2, <2>1
      <3>2. QED
        BY <3>1 DEF Asked
    <2>2. CASE i # k
      <3>1. i \in 1..(k - 1) /\ i + 1 \in 1..k
        <4>1. k \in Nat /\ i \in 1..k /\ i # k
          BY <1>1, <2>2
        <4> HIDE DEF k
        <4>2. QED
          BY <4>1
      <3>2. <<fs[i + 1].l, fs[i + 1].r>> = NextParts(fs[i], level, low, high)
        BY <3>1 DEF Linked
      <3>3. QED
        BY <1>2, <3>1, <3>2
    <2>3. QED
      BY <2>1, <2>2
  <1>5. gs[1].l = c.l /\ gs[1].r = c.r
    <2>1. CASE fs = <<>>
      <3>1. gs[1] = new
        BY <1>2, <2>1
      <3>2. QED
        BY <2>1, <3>1 DEF Asked
    <2>2. CASE fs # <<>>
      <3>1. gs[1] = fs[1]
        BY <1>1, <1>2, <2>2
      <3>2. QED
        BY <2>2, <3>1 DEF Linked
    <2>3. QED
      BY <2>1, <2>2
  <1>6. Linked(c, gs, level, low, high)
    <2>1. Len(gs) - 1 = k
      BY <1>1, <1>2
    <2>2. QED
      BY <1>4, <1>5, <2>1 DEF Linked
  <1>7. ASSUME Found(op, f, fs, refs, level, low, high)
        PROVE  Found(op, f, gs, refs, level, low, high)
    <2>1. ASSUME NEW i \in 1..k PROVE Pushed(gs, i) = Pushed(fs, i)
      <3>1. \A j \in 1..i : gs[j].step = fs[j].step
        BY <1>1, <1>2
      <3>2. QED
        BY <3>1, PushedSame
    <2>2. ~AtMake(gs)
      BY <1>2 DEF AtMake
    <2>3. ASSUME NEW i \in DOMAIN gs, gs[i].step # "low"
          PROVE  Computes(op, f, gs[i], low, level, refs[Pushed(gs, i)])
      <3>1. i \in 1..k
        BY <1>1, <1>2, <2>3
      <3>2. QED
        BY <1>1, <1>2, <1>7, <2>1, <2>3, <3>1 DEF Found
    <2>4. QED
      BY <2>2, <2>3 DEF Found
  <1>8. QED
    BY <1>3, <1>6, <1>7 DEF gs

\* The innermost call goes on to its next step.
GoesOn(fs, gs, step, nodes) ==
  /\ gs \in Seq(Frame(nodes)) /\ Len(gs) = Len(fs)
  /\ \A i \in 1..(Len(fs) - 1) : gs[i] = fs[i]
  /\ gs[Len(fs)] = [fs[Len(fs)] EXCEPT !.step = step]

\* The innermost call pushes a result.
LEMMA FoundNext ==
  ASSUME NEW nodes, NEW fs \in Seq(Frame(nodes)), fs # <<>>, NEW S, NEW refs \in Seq(S), NEW n,
         NEW c, NEW op, NEW f, NEW level, NEW low, NEW high, ResultsOf(fs, refs, level),
         NEW step, \/ fs[Len(fs)].step = "low" /\ step = "high"
                   \/ fs[Len(fs)].step = "high" /\ step = "make",
         NEW gs, GoesOn(fs, gs, step, nodes),
         Linked(c, fs, level, low, high)
  PROVE  /\ Linked(c, gs, level, low, high)
         /\ step = "high" => Asked(c, gs, level, low, high) = Parts(fs[Len(fs)], high, level)
         /\ Found(op, f, fs, refs, level, low, high)
              /\ Answers(op, f, Asked(c, fs, level, low, high), n) =>
              Found(op, f, gs, Append(refs, n), level, low, high)
  <1> DEFINE k == Len(fs)
             new == Append(refs, n)
  <1>1. k \in Nat \ {0} /\ DOMAIN fs = 1..k /\ k \in 1..k /\ fs[k] \in Frame(nodes)
    OBVIOUS
  <1>0. /\ gs \in Seq(Frame(nodes)) /\ Len(gs) = Len(fs)
        /\ \A i \in 1..(Len(fs) - 1) : gs[i] = fs[i]
        /\ gs[Len(fs)] = [fs[Len(fs)] EXCEPT !.step = step]
    BY DEF GoesOn
  <1> USE <1>0
  <1>2. DOMAIN gs = 1..k
    <2> DEFINE F == Frame(nodes)
    <2>1. gs \in Seq(F) /\ Len(gs) = k
      OBVIOUS
    <2> HIDE DEF F, k
    <2>2. QED
      BY <2>1
  <1>3. gs[k].l = fs[k].l /\ gs[k].r = fs[k].r /\ gs[k].step = step
    BY <1>1 DEF Frame
  <1>4. /\ \A i \in 1..(k - 1) : i \in 1..k /\ i # k
        /\ \A i \in 1..k : i = k \/ i \in 1..(k - 1)
    BY <1>1, PlacesBefore, Zenon
  <1>5. \A i \in 1..k : gs[i].l = fs[i].l /\ gs[i].r = fs[i].r
    BY <1>3, <1>4
  <1>6. Linked(c, gs, level, low, high)
    <2>1. gs # <<>> /\ gs[1].l = c.l /\ gs[1].r = c.r
      <3>1. 1 \in 1..k
        BY <1>1
      <3>2. QED
        BY <1>1, <1>2, <1>5, <3>1 DEF Linked
    <2>2. ASSUME NEW i \in 1..(k - 1)
          PROVE  <<gs[i + 1].l, gs[i + 1].r>> = NextParts(gs[i], level, low, high)
      <3>1. i \in 1..k /\ i + 1 \in 1..k /\ gs[i] = fs[i]
        BY <1>1
      <3>2. <<fs[i + 1].l, fs[i + 1].r>> = NextParts(fs[i], level, low, high)
        BY DEF Linked
      <3>3. QED
        BY <1>5, <3>1, <3>2
    <2>3. QED
      BY <2>1, <2>2 DEF Linked
  <1>7. \A child : Parts(gs[k], child, level) = Parts(fs[k], child, level)
    BY <1>3 DEF Parts, Depth
  <1>8. ASSUME step = "high"
        PROVE  Asked(c, gs, level, low, high) = Parts(fs[k], high, level)
    <2>1. gs # <<>> /\ Len(gs) = k /\ gs[k].step # "low"
      BY <1>1, <1>2, <1>3, <1>8
    <2>2. QED
      BY <1>7, <2>1 DEF Asked, NextParts
  <1>9. ASSUME Found(op, f, fs, refs, level, low, high),
               Answers(op, f, Asked(c, fs, level, low, high), n)
        PROVE  Found(op, f, gs, new, level, low, high)
    <2>1. ~AtMake(fs) /\ (AtMake(gs) <=> step = "make")
      BY <1>1, <1>2, <1>3 DEF AtMake
    <2>2. /\ Pushed(fs, k) = Len(refs) /\ Len(refs) \in Nat
          /\ \A i \in 1..k : Pushed(fs, i) \in Nat /\ Pushed(fs, i) <= Len(refs)
                             /\ (fs[i].step # "low" => Pushed(fs, i) > 0)
      BY <1>1, <2>1, PushedInRange
    <2>3. /\ Len(new) = Len(refs) + 1 /\ new[Len(refs) + 1] = n
          /\ \A j \in 1..Len(refs) : new[j] = refs[j]
      OBVIOUS
    <2> HIDE DEF new
    <2>4. \A i \in 0..(k - 1) : Pushed(gs, i) = Pushed(fs, i)
      <3>1. ASSUME NEW i \in 0..(k - 1) PROVE Pushed(gs, i) = Pushed(fs, i)
        <4>1. \A j \in 1..i : gs[j].step = fs[j].step
          <5>1. \A j \in 1..i : j \in 1..(k - 1)
            BY <1>1
          <5>2. QED
            BY <5>1
        <4>2. QED
          BY <4>1, PushedSame
      <3>2. QED
        BY <3>1
    <2>5. /\ Pushed(fs, k) = Pushed(fs, k - 1) + (IF fs[k].step = "low" THEN 0 ELSE 1)
          /\ Pushed(gs, k) = Pushed(fs, k - 1) + 1 /\ Pushed(fs, k - 1) \in Nat
      <3>1. Pushed(gs, k) = Pushed(gs, k - 1) + (IF gs[k].step = "low" THEN 0 ELSE 1)
        <4>1. k \in Nat /\ k > 0
          BY <1>1
        <4> HIDE DEF k
        <4>2. QED
          BY <4>1, PushedStep
      <3>2. /\ Pushed(fs, k) = Pushed(fs, k - 1) + (IF fs[k].step = "low" THEN 0 ELSE 1)
            /\ Pushed(fs, k - 1) \in Nat
        <4>1. k \in Nat /\ k > 0
          BY <1>1
        <4> HIDE DEF k
        <4>2. QED
          BY <4>1, PushedStep
      <3>3. gs[k].step # "low" /\ k - 1 \in 0..(k - 1)
        BY <1>1, <1>3
      <3>4. QED
        BY <2>4, <3>1, <3>2, <3>3
    <2>6. ASSUME NEW i \in 1..(k - 1), gs[i].step # "low"
          PROVE  Computes(op, f, gs[i], low, level, new[Pushed(gs, i)])
      <3>1. i \in 1..k /\ i \in 0..(k - 1) /\ fs[i].step # "low" /\ gs[i] = fs[i]
        BY <1>4, <2>6
      <3>2. Pushed(gs, i) = Pushed(fs, i) /\ Pushed(fs, i) \in 1..Len(refs)
        BY <2>2, <2>4, <3>1
      <3>3. Computes(op, f, fs[i], low, level, refs[Pushed(fs, i)])
        BY <1>1, <1>9, <3>1 DEF Found
      <3>4. QED
        BY <2>3, <3>1, <3>2, <3>3
    <2>7. \A child, m : Computes(op, f, gs[k], child, level, m)
                          <=> Computes(op, f, fs[k], child, level, m)
      BY <1>3 DEF Computes, Depth
    <2>8. CASE fs[k].step = "low" /\ step = "high"
      <3>1. Pushed(gs, k) = Len(refs) + 1
        BY <2>2, <2>5, <2>8
      <3>2. new[Pushed(gs, k)] = n
        BY <2>3, <3>1
      <3>3. Asked(c, fs, level, low, high) = Parts(fs[k], low, level)
        BY <2>8 DEF Asked, NextParts
      <3>4. Computes(op, f, gs[k], low, level, n)
        <4>1. Computes(op, f, fs[k], low, level, n)
          BY <1>9, <3>3 DEF Answers, Computes, Parts
        <4>2. QED
          BY <2>7, <4>1
      <3>5. QED
        BY <1>2, <1>4, <2>1, <2>6, <2>8, <3>2, <3>4 DEF Found
    <2>9. CASE fs[k].step = "high" /\ step = "make"
      <3>1. Pushed(gs, k) = Pushed(fs, k) /\ Pushed(fs, k) \in 1..Len(refs)
        BY <1>1, <2>2, <2>5, <2>9
      <3>2. Computes(op, f, fs[k], low, level, refs[Pushed(fs, k)])
        BY <1>1, <1>9, <2>9 DEF Found
      <3>3. Computes(op, f, gs[k], low, level, new[Pushed(gs, k)])
        BY <2>3, <2>7, <3>1, <3>2
      <3>4. Asked(c, fs, level, low, high) = Parts(fs[k], high, level)
        BY <2>9 DEF Asked, NextParts
      <3>5. Computes(op, f, gs[k], high, level, new[Len(new)])
        <4>1. Computes(op, f, fs[k], high, level, n)
          BY <1>9, <3>4 DEF Answers, Computes, Parts
        <4>2. QED
          BY <2>3, <2>7, <4>1
      <3>6. QED
        BY <1>2, <1>4, <2>1, <2>6, <2>9, <3>3, <3>5 DEF Found
    <2>10. QED
      BY <2>8, <2>9
  <1>10. QED
    BY <1>6, <1>8, <1>9

\* Two tables that agree on the nodes in N give the calls on them the same
\* cofactors, and the same results.
Agree(N, f, level, low, high, f2, level2, low2, high2) ==
  /\ \A n \in N : /\ f2[n] = f[n] /\ level2[n] = level[n]
                  /\ low2[n] = low[n] /\ high2[n] = high[n]
  /\ \A n \in N : level[n] < VarNum => low[n] \in N /\ high[n] \in N

LEMMA PartsAgree ==
  ASSUME NEW N, NEW f, NEW level, NEW low, NEW high, NEW f2, NEW level2, NEW low2, NEW high2,
         Agree(N, f, level, low, high, f2, level2, low2, high2),
         NEW frame, frame.l \in N, frame.r \in N, Depth(frame, level) < VarNum
  PROVE  /\ Depth(frame, level2) = Depth(frame, level)
         /\ Parts(frame, low2, level2) = Parts(frame, low, level)
         /\ Parts(frame, high2, level2) = Parts(frame, high, level)
         /\ NextParts(frame, level2, low2, high2) = NextParts(frame, level, low, high)
         /\ \A op : \A n \in N :
              /\ Computes(op, f2, frame, low2, level2, n) <=> Computes(op, f, frame, low, level, n)
              /\ Computes(op, f2, frame, high2, level2, n) <=> Computes(op, f, frame, high, level, n)
  <1> DEFINE depth == Depth(frame, level)
  <1>1. Depth(frame, level2) = depth
    BY DEF Depth, Agree
  <1>2. ASSUME NEW n \in {frame.l, frame.r}
        PROVE  /\ Part(n, depth, low2, level2) = Part(n, depth, low, level)
               /\ Part(n, depth, high2, level2) = Part(n, depth, high, level)
               /\ Part(n, depth, low, level) \in N /\ Part(n, depth, high, level) \in N
    BY DEF Part, Agree
  <1> HIDE DEF depth
  <1>3. /\ Parts(frame, low2, level2) = Parts(frame, low, level)
        /\ Parts(frame, high2, level2) = Parts(frame, high, level)
    BY <1>1, <1>2 DEF Parts, depth
  <1>4. NextParts(frame, level2, low2, high2) = NextParts(frame, level, low, high)
    BY <1>3 DEF NextParts
  <1>5. ASSUME NEW op, NEW n \in N
        PROVE  Computes(op, f2, frame, low2, level2, n) <=> Computes(op, f, frame, low, level, n)
    <2>1. f2[n] = f[n]
      BY DEF Agree
    <2>2. /\ f2[Part(frame.l, depth, low2, level2)] = f[Part(frame.l, depth, low, level)]
          /\ f2[Part(frame.r, depth, low2, level2)] = f[Part(frame.r, depth, low, level)]
      BY <1>2 DEF Agree
    <2>3. QED
      BY <1>1, <2>1, <2>2 DEF Computes, depth
  <1>6. ASSUME NEW op, NEW n \in N
        PROVE  Computes(op, f2, frame, high2, level2, n) <=> Computes(op, f, frame, high, level, n)
    <2>1. f2[n] = f[n]
      BY DEF Agree
    <2>2. /\ f2[Part(frame.l, depth, high2, level2)] = f[Part(frame.l, depth, high, level)]
          /\ f2[Part(frame.r, depth, high2, level2)] = f[Part(frame.r, depth, high, level)]
      BY <1>2 DEF Agree
    <2>3. QED
      BY <1>1, <2>1, <2>2 DEF Computes, depth
  <1>7. QED
    BY <1>1, <1>3, <1>4, <1>5, <1>6 DEF depth

\* When the innermost call returns, the others find their results where they
\* were.
Popped(fs, gs, refs, left, S) ==
  /\ Len(fs) \in Nat \ {0} /\ Len(refs) \in Nat /\ Len(refs) >= 2
  /\ Len(gs) = Len(fs) - 1 /\ DOMAIN gs = 1..(Len(fs) - 1)
  /\ \A i \in 1..(Len(fs) - 1) : gs[i] = fs[i] /\ i \in DOMAIN fs
  /\ Pushed(fs, Len(fs)) = Len(refs) - 1
  /\ \A i \in 1..(Len(fs) - 1) : fs[i].step # "low" =>
       /\ left[Pushed(gs, i)] = refs[Pushed(fs, i)]
       /\ refs[Pushed(fs, i)] \in S

LEMMA PlacesPopped ==
  ASSUME NEW nodes, NEW fs \in Seq(Frame(nodes)), AtMake(fs), NEW S, NEW refs \in Seq(S),
         NEW level, ResultsOf(fs, refs, level)
  PROVE  Popped(fs, SubSeq(fs, 1, Len(fs) - 1), refs, SubSeq(refs, 1, Len(refs) - 2), S)
  <1> DEFINE gs == SubSeq(fs, 1, Len(fs) - 1)
             left == SubSeq(refs, 1, Len(refs) - 2)
  <1> DEFINE k == Len(fs)
             d == Len(refs)
  <1>1. k \in Nat /\ k > 0 /\ DOMAIN fs = 1..k /\ d \in Nat /\ fs # <<>> /\ k \in 1..k
    BY DEF AtMake
  <1>2. /\ Len(gs) = k - 1 /\ \A i \in 1..(k - 1) : gs[i] = fs[i]
        /\ DOMAIN gs = 1..(k - 1)
    BY <1>1
  <1>3. fs[k].step = "make"
    BY DEF AtMake
  <1>4. Pushed(fs, k) = d - 1 /\ Pushed(fs, k) > 0
    BY <1>1, <1>3, PushedInRange
  <1>5. d >= 2
    BY <1>1, <1>4
  <1>6. /\ \A j \in 1..(d - 2) : left[j] = refs[j]
        /\ \A j \in 1..d : refs[j] \in S
    <2>1. \A j \in 1..d : refs[j] \in S
      OBVIOUS
    <2>2. d - 2 \in Nat /\ 1 \in Nat /\ d - 2 <= Len(refs)
      BY <1>1, <1>5
    <2>3. left = [j \in 1..(d - 2) |-> refs[j]]
      BY <2>2
    <2> HIDE DEF d
    <2>4. QED
      BY <2>1, <2>3
  <1>7. \A i \in 1..(k - 1) : i \in 1..k
    <2> HIDE DEF k
    <2>1. QED
      BY <1>1
  <1>8. Pushed(fs, k - 1) = d - 2
    <2>1. /\ Pushed(fs, k) = Pushed(fs, k - 1) + (IF fs[k].step = "low" THEN 0 ELSE 1)
          /\ Pushed(fs, k - 1) \in Nat
      BY <1>1, PushedStep
    <2>2. QED
      BY <1>1, <1>3, <1>4, <2>1
  <1>9. ASSUME NEW i \in 1..(k - 1), fs[i].step # "low"
        PROVE  left[Pushed(gs, i)] = refs[Pushed(fs, i)] /\ refs[Pushed(fs, i)] \in S
    <2>1. i \in 1..k /\ i \in Nat /\ i <= k - 1 /\ k - 1 \in Nat
      <3>1. i \in 1..k /\ k \in Nat /\ k > 0
        BY <1>1, <1>7
      <3> HIDE DEF k
      <3>2. QED
        BY <3>1
    <2>2. Pushed(fs, i) \in Nat /\ Pushed(fs, i) > 0
      BY <1>1, <1>9, <2>1, PushedInRange
    <2>3. Pushed(fs, i) <= d - 2
      BY <1>8, <2>1, PushedMonotonic
    <2>4. Pushed(gs, i) = Pushed(fs, i)
      <3>1. \A j \in 1..i : gs[j].step = fs[j].step
        <4>1. \A j \in 1..i : j \in 1..(k - 1)
          BY <2>1
        <4>2. QED
          BY <1>2, <4>1
      <3>2. QED
        BY <2>1, <3>1, PushedSame
    <2>5. Pushed(fs, i) \in 1..(d - 2) /\ Pushed(fs, i) \in 1..d
      BY <1>1, <2>2, <2>3
    <2>6. QED
      BY <1>6, <2>4, <2>5
  <1> HIDE DEF k, d, gs, left
  <1>10. \A i \in 1..(k - 1) : fs[i].step # "low" =>
           left[Pushed(gs, i)] = refs[Pushed(fs, i)] /\ refs[Pushed(fs, i)] \in S
    BY <1>9
  <1>11. k \in Nat \ {0} /\ d \in Nat /\ d >= 2 /\ Pushed(fs, k) = d - 1
    BY <1>1, <1>4, <1>5
  <1>12. \A i \in 1..(k - 1) : gs[i] = fs[i] /\ i \in DOMAIN fs
    BY <1>1, <1>2, <1>7
  <1>13. QED
    BY <1>2, <1>10, <1>11, <1>12 DEF k, d, gs, left, Popped

\* The innermost call returns: its caller asked for just that.
LEMMA FoundPopped ==
  ASSUME NEW nodes, NEW N, nodes \subseteq N, NEW fs \in Seq(Frame(nodes)), AtMake(fs),
         NEW refs \in Seq(N), NEW c, NEW op,
         NEW f, NEW level, NEW low, NEW high, NEW f2, NEW level2, NEW low2, NEW high2,
         Agree(N, f, level, low, high, f2, level2, low2, high2),
         Descending(fs, level), ResultsOf(fs, refs, level),
         \A i \in 1..(Len(fs) - 1) : fs[i].step # "make",
         Linked(c, fs, level, low, high)
  PROVE  /\ Linked(c, SubSeq(fs, 1, Len(fs) - 1), level2, low2, high2)
         /\ Asked(c, SubSeq(fs, 1, Len(fs) - 1), level2, low2, high2)
              = <<fs[Len(fs)].l, fs[Len(fs)].r>>
         /\ Found(op, f, fs, refs, level, low, high) =>
              Found(op, f2, SubSeq(fs, 1, Len(fs) - 1), SubSeq(refs, 1, Len(refs) - 2),
                    level2, low2, high2)
  <1> DEFINE k == Len(fs)
             gs == SubSeq(fs, 1, Len(fs) - 1)
             left == SubSeq(refs, 1, Len(refs) - 2)
  <1>1. /\ k \in Nat \ {0} /\ DOMAIN fs = 1..k
        /\ Len(gs) = k - 1 /\ DOMAIN gs = 1..(k - 1)
        /\ \A i \in 1..(k - 1) : gs[i] = fs[i] /\ i \in 1..k
        /\ \A i \in 1..(k - 1) : fs[i].step # "low" =>
             left[Pushed(gs, i)] = refs[Pushed(fs, i)] /\ refs[Pushed(fs, i)] \in N
    <2>1. /\ Len(fs) \in Nat \ {0} /\ Len(gs) = Len(fs) - 1 /\ DOMAIN gs = 1..(Len(fs) - 1)
          /\ \A i \in 1..(Len(fs) - 1) : gs[i] = fs[i] /\ i \in DOMAIN fs
          /\ \A i \in 1..(Len(fs) - 1) : fs[i].step # "low" =>
               left[Pushed(gs, i)] = refs[Pushed(fs, i)] /\ refs[Pushed(fs, i)] \in N
      <3>1. Popped(fs, gs, refs, left, N)
        BY PlacesPopped
      <3> HIDE DEF gs, left
      <3>2. QED
        BY <3>1 DEF Popped
    <2>2. DOMAIN fs = 1..k
      OBVIOUS
    <2>3. QED
      BY <2>1, <2>2
  <1>2. ASSUME NEW i \in 1..k PROVE fs[i].l \in N /\ fs[i].r \in N /\ Depth(fs[i], level) < VarNum
    <2>1. fs[i] \in Frame(nodes)
      OBVIOUS
    <2>2. QED
      BY <1>1, <2>1 DEF Frame, Descending
  <1>3. ASSUME NEW i \in 1..k
        PROVE  /\ NextParts(fs[i], level2, low2, high2) = NextParts(fs[i], level, low, high)
               /\ \A n \in N : Computes(op, f2, fs[i], low2, level2, n)
                                 <=> Computes(op, f, fs[i], low, level, n)
    <2>1. fs[i].l \in N /\ fs[i].r \in N /\ Depth(fs[i], level) < VarNum
      BY <1>2
    <2>2. Agree(N, f, level, low, high, f2, level2, low2, high2)
      OBVIOUS
    <2> DEFINE frame == fs[i]
    <2> HIDE DEF frame
    <2>3. frame.l \in N /\ frame.r \in N /\ Depth(frame, level) < VarNum
      BY <2>1 DEF frame
    <2>4. /\ NextParts(frame, level2, low2, high2) = NextParts(frame, level, low, high)
          /\ \A n \in N : Computes(op, f2, frame, low2, level2, n)
                            <=> Computes(op, f, frame, low, level, n)
      BY <2>2, <2>3, PartsAgree
    <2>5. QED
      BY <2>4 DEF frame
  <1> HIDE DEF k, gs, left
  <1>4. \A i \in 1..(k - 1) : <<fs[i + 1].l, fs[i + 1].r>> = NextParts(fs[i], level, low, high)
    BY DEF Linked, k
  <1>5. fs # <<>> /\ fs[1].l = c.l /\ fs[1].r = c.r
    BY DEF AtMake, Linked
  <1>6. Asked(c, gs, level2, low2, high2) = <<fs[k].l, fs[k].r>>
    <2>1. CASE k = 1
      <3>1. gs = <<>>
        BY <1>1, <2>1
      <3>2. QED
        BY <1>5, <2>1, <3>1 DEF Asked
    <2>2. CASE k # 1
      <3>1. k - 1 \in 1..(k - 1) /\ k - 1 \in 1..k /\ (k - 1) + 1 = k
        BY <1>1, <2>2
      <3>2. gs # <<>> /\ gs[Len(gs)] = fs[k - 1]
        <4>1. gs[k - 1] = fs[k - 1] /\ Len(gs) = k - 1
          BY <1>1, <3>1
        <4>2. DOMAIN gs # {}
          BY <1>1, <3>1
        <4>3. gs # <<>>
          BY <4>2
        <4>4. QED
          BY <4>1, <4>3
      <3>3. <<fs[k].l, fs[k].r>> = NextParts(fs[k - 1], level, low, high)
        BY <1>4, <3>1
      <3>4. QED
        BY <1>3, <3>1, <3>2, <3>3 DEF Asked
    <2>3. QED
      BY <2>1, <2>2
  <1>7. Linked(c, gs, level2, low2, high2)
    <2>1. gs # <<>> => gs[1].l = c.l /\ gs[1].r = c.r
      <3>1. ASSUME gs # <<>> PROVE gs[1] = fs[1]
        <4>1. k - 1 # 0
          BY <1>1, <3>1
        <4>2. 1 \in 1..(k - 1)
          BY <1>1, <4>1
        <4>3. QED
          BY <1>1, <4>2
      <3>2. QED
        BY <1>5, <3>1
    <2>2. ASSUME NEW i \in 1..(Len(gs) - 1)
          PROVE  <<gs[i + 1].l, gs[i + 1].r>> = NextParts(gs[i], level2, low2, high2)
      <3>1. i \in 1..(k - 1) /\ i + 1 \in 1..(k - 1)
        BY <1>1
      <3>2. <<fs[i + 1].l, fs[i + 1].r>> = NextParts(fs[i], level, low, high)
        BY <1>4, <3>1
      <3>3. QED
        BY <1>1, <1>3, <3>1, <3>2
    <2>3. QED
      BY <2>1, <2>2 DEF Linked
  <1>8. ASSUME Found(op, f, fs, refs, level, low, high)
        PROVE  Found(op, f2, gs, left, level2, low2, high2)
    <2>1. ~AtMake(gs)
      <3>1. ASSUME gs # <<>> PROVE Len(gs) \in 1..(k - 1) /\ Len(gs) = k - 1
        <4>1. k - 1 # 0
          BY <1>1, <3>1
        <4>2. QED
          BY <1>1, <4>1
      <3>2. \A i \in 1..(k - 1) : gs[i].step # "make"
        BY <1>1 DEF k
      <3>3. QED
        BY <3>1, <3>2 DEF AtMake
    <2>2. ASSUME NEW i \in DOMAIN gs, gs[i].step # "low"
          PROVE  Computes(op, f2, gs[i], low2, level2, left[Pushed(gs, i)])
      <3>1. i \in 1..(k - 1) /\ i \in 1..k /\ gs[i] = fs[i] /\ fs[i].step # "low"
        BY <1>1, <2>2
      <3>2. Computes(op, f, fs[i], low, level, refs[Pushed(fs, i)])
        BY <1>1, <1>8, <3>1 DEF Found
      <3>3. QED
        BY <1>1, <1>3, <3>1, <3>2
    <2>3. QED
      BY <2>1, <2>2 DEF Found
  <1>9. QED
    BY <1>6, <1>7, <1>8 DEF k, gs, left


----------------------------------------------------------------------------
\* The meaning of the table.

\* A part of the table that has the children of its nodes is a diagram.
LEMMA PartDiagrams ==
  ASSUME IInv, NEW S \in SUBSET Live, {0, 1} \subseteq S, \A n \in S : Children(n) \subseteq S
  PROVE  Diagrams(S, LEVEL, LOW, HIGH)
  <1>1. \A n \in S : LEVEL[n] \in 0..VarNum /\ LOW[n] # -1
    BY Levels DEF Live
  <1>2. ASSUME NEW n \in S \ {0, 1}
        PROVE  /\ LOW[n] \in S /\ HIGH[n] \in S
               /\ LEVEL[n] < LEVEL[LOW[n]] /\ LEVEL[n] < LEVEL[HIGH[n]]
    <2>1. n \in Live /\ n \in Nat /\ n # 0 /\ n # 1
      BY Levels
    <2>2. n >= 2 /\ LOW[n] # -1
      BY <2>1 DEF Live
    <2>3. LOW[n] \in S /\ HIGH[n] \in S
      <3>1. Children(n) = {LOW[n], HIGH[n]}
        BY <2>1, <2>2 DEF Children
      <3>2. QED
        BY <3>1
    <2>4. QED
      BY <2>1, <2>3 DEF IInv, ReducedOrdered
  <1>3. LEVEL[0] = VarNum /\ LEVEL[1] = VarNum
    BY Levels
  <1>4. QED
    BY <1>1, <1>2, <1>3 DEF Diagrams

LEMMA LiveDiagrams == IInv => Diagrams(Live, LEVEL, LOW, HIGH)
  <1> SUFFICES ASSUME IInv PROVE Diagrams(Live, LEVEL, LOW, HIGH)
    OBVIOUS
  <1>1. {0, 1} \subseteq Live
    BY Levels
  <1>2. ASSUME NEW n \in Live PROVE Children(n) \subseteq Live
    BY Levels DEF IInv, ReducedOrdered, Children
  <1>3. QED
    BY <1>1, <1>2, PartDiagrams

\* What no collection takes is one too.
LEMMA SurvivorsDiagrams ==
  ASSUME IInv
  PROVE  /\ Diagrams(Survivors, LEVEL, LOW, HIGH) /\ Survivors \subseteq Live
         /\ \A n \in Survivors : LEVEL[n] < VarNum => LOW[n] \in Survivors /\ HIGH[n] \in Survivors
  <1>1. Survivors \subseteq Live /\ \A n \in Survivors : Children(n) \subseteq Survivors
    BY ProtectedSurvive
  <1>2. {0, 1} \subseteq Survivors
    BY DEF Survivors
  <1>3. ASSUME NEW n \in Survivors, LEVEL[n] < VarNum
        PROVE  LOW[n] \in Survivors /\ HIGH[n] \in Survivors
    <2>1. n \in Live
      BY <1>1
    <2>2. n >= 2 /\ LOW[n] # -1
      BY <1>3, <2>1, Levels DEF Live
    <2>3. n \in Nat
      BY <2>1, Levels
    <2>4. QED
      BY <1>1, <2>2, <2>3 DEF Children
  <1>4. QED
    BY <1>1, <1>2, <1>3, PartDiagrams

\* Meaning exists.
LEMMA MeaningRight == IInv => IsMeaning(Meaning, Slot, LEVEL, LOW, HIGH)
  <1> SUFFICES ASSUME IInv PROVE IsMeaning(Meaning, Slot, LEVEL, LOW, HIGH)
    OBVIOUS
  <1>1. Live \in SUBSET Slot /\ \A n \in Slot \ Live : LOW[n] = -1
    BY DEF Live
  <1>2. \E f : IsMeaning(f, Slot, LEVEL, LOW, HIGH)
    BY <1>1, LiveDiagrams, MeaningExists
  <1>3. Meaning = CHOOSE f : IsMeaning(f, Slot, LEVEL, LOW, HIGH)
    BY DEF Meaning, IsMeaning, Unfolded
  <1>4. QED
    BY <1>2, <1>3

\* The functions of the nodes, and their cofactors.
LEMMA MeaningShannon == IInv => Shannon(Meaning, Live, LEVEL, LOW, HIGH)
  <1> SUFFICES ASSUME IInv PROVE Shannon(Meaning, Live, LEVEL, LOW, HIGH)
    OBVIOUS
  <1>1. Live \in SUBSET Slot
    BY DEF Live
  <1>2. QED
    BY <1>1, LiveDiagrams, MeaningRight, NodeMeaning

\* A step that leaves some nodes, and all below them, leaves their meaning.
LEMMA MeaningKept ==
  ASSUME IInv, IInv', NEW S \in SUBSET Live, S \subseteq Live',
         Diagrams(S, LEVEL, LOW, HIGH), \A n \in S : SameNode(n)
  PROVE  \A n \in S : Meaning'[n] = Meaning[n]
  <1>1. IsMeaning(Meaning, Slot, LEVEL, LOW, HIGH)
    BY MeaningRight
  <1>2. IsMeaning(Meaning, Slot, LEVEL, LOW, HIGH)'
    BY MeaningRight, PTL
  <1> DEFINE g == Meaning'  slots2 == Slot'  level2 == LEVEL'  low2 == LOW'  high2 == HIGH'
  <1>3. IsMeaning(g, slots2, level2, low2, high2)
    BY <1>2
  <1>4. S \subseteq Slot /\ S \subseteq slots2
    BY DEF Live
  <1>5. \A n \in S : level2[n] = LEVEL[n] /\ low2[n] = LOW[n] /\ high2[n] = HIGH[n]
    BY DEF SameNode
  <1> HIDE DEF g, slots2, level2, low2, high2
  <1>6. \A n \in S : Meaning[n] = g[n]
    BY <1>1, <1>3, <1>4, <1>5, MeaningAgrees
  <1>7. QED
    BY <1>6 DEF g

LEMMA SameMeaning == ASSUME UNCHANGED table PROVE Meaning' = Meaning
  BY DEF table, Meaning, Slot

\* The cofactors of the operands of a call.
LEMMA CofactorsParts ==
  ASSUME NEW frame, NEW child
  PROVE  /\ Cofactors(frame.l, frame.r, child) = Parts(frame, child, LEVEL)
         /\ TopLevel(frame.l, frame.r) = Depth(frame, LEVEL)
  BY DEF Cofactors, Cofactor, Parts, Part, Depth, TopLevel

----------------------------------------------------------------------------
\* The entries of the cache.

LEMMA EntriesKept ==
  ASSUME NEW cache, NEW nodes, NEW level, GoodCache(cache, nodes, level),
         NEW f, EntriesRight(cache, f), NEW g, \A n \in nodes : g[n] = f[n]
  PROVE  EntriesRight(cache, g)
  <1>1. ASSUME NEW i \in DOMAIN cache, cache[i] # NoEntry
        PROVE  g[cache[i].res] = OperatorMeaning(cache[i].key[1], g[cache[i].key[2]],
                                                 g[cache[i].key[3]])
    <2>1. cache[i] \in [key : Operators \X nodes \X nodes, res : nodes]
      BY <1>1 DEF GoodCache
    <2>2. cache[i].res \in nodes /\ cache[i].key[2] \in nodes /\ cache[i].key[3] \in nodes
      BY <2>1
    <2>3. QED
      BY <1>1, <2>2 DEF EntriesRight
  <1>2. QED
    BY <1>1 DEF EntriesRight

LEMMA EmptyRight == ASSUME NEW size, NEW f PROVE EntriesRight(EmptyCache(size), f)
  BY DEF EntriesRight, EmptyCache

LEMMA StoredRight ==
  ASSUME NEW cache, NEW nodes, NEW level, GoodCache(cache, nodes, level), NEW hash \in Nat,
         NEW f, EntriesRight(cache, f), NEW op, NEW l, NEW r, NEW res,
         f[res] = OperatorMeaning(op, f[l], f[r])
  PROVE  EntriesRight(Stored(cache, hash, Key(op, l, r), res), f)
  <1> DEFINE e == [key |-> Key(op, l, r), res |-> res]
             new == Stored(cache, hash, Key(op, l, r), res)
             i == SlotOf(cache, hash)
  <1>1. i \in DOMAIN cache
    BY SlotInRange
  <1>2. new = [cache EXCEPT ![i] = e] /\ DOMAIN new = DOMAIN cache
    BY DEF Stored
  <1>3. e.res = res /\ e.key[1] = op /\ e.key[2] = l /\ e.key[3] = r
    BY DEF Key
  <1> HIDE DEF new, e, i
  <1>4. new[i] = e /\ \A j \in DOMAIN cache : j # i => new[j] = cache[j]
    BY <1>1, <1>2 DEF GoodCache
  <1>5. QED
    BY <1>1, <1>2, <1>3, <1>4 DEF EntriesRight, new


----------------------------------------------------------------------------
\* The steps.

\* Nothing has been found when an operation starts.
LEMMA NothingFound ==
  ASSUME NEW c, NEW op, NEW f, NEW refs, NEW level, NEW low, NEW high
  PROVE  /\ Linked(c, <<>>, level, low, high) /\ Found(op, f, <<>>, refs, level, low, high)
         /\ Asked(c, <<>>, level, low, high) = <<c.l, c.r>>
  BY DEF Linked, Found, Asked, AtMake

LEMMA StartMeaning ==
  ASSUME MInv, NEW op \in Operators, NEW l \in Slot, NEW r \in Slot, Start(op, l, r)
  PROVE  MInv'
  <1>1. /\ UNCHANGED table /\ applycache' = applycache /\ bdderrorcond' = bdderrorcond
        /\ call' = [op |-> op, l |-> l, r |-> r] /\ calling' = <<l, r>>
        /\ frames' = frames /\ returned' = returned
    BY DEF Start, cachevars
  <1>2. frames = <<>> /\ returned = NoNode
    BY DEF Start, MInv, AInv, PhaseOK
  <1>3. AInv'
    BY StartStep DEF MInv
  <1>4. RunOK'
    <2>1. frames' = <<>> /\ returned' = NoNode /\ calling' = <<call'.l, call'.r>>
      BY <1>1, <1>2
    <2>2. /\ Linked(call, frames, LEVEL, LOW, HIGH)'
          /\ Found(call.op, Meaning, frames, bddrefstack, LEVEL, LOW, HIGH)'
          /\ Asked(call, frames, LEVEL, LOW, HIGH)' = calling'
      BY <2>1, NothingFound
    <2>3. QED
      BY <2>1, <2>2 DEF RunOK
  <1>5. Meaning' = Meaning
    BY <1>1, SameMeaning
  <1>6. QED
    BY <1>1, <1>3, <1>4, <1>5 DEF MInv

\* A recursive call that returns the result for its operands.
LEMMA ReturnMeaning ==
  ASSUME MInv, AInv', calling # None, NEW n,
         ~bdderrorcond => Answers(call.op, Meaning, calling, n),
         returned' = n, calling' = None,
         UNCHANGED <<call, frames, cachevars, table, bdderrorcond, bddrefstack>>
  PROVE  MInv'
  <1>1. /\ LEVEL' = LEVEL /\ LOW' = LOW /\ HIGH' = HIGH /\ call' = call /\ frames' = frames
        /\ applycache' = applycache /\ bdderrorcond' = bdderrorcond
        /\ bddrefstack' = bddrefstack
    BY DEF table, cachevars
  <1>2. Meaning' = Meaning
    BY SameMeaning
  <1>3. call # None
    BY CallOperands DEF MInv
  <1>4. RunOK'
    BY <1>1, <1>2, <1>3 DEF RunOK, MInv
  <1>5. QED
    BY <1>1, <1>2, <1>4 DEF MInv

LEMMA ReturnImmediateMeaning == MInv /\ ReturnImmediate => MInv'
  <1> SUFFICES ASSUME MInv, ReturnImmediate PROVE MInv'
    OBVIOUS
  <1>1. PICK n \in Immediate(call.op, calling[1], calling[2]) : returned' = n
    BY DEF ReturnImmediate
  <1>2. calling # None /\ calling' = None
        /\ UNCHANGED <<call, frames, cachevars, table, bdderrorcond, bddrefstack>>
    BY DEF ReturnImmediate
  <1> DEFINE l == calling[1]  r == calling[2]
  <1>3. call.op \in Operators /\ l \in Live /\ r \in Live
    BY <1>2, CallOperands DEF MInv
  <1>4. l \in Nat /\ r \in Nat
    BY <1>3, Levels DEF MInv, AInv
  <1>5. /\ Meaning[0] = {} /\ Meaning[1] = Assignments
        /\ Meaning[l] \subseteq Assignments /\ Meaning[r] \subseteq Assignments
    BY <1>3, MeaningShannon DEF MInv, AInv, Shannon
  <1> HIDE DEF l, r
  <1>6. Meaning[n] = OperatorMeaning(call.op, Meaning[l], Meaning[r])
    <2>1. n \in Immediate(call.op, l, r)
      BY DEF l, r
    <2>2. QED
      BY <1>3, <1>4, <1>5, <2>1, ImmediateMeaning
  <1>7. Answers(call.op, Meaning, calling, n)
    BY <1>6 DEF Answers, l, r
  <1>8. AInv'
    BY ReturnImmediateStep DEF MInv
  <1>9. QED
    BY <1>1, <1>2, <1>7, <1>8, ReturnMeaning

LEMMA ReturnCachedMeaning == MInv /\ ReturnCached => MInv'
  <1> SUFFICES ASSUME MInv, ReturnCached PROVE MInv'
    OBVIOUS
  <1> DEFINE hash == ApplyHash(call.op, calling[1], calling[2])
             e == Entry(applycache, hash)
  <1>1. /\ calling # None /\ calling' = None /\ returned' = e.res
        /\ UNCHANGED <<call, frames, cachevars, table, bdderrorcond, bddrefstack>>
    BY DEF ReturnCached
  <1>2. e # NoEntry /\ e.key = <<call.op, calling[1], calling[2]>>
    BY DEF ReturnCached, Hit, Key
  <1>3. hash \in Nat
    BY <1>1, CallOperands DEF MInv
  <1> HIDE DEF hash
  <1>4. SlotOf(applycache, hash) \in DOMAIN applycache
    BY <1>3, SlotInRange DEF MInv, AInv, CacheOK
  <1>5. ASSUME ~bdderrorcond PROVE Answers(call.op, Meaning, calling, e.res)
    <2>1. EntriesRight(applycache, Meaning)
      BY <1>5 DEF MInv
    <2>2. Meaning[e.res] = OperatorMeaning(e.key[1], Meaning[e.key[2]], Meaning[e.key[3]])
      BY <1>2, <1>4, <2>1 DEF EntriesRight, Entry
    <2> HIDE DEF e
    <2>3. QED
      BY <1>2, <2>2 DEF Answers
  <1>6. AInv'
    BY ReturnCachedStep DEF MInv
  <1> HIDE DEF e
  <1>7. QED
    BY <1>1, <1>5, <1>6, ReturnMeaning

LEMMA DescendMeaning == MInv /\ Descend => MInv'
  <1> SUFFICES ASSUME MInv, Descend PROVE MInv'
    OBVIOUS
  <1> DEFINE new == [l |-> calling[1], r |-> calling[2], step |-> "low"]
             fs == Append(frames, new)
  <1>1. /\ frames' = fs /\ calling' = Cofactors(new.l, new.r, LOW) /\ calling # None
        /\ UNCHANGED <<call, returned, cachevars, vars>>
    BY DEF Descend
  <1>2. /\ LEVEL' = LEVEL /\ LOW' = LOW /\ HIGH' = HIGH /\ call' = call
        /\ returned' = returned /\ applycache' = applycache
        /\ bdderrorcond' = bdderrorcond /\ bddrefstack' = bddrefstack /\ UNCHANGED table
    BY <1>1 DEF vars, table, cachevars
  <1>3. /\ returned = NoNode /\ call # None
        /\ calling[1] \in Reach /\ calling[2] \in Reach /\ calling = <<calling[1], calling[2]>>
    BY <1>1, CallOperands DEF MInv
  <1>4. new \in Frame(Reach) /\ new.step = "low" /\ <<new.l, new.r>> = calling
    BY <1>3 DEF Frame
  <1>5. frames \in Seq(Frame(Reach))
    BY Running DEF MInv
  <1>6. ~AtMake(frames)
    <2>1. \A i \in DOMAIN frames : frames[i].step # "make"
      BY <1>1 DEF MInv, AInv, FramesOK
    <2>2. frames # <<>> => Len(frames) \in DOMAIN frames
      BY <1>5
    <2>3. QED
      BY <2>1, <2>2 DEF AtMake
  <1>7. RunOK
    BY <1>3 DEF MInv
  <1>8. <<new.l, new.r>> = Asked(call, frames, LEVEL, LOW, HIGH)
        /\ Linked(call, frames, LEVEL, LOW, HIGH)
    BY <1>1, <1>4, <1>7 DEF RunOK
  <1> HIDE DEF new
  <1>9. /\ Linked(call, fs, LEVEL, LOW, HIGH)
        /\ Asked(call, fs, LEVEL, LOW, HIGH) = Parts(new, LOW, LEVEL)
        /\ Found(call.op, Meaning, frames, bddrefstack, LEVEL, LOW, HIGH) =>
             Found(call.op, Meaning, fs, bddrefstack, LEVEL, LOW, HIGH)
    BY <1>4, <1>5, <1>6, <1>8, FoundPushed
  <1>10. calling' = Asked(call, fs, LEVEL, LOW, HIGH)
    BY <1>1, <1>9, CofactorsParts
  <1> HIDE DEF fs
  <1>11. Meaning' = Meaning
    BY <1>2, SameMeaning
  <1>12. RunOK'
    BY <1>1, <1>2, <1>3, <1>7, <1>9, <1>10, <1>11 DEF RunOK
  <1>13. AInv'
    BY DescendStep DEF MInv
  <1>14. QED
    BY <1>2, <1>11, <1>12, <1>13 DEF MInv


\* PUSHREF of a result: it is that of the call that its caller made.
LEMMA PushMeaning ==
  ASSUME MInv, AInv', returned # NoNode, frames # <<>>, NEW step,
         \/ Top.step = "low" /\ step = "high"
         \/ Top.step = "high" /\ step = "make",
         bddrefstack' = Append(bddrefstack, returned), returned' = NoNode,
         frames' = NextStep(frames, step),
         step = "high" => calling' = Cofactors(Top.l, Top.r, HIGH),
         step = "make" => calling' = calling,
         UNCHANGED <<call, cachevars, table, bdderrorcond>>
  PROVE  MInv'
  <1> DEFINE gs == NextStep(frames, step)
             new == Append(bddrefstack, returned)
             f == Meaning
  <1>1. /\ LEVEL' = LEVEL /\ LOW' = LOW /\ HIGH' = HIGH /\ call' = call
        /\ applycache' = applycache /\ bdderrorcond' = bdderrorcond /\ Meaning' = f
    BY SameMeaning DEF table, cachevars
  <1>2. calling = None /\ returned \in Live /\ call # None
    BY DEF MInv, AInv, PhaseOK
  <1>3. frames \in Seq(Frame(Reach)) /\ bddrefstack \in Seq(Live)
    BY Running DEF MInv
  <1>4. Top = frames[Len(frames)]
    BY DEF Top
  <1>5. Depth(frames[Len(frames)], LEVEL) < LEVEL[returned]
    BY <1>4 DEF MInv, AInv, DepthsOK
  <1>6. Descending(frames, LEVEL) /\ ResultsOf(frames, bddrefstack, LEVEL)
    BY DEF MInv, AInv, DepthsOK, ReferencesOK
  <1>7. \/ frames[Len(frames)].step = "low" /\ step = "high"
        \/ frames[Len(frames)].step = "high" /\ step = "make"
    BY <1>4
  <1>8. GoesOn(frames, gs, step, Reach)
    BY <1>2, <1>3, <1>5, <1>6, <1>7, ResultPushed DEF GoesOn
  <1>9. RunOK
    BY <1>2 DEF MInv
  <1>10. Linked(call, frames, LEVEL, LOW, HIGH)
    BY <1>9 DEF RunOK
  <1>11. frames' = gs /\ bddrefstack' = new
    OBVIOUS
  <1> HIDE DEF gs, f
  <1>12. /\ Linked(call, gs, LEVEL, LOW, HIGH)
         /\ step = "high" => Asked(call, gs, LEVEL, LOW, HIGH) = Parts(frames[Len(frames)], HIGH, LEVEL)
         /\ Found(call.op, f, frames, bddrefstack, LEVEL, LOW, HIGH)
              /\ Answers(call.op, f, Asked(call, frames, LEVEL, LOW, HIGH), returned) =>
              Found(call.op, f, gs, new, LEVEL, LOW, HIGH)
    BY <1>3, <1>6, <1>7, <1>8, <1>10, FoundNext
  <1>13. calling' # None => calling' = Asked(call, gs, LEVEL, LOW, HIGH)
    <2>1. CASE step = "high"
      BY <1>4, <1>12, <2>1, CofactorsParts
    <2>2. CASE step = "make"
      BY <1>2, <2>2
    <2>3. QED
      BY <1>7, <2>1, <2>2
  <1>14. ~bdderrorcond => Found(call.op, f, gs, new, LEVEL, LOW, HIGH)
    BY <1>9, <1>12 DEF RunOK, f
  <1> HIDE DEF new
  <1>15. RunOK'
    BY <1>1, <1>11, <1>12, <1>13, <1>14 DEF RunOK
  <1>16. QED
    BY <1>1, <1>15 DEF MInv, f

LEMMA PushLowMeaning == MInv /\ PushLow => MInv'
  <1> SUFFICES ASSUME MInv, PushLow PROVE MInv'
    OBVIOUS
  <1> DEFINE step == "high"
  <1>1. /\ returned # NoNode /\ frames # <<>> /\ Top.step = "low" /\ step = "high" /\ step # "make"
        /\ bddrefstack' = Append(bddrefstack, returned) /\ returned' = NoNode
        /\ frames' = NextStep(frames, step)
        /\ calling' = Cofactors(Top.l, Top.r, HIGH)
        /\ UNCHANGED <<call, cachevars, table, bdderrorcond>>
    BY DEF PushLow, NextStep
  <1>2. AInv'
    BY PushLowStep DEF MInv
  <1> HIDE DEF step
  <1>3. QED
    BY <1>1, <1>2, PushMeaning

LEMMA PushHighMeaning == MInv /\ PushHigh => MInv'
  <1> SUFFICES ASSUME MInv, PushHigh PROVE MInv'
    OBVIOUS
  <1> DEFINE step == "make"
  <1>1. /\ returned # NoNode /\ frames # <<>> /\ Top.step = "high" /\ step = "make" /\ step # "high"
        /\ bddrefstack' = Append(bddrefstack, returned) /\ returned' = NoNode
        /\ frames' = NextStep(frames, step)
        /\ calling' = calling
        /\ UNCHANGED <<call, cachevars, table, bdderrorcond>>
    BY DEF PushHigh, NextStep
  <1>2. AInv'
    BY PushHighStep DEF MInv
  <1> HIDE DEF step
  <1>3. QED
    BY <1>1, <1>2, PushMeaning

\* bdd_makenode in the middle of the recursion: what is protected keeps its
\* meaning, and all of the table does unless there was a collection.
LEMMA BuildKeeps ==
  ASSUME AInv, AInv', NEW a \in Roots, NEW b \in Roots, NEW level \in 0..(VarNum - 1),
         level < LEVEL[a], level < LEVEL[b],
         NEW n, bdd_makenode(level, a, b, n)
  PROVE  /\ Agree(Survivors, Meaning, LEVEL, LOW, HIGH, Meaning', LEVEL', LOW', HIGH')
         /\ ~Collects(a, b, level) =>
              Live \subseteq Live' /\ \A m \in Live : Meaning'[m] = Meaning[m]
         /\ ~bdderrorcond' => ~bdderrorcond
  <1>1. IInv /\ IInv'
    BY DEF AInv
  <1>2. Survivors \subseteq Live' /\ \A m \in Survivors : SameNode(m)
    BY <1>1, MakeNodeTableOK
  <1>3. /\ Diagrams(Survivors, LEVEL, LOW, HIGH) /\ Survivors \subseteq Live
        /\ \A m \in Survivors : LEVEL[m] < VarNum => LOW[m] \in Survivors /\ HIGH[m] \in Survivors
    BY <1>1, SurvivorsDiagrams
  <1>4. \A m \in Survivors : Meaning'[m] = Meaning[m]
    BY <1>1, <1>2, <1>3, MeaningKept
  <1>5. Agree(Survivors, Meaning, LEVEL, LOW, HIGH, Meaning', LEVEL', LOW', HIGH')
    BY <1>2, <1>3, <1>4 DEF Agree, SameNode
  <1>6. ASSUME ~Collects(a, b, level)
        PROVE  Live \subseteq Live' /\ \A m \in Live : Meaning'[m] = Meaning[m]
    <2>1. Live \subseteq Live' /\ \A m \in Live : SameNode(m)
      BY <1>1, <1>6, LiveKept
    <2>2. QED
      BY <1>1, <2>1, LiveDiagrams, MeaningKept
  <1>7. ~bdderrorcond' => ~bdderrorcond
    BY DEF bdd_makenode, FindNode, TakeNode, CollectAndTakeNode, ExhaustNodes, RefuseNode
  <1>8. QED
    BY <1>5, <1>6, <1>7


\* The node is the result for the operands of the call.
LEMMA BuildAnswers ==
  ASSUME MInv, AInv', frames # <<>>, Top.step = "make",
         NEW a, NEW b, a = bddrefstack[Len(bddrefstack) - 1], b = bddrefstack[Len(bddrefstack)],
         NEW n, bdd_makenode(TopLevel(Top.l, Top.r), a, b, n), ~bdderrorcond'
  PROVE  Answers(call.op, Meaning', <<Top.l, Top.r>>, n)
  <1> DEFINE level == TopLevel(Top.l, Top.r)
             f2 == Meaning'  level2 == LEVEL'  low2 == LOW'  high2 == HIGH'
             S == Live'
  <1>1. /\ a \in Roots /\ b \in Roots /\ level \in 0..(VarNum - 1) /\ call # None
        /\ level < LEVEL[a] /\ level < LEVEL[b] /\ level = Depth(Top, LEVEL)
        /\ AtMake(frames) /\ bddrefstack \in Seq(Roots)
    <2>1. level = Depth(Top, LEVEL)
      BY DEF Depth, TopLevel
    <2>2. QED
      BY <2>1, BuildOperands DEF MInv
  <1>2. Top.l \in Survivors /\ Top.r \in Survivors /\ Roots \subseteq Survivors
    BY TopFrame, ReachProtected, ProtectedSurvive DEF MInv, AInv, Frame
  <1> HIDE DEF level
  <1>3. /\ Agree(Survivors, Meaning, LEVEL, LOW, HIGH, f2, level2, low2, high2)
        /\ ~bdderrorcond
    BY <1>1, BuildKeeps DEF MInv, level
  <1>4. Found(call.op, Meaning, frames, bddrefstack, LEVEL, LOW, HIGH)
    BY <1>1, <1>3 DEF MInv, RunOK
  <1>5. /\ Computes(call.op, Meaning, Top, LOW, LEVEL, a)
        /\ Computes(call.op, Meaning, Top, HIGH, LEVEL, b)
    <2>1. Popped(frames, SubSeq(frames, 1, Len(frames) - 1), bddrefstack,
                 SubSeq(bddrefstack, 1, Len(bddrefstack) - 2), Roots)
      BY <1>1, Running, PlacesPopped DEF MInv, AInv, ReferencesOK
    <2>2. bddrefstack[Pushed(frames, Len(frames))] = a
      BY <2>1 DEF Popped
    <2>3. Len(frames) \in DOMAIN frames /\ frames[Len(frames)].step # "low"
      BY <1>1, TopFrame DEF MInv, AtMake
    <2>4. QED
      BY <1>1, <1>4, <2>2, <2>3 DEF Found, Top
  <1> HIDE DEF f2, level2, low2, high2
  <1>6. /\ Computes(call.op, f2, Top, low2, level2, a)
        /\ Computes(call.op, f2, Top, high2, level2, b)
        /\ Depth(Top, level2) = level
    <2>1. Depth(Top, LEVEL) < VarNum
      BY <1>1, SizeAssumption
    <2>2. QED
      BY <1>1, <1>2, <1>3, <1>5, <2>1, PartsAgree
  <1>7. \/ a = b /\ n = a
        \/ a # b /\ level2[n] = level /\ low2[n] = a /\ high2[n] = b /\ n \notin {0, 1}
    <2>1. \/ a = b /\ n = a
          \/ a # b /\ LEVEL'[n] = level /\ LOW'[n] = a /\ HIGH'[n] = b /\ n \notin {0, 1}
          \/ n = 0 /\ bdderrorcond'
      <3>1. IInv /\ level \in 0..(VarNum - 1) /\ a \in Roots /\ b \in Roots
            /\ level < LEVEL[a] /\ level < LEVEL[b] /\ bdd_makenode(level, a, b, n)
        BY <1>1 DEF MInv, AInv, level
      <3>2. QED
        BY <3>1, MakeNodeResult
    <2>2. QED
      BY <2>1 DEF level2, low2, high2
  <1>8. Survivors \subseteq S /\ n \in S
    BY <1>1, MakeNodeTableOK DEF MInv, AInv, level
  <1>9. Shannon(f2, S, level2, low2, high2)
    <2>1. IInv' => Shannon(Meaning, Live, LEVEL, LOW, HIGH)'
      BY MeaningShannon, PTL
    <2>2. QED
      BY <2>1 DEF AInv, f2, level2, low2, high2
  <1> HIDE DEF S
  <1>10. f2[n] = OperatorMeaning(call.op, f2[Top.l], f2[Top.r])
    <2>1. /\ Top.l \in S /\ Top.r \in S /\ Depth(Top, level2) \in 0..(VarNum - 1)
      BY <1>1, <1>2, <1>6, <1>8
    <2>2. \/ n = a /\ n = b
          \/ n \notin {0, 1} /\ level2[n] = Depth(Top, level2) /\ low2[n] = a /\ high2[n] = b
      BY <1>6, <1>7
    <2> DEFINE op == call.op  frame == Top
    <2>3. /\ frame.l \in S /\ frame.r \in S /\ Depth(frame, level2) \in 0..(VarNum - 1)
          /\ Computes(op, f2, frame, low2, level2, a)
          /\ Computes(op, f2, frame, high2, level2, b)
          /\ MadeFrom(n, Depth(frame, level2), a, b, level2, low2, high2)
      BY <1>6, <2>1, <2>2 DEF MadeFrom
    <2> HIDE DEF op, frame
    <2>4. f2[n] = OperatorMeaning(op, f2[frame.l], f2[frame.r])
      BY <1>8, <1>9, <2>3, BuildMeaning
    <2>5. QED
      BY <2>4 DEF op, frame
  <1>11. QED
    BY <1>10 DEF Answers, f2

\* The cache after it: what it kept, and the new entry, are right.
LEMMA BuildEntries ==
  ASSUME MInv, ~bdderrorcond, NEW collects \in BOOLEAN, NEW n,
         ~collects => \A m \in Live : Meaning'[m] = Meaning[m],
         frames # <<>>, call # None, Answers(call.op, Meaning', <<Top.l, Top.r>>, n)
  PROVE  EntriesRight(Stored(IF collects THEN Reset(applycache) ELSE applycache,
                             ApplyHash(call.op, Top.l, Top.r),
                             Key(call.op, Top.l, Top.r), n), Meaning')
  <1> DEFINE cache == IF collects THEN Reset(applycache) ELSE applycache
             hash == ApplyHash(call.op, Top.l, Top.r)
             f2 == Meaning'
  <1>1. GoodCache(applycache, Live, LEVEL) /\ EntriesRight(applycache, Meaning)
    BY DEF MInv, AInv, CacheOK
  <1>2. GoodCache(cache, Live, LEVEL) /\ EntriesRight(cache, f2)
    <2>1. CASE collects
      <3>1. Cardinality(DOMAIN applycache) \in Nat \ {0}
        BY <1>1 DEF GoodCache
      <3>2. QED
        BY <2>1, <3>1, EmptyCacheGood, EmptyRight DEF Reset
    <2>2. CASE ~collects
      <3> HIDE DEF f2
      <3>1. \A m \in Live : f2[m] = Meaning[m]
        BY <2>2 DEF f2
      <3>2. QED
        BY <1>1, <2>2, <3>1, EntriesKept
    <2>3. QED
      BY <2>1, <2>2
  <1>3. hash \in Nat
    <2>1. Top.l \in 0..SlotBound /\ Top.r \in 0..SlotBound
      BY TopFrame, ReachProtected, Levels DEF MInv, AInv, Frame
    <2>2. call.op \in Operators
      BY DEF MInv, AInv, PhaseOK
    <2>3. QED
      BY <2>1, <2>2, CacheAssumption
  <1>4. f2[n] = OperatorMeaning(call.op, f2[Top.l], f2[Top.r])
    BY DEF Answers
  <1> HIDE DEF cache, hash, f2
  <1>5. EntriesRight(Stored(cache, hash, Key(call.op, Top.l, Top.r), n), f2)
    BY <1>2, <1>3, <1>4, StoredRight
  <1>6. QED
    BY <1>5 DEF cache, hash, f2


LEMMA BuildMeaningStep == MInv /\ Build => MInv'
  <1> SUFFICES ASSUME MInv, Build PROVE MInv'
    OBVIOUS
  <1> DEFINE depth == Len(bddrefstack)
             a == bddrefstack[depth - 1]
             b == bddrefstack[depth]
             level == TopLevel(Top.l, Top.r)
             collects == Collects(a, b, level)
             fs == SubSeq(frames, 1, Len(frames) - 1)
             left == SubSeq(bddrefstack, 1, depth - 2)
             f2 == Meaning'  level2 == LEVEL'  low2 == LOW'  high2 == HIGH'
  <1>1. calling = None /\ frames # <<>> /\ Top.step = "make" /\ UNCHANGED <<call, calling>>
        /\ bddrefstack' = left /\ frames' = fs
    BY DEF Build
  <1>2. PICK n : /\ bdd_makenode(level, a, b, n)
                 /\ applycache' = Stored(IF collects THEN Reset(applycache) ELSE applycache,
                                         ApplyHash(call.op, Top.l, Top.r),
                                         Key(call.op, Top.l, Top.r), n)
                 /\ returned' = n
    BY DEF Build
  <1>3. AInv'
    BY BuildStep DEF MInv
  <1>4. /\ bddrefstack \in Seq(Roots) /\ AtMake(frames) /\ call # None
        /\ a \in Roots /\ b \in Roots
        /\ level \in 0..(VarNum - 1) /\ level < LEVEL[a] /\ level < LEVEL[b]
    <2>1. level = Depth(Top, LEVEL)
      BY DEF Depth, TopLevel
    <2>2. QED
      BY <1>1, <2>1, BuildOperands DEF MInv
  <1>5. /\ Agree(Survivors, Meaning, LEVEL, LOW, HIGH, f2, level2, low2, high2)
        /\ ~collects => \A m \in Live : Meaning'[m] = Meaning[m]
        /\ ~bdderrorcond' => ~bdderrorcond
    <2> HIDE DEF a, b, level
    <2>1. QED
      BY <1>2, <1>3, <1>4, BuildKeeps DEF MInv
  <1>6. RunOK
    BY <1>4 DEF MInv
  <1>7. ASSUME ~bdderrorcond' PROVE Answers(call.op, Meaning', <<Top.l, Top.r>>, n)
    BY <1>1, <1>2, <1>3, <1>7, BuildAnswers
  <1>8. ASSUME ~bdderrorcond' PROVE EntriesRight(applycache, Meaning)'
    <2>1. collects \in BOOLEAN
      BY DEF Collects
    <2> HIDE DEF collects, f2, level2, low2, high2
    <2>2. EntriesRight(applycache', Meaning')
      BY <1>1, <1>2, <1>4, <1>5, <1>7, <1>8, <2>1, BuildEntries
    <2>3. QED
      BY <2>2
  <1>9. frames \in Seq(Frame(Reach)) /\ bddrefstack \in Seq(Survivors) /\ Reach \subseteq Survivors
    BY <1>4, Running, ReachProtected, ProtectedSurvive DEF MInv, AInv
  <1>10. /\ Descending(frames, LEVEL) /\ ResultsOf(frames, bddrefstack, LEVEL)
         /\ Linked(call, frames, LEVEL, LOW, HIGH)
    BY <1>6 DEF MInv, AInv, DepthsOK, ReferencesOK, RunOK
  <1>11. \A i \in 1..(Len(frames) - 1) : frames[i].step # "make"
    <2>1. \A i \in DOMAIN frames : frames[i].step = "make" => i = Len(frames)
      BY DEF MInv, AInv, FramesOK
    <2>2. Len(frames) \in Nat \ {0} /\ DOMAIN frames = 1..Len(frames)
      BY <1>1, TopFrame DEF MInv
    <2>3. QED
      BY <2>1, <2>2, PlacesBefore, Zenon
  <1> HIDE DEF f2, level2, low2, high2
  <1>12. /\ Linked(call, fs, level2, low2, high2)
         /\ Asked(call, fs, level2, low2, high2) = <<Top.l, Top.r>>
         /\ Found(call.op, Meaning, frames, bddrefstack, LEVEL, LOW, HIGH) =>
              Found(call.op, f2, fs, left, level2, low2, high2)
    BY <1>4, <1>5, <1>9, <1>10, <1>11, FoundPopped DEF Top
  <1> HIDE DEF fs, left
  <1>13. RunOK'
    <2>1. calling' = None /\ call' = call
      BY <1>1
    <2>2. ASSUME ~bdderrorcond' PROVE Found(call.op, f2, fs, left, level2, low2, high2)
      BY <1>5, <1>6, <1>12, <2>2 DEF RunOK
    <2>3. QED
      BY <1>1, <1>2, <1>7, <1>12, <2>1, <2>2 DEF RunOK, f2, level2, low2, high2
  <1>14. QED
    BY <1>3, <1>8, <1>13 DEF MInv

\* Between two operations only the cache matters.
LEMMA IdleMeaning ==
  ASSUME AInv', call' = None, ~bdderrorcond' => EntriesRight(applycache', Meaning')
  PROVE  MInv'
  BY DEF MInv

LEMMA FinishMeaning == MInv /\ Finish => MInv'
  <1> SUFFICES ASSUME MInv, Finish PROVE MInv'
    OBVIOUS
  <1>1. /\ call' = None /\ UNCHANGED table /\ bdderrorcond' = bdderrorcond /\ checkresize
    BY DEF Finish
  <1>2. Meaning' = Meaning
    BY <1>1, SameMeaning
  <1>3. ~bdderrorcond' => EntriesRight(applycache', Meaning')
    BY <1>1, <1>2, EmptyRight DEF checkresize, MInv
  <1>4. AInv'
    BY FinishStep DEF MInv
  <1>5. QED
    BY <1>1, <1>3, <1>4, IdleMeaning

LEMMA ClientMeaning ==
  ASSUME MInv, AInv',
         \/ \E ratio \in CacheRatios : SetCacheRatio(ratio)
         \/ CollectAndReset \/ ClearErrorAndReset
         \/ \E n \in Slot : TakeReference(n) \/ GiveReference(n)
  PROVE  MInv'
  <1>1. call' = None
    BY DEF SetCacheRatio, CollectAndReset, ClearErrorAndReset, TakeReference, GiveReference, callvars
  <1>2. CASE \/ \E ratio \in CacheRatios : SetCacheRatio(ratio)
             \/ CollectAndReset \/ ClearErrorAndReset
    BY <1>1, <1>2, EmptyRight, IdleMeaning
       DEF SetCacheRatio, CollectAndReset, ClearErrorAndReset, Reset
  <1>3. CASE \E n \in Slot : TakeReference(n) \/ GiveReference(n)
    <2>1. UNCHANGED table /\ applycache' = applycache /\ bdderrorcond' = bdderrorcond
      BY <1>3 DEF TakeReference, GiveReference, AddRef, DelRef, cachevars
    <2>2. Meaning' = Meaning
      BY <2>1, SameMeaning
    <2>3. QED
      BY <1>1, <2>1, <2>2, IdleMeaning DEF MInv
  <1>4. QED
    BY <1>2, <1>3

LEMMA InitMeaning == ApplyInit => MInv
  <1> SUFFICES ASSUME ApplyInit PROVE MInv
    OBVIOUS
  <1>1. AInv
    BY InitAInv
  <1>2. call = None /\ applycache = EmptyCache(CacheSize)
    BY DEF ApplyInit
  <1>3. QED
    BY <1>1, <1>2, EmptyRight DEF MInv

LEMMA NextMeaning == MInv /\ [ApplyNext]_allvars => MInv'
  <1> SUFFICES ASSUME MInv, [ApplyNext]_allvars PROVE MInv'
    OBVIOUS
  <1>1. AInv'
    BY NextAInv DEF MInv
  <1>2. CASE \E op \in Operators : \E l, r \in Slot : Start(op, l, r)
    BY <1>2, StartMeaning
  <1>3. CASE ReturnImmediate \/ ReturnCached \/ Descend
    BY <1>3, ReturnImmediateMeaning, ReturnCachedMeaning, DescendMeaning
  <1>4. CASE PushLow \/ PushHigh
    BY <1>4, PushLowMeaning, PushHighMeaning
  <1>5. CASE Build
    BY <1>5, BuildMeaningStep
  <1>6. CASE Finish
    BY <1>6, FinishMeaning
  <1>7. CASE \/ \E ratio \in CacheRatios : SetCacheRatio(ratio)
             \/ CollectAndReset \/ ClearErrorAndReset
             \/ \E n \in Slot : TakeReference(n) \/ GiveReference(n)
    BY <1>1, <1>7, ClientMeaning
  <1>8. CASE UNCHANGED allvars
    <2>1. UNCHANGED table /\ bdderrorcond' = bdderrorcond /\ bddrefstack' = bddrefstack
          /\ applycache' = applycache /\ UNCHANGED <<call, calling, frames, returned>>
      BY <1>8 DEF allvars, vars, cachevars, callvars
    <2>2. /\ Meaning' = Meaning /\ LEVEL' = LEVEL /\ LOW' = LOW /\ HIGH' = HIGH
      BY <2>1, SameMeaning DEF table
    <2>3. RunOK' <=> RunOK
      BY <2>1, <2>2 DEF RunOK
    <2>4. QED
      BY <1>1, <2>1, <2>2, <2>3 DEF MInv
  <1>9. QED
    BY <1>2, <1>3, <1>4, <1>5, <1>6, <1>7, <1>8 DEF ApplyNext

----------------------------------------------------------------------------
\* The theorems.

\* All that a running operation has found so far, and all that the cache
\* holds, is right.
THEOREM MeaningInvariance == ApplySpec => []MInv
  BY InitMeaning, NextMeaning, PTL DEF ApplySpec

\* While no error stands, what the cache answers is right: bdd_gbc and
\* bdd_clear_error drop the entries whose nodes may be others by now, and
\* checkresize and bdd_setcacheratio leave no entry behind.
THEOREM CacheIsSound == ApplySpec => []CacheSound
  <1>1. MInv => CacheSound
    <2>1. SUFFICES ASSUME MInv, ~bdderrorcond, NEW i \in DOMAIN applycache,
                          applycache[i] # NoEntry
                   PROVE  LET e == applycache[i] IN
                          /\ {e.key[2], e.key[3], e.res} \subseteq Live
                          /\ Meaning[e.res] = OperatorMeaning(e.key[1], Meaning[e.key[2]],
                                                              Meaning[e.key[3]])
      BY DEF CacheSound
    <2>2. applycache[i] \in [key : Operators \X Live \X Live, res : Live]
      BY <2>1 DEF MInv, AInv, CacheOK, GoodCache
    <2>3. EntriesRight(applycache, Meaning)
      BY <2>1 DEF MInv
    <2>4. QED
      BY <2>1, <2>2, <2>3 DEF EntriesRight
  <1>2. QED
    BY <1>1, MeaningInvariance, PTL

\* An operation that ends with no error returned the right function of its
\* operands, whatever collections and resizings came between its steps.
THEOREM ResultIsRight == ApplySpec => ResultRight
  <1>1. ASSUME MInv, [ApplyNext]_allvars, call # None, call' = None, ~bdderrorcond'
        PROVE  Meaning'[result'] = OperatorMeaning(call.op, Meaning[call.l], Meaning[call.r])
    <2>1. Finish
      BY <1>1 DEF ApplyNext, Start, ReturnImmediate, ReturnCached, Descend, PushLow, PushHigh,
                  Build, SetCacheRatio, CollectAndReset, ClearErrorAndReset, TakeReference,
                  GiveReference, callvars, allvars
    <2>2. /\ returned # NoNode /\ frames = <<>> /\ result' = returned
          /\ UNCHANGED table /\ bdderrorcond' = bdderrorcond
      BY <2>1 DEF Finish
    <2>3. Answers(call.op, Meaning, Asked(call, frames, LEVEL, LOW, HIGH), returned)
      BY <1>1, <2>2 DEF MInv, RunOK
    <2>4. Asked(call, frames, LEVEL, LOW, HIGH) = <<call.l, call.r>>
      BY <2>2 DEF Asked
    <2>5. Meaning' = Meaning
      BY <2>2, SameMeaning
    <2>6. QED
      BY <2>2, <2>3, <2>4, <2>5 DEF Answers
  <1>2. MInv /\ [ApplyNext]_allvars =>
          [call # None /\ call' = None /\ ~bdderrorcond' =>
             Meaning'[result'] = OperatorMeaning(call.op, Meaning[call.l], Meaning[call.r])]_allvars
    BY <1>1
  <1>3. QED
    BY <1>2, MeaningInvariance, PTL DEF ApplySpec, ResultRight

=============================================================================
