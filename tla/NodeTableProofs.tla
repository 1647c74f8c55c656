-------------------------- MODULE NodeTableProofs --------------------------
(***************************************************************************)
(* What holds of the node table of kernel.c for every number of variables, *)
(* table size, hash function and MAXREF, and for every bound of the model. *)
(*                                                                         *)
(* The argument goes from the table to its clients.  Marking is closed     *)
(* under children and has every root, so the sweep leaves a good table     *)
(* (RebuildTableOK) in which all that is protected is as it was            *)
(* (ProtectedSurvive, SurvivorsUnchanged); bdd_makenode is a search, a     *)
(* free slot taken (TakeNodeTableOK), or such a sweep with a slot taken    *)
(* after it (MakeNodeTableOK).  Then IInv, of which TypeOK, UniqueTable,   *)
(* ReducedOrdered, FreeListExact and ProtectedLive are parts, is kept by   *)
(* every step, and the two action properties follow from it.               *)
(***************************************************************************)
EXTENDS NodeTable, CallStack, FiniteSetTheorems, TLAPS

\* NODEHASH names a chain of the table: HASHRANGE stays below bddnodesize.
LEMMA HashInRange ==
  ASSUME NEW size \in Nat, size > 0, NEW l \in 0..VarNum,
         NEW a \in 0..SlotBound, NEW b \in 0..SlotBound
  PROVE  NODEHASH(size, l, a, b) \in 0..(size - 1)
  BY HashAssumption DEF NODEHASH

\* bdd_mark stops at free slots.
LEMMA MarkedLive == Marked \subseteq Live
  BY DEF Marked

\* bdd_gbc marks every counted node and every entry of the reference stack.
LEMMA RootsMarked == Roots \subseteq Marked
  <1>1. Roots \subseteq Live
    BY DEF Roots
  <1>2. ASSUME NEW T PROVE Roots \subseteq Roots \cup T
    OBVIOUS
  <1>3. QED
    BY <1>1, <1>2 DEF Marked

\* bdd_mark goes to both children of each node it marks.
LEMMA MarkedClosed ==
  ASSUME ReducedOrdered, NEW n \in Marked
  PROVE  Children(n) \subseteq Marked
  <1>1. n \in Live
    BY MarkedLive
  <1>2. Children(n) \subseteq Live
    BY <1>1 DEF ReducedOrdered, Children, Live
  <1>3. ASSUME NEW c \in Children(n), NEW S \in SUBSET Live, Closed(S), n \in S
        PROVE  c \in S
    BY <1>3 DEF Closed
  <1>4. Roots \subseteq Live
    BY DEF Roots
  <1>5. ASSUME NEW c \in Children(n), NEW T \in SUBSET (Live \ Roots),
               Closed(Roots \cup T)
        PROVE  c \in Roots \cup T
    <2>1. n \in Roots \cup T
      BY <1>5 DEF Marked
    <2>2. QED
      BY <1>3, <1>4, <1>5, <2>1
  <1>6. QED
    BY <1>2, <1>5 DEF Marked

\* A table that bdd_makenode can work on: every part of the invariant that is
\* about the table alone.
TableOK == TableType /\ UniqueTable /\ ReducedOrdered /\ FreeListExact

\* What bdd_makenode asks of the node to come, if there is one: its children
\* are kept, and no node that is kept has its key.
NodeFits(keep, new, l, a, b) ==
  /\ new = {} \/ \E r : new = {r}
  /\ new # {} => /\ l \in 0..(VarNum - 1)
                 /\ a \in keep /\ b \in keep /\ a # b
                 /\ l < LEVEL[a] /\ l < LEVEL[b]
                 /\ \A n \in keep \ {0, 1} : ~(LEVEL[n] = l /\ LOW[n] = a /\ HIGH[n] = b)

\* The sweep, the resize and the slot taken after them leave a good table.
LEMMA RebuildTableOK ==
  ASSUME TableOK,
         NEW keep \in SUBSET Live, {0, 1} \subseteq keep,
         \A n \in keep : Children(n) \subseteq keep,
         NEW size \in bddnodesize..SlotBound,
         NEW new \in SUBSET ((0..(size-1)) \ keep),
         NEW l, NEW a, NEW b, NodeFits(keep, new, l, a, b),
         Rebuild(keep, size, new, l, a, b)
  PROVE  /\ TableOK'
         /\ Live' = keep \cup new
         /\ \A n \in keep : LEVEL'[n] = LEVEL[n] /\ LOW'[n] = LOW[n]
                            /\ HIGH'[n] = HIGH[n] /\ refcou'[n] = refcou[n]
         /\ \A n \in new : refcou'[n] = 0
  <1> USE SizeAssumption DEF NodeFits
  <1> DEFINE S == 0..(size - 1)
  <1>1. /\ size \in Nat /\ size <= SlotBound /\ bddnodesize <= size
        /\ bddnodesize \in Nat /\ 2 * VarNum + 2 <= size /\ VarNum \in Nat
    BY DEF TableOK, TableType
  <1>2. Slot' = S /\ Slot \subseteq S /\ keep \subseteq Slot
    BY <1>1 DEF Rebuild, Slot, Live
  <1>3. \A n \in keep : /\ LEVEL[n] \in 0..VarNum /\ LOW[n] \in Slot
                        /\ HIGH[n] \in Slot /\ refcou[n] \in 0..MaxRef
    BY <1>2 DEF TableOK, TableType, Live
  <1>4. \A n \in keep \ {0, 1} : LOW[n] \in keep /\ HIGH[n] \in keep
    BY <1>2 DEF Children, Live, Slot
  <1>5. \A n \in keep \cup new : n \in S
    BY <1>2
  <1>6. \A n \in keep : n \notin new
    OBVIOUS
  <1>7. \A n \in keep : /\ LEVEL'[n] = LEVEL[n] /\ LOW'[n] = LOW[n]
                        /\ HIGH'[n] = HIGH[n] /\ refcou'[n] = refcou[n]
    BY <1>5, <1>6 DEF Rebuild
  <1>8. \A n \in new : LEVEL'[n] = l /\ LOW'[n] = a /\ HIGH'[n] = b /\ refcou'[n] = 0
    BY <1>5 DEF Rebuild
  <1>9. \A n \in S \ (keep \cup new) : LOW'[n] = -1
    BY DEF Rebuild
  <1>10. Live' = keep \cup new
    <2>1. \A n \in keep : LOW'[n] # -1
      BY <1>7 DEF Live
    <2>2. \A n \in new : LOW'[n] # -1
      BY <1>8, <1>2, <1>1 DEF Slot
    <2>3. Live' = {n \in S : LOW'[n] # -1}
      BY <1>2 DEF Live
    <2>4. QED
      BY <2>1, <2>2, <2>3, <1>9, <1>5
  <1>11. IsFiniteSet(S) /\ Cardinality(S) = size
    BY <1>1, FS_Interval
  <1>12. /\ Cardinality(S \ (keep \cup new)) = size - Cardinality(keep \cup new)
         /\ size - Cardinality(keep \cup new) \in Nat
    <2>1. keep \cup new = S \cap (keep \cup new)
      BY <1>5
    <2>2. /\ IsFiniteSet(S \ (keep \cup new))
          /\ Cardinality(S \ (keep \cup new)) = size - Cardinality(keep \cup new)
      BY <1>11, <2>1, FS_Difference
    <2>3. QED
      BY <2>2, FS_CardinalityType
  <1>13. TableType'
    <2>1. ASSUME NEW n \in S
          PROVE  /\ LEVEL'[n] \in 0..VarNum
                 /\ LOW'[n] \in S \cup {-1}
                 /\ HIGH'[n] \in S
                 /\ refcou'[n] \in 0..MaxRef
      <3>1. CASE n \in keep
        BY <3>1, <1>7, <1>3, <1>2
      <3>2. CASE n \in new
        <4>1. l \in 0..VarNum /\ a \in S /\ b \in S
          BY <3>2, <1>1, <1>5
        <4>2. QED
          BY <3>2, <4>1, <1>8
      <3>3. CASE n \notin keep \cup new
        BY <3>3, <1>1 DEF Rebuild
      <3>4. QED
        BY <3>1, <3>2, <3>3
    <2>2. ASSUME NEW h \in S
          PROVE  chain'[h] \subseteq S
      BY <1>5 DEF Rebuild
    <2>3. bddfreenum' \in Nat /\ freelist' \subseteq S
      BY <1>12 DEF Rebuild, FreeNum
    <2>4. /\ LEVEL' = [n \in S |-> LEVEL'[n]]
          /\ LOW' = [n \in S |-> LOW'[n]]
          /\ HIGH' = [n \in S |-> HIGH'[n]]
          /\ refcou' = [n \in S |-> refcou'[n]]
          /\ chain' = [n \in S |-> chain'[n]]
      BY DEF Rebuild
    <2>5. bddnodesize' = size
      BY DEF Rebuild
    <2>6. QED
      BY <2>1, <2>2, <2>3, <2>4, <2>5, <1>1, <1>2 DEF TableType
  <1>14. UniqueTable'
    <2>1. ASSUME NEW h \in S
          PROVE  chain'[h] = {n \in (keep \cup new) \ {0, 1} :
                                h = NODEHASH(size, LEVEL'[n], LOW'[n], HIGH'[n])}
      <3>1. chain'[h] = {n \in keep \ {0, 1} : h = NODEHASH(size, LEVEL[n], LOW[n], HIGH[n])}
                          \cup (IF h = NODEHASH(size, l, a, b) THEN new ELSE {})
        BY DEF Rebuild, NewBucket
      <3>2. QED
        BY <3>1, <1>6, <1>7, <1>8
    <2>2. ASSUME NEW m \in (keep \cup new) \ {0, 1}, NEW n \in (keep \cup new) \ {0, 1},
                 LEVEL'[m] = LEVEL'[n], LOW'[m] = LOW'[n], HIGH'[m] = HIGH'[n]
          PROVE  m = n
      <3>1. CASE m \in keep /\ n \in keep
        BY <2>2, <3>1, <1>7 DEF TableOK, UniqueTable
      <3>2. CASE m \in new /\ n \in new
        BY <3>2
      <3>3. CASE m \in keep /\ n \in new
        BY <2>2, <3>3, <1>7, <1>8
      <3>4. CASE m \in new /\ n \in keep
        BY <2>2, <3>4, <1>7, <1>8
      <3>5. QED
        BY <3>1, <3>2, <3>3, <3>4
    <2>3. bddnodesize' = size
      BY DEF Rebuild
    <2>4. QED
      BY <2>1, <2>2, <2>3, <1>2, <1>10 DEF UniqueTable
  <1>15. ReducedOrdered'
    <2>1. ASSUME NEW n \in keep \ {0, 1}
          PROVE  /\ LOW'[n] # HIGH'[n]
                 /\ LOW'[n] \in keep /\ HIGH'[n] \in keep
                 /\ LEVEL'[n] < LEVEL'[LOW'[n]] /\ LEVEL'[n] < LEVEL'[HIGH'[n]]
      BY <1>4, <1>7 DEF TableOK, ReducedOrdered
    <2>2. ASSUME NEW n \in new
          PROVE  /\ LOW'[n] # HIGH'[n]
                 /\ LOW'[n] \in keep /\ HIGH'[n] \in keep
                 /\ LEVEL'[n] < LEVEL'[LOW'[n]] /\ LEVEL'[n] < LEVEL'[HIGH'[n]]
      BY <1>7, <1>8
    <2>3. QED
      BY <2>1, <2>2, <1>10 DEF ReducedOrdered
  <1>16. FreeListExact'
    <2>1. freelist' = Slot' \ Live'
      BY <1>2, <1>10 DEF Rebuild
    <2>2. \A n \in freelist' : refcou'[n] = 0
      BY DEF Rebuild
    <2>3. QED
      BY <2>1, <2>2, <1>2, <1>10, <1>12 DEF FreeListExact, Rebuild, FreeNum
  <1>17. QED
    BY <1>7, <1>8, <1>10, <1>13, <1>14, <1>15, <1>16 DEF TableOK

\* The level of a node has a good hash.
LEMMA NewBucketInRange ==
  ASSUME TableOK, NEW l \in 0..VarNum, NEW a \in Live, NEW b \in Live
  PROVE  NODEHASH(bddnodesize, l, a, b) \in Slot
  <1>1. bddnodesize \in Nat /\ bddnodesize > 0 /\ bddnodesize <= SlotBound
    BY SizeAssumption DEF TableOK, TableType
  <1>2. a \in 0..SlotBound /\ b \in 0..SlotBound
    BY <1>1, SizeAssumption DEF Live, Slot
  <1>3. QED
    BY <1>1, <1>2, HashInRange DEF Slot

\* If the chain of a key has no node with it, then no node has.
LEMMA NoMatch ==
  ASSUME TableOK, NEW l \in 0..VarNum, NEW a \in Live, NEW b \in Live,
         Matches(l, a, b) = {}
  PROVE  \A n \in Live \ {0, 1} : ~(LEVEL[n] = l /\ LOW[n] = a /\ HIGH[n] = b)
  <1>1. NODEHASH(bddnodesize, l, a, b) \in Slot
    BY NewBucketInRange
  <1>2. SUFFICES ASSUME NEW n \in Live \ {0, 1}, LEVEL[n] = l, LOW[n] = a, HIGH[n] = b
                 PROVE  FALSE
    OBVIOUS
  <1>3. n \in chain[NODEHASH(bddnodesize, l, a, b)]
    BY <1>1, <1>2 DEF TableOK, UniqueTable
  <1>4. QED
    BY <1>2, <1>3 DEF Matches

\* Taking the head of the free list leaves a good table.
LEMMA TakeNodeTableOK ==
  ASSUME TableOK, {0, 1} \subseteq Live,
         NEW l \in 0..(VarNum - 1), NEW a \in Live, NEW b \in Live,
         a # b, l < LEVEL[a], l < LEVEL[b], Matches(l, a, b) = {},
         NEW res, TakeNode(l, a, b, res)
  PROVE  /\ TableOK'
         /\ Live' = Live \cup {res}
         /\ res \notin Live
         /\ \A n \in Live : LEVEL'[n] = LEVEL[n] /\ LOW'[n] = LOW[n]
                            /\ HIGH'[n] = HIGH[n] /\ refcou'[n] = refcou[n]
         /\ refcou'[res] = 0
  <1> USE SizeAssumption
  <1> DEFINE B == NODEHASH(bddnodesize, l, a, b)
  <1>1. B \in Slot
    BY NewBucketInRange
  <1>2. res \in Slot /\ res \notin Live
    BY DEF TakeNode, TableOK, FreeListExact
  <1>3. Slot' = Slot /\ bddnodesize' = bddnodesize
    BY DEF TakeNode, Slot
  <1>4. \A n \in Slot : n # res => /\ LEVEL'[n] = LEVEL[n] /\ LOW'[n] = LOW[n]
                                   /\ HIGH'[n] = HIGH[n] /\ refcou'[n] = refcou[n]
    BY DEF TakeNode, TableOK, TableType
  <1>5. LEVEL'[res] = l /\ LOW'[res] = a /\ HIGH'[res] = b /\ refcou'[res] = 0
    BY <1>2 DEF TakeNode, TableOK, TableType
  <1>6. a \in Slot /\ b \in Slot /\ a # -1 /\ b # -1 /\ l \in 0..VarNum
    BY DEF Live, Slot
  <1>7. Live' = Live \cup {res}
    BY <1>2, <1>3, <1>4, <1>5, <1>6 DEF Live
  <1>8. \A n \in Live \ {0, 1} : ~(LEVEL[n] = l /\ LOW[n] = a /\ HIGH[n] = b)
    BY <1>6, NoMatch
  <1>9. FreeListExact'
    <2>1. freelist' = Slot' \ Live'
      BY <1>3, <1>7 DEF TakeNode, TableOK, FreeListExact
    <2>2. IsFiniteSet(freelist)
      <3>1. IsFiniteSet(Slot)
        BY FS_Interval DEF TableOK, TableType, Slot
      <3>2. QED
        BY <3>1, FS_Subset DEF TableOK, TableType
    <2>3. Cardinality(freelist') = Cardinality(freelist) - 1
      BY <2>2, FS_RemoveElement DEF TakeNode
    <2>4. \A n \in freelist' : refcou'[n] = 0
      BY <2>1, <1>2, <1>3, <1>4 DEF FreeListExact, TakeNode, TableOK
    <2>5. QED
      BY <2>1, <2>3, <2>4 DEF FreeListExact, TakeNode, TableOK
  <1>10. TableType'
    <2>1. Cardinality(freelist') \in Nat
      <3>1. IsFiniteSet(Slot)
        BY FS_Interval DEF TableOK, TableType, Slot
      <3>2. freelist' \subseteq Slot
        BY DEF TakeNode, TableOK, TableType
      <3>3. QED
        BY <3>1, <3>2, FS_Subset, FS_CardinalityType
    <2>2. bddfreenum' \in Nat
      BY <2>1, <1>9 DEF FreeListExact
    <2>3. chain' \in [Slot -> SUBSET Slot]
      BY <1>1, <1>2 DEF TakeNode, TableOK, TableType
    <2>4. /\ LEVEL' \in [Slot -> 0..VarNum] /\ LOW' \in [Slot -> Slot \cup {-1}]
          /\ HIGH' \in [Slot -> Slot] /\ refcou' \in [Slot -> 0..MaxRef]
      BY <1>2, <1>6 DEF TakeNode, TableOK, TableType
    <2>5. freelist' \subseteq Slot
      BY DEF TakeNode, TableOK, TableType
    <2>6. QED
      BY <2>2, <2>3, <2>4, <2>5, <1>3 DEF TableType, TableOK
  <1>11. UniqueTable'
    <2>1. ASSUME NEW h \in Slot
          PROVE  chain'[h] = {n \in (Live \cup {res}) \ {0, 1} :
                                h = NODEHASH(bddnodesize, LEVEL'[n], LOW'[n], HIGH'[n])}
      <3>1. chain[h] = {n \in Live \ {0, 1} :
                          h = NODEHASH(bddnodesize, LEVEL[n], LOW[n], HIGH[n])}
        BY DEF TableOK, UniqueTable
      <3>2. chain'[h] = IF h = B THEN chain[h] \cup {res} ELSE chain[h]
        BY <1>1 DEF TakeNode, TableOK, TableType
      <3>3. \A n \in Live \ {0, 1} : /\ LEVEL'[n] = LEVEL[n] /\ LOW'[n] = LOW[n]
                                     /\ HIGH'[n] = HIGH[n]
        BY <1>2, <1>4 DEF Live
      <3>4. res \notin {0, 1}
        BY <1>2
      <3>5. QED
        BY <3>1, <3>2, <3>3, <3>4, <1>5
    <2>2. ASSUME NEW m \in (Live \cup {res}) \ {0, 1}, NEW n \in (Live \cup {res}) \ {0, 1},
                 LEVEL'[m] = LEVEL'[n], LOW'[m] = LOW'[n], HIGH'[m] = HIGH'[n]
          PROVE  m = n
      BY <2>2, <1>2, <1>4, <1>5, <1>8 DEF TableOK, UniqueTable, Live
    <2>3. QED
      BY <2>1, <2>2, <1>3, <1>7 DEF UniqueTable
  <1>12. ReducedOrdered'
    <2>1. ASSUME NEW n \in Live \ {0, 1}
          PROVE  /\ LOW'[n] # HIGH'[n]
                 /\ LOW'[n] \in Live /\ HIGH'[n] \in Live
                 /\ LEVEL'[n] < LEVEL'[LOW'[n]] /\ LEVEL'[n] < LEVEL'[HIGH'[n]]
      <3>1. /\ LOW[n] # HIGH[n]
            /\ LOW[n] \in Live /\ HIGH[n] \in Live
            /\ LEVEL[n] < LEVEL[LOW[n]] /\ LEVEL[n] < LEVEL[HIGH[n]]
        BY DEF TableOK, ReducedOrdered
      <3>2. \A m \in Live : LEVEL'[m] = LEVEL[m] /\ LOW'[m] = LOW[m] /\ HIGH'[m] = HIGH[m]
        BY <1>2, <1>4 DEF Live
      <3>3. QED
        BY <3>1, <3>2
    <2>2. /\ LOW'[res] # HIGH'[res]
          /\ LOW'[res] \in Live /\ HIGH'[res] \in Live
          /\ LEVEL'[res] < LEVEL'[LOW'[res]] /\ LEVEL'[res] < LEVEL'[HIGH'[res]]
      BY <1>2, <1>4, <1>5 DEF Live
    <2>3. QED
      BY <2>1, <2>2, <1>7 DEF ReducedOrdered
  <1>13. QED
    BY <1>2, <1>4, <1>5, <1>7, <1>9, <1>10, <1>11, <1>12 DEF TableOK, Live

----------------------------------------------------------------------------
\* What the client holds, what is on the reference stack and the literals
\* are roots, so every collection marks them.
LEMMA ProtectedSurvive ==
  ASSUME IInv
  PROVE  /\ Roots \subseteq Survivors
         /\ Survivors \subseteq Live
         /\ \A n \in 0..(2 * VarNum + 1) : n \in Roots
         /\ \A i \in DOMAIN bddrefstack : bddrefstack[i] \in Roots
         /\ \A n \in 0..SlotBound : held[n] > 0 => n \in Roots
         /\ \A n \in Survivors : Children(n) \subseteq Survivors
  <1> USE SizeAssumption
  <1>1. \A n \in 0..(2 * VarNum + 1) : n \in Roots
    BY DEF IInv, LiteralsStay, Roots
  <1>2. \A i \in DOMAIN bddrefstack : bddrefstack[i] \in Roots
    BY DEF IInv, ProtectedLive, Roots
  <1>3. ASSUME NEW n \in 0..SlotBound, held[n] > 0
        PROVE  n \in Roots
    <2>1. n \in Live /\ (refcou[n] = held[n] \/ refcou[n] = MaxRef)
      BY <1>3 DEF IInv, ProtectedLive
    <2>2. QED
      BY <2>1, <1>3 DEF Roots
  <1>4. {0, 1} \subseteq Roots
    BY <1>1
  <1>5. Survivors = Marked
    BY <1>4, RootsMarked DEF Survivors
  <1>6. \A n \in Survivors : Children(n) \subseteq Survivors
    BY <1>5, MarkedClosed DEF IInv
  <1>7. QED
    BY <1>1, <1>2, <1>3, <1>5, <1>6, RootsMarked, MarkedLive

\* A step that leaves the table alone, and counts no reference on a free
\* slot, leaves a good table.
LEMMA SameTable ==
  ASSUME TableOK, UNCHANGED table,
         refcou' \in [Slot -> 0..MaxRef], \A n \in freelist : refcou'[n] = 0
  PROVE  /\ TableOK' /\ Live' = Live /\ Slot' = Slot /\ bddnodesize' = bddnodesize
         /\ \A n : SameNode(n)
  <1>1. /\ bddnodesize' = bddnodesize /\ LEVEL' = LEVEL /\ LOW' = LOW /\ HIGH' = HIGH
        /\ chain' = chain /\ freelist' = freelist /\ bddfreenum' = bddfreenum
    BY DEF table
  <1>2. Slot' = Slot
    BY <1>1 DEF Slot
  <1>3. Live' = Live
    BY <1>1, <1>2 DEF Live
  <1>4. TableType' /\ FreeListExact'
    BY <1>1, <1>2, <1>3 DEF TableOK, TableType, FreeListExact
  <1>5. UniqueTable' = UniqueTable
    BY <1>1, <1>2, <1>3 DEF UniqueTable, NODEHASH
  <1>6. ReducedOrdered' = ReducedOrdered
    BY <1>1, <1>3 DEF ReducedOrdered
  <1>7. QED
    BY <1>1, <1>2, <1>3, <1>4, <1>5, <1>6 DEF TableOK, SameNode

\* What bdd_makenode does to the table, whichever way it takes: the table
\* stays good, what is protected stays as it is, and the other nodes are
\* as they were, are gone, or are the new one, with a count of zero.
LEMMA MakeNodeTableOK ==
  ASSUME IInv, NEW l \in 0..(VarNum - 1), NEW a \in Roots, NEW b \in Roots,
         l < LEVEL[a], l < LEVEL[b],
         NEW res, bdd_makenode(l, a, b, res)
  PROVE  /\ TableOK'
         /\ res \in Live'
         /\ bdderrorcond' \in BOOLEAN
         /\ bddnodesize <= bddnodesize'
         /\ Survivors \subseteq Live'
         /\ \A n \in Survivors : SameNode(n) /\ refcou'[n] = refcou[n]
         /\ \A n \in Live' : \/ n \in Live /\ refcou'[n] = refcou[n]
                             \/ n \notin Roots /\ refcou'[n] = 0
  <1> USE SizeAssumption
  <1>1. TableOK /\ bdderrorcond \in BOOLEAN /\ bddnodesize \in Nat
        /\ bddnodesize <= SlotBound /\ SlotBound \in Nat
    BY DEF IInv, TypeOK, TableOK, TableType
  <1>2. /\ Roots \subseteq Survivors /\ Survivors \subseteq Live
        /\ \A n \in Survivors : Children(n) \subseteq Survivors
    BY ProtectedSurvive
  <1>3. 0 \in Roots /\ 1 \in Roots
    BY ProtectedSurvive
  <1>4. ASSUME UNCHANGED <<table, refcou>>
        PROVE  /\ TableOK' /\ Live' = Live
               /\ \A n \in Live : SameNode(n) /\ refcou'[n] = refcou[n]
               /\ bddnodesize' = bddnodesize
    <2>1. UNCHANGED table /\ refcou' = refcou
      BY <1>4
    <2>2. refcou' \in [Slot -> 0..MaxRef] /\ \A n \in freelist : refcou'[n] = 0
      BY <1>1, <2>1 DEF TableOK, TableType, FreeListExact
    <2>3. QED
      BY <1>1, <2>1, <2>2, SameTable
  <1>5. CASE a = b /\ res = a /\ UNCHANGED <<table, refcou, bdderrorcond>>
    BY <1>1, <1>2, <1>4, <1>5
  <1>6. CASE FindNode(l, a, b, res)
    <2>1. NODEHASH(bddnodesize, l, a, b) \in Slot
      BY <1>1, <1>2, NewBucketInRange
    <2>2. res \in Live
      BY <1>1, <1>6, <2>1 DEF FindNode, Matches, TableOK, UniqueTable
    <2>3. QED
      BY <1>1, <1>2, <1>4, <1>6, <2>2 DEF FindNode
  <1>7. CASE a # b /\ Matches(l, a, b) = {} /\ TakeNode(l, a, b, res)
    <2>1. /\ TableOK'
          /\ Live' = Live \cup {res} /\ res \notin Live
          /\ \A n \in Live : LEVEL'[n] = LEVEL[n] /\ LOW'[n] = LOW[n]
                             /\ HIGH'[n] = HIGH[n] /\ refcou'[n] = refcou[n]
          /\ refcou'[res] = 0
      <3>1. {0, 1} \subseteq Live /\ a \in Live /\ b \in Live
        BY <1>2, <1>3
      <3>2. QED
        BY <1>1, <1>7, <3>1, TakeNodeTableOK
    <2>2. bdderrorcond' = bdderrorcond /\ bddnodesize' = bddnodesize
      BY <1>7 DEF TakeNode
    <2>3. QED
      BY <1>1, <1>2, <2>1, <2>2 DEF SameNode
  <1>8. CASE a # b /\ Matches(l, a, b) = {} /\ CollectAndTakeNode(l, a, b, res)
    <2>1. PICK size \in bddnodesize..SlotBound :
            res \in (0..(size-1)) \ Survivors /\ Rebuild(Survivors, size, {res}, l, a, b)
      BY <1>8 DEF CollectAndTakeNode
    <2>2. \A n \in Live \ {0, 1} : ~(LEVEL[n] = l /\ LOW[n] = a /\ HIGH[n] = b)
      BY <1>1, <1>2, <1>8, NoMatch
    <2>3. /\ l \in 0..(VarNum - 1) /\ a \in Survivors /\ b \in Survivors /\ a # b
          /\ \A n \in Survivors \ {0, 1} : ~(LEVEL[n] = l /\ LOW[n] = a /\ HIGH[n] = b)
          /\ {0, 1} \subseteq Survivors /\ {res} \subseteq (0..(size-1)) \ Survivors
          /\ Survivors \in SUBSET Live
      BY <1>2, <1>3, <1>8, <2>1, <2>2
    <2>4. /\ TableOK' /\ Live' = Survivors \cup {res}
          /\ \A n \in Survivors : LEVEL'[n] = LEVEL[n] /\ LOW'[n] = LOW[n]
                                  /\ HIGH'[n] = HIGH[n] /\ refcou'[n] = refcou[n]
          /\ \A n \in {res} : refcou'[n] = 0
      <3> DEFINE K == Survivors  N == {res}
      <3>1. N = {} \/ \E r : N = {r}
        OBVIOUS
      <3>2. /\ TableOK /\ size \in bddnodesize..SlotBound
            /\ K \in SUBSET Live /\ {0, 1} \subseteq K
            /\ \A n \in K : Children(n) \subseteq K
            /\ N \in SUBSET ((0..(size-1)) \ K)
            /\ Rebuild(K, size, N, l, a, b)
        BY <1>1, <1>2, <2>1, <2>3
      <3>3. NodeFits(K, N, l, a, b)
        BY <2>3, <3>1 DEF NodeFits
      <3> HIDE DEF K, N
      <3>4. /\ TableOK' /\ Live' = K \cup N
            /\ \A n \in K : LEVEL'[n] = LEVEL[n] /\ LOW'[n] = LOW[n]
                           /\ HIGH'[n] = HIGH[n] /\ refcou'[n] = refcou[n]
            /\ \A n \in N : refcou'[n] = 0
        BY <3>2, <3>3, RebuildTableOK
      <3>5. QED
        BY <3>4 DEF K, N
    <2>5. bdderrorcond' = bdderrorcond /\ bddnodesize <= bddnodesize'
      BY <1>1, <1>8, <2>1 DEF CollectAndTakeNode, Rebuild
    <2>6. QED
      BY <1>1, <1>2, <2>1, <2>4, <2>5 DEF SameNode
  <1>9. CASE ExhaustNodes(res)
    <2>1. Survivors = Live /\ Rebuild(Survivors, bddnodesize, {}, 0, 0, 0)
      BY <1>2, <1>9 DEF ExhaustNodes, Live
    <2>2. /\ TableOK' /\ Live' = Survivors
          /\ \A n \in Survivors : LEVEL'[n] = LEVEL[n] /\ LOW'[n] = LOW[n]
                                  /\ HIGH'[n] = HIGH[n] /\ refcou'[n] = refcou[n]
      <3> DEFINE K == Survivors  N == {}
      <3>1. /\ K \in SUBSET Live /\ {0, 1} \subseteq K
            /\ \A n \in K : Children(n) \subseteq K
            /\ N \in SUBSET ((0..(bddnodesize-1)) \ K) /\ N = {}
            /\ Rebuild(K, bddnodesize, N, 0, 0, 0)
            /\ bddnodesize \in bddnodesize..SlotBound /\ NodeFits(K, N, 0, 0, 0)
        BY <1>1, <1>2, <1>3, <2>1 DEF NodeFits
      <3> HIDE DEF K, N
      <3>2. /\ TableOK' /\ Live' = K \cup N
            /\ \A n \in K : LEVEL'[n] = LEVEL[n] /\ LOW'[n] = LOW[n]
                           /\ HIGH'[n] = HIGH[n] /\ refcou'[n] = refcou[n]
        BY <1>1, <3>1, RebuildTableOK
      <3>3. QED
        BY <3>2 DEF K, N
    <2>3. bdderrorcond' = TRUE /\ res = 0 /\ bddnodesize' = bddnodesize
      BY <1>9 DEF ExhaustNodes, Rebuild
    <2>4. QED
      BY <1>1, <1>2, <1>3, <2>1, <2>2, <2>3 DEF SameNode
  <1>10. CASE RefuseNode(res)
    BY <1>1, <1>2, <1>3, <1>4, <1>10 DEF RefuseNode
  <1>11. QED
    BY <1>5, <1>6, <1>7, <1>8, <1>9, <1>10 DEF bdd_makenode

----------------------------------------------------------------------------
\* The inductive invariant.

\* bdd_init and bdd_setvarnum leave a good table with nothing but literals.
LEMMA InitIInv == Init => IInv
  <1> USE SizeAssumption
  <1> DEFINE Used == 0..(2 * VarNum + 1)
  <1> SUFFICES ASSUME Init PROVE IInv
    OBVIOUS
  <1>1. /\ VarNum \in Nat /\ VarNum > 0 /\ InitSize \in Nat /\ 2 * VarNum + 2 <= InitSize
        /\ InitSize <= SlotBound /\ SlotBound \in Nat /\ bddnodesize = InitSize
        /\ Slot = 0..(InitSize - 1) /\ Used \subseteq Slot
    BY DEF Init, Slot
  <1>2. \A n \in Slot : LOW[n] # -1 <=> n \in Used
    BY <1>1 DEF Init, InitLow, VarNode
  <1>3. Live = Used
    BY <1>1, <1>2 DEF Live
  <1>4. TableType
    <2>1. LEVEL \in [Slot -> 0..VarNum]
      BY <1>1 DEF Init, InitLevel, VarNode
    <2>2. LOW \in [Slot -> Slot \cup {-1}]
      BY <1>1 DEF Init, InitLow, VarNode
    <2>3. HIGH \in [Slot -> Slot]
      BY <1>1 DEF Init, InitHigh, VarNode
    <2>4. refcou \in [Slot -> 0..MaxRef]
      BY <1>1 DEF Init
    <2>5. chain \in [Slot -> SUBSET Slot]
      BY <1>1 DEF Init
    <2>6. freelist \subseteq Slot /\ bddfreenum \in Nat
      BY <1>1 DEF Init
    <2>7. QED
      BY <1>1, <2>1, <2>2, <2>3, <2>4, <2>5, <2>6 DEF TableType
  <1>5. \A n \in Used \ {0, 1} : /\ LEVEL[n] = (n - 2) \div 2
                                 /\ LOW[n] = n % 2 /\ HIGH[n] = 1 - (n % 2)
    BY <1>1 DEF Init, InitLevel, InitLow, InitHigh, VarNode
  <1>6. UniqueTable
    <2>1. ASSUME NEW h \in Slot
          PROVE  chain[h] = {n \in Live \ {0, 1} :
                               h = NODEHASH(bddnodesize, LEVEL[n], LOW[n], HIGH[n])}
      <3>1. chain[h] = {n \in 2..(2*VarNum + 1) :
                          h = NODEHASH(InitSize, InitLevel[n], InitLow[n], InitHigh[n])}
        BY <1>1 DEF Init
      <3>2. Live \ {0, 1} = 2..(2*VarNum + 1)
        BY <1>1, <1>3
      <3>3. LEVEL = InitLevel /\ LOW = InitLow /\ HIGH = InitHigh
        BY DEF Init
      <3>4. QED
        BY <1>1, <3>1, <3>2, <3>3
    <2>2. ASSUME NEW m \in Live \ {0, 1}, NEW n \in Live \ {0, 1},
                 LEVEL[m] = LEVEL[n], LOW[m] = LOW[n]
          PROVE  m = n
      <3>1. (m - 2) \div 2 = (n - 2) \div 2 /\ m % 2 = n % 2 /\ m \in Nat /\ n \in Nat
        BY <1>1, <1>3, <1>5, <2>2
      <3>2. QED
        BY <3>1
    <2>3. QED
      BY <2>1, <2>2 DEF UniqueTable
  <1>7. ReducedOrdered
    <2>1. LEVEL[0] = VarNum /\ LEVEL[1] = VarNum
      BY <1>1 DEF Init, InitLevel
    <2>2. ASSUME NEW n \in Live \ {0, 1}
          PROVE  /\ LOW[n] # HIGH[n]
                 /\ LOW[n] \in Live /\ HIGH[n] \in Live
                 /\ LEVEL[n] < LEVEL[LOW[n]] /\ LEVEL[n] < LEVEL[HIGH[n]]
      <3>1. n \in Int /\ n >= 2 /\ n <= 2 * VarNum + 1
        BY <1>1, <1>3
      <3>2. LOW[n] = n % 2 /\ HIGH[n] = 1 - (n % 2) /\ LEVEL[n] = (n - 2) \div 2
        BY <1>3, <1>5
      <3>3. LOW[n] \in {0, 1} /\ HIGH[n] \in {0, 1} /\ LOW[n] # HIGH[n]
        BY <3>1, <3>2
      <3>4. LEVEL[n] < VarNum
        BY <3>1, <3>2, <1>1
      <3>5. 0 \in Live /\ 1 \in Live
        BY <1>1, <1>3
      <3>6. QED
        BY <2>1, <3>3, <3>4, <3>5
    <2>3. QED
      BY <2>2 DEF ReducedOrdered
  <1>8. FreeListExact
    <2>1. freelist = Slot \ Live /\ freelist = (2*VarNum + 2)..(InitSize - 1)
      <3>1. freelist = (2*VarNum + 2)..(InitSize - 1)
        BY DEF Init
      <3>2. \A n : n \in freelist <=> n \in Slot /\ n \notin Live
        BY <1>1, <1>3, <3>1
      <3>3. QED
        BY <3>1, <3>2
    <2>2. Cardinality(freelist) = InitSize - (2*VarNum + 2)
      <3>1. 2 * VarNum + 2 \in Int /\ InitSize - 1 \in Int
        BY <1>1
      <3>2. Cardinality(freelist) =
              IF 2 * VarNum + 2 > InitSize - 1 THEN 0
              ELSE (InitSize - 1) - (2 * VarNum + 2) + 1
        BY <2>1, <3>1, FS_Interval
      <3>3. QED
        BY <1>1, <3>2
    <2>3. \A n \in freelist : refcou[n] = 0
      BY <1>1, <2>1 DEF Init, VarNode
    <2>4. QED
      BY <2>1, <2>2, <2>3 DEF FreeListExact, Init
  <1>9. TypeOK
    <2>1. /\ bddmaxnodesize \in Nat /\ bddmaxnodeincrease \in Nat
          /\ minfreenodes \in 0..100
      BY ParameterAssumption DEF Init
    <2>2. bdderrorcond \in BOOLEAN /\ bddrefstack \in Seq(Slot)
      <3>1. bdderrorcond = FALSE /\ bddrefstack = <<>>
        BY Zenon DEF Init
      <3>2. <<>> \in Seq(Slot)
        OBVIOUS
      <3>3. QED
        BY <3>1, <3>2
    <2>3. result \in Slot /\ held \in [0..SlotBound -> Nat]
      BY <1>1 DEF Init
    <2>4. QED
      BY <1>4, <2>1, <2>2, <2>3 DEF TypeOK
  <1>10. ProtectedLive
    BY <1>1, <1>3 DEF ProtectedLive, Init, VarNode
  <1>11. LiteralsStay
    BY <1>1, <1>3 DEF LiteralsStay, Init, VarNode
  <1>12. QED
    BY <1>6, <1>7, <1>8, <1>9, <1>10, <1>11 DEF IInv, Idle, Init

\* The steps that leave every node and every reference as it is.
LEMMA QuietStep ==
  ASSUME IInv, UNCHANGED <<table, refcou, held>>,
         bddmaxnodesize' \in Nat, bddmaxnodeincrease' \in Nat,
         minfreenodes' \in 0..100, bdderrorcond' \in BOOLEAN,
         bddrefstack' \in Seq(Live), result' \in Live,
         bddrefstack' # <<>> => result' = 0
  PROVE  IInv'
  <1> USE SizeAssumption
  <1>1. TableOK /\ UNCHANGED table /\ refcou' = refcou /\ held' = held
    BY DEF IInv, TypeOK, TableOK
  <1>2. refcou' \in [Slot -> 0..MaxRef] /\ \A n \in freelist : refcou'[n] = 0
    BY <1>1 DEF TableOK, TableType, FreeListExact
  <1>3. TableOK' /\ Live' = Live /\ Slot' = Slot /\ bddnodesize' = bddnodesize
        /\ \A n : SameNode(n)
    BY <1>1, <1>2, SameTable
  <1>4. Live \subseteq Slot
    BY DEF Live
  <1>5. bddrefstack' \in Seq(Slot)' /\ \A i \in DOMAIN bddrefstack' : bddrefstack'[i] \in Live'
    BY <1>3, <1>4
  <1>6. TypeOK'
    BY <1>1, <1>3, <1>4, <1>5 DEF TypeOK, IInv, TableOK
  <1>7. ProtectedLive'
    BY <1>1, <1>3, <1>5 DEF ProtectedLive, IInv
  <1>8. LiteralsStay'
    BY <1>1, <1>3 DEF LiteralsStay, IInv, SameNode
  <1>9. QED
    BY <1>3, <1>6, <1>7, <1>8 DEF IInv, TableOK, Idle

\* bdd_gbc called by the program: what it did not protect is gone, and the
\* rest is as it was.
LEMMA GbcIInv == IInv /\ Gbc => IInv'
  <1> USE SizeAssumption
  <1> SUFFICES ASSUME IInv, Gbc PROVE IInv'
    OBVIOUS
  <1> DEFINE K == Survivors  N == {}
  <1>1. TableOK /\ bddnodesize \in Nat /\ bddnodesize <= SlotBound /\ SlotBound \in Nat
    BY DEF IInv, TypeOK, TableOK, TableType
  <1>2. /\ Roots \subseteq K /\ K \subseteq Live
        /\ \A n \in K : Children(n) \subseteq K
        /\ \A n \in 0..(2 * VarNum + 1) : n \in K
        /\ \A n \in 0..SlotBound : held[n] > 0 => n \in K
    BY ProtectedSurvive
  <1>3. 0 \in K /\ 1 \in K
    BY <1>2
  <1>4. /\ K \in SUBSET Live /\ {0, 1} \subseteq K
        /\ \A n \in K : Children(n) \subseteq K
        /\ N \in SUBSET ((0..(bddnodesize-1)) \ K) /\ N = {}
        /\ Rebuild(K, bddnodesize, N, 0, 0, 0)
        /\ bddnodesize \in bddnodesize..SlotBound /\ NodeFits(K, N, 0, 0, 0)
    BY <1>1, <1>2, <1>3 DEF Gbc, NodeFits
  <1>5. /\ result' = IF result \in K THEN result ELSE 0
        /\ UNCHANGED <<limits, bdderrorcond, bddrefstack, held>>
        /\ bddrefstack = <<>>
    BY DEF Gbc, Idle
  <1> HIDE DEF K, N
  <1>6. /\ TableOK' /\ Live' = K \cup N
        /\ \A n \in K : LEVEL'[n] = LEVEL[n] /\ LOW'[n] = LOW[n]
                       /\ HIGH'[n] = HIGH[n] /\ refcou'[n] = refcou[n]
    BY <1>1, <1>4, RebuildTableOK
  <1>7. Live' = K /\ Live' \subseteq Slot'
    BY <1>4, <1>6 DEF Live
  <1>8. TypeOK'
    <2>1. bddrefstack' \in Seq(Slot)'
      BY <1>5
    <2>2. result' \in Slot'
      BY <1>3, <1>5, <1>7
    <2>3. QED
      BY <1>5, <1>6, <2>1, <2>2 DEF TypeOK, IInv, TableOK, limits
  <1>9. ProtectedLive'
    <2>1. \A n \in 0..SlotBound : held'[n] > 0 => n \in Live'
      BY <1>2, <1>5, <1>7
    <2>2. \A n \in Live' : refcou'[n] = held'[n] \/ refcou'[n] = MaxRef
      BY <1>2, <1>5, <1>6, <1>7 DEF ProtectedLive, IInv
    <2>3. result' \in Live'
      BY <1>3, <1>5, <1>7
    <2>4. QED
      BY <1>5, <2>1, <2>2, <2>3 DEF ProtectedLive
  <1>10. LiteralsStay'
    BY <1>2, <1>3, <1>6, <1>7 DEF LiteralsStay, IInv
  <1>11. QED
    BY <1>5, <1>6, <1>8, <1>9, <1>10 DEF IInv, TableOK, Idle

\* bdd_makenode on two nodes that are protected, by an operation that leaves
\* on the reference stack what was protected and the node it made.
LEMMA MakeNodeStep ==
  ASSUME IInv, NEW l \in 0..(VarNum - 1), NEW a \in Roots, NEW b \in Roots,
         l < LEVEL[a], l < LEVEL[b],
         NEW n, bdd_makenode(l, a, b, n),
         UNCHANGED <<limits, held>>, result = 0, result' = 0,
         bddrefstack' \in Seq(Survivors \cup {n})
  PROVE  IInv'
  <1> USE SizeAssumption
  <1>1. /\ TableOK'
        /\ n \in Live'
        /\ bdderrorcond' \in BOOLEAN
        /\ bddnodesize <= bddnodesize'
        /\ Survivors \subseteq Live'
        /\ \A m \in Survivors : SameNode(m) /\ refcou'[m] = refcou[m]
        /\ \A m \in Live' : \/ m \in Live /\ refcou'[m] = refcou[m]
                            \/ m \notin Roots /\ refcou'[m] = 0
    BY MakeNodeTableOK
  <1>2. /\ Roots \subseteq Survivors
        /\ \A m \in 0..(2 * VarNum + 1) : m \in Roots
        /\ \A m \in 0..SlotBound : held[m] > 0 => m \in Roots
    BY ProtectedSurvive
  <1>3. UNCHANGED limits /\ held' = held
    OBVIOUS
  <1>4. Live' \subseteq Slot' /\ 0 \in Live'
    BY <1>1, <1>2 DEF Live
  <1>5. /\ bddrefstack' \in Seq(Slot')
        /\ \A i \in DOMAIN bddrefstack' : bddrefstack'[i] \in Live'
    <2>1. Survivors \cup {n} \subseteq Live'
      BY <1>1
    <2>2. bddrefstack' \in Seq(Live')
      BY <2>1
    <2>3. QED
      BY <1>4, <2>2
  <1>6. TypeOK'
    BY <1>1, <1>3, <1>4, <1>5 DEF TypeOK, IInv, TableOK, limits
  <1>7. ProtectedLive'
    <2>1. \A m \in 0..SlotBound : held'[m] > 0 => m \in Live'
      BY <1>1, <1>2, <1>3
    <2>2. ASSUME NEW m \in Live' PROVE refcou'[m] = held'[m] \/ refcou'[m] = MaxRef
      <3>1. CASE m \in Live /\ refcou'[m] = refcou[m]
        BY <3>1, <1>3 DEF IInv, ProtectedLive
      <3>2. CASE m \notin Roots /\ refcou'[m] = 0
        <4>1. m \in 0..SlotBound
          <5> DEFINE size == bddnodesize'
          <5>1. size \in Nat /\ size <= SlotBound /\ SlotBound \in Nat
            BY <1>1 DEF TableOK, TableType
          <5>2. m \in 0..(size - 1)
            BY <1>4 DEF Slot
          <5> HIDE DEF size
          <5>3. QED
            BY <5>1, <5>2
        <4>2. held[m] \in Nat /\ ~(held[m] > 0)
          BY <3>2, <4>1, <1>2 DEF IInv, TypeOK
        <4>3. QED
          BY <3>2, <4>2, <1>3
      <3>3. QED
        BY <3>1, <3>2, <1>1
    <2>3. QED
      BY <1>3, <1>4, <1>5, <2>1, <2>2 DEF ProtectedLive
  <1>8. LiteralsStay'
    BY <1>1, <1>2 DEF LiteralsStay, IInv, SameNode
  <1>9. QED
    BY <1>1, <1>6, <1>7, <1>8 DEF IInv, TableOK

\* What bdd_makenode returns: the node of its key, one of its two equal
\* children, or 0 with an error if the key has no node.
LEMMA MakeNodeResult ==
  ASSUME IInv, NEW l \in 0..(VarNum - 1), NEW a \in Roots, NEW b \in Roots,
         l < LEVEL[a], l < LEVEL[b],
         NEW res, bdd_makenode(l, a, b, res)
  PROVE  \/ a = b /\ res = a /\ UNCHANGED bdderrorcond
         \/ /\ a # b /\ LEVEL'[res] = l /\ LOW'[res] = a /\ HIGH'[res] = b /\ res \notin {0, 1}
            /\ UNCHANGED bdderrorcond
         \/ res = 0 /\ bdderrorcond' = TRUE /\ a # b /\ Matches(l, a, b) = {}
  <1> USE SizeAssumption
  <1>1. TableOK /\ bddnodesize \in Nat /\ {0, 1} \subseteq Live
        /\ a \in Live /\ b \in Live /\ l \in 0..VarNum
    <2>1. TableOK /\ bddnodesize \in Nat
      BY DEF IInv, TypeOK, TableOK, TableType
    <2>2. 0 \in Live /\ 1 \in Live
      BY DEF IInv, LiteralsStay, SizeAssumption
    <2>3. a \in Live /\ b \in Live
      BY DEF Roots
    <2>4. l \in 0..VarNum
      BY DEF SizeAssumption
    <2>5. QED
      BY <2>1, <2>2, <2>3, <2>4
  <1>2. {0, 1} \subseteq Survivors
    BY DEF Survivors
  <1>3. CASE FindNode(l, a, b, res) /\ a # b
    <2>1. NODEHASH(bddnodesize, l, a, b) \in Slot
      BY <1>1, NewBucketInRange
    <2>2. res \in Live \ {0, 1}
      BY <1>1, <1>3, <2>1 DEF FindNode, Matches, TableOK, UniqueTable
    <2>3. QED
      BY <1>3, <2>2 DEF FindNode, Matches, table
  <1>4. CASE TakeNode(l, a, b, res) /\ a # b
    <2>1. res \in Slot /\ res \notin Live
      BY <1>1, <1>4 DEF TakeNode, TableOK, FreeListExact
    <2>2. LEVEL'[res] = l /\ LOW'[res] = a /\ HIGH'[res] = b
      BY <1>1, <1>4, <2>1 DEF TakeNode, TableOK, TableType
    <2>3. QED
      BY <1>1, <1>4, <2>1, <2>2 DEF TakeNode
  <1>5. CASE CollectAndTakeNode(l, a, b, res) /\ a # b
    <2>1. PICK size \in bddnodesize..SlotBound :
            res \in (0..(size-1)) \ Survivors /\ Rebuild(Survivors, size, {res}, l, a, b)
      BY <1>5 DEF CollectAndTakeNode
    <2>2. LEVEL'[res] = l /\ LOW'[res] = a /\ HIGH'[res] = b
      BY <2>1 DEF Rebuild
    <2>3. QED
      BY <1>2, <1>5, <2>1, <2>2 DEF CollectAndTakeNode
  <1>6. CASE res = 0 /\ bdderrorcond' = TRUE /\ a # b /\ Matches(l, a, b) = {}
    BY <1>6
  <1>7. a # b /\ Matches(l, a, b) = {} /\ ExhaustNodes(res) => res = 0 /\ bdderrorcond' = TRUE
    BY DEF ExhaustNodes
  <1>8. a # b /\ Matches(l, a, b) = {} /\ bdderrorcond /\ RefuseNode(res) => res = 0 /\ bdderrorcond' = TRUE
    BY DEF RefuseNode, IInv, TypeOK
  <1>9. QED
    BY <1>3, <1>4, <1>5, <1>6, <1>7, <1>8 DEF bdd_makenode

\* bdd_makenode on the two results on top of the reference stack.
LEMMA MakeNodeIInv == ASSUME IInv, NEW l \in 0..(VarNum - 1), MakeNode(l) PROVE IInv'
  <1> USE SizeAssumption
  <1> DEFINE depth == Len(bddrefstack)
             a == bddrefstack[depth - 1]
             b == bddrefstack[depth]
             rest == SubSeq(bddrefstack, 1, depth - 2)
  <1>1. /\ bddrefstack \in Seq(Slot) /\ depth \in Nat /\ depth >= 2
        /\ depth - 1 \in DOMAIN bddrefstack /\ depth \in DOMAIN bddrefstack
    BY DEF MakeNode, IInv, TypeOK
  <1>2. PICK n \in 0..(SlotBound-1) : /\ bdd_makenode(l, a, b, n)
                                     /\ bddrefstack' = Append(rest, n)
    BY DEF MakeNode
  <1>3. l < LEVEL[a] /\ l < LEVEL[b] /\ UNCHANGED <<limits, held>> /\ result' = result
    BY DEF MakeNode
  <1>4. a \in Roots /\ b \in Roots /\ result = 0
    BY <1>1, ProtectedSurvive DEF IInv, Idle
  <1>5. bddrefstack' \in Seq(Survivors \cup {n})
    <2>1. \A i \in DOMAIN bddrefstack : bddrefstack[i] \in Survivors
      BY ProtectedSurvive
    <2>2. rest = [i \in 1..(depth - 2) |-> bddrefstack[i]]
      BY <1>1
    <2>3. \A i \in 1..(depth - 2) : bddrefstack[i] \in Survivors \cup {n}
      BY <1>1, <2>1
    <2>4. rest \in Seq(Survivors \cup {n})
      BY <1>1, <2>2, <2>3
    <2>5. QED
      BY <1>2, <2>4
  <1> HIDE DEF a, b, rest
  <1>6. QED
    BY <1>2, <1>3, <1>4, <1>5, MakeNodeStep

\* bdd_addref and bdd_delref: the count of the table follows the client's,
\* or has saturated.
LEMMA CountIInv ==
  ASSUME IInv, NEW n \in Live, NEW count \in 0..MaxRef, NEW mine \in Nat,
         count = mine \/ count = MaxRef, n <= 2 * VarNum + 1 => count = MaxRef,
         refcou' = [refcou EXCEPT ![n] = count],
         held' = [held EXCEPT ![n] = mine],
         UNCHANGED <<table, limits, bdderrorcond, bddrefstack, result>>
  PROVE  IInv'
  <1> USE SizeAssumption
  <1>1. TableOK /\ UNCHANGED table /\ n \in Live /\ n \in 0..SlotBound
    <2>1. TableOK
      BY DEF IInv, TypeOK, TableOK
    <2>2. n \in 0..SlotBound
      BY <2>1 DEF TableOK, TableType, Live, Slot
    <2>3. QED
      BY <2>1, <2>2
  <1>2. refcou' \in [Slot -> 0..MaxRef] /\ \A m \in freelist : refcou'[m] = 0
    BY <1>1 DEF TableOK, TableType, FreeListExact
  <1>3. TableOK' /\ Live' = Live /\ Slot' = Slot /\ \A m : SameNode(m)
    BY <1>1, <1>2, SameTable
  <1>4. \A m \in 0..SlotBound : held'[m] = IF m = n THEN mine ELSE held[m]
    BY <1>1 DEF IInv, TypeOK
  <1>5. \A m \in Slot : refcou'[m] = IF m = n THEN count ELSE refcou[m]
    BY <1>1 DEF TableOK, TableType
  <1>6. Slot \subseteq 0..SlotBound
    BY DEF IInv, TypeOK, TableType, Slot
  <1>7. TypeOK'
    <2>1. held' \in [0..SlotBound -> Nat]
      BY DEF IInv, TypeOK
    <2>2. QED
      BY <1>3, <2>1 DEF IInv, TypeOK, TableOK, limits
  <1>8. ProtectedLive'
    <2>1. \A m \in 0..SlotBound : held'[m] > 0 => m \in Live'
      BY <1>1, <1>3, <1>4 DEF IInv, ProtectedLive
    <2>2. \A m \in Live' : refcou'[m] = held'[m] \/ refcou'[m] = MaxRef
      BY <1>3, <1>4, <1>5, <1>6 DEF IInv, ProtectedLive, Live
    <2>3. QED
      BY <1>3, <2>1, <2>2 DEF IInv, ProtectedLive
  <1>9. LiteralsStay'
    <2>1. \A m \in 0..(2 * VarNum + 1) : m \in Live /\ refcou'[m] = MaxRef
      BY <1>5 DEF IInv, LiteralsStay, Live
    <2>2. \A m : LEVEL'[m] = LEVEL[m] /\ LOW'[m] = LOW[m] /\ HIGH'[m] = HIGH[m]
      BY <1>3 DEF SameNode
    <2>3. QED
      BY <2>1, <2>2, <1>3 DEF IInv, LiteralsStay
  <1>10. QED
    BY <1>3, <1>7, <1>8, <1>9 DEF IInv, TableOK, Idle

\* bdd_addref, of a node the client knows or was just given: INCREF.
LEMMA AddRefIInv == ASSUME IInv, NEW n \in Slot, AddRef(n) PROVE IInv'
  <1> USE SizeAssumption
  <1>1. n \in Live /\ n \in 0..SlotBound /\ refcou[n] \in 0..MaxRef /\ held[n] \in Nat
        /\ n > 2 * VarNum + 1
    BY DEF AddRef, VarNode, IInv, TypeOK, TableType, Live, Slot
  <1>2. refcou[n] = held[n] \/ refcou[n] = MaxRef
    BY <1>1 DEF IInv, ProtectedLive
  <1>3. /\ Increased(refcou[n]) \in 0..MaxRef
        /\ Increased(refcou[n]) = held[n] + 1 \/ Increased(refcou[n]) = MaxRef
    BY <1>1, <1>2 DEF Increased
  <1>4. /\ refcou' = [refcou EXCEPT ![n] = Increased(refcou[n])]
        /\ held' = [held EXCEPT ![n] = held[n] + 1]
        /\ UNCHANGED <<table, limits, bdderrorcond, bddrefstack, result>>
    BY DEF AddRef
  <1> DEFINE count == Increased(refcou[n])  mine == held[n] + 1
  <1>5. /\ count \in 0..MaxRef /\ mine \in Nat /\ (count = mine \/ count = MaxRef)
        /\ refcou' = [refcou EXCEPT ![n] = count] /\ held' = [held EXCEPT ![n] = mine]
        /\ n <= 2 * VarNum + 1 => count = MaxRef
    BY <1>1, <1>3, <1>4
  <1> HIDE DEF count, mine
  <1>6. QED
    BY <1>1, <1>4, <1>5, CountIInv

\* bdd_delref, of a reference the client has: DECREF.
LEMMA DelRefIInv == ASSUME IInv, NEW n \in Slot, DelRef(n) PROVE IInv'
  <1> USE SizeAssumption
  <1>1. n \in Live /\ n \in 0..SlotBound /\ refcou[n] \in 0..MaxRef /\ held[n] \in Nat
        /\ held[n] > 0
    BY DEF DelRef, IInv, TypeOK, TableType, Live, Slot
  <1>2. refcou[n] = held[n] \/ refcou[n] = MaxRef
    BY <1>1 DEF IInv, ProtectedLive
  <1>3. /\ Decreased(refcou[n]) \in 0..MaxRef
        /\ Decreased(refcou[n]) = held[n] - 1 \/ Decreased(refcou[n]) = MaxRef
        /\ refcou[n] = MaxRef => Decreased(refcou[n]) = MaxRef
    BY <1>1, <1>2 DEF Decreased
  <1>4. /\ refcou' = [refcou EXCEPT ![n] = Decreased(refcou[n])]
        /\ held' = [held EXCEPT ![n] = held[n] - 1]
        /\ UNCHANGED <<table, limits, bdderrorcond, bddrefstack, result>>
    BY DEF DelRef
  <1>5. n <= 2 * VarNum + 1 => refcou[n] = MaxRef
    BY <1>1 DEF IInv, LiteralsStay
  <1> DEFINE count == Decreased(refcou[n])  mine == held[n] - 1
  <1>6. /\ count \in 0..MaxRef /\ mine \in Nat /\ (count = mine \/ count = MaxRef)
        /\ refcou' = [refcou EXCEPT ![n] = count] /\ held' = [held EXCEPT ![n] = mine]
        /\ n <= 2 * VarNum + 1 => count = MaxRef
    BY <1>1, <1>3, <1>4, <1>5
  <1> HIDE DEF count, mine
  <1>7. QED
    BY <1>1, <1>4, <1>6, CountIInv

\* Every call of the library, and every step inside an operation, keeps the
\* invariant.
LEMMA NextIInv == IInv /\ [Next]_vars => IInv'
  <1> USE SizeAssumption
  <1> SUFFICES ASSUME IInv, [Next]_vars PROVE IInv'
    OBVIOUS
  <1>1. /\ bddmaxnodesize \in Nat /\ bddmaxnodeincrease \in Nat
        /\ minfreenodes \in 0..100 /\ bdderrorcond \in BOOLEAN
        /\ bddrefstack \in Seq(Slot) /\ result \in Live
    BY DEF IInv, TypeOK, ProtectedLive
  <1>2. bddrefstack \in Seq(Live)
    BY <1>1 DEF IInv, ProtectedLive
  <1>3. (bddrefstack # <<>> => result = 0) /\ 0 \in Live
    BY DEF IInv, Idle, LiteralsStay
  <1>4. CASE Gbc
    BY <1>4, GbcIInv
  <1>5. CASE EndOp
    <2>1. result' \in Live
      BY <1>2, <1>5 DEF EndOp
    <2>2. QED
      BY <1>1, <1>5, <2>1, QuietStep DEF EndOp, limits
  <1>6. CASE Restart
    BY <1>1, <1>6, QuietStep DEF Restart, limits
  <1>7. ASSUME NEW n \in Slot, PushRef(n) PROVE IInv'
    <2>1. n \in Live
      BY <1>7 DEF PushRef
    <2>2. bddrefstack' \in Seq(Live) /\ result' = 0
      BY <1>2, <1>7, <2>1 DEF PushRef
    <2>3. QED
      BY <1>1, <1>3, <1>7, <2>2, QuietStep DEF PushRef, limits
  <1>8. ASSUME NEW l \in 0..(VarNum - 1), MakeNode(l) PROVE IInv'
    BY <1>8, MakeNodeIInv
  <1>9. ASSUME NEW n \in Slot, AddRef(n) PROVE IInv'
    BY <1>9, AddRefIInv
  <1>10. ASSUME NEW n \in Slot, DelRef(n) PROVE IInv'
    BY <1>10, DelRefIInv
  <1>11. ASSUME NEW size \in MaxNodeNums, SetMaxNodeNum(size) PROVE IInv'
    BY <1>1, <1>2, <1>3, <1>11, QuietStep, ParameterAssumption DEF SetMaxNodeNum
  <1>12. ASSUME NEW size \in MaxIncreases, SetMaxIncrease(size) PROVE IInv'
    BY <1>1, <1>2, <1>3, <1>12, QuietStep, ParameterAssumption DEF SetMaxIncrease
  <1>13. ASSUME NEW mf \in MinFrees, SetMinFreeNodes(mf) PROVE IInv'
    BY <1>1, <1>2, <1>3, <1>13, QuietStep, ParameterAssumption DEF SetMinFreeNodes
  <1>14. CASE ClearError
    BY <1>1, <1>2, <1>3, <1>14, QuietStep DEF ClearError, limits
  <1>15. CASE UNCHANGED vars
    BY <1>1, <1>2, <1>3, <1>15, QuietStep DEF vars, limits
  <1>16. QED
    BY <1>4, <1>5, <1>6, <1>7, <1>8, <1>9, <1>10, <1>11, <1>12, <1>13, <1>14, <1>15 DEF Next

\* The invariant holds in every reachable state, whatever the number of
\* variables, the size of the table, the hash function and MAXREF.
THEOREM Invariance == Spec => []IInv
  BY InitIInv, NextIInv, PTL DEF Spec

\* Every field of the node table keeps its type: no slot number leaves the
\* table, through bdd_makenode, bdd_gbc and bdd_noderesize.
THEOREM TypeCorrect == Spec => []TypeOK
  <1>1. IInv => TypeOK
    BY DEF IInv
  <1>2. QED
    BY <1>1, Invariance, PTL

\* Every chain of the unique table has exactly the nodes that hash to it,
\* and no two nodes are equal: bdd_makenode never makes a node twice, and
\* equal functions have equal node numbers.
THEOREM UniqueTableCorrect == Spec => []UniqueTable
  <1>1. IInv => UniqueTable
    BY DEF IInv
  <1>2. QED
    BY <1>1, Invariance, PTL

\* No collection frees the child of a node it leaves, and bdd_makenode
\* keeps the diagrams reduced and ordered.
THEOREM DiagramsReducedOrdered == Spec => []ReducedOrdered
  <1>1. IInv => ReducedOrdered
    BY DEF IInv
  <1>2. QED
    BY <1>1, Invariance, PTL

\* The free list has exactly the free slots and bddfreenum counts them,
\* after a sweep and after bdd_noderesize.
THEOREM FreeListCorrect == Spec => []FreeListExact
  <1>1. IInv => FreeListExact
    BY DEF IInv
  <1>2. QED
    BY <1>1, Invariance, PTL

\* What bdd_addref, or the reference stack, protects is never collected.
THEOREM ProtectedStayLive == Spec => []ProtectedLive
  <1>1. IInv => ProtectedLive
    BY DEF IInv
  <1>2. QED
    BY <1>1, Invariance, PTL

\* What a step does to the nodes that are protected before it.
LEMMA SurvivorsUnchanged ==
  ASSUME IInv, [Next]_vars
  PROVE  /\ \A n \in Survivors : SameNode(n)
         /\ \A n \in Survivors : refcou[n] = MaxRef => refcou'[n] = MaxRef
  <1> USE SizeAssumption
  <1>1. Survivors \subseteq Live /\ Survivors \subseteq Slot
    BY ProtectedSurvive DEF Live
  <1>2. CASE UNCHANGED <<table, refcou>>
    BY <1>2 DEF table, SameNode
  <1>3. CASE Gbc
    BY <1>1, <1>3 DEF Gbc, Rebuild, Slot, SameNode
  <1>4. ASSUME NEW l \in 0..(VarNum - 1), MakeNode(l)
        PROVE  \A n \in Survivors : SameNode(n) /\ refcou'[n] = refcou[n]
    <2> DEFINE a == bddrefstack[Len(bddrefstack) - 1]
               b == bddrefstack[Len(bddrefstack)]
    <2>1. PICK n \in 0..(SlotBound-1) : bdd_makenode(l, a, b, n)
      BY <1>4 DEF MakeNode
    <2>2. l < LEVEL[a] /\ l < LEVEL[b]
      BY <1>4 DEF MakeNode
    <2>3. a \in Roots /\ b \in Roots
      <3>1. /\ Len(bddrefstack) - 1 \in DOMAIN bddrefstack
            /\ Len(bddrefstack) \in DOMAIN bddrefstack
        BY <1>4 DEF MakeNode, IInv, TypeOK
      <3>2. QED
        BY <3>1, ProtectedSurvive
    <2> HIDE DEF a, b
    <2>4. QED
      BY <2>1, <2>2, <2>3, MakeNodeTableOK
  <1>5. ASSUME NEW m \in Slot, AddRef(m) \/ DelRef(m)
        PROVE  /\ \A n \in Survivors : SameNode(n)
               /\ \A n \in Survivors : refcou[n] = MaxRef => refcou'[n] = MaxRef
    <2>1. UNCHANGED table
      BY <1>5 DEF AddRef, DelRef
    <2>2. \A n \in Survivors : refcou[n] = MaxRef => refcou'[n] = MaxRef
      <3>1. refcou \in [Slot -> 0..MaxRef]
        BY DEF IInv, TypeOK, TableType
      <3>2. /\ Increased(MaxRef) = MaxRef
            /\ Decreased(MaxRef) = MaxRef
        BY DEF Increased, Decreased
      <3>3. \/ refcou' = [refcou EXCEPT ![m] = Increased(refcou[m])]
            \/ refcou' = [refcou EXCEPT ![m] = Decreased(refcou[m])]
        BY <1>5 DEF AddRef, DelRef
      <3>4. QED
        BY <1>1, <3>1, <3>2, <3>3
    <2>3. QED
      BY <2>1, <2>2 DEF table, SameNode
  <1>6. QED
    BY <1>2, <1>3, <1>4, <1>5 DEF Next, vars, EndOp, Restart, PushRef, SetMaxNodeNum,
                              SetMaxIncrease, SetMinFreeNodes, ClearError, Gbc, Rebuild

\* A node the client holds, or that a running operation has on the reference
\* stack, keeps its level and its children, and they keep theirs, while
\* bdd_makenode collects, resizes and reuses slots.
THEOREM ProtectedNodesUnchanged == Spec => ProtectedUnchanged
  <1> USE SizeAssumption
  <1>1. ASSUME IInv, [Next]_vars, NEW n \in Slot, Needed(n)
        PROVE  SameNode(n) /\ SameNode(LOW[n]) /\ SameNode(HIGH[n])
    <2>1. n \in 0..SlotBound
      BY <1>1 DEF IInv, TypeOK, TableType, Slot
    <2>2. n \in Survivors
      BY <1>1, <2>1, ProtectedSurvive DEF Needed
    <2>3. LOW[n] \in Survivors /\ HIGH[n] \in Survivors
      <3>1. CASE n \in {0, 1}
        <4>1. LOW[n] = n /\ HIGH[n] = n
          <5>1. n \in 0..(2 * VarNum + 1) /\ n \in 0..(InitSize - 1) /\ n < 2
            BY <3>1
          <5>2. LOW[n] = InitLow[n] /\ HIGH[n] = InitHigh[n]
            BY <1>1, <5>1 DEF IInv, LiteralsStay
          <5>3. QED
            BY <5>1, <5>2 DEF InitLow, InitHigh
        <4>2. QED
          BY <2>2, <4>1
      <3>2. CASE n \notin {0, 1}
        <4>1. n \in Live /\ Children(n) \subseteq Survivors
          BY <1>1, <2>2, ProtectedSurvive
        <4>2. QED
          BY <3>2, <4>1 DEF Children, Live, Slot
      <3>3. QED
        BY <3>1, <3>2
    <2>4. QED
      BY <1>1, <2>2, <2>3, SurvivorsUnchanged
  <1>2. IInv /\ [Next]_vars =>
          [\A n \in Slot : Needed(n) => SameNode(n) /\ SameNode(LOW[n]) /\ SameNode(HIGH[n])]_vars
    BY <1>1
  <1>3. QED
    BY <1>2, Invariance, PTL DEF Spec, ProtectedUnchanged

\* A reference count that has reached MAXREF stays there: INCREF and DECREF
\* leave it alone, and no collection frees the node.
THEOREM SaturatedStays == Spec => SaturatedForEver
  <1> USE SizeAssumption
  <1>1. ASSUME IInv, [Next]_vars, NEW n \in Slot, refcou[n] = MaxRef
        PROVE  refcou'[n] = MaxRef
    <2>1. n \in Live
      BY <1>1 DEF IInv, FreeListExact
    <2>2. n \in Survivors
      BY <1>1, <2>1, ProtectedSurvive DEF Roots
    <2>3. QED
      BY <1>1, <2>2, SurvivorsUnchanged
  <1>2. IInv /\ [Next]_vars =>
          [\A n \in Slot : refcou[n] = MaxRef => refcou'[n] = MaxRef]_vars
    BY <1>1
  <1>3. QED
    BY <1>2, Invariance, PTL DEF Spec, SaturatedForEver

\* What is left to do for bdd_makenode when the free list is empty and a
\* collection freed nothing: bdd_noderesize found no larger prime.
LEMMA NoLargerTable ==
  ASSUME IInv, SizeAfterGbc(Slot, bddnodesize)
  PROVE  \A q \in (bddnodesize + 1)..WantedSize : ~IsPrime(q)
  <1> USE SizeAssumption
  <1>1. /\ bddnodesize \in Nat /\ bddnodesize > 0 /\ minfreenodes \in 0..100
        /\ bddmaxnodesize \in Nat /\ bddmaxnodeincrease \in Nat
    BY DEF IInv, TypeOK, TableType
  <1>2. Cardinality(Slot) = bddnodesize
    BY <1>1, FS_Interval DEF Slot
  <1>3. FewFree(Slot)
    BY <1>1, <1>2 DEF FewFree
  <1>4. Resized(bddnodesize)
    BY <1>3 DEF SizeAfterGbc
  <1>5. CASE MayGrow
    BY <1>4, <1>5 DEF Resized
  <1>6. CASE ~MayGrow
    <2>1. WantedSize \in Int /\ WantedSize <= bddnodesize
      BY <1>1, <1>6 DEF MayGrow, WantedSize, Lesser
    <2>2. QED
      BY <1>1, <2>1
  <1>7. QED
    BY <1>5, <1>6

\* bdd_makenode at the end of its means.
LEMMA OutOfNodes ==
  ASSUME IInv, NEW n, ExhaustNodes(n)
  PROVE  Marked = Slot /\ \A q \in (bddnodesize + 1)..WantedSize : ~IsPrime(q)
  <1>1. Survivors = Slot /\ SizeAfterGbc(Slot, bddnodesize)
    BY DEF ExhaustNodes
  <1>2. Marked = Survivors
    <2>1. 0 \in Roots /\ 1 \in Roots
      BY ProtectedSurvive, SizeAssumption
    <2>2. QED
      BY <2>1, RootsMarked DEF Survivors
  <1>3. QED
    BY <1>1, <1>2, NoLargerTable

\* bdd_makenode raises BDD_NODENUM only if every slot holds a node that is
\* still needed, and bdd_noderesize may not, or can not, make the table
\* larger.
THEOREM ExhaustedWhenFull == Spec => ExhaustedOnlyWhenFull
  <1>1. ASSUME IInv, [Next]_vars, bdderrorcond', ~bdderrorcond
        PROVE  Marked = Slot /\ \A q \in (bddnodesize + 1)..WantedSize : ~IsPrime(q)
    <2>1. PICK l \in 0..(VarNum - 1) : MakeNode(l)
      BY <1>1 DEF Next, vars, Gbc, EndOp, Restart, PushRef, AddRef, DelRef, SetMaxNodeNum,
                  SetMaxIncrease, SetMinFreeNodes, ClearError
    <2>2. PICK n : ExhaustNodes(n)
      BY <1>1, <2>1 DEF MakeNode, bdd_makenode, FindNode, TakeNode, CollectAndTakeNode,
                        RefuseNode
    <2>3. QED
      BY <1>1, <2>2, OutOfNodes
  <1>2. IInv /\ [Next]_vars =>
          [bdderrorcond' /\ ~bdderrorcond =>
             /\ Marked = Slot
             /\ \A q \in (bddnodesize + 1)..WantedSize : ~IsPrime(q)]_vars
    BY <1>1
  <1>3. QED
    BY <1>2, Invariance, PTL DEF Spec, ExhaustedOnlyWhenFull

=============================================================================
