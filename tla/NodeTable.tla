----------------------------- MODULE NodeTable -----------------------------
(***************************************************************************)
(* The node table of kernel.c: the array bddnodes, its unique-table        *)
(* chains, its free list, the reference counts, the internal reference     *)
(* stack, the garbage collector and the resizing of the table.             *)
(*                                                                         *)
(* The array is kept as one function per field (LEVEL, LOW, HIGH, refcou). *)
(* As in the code, LOW(n) = -1 marks a free slot and the slots 0 and 1 are *)
(* the constants.  A chain of the unique table (bddnodes[b].hash and the   *)
(* next fields behind it) is the set chain[b] of its slots, and the free   *)
(* list (bddfreepos and the next fields behind it) the set freelist: the   *)
(* sweep and the rehash push the slots from the last one down, so that the *)
(* head of the free list is always its smallest slot.                      *)
(*                                                                         *)
(* The client is any operation of the library, or the program that calls   *)
(* it: it pushes nodes it knows on the reference stack, builds a node from *)
(* the two on top (the way apply_rec, not_rec, ite_rec ... do), and keeps  *)
(* nodes across calls with bdd_addref.  Dynamic reordering is off here.    *)
(***************************************************************************)
EXTENDS Integers, FiniteSets, Sequences

CONSTANTS
  VarNum,          \* bddvarnum, and the level of the two constants
  InitSize,        \* bddnodesize after bdd_init
  MaxRef,          \* MAXREF, where a reference count saturates
  HashNode(_,_,_), \* HASHNODE: a level and two children to a number
  MaxNodeNums,     \* arguments of bdd_setmaxnodenum (0: no limit)
  MaxIncreases,    \* arguments of bdd_setmaxincrease
  MinFrees,        \* arguments of bdd_setminfreenodes
  SlotBound,       \* bound: a table larger than this is never asked for
  StackBound,      \* bound on the depth of bddrefstack
  Atoms,           \* bound: the nodes a client takes as they are, without having them
  HeldBound,       \* bound on the references the client takes on one node,
  HeldNodes        \* and on the number of nodes it has references on

IsPrime(n) == n > 1 /\ \A d \in 2..(n-1) : n % d # 0

ASSUME SizeAssumption ==
  /\ VarNum \in Nat \ {0}
  /\ InitSize \in Nat /\ SlotBound \in Nat /\ InitSize <= SlotBound
  /\ IsPrime(InitSize) /\ 2 * VarNum + 2 <= InitSize
  /\ MaxRef \in Nat \ {0}
  /\ StackBound \in Nat /\ HeldBound \in Nat /\ HeldNodes \in Nat
  /\ Atoms \subseteq 0..SlotBound

ASSUME ParameterAssumption ==
  /\ MaxNodeNums \subseteq Nat
  /\ MaxIncreases \subseteq Nat
  /\ MinFrees \subseteq 0..100

ASSUME HashAssumption ==
  \A l \in 0..VarNum : \A a, b \in 0..SlotBound : HashNode(l, a, b) \in Nat

VARIABLES
  bddnodesize, LEVEL, LOW, HIGH, refcou,           \* bddnodes
  chain, freelist, bddfreenum,                     \* unique table, free list
  bddmaxnodesize, bddmaxnodeincrease, minfreenodes,
  bdderrorcond,                                    \* BDD_NODENUM was raised
  bddrefstack,
  result,                                          \* what the last call returned
  held                                             \* the client's own count of its references

table == <<bddnodesize, LEVEL, LOW, HIGH, chain, freelist, bddfreenum>>
limits == <<bddmaxnodesize, bddmaxnodeincrease, minfreenodes>>
vars == <<table, refcou, limits, bdderrorcond, bddrefstack, result, held>>

----------------------------------------------------------------------------
\* Reading the table.

Slot == 0..(bddnodesize - 1)
Live == {n \in Slot : LOW[n] # -1}

\* NODEHASH: HASHRANGE's multiplication and shift only choose one of size
\* chains from the hash, as the remainder does.
NODEHASH(size, l, a, b) == HashNode(l, a, b) % size

\* Mutant: bdd_mark without its second recursive call.
ChildrenLowOnly(n) == IF n < 2 \/ LOW[n] = -1 THEN {} ELSE {LOW[n]}

Children(n) == IF n < 2 \/ LOW[n] = -1 THEN {} ELSE {LOW[n], HIGH[n]}

\* Mutant: the collector does not look at the reference stack.
RootsWithoutStack == {n \in Live : refcou[n] > 0}

\* What bdd_gbc marks from: the reference stack and every counted node.
Roots == {n \in Live : refcou[n] > 0 \/ \E i \in DOMAIN bddrefstack : bddrefstack[i] = n}

\* bdd_mark: the smallest set that holds the roots and, with a node, its
\* children.
Closed(S) == \A n \in S : Children(n) \subseteq S
Marked ==
  LET roots == Roots
      closed == {S \in {roots \cup T : T \in SUBSET (Live \ roots)} : Closed(S)}
  IN  {n \in Live : \A S \in closed : n \in S}

\* Mutant: the chain is searched without comparing HIGH.
MatchesWithoutHigh(l, a, b) ==
  {n \in chain[NODEHASH(bddnodesize, l, a, b)] : LEVEL[n] = l /\ LOW[n] = a}

\* The node the chain of a key holds for it.
Matches(l, a, b) ==
  {n \in chain[NODEHASH(bddnodesize, l, a, b)] :
     LEVEL[n] = l /\ LOW[n] = a /\ HIGH[n] = b}

----------------------------------------------------------------------------
\* bdd_init followed by bdd_setvarnum(VarNum): the two nodes of variable v
\* are in the slots 2v+2 and 2v+3, and keep the count MAXREF for ever.

VarNode(n) == n \in 2..(2*VarNum + 1)

InitLevel == [n \in 0..(InitSize - 1) |->
                 IF n < 2 THEN VarNum ELSE IF VarNode(n) THEN (n - 2) \div 2 ELSE 0]
InitLow == [n \in 0..(InitSize - 1) |->
               IF n < 2 THEN n ELSE IF VarNode(n) THEN n % 2 ELSE -1]
InitHigh == [n \in 0..(InitSize - 1) |->
                IF n < 2 THEN n ELSE IF VarNode(n) THEN 1 - (n % 2) ELSE 0]

Init ==
  /\ bddnodesize = InitSize
  /\ LEVEL = InitLevel
  /\ LOW = InitLow
  /\ HIGH = InitHigh
  /\ refcou = [n \in 0..(InitSize - 1) |-> IF n < 2 \/ VarNode(n) THEN MaxRef ELSE 0]
  /\ chain = [b \in 0..(InitSize - 1) |->
                {n \in 2..(2*VarNum + 1) :
                   b = NODEHASH(InitSize, InitLevel[n], InitLow[n], InitHigh[n])}]
  /\ freelist = (2*VarNum + 2)..(InitSize - 1)
  /\ bddfreenum = InitSize - (2*VarNum + 2)
  /\ bddmaxnodesize \in MaxNodeNums
  /\ bddmaxnodesize > InitSize \/ bddmaxnodesize = 0
  /\ bddmaxnodeincrease \in MaxIncreases
  /\ minfreenodes \in MinFrees
  /\ bdderrorcond = FALSE
  /\ bddrefstack = <<>>
  /\ result = 0
  /\ held = [n \in 0..SlotBound |-> 0]

----------------------------------------------------------------------------
\* bdd_gbc and bdd_noderesize.

\* Mutant: bdd_makenode keeps the hash it computed before the resize.
StaleBucket(size, l, a, b) == NODEHASH(bddnodesize, l, a, b)

\* The chain of a node made in a table of the given size.
NewBucket(size, l, a, b) == NODEHASH(size, l, a, b)

\* Mutant: the node taken after a collection stays counted as free.
FreeNumWithoutNew(size, keep, new) == size - Cardinality(keep)

FreeNum(size, keep, new) == size - Cardinality(keep \cup new)

\* The table of the given size in which exactly the nodes in keep survive,
\* and the slots in new (none, or one) hold a node (l, a, b) just made: the
\* sweep of bdd_gbc, the tail bdd_noderesize adds, and the slot that
\* bdd_makenode takes after them.  HIGH of a free slot is not kept.
Rebuild(keep, size, new, l, a, b) ==
  /\ bddnodesize' = size
  /\ LEVEL' = [n \in 0..(size-1) |->
                 IF n \in new THEN l ELSE IF n \in keep THEN LEVEL[n] ELSE 0]
  /\ LOW' = [n \in 0..(size-1) |->
                 IF n \in new THEN a ELSE IF n \in keep THEN LOW[n] ELSE -1]
  /\ HIGH' = [n \in 0..(size-1) |->
                 IF n \in new THEN b ELSE IF n \in keep THEN HIGH[n] ELSE 0]
  /\ refcou' = [n \in 0..(size-1) |-> IF n \in keep THEN refcou[n] ELSE 0]
  /\ chain' = [h \in 0..(size-1) |->
                 {n \in keep \ {0, 1} : h = NODEHASH(size, LEVEL[n], LOW[n], HIGH[n])}
                   \cup (IF h = NewBucket(size, l, a, b) THEN new ELSE {})]
  /\ freelist' = (0..(size-1)) \ (keep \cup new)
  /\ bddfreenum' = FreeNum(size, keep, new)

\* The program itself runs, no operation of the library.
Idle == bddrefstack = <<>>

\* What survives a collection.
Survivors == Marked \cup {0, 1}

\* bdd_gbc called by the program.  A node it did not protect is lost to it.
Gbc ==
  LET keep == Survivors IN
  /\ Idle
  /\ Rebuild(keep, bddnodesize, {}, 0, 0, 0)
  /\ result' = IF result \in keep THEN result ELSE 0
  /\ UNCHANGED <<limits, bdderrorcond, bddrefstack, held>>

Lesser(x, y) == IF x <= y THEN x ELSE y

\* The size bdd_noderesize arrives at before bdd_prime_lte rounds it down.
WantedSize ==
  LET grown == Lesser(2 * bddnodesize, bddnodesize + bddmaxnodeincrease)
  IN  IF bddmaxnodesize > 0 THEN Lesser(grown, bddmaxnodesize) ELSE grown

\* Mutant: the table is resized only if all of the doubled table is allowed.
MayGrowDoubled == bddmaxnodesize = 0 \/ 2 * bddnodesize <= bddmaxnodesize

\* bdd_noderesize goes on only below the limit.
MayGrow == bddmaxnodesize = 0 \/ bddnodesize < bddmaxnodesize

\* bdd_noderesize leaves a table of this size.
Resized(size) ==
  IF ~MayGrow
    THEN size = bddnodesize
    ELSE /\ size <= WantedSize /\ IsPrime(size)
         /\ \A q \in (size + 1)..WantedSize : ~IsPrime(q)

\* Too little came free in a collection that left the nodes in keep.
FewFree(keep) == ((bddnodesize - Cardinality(keep)) * 100) \div bddnodesize <= minfreenodes

\* The size bdd_makenode goes on with after it.
SizeAfterGbc(keep, size) ==
  IF FewFree(keep)
    THEN Resized(size)
    ELSE size = bddnodesize

----------------------------------------------------------------------------
\* bdd_makenode(l, a, b), which returns res, and the outcomes it has.

\* The unique table has the node.
FindNode(l, a, b, res) ==
  /\ res \in Matches(l, a, b)
  /\ UNCHANGED <<table, refcou, bdderrorcond>>

\* Mutant: the new node is not linked into its chain.
TakeNodeUnlinked(l, a, b, res) ==
  /\ res \in freelist /\ \A m \in freelist : res <= m
  /\ LEVEL' = [LEVEL EXCEPT ![res] = l]
  /\ LOW' = [LOW EXCEPT ![res] = a]
  /\ HIGH' = [HIGH EXCEPT ![res] = b]
  /\ refcou' = [refcou EXCEPT ![res] = 0]
  /\ freelist' = freelist \ {res}
  /\ bddfreenum' = bddfreenum - 1
  /\ UNCHANGED <<chain, bddnodesize, bdderrorcond>>

\* It has not, and the head of the free list becomes the node.
TakeNode(l, a, b, res) ==
  /\ res \in freelist /\ \A m \in freelist : res <= m
  /\ LEVEL' = [LEVEL EXCEPT ![res] = l]
  /\ LOW' = [LOW EXCEPT ![res] = a]
  /\ HIGH' = [HIGH EXCEPT ![res] = b]
  /\ refcou' = [refcou EXCEPT ![res] = 0]
  /\ chain' = [chain EXCEPT ![NODEHASH(bddnodesize, l, a, b)] = @ \cup {res}]
  /\ freelist' = freelist \ {res}
  /\ bddfreenum' = bddfreenum - 1
  /\ UNCHANGED <<bddnodesize, bdderrorcond>>

\* The free list is empty: collect, resize if too little came free, then
\* take the head of the new free list.
CollectAndTakeNode(l, a, b, res) ==
  LET keep == Survivors IN
  /\ \E size \in bddnodesize..SlotBound :
       /\ SizeAfterGbc(keep, size)
       /\ res \in (0..(size-1)) \ keep
       /\ \A m \in (0..(size-1)) \ keep : res <= m
       /\ Rebuild(keep, size, {res}, l, a, b)
  /\ UNCHANGED bdderrorcond

\* The collection frees nothing and the table may not grow: BDD_NODENUM.
ExhaustNodes(res) ==
  /\ Survivors = Slot
  /\ SizeAfterGbc(Slot, bddnodesize)
  /\ Rebuild(Slot, bddnodesize, {}, 0, 0, 0)
  /\ bdderrorcond' = TRUE
  /\ res = 0

\* While the error stands, no collection is tried.
RefuseNode(res) ==
  /\ res = 0
  /\ UNCHANGED <<table, refcou, bdderrorcond>>

bdd_makenode(l, a, b, res) ==
  \/ a = b /\ res = a /\ UNCHANGED <<table, refcou, bdderrorcond>>
  \/ a # b /\ FindNode(l, a, b, res)
  \/ /\ a # b /\ Matches(l, a, b) = {}
     /\ \/ TakeNode(l, a, b, res)
        \/ freelist = {} /\ ~bdderrorcond /\ CollectAndTakeNode(l, a, b, res)
        \/ freelist = {} /\ ~bdderrorcond /\ ExhaustNodes(res)
        \/ freelist = {} /\ bdderrorcond /\ RefuseNode(res)

----------------------------------------------------------------------------
\* The client.

\* The nodes the client can name: what it holds a reference on, and (with
\* bdd_low and bdd_high) the children.
Known(n) == \E m \in Slot : held[m] > 0 /\ n \in {m} \cup Children(m)

\* INITREF: an operation starts over, without what it had built.
Restart ==
  /\ ~Idle
  /\ bddrefstack' = <<>>
  /\ UNCHANGED <<table, refcou, limits, bdderrorcond, result, held>>

\* An operation starts or goes on, and pushes what a recursion of its ended
\* in: a constant, an operand, a cofactor of one, or any node it has cached.
PushRef(n) ==
  /\ Len(bddrefstack) < StackBound
  /\ n \in Live
  /\ n \in Atoms \/ Known(n)
  /\ bddrefstack' = Append(bddrefstack, n)
  /\ result' = 0
  /\ UNCHANGED <<table, refcou, limits, bdderrorcond, held>>

\* PUSHREF(bdd_makenode(l, READREF(2), READREF(1))) after the POPREF(2) of
\* the two operands.
MakeNode(l) ==
  /\ Len(bddrefstack) >= 2
  /\ LET depth == Len(bddrefstack)
         a == bddrefstack[depth - 1]
         b == bddrefstack[depth]
     IN  /\ l < LEVEL[a] /\ l < LEVEL[b]
         /\ \E n \in 0..(SlotBound-1) :
              /\ bdd_makenode(l, a, b, n)
              /\ bddrefstack' = Append(SubSeq(bddrefstack, 1, depth - 2), n)
  /\ UNCHANGED <<limits, result, held>>

\* The operation returns what is left on the stack, no longer protected.
EndOp ==
  /\ Len(bddrefstack) = 1
  /\ result' = bddrefstack[1]
  /\ bddrefstack' = <<>>
  /\ UNCHANGED <<table, refcou, limits, bdderrorcond, held>>

\* Mutants: a count that does not saturate, and one that forgets it did.
IncreasedUnbounded(count) == count + 1
DecreasedAlways(count) == IF count > 0 THEN count - 1 ELSE count

\* INCREF and DECREF
Increased(count) == IF count < MaxRef THEN count + 1 ELSE count
Decreased(count) == IF count # MaxRef /\ count > 0 THEN count - 1 ELSE count

\* bdd_addref: a constant, a number that names no node, or the node of a
\* variable (its count is MAXREF) changes nothing.
AddRef(n) ==
  /\ Idle
  /\ n >= 2 /\ LOW[n] # -1 /\ ~VarNode(n)
  /\ n = result \/ Known(n)
  /\ held[n] < HeldBound
  /\ Cardinality({m \in Slot : held[m] > 0} \cup {n}) <= HeldNodes
  /\ refcou' = [refcou EXCEPT ![n] = Increased(@)]
  /\ held' = [held EXCEPT ![n] = @ + 1]
  /\ UNCHANGED <<table, limits, bdderrorcond, bddrefstack, result>>

\* bdd_delref of a reference the client took.
DelRef(n) ==
  /\ Idle
  /\ n >= 2 /\ LOW[n] # -1
  /\ held[n] > 0
  /\ refcou' = [refcou EXCEPT ![n] = Decreased(@)]
  /\ held' = [held EXCEPT ![n] = @ - 1]
  /\ UNCHANGED <<table, limits, bdderrorcond, bddrefstack, result>>

\* bdd_setmaxnodenum refuses what would cut the table.
SetMaxNodeNum(size) ==
  /\ Idle
  /\ size > bddnodesize \/ size = 0
  /\ bddmaxnodesize' = size
  /\ UNCHANGED <<table, refcou, bddmaxnodeincrease, minfreenodes,
                 bdderrorcond, bddrefstack, result, held>>

SetMaxIncrease(size) ==
  /\ Idle
  /\ bddmaxnodeincrease' = size
  /\ UNCHANGED <<table, refcou, bddmaxnodesize, minfreenodes,
                 bdderrorcond, bddrefstack, result, held>>

SetMinFreeNodes(mf) ==
  /\ Idle
  /\ minfreenodes' = mf
  /\ UNCHANGED <<table, refcou, bddmaxnodesize, bddmaxnodeincrease,
                 bdderrorcond, bddrefstack, result, held>>

\* bdd_clear_error
ClearError ==
  /\ Idle
  /\ bdderrorcond' = FALSE
  /\ UNCHANGED <<table, refcou, limits, bddrefstack, result, held>>

Next ==
  \/ Gbc
  \/ EndOp
  \/ Restart
  \/ \E n \in Slot : PushRef(n)
  \/ \E l \in 0..(VarNum - 1) : MakeNode(l)
  \/ \E n \in Slot : AddRef(n)
  \/ \E n \in Slot : DelRef(n)
  \/ \E size \in MaxNodeNums : SetMaxNodeNum(size)
  \/ \E size \in MaxIncreases : SetMaxIncrease(size)
  \/ \E mf \in MinFrees : SetMinFreeNodes(mf)
  \/ ClearError

Spec == Init /\ [][Next]_vars

----------------------------------------------------------------------------
\* Properties.

\* Every field of the table, and every variable, has its type.
TableType ==
  /\ bddnodesize \in Nat /\ 2 * VarNum + 2 <= bddnodesize /\ bddnodesize <= SlotBound
  /\ LEVEL \in [Slot -> 0..VarNum]
  /\ LOW \in [Slot -> Slot \cup {-1}]
  /\ HIGH \in [Slot -> Slot]
  /\ refcou \in [Slot -> 0..MaxRef]
  /\ chain \in [Slot -> SUBSET Slot]
  /\ freelist \subseteq Slot
  /\ bddfreenum \in Nat

TypeOK ==
  /\ TableType
  /\ bddmaxnodesize \in Nat /\ bddmaxnodeincrease \in Nat /\ minfreenodes \in 0..100
  /\ bdderrorcond \in BOOLEAN
  /\ bddrefstack \in Seq(Slot)
  /\ result \in Slot
  /\ held \in [0..SlotBound -> Nat]

\* bdd_makenode finds every node it has already made: a node is in the chain
\* its key hashes to (in a table of the present size), a chain holds nothing
\* else, and no two nodes have one key.
UniqueTable ==
  /\ \A h \in Slot :
       chain[h] = {n \in Live \ {0, 1} : h = NODEHASH(bddnodesize, LEVEL[n], LOW[n], HIGH[n])}
  /\ \A m, n \in Live \ {0, 1} :
       LEVEL[m] = LEVEL[n] /\ LOW[m] = LOW[n] /\ HIGH[m] = HIGH[n] => m = n

\* The children of a node are nodes, two different ones, at deeper levels:
\* no collection frees the child of a node it leaves, and the diagrams stay
\* reduced and ordered.
ReducedOrdered ==
  \A n \in Live \ {0, 1} :
    /\ LOW[n] # HIGH[n]
    /\ LOW[n] \in Live /\ HIGH[n] \in Live
    /\ LEVEL[n] < LEVEL[LOW[n]] /\ LEVEL[n] < LEVEL[HIGH[n]]

\* Every slot is either a node or on the free list, bddfreenum counts the
\* free ones, and no reference is counted on them.
FreeListExact ==
  /\ freelist = Slot \ Live
  /\ \A n \in freelist : refcou[n] = 0
  /\ bddfreenum = Cardinality(freelist)

\* What the client or a running operation still needs is a node: all that is
\* on the reference stack, and all that bdd_addref counted up and bdd_delref
\* did not count down again; the count is the client's, or has saturated.
ProtectedLive ==
  /\ \A i \in DOMAIN bddrefstack : bddrefstack[i] \in Live
  /\ result \in Live
  /\ \A n \in 0..SlotBound : held[n] > 0 => n \in Live
  /\ \A n \in Live : refcou[n] = held[n] \/ refcou[n] = MaxRef

\* The constants and the nodes of the variables stay what bdd_setvarnum made
\* them, with a saturated count.
LiteralsStay ==
  \A n \in 0..(2 * VarNum + 1) :
    /\ n \in Live /\ refcou[n] = MaxRef
    /\ LEVEL[n] = InitLevel[n] /\ LOW[n] = InitLow[n] /\ HIGH[n] = InitHigh[n]

\* The inductive invariant: ProtectedLive needs the other parts (a
\* collection leaves no node without its children), and a running operation
\* has no last result that a collection could take away.
IInv ==
  /\ TypeOK
  /\ UniqueTable
  /\ ReducedOrdered
  /\ FreeListExact
  /\ ProtectedLive
  /\ LiteralsStay
  /\ ~Idle => result = 0

\* What is on the reference stack, or held by the client, keeps its level
\* and its children, and these keep theirs, through every step: marking
\* reaches them before the sweep, in the middle of bdd_makenode too.
Needed(n) == held[n] > 0 \/ \E i \in DOMAIN bddrefstack : bddrefstack[i] = n
SameNode(n) == LEVEL'[n] = LEVEL[n] /\ LOW'[n] = LOW[n] /\ HIGH'[n] = HIGH[n]
ProtectedUnchanged ==
  [][\A n \in Slot : Needed(n) => SameNode(n) /\ SameNode(LOW[n]) /\ SameNode(HIGH[n])]_vars

\* A saturated count never comes down again: it may stand for more
\* references than it can count.
SaturatedForEver == [][\A n \in Slot : refcou[n] = MaxRef => refcou'[n] = MaxRef]_vars

\* bdd_makenode gives up only if nothing can be collected and the table may
\* not grow to the next prime.
ExhaustedOnlyWhenFull ==
  [][bdderrorcond' /\ ~bdderrorcond =>
       /\ Marked = Slot
       /\ \A q \in (bddnodesize + 1)..WantedSize : ~IsPrime(q)]_vars

=============================================================================
