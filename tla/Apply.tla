------------------------------- MODULE Apply -------------------------------
(***************************************************************************)
(* The operators of bddop.c that are built on apply_rec and not_rec: the   *)
(* recursion over two diagrams, with its intermediate results on the       *)
(* reference stack, the direct-mapped cache applycache in front of it, and *)
(* bdd_makenode under it, which may collect, resize or give up in the      *)
(* middle of the recursion.                                                *)
(*                                                                         *)
(* The C stack of the recursion is the sequence frames, with the innermost *)
(* call last.  bdd_not is the operator "not", whose second operand is the  *)
(* constant 0.  Automatic reordering is off.                               *)
(***************************************************************************)
EXTENDS NodeTable, Cache

CONSTANTS
  Operators,        \* the operators the client uses
  CacheSize,        \* the size of applycache after bdd_init
  CacheRatios,      \* arguments of bdd_setcacheratio
  ApplyHash(_,_,_)  \* APPLYHASH and NOTHASH: operator and operands to a number

ASSUME CacheAssumption ==
  /\ CacheSize \in Nat \ {0} /\ CacheRatios \subseteq Nat \ {0}
  /\ Operators \subseteq {"and", "or", "xor", "nand", "nor", "imp", "biimp", "diff",
                          "less", "invimp", "not"}
  /\ \A op \in Operators : \A l, r \in 0..SlotBound : ApplyHash(op, l, r) \in Nat

\* The operands are not pushed on bddrefstack: what the client takes without
\* having a reference on it are constants and the nodes of the variables.
ASSUME OperandAssumption == Atoms \subseteq 0..(2 * VarNum + 1)

\* Bertrand's postulate, for the sizes of caches: bdd_prime_gte ends.
ASSUME BertrandAssumption ==
  \A n \in 2..SlotBound : \E p \in n..(2 * n) : p > 2 /\ IsPrime(p)

VARIABLES
  applycache,  \* slot to an entry [key, res], or NoEntry
  cacheratio, bddresized,
  call,        \* the operation that runs: [op, l, r], or None
  calling,     \* the operands of the recursive call about to be made, or None
  frames,      \* the calls that wait for the results of others: [l, r, step]
  returned     \* what the last recursive call returned, or NoNode

cachevars == <<applycache, cacheratio, bddresized>>
callvars == <<call, calling, frames, returned>>
allvars == <<vars, cachevars, callvars>>

None == <<>>
NoNode == -1

----------------------------------------------------------------------------
\* The operators.

\* oprres
oprres ==
  [and |-> {3}, xor |-> {1, 2}, or |-> {1, 2, 3}, nand |-> {0, 1, 2}, nor |-> {0},
   imp |-> {0, 1, 3}, biimp |-> {0, 3}, diff |-> {2}, less |-> {1},
   invimp |-> {0, 2, 3}, not |-> {0, 1}]

OperatorValue(op, x, y) == IF 2 * x + y \in oprres[op] THEN 1 ELSE 0

\* The results apply_rec and not_rec find without recursion.
Shortcuts(op, l, r) ==
  LET Rule(when, value) == IF when THEN {value} ELSE {}
  IN  CASE op = "and" -> Rule(l = r, l) \cup Rule(0 \in {l, r}, 0)
                           \cup Rule(l = 1, r) \cup Rule(r = 1, l)
        [] op = "or" -> Rule(l = r, l) \cup Rule(1 \in {l, r}, 1)
                           \cup Rule(l = 0, r) \cup Rule(r = 0, l)
        [] op = "xor" -> Rule(l = r, 0) \cup Rule(l = 0, r) \cup Rule(r = 0, l)
        [] op = "nand" -> Rule(0 \in {l, r}, 1)
        [] op = "nor" -> Rule(1 \in {l, r}, 0)
        [] op = "imp" -> Rule(l = 0, 1) \cup Rule(l = 1, r) \cup Rule(r = 1, 1)
        [] OTHER -> {}

\* Mutant: not_rec and apply_rec do not stop at two constants.
ImmediateWithoutConstants(op, l, r) == Shortcuts(op, l, r)

Immediate(op, l, r) ==
  Shortcuts(op, l, r) \cup (IF l < 2 /\ r < 2 THEN {OperatorValue(op, l, r)} ELSE {})

\* The level of the result, and the operands of the two recursive calls.
TopLevel(l, r) == Lesser(LEVEL[l], LEVEL[r])

\* Mutant: the cofactor of a node below the level is taken too.
CofactorOfAny(n, level, child) == IF n >= 2 THEN child[n] ELSE n

Cofactor(n, level, child) == IF LEVEL[n] = level THEN child[n] ELSE n

Cofactors(l, r, child) ==
  <<Cofactor(l, TopLevel(l, r), child), Cofactor(r, TopLevel(l, r), child)>>

----------------------------------------------------------------------------
\* The cache.

\* bdd_prime_gte
NextPrime(n) ==
  CHOOSE p \in n..(2 * n) : p > 2 /\ IsPrime(p) /\ \A q \in n..(p - 1) : q <= 2 \/ ~IsPrime(q)

Key(op, l, r) == <<op, l, r>>

Hit(op, l, r) ==
  LET e == Entry(applycache, ApplyHash(op, l, r)) IN e # NoEntry /\ e.key = Key(op, l, r)

\* checkresize: the operation is over, and a table that grew gets a cache
\* of its size.
checkresize ==
  /\ applycache' = IF bddresized /\ cacheratio > 0
                     THEN EmptyCache(NextPrime(bddnodesize \div cacheratio))
                     ELSE applycache
  /\ bddresized' = FALSE
  /\ UNCHANGED cacheratio

----------------------------------------------------------------------------
\* One operation.

ApplyInit ==
  /\ Init
  /\ applycache = EmptyCache(CacheSize)
  /\ cacheratio = 0
  /\ bddresized = FALSE
  /\ call = None /\ calling = None /\ frames = <<>> /\ returned = NoNode

Top == frames[Len(frames)]

\* bdd_apply and bdd_not, up to the first recursive call.
Start(op, l, r) ==
  /\ call = None
  /\ l \in Atoms \/ Known(l)
  /\ IF op = "not" THEN r = 0 ELSE r \in Atoms \/ Known(r)
  /\ call' = [op |-> op, l |-> l, r |-> r]
  /\ calling' = <<l, r>>
  /\ bddrefstack' = <<>>
  /\ UNCHANGED <<frames, returned, cachevars, table, refcou, limits, bdderrorcond,
                 result, held>>

\* A call returns at once, with a value that needs no recursion.
ReturnImmediate ==
  /\ calling # None
  /\ \E n \in Immediate(call.op, calling[1], calling[2]) : returned' = n
  /\ calling' = None
  /\ result' = 0
  /\ UNCHANGED <<call, frames, cachevars, table, refcou, limits, bdderrorcond,
                 bddrefstack, held>>

\* It returns what the cache has.
ReturnCached ==
  /\ calling # None
  /\ Immediate(call.op, calling[1], calling[2]) = {}
  /\ Hit(call.op, calling[1], calling[2])
  /\ returned' = Entry(applycache, ApplyHash(call.op, calling[1], calling[2])).res
  /\ calling' = None
  /\ result' = 0
  /\ UNCHANGED <<call, frames, cachevars, table, refcou, limits, bdderrorcond,
                 bddrefstack, held>>

\* It calls itself on the low cofactors.
Descend ==
  /\ calling # None
  /\ Immediate(call.op, calling[1], calling[2]) = {}
  /\ ~Hit(call.op, calling[1], calling[2])
  /\ frames' = Append(frames, [l |-> calling[1], r |-> calling[2], step |-> "low"])
  /\ calling' = Cofactors(calling[1], calling[2], LOW)
  /\ UNCHANGED <<call, returned, cachevars, vars>>

\* PUSHREF of the low result, and the call on the high cofactors.
PushLow ==
  /\ returned # NoNode /\ frames # <<>> /\ Top.step = "low"
  /\ bddrefstack' = Append(bddrefstack, returned)
  /\ returned' = NoNode
  /\ frames' = [frames EXCEPT ![Len(frames)].step = "high"]
  /\ calling' = Cofactors(Top.l, Top.r, HIGH)
  /\ UNCHANGED <<call, cachevars, table, refcou, limits, bdderrorcond, result, held>>

\* PUSHREF of the high result.
PushHigh ==
  /\ returned # NoNode /\ frames # <<>> /\ Top.step = "high"
  /\ bddrefstack' = Append(bddrefstack, returned)
  /\ returned' = NoNode
  /\ frames' = [frames EXCEPT ![Len(frames)].step = "make"]
  /\ UNCHANGED <<call, calling, cachevars, table, refcou, limits, bdderrorcond, result, held>>

\* bdd_makenode has to collect before it can make the node.
Collects(a, b, level) ==
  a # b /\ Matches(level, a, b) = {} /\ freelist = {} /\ ~bdderrorcond

\* bdd_makenode on the two results, POPREF of them, and the new cache entry,
\* in a cache that a collection has emptied.
Build ==
  /\ calling = None /\ frames # <<>> /\ Top.step = "make"
  /\ LET depth == Len(bddrefstack)
         a == bddrefstack[depth - 1]
         b == bddrefstack[depth]
         level == TopLevel(Top.l, Top.r)
         collects == Collects(a, b, level)
     IN  /\ \E n \in 0..(SlotBound - 1) :
              /\ bdd_makenode(level, a, b, n)
              /\ applycache' = Stored(IF collects THEN Reset(applycache) ELSE applycache,
                                      ApplyHash(call.op, Top.l, Top.r),
                                      Key(call.op, Top.l, Top.r), n)
              /\ returned' = n
         /\ bddrefstack' = SubSeq(bddrefstack, 1, depth - 2)
         /\ bddresized' = (bddresized \/ (collects /\ FewFree(Survivors) /\ MayGrow))
  /\ frames' = SubSeq(frames, 1, Len(frames) - 1)
  /\ UNCHANGED <<call, calling, cacheratio, limits, result, held>>

\* The outermost call has returned.
Finish ==
  /\ call # None /\ returned # NoNode /\ frames = <<>>
  /\ result' = returned
  /\ call' = None /\ returned' = NoNode
  /\ checkresize
  /\ UNCHANGED <<calling, frames, table, refcou, limits, bdderrorcond, bddrefstack, held>>

----------------------------------------------------------------------------
\* The client between two operations.

\* bdd_setcacheratio resizes the cache at once.  A size below two is left
\* out: bdd_prime_gte would divide by zero in search of a prime.
SetCacheRatio(ratio) ==
  /\ call = None
  /\ bddnodesize \div ratio >= 2
  /\ cacheratio' = ratio
  /\ applycache' = EmptyCache(NextPrime(bddnodesize \div ratio))
  /\ UNCHANGED <<bddresized, callvars, vars>>

\* bdd_gbc and bdd_clear_error reset the cache.
CollectAndReset == call = None /\ Gbc /\ applycache' = Reset(applycache)
                   /\ UNCHANGED <<cacheratio, bddresized, callvars>>

ClearErrorAndReset == call = None /\ ClearError /\ applycache' = Reset(applycache)
                      /\ UNCHANGED <<cacheratio, bddresized, callvars>>

TakeReference(n) == call = None /\ AddRef(n) /\ UNCHANGED <<cachevars, callvars>>
GiveReference(n) == call = None /\ DelRef(n) /\ UNCHANGED <<cachevars, callvars>>

ApplyNext ==
  \/ \E op \in Operators : \E l, r \in Slot : Start(op, l, r)
  \/ ReturnImmediate
  \/ ReturnCached
  \/ Descend
  \/ PushLow
  \/ PushHigh
  \/ Build
  \/ Finish
  \/ \E ratio \in CacheRatios : SetCacheRatio(ratio)
  \/ CollectAndReset
  \/ ClearErrorAndReset
  \/ \E n \in Slot : TakeReference(n)
  \/ \E n \in Slot : GiveReference(n)

ApplySpec == ApplyInit /\ [][ApplyNext]_allvars

=============================================================================
