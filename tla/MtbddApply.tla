----------------------------- MODULE MtbddApply -----------------------------
(***************************************************************************)
(* The recursions of mtbdd.c over multi-terminal diagrams: mtbdd_apply and *)
(* mtbdd_apply_unary, which call back the client at the leaves, and        *)
(* mtbdd_ite.  They share the reference stack and the collector with the   *)
(* rest of the library, and have caches of their own.                      *)
(*                                                                         *)
(* As in Apply the C stack is the sequence frames, with the innermost call *)
(* last.  The condition of an mtbdd_ite is a variable or a constant here,  *)
(***************************************************************************)
EXTENDS MtbddTable, Cache

CONSTANTS
  Operations,   \* the calls the client may make: [to, op, args]
  Callback(_,_),\* its callbacks: operation and sequence of values to a value
  CacheSize,
  CacheHash(_,_)\* HASH2 and HASH3: operation and operands to a number

ASSUME OperationAssumption ==
  /\ CacheSize \in Nat \ {0}
  /\ \A o \in Operations :
       /\ o.to \in Names
       /\ o.args \in Seq(Names \cup Fixed)
       /\ o.op = "ite" => Len(o.args) = 3 /\ o.args[1] \in Fixed
       /\ o.op # "ite" => Len(o.args) \in {1, 2}
       /\ \A n \in 1..3 : \A args \in [1..n -> 0..(InitSize - 1)] : CacheHash(o.op, args) \in Nat

VARIABLES
  caches,    \* mtbdd_cache_apply and mtbdd_cache_ite
  call,      \* the operation that runs: [op, args, to], or None
  calling,   \* the operands of the recursive call about to be made, or None
  frames,    \* the calls that wait for the results of others: [args, step]
  returned   \* what the last recursive call returned, or NoNode

callvars == <<call, calling, frames, returned>>
allvars == <<tablevars, bddrefstack, clientvars, caches, callvars>>

----------------------------------------------------------------------------
\* The values and the levels of operands.

Leaf(n) == ISCONST(n) \/ ISTERMINAL(n)

\* mtbdd_getTerminalValue, which is NULL for a constant.
TerminalValue(n) == IF ISCONST(n) THEN NoValue ELSE values.at[HIGH(n)]

\* The level all three recursions go down on, the least of the operands'.
TopLevel(args) ==
  CHOOSE l \in {LEVEL(args[i]) : i \in DOMAIN args} : \A i \in DOMAIN args : l <= LEVEL(args[i])

\* The operands of the two recursive calls.
Cofactors(args, high) ==
  [i \in DOMAIN args |->
     IF LEVEL(args[i]) # TopLevel(args) THEN args[i]
     ELSE IF high THEN HIGH(args[i]) ELSE LOW(args[i])]

----------------------------------------------------------------------------
\* The caches.  The pointer to the callback is part of the key.

CacheOf(op) == IF op = "ite" THEN "ite" ELSE "apply"
Key(op, args) == <<op>> \o args
CacheEntry(op, args) == Entry(caches[CacheOf(op)], CacheHash(op, args))

Hit(op, args) ==
  CacheEntry(op, args) # NoEntry /\ CacheEntry(op, args).key = Key(op, args)

\* bdd_operator_reset
AllReset == [c \in DOMAIN caches |-> Reset(caches[c])]

\* The cache entry after a call, which a collection inside it precedes.
StoredAfter(collects, args, res) ==
  [(IF collects THEN AllReset ELSE caches) EXCEPT ![CacheOf(call.op)] =
     Stored(@, CacheHash(call.op, args), Key(call.op, args), res)]

----------------------------------------------------------------------------
\* One operation.

ApplyInit ==
  /\ TableInit
  /\ caches = [c \in {"apply", "ite"} |-> EmptyCache(CacheSize)]
  /\ call = None /\ calling = None /\ frames = <<>> /\ returned = NoNode

Start(o) ==
  /\ call = None
  /\ Idle(o.to)
  /\ \A i \in DOMAIN o.args : Known(o.args[i])
  /\ LET args == [i \in DOMAIN o.args |-> Operand(o.args[i])] IN
     /\ call' = [op |-> o.op, args |-> args, to |-> o.to]
     /\ calling' = args
  /\ UNCHANGED <<frames, returned, caches, tablevars, bddrefstack, clientvars>>

\* mtbdd_ite_rec returns an operand.
IteShortcut(f, g, h) ==
  IF f = 0 THEN {h} ELSE IF f = 1 \/ g = h THEN {g} ELSE {}

\* What a call returns before it looks into the cache.
Immediate(op, args) == IF op = "ite" THEN IteShortcut(args[1], args[2], args[3]) ELSE {}

\* It makes a node with two terminals at once.
IsDecision(op, args) ==
  /\ op = "ite" /\ Immediate(op, args) = {}
  /\ ISTERMINAL(args[2]) /\ ISTERMINAL(args[3])

ReturnImmediate ==
  /\ calling # None
  /\ returned' \in Immediate(call.op, calling)
  /\ calling' = None
  /\ UNCHANGED <<call, frames, caches, tablevars, bddrefstack, clientvars>>

Collecting(level, low, high) ==
  Collects /\ (level = MAXLEVEL \/ low # high) /\ Matches(level, low, high) = {}

MakeDecision ==
  /\ calling # None
  /\ IsDecision(call.op, calling)
  /\ \E n \in Slot :
       /\ bdd_makenode(LEVEL(calling[1]), calling[2], calling[3], n)
       /\ returned' = n
  /\ caches' = IF Collecting(LEVEL(calling[1]), calling[2], calling[3])
                 THEN AllReset ELSE caches
  /\ calling' = None
  /\ UNCHANGED <<call, frames, bddrefstack, clientvars>>

\* No shortcut is left.
Asks(op, args) == Immediate(op, args) = {} /\ ~IsDecision(op, args)

ReturnCached ==
  /\ calling # None
  /\ Asks(call.op, calling) /\ Hit(call.op, calling)
  /\ returned' = CacheEntry(call.op, calling).res
  /\ calling' = None
  /\ UNCHANGED <<call, frames, caches, tablevars, bddrefstack, clientvars>>

AllLeaves(args) == \A i \in DOMAIN args : Leaf(args[i])

\* Leaves: the callback, and mtbdd_leaf_result of what it returns.
CallBack ==
  LET value == Callback(call.op, [i \in DOMAIN calling |-> TerminalValue(calling[i])])
      makes == value # NoValue /\ FindTerminal(value) = {}
  IN  /\ calling # None /\ call.op # "ite"
      /\ AllLeaves(calling) /\ ~Hit(call.op, calling)
      /\ \E n \in Slot :
           /\ IF value = NoValue THEN n = 0 /\ UNCHANGED tablevars
              ELSE mtbdd_maketerminal(value, n)
           /\ caches' = StoredAfter(makes /\ Collects, calling, n)
           /\ returned' = n
      /\ calling' = None
      /\ UNCHANGED <<call, frames, bddrefstack, clientvars>>

Descend ==
  /\ calling # None
  /\ Asks(call.op, calling) /\ ~Hit(call.op, calling)
  /\ call.op # "ite" => ~AllLeaves(calling)
  /\ frames' = Append(frames, [args |-> calling, step |-> "low"])
  /\ calling' = Cofactors(calling, FALSE)
  /\ UNCHANGED <<call, returned, caches, tablevars, bddrefstack, clientvars>>

Innermost == frames[Len(frames)]

\* PUSHREF of the low result, and the call on the high cofactors.
PushLow ==
  /\ returned # NoNode /\ frames # <<>> /\ Innermost.step = "low"
  /\ bddrefstack' = Append(bddrefstack, returned)
  /\ returned' = NoNode
  /\ frames' = [frames EXCEPT ![Len(frames)].step = "high"]
  /\ calling' = Cofactors(Innermost.args, TRUE)
  /\ UNCHANGED <<call, caches, tablevars, clientvars>>

\* PUSHREF of the high result.
PushHigh ==
  /\ returned # NoNode /\ frames # <<>> /\ Innermost.step = "high"
  /\ bddrefstack' = Append(bddrefstack, returned)
  /\ returned' = NoNode
  /\ frames' = [frames EXCEPT ![Len(frames)].step = "make"]
  /\ UNCHANGED <<call, calling, caches, tablevars, clientvars>>

\* bdd_makenode on both results, POPREF of them, and the cache entry.
Build ==
  /\ calling = None /\ frames # <<>> /\ Innermost.step = "make"
  /\ LET depth == Len(bddrefstack)
         level == TopLevel(Innermost.args)
         low == bddrefstack[depth - 1]
         high == bddrefstack[depth]
     IN  /\ \E n \in Slot :
              /\ bdd_makenode(level, low, high, n)
              /\ caches' = StoredAfter(Collecting(level, low, high), Innermost.args, n)
              /\ returned' = n
         /\ bddrefstack' = SubSeq(bddrefstack, 1, depth - 2)
  /\ frames' = SubSeq(frames, 1, Len(frames) - 1)
  /\ UNCHANGED <<call, calling, clientvars>>

\* The outermost call has returned.
Finish ==
  /\ call # None /\ returned # NoNode /\ frames = <<>>
  /\ result' = [to |-> call.to, node |-> returned]
  /\ call' = None /\ returned' = NoNode
  /\ UNCHANGED <<calling, frames, caches, tablevars, bddrefstack, edge>>

----------------------------------------------------------------------------
\* The client between two operations.  A node made by it can need a
\* collection as well.
ResetIf(collects) == caches' = IF collects THEN AllReset ELSE caches

NewTerminal(t) ==
  /\ call = None /\ MakeTerminal(t)
  /\ ResetIf(Collects /\ FindTerminal(t.value) = {})
  /\ UNCHANGED callvars

NewNodeOf(m) ==
  /\ call = None /\ MakeNode(m)
  /\ ResetIf(Collecting(m.level, Operand(m.low), Operand(m.high)))
  /\ UNCHANGED callvars

TakeReference == call = None /\ AddRef /\ UNCHANGED <<caches, callvars>>
GiveReference(x) == call = None /\ DelRef(x) /\ UNCHANGED <<caches, callvars>>
Collect == call = None /\ Gbc /\ ResetIf(TRUE) /\ UNCHANGED callvars

ApplyNext ==
  \/ \E o \in Operations : Start(o)
  \/ ReturnImmediate
  \/ MakeDecision
  \/ ReturnCached
  \/ CallBack
  \/ Descend
  \/ PushLow
  \/ PushHigh
  \/ Build
  \/ Finish
  \/ \E t \in Terminals : NewTerminal(t)
  \/ \E m \in Nodes : NewNodeOf(m)
  \/ TakeReference
  \/ \E x \in Names : GiveReference(x)
  \/ Collect

ApplySpec == ApplyInit /\ [][ApplyNext]_allvars

=============================================================================
