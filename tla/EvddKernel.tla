----------------------------- MODULE EvddKernel -----------------------------
(***************************************************************************)
(* The kernel of the edge-valued diagrams, evdd_kernel.c: a second node    *)
(* table, whose nodes carry a weight on each of their two edges, with its  *)
(* own reference stack, collector and resizing, and evdd_normalize, which  *)
(* rebuilds a diagram bottom-up with normalized weights while collections  *)
(* may come in the middle of the walk.                                     *)
(*                                                                         *)
(* An edge (struct EVDD) is a record [node, w].  A slot holds a record     *)
(* [level, low, wl, high, wh], or Free (low = -1 in the code); slot 0 is   *)
(* the one terminal, and zero is the edge to it with weight 0.  The chains *)
(* of the unique table are left out (NodeTable models them): a node is     *)
(* found if a slot holds its key.                                          *)
(*                                                                         *)
(* A value id of the intern table stands for its value, and values are the *)
(* integers modulo the prime Modulus, which have an exact product and      *)
(* quotient, as a type for which equal values are interned once must have. *)
(* The strategy is EVDD_NORMALIZE_FIRST_NONZERO.                           *)
(*                                                                         *)
(* The client has variables (Names) with edges in them, each protected by  *)
(* evdd_addref.  The C stack of evdd_normalize_node is the sequence frames.*)
(***************************************************************************)
EXTENDS Integers, FiniteSets, Sequences

CONSTANTS
  InitSize,    \* evddnodesize after evdd_init
  MaxRef,      \* EVDD_MAXREF
  Modulus,     \* a prime: the values are 0..Modulus-1
  Names,       \* the client's variables
  Calls,       \* the calls of evdd_makenode and evdd_makenode_raw it may make
  Normalizes,  \* the calls of evdd_normalize: [from, to]
  Terminal,    \* EVDD_MAXLEVEL
  One,         \* in a call: the terminal, in the place of a variable
  CacheSize,   \* slots of evdd_applycache
  SlotBound    \* bound: a table larger than this is never asked for

IsPrime(n) == n > 1 /\ \A d \in 2..(n-1) : n % d # 0

ASSUME EvddAssumption ==
  /\ InitSize \in Nat /\ SlotBound \in Nat /\ InitSize <= SlotBound /\ Modulus \in Nat
  /\ IsPrime(InitSize) /\ IsPrime(Modulus)
  /\ MaxRef \in Nat \ {0} /\ CacheSize \in Nat \ {0} /\ Terminal \in Nat
  /\ IsFiniteSet(Names) /\ One \notin Names

ASSUME CallAssumption ==
  /\ Calls \subseteq [to : Names, raw : BOOLEAN, level : 0..(Terminal - 1),
                      low : Names \cup {One}, wl : 0..(Modulus - 1),
                      high : Names \cup {One}, wh : 0..(Modulus - 1)]
  /\ Normalizes \subseteq [from : Names, to : Names]

\* No raw node has two weights 0: of such a node evdd_makenode makes the edge
\* to the terminal, and what evdd_normalize pops is not a child of it.
ASSUME WeightAssumption == \A c \in Calls : c.raw => c.wl # 0 \/ c.wh # 0

VARIABLES
  evddnodesize, node, refcou,  \* evddnodes; the free list is the free slots, smallest first
  evdd_applycache,             \* slot to entry, of the current generation, or NoEntry
  evddrefstack,
  edge,      \* what the client's variables hold, or NoEdge
  result,    \* what the last call returned, still unprotected: [to, e], or None
  call,      \* the evdd_normalize that runs: [from, to], or None
  memo,      \* slot to the edge its node was normalized to, or NoEdge
  calling,   \* the node evdd_normalize_node is about to be called on, or NoNode
  frames,    \* the calls of it that wait: [node, step, low, high]
  returned   \* the edge the last of them returned, or NoEdge

table == <<evddnodesize, node, refcou>>
walk == <<call, memo, calling, frames, returned>>
vars == <<table, evdd_applycache, evddrefstack, edge, result, walk>>

Free == <<>>
NoEdge == <<>>
None == <<>>
NoNode == -1
NoEntry == <<>>

Edge(n, w) == [node |-> n, w |-> w]
evdd_false == Edge(0, 0)
Const(n) == n = 0

----------------------------------------------------------------------------
\* Weights.

Weights == 0..(Modulus - 1)
evdd_value_mul(a, b) == (a * b) % Modulus
evdd_value_div(a, b) == CHOOSE q \in Weights : evdd_value_mul(q, b) = a
evdd_value_unit(w) == IF w = 0 THEN 0 ELSE evdd_value_div(w, w)
evdd_value_unit_from_pair(a, b) == IF a # 0 THEN evdd_value_unit(a) ELSE evdd_value_unit(b)

\* Mutant: no factor is pulled out.
NormalizeNothing(wl, wh) ==
  [incoming |-> IF wl = 0 /\ wh = 0 THEN 0 ELSE 1, wl |-> wl, wh |-> wh]

\* evdd_value_normalize with evdd_norm_first_nonzero: the factor pulled out,
\* and the two weights that are left.
evdd_value_normalize(wl, wh) ==
  IF wl # 0
    THEN [incoming |-> wl, wl |-> evdd_value_unit(wl), wh |-> evdd_value_div(wh, wl)]
    ELSE [incoming |-> wh, wl |-> 0, wh |-> evdd_value_unit(wh)]

----------------------------------------------------------------------------
\* The table.

Slot == 0..(evddnodesize - 1)
Live == {n \in Slot : node[n] # Free}
Children(n) == IF Const(n) THEN {} ELSE {node[n].low, node[n].high}

\* What evdd_gbc marks from: every counted node, and the reference stack,
\* with what evdd_makenode has pushed on it.
Roots(pushed) ==
  {n \in Live : refcou[n] > 0 \/ n \in pushed
                 \/ \E i \in DOMAIN evddrefstack : evddrefstack[i] = n}

\* evdd_mark: the smallest set with the roots and the children of its nodes.
Marked(pushed) ==
  LET roots == Roots(pushed)
      closed == {S \in {roots \cup T : T \in SUBSET (Live \ roots)} :
                   \A n \in S : Children(n) \subseteq S}
  IN  {n \in Live : \A S \in closed : n \in S}

\* evdd_noderesize: twice the size, rounded down to a prime (there is no
\* limit: nothing sets evddmaxnodesize).
Resized(size) ==
  /\ size <= 2 * evddnodesize /\ IsPrime(size)
  /\ \A q \in (size + 1)..(2 * evddnodesize) : ~IsPrime(q)

\* Mutant: the caches go on as they are.
evdd_operator_keep == evdd_applycache

\* evdd_operator_reset, the last thing evdd_gbc does: a new generation.
evdd_operator_reset == [i \in DOMAIN evdd_applycache |-> NoEntry]

\* The table of the given size in which the nodes in keep survive, and the
\* slots in new hold the node key.
Rebuild(keep, size, new, key) ==
  /\ evddnodesize' = size
  /\ node' = [n \in 0..(size-1) |->
                IF n \in new THEN key ELSE IF n \in keep THEN node[n] ELSE Free]
  /\ refcou' = [n \in 0..(size-1) |-> IF n \in keep THEN refcou[n] ELSE 0]

Least(S) == {n \in S : \A m \in S : n <= m}

\* evdd_makenode_raw returns the edge res and leaves the cache as cache; pushed
\* are the nodes on the reference stack above evddrefstack.
evdd_makenode_raw(level, low, high, pushed, res, cache) ==
  LET key == [level |-> level, low |-> low.node, wl |-> low.w,
              high |-> high.node, wh |-> high.w]
      found == {n \in Live \ {0} : node[n] = key}
      keep == Marked(pushed)
  IN  \/ low = high /\ res = low /\ cache = evdd_applycache /\ UNCHANGED table
      \/ /\ low # high
         /\ res.w = evdd_value_unit_from_pair(low.w, high.w)
         /\ \/ res.node \in found /\ cache = evdd_applycache /\ UNCHANGED table
            \/ /\ found = {} /\ cache = evdd_applycache
               /\ res.node \in Least(Slot \ Live)
               /\ Rebuild(Live, evddnodesize, {res.node}, key)
            \/ /\ found = {} /\ Live = Slot /\ cache = evdd_operator_reset
               /\ \E size \in evddnodesize..SlotBound :
                    /\ IF keep = Slot THEN Resized(size) ELSE size = evddnodesize
                    /\ res.node \in Least((0..(size-1)) \ keep)
                    /\ Rebuild(keep, size, {res.node}, key)

\* evdd_makenode normalizes the weights, and makes the node with those.
evdd_makenode(level, low, high, res, cache) ==
  LET normalized == evdd_value_normalize(low.w, high.w) IN
  \/ normalized.incoming = 0 /\ res = evdd_false /\ cache = evdd_applycache /\ UNCHANGED table
  \/ /\ normalized.incoming # 0
     /\ \E w \in Weights :
          /\ evdd_makenode_raw(level, Edge(low.node, normalized.wl),
                               Edge(high.node, normalized.wh),
                               {low.node, high.node}, Edge(res.node, w), cache)
          /\ res.w = evdd_value_mul(normalized.incoming, w)

----------------------------------------------------------------------------
\* The client, between two operations.

Idle == call = None /\ result = None

Init ==
  /\ evddnodesize = InitSize
  /\ node = [n \in 0..(InitSize - 1) |->
               IF n = 0 THEN [level |-> Terminal, low |-> 0, wl |-> 0, high |-> 0, wh |-> 0]
               ELSE Free]
  /\ refcou = [n \in 0..(InitSize - 1) |-> IF n = 0 THEN MaxRef ELSE 0]
  /\ evdd_applycache = [i \in 0..(CacheSize - 1) |-> NoEntry]
  /\ evddrefstack = <<>>
  /\ edge = [x \in Names |-> NoEdge]
  /\ result = None
  /\ call = None /\ memo = <<>> /\ calling = NoNode /\ frames = <<>> /\ returned = NoEdge

\* Mutant: a count that forgets it has saturated.
DecreasedAlways(count) == IF count > 0 THEN count - 1 ELSE count

\* EVDDINCREF and EVDDDECREF
Increased(count) == IF count < MaxRef THEN count + 1 ELSE count
Decreased(count) == IF count # MaxRef /\ count > 0 THEN count - 1 ELSE count

\* An argument of a call: the node of a variable, or the terminal, with the
\* weight the client gives the edge.
Argument(x, w) == IF x = One THEN Edge(0, w) ELSE Edge(edge[x].node, w)

\* A call of evdd_makenode or evdd_makenode_raw by the client, which keeps to
\* the order of the levels: neither of the two looks at it.
Make(c) ==
  /\ Idle
  /\ edge[c.to] = NoEdge
  /\ \A x \in {c.low, c.high} \ {One} : edge[x] # NoEdge /\ c.level < node[edge[x].node].level
  /\ \E n \in 0..(SlotBound - 1) : \E w \in Weights :
       LET low == Argument(c.low, c.wl)
           high == Argument(c.high, c.wh)
           res == Edge(n, w)
       IN  /\ IF c.raw THEN evdd_makenode_raw(c.level, low, high, {}, res, evdd_applycache')
                       ELSE evdd_makenode(c.level, low, high, res, evdd_applycache')
           /\ result' = [to |-> c.to, e |-> res]
  /\ UNCHANGED <<evddrefstack, edge, walk>>

\* evdd_addref of what the call returned, which the client keeps.  The
\* terminal is not counted.
AddRef ==
  /\ call = None /\ result # None
  /\ edge' = [edge EXCEPT ![result.to] = result.e]
  /\ refcou' = IF Const(result.e.node) THEN refcou
               ELSE [refcou EXCEPT ![result.e.node] = Increased(@)]
  /\ result' = None
  /\ UNCHANGED <<evddnodesize, node, evdd_applycache, evddrefstack, walk>>

\* evdd_delref of an edge the client needs no more.
DelRef(x) ==
  /\ Idle
  /\ edge[x] # NoEdge
  /\ edge' = [edge EXCEPT ![x] = NoEdge]
  /\ refcou' = IF Const(edge[x].node) THEN refcou
               ELSE [refcou EXCEPT ![edge[x].node] = Decreased(@)]
  /\ UNCHANGED <<evddnodesize, node, evdd_applycache, evddrefstack, result, walk>>

\* evdd_gbc called by the client.
Gbc ==
  /\ Idle
  /\ Rebuild(Marked({}), evddnodesize, {}, Free)
  /\ evdd_applycache' = evdd_operator_reset
  /\ UNCHANGED <<evddrefstack, edge, result, walk>>

----------------------------------------------------------------------------
\* evdd_normalize, one step for each thing its recursion does.

Top == frames[Len(frames)]

\* The terminal is returned as it is.  Of any other diagram the root is
\* pushed, and the walk starts with an empty memo.
Normalize(c) ==
  /\ Idle
  /\ edge[c.from] # NoEdge /\ edge[c.to] = NoEdge
  /\ IF Const(edge[c.from].node)
       THEN result' = [to |-> c.to, e |-> edge[c.from]] /\ UNCHANGED <<evddrefstack, walk>>
       ELSE /\ call' = c
            /\ evddrefstack' = <<edge[c.from].node>>
            /\ memo' = [n \in Slot |-> NoEdge]
            /\ calling' = edge[c.from].node
            /\ UNCHANGED <<frames, returned, result>>
  /\ UNCHANGED <<table, evdd_applycache, edge>>

\* evdd_normalize_node of a node in the memo, and of any other.
Recall ==
  /\ calling # NoNode /\ memo[calling] # NoEdge
  /\ returned' = memo[calling]
  /\ calling' = NoNode
  /\ UNCHANGED <<table, evdd_applycache, evddrefstack, edge, result, call, memo, frames>>

Enter ==
  /\ calling # NoNode /\ memo[calling] = NoEdge
  /\ frames' = Append(frames, [node |-> calling, step |-> "low", low |-> NoEdge, high |-> NoEdge])
  /\ calling' = NoNode
  /\ UNCHANGED <<table, evdd_applycache, evddrefstack, edge, result, call, memo, returned>>

\* The child the innermost call is at, and the weight of the edge to it.
Child == IF Top.step = "low" THEN node[Top.node].low ELSE node[Top.node].high
ChildWeight == IF Top.step = "low" THEN node[Top.node].wl ELSE node[Top.node].wh

AtChild == calling = NoNode /\ frames # <<>> /\ Top.step \in {"low", "high"}

\* It calls itself on the child.
Descend ==
  /\ AtChild /\ returned = NoEdge /\ ~Const(Child)
  /\ calling' = Child
  /\ UNCHANGED <<table, evdd_applycache, evddrefstack, edge, result, call, memo, frames, returned>>

Push(e) == evddrefstack' = Append(evddrefstack, e.node)

\* The edge to the normalized child: it is the terminal, or its call has
\* returned.
TakeChild ==
  /\ AtChild /\ Const(Child) = (returned = NoEdge)
  /\ LET e == IF Const(Child) THEN Edge(Child, ChildWeight)
              ELSE Edge(returned.node, evdd_value_mul(ChildWeight, returned.w))
     IN  /\ Push(e)
         /\ frames' = [frames EXCEPT ![Len(frames)] =
                         IF Top.step = "low" THEN [@ EXCEPT !.step = "high", !.low = e]
                                             ELSE [@ EXCEPT !.step = "make", !.high = e]]
  /\ returned' = NoEdge
  /\ UNCHANGED <<table, evdd_applycache, edge, result, call, memo, calling>>

\* Mutant: the root takes the place of the result.
PopAndPushRoot(n) ==
  Append(SubSeq(evddrefstack, 1, Len(evddrefstack) - 2), evddrefstack[1])

\* EVDD_POPREF(2), which takes off the two entries on top, whatever they
\* are: the entry of the high child, and then the one its call left for the
\* memo, if it left one, or else the entry of the low child.  Then the
\* result is pushed, for the memo.
PopAndPush(n) == Append(SubSeq(evddrefstack, 1, Len(evddrefstack) - 2), n)

\* evdd_makenode on the two edges, and the entry of the memo.
MakeNormalized ==
  /\ frames # <<>> /\ Top.step = "make"
  /\ \E n \in 0..(SlotBound - 1) : \E w \in Weights :
       /\ evdd_makenode(node[Top.node].level, Top.low, Top.high, Edge(n, w), evdd_applycache')
       /\ returned' = Edge(n, w)
       /\ memo' = [memo EXCEPT ![Top.node] = Edge(n, w)]
       /\ evddrefstack' = PopAndPush(n)
  /\ frames' = SubSeq(frames, 1, Len(frames) - 1)
  /\ UNCHANGED <<edge, result, call, calling>>

\* The outermost call has returned: evdd_normalize multiplies in the weight
\* of the root, and sets evddrefstacktop back.
Finish ==
  /\ call # None /\ frames = <<>> /\ returned # NoEdge
  /\ result' = [to |-> call.to,
                e |-> Edge(returned.node, evdd_value_mul(edge[call.from].w, returned.w))]
  /\ evddrefstack' = <<>>
  /\ call' = None /\ memo' = <<>> /\ returned' = NoEdge
  /\ UNCHANGED <<table, evdd_applycache, edge, calling, frames>>

Next ==
  \/ \E c \in Calls : Make(c)
  \/ AddRef
  \/ \E x \in Names : DelRef(x)
  \/ Gbc
  \/ \E c \in Normalizes : Normalize(c)
  \/ Recall
  \/ Enter
  \/ Descend
  \/ TakeChild
  \/ MakeNormalized
  \/ Finish

Spec == Init /\ [][Next]_vars

=============================================================================
