----------------------------- MODULE EvddApply -----------------------------
(***************************************************************************)
(* evdd_apply over EvddKernel, one step for each thing its recursion does: *)
(* an operator on values, put to the terminals of two diagrams.  The edges *)
(* carry weights down the recursion, so that a cache entry has edges for   *)
(* its key and its result, and the nodes in them are slots that the        *)
(* collector may clear.  The C stack of evdd_apply_rec is the sequence     *)
(* waiting.                                                                *)
(***************************************************************************)
EXTENDS EvddKernel

CONSTANTS
  Applies,         \* bound: the calls: [a, b, op, to], a and b in variables
  Operator(_, _, _), \* the client's evdd_apply_op
  ApplyHash(_, _, _) \* evdd_apply_hash and HASHRANGE: a slot of the cache

ASSUME ApplyAssumption ==
  LET Edges == [node : 0..(SlotBound - 1), w : Weights] IN
  \A c \in Applies :
    /\ c.a \in Names /\ c.b \in Names /\ c.to \in Names
    /\ c = [a |-> c.a, b |-> c.b, op |-> c.op, to |-> c.to]
    /\ \A v, w \in Weights : Operator(c.op, v, w) \in Weights
    /\ \A e, f \in Edges : ApplyHash(e, f, c.op) \in 0..(CacheSize - 1)

VARIABLES
  applying,        \* the evdd_apply that runs, or None
  operands,        \* the edges evdd_apply_rec is about to be called on, or None
  waiting,         \* the calls of it that wait: [a, b, step, low]
  answer           \* the edge the last of them returned, or NoEdge

apply == <<applying, operands, waiting, answer>>
applyvars == <<vars, apply>>

----------------------------------------------------------------------------
\* Edges going down.

Level(e) == IF Const(e.node) THEN Terminal ELSE node[e.node].level
TopLevel(a, b) == IF Level(a) < Level(b) THEN Level(a) ELSE Level(b)

evdd_edge_low(e) == Edge(node[e.node].low, evdd_value_mul(e.w, node[e.node].wl))
evdd_edge_high(e) == Edge(node[e.node].high, evdd_value_mul(e.w, node[e.node].wh))

\* An operand with its top further down stays as it is.
LowOperands(a, b) ==
  [a |-> IF Level(a) = TopLevel(a, b) THEN evdd_edge_low(a) ELSE a,
   b |-> IF Level(b) = TopLevel(a, b) THEN evdd_edge_low(b) ELSE b]
HighOperands(a, b) ==
  [a |-> IF Level(a) = TopLevel(a, b) THEN evdd_edge_high(a) ELSE a,
   b |-> IF Level(b) = TopLevel(a, b) THEN evdd_edge_high(b) ELSE b]

----------------------------------------------------------------------------
\* The cache.  An entry has the operands, the operator and the result.

Slot_(a, b) == ApplyHash(a, b, applying.op)
Hit(a, b) ==
  LET entry == evdd_applycache[Slot_(a, b)]
  IN  entry # NoEntry /\ <<entry.a, entry.b, entry.op>> = <<a, b, applying.op>>
Stored(cache, a, b, res) ==
  [cache EXCEPT ![Slot_(a, b)] = [a |-> a, b |-> b, op |-> applying.op, res |-> res]]

----------------------------------------------------------------------------
\* evdd_apply pushes the roots of its operands; when the recursion is over it
\* sets evddrefstacktop back.
StartApply(c) ==
  /\ Idle
  /\ edge[c.a] # NoEdge /\ edge[c.b] # NoEdge /\ edge[c.to] = NoEdge
  /\ applying' = c
  /\ operands' = [a |-> edge[c.a], b |-> edge[c.b]]
  /\ evddrefstack' = <<edge[c.a].node, edge[c.b].node>>
  /\ UNCHANGED <<table, evdd_applycache, edge, result, walk, waiting, answer>>

ReturnCached ==
  /\ operands # None /\ Hit(operands.a, operands.b)
  /\ answer' = evdd_applycache[Slot_(operands.a, operands.b)].res
  /\ operands' = None
  /\ UNCHANGED <<vars, applying, waiting>>

Terminals == Const(operands.a.node) /\ Const(operands.b.node)

\* Two terminals: the values of the edges to them are those of the functions.
ReturnValue ==
  /\ operands # None /\ ~Hit(operands.a, operands.b) /\ Terminals
  /\ answer' = Edge(0, Operator(applying.op, operands.a.w, operands.b.w))
  /\ evdd_applycache' = Stored(evdd_applycache, operands.a, operands.b, answer')
  /\ operands' = None
  /\ UNCHANGED <<table, evddrefstack, edge, result, walk, applying, waiting>>

\* The call on the low cofactors.
CallLow ==
  /\ operands # None /\ ~Hit(operands.a, operands.b) /\ ~Terminals
  /\ waiting' = Append(waiting, [a |-> operands.a, b |-> operands.b, step |-> "low", low |-> NoEdge])
  /\ operands' = LowOperands(operands.a, operands.b)
  /\ UNCHANGED <<vars, applying, answer>>

Innermost == waiting[Len(waiting)]

\* EVDD_PUSHREF of the low result, and the call on the high cofactors.
CallHigh ==
  /\ answer # NoEdge /\ waiting # <<>> /\ Innermost.step = "low"
  /\ Push(answer)
  /\ waiting' = [waiting EXCEPT ![Len(waiting)] = [@ EXCEPT !.step = "high", !.low = answer]]
  /\ operands' = HighOperands(Innermost.a, Innermost.b)
  /\ answer' = NoEdge
  /\ UNCHANGED <<table, evdd_applycache, edge, result, walk, applying>>

\* EVDD_PUSHREF of the high result, evdd_makenode (which pushes both again,
\* so that the entry counts for nothing), EVDD_POPREF(2), and the entry of
\* the cache: in the new generation, if the collector has begun one.
MakeApplied ==
  /\ answer # NoEdge /\ waiting # <<>> /\ Innermost.step = "high"
  /\ \E n \in 0..(SlotBound - 1) : \E w \in Weights :
       \E cache \in {evdd_applycache, evdd_operator_reset} :
         /\ evdd_makenode(TopLevel(Innermost.a, Innermost.b), Innermost.low, answer, Edge(n, w), cache)
         /\ answer' = Edge(n, w)
         /\ evdd_applycache' = Stored(cache, Innermost.a, Innermost.b, Edge(n, w))
  /\ evddrefstack' = SubSeq(evddrefstack, 1, Len(evddrefstack) - 1)
  /\ waiting' = SubSeq(waiting, 1, Len(waiting) - 1)
  /\ UNCHANGED <<edge, result, walk, applying, operands>>

EndApply ==
  /\ answer # NoEdge /\ waiting = <<>>
  /\ result' = [to |-> applying.to, e |-> answer]
  /\ evddrefstack' = <<>>
  /\ applying' = None /\ answer' = NoEdge
  /\ UNCHANGED <<table, evdd_applycache, edge, walk, operands, waiting>>

InitApply == Init /\ applying = None /\ operands = None /\ waiting = <<>> /\ answer = NoEdge

NextApply ==
  \/ applying = None /\ Next /\ UNCHANGED apply
  \/ \E c \in Applies : applying = None /\ StartApply(c)
  \/ ReturnCached
  \/ ReturnValue
  \/ CallLow
  \/ CallHigh
  \/ MakeApplied
  \/ EndApply

SpecApply == InitApply /\ [][NextApply]_applyvars

=============================================================================
