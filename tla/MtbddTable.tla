----------------------------- MODULE MtbddTable -----------------------------
(***************************************************************************)
(* Multi-terminal diagrams, mtbdd.c: terminals are nodes of bddnodes at    *)
(* the level MAXLEVEL, whose values are in a table of their own, and whose *)
(* slots there are given back by the sweep of bdd_gbc.                     *)
(*                                                                         *)
(* The domain is LONGVAL (DOUBLEVAL differs in the type of the values).  A *)
(* node is a record [level, low, high]; of a terminal low is the type, and *)
(* high the index of the value, as the union in BddNode has it.  The       *)
(* chains of the unique table are left out, and the table does not grow    *)
(* (NodeTable models both): bddmaxnodesize is InitSize.  All types are 0.  *)
(***************************************************************************)
EXTENDS Integers, FiniteSets, Sequences

CONSTANTS
  VarNum,     \* bddvarnum
  InitSize,   \* bddnodesize
  MaxRef,     \* MAXREF
  MAXLEVEL,
  INITIAL_TERMINAL_SIZE,
  Values,     \* bound: the values of terminals
  Names,      \* the client's variables
  Terminals,  \* the calls of mtbdd_maketerminal it may make: [to, value]
  Nodes       \* and those of bdd_makenode: [to, level, low, high]

\* What the client can name without having made it: the constants, and the
\* variable of level l (bdd_ithvar).
Constant(n) == [constant |-> n]
Literal(l) == [literal |-> l]
Fixed == {Constant(n) : n \in {0, 1}} \cup {Literal(l) : l \in 0..(VarNum - 1)}

ASSUME MtbddAssumption ==
  /\ VarNum \in Nat \ {0} /\ MAXLEVEL \in Nat /\ VarNum < MAXLEVEL
  /\ InitSize \in Nat /\ 2 * VarNum + 2 < InitSize
  /\ MaxRef \in Nat \ {0} /\ Values \subseteq Nat
  /\ INITIAL_TERMINAL_SIZE \in Nat \ {0}
  /\ Terminals \subseteq [to : Names, value : Values]
  /\ Nodes \subseteq [to : Names, level : 0..(VarNum - 1),
                      low : Names \cup Fixed, high : Names \cup Fixed]
  /\ IsFiniteSet(Names) /\ Names \cap Fixed = {}

VARIABLES
  node,       \* bddnodes; the free list is the free slots, smallest first
  refcou,
  bdderrorcond,
  bddrefstack,
  values,     \* mtbddterminalVals: see NoValues
  edge,       \* what the client's variables hold, or NoNode
  result      \* what the last call returned, still unprotected: [to, node], or None

tablevars == <<node, refcou, bdderrorcond, values>>
clientvars == <<edge, result>>

Free == <<>>
None == <<>>
NoNode == -1
NoValue == -1

----------------------------------------------------------------------------
\* The values.  at holds longValues, whose size is mtbddmaxTerminalSize; used
\* and last are mtbddTerminalUsed and mtbddLastValueIndex; top is the index
\* stack.
NoValues == [at |-> <<>>, used |-> 0, last |-> 0, top |-> <<>>]

Capacity(vals) == Cardinality(DOMAIN vals.at)

\* The index mtbdd_insertvalue takes: mtbdd_IndexStackPop, or the next one.
NextIndex(vals) == IF vals.top = <<>> THEN vals.last ELSE Head(vals.top)

\* mtbdd_insertvalue: the first call allocates the table, and a full one is
\* doubled.
mtbdd_insertvalue(vals, value) ==
  LET size == IF Capacity(vals) = 0 THEN INITIAL_TERMINAL_SIZE
              ELSE IF vals.used = Capacity(vals) THEN 2 * Capacity(vals)
              ELSE Capacity(vals)
  IN  [at |-> [i \in 0..(size - 1) |->
                 IF i = NextIndex(vals) THEN value
                 ELSE IF i \in DOMAIN vals.at THEN vals.at[i] ELSE NoValue],
       used |-> vals.used + 1,
       last |-> IF vals.top = <<>> THEN vals.last + 1 ELSE vals.last,
       top |-> IF vals.top = <<>> THEN <<>> ELSE Tail(vals.top)]

----------------------------------------------------------------------------
\* The node table.

Slot == 0..(InitSize - 1)
Live == {n \in Slot : node[n] # Free}
LEVEL(n) == node[n].level
LOW(n) == node[n].low
HIGH(n) == node[n].high
ISCONST(n) == n < 2
ISTERMINAL(n) == LEVEL(n) = MAXLEVEL

Children(n) == IF ISCONST(n) \/ ISTERMINAL(n) THEN {} ELSE {LOW(n), HIGH(n)}

\* Mutant: the collector does not look at the reference stack.
RootsWithoutStack == {n \in Live : refcou[n] > 0}

Roots == {n \in Live : refcou[n] > 0 \/ \E i \in DOMAIN bddrefstack : bddrefstack[i] = n}

\* bdd_mark: the smallest set with the roots and the children of its nodes;
\* it stops at constants and terminals.
Closed(S) == \A n \in S : Children(n) \subseteq S
Marked ==
  LET closed == {S \in {Roots \cup T : T \in SUBSET (Live \ Roots)} : Closed(S)}
  IN  {n \in Live : \A S \in closed : n \in S}

Survivors == Marked \cup {0, 1}

\* The slots of a set, as a loop over the table comes to them.
InOrder(slots) ==
  CHOOSE s \in [1..Cardinality(slots) -> slots] : \A i, j \in DOMAIN s : i < j => s[i] < s[j]

\* Mutant: mtbddTerminalUsed is not counted down.
DeletedWithoutCount(vals, swept) ==
  LET slots == InOrder({n \in swept : ISTERMINAL(n)})
  IN  [vals EXCEPT !.top = [i \in DOMAIN slots |-> HIGH(slots[i])] \o @]

\* mtbdd_delete_terminal for every terminal the sweep takes away, from the
\* last slot down: their indices come on top of the index stack.  What a
\* value was that has no terminal is left out.
mtbdd_delete_terminals(vals, swept) ==
  LET terminals == {n \in swept : ISTERMINAL(n) /\ HIGH(n) < Capacity(vals)}
      slots == InOrder(terminals)
      indices == [i \in DOMAIN slots |-> HIGH(slots[i])]
  IN  [vals EXCEPT !.at = [i \in DOMAIN @ |-> IF \E k \in DOMAIN indices : indices[k] = i
                                              THEN NoValue ELSE @[i]],
                   !.used = @ - Len(indices),
                   !.top = indices \o @]

\* The free list is empty, and no error stands: bdd_makenode collects.
Collects == Live = Slot /\ ~bdderrorcond

\* bdd_makenode, once it has found no node: the slot res becomes the node
\* new.  vals are the values before it, and zero is the record the slot 0
\* has after it, if it fails.
NewNode(new, vals, zero, res) ==
  LET keep == Survivors
      Least(S) == {n \in S : \A m \in S : n <= m}
  IN  \/ /\ res \in Least(Slot \ Live)
         /\ node' = [node EXCEPT ![res] = new]
         /\ refcou' = [refcou EXCEPT ![res] = 0]
         /\ values' = vals
         /\ UNCHANGED bdderrorcond
      \/ /\ Collects
         /\ res \in Least(Slot \ keep)
         /\ node' = [n \in Slot |-> IF n = res THEN new ELSE IF n \in keep THEN node[n] ELSE Free]
         /\ refcou' = [n \in Slot |-> IF n \in keep THEN refcou[n] ELSE 0]
         /\ values' = mtbdd_delete_terminals(vals, Live \ keep)
         /\ UNCHANGED bdderrorcond
      \/ /\ Live = Slot /\ (bdderrorcond \/ keep = Slot)
         /\ res = 0
         /\ node' = [node EXCEPT ![0] = zero]
         /\ values' = vals
         /\ bdderrorcond' = TRUE
         /\ UNCHANGED refcou

\* The node of a key, which bdd_makenode looks for only below MAXLEVEL.
Matches(level, low, high) ==
  IF level = MAXLEVEL THEN {}
  ELSE {n \in Live \ {0, 1} : LEVEL(n) = level /\ LOW(n) = low /\ HIGH(n) = high}

bdd_makenode(level, low, high, res) ==
  IF level # MAXLEVEL /\ low = high THEN res = low /\ UNCHANGED tablevars
  ELSE IF Matches(level, low, high) # {}
    THEN res \in Matches(level, low, high) /\ UNCHANGED tablevars
    ELSE NewNode([level |-> level, low |-> low, high |-> high], values, node[0], res)

\* Mutant: the search stops at the number of values in use.
FindBelowUsed(value) ==
  {n \in Live : ISTERMINAL(n) /\ HIGH(n) < values.used /\ values.at[HIGH(n)] = value}

\* mtbdd_findterminal: the chain it searches has every terminal of the value.
FindTerminal(value) ==
  {n \in Live : ISTERMINAL(n) /\ HIGH(n) < Capacity(values) /\ values.at[HIGH(n)] = value}

\* mtbdd_maketerminal inserts the value, makes the node with it, and writes
\* the index into the node it got, which is the constant 0 if that failed.
mtbdd_maketerminal(value, res) ==
  IF FindTerminal(value) # {}
    THEN res \in FindTerminal(value) /\ UNCHANGED tablevars
    ELSE LET index == NextIndex(values)
         IN  NewNode([level |-> MAXLEVEL, low |-> 0, high |-> index],
                     mtbdd_insertvalue(values, value),
                     [node[0] EXCEPT !.low = 0, !.high = index], res)

----------------------------------------------------------------------------
\* The client, between two operations.

TableInit ==
  /\ node = [n \in Slot |->
               IF n < 2 THEN [level |-> VarNum, low |-> n, high |-> n]
               ELSE IF n < 2 * VarNum + 2
                 THEN [level |-> (n - 2) \div 2, low |-> n % 2, high |-> 1 - (n % 2)]
               ELSE Free]
  /\ refcou = [n \in Slot |-> IF n < 2 * VarNum + 2 THEN MaxRef ELSE 0]
  /\ bdderrorcond = FALSE
  /\ bddrefstack = <<>>
  /\ values = NoValues
  /\ edge = [x \in Names |-> NoNode]
  /\ result = None

\* The node an operand of a call names.
Operand(x) ==
  IF x \in Names THEN edge[x]
  ELSE IF x \in {Constant(0), Constant(1)} THEN x.constant ELSE 2 * x.literal + 2

Known(x) == x \in Names => edge[x] # NoNode

\* The client goes on if there was no error, it has protected what the last
\* call returned, and the variable that is to have the next result is free.
Idle(x) == ~bdderrorcond /\ result = None /\ edge[x] = NoNode

MakeTerminal(t) ==
  /\ Idle(t.to)
  /\ \E n \in Slot : mtbdd_maketerminal(t.value, n) /\ result' = [to |-> t.to, node |-> n]
  /\ UNCHANGED <<bddrefstack, edge>>

MakeNode(m) ==
  /\ Idle(m.to) /\ Known(m.low) /\ Known(m.high)
  /\ \A x \in {m.low, m.high} : m.level < LEVEL(Operand(x))
  /\ \E n \in Slot :
       /\ bdd_makenode(m.level, Operand(m.low), Operand(m.high), n)
       /\ result' = [to |-> m.to, node |-> n]
  /\ UNCHANGED <<bddrefstack, edge>>

Increased(count) == IF count < MaxRef THEN count + 1 ELSE count
Decreased(count) == IF count # MaxRef /\ count > 0 THEN count - 1 ELSE count

\* bdd_addref of the result, which the client keeps.
AddRef ==
  /\ result # None
  /\ edge' = [edge EXCEPT ![result.to] = result.node]
  /\ refcou' = IF ISCONST(result.node) THEN refcou
               ELSE [refcou EXCEPT ![result.node] = Increased(@)]
  /\ result' = None
  /\ UNCHANGED <<node, bdderrorcond, bddrefstack, values>>

\* bdd_delref of what the client needs no more.
DelRef(x) ==
  /\ result = None /\ edge[x] # NoNode
  /\ edge' = [edge EXCEPT ![x] = NoNode]
  /\ refcou' = IF ISCONST(edge[x]) THEN refcou
               ELSE [refcou EXCEPT ![edge[x]] = Decreased(@)]
  /\ UNCHANGED <<node, bdderrorcond, bddrefstack, values, result>>

\* bdd_gbc called by the program.
Gbc ==
  LET keep == Survivors IN
  /\ result = None
  /\ node' = [n \in Slot |-> IF n \in keep THEN node[n] ELSE Free]
  /\ refcou' = [n \in Slot |-> IF n \in keep THEN refcou[n] ELSE 0]
  /\ values' = mtbdd_delete_terminals(values, Live \ keep)
  /\ UNCHANGED <<bdderrorcond, bddrefstack, clientvars>>

=============================================================================
