------------------------------ MODULE MtbddMC ------------------------------
(***************************************************************************)
(* Multi-terminal diagrams on small instances: the table of values and the *)
(* functions the diagrams stand for, over collections.                     *)
(***************************************************************************)
EXTENDS MtbddApply

\* The client: a terminal t, diagrams x and y.
Client(x) == [client |-> x]
X == Client("x")
Y == Client("y")
Z == Client("z")
MCNames == {X, Y, Z}
MCTerminals == [to : {X}, value : {1}]
MCNodes == [to : {Y}, level : {0}, low : {X}, high : {Constant(0)}]
MCOperations ==
  {[to |-> Y, op |-> "sum", args |-> <<X, X>>],
   [to |-> X, op |-> "next", args |-> <<Y>>],
   [to |-> Z, op |-> "ite", args |-> <<Literal(0), X, Y>>]}

\* The callbacks, which take NULL for a value that is not there.
MCCallback(op, vals) ==
  LET known == {i \in DOMAIN vals : vals[i] # NoValue}
      sum == IF known = {} THEN NoValue
             ELSE IF known = {1} THEN vals[1]
             ELSE IF known = {2} THEN vals[2] ELSE vals[1] + vals[2]
  IN  IF sum = NoValue THEN NoValue
      ELSE (IF op = "next" THEN sum + 1 ELSE sum) % Cardinality(Values)

MCHash(op, args) == args[1] + Len(args)

----------------------------------------------------------------------------
\* The leaf a node leads to under an assignment, the set of levels that are
\* true: a constant or a value.
Assignments == SUBSET (0..(VarNum - 1))
Value(v) == <<"value", v>>
Leaves(n) == IF ISCONST(n) THEN <<"const", n>> ELSE Value(values.at[HIGH(n)])
Step(n, s) == IF Leaf(n) THEN n ELSE IF LEVEL(n) \in s THEN HIGH(n) ELSE LOW(n)
Meaning(n) ==
  [s \in Assignments |->
     LET walk[d \in 0..VarNum] == IF d = 0 THEN n ELSE Step(walk[d - 1], s)
     IN  Leaves(walk[VarNum])]

LiveTerminals == {n \in Live : ISTERMINAL(n)}

\* The indices of values are in order: every one that was ever given out is
\* either that of one terminal, or once on the index stack.  An error leaves
\* a value behind without a terminal.
ValueSlotsOwned ==
  ~bdderrorcond =>
    LET owned == {HIGH(n) : n \in LiveTerminals}
        stacked == {values.top[i] : i \in DOMAIN values.top}
    IN  /\ Cardinality(owned) = Cardinality(LiveTerminals)
        /\ Cardinality(stacked) = Len(values.top)
        /\ owned \cap stacked = {}
        /\ owned \cup stacked = 0..(values.last - 1)
        /\ values.used = Cardinality(owned)

\* A value has one terminal, so that equal functions have equal nodes.
Canonical ==
  ~bdderrorcond => Cardinality({Meaning(n) : n \in Live}) = Cardinality(Live)

\* What an operation makes of the leaves of its operands.
OperationValue(op, leaves) ==
  IF op = "ite"
    THEN IF leaves[1] = <<"const", 1>> THEN leaves[2] ELSE leaves[3]
    ELSE LET value == Callback(op, [i \in DOMAIN leaves |->
                                      IF leaves[i][1] = "value" THEN leaves[i][2] ELSE NoValue])
         IN  IF value = NoValue THEN <<"const", 0>> ELSE Value(value)

Right ==
  LET meanings == [i \in DOMAIN call.args |-> Meaning(call.args[i])]
  IN  Meaning(result.node)' = [s \in Assignments |->
                         OperationValue(call.op, [i \in DOMAIN meanings |-> meanings[i][s]])]

\* mtbdd_ite has two terminals the other way round in its shortcut than in
\* its recursion, which comes to them before it has taken the condition apart
\* unless that one is on top.
OnTop(op, args) ==
  op = "ite" => \/ ISCONST(args[1])
                \/ LEVEL(args[1]) = TopLevel(args) /\ ~IsDecision(op, args)

Ends == call # None /\ call' = None /\ ~bdderrorcond'

HeldAs(x) == edge[x] # NoNode /\ edge'[x] # NoNode /\ ~bdderrorcond'

\* What the client holds stands for the same function as before, whatever
\* was collected, and whichever index was used again; and an operation that
\* ends with no error returns the right function of its operands, although
\* collections come between its steps.
DiagramsRight ==
  [][/\ \A x \in Names : HeldAs(x) => Meaning(edge[x])' = Meaning(edge[x])
     /\ Ends /\ OnTop(call.op, call.args) => Right]_allvars

=============================================================================
