------------------------- MODULE OperatorCallsMC -------------------------
(***************************************************************************)
(* The results of the operators against what they mean: sets of            *)
(* assignments, with a literal definition for every operator; and diagrams *)
(* that went through a file against what was saved.  A session either      *)
(* calls operators or saves and loads a file.                              *)
(***************************************************************************)
EXTENDS OperatorCalls, DiagramFile

MCInit == InitCalls /\ InitFile

MCNext ==
  \/ stage = "empty" /\ NextCalls /\ UNCHANGED filevars
  \/ calls = 0 /\ quantvarsetID = 0 /\ supportID = 0 /\ NextFile /\ UNCHANGED vars

MCSpec == MCInit /\ [][MCNext]_<<vars, filevars>>

Each(P(_)) == {s \in Assignments : P(s)}

\* The assignments that agree with s outside the levels.
Variants(s, levels) == {(s \ levels) \cup t : t \in SUBSET levels}

\* The value of a constraint nearest to s: levels further up weigh more
\* than all below them together.
RECURSIVE Distance(_)
Distance(levels) ==
  IF levels = {} THEN 0
  ELSE LET l == CHOOSE x \in levels : TRUE IN PowerOfTwo(VarNum - 1 - l) + Distance(levels \ {l})
Nearest(s, C) ==
  CHOOSE t \in C : \A u \in C : Distance((s \ t) \cup (t \ s)) <= Distance((s \ u) \cup (u \ s))

\* The values of S over some assignments, joined by an operator.
Combine(op, S, s) ==
  CASE op = "or" -> \E t \in s : t \in S
    [] op = "and" -> \A t \in s : t \in S
    [] op = "xor" -> Cardinality({t \in s : t \in S}) % 2 = 1

Bit(B) == IF B THEN 1 ELSE 0

Expected(c) ==
  LET F == Meaning(c.f)
      G == Meaning(c.g)
      H == Meaning(c.h)
      quantify(op, S) == Each(LAMBDA s : Combine(op, S, Variants(s, c.levels)))
  IN
  CASE c.op \in Operators -> Each(LAMBDA s : Truth(c.op, Bit(s \in F), Bit(s \in G)) = 1)
    [] c.op = "not" -> Assignments \ F
    [] c.op = "ite" -> (F \cap G) \cup (H \ F)
    [] c.op = "constrain" -> Each(LAMBDA s : G # {} /\ Nearest(s, G) \in F)
    [] c.op = "restrict" -> Each(LAMBDA s : (s \cup (c.levels \ c.low)) \ c.low \in F)
    [] c.op \in DOMAIN QuantTag -> quantify(QuantOperator[c.op], F)
    [] c.op \in DOMAIN AppTag ->
         quantify(QuantOperator[c.op], Each(LAMBDA s : Truth(c.opr, Bit(s \in F), Bit(s \in G)) = 1))

\* The part of a function below the levels above l depends on l.  Where an
\* operand has no node of a quantified level, bdd_unique leaves it as it is.
DependsBelow(S, s, l) ==
  \E t \in SUBSET {m \in Levels : m >= l} :
    LET u == {m \in s : m < l} \cup t IN (u \in S) # (Flip(u, l) \in S)
MeetsAll(c) ==
  \A s \in Assignments : \A l \in c.levels :
    /\ DependsBelow(Meaning(c.f), s, l)
    /\ c.op = "appuni" => DependsBelow(Meaning(c.g), s, l)

Functions == Operators \cup {"not", "ite", "restrict"} \cup DOMAIN QuantTag \cup DOMAIN AppTag

FunctionsRight ==
  call.op \in Functions =>
    ((call.op \in {"unique", "appuni"} => MeetsAll(call)) => result = Diagram(Expected(call)))

CofactorsRight ==
  LET C == Meaning(call.g) IN
  /\ call.op = "constrain" /\ ~ISCONST(call.f) /\ C # {} => result = Diagram(Expected(call))
  /\ call.op = "simplify" =>
       /\ WellFormed(result)
       /\ C # {} => Meaning(result) \cap C = Meaning(call.f) \cap C
       /\ Support(Meaning(result)) \subseteq Support(Meaning(call.f))

\* An operator returns the diagram of the function it stands for, after any
\* other call: what its caches and the marks of the last variable sets hold
\* does not come into it.  The identifier of the marks counts every set, and
\* the caches tell operations and variable sets apart by a number in one int.
\* It fails once the identifier passed INT_MAX, which bdd_restrict lets it;
\* and unique quantification is right where the operands have nodes of the
\* quantified levels on every path.  The generalized cofactor is the operand
\* at the nearest point of the care set (a constant operand or an empty care
\* set takes a shortcut); a simplified function agrees with the old one on
\* the domain, and brings in no variable it did not have.
OperatorsRight == quantvarsetID >= 0 => FunctionsRight /\ CofactorsRight

\* The support is the set of variables the function depends on, whatever
\* the table of the support holds of earlier calls.  The counts are the
\* number of satisfying assignments, over all variables or over a set that
\* has all the function depends on, and of the paths to 1; a node shared by
\* two roots counts once.
CountsRight ==
  LET F == Meaning(call.f) IN
  /\ call.op = "support" => result = Cube(Support(F))
  /\ call.op \in {"satcount", "satcountln"} => result = <<Cardinality(F)>>
  /\ call.op = "pathcount" => result = <<Len(bdd_allsat(call.f))>>
  /\ call.op = "satcountset" /\ Support(F) \subseteq call.levels =>
       result = <<Cardinality({s \cap call.levels : s \in F})>>
  /\ call.op = "varprofile" =>
       /\ result[2] = Cardinality(Nodes(call.f) \cup Nodes(call.g))
       /\ \A l \in Levels : result[1][l] > 0 <=> l \in Support(F)

Matches(s, p) == \A l \in Levels : p[l] \in {-1, Bit(l \in s)}
Fits(s, set) == \A l \in Levels : set[l] \in {0, 1 + Bit(l \in s)}

\* A search returns a cube of the function, and 0 only when there is none:
\* with a variable set one that mentions all its variables, in full exactly
\* one assignment.  The profiles of bdd_allsat, whose array is reused from
\* branch to branch, and the lines of bdd_printset split the function: each
\* satisfying assignment matches exactly one, no other assignment any.
SearchesRight ==
  LET F == Meaning(call.f) IN
  /\ call.op \in {"satone", "fullsatone", "satoneset"} =>
       /\ WellFormed(result)
       /\ Meaning(result) \subseteq F /\ (result = Zero <=> F = {})
       /\ call.op # "fullsatone" => bdd_pathcount(result) <= 1
       /\ call.op = "fullsatone" /\ F # {} => Cardinality(Meaning(result)) = 1
       /\ call.op = "satoneset" /\ F # {} => call.levels \subseteq UsedLevels(result)
  /\ call.op = "allsat" =>
       \A s \in Assignments : Cardinality({i \in DOMAIN result : Matches(s, result[i])}) = Bit(s \in F)
  /\ call.op = "printset" =>
       \A s \in Assignments : Cardinality({i \in DOMAIN result : Fits(s, result[i])}) = Bit(s \in F)

----------------------------------------------------------------------------
FunctionOf(d) == {{v \in Levels : session.var2level[v] \in s} : s \in Meaning(d)}

\* A file that was written by bdd_fnsave gives the function back that was
\* saved, in a session with other variables and another order, with its node
\* lines in any order, and with any or no count of nodes.  When a node line
\* other than the root's is missing, or any cannot be read, the load fails.
LoadRight ==
  stage = "closed" =>
    LET changed == Head(saved.changed)
        whole == Unchanged \/ (changed.tag = "%Nodes" /\ changed.n >= 0)
        root == saved.lines[Len(saved.lines)]
    IN  /\ whole => status = 0 /\ FunctionOf(given) = saved.function
        /\ ~whole => (changed.tag = "node" /\ changed # root => status = BDD_FORMAT)

\* While lines are read, every diagram in the table is held by exactly one
\* reference for each slot that has it, through every growth of the table:
\* a collection in the next bdd_ite frees none.  After bdd_load, with an
\* error or without, it holds nothing.
LoadBalanced ==
  /\ \A d \in DOMAIN held :
       held[d] = IF stage = "body" THEN Cardinality({n \in DOMAIN lh_table : lh_table[n].data = d}) ELSE 0
  /\ stage = "body" => \A n \in DOMAIN lh_table : ISCONST(lh_table[n].data) \/ lh_table[n].data \in DOMAIN held
  /\ Len(un_nodes) <= unresolved_size

----------------------------------------------------------------------------
\* The instance: three variables.  First calls take all functions of two of
\* them and some of all three.
MCOperands == {Diagram(S) : S \in {{s \in Assignments : s \cap {0, 2} \in T} : T \in SUBSET SUBSET {0, 2}}}
  \cup {Diagram({s \in Assignments : Cardinality(s) \in {1, 3}}),
         Diagram({s \in Assignments : Cardinality(s) >= 2}),
         makenode(0, Literal(1), Literal(2))}
MCLaterOperands == {One, makenode(0, Zero, Literal(2)), makenode(0, Literal(1), Literal(2))}
MCVarsets == {{0}, {0, 2}}
MCCubes == {[levels |-> {0, 2}, low |-> {2}], [levels |-> {1}, low |-> {}]}

\* Files: a constant, a variable, and functions whose diagrams share nodes.
Identity == [l \in Levels |-> l]
MCSavedFunctions ==
  {{}, {s \in SUBSET Levels : 1 \in s}, {s \in SUBSET Levels : Cardinality(s) >= 2},
   {s \in SUBSET Levels : Cardinality(s) \in {1, 3}}}
MCSaveOrders == {Identity, [l \in Levels |-> (l + 1) % VarNum]}
MCLoadSessions == {[varnum |-> VarNum, var2level |-> Identity],
                   [varnum |-> VarNum - 1, var2level |-> Identity],
                   [varnum |-> VarNum, var2level |-> [l \in Levels |-> VarNum - 1 - l]]}
MCNodeCounts == {-1, 0, 2, 9}

=============================================================================
