---------------------------- MODULE Operations ----------------------------
(***************************************************************************)
(* The operations of bddop.c on diagrams, as the recursions they are.      *)
(* PUSHREF and POPREF, the caches and the restart after a reordering are   *)
(* left out here: Apply has the stack and the collector, OperatorCalls the *)
(* keys of the caches.  Operands are diagrams over levels.                 *)
(***************************************************************************)
EXTENDS Diagrams

Operators == {"and", "xor", "or", "nand", "nor", "imp", "biimp", "diff", "less", "invimp"}

\* oprres
Truth(op, a, b) ==
  CASE op = "and" -> a * b
    [] op = "xor" -> IF a = b THEN 0 ELSE 1
    [] op = "or" -> a + b - a * b
    [] op = "nand" -> 1 - a * b
    [] op = "nor" -> (1 - a) * (1 - b)
    [] op = "imp" -> 1 - a * (1 - b)
    [] op = "biimp" -> IF a = b THEN 1 ELSE 0
    [] op = "diff" -> a * (1 - b)
    [] op = "less" -> (1 - a) * b
    [] op = "invimp" -> 1 - (1 - a) * b

\* not_rec
RECURSIVE Not(_)
Not(r) == IF ISCONST(r) THEN Const(1 - Value(r)) ELSE makenode(Level(r), Not(Low(r)), Not(High(r)))

\* apply_rec (module Apply has its steps)
RECURSIVE ApplyRec(_, _, _)
ApplyRec(op, l, r) ==
  IF ISCONST(l) /\ ISCONST(r) THEN Const(Truth(op, Value(l), Value(r)))
  ELSE LET v == Upper(l, r) IN
       makenode(v, ApplyRec(op, LowAt(l, v), LowAt(r, v)), ApplyRec(op, HighAt(l, v), HighAt(r, v)))

----------------------------------------------------------------------------
\* bdd_ite.

\* The immediate results of ite_rec.
IteShortcuts(f, g, h) ==
  CASE f = One -> {g}
    [] f = Zero -> {h}
    [] g = h -> {g}
    [] g = One /\ h = Zero -> {f}
    [] g = Zero /\ h = One -> {Not(f)}
    [] OTHER -> {}

IteTop(f, g, h) == IF Upper(f, g) <= Level(h) THEN Upper(f, g) ELSE Level(h)

RECURSIVE Ite(_, _, _)
Ite(f, g, h) ==
  IF IteShortcuts(f, g, h) # {} THEN CHOOSE d \in IteShortcuts(f, g, h) : TRUE
  ELSE LET v == IteTop(f, g, h) IN
       makenode(v, Ite(LowAt(f, v), LowAt(g, v), LowAt(h, v)),
                   Ite(HighAt(f, v), HighAt(g, v), HighAt(h, v)))

----------------------------------------------------------------------------
\* bdd_constrain and bdd_simplify.

\* The cofactor a care set forces: 1, 0, or -1 when it has both branches.
Forced(c) == IF Low(c) = Zero THEN 1 ELSE IF High(c) = Zero THEN 0 ELSE -1

RECURSIVE Constrain(_, _)
Constrain(f, c) ==
  CASE c = One \/ ISCONST(f) -> f
    [] c = f -> One
    [] c = Zero -> Zero
    [] OTHER ->
         LET v == Upper(f, c)
             forced == IF Level(c) = v THEN Forced(c) ELSE -1
         IN CASE forced = 1 -> Constrain(HighAt(f, v), High(c))
              [] forced = 0 -> Constrain(LowAt(f, v), Low(c))
              [] OTHER -> makenode(v, Constrain(LowAt(f, v), LowAt(c, v)),
                                      Constrain(HighAt(f, v), HighAt(c, v)))

\* A level of the domain that f does not have is quantified away.
RECURSIVE Simplify(_, _)
Simplify(f, d) ==
  CASE d = One \/ ISCONST(f) -> f
    [] d = f -> One
    [] d = Zero -> Zero
    [] Level(d) < Level(f) -> Simplify(f, ApplyRec("or", Low(d), High(d)))
    [] Level(f) < Level(d) -> makenode(Level(f), Simplify(Low(f), d), Simplify(High(f), d))
    [] OTHER ->
         CASE Forced(d) = 1 -> Simplify(High(f), High(d))
           [] Forced(d) = 0 -> Simplify(Low(f), Low(d))
           [] OTHER -> makenode(Level(f), Simplify(Low(f), Low(d)), Simplify(High(f), High(d)))

----------------------------------------------------------------------------
\* bdd_restrict: table maps the levels of the cube to 1 (forced high) and
\* -1 (forced low), the others to 0.

RECURSIVE Restrict(_, _)
Restrict(r, table) ==
  IF ISCONST(r) THEN r
  ELSE CASE table[Level(r)] > 0 -> Restrict(High(r), table)
         [] table[Level(r)] < 0 -> Restrict(Low(r), table)
         [] OTHER -> makenode(Level(r), Restrict(Low(r), table), Restrict(High(r), table))

----------------------------------------------------------------------------
\* bdd_exist, bdd_forall, bdd_unique, and bdd_appex, bdd_appall, bdd_appuni:
\* levels is the set of quantified levels, op the operator that joins the
\* cofactors (or, and, xor), opr the one that is quantified.

\* Levels below the last quantified one stay as they are.
Beyond(d, levels) == \A l \in levels : Level(d) > l

RECURSIVE Quant(_, _, _)
Quant(op, r, levels) ==
  IF Beyond(r, levels) THEN r
  ELSE LET low == Quant(op, Low(r), levels)
           high == Quant(op, High(r), levels)
       IN  IF Level(r) \in levels THEN ApplyRec(op, low, high) ELSE makenode(Level(r), low, high)

\* What appquant_rec knows without recursion: a constant, or the operand
\* that is left to quantify.
AppQuantShortcuts(op, opr, l, r, levels) ==
  CASE opr = "and" /\ Zero \in {l, r} -> {Zero}
    [] opr = "and" /\ (l = r \/ r = One) -> {Quant(op, l, levels)}
    [] opr = "and" /\ l = One -> {Quant(op, r, levels)}
    [] opr = "or" /\ One \in {l, r} -> {One}
    [] opr = "or" /\ (l = r \/ r = Zero) -> {Quant(op, l, levels)}
    [] opr = "or" /\ l = Zero -> {Quant(op, r, levels)}
    [] opr = "xor" /\ l = r -> {Zero}
    [] opr = "xor" /\ l = Zero -> {Quant(op, r, levels)}
    [] opr = "xor" /\ r = Zero -> {Quant(op, l, levels)}
    [] opr = "nand" /\ Zero \in {l, r} -> {One}
    [] opr = "nor" /\ One \in {l, r} -> {Zero}
    [] OTHER -> {}

RECURSIVE AppQuantPlain(_, _, _, _, _)
AppQuantPlain(op, opr, l, r, levels) ==
  LET v == Upper(l, r)
      shortcuts == AppQuantShortcuts(op, opr, l, r, levels)
  IN CASE shortcuts # {} -> CHOOSE d \in shortcuts : TRUE
       [] shortcuts = {} /\ Beyond(l, levels) /\ Beyond(r, levels) -> ApplyRec(opr, l, r)
       [] OTHER ->
            LET low == AppQuantPlain(op, opr, LowAt(l, v), LowAt(r, v), levels)
                high == AppQuantPlain(op, opr, HighAt(l, v), HighAt(r, v), levels)
            IN  IF v \in levels THEN ApplyRec(op, low, high) ELSE makenode(v, low, high)

\* An empty set of variables: bdd_apply.
AppQuant(op, opr, l, r, levels) ==
  IF levels = {} THEN ApplyRec(opr, l, r) ELSE AppQuantPlain(op, opr, l, r, levels)

----------------------------------------------------------------------------
\* bdd_compose, bdd_veccompose, bdd_replace.

RECURSIVE Compose(_, _, _)
Compose(f, g, level) ==
  CASE Level(f) > level -> f
    [] Level(f) = level -> Ite(g, High(f), Low(f))
    [] OTHER -> LET v == Upper(f, g) IN
                makenode(v, Compose(LowAt(f, v), LowAt(g, v), level),
                            Compose(HighAt(f, v), HighAt(g, v), level))

\* pair: the diagram that replaces each level, and the last level replaced.
RECURSIVE VecCompose(_, _, _)
VecCompose(f, pair, last) ==
  IF Level(f) > last THEN f
  ELSE Ite(pair[Level(f)], VecCompose(High(f), pair, last), VecCompose(Low(f), pair, last))

\* bdd_correctify: the node of a level is put where it belongs in its
\* children; a child that starts with that level is the error BDD_REPLACE.
RECURSIVE Correctify(_, _, _)
Correctify(level, l, r) ==
  CASE level < Upper(l, r) -> [bdd |-> makenode(level, l, r), error |-> FALSE]
    [] level \in {Level(l), Level(r)} -> [bdd |-> Zero, error |-> TRUE]
    [] OTHER ->
         LET v == Upper(l, r)
             low == Correctify(level, LowAt(l, v), LowAt(r, v))
             high == Correctify(level, HighAt(l, v), HighAt(r, v))
         IN  [bdd |-> makenode(v, low.bdd, high.bdd), error |-> low.error \/ high.error]

RECURSIVE Replace(_, _, _)
Replace(r, pair, last) ==
  IF ISCONST(r) \/ Level(r) > last THEN [bdd |-> r, error |-> FALSE]
  ELSE LET low == Replace(Low(r), pair, last)
           high == Replace(High(r), pair, last)
           res == Correctify(Level(pair[Level(r)]), low.bdd, high.bdd)
       IN  [bdd |-> res.bdd, error |-> low.error \/ high.error \/ res.error]

=============================================================================
