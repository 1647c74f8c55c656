-------------------------- MODULE OperatorCalls --------------------------
(***************************************************************************)
(* Calls of the operators of bddop.c one after another, with what they     *)
(* share in static variables: the table of quantified variables and its    *)
(* identifier, the table of the support, and the caches.                   *)
(*                                                                         *)
(* An entry of a cache has the key fields a, b, c of BddCacheData; c says  *)
(* which operation on which variable set made it (miscid, quantid,         *)
(* appexid), and some lookups do not look at b.  What is right to keep is  *)
(* a matter of one entry and one later lookup: the model keeps the entry   *)
(* of the last call that stored one, under a hash that puts every key of a *)
(* cache in the same slot.                                                 *)
(***************************************************************************)
EXTENDS Operations, Counting

CONSTANTS
  IntMax,        \* INT_MAX
  IdRange,       \* 2^32: the cache identifiers are ints
  SupportIdMax,  \* 0x0FFFFFFF, where the identifier of the support restarts
  Operands,      \* bound: the operands of a call,
  LaterOperands, \* of a call after the first,
  CallBound,     \* the calls of a session,
  Varsets,       \* the sets of levels it quantifies,
  Cubes,         \* the cubes it restricts to: [levels, low], low \subseteq levels
  AppOperators   \* and the operators of bdd_appex, bdd_appall and bdd_appuni

ASSUME RangeAssumption == IntMax \in Nat /\ IntMax > 3 /\ IdRange \in Nat \ {0}
ASSUME OperandAssumption == LaterOperands \subseteq Operands /\ AppOperators \subseteq Operators

VARIABLES quantvarset, quantvarsetID, supportSet, supportID, entry, call, result,
  calls          \* how many calls were made

tables == <<quantvarset, quantvarsetID, supportSet, supportID>>
vars == <<tables, entry, call, result, calls>>

NoDiagram == <<>>
NoEntry == [cache |-> "none", a |-> NoDiagram, b |-> NoDiagram, c |-> 0, res |-> NoDiagram]
NoCall == [op |-> "none", f |-> NoDiagram, g |-> NoDiagram, h |-> NoDiagram,
           levels |-> {}, low |-> {}, opr |-> "none"]

\* The node number of a cube: any numbering that keeps cubes apart.
RECURSIVE CubeCode(_)
CubeCode(cube) ==
  IF cube.levels = {} THEN 0
  ELSE LET l == CHOOSE x \in cube.levels : \A y \in cube.levels : x <= y
       IN  (IF l \in cube.low THEN 2 ELSE 1) * 3^l
           + CubeCode([levels |-> cube.levels \ {l}, low |-> cube.low \ {l}])
NodeNumber(cube) == 1 + CubeCode(cube)

----------------------------------------------------------------------------
\* varset2vartable and varset2svartable: the levels of the set get the new
\* identifier; those restricted to low its negative.

NextMarks(id, limit) ==
  IF id + 1 = limit THEN [id |-> 1, marks |-> [l \in Levels |-> 0]]
  ELSE [id |-> IF id = IntMax THEN -IntMax - 1 ELSE id + 1, marks |-> quantvarset]

Marked(levels, low, limit) ==
  LET next == NextMarks(quantvarsetID, limit)
  IN  /\ quantvarsetID' = next.id
      /\ quantvarset' = [l \in Levels |->
            IF l \in low THEN -next.id ELSE IF l \in levels THEN next.id ELSE next.marks[l]]

INVARSET(l) == quantvarset'[l] = quantvarsetID'
Sign(n) == IF n > 0 THEN 1 ELSE -1
SignedTable == [l \in Levels |->
  IF quantvarset'[l] \in {quantvarsetID', -quantvarsetID'} THEN Sign(quantvarset'[l]) ELSE 0]

----------------------------------------------------------------------------
\* The identifiers of cache entries.

OperatorNumber(op) ==
  CASE op = "and" -> 0 [] op = "xor" -> 1 [] op = "or" -> 2 [] op = "nand" -> 3 [] op = "nor" -> 4
    [] op = "imp" -> 5 [] op = "biimp" -> 6 [] op = "diff" -> 7 [] op = "less" -> 8
    [] op = "invimp" -> 9 [] op = "not" -> 10 [] op = "simplify" -> 11

Id(n) == n % IdRange

\* CACHEID_EXIST, CACHEID_FORALL, CACHEID_UNIQUE with their operators, and
\* the low bits of appexid with CACHEID_APPEX, CACHEID_APPAL, CACHEID_APPUN.
QuantTag == [exist |-> 0, forall |-> 1, unique |-> 2]
QuantOperator == [exist |-> "or", forall |-> "and", unique |-> "xor",
                  appex |-> "or", appall |-> "and", appuni |-> "xor"]
AppTag == [appex |-> 0, appall |-> 1, appuni |-> 2]

quantid(c) == Id(NodeNumber(c) * 8 + QuantTag[c.op])

\* Mutant: appall and appuni share a tag.
appexidShared(c) ==
  Id(NodeNumber(c) * 64 + OperatorNumber(c.opr) * 4 + (IF c.op = "appex" THEN 0 ELSE 1))

appexid(c) == Id(NodeNumber(c) * 64 + OperatorNumber(c.opr) * 4 + AppTag[c.op])
appquantid(c) == Id(appexid(c) * 8 + AppTag[c.op] + 3)

Key(cache, a, b, c) == [cache |-> cache, a |-> a, b |-> b, c |-> c]

\* The key a call looks up first; b is NoDiagram where it is not compared.
LookupKey(c) ==
  CASE c.op \in Operators -> Key("apply", c.f, c.g, OperatorNumber(c.op))
    [] c.op = "not" -> Key("apply", c.f, NoDiagram, 10)
    [] c.op = "simplify" -> Key("apply", c.f, c.g, 11)
    [] c.op = "ite" -> Key("ite", c.f, <<c.g, c.h>>, 0)
    [] c.op = "constrain" -> Key("misc", c.f, c.g, 0)
    [] c.op = "restrict" -> Key("misc", c.f, NoDiagram, Id(NodeNumber(c) * 8 + 1))
    [] c.op = "satcount" -> Key("misc", c.f, NoDiagram, 2)
    [] c.op = "satcountln" -> Key("misc", c.f, NoDiagram, 3)
    [] c.op = "pathcount" -> Key("misc", c.f, NoDiagram, 4)
    [] c.op \in DOMAIN QuantTag -> Key("quant", c.f, NoDiagram, quantid(c))
    [] c.op \in DOMAIN AppTag ->
         IF c.g = One THEN Key("quant", c.f, NoDiagram, appquantid(c))
         ELSE Key("appex", c.f, c.g, appexid(c))

Hit(c) ==
  LET k == LookupKey(c)
  IN  /\ entry.cache = k.cache /\ entry.a = k.a /\ entry.c = k.c
      /\ k.b # NoDiagram => entry.b = k.b

\* Calls that answer before a lookup: constants, and the shortcuts.
AnswersAtOnce(c) ==
  CASE c.op \in Operators -> c.f = c.g \/ ISCONST(c.f) \/ ISCONST(c.g)
    [] c.op = "ite" -> IteShortcuts(c.f, c.g, c.h) # {}
    [] c.op \in {"constrain", "simplify"} -> ISCONST(c.f) \/ ISCONST(c.g) \/ c.f = c.g
    [] c.op \in DOMAIN AppTag ->
         \/ c.f = c.g \/ ISCONST(c.f)
         \/ ISCONST(c.g) /\ ~(c.g = One /\ c.opr = "and")
         \/ Beyond(c.f, c.levels) /\ Beyond(c.g, c.levels)
    [] c.op \in DOMAIN QuantTag -> ISCONST(c.f) \/ Beyond(c.f, c.levels)
    [] OTHER -> ISCONST(c.f)

----------------------------------------------------------------------------
\* What the recursion of a call computes.

Computed(c) ==
  LET levels == {l \in Levels : INVARSET(l)} IN
  CASE c.op \in Operators -> ApplyRec(c.op, c.f, c.g)
    [] c.op = "not" -> Not(c.f)
    [] c.op = "ite" -> Ite(c.f, c.g, c.h)
    [] c.op = "constrain" -> Constrain(c.f, c.g)
    [] c.op = "simplify" -> Simplify(c.f, c.g)
    [] c.op = "restrict" -> Restrict(c.f, SignedTable)
    [] c.op \in DOMAIN QuantTag -> Quant(QuantOperator[c.op], c.f, levels)
    [] c.op \in DOMAIN AppTag -> AppQuant(QuantOperator[c.op], c.opr, c.f, c.g, levels)
    [] c.op = "satcount" -> <<bdd_satcount(c.f)>>
    [] c.op = "satcountln" -> <<bdd_satcountln(c.f)>>
    [] c.op = "pathcount" -> <<bdd_pathcount(c.f)>>

Answer(c) ==
  /\ result' = IF ~AnswersAtOnce(c) /\ Hit(c) THEN entry.res ELSE Computed(c)
  /\ entry' = IF AnswersAtOnce(c) \/ Hit(c) THEN entry
              ELSE [cache |-> LookupKey(c).cache, a |-> c.f, b |-> LookupKey(c).b,
                    c |-> LookupKey(c).c, res |-> result']
  /\ call' = c
  /\ UNCHANGED <<supportSet, supportID>>

\* bdd_apply, bdd_not, bdd_ite, bdd_constrain, bdd_simplify and the counts.
Operate(c) == Answer(c) /\ UNCHANGED <<quantvarset, quantvarsetID>>

\* bdd_exist, bdd_forall, bdd_unique, bdd_appex, bdd_appall, bdd_appuni.
Quantify(c) == Marked(c.levels, {}, IntMax) /\ Answer(c)

\* bdd_restrict
RestrictTo(c) == Marked(c.levels, c.low, IntMax \div 2) /\ Answer(c)

\* Calls that use no cache and no table: the searches for assignments, the
\* count over a variable set, the profile and the size of the diagram.
\* pol is the polarity of bdd_satoneset.
Found(c, pol) ==
  CASE c.op = "satone" -> SatOne(c.f)
    [] c.op = "fullsatone" -> bdd_fullsatone(c.f)
    [] c.op = "satoneset" -> bdd_satoneset(c.f, Cube(c.levels), pol)
    [] c.op = "allsat" -> bdd_allsat(c.f)
    [] c.op = "printset" -> bdd_printset(c.f)
    [] c.op = "satcountset" -> <<bdd_satcountset(c.f, Cube(c.levels))>>
    [] c.op = "varprofile" -> <<bdd_varprofile(c.f), bdd_anodecount({c.f, c.g})>>

Inspect(c, pol) ==
  /\ call = NoCall
  /\ call' = c
  /\ result' = Found(c, pol)
  /\ UNCHANGED <<tables, entry>>

\* bdd_support: the table keeps the marks of earlier calls, under other
\* identifiers.
NextSupportID == IF supportID = SupportIdMax THEN 1 ELSE supportID + 1

EarlierMark(l) == IF supportID = SupportIdMax THEN 0 ELSE supportSet[l]

FindSupport(f) ==
  /\ ~ISCONST(f)
  /\ supportID' = NextSupportID
  /\ supportSet' = [l \in Levels |->
        IF l \in UsedLevels(f) THEN supportID' ELSE EarlierMark(l)]
  /\ result' = Cube({l \in Levels : supportSet'[l] = supportID'})
  /\ call' = [NoCall EXCEPT !.op = "support", !.f = f]
  /\ UNCHANGED <<quantvarset, quantvarsetID, entry>>

\* bdd_operator_reset, by a garbage collection or a reordering.
ResetCaches ==
  /\ entry' = NoEntry
  /\ call' = [NoCall EXCEPT !.op = "reset"] /\ result' = NoDiagram
  /\ UNCHANGED tables

----------------------------------------------------------------------------
InitCalls ==
  \* At the start, or about to start again, with one set of old marks.
  /\ \/ quantvarsetID = 0 /\ quantvarset = [l \in Levels |-> 0]
     \/ quantvarsetID = IntMax - 1 /\ quantvarset = [l \in Levels |-> IF l = 0 THEN IntMax - 1 ELSE l]
  /\ \/ supportID = 0 /\ supportSet = [l \in Levels |-> 0]
     \/ supportID = SupportIdMax /\ supportSet = [l \in Levels |-> IF l = 0 THEN SupportIdMax ELSE l]
  /\ calls = 0
  /\ entry = NoEntry
  /\ call = NoCall /\ result = NoDiagram

\* The first call takes any operands; when they were few, others follow.
Given ==
  IF call = NoCall THEN Operands
  ELSE IF {call.f, call.g, call.h} \subseteq LaterOperands \cup {NoDiagram} THEN LaterOperands
  ELSE {}

OperatorsGiven == IF call = NoCall THEN Operators ELSE AppOperators

NextCalls ==
  /\ calls < CallBound /\ calls' = calls + 1
  /\ \/ \E op \in {"not", "satcount", "satcountln", "pathcount"} : \E f \in Given :
          Operate([NoCall EXCEPT !.op = op, !.f = f])
     \/ \E op \in OperatorsGiven \cup {"constrain", "simplify"} : \E f, g \in Given :
          Operate([NoCall EXCEPT !.op = op, !.f = f, !.g = g])
     \/ \E f, g, h \in Given : Operate([NoCall EXCEPT !.op = "ite", !.f = f, !.g = g, !.h = h])
     \/ \E op \in DOMAIN QuantTag : \E f \in Given : \E levels \in Varsets :
          Quantify([NoCall EXCEPT !.op = op, !.f = f, !.levels = levels])
     \/ \E op \in DOMAIN AppTag : \E f, g \in Given : \E opr \in AppOperators : \E levels \in Varsets :
          Quantify([NoCall EXCEPT !.op = op, !.f = f, !.g = g, !.opr = opr, !.levels = levels])
     \/ \E f \in Given : \E cube \in Cubes :
          RestrictTo([NoCall EXCEPT !.op = "restrict", !.f = f, !.levels = cube.levels, !.low = cube.low])
     \/ \E f \in Given : FindSupport(f)
     \/ \E op \in {"satone", "fullsatone", "allsat", "printset"} : \E f \in Given :
          Inspect([NoCall EXCEPT !.op = op, !.f = f], 0)
     \/ \E op \in {"satoneset", "satcountset"} : \E f \in Given : \E levels \in Varsets, pol \in {0, 1} :
          Inspect([NoCall EXCEPT !.op = op, !.f = f, !.levels = levels], pol)
     \/ \E f, g \in Given : Inspect([NoCall EXCEPT !.op = "varprofile", !.f = f, !.g = g], 0)
     \/ ResetCaches

CallsSpec == InitCalls /\ [][NextCalls]_vars

=============================================================================
