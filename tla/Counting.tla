----------------------------- MODULE Counting -----------------------------
(***************************************************************************)
(* What bddop.c tells of one diagram: its support, satisfying assignments  *)
(* one at a time, all of them, their number, and the shape of the diagram. *)
(* The doubles of the counts are exact here.                               *)
(***************************************************************************)
EXTENDS Diagrams

\* The cube of a set of levels, as bdd_support and bdd_makeset build it.
RECURSIVE Cube(_)
Cube(levels) ==
  IF levels = {} THEN One
  ELSE LET l == CHOOSE x \in levels : \A y \in levels : x <= y
       IN  makenode(l, Zero, Cube(levels \ {l}))

\* bdd_support
UsedLevels(r) == {Level(n) : n \in Nodes(r)}
bdd_support(r) == IF ISCONST(r) THEN Zero ELSE Cube(UsedLevels(r))

\* The levels of a set of variables: bdd_scanset, varset2vartable.
RECURSIVE LevelsOf(_)
LevelsOf(varset) == IF ISCONST(varset) THEN {} ELSE {Level(varset)} \cup LevelsOf(High(varset))

----------------------------------------------------------------------------
\* One satisfying assignment.

\* The branch every search takes: low unless that is the constant 0.
Taken(d) == IF Low(d) = Zero THEN 1 ELSE 0
Branch(d, b) == IF b = 1 THEN High(d) ELSE Low(d)

\* The node that only follows branch b.
Only(level, b, d) == IF b = 1 THEN makenode(level, Zero, d) ELSE makenode(level, d, Zero)

RECURSIVE SatOne(_)
SatOne(r) == IF ISCONST(r) THEN r ELSE Only(Level(r), Taken(r), SatOne(Branch(r, Taken(r))))

\* bdd_satoneset: var lists variables that must be mentioned, with the
\* polarity pol where r leaves them open.
RECURSIVE SatOneSetRec(_, _, _)
SatOneSetRec(r, var, pol) ==
  CASE ISCONST(r) /\ ISCONST(var) -> r
    [] Level(r) < Level(var) -> Only(Level(r), Taken(r), SatOneSetRec(Branch(r, Taken(r)), var, pol))
    [] Level(var) < Level(r) -> Only(Level(var), pol, SatOneSetRec(r, High(var), pol))
    [] OTHER -> Only(Level(r), Taken(r), SatOneSetRec(Branch(r, Taken(r)), High(var), pol))

bdd_satoneset(r, var, pol) == IF r = Zero THEN Zero ELSE SatOneSetRec(r, var, pol)

\* Negative literals for the levels strictly between two.
RECURSIVE PadLow(_, _, _)
PadLow(above, below, d) ==
  IF below <= above + 1 THEN d ELSE PadLow(above, below - 1, makenode(below - 1, d, Zero))

RECURSIVE FullSatOneRec(_)
FullSatOneRec(r) ==
  IF ISCONST(r) THEN r
  ELSE LET child == Branch(r, Taken(r))
       IN  Only(Level(r), Taken(r), PadLow(Level(r), Level(child), FullSatOneRec(child)))

bdd_fullsatone(r) == IF r = Zero THEN Zero ELSE PadLow(-1, Level(r), FullSatOneRec(r))

----------------------------------------------------------------------------
\* bdd_allsat: the profiles handed to the callback, in order.  The profile
\* is one array for the whole walk: entries that no step writes keep what
\* an earlier branch left there.

DontCare(profile, above, below) ==
  [l \in DOMAIN profile |-> IF above < l /\ l < below THEN -1 ELSE profile[l]]

\* allsat_rec returns the calls it made and the profile it left.
RECURSIVE AllSatRec(_, _)
AllSatRec(r, profile) ==
  LET walk(from, b) ==
        IF Branch(r, b) = Zero THEN [calls |-> <<>>, profile |-> from]
        ELSE AllSatRec(Branch(r, b),
                       DontCare([from EXCEPT ![Level(r)] = b], Level(r), Level(Branch(r, b))))
  IN CASE r = One -> [calls |-> <<profile>>, profile |-> profile]
       [] r = Zero -> [calls |-> <<>>, profile |-> profile]
       [] OTHER -> LET low == walk(profile, 0)
                       high == walk(low.profile, 1)
                   IN  [calls |-> low.calls \o high.calls, profile |-> high.profile]

\* Mutant: the profile is not cleared for the levels above the root.
AllSatUncleared(r) == AllSatRec(r, [l \in Levels |-> 2]).calls

\* The array comes from malloc: 2 stands for what it held.
bdd_allsat(r) == AllSatRec(r, DontCare([l \in Levels |-> 2], -1, Level(r))).calls

\* bdd_printset: the lines it prints, a level being 1 for low, 2 for high, 0
\* where the path has no node; the array is cleared on the way back.
RECURSIVE PrintSetRec(_, _)
PrintSetRec(r, set) ==
  CASE r = Zero -> [lines |-> <<>>, set |-> set]
    [] r = One -> [lines |-> <<set>>, set |-> set]
    [] OTHER -> LET low == PrintSetRec(Low(r), [set EXCEPT ![Level(r)] = 1])
                    high == PrintSetRec(High(r), [low.set EXCEPT ![Level(r)] = 2])
                IN  [lines |-> low.lines \o high.lines, set |-> [high.set EXCEPT ![Level(r)] = 0]]

bdd_printset(r) == PrintSetRec(r, [l \in Levels |-> 0]).lines

----------------------------------------------------------------------------
\* Counts.

RECURSIVE PowerOfTwo(_)
PowerOfTwo(n) == IF n = 0 THEN 1 ELSE 2 * PowerOfTwo(n - 1)

\* Mutant: the levels a branch skips are not counted.
SkippedNone(d, child) == 1

\* The assignments of the levels between a node and its child.
Skipped(d, child) == PowerOfTwo(Level(child) - Level(d) - 1)

RECURSIVE SatCountRec(_)
SatCountRec(r) ==
  IF ISCONST(r) THEN Value(r)
  ELSE Skipped(r, Low(r)) * SatCountRec(Low(r)) + Skipped(r, High(r)) * SatCountRec(High(r))

bdd_satcount(r) == PowerOfTwo(Level(r)) * SatCountRec(r)

\* satcount divided by the assignments of the other variables, at least 1.
bdd_satcountset(r, varset) ==
  IF ISCONST(varset) \/ r = Zero THEN 0
  ELSE LET others == PowerOfTwo(VarNum - Cardinality(LevelsOf(varset)))
       IN  IF bdd_satcount(r) < others THEN 1 ELSE bdd_satcount(r) \div others

\* satcountln_rec, with 2^x for x and 0 for its mark -1.0 of the constant 0:
\* a branch that is 0 is left out, the others are added.
RECURSIVE SatCountLnRec(_)
SatCountLnRec(r) ==
  IF ISCONST(r) THEN Value(r)
  ELSE LET s1 == SatCountLnRec(Low(r)) * Skipped(r, Low(r))
           s2 == SatCountLnRec(High(r)) * Skipped(r, High(r))
       IN  IF s1 = 0 THEN s2 ELSE IF s2 = 0 THEN s1 ELSE s1 + s2

bdd_satcountln(r) == SatCountLnRec(r) * PowerOfTwo(Level(r))

RECURSIVE bdd_pathcount(_)
bdd_pathcount(r) == IF ISCONST(r) THEN Value(r) ELSE bdd_pathcount(Low(r)) + bdd_pathcount(High(r))

\* bdd_varprofile, by level.
bdd_varprofile(r) == [l \in Levels |-> Cardinality({n \in Nodes(r) : Level(n) = l})]

\* bdd_anodecount: nodes shared by several roots are counted once.
bdd_anodecount(roots) == Cardinality(UNION {Nodes(r) : r \in roots})

=============================================================================
