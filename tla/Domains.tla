------------------------------ MODULE Domains ------------------------------
(***************************************************************************)
(* Finite domain blocks (fdd.c): a block codes the values 0..realsize-1 in *)
(* BDD variables, interleaved with those of the blocks declared with it.   *)
(* A diagram is the set of the assignments it is true for, an assignment   *)
(* the number with a bit for each variable; variables are in the order of  *)
(* their numbers.                                                          *)
(***************************************************************************)
EXTENDS Integers, FiniteSets, Sequences, SequencesExt, FiniteSetsExt

CONSTANTS
  VarNum,        \* bound: BDD variables there may be
  Declarations,  \* bound: sequences of sizes fdd_extdomain is called with
  DomainBound    \* bound: blocks

ASSUME DomainsAssumption == VarNum \in Nat \ {0} /\ DomainBound \in Nat

Variables == 0..(VarNum - 1)
Assignments == 0..(2^VarNum - 1)

VARIABLES
  domain,       \* records [realsize, binsize, ivar, var], from 1
  fdvaralloc,
  firstbddvar,
  bddvarnum

domainvars == <<domain, fdvaralloc, firstbddvar, bddvarnum>>

----------------------------------------------------------------------------
\* Diagrams and what the BDD operations make of them (module Operations has
\* how they do it).

bddfalse == {}
bddtrue == Assignments
BitOf(s, v) == (s \div 2^v) % 2
bdd_ithvar(v) == {s \in Assignments : BitOf(s, v) = 1}
bdd_nithvar(v) == Assignments \ bdd_ithvar(v)
bdd_not(f) == Assignments \ f
xor(f, g) == (f \ g) \cup (g \ f)
biimp(f, g) == Assignments \ xor(f, g)
less(f, g) == g \ f
bdd_ite(f, g, h) == (f \cap g) \cup (h \ f)
bdd_makeset(ivar) == ToSet(ivar)    \* the variables of the cube

\* LEVEL, LOW and HIGH of the node of a function that is no constant.
With(s, v, b) == s + (b - BitOf(s, v)) * 2^v
Depends(f, v) == \E s \in f : With(s, v, 1 - BitOf(s, v)) \notin f
ISCONST(f) == f \in {bddfalse, bddtrue}
Top(f) == CHOOSE v \in Variables : Depends(f, v) /\ \A w \in 0..(v - 1) : ~Depends(f, w)
LOW(f) == {s \in Assignments : With(s, Top(f), 0) \in f}
HIGH(f) == {s \in Assignments : With(s, Top(f), 1) \in f}

----------------------------------------------------------------------------
\* Declarations.

\* Mutant: a size that is a power of two gets a variable too few.
BinSizeLess(range) == CHOOSE n \in 1..VarNum : 2^n + 1 >= range /\ \A m \in 1..(n - 1) : 2^m + 1 < range

\* Domain_allocate
BinSize(range) == CHOOSE n \in 1..VarNum : 2^n >= range /\ \A m \in 1..(n - 1) : 2^m < range

\* The bits of the new blocks take turns: bit b of block n comes after the
\* lower bits of all and the same bit of those before it.
Interleaved(dom, n) ==
  [b \in 1..BinSize(dom[n]) |->
     firstbddvar + Cardinality({<<m, c>> \in (DOMAIN dom) \X (1..VarNum) :
        c <= BinSize(dom[m]) /\ (c < b \/ (c = b /\ m < n))})]

Declared(dom, n) ==
  [realsize |-> dom[n], binsize |-> BinSize(dom[n]), ivar |-> Interleaved(dom, n),
   var |-> bdd_makeset(Interleaved(dom, n))]

fdd_extdomain(dom) ==
  LET num == Len(dom)
      extravars == FoldLeft(LAMBDA sum, size : sum + BinSize(size), 0, dom)
  IN
  /\ firstbddvar + extravars <= VarNum /\ Len(domain) + num <= DomainBound
  /\ domain' = domain \o [n \in 1..num |-> Declared(dom, n)]
  /\ fdvaralloc' = IF domain = <<>> THEN num
                   ELSE IF Len(domain) + num <= fdvaralloc THEN fdvaralloc
                   ELSE fdvaralloc + (IF num > fdvaralloc THEN num ELSE fdvaralloc)
  /\ firstbddvar' = firstbddvar + extravars
  /\ bddvarnum' = IF firstbddvar' > bddvarnum THEN firstbddvar' ELSE bddvarnum

fdd_overlapdomain(v1, v2) ==
  LET d1 == domain[v1]
      d2 == domain[v2]
  IN
  /\ Len(domain) < DomainBound /\ d1.binsize + d2.binsize <= VarNum
  /\ fdvaralloc' = IF Len(domain) + 1 > fdvaralloc THEN 2 * fdvaralloc ELSE fdvaralloc
  /\ domain' = Append(domain,
       [realsize |-> d1.realsize * d2.realsize, binsize |-> d1.binsize + d2.binsize,
        ivar |-> d1.ivar \o d2.ivar, var |-> d1.var \cup d2.var])
  /\ UNCHANGED <<firstbddvar, bddvarnum>>

\* bdd_fdd_done and bdd_fdd_init; the BDD variables stay.
fdd_clearall ==
  /\ domain' = <<>> /\ fdvaralloc' = 0 /\ firstbddvar' = 0
  /\ UNCHANGED bddvarnum

InitDomains == domain = <<>> /\ fdvaralloc = 0 /\ firstbddvar = 0 /\ bddvarnum = 2

----------------------------------------------------------------------------
\* Queries.

ValueBit(val, n) == (val \div 2^(n - 1)) % 2

\* fdd_ithvar raises BDD_RANGE, with the result bddfalse, outside the block.
fdd_ithvar(var, val) ==
  IF val \notin 0..(domain[var].realsize - 1) THEN bddfalse
  ELSE FoldLeft(LAMBDA v, n : v \cap (IF ValueBit(val, n) = 1 THEN bdd_ithvar(domain[var].ivar[n])
                                      ELSE bdd_nithvar(domain[var].ivar[n])),
                bddtrue, [n \in 1..domain[var].binsize |-> n])

\* The values that come up to a number, bit by bit from the lowest.
fdd_domain(var) ==
  LET dom == domain[var]
      val == dom.realsize - 1
  IN  FoldLeft(LAMBDA d, n : IF ValueBit(val, n) = 1 THEN bdd_nithvar(dom.ivar[n]) \cup d
                             ELSE bdd_nithvar(dom.ivar[n]) \cap d,
               bddtrue, [n \in 1..dom.binsize |-> n])

\* Undefined where the blocks have one size and different codings.
fdd_equals(left, right) ==
  IF domain[left].realsize # domain[right].realsize THEN bddfalse
  ELSE FoldLeft(LAMBDA e, n :
                  e \cap biimp(bdd_ithvar(domain[left].ivar[n]), bdd_ithvar(domain[right].ivar[n])),
                bddtrue, [n \in 1..domain[left].binsize |-> n])

\* The variables the path of fdd_scanallvar sets; the others count as 0.
RECURSIVE Store(_)
Store(p) ==
  IF ISCONST(p) THEN {}
  ELSE IF LOW(p) # bddfalse THEN Store(LOW(p)) ELSE Store(HIGH(p)) \cup {Top(p)}

CodeOf(var, ones) ==
  FoldLeft(LAMBDA val, n : 2 * val + (IF domain[var].ivar[n] \in ones THEN 1 ELSE 0),
           0, Reverse([n \in 1..domain[var].binsize |-> n]))

fdd_scanallvar(r) == IF r = bddfalse THEN <<>> ELSE [var \in DOMAIN domain |-> CodeOf(var, Store(r))]
fdd_scanvar(r, var) == IF r = bddfalse THEN -1 ELSE fdd_scanallvar(r)[var]

fdd_makeset(varset) == UNION {domain[n].var : n \in varset}
fdd_scanset(S) == {n \in DOMAIN domain : domain[n].var \cap S # {}}

\* What bdd_addvarblock, which takes all between the least and the greatest
\* variable, is called with.
fdd_intaddvarblock(first, last) == fdd_makeset(first..last)

\* fdd_setpair, as the list of the calls of bdd_setpair; BDD_VARNUM gives none.
fdd_setpair(p1, p2) ==
  IF domain[p1].binsize # domain[p2].binsize THEN {}
  ELSE {<<domain[p1].ivar[n], domain[p2].ivar[n]>> : n \in 1..domain[p1].binsize}

\* fdd_printset_rec: a line for every path to 1, with the values of each
\* block that has a variable on the path.
RECURSIVE Paths(_, _)
Paths(r, set) ==
  IF r = bddfalse THEN {} ELSE IF r = bddtrue THEN {set}
  ELSE Paths(LOW(r), [set EXCEPT ![Top(r)] = 1]) \cup Paths(HIGH(r), [set EXCEPT ![Top(r)] = 2])

Printed(set) ==
  [n \in {m \in DOMAIN domain : \E v \in domain[m].var : set[v] # 0} |->
     {m \in 0..(2^domain[n].binsize - 1) :
        \A i \in 1..domain[n].binsize : set[domain[n].ivar[i]] \in {0, ValueBit(m, i) + 1}}]

fdd_printset(r) == {Printed(p) : p \in Paths(r, [v \in Variables |-> 0])}

=============================================================================
