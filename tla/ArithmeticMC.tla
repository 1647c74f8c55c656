---------------------------- MODULE ArithmeticMC ----------------------------
(***************************************************************************)
(* Finite domain blocks and vectors of diagrams against numbers: a client  *)
(* declares, overlaps and clears blocks, asks about them, and calculates   *)
(* with vectors of their variables and with constants; or it asks for      *)
(* prime numbers (module Prime), which has nothing to do with blocks.      *)
(***************************************************************************)
EXTENDS Vectors, Prime

CONSTANT Constants    \* bound: numbers to calculate with

VARIABLE call         \* the last call, with its operands and its result

MCVars == <<domainvars, call, vars>>
NoCall == [op |-> "none"]

Sources == {bvec_varfdd(v) : v \in DOMAIN domain} \cup {bvec_con(2, c) : c \in Constants}
Vectors == Sources \ {NoVector}

\* Relations between the blocks, to be scanned and printed.
Relations == {bvec_equ(l, r) : l, r \in Vectors} \cup {bvec_lth(l, r) : l, r \in Vectors}

Answer(c) == call' = c /\ UNCHANGED domainvars

Query ==
  \/ \E v \in DOMAIN domain : Answer([op |-> "domain", var |-> v, result |-> fdd_domain(v)])
  \/ \E f \in Relations : Answer([op |-> "scan", f |-> f, result |-> fdd_scanallvar(f)])
  \/ \E f \in Relations : Answer([op |-> "print", f |-> f, result |-> fdd_printset(f)])
  \/ \E v, w \in DOMAIN domain : Answer([op |-> "equals", l |-> v, r |-> w, result |-> fdd_equals(v, w)])
  \/ \E v, w \in DOMAIN domain : Answer([op |-> "pair", l |-> v, r |-> w, result |-> fdd_setpair(v, w)])
  \/ \E S \in SUBSET DOMAIN domain : Answer([op |-> "sets", f |-> S, result |-> fdd_scanset(fdd_makeset(S))])

Calculate ==
  \E l, r \in Vectors :
    \/ Answer([op |-> "add", l |-> l, r |-> r, result |-> Result(bvec_add(l, r))])
    \/ Answer([op |-> "sub", l |-> l, r |-> r, result |-> Result(bvec_sub(l, r))])
    \/ Answer([op |-> "mul", l |-> l, r |-> r, result |-> Result(bvec_mul(l, r))])
    \/ Answer([op |-> "shl", l |-> l, r |-> r, result |-> bvec_shl(l, r, bddfalse)])
    \/ Answer([op |-> "shr", l |-> l, r |-> r, result |-> bvec_shr(l, r, bddtrue)])
    \/ BitNum(l) = BitNum(r) /\ Answer([op |-> "div", l |-> l, r |-> r, result |-> bvec_div(l, r)])

Compare ==
  \E l, r \in Vectors :
    BitNum(l) = BitNum(r) /\
    \E op \in {"lth", "lte", "gth", "gte", "equ", "neq"} :
      Answer([op |-> op, l |-> l, r |-> r,
              result |-> CASE op = "lth" -> bvec_lth(l, r) [] op = "lte" -> bvec_lte(l, r)
                           [] op = "gth" -> bvec_gth(l, r) [] op = "gte" -> bvec_gte(l, r)
                           [] op = "equ" -> bvec_equ(l, r) [] op = "neq" -> bvec_neq(l, r)])

WithConstant ==
  \E l \in Vectors : \E c \in Constants :
    \/ Answer([op |-> "mulfixed", l |-> l, c |-> c, result |-> bvec_mulfixed(l, c)])
    \/ c > 0 /\ Answer([op |-> "divfixed", l |-> l, c |-> c, result |-> bvec_divfixed(l, c)])

MCInit == InitDomains /\ call = NoCall /\ Init

Blocks ==
  /\ call = NoCall /\ request = 0
  /\ \/ \E dom \in Declarations : fdd_extdomain(dom) /\ UNCHANGED call
     \/ \E v1, v2 \in DOMAIN domain : fdd_overlapdomain(v1, v2) /\ UNCHANGED call
     \/ domain # <<>> /\ fdd_clearall /\ UNCHANGED call
     \/ Query
     \/ Calculate
     \/ Compare
     \/ WithConstant
  /\ UNCHANGED vars

MCNext ==
  \/ Blocks
  \/ domain = <<>> /\ bddvarnum = 2 /\ Next /\ UNCHANGED <<domainvars, call>>

MCSpec == MCInit /\ [][MCNext]_MCVars

----------------------------------------------------------------------------
\* The number a vector is under an assignment.
Number(vec, s) == FoldLeft(LAMBDA val, bit : 2 * val + (IF s \in bit THEN 1 ELSE 0), 0, Reverse(vec))

Sums ==
  LET n(vec, s) == Number(vec, s)
      range == 2^BitNum(call.l)
      IsResult(f(_)) == \A s \in Assignments : n(call.result.vec, s) = f(s)
  IN
  /\ call.op = "add" /\ BitNum(call.l) = BitNum(call.r) =>
       IsResult(LAMBDA s : (n(call.l, s) + n(call.r, s)) % range)
  /\ call.op = "sub" /\ BitNum(call.l) = BitNum(call.r) =>
       IsResult(LAMBDA s : (n(call.l, s) - n(call.r, s)) % range)
  /\ call.op = "mul" => IsResult(LAMBDA s : n(call.l, s) * n(call.r, s))
  /\ call.op = "mulfixed" => IsResult(LAMBDA s : (n(call.l, s) * call.c) % range)

Quotients ==
  LET n(vec, s) == Number(vec, s)
      Divided(s, d) == n(call.result.res, s) = n(call.l, s) \div d /\ n(call.result.rem, s) = n(call.l, s) % d
  IN
  /\ call.op = "div" => \A s \in Assignments : n(call.r, s) > 0 => Divided(s, n(call.r, s))
  /\ call.op = "divfixed" /\ 2 * call.c <= 2^BitNum(call.l) => \A s \in Assignments : Divided(s, call.c)

Shifts ==
  call.op \in {"shl", "shr"} /\ BitNum(call.l) < 2^BitNum(call.r) =>
    \A s \in Assignments : \A m \in DOMAIN call.l :
      LET r == Number(call.r, s) IN
      s \in call.result.vec[m] <=>
        IF call.op = "shl" THEN m > r /\ s \in call.l[m - r]
        ELSE m + r > BitNum(call.l) \/ s \in call.l[m + r]

Comparisons ==
  call.op \in {"lth", "lte", "gth", "gte", "equ", "neq"} =>
    \A s \in Assignments :
      LET l == Number(call.l, s)
          r == Number(call.r, s)
      IN  s \in call.result <=>
            CASE call.op = "lth" -> l < r [] call.op = "lte" -> l <= r [] call.op = "gth" -> l > r
              [] call.op = "gte" -> l >= r [] call.op = "equ" -> l = r [] call.op = "neq" -> l # r

\* A vector operation does to the numbers, under every assignment, what the
\* operation of integers does modulo the width: through every carry, borrow
\* and shift, and with operands that share variables.  The divisor is not
\* 0, a constant one at most half the range (the remainder is kept shifted
\* by one and loses its highest bit); what l is shifted by has room for the
\* width of l.
CalculatesRight == Sums /\ Quotients /\ Shifts /\ Comparisons

Values(n) == 0..(domain[n].realsize - 1)
CodesAll(n) == domain[n].realsize <= 2^Cardinality(domain[n].var)

\* Does one of the printed lines hold for an assignment.
Printed_(lines, s) ==
  \E line \in lines : \A n \in DOMAIN line : CodeOf(n, {v \in domain[n].var : BitOf(s, v) = 1}) \in line[n]

\* Whatever was declared, overlapped and cleared before: blocks lie on
\* variables there are; fdd_domain is the codes of the values of a block;
\* fdd_scanallvar returns values the relation has together, and
\* fdd_printset exactly all; equal blocks are equal value by value; a set
\* of blocks is found again.
BlocksRight ==
  /\ firstbddvar <= bddvarnum /\ Len(domain) <= fdvaralloc
  /\ \A n \in DOMAIN domain : domain[n].var \subseteq 0..(firstbddvar - 1)
  /\ call.op = "domain" /\ CodesAll(call.var) =>
       call.result = UNION {fdd_ithvar(call.var, val) : val \in Values(call.var)}
  /\ call.op = "scan" /\ call.f # bddfalse =>
       \E s \in call.f : \A n \in DOMAIN domain : CodeOf(n, {v \in domain[n].var : BitOf(s, v) = 1}) = call.result[n]
  /\ call.op = "print" => call.f = {s \in Assignments : Printed_(call.result, s)}
  /\ call.op = "equals" /\ domain[call.l].realsize = domain[call.r].realsize =>
       \A x \in Values(call.l), y \in Values(call.r) :
         LET both == fdd_ithvar(call.l, x) \cap fdd_ithvar(call.r, y)
         IN  IF x = y THEN both \subseteq call.result ELSE both \cap call.result = {}
  /\ call.op = "sets" => call.f \subseteq call.result /\ fdd_makeset(call.f) \subseteq fdd_makeset(call.result)

\* A search never goes past a prime, whatever witnesses it draws, and a
\* composite candidate seldom passes a round.
PrimesRight == NeverPastPrime /\ FewLiars

MCDeclarations == {<<4, 3>>, <<5>>, <<2, 2>>}
=============================================================================
