------------------------------ MODULE Vectors ------------------------------
(***************************************************************************)
(* Vectors of diagrams (bvec.c): bit n of a vector is its element n + 1.   *)
(* Every operation is the loop of the code over the bits.  References that *)
(* an operation takes and gives back are left out; what it leaves over,    *)
(* and what it gives back that it never took, is part of its result.       *)
(***************************************************************************)
EXTENDS Domains

Bits(w) == [n \in 1..w |-> n]
BitNum(vec) == Len(vec)

\* DEFAULT: no bits.
NoVector == <<>>

\* What an operation hands out: vec with a reference for each of its bits,
\* the diagrams in extra with one too many, those in lost with one taken
\* away that was another's.
Result(vec) == [vec |-> vec, extra |-> <<>>, lost |-> <<>>]

----------------------------------------------------------------------------
bvec_build(bitnum, isTrue) == [n \in 1..bitnum |-> IF isTrue THEN bddtrue ELSE bddfalse]
bvec_con(bitnum, val) == [n \in 1..bitnum |-> IF (val \div 2^(n - 1)) % 2 = 1 THEN bddtrue ELSE bddfalse]
bvec_var(bitnum, offset, step) == [n \in 1..bitnum |-> bdd_ithvar(offset + (n - 1) * step)]
bvec_varfdd(v) == [n \in 1..domain[v].binsize |-> bdd_ithvar(domain[v].ivar[n])]
bvec_coerce(bitnum, v) == [n \in 1..bitnum |-> IF n <= BitNum(v) THEN v[n] ELSE bddfalse]

bvec_isconst(e) == \A n \in DOMAIN e : ISCONST(e[n])
bvec_val(e) ==
  IF ~bvec_isconst(e) THEN 0
  ELSE FoldLeft(LAMBDA val, bit : 2 * val + (IF bit = bddtrue THEN 1 ELSE 0), 0, Reverse(e))

\* BVEC_SIZE is raised for different lengths, and NoVector returned.
bvec_ite(a, b, c) ==
  IF BitNum(b) # BitNum(c) THEN NoVector ELSE [n \in DOMAIN b |-> bdd_ite(a, b[n], c[n])]

Shiftable(e, pos) == pos >= 0 /\ e # NoVector

bvec_shlfixed(e, pos, c) ==
  IF ~Shiftable(e, pos) THEN NoVector
  ELSE [n \in DOMAIN e |-> IF n <= pos THEN c ELSE e[n - pos]]
bvec_shrfixed(e, pos, c) ==
  IF ~Shiftable(e, pos) THEN NoVector
  ELSE [n \in DOMAIN e |-> IF n + pos > BitNum(e) THEN c ELSE e[n + pos]]

----------------------------------------------------------------------------
\* Arithmetic.

\* Mutant: the carry forgets the one that came in.
CarryOut(l, r, c) == l \cap r

Carry(l, r, c) == (l \cap r) \cup (c \cap (l \cup r))
Borrow(l, r, c) == (l \cap r \cap c) \cup less(l, r \cup c)

\* A loop over the bits of l and r with a carry.
Rippled(l, r, carry(_, _, _)) ==
  LET round(a, n) == [sum |-> Append(a.sum, xor(xor(l[n], r[n]), a.c)), c |-> carry(l[n], r[n], a.c)]
  IN  IF BitNum(l) # BitNum(r) THEN NoVector
      ELSE FoldLeft(round, [sum |-> <<>>, c |-> bddfalse], Bits(BitNum(l))).sum

bvec_add(l, r) == Rippled(l, r, Carry)
bvec_sub(l, r) == Rippled(l, r, Borrow)

\* The bits of next are those of e, without references of their own, which
\* bvec_free(next) takes back.
RECURSIVE bvec_mulfixed(_, _)
bvec_mulfixed(e, c) ==
  IF e = NoVector THEN Result(NoVector)
  ELSE IF c = 0 THEN Result(bvec_build(BitNum(e), FALSE))
  ELSE LET next == [n \in DOMAIN e |-> IF n = 1 THEN bddfalse ELSE e[n - 1]]
           rest == bvec_mulfixed(next, c \div 2)
       IN  [vec |-> IF c % 2 = 1 THEN bvec_add(e, rest.vec) ELSE rest.vec,
            extra |-> <<>>, lost |-> rest.lost \o next]

bvec_mul(left, right) ==
  LET bitnum == BitNum(left) + BitNum(right)
      shifted(n) == [m \in 1..bitnum |-> IF m - n \in DOMAIN left THEN left[m - n] ELSE bddfalse]
      round(res, n) == bvec_ite(right[n], bvec_add(res, shifted(n - 1)), res)
  IN  IF left = NoVector \/ right = NoVector THEN NoVector
      ELSE FoldLeft(round, bvec_build(bitnum, FALSE), Bits(BitNum(right)))

----------------------------------------------------------------------------
\* Comparison, from the lowest bit up.  After BVEC_SIZE the result is what p
\* was set to first.

Compared(l, r, p, first(_, _)) ==
  IF l = NoVector \/ r = NoVector THEN bddfalse
  ELSE IF BitNum(l) # BitNum(r) THEN p
  ELSE FoldLeft(LAMBDA q, n : first(l[n], r[n]) \cup (biimp(l[n], r[n]) \cap q), p, Bits(BitNum(l)))

bvec_lth(l, r) == Compared(l, r, bddfalse, less)
bvec_lte(l, r) == Compared(l, r, bddtrue, less)
bvec_equ(l, r) == Compared(l, r, bddtrue, LAMBDA f, g : bddfalse)
bvec_gth(l, r) == bdd_not(bvec_lte(l, r))
bvec_gte(l, r) == bdd_not(bvec_lth(l, r))
bvec_neq(l, r) == bdd_not(bvec_equ(l, r))

----------------------------------------------------------------------------
\* Shifts by a vector: the shifts by 0..bitnum, joined where r is that number,
\* and c where r is greater.  bvec_con keeps the bits r has room for.  The
\* comparison is released without a reference.

ShiftedBy(l, r, c, shift(_, _, _)) ==
  IF l = NoVector \/ r = NoVector THEN Result(NoVector)
  ELSE LET w == BitNum(l)
           equ(n) == bvec_equ(r, bvec_con(BitNum(r), n))
           beyond == bvec_gth(r, bvec_con(BitNum(r), w))
           bit(m) == UNION {equ(n) \cap shift(l, n, c)[m] : n \in 0..w} \cup (beyond \cap c)
       IN  [vec |-> [m \in 1..w |-> bit(m)], extra |-> <<>>, lost |-> <<beyond>>]

bvec_shl(l, r, c) == ShiftedBy(l, r, c, bvec_shlfixed)
bvec_shr(l, r, c) == ShiftedBy(l, r, c, bvec_shrfixed)

----------------------------------------------------------------------------
\* Division, bit by bit from the highest.

Takes(divisor, remainder) == bvec_lte(divisor, remainder)

\* sub has no references of its own, and bvec_free(sub) takes some back.
RECURSIVE bvec_div_rec(_, _, _, _)
bvec_div_rec(divisor, remainder, result, step) ==
  LET isSmaller == Takes(divisor, remainder)
      newResult == bvec_shlfixed(result, 1, isSmaller)
      sub == [n \in DOMAIN divisor |-> bdd_ite(isSmaller, divisor[n], bddfalse)]
      tmp == bvec_sub(remainder, sub)
      newRemainder == bvec_shlfixed(tmp, 1, result[BitNum(divisor)])
      rest == bvec_div_rec(divisor, newRemainder, newResult, step - 1)
  IN  IF step > 1 THEN [rest EXCEPT !.lost = sub \o @]
      ELSE [result |-> newResult, remainder |-> newRemainder, lost |-> sub]

\* BVEC_DIVZERO leaves the client's vectors alone.  They are not released.
bvec_divfixed(e, c) ==
  LET w == BitNum(e)
      done == bvec_div_rec(bvec_con(w, c), bvec_shlfixed(bvec_build(w, FALSE), 1, e[w]),
                           bvec_shlfixed(e, 1, bddfalse), w)
  IN  [res |-> done.result, rem |-> bvec_shrfixed(done.remainder, 1, bddfalse),
       extra |-> <<>>, lost |-> done.lost]

\* The first comparison is referenced and not used; what is left of div is
\* not released.
bvec_div(left, right) ==
  LET w == BitNum(right)
      bitnum == 2 * w
      div(n) == bvec_coerce(bitnum, bvec_shrfixed(bvec_shlfixed(bvec_coerce(bitnum, right), w, bddfalse), n, bddfalse))
      rem[n \in 0..(w + 1)] ==
        IF n = 0 THEN bvec_coerce(bitnum, left)
        ELSE bvec_ite(Takes(div(n - 1), rem[n - 1]), bvec_sub(rem[n - 1], div(n - 1)), rem[n - 1])
      quotient(n) == Takes(div(n), rem[n])
  IN  [res |-> [m \in 1..w |-> quotient(w + 1 - m)], rem |-> bvec_coerce(w, rem[w + 1]),
       extra |-> <<quotient(0)>> \o div(w + 1), lost |-> <<>>]

=============================================================================
