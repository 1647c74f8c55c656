------------------------------ MODULE ApplyMC ------------------------------
(***************************************************************************)
(* The operators on small instances: what their results mean, and that     *)
(* they are clients of the node table.                                     *)
(***************************************************************************)
EXTENDS Apply

\* Hashes under which different keys share chains and cache slots.
MCHash(l, a, b) == l + 2 * a
MCApplyHash(op, l, r) == l + r

----------------------------------------------------------------------------
\* The function a node stands for: the assignments (sets of levels that are
\* true) under which it is 1.
Assignments == SUBSET (0..(VarNum - 1))

Meaning[n \in Slot] ==
  IF n = 0 \/ LOW[n] = -1 THEN {}
  ELSE IF n = 1 THEN Assignments
  ELSE {s \in Assignments : s \in Meaning[IF LEVEL[n] \in s THEN HIGH[n] ELSE LOW[n]]}

OperatorMeaning(op, A, B) ==
  {s \in Assignments :
     OperatorValue(op, IF s \in A THEN 1 ELSE 0, IF s \in B THEN 1 ELSE 0) = 1}

\* While no error stands, what the cache answers is right: the operands and
\* the result of an entry are still the nodes they were when it was stored,
\* and the result is what the operator makes of the operands.  It takes the
\* reset of the cache in every collection, and in bdd_clear_error (entries
\* stored after a failed bdd_makenode are wrong).
CacheSound ==
  ~bdderrorcond =>
    LET meaning == Meaning IN
    \A i \in DOMAIN applycache :
      LET e == applycache[i] IN
      e # NoEntry =>
        /\ {e.key[2], e.key[3], e.res} \subseteq Live
        /\ meaning[e.res] = OperatorMeaning(e.key[1], meaning[e.key[2]], meaning[e.key[3]])

\* An operation that ends with no error returned the right function of its
\* operands, although collections came between its steps.
ResultRight ==
  [][call # None /\ call' = None /\ ~bdderrorcond' =>
       Meaning'[result'] = OperatorMeaning(call.op, Meaning[call.l], Meaning[call.r])]_allvars

\* The recursion goes down one level with every call, and stops at the
\* constants: neither the C stack nor the reference stack, which PUSHREF
\* does not grow, takes more than one place for each level and one.
RecursionBounded == Len(frames) <= VarNum /\ Len(bddrefstack) <= VarNum + 1

\* An operation is a client of the node table: what the recursion returned
\* and has not pushed yet is the top of the reference stack of that client.
TableClient == INSTANCE NodeTable WITH
  Atoms <- 0..SlotBound,
  StackBound <- VarNum + 1,
  bddrefstack <- IF returned = NoNode THEN bddrefstack ELSE Append(bddrefstack, returned)
ImplementsNodeTable == TableClient!Spec

=============================================================================
