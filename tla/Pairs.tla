------------------------------- MODULE Pairs -------------------------------
(***************************************************************************)
(* Tables of replacement pairs (pairs.c) and the operations that use them: *)
(* bdd_replace and bdd_veccompose, and bdd_compose, which shares their     *)
(* cache.  A table maps levels to diagrams; setting a pair gives the table *)
(* a new identifier, so that what the cache holds for the old one is not   *)
(* found any more.  Levels change places in between, when the variables    *)
(* are reordered, and identifiers start again.                             *)
(***************************************************************************)
EXTENDS Operations

CONSTANTS
  Tables,        \* bound: the tables a client makes
  IdMax,         \* INT_MAX >> 2, where the identifiers start again
  Substitutes,   \* bound: functions, as sets of sets of variables, for bdd_setbddpair,
  Arguments      \* and for the operands of the operations

ASSUME IdAssumption == IdMax \in Nat /\ Cardinality(Tables) + 1 < IdMax

Variables == Levels

VARIABLES
  bddlevel2var,
  pairs,         \* the list of tables, newest first
  pairsid,
  replacecache,  \* the entry of the last operation that stored one
  error,         \* BDD_REPLACE was raised since the cache was reset
  call, result

vars == <<bddlevel2var, pairs, pairsid, replacecache, error, call, result>>

NoDiagram == <<>>
NoCall == [op |-> "none", table |-> 0, f |-> {}, g |-> {}, var |-> 0]
NoEntry == [a |-> NoDiagram, b |-> NoDiagram, c |-> -1, res |-> NoDiagram]

bddvar2level(v) == CHOOSE l \in Levels : bddlevel2var[l] = v
bdd_ithvar(v) == Literal(bddvar2level(v))

\* A function of variables as a diagram under an order, and back.
ToDiagram(S, order) == Diagram({{l \in Levels : order[l] \in s} : s \in S})
ToFunction(d, order) == {{order[l] : l \in s} : s \in Meaning(d)}

Index(table) == CHOOSE i \in DOMAIN pairs : pairs[i].table = table
Registered(table) == \E i \in DOMAIN pairs : pairs[i].table = table

----------------------------------------------------------------------------
\* update_pairsid: the next identifier; after the last one every table gets
\* a new one and the caches are reset.

FreshId(list) ==
  IF pairsid + 1 < IdMax
  THEN [id |-> pairsid + 1, list |-> list, cache |-> replacecache]
  ELSE [id |-> Len(list), list |-> [i \in DOMAIN list |-> [list[i] EXCEPT !.id = i - 1]],
        cache |-> NoEntry]

Update(table, entries, last) ==
  LET fresh == FreshId(pairs)
      i == Index(table)
  IN  /\ pairs' = [fresh.list EXCEPT ![i].id = fresh.id, ![i].result = entries, ![i].last = last]
      /\ pairsid' = fresh.id
      /\ replacecache' = fresh.cache
      /\ call' = NoCall /\ result' = NoDiagram
      /\ UNCHANGED <<bddlevel2var, error>>

\* The last level replaced is the lowest of the replaced ones.
Later(m, n) == IF m > n THEN m ELSE n

\* bdd_newpair; the table is registered after the identifiers are updated.
NewPair(table) ==
  /\ ~Registered(table)
  /\ LET fresh == FreshId(pairs) IN
       /\ pairs' = <<[table |-> table, id |-> fresh.id, last |-> -1,
                      result |-> [l \in Levels |-> bdd_ithvar(bddlevel2var[l])]]>> \o fresh.list
       /\ pairsid' = fresh.id
       /\ replacecache' = fresh.cache
  /\ call' = NoCall /\ result' = NoDiagram
  /\ UNCHANGED <<bddlevel2var, error>>

SetEntry(table, oldvar, d) ==
  /\ Registered(table)
  /\ LET p == pairs[Index(table)]
         level == bddvar2level(oldvar)
     IN  Update(table, [p.result EXCEPT ![level] = d], Later(p.last, level))

\* bdd_setpair, bdd_setbddpair
SetPair(table, oldvar, newvar) == SetEntry(table, oldvar, bdd_ithvar(newvar))
SetBddPair(table, oldvar, S) == SetEntry(table, oldvar, ToDiagram(S, bddlevel2var))

\* bdd_resetpair: the entry of level n becomes variable n.
ResetPair(table) ==
  /\ Registered(table)
  /\ Update(table, [n \in Levels |-> bdd_ithvar(n)], 0)

\* bdd_freepair
FreePair(table) ==
  /\ Registered(table)
  /\ pairs' = [i \in 1..(Len(pairs) - 1) |-> IF i < Index(table) THEN pairs[i] ELSE pairs[i + 1]]
  /\ call' = NoCall /\ result' = NoDiagram
  /\ UNCHANGED <<bddlevel2var, pairsid, replacecache, error>>

----------------------------------------------------------------------------
\* Two neighbouring levels change places (reorder_vardown): every diagram is
\* the same function as before, bdd_pairs_vardown follows in the tables, and
\* the collection that comes first resets the caches.

Swapped(l) == [bddlevel2var EXCEPT ![l] = bddlevel2var[l + 1], ![l + 1] = bddlevel2var[l]]

\* Mutant: the last level replaced stays where it was.
VardownLastKept(p, l) == [p EXCEPT !.result[l] = p.result[l + 1], !.result[l + 1] = p.result[l]]

bdd_pairs_vardown(p, l) ==
  [p EXCEPT !.result[l] = p.result[l + 1], !.result[l + 1] = p.result[l],
            !.last = IF p.last = l THEN l + 1 ELSE p.last]

SwapLevels(l) ==
  LET redrawn(p) == [p EXCEPT !.result = [n \in Levels |->
        ToDiagram(ToFunction(p.result[n], bddlevel2var), Swapped(l))]]
  IN  /\ bddlevel2var' = Swapped(l)
      /\ pairs' = [i \in DOMAIN pairs |-> bdd_pairs_vardown(redrawn(pairs[i]), l)]
      /\ replacecache' = NoEntry /\ error' = FALSE
      /\ call' = NoCall /\ result' = NoDiagram
      /\ UNCHANGED pairsid

----------------------------------------------------------------------------
\* The operations.

\* replaceid: the tags CACHEID_REPLACE, CACHEID_COMPOSE, CACHEID_VECCOMPOSE.
replaceid(op, number) ==
  number * 4 + (CASE op = "replace" -> 0 [] op = "compose" -> 1 [] op = "veccompose" -> 2)

\* The operation c on diagram d: the entry answers when its key is that of
\* the call, else the result of the recursion is stored, erroneous or not.
\* Operands above last have no key: the recursion ends at once.
Operate(c, d, b, id, last, computed) ==
  LET hit == replacecache.a = d /\ replacecache.c = id /\ (b # NoDiagram => replacecache.b = b)
      ends == ISCONST(d) \/ Level(d) > last
  IN  /\ result' = IF hit THEN replacecache.res ELSE computed.bdd
      /\ error' = (error \/ (~hit /\ computed.error))
      /\ replacecache' = IF hit \/ ends THEN replacecache
                         ELSE [a |-> d, b |-> b, c |-> id, res |-> computed.bdd]
      /\ call' = c
      /\ UNCHANGED <<bddlevel2var, pairs, pairsid>>

\* bdd_replace
ReplaceBy(table, S) ==
  /\ Registered(table)
  /\ LET p == pairs[Index(table)]
         d == ToDiagram(S, bddlevel2var)
     IN  Operate([NoCall EXCEPT !.op = "replace", !.table = table, !.f = S], d, NoDiagram,
                 replaceid("replace", p.id), p.last, Replace(d, p.result, p.last))

\* bdd_veccompose
VecComposeBy(table, S) ==
  /\ Registered(table)
  /\ LET p == pairs[Index(table)]
         d == ToDiagram(S, bddlevel2var)
     IN  Operate([NoCall EXCEPT !.op = "veccompose", !.table = table, !.f = S], d, NoDiagram,
                 replaceid("veccompose", p.id), p.last,
                 [bdd |-> VecCompose(d, p.result, p.last), error |-> FALSE])

\* bdd_compose
ComposeVar(S, T, v) ==
  LET d == ToDiagram(S, bddlevel2var)
      g == ToDiagram(T, bddlevel2var)
      level == bddvar2level(v)
  IN  Operate([NoCall EXCEPT !.op = "compose", !.f = S, !.g = T, !.var = v], d, g,
              replaceid("compose", level), level, [bdd |-> Compose(d, g, level), error |-> FALSE])

\* bdd_clear_error, and every garbage collection, resets the caches.
ResetCaches ==
  /\ replacecache' = NoEntry /\ error' = FALSE
  /\ call' = NoCall /\ result' = NoDiagram
  /\ UNCHANGED <<bddlevel2var, pairs, pairsid>>

----------------------------------------------------------------------------
InitPairs ==
  /\ bddlevel2var = [l \in Levels |-> l]
  /\ pairs = <<>> /\ pairsid = 0
  /\ replacecache = NoEntry /\ error = FALSE
  /\ call = NoCall /\ result = NoDiagram

NextPairs ==
  \/ \E t \in Tables : NewPair(t) \/ ResetPair(t) \/ FreePair(t)
  \/ \E t \in Tables : \E v, w \in Variables : v # w /\ SetPair(t, v, w)
  \/ \E t \in Tables : \E v \in Variables : \E S \in Substitutes : SetBddPair(t, v, S)
  \/ \E l \in 0..(VarNum - 2) : SwapLevels(l)
  \/ \E t \in Tables : \E S \in Arguments : ReplaceBy(t, S) \/ VecComposeBy(t, S)
  \/ \E S, T \in Arguments : \E v \in Variables : ComposeVar(S, T, v)
  \/ ResetCaches

PairsSpec == InitPairs /\ [][NextPairs]_vars

=============================================================================
