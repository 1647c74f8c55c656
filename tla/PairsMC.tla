------------------------------ MODULE PairsMC ------------------------------
(***************************************************************************)
(* Replacements against what the client asked for: wanted keeps, for every *)
(* table, the function of variables each variable is to become.            *)
(***************************************************************************)
EXTENDS Pairs

VARIABLE wanted

Same == [v \in Variables |-> {s \in SUBSET Variables : v \in s}]

\* bdd_resetpair takes the numbers of levels for those of variables: it
\* makes the table "no change" only while the two are the same, and whatever
\* else it makes of it is not asked for.
Other == <<>>
AtReset == IF \A l \in Levels : bddlevel2var[l] = l THEN Same ELSE Other

Want(t, v, S) == wanted' = IF wanted[t] = Other THEN wanted ELSE [wanted EXCEPT ![t][v] = S]

MCInit == InitPairs /\ wanted = [t \in Tables |-> Same]

MCNext ==
  \/ \E t \in Tables : NewPair(t) /\ wanted' = [wanted EXCEPT ![t] = Same]
  \/ \E t \in Tables : ResetPair(t) /\ wanted' = [wanted EXCEPT ![t] = AtReset]
  \/ \E t \in Tables : FreePair(t) /\ wanted' = [wanted EXCEPT ![t] = Same]
  \/ \E t \in Tables : \E v, w \in Variables : v # w /\ SetPair(t, v, w) /\ Want(t, v, Same[w])
  \/ \E t \in Tables : \E v \in Variables : \E S \in Substitutes : SetBddPair(t, v, S) /\ Want(t, v, S)
  \/ \E l \in 0..(VarNum - 2) : SwapLevels(l) /\ UNCHANGED wanted
  \/ \E t \in Tables : \E S \in Arguments : (ReplaceBy(t, S) \/ VecComposeBy(t, S)) /\ UNCHANGED wanted
  \/ \E S, T \in Arguments : \E v \in Variables : ComposeVar(S, T, v) /\ UNCHANGED wanted
  \/ ResetCaches /\ UNCHANGED wanted

MCSpec == MCInit /\ [][MCNext]_<<vars, wanted>>

\* The function F with every variable replaced by a function.
Substituted(F, functions) ==
  {s \in SUBSET Variables : {v \in Variables : s \in functions[v]} \in F}

Returned == ToFunction(result, bddlevel2var)

Renames(functions) == \A v \in Variables : \E w \in Variables : functions[v] = Same[w]

ReplaceRight ==
  call.op = "replace" /\ wanted[call.table] # Other /\ Renames(wanted[call.table])
  /\ (~error \/ \A v, w \in Variables : v # w => wanted[call.table][v] # wanted[call.table][w])
    => Returned = Substituted(call.f, wanted[call.table])

ComposeRight ==
  /\ call.op = "veccompose" /\ wanted[call.table] # Other => Returned = Substituted(call.f, wanted[call.table])
  /\ call.op = "compose" => Returned = Substituted(call.f, [Same EXCEPT ![call.var] = call.g])

\* bdd_replace puts the new variables of the table into the function, or
\* raises BDD_REPLACE, and raises nothing when different variables become
\* different ones; bdd_veccompose and bdd_compose replace variables by
\* functions, all at once: whatever tables were set, reset, freed and
\* renumbered before, in whatever order the variables are now, and whatever
\* the cache they share holds.  (A table with other diagrams than variables
\* is not for bdd_replace; after an error the caches are to be reset.)
SubstitutionsRight == ReplaceRight /\ ComposeRight

----------------------------------------------------------------------------
MCVariables == 0..(VarNum - 1)
MCSubstitutes == {{s \in SUBSET MCVariables : 0 \in s <=> 1 \in s}}
MCArguments == {{s \in SUBSET MCVariables : 0 \in s /\ 1 \notin s}}
=============================================================================
