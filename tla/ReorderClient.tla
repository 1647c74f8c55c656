---------------------------- MODULE ReorderClient ----------------------------
(***************************************************************************)
(* What sessions of reordering promise the client.  held remembers what it *)
(* holds: how often, and the function, as a set of sets of variables.      *)
(***************************************************************************)
EXTENDS Reorder

VARIABLE held     \* slot -> [refs, function], for the nodes the client holds

\* The variable of a node, in or out of a session.
VarOf(n) == IF phase = "out" THEN bddlevel2var[bddnodes[n].level] ELSE bddnodes[n].level

\* The assignments, as sets of variables, a node is true for.
Function[n \in Slots(bddnodes)] ==
  IF n < 2 THEN {s \in SUBSET Variables : n = 1}
  ELSE IF bddnodes[n].low = -1 THEN {}
  ELSE {s \in SUBSET Variables :
          s \in Function[IF VarOf(n) \in s THEN bddnodes[n].high ELSE bddnodes[n].low]}

ClientInit ==
  /\ InitReorder
  /\ held = [n \in {m \in Live(bddnodes) : bddnodes[m].refcou > 0} |->
               [refs |-> bddnodes[n].refcou, function |-> Function[n]]]
ClientNext == NextReorder /\ UNCHANGED held
ClientSpec == ClientInit /\ [][ClientNext]_<<vars, held>>

\* A reordering moves nodes and never the functions: in every state of it,
\* between any two nodes of a swap, a node the client holds is there and has
\* its function.  (Unless the table ran full in between.)
FunctionsKept ==
  ~bdderrorcond => \A n \in DOMAIN held : n \in Live(bddnodes) /\ Function[n] = held[n].function

LevelOf(n) == IF n < 2 THEN VarNum ELSE bddvar2level(VarOf(n))

\* Between swaps the table is ordered, reduced and without duplicates: equal
\* functions stay equal numbers.  It is the invariant sanitycheck (turned off
\* in the code) asserts.  It needs every node of an interacting variable to
\* be swapped, so the interaction matrix to be complete.
TableCanonical ==
  phase # "swap" /\ ~bdderrorcond =>
    /\ \A n \in Live(bddnodes) :
         /\ bddnodes[n].low # bddnodes[n].high
         /\ LevelOf(n) < LevelOf(bddnodes[n].low) /\ LevelOf(n) < LevelOf(bddnodes[n].high)
    /\ \A n, m \in Live(bddnodes) :
         n # m => <<bddnodes[n].level, bddnodes[n].low, bddnodes[n].high>>
                  # <<bddnodes[m].level, bddnodes[m].low, bddnodes[m].high>>

Parents(n) == {m \in Live(bddnodes) : n \in {bddnodes[m].low, bddnodes[m].high}}

\* Inside a session a count is the number of the node's parents and of the
\* references from outside; no live node is without, and the counts per
\* variable and of the free slots, by which the methods compare orders, are
\* those of the table.  (The references from outside grow from session to
\* session.)  After a session no node counts less than the client's
\* references, so that none is collected under the client; nodes that are
\* not the client's count nothing, so that they can be.
CountsRight ==
  /\ phase = "in" /\ ~bdderrorcond =>
       /\ \A n \in Live(bddnodes) \ extroots :
            bddnodes[n].refcou > 0 /\ bddnodes[n].refcou = (IF Cardinality(Parents(n)) < MaxRef
                                                             THEN Cardinality(Parents(n)) ELSE MaxRef)
       /\ \A v \in Variables : nodenum[v] = Cardinality({n \in Live(bddnodes) : bddnodes[n].level = v})
       /\ bddfreenum = Cardinality(FreeSlots(bddnodes))
  /\ phase = "out" =>
       /\ \A n \in DOMAIN held : bddnodes[n].refcou >= held[n].refs
       /\ \A n \in Live(bddnodes) \ DOMAIN held : bddnodes[n].refcou = 0

\* The session ends with the order that was asked for: bdd_setvarorder with
\* the client's, after no more moves than there are pairs of variables,
\* bdd_swapvar with two variables exchanged.
OrderInstalled ==
  /\ request.op = "setvarorder" =>
       /\ phase = "out" => bddlevel2var = request.order
       /\ 2 * moves <= VarNum * (VarNum - 1)
  /\ request.op = "swapvar" /\ phase = "out" =>
       bddvar2level(request.v1) = request.l2 /\ bddvar2level(request.v2) = request.l1

=============================================================================
