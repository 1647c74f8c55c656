# MoToBuDDy in TLA+

MoToBuDDy is BuDDy 2.4, a library of binary decision diagrams in C, with two
layers added: multi-terminal diagrams (MTBDDs) in the same node table, and
edge-valued diagrams (EVDDs) in a table of their own. This directory models the
library in TLA+, checks it with TLC on small instances, and proves with TLAPS
what the node table, the recursion of `bdd_apply`, the multi-terminal and the
edge-valued diagrams and reordering with its methods promise, for every value of
the constants. `PROJECT.json` has, for each definition, the lines of the source
it stands for; paths there begin with `src/`, the root of the repository.

## 1. The system

The library is sequential. What is hard in it is not threads but *re-entry* and
*what calls share*: a recursion over a diagram keeps node numbers in local
variables while it calls `bdd_makenode`, which may collect garbage, resize the
table, reuse a slot, jump out of the recursion (reordering) or fail; and one
call leaves caches, marks, identifiers and profiles in static variables that
the next one reads. So most properties below say that something must still mean
the same thing several steps, or several calls, later.

| Component | State | Operations | What makes it correct |
|---|---|---|---|
| `kernel.c`, `kernel.h` | `bddnodes` (level, children, count, chains), free list, limits, error condition, `bddrefstack` | `bdd_makenode`, `bdd_gbc`, `bdd_noderesize`, `bdd_addref`, `bdd_delref`, the setters, `bdd_clear_error`, `bdd_setvarnum` | no node is made twice; chains and free list exact; what is counted or on the stack is never collected or changed; the error only when nothing is left |
| `cache.c` | entries, generation | init, reset, resize, lookup, store | an entry that answers is right for the nodes now in its slots |
| `bddop.c` | caches, `cacheratio`, marks of variable sets and their identifiers, the profile of `bdd_allsat` | apply, not, ite, restrict, constrain, simplify, compose, replace, quantification, support, searches and counts | the result is the function the doc names, whatever was called or collected before; the stacks are bounded |
| `prime.c` | none (random) | `bdd_prime_gte`, `bdd_prime_lte` | a prime is never passed over; a composite seldom returned |
| `reorder.c`, `imatrix.c` | counts, interaction matrix, the order | `bdd_setvarorder`, `bdd_swapvar`, `bdd_reorder` with its methods | functions are unchanged; counts as before; no method leaves the table larger; all end |
| `tree.c`, `bddtree.h` | the tree of blocks | `bdd_addvarblock` and its kin, clear | the tree has the blocks that were accepted; a block stays together and in order |
| `pairs.c` | tables from levels to diagrams, identifiers | new, set, reset, free, exchange of levels | a table means the same after a reordering; the cache never answers for another table |
| `mtbdd.c`, `terminal.c`, `mtbdd_cache_registry.c` | value table, hash of terminals, custom types, list of caches | make, find and delete terminals, apply, ite | one terminal per value; a value slot lives exactly as long as its terminal |
| `mtbddop.cxx` | a traversal's choices and working diagram | Traverser, projections, `make_swap` | the result of a walk is the function rebuilt |
| `evdd_kernel.c` | `evddnodes`, `evddrefstack`, the memo of a walk | make, raw make, `evdd_normalize`, `evdd_gbc`, resize, addref, delref, `evdd_value_gbc` | normal diagrams are canonical; normalization keeps the function; the walk protects what it will read |
| `evdd_value.c` | intern table, free ids, strategy | intern, sweep, arithmetic, four normalizations | one id per value; an id in use is never reused |
| `evdd_op.c` | the cache of apply | `evdd_apply` | results right across collections |
| `fdd.c` | blocks of variables | declare, overlap, clear, encode, scan | every value has one code, and only values have one |
| `bvec.c` | none | arithmetic, shifts, comparisons of vectors | the vector's value is the integer's, modulo 2^w |
| `bddio.c` | `lh_table`, `un_nodes` of a load | save and load, printing | load of a save is the same function; a failed load leaves nothing behind |

How they meet: an operation looks into its cache, recurses, and builds with
`bdd_makenode`. A collection marks from the counts and `bddrefstack`, resets
the caches of `bddop.c` and every registered MTBDD cache, and takes the value
of each swept terminal out of the value table. A resize changes every hash. A
reordering runs between two operations, or from inside `bdd_makenode` through a
`longjmp` to the operation's start; it moves blocks of the tree, level by level,
and tells every table of pairs. The EVDD side repeats kernel, stack and cache
with its own table and shares only `prime.c` and the error code. `fdd.c`,
`bvec.c` and `bddio.c` are clients of the operators.

## 2. The modules

| Module | Models |
|---|---|
| `NodeTable` | the node table of `kernel.c` under any client |
| `DiagramStore` | what a client is promised: diagrams, kept or temporary, that never change |
| `NodeTableMC` | instances, and the refinement mapping to `DiagramStore` |
| `NodeTableProofs`, `StoreProofs` | theorems on the table; that it is a `DiagramStore` |
| `Cache` | the direct-mapped cache of `cache.c` |
| `Apply`, `ApplyMC` | `apply_rec` and `not_rec` with the cache, step by step, over `NodeTable` |
| `ApplyProofs` | theorems on the recursion: stacks, table, refinement; its results and its cache |
| `CallStack` | lemmas: what any recursion of the library has on the reference stack |
| `Diagrams` | diagrams as values, for the modules that do not need slots |
| `Operations` | the other recursions of `bddop.c`, as functions on diagrams |
| `Counting` | support, satisfying assignments, counts, profiles, `bdd_printset` |
| `OperatorCalls` | calls of these one after another, with the caches and marks they share |
| `DiagramFile` | saving to a file and loading it again, line by line |
| `OperatorCallsMC` | the last four against what the results mean |
| `Pairs`, `PairsMC` | tables of pairs, replace, veccompose and compose, exchanges of levels |
| `Reorder` | a session of reordering on a counted table, one node of a swap a step; the interaction matrix |
| `ReorderClient`, `ReorderMC` | the client's nodes with their functions, and the properties; the tables sessions start from |
| `ReorderProofs` | theorems on sessions |
| `Sifting`, `SiftingMC` | the methods of `bdd_reorder` on a list of blocks |
| `SiftingProofs` | theorems on the methods |
| `Blocks`, `BlocksMC` | the block tree, the descent of a reordering and `blockdown` |
| `Domains`, `Vectors`, `ArithmeticMC` | `fdd.c`, `bvec.c`, and both against integers |
| `Prime` | the search for a prime, one Miller-Rabin round a step; in `ArithmeticMC`'s run |
| `MtbddTable`, `MtbddApply`, `MtbddMC` | terminals and their values in the node table; `mtbdd_apply`, `mtbdd_apply_unary`, `mtbdd_ite` |
| `MtbddProofs` | theorems on these |
| `EvddKernel`, `EvddApply`, `EvddKernelMC` | the EVDD table, `evdd_normalize` and `evdd_apply` as stack machines |
| `EvddProofs` | theorems on these |

The modules cut the library at the place where each hazard bites. Slots,
collection and reuse are in `NodeTable`, `Apply`, `MtbddApply`, `EvddApply` and
`Reorder`. What these establish (equal diagrams have one number, numbers keep
their diagram) is what lets the other modules take a diagram as a value
(`Diagrams`): there the subject is what calls share besides nodes.

### NodeTable

`LEVEL`, `LOW`, `HIGH`, `refcou` are the fields of `bddnodes` as functions of
the slot; `LOW[n] = -1` is a free slot, as in the code. A chain is the set
`chain[b]`: the order of a chain only matters for speed. The free list is the
set `freelist`: sweep, resize and rehash push the slots from the last one down
and `bdd_makenode` takes the head, so that the head is the smallest free slot
in every state. `HashNode` is a parameter: nothing may depend on the
hash. `MaxRef` is `MAXREF` (1023 in the code, 2 in the runs).

`bdd_makenode(l, a, b, res)` has one disjunct per outcome of the C function:
children equal, found in the chain, a free slot, collection (and perhaps
resizing) and then a slot, exhaustion, and refusal while the error stands.
`Rebuild` is the sweep, the tail that a resize adds, and the slot taken after
both: the rehash of the code puts exactly the survivors in the chains of the
new size. `NewBucket` is the hash the code computes again after the resize.

The client is any operation of the library: `PushRef` for a result of a
recursion that ended in a known node, `MakeNode` for `bdd_makenode` on the two
entries on top of the reference stack (each operation of `bddop.c` builds in
this way), `EndOp` for its return and `Restart` for a start over; between
operations the program adds and drops references, collects, and calls the
setters. `held` is a ghost: the references the client took, which is what the
counts must stand for.

Left out: dynamic reordering, MTBDD terminals (they have their own modules),
failing allocations, growth of the number of variables, statistics and the
callbacks (`gbc_handler`).

### Apply

One step is one thing the recursion does: a shortcut, a cache hit, the call on
the low cofactors, `PUSHREF` of its result, the high one, `bdd_makenode` with
the store of the cache entry. `frames` is the C stack. `calling` and `returned`
are what the code has in registers between two calls: `returned` is not
protected until it is pushed, and `ImplementsNodeTable` shows that nothing can
collect in between. The cache is a function from slots to entries; a new
generation is an empty cache. `ApplyHash` is a parameter. `checkresize` resizes
the cache after the operation in which the table grew.

### Operations, Counting, OperatorCalls

`Operations` has `not_rec`, `apply_rec`, `ite_rec`, `restrict_rec`,
`constrain_rec`, `simplify_rec`, `quant_rec` and `appquant_rec` with all their
shortcuts, in their order; `Counting` the recursions that look at one diagram.
They are recursive operators on diagrams, without stack or collector.
`OperatorCalls` has one action per group of calls, with their variables: the
marks `quantvarset` with the identifier `quantvarsetID` that counts up and
starts again at `IntMax` (INT_MAX in the code), the marks of the support with
their own identifier, and for each cache the keys of its entries. The key's
third field packs an operator, a variable set and a tag into one int, as the
macros of the code do. An entry can do harm only through one later lookup, so
the model keeps the entry of the last call that stored one and lets every
lookup meet it: what `HASHRANGE` decides is whether they meet. Doubles and
logarithms are exact numbers.

### DiagramFile

A file is a sequence of lines. `Save` writes what `bdd_fnsave` and
`bdd_save_rec` write: header, then nodes, children first. Then the file may lose
a line, have a field changed or two lines out of order, and a session with
perhaps fewer variables or another order loads it: `ReadHeader` (a tag a step,
with every early return), then the body, a line a step: the hash table with its
growth, lines whose children are not known in `un_nodes`, and `ResolveAll` at the
end, which goes on until nothing changes. `held` counts the references
`bdd_load` takes, and `Released` what it gives back. `*root` is the raw number of the header
until the load succeeds, as in the code. The flags for header fields are
not initialised (line 713), so after the header `CheckHeader` leaves open whether
a missing field is noticed, and `ReadHeader` what the number of variables is then.

### Pairs

A table maps levels to diagrams, with `last` and an identifier; `FreePair`
takes it out of the list and `SwapLevels` is what a reordering does to all
(`bdd_pairs_vardown`). Setting gives a new identifier from a counter that
starts again at `IdMax` (with new ones for all tables and the cache reset, as in `update_pairsid`).
`replace`, `veccompose` and `compose` share one cache; as in `OperatorCalls`,
its entries all meet. `wanted` in `PairsMC` is the ghost: the function each
variable is to become, independent of levels.

### Reorder, Sifting, Blocks

`Reorder` models a session: `ReorderInit` is `reorder_init` (counts for
every edge, dependencies, the interaction matrix as a relation); `DownSimple`
begins an exchange of two levels (`SwapIndependent` for variables that do not
interact), then each `SwapNode` is one node of `reorder_swap`'s loop, with
`reorder_makenode` and the growth of the table; `FinishSwap` is the local
collection, and `ReorderDone` takes the counts back and collects. Which levels change places is up to the request: a target order, two
variables, or any moves (the methods). A node's `level` field holds its variable
inside a session, as in the code. The recursions of the session are recursive
functions (of the slot: `addref_rec`, `MarkRoots`, `LocalGbc`), and what
`bdd_mark` reaches is the smallest set it could be, so that the prover can take
them. `ReorderClient` adds `held`, the ghost: the nodes the client holds, how
often, and their functions.

`Sifting` has the methods on a list of blocks. The number of nodes is a function
of the order of the blocks, which is what makes the methods decide; all such
functions of a few values are initial states. A step is one window, or one
exchange. `Work` is all a method does.

`Blocks` has the tree as nested sequences of records, `bddtree_addrange` with
its error returns (which cut off the blocks behind, as the code does),
the update of a block's sequence, the descent of a reordering and `blockdown` with its two loops, a
level a step. Which blocks a method exchanges is left open there.

The three are one subsystem cut in three: `Sifting` decides by sizes only,
`Blocks` moves variables only, `Reorder` changes nodes only. What passes between
them is an exchange of neighbours in each case.

### Domains, Vectors, Prime

`Domains` has `firstbddvar`, `fdvaralloc` and the blocks as the code lays them
out (bits of blocks declared together interleaved); `Vectors` each operation of
`bvec.c` as the loop it is (not `bvec_map1` to `bvec_map3`, which only call a
function of the client). A BDD there is the set of assignments it is true
for. References are not modelled, except that what `bvec_div_rec` leaves over and
what `bvec_mulfixed`, `bvec_shl` and `bvec_shr` release without having taken
it stands in the result (`lost`, `extra`). `Prime`: `isWitness` is the C
function with its bits; the witness of a round is any number `Random` can give.
`Trap` is `rand() % 0`.

### MtbddTable and MtbddApply

A terminal is a node at the level `MAXLEVEL`; its `high` is the index of its
value, its `low` the type (the union in `BddNode`). `values` is the table of
values: `at` the array, `used` `mtbddTerminalUsed`, `last`
`mtbddLastValueIndex`, `top` the index stack. `mtbdd_maketerminal` inserts the
value first, then makes the node: a collection in between pushes the indices of
dead terminals, from the last slot down. If the node cannot be made the code
writes the index into the node 0 and the value stays without a terminal; the
action does that too. Chains and growth of the table are left out, since
`NodeTable` has them.

The recursion is the one of `Apply` with its steps: one leaf step more, which
calls the client back (`Callback`, with `NULL` for a constant) and makes the
terminal, and `MakeDecision`, the shortcut of `mtbdd_ite` for two terminals.
The domain is LONGVAL. The client keeps its diagrams in variables, protects a
result before its next call, and stops calling after an error. The condition of
`mtbdd_ite` is a constant or a variable: with an MTBDD there the recursion reaches
terminals, and the shortcut makes nodes at their level (see the hazards).

### EvddKernel and EvddApply

An edge is `[node, w]`. The weights are integers modulo a prime: a type with
exact product and quotient, so that what goes wrong is not rounding. The
strategy is the first nonzero weight. `evdd_normalize` runs step by step with
its memo, its reference stack (`EVDD_POPREF(2)` takes off whatever is on top)
and `evdd_makenode`, which may collect or resize. `evdd_apply` is the recursion
with its cache: a hit, a value of two terminals, the call on the low cofactors,
the push of their result, the high ones, and the node. A collection there begins
a new generation of the cache, in which the call that caused it stores its
result. The client keeps diagrams in variables, keeps to the order of the levels, which
`evdd_makenode` does not look at, and gives the edges of a new raw node any
weights but two zeros. The chains of the unique table are left out here (a node is
found if a slot has its key).

## 3. What is checked

| Run | Question | Bounds |
|---|---|---|
| `collect` | Do collections and reuse of slots in the middle of an operation leave the table good and the client's diagrams as they were? Is the table a `DiagramStore`? Does a saturated count protect for ever? | 3 variables, 3 free slots: two levels of inner nodes are built, dropped and built again in each other's slots; `MAXREF` 2 and as many references on one node, so that its count saturates |
| `apply` | Is each result right, each cache entry sound, are the stacks bounded, chains and free list exact, the error raised only when nothing is left, and is the recursion the client `NodeTable` assumes? Does the invariant of the proofs hold? | exclusive or and negation on 2 variables; one free slot, so that most operations collect; under a limit of 11 the table grows from 7 slots inside an operation, and the cache after it; under a limit of 8 no prime is left and it exhausts |
| `operations` | Does each operator return the function, the count or the assignment it stands for, whatever the last call left in caches, marks and profiles? Does a file come back as the function that was saved, or as an error that leaves no reference behind? | 3 variables; sequences of two calls with any pair of operators; identifiers that start again after three variable sets and after two supports, so that the second call meets marks of the first; the first call on all functions of two variables and some of three; files of up to five nodes under two orders and two numberings, one line lost, moved or changed, tables of the load that start with 3 slots and grow |
| `pairs` | Do replace, veccompose and compose substitute what was asked, whatever tables, orders and identifiers did in between? | 2 variables in both orders, 2 tables, identifiers that start again after 4 |
| `reorder` | Do swaps keep the client's functions, a canonical ordered table and exact counts, and install the order asked for? | 3 variables, 2 sessions, tables of 11 to 14 slots in which a swap fills the table and collects or grows it; up to 4 moves of `bdd_reorder`; held diagrams in rising slots (see the finding) |
| `methods` | Does any method leave the table larger? Do repeated ones stop only where their moves no longer help? Do all end? | 3 blocks, every function from their 6 orders to the sizes 5, 6 and 8, and a limit on growth that stops a sift |
| `blocks` | Does the tree have the blocks that were accepted, does each keep its variables together, in order if fixed, and does every exchange end? | 4 variables, 3 calls that add blocks of all kinds, 2 orders set before, 2 exchanges anywhere in the tree |
| `arithmetic` | Do blocks and vectors calculate as integers do? Is no prime passed over? | 5 variables; blocks of 4 and 3, of 5, of 2 and 2 values, overlapped and cleared (5 and 3 are no powers of two); every operation on their vectors and on the constants 1, 3, 5; every small request, those near squares of primes, and 2701, which has many liars |
| `mtbdd` | Does each index of a value belong to one terminal or to the index stack, are diagrams canonical, do held diagrams keep their functions, and are results right (those of `mtbdd_ite` where its shortcut for two terminals is not met, `OnTop`)? | 2 variables, 5 slots for two terminals and the diagrams over them: the table collects in each recursion, the value table doubles, and calls that need more nodes fail |
| `evdd` | Is all that the walk and the recursion will read protected, are their results right, do equal functions get one edge, and do held edges keep their functions? | three programs: a raw diagram of five nodes with a shared one, whose walk collects and resizes; one function in three builds; a sum and two differences with a cache of two slots, across collections |

The small bounds are enough because each hazard is about a short sequence: one
node too many in the table, one entry of a cache and one lookup after it, one
identifier that starts again, one exchange of two levels. The runs are made so
that these sequences happen (tables start nearly full, identifiers start again
after a few steps, all keys share a slot), and each property has a mutant,
defined beside the definition it changes and listed in `PROJECT.json`: a
plausible bug (a hash computed before the resize, a sweep that forgets the
reference stack, a cache that is not reset, marks that are not cleared, a loop
that stops one short) that the run must find.

What each property asks, and what it does not ask and why, is in the comment
above it. Where the code does not do what one would ask of it, the property
leaves exactly that case out, and the comment or the hazard says so.

**Fairness and deadlock.** `methods` assumes weak fairness of `Work`, `blocks`
of `MoveLeft \/ MoveRight`: there is one thread, and a loop of a call that began
goes on. No client's step is assumed fair. `MethodsEnd` and `ExchangeEnds` are
the loops of the library whose end is not evident from a counter; the recursions
are bounded by an invariant where they run step by step (`RecursionBounded`),
and end elsewhere because TLC evaluates them. Deadlock is not checked where the
system may really stop: after the calls or sessions of a run are used up
(`operations`, `reorder`, `methods`, `blocks`), and at a division by zero
(`arithmetic`).

### Disagreements found

Each of these two is a run that TLC must find violated, and was seen with the
compiled library too.

- `reorder_slots`: `mark_roots` goes through the slots in order and takes, for a
  child that is a root, the dependencies found so far. If a held diagram lies in
  a higher slot than a held diagram that contains it, the interaction matrix
  misses pairs of variables, two levels change places without their nodes, and
  the table is no longer ordered. `reorder` itself holds diagrams in rising
  slots only.
- `blocks_torn`: `blockdown` stops when the first variable of the right block has
  arrived. With variables of no block between two blocks the rest of the right
  block stays behind and the block is torn apart, though its variables "must
  occupy adjacent levels".

Met while modelling, recorded at their lines as hazards, and left out by the
properties:

- when nodes run out, a recursion takes the 0 of `bdd_makenode` for a cofactor
  and returns a diagram that is neither right nor `bddfalse` (`kernel.c:1456`);
- an edge of weight zero to an EVDD node is kept, so equal functions have two
  normal forms (`evdd_kernel.c:246`); and with two such edges the walk of
  `evdd_normalize` pops the entry that protects its memo (`evdd_kernel.c:370`);
- `bdd_setcacheratio` with more than half the number of nodes divides by zero
  (`prime.c:187`);
- `mtbdd_ite` on two terminals takes them the other way round than its recursion,
  which itself comes to two terminals when the condition lies below the variables
  of the other operands (`mtbdd.c:986`): the attempt to prove `DiagramsRight` for
  every operation but the call on two terminals failed there;
- `bdd_resetpair` takes levels for variables (`pairs.c:328`);
- `bdd_unique` and `bdd_appuni` return an operand without the quantified
  variables as it is (`bddop.c:1809`), and `bdd_restrict` lets the identifier of
  the marks pass INT_MAX (`bddop.c:2923`);
- `win2ite` starts again at what was the first block (`reorder.c:224`);
- a block that crosses another cuts off those behind it (`tree.c:136`), and
  blocks added under another order than the first one make `blockdown` loop
  (`tree.c:117`);
- a file whose root line is lost loads a part of the diagram (`bddio.c:875`);
- `bvec_divfixed` loses the highest bit of the remainder for divisors above half
  the range (`bvec.c:801`), the shifts truncate the width they compare with
  (`bvec.c:1013`), and `bvec_mulfixed`, `bvec_shl`, `bvec_shr` and the division
  give back references they did not take or keep some (`bvec.c:681`, `765`,
  `1049`, `1161`).

## 4. What is proved

Each theorem holds for every value of the constants that satisfies the
assumptions of its module: any number of variables, any size of the tables and
caches, any hash function.

| Module | Theorem | States |
|---|---|---|
| `NodeTableProofs` | `Invariance` | `Spec => []IInv`, the inductive invariant of the table |
| | `TypeCorrect`, `UniqueTableCorrect`, `DiagramsReducedOrdered`, `FreeListCorrect`, `ProtectedStayLive` | the parts of it |
| | `ProtectedNodesUnchanged` | no step changes a held node, an entry of the reference stack, or their children |
| | `SaturatedStays` | a saturated count never comes down |
| | `ExhaustedWhenFull` | the error is raised only when, after a collection, there is no slot that the table could still grow to |
| `StoreProofs` | `StoreRefined` | `Spec => ImplementsDiagramStore`: a client sees diagrams that never change, whatever is collected, resized or reused |
| `ApplyProofs` | `ApplyInvariance` | the inductive invariant `AInv` of the recursion with its stacks, cache and table |
| | `ApplyTable`, `ApplyUniqueTable`, `ApplyFreeList` | the invariants of the table hold under it |
| | `ApplyRecursionBounded` | its stacks are no deeper than the variables |
| | `ApplyExhaustedWhenFull` | it fails only when no slot is left |
| | `ApplyRefinesTable` | `Spec => ImplementsNodeTable`: it is a client that `NodeTable` allows |
| | `MeaningInvariance`, `CacheIsSound` | every entry of the cache, and every result on its way, is the function asked for |
| | `ResultIsRight` | `bdd_apply` and `bdd_not` return the right function |
| `MtbddProofs` | `MtbddInvariance` | the inductive invariant `MtbddInv` of terminals, diagrams, caches and calls |
| | `MtbddValueSlotsOwned` | an index of a value is owned by one terminal, or once on the index stack |
| | `MtbddCanonical` | a value has one terminal, a function one node |
| | `MtbddDiagramsRight` | held diagrams keep their functions, and `mtbdd_apply`, `mtbdd_apply_unary` and `mtbdd_ite` return the right ones |
| `EvddProofs` | `EvddInvariance` | the inductive invariant `EvddInv` of table, counts, cache, walk and recursion |
| | `EvddWalkProtected` | what `evdd_normalize` and `evdd_apply` will still read is reached by the next collection |
| | `EvddResultsRight` | `evdd_normalize` returns the function of its argument, `evdd_apply` that of the operator |
| | `EvddHeldMeaning` | what the client protected keeps its function |
| | `EvddCanonical` | equal functions have one edge once it is normalized |
| `ReorderProofs` | `ReorderInvariance` | the inductive invariant `ReorderInv` of table, counts and order in a session and outside |
| | `FunctionsKeptAlways` | held nodes keep their functions, between any two nodes of a swap, whatever moves are made |
| | `OrderInstalledAlways` | `bdd_setvarorder` and `bdd_swapvar` end with the order asked for, the first within as many moves as there are pairs of variables |
| `SiftingProofs` | `SiftingInvariance`, `ProgressIsExhausted` | no method but `random` leaves the table larger; `siftite` (without a limit on growth) and `win3ite` end only where their moves no longer help |

### From which assumptions

- `SizeAssumption`, `ParameterAssumption`, `HashAssumption`: the first table is a
  prime size with room for the literals, `MAXREF` is positive, the parameters of
  the setters are naturals (a percentage for `minfreenodes`), a hash is a natural
  number. `SlotBound`, `StackBound`, `HeldBound`, `HeldNodes` and `Atoms` only
  restrict what the client does.
- `AtomAssumption`, `OperandAssumption` (the same, for the two clients): what the
  client uses without a reference is a constant or the node of a variable. It is
  needed: `bdd_apply` does not push its operands, so another node without a
  reference could be collected in the middle of the call.
- `CacheAssumption`: the cache has a slot, ratios are positive.
- `BertrandAssumption`: between a number and its double is an odd prime. This is
  Bertrand's postulate, a theorem of number theory; it is what makes
  `bdd_prime_gte` end when the cache follows the table.
- `MtbddAssumption`: levels are less than `MAXLEVEL`, the table has a slot more
  than the literals, the first table of values is not empty, values are naturals
  (`NoValue` stands for `NULL`); the client's variables are finitely many and no
  constants. `OperationAssumption`: operations have one or two operands (three for
  `mtbdd_ite`, the first a constant or a variable), hashes are natural numbers.
  Nothing is assumed of `Callback`.
- `EvddAssumption`, `CallAssumption`: the modulus is prime (a weight that is not 0
  has an inverse, which is what normalization divides by), the table has a slot,
  `MAXREF` and the cache's size are positive, the client has finitely many
  variables and builds at levels above the terminal's. `ApplyAssumption`: the
  operator takes weights to weights and the hash gives a slot of the cache;
  nothing else is assumed of them.
- `WeightAssumption`: no raw node has two weights 0. The walk needs it: of such a
  node `evdd_makenode` makes the edge to the terminal, and the entry that the
  walk then pops may be the one that protects its memo (`evdd_kernel.c:370`).
- `NormalAssumption`, for `EvddCanonical` only: a weight 0 is given to an edge to
  the terminal (`evdd_makenode` keeps the node of such an edge,
  `evdd_kernel.c:246`), and what the client builds with `evdd_makenode` has
  operands from `evdd_normalize`, `evdd_apply` or `evdd_makenode`.
- `BoundsAssumption` and `TableAssumption` in `Reorder`: there is a variable, `MAXREF`
  and the growth of the table are positive; a session starts from any table of
  terminals and nodes whose children are nodes further down, with any counts.
  That it is reduced or without duplicates is not assumed.
- `BlockAssumption`, `SetupAssumption`, `MethodAssumption`: there is a block,
  sizes of orders are naturals, the methods are those `bdd_reorder` knows.

### Along which arguments

**The table (`IInv`).** `ProtectedLive` is not inductive: a collection keeps what
is marked, and that the marked nodes are whole diagrams needs children to be
nodes (`ReducedOrdered`), which after `bdd_makenode` needs its operands to be
nodes, which is `ProtectedLive` again; that the slot taken holds no node needs
`FreeListExact`; that no key is made twice needs exact chains (`UniqueTable`),
whose hashes are in the table by `TypeOK`; that literals survive without being
held needs their counts to be `MAXREF` (`LiteralsStay`). `IInv` is the
conjunction, with one more fact: while an operation runs there is no last
result that a collection could take away. `RebuildTableOK` is the heart: from a
good table and a set of nodes that is closed under children, sweep, resize and
a new node make a good table. `ProtectedSurvive` says that marking gives such a
set. Each action then has a lemma.

**The store.** The diagram of a slot (`Diagram` in `NodeTableMC`) is a recursive
function, and nothing says at first that there is one. `DiagramExists` builds it
level by level, from the constants up, by induction over the naturals. With
`UniqueTable` it is injective (`DiagramInjective`), and where two tables agree on
a set that is closed under children they have the same diagrams there
(`DiagramAgrees`). So a collection, which keeps what is marked, keeps the
diagrams of the client, and each action is a step of `DiagramStore` or none.

**The recursion (`AInv`).** Why can a collection in the middle of `apply_rec` do
no harm, when its operands are only in local variables? Because all it works on
hangs on nodes that carry a count (`Reach`): the counts do not change during
the operation, so the operands survive, with what is below them. What a call
*returns* need not hang on a count, so it is a node only until something is
made; `ReferencesOK` says that the reference stack has one entry for every
call that waits for its second result, in the order of the calls, and that
these are the operands of the `bdd_makenode` to come. `DepthsOK` says that a
call is on nodes deeper than its caller's, and that its result is too: this
bounds the stack, and it is what `bdd_makenode` needs to put a node above the
two results (`ReducedOrdered`). A cache entry must therefore relate nodes with a
result that is not above them (`CacheOK`), which a collection ensures by the new
generation of the cache. TLC checked `AInv` on the instance of `apply` before it
was proved.

**The results (`MInv`).** Beside `AInv`, and as long as no error stands: each
first result on the reference stack is the function for the low cofactors of the
call that pushed it, what a call returned is the function for its operands, and
each entry of the cache is right. `Meaning` exists level by level, as `Diagram`
does, and a step that changes the table keeps the meaning of what it keeps.
The lemmas on the shortcuts of `apply_rec` and on Shannon's expansion then carry
the recursion up by one level; `Asked` says which call the one below was made
for. The condition on the error is what the code does: after a failed
`bdd_makenode` results are wrong and enter the cache, until `bdd_clear_error`
resets it.

**Multi-terminal diagrams (`MtbddInv`).** All of it holds as long as no error
stands: a failed `mtbdd_maketerminal` overwrites the constant 0. `TableOK` is
the table; two inner nodes never have the same record, but two terminals have
the same one only if they share an index, which is for `ValuesOK` to exclude:
the indices of live terminals, the index stack and the numbers below `last` fit,
and live terminals have different values. A collection takes indices from one to
the other (`mtbdd_delete_terminals`), and the insertion before it has taken its
index from the stack already, so that the terminal to come gets an index which
is neither. `ClientOK` says that what the client holds is counted, with which
everything below it survives (`Reach`, as in `AInv`). `CachesOK` and `Running`
say what the entries of the caches and the waiting calls are for: a call's
result is in `Results`, the nodes of the right function that are not above the
operands. The reference stack is treated once for all recursions: `CallStack`
says how long it is, which entry belongs to which waiting call, and what a step
of the innermost one does to it. A step keeps the meaning of the nodes it keeps
(`MeaningKept`), so that results stay results (`NodesStay`); equal meanings are
equal nodes by induction over the levels. TLC checked `MtbddInv` on the instance
of `mtbdd` before it was proved.

**Edge-valued diagrams (`EvddInv`).** `EVDD_POPREF(2)` in the walk takes off
whatever is on top, and each call of the walk leaves an entry for its memo, so
the entry popped is mostly not the one pushed: after the high child the two on
top are its memo's and its own. `OnTop` says that they are results for the
high or the low child. Both hang on the node made before the next push, so that
what was popped is protected again. That needs the new node to have both
children, or two equal ones, which is where `WeightAssumption` enters. `WalkProtected` alone is not inductive:
`Chain` says that each waiting call is on a child of the one before it,
`MemoOK` that the memo has, for the nodes that hang on counts (`Reach`), edges
with the function of the node at or below its level (`NormalForms`), and
`ApplyOK` says the same of `evdd_apply`, with the low results on the stack in the
order of the calls (`Protected`). A reference count may have reached `MAXREF`, so
`ClientOK` says that it is that or no less than the number of variables with
the node (`Holders`). The arithmetic is proved from the modulus being prime:
`ProductType` and the lemmas beside it give products, inverses and
cancellation.

**Canonicity (`NormalInv`).** Weights make uniqueness harder than for BDDs: two
edges to different nodes can be multiples of each other. `Normal` are the nodes
from which only normalized nodes are reached: the first weight that is not 0 is
1, and a weight 0 goes to the terminal. `NormalInv` says that the client's normal
variables, the memo, the results of both stack machines and the cache hold
edges to such nodes; it is inductive together with `EvddInv`. `OneEdge` says
that two such edges with one function are one edge, by induction on their top
level from the terminal up: their cofactors are the same edges, so the weights
of the two nodes are proportional, and the first one that is not 0 is the same.
TLC checked `EvddInv` and `NormalInv` on the instance of
`evdd` before they were proved.

**Reordering (`ReorderInv`).** `FunctionsKept` does not rest on the interaction
matrix, nor on the order of the levels: `reorder_slots` shows that the matrix may
miss a pair, and then a node can lie above its parent, but its function is still
what its variable and its children say. So the invariant asks less of the table
than `TableCanonical`: no path goes round in a circle (`Acyclic`; without an
order of levels, this is what lets `Function` be defined and compared by induction,
`GraphInduction`), and in a session each count is saturated or no less than the
number of references to the node, from its parents and from outside (`Backed`).
`Claims` are these references as a set, one for each field that holds a child:
`reorder_makenode` adds three for a new node or none, `reorder_swap` moves two and
gives two back, the local collection takes two away with each dead node, and
each time the counts follow. A node with a
count 0 therefore has no parent and may go. That the initial recursion of
`addref_rec` gives such counts is an induction over the graph from below (`AddrefCounts`);
the swap of one node keeps its function because both new children are the
cofactors of the old ones (`SwapsTable`). `OutOfSession` says what the next
session needs: what is held is counted, so it is a root.

**The order (`Progress`).** `bdd_setvarorder` works on the first wrong level `i`,
and the variable for it is below, at `p`. A move takes it from `p` to `p - 1`;
the levels before `i` are right and are not touched. `MovesBound` is twice what
this takes at most: the levels before `i` each their distance to the bottom, the
variable under way what it has come. Each move makes it larger by two or more, and it never
exceeds `VarNum * (VarNum - 1)`. For `bdd_swapvar` the first variable
goes down until it is at the other's level, which puts the other one level
higher, and then that one goes up (`GoesDown`, `GoesUp`). TLC checked
`ReorderInv` and `Progress` on the instance of `reorder` before they were proved.

**The methods (`SInv`).** A sifted block walks to one end of its list and then to
the other. Until it has found a smaller table its best place is where it came from
and the walk has not turned twice; so when it ends without having moved, it has
seen the table with the block one place further down. `SiftPass` says this of
every block sifted in the pass so far, as long as the pass has gained
nothing, `Win3Pass` the same for the windows behind `this`; a pass that gained
nothing therefore ends where no move helps, and `Running` says that the best
place known is never worse than the order the method began with. TLC checked
`SInv` on the instance of `methods`.

### What is only model-checked

- Liveness: `MethodsEnd` and `ExchangeEnds` need fairness, which the prover
  cannot use.
- `OperatorsRight`, `CountsRight`, `SearchesRight`, `LoadRight`, `LoadBalanced`,
  `SubstitutionsRight`, `AcceptedKept`, `BlocksInOrder`, the properties of
  `arithmetic`: their modules reach `RECURSIVE` operators
  (`Operations`, `Counting`, `DiagramFile`, `Pairs`, `Blocks`, `Domains`,
  `Vectors`), with which the prover has no SMT backend.
- `TableCanonical` and `CountsRight` of `reorder`. Neither holds for all
  tables, so each would need a bound on what the client holds: `TableCanonical`
  needs a matrix with every pair that interacts, hence held diagrams in rising
  slots (`reorder_slots` refutes it without), and whether they still rise after a
  session depends on the new order; `CountsRight` says that counts are
  exact, which they are only while none is saturated (in the run no node has
  more than `MaxRef` parents). What `ReorderInv` keeps of the counts, that
  they are high enough, holds always.
- The properties of `NodeTableMC`, `ApplyMC`, `MtbddMC` and `EvddKernelMC` are all
  proved; the runs remain as the check that their instances meet the interesting cases.

## 5. Not modelled, and why

- The automatic start of a reordering from inside `bdd_makenode` (`longjmp` to
  the start of the operation), with the enabling and disabling around it.
  `NodeTable` has the restart, `Reorder` the reordering; no module composes them.
- In `mtbdd.c`: domains kept in the node, CUSTOM values and what the client's
  callbacks own, the operations with a parameter and the guarded ones,
  `mtbdd_operation` (its controls are pointers of the client).
  `mtbdd_cache_registry.c` is a list of caches to reset.
- The intern table of `evdd_value.c`, its sweep, and the strategies on doubles:
  rounding and tolerance have no finite model worth checking.
- `mtbddop.cxx` and `cppext.cxx`: closures of C++ and handles that take and drop a
  reference; `mosf_parser.h`: a reader of text for its client.
- Printing as dot or tables, statistics, the test driver, build files,
  `evdd_convert.c`, which is a stub.

## 6. Plan

Done: the node table with its proofs, and that it is a store of diagrams; apply
over it, with its results; the operators and what they share; files; pairs;
reordering in its three parts, the sessions and the methods with their proofs;
blocks and vectors; primes; terminals; the EVDD kernel and its apply, with their
proof. Next:

1. Proofs: `Blocks` with recursive functions for its recursive operators, so that
   the prover can take it.
2. The reordering in the middle of an operation: `Reorder` under the client of
   `NodeTable`, with its disabling.
3. The rest of `mtbdd.c` over `MtbddTable`.
