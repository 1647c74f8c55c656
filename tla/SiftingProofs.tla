--------------------------- MODULE SiftingProofs ---------------------------
(***************************************************************************)
(* The methods of bdd_reorder stop only where their moves no longer help,  *)
(* for any number of blocks and any sizes of their orders.                 *)
(*                                                                         *)
(* The heart is one walk of the sifting.  Until the table gets smaller its *)
(* best place is where the block came from, and whether the walk went up   *)
(* or down first, it has seen the place below before it ends.              *)
(***************************************************************************)
EXTENDS SiftingMC, TLAPS, FiniteSetTheorems, SequenceTheorems

\* The list with the block b at the position p, the others in their order.
Place(l, b, p) ==
  LET i == Pos(l, b) IN
  [k \in Blocks |-> IF k = p THEN b
                    ELSE IF i <= k /\ k < p THEN l[k + 1]
                    ELSE IF p < k /\ k <= i THEN l[k - 1]
                    ELSE l[k]]

\* The sizes met when b goes through the list from end to end.
Line(size, l, b) == [p \in Blocks |-> size[Place(l, b, p)]]

\* The best place of the block being sifted, and the list with it there.
BestPlace == Pos(list, walk.block) - walk.bestpos
Home == IF walk = NoWalk THEN list ELSE Place(list, walk.block, BestPlace)

\* No exchange of the block c with the one behind makes the table smaller.
NoGain(size, l, c) == Pos(l, c) < BlockNum => size[l] <= size[blockdown(l, c)]

Walk == [block : Blocks, up : BOOLEAN, turn : 0..2, best : Nat, bestpos : Int, moved : BOOLEAN]

SiftingTypeOK ==
  /\ list \in Lists /\ first \in Blocks /\ this \in Blocks
  /\ setup \in Setups
  /\ method \in AllMethods \cup {"none"} /\ phase \in {"idle", "run", "done"}
  /\ queue \in Seq(Blocks)
  /\ walk = NoWalk \/ walk \in Walk
  /\ lastsize \in Nat /\ began \in Nat

\* While a walk has found nothing better: f are the sizes along the way of
\* its block, p is where it is, h where it came from, max what it may grow to.
Sought(w, f, p, h, max) ==
  LET below == h < BlockNum => w.best <= f[h + 1]
      ahead == p <= h /\ \A q \in (p + 1)..h : f[q] <= max
  IN  CASE w.turn = 0 /\ w.up -> ahead /\ (~w.moved => p = h)
        [] w.turn = 0 /\ ~w.up -> p >= h /\ (w.moved => p > h) /\ (~w.moved => p = h) /\ (p > h => below)
        [] w.turn = 1 /\ ~w.up -> \/ ahead /\ (w.moved => f[p] <= max)
                                  \/ p > h /\ below
        [] OTHER -> below

WalkOK ==
  walk # NoWalk =>
    LET p == Pos(list, walk.block)
        line == Line(setup.size, list, walk.block)
    IN
    /\ BestPlace \in Blocks
    /\ line[BestPlace] = walk.best
    /\ walk.best <= began
    /\ method = "siftite" => walk.best <= lastsize
    /\ method = "siftite" /\ setup.limit = 0 /\ walk.best = lastsize =>
         Sought(walk, line, p, BestPlace, MaxAllowed(walk.best))

\* What a repeated method knows if its pass has changed nothing yet.
Waiting == {queue[i] : i \in DOMAIN queue} \cup (IF walk = NoWalk THEN {} ELSE {walk.block})

SiftPass ==
  method = "siftite" =>
    /\ reorder_nodenum(Home) <= lastsize
    /\ setup.limit = 0 /\ reorder_nodenum(Home) = lastsize =>
         \A c \in Blocks \ Waiting : NoGain(setup.size, Home, c)

Win3Pass ==
  method = "win3ite" =>
    /\ reorder_nodenum(list) <= lastsize
    /\ reorder_nodenum(list) = lastsize =>
         \A i \in 1..(Pos(list, this) - 1) : i + 2 <= BlockNum =>
           \A k \in 1..6 : reorder_nodenum(list) <= reorder_nodenum(Window(list, list[i])[k])

Running ==
  phase = "run" =>
    /\ method # "none"
    /\ method \in {"win2", "win2ite", "win3", "win3ite"} => first = list[1]
    /\ method \notin {"sift", "siftite"} => walk = NoWalk /\ queue = <<>>
    /\ method # "random" => reorder_nodenum(Home) <= began
    /\ WalkOK /\ SiftPass /\ Win3Pass

SInv ==
  /\ SiftingTypeOK
  /\ phase # "run" => walk = NoWalk
  /\ Running /\ ProgressExhausted

----------------------------------------------------------------------------
\* Places in a list.

\* Every block has one position.
LEMMA PosOf ==
  ASSUME NEW l \in Lists, NEW b \in Blocks
  PROVE  Pos(l, b) \in Blocks /\ l[Pos(l, b)] = b
  <1>1. l \in Injection(Blocks, Blocks)
    BY DEF Lists, Injection, IsInjective
  <1>2. IsFiniteSet(Blocks)
    BY FS_Interval, BlockAssumption DEF Blocks
  <1>3. l \in Surjection(Blocks, Blocks)
    BY <1>1, <1>2, FS_Injection
  <1>4. \E i \in Blocks : l[i] = b
    BY <1>3 DEF Surjection
  <1>5. QED
    BY <1>4 DEF Pos

LEMMA PosIs ==
  ASSUME NEW l \in Lists, NEW i \in Blocks
  PROVE  Pos(l, l[i]) = i
  <1>1. l[i] \in Blocks
    BY DEF Lists
  <1>2. Pos(l, l[i]) \in Blocks /\ l[Pos(l, l[i])] = l[i]
    BY <1>1, PosOf
  <1>3. QED
    BY <1>2 DEF Lists

\* What Next_ and Prev find.
LEMMA NextPrev ==
  ASSUME NEW l \in Lists, NEW b \in Blocks
  PROVE  /\ Next_(l, b) # NULL <=> Pos(l, b) < BlockNum
         /\ Prev(l, b) # NULL <=> Pos(l, b) > 1
         /\ Next_(l, b) # NULL => Next_(l, b) \in Blocks /\ Pos(l, Next_(l, b)) = Pos(l, b) + 1
         /\ Prev(l, b) # NULL => Prev(l, b) \in Blocks /\ Pos(l, Prev(l, b)) = Pos(l, b) - 1
  <1> DEFINE i == Pos(l, b)
  <1>1. i \in Blocks /\ \A k \in Blocks : l[k] \in Blocks
    BY PosOf DEF Lists
  <1>2. \A k \in Blocks : l[k] # NULL /\ Pos(l, l[k]) = k
    <2>1. NULL \notin Blocks
      BY DEF Blocks, NULL
    <2>2. QED
      BY <1>1, <2>1, PosIs
  <1> HIDE DEF i
  <1>3. /\ i < BlockNum => i + 1 \in Blocks
        /\ i > 1 => i - 1 \in Blocks
        /\ i <= BlockNum /\ 1 <= i
    BY <1>1, BlockAssumption DEF Blocks
  <1>4. /\ Next_(l, b) = IF i = BlockNum THEN NULL ELSE l[i + 1]
        /\ Prev(l, b) = IF i = 1 THEN NULL ELSE l[i - 1]
    BY DEF Next_, Prev, i
  <1>5. i \in Int /\ BlockNum \in Int
    BY <1>1, BlockAssumption DEF Blocks
  <1>6. i = BlockNum \/ i < BlockNum
    BY <1>3, <1>5
  <1>7. i = 1 \/ i > 1
    BY <1>3, <1>5
  <1>8. (Next_(l, b) # NULL <=> i < BlockNum) /\ (Prev(l, b) # NULL <=> i > 1)
    BY <1>1, <1>2, <1>3, <1>4, <1>5, <1>6, <1>7
  <1>9. QED
    BY <1>1, <1>2, <1>3, <1>4, <1>5, <1>6, <1>7, <1>8 DEF i

\* A block at another place: a list again.
LEMMA PlaceList ==
  ASSUME NEW l \in Lists, NEW b \in Blocks, NEW p \in Blocks
  PROVE  Place(l, b, p) \in Lists /\ Place(l, b, p)[p] = b /\ Pos(Place(l, b, p), b) = p
  <1> DEFINE i == Pos(l, b)
             m == Place(l, b, p)
             from == [k \in Blocks |-> IF k = p THEN i
                                       ELSE IF i <= k /\ k < p THEN k + 1
                                       ELSE IF p < k /\ k <= i THEN k - 1
                                       ELSE k]
  <1>1. i \in Blocks /\ l[i] = b
    BY PosOf
  <1> HIDE DEF i
  <1>2. \A k \in Blocks : from[k] \in Blocks
    BY <1>1, BlockAssumption DEF Blocks
  <1>3. \A j, k \in Blocks : j # k => from[j] # from[k]
    BY <1>1, BlockAssumption DEF Blocks
  <1>4. m = [k \in Blocks |-> l[from[k]]]
    BY <1>1 DEF Place, i
  <1> HIDE DEF from, m
  <1>5. m \in [Blocks -> Blocks]
    BY <1>4, <1>2 DEF Lists
  <1>6. \A j, k \in Blocks : j # k => m[j] # m[k]
    BY <1>4, <1>3, <1>2 DEF Lists
  <1>7. m \in Lists
    BY <1>5, <1>6 DEF Lists
  <1>8. m[p] = b
    BY <1>4, <1>1 DEF from
  <1>9. QED
    BY <1>7, <1>8, PosIs DEF m


\* Where the block is already, there is nothing to move.
LEMMA PlaceHere ==
  ASSUME NEW l \in Lists, NEW b \in Blocks
  PROVE  Place(l, b, Pos(l, b)) = l
  <1> DEFINE i == Pos(l, b)
  <1>1. i \in Blocks /\ l[i] = b
    BY PosOf
  <1> HIDE DEF i
  <1>2. \A k \in Blocks : /\ ~(i <= k /\ k < i) /\ ~(i < k /\ k <= i)
    BY <1>1, BlockAssumption DEF Blocks
  <1>3. Place(l, b, i) = [k \in Blocks |-> l[k]]
    BY <1>1, <1>2 DEF Place, i
  <1>4. QED
    BY <1>3 DEF Lists, i

\* Moving it twice is moving it to the second place.
LEMMA PlaceTwice ==
  ASSUME NEW l \in Lists, NEW b \in Blocks, NEW p \in Blocks, NEW q \in Blocks
  PROVE  Place(Place(l, b, p), b, q) = Place(l, b, q)
  <1> DEFINE i == Pos(l, b)
             m == Place(l, b, p)
  <1>1. i \in Blocks /\ l[i] = b
    BY PosOf
  <1>2. Pos(m, b) = p
    BY PlaceList
  <1>3. m = [k \in Blocks |-> IF k = p THEN b
                              ELSE IF i <= k /\ k < p THEN l[k + 1]
                              ELSE IF p < k /\ k <= i THEN l[k - 1]
                              ELSE l[k]]
    BY DEF Place
  <1> DEFINE n == [k \in Blocks |-> IF k = q THEN b
                                    ELSE IF p <= k /\ k < q THEN m[k + 1]
                                    ELSE IF q < k /\ k <= p THEN m[k - 1]
                                    ELSE m[k]]
             o == [k \in Blocks |-> IF k = q THEN b
                                    ELSE IF i <= k /\ k < q THEN l[k + 1]
                                    ELSE IF q < k /\ k <= i THEN l[k - 1]
                                    ELSE l[k]]
  <1>4. Place(m, b, q) = n
    BY <1>2 DEF Place
  <1>5. Place(l, b, q) = o
    BY DEF Place
  <1> HIDE DEF i, m
  <1>6. ASSUME NEW k \in Blocks
        PROVE  n[k] = o[k]
    <2>1. /\ k \in 1..BlockNum /\ i \in 1..BlockNum /\ p \in 1..BlockNum /\ q \in 1..BlockNum
          /\ BlockNum \in Nat
      BY <1>1, BlockAssumption DEF Blocks
    <2>2. CASE k = q
      BY <2>2
    <2>3. CASE k # q /\ p <= k /\ k < q
      <3>1. n[k] = m[k + 1] /\ k + 1 \in Blocks
        BY <2>1, <2>3 DEF Blocks
      <3>2. m[k + 1] = IF k + 1 = p THEN b ELSE IF i <= k + 1 /\ k + 1 < p THEN l[k + 2]
                       ELSE IF p < k + 1 /\ k + 1 <= i THEN l[k] ELSE l[k + 1]
        BY <3>1, <1>3, <2>1
      <3>3. QED
        BY <3>1, <3>2, <2>1, <2>3, <1>1
    <2>4. CASE k # q /\ q < k /\ k <= p
      <3>1. n[k] = m[k - 1] /\ k - 1 \in Blocks
        BY <2>1, <2>4 DEF Blocks
      <3>2. m[k - 1] = IF k - 1 = p THEN b ELSE IF i <= k - 1 /\ k - 1 < p THEN l[k]
                       ELSE IF p < k - 1 /\ k - 1 <= i THEN l[k - 2] ELSE l[k - 1]
        BY <3>1, <1>3, <2>1
      <3>3. QED
        BY <3>1, <3>2, <2>1, <2>4, <1>1
    <2>5. CASE k # q /\ ~(p <= k /\ k < q) /\ ~(q < k /\ k <= p)
      <3>1. n[k] = m[k]
        BY <2>5
      <3>2. m[k] = IF k = p THEN b ELSE IF i <= k /\ k < p THEN l[k + 1]
                   ELSE IF p < k /\ k <= i THEN l[k - 1] ELSE l[k]
        BY <1>3
      <3>3. QED
        BY <3>1, <3>2, <2>1, <2>5, <1>1
    <2>6. QED
      BY <2>2, <2>3, <2>4, <2>5
  <1>7. n = o
    BY <1>6
  <1>8. QED
    BY <1>4, <1>5, <1>7 DEF m

\* An exchange with a neighbour moves the block by one place.
LEMMA PlaceNext ==
  ASSUME NEW l \in Lists, NEW b \in Blocks
  PROVE  /\ Pos(l, b) < BlockNum => Place(l, b, Pos(l, b) + 1) = blockdown(l, b)
         /\ Pos(l, b) > 1 => Place(l, b, Pos(l, b) - 1) = blockdown(l, Prev(l, b))
  <1> DEFINE i == Pos(l, b)
             c == Prev(l, b)
  <1>1. i \in Blocks /\ l[i] = b /\ l = [k \in Blocks |-> l[k]]
    BY PosOf DEF Lists
  <1>2. blockdown(l, b) = [l EXCEPT ![i] = l[i + 1], ![i + 1] = b]
    BY DEF blockdown
  <1>3. i > 1 => c \in Blocks /\ Pos(l, c) = i - 1 /\ c = l[i - 1]
    BY NextPrev, <1>1 DEF Prev, NULL
  <1>4. i > 1 => blockdown(l, c) = [l EXCEPT ![i - 1] = l[(i - 1) + 1], ![(i - 1) + 1] = c]
    BY <1>3 DEF blockdown
  <1>5. ASSUME i < BlockNum
        PROVE  Place(l, b, i + 1) = blockdown(l, b)
    <2>1. Place(l, b, i + 1) = [k \in Blocks |-> IF k = i + 1 THEN b
                                 ELSE IF i <= k /\ k < i + 1 THEN l[k + 1]
                                 ELSE IF i + 1 < k /\ k <= i THEN l[k - 1]
                                 ELSE l[k]]
      BY DEF Place
    <2> HIDE DEF i
    <2>2. blockdown(l, b) = [k \in Blocks |-> IF k = i + 1 THEN b ELSE IF k = i THEN l[i + 1] ELSE l[k]]
      BY <1>1, <1>2, <1>5, BlockAssumption DEF Blocks
    <2>3. \A k \in Blocks : /\ i <= k /\ k < i + 1 <=> k = i
                           /\ ~(i + 1 < k /\ k <= i)
      BY <1>1, BlockAssumption DEF Blocks
    <2>4. QED
      BY <2>1, <2>2, <2>3
  <1>6. ASSUME i > 1
        PROVE  Place(l, b, i - 1) = blockdown(l, c)
    <2>1. Place(l, b, i - 1) = [k \in Blocks |-> IF k = i - 1 THEN b
                                 ELSE IF i <= k /\ k < i - 1 THEN l[k + 1]
                                 ELSE IF i - 1 < k /\ k <= i THEN l[k - 1]
                                 ELSE l[k]]
      BY DEF Place
    <2> HIDE DEF i, c
    <2>2. i - 1 \in Blocks /\ (i - 1) + 1 = i
      BY <1>1, <1>6, BlockAssumption DEF Blocks
    <2>3. blockdown(l, c) = [k \in Blocks |-> IF k = i THEN c ELSE IF k = i - 1 THEN b ELSE l[k]]
      BY <1>1, <1>4, <1>6, <2>2
    <2>4. c = l[i - 1]
      BY <1>3, <1>6
    <2>5. ASSUME NEW k \in Blocks
          PROVE  (IF k = i - 1 THEN b
                  ELSE IF i <= k /\ k < i - 1 THEN l[k + 1]
                  ELSE IF i - 1 < k /\ k <= i THEN l[k - 1] ELSE l[k])
                 = (IF k = i THEN c ELSE IF k = i - 1 THEN b ELSE l[k])
      <3>1. k \in Int /\ i \in Int
        BY <1>1, BlockAssumption DEF Blocks
      <3>2. CASE k = i
        BY <3>1, <3>2, <2>4
      <3>3. CASE k # i
        BY <3>1, <3>3
      <3>4. QED
        BY <3>2, <3>3
    <2>6. QED
      BY <2>1, <2>3, <2>5
  <1>7. QED
    BY <1>5, <1>6

\* The sizes along the way of a block do not change as it goes.
LEMMA LineSame ==
  ASSUME NEW size, NEW l \in Lists, NEW b \in Blocks, NEW p \in Blocks
  PROVE  Line(size, Place(l, b, p), b) = Line(size, l, b)
  BY PlaceTwice DEF Line

LEMMA LineAt ==
  ASSUME NEW size, NEW l \in Lists, NEW b \in Blocks
  PROVE  Line(size, l, b)[Pos(l, b)] = size[l]
  BY PlaceHere, PosOf DEF Line

LEMMA LineNat ==
  ASSUME NEW size \in [Lists -> Nat], NEW l \in Lists, NEW b \in Blocks
  PROVE  Line(size, l, b) \in [Blocks -> Nat]
  BY PlaceList DEF Line

----------------------------------------------------------------------------
\* One walk.  f are the sizes on the way, p and h the places of now and of
\* the best, d the step.

\* The block moves by one place and meets nothing smaller.
LEMMA SoughtMove ==
  ASSUME NEW w \in Walk, NEW f \in [Blocks -> Nat], NEW p \in Blocks, NEW h \in Blocks,
         NEW q \in Blocks, NEW max \in Nat, NEW w2 \in Walk,
         Sought(w, f, p, h, max), w.turn < 2,
         q = IF w.up THEN p - 1 ELSE p + 1,
         ~w.moved \/ f[p] <= max,
         f[h] = w.best, w.best <= max, w.best <= f[q],
         w2.turn = w.turn, w2.up = w.up, w2.moved, w2.best = w.best
  PROVE  Sought(w2, f, q, h, max)
  <1> DEFINE below == h < BlockNum => w.best <= f[h + 1]
  <1>1. /\ p \in Int /\ h \in Int /\ q \in Int /\ BlockNum \in Int
        /\ w.turn \in 0..2 /\ w.up \in BOOLEAN /\ w.moved \in BOOLEAN /\ w.best \in Nat
        /\ \A i \in Blocks : f[i] \in Nat
    BY BlockAssumption DEF Blocks, Walk
  <1>2. CASE w.turn = 0 /\ w.up
    <2>1. p <= h /\ (\A i \in (p + 1)..h : f[i] <= max) /\ (~w.moved => p = h)
      BY <1>2 DEF Sought
    <2>2. f[p] <= max
      BY <2>1, <1>1
    <2>3. q <= h /\ \A i \in (q + 1)..h : f[i] <= max
      <3>1. q = p - 1
        BY <1>2
      <3>2. \A i \in (q + 1)..h : i = p \/ i \in (p + 1)..h
        BY <3>1, <1>1
      <3>3. QED
        BY <3>1, <3>2, <2>1, <2>2, <1>1
    <2>4. QED
      BY <2>3, <1>2 DEF Sought
  <1>3. CASE w.turn = 0 /\ ~w.up
    <2>1. p >= h /\ (~w.moved => p = h) /\ (w.moved => p > h) /\ (p > h => below)
      BY <1>3 DEF Sought
    <2>2. q = p + 1
      BY <1>3
    <2>3. below
      <3>1. p = h => below
        BY <2>2, <1>1
      <3>2. QED
        BY <3>1, <2>1, <1>1
    <2>4. q > h
      BY <2>1, <2>2, <1>1
    <2>5. QED
      BY <2>3, <2>4, <1>3, <1>1 DEF Sought
  <1>4. CASE w.turn = 1 /\ ~w.up
    <2>1. q = p + 1
      BY <1>4
    <2>2. CASE p <= h /\ \A i \in (p + 1)..h : f[i] <= max
      <3>1. CASE p < h
        <4>1. q <= h /\ (\A i \in (q + 1)..h : f[i] <= max) /\ f[q] <= max
          BY <3>1, <2>1, <2>2, <1>1
        <4>2. QED
          BY <4>1, <1>4 DEF Sought
      <3>2. CASE p = h
        <4>1. q > h /\ below
          BY <3>2, <2>1, <1>1
        <4>2. QED
          BY <4>1, <1>4 DEF Sought
      <3>3. QED
        BY <3>1, <3>2, <2>2, <1>1
    <2>3. CASE p > h /\ below
      <3>1. q > h
        BY <2>1, <2>3, <1>1
      <3>2. QED
        BY <3>1, <2>3, <1>4 DEF Sought
    <2>4. QED
      BY <2>2, <2>3, <1>4 DEF Sought
  <1>5. CASE w.turn = 1 /\ w.up
    BY <1>5 DEF Sought
  <1>6. QED
    BY <1>1, <1>2, <1>3, <1>4, <1>5

\* The block cannot go on, and turns round.
LEMMA SoughtTurn ==
  ASSUME NEW w \in Walk, NEW f \in [Blocks -> Nat], NEW p \in Blocks, NEW h \in Blocks,
         NEW max \in Nat, NEW w2 \in Walk,
         Sought(w, f, p, h, max), w.turn < 2,
         ~w.up => p = BlockNum \/ (w.moved /\ f[p] > max),
         w2.turn = w.turn + 1, w2.up <=> ~w.up, ~w2.moved, w2.best = w.best
  PROVE  Sought(w2, f, p, h, max)
  <1> DEFINE below == h < BlockNum => w.best <= f[h + 1]
  <1>1. /\ p \in Int /\ h \in Int /\ BlockNum \in Int /\ h <= BlockNum
        /\ w.turn \in 0..2 /\ w.up \in BOOLEAN /\ w.moved \in BOOLEAN
        /\ f[p] \in Nat
    BY BlockAssumption DEF Blocks, Walk
  <1>2. CASE w.turn = 0 /\ w.up
    <2>1. p <= h /\ \A i \in (p + 1)..h : f[i] <= max
      BY <1>2 DEF Sought
    <2>2. w2.turn = 1 /\ ~w2.up /\ ~w2.moved
      BY <1>2
    <2>3. ~(w2.turn = 0 /\ w2.up) /\ ~(w2.turn = 0 /\ ~w2.up)
      BY <2>2
    <2>4. QED
      BY <2>1, <2>2, <2>3 DEF Sought
  <1>3. CASE w.turn = 0 /\ ~w.up
    <2>1. p >= h /\ (~w.moved => p = h) /\ (w.moved => p > h) /\ (p > h => below)
      BY <1>3 DEF Sought
    <2>2. below
      BY <2>1, <1>1, <1>3
    <2>3. w2.turn = 1 /\ w2.up
      BY <1>3
    <2>4. ~(w2.turn = 0 /\ w2.up) /\ ~(w2.turn = 0 /\ ~w2.up) /\ ~(w2.turn = 1 /\ ~w2.up)
      BY <2>3
    <2>5. QED
      BY <2>2, <2>4 DEF Sought
  <1>4. CASE w.turn = 1 /\ ~w.up
    <2>1. \/ p <= h /\ (w.moved => f[p] <= max)
          \/ below
      BY <1>4 DEF Sought
    <2>2. below
      BY <2>1, <1>1, <1>4
    <2>3. w2.turn = 2
      BY <1>4
    <2>4. QED
      BY <2>2, <2>3 DEF Sought
  <1>5. CASE w.turn = 1 /\ w.up
    <2>1. w2.turn = 2 /\ below
      BY <1>5 DEF Sought
    <2>2. QED
      BY <2>1 DEF Sought
  <1>6. QED
    BY <1>1, <1>2, <1>3, <1>4, <1>5

----------------------------------------------------------------------------
\* Exchanges and windows.

LEMMA Exchange ==
  ASSUME NEW l \in Lists, NEW b \in Blocks, Pos(l, b) < BlockNum
  PROVE  /\ blockdown(l, b) \in Lists
         /\ blockdown(l, b)[1] = IF Pos(l, b) = 1 THEN Prev(blockdown(l, b), b) ELSE l[1]
         /\ Prev(blockdown(l, b), b) \in Blocks
         /\ Pos(blockdown(l, b), b) = Pos(l, b) + 1
         /\ \A k \in Blocks : k < Pos(l, b) => blockdown(l, b)[k] = l[k]
  <1> DEFINE i == Pos(l, b)
             m == blockdown(l, b)
  <1>1. i \in Blocks /\ i + 1 \in Blocks
    <2>1. i \in Blocks
      BY PosOf
    <2> HIDE DEF i
    <2>2. i < BlockNum
      BY DEF i
    <2>3. QED
      BY <2>1, <2>2, BlockAssumption DEF Blocks
  <1>2. m = Place(l, b, i + 1)
    BY PlaceNext
  <1>3. m \in Lists /\ Pos(m, b) = i + 1
    BY <1>1, <1>2, PlaceList
  <1>4. m = [l EXCEPT ![i] = l[i + 1], ![i + 1] = b]
    BY DEF blockdown
  <1> HIDE DEF i, m
  <1>5. \A k \in Blocks : k < i => m[k] = l[k]
    BY <1>1, <1>4, BlockAssumption DEF Lists, Blocks
  <1>6. i # 1 => m[1] = l[1]
    BY <1>1, <1>5, BlockAssumption DEF Blocks
  <1>7. i + 1 # 1 /\ (i + 1) - 1 = i
    BY <1>1, BlockAssumption DEF Blocks
  <1>8. Prev(m, b) = m[i]
    BY <1>3, <1>7 DEF Prev
  <1>9. m[i] \in Blocks
    BY <1>1, <1>3 DEF Lists
  <1>10. QED
    BY <1>3, <1>5, <1>6, <1>8, <1>9 DEF i, m

\* Three neighbours in another order.
Three(l, i, x, y, z) == [l EXCEPT ![i] = x, ![i + 1] = y, ![i + 2] = z]

LEMMA Reordered ==
  ASSUME NEW l \in Lists, NEW i \in Blocks, i + 1 \in Blocks, i + 2 \in Blocks,
         NEW x \in {l[i], l[i + 1], l[i + 2]}, NEW y \in {l[i], l[i + 1], l[i + 2]},
         NEW z \in {l[i], l[i + 1], l[i + 2]}, x # y, x # z, y # z
  PROVE  /\ Three(l, i, x, y, z) \in Lists
         /\ Three(l, i, x, y, z)[i] = x
         /\ i # 1 => Three(l, i, x, y, z)[1] = l[1]
  <1> DEFINE m == Three(l, i, x, y, z)
             j == i + 1
             k == i + 2
  <1>1. /\ i # j /\ i # k /\ j # k /\ 1 \in Blocks /\ j # 1 /\ k # 1
        /\ j \in Blocks /\ k \in Blocks
    BY BlockAssumption DEF Blocks
  <1>2. m = [l EXCEPT ![i] = x, ![j] = y, ![k] = z]
    BY DEF Three
  <1>3. x \in {l[i], l[j], l[k]} /\ y \in {l[i], l[j], l[k]} /\ z \in {l[i], l[j], l[k]}
    OBVIOUS
  <1> HIDE DEF m, j, k
  <1>4. /\ l \in [Blocks -> Blocks]
        /\ \A c, d \in Blocks : c # d => l[c] # l[d]
    BY DEF Lists
  <1>5. x \in Blocks /\ y \in Blocks /\ z \in Blocks
    BY <1>1, <1>3, <1>4
  <1>6. m \in [Blocks -> Blocks] /\ m[i] = x /\ m[j] = y /\ m[k] = z
    BY <1>1, <1>2, <1>4, <1>5
  <1>7. \A c \in Blocks : c \notin {i, j, k} => m[c] = l[c]
    BY <1>1, <1>2, <1>4
  <1>8. ASSUME NEW c \in Blocks, NEW d \in Blocks, c # d
        PROVE  m[c] # m[d]
    <2>1. \A e \in Blocks : e \notin {i, j, k} => m[e] \notin {x, y, z}
      BY <1>7, <1>4, <1>3, <1>1
    <2>2. CASE c \in {i, j, k} /\ d \in {i, j, k}
      BY <2>2, <1>8, <1>6
    <2>3. CASE c \in {i, j, k} /\ d \notin {i, j, k}
      BY <2>3, <2>1, <1>6
    <2>4. CASE c \notin {i, j, k} /\ d \in {i, j, k}
      BY <2>4, <2>1, <1>6
    <2>5. CASE c \notin {i, j, k} /\ d \notin {i, j, k}
      BY <2>5, <1>7, <1>8, <1>4
    <2>6. QED
      BY <2>2, <2>3, <2>4, <2>5
  <1>9. i # 1 => m[1] = l[1]
    BY <1>1, <1>7
  <1>10. m \in Lists
    BY <1>6, <1>8 DEF Lists
  <1>11. QED
    BY <1>6, <1>9, <1>10 DEF m

LEMMA WindowLists ==
  ASSUME NEW l \in Lists, NEW b \in Blocks, Pos(l, b) + 2 <= BlockNum, NEW k \in 1..6
  PROVE  /\ Window(l, b)[k] \in Lists
         /\ Window(l, b)[1] = l
         /\ Pos(l, b) # 1 => Window(l, b)[k][1] = l[1]
         /\ Window(l, b)[6][Pos(l, b)] = l[Pos(l, b)]
  <1> DEFINE i == Pos(l, b)
             A == l[i]
             B == l[i + 1]
             C == l[i + 2]
             at(x, y, z) == Three(l, i, x, y, z)
             w == Window(l, b)
  <1>1. i \in Blocks
    BY PosOf
  <1>2. w = <<l, at(B, A, C), at(B, C, A), at(C, B, A), at(C, A, B), at(A, C, B)>>
    BY DEF Window, Three
  <1>3. i + 2 <= BlockNum
    OBVIOUS
  <1> HIDE DEF i, w
  <1>4. i + 1 \in Blocks /\ i + 2 \in Blocks /\ i # i + 1 /\ i # i + 2 /\ i + 1 # i + 2
    BY <1>1, <1>3, BlockAssumption DEF Blocks
  <1>5. A # B /\ A # C /\ B # C
    BY <1>1, <1>4 DEF Lists
  <1> DEFINE Good(m) == m \in Lists /\ (i # 1 => m[1] = l[1])
  <1>6. ASSUME NEW x \in {A, B, C}, NEW y \in {A, B, C}, NEW z \in {A, B, C},
               x # y, x # z, y # z
        PROVE  Good(at(x, y, z)) /\ at(x, y, z)[i] = x
    BY <1>1, <1>4, <1>6, Reordered
  <1> HIDE DEF Good, at, A, B, C
  <1>7. /\ Good(at(B, A, C)) /\ Good(at(B, C, A)) /\ Good(at(C, B, A)) /\ Good(at(C, A, B))
        /\ Good(at(A, C, B)) /\ at(A, C, B)[i] = A
    <2>1. Good(at(B, A, C)) /\ Good(at(B, C, A))
      BY <1>5, <1>6
    <2>2. Good(at(C, B, A)) /\ Good(at(C, A, B))
      BY <1>5, <1>6
    <2>3. Good(at(A, C, B)) /\ at(A, C, B)[i] = A
      BY <1>5, <1>6
    <2>4. QED
      BY <2>1, <2>2, <2>3
  <1>8. Good(l)
    BY DEF Good
  <1>9. Good(w[k]) /\ w[1] = l /\ w[6][i] = A
    BY <1>2, <1>7, <1>8
  <1>10. QED
    BY <1>9 DEF Good, w, i, A

\* Six sizes have a first best one.
LEMMA FirstOfSix ==
  ASSUME NEW v \in [1..6 -> Nat]
  PROVE  \E k \in 1..6 : /\ \A m \in 1..6 : v[k] <= v[m]
                         /\ \A m \in 1..(k - 1) : v[k] < v[m]
  <1> DEFINE P(j) == \E k \in 1..j : /\ \A m \in 1..j : v[k] <= v[m]
                                     /\ \A m \in 1..(k - 1) : v[k] < v[m]
  <1>1. P(1)
    OBVIOUS
  <1>2. ASSUME NEW j \in 1..5, P(j)
        PROVE  P(j + 1)
    <2>1. PICK k \in 1..j : /\ \A m \in 1..j : v[k] <= v[m]
                            /\ \A m \in 1..(k - 1) : v[k] < v[m]
      BY <1>2
    <2>2. \A m \in 1..(j + 1) : m \in 1..j \/ m = j + 1
      OBVIOUS
    <2>3. v[k] \in Nat /\ v[j + 1] \in Nat /\ \A m \in 1..j : v[m] \in Nat
      OBVIOUS
    <2>4. CASE v[k] <= v[j + 1]
      <3>1. k \in 1..(j + 1) /\ \A m \in 1..(j + 1) : v[k] <= v[m]
        BY <2>1, <2>2, <2>4
      <3>2. QED
        BY <3>1, <2>1
    <2>5. CASE v[j + 1] < v[k]
      <3>1. j + 1 \in 1..(j + 1) /\ (j + 1) - 1 = j
        OBVIOUS
      <3>2. \A m \in 1..j : v[j + 1] < v[m]
        BY <2>1, <2>3, <2>5
      <3>3. \A m \in 1..(j + 1) : v[j + 1] <= v[m]
        BY <3>2, <2>2, <2>3
      <3>4. QED
        BY <3>1, <3>2, <3>3
    <2>6. QED
      BY <2>3, <2>4, <2>5
  <1> HIDE DEF P
  <1>3. P(2)
    BY <1>1, <1>2, 1 \in 1..5, 1 + 1 = 2
  <1>4. P(3)
    BY <1>3, <1>2, 2 \in 1..5, 2 + 1 = 3
  <1>5. P(4)
    BY <1>4, <1>2, 3 \in 1..5, 3 + 1 = 4
  <1>6. P(5)
    BY <1>5, <1>2, 4 \in 1..5, 4 + 1 = 5
  <1>7. P(6)
    BY <1>6, <1>2, 5 \in 1..5, 5 + 1 = 6
  <1>8. QED
    BY <1>7 DEF P

LEMMA FirstBestIs ==
  ASSUME NEW w, setup.size \in [Lists -> Nat], \A k \in 1..6 : w[k] \in Lists
  PROVE  /\ FirstBest(w) \in 1..6
         /\ \A m \in 1..6 : setup.size[w[FirstBest(w)]] <= setup.size[w[m]]
         /\ FirstBest(w) # 1 => setup.size[w[FirstBest(w)]] < setup.size[w[1]]
  <1> DEFINE v == [k \in 1..6 |-> setup.size[w[k]]]
  <1>1. v \in [1..6 -> Nat]
    OBVIOUS
  <1>2. \A k \in 1..6 : v[k] = reorder_nodenum(w[k])
    BY DEF reorder_nodenum
  <1> HIDE DEF v
  <1>3. PICK k \in 1..6 : /\ \A m \in 1..6 : v[k] <= v[m]
                          /\ \A m \in 1..(k - 1) : v[k] < v[m]
    BY <1>1, FirstOfSix
  <1>4. \A m \in 1..(k - 1) : m \in 1..6
    OBVIOUS
  <1>5. /\ \A m \in 1..6 : reorder_nodenum(w[k]) <= reorder_nodenum(w[m])
        /\ \A m \in 1..(k - 1) : reorder_nodenum(w[k]) < reorder_nodenum(w[m])
    BY <1>2, <1>3, <1>4
  <1> DEFINE f == FirstBest(w)
  <1>6. /\ f \in 1..6
        /\ \A m \in 1..6 : reorder_nodenum(w[f]) <= reorder_nodenum(w[m])
        /\ \A m \in 1..(f - 1) : reorder_nodenum(w[f]) < reorder_nodenum(w[m])
    BY <1>5 DEF FirstBest
  <1> HIDE DEF f
  <1>7. f # 1 => 1 \in 1..(f - 1)
    BY <1>6
  <1>8. QED
    BY <1>6, <1>7 DEF reorder_nodenum, f

----------------------------------------------------------------------------
\* Every step keeps the invariant.

LEMMA Facts ==
  SInv => /\ list \in Lists /\ list[1] \in Blocks /\ 1 \in Blocks
          /\ setup.size \in [Lists -> Nat] /\ setup.limit \in Nat
          /\ Home \in Lists /\ reorder_nodenum(list) \in Nat /\ reorder_nodenum(Home) \in Nat
          /\ BlockNum \in Nat \ {0}
  <1> SUFFICES ASSUME SInv
               PROVE  /\ list \in Lists /\ list[1] \in Blocks /\ 1 \in Blocks
                      /\ setup.size \in [Lists -> Nat] /\ setup.limit \in Nat
                      /\ Home \in Lists /\ reorder_nodenum(list) \in Nat /\ reorder_nodenum(Home) \in Nat
                      /\ BlockNum \in Nat \ {0}
    OBVIOUS
  <1>1. list \in Lists /\ setup \in Setups
    BY DEF SInv, SiftingTypeOK
  <1>2. 1 \in Blocks /\ BlockNum \in Nat \ {0}
    BY BlockAssumption DEF Blocks
  <1>3. list[1] \in Blocks
    BY <1>1, <1>2 DEF Lists
  <1>4. setup.size \in [Lists -> Nat] /\ setup.limit \in Nat
    BY <1>1, SetupAssumption
  <1>5. Home \in Lists
    <2>1. CASE walk = NoWalk
      BY <2>1, <1>1 DEF Home
    <2>2. CASE walk # NoWalk
      <3>1. phase = "run" /\ walk \in Walk
        BY <2>2 DEF SInv, SiftingTypeOK
      <3>2. BestPlace \in Blocks /\ walk.block \in Blocks
        BY <2>2, <3>1 DEF SInv, Running, WalkOK, Walk
      <3>3. QED
        BY <2>2, <3>2, <1>1, PlaceList DEF Home
    <2>3. QED
      BY <2>1, <2>2
  <1>6. QED
    BY <1>1, <1>2, <1>3, <1>4, <1>5 DEF reorder_nodenum

\* The methods that do not sift: they only have a list, its head and its size.
LEMMA NoWalkStep ==
  ASSUME SInv, phase = "run", phase' = "run", method' = method, setup' = setup,
         began' = began, walk' = walk, queue' = queue, lastsize' = lastsize,
         method \notin {"sift", "siftite"},
         list' \in Lists, this' \in Blocks, first' \in Blocks,
         method \in {"win2", "win2ite", "win3", "win3ite"} => first' = list'[1],
         method # "random" => setup.size[list'] <= setup.size[list],
         Win3Pass'
  PROVE  SInv'
  <1>1. walk = NoWalk /\ queue = <<>>
    BY DEF SInv, Running
  <1>2. SiftingTypeOK'
    BY DEF SInv, SiftingTypeOK
  <1>3. Home = list /\ Home' = list'
    BY <1>1 DEF Home
  <1>4. method # "random" => reorder_nodenum(Home)' <= began'
    <2>1. method # "random" => setup.size[list] <= began
      BY <1>3 DEF SInv, Running, reorder_nodenum
    <2>2. setup.size[list] \in Nat /\ setup.size[list'] \in Nat /\ began \in Nat
      BY Facts DEF SInv, SiftingTypeOK
    <2>3. QED
      BY <2>1, <2>2, <1>3 DEF reorder_nodenum
  <1>5. WalkOK' /\ SiftPass'
    BY <1>1 DEF WalkOK, SiftPass
  <1>6. Running'
    BY <1>1, <1>4, <1>5 DEF SInv, Running
  <1>7. QED
    BY <1>1, <1>2, <1>6 DEF SInv, ProgressExhausted

LEMMA Win2Keeps == SInv /\ Win2Step => SInv'
  <1> SUFFICES ASSUME SInv, Win2Step
               PROVE  SInv'
    OBVIOUS
  <1>1. this \in Blocks /\ first \in Blocks /\ first = list[1] /\ list \in Lists
    BY Facts DEF SInv, SiftingTypeOK, Running, Win2Step
  <1>2. Pos(list, this) < BlockNum /\ Next_(list, this) \in Blocks
    BY <1>1, NextPrev DEF Win2Step
  <1>3. list' \in Lists /\ this' \in Blocks /\ first' \in Blocks /\ first' = list'[1]
        /\ setup.size[list'] <= setup.size[list]
    <2>1. CASE Undone(list, this)
      <3>1. this' = Next_(list, this) /\ list' = list /\ first' = first
        BY <2>1 DEF Win2Step
      <3>2. setup.size[list] \in Nat
        BY Facts
      <3>3. QED
        BY <3>1, <3>2, <1>1, <1>2
    <2>2. CASE ~Undone(list, this)
      <3>1. list' = blockdown(list, this) /\ this' = this
            /\ first' = IF first = this THEN Prev(list', this) ELSE first
        BY <2>2 DEF Win2Step
      <3>2. /\ list' \in Lists
            /\ list'[1] = IF Pos(list, this) = 1 THEN Prev(list', this) ELSE list[1]
            /\ Prev(list', this) \in Blocks
        BY <1>1, <1>2, <3>1, Exchange
      <3>3. first = this <=> Pos(list, this) = 1
        BY <1>1, PosIs, PosOf, Facts
      <3>4. setup.size[list'] <= setup.size[list]
        <4>1. ~(setup.size[list] < setup.size[list'])
          BY <2>2, <3>1 DEF Undone, reorder_nodenum
        <4>2. setup.size[list] \in Nat /\ setup.size[list'] \in Nat
          BY Facts, <3>2
        <4>3. QED
          BY <4>1, <4>2
      <3>5. QED
        BY <3>1, <3>2, <3>3, <3>4, <1>1
    <2>3. QED
      BY <2>1, <2>2
  <1>4. Win3Pass'
    BY DEF Win2Step, Win3Pass
  <1>5. QED
    BY <1>3, <1>4, NoWalkStep DEF Win2Step

LEMMA RandomKeeps == SInv /\ RandomMove => SInv'
  <1> SUFFICES ASSUME SInv, RandomMove
               PROVE  SInv'
    OBVIOUS
  <1>1. list \in Lists /\ this \in Blocks /\ first \in Blocks
    BY DEF SInv, SiftingTypeOK
  <1>2. PICK b \in Blocks : list' = IF Next_(list, b) = NULL THEN list ELSE blockdown(list, b)
    BY DEF RandomMove
  <1>3. list' \in Lists
    <2>1. CASE Next_(list, b) = NULL
      BY <1>1, <1>2, <2>1
    <2>2. CASE Next_(list, b) # NULL
      BY <1>1, <1>2, <2>2, NextPrev, Exchange
    <2>3. QED
      BY <2>1, <2>2
  <1>4. Win3Pass'
    BY DEF RandomMove, Win3Pass
  <1>5. QED
    BY <1>1, <1>3, <1>4, NoWalkStep DEF RandomMove


\* The window of the last two blocks, which win3 exchanges as win2 does.
LEMMA Win3Last ==
  ASSUME SInv, Win3Step, Pos(list, this) + 2 > BlockNum
  PROVE  SInv'
  <1>1. this \in Blocks /\ first \in Blocks /\ first = list[1] /\ list \in Lists
    BY Facts DEF SInv, SiftingTypeOK, Running, Win3Step
  <1>2. Pos(list, this) < BlockNum /\ method = "win3"
    <2>1. Pos(list, this) \in Nat /\ BlockNum \in Nat
      BY <1>1, PosOf, BlockAssumption DEF Blocks
    <2>2. QED
      BY <2>1 DEF Win3Step
  <1>3. IF Undone(list, this) THEN this' = Next_(list, this) /\ UNCHANGED <<list, first>>
        ELSE list' = blockdown(list, this) /\ this' = this /\ first' = HeadOf(Pos(list, this), list', 1)
    BY DEF Win3Step, SwapWin3
  <1>4. list' \in Lists /\ this' \in Blocks /\ first' \in Blocks /\ first' = list'[1]
        /\ setup.size[list'] <= setup.size[list]
    <2>1. CASE Undone(list, this)
      <3>1. Next_(list, this) \in Blocks /\ setup.size[list] \in Nat
        BY <1>1, <1>2, NextPrev, Facts
      <3>2. QED
        BY <2>1, <3>1, <1>1, <1>3
    <2>2. CASE ~Undone(list, this)
      <3>1. list' = blockdown(list, this) /\ this' = this
            /\ first' = IF Pos(list, this) = 1 THEN list'[1] ELSE first
        BY <2>2, <1>3 DEF HeadOf
      <3>2. list' \in Lists /\ (Pos(list, this) # 1 => list'[1] = list[1])
        BY <1>1, <1>2, <3>1, Exchange
      <3>3. list'[1] \in Blocks
        BY <3>2, Facts DEF Lists
      <3>4. setup.size[list'] <= setup.size[list]
        <4>1. ~(setup.size[list] < setup.size[list'])
          BY <2>2, <3>1 DEF Undone, reorder_nodenum
        <4>2. setup.size[list] \in Nat /\ setup.size[list'] \in Nat
          BY Facts, <3>2
        <4>3. QED
          BY <4>1, <4>2
      <3>5. QED
        BY <3>1, <3>2, <3>3, <3>4, <1>1
    <2>3. QED
      BY <2>1, <2>2
  <1>5. Win3Pass'
    BY <1>2 DEF Win3Step, Win3Pass
  <1>6. QED
    BY <1>2, <1>4, <1>5, NoWalkStep DEF Win3Step

\* A window of three goes to its first best order.
LEMMA Win3Full ==
  ASSUME SInv, Win3Step, Pos(list, this) + 2 <= BlockNum
  PROVE  SInv'
  <1> DEFINE i == Pos(list, this)
             w == Window(list, this)
             k == FirstBest(w)
  <1>1. this \in Blocks /\ first \in Blocks /\ first = list[1] /\ list \in Lists /\ i \in Blocks
    BY Facts, PosOf DEF SInv, SiftingTypeOK, Running, Win3Step
  <1>2. ~(i + 2 > BlockNum) /\ i + 1 \in Blocks
    <2> HIDE DEF i
    <2>1. i + 2 <= BlockNum
      BY DEF i
    <2>2. QED
      BY <2>1, <1>1, BlockAssumption DEF Blocks
  <1>3. /\ list' = w[k]
        /\ this' = IF k = 6 THEN this ELSE list'[i + 1]
        /\ first' = HeadOf(i, list', k)
    BY <1>2 DEF Win3Step, SwapWin3
  <1>4. \A m \in 1..6 : w[m] \in Lists /\ (i # 1 => w[m][1] = list[1])
    BY <1>1, WindowLists
  <1>5. w[1] = list /\ w[6][i] = list[i]
    <2>1. 1 \in 1..6
      OBVIOUS
    <2>2. QED
      BY <1>1, <2>1, WindowLists
  <1> HIDE DEF i, w
  <1>6. /\ k \in 1..6
        /\ \A m \in 1..6 : setup.size[w[k]] <= setup.size[w[m]]
        /\ k # 1 => setup.size[w[k]] < setup.size[w[1]]
    BY <1>4, Facts, FirstBestIs
  <1> HIDE DEF k
  <1>7. list' \in Lists /\ (i # 1 => list'[1] = list[1])
    BY <1>3, <1>4, <1>6
  <1>8. this' \in Blocks
    BY <1>1, <1>2, <1>3, <1>7 DEF Lists
  <1>9. first' = list'[1] /\ first' \in Blocks
    <2>1. CASE i = 1 /\ k < 6
      BY <2>1, <1>3, <1>7, Facts DEF HeadOf, Lists
    <2>2. CASE i = 1 /\ k = 6
      BY <2>2, <1>1, <1>3, <1>5 DEF HeadOf
    <2>3. CASE i # 1
      BY <2>3, <1>1, <1>3, <1>7 DEF HeadOf
    <2>4. QED
      BY <2>1, <2>2, <2>3, <1>6
  <1>10. setup.size[list'] <= setup.size[list]
    BY <1>3, <1>5, <1>6, 1 \in 1..6
  <1>11. setup' = setup /\ method' = method /\ lastsize' = lastsize /\ phase = "run"
    BY DEF Win3Step
  <1>12. Win3Pass'
    <2>1. SUFFICES ASSUME method = "win3ite"
                   PROVE  Win3Pass'
      BY <1>11 DEF Win3Pass
    <2>2. /\ setup.size[list] <= lastsize
          /\ setup.size[list] = lastsize =>
               \A j \in 1..(i - 1) : j + 2 <= BlockNum =>
                 \A m \in 1..6 : setup.size[list] <= setup.size[Window(list, list[j])[m]]
      BY <2>1, <1>11 DEF SInv, Running, Win3Pass, reorder_nodenum, i
    <2>3. setup.size[list] \in Nat /\ setup.size[list'] \in Nat /\ lastsize \in Nat
      BY Facts, <1>7 DEF SInv, SiftingTypeOK
    <2>4. CASE k # 1
      <3>1. setup.size[list'] < setup.size[list]
        BY <2>4, <1>3, <1>5, <1>6
      <3>2. setup.size[list'] < lastsize
        BY <3>1, <2>2, <2>3
      <3>3. setup.size[list'] <= lastsize /\ setup.size[list'] # lastsize
        BY <3>2, <2>3
      <3>4. QED
        BY <3>3, <1>11 DEF Win3Pass, reorder_nodenum
    <2>5. CASE k = 1
      <3>1. list' = list /\ this' = list[i + 1]
        BY <2>5, <1>3, <1>5
      <3>2. Pos(list', this') = i + 1
        BY <3>1, <1>1, <1>2, PosIs
      <3>3. \A j \in 1..((i + 1) - 1) : j \in 1..(i - 1) \/ j = i
        BY <1>1 DEF Blocks
      <3>4. \A m \in 1..6 : setup.size[list] <= setup.size[Window(list, list[i])[m]]
        <4>1. list[i] = this
          BY <1>1, PosOf DEF i
        <4>2. QED
          BY <4>1, <2>5, <1>5, <1>6 DEF w
      <3>5. setup.size[list] = lastsize =>
              \A j \in 1..(Pos(list', this') - 1) : j + 2 <= BlockNum =>
                \A m \in 1..6 : setup.size[list] <= setup.size[Window(list, list[j])[m]]
        BY <2>2, <3>2, <3>3, <3>4
      <3>6. QED
        BY <2>2, <3>1, <3>5, <1>11 DEF Win3Pass, reorder_nodenum
    <2>6. QED
      BY <2>4, <2>5
  <1>13. QED
    BY <1>7, <1>8, <1>9, <1>10, <1>12, NoWalkStep DEF Win3Step

LEMMA Win3Keeps == SInv /\ Win3Step => SInv'
  <1> SUFFICES ASSUME SInv, Win3Step
               PROVE  SInv'
    OBVIOUS
  <1>1. Pos(list, this) \in Nat /\ BlockNum \in Nat
    BY PosOf, BlockAssumption DEF Blocks, SInv, SiftingTypeOK
  <1>2. QED
    BY <1>1, Win3Last, Win3Full


LEMMA NotNoWalk ==
  ASSUME NEW w, w.block \in Blocks
  PROVE  w # NoWalk
  <1>1. NoWalk.block = 0
    BY DEF NoWalk, NULL
  <1>2. 0 \notin Blocks
    BY DEF Blocks
  <1>3. QED
    BY <1>1, <1>2

\* The block at the head of the queue starts its walk.
LEMMA SiftNextKeeps == SInv /\ SiftNext => SInv'
  <1> SUFFICES ASSUME SInv, SiftNext
               PROVE  SInv'
    OBVIOUS
  <1> DEFINE b == Head(queue)
             p == Pos(list, b)
  <1>1. /\ phase = "run" /\ phase' = "run" /\ method \in {"sift", "siftite"}
        /\ walk = NoWalk /\ queue # <<>> /\ queue' = Tail(queue)
        /\ list' = list /\ first' = first /\ this' = this /\ lastsize' = lastsize
        /\ method' = method /\ setup' = setup /\ began' = began
    BY DEF SiftNext
  <1>2. walk' = [block |-> b, up |-> p - 1 <= BlockNum \div 2, turn |-> 0,
                 best |-> setup.size[list], bestpos |-> 0, moved |-> FALSE]
    BY DEF SiftNext, reorder_nodenum
  <1>3. queue \in Seq(Blocks) /\ b \in Blocks /\ queue' \in Seq(Blocks)
    BY <1>1 DEF SInv, SiftingTypeOK
  <1>4. p \in Blocks
    BY <1>3, PosOf, Facts
  <1>5. /\ walk'.block = b /\ walk'.turn = 0 /\ walk'.best = setup.size[list]
        /\ walk'.bestpos = 0 /\ ~walk'.moved
    BY <1>2
  <1>6. walk' \in Walk
    <2>1. (p - 1 <= BlockNum \div 2) \in BOOLEAN /\ setup.size[list] \in Nat
      BY Facts
    <2>2. QED
      BY <2>1, <1>2, <1>3 DEF Walk
  <1>7. walk' # NoWalk
    BY <1>3, <1>5, NotNoWalk
  <1>8. SiftingTypeOK'
    BY <1>1, <1>3, <1>6 DEF SInv, SiftingTypeOK
  <1>9. BestPlace' = p
    <2>1. p - 0 = p
      BY <1>4 DEF Blocks
    <2>2. QED
      BY <1>1, <1>5, <2>1 DEF BestPlace
  <1>10. Home = list /\ Home' = list
    <2>1. Home = list
      BY <1>1 DEF Home
    <2>2. Place(list, b, p) = list
      BY <1>3, Facts, PlaceHere
    <2>3. QED
      BY <2>1, <2>2, <1>1, <1>5, <1>7, <1>9 DEF Home
  <1>11. /\ setup.size[list] <= began
         /\ method = "siftite" => setup.size[list] <= lastsize
    BY <1>1, <1>10 DEF SInv, Running, SiftPass, reorder_nodenum
  <1>12. WalkOK'
    <2>1. Line(setup.size, list, b)[p] = setup.size[list]
      BY <1>3, Facts, LineAt
    <2> DEFINE f == Line(setup.size, list, b)
    <2>2. ASSUME NEW max
          PROVE  Sought(walk', f, p, p, max)
      <3>1. p <= p /\ p >= p /\ ~(p > p) /\ \A q \in (p + 1)..p : f[q] <= max
        BY <1>4 DEF Blocks
      <3>2. QED
        BY <3>1, <1>5 DEF Sought
    <2> HIDE DEF f
    <2>3. Sought(walk', Line(setup'.size, list', walk'.block), Pos(list', walk'.block), BestPlace', MaxAllowed(walk.best)')
      BY <2>2, <1>1, <1>5, <1>9 DEF f
    <2>4. QED
      BY <2>1, <2>3, <1>1, <1>4, <1>5, <1>9, <1>11 DEF WalkOK
  <1>13. SiftPass'
    <2>1. Waiting \subseteq Waiting'
      <3>1. \A i \in DOMAIN queue : queue[i] = b \/ \E j \in DOMAIN queue' : queue'[j] = queue[i]
        <4>1. ASSUME NEW i \in DOMAIN queue, i # 1
              PROVE  i - 1 \in DOMAIN queue' /\ queue'[i - 1] = queue[i]
          BY <4>1, <1>1, <1>3
        <4>2. b = queue[1]
          BY <1>1, <1>3
        <4>3. QED
          BY <4>1, <4>2
      <3>2. QED
        BY <3>1, <1>1, <1>5, <1>7 DEF Waiting
    <2>2. QED
      BY <2>1, <1>1, <1>10 DEF SInv, Running, SiftPass, reorder_nodenum
  <1>14. Running'
    BY <1>1, <1>10, <1>11, <1>12, <1>13 DEF SInv, Running, reorder_nodenum, Win3Pass
  <1>15. QED
    BY <1>1, <1>8, <1>14 DEF SInv, ProgressExhausted

\* What a walk has, for the steps of it.
LEMMA WalkFacts ==
  SInv /\ walk # NoWalk =>
    /\ phase = "run" /\ method \in {"sift", "siftite"}
    /\ walk \in Walk /\ walk.block \in Blocks
    /\ Pos(list, walk.block) \in Blocks /\ BestPlace \in Blocks
    /\ Line(setup.size, list, walk.block) \in [Blocks -> Nat]
    /\ Line(setup.size, list, walk.block)[Pos(list, walk.block)] = setup.size[list]
    /\ Line(setup.size, list, walk.block)[BestPlace] = walk.best
    /\ Home = Place(list, walk.block, BestPlace)
    /\ setup.size[Home] = walk.best
  <1> SUFFICES ASSUME SInv, walk # NoWalk
               PROVE  /\ phase = "run" /\ method \in {"sift", "siftite"}
                      /\ walk \in Walk /\ walk.block \in Blocks
                      /\ Pos(list, walk.block) \in Blocks /\ BestPlace \in Blocks
                      /\ Line(setup.size, list, walk.block) \in [Blocks -> Nat]
                      /\ Line(setup.size, list, walk.block)[Pos(list, walk.block)] = setup.size[list]
                      /\ Line(setup.size, list, walk.block)[BestPlace] = walk.best
                      /\ Home = Place(list, walk.block, BestPlace)
                      /\ setup.size[Home] = walk.best
    OBVIOUS
  <1>1. phase = "run" /\ walk \in Walk
    BY DEF SInv, SiftingTypeOK
  <1>2. method \in {"sift", "siftite"} /\ WalkOK
    BY <1>1 DEF SInv, Running
  <1>3. walk.block \in Blocks
    BY <1>1 DEF Walk
  <1>4. BestPlace \in Blocks /\ Line(setup.size, list, walk.block)[BestPlace] = walk.best
    BY <1>2 DEF WalkOK
  <1>5. Pos(list, walk.block) \in Blocks
    BY <1>3, PosOf, Facts
  <1>6. /\ Line(setup.size, list, walk.block) \in [Blocks -> Nat]
        /\ Line(setup.size, list, walk.block)[Pos(list, walk.block)] = setup.size[list]
    BY <1>3, Facts, LineNat, LineAt
  <1>7. Home = Place(list, walk.block, BestPlace)
    BY DEF Home
  <1>8. setup.size[Home] = walk.best
    BY <1>4, <1>7 DEF Line
  <1>9. QED
    BY <1>1, <1>2, <1>3, <1>4, <1>5, <1>6, <1>7, <1>8

\* A step of a walk that takes the block to q, or leaves it, and does not end
\* the walk: f is the way.
LEMMA WalkStep ==
  ASSUME SInv, walk # NoWalk, phase' = "run",
         UNCHANGED <<first, this, lastsize, queue, method, setup, began>>,
         NEW q \in Blocks, list' = Place(list, walk.block, q),
         walk' \in Walk, walk'.block = walk.block,
         BestPlace' \in Blocks,
         walk'.best = Line(setup.size, list, walk.block)[BestPlace'],
         walk'.best <= walk.best,
         walk'.best = walk.best => BestPlace' = BestPlace,
         method = "siftite" /\ setup.limit = 0 /\ walk'.best = lastsize =>
           Sought(walk', Line(setup.size, list, walk.block), q, BestPlace, MaxAllowed(walk.best))
  PROVE  SInv'
  <1> DEFINE b == walk.block
             f == Line(setup.size, list, b)
             g == Line(setup.size, list', b)
  <1>1. /\ phase = "run" /\ method \in {"sift", "siftite"}
        /\ walk \in Walk /\ b \in Blocks
        /\ Home = Place(list, b, BestPlace) /\ BestPlace \in Blocks
        /\ setup.size[Home] = walk.best
    BY WalkFacts
  <1>2. list' \in Lists /\ Pos(list', b) = q
    <2> HIDE DEF b
    <2>1. list \in Lists /\ b \in Blocks
      BY <1>1, Facts
    <2>2. Place(list, b, q) \in Lists /\ Pos(Place(list, b, q), b) = q
      BY <2>1, PlaceList
    <2>3. list' = Place(list, b, q)
      BY DEF b
    <2>4. QED
      BY <2>2, <2>3
  <1>3. walk' # NoWalk
    <2>1. walk'.block \in Blocks
      BY <1>1
    <2>2. QED
      BY <2>1, NotNoWalk
  <1>4. SiftingTypeOK'
    BY <1>1, <1>2 DEF SInv, SiftingTypeOK
  <1>5. g = f
    BY <1>1, LineSame, Facts
  <1>6. Home' = Place(list, b, BestPlace')
    <2>1. Home' = Place(list', b, BestPlace')
      BY <1>3 DEF Home
    <2>2. QED
      BY <2>1, <1>1, PlaceTwice, Facts
  <1>7. setup.size[Home'] = walk'.best
    BY <1>6 DEF Line
  <1>8. walk'.best \in Nat /\ walk.best \in Nat /\ began \in Nat /\ lastsize \in Nat
    BY <1>1 DEF Walk, SInv, SiftingTypeOK
  <1>9. walk'.best <= began /\ (method = "siftite" => walk'.best <= lastsize)
    <2>1. walk.best <= began /\ (method = "siftite" => walk.best <= lastsize)
      BY <1>1 DEF SInv, Running, WalkOK
    <2>2. QED
      BY <2>1, <1>8
  <1>10. method = "siftite" /\ walk'.best = lastsize =>
           /\ walk.best = lastsize /\ BestPlace' = BestPlace
    <2>1. method = "siftite" => walk.best <= lastsize
      BY <1>1 DEF SInv, Running, WalkOK
    <2>2. QED
      BY <2>1, <1>8
  <1>11. WalkOK'
    <2>1. f[BestPlace'] = walk'.best
      OBVIOUS
    <2>2. method = "siftite" /\ setup.limit = 0 /\ walk'.best = lastsize =>
            Sought(walk', f, q, BestPlace', MaxAllowed(walk.best)')
      <3>1. MaxAllowed(walk.best)' = IF setup.limit > 0 /\ setup.limit < walk'.best + walk'.best \div 5
                                      THEN setup.limit ELSE walk'.best + walk'.best \div 5
        BY DEF MaxAllowed
      <3>2. walk'.best = walk.best => MaxAllowed(walk.best)' = MaxAllowed(walk.best)
        BY <3>1 DEF MaxAllowed
      <3>3. QED
        BY <3>2, <1>10
    <2>3. /\ Line(setup'.size, list', walk'.block) = f
          /\ Pos(list', walk'.block) = q
      BY <1>2, <1>5
    <2> HIDE DEF f, g, b
    <2>4. QED
      BY <2>1, <2>2, <2>3, <1>9 DEF WalkOK
  <1>12. SiftPass'
    <2>1. Waiting' = Waiting
      BY <1>3 DEF Waiting
    <2>2. method = "siftite" /\ setup.limit = 0 /\ setup.size[Home'] = lastsize =>
            \A c \in Blocks \ Waiting : NoGain(setup.size, Home', c)
      <3>1. method = "siftite" /\ setup.size[Home'] = lastsize => Home' = Home
        BY <1>1, <1>6, <1>7, <1>10
      <3>2. QED
        BY <3>1, <1>1 DEF SInv, Running, SiftPass, reorder_nodenum
    <2>3. QED
      BY <2>1, <2>2, <1>7, <1>9 DEF SiftPass, reorder_nodenum
  <1>13. Running'
    BY <1>1, <1>7, <1>9, <1>11, <1>12 DEF SInv, Running, reorder_nodenum, Win3Pass
  <1>14. QED
    BY <1>4, <1>13 DEF SInv, ProgressExhausted


\* An exchange with the block before or behind takes the block to the next place.
LEMMA MovedIs ==
  ASSUME SInv, walk # NoWalk, NEW up \in BOOLEAN,
         NEW q \in Blocks, q = IF up THEN Pos(list, walk.block) - 1 ELSE Pos(list, walk.block) + 1
  PROVE  Moved(up) = Place(list, walk.block, q)
  <1> DEFINE b == walk.block
             p == Pos(list, b)
  <1>1. b \in Blocks /\ list \in Lists /\ p \in Blocks
    BY WalkFacts, Facts
  <1>2. /\ p < BlockNum => Place(list, b, p + 1) = blockdown(list, b)
        /\ p > 1 => Place(list, b, p - 1) = blockdown(list, Prev(list, b))
    BY <1>1, PlaceNext
  <1>3. Moved(up) = IF up THEN blockdown(list, Prev(list, b)) ELSE blockdown(list, b)
    BY DEF Moved
  <1>4. q = IF up THEN p - 1 ELSE p + 1
    OBVIOUS
  <1> HIDE DEF b, p
  <1>5. IF up THEN p > 1 ELSE p < BlockNum
    BY <1>1, <1>4, BlockAssumption DEF Blocks
  <1>6. QED
    BY <1>2, <1>3, <1>4, <1>5 DEF b

LEMMA SiftMoveKeeps == SInv /\ SiftMove => SInv'
  <1> SUFFICES ASSUME SInv, SiftMove
               PROVE  SInv'
    OBVIOUS
  <1> DEFINE b == walk.block
             p == Pos(list, b)
             h == BestPlace
             f == Line(setup.size, list, b)
             q == IF walk.up THEN p - 1 ELSE p + 1
             step == IF walk.up THEN -1 ELSE 1
  <1>1. /\ walk # NoWalk /\ walk.turn < 2 /\ CanMove /\ list' = Moved(walk.up) /\ phase' = "run"
        /\ UNCHANGED <<first, this, lastsize, queue, method, setup, began>>
    BY DEF SiftMove
  <1>2. /\ walk \in Walk /\ b \in Blocks /\ p \in Blocks /\ h \in Blocks
        /\ f \in [Blocks -> Nat] /\ f[p] = setup.size[list] /\ f[h] = walk.best
    BY <1>1, WalkFacts
  <1>3. /\ walk.up \in BOOLEAN /\ walk.moved \in BOOLEAN /\ walk.best \in Nat
        /\ walk.bestpos \in Int /\ walk.turn \in 0..2
    BY <1>2 DEF Walk
  <1>4. h = p - walk.bestpos
    BY DEF BestPlace
  <1>5. ~walk.moved \/ f[p] <= MaxAllowed(walk.best)
    BY <1>1, <1>2 DEF CanMove, reorder_nodenum
  <1>6. q \in Blocks
    <2>1. IF walk.up THEN p > 1 ELSE p < BlockNum
      BY <1>1, <1>2, Facts, NextPrev DEF CanMove
    <2> HIDE DEF p
    <2>2. QED
      BY <2>1, <1>2, <1>3, BlockAssumption DEF Blocks
  <1>7. list' = Place(list, b, q)
    BY <1>1, <1>3, <1>6, MovedIs
  <1>8. setup.size[list'] = f[q]
    BY <1>6, <1>7 DEF Line
  <1>9. walk' = [walk EXCEPT !.moved = TRUE,
                             !.bestpos = IF f[q] < walk.best THEN 0 ELSE walk.bestpos + step,
                             !.best = IF f[q] < walk.best THEN f[q] ELSE walk.best]
    <2>1. walk' = [walk EXCEPT !.moved = TRUE,
                               !.bestpos = Bestpos(list', step),
                               !.best = IF reorder_nodenum(list') < @ THEN reorder_nodenum(list') ELSE @]
      BY DEF SiftMove
    <2>2. reorder_nodenum(list') = f[q]
      BY <1>8 DEF reorder_nodenum
    <2> HIDE DEF f, q, step
    <2>3. Bestpos(list', step) = IF f[q] < walk.best THEN 0 ELSE walk.bestpos + step
      BY <2>2 DEF Bestpos
    <2>4. QED
      BY <2>1, <2>2, <2>3
  <1> HIDE DEF f, b, step
  <1>10. /\ walk'.block = b /\ walk'.up = walk.up /\ walk'.turn = walk.turn /\ walk'.moved
         /\ walk'.best = IF f[q] < walk.best THEN f[q] ELSE walk.best
         /\ walk'.bestpos = IF f[q] < walk.best THEN 0 ELSE walk.bestpos + step
    BY <1>2, <1>9 DEF b, Walk
  <1>11. f[q] \in Nat
    BY <1>2, <1>6
  <1>12. walk' \in Walk
    <2>1. (IF f[q] < walk.best THEN 0 ELSE walk.bestpos + step) \in Int
      BY <1>3 DEF step
    <2>2. (IF f[q] < walk.best THEN f[q] ELSE walk.best) \in Nat
      BY <1>3, <1>11
    <2>3. \A x \in Int, y \in Nat : [walk EXCEPT !.moved = TRUE, !.bestpos = x, !.best = y] \in Walk
      BY <1>2 DEF Walk
    <2>4. QED
      BY <2>1, <2>2, <2>3, <1>9
  <1>13. Pos(list', b) = q
    <2>1. list \in Lists /\ b \in Blocks /\ q \in Blocks /\ list' = Place(list, b, q)
      BY <1>2, <1>6, <1>7, Facts
    <2> HIDE DEF q
    <2>2. QED
      BY <2>1, PlaceList
  <1>14. BestPlace' = IF f[q] < walk.best THEN q ELSE h
    <2>1. BestPlace' = q - walk'.bestpos
      BY <1>10, <1>13 DEF BestPlace
    <2> HIDE DEF p, h
    <2>2. p \in Int /\ walk.bestpos \in Int
      BY <1>2, <1>3 DEF Blocks
    <2>3. q - 0 = q /\ q - (walk.bestpos + step) = p - walk.bestpos
      BY <2>2 DEF step
    <2>4. QED
      BY <2>1, <2>3, <1>4, <1>10
  <1> HIDE DEF p, h, q
  <1>15. method = "siftite" /\ setup.limit = 0 /\ walk'.best = lastsize =>
           Sought(walk', f, q, h, MaxAllowed(walk.best))
    <2>1. SUFFICES ASSUME method = "siftite", setup.limit = 0, walk'.best = lastsize
                   PROVE  Sought(walk', f, q, h, MaxAllowed(walk.best))
      OBVIOUS
    <2>2. WalkOK
      BY <1>1 DEF SiftMove, SInv, Running
    <2>3. walk.best <= lastsize /\ lastsize \in Nat
      BY <2>1, <2>2, <1>1 DEF WalkOK, SInv, SiftingTypeOK
    <2>4. walk.best <= f[q] /\ walk'.best = walk.best /\ walk.best = lastsize
      BY <2>1, <2>3, <1>3, <1>10, <1>11
    <2>5. Sought(walk, f, p, h, MaxAllowed(walk.best))
      BY <2>1, <2>2, <2>4, <1>1 DEF WalkOK, f, b, p, h
    <2>6. MaxAllowed(walk.best) \in Nat /\ walk.best <= MaxAllowed(walk.best)
      BY <2>1, <1>3 DEF MaxAllowed
    <2>7. q = IF walk.up THEN p - 1 ELSE p + 1
      BY DEF q
    <2> DEFINE max == MaxAllowed(walk.best)
    <2> HIDE DEF max
    <2>8. QED
      <3>1. max \in Nat /\ walk.best <= max /\ Sought(walk, f, p, h, max) /\ (~walk.moved \/ f[p] <= max)
        BY <2>5, <2>6, <1>5 DEF max
      <3>2. Sought(walk', f, q, h, max)
        BY <3>1, <2>4, <2>7, <1>1, <1>2, <1>6, <1>10, <1>12, SoughtMove
      <3>3. QED
        BY <3>2 DEF max
  <1>16. walk'.best = f[BestPlace'] /\ BestPlace' \in Blocks /\ walk'.best <= walk.best
         /\ (walk'.best = walk.best => BestPlace' = BestPlace)
    BY <1>2, <1>3, <1>6, <1>10, <1>11, <1>14 DEF h
  <1>17. QED
    BY <1>1, <1>6, <1>7, <1>10, <1>12, <1>15, <1>16, WalkStep DEF f, b, h

LEMMA SiftTurnKeeps == SInv /\ SiftTurn => SInv'
  <1> SUFFICES ASSUME SInv, SiftTurn
               PROVE  SInv'
    OBVIOUS
  <1> DEFINE b == walk.block
             p == Pos(list, b)
             h == BestPlace
             f == Line(setup.size, list, b)
             max == MaxAllowed(walk.best)
  <1>1. /\ walk # NoWalk /\ walk.turn < 2 /\ ~CanMove /\ list' = list /\ phase' = "run"
        /\ UNCHANGED <<first, this, lastsize, queue, method, setup, began>>
        /\ walk' = [walk EXCEPT !.turn = @ + 1, !.up = ~@, !.moved = FALSE]
    BY DEF SiftTurn
  <1>2. /\ walk \in Walk /\ b \in Blocks /\ p \in Blocks /\ h \in Blocks
        /\ f \in [Blocks -> Nat] /\ f[p] = setup.size[list] /\ f[h] = walk.best
    BY <1>1, WalkFacts
  <1>3. /\ walk.up \in BOOLEAN /\ walk.moved \in BOOLEAN /\ walk.best \in Nat
        /\ walk.bestpos \in Int /\ walk.turn \in 0..2
    BY <1>2 DEF Walk
  <1>4. walk' \in Walk
    <2>1. walk.turn + 1 \in 0..2
      BY <1>1, <1>3
    <2>2. \A x \in 0..2, y \in BOOLEAN : [walk EXCEPT !.turn = x, !.up = y, !.moved = FALSE] \in Walk
      BY <1>2 DEF Walk
    <2>3. (~walk.up) \in BOOLEAN
      BY Zenon
    <2>4. QED
      BY <2>1, <2>2, <2>3, <1>1
  <1>5. /\ walk'.block = b /\ (walk'.up <=> ~walk.up) /\ walk'.turn = walk.turn + 1 /\ ~walk'.moved
        /\ walk'.best = walk.best /\ walk'.bestpos = walk.bestpos
    BY <1>1, <1>2 DEF Walk
  <1>6. list' = Place(list, b, p)
    BY <1>1, <1>2, PlaceHere, Facts
  <1>7. BestPlace' = h
    BY <1>1, <1>5 DEF BestPlace
  <1>8. ~walk.up => p = BlockNum \/ (walk.moved /\ f[p] > max)
    <2>1. ~walk.up => Next_(list, b) = NULL \/ (walk.moved /\ ~(setup.size[list] <= max))
      BY <1>1 DEF CanMove, reorder_nodenum
    <2>2. Next_(list, b) = NULL => p = BlockNum
      <3>1. Next_(list, b) # NULL <=> p < BlockNum
        BY <1>2, Facts, NextPrev
      <3> HIDE DEF p
      <3>2. QED
        BY <3>1, <1>2, BlockAssumption DEF Blocks
    <2>3. max \in Int /\ f[p] \in Int
      BY <1>2, <1>3, Facts DEF MaxAllowed
    <2>4. QED
      BY <2>1, <2>2, <2>3, <1>2
  <1>9. method = "siftite" /\ setup.limit = 0 /\ walk'.best = lastsize => Sought(walk', f, p, h, max)
    <2>1. SUFFICES ASSUME method = "siftite", setup.limit = 0, walk'.best = lastsize
                   PROVE  Sought(walk', f, p, h, max)
      OBVIOUS
    <2>2. WalkOK
      BY <1>1 DEF SiftTurn, SInv, Running
    <2>3. Sought(walk, f, p, h, max)
      BY <2>1, <2>2, <1>1, <1>5 DEF WalkOK
    <2>4. max \in Nat
      BY <2>1, <1>3 DEF MaxAllowed
    <2>5. walk.turn < 2
      BY <1>1
    <2> HIDE DEF f, p, h, max, b
    <2>6. QED
      BY <2>3, <2>4, <2>5, <1>2, <1>4, <1>5, <1>8, SoughtTurn
  <1>10. walk'.best = f[BestPlace'] /\ BestPlace' \in Blocks /\ walk'.best <= walk.best
    BY <1>2, <1>3, <1>5, <1>7
  <1>11. QED
    BY <1>1, <1>2, <1>4, <1>5, <1>6, <1>7, <1>9, <1>10, WalkStep


\* On the way back nothing is sought.
LEMMA SoughtOver ==
  ASSUME NEW w, NEW f, NEW p, NEW h, NEW max, w.turn = 2, Sought(w, f, p, h, max)
  PROVE  /\ h < BlockNum => w.best <= f[h + 1]
         /\ \A w2, q : w2.turn = 2 /\ w2.best = w.best => Sought(w2, f, q, h, max)
  <1>1. /\ ~(w.turn = 0 /\ w.up) /\ ~(w.turn = 0 /\ ~w.up) /\ ~(w.turn = 1 /\ ~w.up)
    OBVIOUS
  <1>2. h < BlockNum => w.best <= f[h + 1]
    BY <1>1 DEF Sought
  <1>3. ASSUME NEW w2, NEW q, w2.turn = 2 /\ w2.best = w.best
        PROVE  Sought(w2, f, q, h, max)
    <2>1. ~(w2.turn = 0 /\ w2.up) /\ ~(w2.turn = 0 /\ ~w2.up) /\ ~(w2.turn = 1 /\ ~w2.up)
      BY <1>3
    <2>2. h < BlockNum => w2.best <= f[h + 1]
      BY <1>2, <1>3
    <2>3. QED
      BY <2>1, <2>2 DEF Sought
  <1>4. QED
    BY <1>2, <1>3

LEMMA SiftBackGoes ==
  ASSUME SInv, SiftBack, walk.bestpos # 0
  PROVE  SInv'
  <1> DEFINE b == walk.block
             p == Pos(list, b)
             h == BestPlace
             f == Line(setup.size, list, b)
             up == walk.bestpos > 0
             q == IF up THEN p - 1 ELSE p + 1
             max == MaxAllowed(walk.best)
  <1>1. /\ walk # NoWalk /\ walk.turn = 2 /\ list' = Moved(up) /\ phase' = "run" /\ phase = "run"
        /\ UNCHANGED <<first, this, lastsize, queue, method, setup, began>>
        /\ walk' = [walk EXCEPT !.bestpos = IF up THEN @ - 1 ELSE @ + 1]
    BY DEF SiftBack
  <1>2. /\ walk \in Walk /\ b \in Blocks /\ p \in Blocks /\ h \in Blocks /\ f[h] = walk.best
    BY <1>1, WalkFacts
  <1>3. walk.best \in Nat /\ walk.bestpos \in Int /\ up \in BOOLEAN
    BY <1>2 DEF Walk
  <1>4. h = p - walk.bestpos
    BY DEF BestPlace
  <1>5. q \in Blocks
    <2> HIDE DEF p, h
    <2>1. QED
      BY <1>2, <1>3, <1>4, BlockAssumption DEF Blocks
  <1>6. list' = Place(list, b, q)
    <2>1. q = IF up THEN p - 1 ELSE p + 1
      OBVIOUS
    <2> HIDE DEF q, up
    <2>2. QED
      BY <2>1, <1>1, <1>3, <1>5, MovedIs
  <1>7. walk' \in Walk
    <2>1. (IF up THEN walk.bestpos - 1 ELSE walk.bestpos + 1) \in Int
      BY <1>3
    <2>2. QED
      BY <2>1, <1>1, <1>2 DEF Walk
  <1>8. /\ walk'.block = b /\ walk'.turn = 2 /\ walk'.best = walk.best
        /\ walk'.bestpos = IF up THEN walk.bestpos - 1 ELSE walk.bestpos + 1
    BY <1>1, <1>2 DEF Walk
  <1>9. Pos(list', b) = q
    <2>1. list \in Lists /\ b \in Blocks /\ q \in Blocks /\ list' = Place(list, b, q)
      BY <1>2, <1>5, <1>6, Facts
    <2> HIDE DEF q
    <2>2. QED
      BY <2>1, PlaceList
  <1>10. BestPlace' = h
    <2>1. BestPlace' = q - walk'.bestpos
      BY <1>8, <1>9 DEF BestPlace
    <2> HIDE DEF p, h
    <2>2. p \in Int
      BY <1>2 DEF Blocks
    <2>3. q - walk'.bestpos = p - walk.bestpos
      BY <2>2, <1>3, <1>8
    <2>4. QED
      BY <2>1, <2>3, <1>4
  <1>11. method = "siftite" /\ setup.limit = 0 /\ walk'.best = lastsize => Sought(walk', f, q, h, max)
    <2>1. SUFFICES ASSUME method = "siftite", setup.limit = 0, walk'.best = lastsize
                   PROVE  Sought(walk', f, q, h, max)
      OBVIOUS
    <2>2. WalkOK
      BY <1>1 DEF SInv, Running
    <2>3. Sought(walk, f, p, h, max)
      BY <2>1, <2>2, <1>1, <1>8 DEF WalkOK
    <2> HIDE DEF f, p, h, max, b, q
    <2>4. \A w2, r : w2.turn = 2 /\ w2.best = walk.best => Sought(w2, f, r, h, max)
      BY <2>3, <1>1, SoughtOver
    <2>5. QED
      BY <2>4, <1>8
  <1>12. walk'.best = f[BestPlace'] /\ BestPlace' \in Blocks /\ walk'.best <= walk.best
    BY <1>2, <1>3, <1>8, <1>10
  <1> HIDE DEF q, up
  <1>13. QED
    BY <1>1, <1>5, <1>6, <1>7, <1>8, <1>10, <1>11, <1>12, WalkStep

\* The block is back at its best place: it has been sought, and stays.
LEMMA SiftBackEnds ==
  ASSUME SInv, SiftBack, walk.bestpos = 0
  PROVE  SInv'
  <1> DEFINE b == walk.block
             p == Pos(list, b)
             f == Line(setup.size, list, b)
  <1>1. /\ walk # NoWalk /\ walk.turn = 2 /\ walk' = NoWalk /\ phase' = "run" /\ phase = "run"
        /\ UNCHANGED <<list, first, this, lastsize, queue, method, setup, began>>
    BY DEF SiftBack
  <1>2. /\ walk \in Walk /\ b \in Blocks /\ p \in Blocks
        /\ method \in {"sift", "siftite"}
        /\ f[p] = setup.size[list] /\ f[BestPlace] = walk.best
        /\ Home = Place(list, b, BestPlace)
    BY <1>1, WalkFacts
  <1>3. BestPlace = p
    <2>1. p - 0 = p
      BY <1>2 DEF Blocks
    <2>2. QED
      BY <2>1 DEF BestPlace
  <1>4. Home = list /\ Home' = list
    <2>1. Place(list, b, p) = list
      BY <1>2, PlaceHere, Facts
    <2>2. QED
      BY <2>1, <1>1, <1>2, <1>3 DEF Home
  <1>5. SiftingTypeOK'
    BY <1>1 DEF SInv, SiftingTypeOK
  <1>6. WalkOK'
    BY <1>1 DEF WalkOK
  <1>7. SiftPass'
    <2>1. SUFFICES ASSUME method = "siftite"
                   PROVE  SiftPass'
      BY <1>1 DEF SiftPass
    <2>2. /\ setup.size[list] <= lastsize
          /\ setup.limit = 0 /\ setup.size[list] = lastsize =>
               \A c \in Blocks \ Waiting : NoGain(setup.size, list, c)
      BY <2>1, <1>1, <1>4 DEF SInv, Running, SiftPass, reorder_nodenum
    <2>3. Waiting \subseteq Waiting' \cup {b}
      BY <1>1 DEF Waiting
    <2>4. setup.limit = 0 /\ setup.size[list] = lastsize => NoGain(setup.size, list, b)
      <3>1. SUFFICES ASSUME setup.limit = 0, setup.size[list] = lastsize, p < BlockNum
                     PROVE  setup.size[list] <= setup.size[blockdown(list, b)]
        BY DEF NoGain
      <3>2. walk.best = lastsize
        BY <3>1, <1>2, <1>3
      <3>3. Sought(walk, f, p, p, MaxAllowed(walk.best))
        BY <2>1, <3>1, <3>2, <1>1, <1>3 DEF SInv, Running, WalkOK
      <3>4. p + 1 \in Blocks
        <4> HIDE DEF p
        <4>1. QED
          BY <3>1, <1>2, BlockAssumption DEF Blocks
      <3>5. f[p + 1] = setup.size[blockdown(list, b)]
        <4>1. Place(list, b, p + 1) = blockdown(list, b)
          BY <3>1, <1>2, PlaceNext, Facts
        <4>2. QED
          BY <4>1, <3>4 DEF Line
      <3> HIDE DEF f, p
      <3>6. walk.best <= f[p + 1]
        BY <3>1, <3>3, <1>1, SoughtOver
      <3>7. QED
        BY <3>2, <3>5, <3>6, <3>1
    <2>5. QED
      BY <2>2, <2>3, <2>4, <1>1, <1>4 DEF SiftPass, reorder_nodenum
  <1>8. Running'
    BY <1>1, <1>2, <1>4, <1>6, <1>7 DEF SInv, Running, reorder_nodenum, Win3Pass
  <1>9. QED
    BY <1>1, <1>5, <1>8 DEF SInv, ProgressExhausted

LEMMA SiftBackKeeps == SInv /\ SiftBack => SInv'
  BY SiftBackGoes, SiftBackEnds


\* A pass begins: nothing is known, and every block waits.
LEMMA PassBegins ==
  ASSUME SInv, phase' = "run", walk = NoWalk, method' \in AllMethods, this' \in Blocks,
         UNCHANGED <<list, walk, setup>>,
         lastsize' = setup.size[list], began' \in Nat,
         method' # "random" => setup.size[list] <= began',
         first' \in Blocks,
         method' \in {"win2", "win2ite", "win3", "win3ite"} => first' = list[1],
         method' = "win3ite" => this' = list[1],
         method' = "siftite" => queue' \in Lists,
         queue' \in Lists \cup {<<>>},
         method' \notin {"sift", "siftite"} => queue' = <<>>
  PROVE  SInv'
  <1>1. queue' \in Seq(Blocks)
    <2>1. ASSUME NEW l \in Lists
          PROVE  l \in Seq(Blocks)
      <3>1. BlockNum \in Nat /\ l \in [1..BlockNum -> Blocks]
        BY BlockAssumption DEF Lists, Blocks
      <3>2. QED
        BY <3>1, SeqDef
    <2>2. <<>> \in Seq(Blocks)
      OBVIOUS
    <2>3. queue' \in Lists \/ queue' = <<>>
      OBVIOUS
    <2>4. QED
      BY <2>1, <2>2, <2>3
  <1>2. SiftingTypeOK'
    BY <1>1, Facts DEF SInv, SiftingTypeOK, AllMethods
  <1>3. Home' = list /\ setup.size[list] \in Nat
    BY Facts DEF Home
  <1>4. WalkOK'
    BY DEF WalkOK
  <1>5. SiftPass'
    <2>1. method' = "siftite" => \A c \in Blocks : c \in Waiting'
      <3>1. ASSUME method' = "siftite", NEW c \in Blocks
            PROVE  c \in Waiting'
        <4>1. queue' \in Lists
          BY <3>1
        <4>2. Pos(queue', c) \in Blocks /\ queue'[Pos(queue', c)] = c
          BY <4>1, PosOf
        <4>3. DOMAIN queue' = Blocks
          BY <4>1 DEF Lists
        <4>4. QED
          BY <4>2, <4>3 DEF Waiting
      <3>2. QED
        BY <3>1
    <2>2. QED
      BY <2>1, <1>3 DEF SiftPass, reorder_nodenum
  <1>6. Win3Pass'
    <2>1. method' = "win3ite" => Pos(list, this') = 1
      BY PosIs, Facts
    <2>2. 1..(1 - 1) = {}
      OBVIOUS
    <2>3. QED
      BY <2>1, <2>2, <1>3 DEF Win3Pass, reorder_nodenum
  <1>7. Running'
    BY <1>3, <1>4, <1>5, <1>6 DEF Running, reorder_nodenum, AllMethods
  <1>8. QED
    BY <1>2, <1>7 DEF SInv, ProgressExhausted

LEMMA StartKeeps ==
  ASSUME SInv, NEW m \in Methods, Start(m)
  PROVE  SInv'
  <1>1. /\ phase = "idle" /\ method' = m /\ phase' = "run"
        /\ this' = list[1] /\ first' = list[1]
        /\ lastsize' = setup.size[list] /\ began' = setup.size[list]
        /\ UNCHANGED <<list, walk, setup>>
        /\ \/ m \in {"sift", "siftite"} /\ queue' \in Lists
           \/ m \notin {"sift", "siftite"} /\ queue' = <<>>
    BY DEF Start, reorder_nodenum
  <1>2. walk = NoWalk
    BY <1>1 DEF SInv
  <1>3. m \in AllMethods
    BY MethodAssumption
  <1>4. list[1] \in Blocks /\ setup.size[list] \in Nat
    BY Facts
  <1>5. setup.size[list] <= setup.size[list]
    BY <1>4
  <1>6. QED
    BY <1>1, <1>2, <1>3, <1>4, <1>5, PassBegins

LEMMA NextPassKeeps == SInv /\ NextPass => SInv'
  <1> SUFFICES ASSUME SInv, NextPass
               PROVE  SInv'
    OBVIOUS
  <1>1. /\ phase = "run" /\ phase' = "run" /\ PassOver
        /\ method \in {"win2ite", "win3ite", "siftite"}
        /\ lastsize' = setup.size[list]
        /\ this' = IF method = "win2ite" THEN 1 ELSE first
        /\ queue' \in IF method = "siftite" THEN Lists ELSE {<<>>}
        /\ UNCHANGED <<list, first, walk, method, setup, began>>
    BY DEF NextPass, Repeated, reorder_nodenum
  <1>2. walk = NoWalk
    <2>1. method = "siftite" => walk = NoWalk
      BY <1>1 DEF PassOver
    <2>2. QED
      BY <2>1, <1>1 DEF SInv, Running
  <1>3. method \in AllMethods /\ first \in Blocks /\ began \in Nat
    BY <1>1 DEF SInv, SiftingTypeOK, Running
  <1>4. setup.size[list] <= began /\ (method \in {"win2ite", "win3ite"} => first = list[1])
    BY <1>1, <1>2 DEF SInv, Running, Home, reorder_nodenum
  <1>5. this' \in Blocks
    BY <1>1, <1>3, Facts
  <1>6. QED
    BY <1>1, <1>2, <1>3, <1>4, <1>5, PassBegins

LEMMA EndKeeps == SInv /\ End => SInv'
  <1> SUFFICES ASSUME SInv, End
               PROVE  SInv'
    OBVIOUS
  <1>1. /\ phase = "run" /\ phase' = "done" /\ PassOver /\ ~Repeated
        /\ first' = IF method \in {"sift", "siftite", "random"} THEN list[1] ELSE first
        /\ UNCHANGED <<list, this, lastsize, queue, walk, method, setup, began>>
    BY DEF End
  <1>2. method \in AllMethods /\ first \in Blocks /\ list \in Lists /\ this \in Blocks
    BY <1>1 DEF SInv, SiftingTypeOK, Running
  <1>3. walk = NoWalk
    <2>1. method \in {"sift", "siftite"} => walk = NoWalk
      BY <1>1 DEF PassOver
    <2>2. QED
      BY <2>1, <1>1 DEF SInv, Running
  <1>4. SiftingTypeOK'
    BY <1>1, <1>2, Facts DEF SInv, SiftingTypeOK
  <1>5. first' = list[1]
    BY <1>1, <1>2 DEF SInv, Running, AllMethods
  <1>6. method # "random" => setup.size[list] <= began
    BY <1>1, <1>3 DEF SInv, Running, Home, reorder_nodenum
  <1>7. method \in {"win3ite", "siftite"} => setup.size[list] = lastsize
    BY <1>1 DEF Repeated, reorder_nodenum
  <1>8. ASSUME method = "siftite", setup.limit = 0, NEW l \in Neighbours(list)
        PROVE  setup.size[list] <= setup.size[l]
    <2>1. PICK b \in Blocks : Next_(list, b) # NULL /\ l = blockdown(list, b)
      BY <1>8 DEF Neighbours
    <2>2. Waiting = {}
      BY <1>1, <1>3, <1>8 DEF Waiting, PassOver
    <2>3. NoGain(setup.size, list, b)
      BY <2>2, <1>1, <1>3, <1>7, <1>8 DEF SInv, Running, SiftPass, Home, reorder_nodenum
    <2>4. Pos(list, b) < BlockNum
      BY <2>1, <1>2, NextPrev
    <2>5. QED
      BY <2>1, <2>3, <2>4 DEF NoGain
  <1>9. ASSUME method = "win3ite", NEW b \in Blocks, Pos(list, b) + 2 <= BlockNum, NEW k \in 1..6
        PROVE  setup.size[list] <= setup.size[Window(list, b)[k]]
    <2>1. Pos(list, this) >= BlockNum - 1
      BY <1>1, <1>9 DEF PassOver
    <2>2. Pos(list, b) \in Blocks /\ list[Pos(list, b)] = b /\ Pos(list, this) \in Blocks
      BY <1>2, PosOf
    <2> DEFINE i == Pos(list, b)
               j == Pos(list, this)
    <2>3. \A c \in 1..(j - 1) : c + 2 <= BlockNum =>
            \A m \in 1..6 : setup.size[list] <= setup.size[Window(list, list[c])[m]]
      BY <1>1, <1>7, <1>9 DEF SInv, Running, Win3Pass, reorder_nodenum
    <2>4. i + 2 <= BlockNum
      BY <1>9
    <2> HIDE DEF i, j
    <2>5. i \in 1..(j - 1)
      BY <2>1, <2>2, <2>4, BlockAssumption DEF Blocks, i, j
    <2>6. list[i] = b
      BY <2>2 DEF i
    <2>7. QED
      BY <2>3, <2>4, <2>5, <2>6
  <1>10. ProgressExhausted'
    <2>1. Neighbours(list)' = Neighbours(list)
      BY <1>1 DEF Neighbours
    <2>2. QED
      BY <2>1, <1>1, <1>5, <1>6, <1>8, <1>9 DEF ProgressExhausted, reorder_nodenum
  <1>11. QED
    BY <1>1, <1>3, <1>4, <1>10 DEF SInv, Running

LEMMA SInvInit == InitSifting => SInv
  <1> SUFFICES ASSUME InitSifting
               PROVE  SInv
    OBVIOUS
  <1>1. list \in Lists /\ 1 \in Blocks
    BY BlockAssumption DEF InitSifting, Lists, Blocks
  <1>2. SiftingTypeOK
    BY <1>1 DEF InitSifting, SiftingTypeOK
  <1>3. QED
    BY <1>2 DEF InitSifting, SInv, Running, ProgressExhausted

LEMMA SInvStutters == SInv /\ UNCHANGED vars => SInv'
  <1> SUFFICES ASSUME SInv, UNCHANGED vars
               PROVE  SInv'
    OBVIOUS
  <1>1. /\ list' = list /\ first' = first /\ this' = this /\ lastsize' = lastsize /\ queue' = queue
        /\ walk' = walk /\ method' = method /\ phase' = phase /\ setup' = setup /\ began' = began
    BY DEF vars
  <1>2. SiftingTypeOK'
    BY <1>1 DEF SInv, SiftingTypeOK
  <1>3. Home' = Home /\ BestPlace' = BestPlace /\ Waiting' = Waiting
        /\ MaxAllowed(walk.best)' = MaxAllowed(walk.best)
    BY <1>1 DEF Home, BestPlace, Waiting, MaxAllowed
  <1>4. phase = "run" => WalkOK' /\ SiftPass' /\ Win3Pass'
    <2>1. phase = "run" => WalkOK'
      BY <1>1, <1>3 DEF SInv, Running, WalkOK
    <2>2. phase = "run" => SiftPass'
      BY <1>1, <1>3 DEF SInv, Running, SiftPass, reorder_nodenum
    <2>3. phase = "run" => Win3Pass'
      BY <1>1 DEF SInv, Running, Win3Pass, reorder_nodenum
    <2>4. QED
      BY <2>1, <2>2, <2>3
  <1>5. Running'
    BY <1>1, <1>3, <1>4 DEF SInv, Running, reorder_nodenum
  <1>6. ProgressExhausted'
    <2>1. Neighbours(list)' = Neighbours(list)
      BY <1>1 DEF Neighbours
    <2>2. QED
      BY <2>1, <1>1 DEF SInv, ProgressExhausted, reorder_nodenum
  <1>7. QED
    BY <1>1, <1>2, <1>5, <1>6 DEF SInv

----------------------------------------------------------------------------
\* In every reachable state the walk knows its best place, and a repeated
\* method what its pass has tried: whatever the number of blocks, the sizes
\* of their orders and the limit on growth.
THEOREM SiftingInvariance == SiftingSpec => []SInv
  <1>1. SInv /\ [NextSifting]_vars => SInv'
    BY Win2Keeps, Win3Keeps, SiftNextKeeps, SiftMoveKeeps, SiftTurnKeeps, SiftBackKeeps,
       RandomKeeps, NextPassKeeps, EndKeeps, StartKeeps, SInvStutters
    DEF NextSifting, Work
  <1>2. QED
    BY SInvInit, <1>1, PTL DEF SiftingSpec

\* bdd_reorder: no method but random ends with a larger table than it found,
\* each gives back the head of its list, siftite ends only where no exchange
\* of neighbours makes the table smaller, win3ite where no order of three does.
THEOREM ProgressIsExhausted == SiftingSpec => []ProgressExhausted
  <1>1. SInv => ProgressExhausted
    BY DEF SInv
  <1>2. QED
    BY <1>1, SiftingInvariance, PTL

=============================================================================
