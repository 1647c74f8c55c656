----------------------------- MODULE EvddProofs -----------------------------
(***************************************************************************)
(* What holds of edge-valued diagrams and of the walk and the recursion    *)
(* over them, for every number of levels, size of the table and of the     *)
(* cache, for every prime number of weights, all operators and all hashes. *)
(***************************************************************************)
EXTENDS EvddKernelMC, CallStack

----------------------------------------------------------------------------
\* The inductive invariant.

EdgeTo(S) == [node : S, w : Weights]

\* A node other than the terminal: its children are further down, it is not
\* redundant, and one of its weights is not 0.
Key == [level : 0..(Terminal - 1), low : Nat, wl : Weights, high : Nat, wh : Weights]
LevelOf(n) == node[n].level
InnerOK(n) ==
  /\ node[n] \in Key
  /\ node[n].low \in Live /\ node[n].high \in Live
  /\ LevelOf(n) < LevelOf(node[n].low) /\ LevelOf(n) < LevelOf(node[n].high)
  /\ node[n].low # node[n].high \/ node[n].wl # node[n].wh
  /\ node[n].wl # 0 \/ node[n].wh # 0

TerminalNode == [level |-> Terminal, low |-> 0, wl |-> 0, high |-> 0, wh |-> 0]
TableOK ==
  /\ evddnodesize \in 1..SlotBound
  /\ node = [n \in Slot |-> node[n]] /\ refcou \in [Slot -> 0..MaxRef]
  /\ node[0] = TerminalNode /\ refcou[0] = MaxRef
  /\ \A n \in Live \ {0} : InnerOK(n)
  /\ \A m, n \in Live \ {0} : node[m] = node[n] => m = n

\* What the client holds is counted.
Holders(n) == {x \in Names : edge[x] # NoEdge /\ edge[x].node = n}
ClientOK ==
  /\ edge \in [Names -> EdgeTo(Live) \cup {NoEdge}]
  /\ \A n \in Slot : refcou[n] = MaxRef \/ Cardinality(Holders(n)) <= refcou[n]
  /\ result # None => result \in [to : Names, e : EdgeTo(Live)] /\ edge[result.to] = NoEdge
  /\ evddrefstack \in Seq(Live)

\* The nodes that no collection takes while the counts stay: all that hang
\* on a counted one.
Closed(S) == \A n \in S : Children(n) \subseteq S
Counted == {n \in Live : refcou[n] > 0}
Reach == {n \in Live : \A S \in SUBSET Live : Counted \subseteq S /\ Closed(S) => n \in S}

\* The edges among those to S that evdd_apply may return for a and b.
Applied(op, a, b) == [s \in Assignments |-> Operator(op, Meaning(a)[s], Meaning(b)[s])]
Results(op, a, b, S) ==
  {e \in EdgeTo(S) : TopLevel(a, b) <= LevelOf(e.node) /\ Meaning(e) = Applied(op, a, b)}

Operators == {c.op : c \in Applies}
EntryOK(entry) ==
  /\ entry.a \in EdgeTo(Live) /\ entry.b \in EdgeTo(Live) /\ entry.op \in Operators
  /\ entry.res \in Results(entry.op, entry.a, entry.b, Live)
GoodCache(cache) ==
  /\ cache = [i \in 0..(CacheSize - 1) |-> cache[i]]
  /\ \A i \in 0..(CacheSize - 1) : cache[i] # NoEntry => EntryOK(cache[i])

\* The walk.  The edges that the node n, and the edge to c with the weight
\* w, may be normalized to.
NormalForms(n) ==
  {e \in EdgeTo(Marked({})) :
     e.w # 0 /\ LevelOf(n) <= LevelOf(e.node) /\ Meaning(e) = NodeMeaning[n]}
ChildForms(c, w) ==
  {e \in EdgeTo(Marked({})) :
     (e.w = 0 <=> w = 0) /\ LevelOf(c) <= LevelOf(e.node) /\ Meaning(e) = Meaning(Edge(c, w))}

Frame == [node : Reach \ {0}, step : {"low", "high", "make"},
          low : EdgeTo(Nat) \cup {NoEdge}, high : EdgeTo(Nat) \cup {NoEdge}]
ChildOf(f) == IF f.step = "low" THEN node[f.node].low ELSE node[f.node].high
AskedNode(fs) == IF fs = <<>> THEN edge[call.from].node ELSE ChildOf(fs[Len(fs)])
FrameOK(f) ==
  /\ IF f.step = "low" THEN f.low = NoEdge
     ELSE f.low \in ChildForms(node[f.node].low, node[f.node].wl)
  /\ IF f.step # "make" THEN f.high = NoEdge
     ELSE f.high \in ChildForms(node[f.node].high, node[f.node].wh)

\* The calls that wait: each has been asked by the one before it, and only
\* the innermost one is about to make its node.
Chain(fs) ==
  /\ fs \in Seq(Frame)
  /\ \A i \in DOMAIN fs : FrameOK(fs[i])
  /\ \A i \in DOMAIN fs : fs[i].node = IF i = 1 THEN edge[call.from].node ELSE ChildOf(fs[i - 1])
  /\ \A i \in 1..(Len(fs) - 1) : fs[i].step # "make"

\* What is on top of the reference stack, for EVDD_POPREF(2) to take off.
OnTop(fs, refs, ret) ==
  /\ Len(refs) > 0
  /\ fs # <<>> /\ fs[Len(fs)].step = "high" =>
       refs[Len(refs)] \in {fs[Len(fs)].low.node} \cup {e.node : e \in {ret} \ {NoEdge}}
  /\ AtMake(fs) =>
       /\ Len(refs) > 1 /\ refs[Len(refs)] = fs[Len(fs)].high.node
       /\ refs[Len(refs) - 1] \in {fs[Len(fs)].low.node, fs[Len(fs)].high.node}

MemoOK(m) ==
  /\ Reach \subseteq DOMAIN m
  /\ \A n \in DOMAIN m : m[n] # NoEdge => n \in Reach /\ m[n] \in NormalForms(n)

\* The walk with those calls, that stack, the edge ret returned, the memo m,
\* and a call on c to come.
WalkOK(fs, refs, ret, m, c) ==
  /\ Chain(fs) /\ OnTop(fs, refs, ret) /\ MemoOK(m)
  /\ c # NoNode => c = AskedNode(fs) /\ c # 0 /\ ret = NoEdge /\ ~AtMake(fs)
  /\ ret # NoEdge => ret \in NormalForms(AskedNode(fs)) /\ ~AtMake(fs)

Walking ==
  /\ call \in Normalizes /\ result = None /\ applying = None
  /\ edge[call.to] = NoEdge /\ edge[call.from] # NoEdge /\ edge[call.from].node # 0
  /\ WalkOK(frames, evddrefstack, returned, memo, calling)
NotWalking == memo = <<>> /\ calling = NoNode /\ frames = <<>> /\ returned = NoEdge

\* The recursion.
Caller == [a : EdgeTo(Reach), b : EdgeTo(Reach), step : {"low", "high"},
           low : EdgeTo(Nat) \cup {NoEdge}]
NextOperands(f) == IF f.step = "low" THEN LowOperands(f.a, f.b) ELSE HighOperands(f.a, f.b)
AskedOperands(fs) ==
  IF fs = <<>> THEN [a |-> edge[applying.a], b |-> edge[applying.b]]
  ELSE NextOperands(fs[Len(fs)])
CallerOK(f) ==
  /\ TopLevel(f.a, f.b) < Terminal
  /\ LET asked == LowOperands(f.a, f.b)
     IN  IF f.step = "low" THEN f.low = NoEdge
         ELSE f.low \in Results(applying.op, asked.a, asked.b, Live)
Callers(fs) ==
  /\ fs \in Seq(Caller)
  /\ \A i \in DOMAIN fs : CallerOK(fs[i])
  /\ \A i \in DOMAIN fs :
       [a |-> fs[i].a, b |-> fs[i].b] =
         IF i = 1 THEN [a |-> edge[applying.a], b |-> edge[applying.b]] ELSE NextOperands(fs[i - 1])

\* The low results are on the reference stack, in the order of the calls.
Protected(fs, refs) ==
  \E pos \in [DOMAIN fs -> 0..Len(refs)] :
    /\ \A i \in DOMAIN fs : fs[i].step = "high" => pos[i] > 0 /\ refs[pos[i]] = fs[i].low.node
    /\ \A i, j \in DOMAIN fs :
         i < j /\ fs[i].step = "high" /\ fs[j].step = "high" => pos[i] < pos[j]

\* The recursion with those calls and that stack, the operands ops of a call
\* to come, and the edge ans returned.
ApplyOK(fs, refs, ops, ans) ==
  /\ Callers(fs) /\ Protected(fs, refs)
  /\ ops # None => ops = AskedOperands(fs) /\ ans = NoEdge
  /\ ans # NoEdge =>
       LET asked == AskedOperands(fs)
       IN  ans \in Results(applying.op, asked.a, asked.b, Live)

Applying ==
  /\ applying \in Applies /\ result = None /\ call = None
  /\ edge[applying.to] = NoEdge /\ edge[applying.a] # NoEdge /\ edge[applying.b] # NoEdge
  /\ ApplyOK(waiting, evddrefstack, operands, answer)
NotApplying == operands = None /\ waiting = <<>> /\ answer = NoEdge

Good == TableOK /\ ClientOK /\ GoodCache(evdd_applycache)
EvddInv ==
  /\ Good
  /\ IF call = None THEN NotWalking ELSE Walking
  /\ IF applying = None THEN NotApplying ELSE Applying
  /\ call = None /\ applying = None => evddrefstack = <<>>

----------------------------------------------------------------------------
\* Normalized diagrams: the first weight of every node that is not 0 is 1,
\* and a weight 0 is that of an edge to the terminal.

NodeTied(n) == (node[n].wl = 0 => node[n].low = 0) /\ (node[n].wh = 0 => node[n].high = 0)
NodeNormal(n) ==
  \/ n = 0
  \/ node[n].wl = 1 /\ (node[n].wh = 0 => node[n].high = 0)
  \/ node[n].wl = 0 /\ node[n].low = 0 /\ node[n].wh = 1
Normal == {n \in Live : \E S \in SUBSET Live : n \in S /\ Closed(S) /\ \A m \in S : NodeNormal(m)}

\* The edge e is tied, and goes to a node in N.
Tied(e) == e.w = 0 => e.node = 0
NormalTo(N, e) == Tied(e) /\ e.node \in N

\* What the client, the walk and the recursion hold, N being the normal nodes.
HeldNormal(N, x, e) == Tied(e) /\ (x \in NormalNames => NormalTo(N, e))
ClientNormal(N, edges, res) ==
  /\ \A x \in Names : edges[x] # NoEdge => HeldNormal(N, x, edges[x])
  /\ res # None => HeldNormal(N, res.to, res.e)
FrameNormal(N, f) ==
  /\ f.step # "low" => NormalTo(N, f.low)
  /\ f.step = "make" => NormalTo(N, f.high)
WalkNormal(N, m, ret, fs) ==
  /\ \A n \in DOMAIN m : m[n] # NoEdge => NormalTo(N, m[n])
  /\ ret # NoEdge => NormalTo(N, ret)
  /\ \A i \in DOMAIN fs : FrameNormal(N, fs[i])
CallersNormal(N, fs) == \A i \in DOMAIN fs : fs[i].step = "high" => NormalTo(N, fs[i].low)
CacheNormal(N, cache) ==
  \A i \in 0..(CacheSize - 1) : cache[i] # NoEntry => NormalTo(N, cache[i].res)

TableTied == \A n \in Live \ {0} : NodeTied(n)
NormalInv ==
  /\ TableTied
  /\ ClientNormal(Normal, edge, result)
  /\ WalkNormal(Normal, memo, returned, frames)
  /\ answer # NoEdge => NormalTo(Normal, answer)
  /\ CallersNormal(Normal, waiting) /\ CacheNormal(Normal, evdd_applycache)

----------------------------------------------------------------------------
\* Weights: the numbers modulo a prime have products and quotients.

LEMMA Division ==
  ASSUME NEW a \in Int, NEW p \in Nat, p > 0
  PROVE  a % p \in 0..(p - 1) /\ a \div p \in Int /\ a = (p * (a \div p)) + (a % p)
  OBVIOUS

LEMMA Divided ==
  ASSUME NEW a \in Int, NEW p \in Nat, p > 0, NEW q \in Int, NEW r \in 0..(p - 1),
         a = (p * q) + r
  PROVE  a % p = r
  OBVIOUS

\* A factor may be reduced before the product is.
LEMMA FactorReduced ==
  ASSUME NEW a \in Int, NEW b \in Int, NEW p \in Nat, p > 0
  PROVE  (a * (b % p)) % p = (a * b) % p
  <1> DEFINE r == b % p  k == b \div p  m == (a * r) \div p  t == (a * r) % p
             q == (a * k) + m
  <1>1. r \in 0..(p - 1) /\ k \in Int /\ b = (p * k) + r
    BY Division
  <1>2. a * r \in Int
    BY <1>1
  <1>3. t \in 0..(p - 1) /\ m \in Int /\ a * r = (p * m) + t
    BY <1>2, Division
  <1> HIDE DEF r, k, m, t
  <1>4. a * b = (p * ((a * k) + m)) + t
    <2>1. a * b = (a * (p * k)) + (a * r)
      BY <1>1
    <2>2. a * (p * k) = p * (a * k)
      BY <1>1
    <2>3. p * ((a * k) + m) = (p * (a * k)) + (p * m)
      BY <1>1, <1>3
    <2>4. a * k \in Int /\ p * (a * k) \in Int /\ p * m \in Int /\ a * b \in Int
      BY <1>1, <1>3
    <2>5. QED
      BY <1>3, <2>1, <2>2, <2>3, <2>4
  <1>5. a * b \in Int /\ q \in Int /\ a * b = (p * q) + t
    BY <1>1, <1>3, <1>4
  <1>6. (a * b) % p = t
    <2> HIDE DEF q
    <2>1. QED
      BY <1>3, <1>5, Divided
  <1>7. QED
    BY <1>6 DEF r, t

\* The number of weights.
LEMMA ModulusFacts ==
  /\ Modulus \in Nat /\ Modulus > 1 /\ \A d \in 2..(Modulus - 1) : Modulus % d # 0
  /\ Weights \subseteq Nat /\ 0 \in Weights /\ 1 \in Weights
  BY EvddAssumption DEF IsPrime, Weights

\* Products of weights.
LEMMA ProductType == \A a, b \in Weights : evdd_value_mul(a, b) \in Weights
  <1>1. ASSUME NEW a \in Weights, NEW b \in Weights PROVE (a * b) % Modulus \in 0..(Modulus - 1)
    <2>1. a * b \in Int /\ Modulus \in Nat /\ Modulus > 0
      BY ModulusFacts
    <2>2. QED
      BY <2>1, Division
  <1>2. QED
    BY <1>1 DEF evdd_value_mul, Weights

LEMMA ProductCommutes == \A a, b \in Weights : evdd_value_mul(a, b) = evdd_value_mul(b, a)
  <1>1. ASSUME NEW a \in Weights, NEW b \in Weights PROVE a * b = b * a
    BY ModulusFacts
  <1>2. QED
    BY <1>1 DEF evdd_value_mul

LEMMA ProductAssociates ==
  \A a, b, c \in Weights :
    evdd_value_mul(a, evdd_value_mul(b, c)) = evdd_value_mul(evdd_value_mul(a, b), c)
  <1>1. ASSUME NEW a \in Weights, NEW b \in Weights, NEW c \in Weights
        PROVE  evdd_value_mul(a, evdd_value_mul(b, c)) = evdd_value_mul(evdd_value_mul(a, b), c)
    <2>1. /\ a \in Int /\ b \in Int /\ c \in Int /\ Modulus \in Nat /\ Modulus > 0
          /\ b * c \in Int /\ a * b \in Int
      BY ModulusFacts
    <2>2. evdd_value_mul(a, evdd_value_mul(b, c)) = (a * (b * c)) % Modulus
      BY <2>1, FactorReduced DEF evdd_value_mul
    <2>3. evdd_value_mul(c, evdd_value_mul(a, b)) = (c * (a * b)) % Modulus
      BY <2>1, FactorReduced DEF evdd_value_mul
    <2>4. a * (b * c) = c * (a * b)
      BY <2>1
    <2>5. evdd_value_mul(c, evdd_value_mul(a, b)) = evdd_value_mul(evdd_value_mul(a, b), c)
      BY ProductType, ProductCommutes
    <2>6. QED
      BY <2>2, <2>3, <2>4, <2>5
  <1>2. QED
    BY <1>1

LEMMA ProductUnits ==
  \A a \in Weights : /\ evdd_value_mul(1, a) = a /\ evdd_value_mul(a, 1) = a
                     /\ evdd_value_mul(0, a) = 0 /\ evdd_value_mul(a, 0) = 0
  <1>1. ASSUME NEW a \in Weights PROVE evdd_value_mul(1, a) = a /\ evdd_value_mul(0, a) = 0
    <2>1. a \in Int /\ Modulus \in Nat /\ Modulus > 0 /\ a \in 0..(Modulus - 1) /\ 0 \in 0..(Modulus - 1)
      BY ModulusFacts DEF Weights
    <2>2. a = (Modulus * 0) + a /\ 1 * a = a /\ 0 * a = 0 /\ 0 = (Modulus * 0) + 0
      BY <2>1
    <2>3. a % Modulus = a /\ 0 % Modulus = 0
      BY <2>1, <2>2, Divided
    <2>4. QED
      BY <2>2, <2>3 DEF evdd_value_mul
  <1>2. QED
    BY <1>1, ProductCommutes, ModulusFacts

\* Every weight but 0 has an inverse: the least number that a multiple of it
\* leaves is 1, or else Modulus leaves a smaller one.
LEMMA InverseExists ==
  ASSUME NEW a \in Weights, a # 0
  PROVE  \E x \in Weights : evdd_value_mul(x, a) = 1
  <1> DEFINE p == Modulus
             T == {r \in 1..(p - 1) : \E x \in Int : (x * a) % p = r}
  <1>1. /\ p \in Nat /\ p > 1 /\ p > 0 /\ a \in 1..(p - 1) /\ a \in Int /\ a % p = a
        /\ \A d \in 2..(p - 1) : p % d # 0
    <2>1. p \in Nat /\ p > 1 /\ a \in 1..(p - 1) /\ a \in 0..(p - 1) /\ a \in Int /\ a = (p * 0) + a
      BY ModulusFacts DEF Weights
    <2>2. a % p = a
      BY <2>1, Divided
    <2>3. QED
      BY <2>1, <2>2, ModulusFacts
  <1> HIDE DEF p
  <1>2. T \in SUBSET Nat /\ T # {}
    <2>1. 1 * a = a /\ 1 \in Int
      BY <1>1
    <2>2. (1 * a) % p = a
      BY <1>1, <2>1
    <2>3. a \in T
      BY <1>1, <2>1, <2>2
    <2>4. T \subseteq 1..(p - 1) /\ 1..(p - 1) \subseteq Nat
      OBVIOUS
    <2> HIDE DEF T
    <2>5. QED
      BY <2>3, <2>4
  <1>3. PICK d \in T : \A y \in T : d <= y
    <2> HIDE DEF T
    <2>1. QED
      BY <1>2, LeastNatural
  <1>4. PICK x \in Int : (x * a) % p = d
    BY <1>3
  <1>5. d \in 1..(p - 1) /\ d \in Nat /\ d > 0
    BY <1>1, <1>3
  <1> HIDE DEF T
  <1>6. d = 1
    <2> DEFINE r == p % d  k == p \div d  m == (x * a) \div p  z == (0 - k) * x
               q == (0 - (k * m)) - 1
    <2>1. SUFFICES ASSUME d # 1 PROVE FALSE
      OBVIOUS
    <2>2. r \in 0..(d - 1) /\ k \in Int /\ p = (d * k) + r /\ r # 0
      <3>1. d \in 2..(p - 1)
        BY <1>1, <1>5, <2>1
      <3>2. QED
        BY <1>1, <1>5, <3>1, Division
    <2>3. x * a \in Int /\ m \in Int /\ x * a = (p * m) + d
      BY <1>1, <1>4, Division
    <2>4. z \in Int
      BY <2>2
    <2>5. z * a = (p * ((0 - (k * m)) - 1)) + r
      <3>1. z * a = (0 - k) * (x * a)
        BY <1>1, <2>2
      <3> HIDE DEF z, r, k, m
      <3>2. k * (x * a) = (k * (p * m)) + (k * d)
        BY <1>1, <1>5, <2>2, <2>3
      <3>3. k * (p * m) = p * (k * m) /\ k * d = d * k
        BY <1>1, <1>5, <2>2, <2>3
      <3>4. (0 - k) * (x * a) = 0 - (k * (x * a))
        BY <2>2, <2>3
      <3>5. p * ((0 - (k * m)) - 1) = (0 - (p * (k * m))) - p
        BY <1>1, <2>2, <2>3
      <3>6. p * (k * m) \in Int /\ d * k \in Int /\ k * (x * a) \in Int /\ r \in Int
        BY <1>1, <1>5, <2>2, <2>3
      <3>7. QED
        BY <1>1, <2>2, <3>1, <3>2, <3>3, <3>4, <3>5, <3>6
    <2>6. r \in 1..(p - 1) /\ r < d /\ r \in 0..(p - 1)
      <3> HIDE DEF r, k
      <3>1. QED
        BY <1>1, <1>5, <2>2
    <2>7. z * a \in Int /\ q \in Int /\ z * a = (p * q) + r
      BY <1>1, <2>2, <2>3, <2>4, <2>5
    <2> HIDE DEF z, r, k, m, q
    <2>8. (z * a) % p = r
      BY <1>1, <2>6, <2>7, Divided
    <2>9. r \in T
      BY <2>4, <2>6, <2>8 DEF T
    <2>10. QED
      BY <1>3, <1>5, <2>6, <2>9
  <1> DEFINE y == x % p
  <1>7. y \in 0..(p - 1) /\ y \in Int
    BY <1>1, Division
  <1>8. (a * y) % p = (a * x) % p
    BY <1>1, FactorReduced
  <1>9. a * y = y * a /\ a * x = x * a
    <2> HIDE DEF y
    <2>1. QED
      BY <1>1, <1>7
  <1> HIDE DEF y
  <1>10. (y * a) % p = 1
    BY <1>4, <1>6, <1>8, <1>9
  <1>11. QED
    BY <1>7, <1>10 DEF p, Weights, evdd_value_mul

\* A factor that is not 0 can be cancelled.
LEMMA ProductCancels ==
  \A a, b, c \in Weights : c # 0 /\ evdd_value_mul(c, a) = evdd_value_mul(c, b) => a = b
  <1>1. ASSUME NEW a \in Weights, NEW b \in Weights, NEW c \in Weights, c # 0,
               evdd_value_mul(c, a) = evdd_value_mul(c, b)
        PROVE  a = b
    <2>1. PICK x \in Weights : evdd_value_mul(x, c) = 1
      BY <1>1, InverseExists
    <2>2. evdd_value_mul(x, evdd_value_mul(c, a)) = a /\ evdd_value_mul(x, evdd_value_mul(c, b)) = b
      BY <2>1, ProductAssociates, ProductUnits
    <2>3. QED
      BY <1>1, <2>2
  <1>2. QED
    BY <1>1

LEMMA ProductNonzero == \A a, b \in Weights : a # 0 /\ b # 0 => evdd_value_mul(a, b) # 0
  BY ProductCancels, ProductUnits, ModulusFacts

LEMMA QuotientRight ==
  \A a, b \in Weights :
    b # 0 => evdd_value_div(a, b) \in Weights /\ evdd_value_mul(b, evdd_value_div(a, b)) = a
  <1>1. ASSUME NEW a \in Weights, NEW b \in Weights, b # 0
        PROVE  /\ evdd_value_div(a, b) \in Weights
               /\ evdd_value_mul(b, evdd_value_div(a, b)) = a
    <2>1. PICK x \in Weights : evdd_value_mul(x, b) = 1
      BY <1>1, InverseExists
    <2> DEFINE q == evdd_value_mul(a, x)
    <2>2. q \in Weights /\ evdd_value_mul(q, b) = a
      BY <2>1, ProductType, ProductAssociates, ProductUnits
    <2>3. \E y \in Weights : evdd_value_mul(y, b) = a
      BY <2>2
    <2>4. evdd_value_div(a, b) \in Weights /\ evdd_value_mul(evdd_value_div(a, b), b) = a
      BY <2>3 DEF evdd_value_div
    <2>5. QED
      BY <2>4, ProductCommutes
  <1>2. QED
    BY <1>1

LEMMA UnitRight == \A w \in Weights : evdd_value_unit(w) = IF w = 0 THEN 0 ELSE 1
  <1>1. ASSUME NEW w \in Weights, w # 0 PROVE evdd_value_div(w, w) = 1
    <2>1. evdd_value_div(w, w) \in Weights /\ evdd_value_mul(w, evdd_value_div(w, w)) = w
      BY <1>1, QuotientRight
    <2>2. evdd_value_mul(w, evdd_value_div(w, w)) = evdd_value_mul(w, 1)
      BY <2>1, ProductUnits
    <2>3. QED
      BY <1>1, <2>1, <2>2, ProductCancels, ModulusFacts
  <1>2. QED
    BY <1>1 DEF evdd_value_unit

----------------------------------------------------------------------------
\* The table.

\* A record is not the empty sequence, which stands for nothing.
LEMMA RecordsNotEmpty ==
  /\ \A n, w : Edge(n, w) # NoEdge /\ Edge(n, w).node = n /\ Edge(n, w).w = w
  /\ \A S : \A e \in EdgeTo(S) : e # NoEdge /\ e.node \in S /\ e.w \in Weights /\ e = Edge(e.node, e.w)
  /\ TerminalNode # Free /\ \A k \in Key : k # Free
  <1>1. DOMAIN NoEdge = {} /\ DOMAIN Free = {}
    BY DEF NoEdge, Free
  <1>2. \A n, w : "node" \in DOMAIN Edge(n, w) /\ Edge(n, w).node = n /\ Edge(n, w).w = w
    BY DEF Edge
  <1>3. \A S : \A e \in EdgeTo(S) :
          "node" \in DOMAIN e /\ e.node \in S /\ e.w \in Weights /\ e = Edge(e.node, e.w)
    BY DEF EdgeTo, Edge
  <1>4. "level" \in DOMAIN TerminalNode /\ \A k \in Key : "level" \in DOMAIN k
    BY DEF TerminalNode, Key
  <1>5. QED
    BY <1>1, <1>2, <1>3, <1>4

LEMMA EdgeIn == ASSUME NEW S, NEW n \in S, NEW w \in Weights PROVE Edge(n, w) \in EdgeTo(S)
  BY DEF Edge, EdgeTo

Facts ==
  /\ evddnodesize \in Nat /\ Slot \subseteq Nat /\ Live \subseteq Slot /\ 0 \in Live /\ NoNode \notin Slot
  /\ LevelOf(0) = Terminal /\ Children(0) = {}
  /\ \A n \in Live : LevelOf(n) \in Nat /\ LevelOf(n) <= Terminal /\ (LevelOf(n) < Terminal <=> n # 0)
  /\ \A n \in Live \ {0} :
       /\ InnerOK(n) /\ Children(n) = {node[n].low, node[n].high}
       /\ node[n].low \in Live /\ node[n].high \in Live
       /\ node[n].wl \in Weights /\ node[n].wh \in Weights
  /\ Closed(Live)

LEMMA TableFacts == TableOK => Facts
  <1> USE EvddAssumption
  <1> SUFFICES ASSUME TableOK PROVE Facts
    OBVIOUS
  <1>1. evddnodesize \in Nat /\ Slot \subseteq Nat /\ Live \subseteq Slot /\ NoNode \notin Slot /\ 0 \in Slot
    BY DEF TableOK, Slot, Live, NoNode
  <1>2. 0 \in Live /\ LevelOf(0) = Terminal /\ Children(0) = {}
    BY <1>1, RecordsNotEmpty DEF TableOK, Live, LevelOf, TerminalNode, Children, Const
  <1>3. ASSUME NEW n \in Live \ {0}
        PROVE  /\ LevelOf(n) \in Nat /\ LevelOf(n) < Terminal
               /\ InnerOK(n) /\ Children(n) = {node[n].low, node[n].high}
               /\ node[n].low \in Live /\ node[n].high \in Live
               /\ node[n].wl \in Weights /\ node[n].wh \in Weights
    <2>1. InnerOK(n) /\ node[n] \in Key
      BY DEF TableOK, InnerOK
    <2>2. node[n].level \in 0..(Terminal - 1) /\ node[n].wl \in Weights /\ node[n].wh \in Weights
      BY <2>1 DEF Key
    <2>3. QED
      BY <2>1, <2>2 DEF InnerOK, LevelOf, Children, Const
  <1>4. Closed(Live)
    BY <1>2, <1>3 DEF Closed
  <1>5. \A n \in Live : LevelOf(n) \in Nat /\ LevelOf(n) <= Terminal /\ (LevelOf(n) < Terminal <=> n # 0)
    BY <1>2, <1>3
  <1>6. QED
    BY <1>1, <1>2, <1>3, <1>4, <1>5 DEF Facts

\* A node other than the terminal, and its children.
LEMMA InnerNode ==
  ASSUME TableOK, NEW n \in Live, n # 0
  PROVE  /\ node[n].low \in Live /\ node[n].high \in Live /\ Children(n) = {node[n].low, node[n].high}
         /\ node[n].wl \in Weights /\ node[n].wh \in Weights /\ node[n] \in Key
         /\ LevelOf(n) \in 0..(Terminal - 1)
         /\ LevelOf(n) < LevelOf(node[n].low) /\ LevelOf(n) < LevelOf(node[n].high)
         /\ node[n].low # node[n].high \/ node[n].wl # node[n].wh
         /\ node[n].wl # 0 \/ node[n].wh # 0
  <1>1. InnerOK(n) /\ Children(n) = {node[n].low, node[n].high} /\ LevelOf(n) \in Nat /\ LevelOf(n) < Terminal
    BY TableFacts DEF Facts
  <1>2. node[n].wl \in Weights /\ node[n].wh \in Weights
    BY TableFacts DEF Facts
  <1>3. LevelOf(n) \in 0..(Terminal - 1)
    BY <1>1, EvddAssumption
  <1>4. QED
    BY <1>1, <1>2, <1>3 DEF InnerOK

\* What holds of a node whenever it holds of its children holds of all nodes
\* of a closed set.
LEMMA LevelInduction ==
  ASSUME TableOK, NEW S \in SUBSET Live, Closed(S), NEW P,
         \A n \in S : Children(n) \subseteq P => n \in P
  PROVE  S \subseteq P
  <1> DEFINE D(n) == Terminal - LevelOf(n)
             T == {D(n) : n \in S \ P}
  <1> USE EvddAssumption
  <1>1. \A n \in Live : LevelOf(n) \in Nat /\ LevelOf(n) <= Terminal
    BY TableFacts DEF Facts
  <1>2. \A n \in S : D(n) \in Nat
    BY <1>1
  <1>3. SUFFICES ASSUME S \ P # {} PROVE FALSE
    OBVIOUS
  <1>4. T \in SUBSET Nat /\ T # {}
    BY <1>2, <1>3
  <1> HIDE DEF T
  <1>5. PICK x \in T : \A y \in T : x <= y
    BY <1>4, LeastNatural
  <1>6. PICK n \in S \ P : x = D(n)
    BY <1>5 DEF T
  <1>7. PICK c \in Children(n) : c \notin P
    BY <1>6
  <1>8. c \in S \ P /\ c \in Live /\ n \in Live
    BY <1>6, <1>7 DEF Closed
  <1>9. n # 0
    BY <1>7, TableFacts DEF Facts
  <1>10. LevelOf(n) < LevelOf(c)
    BY <1>7, <1>8, <1>9, InnerNode
  <1>11. D(c) < D(n) /\ D(c) \in Nat /\ D(n) \in Nat
    BY <1>1, <1>2, <1>6, <1>8, <1>10
  <1>12. D(c) \in T
    BY <1>8 DEF T
  <1> HIDE DEF D
  <1>13. QED
    BY <1>5, <1>6, <1>11, <1>12

\* evdd_mark finds whole diagrams, those of the roots, and no others.
LEMMA MarkedClosed ==
  ASSUME TableOK, NEW pushed
  PROVE  /\ Marked(pushed) \subseteq Live /\ Closed(Marked(pushed))
         /\ Roots(pushed) \subseteq Marked(pushed) /\ 0 \in Marked(pushed)
  <1>1. Roots(pushed) \subseteq Live
    BY DEF Roots
  <1>2. Roots(pushed) \subseteq Marked(pushed) /\ Marked(pushed) \subseteq Live
    BY <1>1 DEF Marked
  <1>3. 0 \in Roots(pushed)
    <2>1. refcou[0] > 0 /\ 0 \in Live
      BY TableFacts, EvddAssumption DEF Facts, TableOK
    <2>2. QED
      BY <2>1 DEF Roots
  <1>4. ASSUME NEW n \in Marked(pushed), NEW c \in Children(n) PROVE c \in Marked(pushed)
    <2>1. c \in Live
      BY <1>2, <1>4, TableFacts DEF Facts, Closed
    <2>2. ASSUME NEW T \in SUBSET (Live \ Roots(pushed)),
                 \A m \in Roots(pushed) \cup T : Children(m) \subseteq Roots(pushed) \cup T
          PROVE  c \in Roots(pushed) \cup T
      <3>1. n \in Roots(pushed) \cup T
        BY <2>2 DEF Marked
      <3>2. QED
        BY <2>2, <3>1, <1>4
    <2>3. QED
      BY <2>1, <2>2 DEF Marked
  <1>5. QED
    BY <1>2, <1>3, <1>4 DEF Closed

LEMMA MarkedLeast ==
  ASSUME NEW pushed, NEW S \in SUBSET Live, Closed(S), Roots(pushed) \subseteq S
  PROVE  Marked(pushed) \subseteq S
  <1> DEFINE T == S \ Roots(pushed)
  <1>1. T \in SUBSET (Live \ Roots(pushed)) /\ Roots(pushed) \cup T = S
    OBVIOUS
  <1>2. \A n \in S : Children(n) \subseteq S
    BY DEF Closed
  <1> HIDE DEF T
  <1>3. QED
    BY <1>1, <1>2 DEF Marked

LEMMA MarkedMonotonic ==
  ASSUME TableOK, NEW pushed
  PROVE  Marked({}) \subseteq Marked(pushed)
  <1>1. Marked(pushed) \in SUBSET Live /\ Closed(Marked(pushed)) /\ Roots(pushed) \subseteq Marked(pushed)
    BY MarkedClosed
  <1>2. Roots({}) \subseteq Roots(pushed)
    BY DEF Roots
  <1>3. QED
    BY <1>1, <1>2, MarkedLeast

\* What hangs on a counted node, as what the client holds does, is marked.
LEMMA ReachProtected ==
  ASSUME TableOK, ClientOK
  PROVE  /\ Reach \subseteq Live /\ Reach \subseteq Marked({}) /\ Counted \subseteq Reach
         /\ Closed(Reach) /\ 0 \in Reach
         /\ \A x \in Names : edge[x] # NoEdge => edge[x].node \in Reach
         /\ \A i \in DOMAIN evddrefstack : evddrefstack[i] \in Marked({})
  <1> USE EvddAssumption
  <1>1. Facts
    BY TableFacts
  <1>2. Reach \subseteq Live /\ Counted \subseteq Reach
    BY DEF Reach, Counted
  <1>3. Reach \subseteq Marked({})
    <2>1. Marked({}) \in SUBSET Live /\ Closed(Marked({})) /\ Roots({}) \subseteq Marked({})
      BY MarkedClosed
    <2>2. Counted \subseteq Marked({})
      BY <2>1 DEF Counted, Roots
    <2>3. QED
      BY <2>1, <2>2 DEF Reach
  <1>4. ASSUME NEW n \in Reach, NEW c \in Children(n) PROVE c \in Reach
    <2>1. c \in Live
      BY <1>1, <1>2, <1>4 DEF Facts, Closed
    <2>2. ASSUME NEW S \in SUBSET Live, Counted \subseteq S, Closed(S) PROVE c \in S
      <3>1. n \in S
        BY <2>2 DEF Reach
      <3>2. QED
        BY <2>2, <3>1, <1>4 DEF Closed
    <2>3. QED
      BY <2>1, <2>2 DEF Reach
  <1>5. 0 \in Counted
    BY <1>1 DEF Facts, Counted, TableOK
  <1>6. ASSUME NEW x \in Names, edge[x] # NoEdge PROVE edge[x].node \in Counted
    <2> DEFINE n == edge[x].node
    <2>1. edge[x] \in EdgeTo(Live)
      BY <1>6 DEF ClientOK
    <2>2. n \in Live /\ n \in Slot /\ refcou[n] \in Nat
      BY <1>1, <2>1, RecordsNotEmpty DEF Facts, TableOK
    <2>3. IsFiniteSet(Holders(n)) /\ x \in Holders(n)
      BY <1>6, FS_Subset DEF Holders
    <2>4. Cardinality(Holders(n)) \in Nat /\ Cardinality(Holders(n)) # 0
      BY <2>3, FS_CardinalityType, FS_EmptySet
    <2>5. refcou[n] = MaxRef \/ Cardinality(Holders(n)) <= refcou[n]
      BY <2>2 DEF ClientOK
    <2> HIDE DEF n
    <2>6. refcou[n] > 0
      BY <2>2, <2>4, <2>5
    <2>7. QED
      BY <2>2, <2>6 DEF Counted, n
  <1>7. ASSUME NEW i \in DOMAIN evddrefstack PROVE evddrefstack[i] \in Marked({})
    <2>1. evddrefstack[i] \in Live
      BY DEF ClientOK
    <2>2. evddrefstack[i] \in Roots({})
      BY <2>1 DEF Roots
    <2>3. QED
      BY <2>2, MarkedClosed
  <1>8. QED
    BY <1>2, <1>3, <1>4, <1>5, <1>6, <1>7 DEF Closed

----------------------------------------------------------------------------
\* Nodes that stay, with all below them, through a step; and how the table
\* changes.

NodesStay(K) ==
  /\ K \subseteq Live /\ K \subseteq Live' /\ Closed(K) /\ 0 \in K /\ Slot \subseteq Slot'
  /\ \A n \in K : node'[n] = node[n]
Stays(K) ==
  /\ NodesStay(K) /\ Marked({}) \subseteq K
  /\ \A n \in K : refcou'[n] = refcou[n]
  /\ \A n \in Live' \ K : refcou'[n] = 0

\* A node that may come to the table, over the nodes in K.
Fits(key, K) ==
  /\ key \in Key /\ key.low \in K /\ key.high \in K
  /\ key.level < LevelOf(key.low) /\ key.level < LevelOf(key.high)
  /\ key.low # key.high \/ key.wl # key.wh
  /\ key.wl # 0 \/ key.wh # 0
  /\ \A n \in Live \ {0} : node[n] # key

LEMMA StaysSame ==
  ASSUME NEW K, NodesStay(K), NEW n \in K
  PROVE  /\ n \in Live /\ n \in Live' /\ Children(n) \subseteq K /\ node'[n] = node[n]
         /\ LevelOf(n)' = LevelOf(n) /\ Children(n)' = Children(n)
  <1>1. node'[n] = node[n]
    BY DEF NodesStay
  <1>2. LevelOf(n)' = LevelOf(n) /\ Children(n)' = Children(n)
    BY <1>1 DEF LevelOf, Children, Const
  <1>3. QED
    BY <1>1, <1>2 DEF NodesStay, Closed

LEMMA NothingMoves ==
  ASSUME TableOK, UNCHANGED table
  PROVE  TableOK' /\ Stays(Live) /\ Live' = Live /\ Slot' = Slot
  <1>1. evddnodesize' = evddnodesize /\ node' = node /\ refcou' = refcou
    BY DEF table
  <1>2. Slot' = Slot /\ Live' = Live
    BY <1>1 DEF Slot, Live
  <1>3. \A n : InnerOK(n)' <=> InnerOK(n)
    BY <1>1, <1>2 DEF InnerOK, LevelOf
  <1>4. TableOK'
    BY <1>1, <1>2, <1>3 DEF TableOK
  <1>5. Stays(Live)
    BY <1>1, <1>2, TableFacts, MarkedClosed DEF Stays, NodesStay, Facts
  <1>6. QED
    BY <1>2, <1>4, <1>5

\* The table is rebuilt with the nodes in K, and a new one or none.
Rebuilds(K, size, N, key) ==
  /\ K \in SUBSET Live /\ Closed(K) /\ Marked({}) \subseteq K
  /\ size \in evddnodesize..SlotBound /\ N \in SUBSET ((0..(size - 1)) \ K)
  /\ \A m, n \in N : m = n
  /\ N = {} \/ Fits(key, K)
  /\ Rebuild(K, size, N, key)

LEMMA Rebuilt ==
  ASSUME TableOK, NEW K, NEW size, NEW N, NEW key, Rebuilds(K, size, N, key)
  PROVE  /\ TableOK' /\ Stays(K) /\ Live' = K \cup N
         /\ \A n \in N : node'[n] = key
  <1> USE EvddAssumption
  <1>0. /\ K \in SUBSET Live /\ Closed(K) /\ Marked({}) \subseteq K
        /\ size \in evddnodesize..SlotBound /\ N \in SUBSET ((0..(size - 1)) \ K)
        /\ \A m, n \in N : m = n
        /\ N = {} \/ Fits(key, K)
        /\ Rebuild(K, size, N, key)
    BY DEF Rebuilds
  <1>1. Facts /\ 0 \in K
    BY <1>0, TableFacts, MarkedClosed
  <1>2. evddnodesize' = size /\ size \in 1..SlotBound /\ Slot' = 0..(size - 1) /\ Slot \subseteq Slot'
    BY <1>0 DEF Rebuild, TableOK, Slot
  <1>3. K \subseteq Slot /\ K \subseteq Slot' /\ N \subseteq Slot' /\ K \cap N = {}
    BY <1>0, <1>1, <1>2 DEF Facts
  <1>4. /\ node' = [n \in Slot' |-> node'[n]]
        /\ \A n \in N : node'[n] = key /\ refcou'[n] = 0
        /\ \A n \in K : node'[n] = node[n] /\ refcou'[n] = refcou[n]
        /\ \A n \in Slot' : n \notin K /\ n \notin N => node'[n] = Free /\ refcou'[n] = 0
        /\ refcou' = [n \in Slot' |-> refcou'[n]]
    BY <1>0, <1>2, <1>3 DEF Rebuild
  <1>5. Free' = Free /\ \A n \in K : node[n] # Free
    BY <1>0 DEF Free, Live
  <1>6. N # {} => key # Free
    BY <1>0, RecordsNotEmpty DEF Fits
  <1>7. Live' = {n \in Slot' : node'[n] # Free}
    BY <1>5 DEF Live
  <1>8. Live' = K \cup N
    BY <1>3, <1>4, <1>5, <1>6, <1>7
  <1>9. Stays(K)
    BY <1>0, <1>1, <1>2, <1>4, <1>8 DEF Stays, NodesStay
  <1>10. refcou' \in [Slot' -> 0..MaxRef]
    <2>1. \A n \in K : refcou[n] \in 0..MaxRef
      BY <1>3 DEF TableOK
    <2>2. \A n \in Slot' : refcou'[n] \in 0..MaxRef
      BY <1>4, <2>1
    <2>3. QED
      BY <1>4, <2>2
  <1>11. node'[0] = TerminalNode /\ refcou'[0] = MaxRef
    BY <1>1, <1>4 DEF TableOK
  <1>12. ASSUME NEW n \in K, n # 0 PROVE InnerOK(n)'
    <2>1. InnerOK(n) /\ node[n].low \in K /\ node[n].high \in K /\ node'[n] = node[n] /\ n \in Live
      BY <1>0, <1>1, <1>4, <1>12 DEF Facts, Closed
    <2>2. node'[node[n].low] = node[node[n].low] /\ node'[node[n].high] = node[node[n].high]
      BY <1>4, <2>1
    <2>3. QED
      BY <1>8, <2>1, <2>2 DEF InnerOK, LevelOf
  <1>13. ASSUME NEW n \in N PROVE InnerOK(n)'
    <2>1. Fits(key, K) /\ node'[n] = key
      BY <1>0, <1>4, <1>13
    <2>2. node'[key.low] = node[key.low] /\ node'[key.high] = node[key.high]
      BY <1>4, <2>1 DEF Fits
    <2>3. QED
      BY <1>8, <2>1, <2>2 DEF InnerOK, LevelOf, Fits
  <1>14. ASSUME NEW m \in Live' \ {0}, NEW n \in Live' \ {0}, node'[m] = node'[n] PROVE m = n
    <2>1. ASSUME NEW a \in K, a # 0, NEW b \in N PROVE node'[a] # node'[b]
      <3>1. node'[a] = node[a] /\ node'[b] = key /\ Fits(key, K) /\ a \in Live \ {0}
        BY <1>0, <1>4, <2>1
      <3>2. QED
        BY <3>1 DEF Fits
    <2>2. CASE m \in K /\ n \in K
      <3>1. node[m] = node[n] /\ m \in Live \ {0} /\ n \in Live \ {0}
        BY <1>0, <1>4, <1>14, <2>2
      <3>2. QED
        BY <3>1 DEF TableOK
    <2>3. CASE m \in N /\ n \in N
      BY <1>0, <2>3
    <2>4. CASE m \in K /\ n \in N
      BY <1>14, <2>1, <2>4
    <2>5. CASE m \in N /\ n \in K
      BY <1>14, <2>1, <2>5
    <2>6. QED
      BY <1>8, <2>2, <2>3, <2>4, <2>5
  <1>15. \A n \in Live' \ {0} : InnerOK(n)'
    BY <1>8, <1>12, <1>13
  <1>16. TableOK'
    BY <1>2, <1>4, <1>10, <1>11, <1>14, <1>15 DEF TableOK, TerminalNode
  <1>17. QED
    BY <1>4, <1>8, <1>9, <1>16

----------------------------------------------------------------------------
\* The function of a node.

Unfolded(f, n) ==
  IF Const(n) THEN [s \in Assignments |-> 1]
  ELSE IF node[n] = Free THEN [s \in Assignments |-> 0]
  ELSE [s \in Assignments |->
          IF node[n].level \in s
            THEN evdd_value_mul(node[n].wh, f[node[n].high][s])
            ELSE evdd_value_mul(node[n].wl, f[node[n].low][s])]
IsMeaning(f) == f = [n \in Slot |-> Unfolded(f, n)]

\* It exists, level by level from the terminal up.
LEMMA MeaningExists == ASSUME TableOK PROVE \E f : IsMeaning(f)
  <1> USE EvddAssumption
  <1> DEFINE Done(k) == {n \in Slot : n \in Live \ {0} => k <= LevelOf(n)}
             Right(f, k) == \A n \in Done(k) : f[n] = Unfolded(f, n)
             P(k) == \E f : f = [n \in Slot |-> f[n]] /\ Right(f, k)
             T == {j \in 0..Terminal : ~P(Terminal - j)}
  <1>1. Terminal \in Nat /\ Facts
    BY TableFacts
  <1>2. P(Terminal)
    <2> DEFINE f == [n \in Slot |-> IF n = 0 THEN [s \in Assignments |-> 1] ELSE [s \in Assignments |-> 0]]
    <2>1. ASSUME NEW n \in Slot, n \in Live \ {0} => Terminal <= LevelOf(n) PROVE f[n] = Unfolded(f, n)
      <3>1. n = 0 \/ node[n] = Free
        BY <1>1, <2>1 DEF Facts, Live
      <3>2. QED
        BY <3>1 DEF Unfolded, Const
    <2>2. f = [n \in Slot |-> f[n]]
      OBVIOUS
    <2> HIDE DEF f
    <2>3. QED
      BY <2>1, <2>2
  <1>3. ASSUME NEW k \in 1..Terminal, P(k) PROVE P(k - 1)
    <2>1. PICK f : f = [n \in Slot |-> f[n]] /\ Right(f, k)
      BY <1>3
    <2> DEFINE g == [n \in Slot |-> IF n \in Done(k - 1) THEN Unfolded(f, n) ELSE f[n]]
    <2>2. g = [n \in Slot |-> g[n]]
      OBVIOUS
    <2>3. ASSUME NEW n \in Done(k - 1) PROVE g[n] = Unfolded(g, n)
      <3>1. g[n] = Unfolded(f, n)
        BY <2>3
      <3>2. CASE n \in Live \ {0}
        <4>1. /\ node[n].low \in Live /\ node[n].high \in Live
              /\ LevelOf(n) < LevelOf(node[n].low) /\ LevelOf(n) < LevelOf(node[n].high)
          BY <3>2, InnerNode
        <4>2. /\ LevelOf(n) \in Nat /\ LevelOf(node[n].low) \in Nat /\ LevelOf(node[n].high) \in Nat
              /\ node[n].low \in Slot /\ node[n].high \in Slot
          BY <1>1, <3>2, <4>1 DEF Facts
        <4>3. k - 1 <= LevelOf(n)
          BY <2>3, <3>2
        <4>4. ASSUME NEW c \in {node[n].low, node[n].high} PROVE g[c] = f[c]
          <5>1. k <= LevelOf(c) /\ c \in Slot /\ k - 1 <= LevelOf(c)
            BY <4>1, <4>2, <4>3
          <5>2. c \in Done(k) /\ c \in Done(k - 1)
            BY <5>1
          <5>3. g[c] = Unfolded(f, c)
            BY <5>2
          <5>4. f[c] = Unfolded(f, c)
            BY <2>1, <5>2
          <5>5. QED
            BY <5>3, <5>4
        <4> HIDE DEF g
        <4>5. Unfolded(g, n) = Unfolded(f, n)
          BY <4>4 DEF Unfolded
        <4>6. QED
          BY <3>1, <4>5
      <3>3. CASE n \notin Live \ {0}
        <4>1. n = 0 \/ node[n] = Free
          BY <2>3, <3>3 DEF Live
        <4> HIDE DEF g
        <4>2. Unfolded(g, n) = Unfolded(f, n)
          BY <4>1 DEF Unfolded, Const
        <4>3. QED
          BY <3>1, <4>2
      <3>4. QED
        BY <3>2, <3>3
    <2> HIDE DEF g, Done
    <2>4. QED
      BY <2>2, <2>3
  <1> HIDE DEF P
  <1>4. T = {}
    <2>1. SUFFICES ASSUME T # {} PROVE FALSE
      OBVIOUS
    <2>2. PICK j \in T : \A i \in T : j <= i
      <3>1. T \in SUBSET Nat
        BY <1>1
      <3> HIDE DEF T
      <3>2. QED
        BY <2>1, <3>1, LeastNatural
    <2>3. j \in 0..Terminal /\ ~P(Terminal - j)
      BY <2>2
    <2>4. j # 0
      BY <1>1, <1>2, <2>3
    <2>5. j - 1 \in 0..Terminal /\ j - 1 \notin T
      BY <1>1, <2>2, <2>3, <2>4
    <2>6. P(Terminal - (j - 1)) /\ Terminal - (j - 1) \in 1..Terminal
      BY <1>1, <2>3, <2>4, <2>5
    <2>7. (Terminal - (j - 1)) - 1 = Terminal - j
      BY <1>1, <2>3
    <2>8. P(Terminal - j)
      BY <1>3, <2>6, <2>7
    <2>9. QED
      BY <2>3, <2>8
  <1>5. P(0)
    <2>1. Terminal \in 0..Terminal /\ Terminal - Terminal = 0
      BY <1>1
    <2>2. QED
      BY <1>4, <2>1
  <1>6. PICK f : f = [n \in Slot |-> f[n]] /\ Right(f, 0)
    BY <1>5 DEF P
  <1>7. Done(0) = Slot
    <2>1. \A n \in Slot : n \in Live \ {0} => 0 <= LevelOf(n)
      BY <1>1 DEF Facts
    <2>2. QED
      BY <2>1
  <1>8. \A n \in Slot : f[n] = Unfolded(f, n)
    BY <1>6, <1>7
  <1>9. QED
    BY <1>6, <1>8 DEF IsMeaning

LEMMA MeaningRight == ASSUME TableOK PROVE IsMeaning(NodeMeaning)
  <1>1. \E f : IsMeaning(f)
    BY MeaningExists
  <1>2. NodeMeaning = CHOOSE f : IsMeaning(f)
    BY DEF NodeMeaning, IsMeaning, Unfolded
  <1>3. QED
    BY <1>1, <1>2

\* The functions of the nodes, and those of edges.
Unfolds ==
  /\ \A s \in Assignments : NodeMeaning[0][s] = 1
  /\ \A n \in Live : NodeMeaning[n] = [s \in Assignments |-> NodeMeaning[n][s]]
  /\ \A n \in Live : \A s \in Assignments : NodeMeaning[n][s] \in Weights
  /\ \A n \in Live \ {0} : \A s \in Assignments :
       /\ LevelOf(n) \in s =>
            NodeMeaning[n][s] = evdd_value_mul(node[n].wh, NodeMeaning[node[n].high][s])
       /\ LevelOf(n) \notin s =>
            NodeMeaning[n][s] = evdd_value_mul(node[n].wl, NodeMeaning[node[n].low][s])
  /\ \A e : Meaning(e) = [s \in Assignments |-> Meaning(e)[s]]
  /\ \A e : \A s \in Assignments : Meaning(e)[s] = evdd_value_mul(e.w, NodeMeaning[e.node][s])
  /\ \A e \in EdgeTo(Live) : \A s \in Assignments : Meaning(e)[s] \in Weights

LEMMA MeaningUnfolds == TableOK => Unfolds
  <1> SUFFICES ASSUME TableOK PROVE Unfolds
    OBVIOUS
  <1>1. Facts
    BY TableFacts
  <1>2. ASSUME NEW n \in Live PROVE NodeMeaning[n] = Unfolded(NodeMeaning, n) /\ node[n] # Free
    BY <1>1, MeaningRight DEF IsMeaning, Facts, Live
  <1>3. NodeMeaning[0] = [s \in Assignments |-> 1]
    BY <1>1, <1>2 DEF Unfolded, Const, Facts
  <1>4. \A s \in Assignments : NodeMeaning[0][s] = 1
    BY <1>3
  <1>5. ASSUME NEW n \in Live \ {0}
        PROVE  /\ NodeMeaning[n] = [s \in Assignments |-> NodeMeaning[n][s]]
               /\ \A s \in Assignments :
                    /\ LevelOf(n) \in s =>
                         NodeMeaning[n][s] = evdd_value_mul(node[n].wh, NodeMeaning[node[n].high][s])
                    /\ LevelOf(n) \notin s =>
                         NodeMeaning[n][s] = evdd_value_mul(node[n].wl, NodeMeaning[node[n].low][s])
    <2> DEFINE F(s) == IF node[n].level \in s
                         THEN evdd_value_mul(node[n].wh, NodeMeaning[node[n].high][s])
                         ELSE evdd_value_mul(node[n].wl, NodeMeaning[node[n].low][s])
    <2>1. NodeMeaning[n] = [s \in Assignments |-> F(s)]
      BY <1>2 DEF Unfolded, Const
    <2> HIDE DEF F
    <2>2. NodeMeaning[n] = [s \in Assignments |-> NodeMeaning[n][s]]
          /\ \A s \in Assignments : NodeMeaning[n][s] = F(s)
      BY <2>1
    <2>3. QED
      BY <2>2 DEF F, LevelOf
  <1>6. NodeMeaning[0] = [s \in Assignments |-> NodeMeaning[0][s]]
    BY <1>3
  <1>7. \A n \in Live : \A s \in Assignments : NodeMeaning[n][s] \in Weights
    <2> DEFINE P == {n \in Live : \A s \in Assignments : NodeMeaning[n][s] \in Weights}
    <2>1. ASSUME NEW n \in Live, Children(n) \subseteq P PROVE n \in P
      <3>1. CASE n = 0
        BY <1>4, <3>1, ModulusFacts
      <3>2. CASE n # 0
        <4>1. node[n].low \in P /\ node[n].high \in P /\ node[n].wl \in Weights /\ node[n].wh \in Weights
          BY <2>1, <3>2, InnerNode
        <4>2. \A s \in Assignments :
                /\ NodeMeaning[node[n].low][s] \in Weights /\ NodeMeaning[node[n].high][s] \in Weights
          BY <4>1
        <4>3. ASSUME NEW s \in Assignments PROVE NodeMeaning[n][s] \in Weights
          BY <1>5, <3>2, <4>1, <4>2, ProductType
        <4>4. QED
          BY <4>3
      <3>3. QED
        BY <3>1, <3>2
    <2>2. Live \subseteq P
      <3> HIDE DEF P
      <3>1. QED
        BY <1>1, <2>1, LevelInduction DEF Facts
    <2>3. QED
      BY <2>2
  <1>8. ASSUME NEW e
        PROVE  /\ Meaning(e) = [s \in Assignments |-> Meaning(e)[s]]
               /\ \A s \in Assignments : Meaning(e)[s] = evdd_value_mul(e.w, NodeMeaning[e.node][s])
    <2> DEFINE F(s) == evdd_value_mul(e.w, NodeMeaning[e.node][s])
    <2>1. Meaning(e) = [s \in Assignments |-> F(s)]
      BY DEF Meaning
    <2> HIDE DEF F
    <2>2. Meaning(e) = [s \in Assignments |-> Meaning(e)[s]] /\ \A s \in Assignments : Meaning(e)[s] = F(s)
      BY <2>1
    <2>3. QED
      BY <2>2 DEF F
  <1>9. \A e \in EdgeTo(Live) : \A s \in Assignments : Meaning(e)[s] \in Weights
    <2>1. ASSUME NEW e \in EdgeTo(Live) PROVE e.w \in Weights /\ e.node \in Live
      BY RecordsNotEmpty
    <2>2. ASSUME NEW e \in EdgeTo(Live), NEW s \in Assignments PROVE NodeMeaning[e.node][s] \in Weights
      BY <1>7, <2>1
    <2>3. QED
      BY <1>8, <2>1, <2>2, ProductType
  <1>10. \A n \in Live : NodeMeaning[n] = [s \in Assignments |-> NodeMeaning[n][s]]
    BY <1>5, <1>6
  <1>11. QED
    BY <1>4, <1>5, <1>7, <1>8, <1>9, <1>10 DEF Unfolds

LEMMA MeaningUnfoldsNext == TableOK' => Unfolds'
  BY MeaningUnfolds, PTL

\* The functions of two edges, point by point.
LEMMA SameFunction ==
  ASSUME TableOK, NEW d, NEW e, \A s \in Assignments : Meaning(d)[s] = Meaning(e)[s]
  PROVE  Meaning(d) = Meaning(e)
  BY MeaningUnfolds DEF Unfolds

\* A node that stays, and an edge to it, keep their functions.
LEMMA MeaningKept ==
  ASSUME TableOK, NEW K, NodesStay(K), TableOK'
  PROVE  /\ \A n \in K : NodeMeaning'[n] = NodeMeaning[n]
         /\ \A e \in EdgeTo(K) : Meaning(e)' = Meaning(e)
  <1> DEFINE P == {m \in K : \A s \in Assignments : NodeMeaning'[m][s] = NodeMeaning[m][s]}
  <1>0. Assignments' = Assignments
    BY DEF Assignments
  <1>1. ASSUME NEW m \in K, Children(m) \subseteq P PROVE m \in P
    <2>1. m \in Live /\ m \in Live' /\ node'[m] = node[m] /\ LevelOf(m)' = LevelOf(m)
      BY StaysSame
    <2>2. CASE m = 0
      BY <1>0, <2>2, MeaningUnfolds, MeaningUnfoldsNext DEF Unfolds
    <2>3. CASE m # 0
      <3>1. node[m].low \in P /\ node[m].high \in P
        BY <1>1, <2>1, <2>3, InnerNode
      <3>2. ASSUME NEW s \in Assignments PROVE NodeMeaning'[m][s] = NodeMeaning[m][s]
        <4>1. /\ LevelOf(m) \in s =>
                   NodeMeaning[m][s] = evdd_value_mul(node[m].wh, NodeMeaning[node[m].high][s])
              /\ LevelOf(m) \notin s =>
                   NodeMeaning[m][s] = evdd_value_mul(node[m].wl, NodeMeaning[node[m].low][s])
          BY <2>1, <2>3, MeaningUnfolds DEF Unfolds
        <4>2. /\ LevelOf(m)' \in s =>
                   NodeMeaning'[m][s] = evdd_value_mul(node'[m].wh, NodeMeaning'[node'[m].high][s])
              /\ LevelOf(m)' \notin s =>
                   NodeMeaning'[m][s] = evdd_value_mul(node'[m].wl, NodeMeaning'[node'[m].low][s])
          BY <1>0, <2>1, <2>3, MeaningUnfoldsNext DEF Unfolds
        <4>3. QED
          BY <2>1, <3>1, <4>1, <4>2
      <3>3. QED
        BY <3>2
    <2>4. QED
      BY <2>2, <2>3
  <1>2. K \subseteq P
    <2>1. K \in SUBSET Live /\ Closed(K)
      BY DEF NodesStay
    <2> HIDE DEF P
    <2>2. QED
      BY <1>1, <2>1, LevelInduction
  <1>3. ASSUME NEW n \in K PROVE NodeMeaning'[n] = NodeMeaning[n]
    <2>1. n \in Live /\ n \in Live'
      BY StaysSame
    <2>2. /\ NodeMeaning[n] = [s \in Assignments |-> NodeMeaning[n][s]]
          /\ NodeMeaning'[n] = [s \in Assignments |-> NodeMeaning'[n][s]]
      BY <1>0, <2>1, MeaningUnfolds, MeaningUnfoldsNext DEF Unfolds
    <2>3. \A s \in Assignments : NodeMeaning'[n][s] = NodeMeaning[n][s]
      BY <1>2
    <2>4. QED
      BY <2>2, <2>3
  <1>4. ASSUME NEW e \in EdgeTo(K) PROVE Meaning(e)' = Meaning(e)
    <2>1. e.node \in K
      BY RecordsNotEmpty
    <2>2. NodeMeaning'[e.node] = NodeMeaning[e.node]
      BY <1>3, <2>1
    <2>3. QED
      BY <1>0, <2>2 DEF Meaning
  <1>5. QED
    BY <1>3, <1>4

----------------------------------------------------------------------------
\* Making a node.

Asked(level, low, high) ==
  /\ level \in 0..(Terminal - 1) /\ low \in EdgeTo(Live) /\ high \in EdgeTo(Live)
  /\ level < LevelOf(low.node) /\ level < LevelOf(high.node)

\* The edge is to a node with that level and those edges, or the two edges
\* are one.
Made(level, low, high, res) ==
  /\ res \in EdgeTo(Live)
  /\ \/ low = high /\ res = low
     \/ /\ low # high /\ res.w = 1 /\ res.node # 0
        /\ node[res.node] = [level |-> level, low |-> low.node, wl |-> low.w,
                             high |-> high.node, wh |-> high.w]

\* What stays of the table and of the cache: no other node comes.
Keeps(K, low, high, res, cache) ==
  /\ Stays(K) /\ low.node \in K /\ high.node \in K /\ Live' \subseteq K \cup {res.node}
  /\ \/ cache = evdd_applycache /\ K = Live
     \/ cache = evdd_operator_reset

LEMMA RawMade ==
  ASSUME TableOK, NEW level, NEW low, NEW high, Asked(level, low, high), low.w # 0 \/ high.w # 0,
         NEW pushed, low.node \in Marked(pushed), high.node \in Marked(pushed),
         NEW res, res = Edge(res.node, res.w), NEW cache,
         evdd_makenode_raw(level, low, high, pushed, res, cache)
  PROVE  TableOK' /\ Made(level, low, high, res)' /\ \E K : Keeps(K, low, high, res, cache)
  <1> USE EvddAssumption
  <1> DEFINE key == [level |-> level, low |-> low.node, wl |-> low.w,
                     high |-> high.node, wh |-> high.w]
             found == {n \in Live \ {0} : node[n] = key}
             keep == Marked(pushed)
  <1>1. Facts
    BY TableFacts
  <1>2. /\ low.node \in Live /\ high.node \in Live /\ low.w \in Weights /\ high.w \in Weights
        /\ low = Edge(low.node, low.w) /\ high = Edge(high.node, high.w)
    BY RecordsNotEmpty DEF Asked
  <1>3. low # high <=> low.node # high.node \/ low.w # high.w
    BY <1>2
  <1>4. key \in Key
    BY <1>1, <1>2 DEF Key, Asked, Facts
  <1>5. evdd_value_unit_from_pair(low.w, high.w) = 1
    BY <1>2, UnitRight DEF evdd_value_unit_from_pair
  <1>6. 1 \in Weights
    BY ModulusFacts
  <1>7. CASE low = high /\ res = low /\ cache = evdd_applycache /\ UNCHANGED table
    <2>1. TableOK' /\ Stays(Live) /\ Live' = Live
      BY <1>7, NothingMoves
    <2>2. Made(level, low, high, res)'
      BY <1>7, <2>1 DEF Made, Asked, EdgeTo
    <2>3. Keeps(Live, low, high, res, cache)
      BY <1>2, <1>7, <2>1 DEF Keeps
    <2>4. QED
      BY <2>1, <2>2, <2>3
  <1>8. ASSUME low # high, res.w = 1, NEW K \in SUBSET Live, Closed(K), Marked({}) \subseteq K,
               low.node \in K, high.node \in K, NEW size \in evddnodesize..SlotBound,
               res.node \in (0..(size - 1)) \ K, found = {}, Rebuild(K, size, {res.node}, key)
        PROVE  /\ TableOK' /\ Made(level, low, high, res)' /\ Stays(K)
               /\ Live' \subseteq K \cup {res.node}
    <2>1. Fits(key, K)
      <3>1. \A n \in Live \ {0} : node[n] # key
        BY <1>8
      <3>2. /\ key.level = level /\ key.low = low.node /\ key.wl = low.w
            /\ key.high = high.node /\ key.wh = high.w
        OBVIOUS
      <3> HIDE DEF key
      <3>3. QED
        BY <1>3, <1>4, <1>8, <3>1, <3>2 DEF Fits, Asked
    <2>2. TableOK' /\ Stays(K) /\ Live' = K \cup {res.node} /\ node'[res.node] = key
      <3> HIDE DEF key
      <3>1. PICK N : N = {res.node}
        OBVIOUS
      <3>2. Rebuilds(K, size, N, key)
        BY <1>8, <2>1, <3>1 DEF Rebuilds
      <3>3. TableOK' /\ Stays(K) /\ Live' = K \cup N /\ \A n \in N : node'[n] = key
        BY <3>2, Rebuilt
      <3>4. QED
        BY <3>1, <3>3
    <2>3. 0 \in K
      BY <1>8, MarkedClosed
    <2>4. res.node # 0 /\ res.node \in Live'
      BY <1>8, <2>2, <2>3
    <2>5. res \in EdgeTo(Live')
      BY <1>6, <1>8, <2>4, EdgeIn
    <2>6. EdgeTo(Live)' = EdgeTo(Live')
      BY DEF EdgeTo, Weights
    <2>7. QED
      BY <1>8, <2>2, <2>4, <2>5, <2>6 DEF Made
  <1>9. CASE low # high /\ res.w = 1 /\ res.node \in found /\ cache = evdd_applycache /\ UNCHANGED table
    <2>1. TableOK' /\ Stays(Live) /\ Live' = Live
      BY <1>9, NothingMoves
    <2>2. res.node \in Live \ {0} /\ node'[res.node] = key
      BY <1>9 DEF table
    <2>3. res \in EdgeTo(Live)
      BY <1>6, <1>9, <2>2, EdgeIn
    <2>4. EdgeTo(Live)' = EdgeTo(Live)
      BY <2>1 DEF EdgeTo, Weights
    <2>5. Made(level, low, high, res)'
      BY <1>9, <2>2, <2>3, <2>4 DEF Made
    <2>6. Keeps(Live, low, high, res, cache)
      BY <1>2, <1>9, <2>1 DEF Keeps
    <2>7. QED
      BY <2>1, <2>5, <2>6
  <1>10. CASE /\ low # high /\ res.w = 1 /\ found = {} /\ cache = evdd_applycache
              /\ res.node \in Least(Slot \ Live) /\ Rebuild(Live, evddnodesize, {res.node}, key)
    <2>1. /\ Live \in SUBSET Live /\ Closed(Live) /\ Marked({}) \subseteq Live
          /\ evddnodesize \in evddnodesize..SlotBound
      BY <1>1, MarkedClosed DEF Facts, TableOK
    <2>2. res.node \in (0..(evddnodesize - 1)) \ Live
      BY <1>10 DEF Least, Slot
    <2>3. /\ TableOK' /\ Made(level, low, high, res)' /\ Stays(Live)
          /\ Live' \subseteq Live \cup {res.node}
      <3> HIDE DEF key, found
      <3>1. QED
        BY <1>2, <1>8, <1>10, <2>1, <2>2
    <2>4. Keeps(Live, low, high, res, cache)
      BY <1>2, <1>10, <2>3 DEF Keeps
    <2>5. QED
      BY <2>3, <2>4
  <1>11. CASE /\ low # high /\ res.w = 1 /\ found = {} /\ cache = evdd_operator_reset
              /\ \E size \in evddnodesize..SlotBound :
                   /\ res.node \in Least((0..(size - 1)) \ keep)
                   /\ Rebuild(keep, size, {res.node}, key)
    <2>1. PICK size \in evddnodesize..SlotBound :
            /\ res.node \in Least((0..(size - 1)) \ keep)
            /\ Rebuild(keep, size, {res.node}, key)
      BY <1>11
    <2>2. keep \in SUBSET Live /\ Closed(keep) /\ Marked({}) \subseteq keep
      BY MarkedClosed, MarkedMonotonic
    <2>3. res.node \in (0..(size - 1)) \ keep
      BY <2>1 DEF Least
    <2>4. low.node \in keep /\ high.node \in keep
      OBVIOUS
    <2>5. /\ TableOK' /\ Made(level, low, high, res)' /\ Stays(keep)
          /\ Live' \subseteq keep \cup {res.node}
      <3> HIDE DEF key, found, keep
      <3>1. QED
        BY <1>8, <1>11, <2>1, <2>2, <2>3, <2>4
    <2>6. Keeps(keep, low, high, res, cache)
      <3> HIDE DEF key, found, keep
      <3>1. QED
        BY <1>11, <2>4, <2>5 DEF Keeps
    <2>7. QED
      BY <2>5, <2>6
  <1>12. QED
    BY <1>5, <1>7, <1>9, <1>10, <1>11 DEF evdd_makenode_raw

\* evdd_norm_first_nonzero: the factor and the weights that are left.
LEMMA NormalizeRight ==
  ASSUME NEW wl \in Weights, NEW wh \in Weights, NEW n, n = evdd_value_normalize(wl, wh)
  PROVE  /\ n.incoming \in Weights /\ n.wl \in Weights /\ n.wh \in Weights
         /\ n.incoming = 0 <=> (wl = 0 /\ wh = 0)
         /\ n.incoming # 0 =>
              /\ evdd_value_mul(n.incoming, n.wl) = wl /\ evdd_value_mul(n.incoming, n.wh) = wh
              /\ (n.wl = 1 \/ (n.wl = 0 /\ n.wh = 1))
  <1>1. 0 \in Weights /\ 1 \in Weights
    BY ModulusFacts
  <1>2. CASE wl # 0
    <2>1. n.incoming = wl /\ n.wl = 1 /\ n.wh = evdd_value_div(wh, wl)
      BY <1>2, UnitRight DEF evdd_value_normalize
    <2>2. n.wh \in Weights /\ evdd_value_mul(wl, n.wh) = wh
      BY <1>2, <2>1, QuotientRight
    <2>3. evdd_value_mul(wl, 1) = wl
      BY ProductUnits
    <2>4. QED
      BY <1>1, <1>2, <2>1, <2>2, <2>3
  <1>3. CASE wl = 0
    <2>1. n.incoming = wh /\ n.wl = 0 /\ n.wh = evdd_value_unit(wh)
      BY <1>3 DEF evdd_value_normalize
    <2>2. n.wh = IF wh = 0 THEN 0 ELSE 1
      BY <2>1, UnitRight
    <2>3. evdd_value_mul(wh, 1) = wh /\ evdd_value_mul(wh, 0) = 0
      BY ProductUnits
    <2>4. QED
      BY <1>1, <1>3, <2>1, <2>2, <2>3
  <1>4. QED
    BY <1>2, <1>3

\* What evdd_makenode returns: unless both weights are 0, an edge to a node
\* with the weights that are left, times the factor.
Normalized(level, low, high, res) ==
  \/ low.w = 0 /\ high.w = 0 /\ res = Edge(0, 0)
  \/ \E inc, wl, wh, w \in Weights :
       /\ inc # 0 /\ low.w = evdd_value_mul(inc, wl) /\ high.w = evdd_value_mul(inc, wh)
       /\ (wl = 1 \/ (wl = 0 /\ wh = 1))
       /\ Made(level, Edge(low.node, wl), Edge(high.node, wh), Edge(res.node, w))
       /\ res = Edge(res.node, evdd_value_mul(inc, w))

LEMMA NodeMade ==
  ASSUME TableOK, NEW level, NEW low, NEW high, Asked(level, low, high),
         NEW res, res = Edge(res.node, res.w), NEW cache, evdd_makenode(level, low, high, res, cache)
  PROVE  TableOK' /\ Normalized(level, low, high, res)' /\ \E K : Keeps(K, low, high, res, cache)
  <1>1. PICK n : n = evdd_value_normalize(low.w, high.w)
    OBVIOUS
  <1>2. low.w \in Weights /\ high.w \in Weights /\ low.node \in Live /\ high.node \in Live
    BY RecordsNotEmpty DEF Asked
  <1>3. /\ n.incoming \in Weights /\ n.wl \in Weights /\ n.wh \in Weights
        /\ n.incoming = 0 <=> (low.w = 0 /\ high.w = 0)
        /\ n.incoming # 0 =>
             /\ evdd_value_mul(n.incoming, n.wl) = low.w /\ evdd_value_mul(n.incoming, n.wh) = high.w
             /\ (n.wl = 1 \/ (n.wl = 0 /\ n.wh = 1))
    BY <1>1, <1>2, NormalizeRight
  <1>4. CASE /\ n.incoming = 0 /\ res = evdd_false /\ cache = evdd_applycache /\ UNCHANGED table
    <2>1. TableOK' /\ Stays(Live) /\ Live' = Live
      BY <1>4, NothingMoves
    <2>2. Normalized(level, low, high, res)'
      BY <1>3, <1>4 DEF Normalized, evdd_false
    <2>3. Keeps(Live, low, high, res, cache)
      BY <1>2, <1>4, <2>1 DEF Keeps
    <2>4. QED
      BY <2>1, <2>2, <2>3
  <1>5. ASSUME n.incoming # 0, NEW w \in Weights,
               evdd_makenode_raw(level, Edge(low.node, n.wl), Edge(high.node, n.wh),
                                 {low.node, high.node}, Edge(res.node, w), cache),
               res.w = evdd_value_mul(n.incoming, w)
        PROVE  TableOK' /\ Normalized(level, low, high, res)' /\ \E K : Keeps(K, low, high, res, cache)
    <2>1. PICK l, h, e, p : /\ l = Edge(low.node, n.wl) /\ h = Edge(high.node, n.wh)
                            /\ e = Edge(res.node, w) /\ p = {low.node, high.node}
      OBVIOUS
    <2>2. /\ l.node = low.node /\ l.w = n.wl /\ h.node = high.node /\ h.w = n.wh
          /\ e = Edge(e.node, e.w) /\ e.node = res.node
      BY <2>1, RecordsNotEmpty
    <2>3. Asked(level, l, h)
      BY <1>2, <1>3, <2>1, <2>2, EdgeIn DEF Asked
    <2>4. l.w # 0 \/ h.w # 0
      BY <1>3, <1>5, <2>2, ModulusFacts
    <2>5. l.node \in Marked(p) /\ h.node \in Marked(p)
      <3>1. low.node \in Roots(p) /\ high.node \in Roots(p)
        BY <1>2, <2>1 DEF Roots
      <3>2. QED
        BY <2>2, <3>1, MarkedClosed
    <2>6. TableOK' /\ Made(level, l, h, e)' /\ \E K : Keeps(K, l, h, e, cache)
      <3>1. evdd_makenode_raw(level, l, h, p, e, cache)
        BY <1>5, <2>1
      <3>2. QED
        BY <2>2, <2>3, <2>4, <2>5, <3>1, RawMade
    <2>7. Made(level, Edge(low.node, n.wl), Edge(high.node, n.wh), Edge(res.node, w))'
      BY <2>1, <2>6
    <2>8. res = Edge(res.node, evdd_value_mul(n.incoming, w))
      BY <1>5
    <2>9. Weights' = Weights
      BY DEF Weights
    <2>10. Normalized(level, low, high, res)'
      BY <1>3, <1>5, <2>7, <2>8, <2>9 DEF Normalized
    <2>11. \E K : Keeps(K, low, high, res, cache)
      BY <2>2, <2>6 DEF Keeps
    <2>12. QED
      BY <2>6, <2>10, <2>11
  <1>6. \/ n.incoming = 0 /\ res = evdd_false /\ cache = evdd_applycache /\ UNCHANGED table
        \/ /\ n.incoming # 0
           /\ \E w \in Weights :
                /\ evdd_makenode_raw(level, Edge(low.node, n.wl), Edge(high.node, n.wh),
                                     {low.node, high.node}, Edge(res.node, w), cache)
                /\ res.w = evdd_value_mul(n.incoming, w)
    BY <1>1 DEF evdd_makenode
  <1>7. QED
    BY <1>4, <1>5, <1>6

\* The function of what is made, and what it keeps.
Built(level, low, high, res) ==
  /\ res \in EdgeTo(Live) /\ level <= LevelOf(res.node)
  /\ \A s \in Assignments :
       /\ level \in s => Meaning(res)[s] = Meaning(high)[s]
       /\ level \notin s => Meaning(res)[s] = Meaning(low)[s]
  /\ low.w # 0 \/ high.w # 0 =>
       /\ res.w # 0
       /\ {low.node, high.node} \subseteq {res.node} \cup Children(res.node)

\* The function of an edge to a node, times a weight.
LEMMA ScaledMeaning ==
  ASSUME TableOK, NEW n \in Live, NEW v \in Weights, NEW w \in Weights, NEW s \in Assignments
  PROVE  Meaning(Edge(n, evdd_value_mul(v, w)))[s] = evdd_value_mul(v, Meaning(Edge(n, w))[s])
  <1>1. NodeMeaning[n][s] \in Weights
    BY MeaningUnfolds DEF Unfolds
  <1>2. /\ Meaning(Edge(n, evdd_value_mul(v, w)))[s] = evdd_value_mul(evdd_value_mul(v, w), NodeMeaning[n][s])
        /\ Meaning(Edge(n, w))[s] = evdd_value_mul(w, NodeMeaning[n][s])
    BY MeaningUnfolds, RecordsNotEmpty DEF Unfolds
  <1>3. QED
    BY <1>1, <1>2, ProductAssociates

LEMMA MadeBuilt ==
  ASSUME TableOK, NEW level, NEW low, NEW high, Asked(level, low, high), low.w # 0 \/ high.w # 0,
         NEW res, Made(level, low, high, res)
  PROVE  Built(level, low, high, res)
  <1>1. Facts /\ Unfolds
    BY TableFacts, MeaningUnfolds
  <1>2. /\ low.w \in Weights /\ high.w \in Weights /\ low.node \in Live /\ high.node \in Live
        /\ low = Edge(low.node, low.w) /\ high = Edge(high.node, high.w)
        /\ res \in EdgeTo(Live) /\ res.node \in Live /\ level \in Nat
    BY RecordsNotEmpty, EvddAssumption DEF Asked, Made
  <1>3. CASE low = high /\ res = low
    <2>1. level < LevelOf(res.node) /\ LevelOf(res.node) \in Nat
      BY <1>1, <1>2, <1>3 DEF Asked, Facts
    <2>2. level <= LevelOf(res.node)
      BY <1>2, <2>1
    <2>3. res.w # 0 /\ {low.node, high.node} \subseteq {res.node}
      BY <1>3
    <2>4. QED
      BY <1>2, <1>3, <2>2, <2>3 DEF Built
  <1>4. CASE /\ low # high /\ res.w = 1 /\ res.node # 0
             /\ node[res.node] = [level |-> level, low |-> low.node, wl |-> low.w,
                                  high |-> high.node, wh |-> high.w]
    <2>1. /\ LevelOf(res.node) = level
          /\ node[res.node].low = low.node /\ node[res.node].wl = low.w
          /\ node[res.node].high = high.node /\ node[res.node].wh = high.w
      BY <1>4 DEF LevelOf
    <2>2. Children(res.node) = {low.node, high.node}
      BY <1>2, <1>4, <2>1, InnerNode
    <2>3. ASSUME NEW s \in Assignments
          PROVE  /\ level \in s => Meaning(res)[s] = Meaning(high)[s]
                 /\ level \notin s => Meaning(res)[s] = Meaning(low)[s]
      <3>1. NodeMeaning[res.node][s] \in Weights
        BY <1>1, <1>2 DEF Unfolds
      <3>2. Meaning(res)[s] = NodeMeaning[res.node][s]
        BY <1>1, <1>4, <3>1, ProductUnits DEF Unfolds
      <3>3. /\ Meaning(high)[s] = evdd_value_mul(high.w, NodeMeaning[high.node][s])
            /\ Meaning(low)[s] = evdd_value_mul(low.w, NodeMeaning[low.node][s])
        BY <1>1 DEF Unfolds
      <3>4. /\ LevelOf(res.node) \in s => NodeMeaning[res.node][s] =
                 evdd_value_mul(node[res.node].wh, NodeMeaning[node[res.node].high][s])
            /\ LevelOf(res.node) \notin s => NodeMeaning[res.node][s] =
                 evdd_value_mul(node[res.node].wl, NodeMeaning[node[res.node].low][s])
        BY <1>1, <1>2, <1>4 DEF Unfolds
      <3>5. QED
        BY <2>1, <3>2, <3>3, <3>4
    <2>4. level <= LevelOf(res.node) /\ res.w # 0
      BY <1>2, <1>4, <2>1
    <2>5. QED
      BY <1>2, <2>2, <2>3, <2>4 DEF Built
  <1>5. QED
    BY <1>3, <1>4 DEF Made

LEMMA NormalizedBuilt ==
  ASSUME TableOK, NEW level, NEW low, NEW high, Asked(level, low, high),
         NEW res, Normalized(level, low, high, res)
  PROVE  Built(level, low, high, res)
  <1>1. Facts /\ Unfolds
    BY TableFacts, MeaningUnfolds
  <1>2. /\ low.w \in Weights /\ high.w \in Weights /\ low.node \in Live /\ high.node \in Live
        /\ low = Edge(low.node, low.w) /\ high = Edge(high.node, high.w)
        /\ level \in 0..(Terminal - 1)
    BY RecordsNotEmpty DEF Asked
  <1>3. CASE low.w = 0 /\ high.w = 0 /\ res = Edge(0, 0)
    <2>1. res \in EdgeTo(Live) /\ res.node = 0 /\ res.w = 0
      BY <1>1, <1>3, EdgeIn, RecordsNotEmpty, ModulusFacts DEF Facts
    <2>2. level <= LevelOf(res.node)
      BY <1>1, <1>2, <2>1, EvddAssumption DEF Facts
    <2>3. ASSUME NEW e, e.w = 0, e.node \in Live, NEW s \in Assignments PROVE Meaning(e)[s] = 0
      <3>1. NodeMeaning[e.node][s] \in Weights /\ Meaning(e)[s] = evdd_value_mul(0, NodeMeaning[e.node][s])
        BY <1>1, <2>3 DEF Unfolds
      <3>2. QED
        BY <3>1, ProductUnits
    <2>4. \A s \in Assignments : Meaning(res)[s] = 0 /\ Meaning(low)[s] = 0 /\ Meaning(high)[s] = 0
      BY <1>1, <1>2, <1>3, <2>1, <2>3 DEF Facts
    <2>5. QED
      BY <1>3, <2>1, <2>2, <2>4 DEF Built
  <1>4. ASSUME NEW inc \in Weights, NEW wl \in Weights, NEW wh \in Weights, NEW w \in Weights,
               inc # 0, low.w = evdd_value_mul(inc, wl), high.w = evdd_value_mul(inc, wh),
               wl = 1 \/ (wl = 0 /\ wh = 1),
               Made(level, Edge(low.node, wl), Edge(high.node, wh), Edge(res.node, w)),
               res = Edge(res.node, evdd_value_mul(inc, w))
        PROVE  Built(level, low, high, res)
    <2>1. PICK l, h, e : /\ l = Edge(low.node, wl) /\ h = Edge(high.node, wh) /\ e = Edge(res.node, w)
      OBVIOUS
    <2>2. /\ l.node = low.node /\ l.w = wl /\ h.node = high.node /\ h.w = wh
          /\ e.node = res.node /\ e.w = w
      BY <2>1, RecordsNotEmpty
    <2>3. Asked(level, l, h) /\ (l.w # 0 \/ h.w # 0) /\ Made(level, l, h, e)
      <3>1. l \in EdgeTo(Live) /\ h \in EdgeTo(Live)
        BY <1>2, <1>4, <2>1, EdgeIn
      <3>2. l.w # 0 \/ h.w # 0
        BY <1>4, <2>2, ModulusFacts
      <3>3. Asked(level, l, h)
        BY <1>2, <2>2, <3>1 DEF Asked
      <3>4. Made(level, l, h, e)
        BY <1>4, <2>1
      <3>5. QED
        BY <3>2, <3>3, <3>4
    <2>4. Built(level, l, h, e)
      BY <2>3, MadeBuilt
    <2>5. e \in EdgeTo(Live) /\ res.node \in Live /\ level <= LevelOf(res.node)
      BY <2>2, <2>4, RecordsNotEmpty DEF Built
    <2>6. res.w = evdd_value_mul(inc, w) /\ res \in EdgeTo(Live)
      <3>1. PICK x \in Weights : x = evdd_value_mul(inc, w)
        BY ProductType
      <3>2. res = Edge(res.node, x)
        BY <1>4, <3>1
      <3>3. Edge(res.node, x).w = x /\ Edge(res.node, x) \in EdgeTo(Live)
        BY <2>5, EdgeIn, RecordsNotEmpty
      <3>4. QED
        BY <3>1, <3>2, <3>3
    <2>7. ASSUME NEW s \in Assignments
          PROVE  /\ level \in s => Meaning(res)[s] = Meaning(high)[s]
                 /\ level \notin s => Meaning(res)[s] = Meaning(low)[s]
      <3>1. /\ Meaning(res)[s] = evdd_value_mul(inc, Meaning(e)[s])
            /\ Meaning(low)[s] = evdd_value_mul(inc, Meaning(l)[s])
            /\ Meaning(high)[s] = evdd_value_mul(inc, Meaning(h)[s])
        BY <1>2, <1>4, <2>1, <2>5, ScaledMeaning
      <3>2. QED
        BY <2>4, <3>1 DEF Built
    <2>8. w # 0 /\ {low.node, high.node} \subseteq {res.node} \cup Children(res.node)
      BY <2>2, <2>3, <2>4 DEF Built
    <2>9. res.w # 0
      BY <1>4, <2>6, <2>8, ProductNonzero
    <2>10. QED
      BY <2>5, <2>6, <2>7, <2>8, <2>9 DEF Built
  <1>5. QED
    BY <1>3, <1>4 DEF Normalized

\* All that a call of evdd_makenode does.
Building ==
  \A level, low, high, res :
    Asked(level, low, high) /\ Normalized(level, low, high, res) => Built(level, low, high, res)

LEMMA AlwaysBuilding == TableOK => Building
  BY NormalizedBuilt DEF Building

LEMMA AlwaysBuildingNext == TableOK' => Building'
  BY AlwaysBuilding, PTL

LEMMA NodeBuilt ==
  ASSUME TableOK, NEW level, NEW low, NEW high, Asked(level, low, high),
         NEW res, res = Edge(res.node, res.w), NEW cache, evdd_makenode(level, low, high, res, cache)
  PROVE  /\ TableOK' /\ Normalized(level, low, high, res)' /\ Built(level, low, high, res)'
         /\ \E K : Keeps(K, low, high, res, cache)
         /\ Asked(level, low, high)'
  <1>1. TableOK' /\ Normalized(level, low, high, res)' /\ \E K : Keeps(K, low, high, res, cache)
    BY NodeMade
  <1>2. PICK K : Keeps(K, low, high, res, cache)
    BY <1>1
  <1>3. NodesStay(K) /\ low.node \in K /\ high.node \in K
    BY <1>2 DEF Keeps, Stays
  <1>4. /\ LevelOf(low.node)' = LevelOf(low.node) /\ LevelOf(high.node)' = LevelOf(high.node)
        /\ low.node \in Live' /\ high.node \in Live'
    BY <1>3, StaysSame
  <1>5. low \in EdgeTo(Live)' /\ high \in EdgeTo(Live)'
    <2>1. /\ low = Edge(low.node, low.w) /\ high = Edge(high.node, high.w)
          /\ low.w \in Weights /\ high.w \in Weights
      BY RecordsNotEmpty DEF Asked
    <2>2. low \in EdgeTo(Live') /\ high \in EdgeTo(Live')
      BY <1>4, <2>1, EdgeIn
    <2>3. QED
      BY <2>2 DEF EdgeTo, Weights
  <1>6. Asked(level, low, high)'
    BY <1>4, <1>5 DEF Asked
  <1>7. Built(level, low, high, res)'
    BY <1>1, <1>6, AlwaysBuildingNext DEF Building
  <1>8. QED
    BY <1>1, <1>6, <1>7

----------------------------------------------------------------------------
\* What a step keeps of the marks, of what hangs on counted nodes, and of the
\* edges that may be returned.

Marks ==
  /\ Marked({}) \subseteq Live /\ Closed(Marked({})) /\ Roots({}) \subseteq Marked({}) /\ 0 \in Marked({})
  /\ \A i \in DOMAIN evddrefstack : evddrefstack[i] \in Live => evddrefstack[i] \in Marked({})

LEMMA MarksHold == TableOK => Marks
  <1>1. TableOK => \A n \in Live : (\E i \in DOMAIN evddrefstack : evddrefstack[i] = n) => n \in Roots({})
    BY DEF Roots
  <1>2. QED
    BY <1>1, MarkedClosed DEF Marks

LEMMA MarksHoldNext == TableOK' => Marks'
  BY MarksHold, PTL

LEMMA MarksKept ==
  ASSUME TableOK, TableOK', NEW K, Stays(K),
         \A i \in DOMAIN evddrefstack : evddrefstack[i] \in Marked({})'
  PROVE  Marked({}) \subseteq Marked({})'
  <1> DEFINE S == Marked({}) \cap Marked({})'
  <1>1. Marks /\ Marks' /\ NodesStay(K) /\ Marked({}) \subseteq K /\ \A n \in K : refcou'[n] = refcou[n]
    BY MarksHold, MarksHoldNext DEF Stays
  <1>2. ASSUME NEW n \in S, NEW c \in Children(n) PROVE c \in S
    <2>1. n \in K /\ Children(n)' = Children(n)
      BY <1>1, StaysSame
    <2>2. c \in Marked({}) /\ c \in Marked({})'
      BY <1>1, <1>2, <2>1 DEF Marks, Closed
    <2>3. QED
      BY <2>2
  <1>3. ASSUME NEW n \in Roots({}) PROVE n \in S
    <2>1. n \in Marked({}) /\ n \in K /\ n \in Live'
      BY <1>1, <1>3, StaysSame DEF Marks
    <2>2. CASE refcou[n] > 0
      <3>1. n \in Roots({})'
        BY <1>1, <2>1, <2>2 DEF Roots
      <3>2. QED
        BY <1>1, <2>1, <3>1 DEF Marks
    <2>3. CASE \E i \in DOMAIN evddrefstack : evddrefstack[i] = n
      BY <2>1, <2>3
    <2>4. QED
      BY <1>3, <2>2, <2>3 DEF Roots
  <1>4. S \in SUBSET Live /\ Closed(S) /\ Roots({}) \subseteq S
    BY <1>1, <1>2, <1>3 DEF Marks, Closed
  <1> HIDE DEF S
  <1>5. Marked({}) \subseteq S
    BY <1>4, MarkedLeast
  <1>6. QED
    BY <1>5 DEF S

LEMMA ReachKept ==
  ASSUME TableOK, ClientOK, NEW K, Stays(K)
  PROVE  Reach \subseteq K /\ Reach' = Reach
  <1>1. /\ NodesStay(K) /\ Marked({}) \subseteq K /\ \A n \in K : refcou'[n] = refcou[n]
        /\ \A n \in Live' \ K : refcou'[n] = 0
    BY DEF Stays
  <1>2. Reach \subseteq Live /\ Reach \subseteq Marked({}) /\ Counted \subseteq Reach /\ Closed(Reach)
    BY ReachProtected
  <1>3. Reach \subseteq K /\ K \subseteq Live /\ K \subseteq Live' /\ Closed(K)
    BY <1>1, <1>2 DEF NodesStay
  <1>4. Counted' = Counted
    BY <1>1, <1>2, <1>3 DEF Counted
  <1>5. \A n \in K : Children(n)' = Children(n)
    BY <1>1, StaysSame
  <1>6. ASSUME NEW n \in Reach PROVE n \in Reach'
    <2>1. ASSUME NEW S \in SUBSET Live', Counted' \subseteq S, Closed(S)' PROVE n \in S
      <3>1. PICK T : T = S \cap Reach
        OBVIOUS
      <3>2. T \in SUBSET Live /\ Counted \subseteq T
        BY <1>2, <1>4, <2>1, <3>1
      <3>3. ASSUME NEW m \in T PROVE Children(m) \subseteq T
        <4>1. Children(m)' = Children(m) /\ m \in S /\ m \in Reach
          BY <1>3, <1>5, <3>1, <3>3
        <4>2. QED
          BY <1>2, <2>1, <3>1, <4>1 DEF Closed
      <3>4. Closed(T)
        BY <3>3 DEF Closed
      <3>5. QED
        BY <1>6, <3>1, <3>2, <3>4 DEF Reach
    <2>2. n \in Live'
      BY <1>3
    <2>3. QED
      BY <2>1, <2>2 DEF Reach
  <1>7. ASSUME NEW n \in Reach' PROVE n \in Reach
    <2>1. PICK S : S = Reach
      OBVIOUS
    <2>2. S \in SUBSET Live' /\ Counted' \subseteq S
      BY <1>2, <1>3, <1>4, <2>1
    <2>3. \A m \in S : Children(m)' \subseteq S
      BY <1>2, <1>3, <1>5, <2>1 DEF Closed
    <2>4. Closed(S)'
      BY <2>3 DEF Closed
    <2>5. n \in S
      BY <1>7, <2>2, <2>4 DEF Reach
    <2>6. QED
      BY <2>1, <2>5
  <1>8. QED
    BY <1>3, <1>6, <1>7

\* The edges that a call may get from the walk.
LEMMA NormalFormsKept ==
  ASSUME TableOK, ClientOK, NEW K, Stays(K), TableOK', Marked({}) \subseteq Marked({})'
  PROVE  /\ \A n \in Reach : \A e \in NormalForms(n) : e \in NormalForms(n)'
         /\ \A n \in Reach : \A w : \A e \in ChildForms(n, w) : e \in ChildForms(n, w)'
  <1>1. NodesStay(K) /\ Marked({}) \subseteq K /\ Reach \subseteq K
    BY ReachKept DEF Stays
  <1>2. /\ \A n \in K : NodeMeaning'[n] = NodeMeaning[n]
        /\ \A e \in EdgeTo(K) : Meaning(e)' = Meaning(e)
    BY <1>1, MeaningKept
  <1>3. \A n \in K : LevelOf(n)' = LevelOf(n)
    BY <1>1, StaysSame
  <1>4. ASSUME NEW e \in EdgeTo(Marked({}))
        PROVE  /\ e \in EdgeTo(Marked({}))' /\ e \in EdgeTo(K) /\ e.node \in K
    <2>1. e = Edge(e.node, e.w) /\ e.node \in Marked({}) /\ e.w \in Weights
      BY RecordsNotEmpty
    <2>2. e.node \in K /\ e.node \in Marked({})'
      BY <1>1, <2>1
    <2>3. e \in EdgeTo(K) /\ e \in EdgeTo(Marked({})')
      BY <2>1, <2>2, EdgeIn
    <2>4. EdgeTo(Marked({}))' = EdgeTo(Marked({})')
      BY DEF EdgeTo, Weights
    <2>5. QED
      BY <2>2, <2>3, <2>4
  <1>5. ASSUME NEW n \in Reach, NEW e \in NormalForms(n) PROVE e \in NormalForms(n)'
    <2>1. e \in EdgeTo(Marked({})) /\ e.w # 0 /\ LevelOf(n) <= LevelOf(e.node) /\ Meaning(e) = NodeMeaning[n]
      BY <1>5 DEF NormalForms
    <2>2. /\ Meaning(e)' = Meaning(e) /\ NodeMeaning'[n] = NodeMeaning[n]
          /\ LevelOf(n)' = LevelOf(n) /\ LevelOf(e.node)' = LevelOf(e.node) /\ e \in EdgeTo(Marked({}))'
      BY <1>1, <1>2, <1>3, <1>4, <2>1
    <2>3. QED
      BY <2>1, <2>2 DEF NormalForms
  <1>6. ASSUME NEW n \in Reach, NEW w, NEW e \in ChildForms(n, w) PROVE e \in ChildForms(n, w)'
    <2>1. e \in EdgeTo(Marked({})) /\ (e.w = 0 <=> w = 0) /\ LevelOf(n) <= LevelOf(e.node)
          /\ Meaning(e) = Meaning(Edge(n, w))
      BY <1>6 DEF ChildForms
    <2>2. Meaning(Edge(n, w))' = Meaning(Edge(n, w))
      <3>1. NodeMeaning'[n] = NodeMeaning[n]
        BY <1>1, <1>2
      <3>2. QED
        BY <3>1, RecordsNotEmpty DEF Meaning, Assignments
    <2>3. /\ Meaning(e)' = Meaning(e)
          /\ LevelOf(n)' = LevelOf(n) /\ LevelOf(e.node)' = LevelOf(e.node) /\ e \in EdgeTo(Marked({}))'
      BY <1>1, <1>2, <1>3, <1>4, <2>1
    <2>4. QED
      BY <2>1, <2>2, <2>3 DEF ChildForms
  <1>7. QED
    BY <1>5, <1>6

----------------------------------------------------------------------------
\* Operands of evdd_apply_rec and their cofactors.

LEMMA TopFacts ==
  ASSUME TableOK, NEW a \in EdgeTo(Live), NEW b \in EdgeTo(Live)
  PROVE  /\ a.node \in Live /\ b.node \in Live /\ a.w \in Weights /\ b.w \in Weights
         /\ Level(a) = LevelOf(a.node) /\ Level(b) = LevelOf(b.node)
         /\ Level(a) \in Nat /\ Level(b) \in Nat /\ TopLevel(a, b) \in Nat
         /\ TopLevel(a, b) <= Level(a) /\ TopLevel(a, b) <= Level(b)
         /\ TopLevel(a, b) \in {Level(a), Level(b)} /\ TopLevel(a, b) <= Terminal
         /\ TopLevel(a, b) < Terminal <=> (a.node # 0 \/ b.node # 0)
         /\ Level(a) = TopLevel(a, b) /\ TopLevel(a, b) < Terminal => a.node # 0
         /\ Level(b) = TopLevel(a, b) /\ TopLevel(a, b) < Terminal => b.node # 0
  <1> USE EvddAssumption
  <1>1. Facts /\ a.node \in Live /\ b.node \in Live /\ a.w \in Weights /\ b.w \in Weights
    BY TableFacts, RecordsNotEmpty
  <1>2. Level(a) = LevelOf(a.node) /\ Level(b) = LevelOf(b.node)
    BY <1>1 DEF Level, LevelOf, Const, Facts
  <1>3. /\ LevelOf(a.node) \in Nat /\ LevelOf(a.node) <= Terminal /\ (LevelOf(a.node) < Terminal <=> a.node # 0)
        /\ LevelOf(b.node) \in Nat /\ LevelOf(b.node) <= Terminal /\ (LevelOf(b.node) < Terminal <=> b.node # 0)
    BY <1>1 DEF Facts
  <1>4. QED
    BY <1>1, <1>2, <1>3 DEF TopLevel

\* An operand's cofactor, on or above its top level.
CofactorOf(c, e, k, high) ==
  /\ c \in EdgeTo(Live) /\ k < LevelOf(c.node)
  /\ c.node \in {e.node} \cup Children(e.node)
  /\ \A s \in Assignments : (k \in s <=> high) => Meaning(c)[s] = Meaning(e)[s]

LEMMA CofactorRight ==
  ASSUME TableOK, NEW e \in EdgeTo(Live), NEW k \in Nat, k <= LevelOf(e.node), k < Terminal
  PROVE  /\ CofactorOf(IF LevelOf(e.node) = k THEN evdd_edge_low(e) ELSE e, e, k, FALSE)
         /\ CofactorOf(IF LevelOf(e.node) = k THEN evdd_edge_high(e) ELSE e, e, k, TRUE)
  <1> USE EvddAssumption
  <1>1. Facts /\ Unfolds /\ e.node \in Live /\ e.w \in Weights /\ LevelOf(e.node) \in Nat
    BY TableFacts, MeaningUnfolds, RecordsNotEmpty DEF Facts
  <1>2. CASE LevelOf(e.node) # k
    <2>1. k < LevelOf(e.node)
      BY <1>1, <1>2
    <2>2. QED
      BY <1>2, <2>1 DEF CofactorOf
  <1>3. CASE LevelOf(e.node) = k
    <2>1. e.node # 0
      BY <1>1, <1>3 DEF Facts
    <2>2. PICK n : n = e.node
      OBVIOUS
    <2>3. /\ node[n].low \in Live /\ node[n].high \in Live /\ Children(n) = {node[n].low, node[n].high}
          /\ node[n].wl \in Weights /\ node[n].wh \in Weights
          /\ k < LevelOf(node[n].low) /\ k < LevelOf(node[n].high)
      BY <1>1, <1>3, <2>1, <2>2, InnerNode
    <2>4. PICK l, h : l = evdd_edge_low(e) /\ h = evdd_edge_high(e)
      OBVIOUS
    <2>5. /\ l = Edge(node[n].low, evdd_value_mul(e.w, node[n].wl))
          /\ h = Edge(node[n].high, evdd_value_mul(e.w, node[n].wh))
      BY <2>2, <2>4 DEF evdd_edge_low, evdd_edge_high
    <2>6. /\ l \in EdgeTo(Live) /\ l.node = node[n].low /\ l.w = evdd_value_mul(e.w, node[n].wl)
          /\ h \in EdgeTo(Live) /\ h.node = node[n].high /\ h.w = evdd_value_mul(e.w, node[n].wh)
      BY <1>1, <2>3, <2>5, ProductType, EdgeIn, RecordsNotEmpty
    <2>7. ASSUME NEW s \in Assignments
          PROVE  /\ k \in s => Meaning(h)[s] = Meaning(e)[s]
                 /\ k \notin s => Meaning(l)[s] = Meaning(e)[s]
      <3>1. /\ Meaning(e)[s] = evdd_value_mul(e.w, NodeMeaning[n][s])
            /\ Meaning(l)[s] = evdd_value_mul(evdd_value_mul(e.w, node[n].wl), NodeMeaning[node[n].low][s])
            /\ Meaning(h)[s] = evdd_value_mul(evdd_value_mul(e.w, node[n].wh), NodeMeaning[node[n].high][s])
        BY <1>1, <2>2, <2>6 DEF Unfolds
      <3>2. /\ k \in s => NodeMeaning[n][s] = evdd_value_mul(node[n].wh, NodeMeaning[node[n].high][s])
            /\ k \notin s => NodeMeaning[n][s] = evdd_value_mul(node[n].wl, NodeMeaning[node[n].low][s])
        BY <1>1, <1>3, <2>1, <2>2 DEF Unfolds
      <3>3. NodeMeaning[node[n].low][s] \in Weights /\ NodeMeaning[node[n].high][s] \in Weights
        BY <1>1, <2>3 DEF Unfolds
      <3>4. QED
        BY <1>1, <2>3, <3>1, <3>2, <3>3, ProductAssociates
    <2>8. CofactorOf(l, e, k, FALSE) /\ CofactorOf(h, e, k, TRUE)
      BY <2>2, <2>3, <2>6, <2>7 DEF CofactorOf
    <2>9. QED
      BY <1>3, <2>4, <2>8
  <1>4. QED
    BY <1>2, <1>3

\* The cofactors of two operands, below their top level.
Below(c, a, b, high) ==
  /\ CofactorOf(c.a, a, TopLevel(a, b), high) /\ CofactorOf(c.b, b, TopLevel(a, b), high)
  /\ TopLevel(a, b) < TopLevel(c.a, c.b)
  /\ \A S : Closed(S) /\ S \subseteq Live /\ a.node \in S /\ b.node \in S =>
       c.a \in EdgeTo(S) /\ c.b \in EdgeTo(S)

LEMMA OperandsBelow ==
  ASSUME TableOK, NEW a \in EdgeTo(Live), NEW b \in EdgeTo(Live), TopLevel(a, b) < Terminal
  PROVE  Below(LowOperands(a, b), a, b, FALSE) /\ Below(HighOperands(a, b), a, b, TRUE)
  <1>1. /\ Level(a) = LevelOf(a.node) /\ Level(b) = LevelOf(b.node) /\ TopLevel(a, b) \in Nat
        /\ TopLevel(a, b) <= Level(a) /\ TopLevel(a, b) <= Level(b)
    BY TopFacts
  <1>2. PICK k, l, h : k = TopLevel(a, b) /\ l = LowOperands(a, b) /\ h = HighOperands(a, b)
    OBVIOUS
  <1>3. /\ l.a = IF LevelOf(a.node) = k THEN evdd_edge_low(a) ELSE a
        /\ l.b = IF LevelOf(b.node) = k THEN evdd_edge_low(b) ELSE b
        /\ h.a = IF LevelOf(a.node) = k THEN evdd_edge_high(a) ELSE a
        /\ h.b = IF LevelOf(b.node) = k THEN evdd_edge_high(b) ELSE b
    BY <1>1, <1>2 DEF LowOperands, HighOperands
  <1>4. /\ CofactorOf(l.a, a, k, FALSE) /\ CofactorOf(l.b, b, k, FALSE)
        /\ CofactorOf(h.a, a, k, TRUE) /\ CofactorOf(h.b, b, k, TRUE)
    BY <1>1, <1>2, <1>3, CofactorRight
  <1>5. ASSUME NEW c, NEW high, CofactorOf(c.a, a, k, high), CofactorOf(c.b, b, k, high)
        PROVE  Below(c, a, b, high)
    <2>1. /\ c.a \in EdgeTo(Live) /\ c.b \in EdgeTo(Live) /\ k < LevelOf(c.a.node) /\ k < LevelOf(c.b.node)
          /\ c.a.node \in {a.node} \cup Children(a.node) /\ c.b.node \in {b.node} \cup Children(b.node)
      BY <1>5 DEF CofactorOf
    <2>2. k < TopLevel(c.a, c.b)
      <3>1. Level(c.a) = LevelOf(c.a.node) /\ Level(c.b) = LevelOf(c.b.node)
            /\ TopLevel(c.a, c.b) \in {Level(c.a), Level(c.b)}
        BY <2>1, TopFacts
      <3>2. QED
        BY <2>1, <3>1
    <2>3. ASSUME NEW S, Closed(S), S \subseteq Live, a.node \in S, b.node \in S
          PROVE  c.a \in EdgeTo(S) /\ c.b \in EdgeTo(S)
      <3>1. c.a.node \in S /\ c.b.node \in S
        BY <2>1, <2>3 DEF Closed
      <3>2. QED
        BY <2>1, <3>1 DEF EdgeTo
    <2>4. QED
      BY <1>2, <1>5, <2>2, <2>3 DEF Below
  <1>6. QED
    BY <1>2, <1>4, <1>5

\* Results stay right while their nodes stay.
LEMMA OperandsKept ==
  ASSUME TableOK, NEW K, NodesStay(K), TableOK', NEW a \in EdgeTo(K), NEW b \in EdgeTo(K)
  PROVE  /\ TopLevel(a, b)' = TopLevel(a, b) /\ LowOperands(a, b)' = LowOperands(a, b)
         /\ HighOperands(a, b)' = HighOperands(a, b)
         /\ \A op : Applied(op, a, b)' = Applied(op, a, b)
  <1>1. a.node \in K /\ b.node \in K /\ Meaning(a)' = Meaning(a) /\ Meaning(b)' = Meaning(b)
    BY RecordsNotEmpty, MeaningKept
  <1>2. node'[a.node] = node[a.node] /\ node'[b.node] = node[b.node]
    BY <1>1, StaysSame
  <1>3. Level(a)' = Level(a) /\ Level(b)' = Level(b)
    BY <1>2 DEF Level, Const
  <1>4. /\ evdd_edge_low(a)' = evdd_edge_low(a) /\ evdd_edge_low(b)' = evdd_edge_low(b)
        /\ evdd_edge_high(a)' = evdd_edge_high(a) /\ evdd_edge_high(b)' = evdd_edge_high(b)
    BY <1>2 DEF evdd_edge_low, evdd_edge_high, Edge, evdd_value_mul
  <1>5. TopLevel(a, b)' = TopLevel(a, b)
    BY <1>3 DEF TopLevel
  <1>6. \A op : Applied(op, a, b)' = Applied(op, a, b)
    BY <1>1 DEF Applied, Assignments
  <1>7. QED
    BY <1>3, <1>4, <1>5, <1>6 DEF LowOperands, HighOperands

LEMMA ResultsKept ==
  ASSUME TableOK, NEW K, NodesStay(K), TableOK', NEW op, NEW a \in EdgeTo(K), NEW b \in EdgeTo(K),
         NEW e \in Results(op, a, b, Live), e.node \in K
  PROVE  e \in Results(op, a, b, Live)'
  <1>1. e \in EdgeTo(Live) /\ TopLevel(a, b) <= LevelOf(e.node) /\ Meaning(e) = Applied(op, a, b)
    BY DEF Results
  <1>2. e = Edge(e.node, e.w) /\ e.w \in Weights /\ e.node \in Live'
    BY <1>1, RecordsNotEmpty DEF NodesStay
  <1>3. e \in EdgeTo(K) /\ e \in EdgeTo(Live')
    BY <1>2, EdgeIn
  <1>4. EdgeTo(Live)' = EdgeTo(Live')
    BY DEF EdgeTo, Weights
  <1>5. Meaning(e)' = Meaning(e) /\ LevelOf(e.node)' = LevelOf(e.node)
    BY <1>3, MeaningKept, StaysSame
  <1>6. TopLevel(a, b)' = TopLevel(a, b) /\ Applied(op, a, b)' = Applied(op, a, b)
    BY OperandsKept
  <1>7. QED
    BY <1>1, <1>3, <1>4, <1>5, <1>6 DEF Results

----------------------------------------------------------------------------
\* The cache of evdd_apply.

LEMMA CacheKept ==
  ASSUME TableOK, NodesStay(Live), TableOK', NEW cache, GoodCache(cache)
  PROVE  GoodCache(cache)'
  <1>1. ASSUME NEW entry, EntryOK(entry) PROVE EntryOK(entry)'
    <2>1. /\ entry.a \in EdgeTo(Live) /\ entry.b \in EdgeTo(Live) /\ entry.op \in Operators
          /\ entry.res \in Results(entry.op, entry.a, entry.b, Live)
      BY <1>1 DEF EntryOK
    <2>2. entry.res.node \in Live
      BY <2>1, RecordsNotEmpty DEF Results
    <2>3. PICK K : K = Live
      OBVIOUS
    <2>4. entry.res \in Results(entry.op, entry.a, entry.b, Live)'
      BY <2>1, <2>2, ResultsKept
    <2>5. K \subseteq Live'
      BY <2>3 DEF NodesStay
    <2>6. entry.a \in EdgeTo(Live)' /\ entry.b \in EdgeTo(Live)'
      BY <2>1, <2>3, <2>5 DEF EdgeTo, Weights
    <2>7. Operators' = Operators
      BY DEF Operators
    <2>8. QED
      BY <2>1, <2>4, <2>6, <2>7 DEF EntryOK
  <1>2. QED
    BY <1>1 DEF GoodCache, NoEntry

LEMMA CacheReset ==
  ASSUME GoodCache(evdd_applycache), NEW cache, cache = evdd_operator_reset
  PROVE  GoodCache(cache)'
  <1>1. cache = [i \in 0..(CacheSize - 1) |-> NoEntry]
    BY DEF GoodCache, evdd_operator_reset
  <1>2. QED
    BY <1>1 DEF GoodCache, NoEntry

LEMMA SlotIn ==
  ASSUME TableOK, NEW c \in Applies, NEW a \in EdgeTo(Live), NEW b \in EdgeTo(Live)
  PROVE  ApplyHash(a, b, c.op) \in 0..(CacheSize - 1)
  <1>1. Live \subseteq 0..(SlotBound - 1)
    BY EvddAssumption DEF Live, Slot, TableOK
  <1>2. a \in [node : 0..(SlotBound - 1), w : Weights] /\ b \in [node : 0..(SlotBound - 1), w : Weights]
    BY <1>1 DEF EdgeTo
  <1>3. QED
    BY <1>2, ApplyAssumption

\* A result goes to the cache.
Entry(c, a, b, res) == [a |-> a, b |-> b, op |-> c.op, res |-> res]
Storing ==
  \A cache : \A c \in Applies : \A a, b \in EdgeTo(Live) : \A res \in Results(c.op, a, b, Live) :
    GoodCache(cache) => GoodCache([cache EXCEPT ![ApplyHash(a, b, c.op)] = Entry(c, a, b, res)])

LEMMA AlwaysStoring == TableOK => Storing
  <1> SUFFICES ASSUME TableOK, NEW cache, NEW c \in Applies, NEW a \in EdgeTo(Live), NEW b \in EdgeTo(Live),
                      NEW res \in Results(c.op, a, b, Live), GoodCache(cache)
               PROVE  GoodCache([cache EXCEPT ![ApplyHash(a, b, c.op)] = Entry(c, a, b, res)])
    BY DEF Storing
  <1> DEFINE D == 0..(CacheSize - 1)
  <1>1. ApplyHash(a, b, c.op) \in D
    BY SlotIn
  <1>2. PICK i, entry, new : /\ i = ApplyHash(a, b, c.op) /\ entry = Entry(c, a, b, res)
                             /\ new = [cache EXCEPT ![ApplyHash(a, b, c.op)] = Entry(c, a, b, res)]
    OBVIOUS
  <1>3. entry.a = a /\ entry.b = b /\ entry.op = c.op /\ entry.res = res
    BY <1>2 DEF Entry
  <1>4. EntryOK(entry)
    BY <1>3 DEF EntryOK, Operators
  <1>5. cache = [j \in D |-> cache[j]] /\ \A j \in D : cache[j] # NoEntry => EntryOK(cache[j])
    BY DEF GoodCache
  <1>6. new = [cache EXCEPT ![i] = entry] /\ i \in D
    BY <1>1, <1>2
  <1> HIDE DEF D
  <1>7. new = [j \in D |-> new[j]] /\ \A j \in D : new[j] = IF j = i THEN entry ELSE cache[j]
    BY <1>5, <1>6
  <1>8. \A j \in D : new[j] # NoEntry => EntryOK(new[j])
    BY <1>4, <1>5, <1>7
  <1>9. GoodCache(new)
    BY <1>7, <1>8 DEF GoodCache, D
  <1>10. QED
    BY <1>2, <1>9

LEMMA AlwaysStoringNext == TableOK' => Storing'
  BY AlwaysStoring, PTL

----------------------------------------------------------------------------
\* The client.

LEMMA HeldEdges ==
  ASSUME TableOK, ClientOK
  PROVE  \A x \in Names : edge[x] # NoEdge =>
           edge[x] \in EdgeTo(Reach) /\ edge[x] \in EdgeTo(Live) /\ edge[x].node \in Reach
  <1>1. ASSUME NEW x \in Names, edge[x] # NoEdge
        PROVE  edge[x] \in EdgeTo(Reach) /\ edge[x] \in EdgeTo(Live) /\ edge[x].node \in Reach
    <2>1. edge[x] \in EdgeTo(Live) /\ edge[x].node \in Reach
      BY <1>1, ReachProtected DEF ClientOK
    <2>2. QED
      BY <2>1 DEF EdgeTo
  <1>2. QED
    BY <1>1

LEMMA ClientKept ==
  ASSUME TableOK, ClientOK, NEW K, Stays(K), TableOK', edge' = edge, evddrefstack' \in Seq(Live'),
         result' # None => result' \in [to : Names, e : EdgeTo(Live')] /\ edge[result'.to] = NoEdge
  PROVE  ClientOK'
  <1>1. /\ NodesStay(K) /\ \A n \in K : refcou'[n] = refcou[n]
        /\ Reach \subseteq K /\ K \subseteq Live /\ K \subseteq Live' /\ Slot \subseteq Slot'
    BY ReachKept DEF Stays, NodesStay
  <1>2. edge' \in [Names -> EdgeTo(Live') \cup {NoEdge}]
    <2>1. edge \in [Names -> EdgeTo(Live) \cup {NoEdge}]
      BY DEF ClientOK
    <2>2. ASSUME NEW x \in Names PROVE edge[x] \in EdgeTo(Live') \cup {NoEdge}
      <3>1. CASE edge[x] # NoEdge
        <4>1. edge[x] \in EdgeTo(Live) /\ edge[x].node \in Live'
          BY <1>1, <3>1, HeldEdges
        <4>2. QED
          BY <4>1 DEF EdgeTo
      <3>2. QED
        BY <3>1
    <2>3. QED
      BY <2>1, <2>2
  <1>3. \A n : Holders(n)' = Holders(n)
    BY DEF Holders, NoEdge
  <1>4. ASSUME NEW n \in Slot' PROVE refcou'[n] = MaxRef \/ Cardinality(Holders(n)) <= refcou'[n]
    <2>1. CASE n \in K
      <3>1. n \in Slot /\ refcou'[n] = refcou[n]
        BY <1>1, <2>1 DEF Live
      <3>2. QED
        BY <3>1 DEF ClientOK
    <2>2. CASE n \notin K
      <3>1. Holders(n) = {}
        BY <1>1, <2>2, HeldEdges DEF Holders
      <3>2. refcou'[n] \in 0..MaxRef
        BY DEF TableOK
      <3>3. QED
        BY <3>1, <3>2, FS_EmptySet
    <2>3. QED
      BY <2>1, <2>2
  <1>5. EdgeTo(Live)' = EdgeTo(Live') /\ NoEdge' = NoEdge /\ None' = None
    BY DEF EdgeTo, Weights, NoEdge, None
  <1>6. \A n \in Slot' : refcou'[n] = MaxRef \/ Cardinality(Holders(n))' <= refcou'[n]
    BY <1>3, <1>4
  <1>7. QED
    BY <1>2, <1>5, <1>6 DEF ClientOK

\* What a step shows of what the client holds: the nodes of it stay.
Keeping == \E K : NodesStay(K) /\ Reach \subseteq K

----------------------------------------------------------------------------
\* The calls of evdd_normalize_node that wait.

LEMMA AskedReached ==
  ASSUME TableOK, ClientOK, Walking
  PROVE  /\ AskedNode(frames) \in Reach
         /\ frames # <<>> => AskedNode(frames) = ChildOf(frames[Len(frames)])
  <1>1. CASE frames = <<>>
    <2>1. call.from \in Names /\ edge[call.from] # NoEdge
      BY CallAssumption DEF Walking
    <2>2. QED
      BY <1>1, <2>1, HeldEdges DEF AskedNode
  <1>2. CASE frames # <<>>
    <2>1. frames \in Seq(Frame) /\ Len(frames) \in DOMAIN frames
      BY <1>2 DEF Walking, WalkOK, Chain
    <2>2. PICK f : f = frames[Len(frames)]
      OBVIOUS
    <2>3. f.node \in Reach /\ f.node # 0
      <3>1. f \in Frame
        BY <2>1, <2>2
      <3>2. QED
        BY <3>1 DEF Frame
    <2>4. Children(f.node) = {node[f.node].low, node[f.node].high} /\ Children(f.node) \subseteq Reach
      BY <2>3, ReachProtected, InnerNode DEF Closed
    <2>5. AskedNode(frames) = ChildOf(f)
      BY <1>2, <2>2 DEF AskedNode
    <2>6. QED
      BY <1>2, <2>2, <2>4, <2>5 DEF ChildOf
  <1>3. QED
    BY <1>1, <1>2

LEMMA ChainPush ==
  ASSUME NEW fs, Chain(fs), ~AtMake(fs), NEW new \in Frame, new.node = AskedNode(fs), FrameOK(new)
  PROVE  Chain(Append(fs, new))
  <1> DEFINE k == Len(fs)
  <1>1. PICK gs : gs = Append(fs, new)
    OBVIOUS
  <1>2. /\ fs \in Seq(Frame) /\ k \in Nat /\ DOMAIN fs = 1..k
        /\ \A i \in 1..k : FrameOK(fs[i])
        /\ \A i \in 1..k : fs[i].node = IF i = 1 THEN edge[call.from].node ELSE ChildOf(fs[i - 1])
        /\ \A i \in 1..(k - 1) : fs[i].step # "make"
    BY DEF Chain
  <1>3. /\ gs \in Seq(Frame) /\ Len(gs) = k + 1 /\ DOMAIN gs = 1..(k + 1)
        /\ gs[k + 1] = new /\ \A i \in 1..k : gs[i] = fs[i]
    BY <1>1, <1>2
  <1>4. k # 0 => fs[k].step # "make" /\ new.node = ChildOf(fs[k])
    BY <1>2 DEF AtMake, AskedNode
  <1>5. k = 0 => new.node = edge[call.from].node
    BY <1>2 DEF AskedNode
  <1> HIDE DEF k
  <1>6. \A i \in 1..(k + 1) : i = k + 1 \/ i \in 1..k
    BY <1>2, OnePlaceMore
  <1>7. \A i \in 1..(k + 1) : FrameOK(gs[i])
    BY <1>2, <1>3, <1>6
  <1>8. ASSUME NEW i \in 1..(k + 1)
        PROVE  gs[i].node = IF i = 1 THEN edge[call.from].node ELSE ChildOf(gs[i - 1])
    <2>1. CASE i = k + 1
      <3>1. CASE k = 0
        BY <1>3, <1>5, <2>1, <3>1
      <3>2. CASE k # 0
        <4>1. i # 1 /\ i - 1 = k /\ k \in 1..k
          BY <1>2, <2>1, <3>2
        <4>2. QED
          BY <1>3, <1>4, <2>1, <3>2, <4>1
      <3>3. QED
        BY <3>1, <3>2
    <2>2. CASE i \in 1..k
      <3>1. i # 1 => i - 1 \in 1..k
        BY <1>2, <2>2
      <3>2. QED
        BY <1>2, <1>3, <2>2, <3>1
    <2>3. QED
      BY <1>6, <2>1, <2>2
  <1>9. \A i \in 1..((k + 1) - 1) : gs[i].step # "make"
    <2>1. (k + 1) - 1 = k /\ \A i \in 1..k : k # 0 /\ (i = k \/ i \in 1..(k - 1))
      BY <1>2, OnePlaceMore
    <2>2. QED
      BY <1>2, <1>3, <1>4, <2>1
  <1>10. Chain(gs)
    BY <1>3, <1>7, <1>8, <1>9 DEF Chain
  <1>11. QED
    BY <1>1, <1>10

\* The innermost call goes on.
LEMMA ChainTop ==
  ASSUME NEW fs, Chain(fs), fs # <<>>, NEW new \in Frame, new.node = fs[Len(fs)].node, FrameOK(new)
  PROVE  Chain([fs EXCEPT ![Len(fs)] = new])
  <1> DEFINE k == Len(fs)
  <1>1. PICK gs : gs = [fs EXCEPT ![Len(fs)] = new]
    OBVIOUS
  <1>2. /\ fs \in Seq(Frame) /\ k \in Nat \ {0} /\ DOMAIN fs = 1..k /\ k \in 1..k
        /\ \A i \in 1..k : FrameOK(fs[i])
        /\ \A i \in 1..k : fs[i].node = IF i = 1 THEN edge[call.from].node ELSE ChildOf(fs[i - 1])
        /\ \A i \in 1..(k - 1) : fs[i].step # "make"
    BY DEF Chain
  <1>3. /\ gs \in Seq(Frame) /\ Len(gs) = k /\ DOMAIN gs = 1..k
        /\ gs[k] = new /\ \A i \in 1..k : i # k => gs[i] = fs[i]
    BY <1>1, <1>2
  <1>4. new.node = fs[k].node
    OBVIOUS
  <1> HIDE DEF k
  <1>5. \A i \in 1..k : FrameOK(gs[i])
    BY <1>2, <1>3
  <1>6. ASSUME NEW i \in 1..k
        PROVE  gs[i].node = IF i = 1 THEN edge[call.from].node ELSE ChildOf(gs[i - 1])
    <2>1. i # 1 => i - 1 \in 1..k /\ i - 1 # k
      BY <1>2
    <2>2. gs[i].node = fs[i].node
      BY <1>3, <1>4
    <2>3. QED
      BY <1>2, <1>3, <2>1, <2>2
  <1>7. \A i \in 1..(k - 1) : gs[i].step # "make"
    <2>1. \A i \in 1..(k - 1) : i \in 1..k /\ i # k
      BY <1>2, PlacesBefore
    <2>2. QED
      BY <1>2, <1>3, <2>1
  <1>8. Chain(gs)
    BY <1>3, <1>5, <1>6, <1>7 DEF Chain
  <1>9. QED
    BY <1>1, <1>8

LEMMA NothingIn == ASSUME NEW S, NEW s \in Seq(S), Len(s) = 0 PROVE s = <<>>
  OBVIOUS

\* The innermost call returns.
LEMMA ChainPop ==
  ASSUME NEW fs, Chain(fs), fs # <<>>, NEW gs, gs = SubSeq(fs, 1, Len(fs) - 1)
  PROVE  Chain(gs) /\ AskedNode(gs) = fs[Len(fs)].node /\ ~AtMake(gs)
  <1> DEFINE k == Len(fs)
  <1>1. /\ fs \in Seq(Frame) /\ k \in Nat \ {0} /\ DOMAIN fs = 1..k /\ k \in 1..k
        /\ \A i \in 1..k : FrameOK(fs[i])
        /\ \A i \in 1..k : fs[i].node = IF i = 1 THEN edge[call.from].node ELSE ChildOf(fs[i - 1])
        /\ \A i \in 1..(k - 1) : fs[i].step # "make"
    BY DEF Chain
  <1>2. /\ gs \in Seq(Frame) /\ Len(gs) = k - 1 /\ DOMAIN gs = 1..(k - 1)
        /\ \A i \in 1..(k - 1) : gs[i] = fs[i]
    BY <1>1
  <1>3. gs = <<>> <=> k = 1
    <2>1. gs = <<>> => Len(gs) = 0
      OBVIOUS
    <2>2. Len(gs) = 0 => gs = <<>>
      BY <1>2, NothingIn
    <2> HIDE DEF k
    <2>3. Len(gs) = k - 1 /\ k \in Nat
      BY <1>1, <1>2
    <2>4. QED
      BY <2>1, <2>2, <2>3
  <1> HIDE DEF k
  <1>4. \A i \in 1..(k - 1) : i \in 1..k
    BY <1>1, PlacesBefore
  <1>5. \A i \in 1..(k - 1) : i # 1 => i - 1 \in 1..(k - 1)
    BY <1>1
  <1>6. \A i \in 1..((k - 1) - 1) : i \in 1..(k - 1)
    BY <1>1
  <1>7. Chain(gs)
    BY <1>1, <1>2, <1>4, <1>5, <1>6 DEF Chain
  <1>8. k # 1 => k - 1 \in 1..(k - 1) /\ k - 1 \in 1..k
    BY <1>1
  <1>9. AskedNode(gs) = fs[k].node
    BY <1>1, <1>2, <1>3, <1>8 DEF AskedNode
  <1>10. ~AtMake(gs)
    BY <1>1, <1>2, <1>3, <1>8 DEF AtMake
  <1>11. QED
    BY <1>7, <1>9, <1>10 DEF k

LEMMA ChainKept ==
  ASSUME TableOK, ClientOK, NEW K, Stays(K), TableOK', Marked({}) \subseteq Marked({})',
         edge' = edge, call' = call, NEW fs, Chain(fs)
  PROVE  Chain(fs)' /\ AskedNode(fs)' = AskedNode(fs)
  <1>1. NodesStay(K) /\ Reach \subseteq K /\ Reach' = Reach /\ Closed(Reach)
    BY ReachKept, ReachProtected DEF Stays
  <1>2. /\ fs \in Seq(Frame)
        /\ \A i \in DOMAIN fs : FrameOK(fs[i])
        /\ \A i \in DOMAIN fs : fs[i].node = IF i = 1 THEN edge[call.from].node ELSE ChildOf(fs[i - 1])
        /\ \A i \in 1..(Len(fs) - 1) : fs[i].step # "make"
    BY DEF Chain
  <1>3. Frame' = Frame
    BY <1>1 DEF Frame, EdgeTo, Weights, NoEdge
  <1>4. ASSUME NEW f \in Frame
        PROVE  /\ node'[f.node] = node[f.node] /\ ChildOf(f)' = ChildOf(f)
               /\ node[f.node].low \in Reach /\ node[f.node].high \in Reach
    <2>1. f.node \in Reach /\ f.node # 0
      BY DEF Frame
    <2>2. node'[f.node] = node[f.node]
      BY <1>1, <2>1 DEF NodesStay
    <2>3. node[f.node].low \in Reach /\ node[f.node].high \in Reach
      BY <1>1, <2>1, InnerNode DEF Closed, Reach
    <2>4. QED
      BY <2>2, <2>3 DEF ChildOf
  <1>5. ASSUME NEW f \in Frame, FrameOK(f) PROVE FrameOK(f)'
    <2>1. /\ f.low \in ChildForms(node[f.node].low, node[f.node].wl) =>
               f.low \in ChildForms(node[f.node].low, node[f.node].wl)'
          /\ f.high \in ChildForms(node[f.node].high, node[f.node].wh) =>
               f.high \in ChildForms(node[f.node].high, node[f.node].wh)'
      <3>1. PICK l, h, wl, wh : /\ l = node[f.node].low /\ h = node[f.node].high
                                /\ wl = node[f.node].wl /\ wh = node[f.node].wh
        OBVIOUS
      <3>2. l \in Reach /\ h \in Reach
        BY <1>4, <3>1
      <3>3. /\ f.low \in ChildForms(l, wl) => f.low \in ChildForms(l, wl)'
            /\ f.high \in ChildForms(h, wh) => f.high \in ChildForms(h, wh)'
        BY <3>2, NormalFormsKept
      <3>4. /\ l = node'[f.node].low /\ h = node'[f.node].high
            /\ wl = node'[f.node].wl /\ wh = node'[f.node].wh
        BY <1>4, <3>1
      <3>5. QED
        BY <3>1, <3>3, <3>4
    <2>2. QED
      BY <1>5, <2>1 DEF FrameOK, NoEdge
  <1>6. \A i \in DOMAIN fs : fs[i] \in Frame
    BY <1>2
  <1>7. \A i \in DOMAIN fs : i # 1 => i - 1 \in DOMAIN fs
    <2>1. Len(fs) \in Nat /\ DOMAIN fs = 1..Len(fs)
      BY <1>2
    <2>2. QED
      BY <2>1
  <1>8. \A i \in DOMAIN fs : FrameOK(fs[i])'
    BY <1>2, <1>5, <1>6
  <1>9. \A i \in DOMAIN fs : fs[i].node = IF i = 1 THEN edge'[call'.from].node ELSE ChildOf(fs[i - 1])'
    BY <1>2, <1>4, <1>6, <1>7
  <1>10. Chain(fs)'
    BY <1>2, <1>3, <1>8, <1>9 DEF Chain
  <1>11. AskedNode(fs)' = AskedNode(fs)
    <2>1. fs # <<>> => Len(fs) \in DOMAIN fs
      BY <1>2
    <2>2. fs # <<>> => ChildOf(fs[Len(fs)])' = ChildOf(fs[Len(fs)])
      BY <1>4, <1>6, <2>1
    <2>3. QED
      BY <2>2 DEF AskedNode
  <1>12. QED
    BY <1>10, <1>11

LEMMA MemoKept ==
  ASSUME TableOK, ClientOK, NEW K, Stays(K), TableOK', Marked({}) \subseteq Marked({})',
         NEW m, MemoOK(m)
  PROVE  MemoOK(m)'
  <1>1. Reach' = Reach
    BY ReachKept
  <1>2. \A n \in Reach : \A e \in NormalForms(n) : e \in NormalForms(n)'
    BY NormalFormsKept
  <1>3. QED
    BY <1>1, <1>2 DEF MemoOK, NoEdge

----------------------------------------------------------------------------
\* The steps of the walk.

\* A call, a result and a pair of operands are not nothing.
LEMMA SomethingIs ==
  /\ \A c \in Normalizes : c # None /\ c.from \in Names /\ c.to \in Names
  /\ \A c \in Applies : c # None /\ c.a \in Names /\ c.b \in Names /\ c.to \in Names
  /\ \A t, e : [to |-> t, e |-> e] # None
  /\ \A a, b : [a |-> a, b |-> b] # None
  <1>1. DOMAIN None = {}
    BY DEF None
  <1>2. \A c \in Normalizes : "from" \in DOMAIN c /\ c.from \in Names /\ c.to \in Names
    BY CallAssumption
  <1>3. \A c \in Applies : "a" \in DOMAIN c /\ c.a \in Names /\ c.b \in Names /\ c.to \in Names
    <2>1. ASSUME NEW c \in Applies PROVE "a" \in DOMAIN c
      <3>1. c = [a |-> c.a, b |-> c.b, op |-> c.op, to |-> c.to]
        BY ApplyAssumption
      <3>2. "a" \in DOMAIN [a |-> c.a, b |-> c.b, op |-> c.op, to |-> c.to]
        OBVIOUS
      <3>3. QED
        BY <3>1, <3>2
    <2>2. QED
      BY <2>1, ApplyAssumption
  <1>4. /\ \A t, e : "to" \in DOMAIN [to |-> t, e |-> e]
        /\ \A a, b : "a" \in DOMAIN [a |-> a, b |-> b]
    OBVIOUS
  <1>5. QED
    BY <1>1, <1>2, <1>3, <1>4

LEMMA WhileWalking ==
  ASSUME EvddInv, call # None
  PROVE  /\ TableOK /\ ClientOK /\ GoodCache(evdd_applycache) /\ Walking
         /\ applying = None /\ NotApplying
  <1>1. Walking
    BY DEF EvddInv
  <1>2. applying = None
    BY <1>1 DEF Walking
  <1>3. QED
    BY <1>1, <1>2 DEF EvddInv, Good

LEMMA WalkGoesOn ==
  ASSUME call # None, applying = None, NotApplying, UNCHANGED apply, call' = call,
         TableOK', ClientOK', GoodCache(evdd_applycache)', Walking'
  PROVE  EvddInv'
  <1>1. applying' = None /\ call' # None /\ NotApplying' /\ None' = None
    BY DEF apply, NotApplying, None, NoEdge
  <1>2. QED
    BY <1>1 DEF EvddInv, Good

\* A step that leaves the table, the cache and the client.
Still == UNCHANGED table /\ evdd_applycache' = evdd_applycache /\ edge' = edge

LEMMA TableStill ==
  ASSUME Good, Still, evddrefstack' \in Seq(Live),
         result' # None => result' \in [to : Names, e : EdgeTo(Live)] /\ edge[result'.to] = NoEdge
  PROVE  /\ TableOK' /\ ClientOK' /\ GoodCache(evdd_applycache)'
         /\ Stays(Live) /\ NodesStay(Live) /\ Live' = Live /\ Keeping
  <1>1. TableOK /\ ClientOK /\ GoodCache(evdd_applycache)
    BY DEF Good
  <1>2. TableOK' /\ Stays(Live) /\ NodesStay(Live) /\ Live' = Live
    BY <1>1, NothingMoves DEF Still, Stays
  <1>3. ClientOK'
    <2>1. result' # None => result' \in [to : Names, e : EdgeTo(Live')] /\ edge[result'.to] = NoEdge
      BY <1>2
    <2>2. evddrefstack' \in Seq(Live') /\ edge' = edge
      BY <1>2 DEF Still
    <2>3. QED
      BY <1>1, <1>2, <2>1, <2>2, ClientKept
  <1>4. GoodCache(evdd_applycache)'
    <2>1. PICK cache : cache = evdd_applycache
      OBVIOUS
    <2>2. GoodCache(cache)'
      BY <1>1, <1>2, <2>1, CacheKept
    <2>3. cache = evdd_applycache'
      BY <2>1 DEF Still
    <2>4. QED
      BY <2>2, <2>3
  <1>5. Keeping
    BY <1>2 DEF Keeping, Reach
  <1>6. QED
    BY <1>2, <1>3, <1>4, <1>5

LEMMA WalkStill ==
  ASSUME EvddInv, call # None, Still, UNCHANGED <<result, call, apply>>,
         NEW refs \in Seq(Live), refs = evddrefstack',
         \A i \in DOMAIN evddrefstack : i \in DOMAIN refs /\ refs[i] = evddrefstack[i],
         NEW fs, fs = frames', NEW ret, ret = returned', NEW m, m = memo', NEW c, c = calling',
         WalkOK(fs, refs, ret, m, c), ret # NoEdge => AskedNode(fs) \in Reach
  PROVE  EvddInv' /\ Keeping
  <1>1. /\ TableOK /\ ClientOK /\ GoodCache(evdd_applycache) /\ Walking
        /\ applying = None /\ NotApplying /\ Good /\ call' = call /\ result' = result
        /\ edge' = edge /\ applying' = applying
    BY WhileWalking DEF EvddInv, Still, apply
  <1>2. TableOK' /\ ClientOK' /\ GoodCache(evdd_applycache)' /\ Stays(Live) /\ Live' = Live /\ Keeping
    <2>1. result' = None
      BY <1>1 DEF Walking
    <2>2. QED
      BY <1>1, <2>1, TableStill
  <1>3. Marked({}) \subseteq Marked({})'
    <2>1. \A i \in DOMAIN evddrefstack : evddrefstack[i] \in Marked({})'
      <3>1. Marks'
        BY <1>2, MarksHoldNext
      <3>2. \A i \in DOMAIN evddrefstack' : evddrefstack'[i] \in Live'
        BY <1>2
      <3>3. \A i \in DOMAIN evddrefstack' : evddrefstack'[i] \in Marked({})'
        BY <3>1, <3>2 DEF Marks
      <3>4. QED
        BY <3>3
    <2>2. QED
      BY <1>1, <1>2, <2>1, MarksKept
  <1>4. /\ Chain(fs) /\ OnTop(fs, refs, ret) /\ MemoOK(m)
        /\ c # NoNode => c = AskedNode(fs) /\ c # 0 /\ ret = NoEdge /\ ~AtMake(fs)
        /\ ret # NoEdge => ret \in NormalForms(AskedNode(fs)) /\ ~AtMake(fs)
    BY DEF WalkOK
  <1>5. Chain(fs)' /\ AskedNode(fs)' = AskedNode(fs)
    BY <1>1, <1>2, <1>3, <1>4, ChainKept
  <1>6. MemoOK(m)'
    BY <1>1, <1>2, <1>3, <1>4, MemoKept
  <1>7. ret # NoEdge => ret \in NormalForms(AskedNode(fs))'
    <2>1. PICK n : n = AskedNode(fs)
      OBVIOUS
    <2>2. ret # NoEdge => ret \in NormalForms(n)'
      BY <1>1, <1>2, <1>3, <1>4, <2>1, NormalFormsKept
    <2>3. n = AskedNode(fs)'
      BY <1>5, <2>1
    <2>4. QED
      BY <2>2, <2>3
  <1>8. WalkOK(fs, refs, ret, m, c)'
    BY <1>4, <1>5, <1>6, <1>7 DEF WalkOK, OnTop, NoEdge, NoNode, AtMake
  <1>9. WalkOK(frames, evddrefstack, returned, memo, calling)'
    BY <1>8
  <1>10. Walking'
    BY <1>1, <1>9 DEF Walking, None, NoEdge
  <1>11. QED
    BY <1>1, <1>2, <1>10, WalkGoesOn

LEMMA RecallStep ==
  ASSUME EvddInv, UNCHANGED apply, Recall
  PROVE  EvddInv' /\ Keeping
  <1>1. call # None
    BY DEF EvddInv, NotWalking, Recall
  <1>2. ClientOK /\ TableOK /\ Walking
    BY <1>1, WhileWalking
  <1>3. PICK refs, fs, ret, m, c :
          /\ refs = evddrefstack' /\ fs = frames' /\ ret = returned' /\ m = memo' /\ c = calling'
    OBVIOUS
  <1>4. /\ refs = evddrefstack /\ fs = frames /\ m = memo /\ ret = memo[calling] /\ c = NoNode
        /\ calling # NoNode /\ memo[calling] # NoEdge
    BY <1>3 DEF Recall
  <1>5. /\ Chain(frames) /\ OnTop(frames, refs, returned) /\ MemoOK(memo)
        /\ calling = AskedNode(frames) /\ returned = NoEdge /\ ~AtMake(frames)
    BY <1>2, <1>4 DEF Walking, WalkOK
  <1>6. AskedNode(frames) \in Reach
    BY <1>2, AskedReached
  <1>7. ret \in NormalForms(AskedNode(frames))
    BY <1>4, <1>5, <1>6 DEF MemoOK
  <1>8. OnTop(fs, refs, ret)
    BY <1>4, <1>5 DEF OnTop
  <1>9. WalkOK(fs, refs, ret, m, c)
    BY <1>4, <1>5, <1>7, <1>8 DEF WalkOK
  <1>10. refs \in Seq(Live) /\ \A i \in DOMAIN evddrefstack : i \in DOMAIN refs /\ refs[i] = evddrefstack[i]
    BY <1>2, <1>4 DEF ClientOK
  <1>11. Still /\ UNCHANGED <<result, call, apply>>
    BY DEF Still, Recall
  <1>12. QED
    BY <1>1, <1>3, <1>4, <1>6, <1>9, <1>10, <1>11, WalkStill

LEMMA EnterStep ==
  ASSUME EvddInv, UNCHANGED apply, Enter
  PROVE  EvddInv' /\ Keeping
  <1>1. call # None
    BY DEF EvddInv, NotWalking, Enter
  <1>2. ClientOK /\ TableOK /\ Walking
    BY <1>1, WhileWalking
  <1>3. PICK refs, fs, ret, m, c :
          /\ refs = evddrefstack' /\ fs = frames' /\ ret = returned' /\ m = memo' /\ c = calling'
    OBVIOUS
  <1>4. PICK new : new = [node |-> calling, step |-> "low", low |-> NoEdge, high |-> NoEdge]
    OBVIOUS
  <1>5. /\ refs = evddrefstack /\ fs = Append(frames, new) /\ m = memo /\ ret = returned /\ c = NoNode
        /\ calling # NoNode
    BY <1>3, <1>4 DEF Enter
  <1>6. /\ Chain(frames) /\ OnTop(frames, refs, returned) /\ MemoOK(memo)
        /\ calling = AskedNode(frames) /\ calling # 0 /\ returned = NoEdge /\ ~AtMake(frames)
    BY <1>2, <1>5 DEF Walking, WalkOK
  <1>7. calling \in Reach \ {0}
    BY <1>2, <1>6, AskedReached
  <1>8. new \in Frame /\ new.node = calling /\ new.step = "low" /\ FrameOK(new)
    BY <1>4, <1>7 DEF Frame, FrameOK
  <1>9. Chain(fs)
    BY <1>5, <1>6, <1>8, ChainPush
  <1>10. Len(fs) = Len(frames) + 1 /\ fs[Len(fs)] = new
    BY <1>5, <1>6 DEF Chain
  <1>11. OnTop(fs, refs, ret) /\ ~AtMake(fs)
    BY <1>6, <1>8, <1>10 DEF OnTop, AtMake
  <1>12. WalkOK(fs, refs, ret, m, c)
    BY <1>5, <1>6, <1>9, <1>11 DEF WalkOK
  <1>13. refs \in Seq(Live) /\ \A i \in DOMAIN evddrefstack : i \in DOMAIN refs /\ refs[i] = evddrefstack[i]
    BY <1>2, <1>5 DEF ClientOK
  <1>14. Still /\ UNCHANGED <<result, call, apply>>
    BY DEF Still, Enter
  <1>15. QED
    BY <1>1, <1>3, <1>5, <1>6, <1>12, <1>13, <1>14, WalkStill

\* The innermost call is at a child.
LEMMA AtTheChild ==
  ASSUME EvddInv, AtChild
  PROVE  /\ call # None /\ ClientOK /\ TableOK /\ Walking /\ Len(frames) \in Nat \ {0}
         /\ Top \in Frame /\ FrameOK(Top) /\ ~AtMake(frames) /\ Child = AskedNode(frames)
         /\ Child \in Reach /\ Child = ChildOf(Top) /\ ChildWeight \in Weights
         /\ LevelOf(Top.node) < LevelOf(Child)
  <1>1. frames # <<>> /\ calling = NoNode /\ Top.step \in {"low", "high"}
    BY DEF AtChild
  <1>2. call # None
    BY <1>1 DEF EvddInv, NotWalking
  <1>3. ClientOK /\ TableOK /\ Walking
    BY <1>2, WhileWalking
  <1>4. Chain(frames)
    BY <1>3 DEF Walking, WalkOK
  <1>5. Len(frames) \in DOMAIN frames /\ Len(frames) \in Nat \ {0}
    BY <1>1, <1>4 DEF Chain
  <1>6. Top \in Frame /\ FrameOK(Top)
    BY <1>4, <1>5 DEF Chain, Top
  <1>7. ~AtMake(frames)
    BY <1>1 DEF AtMake, Top
  <1>8. Child = ChildOf(Top)
    BY DEF Child, ChildOf
  <1>9. Child = AskedNode(frames) /\ Child \in Reach
    BY <1>1, <1>3, <1>8, AskedReached DEF Top
  <1>10. Top.node \in Live /\ Top.node # 0
    BY <1>6 DEF Frame, Reach
  <1>11. ChildWeight \in Weights /\ LevelOf(Top.node) < LevelOf(Child)
    BY <1>3, <1>10, InnerNode DEF ChildWeight, Child
  <1>12. QED
    BY <1>2, <1>3, <1>5, <1>6, <1>7, <1>8, <1>9, <1>11

LEMMA DescendStep ==
  ASSUME EvddInv, UNCHANGED apply, Descend
  PROVE  EvddInv' /\ Keeping
  <1>1. AtChild /\ returned = NoEdge /\ Child # 0
    BY DEF Descend, Const
  <1>2. call # None /\ ClientOK /\ Walking /\ ~AtMake(frames) /\ Child = AskedNode(frames)
    BY <1>1, AtTheChild
  <1>3. PICK refs, fs, ret, m, c :
          /\ refs = evddrefstack' /\ fs = frames' /\ ret = returned' /\ m = memo' /\ c = calling'
    OBVIOUS
  <1>4. refs = evddrefstack /\ fs = frames /\ m = memo /\ ret = returned /\ c = Child
    BY <1>3 DEF Descend
  <1>5. WalkOK(fs, refs, ret, m, c)
    BY <1>1, <1>2, <1>4 DEF Walking, WalkOK
  <1>6. refs \in Seq(Live) /\ \A i \in DOMAIN evddrefstack : i \in DOMAIN refs /\ refs[i] = evddrefstack[i]
    BY <1>2, <1>4 DEF ClientOK
  <1>7. Still /\ UNCHANGED <<result, call, apply>>
    BY DEF Still, Descend
  <1>8. QED
    BY <1>1, <1>2, <1>3, <1>4, <1>5, <1>6, <1>7, WalkStill

\* The edge to a normalized child.
LEMMA ChildNormalized ==
  ASSUME TableOK, NEW c \in Live, NEW w \in Weights, NEW e,
         \/ c = 0 /\ e = Edge(c, w)
         \/ \E r \in NormalForms(c) : e = Edge(r.node, evdd_value_mul(w, r.w))
  PROVE  e \in ChildForms(c, w)
  <1>1. CASE c = 0 /\ e = Edge(c, w)
    <2>1. 0 \in Marked({})
      BY MarkedClosed
    <2>2. e \in EdgeTo(Marked({})) /\ e.w = w /\ e.node = c
      BY <1>1, <2>1, EdgeIn, RecordsNotEmpty
    <2>3. LevelOf(c) <= LevelOf(e.node)
      BY <2>2, TableFacts DEF Facts
    <2>4. QED
      BY <1>1, <2>2, <2>3 DEF ChildForms
  <1>2. ASSUME NEW r \in NormalForms(c), e = Edge(r.node, evdd_value_mul(w, r.w))
        PROVE  e \in ChildForms(c, w)
    <2>1. r \in EdgeTo(Marked({})) /\ r.w # 0 /\ LevelOf(c) <= LevelOf(r.node) /\ Meaning(r) = NodeMeaning[c]
      BY DEF NormalForms
    <2>2. r.node \in Marked({}) /\ r.w \in Weights /\ r = Edge(r.node, r.w)
      BY <2>1, RecordsNotEmpty
    <2>3. PICK v \in Weights : v = evdd_value_mul(w, r.w)
      BY <2>2, ProductType
    <2>4. e = Edge(r.node, v)
      BY <1>2, <2>3
    <2>5. e.node = r.node /\ e.w = v /\ e \in EdgeTo(Marked({}))
      BY <2>2, <2>4, EdgeIn, RecordsNotEmpty
    <2>6. v = 0 <=> w = 0
      BY <2>1, <2>2, <2>3, ProductNonzero, ProductUnits
    <2>7. r.node \in Live
      BY <2>2, MarkedClosed
    <2>8. ASSUME NEW s \in Assignments PROVE Meaning(e)[s] = Meaning(Edge(c, w))[s]
      <3>1. Meaning(e)[s] = evdd_value_mul(w, Meaning(r)[s])
        BY <1>2, <2>2, <2>7, ScaledMeaning
      <3>2. Meaning(Edge(c, w))[s] = evdd_value_mul(w, NodeMeaning[c][s])
        BY MeaningUnfolds, RecordsNotEmpty DEF Unfolds
      <3>3. QED
        BY <2>1, <3>1, <3>2
    <2>9. Meaning(e) = Meaning(Edge(c, w))
      BY <2>8, SameFunction
    <2>10. QED
      BY <2>1, <2>5, <2>6, <2>9 DEF ChildForms
  <1>3. QED
    BY <1>1, <1>2

LEMMA TakeChildStep ==
  ASSUME EvddInv, UNCHANGED apply, TakeChild
  PROVE  EvddInv' /\ Keeping
  <1>1. AtChild /\ Const(Child) = (returned = NoEdge)
    BY DEF TakeChild
  <1>2. /\ call # None /\ ClientOK /\ TableOK /\ Walking /\ Len(frames) \in Nat \ {0}
        /\ Top \in Frame /\ FrameOK(Top) /\ ~AtMake(frames) /\ Child = AskedNode(frames)
        /\ Child \in Reach /\ Child = ChildOf(Top) /\ ChildWeight \in Weights
    BY <1>1, AtTheChild
  <1>3. /\ frames # <<>> /\ calling = NoNode /\ Top = frames[Len(frames)] /\ Top.step \in {"low", "high"}
        /\ (Child = 0 <=> returned = NoEdge)
    BY <1>1 DEF AtChild, Top, Const
  <1>4. PICK refs, fs, ret, m, c :
          /\ refs = evddrefstack' /\ fs = frames' /\ ret = returned' /\ m = memo' /\ c = calling'
    OBVIOUS
  <1>5. PICK e : /\ e = IF Const(Child) THEN Edge(Child, ChildWeight)
                        ELSE Edge(returned.node, evdd_value_mul(ChildWeight, returned.w))
                 /\ Push(e)
                 /\ frames' = [frames EXCEPT ![Len(frames)] =
                                 IF Top.step = "low" THEN [@ EXCEPT !.step = "high", !.low = e]
                                                     ELSE [@ EXCEPT !.step = "make", !.high = e]]
    BY DEF TakeChild
  <1>6. PICK f, new : /\ f = Top
                      /\ new = IF f.step = "low" THEN [f EXCEPT !.step = "high", !.low = e]
                                                 ELSE [f EXCEPT !.step = "make", !.high = e]
    OBVIOUS
  <1>7. /\ refs = Append(evddrefstack, e.node) /\ fs = [frames EXCEPT ![Len(frames)] = new]
        /\ ret = NoEdge /\ m = memo /\ c = NoNode
    BY <1>3, <1>4, <1>5, <1>6 DEF TakeChild, Push, Top
  <1>8. /\ Chain(frames) /\ OnTop(frames, evddrefstack, returned) /\ MemoOK(memo)
        /\ returned # NoEdge => returned \in NormalForms(Child)
    BY <1>2 DEF Walking, WalkOK
  <1>9. Child \in Live
    BY <1>2 DEF Reach
  <1>10. e \in ChildForms(Child, ChildWeight)
    <2>1. Child = 0 => e = Edge(Child, ChildWeight)
      BY <1>5 DEF Const
    <2>2. Child # 0 => e = Edge(returned.node, evdd_value_mul(ChildWeight, returned.w))
      BY <1>5 DEF Const
    <2>3. Child # 0 => returned \in NormalForms(Child)
      BY <1>3, <1>8
    <2>4. QED
      BY <1>2, <1>9, <2>1, <2>2, <2>3, ChildNormalized
  <1>11. e \in EdgeTo(Marked({})) /\ e.node \in Live /\ e \in EdgeTo(Nat) /\ e # NoEdge
    <2>1. e \in EdgeTo(Marked({}))
      BY <1>10 DEF ChildForms
    <2>2. e.node \in Live /\ e.node \in Nat /\ e # NoEdge /\ e.w \in Weights /\ e = Edge(e.node, e.w)
      BY <1>2, <2>1, MarkedClosed, TableFacts, RecordsNotEmpty DEF Facts
    <2>3. QED
      BY <2>1, <2>2, EdgeIn
  <1>12. e.node = IF Child = 0 THEN 0 ELSE returned.node
    BY <1>5, RecordsNotEmpty DEF Const
  <1>13. f \in Frame /\ FrameOK(f) /\ f.step \in {"low", "high"} /\ Child = ChildOf(f)
    BY <1>2, <1>3, <1>6
  <1>14. /\ f.step = "low" => /\ Child = node[f.node].low /\ ChildWeight = node[f.node].wl
                              /\ new = [f EXCEPT !.step = "high", !.low = e]
         /\ f.step = "high" => /\ Child = node[f.node].high /\ ChildWeight = node[f.node].wh
                               /\ new = [f EXCEPT !.step = "make", !.high = e]
    BY <1>6, <1>13 DEF ChildOf, ChildWeight
  <1>15. /\ new \in Frame /\ new.node = f.node
         /\ f.step = "low" => new.step = "high" /\ new.low = e /\ new.high = f.high
         /\ f.step = "high" => new.step = "make" /\ new.low = f.low /\ new.high = e
    BY <1>11, <1>13, <1>14 DEF Frame
  <1>16. FrameOK(new)
    BY <1>10, <1>13, <1>14, <1>15 DEF FrameOK
  <1>17. Chain(fs)
    BY <1>3, <1>6, <1>7, <1>8, <1>15, <1>16, ChainTop
  <1>18. fs # <<>> /\ fs[Len(fs)] = new
    <2>1. frames \in Seq(Frame)
      BY <1>8 DEF Chain
    <2>2. QED
      BY <1>2, <1>7, <2>1
  <1>19. refs \in Seq(Live) /\ \A i \in DOMAIN evddrefstack : i \in DOMAIN refs /\ refs[i] = evddrefstack[i]
    BY <1>2, <1>7, <1>11 DEF ClientOK
  <1>20. OnTop(fs, refs, ret)
    <2>1. /\ evddrefstack \in Seq(Live) /\ Len(evddrefstack) > 0
          /\ f.step = "high" => evddrefstack[Len(evddrefstack)] \in
                                  {f.low.node} \cup {x.node : x \in {returned} \ {NoEdge}}
      BY <1>2, <1>3, <1>6, <1>8 DEF OnTop, ClientOK
    <2>2. /\ Len(refs) = Len(evddrefstack) + 1 /\ Len(refs) > 1 /\ refs[Len(refs)] = e.node
          /\ Len(refs) - 1 = Len(evddrefstack)
          /\ refs[Len(refs) - 1] = evddrefstack[Len(evddrefstack)]
      BY <1>7, <2>1
    <2>3. CASE f.step = "low"
      BY <1>15, <1>18, <2>2, <2>3 DEF OnTop, AtMake
    <2>4. CASE f.step = "high"
      <3>1. refs[Len(refs) - 1] \in {f.low.node, e.node}
        BY <1>3, <1>12, <2>1, <2>2, <2>4
      <3>2. QED
        BY <1>15, <1>18, <2>2, <2>4, <3>1 DEF OnTop, AtMake
    <2>5. QED
      BY <1>13, <2>3, <2>4
  <1>21. WalkOK(fs, refs, ret, m, c)
    BY <1>7, <1>8, <1>17, <1>20 DEF WalkOK
  <1>22. Still /\ UNCHANGED <<result, call, apply>>
    BY DEF Still, TakeChild
  <1>23. QED
    BY <1>2, <1>4, <1>7, <1>19, <1>21, <1>22, WalkStill

LEMMA CacheAfter ==
  ASSUME TableOK, TableOK', GoodCache(evdd_applycache),
         NEW K, NEW low, NEW high, NEW res, NEW cache, Keeps(K, low, high, res, cache)
  PROVE  GoodCache(cache)'
  <1>1. CASE cache = evdd_applycache /\ K = Live
    <2>1. NodesStay(Live) /\ GoodCache(cache)
      BY <1>1 DEF Keeps, Stays
    <2>2. QED
      BY <2>1, CacheKept
  <1>2. CASE cache = evdd_operator_reset
    BY <1>2, CacheReset
  <1>3. QED
    BY <1>1, <1>2 DEF Keeps

\* A stack with some entries taken off and one pushed.
LEMMA PoppedPushed ==
  ASSUME NEW S, NEW s \in Seq(S), NEW j \in 0..Len(s), NEW T, \A i \in 1..j : s[i] \in T, NEW n \in T,
         NEW t, t = Append(SubSeq(s, 1, j), n)
  PROVE  t \in Seq(T) /\ Len(t) = j + 1 /\ t[j + 1] = n /\ \A i \in 1..j : i \in DOMAIN t /\ t[i] = s[i]
  <1>1. PICK u : u = SubSeq(s, 1, j)
    OBVIOUS
  <1>2. u \in Seq(S) /\ Len(u) = j /\ \A i \in 1..j : u[i] = s[i]
    BY <1>1
  <1>3. u \in Seq(T)
    BY <1>2
  <1>4. t = Append(u, n)
    BY <1>1
  <1>5. QED
    BY <1>2, <1>3, <1>4

\* What the innermost call makes of its two edges.
LEMMA FrameAsks ==
  ASSUME TableOK, NEW f \in Frame, FrameOK(f), f.step = "make"
  PROVE  /\ f.node \in Reach /\ f.node \in Live /\ f.node # 0 /\ LevelOf(f.node) = node[f.node].level
         /\ f.low \in ChildForms(node[f.node].low, node[f.node].wl)
         /\ f.high \in ChildForms(node[f.node].high, node[f.node].wh)
         /\ Asked(LevelOf(f.node), f.low, f.high)
         /\ f.low.w # 0 \/ f.high.w # 0
  <1>1. f.node \in Reach /\ f.node \in Live /\ f.node # 0
    BY DEF Frame, Reach
  <1>2. /\ f.low \in ChildForms(node[f.node].low, node[f.node].wl)
        /\ f.high \in ChildForms(node[f.node].high, node[f.node].wh)
    BY DEF FrameOK
  <1>3. /\ node[f.node].low \in Live /\ node[f.node].high \in Live
        /\ LevelOf(f.node) \in 0..(Terminal - 1)
        /\ LevelOf(f.node) < LevelOf(node[f.node].low) /\ LevelOf(f.node) < LevelOf(node[f.node].high)
        /\ node[f.node].wl # 0 \/ node[f.node].wh # 0
    BY <1>1, InnerNode
  <1>4. /\ f.low \in EdgeTo(Marked({})) /\ LevelOf(node[f.node].low) <= LevelOf(f.low.node)
        /\ f.high \in EdgeTo(Marked({})) /\ LevelOf(node[f.node].high) <= LevelOf(f.high.node)
        /\ f.low.w # 0 \/ f.high.w # 0
    BY <1>2, <1>3 DEF ChildForms
  <1>5. Marked({}) \subseteq Live
    BY MarkedClosed
  <1>6. /\ f.low \in EdgeTo(Live) /\ f.high \in EdgeTo(Live)
        /\ f.low.node \in Live /\ f.high.node \in Live
    BY <1>4, <1>5 DEF EdgeTo
  <1>7. /\ LevelOf(node[f.node].low) \in Nat /\ LevelOf(node[f.node].high) \in Nat
        /\ LevelOf(f.low.node) \in Nat /\ LevelOf(f.high.node) \in Nat
    BY <1>3, <1>6, TableFacts DEF Facts
  <1>8. LevelOf(f.node) < LevelOf(f.low.node) /\ LevelOf(f.node) < LevelOf(f.high.node)
    BY <1>3, <1>4, <1>7
  <1>9. Asked(LevelOf(f.node), f.low, f.high)
    BY <1>3, <1>6, <1>8 DEF Asked
  <1>10. LevelOf(f.node) = node[f.node].level
    BY DEF LevelOf
  <1>11. QED
    BY <1>1, <1>2, <1>4, <1>9, <1>10

LEMMA NormalMade ==
  ASSUME TableOK, ClientOK, NEW f \in Frame, FrameOK(f), f.step = "make", NEW K, Stays(K), TableOK',
         NEW k, k = LevelOf(f.node), NEW e, Built(k, f.low, f.high, e)', e.node \in Marked({})'
  PROVE  e \in NormalForms(f.node)' /\ {f.low.node, f.high.node} \subseteq Marked({})'
  <1>1. /\ f.node \in Reach /\ f.node \in Live /\ f.node # 0
        /\ f.low \in ChildForms(node[f.node].low, node[f.node].wl)
        /\ f.high \in ChildForms(node[f.node].high, node[f.node].wh)
        /\ f.low.w # 0 \/ f.high.w # 0
    BY FrameAsks
  <1>2. NodesStay(K) /\ Reach \subseteq K /\ Marked({}) \subseteq K
    BY ReachKept DEF Stays
  <1>3. LevelOf(f.node)' = k /\ NodeMeaning'[f.node] = NodeMeaning[f.node]
    BY <1>1, <1>2, StaysSame, MeaningKept
  <1>4. /\ f.low \in EdgeTo(K) /\ Meaning(f.low) = Meaning(Edge(node[f.node].low, node[f.node].wl))
        /\ f.high \in EdgeTo(K) /\ Meaning(f.high) = Meaning(Edge(node[f.node].high, node[f.node].wh))
    BY <1>1, <1>2 DEF ChildForms, EdgeTo
  <1>5. Meaning(f.low)' = Meaning(f.low) /\ Meaning(f.high)' = Meaning(f.high)
    BY <1>2, <1>4, MeaningKept
  <1>6. /\ e \in EdgeTo(Live)' /\ k <= LevelOf(e.node)' /\ e.w # 0
        /\ {f.low.node, f.high.node} \subseteq {e.node} \cup Children(e.node)'
        /\ \A s \in Assignments' :
             /\ k \in s => Meaning(e)'[s] = Meaning(f.high)'[s]
             /\ k \notin s => Meaning(e)'[s] = Meaning(f.low)'[s]
    BY <1>1 DEF Built
  <1>7. Assignments' = Assignments
    BY DEF Assignments
  <1>8. ASSUME NEW s \in Assignments PROVE Meaning(e)'[s] = NodeMeaning[f.node][s]
    <2>1. /\ LevelOf(f.node) \in s =>
               NodeMeaning[f.node][s] = evdd_value_mul(node[f.node].wh, NodeMeaning[node[f.node].high][s])
          /\ LevelOf(f.node) \notin s =>
               NodeMeaning[f.node][s] = evdd_value_mul(node[f.node].wl, NodeMeaning[node[f.node].low][s])
      BY <1>1, MeaningUnfolds DEF Unfolds
    <2>2. /\ Meaning(f.low)[s] = evdd_value_mul(node[f.node].wl, NodeMeaning[node[f.node].low][s])
          /\ Meaning(f.high)[s] = evdd_value_mul(node[f.node].wh, NodeMeaning[node[f.node].high][s])
      BY <1>4, MeaningUnfolds, RecordsNotEmpty DEF Unfolds
    <2>3. QED
      BY <1>5, <1>6, <1>7, <2>1, <2>2
  <1>9. Meaning(e)' = NodeMeaning'[f.node]
    <2>1. Meaning(e)' = [s \in Assignments |-> Meaning(e)'[s]]
      BY <1>7, MeaningUnfoldsNext DEF Unfolds
    <2>2. NodeMeaning[f.node] = [s \in Assignments |-> NodeMeaning[f.node][s]]
      BY <1>1, MeaningUnfolds DEF Unfolds
    <2>3. QED
      BY <1>3, <1>8, <2>1, <2>2
  <1>10. e \in EdgeTo(Marked({}))'
    <2>1. e.node \in Marked({})' /\ EdgeTo(Marked({}))' = EdgeTo(Marked({})') /\ EdgeTo(Live)' = EdgeTo(Live')
      BY DEF EdgeTo, Weights
    <2>2. e \in EdgeTo(Live')
      BY <1>6, <2>1
    <2>3. e \in EdgeTo(Marked({})')
      BY <2>1, <2>2 DEF EdgeTo
    <2>4. QED
      BY <2>1, <2>3
  <1>11. {f.low.node, f.high.node} \subseteq Marked({})'
    BY <1>6, MarksHoldNext DEF Marks, Closed
  <1>12. QED
    BY <1>3, <1>6, <1>9, <1>10, <1>11 DEF NormalForms

LEMMA MakeNormalizedStep ==
  ASSUME EvddInv, UNCHANGED apply, MakeNormalized
  PROVE  EvddInv' /\ Keeping
  <1> DEFINE L == Len(evddrefstack)
  <1>1. frames # <<>> /\ Top.step = "make"
    BY DEF MakeNormalized
  <1>2. call # None
    BY <1>1 DEF EvddInv, NotWalking
  <1>3. /\ TableOK /\ ClientOK /\ GoodCache(evdd_applycache) /\ Walking
        /\ applying = None /\ NotApplying
    BY <1>2, WhileWalking
  <1>4. PICK n \in 0..(SlotBound - 1), w \in Weights :
          /\ evdd_makenode(node[Top.node].level, Top.low, Top.high, Edge(n, w), evdd_applycache')
          /\ returned' = Edge(n, w)
          /\ memo' = [memo EXCEPT ![Top.node] = Edge(n, w)]
          /\ evddrefstack' = PopAndPush(n)
    BY DEF MakeNormalized
  <1>5. PICK e, f, cache, k, gs, old, refs, m :
          /\ e = Edge(n, w) /\ f = Top /\ cache = evdd_applycache' /\ k = LevelOf(f.node)
          /\ gs = SubSeq(frames, 1, Len(frames) - 1) /\ old = evddrefstack
          /\ refs = evddrefstack' /\ m = memo
    OBVIOUS
  <1>6. e.node = n /\ e = Edge(e.node, e.w) /\ e # NoEdge
    BY <1>5, RecordsNotEmpty
  <1>7. /\ Chain(frames) /\ OnTop(frames, evddrefstack, returned) /\ MemoOK(memo)
        /\ calling # NoNode => calling = AskedNode(frames) /\ ~AtMake(frames)
    BY <1>3 DEF Walking, WalkOK
  <1>8. f \in Frame /\ FrameOK(f) /\ f.step = "make" /\ f = frames[Len(frames)] /\ AtMake(frames)
    <2>1. Len(frames) \in DOMAIN frames
      BY <1>1, <1>7 DEF Chain
    <2>2. QED
      BY <1>1, <1>5, <1>7, <2>1 DEF Chain, Top, AtMake
  <1>9. Asked(k, f.low, f.high) /\ f.node \in Reach
    BY <1>3, <1>5, <1>8, FrameAsks
  <1>10. evdd_makenode(k, f.low, f.high, e, cache)
    BY <1>4, <1>5 DEF LevelOf
  <1>11. /\ TableOK' /\ Built(k, f.low, f.high, e)'
         /\ \E K : Keeps(K, f.low, f.high, e, cache)
    BY <1>3, <1>6, <1>9, <1>10, NodeBuilt
  <1>12. PICK K : Keeps(K, f.low, f.high, e, cache)
    BY <1>11
  <1>13. Stays(K) /\ NodesStay(K) /\ Marked({}) \subseteq K /\ K \subseteq Live'
    BY <1>12 DEF Keeps, Stays, NodesStay
  <1>14. Reach \subseteq K /\ Reach' = Reach /\ Keeping
    BY <1>3, <1>13, ReachKept DEF Keeping
  <1>15. GoodCache(evdd_applycache)'
    <2>1. GoodCache(cache)'
      BY <1>3, <1>11, <1>12, CacheAfter
    <2>2. QED
      BY <1>5, <2>1
  <1>16. e.node \in Live'
    <2>1. e \in EdgeTo(Live)' /\ EdgeTo(Live)' = EdgeTo(Live')
      BY <1>11 DEF Built, EdgeTo, Weights
    <2>2. QED
      BY <2>1, RecordsNotEmpty
  <1>17. /\ old \in Seq(Live) /\ L \in Nat /\ L > 1 /\ old[L] = f.high.node
         /\ old[L - 1] \in {f.low.node, f.high.node}
    BY <1>3, <1>5, <1>7, <1>8 DEF OnTop, ClientOK
  <1>18. \A i \in DOMAIN old : old[i] \in Marked({})
    BY <1>3, <1>5, ReachProtected
  <1>19. /\ refs \in Seq(Live') /\ Len(refs) = L - 1 /\ refs[L - 1] = n
         /\ \A i \in 1..(L - 2) : i \in DOMAIN refs /\ refs[i] = old[i]
    <2>1. L - 2 \in 0..Len(old) /\ \A i \in 1..(L - 2) : i \in DOMAIN old
      BY <1>5, <1>17
    <2>2. \A i \in 1..(L - 2) : old[i] \in Live'
      BY <1>13, <1>18, <2>1
    <2>3. refs = Append(SubSeq(old, 1, L - 2), n)
      BY <1>4, <1>5 DEF PopAndPush
    <2> HIDE DEF L
    <2>4. PICK T : T = Live'
      OBVIOUS
    <2>5. /\ refs \in Seq(T) /\ Len(refs) = (L - 2) + 1 /\ refs[(L - 2) + 1] = n
          /\ \A i \in 1..(L - 2) : i \in DOMAIN refs /\ refs[i] = old[i]
      BY <1>6, <1>16, <1>17, <2>1, <2>2, <2>3, <2>4, PoppedPushed
    <2>6. (L - 2) + 1 = L - 1
      BY <1>17
    <2>7. QED
      BY <2>4, <2>5, <2>6
  <1>20. \A i \in DOMAIN refs : refs[i] \in Marked({})'
    <2>1. \A i \in DOMAIN refs : refs[i] \in Live'
      BY <1>19
    <2>2. QED
      BY <1>5, <1>11, <2>1, MarksHoldNext DEF Marks
  <1>21. e.node \in Marked({})'
    <2>1. L - 1 \in DOMAIN refs
      BY <1>17, <1>19
    <2>2. QED
      BY <1>6, <1>19, <1>20, <2>1
  <1>22. e \in NormalForms(f.node)' /\ {f.low.node, f.high.node} \subseteq Marked({})'
    BY <1>3, <1>5, <1>8, <1>11, <1>13, <1>21, NormalMade
  <1>23. Marked({}) \subseteq Marked({})'
    <2>1. ASSUME NEW i \in DOMAIN old PROVE old[i] \in Marked({})'
      <3>1. i \in 1..L /\ (i \in 1..(L - 2) \/ i = L - 1 \/ i = L)
        BY <1>5, <1>17
      <3>2. CASE i \in 1..(L - 2)
        BY <1>19, <1>20, <3>2
      <3>3. CASE i = L - 1 \/ i = L
        <4> HIDE DEF L
        <4>1. QED
          BY <1>17, <1>22, <3>3
      <3>4. QED
        BY <3>1, <3>2, <3>3
    <2>2. QED
      BY <1>3, <1>5, <1>11, <1>13, <2>1, MarksKept
  <1>24. /\ edge' = edge /\ result' = result /\ call' = call /\ calling' = calling
         /\ returned' = e /\ frames' = gs /\ memo' = [m EXCEPT ![f.node] = e]
         /\ calling = NoNode /\ result = None
    <2>1. calling = NoNode /\ result = None
      BY <1>3, <1>7, <1>8 DEF Walking
    <2>2. QED
      BY <1>4, <1>5, <2>1 DEF MakeNormalized
  <1>25. ClientOK'
    <2>1. evddrefstack' \in Seq(Live') /\ result' = None
      BY <1>5, <1>19, <1>24
    <2>2. QED
      BY <1>3, <1>11, <1>13, <1>24, <2>1, ClientKept
  <1>26. Chain(gs) /\ AskedNode(gs) = f.node /\ ~AtMake(gs)
    BY <1>1, <1>5, <1>7, <1>8, ChainPop
  <1>27. Chain(gs)' /\ AskedNode(gs)' = f.node
    <2>1. Chain(gs)' /\ AskedNode(gs)' = AskedNode(gs)
      BY <1>3, <1>11, <1>13, <1>23, <1>24, <1>26, ChainKept
    <2>2. QED
      BY <1>26, <2>1
  <1>28. PICK new : new = [m EXCEPT ![f.node] = e]
    OBVIOUS
  <1>29. MemoOK(new)'
    <2>1. MemoOK(m)'
      BY <1>3, <1>5, <1>7, <1>11, <1>13, <1>23, MemoKept
    <2>2. f.node \in DOMAIN m
      BY <1>5, <1>7, <1>9 DEF MemoOK
    <2>3. DOMAIN new = DOMAIN m /\ new[f.node] = e /\ \A i \in DOMAIN m : i # f.node => new[i] = m[i]
      BY <1>28, <2>2
    <2>4. Reach' \subseteq DOMAIN m
          /\ \A i \in DOMAIN m : m[i] # NoEdge => i \in Reach' /\ m[i] \in NormalForms(i)'
      BY <2>1 DEF MemoOK, NoEdge
    <2>5. \A i \in DOMAIN new : new[i] # NoEdge => i \in Reach' /\ new[i] \in NormalForms(i)'
      BY <1>9, <1>14, <1>22, <2>3, <2>4
    <2>6. QED
      BY <2>3, <2>4, <2>5 DEF MemoOK, NoEdge
  <1>30. OnTop(gs, refs, e)
    <2>1. Len(refs) > 0 /\ refs[Len(refs)] = e.node
      BY <1>6, <1>17, <1>19
    <2>2. e.node \in {x.node : x \in {e} \ {NoEdge}}
      BY <1>6
    <2>3. QED
      BY <1>26, <2>1, <2>2 DEF OnTop
  <1>31. Walking'
    <2>1. OnTop(gs, refs, e)'
      BY <1>30 DEF OnTop, NoEdge, AtMake
    <2>2. WalkOK(gs, refs, e, new, NoNode)'
      <3>1. e \in NormalForms(AskedNode(gs))'
        BY <1>22, <1>27
      <3>2. ~AtMake(gs)'
        BY <1>26 DEF AtMake
      <3>3. QED
        BY <1>27, <1>29, <2>1, <3>1, <3>2 DEF WalkOK, NoNode
    <2>3. WalkOK(frames, evddrefstack, returned, memo, calling)'
      <3>1. /\ frames' = gs /\ evddrefstack' = refs /\ returned' = e /\ memo' = new
            /\ calling' = NoNode /\ NoNode' = NoNode
        BY <1>5, <1>24, <1>28 DEF NoNode
      <3>2. QED
        BY <2>2, <3>1
    <2>4. applying' = None
      BY <1>3 DEF apply
    <2>5. QED
      BY <1>3, <1>24, <2>3, <2>4 DEF Walking, None, NoEdge
  <1>32. EvddInv'
    BY <1>2, <1>3, <1>11, <1>15, <1>24, <1>25, <1>31, WalkGoesOn
  <1>33. QED
    BY <1>14, <1>32

LEMMA FinishStep ==
  ASSUME EvddInv, UNCHANGED apply, Finish
  PROVE  /\ EvddInv' /\ Keeping
         /\ Meaning(result.e)' = Meaning(edge[call.from])
  <1>1. call # None /\ frames = <<>> /\ returned # NoEdge
    BY DEF Finish
  <1>2. /\ TableOK /\ ClientOK /\ GoodCache(evdd_applycache) /\ Walking
        /\ applying = None /\ NotApplying
    BY <1>1, WhileWalking
  <1>3. /\ call \in Normalizes /\ edge[call.to] = NoEdge /\ edge[call.from] # NoEdge
        /\ WalkOK(frames, evddrefstack, returned, memo, calling)
    BY <1>2 DEF Walking
  <1>4. returned \in NormalForms(edge[call.from].node) /\ calling = NoNode
    BY <1>1, <1>3 DEF WalkOK, AskedNode
  <1>5. PICK r, x, e : /\ r = returned /\ x = edge[call.from]
                       /\ e = Edge(r.node, evdd_value_mul(x.w, r.w))
    OBVIOUS
  <1>6. x \in EdgeTo(Live) /\ x.node \in Live /\ x.w \in Weights /\ x = Edge(x.node, x.w)
    <2>1. call.from \in Names
      BY <1>3, SomethingIs
    <2>2. QED
      BY <1>2, <1>3, <1>5, <2>1, HeldEdges, RecordsNotEmpty
  <1>7. e \in ChildForms(x.node, x.w)
    <2>1. r \in NormalForms(x.node)
      BY <1>4, <1>5
    <2>2. QED
      BY <1>2, <1>5, <1>6, <2>1, ChildNormalized
  <1>8. e \in EdgeTo(Live) /\ Meaning(e) = Meaning(x)
    <2>1. e \in EdgeTo(Marked({})) /\ Meaning(e) = Meaning(Edge(x.node, x.w))
      BY <1>7 DEF ChildForms
    <2>2. Marked({}) \subseteq Live
      BY <1>2, MarkedClosed
    <2>3. QED
      BY <1>6, <2>1, <2>2 DEF EdgeTo
  <1>9. result' = [to |-> call.to, e |-> e]
    BY <1>5 DEF Finish
  <1>10. /\ Still /\ evddrefstack' = <<>> /\ call' = None /\ memo' = <<>> /\ returned' = NoEdge
         /\ calling' = NoNode /\ frames' = <<>>
    BY <1>1, <1>4 DEF Finish, Still
  <1>11. /\ TableOK' /\ ClientOK' /\ GoodCache(evdd_applycache)' /\ NodesStay(Live) /\ Keeping
    <2>1. evddrefstack' \in Seq(Live)
      BY <1>10
    <2>2. result' \in [to : Names, e : EdgeTo(Live)] /\ edge[result'.to] = NoEdge
      BY <1>3, <1>8, <1>9, SomethingIs
    <2>3. QED
      BY <1>10, <2>1, <2>2, TableStill DEF EvddInv
  <1>12. EvddInv'
    <2>1. NotWalking' /\ None' = None
      BY <1>10 DEF NotWalking, None, NoNode, NoEdge
    <2>2. applying' = None /\ NotApplying'
      BY <1>2 DEF apply, NotApplying, None, NoEdge
    <2>3. QED
      BY <1>10, <1>11, <2>1, <2>2 DEF EvddInv, Good
  <1>13. Meaning(result.e)' = Meaning(edge[call.from])
    <2>1. Meaning(e)' = Meaning(e)
      BY <1>2, <1>8, <1>11, MeaningKept
    <2>2. result'.e = e
      BY <1>9
    <2>3. Meaning(result.e)' = Meaning(e)'
      BY <2>2
    <2>4. QED
      BY <1>5, <1>8, <2>1, <2>3
  <1>14. QED
    BY <1>11, <1>12, <1>13

----------------------------------------------------------------------------
\* The steps of the client.

LEMMA WhileIdle ==
  ASSUME EvddInv, call = None, applying = None
  PROVE  /\ Good /\ TableOK /\ ClientOK /\ GoodCache(evdd_applycache) /\ NotWalking /\ NotApplying
         /\ evddrefstack = <<>> /\ \A S : evddrefstack \in Seq(S)
  BY DEF EvddInv, Good

LEMMA IdleGoesOn ==
  ASSUME EvddInv, call = None, applying = None, UNCHANGED <<walk, apply, evddrefstack>>,
         TableOK', ClientOK', GoodCache(evdd_applycache)'
  PROVE  EvddInv'
  <1>1. NotWalking /\ NotApplying /\ evddrefstack = <<>>
    BY WhileIdle
  <1>2. /\ call' = None' /\ applying' = None' /\ evddrefstack' = <<>> /\ NotWalking' /\ NotApplying'
    BY <1>1 DEF walk, apply, NotWalking, NotApplying, None, NoNode, NoEdge
  <1>3. QED
    BY <1>2 DEF EvddInv, Good

LEMMA NormalizeStep ==
  ASSUME EvddInv, applying = None, UNCHANGED apply, NEW c \in Normalizes, Normalize(c)
  PROVE  EvddInv' /\ Keeping
  <1>1. call = None /\ result = None /\ edge[c.from] # NoEdge /\ edge[c.to] = NoEdge /\ Still
    BY DEF Normalize, Idle, Still
  <1>2. /\ Good /\ TableOK /\ ClientOK /\ GoodCache(evdd_applycache) /\ NotWalking /\ NotApplying
        /\ evddrefstack = <<>> /\ evddrefstack \in Seq(Live)
    BY <1>1, WhileIdle
  <1>3. c.from \in Names /\ c.to \in Names /\ c # None
    BY SomethingIs
  <1>4. edge[c.from] \in EdgeTo(Live) /\ edge[c.from].node \in Reach /\ Reach \subseteq Live
    BY <1>1, <1>2, <1>3, HeldEdges, ReachProtected
  <1>5. CASE edge[c.from].node = 0
    <2>1. result' = [to |-> c.to, e |-> edge[c.from]] /\ UNCHANGED <<evddrefstack, walk>>
      BY <1>5 DEF Normalize, Const
    <2>2. TableOK' /\ ClientOK' /\ GoodCache(evdd_applycache)' /\ Keeping
      <3>1. result' \in [to : Names, e : EdgeTo(Live)] /\ edge[result'.to] = NoEdge
        BY <1>1, <1>3, <1>4, <2>1
      <3>2. evddrefstack' \in Seq(Live)
        BY <1>2, <2>1
      <3>3. QED
        BY <1>1, <1>2, <3>1, <3>2, TableStill
    <2>3. EvddInv'
      BY <1>1, <2>1, <2>2, IdleGoesOn
    <2>4. QED
      BY <2>2, <2>3
  <1>6. CASE edge[c.from].node # 0
    <2>1. PICK n : n = edge[c.from].node
      OBVIOUS
    <2>2. /\ call' = c /\ evddrefstack' = <<n>> /\ memo' = [i \in Slot |-> NoEdge] /\ calling' = n
          /\ frames' = <<>> /\ returned' = NoEdge /\ result' = None
      BY <1>1, <1>2, <1>6, <2>1 DEF Normalize, Const, NotWalking
    <2>3. TableOK' /\ ClientOK' /\ GoodCache(evdd_applycache)' /\ Stays(Live) /\ Live' = Live /\ Keeping
      <3>1. evddrefstack' \in Seq(Live)
        BY <1>4, <2>1, <2>2
      <3>2. QED
        BY <1>1, <1>2, <2>2, <3>1, TableStill
    <2>4. Reach' = Reach /\ edge' = edge
      BY <1>1, <1>2, <2>3, ReachKept DEF Still
    <2>5. MemoOK(memo)'
      <3>1. DOMAIN memo' = Slot /\ \A i \in Slot : memo'[i] = NoEdge
        BY <2>2
      <3>2. Reach' \subseteq Slot
        BY <1>4, <2>4 DEF Live
      <3>3. QED
        BY <3>1, <3>2 DEF MemoOK, NoEdge
    <2>6. Chain(frames)'
      BY <2>2 DEF Chain
    <2>7. OnTop(frames, evddrefstack, returned)' /\ ~AtMake(frames)'
      BY <2>2 DEF OnTop, AtMake
    <2>8. AskedNode(frames)' = n
      BY <2>1, <2>2, <2>4 DEF AskedNode
    <2>9. WalkOK(frames, evddrefstack, returned, memo, calling)'
      BY <1>6, <2>1, <2>2, <2>5, <2>6, <2>7, <2>8 DEF WalkOK, NoEdge
    <2>10. Walking'
      BY <1>1, <1>6, <2>2, <2>4, <2>9, <1>2 DEF Walking, apply, None, NoEdge
    <2>11. applying' = None /\ NotApplying' /\ None' = None
      BY <1>2 DEF apply, NotApplying, None, NoEdge
    <2>12. EvddInv'
      BY <1>3, <2>2, <2>3, <2>10, <2>11 DEF EvddInv, Good
    <2>13. QED
      BY <2>3, <2>12
  <1>7. QED
    BY <1>5, <1>6

\* An argument of a call.
LEMMA ArgumentRight ==
  ASSUME TableOK, ClientOK, NEW x \in Names \cup {One}, NEW w \in Weights, NEW k \in 0..(Terminal - 1),
         x # One => edge[x] # NoEdge /\ k < node[edge[x].node].level,
         NEW e, e = Argument(x, w)
  PROVE  e \in EdgeTo(Live) /\ e.node \in Reach /\ e.w = w /\ k < LevelOf(e.node)
  <1>1. CASE x = One
    <2>1. e = Edge(0, w)
      BY <1>1 DEF Argument
    <2>2. 0 \in Live /\ 0 \in Reach /\ LevelOf(0) = Terminal /\ k < Terminal
      BY TableFacts, ReachProtected, EvddAssumption DEF Facts
    <2>3. QED
      BY <2>1, <2>2, EdgeIn, RecordsNotEmpty
  <1>2. CASE x # One
    <2>1. PICK n : n = edge[x].node
      OBVIOUS
    <2>2. e = Edge(n, w) /\ n \in Reach /\ k < LevelOf(n)
      BY <1>2, <2>1, HeldEdges DEF Argument, LevelOf
    <2>3. QED
      BY <2>2, EdgeIn, RecordsNotEmpty DEF Reach
  <1>3. QED
    BY <1>1, <1>2

LEMMA MakeStep ==
  ASSUME EvddInv, applying = None, UNCHANGED apply, NEW c \in Calls, Make(c)
  PROVE  EvddInv' /\ Keeping
  <1>1. /\ call = None /\ result = None /\ edge[c.to] = NoEdge /\ edge' = edge
        /\ \A x \in {c.low, c.high} \ {One} : edge[x] # NoEdge /\ c.level < node[edge[x].node].level
    BY DEF Make, Idle
  <1>2. /\ TableOK /\ ClientOK /\ GoodCache(evdd_applycache) /\ \A S : evddrefstack \in Seq(S)
    BY <1>1, WhileIdle
  <1>3. /\ c.to \in Names /\ c.raw \in BOOLEAN /\ c.level \in 0..(Terminal - 1)
        /\ c.low \in Names \cup {One} /\ c.high \in Names \cup {One}
        /\ c.wl \in Weights /\ c.wh \in Weights
        /\ c.raw => c.wl # 0 \/ c.wh # 0
    BY CallAssumption, WeightAssumption DEF Weights
  <1>4. PICK n \in 0..(SlotBound - 1), w \in Weights :
          LET low == Argument(c.low, c.wl)
              high == Argument(c.high, c.wh)
              res == Edge(n, w)
          IN  /\ IF c.raw THEN evdd_makenode_raw(c.level, low, high, {}, res, evdd_applycache')
                          ELSE evdd_makenode(c.level, low, high, res, evdd_applycache')
              /\ result' = [to |-> c.to, e |-> res]
    BY DEF Make
  <1>5. PICK k, low, high, res, cache :
          /\ k = c.level /\ low = Argument(c.low, c.wl) /\ high = Argument(c.high, c.wh)
          /\ res = Edge(n, w) /\ cache = evdd_applycache'
    OBVIOUS
  <1>6. /\ low \in EdgeTo(Live) /\ low.node \in Reach /\ low.w = c.wl /\ k < LevelOf(low.node)
        /\ high \in EdgeTo(Live) /\ high.node \in Reach /\ high.w = c.wh /\ k < LevelOf(high.node)
    BY <1>1, <1>2, <1>3, <1>5, ArgumentRight
  <1>7. Asked(k, low, high)
    BY <1>3, <1>5, <1>6 DEF Asked
  <1>8. res = Edge(res.node, res.w)
    BY <1>5, RecordsNotEmpty
  <1>9. TableOK' /\ res \in EdgeTo(Live)' /\ \E K : Keeps(K, low, high, res, cache)
    <2>1. CASE c.raw
      <3>1. low.node \in Marked({}) /\ high.node \in Marked({})
        BY <1>2, <1>6, ReachProtected
      <3>2. PICK p : p = {}
        OBVIOUS
      <3>3. evdd_makenode_raw(k, low, high, p, res, cache) /\ (low.w # 0 \/ high.w # 0)
        BY <1>3, <1>4, <1>5, <1>6, <2>1, <3>2
      <3>4. TableOK' /\ Made(k, low, high, res)' /\ \E K : Keeps(K, low, high, res, cache)
        BY <1>2, <1>7, <1>8, <3>1, <3>2, <3>3, RawMade
      <3>5. QED
        BY <3>4 DEF Made
    <2>2. CASE ~c.raw
      <3>1. evdd_makenode(k, low, high, res, cache)
        BY <1>3, <1>4, <1>5, <2>2
      <3>2. TableOK' /\ Built(k, low, high, res)' /\ \E K : Keeps(K, low, high, res, cache)
        BY <1>2, <1>7, <1>8, <3>1, NodeBuilt
      <3>3. QED
        BY <3>2 DEF Built
    <2>3. QED
      BY <1>3, <2>1, <2>2
  <1>10. PICK K : Keeps(K, low, high, res, cache)
    BY <1>9
  <1>11. Stays(K) /\ NodesStay(K)
    BY <1>10 DEF Keeps, Stays
  <1>12. Keeping
    BY <1>2, <1>11, ReachKept DEF Keeping
  <1>13. GoodCache(evdd_applycache)'
    <2>1. GoodCache(cache)'
      BY <1>2, <1>9, <1>10, CacheAfter
    <2>2. QED
      BY <1>5, <2>1
  <1>14. evddrefstack' = evddrefstack /\ UNCHANGED walk /\ result' = [to |-> c.to, e |-> res]
    BY <1>4, <1>5 DEF Make
  <1>15. ClientOK'
    <2>1. res \in EdgeTo(Live')
      BY <1>9 DEF EdgeTo, Weights
    <2>2. result' \in [to : Names, e : EdgeTo(Live')] /\ edge[result'.to] = NoEdge
      BY <1>1, <1>3, <1>14, <2>1
    <2>3. evddrefstack' \in Seq(Live')
      BY <1>2, <1>14
    <2>4. QED
      BY <1>1, <1>2, <1>9, <1>11, <2>2, <2>3, ClientKept
  <1>16. EvddInv'
    BY <1>1, <1>9, <1>13, <1>14, <1>15, IdleGoesOn
  <1>17. QED
    BY <1>12, <1>16

LEMMA GbcStep ==
  ASSUME EvddInv, applying = None, UNCHANGED apply, Gbc
  PROVE  EvddInv' /\ Keeping
  <1>1. /\ call = None /\ result = None /\ edge' = edge /\ result' = None
        /\ evddrefstack' = evddrefstack /\ UNCHANGED walk
    BY DEF Gbc, Idle
  <1>2. /\ TableOK /\ ClientOK /\ GoodCache(evdd_applycache) /\ \A S : evddrefstack \in Seq(S)
    BY <1>1, WhileIdle
  <1>3. PICK K, N, size : K = Marked({}) /\ N = {} /\ size = evddnodesize
    OBVIOUS
  <1>4. Rebuilds(K, size, N, Free)
    <2>1. K \in SUBSET Live /\ Closed(K) /\ size \in evddnodesize..SlotBound
      <3>1. evddnodesize \in evddnodesize..SlotBound
        BY <1>2, EvddAssumption DEF TableOK
      <3>2. Marked({}) \subseteq Live /\ Closed(Marked({}))
        BY <1>2, MarkedClosed
      <3>3. QED
        BY <1>3, <3>1, <3>2
    <2>2. Rebuild(K, size, N, Free)
      BY <1>3 DEF Gbc
    <2>3. QED
      BY <1>3, <2>1, <2>2 DEF Rebuilds
  <1>5. TableOK' /\ Stays(K)
    BY <1>2, <1>4, Rebuilt
  <1>6. Keeping
    BY <1>2, <1>5, ReachKept DEF Keeping, Stays
  <1>7. GoodCache(evdd_applycache)'
    <2>1. PICK cache : cache = evdd_operator_reset
      OBVIOUS
    <2>2. GoodCache(cache)'
      BY <1>2, <2>1, CacheReset
    <2>3. evdd_applycache' = cache
      BY <2>1 DEF Gbc
    <2>4. QED
      BY <2>2, <2>3
  <1>8. ClientOK'
    BY <1>1, <1>2, <1>5, ClientKept
  <1>9. EvddInv'
    BY <1>1, <1>5, <1>7, <1>8, IdleGoesOn
  <1>10. QED
    BY <1>6, <1>9

\* A reference count changes.
LEMMA CountMoves ==
  ASSUME TableOK, evddnodesize' = evddnodesize, node' = node,
         refcou' \in [Slot -> 0..MaxRef], refcou'[0] = MaxRef
  PROVE  TableOK' /\ NodesStay(Live) /\ Live' = Live /\ Slot' = Slot
  <1>1. Slot' = Slot /\ Live' = Live
    BY DEF Slot, Live
  <1>2. \A n : InnerOK(n)' <=> InnerOK(n)
    BY <1>1 DEF InnerOK, LevelOf
  <1>3. TableOK'
    BY <1>1, <1>2 DEF TableOK
  <1>4. NodesStay(Live)
    BY <1>1, TableFacts DEF NodesStay, Facts
  <1>5. QED
    BY <1>1, <1>3, <1>4

\* What the counts have to do with who holds the nodes.
LEMMA HoldersFinite ==
  \A n : IsFiniteSet(Holders(n)) /\ Cardinality(Holders(n)) \in Nat
  <1>1. \A n : Holders(n) \in SUBSET Names
    BY DEF Holders
  <1>2. QED
    BY <1>1, EvddAssumption, FS_Subset, FS_CardinalityType

LEMMA AddRefStep ==
  ASSUME EvddInv, applying = None, UNCHANGED apply, AddRef
  PROVE  EvddInv' /\ Keeping
  <1> USE EvddAssumption
  <1>1. /\ call = None /\ result # None /\ evddrefstack' = evddrefstack /\ UNCHANGED walk
        /\ evddnodesize' = evddnodesize /\ node' = node /\ evdd_applycache' = evdd_applycache
        /\ result' = None
    BY DEF AddRef
  <1>2. /\ TableOK /\ ClientOK /\ GoodCache(evdd_applycache) /\ \A S : evddrefstack \in Seq(S)
    BY <1>1, WhileIdle
  <1>3. PICK to, e, n : to = result.to /\ e = result.e /\ n = e.node
    OBVIOUS
  <1>4. to \in Names /\ e \in EdgeTo(Live) /\ edge[to] = NoEdge
    BY <1>1, <1>2, <1>3 DEF ClientOK
  <1>5. n \in Live /\ n \in Slot /\ e # NoEdge
    BY <1>2, <1>3, <1>4, RecordsNotEmpty, TableFacts DEF Facts
  <1>6. /\ edge' = [edge EXCEPT ![to] = e]
        /\ refcou' = IF n = 0 THEN refcou ELSE [refcou EXCEPT ![n] = Increased(@)]
    BY <1>3 DEF AddRef, Const
  <1>7. refcou \in [Slot -> 0..MaxRef] /\ refcou[0] = MaxRef
    BY <1>2 DEF TableOK
  <1>8. /\ refcou' \in [Slot -> 0..MaxRef] /\ refcou'[0] = MaxRef
        /\ \A m \in Slot : refcou[m] = MaxRef \/ (refcou[m] < MaxRef /\ refcou[m] \in Nat)
        /\ \A m \in Slot : m # n \/ n = 0 => refcou'[m] = refcou[m]
        /\ n # 0 => refcou'[n] = IF refcou[n] < MaxRef THEN refcou[n] + 1 ELSE refcou[n]
    <2>1. \A m \in Slot : refcou[m] \in 0..MaxRef
      BY <1>7
    <2>2. \A m \in Slot : refcou[m] = MaxRef \/ (refcou[m] < MaxRef /\ refcou[m] \in Nat)
      BY <2>1
    <2>3. CASE n = 0
      BY <1>6, <1>7, <2>2, <2>3
    <2>4. CASE n # 0
      <3>1. Increased(refcou[n]) \in 0..MaxRef
        BY <1>5, <2>1 DEF Increased
      <3>2. refcou' = [refcou EXCEPT ![n] = Increased(refcou[n])]
        BY <1>6, <2>4
      <3>3. /\ refcou' \in [Slot -> 0..MaxRef] /\ refcou'[n] = Increased(refcou[n])
            /\ \A m \in Slot : m # n => refcou'[m] = refcou[m]
        BY <1>5, <1>7, <3>1, <3>2
      <3>4. 0 \in Slot
        BY <1>2, TableFacts DEF Facts
      <3>5. refcou'[n] = IF refcou[n] < MaxRef THEN refcou[n] + 1 ELSE refcou[n]
        BY <3>3 DEF Increased
      <3>6. QED
        BY <1>7, <2>2, <2>4, <3>3, <3>4, <3>5
    <2>5. QED
      BY <2>3, <2>4
  <1>9. TableOK' /\ NodesStay(Live) /\ Live' = Live /\ Slot' = Slot
    BY <1>1, <1>2, <1>8, CountMoves
  <1>10. edge \in [Names -> EdgeTo(Live) \cup {NoEdge}] /\ edge' \in [Names -> EdgeTo(Live) \cup {NoEdge}]
    BY <1>2, <1>4, <1>6 DEF ClientOK
  <1>11. \A x \in Names : edge'[x] = IF x = to THEN e ELSE edge[x]
    BY <1>4, <1>6, <1>10
  <1>12. ASSUME NEW m \in Slot PROVE refcou'[m] = MaxRef \/ Cardinality(Holders(m)') <= refcou'[m]
    <2>0. NoEdge' = NoEdge
      BY DEF NoEdge
    <2>1. CASE m # n
      <3>1. Holders(m)' = Holders(m)
        BY <1>3, <1>4, <1>11, <2>0, <2>1 DEF Holders
      <3>2. refcou'[m] = refcou[m]
        BY <1>8, <2>1
      <3>3. QED
        BY <1>2, <3>1, <3>2 DEF ClientOK
    <2>2. CASE m = n /\ n = 0
      BY <1>7, <1>8, <2>2
    <2>3. CASE m = n /\ n # 0
      <3>1. Holders(n)' = Holders(n) \cup {to} /\ to \notin Holders(n)
        BY <1>3, <1>4, <1>5, <1>11, <2>0 DEF Holders
      <3>2. Cardinality(Holders(n)') = Cardinality(Holders(n)) + 1
        BY <3>1, HoldersFinite, FS_AddElement
      <3>3. refcou[n] = MaxRef \/ Cardinality(Holders(n)) <= refcou[n]
        BY <1>2, <1>5 DEF ClientOK
      <3>4. Cardinality(Holders(n)) \in Nat
        BY HoldersFinite
      <3>5. refcou'[n] = MaxRef \/ Cardinality(Holders(n)') <= refcou'[n]
        BY <1>5, <1>8, <2>3, <3>2, <3>3, <3>4
      <3>6. QED
        BY <2>3, <3>5
    <2>4. QED
      BY <2>1, <2>2, <2>3
  <1>13. ClientOK'
    <2>1. edge' \in [Names -> EdgeTo(Live') \cup {NoEdge}] /\ evddrefstack' \in Seq(Live') /\ result' = None
      BY <1>1, <1>2, <1>9, <1>10
    <2>2. EdgeTo(Live)' = EdgeTo(Live') /\ NoEdge' = NoEdge /\ None' = None
      BY DEF EdgeTo, Weights, NoEdge, None
    <2>3. \A m \in Slot' : refcou'[m] = MaxRef \/ Cardinality(Holders(m))' <= refcou'[m]
      BY <1>9, <1>12
    <2>4. QED
      BY <2>1, <2>2, <2>3 DEF ClientOK
  <1>14. GoodCache(evdd_applycache)'
    <2>1. PICK cache : cache = evdd_applycache
      OBVIOUS
    <2>2. GoodCache(cache)'
      BY <1>2, <1>9, <2>1, CacheKept
    <2>3. QED
      BY <1>1, <2>1, <2>2
  <1>15. EvddInv'
    BY <1>1, <1>9, <1>13, <1>14, IdleGoesOn
  <1>16. QED
    BY <1>9, <1>15 DEF Keeping, Reach

LEMMA DelRefStep ==
  ASSUME EvddInv, applying = None, UNCHANGED apply, NEW x \in Names, DelRef(x)
  PROVE  EvddInv' /\ Keeping
  <1> USE EvddAssumption
  <1>1. /\ call = None /\ edge[x] # NoEdge /\ evddrefstack' = evddrefstack /\ UNCHANGED walk
        /\ evddnodesize' = evddnodesize /\ node' = node /\ evdd_applycache' = evdd_applycache
        /\ result = None /\ result' = None
    BY DEF DelRef, Idle
  <1>2. /\ TableOK /\ ClientOK /\ GoodCache(evdd_applycache) /\ \A S : evddrefstack \in Seq(S)
    BY <1>1, WhileIdle
  <1>3. PICK n : n = edge[x].node
    OBVIOUS
  <1>4. n \in Live /\ n \in Slot
    BY <1>1, <1>2, <1>3, HeldEdges, RecordsNotEmpty, TableFacts DEF Facts
  <1>5. /\ edge' = [edge EXCEPT ![x] = NoEdge]
        /\ refcou' = IF n = 0 THEN refcou ELSE [refcou EXCEPT ![n] = Decreased(@)]
    BY <1>3 DEF DelRef, Const
  <1>6. refcou \in [Slot -> 0..MaxRef] /\ refcou[0] = MaxRef
    BY <1>2 DEF TableOK
  <1>7. /\ refcou' \in [Slot -> 0..MaxRef] /\ refcou'[0] = MaxRef
        /\ \A m \in Slot : refcou[m] \in Nat
        /\ \A m \in Slot : m # n \/ n = 0 => refcou'[m] = refcou[m]
        /\ n # 0 => refcou'[n] = IF refcou[n] # MaxRef /\ refcou[n] > 0 THEN refcou[n] - 1 ELSE refcou[n]
    <2>1. \A m \in Slot : refcou[m] \in 0..MaxRef /\ refcou[m] \in Nat
      BY <1>6
    <2>2. CASE n = 0
      BY <1>5, <1>6, <2>1, <2>2
    <2>3. CASE n # 0
      <3>1. Decreased(refcou[n]) \in 0..MaxRef
        BY <1>4, <2>1 DEF Decreased
      <3>2. refcou' = [refcou EXCEPT ![n] = Decreased(refcou[n])]
        BY <1>5, <2>3
      <3>3. /\ refcou' \in [Slot -> 0..MaxRef] /\ refcou'[n] = Decreased(refcou[n])
            /\ \A m \in Slot : m # n => refcou'[m] = refcou[m]
        BY <1>4, <1>6, <3>1, <3>2
      <3>4. 0 \in Slot
        BY <1>2, TableFacts DEF Facts
      <3>5. refcou'[n] = IF refcou[n] # MaxRef /\ refcou[n] > 0 THEN refcou[n] - 1 ELSE refcou[n]
        BY <3>3 DEF Decreased
      <3>6. QED
        BY <1>6, <2>1, <2>3, <3>3, <3>4, <3>5
    <2>4. QED
      BY <2>2, <2>3
  <1>8. TableOK' /\ NodesStay(Live) /\ Live' = Live /\ Slot' = Slot
    BY <1>1, <1>2, <1>7, CountMoves
  <1>9. edge \in [Names -> EdgeTo(Live) \cup {NoEdge}] /\ edge' \in [Names -> EdgeTo(Live) \cup {NoEdge}]
    BY <1>2, <1>5 DEF ClientOK
  <1>10. \A y \in Names : edge'[y] = IF y = x THEN NoEdge ELSE edge[y]
    BY <1>5, <1>9
  <1>11. ASSUME NEW m \in Slot PROVE refcou'[m] = MaxRef \/ Cardinality(Holders(m)') <= refcou'[m]
    <2>0. NoEdge' = NoEdge
      BY DEF NoEdge
    <2>1. CASE m # n
      <3>1. Holders(m)' = Holders(m)
        BY <1>3, <1>10, <2>0, <2>1 DEF Holders
      <3>2. refcou'[m] = refcou[m]
        BY <1>7, <2>1
      <3>3. QED
        BY <1>2, <3>1, <3>2 DEF ClientOK
    <2>2. CASE m = n /\ n = 0
      BY <1>6, <1>7, <2>2
    <2>3. CASE m = n /\ n # 0
      <3>1. Holders(n)' = Holders(n) \ {x} /\ x \in Holders(n)
        BY <1>1, <1>3, <1>10, <2>0 DEF Holders
      <3>2. Cardinality(Holders(n)') = Cardinality(Holders(n)) - 1
        <4>1. IsFiniteSet(Holders(n))
          BY HoldersFinite
        <4>2. Cardinality(Holders(n) \ {x}) = Cardinality(Holders(n)) - 1
          BY <3>1, <4>1, FS_RemoveElement
        <4>3. QED
          BY <3>1, <4>2
      <3>3. refcou[n] = MaxRef \/ Cardinality(Holders(n)) <= refcou[n]
        BY <1>2, <1>4 DEF ClientOK
      <3>4. Cardinality(Holders(n)) \in Nat /\ Cardinality(Holders(n)) # 0
        BY <3>1, HoldersFinite, FS_EmptySet
      <3>5. refcou'[n] = MaxRef \/ Cardinality(Holders(n)') <= refcou'[n]
        BY <1>4, <1>7, <2>3, <3>2, <3>3, <3>4
      <3>6. QED
        BY <2>3, <3>5
    <2>4. QED
      BY <2>1, <2>2, <2>3
  <1>12. ClientOK'
    <2>1. edge' \in [Names -> EdgeTo(Live') \cup {NoEdge}] /\ evddrefstack' \in Seq(Live') /\ result' = None
      BY <1>1, <1>2, <1>8, <1>9
    <2>2. EdgeTo(Live)' = EdgeTo(Live') /\ NoEdge' = NoEdge /\ None' = None
      BY DEF EdgeTo, Weights, NoEdge, None
    <2>3. \A m \in Slot' : refcou'[m] = MaxRef \/ Cardinality(Holders(m))' <= refcou'[m]
      BY <1>8, <1>11
    <2>4. QED
      BY <2>1, <2>2, <2>3 DEF ClientOK
  <1>13. GoodCache(evdd_applycache)'
    <2>1. PICK cache : cache = evdd_applycache
      OBVIOUS
    <2>2. GoodCache(cache)'
      BY <1>2, <1>8, <2>1, CacheKept
    <2>3. QED
      BY <1>1, <2>1, <2>2
  <1>14. EvddInv'
    BY <1>1, <1>8, <1>12, <1>13, IdleGoesOn
  <1>15. QED
    BY <1>8, <1>14 DEF Keeping, Reach

----------------------------------------------------------------------------
\* The calls of evdd_apply_rec that wait.

LEMMA OperandsReached ==
  ASSUME TableOK, ClientOK, NEW f \in Caller, TopLevel(f.a, f.b) < Terminal
  PROVE  /\ f.a \in EdgeTo(Live) /\ f.b \in EdgeTo(Live)
         /\ Below(LowOperands(f.a, f.b), f.a, f.b, FALSE) /\ Below(HighOperands(f.a, f.b), f.a, f.b, TRUE)
         /\ LowOperands(f.a, f.b).a \in EdgeTo(Reach) /\ LowOperands(f.a, f.b).b \in EdgeTo(Reach)
         /\ NextOperands(f).a \in EdgeTo(Reach) /\ NextOperands(f).b \in EdgeTo(Reach)
         /\ NextOperands(f) = [a |-> NextOperands(f).a, b |-> NextOperands(f).b]
  <1>1. f.a \in EdgeTo(Reach) /\ f.b \in EdgeTo(Reach)
    BY DEF Caller
  <1>2. Reach \subseteq Live /\ Closed(Reach)
    BY ReachProtected
  <1>3. f.a \in EdgeTo(Live) /\ f.b \in EdgeTo(Live) /\ f.a.node \in Reach /\ f.b.node \in Reach
    BY <1>1, <1>2 DEF EdgeTo
  <1>4. Below(LowOperands(f.a, f.b), f.a, f.b, FALSE) /\ Below(HighOperands(f.a, f.b), f.a, f.b, TRUE)
    BY <1>3, OperandsBelow
  <1>5. /\ LowOperands(f.a, f.b).a \in EdgeTo(Reach) /\ LowOperands(f.a, f.b).b \in EdgeTo(Reach)
        /\ HighOperands(f.a, f.b).a \in EdgeTo(Reach) /\ HighOperands(f.a, f.b).b \in EdgeTo(Reach)
    BY <1>2, <1>3, <1>4 DEF Below
  <1>6. /\ LowOperands(f.a, f.b) = [a |-> LowOperands(f.a, f.b).a, b |-> LowOperands(f.a, f.b).b]
        /\ HighOperands(f.a, f.b) = [a |-> HighOperands(f.a, f.b).a, b |-> HighOperands(f.a, f.b).b]
    BY DEF LowOperands, HighOperands
  <1>7. NextOperands(f) \in {LowOperands(f.a, f.b), HighOperands(f.a, f.b)}
    BY DEF NextOperands
  <1>8. QED
    BY <1>3, <1>4, <1>5, <1>6, <1>7

LEMMA OperandsAsked ==
  ASSUME TableOK, ClientOK, applying \in Applies, edge[applying.a] # NoEdge, edge[applying.b] # NoEdge,
         NEW fs, Callers(fs)
  PROVE  /\ AskedOperands(fs).a \in EdgeTo(Reach) /\ AskedOperands(fs).b \in EdgeTo(Reach)
         /\ AskedOperands(fs) = [a |-> AskedOperands(fs).a, b |-> AskedOperands(fs).b]
  <1>1. CASE fs = <<>>
    <2>1. AskedOperands(fs) = [a |-> edge[applying.a], b |-> edge[applying.b]]
      BY <1>1 DEF AskedOperands
    <2>2. edge[applying.a] \in EdgeTo(Reach) /\ edge[applying.b] \in EdgeTo(Reach)
      BY SomethingIs, HeldEdges
    <2>3. QED
      BY <2>1, <2>2
  <1>2. CASE fs # <<>>
    <2>1. fs \in Seq(Caller) /\ Len(fs) \in DOMAIN fs
      BY <1>2 DEF Callers
    <2>2. PICK f : f = fs[Len(fs)]
      OBVIOUS
    <2>3. f \in Caller /\ TopLevel(f.a, f.b) < Terminal
      BY <2>1, <2>2 DEF Callers, CallerOK
    <2>4. AskedOperands(fs) = NextOperands(f)
      BY <1>2, <2>2 DEF AskedOperands
    <2>5. QED
      BY <2>3, <2>4, OperandsReached
  <1>3. QED
    BY <1>1, <1>2

LEMMA CallersPush ==
  ASSUME NEW fs, Callers(fs), NEW new \in Caller, CallerOK(new),
         [a |-> new.a, b |-> new.b] = AskedOperands(fs)
  PROVE  Callers(Append(fs, new))
  <1> DEFINE k == Len(fs)
  <1>1. PICK gs : gs = Append(fs, new)
    OBVIOUS
  <1>2. /\ fs \in Seq(Caller) /\ k \in Nat /\ DOMAIN fs = 1..k
        /\ \A i \in 1..k : CallerOK(fs[i])
        /\ \A i \in 1..k : [a |-> fs[i].a, b |-> fs[i].b] =
             IF i = 1 THEN [a |-> edge[applying.a], b |-> edge[applying.b]] ELSE NextOperands(fs[i - 1])
    BY DEF Callers
  <1>3. /\ gs \in Seq(Caller) /\ Len(gs) = k + 1 /\ DOMAIN gs = 1..(k + 1)
        /\ gs[k + 1] = new /\ \A i \in 1..k : gs[i] = fs[i]
    BY <1>1, <1>2
  <1>4. /\ k # 0 => [a |-> new.a, b |-> new.b] = NextOperands(fs[k])
        /\ k = 0 => [a |-> new.a, b |-> new.b] = [a |-> edge[applying.a], b |-> edge[applying.b]]
    BY <1>2 DEF AskedOperands
  <1> HIDE DEF k
  <1>5. \A i \in 1..(k + 1) : i = k + 1 \/ i \in 1..k
    BY <1>2, OnePlaceMore
  <1>6. \A i \in 1..(k + 1) : CallerOK(gs[i])
    BY <1>2, <1>3, <1>5
  <1>7. ASSUME NEW i \in 1..(k + 1)
        PROVE  [a |-> gs[i].a, b |-> gs[i].b] =
                 IF i = 1 THEN [a |-> edge[applying.a], b |-> edge[applying.b]] ELSE NextOperands(gs[i - 1])
    <2>1. CASE i = k + 1
      <3>1. CASE k = 0
        BY <1>3, <1>4, <2>1, <3>1
      <3>2. CASE k # 0
        <4>1. i # 1 /\ i - 1 = k /\ k \in 1..k
          BY <1>2, <2>1, <3>2
        <4>2. QED
          BY <1>3, <1>4, <2>1, <3>2, <4>1
      <3>3. QED
        BY <3>1, <3>2
    <2>2. CASE i \in 1..k
      <3>1. i # 1 => i - 1 \in 1..k
        BY <1>2, <2>2
      <3>2. QED
        BY <1>2, <1>3, <2>2, <3>1
    <2>3. QED
      BY <1>5, <2>1, <2>2
  <1>8. Callers(gs)
    BY <1>3, <1>6, <1>7 DEF Callers
  <1>9. QED
    BY <1>1, <1>8

LEMMA CallersTop ==
  ASSUME NEW fs, Callers(fs), fs # <<>>, NEW new \in Caller, CallerOK(new),
         new.a = fs[Len(fs)].a, new.b = fs[Len(fs)].b
  PROVE  Callers([fs EXCEPT ![Len(fs)] = new])
  <1> DEFINE k == Len(fs)
  <1>1. PICK gs : gs = [fs EXCEPT ![Len(fs)] = new]
    OBVIOUS
  <1>2. /\ fs \in Seq(Caller) /\ k \in Nat \ {0} /\ DOMAIN fs = 1..k /\ k \in 1..k
        /\ \A i \in 1..k : CallerOK(fs[i])
        /\ \A i \in 1..k : [a |-> fs[i].a, b |-> fs[i].b] =
             IF i = 1 THEN [a |-> edge[applying.a], b |-> edge[applying.b]] ELSE NextOperands(fs[i - 1])
    BY DEF Callers
  <1>3. /\ gs \in Seq(Caller) /\ Len(gs) = k /\ DOMAIN gs = 1..k
        /\ gs[k] = new /\ \A i \in 1..k : i # k => gs[i] = fs[i]
    BY <1>1, <1>2
  <1>4. new.a = fs[k].a /\ new.b = fs[k].b
    OBVIOUS
  <1> HIDE DEF k
  <1>5. \A i \in 1..k : CallerOK(gs[i])
    BY <1>2, <1>3
  <1>6. ASSUME NEW i \in 1..k
        PROVE  [a |-> gs[i].a, b |-> gs[i].b] =
                 IF i = 1 THEN [a |-> edge[applying.a], b |-> edge[applying.b]] ELSE NextOperands(gs[i - 1])
    <2>1. i # 1 => i - 1 \in 1..k /\ i - 1 # k
      BY <1>2
    <2>2. gs[i].a = fs[i].a /\ gs[i].b = fs[i].b
      BY <1>3, <1>4
    <2>3. QED
      BY <1>2, <1>3, <2>1, <2>2
  <1>7. Callers(gs)
    BY <1>3, <1>5, <1>6 DEF Callers
  <1>8. QED
    BY <1>1, <1>7

LEMMA CallersPop ==
  ASSUME NEW fs, Callers(fs), fs # <<>>, NEW gs, gs = SubSeq(fs, 1, Len(fs) - 1)
  PROVE  Callers(gs) /\ AskedOperands(gs) = [a |-> fs[Len(fs)].a, b |-> fs[Len(fs)].b]
  <1> DEFINE k == Len(fs)
  <1>1. /\ fs \in Seq(Caller) /\ k \in Nat \ {0} /\ DOMAIN fs = 1..k /\ k \in 1..k
        /\ \A i \in 1..k : CallerOK(fs[i])
        /\ \A i \in 1..k : [a |-> fs[i].a, b |-> fs[i].b] =
             IF i = 1 THEN [a |-> edge[applying.a], b |-> edge[applying.b]] ELSE NextOperands(fs[i - 1])
    BY DEF Callers
  <1>2. /\ gs \in Seq(Caller) /\ Len(gs) = k - 1 /\ DOMAIN gs = 1..(k - 1)
        /\ \A i \in 1..(k - 1) : gs[i] = fs[i]
    BY <1>1
  <1>3. gs = <<>> <=> k = 1
    <2>1. gs = <<>> => Len(gs) = 0
      OBVIOUS
    <2>2. Len(gs) = 0 => gs = <<>>
      BY <1>2, NothingIn
    <2> HIDE DEF k
    <2>3. Len(gs) = k - 1 /\ k \in Nat
      BY <1>1, <1>2
    <2>4. QED
      BY <2>1, <2>2, <2>3
  <1> HIDE DEF k
  <1>4. \A i \in 1..(k - 1) : i \in 1..k
    BY <1>1, PlacesBefore
  <1>5. \A i \in 1..(k - 1) : i # 1 => i - 1 \in 1..(k - 1)
    BY <1>1
  <1>6. Callers(gs)
    BY <1>1, <1>2, <1>4, <1>5 DEF Callers
  <1>7. k # 1 => k - 1 \in 1..(k - 1)
    BY <1>1
  <1>8. AskedOperands(gs) = [a |-> fs[k].a, b |-> fs[k].b]
    BY <1>1, <1>2, <1>3, <1>7 DEF AskedOperands
  <1>9. QED
    BY <1>6, <1>8 DEF k

LEMMA CallersKept ==
  ASSUME TableOK, ClientOK, NEW K, Stays(K), TableOK', edge' = edge, applying' = applying,
         NEW fs, Callers(fs), \A i \in DOMAIN fs : fs[i].step = "high" => fs[i].low.node \in K
  PROVE  Callers(fs)' /\ AskedOperands(fs)' = AskedOperands(fs)
  <1>1. NodesStay(K) /\ Reach \subseteq K /\ Reach' = Reach
    BY ReachKept DEF Stays
  <1>2. /\ fs \in Seq(Caller)
        /\ \A i \in DOMAIN fs : CallerOK(fs[i]) /\ fs[i] \in Caller
        /\ \A i \in DOMAIN fs :
             [a |-> fs[i].a, b |-> fs[i].b] =
               IF i = 1 THEN [a |-> edge[applying.a], b |-> edge[applying.b]] ELSE NextOperands(fs[i - 1])
    BY DEF Callers
  <1>3. Caller' = Caller
    BY <1>1 DEF Caller, EdgeTo, Weights, NoEdge
  <1>4. ASSUME NEW f \in Caller
        PROVE  /\ f.a \in EdgeTo(K) /\ f.b \in EdgeTo(K) /\ f.step \in {"low", "high"}
               /\ TopLevel(f.a, f.b)' = TopLevel(f.a, f.b) /\ NextOperands(f)' = NextOperands(f)
               /\ LowOperands(f.a, f.b)' = LowOperands(f.a, f.b)
    <2>1. f.a \in EdgeTo(K) /\ f.b \in EdgeTo(K) /\ f.step \in {"low", "high"}
      BY <1>1 DEF Caller, EdgeTo
    <2>2. PICK a, b : a = f.a /\ b = f.b
      OBVIOUS
    <2>3. /\ TopLevel(a, b)' = TopLevel(a, b) /\ LowOperands(a, b)' = LowOperands(a, b)
          /\ HighOperands(a, b)' = HighOperands(a, b)
      BY <1>1, <2>1, <2>2, OperandsKept
    <2>4. QED
      BY <2>1, <2>2, <2>3 DEF NextOperands
  <1>5. ASSUME NEW f \in Caller, CallerOK(f), f.step = "high" => f.low.node \in K PROVE CallerOK(f)'
    <2>1. PICK x, op : x = LowOperands(f.a, f.b) /\ op = applying.op
      OBVIOUS
    <2>2. /\ TopLevel(f.a, f.b) < Terminal
          /\ f.step = "low" => f.low = NoEdge
          /\ f.step = "high" => f.low \in Results(op, x.a, x.b, Live)
      BY <1>5, <2>1 DEF CallerOK
    <2>3. x.a \in EdgeTo(K) /\ x.b \in EdgeTo(K)
      <3>1. x.a \in EdgeTo(Reach) /\ x.b \in EdgeTo(Reach)
        BY <2>1, <2>2, OperandsReached
      <3>2. QED
        BY <1>1, <3>1 DEF EdgeTo
    <2>4. f.step = "high" => f.low \in Results(op, x.a, x.b, Live)'
      BY <1>1, <1>5, <2>2, <2>3, ResultsKept
    <2>5. x = LowOperands(f.a, f.b)' /\ op = applying'.op /\ TopLevel(f.a, f.b)' < Terminal
          /\ f.step \in {"low", "high"}
      BY <1>4, <2>1, <2>2
    <2>6. QED
      BY <2>2, <2>4, <2>5 DEF CallerOK, NoEdge
  <1>6. \A i \in DOMAIN fs : CallerOK(fs[i])'
    BY <1>2, <1>5
  <1>7. \A i \in DOMAIN fs : i # 1 => i - 1 \in DOMAIN fs
    <2>1. Len(fs) \in Nat /\ DOMAIN fs = 1..Len(fs)
      BY <1>2
    <2>2. QED
      BY <2>1
  <1>8. \A i \in DOMAIN fs :
          [a |-> fs[i].a, b |-> fs[i].b] =
            IF i = 1 THEN [a |-> edge'[applying'.a], b |-> edge'[applying'.b]] ELSE NextOperands(fs[i - 1])'
    BY <1>2, <1>4, <1>7
  <1>9. Callers(fs)'
    BY <1>2, <1>3, <1>6, <1>8 DEF Callers
  <1>10. AskedOperands(fs)' = AskedOperands(fs)
    <2>1. fs # <<>> => Len(fs) \in DOMAIN fs
      BY <1>2
    <2>2. fs # <<>> => NextOperands(fs[Len(fs)])' = NextOperands(fs[Len(fs)])
      BY <1>2, <1>4, <2>1
    <2>3. QED
      BY <2>2 DEF AskedOperands
  <1>11. QED
    BY <1>9, <1>10

\* The places of the low results on the stack.
Places(fs, refs, pos) ==
  /\ pos \in [DOMAIN fs -> 0..Len(refs)]
  /\ \A i \in DOMAIN fs : fs[i].step = "high" => pos[i] > 0 /\ refs[pos[i]] = fs[i].low.node
  /\ \A i, j \in DOMAIN fs :
       i < j /\ fs[i].step = "high" /\ fs[j].step = "high" => pos[i] < pos[j]

LEMMA ProtectedPlaces == \A fs, refs : Protected(fs, refs) <=> \E pos : Places(fs, refs, pos)
  BY DEF Protected, Places

LEMMA ProtectedIn ==
  ASSUME NEW fs, NEW refs, Protected(fs, refs), NEW S, \A i \in DOMAIN refs : refs[i] \in S,
         NEW T, refs \in Seq(T)
  PROVE  \A i \in DOMAIN fs : fs[i].step = "high" => fs[i].low.node \in S
  <1>1. PICK pos : Places(fs, refs, pos)
    BY ProtectedPlaces
  <1>2. \A i \in DOMAIN fs : fs[i].step = "high" => pos[i] \in DOMAIN refs /\ refs[pos[i]] = fs[i].low.node
    BY <1>1 DEF Places
  <1>3. QED
    BY <1>2

LEMMA ProtectedPush ==
  ASSUME NEW F, NEW fs \in Seq(F), NEW new \in F, new.step = "low", NEW T, NEW refs \in Seq(T),
         Protected(fs, refs)
  PROVE  Protected(Append(fs, new), refs)
  <1> DEFINE k == Len(fs)
  <1>1. PICK gs : gs = Append(fs, new)
    OBVIOUS
  <1>2. PICK pos : Places(fs, refs, pos)
    BY ProtectedPlaces
  <1>3. /\ k \in Nat /\ DOMAIN fs = 1..k /\ DOMAIN gs = 1..(k + 1) /\ gs[k + 1] = new
        /\ \A i \in 1..k : gs[i] = fs[i]
        /\ Len(refs) \in Nat
    BY <1>1
  <1> HIDE DEF k
  <1>4. PICK q : q = [i \in 1..(k + 1) |-> IF i = k + 1 THEN 0 ELSE pos[i]]
    OBVIOUS
  <1>5. \A i \in 1..(k + 1) : i = k + 1 \/ (i \in 1..k /\ i # k + 1)
    BY <1>3
  <1>6. /\ \A i \in 1..k : q[i] = pos[i] /\ q[i] \in 0..Len(refs)
        /\ q[k + 1] = 0 /\ 0 \in 0..Len(refs)
    BY <1>2, <1>3, <1>4, <1>5 DEF Places
  <1>7. q \in [1..(k + 1) -> 0..Len(refs)]
    BY <1>4, <1>5, <1>6
  <1>8. \A i \in 1..(k + 1) : gs[i].step = "high" => i \in 1..k
    BY <1>3, <1>5
  <1>9. Places(gs, refs, q)
    BY <1>2, <1>3, <1>6, <1>7, <1>8 DEF Places
  <1>10. QED
    BY <1>1, <1>9, ProtectedPlaces

LEMMA ProtectedTop ==
  ASSUME NEW F, NEW fs \in Seq(F), fs # <<>>, NEW new \in F, new.step = "high", NEW T, NEW refs \in Seq(T),
         Protected(fs, refs), NEW n \in T, n = new.low.node
  PROVE  Protected([fs EXCEPT ![Len(fs)] = new], Append(refs, n))
  <1> DEFINE k == Len(fs)
             L == Len(refs)
  <1>1. PICK gs, xs : gs = [fs EXCEPT ![Len(fs)] = new] /\ xs = Append(refs, n)
    OBVIOUS
  <1>2. PICK pos : Places(fs, refs, pos)
    BY ProtectedPlaces
  <1>3. /\ k \in Nat /\ k \in 1..k /\ DOMAIN fs = 1..k /\ DOMAIN gs = 1..k /\ gs[k] = new
        /\ \A i \in 1..k : i # k => gs[i] = fs[i]
    BY <1>1
  <1>4. L \in Nat /\ Len(xs) = L + 1 /\ xs[L + 1] = n /\ \A j \in 1..L : xs[j] = refs[j]
    BY <1>1
  <1>5. PICK q : q = [i \in 1..k |-> IF i = k THEN L + 1 ELSE pos[i]]
    OBVIOUS
  <1>6. /\ pos \in [1..k -> 0..L]
        /\ \A i \in 1..k : fs[i].step = "high" => pos[i] > 0 /\ refs[pos[i]] = fs[i].low.node
        /\ \A i, j \in 1..k :
             i < j /\ fs[i].step = "high" /\ fs[j].step = "high" => pos[i] < pos[j]
    BY <1>2, <1>3 DEF Places
  <1> HIDE DEF k, L
  <1>7. \A i \in 1..k : pos[i] \in 0..L /\ (pos[i] > 0 => pos[i] \in 1..L) /\ pos[i] < L + 1
    BY <1>4, <1>6
  <1>8. q[k] = L + 1 /\ \A i \in 1..k : i # k => q[i] = pos[i]
    BY <1>3, <1>5
  <1>9. q \in [1..k -> 0..(L + 1)]
    BY <1>4, <1>5, <1>7
  <1>10. ASSUME NEW i \in 1..k, gs[i].step = "high" PROVE q[i] > 0 /\ xs[q[i]] = gs[i].low.node
    <2>1. CASE i = k
      BY <1>3, <1>4, <1>8, <2>1
    <2>2. CASE i # k
      <3>1. gs[i] = fs[i] /\ q[i] = pos[i]
        BY <1>3, <1>8, <2>2
      <3>2. pos[i] > 0 /\ fs[i].low.node = refs[pos[i]]
        BY <1>6, <1>10, <3>1
      <3>3. xs[pos[i]] = refs[pos[i]]
        BY <1>4, <1>7, <3>2
      <3>4. QED
        BY <3>1, <3>2, <3>3
    <2>3. QED
      BY <2>1, <2>2
  <1>11. ASSUME NEW i \in 1..k, NEW j \in 1..k, i < j, gs[i].step = "high", gs[j].step = "high"
         PROVE  q[i] < q[j]
    <2>1. i # k
      BY <1>3, <1>11
    <2>2. CASE j = k
      BY <1>7, <1>8, <2>1, <2>2
    <2>3. CASE j # k
      BY <1>3, <1>6, <1>8, <1>11, <2>1, <2>3
    <2>4. QED
      BY <2>2, <2>3
  <1>12. Places(gs, xs, q)
    BY <1>3, <1>4, <1>9, <1>10, <1>11 DEF Places
  <1>13. QED
    BY <1>1, <1>12, ProtectedPlaces

Popped(s, t) == t = SubSeq(s, 1, Len(s) - 1)

LEMMA ProtectedPop ==
  ASSUME NEW F, NEW fs \in Seq(F), fs # <<>>, fs[Len(fs)].step = "high", NEW T, NEW refs \in Seq(T),
         Protected(fs, refs), NEW gs, Popped(fs, gs), NEW xs, Popped(refs, xs)
  PROVE  /\ Protected(gs, xs) /\ Len(refs) \in Nat \ {0} /\ xs \in Seq(T)
         /\ Len(xs) = Len(refs) - 1 /\ \A i \in 1..(Len(refs) - 1) : xs[i] = refs[i]
  <1> DEFINE k == Len(fs)
             L == Len(refs)
  <1>1. PICK pos : Places(fs, refs, pos)
    BY ProtectedPlaces
  <1>2. k \in Nat /\ k \in 1..k /\ DOMAIN fs = 1..k /\ L \in Nat /\ fs[k].step = "high"
    OBVIOUS
  <1>3. /\ pos \in [1..k -> 0..L]
        /\ \A i \in 1..k : fs[i].step = "high" => pos[i] > 0 /\ refs[pos[i]] = fs[i].low.node
        /\ \A i, j \in 1..k :
             i < j /\ fs[i].step = "high" /\ fs[j].step = "high" => pos[i] < pos[j]
    BY <1>1, <1>2 DEF Places
  <1>4. L \in Nat \ {0}
    <2> HIDE DEF k, L
    <2>1. pos[k] > 0 /\ pos[k] \in 0..L
      BY <1>2, <1>3
    <2>2. QED
      BY <1>2, <2>1
  <1>5. Len(gs) = k - 1 /\ DOMAIN gs = 1..(k - 1) /\ \A i \in 1..(k - 1) : gs[i] = fs[i]
    BY <1>2 DEF Popped
  <1>6. xs \in Seq(T) /\ Len(xs) = L - 1 /\ \A i \in 1..(L - 1) : xs[i] = refs[i]
    <2>1. PICK j : j = L - 1
      OBVIOUS
    <2>2. j \in 0..Len(refs) /\ xs = SubSeq(refs, 1, j)
      BY <1>4, <2>1 DEF Popped
    <2>3. xs \in Seq(T) /\ Len(xs) = j /\ \A i \in 1..j : xs[i] = refs[i]
      BY <2>2
    <2>4. QED
      BY <2>1, <2>3
  <1>7. PICK q : q = [i \in 1..(k - 1) |-> IF fs[i].step = "high" THEN pos[i] ELSE 0]
    OBVIOUS
  <1> HIDE DEF k, L
  <1>8. ASSUME NEW i \in 1..(k - 1)
        PROVE  /\ i \in 1..k /\ i < k
               /\ fs[i].step = "high" => pos[i] \in 1..(L - 1) /\ q[i] = pos[i]
               /\ q[i] \in 0..(L - 1)
    <2>1. i \in 1..k /\ i < k
      BY <1>2
    <2>2. fs[i].step = "high" => pos[i] < pos[k] /\ pos[i] > 0 /\ pos[i] \in 0..L /\ pos[k] \in 0..L
      BY <1>2, <1>3, <2>1
    <2>3. fs[i].step = "high" => pos[i] \in 1..(L - 1)
      BY <1>2, <2>2
    <2>4. QED
      BY <1>4, <1>7, <2>1, <2>3
  <1>9. q \in [1..(k - 1) -> 0..(L - 1)]
    BY <1>7, <1>8
  <1>10. Places(gs, xs, q)
    <2>1. \A i \in 1..(k - 1) : gs[i].step = "high" => q[i] > 0 /\ xs[q[i]] = gs[i].low.node
      BY <1>3, <1>5, <1>6, <1>8
    <2>2. \A i, j \in 1..(k - 1) :
            i < j /\ gs[i].step = "high" /\ gs[j].step = "high" => q[i] < q[j]
      BY <1>3, <1>5, <1>8
    <2>3. QED
      BY <1>5, <1>6, <1>9, <2>1, <2>2 DEF Places
  <1>11. QED
    BY <1>4, <1>6, <1>10, ProtectedPlaces DEF L

LEMMA ProtectedNone == \A refs : Protected(<<>>, refs)
  <1>1. PICK none : none = <<>>
    OBVIOUS
  <1>2. DOMAIN none = {}
    BY <1>1
  <1>3. ASSUME NEW refs PROVE Places(none, refs, [i \in {} |-> 0])
    BY <1>2 DEF Places
  <1>4. QED
    BY <1>1, <1>3, ProtectedPlaces

----------------------------------------------------------------------------
\* The steps of evdd_apply.

LEMMA WhileApplying ==
  ASSUME EvddInv, applying # None
  PROVE  /\ TableOK /\ ClientOK /\ GoodCache(evdd_applycache) /\ Applying
         /\ call = None /\ result = None /\ NotWalking
         /\ applying \in Applies /\ edge[applying.to] = NoEdge
         /\ edge[applying.a] # NoEdge /\ edge[applying.b] # NoEdge
         /\ ApplyOK(waiting, evddrefstack, operands, answer)
  BY DEF EvddInv, Good, Applying

LEMMA ApplyGoesOn ==
  ASSUME applying # None, call = None, NotWalking, UNCHANGED walk, applying' = applying,
         TableOK', ClientOK', GoodCache(evdd_applycache)', Applying'
  PROVE  EvddInv'
  <1>1. applying' # None /\ call' = None /\ NotWalking' /\ None' = None
    BY DEF walk, NotWalking, None, NoNode, NoEdge
  <1>2. QED
    BY <1>1 DEF EvddInv, Good

LEMMA ApplyStill ==
  ASSUME EvddInv, applying # None, UNCHANGED table, UNCHANGED <<edge, result, walk, applying>>,
         NEW refs \in Seq(Live), refs = evddrefstack', NEW cache, cache = evdd_applycache', GoodCache(cache),
         NEW fs, fs = waiting', NEW ops, ops = operands', NEW ans, ans = answer',
         ApplyOK(fs, refs, ops, ans)
  PROVE  EvddInv' /\ Keeping
  <1>1. /\ TableOK /\ ClientOK /\ applying \in Applies /\ edge[applying.to] = NoEdge
        /\ edge[applying.a] # NoEdge /\ edge[applying.b] # NoEdge
        /\ call = None /\ result = None /\ NotWalking
    BY WhileApplying
  <1>2. TableOK' /\ Stays(Live) /\ NodesStay(Live) /\ Live' = Live /\ Keeping
    <2>1. TableOK' /\ Stays(Live) /\ Live' = Live
      BY <1>1, NothingMoves
    <2>2. QED
      BY <2>1 DEF Stays, Keeping, Reach
  <1>3. edge' = edge /\ result' = None /\ UNCHANGED walk /\ applying' = applying /\ call' = None
    BY <1>1 DEF walk
  <1>4. ClientOK'
    <2>1. evddrefstack' \in Seq(Live')
      BY <1>2
    <2>2. QED
      BY <1>1, <1>2, <1>3, <2>1, ClientKept
  <1>5. GoodCache(evdd_applycache)'
    <2>1. GoodCache(cache)'
      BY <1>1, <1>2, CacheKept
    <2>2. QED
      BY <2>1
  <1>6. PICK asked, op : asked = AskedOperands(fs) /\ op = applying.op
    OBVIOUS
  <1>7. /\ Callers(fs) /\ Protected(fs, refs)
        /\ ops # None => ops = asked /\ ans = NoEdge
        /\ ans # NoEdge => ans \in Results(op, asked.a, asked.b, Live)
    BY <1>6 DEF ApplyOK
  <1>8. \A i \in DOMAIN fs : fs[i].step = "high" => fs[i].low.node \in Live
    <2>1. ASSUME NEW i \in DOMAIN fs, fs[i].step = "high" PROVE fs[i].low.node \in Live
      <3>1. fs[i].low \in EdgeTo(Live)
        BY <1>7, <2>1 DEF Callers, CallerOK, Results
      <3>2. QED
        BY <3>1, RecordsNotEmpty
    <2>2. QED
      BY <2>1
  <1>9. Callers(fs)' /\ AskedOperands(fs)' = asked
    <2>1. PICK K : K = Live
      OBVIOUS
    <2>2. Stays(K) /\ \A i \in DOMAIN fs : fs[i].step = "high" => fs[i].low.node \in K
      BY <1>2, <1>8, <2>1
    <2>3. QED
      BY <1>1, <1>2, <1>3, <1>6, <1>7, <2>2, CallersKept
  <1>10. ans # NoEdge => ans \in Results(op, asked.a, asked.b, Live)'
    <2>1. asked.a \in EdgeTo(Live) /\ asked.b \in EdgeTo(Live)
      <3>1. asked.a \in EdgeTo(Reach) /\ asked.b \in EdgeTo(Reach)
        BY <1>1, <1>6, <1>7, OperandsAsked
      <3>2. QED
        BY <3>1 DEF EdgeTo, Reach
    <2>2. ans # NoEdge => ans.node \in Live
      BY <1>7, RecordsNotEmpty DEF Results
    <2>3. PICK K : K = Live
      OBVIOUS
    <2>4. NodesStay(K) /\ asked.a \in EdgeTo(K) /\ asked.b \in EdgeTo(K)
          /\ (ans # NoEdge => ans.node \in K)
      BY <1>2, <2>1, <2>2, <2>3
    <2>5. QED
      BY <1>1, <1>2, <1>7, <2>4, ResultsKept
  <1>11. ApplyOK(fs, refs, ops, ans)'
    <2>1. Protected(fs, refs)'
      BY <1>7 DEF Protected
    <2>2. op = applying'.op
      BY <1>3, <1>6
    <2>3. QED
      BY <1>7, <1>9, <1>10, <2>1, <2>2 DEF ApplyOK, None, NoEdge
  <1>12. Applying'
    <2>1. ApplyOK(waiting, evddrefstack, operands, answer)'
      BY <1>11
    <2>2. QED
      BY <1>1, <1>3, <2>1 DEF Applying, None, NoEdge
  <1>13. QED
    BY <1>1, <1>2, <1>3, <1>4, <1>5, <1>12, ApplyGoesOn

LEMMA StartApplyStep ==
  ASSUME EvddInv, applying = None, NEW c \in Applies, StartApply(c)
  PROVE  EvddInv' /\ Keeping
  <1>1. /\ call = None /\ result = None /\ edge[c.a] # NoEdge /\ edge[c.b] # NoEdge /\ edge[c.to] = NoEdge
        /\ Still /\ UNCHANGED walk /\ result' = None
        /\ applying' = c /\ operands' = [a |-> edge[c.a], b |-> edge[c.b]]
        /\ evddrefstack' = <<edge[c.a].node, edge[c.b].node>>
        /\ waiting' = waiting /\ answer' = answer
    BY DEF StartApply, Idle, Still
  <1>2. Good /\ TableOK /\ ClientOK /\ NotWalking /\ NotApplying
    BY <1>1, WhileIdle
  <1>3. c.a \in Names /\ c.b \in Names /\ c.to \in Names /\ c # None
    BY SomethingIs
  <1>4. TableOK' /\ ClientOK' /\ GoodCache(evdd_applycache)' /\ Keeping
    <2>1. edge[c.a].node \in Live /\ edge[c.b].node \in Live
      BY <1>1, <1>2, <1>3, HeldEdges, RecordsNotEmpty
    <2>2. evddrefstack' \in Seq(Live)
      BY <1>1, <2>1
    <2>3. QED
      BY <1>1, <1>2, <2>2, TableStill
  <1>5. waiting' = <<>> /\ answer' = NoEdge /\ edge' = edge /\ call' = None /\ NotWalking'
    BY <1>1, <1>2 DEF NotApplying, NotWalking, Still, walk, None, NoEdge, NoNode
  <1>6. ApplyOK(waiting, evddrefstack, operands, answer)'
    <2>1. Callers(waiting)'
      BY <1>5 DEF Callers
    <2>2. Protected(waiting, evddrefstack)'
      <3>1. PICK fs, refs : fs = waiting' /\ refs = evddrefstack'
        OBVIOUS
      <3>2. Protected(fs, refs)
        BY <1>5, <3>1, ProtectedNone
      <3>3. Protected(fs, refs)'
        BY <3>2 DEF Protected
      <3>4. QED
        BY <3>1, <3>3
    <2>3. AskedOperands(waiting)' = operands'
      BY <1>1, <1>5 DEF AskedOperands
    <2>4. QED
      BY <1>5, <2>1, <2>2, <2>3 DEF ApplyOK, NoEdge
  <1>7. Applying'
    BY <1>1, <1>5, <1>6 DEF Applying, None, NoEdge
  <1>8. applying' # None
    BY <1>1, <1>3
  <1>9. EvddInv'
    BY <1>4, <1>5, <1>7, <1>8 DEF EvddInv, Good, None
  <1>10. QED
    BY <1>4, <1>9

LEMMA ReturnCachedStep ==
  ASSUME EvddInv, ReturnCached
  PROVE  EvddInv' /\ Keeping
  <1>1. operands # None /\ Hit(operands.a, operands.b)
    BY DEF ReturnCached
  <1>2. applying # None
    BY <1>1 DEF EvddInv, NotApplying
  <1>3. /\ TableOK /\ ClientOK /\ GoodCache(evdd_applycache) /\ applying \in Applies
        /\ edge[applying.a] # NoEdge /\ edge[applying.b] # NoEdge
        /\ ApplyOK(waiting, evddrefstack, operands, answer)
    BY <1>2, WhileApplying
  <1>4. PICK a, b, op, cache, i, fs, refs, ans :
          /\ a = operands.a /\ b = operands.b /\ op = applying.op /\ cache = evdd_applycache
          /\ i = ApplyHash(a, b, op) /\ fs = waiting /\ refs = evddrefstack /\ ans = cache[i].res
    OBVIOUS
  <1>5. /\ UNCHANGED vars /\ UNCHANGED <<applying, waiting>>
        /\ operands' = None /\ answer' = ans
        /\ cache[i] # NoEntry /\ cache[i].a = a /\ cache[i].b = b /\ cache[i].op = op
    BY <1>1, <1>4 DEF ReturnCached, Hit, Slot_
  <1>6. /\ Callers(fs) /\ Protected(fs, refs)
        /\ AskedOperands(fs) = operands
    BY <1>1, <1>3, <1>4 DEF ApplyOK
  <1>7. a \in EdgeTo(Live) /\ b \in EdgeTo(Live)
    BY <1>3, <1>4, <1>6, OperandsAsked DEF EdgeTo, Reach
  <1>8. i \in 0..(CacheSize - 1)
    BY <1>3, <1>4, <1>7, SlotIn
  <1>9. EntryOK(cache[i])
    BY <1>3, <1>4, <1>5, <1>8 DEF GoodCache
  <1>10. ans \in Results(op, a, b, Live)
    BY <1>4, <1>5, <1>9 DEF EntryOK
  <1>11. PICK none : none = None
    OBVIOUS
  <1>12. ApplyOK(fs, refs, none, ans)
    BY <1>4, <1>6, <1>10, <1>11 DEF ApplyOK
  <1>13. /\ UNCHANGED table /\ UNCHANGED <<edge, result, walk, applying>>
         /\ refs = evddrefstack' /\ cache = evdd_applycache' /\ fs = waiting' /\ none = operands' /\ ans = answer'
         /\ refs \in Seq(Live) /\ GoodCache(cache)
    BY <1>3, <1>4, <1>5, <1>11 DEF vars, ClientOK
  <1>14. QED
    BY <1>2, <1>12, <1>13, ApplyStill

\* Two terminals.
LEMMA ValueRight ==
  ASSUME TableOK, NEW c \in Applies, NEW a \in EdgeTo(Live), NEW b \in EdgeTo(Live),
         a.node = 0, b.node = 0, NEW e, e = Edge(0, Operator(c.op, a.w, b.w))
  PROVE  e \in Results(c.op, a, b, Live)
  <1>1. a.w \in Weights /\ b.w \in Weights /\ 0 \in Live
    BY RecordsNotEmpty, TableFacts DEF Facts
  <1>2. PICK v : v = Operator(c.op, a.w, b.w)
    OBVIOUS
  <1>3. v \in Weights
    BY <1>1, <1>2, ApplyAssumption
  <1>4. e = Edge(0, v) /\ e \in EdgeTo(Live) /\ e.node = 0 /\ e.w = v
    BY <1>1, <1>2, <1>3, EdgeIn, RecordsNotEmpty
  <1>5. TopLevel(a, b) <= LevelOf(e.node)
    BY <1>4, TopFacts, TableFacts DEF Facts
  <1>6. ASSUME NEW f, f.node = 0, f.w \in Weights, NEW s \in Assignments PROVE Meaning(f)[s] = f.w
    BY <1>6, MeaningUnfolds, ProductUnits DEF Unfolds
  <1>7. \A s \in Assignments : Meaning(e)[s] = Operator(c.op, Meaning(a)[s], Meaning(b)[s])
    BY <1>1, <1>2, <1>3, <1>4, <1>6
  <1>8. Meaning(e) = [s \in Assignments |-> Meaning(e)[s]]
    BY MeaningUnfolds DEF Unfolds
  <1>9. Meaning(e) = Applied(c.op, a, b)
    BY <1>7, <1>8 DEF Applied
  <1>10. QED
    BY <1>4, <1>5, <1>9 DEF Results

LEMMA ReturnValueStep ==
  ASSUME EvddInv, ReturnValue
  PROVE  EvddInv' /\ Keeping
  <1>1. operands # None /\ Terminals
    BY DEF ReturnValue
  <1>2. applying # None
    BY <1>1 DEF EvddInv, NotApplying
  <1>3. /\ TableOK /\ ClientOK /\ GoodCache(evdd_applycache) /\ applying \in Applies
        /\ edge[applying.a] # NoEdge /\ edge[applying.b] # NoEdge
        /\ ApplyOK(waiting, evddrefstack, operands, answer)
    BY <1>2, WhileApplying
  <1>4. PICK a, b, c, old, cache, fs, refs, ans :
          /\ a = operands.a /\ b = operands.b /\ c = applying /\ old = evdd_applycache
          /\ cache = evdd_applycache' /\ fs = waiting /\ refs = evddrefstack
          /\ ans = Edge(0, Operator(applying.op, operands.a.w, operands.b.w))
    OBVIOUS
  <1>5. /\ UNCHANGED table /\ UNCHANGED <<evddrefstack, edge, result, walk, applying, waiting>>
        /\ operands' = None /\ answer' = ans
        /\ cache = [old EXCEPT ![ApplyHash(a, b, c.op)] = Entry(c, a, b, ans)]
    BY <1>4 DEF ReturnValue, Stored, Slot_, Entry
  <1>6. /\ Callers(fs) /\ Protected(fs, refs)
        /\ AskedOperands(fs) = operands
    BY <1>1, <1>3, <1>4 DEF ApplyOK
  <1>7. a \in EdgeTo(Live) /\ b \in EdgeTo(Live)
    BY <1>3, <1>4, <1>6, OperandsAsked DEF EdgeTo, Reach
  <1>8. a.node = 0 /\ b.node = 0 /\ ans = Edge(0, Operator(c.op, a.w, b.w))
    BY <1>1, <1>4 DEF Terminals, Const
  <1>9. ans \in Results(c.op, a, b, Live)
    BY <1>3, <1>4, <1>7, <1>8, ValueRight
  <1>10. GoodCache(cache)
    <2>1. Storing /\ GoodCache(old) /\ c \in Applies
      BY <1>3, <1>4, AlwaysStoring
    <2>2. GoodCache([old EXCEPT ![ApplyHash(a, b, c.op)] = Entry(c, a, b, ans)])
      BY <1>7, <1>9, <2>1 DEF Storing
    <2>3. QED
      BY <1>5, <2>2
  <1>11. PICK none : none = None
    OBVIOUS
  <1>12. ApplyOK(fs, refs, none, ans)
    BY <1>4, <1>6, <1>9, <1>11 DEF ApplyOK
  <1>13. /\ UNCHANGED <<edge, result, walk, applying>>
         /\ refs = evddrefstack' /\ fs = waiting' /\ none = operands' /\ ans = answer'
         /\ refs \in Seq(Live)
    BY <1>3, <1>4, <1>5, <1>11 DEF ClientOK
  <1>14. QED
    BY <1>2, <1>4, <1>5, <1>10, <1>12, <1>13, ApplyStill

LEMMA CallLowStep ==
  ASSUME EvddInv, CallLow
  PROVE  EvddInv' /\ Keeping
  <1>1. operands # None /\ ~Terminals
    BY DEF CallLow
  <1>2. applying # None
    BY <1>1 DEF EvddInv, NotApplying
  <1>3. /\ TableOK /\ ClientOK /\ GoodCache(evdd_applycache) /\ applying \in Applies
        /\ edge[applying.a] # NoEdge /\ edge[applying.b] # NoEdge
        /\ ApplyOK(waiting, evddrefstack, operands, answer)
    BY <1>2, WhileApplying
  <1>4. PICK a, b, new, cache, fs, refs, ops, ans :
          /\ a = operands.a /\ b = operands.b /\ cache = evdd_applycache
          /\ new = [a |-> operands.a, b |-> operands.b, step |-> "low", low |-> NoEdge]
          /\ fs = waiting /\ refs = evddrefstack /\ ans = answer
          /\ ops = LowOperands(operands.a, operands.b)
    OBVIOUS
  <1>5. UNCHANGED vars /\ applying' = applying /\ answer' = ans /\ waiting' = Append(fs, new) /\ operands' = ops
    BY <1>4 DEF CallLow
  <1>6. Callers(fs) /\ Protected(fs, refs) /\ AskedOperands(fs) = operands /\ ans = NoEdge
    BY <1>1, <1>3, <1>4 DEF ApplyOK
  <1>7. a \in EdgeTo(Reach) /\ b \in EdgeTo(Reach) /\ operands = [a |-> a, b |-> b]
    BY <1>3, <1>4, <1>6, OperandsAsked
  <1>8. a \in EdgeTo(Live) /\ b \in EdgeTo(Live)
    BY <1>7 DEF EdgeTo, Reach
  <1>9. TopLevel(a, b) < Terminal
    <2>1. a.node # 0 \/ b.node # 0
      BY <1>1, <1>4 DEF Terminals, Const
    <2>2. QED
      BY <1>3, <1>8, <2>1, TopFacts
  <1>10. new.a = a /\ new.b = b /\ new.step = "low" /\ new.low = NoEdge
    BY <1>4
  <1>11. new \in Caller
    BY <1>4, <1>7 DEF Caller
  <1>12. CallerOK(new) /\ [a |-> new.a, b |-> new.b] = AskedOperands(fs)
    BY <1>6, <1>7, <1>9, <1>10 DEF CallerOK
  <1>13. PICK gs : gs = Append(fs, new)
    OBVIOUS
  <1>14. Callers(gs)
    BY <1>6, <1>11, <1>12, <1>13, CallersPush
  <1>15. fs \in Seq(Caller) /\ refs \in Seq(Live)
    BY <1>3, <1>4, <1>6 DEF Callers, ClientOK
  <1>16. Protected(gs, refs)
    BY <1>6, <1>10, <1>11, <1>13, <1>15, ProtectedPush
  <1>17. AskedOperands(gs) = ops
    <2>1. gs # <<>> /\ gs[Len(gs)] = new
      BY <1>11, <1>13, <1>15
    <2>2. NextOperands(new) = LowOperands(a, b)
      BY <1>10 DEF NextOperands
    <2>3. QED
      BY <1>4, <2>1, <2>2 DEF AskedOperands
  <1>18. ApplyOK(gs, refs, ops, ans)
    BY <1>6, <1>14, <1>16, <1>17 DEF ApplyOK
  <1>19. /\ UNCHANGED table /\ UNCHANGED <<edge, result, walk, applying>>
         /\ refs = evddrefstack' /\ cache = evdd_applycache' /\ gs = waiting' /\ ops = operands' /\ ans = answer'
         /\ GoodCache(cache)
    BY <1>3, <1>4, <1>5, <1>13 DEF vars
  <1>20. QED
    BY <1>2, <1>15, <1>18, <1>19, ApplyStill

LEMMA CallHighStep ==
  ASSUME EvddInv, CallHigh
  PROVE  EvddInv' /\ Keeping
  <1>1. answer # NoEdge /\ waiting # <<>> /\ Innermost.step = "low"
    BY DEF CallHigh
  <1>2. applying # None
    BY <1>1 DEF EvddInv, NotApplying
  <1>3. /\ TableOK /\ ClientOK /\ GoodCache(evdd_applycache) /\ applying \in Applies
        /\ edge[applying.a] # NoEdge /\ edge[applying.b] # NoEdge
        /\ ApplyOK(waiting, evddrefstack, operands, answer)
    BY <1>2, WhileApplying
  <1>4. PICK f, new, cache, fs, old, refs, ops, ans, op, none :
          /\ f = Innermost /\ cache = evdd_applycache /\ fs = waiting /\ old = evddrefstack
          /\ refs = Append(old, answer.node) /\ op = applying.op /\ none = NoEdge
          /\ ans = answer /\ ops = HighOperands(f.a, f.b)
          /\ new = [f EXCEPT !.step = "high", !.low = ans]
    OBVIOUS
  <1>5. /\ UNCHANGED <<table, evdd_applycache, edge, result, walk, applying>>
        /\ evddrefstack' = refs /\ answer' = none /\ operands' = ops
        /\ waiting' = [fs EXCEPT ![Len(fs)] = new]
    BY <1>4 DEF CallHigh, Push, Innermost
  <1>6. /\ Callers(fs) /\ Protected(fs, old)
        /\ ans \in Results(op, AskedOperands(fs).a, AskedOperands(fs).b, Live)
    BY <1>1, <1>3, <1>4 DEF ApplyOK
  <1>7. fs \in Seq(Caller) /\ fs # <<>> /\ Len(fs) \in DOMAIN fs /\ old \in Seq(Live) /\ f = fs[Len(fs)]
    BY <1>1, <1>3, <1>4, <1>6 DEF Callers, ClientOK, Innermost
  <1>8. f \in Caller /\ CallerOK(f) /\ f.step = "low"
    BY <1>1, <1>4, <1>6, <1>7 DEF Callers
  <1>9. AskedOperands(fs) = LowOperands(f.a, f.b)
    BY <1>7, <1>8 DEF AskedOperands, NextOperands
  <1>10. /\ new.a = f.a /\ new.b = f.b /\ new.step = "high" /\ new.low = ans
         /\ new = [a |-> f.a, b |-> f.b, step |-> "high", low |-> ans]
    BY <1>4, <1>8 DEF Caller
  <1>11. ans \in EdgeTo(Live) /\ ans.node \in Live /\ ans \in EdgeTo(Nat)
    <2>1. ans \in EdgeTo(Live) /\ Live \subseteq Nat
      BY <1>3, <1>6, TableFacts DEF Results, Facts
    <2>2. QED
      BY <2>1 DEF EdgeTo
  <1>12. new \in Caller
    BY <1>8, <1>10, <1>11 DEF Caller
  <1>13. CallerOK(new)
    BY <1>4, <1>6, <1>8, <1>9, <1>10 DEF CallerOK
  <1>14. PICK gs : gs = [fs EXCEPT ![Len(fs)] = new]
    OBVIOUS
  <1>15. Callers(gs)
    BY <1>6, <1>7, <1>10, <1>12, <1>13, <1>14, CallersTop
  <1>16. Protected(gs, refs) /\ refs \in Seq(Live)
    <2>1. PICK n : n = ans.node
      OBVIOUS
    <2>2. n \in Live /\ n = new.low.node /\ refs = Append(old, n)
      BY <1>4, <1>10, <1>11, <2>1
    <2>3. Protected(gs, refs)
      BY <1>6, <1>7, <1>10, <1>12, <1>14, <2>2, ProtectedTop
    <2>4. QED
      BY <1>7, <2>2, <2>3
  <1>17. AskedOperands(gs) = ops
    <2>1. gs # <<>> /\ gs[Len(gs)] = new
      BY <1>7, <1>12, <1>14
    <2>2. NextOperands(new) = HighOperands(f.a, f.b)
      BY <1>10 DEF NextOperands
    <2>3. QED
      BY <1>4, <2>1, <2>2 DEF AskedOperands
  <1>18. ApplyOK(gs, refs, ops, none)
    BY <1>4, <1>15, <1>16, <1>17 DEF ApplyOK
  <1>19. /\ UNCHANGED table /\ UNCHANGED <<edge, result, walk, applying>>
         /\ refs = evddrefstack' /\ cache = evdd_applycache' /\ gs = waiting' /\ ops = operands' /\ none = answer'
         /\ GoodCache(cache)
    BY <1>3, <1>4, <1>5, <1>14
  <1>20. QED
    BY <1>2, <1>16, <1>18, <1>19, ApplyStill

\* What the innermost call makes of its two results.
LEMMA CallerAsks ==
  ASSUME TableOK, ClientOK, NEW f \in Caller, TopLevel(f.a, f.b) < Terminal, NEW k, k = TopLevel(f.a, f.b),
         NEW op, NEW low \in Results(op, LowOperands(f.a, f.b).a, LowOperands(f.a, f.b).b, Live),
         NEW high \in Results(op, HighOperands(f.a, f.b).a, HighOperands(f.a, f.b).b, Live)
  PROVE  Asked(k, low, high)
  <1>1. PICK l, h : l = LowOperands(f.a, f.b) /\ h = HighOperands(f.a, f.b)
    OBVIOUS
  <1>2. /\ f.a \in EdgeTo(Live) /\ f.b \in EdgeTo(Live)
        /\ Below(l, f.a, f.b, FALSE) /\ Below(h, f.a, f.b, TRUE)
    BY <1>1, OperandsReached
  <1>3. /\ k < TopLevel(l.a, l.b) /\ k < TopLevel(h.a, h.b)
        /\ l.a \in EdgeTo(Live) /\ l.b \in EdgeTo(Live) /\ h.a \in EdgeTo(Live) /\ h.b \in EdgeTo(Live)
    BY <1>2 DEF Below, CofactorOf
  <1>4. k \in Nat /\ TopLevel(l.a, l.b) \in Nat /\ TopLevel(h.a, h.b) \in Nat
    BY <1>2, <1>3, TopFacts
  <1>5. /\ low \in EdgeTo(Live) /\ TopLevel(l.a, l.b) <= LevelOf(low.node)
        /\ high \in EdgeTo(Live) /\ TopLevel(h.a, h.b) <= LevelOf(high.node)
    BY <1>1 DEF Results
  <1>6. LevelOf(low.node) \in Nat /\ LevelOf(high.node) \in Nat
    BY <1>5, RecordsNotEmpty, TableFacts DEF Facts
  <1>7. k < LevelOf(low.node) /\ k < LevelOf(high.node)
    BY <1>3, <1>4, <1>5, <1>6
  <1>8. k \in 0..(Terminal - 1)
    BY <1>4, EvddAssumption
  <1>9. QED
    BY <1>5, <1>7, <1>8 DEF Asked

LEMMA AppliedMade ==
  ASSUME TableOK, ClientOK, NEW f \in Caller, TopLevel(f.a, f.b) < Terminal, NEW k, k = TopLevel(f.a, f.b),
         NEW op, NEW low \in Results(op, LowOperands(f.a, f.b).a, LowOperands(f.a, f.b).b, Live),
         NEW high \in Results(op, HighOperands(f.a, f.b).a, HighOperands(f.a, f.b).b, Live),
         NEW K, Stays(K), TableOK', low.node \in K, high.node \in K, NEW e, Built(k, low, high, e)'
  PROVE  e \in Results(op, f.a, f.b, Live)'
  <1>1. PICK a, b, l, h : a = f.a /\ b = f.b /\ l = LowOperands(f.a, f.b) /\ h = HighOperands(f.a, f.b)
    OBVIOUS
  <1>2. /\ a \in EdgeTo(Live) /\ b \in EdgeTo(Live) /\ a \in EdgeTo(Reach) /\ b \in EdgeTo(Reach)
        /\ Below(l, a, b, FALSE) /\ Below(h, a, b, TRUE)
    BY <1>1, OperandsReached DEF Caller
  <1>3. NodesStay(K) /\ Reach \subseteq K
    BY ReachKept DEF Stays
  <1>4. a \in EdgeTo(K) /\ b \in EdgeTo(K)
    BY <1>2, <1>3 DEF EdgeTo
  <1>5. TopLevel(a, b)' = k /\ Applied(op, a, b)' = Applied(op, a, b)
    BY <1>1, <1>3, <1>4, OperandsKept
  <1>6. /\ low \in EdgeTo(Live) /\ Meaning(low) = Applied(op, l.a, l.b)
        /\ high \in EdgeTo(Live) /\ Meaning(high) = Applied(op, h.a, h.b)
    BY <1>1 DEF Results
  <1>7. Meaning(low)' = Meaning(low) /\ Meaning(high)' = Meaning(high)
    <2>1. low \in EdgeTo(K) /\ high \in EdgeTo(K)
      BY <1>6 DEF EdgeTo
    <2>2. QED
      BY <1>3, <2>1, MeaningKept
  <1>8. /\ e \in EdgeTo(Live)' /\ k <= LevelOf(e.node)'
        /\ \A s \in Assignments' :
             /\ k \in s => Meaning(e)'[s] = Meaning(high)'[s]
             /\ k \notin s => Meaning(e)'[s] = Meaning(low)'[s]
    BY DEF Built
  <1>9. Assignments' = Assignments
    BY DEF Assignments
  <1>10. /\ \A s \in Assignments : k \in s => Meaning(h.a)[s] = Meaning(a)[s] /\ Meaning(h.b)[s] = Meaning(b)[s]
         /\ \A s \in Assignments : k \notin s => Meaning(l.a)[s] = Meaning(a)[s] /\ Meaning(l.b)[s] = Meaning(b)[s]
    BY <1>1, <1>2 DEF Below, CofactorOf
  <1>11. ASSUME NEW s \in Assignments PROVE Meaning(e)'[s] = Operator(op, Meaning(a)[s], Meaning(b)[s])
    <2>1. CASE k \in s
      <3>1. Meaning(high)[s] = Operator(op, Meaning(h.a)[s], Meaning(h.b)[s])
        BY <1>6 DEF Applied
      <3>2. Meaning(e)'[s] = Meaning(high)[s]
        BY <1>7, <1>8, <1>9, <2>1
      <3>3. QED
        BY <1>10, <2>1, <3>1, <3>2
    <2>2. CASE k \notin s
      <3>1. Meaning(low)[s] = Operator(op, Meaning(l.a)[s], Meaning(l.b)[s])
        BY <1>6 DEF Applied
      <3>2. Meaning(e)'[s] = Meaning(low)[s]
        BY <1>7, <1>8, <1>9, <2>2
      <3>3. QED
        BY <1>10, <2>2, <3>1, <3>2
    <2>3. QED
      BY <2>1, <2>2
  <1>12. Meaning(e)' = Applied(op, a, b)
    <2>1. Meaning(e)' = [s \in Assignments |-> Meaning(e)'[s]]
      BY <1>9, MeaningUnfoldsNext DEF Unfolds
    <2>2. QED
      BY <1>11, <2>1 DEF Applied
  <1>13. e \in Results(op, a, b, Live)'
    BY <1>5, <1>8, <1>12 DEF Results
  <1>14. QED
    BY <1>1, <1>13

LEMMA MakeAppliedStep ==
  ASSUME EvddInv, MakeApplied
  PROVE  EvddInv' /\ Keeping
  <1>1. answer # NoEdge /\ waiting # <<>> /\ Innermost.step = "high"
    BY DEF MakeApplied
  <1>2. applying # None
    BY <1>1 DEF EvddInv, NotApplying
  <1>3. /\ TableOK /\ ClientOK /\ GoodCache(evdd_applycache) /\ applying \in Applies
        /\ edge[applying.to] = NoEdge
        /\ edge[applying.a] # NoEdge /\ edge[applying.b] # NoEdge
        /\ call = None /\ result = None /\ NotWalking
        /\ ApplyOK(waiting, evddrefstack, operands, answer)
    BY <1>2, WhileApplying
  <1>4. PICK n \in 0..(SlotBound - 1), w \in Weights, cache \in {evdd_applycache, evdd_operator_reset} :
          /\ evdd_makenode(TopLevel(Innermost.a, Innermost.b), Innermost.low, answer, Edge(n, w), cache)
          /\ answer' = Edge(n, w)
          /\ evdd_applycache' = Stored(cache, Innermost.a, Innermost.b, Edge(n, w))
    BY DEF MakeApplied
  <1>5. PICK f, a, b, k, c, op, e, high, fs, gs, old, refs, new :
          /\ f = Innermost /\ a = f.a /\ b = f.b /\ k = TopLevel(f.a, f.b) /\ c = applying /\ op = c.op
          /\ e = Edge(n, w) /\ high = answer /\ fs = waiting /\ gs = SubSeq(fs, 1, Len(fs) - 1)
          /\ old = evddrefstack /\ refs = SubSeq(old, 1, Len(old) - 1) /\ new = evdd_applycache'
    OBVIOUS
  <1>6. e.node = n /\ e = Edge(e.node, e.w) /\ e # NoEdge
    BY <1>5, RecordsNotEmpty
  <1>7. /\ Callers(fs) /\ Protected(fs, old) /\ operands = None
        /\ high \in Results(op, AskedOperands(fs).a, AskedOperands(fs).b, Live)
    BY <1>1, <1>3, <1>5 DEF ApplyOK
  <1>8. fs \in Seq(Caller) /\ fs # <<>> /\ Len(fs) \in DOMAIN fs /\ old \in Seq(Live) /\ f = fs[Len(fs)]
    BY <1>1, <1>3, <1>5, <1>7 DEF Callers, ClientOK, Innermost
  <1>9. f \in Caller /\ CallerOK(f) /\ f.step = "high"
    BY <1>1, <1>5, <1>7, <1>8 DEF Callers
  <1>10. /\ TopLevel(f.a, f.b) < Terminal
         /\ f.low \in Results(op, LowOperands(f.a, f.b).a, LowOperands(f.a, f.b).b, Live)
    BY <1>5, <1>9 DEF CallerOK
  <1>11. high \in Results(op, HighOperands(f.a, f.b).a, HighOperands(f.a, f.b).b, Live)
    BY <1>7, <1>8, <1>9 DEF AskedOperands, NextOperands
  <1>12. Asked(k, f.low, high)
    BY <1>3, <1>5, <1>9, <1>10, <1>11, CallerAsks
  <1>13. evdd_makenode(k, f.low, high, e, cache)
    BY <1>4, <1>5
  <1>14. TableOK' /\ Built(k, f.low, high, e)' /\ \E K : Keeps(K, f.low, high, e, cache)
    BY <1>3, <1>6, <1>12, <1>13, NodeBuilt
  <1>15. PICK K : Keeps(K, f.low, high, e, cache)
    BY <1>14
  <1>16. /\ Stays(K) /\ NodesStay(K) /\ Marked({}) \subseteq K /\ K \subseteq Live'
         /\ f.low.node \in K /\ high.node \in K
    BY <1>15 DEF Keeps, Stays, NodesStay
  <1>17. Reach \subseteq K /\ Keeping
    BY <1>3, <1>16, ReachKept DEF Keeping
  <1>18. e \in Results(op, a, b, Live)'
    BY <1>3, <1>5, <1>9, <1>10, <1>11, <1>14, <1>16, AppliedMade
  <1>19. a \in EdgeTo(Live)' /\ b \in EdgeTo(Live)'
    <2>1. a \in EdgeTo(Reach) /\ b \in EdgeTo(Reach)
      BY <1>5, <1>9 DEF Caller
    <2>2. a \in EdgeTo(Live') /\ b \in EdgeTo(Live')
      BY <1>16, <1>17, <2>1 DEF EdgeTo
    <2>3. QED
      BY <2>2 DEF EdgeTo, Weights
  <1>20. GoodCache(evdd_applycache)'
    <2>1. GoodCache(cache)' /\ Storing' /\ c \in Applies
      BY <1>3, <1>5, <1>14, <1>15, CacheAfter, AlwaysStoringNext
    <2>2. GoodCache([cache EXCEPT ![ApplyHash(a, b, c.op)] = Entry(c, a, b, e)])'
      BY <1>5, <1>18, <1>19, <2>1 DEF Storing
    <2>3. new = [cache EXCEPT ![ApplyHash(a, b, c.op)] = Entry(c, a, b, e)]
      BY <1>4, <1>5 DEF Stored, Slot_, Entry
    <2>4. GoodCache(new)'
      BY <2>2, <2>3
    <2>5. QED
      BY <1>5, <2>4
  <1>21. /\ edge' = edge /\ result' = None /\ UNCHANGED walk /\ applying' = applying /\ operands' = None
         /\ answer' = e /\ waiting' = gs /\ evddrefstack' = refs /\ call' = None
    BY <1>3, <1>4, <1>5, <1>7 DEF MakeApplied, walk
  <1>22. Callers(gs) /\ AskedOperands(gs) = [a |-> a, b |-> b]
    BY <1>5, <1>7, <1>8, CallersPop
  <1>23. /\ Protected(gs, refs) /\ Len(old) \in Nat \ {0} /\ refs \in Seq(Live)
         /\ Len(refs) = Len(old) - 1 /\ \A i \in 1..(Len(old) - 1) : refs[i] = old[i]
    <2>1. fs[Len(fs)].step = "high" /\ Popped(fs, gs) /\ Popped(old, refs)
      BY <1>5, <1>8, <1>9 DEF Popped
    <2>2. QED
      BY <1>7, <1>8, <2>1, ProtectedPop
  <1>24. \A i \in DOMAIN old : old[i] \in K
    BY <1>3, <1>5, <1>16, ReachProtected
  <1>25. \A i \in DOMAIN refs : refs[i] \in K
    <2>1. \A i \in 1..(Len(old) - 1) : i \in DOMAIN old
      BY <1>8, <1>23
    <2>2. DOMAIN refs = 1..(Len(old) - 1)
      BY <1>23
    <2>3. QED
      BY <1>23, <1>24, <2>1, <2>2
  <1>26. evddrefstack' \in Seq(Live')
    <2>1. \A i \in DOMAIN refs : refs[i] \in Live'
      BY <1>16, <1>25
    <2>2. QED
      BY <1>21, <1>23, <2>1
  <1>27. ClientOK'
    BY <1>3, <1>14, <1>16, <1>21, <1>26, ClientKept
  <1>28. \A i \in DOMAIN gs : gs[i].step = "high" => gs[i].low.node \in K
    BY <1>23, <1>25, ProtectedIn
  <1>29. Callers(gs)' /\ AskedOperands(gs)' = [a |-> a, b |-> b]
    BY <1>3, <1>14, <1>16, <1>21, <1>22, <1>28, CallersKept
  <1>30. Applying'
    <2>1. Protected(gs, refs)'
      BY <1>23 DEF Protected
    <2>2. PICK none : none = None
      OBVIOUS
    <2>3. op = applying'.op
      BY <1>5, <1>21
    <2>4. ApplyOK(gs, refs, none, e)'
      BY <1>18, <1>29, <2>1, <2>2, <2>3 DEF ApplyOK, None
    <2>5. ApplyOK(waiting, evddrefstack, operands, answer)'
      BY <1>21, <2>2, <2>4
    <2>6. QED
      BY <1>3, <1>21, <2>5 DEF Applying, None, NoEdge
  <1>31. QED
    BY <1>2, <1>3, <1>14, <1>17, <1>20, <1>21, <1>27, <1>30, ApplyGoesOn

LEMMA EndApplyStep ==
  ASSUME EvddInv, EndApply
  PROVE  /\ EvddInv' /\ Keeping
         /\ Meaning(result.e)' =
              [s \in Assignments |-> Operator(applying.op, Meaning(edge[applying.a])[s],
                                              Meaning(edge[applying.b])[s])]
  <1>1. answer # NoEdge /\ waiting = <<>>
    BY DEF EndApply
  <1>2. applying # None
    BY <1>1 DEF EvddInv, NotApplying
  <1>3. /\ TableOK /\ ClientOK /\ GoodCache(evdd_applycache) /\ applying \in Applies
        /\ edge[applying.to] = NoEdge
        /\ edge[applying.a] # NoEdge /\ edge[applying.b] # NoEdge
        /\ call = None /\ result = None /\ NotWalking
        /\ ApplyOK(waiting, evddrefstack, operands, answer)
    BY <1>2, WhileApplying
  <1>4. PICK e, a, b, op, t :
          e = answer /\ a = edge[applying.a] /\ b = edge[applying.b] /\ op = applying.op /\ t = applying.to
    OBVIOUS
  <1>5. operands = None /\ e \in Results(op, a, b, Live)
    <2>1. AskedOperands(waiting) = [a |-> a, b |-> b]
      BY <1>1, <1>4 DEF AskedOperands
    <2>2. QED
      BY <1>1, <1>3, <1>4, <2>1 DEF ApplyOK
  <1>6. e \in EdgeTo(Live) /\ Meaning(e) = Applied(op, a, b)
    BY <1>5 DEF Results
  <1>7. /\ result' = [to |-> t, e |-> e] /\ evddrefstack' = <<>> /\ Still /\ UNCHANGED walk
        /\ applying' = None /\ answer' = NoEdge /\ operands' = None /\ waiting' = <<>> /\ call' = None
    BY <1>1, <1>3, <1>4, <1>5 DEF EndApply, Still, walk
  <1>8. t \in Names /\ edge[t] = NoEdge
    BY <1>3, <1>4, SomethingIs
  <1>9. /\ TableOK' /\ ClientOK' /\ GoodCache(evdd_applycache)'
        /\ NodesStay(Live) /\ Live' = Live /\ Keeping
    <2>1. result' \in [to : Names, e : EdgeTo(Live)] /\ edge[result'.to] = NoEdge
      BY <1>6, <1>7, <1>8
    <2>2. Good /\ evddrefstack' \in Seq(Live)
      BY <1>3, <1>7 DEF Good
    <2>3. QED
      BY <1>7, <2>1, <2>2, TableStill
  <1>10. EvddInv'
    BY <1>3, <1>7, <1>9 DEF EvddInv, Good, NotWalking, NotApplying, walk, None, NoEdge, NoNode
  <1>11. Meaning(result.e)' = Applied(op, a, b)
    <2>1. Meaning(e)' = Meaning(e)
      <3>1. PICK K : K = Live
        OBVIOUS
      <3>2. NodesStay(K) /\ e \in EdgeTo(K)
        BY <1>6, <1>9, <3>1
      <3>3. QED
        BY <1>3, <1>9, <3>2, MeaningKept
    <2>2. result'.e = e
      BY <1>7
    <2>3. QED
      BY <1>6, <2>1, <2>2
  <1>12. QED
    BY <1>4, <1>9, <1>10, <1>11 DEF Applied

----------------------------------------------------------------------------
\* The invariant holds at first, and every step keeps it.

LEMMA EvddInit == InitApply => EvddInv
  <1> SUFFICES ASSUME InitApply PROVE EvddInv
    OBVIOUS
  <1> USE EvddAssumption
  <1>1. /\ evddnodesize = InitSize
        /\ node = [n \in 0..(InitSize - 1) |-> IF n = 0 THEN TerminalNode ELSE Free]
        /\ refcou = [n \in 0..(InitSize - 1) |-> IF n = 0 THEN MaxRef ELSE 0]
        /\ evdd_applycache = [i \in 0..(CacheSize - 1) |-> NoEntry]
        /\ evddrefstack = <<>> /\ edge = [x \in Names |-> NoEdge] /\ result = None
        /\ call = None /\ NotWalking /\ applying = None /\ NotApplying
    BY DEF InitApply, Init, TerminalNode, NotWalking, NotApplying
  <1>2. Slot = 0..(InitSize - 1) /\ 0 \in Slot /\ InitSize \in 1..SlotBound
    BY <1>1 DEF Slot, IsPrime
  <1>3. Live = {0} /\ node[0] = TerminalNode
    BY <1>1, <1>2, RecordsNotEmpty DEF Live
  <1>4. refcou \in [Slot -> 0..MaxRef] /\ refcou[0] = MaxRef
    BY <1>1, <1>2
  <1>5. node = [n \in Slot |-> node[n]] /\ evddnodesize \in 1..SlotBound
    BY <1>1, <1>2
  <1>6. TableOK
    BY <1>3, <1>4, <1>5 DEF TableOK
  <1>7. \A n : Cardinality(Holders(n)) = 0
    <2>1. \A n : Holders(n) = {}
      BY <1>1 DEF Holders
    <2>2. QED
      BY <2>1, FS_EmptySet
  <1>8. \A n \in Slot : Cardinality(Holders(n)) <= refcou[n]
    BY <1>4, <1>7
  <1>9. ClientOK
    <2>1. edge \in [Names -> EdgeTo(Live) \cup {NoEdge}]
      BY <1>1
    <2>2. evddrefstack \in Seq(Live)
      BY <1>1
    <2>3. result = None
      BY <1>1
    <2>4. QED
      BY <1>8, <2>1, <2>2, <2>3 DEF ClientOK
  <1>10. GoodCache(evdd_applycache)
    BY <1>1 DEF GoodCache
  <1>11. QED
    BY <1>1, <1>6, <1>9, <1>10 DEF EvddInv, Good

LEMMA NothingHappens ==
  ASSUME EvddInv, UNCHANGED applyvars
  PROVE  EvddInv' /\ Keeping
  <1>1. /\ Still /\ UNCHANGED table /\ UNCHANGED <<evddrefstack, result, walk, apply>>
        /\ UNCHANGED <<edge, evdd_applycache, call, memo, calling, frames, returned>>
        /\ UNCHANGED <<applying, operands, waiting, answer>>
    BY DEF applyvars, vars, walk, apply, Still
  <1>2. CASE call # None
    <2>1. TableOK /\ ClientOK /\ Walking
      BY <1>2, WhileWalking
    <2>2. PICK fs, refs, ret, m, c :
            fs = frames /\ refs = evddrefstack /\ ret = returned /\ m = memo /\ c = calling
      OBVIOUS
    <2>3. WalkOK(fs, refs, ret, m, c) /\ refs \in Seq(Live) /\ AskedNode(fs) \in Reach
      BY <2>1, <2>2, AskedReached DEF Walking, ClientOK
    <2>4. /\ fs = frames' /\ refs = evddrefstack' /\ ret = returned' /\ m = memo' /\ c = calling'
          /\ UNCHANGED <<result, call, apply>>
      BY <1>1, <2>2
    <2>5. \A i \in DOMAIN evddrefstack : i \in DOMAIN refs /\ refs[i] = evddrefstack[i]
      BY <2>2
    <2>6. QED
      BY <1>1, <1>2, <2>3, <2>4, <2>5, WalkStill
  <1>3. CASE applying # None
    <2>1. ClientOK /\ GoodCache(evdd_applycache) /\ ApplyOK(waiting, evddrefstack, operands, answer)
      BY <1>3, WhileApplying
    <2>2. PICK fs, refs, cache, ops, ans :
            /\ fs = waiting /\ refs = evddrefstack /\ cache = evdd_applycache
            /\ ops = operands /\ ans = answer
      OBVIOUS
    <2>3. ApplyOK(fs, refs, ops, ans) /\ refs \in Seq(Live) /\ GoodCache(cache)
      BY <2>1, <2>2 DEF ClientOK
    <2>4. /\ fs = waiting' /\ refs = evddrefstack' /\ cache = evdd_applycache'
          /\ ops = operands' /\ ans = answer' /\ UNCHANGED <<edge, result, walk, applying>>
      BY <1>1, <2>2
    <2>5. QED
      BY <1>1, <1>3, <2>3, <2>4, ApplyStill
  <1>4. CASE call = None /\ applying = None
    <2>1. Good /\ ClientOK /\ evddrefstack = <<>>
      BY <1>4, WhileIdle
    <2>2. evddrefstack' \in Seq(Live)
      BY <1>1, <2>1
    <2>3. result' # None => result' \in [to : Names, e : EdgeTo(Live)] /\ edge[result'.to] = NoEdge
      BY <1>1, <2>1 DEF ClientOK
    <2>4. TableOK' /\ ClientOK' /\ GoodCache(evdd_applycache)' /\ Keeping
      BY <1>1, <2>1, <2>2, <2>3, TableStill
    <2>5. UNCHANGED <<walk, apply, evddrefstack>>
      BY <1>1
    <2>6. QED
      BY <1>4, <2>4, <2>5, IdleGoesOn
  <1>5. QED
    BY <1>2, <1>3, <1>4

LEMMA EvddStep ==
  ASSUME EvddInv, [NextApply]_applyvars
  PROVE  EvddInv' /\ Keeping
  <1>1. CASE applying = None /\ Next /\ UNCHANGED apply
    <2>1. CASE \E c \in Calls : Make(c)
      BY <1>1, <2>1, MakeStep
    <2>2. CASE AddRef
      BY <1>1, <2>2, AddRefStep
    <2>3. CASE \E x \in Names : DelRef(x)
      BY <1>1, <2>3, DelRefStep
    <2>4. CASE Gbc
      BY <1>1, <2>4, GbcStep
    <2>5. CASE \E c \in Normalizes : Normalize(c)
      BY <1>1, <2>5, NormalizeStep
    <2>6. CASE Recall
      BY <1>1, <2>6, RecallStep
    <2>7. CASE Enter
      BY <1>1, <2>7, EnterStep
    <2>8. CASE Descend
      BY <1>1, <2>8, DescendStep
    <2>9. CASE TakeChild
      BY <1>1, <2>9, TakeChildStep
    <2>10. CASE MakeNormalized
      BY <1>1, <2>10, MakeNormalizedStep
    <2>11. CASE Finish
      BY <1>1, <2>11, FinishStep
    <2>12. QED
      BY <1>1, <2>1, <2>2, <2>3, <2>4, <2>5, <2>6, <2>7, <2>8, <2>9, <2>10, <2>11 DEF Next
  <1>2. CASE \E c \in Applies : applying = None /\ StartApply(c)
    BY <1>2, StartApplyStep
  <1>3. CASE ReturnCached
    BY <1>3, ReturnCachedStep
  <1>4. CASE ReturnValue
    BY <1>4, ReturnValueStep
  <1>5. CASE CallLow
    BY <1>5, CallLowStep
  <1>6. CASE CallHigh
    BY <1>6, CallHighStep
  <1>7. CASE MakeApplied
    BY <1>7, MakeAppliedStep
  <1>8. CASE EndApply
    BY <1>8, EndApplyStep
  <1>9. CASE UNCHANGED applyvars
    BY <1>9, NothingHappens
  <1>10. QED
    BY <1>1, <1>2, <1>3, <1>4, <1>5, <1>6, <1>7, <1>8, <1>9 DEF NextApply

----------------------------------------------------------------------------
\* What follows from it.

LEMMA InvProtected == EvddInv => WalkProtected
  <1> SUFFICES ASSUME EvddInv PROVE WalkProtected
    OBVIOUS
  <1>1. TableOK /\ ClientOK /\ Reach \subseteq Marked({})
    BY ReachProtected DEF EvddInv, Good
  <1>2. PICK M : M = Marked({})
    OBVIOUS
  <1>3. /\ \A i \in DOMAIN frames :
             \A n \in {frames[i].node} \cup {e.node : e \in {frames[i].low, frames[i].high} \ {NoEdge}} :
               n \in M
        /\ returned # NoEdge => returned.node \in M
        /\ \A n \in DOMAIN memo : memo[n] # NoEdge => memo[n].node \in M
    <2>1. CASE call = None
      <3>1. DOMAIN frames = {} /\ returned = NoEdge /\ DOMAIN memo = {}
        BY <2>1 DEF EvddInv, NotWalking
      <3>2. QED
        BY <3>1
    <2>2. CASE call # None
      <3>1. WalkOK(frames, evddrefstack, returned, memo, calling)
        BY <2>2, WhileWalking DEF Walking
      <3>2. Chain(frames) /\ MemoOK(memo) /\ (returned # NoEdge => returned \in NormalForms(AskedNode(frames)))
        BY <3>1 DEF WalkOK
      <3>3. ASSUME NEW n, NEW e \in NormalForms(n) PROVE e.node \in M
        BY <1>2, <3>3 DEF NormalForms, EdgeTo
      <3>4. ASSUME NEW n, NEW w, NEW e \in ChildForms(n, w) PROVE e.node \in M
        BY <1>2, <3>4 DEF ChildForms, EdgeTo
      <3>5. ASSUME NEW i \in DOMAIN frames
            PROVE  /\ frames[i].node \in M
                   /\ frames[i].low # NoEdge => frames[i].low.node \in M
                   /\ frames[i].high # NoEdge => frames[i].high.node \in M
        <4>1. PICK f : f = frames[i]
          OBVIOUS
        <4>2. f \in Frame /\ FrameOK(f)
          BY <3>2, <4>1 DEF Chain
        <4>3. f.node \in M
          BY <1>1, <1>2, <4>2 DEF Frame
        <4>4. /\ f.low # NoEdge => f.low \in ChildForms(node[f.node].low, node[f.node].wl)
              /\ f.high # NoEdge => f.high \in ChildForms(node[f.node].high, node[f.node].wh)
          BY <4>2 DEF FrameOK
        <4>5. QED
          BY <3>4, <4>1, <4>3, <4>4
      <3>6. \A n \in DOMAIN memo : memo[n] # NoEdge => memo[n] \in NormalForms(n)
        BY <3>2 DEF MemoOK
      <3>7. QED
        BY <3>2, <3>3, <3>5, <3>6
    <2>3. QED
      BY <2>1, <2>2
  <1>4. \A i \in DOMAIN waiting :
          \A e \in {waiting[i].a, waiting[i].b, waiting[i].low} \ {NoEdge} : e.node \in M
    <2>1. CASE applying = None
      <3>1. DOMAIN waiting = {}
        BY <2>1 DEF EvddInv, NotApplying
      <3>2. QED
        BY <3>1
    <2>2. CASE applying # None
      <3>1. Callers(waiting) /\ Protected(waiting, evddrefstack)
        BY <2>2, WhileApplying DEF ApplyOK
      <3>2. \A i \in DOMAIN evddrefstack : evddrefstack[i] \in M
        BY <1>1, <1>2, ReachProtected
      <3>3. evddrefstack \in Seq(Live)
        BY <1>1 DEF ClientOK
      <3>4. \A i \in DOMAIN waiting : waiting[i].step = "high" => waiting[i].low.node \in M
        BY <3>1, <3>2, <3>3, ProtectedIn
      <3>5. ASSUME NEW i \in DOMAIN waiting
            PROVE  /\ waiting[i].a.node \in M /\ waiting[i].b.node \in M
                   /\ waiting[i].low # NoEdge => waiting[i].low.node \in M
        <4>1. PICK f : f = waiting[i]
          OBVIOUS
        <4>2. f \in Caller /\ CallerOK(f)
          BY <3>1, <4>1 DEF Callers
        <4>3. f.a.node \in Reach /\ f.b.node \in Reach /\ f.step \in {"low", "high"}
          BY <4>2 DEF Caller, EdgeTo
        <4>4. f.step = "low" => f.low = NoEdge
          BY <4>2 DEF CallerOK
        <4>5. QED
          BY <1>1, <1>2, <3>4, <4>1, <4>3, <4>4
      <3>6. QED
        BY <3>5
    <2>3. QED
      BY <2>1, <2>2
  <1>5. QED
    BY <1>2, <1>3, <1>4 DEF WalkProtected

LEMMA HeldStep ==
  ASSUME EvddInv, EvddInv', Keeping, NEW x \in Names, edge[x] # NoEdge, edge'[x] = edge[x]
  PROVE  Meaning(edge[x])' = Meaning(edge[x])
  <1>1. TableOK /\ ClientOK /\ TableOK'
    BY DEF EvddInv, Good
  <1>2. PICK K : NodesStay(K) /\ Reach \subseteq K
    BY DEF Keeping
  <1>3. PICK e : e = edge[x]
    OBVIOUS
  <1>4. e \in EdgeTo(K)
    <2>1. e \in EdgeTo(Reach)
      BY <1>1, <1>3, HeldEdges
    <2>2. QED
      BY <1>2, <2>1 DEF EdgeTo
  <1>5. Meaning(e)' = Meaning(e)
    BY <1>1, <1>2, <1>4, MeaningKept
  <1>6. QED
    BY <1>3, <1>5

\* Only Finish ends a walk, and only EndApply ends a recursion.
LEMMA ResultsStep ==
  ASSUME EvddInv, [NextApply]_applyvars
  PROVE  /\ call # None /\ call' = None => Meaning(result.e)' = Meaning(edge[call.from])
         /\ applying # None /\ applying' = None =>
              Meaning(result.e)' =
                [s \in Assignments |-> Operator(applying.op, Meaning(edge[applying.a])[s],
                                                Meaning(edge[applying.b])[s])]
  <1>1. call = None \/ call' = call \/ (Finish /\ UNCHANGED apply)
    <2>1. CASE applying = None /\ Next /\ UNCHANGED apply
      <3>1. CASE \E c \in Calls : Make(c)
        BY <3>1 DEF Make, Idle
      <3>2. CASE AddRef
        BY <3>2 DEF AddRef
      <3>3. CASE \E x \in Names : DelRef(x)
        BY <3>3 DEF DelRef, Idle
      <3>4. CASE Gbc
        BY <3>4 DEF Gbc, Idle
      <3>5. CASE \E c \in Normalizes : Normalize(c)
        BY <3>5 DEF Normalize, Idle
      <3>6. CASE Recall
        BY <3>6 DEF Recall
      <3>7. CASE Enter
        BY <3>7 DEF Enter
      <3>8. CASE Descend
        BY <3>8 DEF Descend
      <3>9. CASE TakeChild
        BY <3>9 DEF TakeChild
      <3>10. CASE MakeNormalized
        BY <3>10 DEF MakeNormalized
      <3>11. CASE Finish
        BY <2>1, <3>11
      <3>12. QED
        BY <2>1, <3>1, <3>2, <3>3, <3>4, <3>5, <3>6, <3>7, <3>8, <3>9, <3>10, <3>11 DEF Next
    <2>2. CASE \E c \in Applies : applying = None /\ StartApply(c)
      BY <2>2 DEF StartApply, Idle
    <2>3. CASE ReturnCached
      BY <2>3 DEF ReturnCached, vars, walk
    <2>4. CASE ReturnValue
      BY <2>4 DEF ReturnValue, walk
    <2>5. CASE CallLow
      BY <2>5 DEF CallLow, vars, walk
    <2>6. CASE CallHigh
      BY <2>6 DEF CallHigh, walk
    <2>7. CASE MakeApplied
      BY <2>7 DEF MakeApplied, walk
    <2>8. CASE EndApply
      BY <2>8 DEF EndApply, walk
    <2>9. CASE UNCHANGED applyvars
      BY <2>9 DEF applyvars, vars, walk
    <2>10. QED
      BY <2>1, <2>2, <2>3, <2>4, <2>5, <2>6, <2>7, <2>8, <2>9 DEF NextApply
  <1>2. applying = None \/ applying' = applying \/ EndApply
    BY DEF NextApply, apply, applyvars, StartApply, ReturnCached, ReturnValue, CallLow, CallHigh, MakeApplied
  <1>3. call # None /\ call' = None => Finish /\ UNCHANGED apply
    BY <1>1
  <1>4. applying # None /\ applying' = None => EndApply
    BY <1>2
  <1>5. QED
    BY <1>3, <1>4, FinishStep, EndApplyStep

\* In every reachable state no node is in two slots of the table and the
\* children of a node are nodes; evdd_addref counts whatever the client holds;
\* the entries of the cache are right; and the memo, the stack and the waiting
\* calls of evdd_normalize and evdd_apply are for what was asked.
THEOREM EvddInvariance == SpecApply => []EvddInv
  <1>1. EvddInv /\ [NextApply]_applyvars => EvddInv'
    BY EvddStep
  <1>2. QED
    BY <1>1, EvddInit, PTL DEF SpecApply

\* What evdd_normalize and evdd_apply will still read is reached by the next
\* collection, although EVDD_POPREF(2) of the walk takes off the two entries
\* on top, whatever they are.
THEOREM EvddWalkProtected == SpecApply => []WalkProtected
  BY EvddInvariance, InvProtected, PTL

\* What evdd_addref protects stands for the same function through every step:
\* a collection or a resizing, by the client or in the middle of a walk or of
\* a recursion, takes away and reuses other slots only.
THEOREM EvddHeldMeaning == SpecApply => HeldMeaning
  <1>1. EvddInv /\ [NextApply]_applyvars =>
          [\A x \in Names :
             edge[x] # NoEdge /\ edge'[x] = edge[x] => Meaning(edge[x])' = Meaning(edge[x])]_vars
    BY EvddStep, HeldStep
  <1>2. QED
    BY <1>1, EvddInvariance, PTL DEF SpecApply, HeldMeaning

\* evdd_normalize returns the function of its argument, and evdd_apply the
\* function of the operator on the values of its operands, whatever was
\* collected in the middle, and whatever the cache held of earlier calls.
THEOREM EvddResultsRight == SpecApply => ResultsRight
  <1>1. EvddInv /\ [NextApply]_applyvars =>
          [/\ call # None /\ call' = None => Meaning(result.e)' = Meaning(edge[call.from])
           /\ applying # None /\ applying' = None =>
                Meaning(result.e)' =
                  [s \in Assignments |-> Operator(applying.op, Meaning(edge[applying.a])[s],
                                                  Meaning(edge[applying.b])[s])]]_applyvars
    BY ResultsStep
  <1>2. QED
    BY <1>1, EvddInvariance, PTL DEF SpecApply, ResultsRight

----------------------------------------------------------------------------
\* Normalized diagrams are unique.

\* A node's function does not depend on a level above it.
LEMMA Independent ==
  ASSUME TableOK, NEW k \in Nat, NEW s \in Assignments, NEW t \in Assignments,
         \A j \in Nat \ {k} : j \in s <=> j \in t
  PROVE  \A n \in Live : k < LevelOf(n) => NodeMeaning[n][s] = NodeMeaning[n][t]
  <1> DEFINE P == {n \in Live : k < LevelOf(n) => NodeMeaning[n][s] = NodeMeaning[n][t]}
  <1>1. Facts /\ Unfolds
    BY TableFacts, MeaningUnfolds
  <1>2. ASSUME NEW n \in Live, Children(n) \subseteq P, k < LevelOf(n)
        PROVE  NodeMeaning[n][s] = NodeMeaning[n][t]
    <2>1. CASE n = 0
      BY <1>1, <2>1 DEF Unfolds
    <2>2. CASE n # 0
      <3>1. /\ LevelOf(n) \in Nat /\ node[n].low \in Live /\ node[n].high \in Live
            /\ LevelOf(node[n].low) \in Nat /\ LevelOf(node[n].high) \in Nat
            /\ Children(n) = {node[n].low, node[n].high}
            /\ LevelOf(n) < LevelOf(node[n].low) /\ LevelOf(n) < LevelOf(node[n].high)
        BY <1>1, <2>2, InnerNode DEF Facts
      <3>2. k < LevelOf(node[n].low) /\ k < LevelOf(node[n].high) /\ LevelOf(n) \in Nat \ {k}
        BY <1>2, <3>1
      <3>3. /\ NodeMeaning[node[n].low][s] = NodeMeaning[node[n].low][t]
            /\ NodeMeaning[node[n].high][s] = NodeMeaning[node[n].high][t]
        BY <1>2, <3>1, <3>2
      <3>4. LevelOf(n) \in s <=> LevelOf(n) \in t
        BY <3>2
      <3>5. \A u \in {s, t} :
              /\ LevelOf(n) \in u =>
                   NodeMeaning[n][u] = evdd_value_mul(node[n].wh, NodeMeaning[node[n].high][u])
              /\ LevelOf(n) \notin u =>
                   NodeMeaning[n][u] = evdd_value_mul(node[n].wl, NodeMeaning[node[n].low][u])
        BY <1>1, <2>2 DEF Unfolds
      <3>6. QED
        BY <3>3, <3>4, <3>5
    <2>3. QED
      BY <2>1, <2>2
  <1>3. \A n \in Live : Children(n) \subseteq P => n \in P
    BY <1>2
  <1>4. PICK Q : Q = P
    OBVIOUS
  <1>5. Live \subseteq Q
    <2>1. \A n \in Live : Children(n) \subseteq Q => n \in Q
      BY <1>3, <1>4
    <2> HIDE DEF P
    <2>2. QED
      BY <1>1, <2>1, LevelInduction DEF Facts
  <1>6. QED
    BY <1>4, <1>5

\* Equal functions have equal cofactors.
LEMMA SameCofactors ==
  ASSUME TableOK, NEW k \in Nat, k < Terminal, NEW a, NEW b, NEW high,
         Meaning(a) = Meaning(b),
         NEW ca, NEW cb, CofactorOf(ca, a, k, high), CofactorOf(cb, b, k, high)
  PROVE  Meaning(ca) = Meaning(cb)
  <1>1. Facts /\ Unfolds
    BY TableFacts, MeaningUnfolds
  <1>2. ASSUME NEW s \in Assignments PROVE Meaning(ca)[s] = Meaning(cb)[s]
    <2>1. PICK t : t = IF high THEN s \cup {k} ELSE s \ {k}
      OBVIOUS
    <2>2. t \in Assignments /\ (k \in t <=> high) /\ \A j \in Nat \ {k} : j \in s <=> j \in t
      BY <2>1, EvddAssumption DEF Assignments
    <2>3. ASSUME NEW c, NEW e, CofactorOf(c, e, k, high)
          PROVE  Meaning(c)[s] = Meaning(e)[t]
      <3>1. c.node \in Live /\ k < LevelOf(c.node) /\ Meaning(c)[t] = Meaning(e)[t]
        BY <2>2, <2>3, RecordsNotEmpty DEF CofactorOf
      <3>2. NodeMeaning[c.node][s] = NodeMeaning[c.node][t]
        BY <2>2, <3>1, Independent
      <3>3. Meaning(c)[s] = Meaning(c)[t]
        BY <1>1, <2>2, <3>2 DEF Unfolds
      <3>4. QED
        BY <3>1, <3>3
    <2>4. QED
      BY <2>3
  <1>3. \A e : Meaning(e) = [s \in Assignments |-> Meaning(e)[s]]
    BY <1>1 DEF Unfolds
  <1>4. QED
    BY <1>2, <1>3

LEMMA NormalNodes ==
  ASSUME TableOK
  PROVE  Normal \subseteq Live /\ Closed(Normal) /\ \A n \in Normal : NodeNormal(n)
  <1>1. ASSUME NEW n \in Normal PROVE n \in Live /\ NodeNormal(n) /\ Children(n) \subseteq Normal
    <2>1. PICK S \in SUBSET Live : n \in S /\ Closed(S) /\ \A m \in S : NodeNormal(m)
      BY DEF Normal
    <2>2. S \subseteq Normal
      BY <2>1 DEF Normal
    <2>3. QED
      BY <2>1, <2>2 DEF Closed
  <1>2. QED
    BY <1>1 DEF Closed

\* The cofactors of a normalized edge are normalized edges.
LEMMA NormalCofactors ==
  ASSUME TableOK, NEW e \in EdgeTo(Live), NormalTo(Normal, e), e.node # 0
  PROVE  /\ e.w # 0 /\ NormalTo(Normal, evdd_edge_low(e)) /\ NormalTo(Normal, evdd_edge_high(e))
  <1>1. PICK n : n = e.node
    OBVIOUS
  <1>2. n \in Live /\ n # 0 /\ n \in Normal /\ e.w \in Weights /\ e.w # 0
    BY <1>1, RecordsNotEmpty DEF NormalTo, Tied
  <1>3. /\ node[n].wl \in Weights /\ node[n].wh \in Weights
        /\ Children(n) = {node[n].low, node[n].high} /\ node[n].low \in Normal /\ node[n].high \in Normal
    BY <1>2, InnerNode, NormalNodes DEF Closed
  <1>4. (node[n].wl = 0 => node[n].low = 0) /\ (node[n].wh = 0 => node[n].high = 0)
    BY <1>2, NormalNodes, ModulusFacts DEF NodeNormal
  <1>5. PICK l, h : l = evdd_edge_low(e) /\ h = evdd_edge_high(e)
    OBVIOUS
  <1>6. /\ l.node = node[n].low /\ l.w = evdd_value_mul(e.w, node[n].wl)
        /\ h.node = node[n].high /\ h.w = evdd_value_mul(e.w, node[n].wh)
    BY <1>1, <1>5, RecordsNotEmpty DEF evdd_edge_low, evdd_edge_high
  <1>7. (l.w = 0 => node[n].wl = 0) /\ (h.w = 0 => node[n].wh = 0)
    BY <1>2, <1>3, <1>6, ProductNonzero
  <1>8. QED
    BY <1>2, <1>3, <1>4, <1>5, <1>6, <1>7 DEF NormalTo, Tied

\* Two normalized edges to nodes on one level, with equal cofactors.
LEMMA SameNodes ==
  ASSUME TableOK, NEW a \in EdgeTo(Live), NEW b \in EdgeTo(Live),
         NormalTo(Normal, a), NormalTo(Normal, b), a.node # 0, b.node # 0,
         LevelOf(a.node) = LevelOf(b.node),
         evdd_edge_low(a) = evdd_edge_low(b), evdd_edge_high(a) = evdd_edge_high(b)
  PROVE  a = b
  <1>1. PICK m, n : m = a.node /\ n = b.node
    OBVIOUS
  <1>2. /\ m \in Live /\ m # 0 /\ m \in Normal /\ a.w \in Weights /\ a.w # 0 /\ a = Edge(m, a.w)
        /\ n \in Live /\ n # 0 /\ n \in Normal /\ b.w \in Weights /\ b.w # 0 /\ b = Edge(n, b.w)
    BY <1>1, RecordsNotEmpty DEF NormalTo, Tied
  <1>3. /\ node[m].wl \in Weights /\ node[m].wh \in Weights /\ node[m] \in Key
        /\ node[n].wl \in Weights /\ node[n].wh \in Weights /\ node[n] \in Key
    BY <1>2, InnerNode
  <1>4. /\ node[m].wl = 1 \/ (node[m].wl = 0 /\ node[m].wh = 1)
        /\ node[n].wl = 1 \/ (node[n].wl = 0 /\ node[n].wh = 1)
    BY <1>2, NormalNodes DEF NodeNormal
  <1>5. /\ node[m].low = node[n].low /\ node[m].high = node[n].high
        /\ evdd_value_mul(a.w, node[m].wl) = evdd_value_mul(b.w, node[n].wl)
        /\ evdd_value_mul(a.w, node[m].wh) = evdd_value_mul(b.w, node[n].wh)
    BY <1>1, RecordsNotEmpty DEF evdd_edge_low, evdd_edge_high
  <1>6. a.w = b.w /\ node[m].wl = node[n].wl
    <2>1. node[m].wl = 0 <=> node[n].wl = 0
      BY <1>2, <1>3, <1>5, ProductUnits, ProductNonzero
    <2>2. CASE node[m].wl = 1 /\ node[n].wl = 1
      BY <1>2, <1>5, <2>2, ProductUnits
    <2>3. CASE node[m].wl = 0 /\ node[n].wl = 0
      <3>1. node[m].wh = 1 /\ node[n].wh = 1
        BY <1>4, <2>3, ModulusFacts
      <3>2. QED
        BY <1>2, <1>5, <2>3, <3>1, ProductUnits
    <2>4. QED
      BY <1>4, <2>1, <2>2, <2>3
  <1>7. node[m].wh = node[n].wh
    BY <1>2, <1>3, <1>5, <1>6, ProductCancels
  <1>8. node[m] = node[n]
    BY <1>1, <1>3, <1>5, <1>6, <1>7 DEF Key, LevelOf
  <1>9. m = n
    BY <1>2, <1>8 DEF TableOK
  <1>10. QED
    BY <1>2, <1>6, <1>9

\* A node is not redundant: its cofactors are two edges.
LEMMA OtherCofactors ==
  ASSUME TableOK, NEW a \in EdgeTo(Live), a.w # 0, a.node # 0
  PROVE  evdd_edge_low(a) # evdd_edge_high(a)
  <1>1. PICK n : n = a.node
    OBVIOUS
  <1>2. n \in Live /\ n # 0 /\ a.w \in Weights
    BY <1>1, RecordsNotEmpty
  <1>3. /\ node[n].wl \in Weights /\ node[n].wh \in Weights
        /\ node[n].low # node[n].high \/ node[n].wl # node[n].wh
    BY <1>2, InnerNode
  <1>4. SUFFICES ASSUME evdd_edge_low(a) = evdd_edge_high(a) PROVE FALSE
    OBVIOUS
  <1>5. /\ node[n].low = node[n].high
        /\ evdd_value_mul(a.w, node[n].wl) = evdd_value_mul(a.w, node[n].wh)
    BY <1>1, <1>4, RecordsNotEmpty DEF evdd_edge_low, evdd_edge_high
  <1>6. QED
    BY <1>2, <1>3, <1>5, ProductCancels

\* Two normalized edges with one function are one edge.
Twins(a, b) ==
  /\ a \in EdgeTo(Live) /\ b \in EdgeTo(Live) /\ NormalTo(Normal, a) /\ NormalTo(Normal, b)
  /\ Meaning(a) = Meaning(b)

LEMMA TwinCofactors ==
  ASSUME TableOK, NEW a, NEW b, Twins(a, b), NEW k \in Nat, k = TopLevel(a, b), k < Terminal,
         \A c, d : Twins(c, d) /\ k < TopLevel(c, d) => c = d
  PROVE  a = b
  <1>1. /\ a \in EdgeTo(Live) /\ b \in EdgeTo(Live) /\ NormalTo(Normal, a) /\ NormalTo(Normal, b)
        /\ Meaning(a) = Meaning(b)
    BY DEF Twins
  <1>2. /\ LevelOf(a.node) \in Nat /\ LevelOf(b.node) \in Nat
        /\ k <= LevelOf(a.node) /\ k <= LevelOf(b.node) /\ k \in {LevelOf(a.node), LevelOf(b.node)}
        /\ (LevelOf(a.node) = k => a.node # 0) /\ (LevelOf(b.node) = k => b.node # 0)
    BY <1>1, TopFacts
  <1>3. PICK la, ha, lb, hb :
          /\ la = IF LevelOf(a.node) = k THEN evdd_edge_low(a) ELSE a
          /\ ha = IF LevelOf(a.node) = k THEN evdd_edge_high(a) ELSE a
          /\ lb = IF LevelOf(b.node) = k THEN evdd_edge_low(b) ELSE b
          /\ hb = IF LevelOf(b.node) = k THEN evdd_edge_high(b) ELSE b
    OBVIOUS
  <1>4. /\ CofactorOf(la, a, k, FALSE) /\ CofactorOf(ha, a, k, TRUE)
        /\ CofactorOf(lb, b, k, FALSE) /\ CofactorOf(hb, b, k, TRUE)
    BY <1>1, <1>2, <1>3, CofactorRight
  <1>5. /\ NormalTo(Normal, la) /\ NormalTo(Normal, ha)
        /\ NormalTo(Normal, lb) /\ NormalTo(Normal, hb)
    BY <1>1, <1>2, <1>3, NormalCofactors
  <1>6. Meaning(la) = Meaning(lb) /\ Meaning(ha) = Meaning(hb)
    <2>1. ASSUME NEW c, NEW d, NEW high, CofactorOf(c, a, k, high), CofactorOf(d, b, k, high)
          PROVE  Meaning(c) = Meaning(d)
      BY <1>1, <2>1, SameCofactors
    <2>2. QED
      BY <1>4, <2>1
  <1>7. ASSUME NEW c, NEW d, NEW high, CofactorOf(c, a, k, high), CofactorOf(d, b, k, high),
               NormalTo(Normal, c), NormalTo(Normal, d), Meaning(c) = Meaning(d)
        PROVE  c = d
    <2>1. c \in EdgeTo(Live) /\ d \in EdgeTo(Live) /\ k < LevelOf(c.node) /\ k < LevelOf(d.node)
      BY <1>7 DEF CofactorOf
    <2>2. k < TopLevel(c, d) /\ Twins(c, d)
      BY <1>7, <2>1, TopFacts DEF Twins
    <2>3. QED
      BY <2>2
  <1>8. la = lb /\ ha = hb
    BY <1>4, <1>5, <1>6, <1>7
  <1>9. CASE LevelOf(a.node) = k /\ LevelOf(b.node) = k
    BY <1>1, <1>2, <1>3, <1>8, <1>9, SameNodes
  <1>10. CASE LevelOf(a.node) = k /\ LevelOf(b.node) # k
    BY <1>1, <1>2, <1>3, <1>8, <1>10, OtherCofactors, NormalCofactors
  <1>11. CASE LevelOf(a.node) # k /\ LevelOf(b.node) = k
    BY <1>1, <1>2, <1>3, <1>8, <1>11, OtherCofactors, NormalCofactors
  <1>12. QED
    BY <1>2, <1>9, <1>10, <1>11

LEMMA OneEdge == ASSUME TableOK PROVE \A a, b : Twins(a, b) => a = b
  <1> USE EvddAssumption
  <1> DEFINE D(a, b) == Terminal - TopLevel(a, b)
  <1>1. ASSUME NEW a, NEW b, Twins(a, b)
        PROVE  D(a, b) \in Nat /\ TopLevel(a, b) \in Nat /\ TopLevel(a, b) <= Terminal
    <2>1. a \in EdgeTo(Live) /\ b \in EdgeTo(Live)
      BY <1>1 DEF Twins
    <2>2. TopLevel(a, b) \in Nat /\ TopLevel(a, b) <= Terminal
      BY <2>1, TopFacts
    <2>3. QED
      BY <2>2
  <1>2. PICK T : \A x : x \in T <=> x \in Nat /\ \E a, b : Twins(a, b) /\ a # b /\ x = D(a, b)
    <2>1. PICK T : T = {x \in Nat : \E a, b : Twins(a, b) /\ a # b /\ x = D(a, b)}
      OBVIOUS
    <2>2. QED
      BY <2>1
  <1>3. SUFFICES ASSUME NEW c, NEW d, Twins(c, d), c # d PROVE FALSE
    OBVIOUS
  <1>4. T \in SUBSET Nat /\ T # {}
    BY <1>1, <1>2, <1>3
  <1>5. PICK x \in T : \A y \in T : x <= y
    BY <1>4, LeastNatural
  <1>6. PICK a, b : Twins(a, b) /\ a # b /\ x = D(a, b)
    BY <1>2, <1>5
  <1>7. PICK k : k = TopLevel(a, b)
    OBVIOUS
  <1>8. k \in Nat /\ k <= Terminal /\ x = Terminal - k
    BY <1>1, <1>6, <1>7
  <1>9. ASSUME NEW e, NEW f, Twins(e, f), k < TopLevel(e, f) PROVE e = f
    <2>1. SUFFICES ASSUME e # f PROVE FALSE
      OBVIOUS
    <2>2. D(e, f) \in T
      BY <1>1, <1>2, <1>9, <2>1
    <2>3. PICK j : j = TopLevel(e, f)
      OBVIOUS
    <2>4. j \in Nat /\ k < j /\ j <= Terminal /\ D(e, f) = Terminal - j
      BY <1>1, <1>9, <2>3
    <2>5. x <= Terminal - j
      BY <1>5, <2>2, <2>4
    <2> HIDE DEF D
    <2>6. QED
      BY <1>8, <2>4, <2>5
  <1>10. CASE k < Terminal
    BY <1>6, <1>7, <1>8, <1>9, <1>10, TwinCofactors
  <1>11. CASE k = Terminal
    <2>1. a \in EdgeTo(Live) /\ b \in EdgeTo(Live) /\ Meaning(a) = Meaning(b)
      BY <1>6 DEF Twins
    <2>2. a.node = 0 /\ b.node = 0 /\ a.w \in Weights /\ b.w \in Weights
      <3>1. ~(TopLevel(a, b) < Terminal)
        BY <1>7, <1>11
      <3>2. TopLevel(a, b) < Terminal <=> (a.node # 0 \/ b.node # 0)
        BY <2>1, TopFacts
      <3>3. QED
        BY <2>1, <3>1, <3>2, RecordsNotEmpty
    <2>3. {} \in Assignments
      BY DEF Assignments
    <2>4. Meaning(a)[{}] = a.w /\ Meaning(b)[{}] = b.w
      BY <2>2, <2>3, MeaningUnfolds, ProductUnits DEF Unfolds
    <2>5. a = b
      BY <2>1, <2>2, <2>4, RecordsNotEmpty
    <2>6. QED
      BY <1>6, <2>5
  <1>12. QED
    BY <1>8, <1>10, <1>11

----------------------------------------------------------------------------
\* Normalized diagrams stay normalized.

\* The terminal, and what a step keeps.
TerminalIsNormal == 0 \in Normal

LEMMA TerminalNormal == TableOK => TerminalIsNormal
  <1> SUFFICES ASSUME TableOK PROVE 0 \in Normal
    BY DEF TerminalIsNormal
  <1>1. 0 \in Live /\ Children(0) = {}
    BY TableFacts DEF Facts
  <1>2. PICK S : S = {0}
    OBVIOUS
  <1>3. S \in SUBSET Live /\ 0 \in S /\ Closed(S) /\ \A m \in S : NodeNormal(m)
    BY <1>1, <1>2 DEF Closed, NodeNormal
  <1>4. QED
    BY <1>1, <1>3 DEF Normal

LEMMA TerminalNormalNext == TableOK' => TerminalIsNormal'
  BY TerminalNormal, PTL

LEMMA NormalKept ==
  ASSUME NEW K, NodesStay(K)
  PROVE  /\ Normal \cap K \subseteq Normal'
         /\ \A n \in K : NodeTied(n) => NodeTied(n)'
  <1>1. ASSUME NEW n \in Normal, n \in K PROVE n \in Normal'
    <2>1. PICK S \in SUBSET Live : n \in S /\ Closed(S) /\ \A m \in S : NodeNormal(m)
      BY <1>1 DEF Normal
    <2>2. PICK T : T = S \cap K
      OBVIOUS
    <2>3. ASSUME NEW m \in T PROVE m \in Live' /\ NodeNormal(m)' /\ Children(m)' \subseteq T
      <3>1. m \in S /\ m \in K /\ NodeNormal(m) /\ Children(m) \subseteq S
        BY <2>1, <2>2 DEF Closed
      <3>2. /\ m \in Live' /\ Children(m) \subseteq K /\ node'[m] = node[m]
            /\ Children(m)' = Children(m)
        BY <3>1, StaysSame
      <3>3. QED
        BY <2>2, <3>1, <3>2 DEF NodeNormal
    <2>4. T \in SUBSET Live' /\ n \in T /\ Closed(T)' /\ \A m \in T : NodeNormal(m)'
      <3>1. n \in T
        BY <1>1, <2>1, <2>2
      <3>2. Closed(T)'
        BY <2>3 DEF Closed
      <3>3. QED
        BY <2>3, <3>1, <3>2
    <2>5. QED
      BY <2>4 DEF Normal
  <1>2. ASSUME NEW n \in K, NodeTied(n) PROVE NodeTied(n)'
    <2>1. node'[n] = node[n]
      BY StaysSame
    <2>2. QED
      BY <1>2, <2>1 DEF NodeTied
  <1>3. QED
    BY <1>1, <1>2

\* While the nodes are the same.
LEMMA NormalSame ==
  ASSUME TableOK, UNCHANGED <<evddnodesize, node>>
  PROVE  Normal \subseteq Normal' /\ (TableTied => TableTied')
  <1>1. Live' = Live /\ Slot' = Slot
    BY DEF Live, Slot
  <1>2. NodesStay(Live)
    BY <1>1, TableFacts DEF NodesStay, Facts
  <1>3. Normal \subseteq Live
    BY DEF Normal
  <1>4. PICK K : K = Live
    OBVIOUS
  <1>5. Normal \cap K \subseteq Normal' /\ \A n \in K : NodeTied(n) => NodeTied(n)'
    BY <1>2, <1>4, NormalKept
  <1>6. QED
    BY <1>1, <1>3, <1>4, <1>5 DEF TableTied

\* What goes to one of some nodes goes to one of more.
LEMMA MoreNormal ==
  ASSUME NEW N, NEW M, N \subseteq M
  PROVE  /\ \A e : NormalTo(N, e) => NormalTo(M, e)
         /\ \A edges, res : ClientNormal(N, edges, res) => ClientNormal(M, edges, res)
         /\ \A m, ret, fs : WalkNormal(N, m, ret, fs) => WalkNormal(M, m, ret, fs)
         /\ \A fs : CallersNormal(N, fs) => CallersNormal(M, fs)
         /\ \A cache : CacheNormal(N, cache) => CacheNormal(M, cache)
  <1>1. \A e : NormalTo(N, e) => NormalTo(M, e)
    BY DEF NormalTo
  <1>2. \A edges, res : ClientNormal(N, edges, res) => ClientNormal(M, edges, res)
    BY <1>1 DEF ClientNormal, HeldNormal
  <1>3. \A m, ret, fs : WalkNormal(N, m, ret, fs) => WalkNormal(M, m, ret, fs)
    BY <1>1 DEF WalkNormal, FrameNormal
  <1>4. \A fs : CallersNormal(N, fs) => CallersNormal(M, fs)
    BY <1>1 DEF CallersNormal
  <1>5. \A cache : CacheNormal(N, cache) => CacheNormal(M, cache)
    BY <1>1 DEF CacheNormal
  <1>6. QED
    BY <1>1, <1>2, <1>3, <1>4, <1>5

\* The invariant, with all that is held after a step.
LEMMA NormalNext ==
  ASSUME TableTied', NEW M, M = Normal',
         NEW edges, edges = edge', NEW res, res = result', NEW m, m = memo', NEW ret, ret = returned',
         NEW fs, fs = frames', NEW ans, ans = answer', NEW ws, ws = waiting',
         NEW cache, cache = evdd_applycache',
         ClientNormal(M, edges, res), WalkNormal(M, m, ret, fs), ans # NoEdge => NormalTo(M, ans),
         CallersNormal(M, ws), CacheNormal(M, cache)
  PROVE  NormalInv'
  <1>1. ClientNormal(Normal, edge, result)'
    BY DEF ClientNormal, HeldNormal, NoEdge, None
  <1>2. WalkNormal(Normal, memo, returned, frames)'
    BY DEF WalkNormal, FrameNormal, NoEdge
  <1>3. (answer # NoEdge => NormalTo(Normal, answer))'
    BY DEF NormalTo, NoEdge
  <1>4. CallersNormal(Normal, waiting)'
    BY DEF CallersNormal
  <1>5. CacheNormal(Normal, evdd_applycache)'
    BY DEF CacheNormal, NoEntry
  <1>6. QED
    BY <1>1, <1>2, <1>3, <1>4, <1>5 DEF NormalInv

\* A step that makes no node.
LEMMA NormalGoesOn ==
  ASSUME TableOK, TableTied, UNCHANGED <<evddnodesize, node>>, NEW N, N = Normal,
         NEW edges, edges = edge', NEW res, res = result', NEW m, m = memo', NEW ret, ret = returned',
         NEW fs, fs = frames', NEW ans, ans = answer', NEW ws, ws = waiting',
         NEW cache, cache = evdd_applycache',
         ClientNormal(N, edges, res), WalkNormal(N, m, ret, fs), ans # NoEdge => NormalTo(N, ans),
         CallersNormal(N, ws), CacheNormal(N, cache)
  PROVE  NormalInv'
  <1>1. PICK M : M = Normal'
    OBVIOUS
  <1>2. N \subseteq M /\ TableTied'
    BY <1>1, NormalSame
  <1>3. /\ ClientNormal(M, edges, res) /\ WalkNormal(M, m, ret, fs) /\ (ans # NoEdge => NormalTo(M, ans))
        /\ CallersNormal(M, ws) /\ CacheNormal(M, cache)
    BY <1>2, MoreNormal
  <1>4. QED
    BY <1>1, <1>2, <1>3, NormalNext

\* evdd_makenode on two normalized edges, or evdd_makenode_raw with weights
\* like those it leaves, makes a normalized edge.
LEMMA MadeNormal ==
  ASSUME TableOK, NEW level, NEW low, NEW high, Asked(level, low, high),
         NormalTo(Normal, low), NormalTo(Normal, high), low.w = 1 \/ (low.w = 0 /\ high.w = 1),
         NEW res, Made(level, low, high, res)
  PROVE  NormalTo(Normal, res) /\ (res.w # 0)
  <1>1. /\ low.w \in Weights /\ high.w \in Weights /\ low.node \in Live /\ high.node \in Live
        /\ low = Edge(low.node, low.w) /\ high = Edge(high.node, high.w) /\ 0 # 1
    BY RecordsNotEmpty, ModulusFacts DEF Asked
  <1>2. CASE low = high /\ res = low
    BY <1>1, <1>2
  <1>3. CASE /\ low # high /\ res.w = 1 /\ res.node # 0
             /\ node[res.node] = [level |-> level, low |-> low.node, wl |-> low.w,
                                  high |-> high.node, wh |-> high.w]
    <2>1. PICK n : n = res.node
      OBVIOUS
    <2>2. /\ n \in Live /\ n # 0
          /\ node[n].low = low.node /\ node[n].wl = low.w /\ node[n].high = high.node /\ node[n].wh = high.w
      BY <1>3, <2>1, RecordsNotEmpty DEF Made
    <2>3. Children(n) = {low.node, high.node}
      BY <2>2, InnerNode
    <2>4. /\ Normal \subseteq Live /\ Closed(Normal) /\ \A m \in Normal : NodeNormal(m)
          /\ low.node \in Normal /\ high.node \in Normal
      BY NormalNodes DEF NormalTo
    <2>5. NodeNormal(n)
      BY <1>1, <2>2 DEF NodeNormal, NormalTo, Tied
    <2>6. PICK S : S = Normal \cup {n}
      OBVIOUS
    <2>7. S \in SUBSET Live /\ n \in S /\ Closed(S) /\ \A m \in S : NodeNormal(m)
      BY <2>2, <2>3, <2>4, <2>5, <2>6 DEF Closed
    <2>8. n \in Normal
      BY <2>2, <2>7 DEF Normal
    <2>9. QED
      BY <1>1, <1>3, <2>1, <2>8 DEF NormalTo, Tied
  <1>4. QED
    BY <1>2, <1>3 DEF Made

LEMMA NormalizedNormal ==
  ASSUME TableOK, NEW level, NEW low, NEW high, Asked(level, low, high),
         NormalTo(Normal, low), NormalTo(Normal, high),
         NEW res, Normalized(level, low, high, res)
  PROVE  NormalTo(Normal, res)
  <1>1. /\ low.w \in Weights /\ high.w \in Weights /\ low.node \in Live /\ high.node \in Live
        /\ level \in 0..(Terminal - 1) /\ level < LevelOf(low.node) /\ level < LevelOf(high.node)
    BY RecordsNotEmpty DEF Asked
  <1>2. CASE low.w = 0 /\ high.w = 0 /\ res = Edge(0, 0)
    BY <1>2, TerminalNormal, RecordsNotEmpty DEF TerminalIsNormal, NormalTo, Tied
  <1>3. ASSUME NEW inc \in Weights, NEW wl \in Weights, NEW wh \in Weights, NEW w \in Weights,
               inc # 0, low.w = evdd_value_mul(inc, wl), high.w = evdd_value_mul(inc, wh),
               wl = 1 \/ (wl = 0 /\ wh = 1),
               Made(level, Edge(low.node, wl), Edge(high.node, wh), Edge(res.node, w)),
               res = Edge(res.node, evdd_value_mul(inc, w))
        PROVE  NormalTo(Normal, res)
    <2>1. PICK l, h, e : /\ l = Edge(low.node, wl) /\ h = Edge(high.node, wh) /\ e = Edge(res.node, w)
      OBVIOUS
    <2>2. /\ l.node = low.node /\ l.w = wl /\ h.node = high.node /\ h.w = wh
          /\ e.node = res.node /\ e.w = w
      BY <2>1, RecordsNotEmpty
    <2>3. Asked(level, l, h)
      BY <1>1, <1>3, <2>1, <2>2, EdgeIn DEF Asked
    <2>4. (wl = 0 => low.w = 0) /\ (wh = 0 => high.w = 0)
      BY <1>3, ProductUnits
    <2>5. NormalTo(Normal, l) /\ NormalTo(Normal, h)
      BY <2>2, <2>4 DEF NormalTo, Tied
    <2>6. Made(level, l, h, e)
      BY <1>3, <2>1
    <2>7. NormalTo(Normal, e) /\ w # 0
      BY <1>3, <2>2, <2>3, <2>5, <2>6, MadeNormal
    <2>8. res.w # 0
      <3>1. PICK x : x = evdd_value_mul(inc, w) /\ x # 0
        BY <1>3, <2>7, ProductNonzero
      <3>2. res = Edge(res.node, x)
        BY <1>3, <3>1
      <3>3. Edge(res.node, x).w = x
        BY RecordsNotEmpty
      <3>4. QED
        BY <3>1, <3>2, <3>3
    <2>9. QED
      BY <2>2, <2>7, <2>8 DEF NormalTo, Tied
  <1>4. QED
    BY <1>2, <1>3 DEF Normalized

\* The same in the state after a step.
Normalizing ==
  \A level, low, high, res :
    /\ Asked(level, low, high) /\ Normalized(level, low, high, res)
    /\ NormalTo(Normal, low) /\ NormalTo(Normal, high)
    => NormalTo(Normal, res)

LEMMA AlwaysNormalizing == TableOK => Normalizing
  BY NormalizedNormal DEF Normalizing

LEMMA AlwaysNormalizingNext == TableOK' => Normalizing'
  BY AlwaysNormalizing, PTL

\* A node made in a table of tied nodes.
NormalTied == \A n \in Normal \ {0} : NodeTied(n)

LEMMA AlwaysNormalTied == TableOK => NormalTied
  BY NormalNodes, ModulusFacts DEF NormalTied, NodeNormal, NodeTied

LEMMA AlwaysNormalTiedNext == TableOK' => NormalTied'
  BY AlwaysNormalTied, PTL

LEMMA TiedAfter ==
  ASSUME TableTied, NEW K, NodesStay(K), NEW n, NodeTied(n)', Live' \subseteq K \cup {n}
  PROVE  TableTied'
  <1>1. K \subseteq Live /\ \A m \in K : NodeTied(m) => NodeTied(m)'
    BY NormalKept DEF NodesStay
  <1>2. QED
    BY <1>1 DEF TableTied

LEMMA NormalBuilt ==
  ASSUME TableOK, TableTied, NEW level, NEW low, NEW high, Asked(level, low, high),
         NormalTo(Normal, low), NormalTo(Normal, high),
         NEW res, res = Edge(res.node, res.w), NEW cache, evdd_makenode(level, low, high, res, cache)
  PROVE  /\ TableOK' /\ TableTied' /\ NormalTo(Normal, res)'
         /\ \E K : Keeps(K, low, high, res, cache) /\ Normal \cap K \subseteq Normal'
  <1>1. /\ TableOK' /\ Normalized(level, low, high, res)' /\ Asked(level, low, high)'
        /\ \E K : Keeps(K, low, high, res, cache)
    BY NodeBuilt
  <1>2. PICK K : Keeps(K, low, high, res, cache)
    BY <1>1
  <1>3. NodesStay(K) /\ low.node \in K /\ high.node \in K /\ Live' \subseteq K \cup {res.node}
    BY <1>2 DEF Keeps, Stays
  <1>4. Normal \cap K \subseteq Normal'
    BY <1>3, NormalKept
  <1>5. NormalTo(Normal, low)' /\ NormalTo(Normal, high)'
    BY <1>3, <1>4 DEF NormalTo, Tied
  <1>6. NormalTo(Normal, res)'
    BY <1>1, <1>5, AlwaysNormalizingNext DEF Normalizing
  <1>7. TableTied'
    <2>1. res.node # 0 => NodeTied(res.node)'
      BY <1>1, <1>6, AlwaysNormalTiedNext DEF NormalTied, NormalTo
    <2>2. CASE res.node = 0
      <3>1. 0 \in K
        BY <1>3 DEF NodesStay
      <3>2. QED
        BY <1>3, <2>2, <3>1, NormalKept DEF TableTied, NodesStay
    <2>3. CASE res.node # 0
      BY <1>3, <2>1, <2>3, TiedAfter
    <2>4. QED
      BY <2>2, <2>3
  <1>8. QED
    BY <1>1, <1>2, <1>4, <1>6, <1>7

\* What is held stays normal while the nodes in K stay.
LEMMA FramesHold ==
  ASSUME EvddInv
  PROVE  /\ \A i \in DOMAIN frames :
              /\ frames[i].step # "low" => frames[i].low # NoEdge
              /\ frames[i].step = "make" => frames[i].high # NoEdge
         /\ \A i \in DOMAIN waiting : waiting[i].step = "high" => waiting[i].low # NoEdge
  <1>2. ASSUME call # None, NEW i \in DOMAIN frames
        PROVE  /\ frames[i].step # "low" => frames[i].low # NoEdge
               /\ frames[i].step = "make" => frames[i].high # NoEdge
    <2>1. FrameOK(frames[i])
      BY <1>2, WhileWalking DEF Walking, WalkOK, Chain
    <2>2. \A n, w : \A e \in ChildForms(n, w) : e # NoEdge
      BY RecordsNotEmpty DEF ChildForms
    <2>3. QED
      BY <2>1, <2>2 DEF FrameOK
  <1>3. ASSUME NEW i \in DOMAIN waiting, waiting[i].step = "high" PROVE waiting[i].low # NoEdge
    <2>1. applying # None
      BY <1>3 DEF EvddInv, NotApplying
    <2>2. CallerOK(waiting[i])
      BY <2>1, WhileApplying DEF ApplyOK, Callers
    <2>3. \A op, a, b, S : \A e \in Results(op, a, b, S) : e # NoEdge
      BY RecordsNotEmpty DEF Results
    <2>4. QED
      BY <1>3, <2>2, <2>3 DEF CallerOK
  <1>4. DOMAIN frames = {} \/ call # None
    BY DEF EvddInv, NotWalking
  <1>5. QED
    BY <1>2, <1>3, <1>4

LEMMA KeptNormal ==
  ASSUME EvddInv, NormalInv, NEW K, Marked({}) \subseteq K, NEW N, Normal \cap K \subseteq N
  PROVE  /\ ClientNormal(N, edge, None) /\ WalkNormal(N, memo, returned, frames)
         /\ CallersNormal(N, waiting)
  <1>1. WalkProtected
    BY InvProtected
  <1>2. /\ ClientNormal(Normal, edge, result) /\ WalkNormal(Normal, memo, returned, frames)
        /\ CallersNormal(Normal, waiting)
    BY DEF NormalInv
  <1>3. ASSUME NEW e, NormalTo(Normal, e), e.node \in Marked({}) PROVE NormalTo(N, e)
    BY <1>3 DEF NormalTo
  <1>4. ASSUME NEW x \in Names, edge[x] # NoEdge PROVE edge[x].node \in Marked({})
    <2>1. TableOK /\ ClientOK
      BY DEF EvddInv, Good
    <2>2. QED
      BY <1>4, <2>1, HeldEdges, ReachProtected
  <1>5. ClientNormal(N, edge, None)
    BY <1>2, <1>3, <1>4 DEF ClientNormal, HeldNormal
  <1>6. ASSUME NEW i \in DOMAIN frames PROVE FrameNormal(N, frames[i])
    <2>1. PICK f : f = frames[i]
      OBVIOUS
    <2>2. /\ f.step # "low" => f.low # NoEdge /\ NormalTo(Normal, f.low)
          /\ f.step = "make" => f.high # NoEdge /\ NormalTo(Normal, f.high)
      BY <1>2, <2>1, FramesHold DEF WalkNormal, FrameNormal
    <2>3. \A n \in {f.node} \cup {e.node : e \in {f.low, f.high} \ {NoEdge}} : n \in Marked({})
      BY <1>1, <2>1 DEF WalkProtected
    <2>4. (f.low # NoEdge => f.low.node \in Marked({})) /\ (f.high # NoEdge => f.high.node \in Marked({}))
      BY <2>3
    <2>5. QED
      BY <1>3, <2>1, <2>2, <2>4 DEF FrameNormal
  <1>7. ASSUME NEW n \in DOMAIN memo, memo[n] # NoEdge PROVE NormalTo(N, memo[n])
    BY <1>1, <1>2, <1>3, <1>7 DEF WalkNormal, WalkProtected
  <1>8. returned # NoEdge => NormalTo(N, returned)
    BY <1>1, <1>2, <1>3 DEF WalkNormal, WalkProtected
  <1>9. WalkNormal(N, memo, returned, frames)
    BY <1>6, <1>7, <1>8 DEF WalkNormal
  <1>10. ASSUME NEW i \in DOMAIN waiting, waiting[i].step = "high" PROVE NormalTo(N, waiting[i].low)
    <2>1. waiting[i].low # NoEdge /\ NormalTo(Normal, waiting[i].low)
      BY <1>2, <1>10, FramesHold DEF CallersNormal
    <2>2. waiting[i].low.node \in Marked({})
      BY <1>1, <2>1 DEF WalkProtected
    <2>3. QED
      BY <1>3, <2>1, <2>2
  <1>11. CallersNormal(N, waiting)
    BY <1>10 DEF CallersNormal
  <1>12. QED
    BY <1>5, <1>9, <1>11

\* The cache after evdd_makenode, and after a result has come to it.
LEMMA CacheNormalAfter ==
  ASSUME TableOK, GoodCache(evdd_applycache), CacheNormal(Normal, evdd_applycache),
         NEW K, NEW low, NEW high, NEW res, NEW cache, Keeps(K, low, high, res, cache),
         NEW N, Normal \cap K \subseteq N
  PROVE  CacheNormal(N, cache) /\ cache = [i \in 0..(CacheSize - 1) |-> cache[i]]
  <1>1. CASE cache = evdd_applycache /\ K = Live
    <2>1. Normal \subseteq N
      BY <1>1 DEF Normal
    <2>2. QED
      BY <1>1, <2>1, MoreNormal DEF GoodCache
  <1>2. CASE cache = evdd_operator_reset
    <2>1. cache = [i \in 0..(CacheSize - 1) |-> NoEntry]
      BY <1>2 DEF GoodCache, evdd_operator_reset
    <2>2. QED
      BY <2>1 DEF CacheNormal
  <1>3. QED
    BY <1>1, <1>2 DEF Keeps

LEMMA CacheNormalStored ==
  ASSUME NEW N, NEW cache, cache = [i \in 0..(CacheSize - 1) |-> cache[i]], CacheNormal(N, cache),
         NEW c, NEW a, NEW b, NEW res, NormalTo(N, res), NEW slot,
         NEW new, new = [cache EXCEPT ![slot] = Entry(c, a, b, res)]
  PROVE  CacheNormal(N, new)
  <1>1. PICK entry : entry = Entry(c, a, b, res)
    OBVIOUS
  <1>2. entry.res = res
    BY <1>1 DEF Entry
  <1>3. \A i \in 0..(CacheSize - 1) : new[i] = IF i = slot THEN entry ELSE cache[i]
    BY <1>1
  <1>4. QED
    BY <1>2, <1>3 DEF CacheNormal

\* Steps of the client, of the walk and of the recursion that make no node.
LEMMA NormalClient ==
  ASSUME EvddInv, NormalInv, UNCHANGED <<evddnodesize, node, evdd_applycache, walk, apply>>,
         NEW N, N = Normal, NEW edges, edges = edge', NEW res, res = result', ClientNormal(N, edges, res)
  PROVE  NormalInv'
  <1>1. PICK m, ret, fs, ans, ws, cache :
          /\ m = memo /\ ret = returned /\ fs = frames /\ ans = answer /\ ws = waiting
          /\ cache = evdd_applycache
    OBVIOUS
  <1>2. /\ m = memo' /\ ret = returned' /\ fs = frames' /\ ans = answer' /\ ws = waiting'
        /\ cache = evdd_applycache'
    BY <1>1 DEF walk, apply
  <1>3. /\ TableOK /\ TableTied /\ WalkNormal(N, m, ret, fs) /\ (ans # NoEdge => NormalTo(N, ans))
        /\ CallersNormal(N, ws) /\ CacheNormal(N, cache) /\ UNCHANGED <<evddnodesize, node>>
    BY <1>1 DEF EvddInv, Good, NormalInv
  <1>4. QED
    BY <1>2, <1>3, NormalGoesOn

LEMMA NormalWalks ==
  ASSUME EvddInv, NormalInv, UNCHANGED <<table, evdd_applycache, edge, apply>>, result' = result,
         NEW N, N = Normal, NEW m, m = memo', NEW ret, ret = returned', NEW fs, fs = frames',
         WalkNormal(N, m, ret, fs)
  PROVE  NormalInv'
  <1>1. PICK edges, res, ans, ws, cache :
          /\ edges = edge /\ res = result /\ ans = answer /\ ws = waiting /\ cache = evdd_applycache
    OBVIOUS
  <1>2. /\ edges = edge' /\ res = result' /\ ans = answer' /\ ws = waiting' /\ cache = evdd_applycache'
        /\ UNCHANGED <<evddnodesize, node>>
    BY <1>1 DEF apply, table
  <1>3. /\ TableOK /\ TableTied /\ ClientNormal(N, edges, res) /\ (ans # NoEdge => NormalTo(N, ans))
        /\ CallersNormal(N, ws) /\ CacheNormal(N, cache)
    BY <1>1 DEF EvddInv, Good, NormalInv
  <1>4. QED
    BY <1>2, <1>3, NormalGoesOn

LEMMA NormalApplies ==
  ASSUME EvddInv, NormalInv, UNCHANGED <<table, edge, result, walk>>, NEW N, N = Normal,
         NEW ans, ans = answer', NEW ws, ws = waiting', NEW cache, cache = evdd_applycache',
         ans # NoEdge => NormalTo(N, ans), CallersNormal(N, ws), CacheNormal(N, cache)
  PROVE  NormalInv'
  <1>1. PICK edges, res, m, ret, fs :
          /\ edges = edge /\ res = result /\ m = memo /\ ret = returned /\ fs = frames
    OBVIOUS
  <1>2. /\ edges = edge' /\ res = result' /\ m = memo' /\ ret = returned' /\ fs = frames'
        /\ UNCHANGED <<evddnodesize, node>>
    BY <1>1 DEF walk, table
  <1>3. TableOK /\ TableTied /\ ClientNormal(N, edges, res) /\ WalkNormal(N, m, ret, fs)
    BY <1>1 DEF EvddInv, Good, NormalInv
  <1>4. QED
    BY <1>2, <1>3, NormalGoesOn

\* The client's steps.
LEMMA ClientHolds ==
  ASSUME NEW N, NEW edges, ClientNormal(N, edges, None), NEW x, NEW e, HeldNormal(N, x, e),
         NEW res, res = [to |-> x, e |-> e]
  PROVE  ClientNormal(N, edges, res)
  BY DEF ClientNormal

LEMMA AddRefNormal ==
  ASSUME EvddInv, NormalInv, UNCHANGED apply, AddRef
  PROVE  NormalInv'
  <1>1. PICK N, edges, res : N = Normal /\ edges = edge' /\ res = result'
    OBVIOUS
  <1>2. result # None /\ res = None /\ UNCHANGED <<evddnodesize, node, evdd_applycache, walk, apply>>
    BY <1>1 DEF AddRef
  <1>3. edge \in [Names -> EdgeTo(Live) \cup {NoEdge}] /\ edges = [edge EXCEPT ![result.to] = result.e]
    BY <1>1 DEF EvddInv, Good, ClientOK, AddRef
  <1>4. /\ \A x \in Names : edge[x] # NoEdge => HeldNormal(N, x, edge[x])
        /\ HeldNormal(N, result.to, result.e)
    BY <1>1, <1>2 DEF NormalInv, ClientNormal
  <1>5. \A x \in Names : edges[x] = IF x = result.to THEN result.e ELSE edge[x]
    BY <1>3
  <1>6. \A x \in Names : edges[x] # NoEdge => HeldNormal(N, x, edges[x])
    BY <1>4, <1>5
  <1>7. ClientNormal(N, edges, res)
    BY <1>2, <1>6 DEF ClientNormal
  <1>8. QED
    BY <1>1, <1>2, <1>7, NormalClient

LEMMA DelRefNormal ==
  ASSUME EvddInv, NormalInv, UNCHANGED apply, NEW x \in Names, DelRef(x)
  PROVE  NormalInv'
  <1>1. PICK N, edges, res : N = Normal /\ edges = edge' /\ res = result'
    OBVIOUS
  <1>2. res = None /\ UNCHANGED <<evddnodesize, node, evdd_applycache, walk, apply>>
    BY <1>1 DEF DelRef, Idle
  <1>3. edge \in [Names -> EdgeTo(Live) \cup {NoEdge}] /\ edges = [edge EXCEPT ![x] = NoEdge]
    BY <1>1 DEF EvddInv, Good, ClientOK, DelRef
  <1>4. \A y \in Names : edge[y] # NoEdge => HeldNormal(N, y, edge[y])
    BY <1>1 DEF NormalInv, ClientNormal
  <1>5. \A y \in Names : edges[y] = IF y = x THEN NoEdge ELSE edge[y]
    BY <1>3
  <1>6. ClientNormal(N, edges, res)
    BY <1>2, <1>4, <1>5 DEF ClientNormal
  <1>7. QED
    BY <1>1, <1>2, <1>6, NormalClient

LEMMA NormalizeNormal ==
  ASSUME EvddInv, NormalInv, UNCHANGED apply, NEW c \in Normalizes, Normalize(c)
  PROVE  NormalInv'
  <1>1. PICK N, m, ret, fs, edges, res :
          /\ N = Normal /\ m = memo' /\ ret = returned' /\ fs = frames' /\ edges = edge' /\ res = result'
    OBVIOUS
  <1>2. UNCHANGED <<table, evdd_applycache, edge, apply>>
    BY DEF Normalize
  <1>3. CASE Const(edge[c.from].node)
    <2>1. PICK e : e = edge[c.from]
      OBVIOUS
    <2>2. e.node = 0 /\ UNCHANGED walk /\ res = [to |-> c.to, e |-> e] /\ edges = edge /\ result = None
      BY <1>1, <1>3, <2>1 DEF Normalize, Idle, Const
    <2>3. TableOK
      BY DEF EvddInv, Good
    <2>4. HeldNormal(N, c.to, e)
      BY <1>1, <2>2, <2>3, TerminalNormal DEF TerminalIsNormal, HeldNormal, NormalTo, Tied
    <2>5. ClientNormal(N, edges, None)
      BY <1>1, <2>2 DEF NormalInv, ClientNormal
    <2>6. ClientNormal(N, edges, res)
      BY <2>2, <2>4, <2>5, ClientHolds
    <2>7. UNCHANGED <<evddnodesize, node, evdd_applycache, walk, apply>>
      BY <1>2, <2>2 DEF table
    <2>8. QED
      BY <1>1, <2>6, <2>7, NormalClient
  <1>4. CASE ~Const(edge[c.from].node)
    <2>1. result' = result /\ m = [n \in Slot |-> NoEdge] /\ ret = returned /\ fs = frames
      BY <1>1, <1>4 DEF Normalize
    <2>2. WalkNormal(N, m, ret, fs)
      BY <1>1, <2>1 DEF NormalInv, WalkNormal
    <2>3. QED
      BY <1>1, <1>2, <2>1, <2>2, NormalWalks
  <1>5. QED
    BY <1>3, <1>4

\* The steps of the walk.
LEMMA RecallNormal ==
  ASSUME EvddInv, NormalInv, UNCHANGED apply, Recall
  PROVE  NormalInv'
  <1>1. PICK N, m, ret, fs : N = Normal /\ m = memo' /\ ret = returned' /\ fs = frames'
    OBVIOUS
  <1>2. /\ UNCHANGED <<table, evdd_applycache, edge, apply>> /\ result' = result
        /\ m = memo /\ ret = memo[calling] /\ fs = frames /\ calling # NoNode /\ memo[calling] # NoEdge
    BY <1>1 DEF Recall
  <1>3. calling \in DOMAIN memo
    <2>1. call # None
      BY <1>2 DEF EvddInv, NotWalking
    <2>2. /\ TableOK /\ ClientOK /\ Walking /\ MemoOK(memo) /\ Chain(frames)
          /\ calling = AskedNode(frames)
      BY <1>2, <2>1, WhileWalking DEF Walking, WalkOK
    <2>3. calling \in Reach
      BY <2>2, AskedReached DEF Walking, WalkOK
    <2>4. QED
      BY <2>2, <2>3 DEF MemoOK
  <1>4. WalkNormal(N, m, ret, fs)
    BY <1>1, <1>2, <1>3 DEF NormalInv, WalkNormal
  <1>5. QED
    BY <1>1, <1>2, <1>4, NormalWalks

LEMMA EnterNormal ==
  ASSUME EvddInv, NormalInv, UNCHANGED apply, Enter
  PROVE  NormalInv'
  <1>1. PICK N, m, ret, fs, old, new :
          /\ N = Normal /\ m = memo' /\ ret = returned' /\ fs = frames' /\ old = frames
          /\ new = [node |-> calling, step |-> "low", low |-> NoEdge, high |-> NoEdge]
    OBVIOUS
  <1>2. /\ UNCHANGED <<table, evdd_applycache, edge, apply>> /\ result' = result
        /\ m = memo /\ ret = returned /\ fs = Append(old, new) /\ calling # NoNode
    BY <1>1 DEF Enter
  <1>3. old \in Seq(Frame)
    <2>1. call # None
      BY <1>2 DEF EvddInv, NotWalking
    <2>2. QED
      BY <1>1, <2>1, WhileWalking DEF Walking, WalkOK, Chain
  <1>4. WalkNormal(N, memo, returned, old)
    BY <1>1 DEF NormalInv
  <1>5. \A i \in DOMAIN fs : fs[i] = new \/ (i \in DOMAIN old /\ fs[i] = old[i])
    BY <1>2, <1>3
  <1>6. FrameNormal(N, new)
    BY <1>1 DEF FrameNormal
  <1>7. WalkNormal(N, m, ret, fs)
    BY <1>2, <1>4, <1>5, <1>6 DEF WalkNormal
  <1>8. QED
    BY <1>1, <1>2, <1>7, NormalWalks

LEMMA DescendNormal ==
  ASSUME EvddInv, NormalInv, UNCHANGED apply, Descend
  PROVE  NormalInv'
  <1>1. PICK N, m, ret, fs : N = Normal /\ m = memo' /\ ret = returned' /\ fs = frames'
    OBVIOUS
  <1>2. /\ UNCHANGED <<table, evdd_applycache, edge, apply>> /\ result' = result
        /\ m = memo /\ ret = returned /\ fs = frames
    BY <1>1 DEF Descend
  <1>3. WalkNormal(N, m, ret, fs)
    BY <1>1, <1>2 DEF NormalInv
  <1>4. QED
    BY <1>1, <1>2, <1>3, NormalWalks

LEMMA TakeChildNormal ==
  ASSUME EvddInv, NormalInv, UNCHANGED apply, TakeChild
  PROVE  NormalInv'
  <1>1. AtChild /\ Const(Child) = (returned = NoEdge)
    BY DEF TakeChild
  <1>2. /\ call # None /\ ClientOK /\ TableOK /\ Walking /\ Len(frames) \in Nat \ {0}
        /\ Top \in Frame /\ FrameOK(Top) /\ Child = AskedNode(frames)
        /\ Child \in Reach /\ Child = ChildOf(Top) /\ ChildWeight \in Weights
    BY <1>1, AtTheChild
  <1>3. Top = frames[Len(frames)] /\ Top.step \in {"low", "high"} /\ (Child = 0 <=> returned = NoEdge)
    BY <1>1 DEF AtChild, Top, Const
  <1>4. PICK N, m, ret, fs, old : /\ N = Normal /\ m = memo' /\ ret = returned' /\ fs = frames'
                                  /\ old = frames
    OBVIOUS
  <1>5. PICK e : /\ e = IF Const(Child) THEN Edge(Child, ChildWeight)
                        ELSE Edge(returned.node, evdd_value_mul(ChildWeight, returned.w))
                 /\ frames' = [frames EXCEPT ![Len(frames)] =
                                 IF Top.step = "low" THEN [@ EXCEPT !.step = "high", !.low = e]
                                                     ELSE [@ EXCEPT !.step = "make", !.high = e]]
    BY DEF TakeChild
  <1>6. PICK f, new, k : /\ f = Top /\ k = Len(frames)
                         /\ new = IF f.step = "low" THEN [f EXCEPT !.step = "high", !.low = e]
                                                    ELSE [f EXCEPT !.step = "make", !.high = e]
    OBVIOUS
  <1>7. /\ fs = [old EXCEPT ![k] = new] /\ ret = NoEdge /\ m = memo
        /\ result' = result /\ UNCHANGED <<table, evdd_applycache, edge, apply>>
    BY <1>3, <1>4, <1>5, <1>6 DEF TakeChild, Top
  <1>8. old \in Seq(Frame) /\ (returned # NoEdge => returned \in NormalForms(Child))
    BY <1>2, <1>4 DEF Walking, WalkOK, Chain
  <1>9. e.node = (IF Child = 0 THEN 0 ELSE returned.node) /\ (e.w = 0 => ChildWeight = 0)
    <2>1. (Child = 0 => e = Edge(Child, ChildWeight))
          /\ (Child # 0 => e = Edge(returned.node, evdd_value_mul(ChildWeight, returned.w)))
      BY <1>5 DEF Const
    <2>2. Child # 0 => returned \in NormalForms(Child)
      BY <1>3, <1>8
    <2>3. Child \in Live
      BY <1>2 DEF Reach
    <2>4. e \in ChildForms(Child, ChildWeight)
      BY <1>2, <2>1, <2>2, <2>3, ChildNormalized
    <2>5. QED
      BY <2>1, <2>4, RecordsNotEmpty DEF ChildForms
  <1>10. ChildWeight = 0 => Child = 0
    <2>1. f.node \in Live \ {0}
      BY <1>2, <1>6 DEF Frame, Reach
    <2>2. NodeTied(f.node)
      BY <2>1 DEF NormalInv, TableTied
    <2>3. QED
      BY <1>6, <2>2 DEF NodeTied, Child, ChildWeight
  <1>11. WalkNormal(N, memo, returned, old) /\ 0 \in N
    BY <1>2, <1>4, TerminalNormal DEF NormalInv, TerminalIsNormal
  <1>12. NormalTo(N, e)
    <2>1. Child # 0 => NormalTo(N, returned)
      BY <1>3, <1>11 DEF WalkNormal
    <2>2. QED
      BY <1>9, <1>10, <1>11, <2>1 DEF NormalTo, Tied
  <1>13. k \in DOMAIN old /\ f = old[k] /\ f \in Frame /\ f.step \in {"low", "high"}
    BY <1>2, <1>3, <1>4, <1>6, <1>8
  <1>14. FrameNormal(N, f)
    BY <1>11, <1>13 DEF WalkNormal
  <1>15. FrameNormal(N, new)
    <2>1. CASE f.step = "low"
      <3>1. new = [f EXCEPT !.step = "high", !.low = e]
        BY <1>6, <2>1
      <3>2. new.step = "high" /\ new.low = e
        BY <1>13, <3>1 DEF Frame
      <3>3. QED
        BY <1>12, <3>2 DEF FrameNormal
    <2>2. CASE f.step = "high"
      <3>1. new = [f EXCEPT !.step = "make", !.high = e]
        BY <1>6, <2>2
      <3>2. new.low = f.low /\ new.high = e
        BY <1>13, <3>1 DEF Frame
      <3>3. QED
        BY <1>12, <1>14, <2>2, <3>2 DEF FrameNormal
    <2>3. QED
      BY <1>13, <2>1, <2>2
  <1>16. \A i \in DOMAIN fs : i \in DOMAIN old /\ fs[i] = IF i = k THEN new ELSE old[i]
    BY <1>7, <1>13
  <1>17. \A i \in DOMAIN fs : FrameNormal(N, fs[i])
    BY <1>11, <1>15, <1>16 DEF WalkNormal
  <1>18. WalkNormal(N, m, ret, fs)
    BY <1>7, <1>11, <1>17 DEF WalkNormal
  <1>19. QED
    BY <1>4, <1>7, <1>18, NormalWalks

LEMMA FinishNormal ==
  ASSUME EvddInv, NormalInv, UNCHANGED apply, Finish
  PROVE  NormalInv'
  <1>1. call # None /\ frames = <<>> /\ returned # NoEdge
    BY DEF Finish
  <1>2. PICK N, edges, res, m, ret, fs, ans, ws, cache, e, from, r :
          /\ N = Normal /\ edges = edge /\ res = result' /\ m = <<>> /\ ret = NoEdge /\ fs = <<>>
          /\ ans = answer /\ ws = waiting /\ cache = evdd_applycache
          /\ from = edge[call.from] /\ r = returned /\ e = Edge(r.node, evdd_value_mul(from.w, r.w))
    OBVIOUS
  <1>3. /\ res = [to |-> call.to, e |-> e] /\ edges = edge' /\ m = memo' /\ ret = returned' /\ fs = frames'
        /\ ans = answer' /\ ws = waiting' /\ cache = evdd_applycache' /\ UNCHANGED <<evddnodesize, node>>
    BY <1>1, <1>2 DEF Finish, apply, table
  <1>4. TableOK /\ ClientOK /\ Walking /\ NotApplying
    BY <1>1, WhileWalking
  <1>5. /\ r.w \in Weights /\ r.w # 0 /\ from.w \in Weights /\ from.node # 0
        /\ call.from \in Names /\ from # NoEdge
    <2>1. r \in NormalForms(AskedNode(frames))
      BY <1>1, <1>2, <1>4 DEF Walking, WalkOK
    <2>2. call.from \in Names /\ from # NoEdge /\ from.node # 0
      BY <1>2, <1>4, CallAssumption DEF Walking
    <2>3. from.w \in Weights
      BY <1>2, <1>4, <2>2, HeldEdges, RecordsNotEmpty
    <2>4. QED
      BY <2>1, <2>2, <2>3, RecordsNotEmpty DEF NormalForms
  <1>6. /\ TableTied /\ WalkNormal(Normal, memo, returned, frames) /\ ClientNormal(N, edges, result)
        /\ CallersNormal(N, ws) /\ CacheNormal(N, cache) /\ (ans # NoEdge => NormalTo(N, ans))
    BY <1>2 DEF NormalInv
  <1>7. HeldNormal(N, call.to, e)
    <2>1. from.w # 0
      BY <1>2, <1>5, <1>6 DEF ClientNormal, HeldNormal, Tied
    <2>2. PICK x : x = evdd_value_mul(from.w, r.w) /\ x # 0
      BY <1>5, <2>1, ProductNonzero
    <2>3. e.node = r.node /\ e.w # 0
      BY <1>2, <2>2, RecordsNotEmpty
    <2>4. NormalTo(N, r)
      BY <1>1, <1>2, <1>6 DEF WalkNormal
    <2>5. QED
      BY <2>3, <2>4 DEF HeldNormal, NormalTo, Tied
  <1>8. ClientNormal(N, edges, res)
    <2>1. ClientNormal(N, edges, None)
      BY <1>6 DEF ClientNormal
    <2>2. QED
      BY <1>3, <1>7, <2>1, ClientHolds
  <1>9. WalkNormal(N, m, ret, fs)
    BY <1>2 DEF WalkNormal
  <1>10. QED
    BY <1>2, <1>3, <1>4, <1>6, <1>8, <1>9, NormalGoesOn

\* The steps of the recursion.
LEMMA StartApplyNormal ==
  ASSUME EvddInv, NormalInv, NEW c \in Applies, StartApply(c)
  PROVE  NormalInv'
  <1>1. PICK N, ans, ws, cache : N = Normal /\ ans = answer' /\ ws = waiting' /\ cache = evdd_applycache'
    OBVIOUS
  <1>2. /\ UNCHANGED <<table, edge, result, walk>>
        /\ ans = answer /\ ws = waiting /\ cache = evdd_applycache
    BY <1>1 DEF StartApply
  <1>3. (ans # NoEdge => NormalTo(N, ans)) /\ CallersNormal(N, ws) /\ CacheNormal(N, cache)
    BY <1>1, <1>2 DEF NormalInv
  <1>4. QED
    BY <1>1, <1>2, <1>3, NormalApplies

LEMMA ReturnCachedNormal ==
  ASSUME EvddInv, NormalInv, ReturnCached
  PROVE  NormalInv'
  <1>1. operands # None /\ Hit(operands.a, operands.b)
    BY DEF ReturnCached
  <1>2. applying # None
    BY <1>1 DEF EvddInv, NotApplying
  <1>3. /\ TableOK /\ ClientOK /\ applying \in Applies
        /\ edge[applying.a] # NoEdge /\ edge[applying.b] # NoEdge
        /\ Callers(waiting) /\ AskedOperands(waiting) = operands
    BY <1>1, <1>2, WhileApplying DEF ApplyOK
  <1>4. PICK N, ans, ws, cache, i :
          /\ N = Normal /\ ans = answer' /\ ws = waiting' /\ cache = evdd_applycache'
          /\ i = ApplyHash(operands.a, operands.b, applying.op)
    OBVIOUS
  <1>5. /\ UNCHANGED <<table, edge, result, walk>>
        /\ ans = cache[i].res /\ cache[i] # NoEntry /\ ws = waiting /\ cache = evdd_applycache
    BY <1>1, <1>4 DEF ReturnCached, Hit, Slot_, vars
  <1>6. operands.a \in EdgeTo(Live) /\ operands.b \in EdgeTo(Live)
    BY <1>3, OperandsAsked DEF EdgeTo, Reach
  <1>7. i \in 0..(CacheSize - 1)
    BY <1>3, <1>4, <1>6, SlotIn
  <1>8. NormalTo(N, ans) /\ CallersNormal(N, ws) /\ CacheNormal(N, cache)
    BY <1>4, <1>5, <1>7 DEF NormalInv, CacheNormal
  <1>9. QED
    BY <1>4, <1>5, <1>8, NormalApplies

LEMMA ReturnValueNormal ==
  ASSUME EvddInv, NormalInv, ReturnValue
  PROVE  NormalInv'
  <1>1. TableOK /\ GoodCache(evdd_applycache)
    BY DEF EvddInv, Good
  <1>2. PICK N, ans, ws, old, new, a, b, c, slot :
          /\ N = Normal /\ ans = answer' /\ ws = waiting' /\ old = evdd_applycache /\ new = evdd_applycache'
          /\ a = operands.a /\ b = operands.b /\ c = applying /\ slot = ApplyHash(a, b, c.op)
    OBVIOUS
  <1>3. /\ UNCHANGED <<table, edge, result, walk>> /\ ws = waiting
        /\ ans = Edge(0, Operator(applying.op, operands.a.w, operands.b.w))
        /\ new = [old EXCEPT ![slot] = Entry(c, a, b, ans)]
    BY <1>2 DEF ReturnValue, Stored, Slot_, Entry
  <1>4. ans.node = 0 /\ 0 \in N
    BY <1>1, <1>2, <1>3, TerminalNormal, RecordsNotEmpty DEF TerminalIsNormal
  <1>5. NormalTo(N, ans)
    BY <1>4 DEF NormalTo, Tied
  <1>6. CallersNormal(N, ws) /\ CacheNormal(N, old) /\ old = [i \in 0..(CacheSize - 1) |-> old[i]]
    BY <1>1, <1>2, <1>3 DEF NormalInv, GoodCache
  <1>7. CacheNormal(N, new)
    BY <1>3, <1>5, <1>6, CacheNormalStored
  <1>8. QED
    BY <1>2, <1>3, <1>5, <1>6, <1>7, NormalApplies

LEMMA CallLowNormal ==
  ASSUME EvddInv, NormalInv, CallLow
  PROVE  NormalInv'
  <1>1. applying # None
    BY DEF EvddInv, NotApplying, CallLow
  <1>2. PICK N, ans, ws, cache, old, new :
          /\ N = Normal /\ ans = answer' /\ ws = waiting' /\ cache = evdd_applycache' /\ old = waiting
          /\ new = [a |-> operands.a, b |-> operands.b, step |-> "low", low |-> NoEdge]
    OBVIOUS
  <1>3. /\ UNCHANGED <<table, edge, result, walk>>
        /\ ans = answer /\ ws = Append(old, new) /\ cache = evdd_applycache
    BY <1>2 DEF CallLow, vars
  <1>4. old \in Seq(Caller)
    BY <1>1, <1>2, WhileApplying DEF ApplyOK, Callers
  <1>5. (ans # NoEdge => NormalTo(N, ans)) /\ CallersNormal(N, old) /\ CacheNormal(N, cache)
    BY <1>2, <1>3 DEF NormalInv
  <1>6. \A i \in DOMAIN ws : ws[i] = new \/ (i \in DOMAIN old /\ ws[i] = old[i])
    BY <1>3, <1>4
  <1>7. new.step # "high"
    BY <1>2
  <1>8. CallersNormal(N, ws)
    BY <1>5, <1>6, <1>7 DEF CallersNormal
  <1>9. QED
    BY <1>2, <1>3, <1>5, <1>8, NormalApplies

LEMMA CallHighNormal ==
  ASSUME EvddInv, NormalInv, CallHigh
  PROVE  NormalInv'
  <1>1. answer # NoEdge /\ waiting # <<>>
    BY DEF CallHigh
  <1>2. applying # None
    BY <1>1 DEF EvddInv, NotApplying
  <1>3. PICK N, ans, ws, cache, old, f, new, k :
          /\ N = Normal /\ ans = answer' /\ ws = waiting' /\ cache = evdd_applycache' /\ old = waiting
          /\ k = Len(waiting) /\ f = Innermost /\ new = [f EXCEPT !.step = "high", !.low = answer]
    OBVIOUS
  <1>4. /\ UNCHANGED <<table, edge, result, walk>>
        /\ ans = NoEdge /\ ws = [old EXCEPT ![k] = new] /\ cache = evdd_applycache
    BY <1>3 DEF CallHigh, Innermost
  <1>5. old \in Seq(Caller) /\ k \in DOMAIN old /\ f = old[k] /\ f \in Caller
    <2>1. old \in Seq(Caller)
      BY <1>2, <1>3, WhileApplying DEF ApplyOK, Callers
    <2>2. QED
      BY <1>1, <1>3, <2>1 DEF Innermost
  <1>6. new.low = answer
    BY <1>3, <1>5 DEF Caller
  <1>7. NormalTo(N, answer) /\ CallersNormal(N, old) /\ CacheNormal(N, cache)
    BY <1>1, <1>3, <1>4 DEF NormalInv
  <1>8. \A i \in DOMAIN ws : i \in DOMAIN old /\ ws[i] = IF i = k THEN new ELSE old[i]
    BY <1>4, <1>5
  <1>9. CallersNormal(N, ws)
    BY <1>6, <1>7, <1>8 DEF CallersNormal
  <1>10. QED
    BY <1>3, <1>4, <1>7, <1>9, NormalApplies

LEMMA EndApplyNormal ==
  ASSUME EvddInv, NormalInv, EndApply
  PROVE  NormalInv'
  <1>1. answer # NoEdge /\ waiting = <<>>
    BY DEF EndApply
  <1>2. TableOK /\ result = None
    BY <1>1, WhileApplying DEF EvddInv, NotApplying
  <1>3. PICK N, edges, res, m, ret, fs, ans, ws, cache, e :
          /\ N = Normal /\ edges = edge /\ res = result' /\ m = memo /\ ret = returned /\ fs = frames
          /\ ans = NoEdge /\ ws = waiting /\ cache = evdd_applycache /\ e = answer
    OBVIOUS
  <1>4. /\ res = [to |-> applying.to, e |-> e] /\ edges = edge' /\ m = memo' /\ ret = returned'
        /\ fs = frames' /\ ans = answer' /\ ws = waiting' /\ cache = evdd_applycache'
        /\ UNCHANGED <<evddnodesize, node>>
    BY <1>3 DEF EndApply, walk, table
  <1>5. /\ TableTied /\ WalkNormal(N, m, ret, fs) /\ ClientNormal(N, edges, None)
        /\ CallersNormal(N, ws) /\ CacheNormal(N, cache) /\ NormalTo(N, e)
    BY <1>1, <1>2, <1>3 DEF NormalInv
  <1>6. HeldNormal(N, applying.to, e)
    BY <1>5 DEF HeldNormal, NormalTo
  <1>7. ClientNormal(N, edges, res)
    BY <1>4, <1>5, <1>6, ClientHolds
  <1>8. QED
    BY <1>2, <1>3, <1>4, <1>5, <1>7, NormalGoesOn

\* The steps that make or collect nodes.
LEMMA GbcNormal ==
  ASSUME EvddInv, NormalInv, applying = None, UNCHANGED apply, Gbc
  PROVE  NormalInv'
  <1>1. call = None /\ result = None
    BY DEF Gbc, Idle
  <1>2. /\ TableOK /\ GoodCache(evdd_applycache) /\ NotApplying
    BY <1>1, WhileIdle
  <1>3. PICK K, S, size : K = Marked({}) /\ S = {} /\ size = evddnodesize
    OBVIOUS
  <1>4. Rebuilds(K, size, S, Free)
    <2>1. evddnodesize \in evddnodesize..SlotBound
      BY <1>2, EvddAssumption DEF TableOK
    <2>2. Marked({}) \subseteq Live /\ Closed(Marked({}))
      BY <1>2, MarkedClosed
    <2>3. Rebuild(K, size, S, Free)
      BY <1>3 DEF Gbc
    <2>4. QED
      BY <1>3, <2>1, <2>2, <2>3 DEF Rebuilds
  <1>5. Stays(K) /\ NodesStay(K) /\ Live' = K
    BY <1>2, <1>3, <1>4, Rebuilt DEF Stays
  <1>6. PICK M, edges, res, m, ret, fs, ans, ws, cache :
          /\ M = Normal' /\ edges = edge /\ res = result /\ m = memo /\ ret = returned /\ fs = frames
          /\ ans = answer /\ ws = waiting /\ cache = evdd_operator_reset
    OBVIOUS
  <1>7. /\ edges = edge' /\ res = result' /\ m = memo' /\ ret = returned' /\ fs = frames'
        /\ ans = answer' /\ ws = waiting' /\ cache = evdd_applycache'
    BY <1>6 DEF Gbc, walk, apply
  <1>8. Normal \cap K \subseteq M
    BY <1>5, <1>6, NormalKept
  <1>9. /\ ClientNormal(M, edges, res) /\ WalkNormal(M, m, ret, fs) /\ CallersNormal(M, ws)
        /\ ans = NoEdge
    BY <1>1, <1>2, <1>3, <1>6, <1>8, KeptNormal DEF NotApplying
  <1>10. CacheNormal(M, cache)
    <2>1. cache = [i \in 0..(CacheSize - 1) |-> NoEntry]
      BY <1>2, <1>6 DEF GoodCache, evdd_operator_reset
    <2>2. QED
      BY <2>1 DEF CacheNormal
  <1>11. TableTied'
    <2>1. K \subseteq Live /\ \A n \in K : NodeTied(n) => NodeTied(n)'
      BY <1>5, NormalKept DEF NodesStay
    <2>2. QED
      BY <1>5, <2>1 DEF TableTied, NormalInv
  <1>12. QED
    BY <1>6, <1>7, <1>9, <1>10, <1>11, NormalNext

LEMMA MakeRawNormal ==
  ASSUME TableOK, TableTied, NEW level, NEW low, NEW high, Asked(level, low, high),
         Tied(low), Tied(high), NEW res, Made(level, low, high, res)',
         NEW K, NodesStay(K), low.node \in K, Live' \subseteq K \cup {res.node}
  PROVE  Tied(res) /\ TableTied'
  <1>1. K \subseteq Live /\ \A n \in K : NodeTied(n) => NodeTied(n)'
    BY NormalKept DEF NodesStay
  <1>2. CASE low = high /\ res = low
    BY <1>1, <1>2 DEF TableTied
  <1>3. CASE /\ low # high /\ res.w = 1 /\ res.node # 0
             /\ node'[res.node] = [level |-> level, low |-> low.node, wl |-> low.w,
                                   high |-> high.node, wh |-> high.w]
    <2>1. NodeTied(res.node)'
      BY <1>3 DEF NodeTied, Tied
    <2>2. Tied(res)
      BY <1>3, ModulusFacts DEF Tied
    <2>3. QED
      BY <2>1, <2>2, TiedAfter
  <1>4. QED
    BY <1>2, <1>3 DEF Made

LEMMA MakeNormal ==
  ASSUME EvddInv, NormalInv, applying = None, UNCHANGED apply, NEW c \in Calls, Make(c)
  PROVE  NormalInv'
  <1>1. /\ call = None /\ result = None
        /\ \A x \in {c.low, c.high} \ {One} : edge[x] # NoEdge /\ c.level < node[edge[x].node].level
    BY DEF Make, Idle
  <1>2. TableOK /\ ClientOK /\ GoodCache(evdd_applycache) /\ NotApplying
    BY <1>1, WhileIdle
  <1>3. /\ c.to \in Names /\ c.raw \in BOOLEAN /\ c.level \in 0..(Terminal - 1)
        /\ c.low \in Names \cup {One} /\ c.high \in Names \cup {One}
        /\ c.wl \in Weights /\ c.wh \in Weights
        /\ c.raw => c.wl # 0 \/ c.wh # 0
    BY CallAssumption, WeightAssumption DEF Weights
  <1>4. /\ (c.wl = 0 => c.low = One) /\ (c.wh = 0 => c.high = One)
        /\ c.raw => c.to \notin NormalNames
        /\ ~c.raw => {c.low, c.high} \subseteq NormalNames \cup {One}
    BY NormalAssumption
  <1>5. PICK n \in 0..(SlotBound - 1), w \in Weights :
          LET low == Argument(c.low, c.wl)
              high == Argument(c.high, c.wh)
              res == Edge(n, w)
          IN  /\ IF c.raw THEN evdd_makenode_raw(c.level, low, high, {}, res, evdd_applycache')
                          ELSE evdd_makenode(c.level, low, high, res, evdd_applycache')
              /\ result' = [to |-> c.to, e |-> res]
    BY DEF Make
  <1>6. PICK k, low, high, e, cache, M :
          /\ k = c.level /\ low = Argument(c.low, c.wl) /\ high = Argument(c.high, c.wh)
          /\ e = Edge(n, w) /\ cache = evdd_applycache' /\ M = Normal'
    OBVIOUS
  <1>7. /\ low \in EdgeTo(Live) /\ low.node \in Reach /\ low.w = c.wl /\ k < LevelOf(low.node)
        /\ high \in EdgeTo(Live) /\ high.node \in Reach /\ high.w = c.wh /\ k < LevelOf(high.node)
    BY <1>1, <1>2, <1>3, <1>6, ArgumentRight
  <1>8. Asked(k, low, high) /\ e = Edge(e.node, e.w)
    BY <1>3, <1>6, <1>7, RecordsNotEmpty DEF Asked
  <1>9. /\ low.node = (IF c.low = One THEN 0 ELSE edge[c.low].node)
        /\ high.node = (IF c.high = One THEN 0 ELSE edge[c.high].node)
    BY <1>6, RecordsNotEmpty DEF Argument
  <1>10. Tied(low) /\ Tied(high)
    BY <1>4, <1>7, <1>9 DEF Tied
  <1>11. /\ Tied(e) /\ TableTied' /\ (~c.raw => NormalTo(M, e))
         /\ \E K : Keeps(K, low, high, e, cache)
    <2>1. CASE c.raw
      <3>1. low.node \in Marked({}) /\ high.node \in Marked({})
        BY <1>2, <1>7, ReachProtected
      <3>2. PICK p : p = {}
        OBVIOUS
      <3>3. evdd_makenode_raw(k, low, high, p, e, cache) /\ (low.w # 0 \/ high.w # 0)
        BY <1>3, <1>5, <1>6, <1>7, <2>1, <3>2
      <3>4. Made(k, low, high, e)' /\ \E K : Keeps(K, low, high, e, cache)
        BY <1>2, <1>8, <3>1, <3>2, <3>3, RawMade
      <3>5. PICK K : Keeps(K, low, high, e, cache)
        BY <3>4
      <3>6. NodesStay(K) /\ low.node \in K /\ Live' \subseteq K \cup {e.node}
        BY <3>5 DEF Keeps, Stays
      <3>7. TableTied
        BY DEF NormalInv
      <3>8. Tied(e) /\ TableTied'
        BY <1>2, <1>8, <1>10, <3>4, <3>6, <3>7, MakeRawNormal
      <3>9. QED
        BY <2>1, <3>4, <3>8
    <2>2. CASE ~c.raw
      <3>1. evdd_makenode(k, low, high, e, cache)
        BY <1>3, <1>5, <1>6, <2>2
      <3>2. low.node \in Normal /\ high.node \in Normal
        <4>1. \A x \in Names : edge[x] # NoEdge /\ x \in NormalNames => edge[x].node \in Normal
          BY DEF NormalInv, ClientNormal, HeldNormal, NormalTo
        <4>2. 0 \in Normal
          BY <1>2, TerminalNormal DEF TerminalIsNormal
        <4>3. QED
          BY <1>1, <1>3, <1>4, <1>9, <2>2, <4>1, <4>2
      <3>3. NormalTo(Normal, low) /\ NormalTo(Normal, high) /\ TableTied
        BY <1>10, <3>2 DEF NormalTo, NormalInv
      <3>4. TableTied' /\ NormalTo(Normal, e)' /\ \E K : Keeps(K, low, high, e, cache)
        BY <1>2, <1>8, <3>1, <3>3, NormalBuilt
      <3>5. QED
        BY <1>6, <3>4 DEF NormalTo, Tied
    <2>3. QED
      BY <1>3, <2>1, <2>2
  <1>12. PICK K : Keeps(K, low, high, e, cache)
    BY <1>11
  <1>13. NodesStay(K) /\ Marked({}) \subseteq K
    BY <1>12 DEF Keeps, Stays
  <1>14. Normal \cap K \subseteq M
    BY <1>6, <1>13, NormalKept
  <1>15. PICK edges, res, m, ret, fs, ans, ws :
           /\ edges = edge /\ res = result' /\ m = memo /\ ret = returned /\ fs = frames
           /\ ans = answer /\ ws = waiting
    OBVIOUS
  <1>16. /\ edges = edge' /\ m = memo' /\ ret = returned' /\ fs = frames'
         /\ ans = answer' /\ ws = waiting' /\ res = [to |-> c.to, e |-> e]
    BY <1>5, <1>6, <1>15 DEF Make, walk, apply
  <1>17. /\ ClientNormal(M, edges, None) /\ WalkNormal(M, m, ret, fs) /\ CallersNormal(M, ws)
         /\ ans = NoEdge
    BY <1>2, <1>13, <1>14, <1>15, KeptNormal DEF NotApplying
  <1>18. ClientNormal(M, edges, res)
    <2>1. HeldNormal(M, c.to, e)
      BY <1>4, <1>11 DEF HeldNormal
    <2>2. QED
      BY <1>16, <1>17, <2>1, ClientHolds
  <1>19. CacheNormal(M, cache)
    <2>1. CacheNormal(Normal, evdd_applycache)
      BY DEF NormalInv
    <2>2. QED
      BY <1>2, <1>12, <1>14, <2>1, CacheNormalAfter
  <1>20. QED
    BY <1>6, <1>11, <1>15, <1>16, <1>17, <1>18, <1>19, NormalNext

LEMMA MakeNormalizedNormal ==
  ASSUME EvddInv, NormalInv, UNCHANGED apply, MakeNormalized
  PROVE  NormalInv'
  <1>1. frames # <<>> /\ Top.step = "make"
    BY DEF MakeNormalized
  <1>2. call # None
    BY <1>1 DEF EvddInv, NotWalking
  <1>3. TableOK /\ ClientOK /\ GoodCache(evdd_applycache) /\ Walking /\ NotApplying
    BY <1>2, WhileWalking
  <1>4. PICK n \in 0..(SlotBound - 1), w \in Weights :
          /\ evdd_makenode(node[Top.node].level, Top.low, Top.high, Edge(n, w), evdd_applycache')
          /\ returned' = Edge(n, w)
          /\ memo' = [memo EXCEPT ![Top.node] = Edge(n, w)]
    BY DEF MakeNormalized
  <1>5. PICK e, f, cache, k, old, fs, m, new, M :
          /\ e = Edge(n, w) /\ f = Top /\ cache = evdd_applycache' /\ k = LevelOf(f.node)
          /\ old = frames /\ fs = SubSeq(frames, 1, Len(frames) - 1) /\ m = memo
          /\ new = [memo EXCEPT ![Top.node] = Edge(n, w)] /\ M = Normal'
    OBVIOUS
  <1>6. e = Edge(e.node, e.w)
    BY <1>5, RecordsNotEmpty
  <1>7. old \in Seq(Frame) /\ old # <<>> /\ Len(old) \in DOMAIN old /\ f = old[Len(old)] /\ FrameOK(f)
    BY <1>1, <1>3, <1>5 DEF Walking, WalkOK, Chain, Top
  <1>8. f \in Frame /\ f.step = "make"
    BY <1>1, <1>5, <1>7
  <1>9. Asked(k, f.low, f.high)
    BY <1>3, <1>5, <1>7, <1>8, FrameAsks
  <1>10. evdd_makenode(k, f.low, f.high, e, cache)
    BY <1>4, <1>5 DEF LevelOf
  <1>11. /\ TableTied /\ WalkNormal(Normal, m, returned, old) /\ CacheNormal(Normal, evdd_applycache)
         /\ NormalTo(Normal, f.low) /\ NormalTo(Normal, f.high)
    <2>1. TableTied /\ WalkNormal(Normal, m, returned, old) /\ CacheNormal(Normal, evdd_applycache)
      BY <1>5 DEF NormalInv
    <2>2. FrameNormal(Normal, f)
      BY <1>7, <2>1 DEF WalkNormal
    <2>3. QED
      BY <1>8, <2>1, <2>2 DEF FrameNormal
  <1>12. /\ TableTied' /\ NormalTo(M, e)
         /\ \E K : Keeps(K, f.low, f.high, e, cache) /\ Normal \cap K \subseteq M
    <2>1. /\ TableTied' /\ NormalTo(Normal, e)'
          /\ \E K : Keeps(K, f.low, f.high, e, cache) /\ Normal \cap K \subseteq Normal'
      BY <1>3, <1>6, <1>9, <1>10, <1>11, NormalBuilt
    <2>2. QED
      BY <1>5, <2>1 DEF NormalTo, Tied
  <1>13. PICK K : Keeps(K, f.low, f.high, e, cache) /\ Normal \cap K \subseteq M
    BY <1>12
  <1>14. Marked({}) \subseteq K
    BY <1>13 DEF Keeps, Stays
  <1>15. /\ ClientNormal(M, edge, None) /\ WalkNormal(M, memo, returned, frames)
         /\ CallersNormal(M, waiting)
    BY <1>13, <1>14, KeptNormal
  <1>16. CacheNormal(M, cache)
    BY <1>3, <1>11, <1>13, CacheNormalAfter
  <1>17. WalkNormal(M, new, e, fs)
    <2>1. \A i \in DOMAIN fs : i \in DOMAIN old /\ fs[i] = old[i]
      BY <1>5, <1>7
    <2>2. \A i \in DOMAIN new : i \in DOMAIN m /\ (new[i] = e \/ new[i] = m[i])
      BY <1>5
    <2>3. WalkNormal(M, m, returned, old)
      BY <1>5, <1>15
    <2>4. QED
      BY <1>12, <2>1, <2>2, <2>3 DEF WalkNormal
  <1>18. PICK edges, res, ans, ws : edges = edge /\ res = None /\ ans = answer /\ ws = waiting
    OBVIOUS
  <1>19. /\ edges = edge' /\ res = result' /\ new = memo' /\ e = returned' /\ fs = frames'
         /\ ans = answer' /\ ws = waiting' /\ ans = NoEdge
    BY <1>3, <1>4, <1>5, <1>18 DEF MakeNormalized, apply, Walking, NotApplying
  <1>20. /\ ClientNormal(M, edges, res) /\ CallersNormal(M, ws)
    BY <1>15, <1>18
  <1>21. QED
    BY <1>5, <1>12, <1>16, <1>17, <1>19, <1>20, NormalNext

LEMMA MakeAppliedNormal ==
  ASSUME EvddInv, NormalInv, MakeApplied
  PROVE  NormalInv'
  <1>1. answer # NoEdge /\ waiting # <<>> /\ Innermost.step = "high"
    BY DEF MakeApplied
  <1>2. applying # None
    BY <1>1 DEF EvddInv, NotApplying
  <1>3. /\ TableOK /\ ClientOK /\ GoodCache(evdd_applycache) /\ result = None
        /\ ApplyOK(waiting, evddrefstack, operands, answer)
    BY <1>2, WhileApplying
  <1>4. PICK n \in 0..(SlotBound - 1), w \in Weights, cache \in {evdd_applycache, evdd_operator_reset} :
          /\ evdd_makenode(TopLevel(Innermost.a, Innermost.b), Innermost.low, answer, Edge(n, w), cache)
          /\ answer' = Edge(n, w)
          /\ evdd_applycache' = Stored(cache, Innermost.a, Innermost.b, Edge(n, w))
    BY DEF MakeApplied
  <1>5. PICK f, a, b, k, c, op, e, high, old, fs, new, slot, M :
          /\ f = Innermost /\ a = f.a /\ b = f.b /\ k = TopLevel(f.a, f.b) /\ c = applying /\ op = c.op
          /\ e = Edge(n, w) /\ high = answer /\ old = waiting /\ fs = SubSeq(old, 1, Len(old) - 1)
          /\ new = evdd_applycache' /\ slot = ApplyHash(a, b, c.op) /\ M = Normal'
    OBVIOUS
  <1>6. e = Edge(e.node, e.w) /\ e # NoEdge
    BY <1>5, RecordsNotEmpty
  <1>7. /\ Callers(old)
        /\ high \in Results(op, AskedOperands(old).a, AskedOperands(old).b, Live)
    BY <1>1, <1>3, <1>5 DEF ApplyOK
  <1>8. old \in Seq(Caller) /\ old # <<>> /\ Len(old) \in DOMAIN old /\ f = old[Len(old)]
    BY <1>1, <1>5, <1>7 DEF Callers, Innermost
  <1>9. f \in Caller /\ CallerOK(f) /\ f.step = "high"
    BY <1>1, <1>5, <1>7, <1>8 DEF Callers
  <1>10. /\ TopLevel(f.a, f.b) < Terminal
         /\ f.low \in Results(op, LowOperands(f.a, f.b).a, LowOperands(f.a, f.b).b, Live)
    BY <1>5, <1>9 DEF CallerOK
  <1>11. high \in Results(op, HighOperands(f.a, f.b).a, HighOperands(f.a, f.b).b, Live)
    BY <1>7, <1>8, <1>9 DEF AskedOperands, NextOperands
  <1>12. Asked(k, f.low, high)
    BY <1>3, <1>5, <1>9, <1>10, <1>11, CallerAsks
  <1>13. evdd_makenode(k, f.low, high, e, cache)
    BY <1>4, <1>5
  <1>14. /\ TableTied /\ CacheNormal(Normal, evdd_applycache)
         /\ NormalTo(Normal, f.low) /\ NormalTo(Normal, high)
    BY <1>1, <1>5, <1>8, <1>9 DEF NormalInv, CallersNormal
  <1>15. /\ TableTied' /\ NormalTo(M, e)
         /\ \E K : Keeps(K, f.low, high, e, cache) /\ Normal \cap K \subseteq M
    <2>1. /\ TableTied' /\ NormalTo(Normal, e)'
          /\ \E K : Keeps(K, f.low, high, e, cache) /\ Normal \cap K \subseteq Normal'
      BY <1>3, <1>6, <1>12, <1>13, <1>14, NormalBuilt
    <2>2. QED
      BY <1>5, <2>1 DEF NormalTo, Tied
  <1>16. PICK K : Keeps(K, f.low, high, e, cache) /\ Normal \cap K \subseteq M
    BY <1>15
  <1>17. Marked({}) \subseteq K
    BY <1>16 DEF Keeps, Stays
  <1>18. /\ ClientNormal(M, edge, None) /\ WalkNormal(M, memo, returned, frames)
         /\ CallersNormal(M, old)
    <2>1. /\ ClientNormal(M, edge, None) /\ WalkNormal(M, memo, returned, frames)
          /\ CallersNormal(M, waiting)
      BY <1>16, <1>17, KeptNormal
    <2>2. QED
      BY <1>5, <2>1
  <1>19. CacheNormal(M, new)
    <2>1. CacheNormal(M, cache) /\ cache = [i \in 0..(CacheSize - 1) |-> cache[i]]
      BY <1>3, <1>14, <1>16, CacheNormalAfter
    <2>2. new = [cache EXCEPT ![slot] = Entry(c, a, b, e)]
      BY <1>4, <1>5 DEF Stored, Slot_, Entry
    <2>3. QED
      BY <1>15, <2>1, <2>2, CacheNormalStored
  <1>20. CallersNormal(M, fs)
    <2>1. \A i \in DOMAIN fs : i \in DOMAIN old /\ fs[i] = old[i]
      BY <1>5, <1>8
    <2>2. QED
      BY <1>18, <2>1 DEF CallersNormal
  <1>21. PICK edges, res, m, ret, gs :
           edges = edge /\ res = None /\ m = memo /\ ret = returned /\ gs = frames
    OBVIOUS
  <1>22. /\ edges = edge' /\ res = result' /\ m = memo' /\ ret = returned' /\ gs = frames'
         /\ e = answer' /\ fs = waiting' /\ new = evdd_applycache'
    BY <1>3, <1>4, <1>5, <1>21 DEF MakeApplied, walk
  <1>23. ClientNormal(M, edges, res) /\ WalkNormal(M, m, ret, gs)
    BY <1>18, <1>21
  <1>24. QED
    BY <1>5, <1>15, <1>19, <1>20, <1>22, <1>23, NormalNext

LEMMA StutterNormal ==
  ASSUME EvddInv, NormalInv, UNCHANGED applyvars
  PROVE  NormalInv'
  <1>1. PICK N, edges, res : N = Normal /\ edges = edge' /\ res = result'
    OBVIOUS
  <1>2. /\ UNCHANGED <<evddnodesize, node, evdd_applycache, walk, apply>>
        /\ edges = edge /\ res = result
    BY <1>1 DEF applyvars, vars, table
  <1>3. ClientNormal(N, edges, res)
    BY <1>1, <1>2 DEF NormalInv
  <1>4. QED
    BY <1>1, <1>2, <1>3, NormalClient

LEMMA NormalStep ==
  ASSUME EvddInv, NormalInv, [NextApply]_applyvars
  PROVE  NormalInv'
  <1>1. CASE applying = None /\ Next /\ UNCHANGED apply
    <2>1. CASE \E c \in Calls : Make(c)
      BY <1>1, <2>1, MakeNormal
    <2>2. CASE AddRef
      BY <1>1, <2>2, AddRefNormal
    <2>3. CASE \E x \in Names : DelRef(x)
      BY <1>1, <2>3, DelRefNormal
    <2>4. CASE Gbc
      BY <1>1, <2>4, GbcNormal
    <2>5. CASE \E c \in Normalizes : Normalize(c)
      BY <1>1, <2>5, NormalizeNormal
    <2>6. CASE Recall
      BY <1>1, <2>6, RecallNormal
    <2>7. CASE Enter
      BY <1>1, <2>7, EnterNormal
    <2>8. CASE Descend
      BY <1>1, <2>8, DescendNormal
    <2>9. CASE TakeChild
      BY <1>1, <2>9, TakeChildNormal
    <2>10. CASE MakeNormalized
      BY <1>1, <2>10, MakeNormalizedNormal
    <2>11. CASE Finish
      BY <1>1, <2>11, FinishNormal
    <2>12. QED
      BY <1>1, <2>1, <2>2, <2>3, <2>4, <2>5, <2>6, <2>7, <2>8, <2>9, <2>10, <2>11 DEF Next
  <1>2. CASE \E c \in Applies : applying = None /\ StartApply(c)
    BY <1>2, StartApplyNormal
  <1>3. CASE ReturnCached
    BY <1>3, ReturnCachedNormal
  <1>4. CASE ReturnValue
    BY <1>4, ReturnValueNormal
  <1>5. CASE CallLow
    BY <1>5, CallLowNormal
  <1>6. CASE CallHigh
    BY <1>6, CallHighNormal
  <1>7. CASE MakeApplied
    BY <1>7, MakeAppliedNormal
  <1>8. CASE EndApply
    BY <1>8, EndApplyNormal
  <1>9. CASE UNCHANGED applyvars
    BY <1>9, StutterNormal
  <1>10. QED
    BY <1>1, <1>2, <1>3, <1>4, <1>5, <1>6, <1>7, <1>8, <1>9 DEF NextApply

LEMMA NormalInit == InitApply => NormalInv
  <1> SUFFICES ASSUME InitApply PROVE NormalInv
    OBVIOUS
  <1>1. /\ edge = [x \in Names |-> NoEdge] /\ result = None /\ memo = <<>> /\ returned = NoEdge
        /\ frames = <<>> /\ answer = NoEdge /\ waiting = <<>>
        /\ evdd_applycache = [i \in 0..(CacheSize - 1) |-> NoEntry]
    BY DEF InitApply, Init
  <1>2. ClientNormal(Normal, edge, result) /\ CacheNormal(Normal, evdd_applycache)
    BY <1>1 DEF ClientNormal, CacheNormal
  <1>3. WalkNormal(Normal, memo, returned, frames) /\ CallersNormal(Normal, waiting)
    BY <1>1 DEF WalkNormal, CallersNormal
  <1>4. TableTied
    <2>1. \A n \in Slot \ {0} : node[n] = Free
      BY DEF InitApply, Init, Slot
    <2>2. QED
      BY <2>1 DEF TableTied, Live
  <1>5. QED
    BY <1>1, <1>2, <1>3, <1>4 DEF NormalInv

LEMMA InvCanonical == EvddInv /\ NormalInv => Canonical
  <1> SUFFICES ASSUME EvddInv, NormalInv, NEW x \in NormalNames, NEW y \in NormalNames,
                      edge[x] # NoEdge, edge[y] # NoEdge, Meaning(edge[x]) = Meaning(edge[y])
               PROVE  edge[x] = edge[y]
    BY DEF Canonical
  <1>1. TableOK /\ ClientOK
    BY DEF EvddInv, Good
  <1>2. NormalNames \subseteq Names
    BY CallAssumption, ApplyAssumption DEF NormalNames
  <1>3. /\ edge[x] \in EdgeTo(Live) /\ edge[y] \in EdgeTo(Live)
        /\ NormalTo(Normal, edge[x]) /\ NormalTo(Normal, edge[y])
    BY <1>1, <1>2, HeldEdges DEF NormalInv, ClientNormal, HeldNormal
  <1>4. Twins(edge[x], edge[y])
    BY <1>3 DEF Twins
  <1>5. QED
    BY <1>1, <1>4, OneEdge

\* Equal functions have one edge, once evdd_normalize, evdd_apply or
\* evdd_makenode made it: whatever weights the client gave, whichever nodes
\* were collected or made again in the middle, and whatever the cache
\* returned.
THEOREM EvddCanonical == SpecApply => []Canonical
  <1>1. EvddInv /\ NormalInv /\ [NextApply]_applyvars => NormalInv'
    BY NormalStep
  <1>2. SpecApply => []NormalInv
    BY <1>1, EvddInvariance, NormalInit, PTL DEF SpecApply
  <1>3. QED
    BY <1>2, EvddInvariance, InvCanonical, PTL

=============================================================================
