---------------------------- MODULE MtbddProofs ----------------------------
(***************************************************************************)
(* What holds of multi-terminal diagrams and of the recursions over them,  *)
(* for every number of variables, size of the table, of the table of       *)
(* values and of the caches, for all hashes and all callbacks: each index  *)
(* of a value has one owner, equal functions have one node, and what an    *)
(* operation returns is the function asked for.  All of it ends with the   *)
(* first error, after which the client does not go on.                     *)
(***************************************************************************)
EXTENDS MtbddMC, CallStack

----------------------------------------------------------------------------
\* The inductive invariant.

Node == [level : Nat, low : Nat, high : Nat]

\* The constants and the variables, which stay where bdd_init made them.
FirstNode(n) ==
  IF n < 2 THEN [level |-> VarNum, low |-> n, high |-> n]
  ELSE [level |-> (n - 2) \div 2, low |-> n % 2, high |-> 1 - (n % 2)]

InnerOK(n) ==
  /\ LEVEL(n) < VarNum
  /\ LOW(n) \in Live /\ HIGH(n) \in Live /\ LOW(n) # HIGH(n)
  /\ LEVEL(n) < LEVEL(LOW(n)) /\ LEVEL(n) < LEVEL(HIGH(n))

TableOK ==
  /\ node \in [Slot -> Node \cup {Free}] /\ refcou \in [Slot -> 0..MaxRef]
  /\ \A n \in 0..(2 * VarNum + 1) : node[n] = FirstNode(n) /\ refcou[n] = MaxRef
  /\ \A n \in Live \ {0, 1} : ISTERMINAL(n) \/ InnerOK(n)
  /\ \A m, n \in Live \ {0, 1} : ~ISTERMINAL(m) /\ node[m] = node[n] => m = n

\* A table of values in which the terminals have the indices in owned.
ValuesGood(vals, owned) ==
  /\ vals = [at |-> vals.at, used |-> vals.used, last |-> vals.last, top |-> vals.top]
  /\ Capacity(vals) \in Nat /\ DOMAIN vals.at = 0..(Capacity(vals) - 1)
  /\ vals.at = [i \in DOMAIN vals.at |-> vals.at[i]]
  /\ vals.last \in Nat /\ vals.last <= Capacity(vals)
  /\ vals.top \in Seq(Nat)
  /\ \A i, j \in DOMAIN vals.top : vals.top[i] = vals.top[j] => i = j
  /\ \A i \in DOMAIN vals.top : vals.top[i] \notin owned
  /\ \A i \in 0..(vals.last - 1) : i \in owned \/ \E j \in DOMAIN vals.top : vals.top[j] = i
  /\ \A i \in DOMAIN vals.top : vals.top[i] < vals.last
  /\ owned \subseteq 0..(vals.last - 1)
  /\ vals.used = Cardinality(owned)

Indices(S) == {HIGH(n) : n \in S}

ValuesOK ==
  /\ ValuesGood(values, Indices(LiveTerminals))
  /\ \A m, n \in LiveTerminals : values.at[HIGH(m)] = values.at[HIGH(n)] => m = n

\* What the client holds is counted.
ClientOK ==
  /\ edge \in [Names -> Live \cup {NoNode}]
  /\ \A n \in Slot : refcou[n] = MaxRef \/ Cardinality({x \in Names : edge[x] = n}) <= refcou[n]
  /\ result # None => result \in [to : Names, node : Live] /\ edge[result.to] = NoNode
  /\ bddrefstack \in Seq(Live)

\* The nodes that no collection takes while the counts stay: all that hang
\* on a counted one.
Counted == {n \in Live : refcou[n] > 0}
Reach == {n \in Live : \A S \in SUBSET Live : Counted \subseteq S /\ Closed(S) => n \in S}

\* Operands of the calls of an operation: the condition of mtbdd_ite is the
\* node of a variable, or a constant.
Operands(op, nodes) ==
  {args \in Seq(nodes) :
     /\ op = "ite" => Len(args) = 3 /\ args[1] \in 0..(2 * VarNum + 1)
     /\ op # "ite" => Len(args) \in {1, 2}}

\* What a call on args may return.
OperationMeaning(op, args) ==
  [s \in Assignments |->
     OperationValue(op, [i \in DOMAIN args |-> Meaning(args[i])[s]])]
Results(op, args) ==
  {n \in Live :
     /\ TopLevel(args) <= LEVEL(n) \/ VarNum <= LEVEL(n)
     /\ OnTop(op, args) => Meaning(n) = OperationMeaning(op, args)}

\* The calls that wait: each has been asked by the one before it, and only
\* the innermost one is about to make its node.
Frame == [args : Operands(call.op, Reach), step : {"low", "high", "make"}]
NextArgs(frame) == Cofactors(frame.args, frame.step # "low")
AskedBy(fs) == IF fs = <<>> THEN call.args ELSE NextArgs(fs[Len(fs)])
Chain(fs) ==
  /\ fs \in Seq(Frame)
  /\ \A i \in DOMAIN fs :
       /\ TopLevel(fs[i].args) < VarNum /\ Immediate(call.op, fs[i].args) = {}
       /\ fs[i].args = IF i = 1 THEN call.args ELSE NextArgs(fs[i - 1])
  /\ \A i \in 1..(Len(fs) - 1) : fs[i].step # "make"

\* What they may wait with.
LowResults(fs) == [i \in DOMAIN fs |-> Results(call.op, Cofactors(fs[i].args, FALSE))]
HighResults(fs) == [i \in DOMAIN fs |-> Results(call.op, Cofactors(fs[i].args, TRUE))]
Waiting(fs, refs) == Waits(fs, refs, LowResults(fs), HighResults(fs))

Running ==
  /\ result = None /\ edge[call.to] = NoNode
  /\ \E o \in Operations : call.op = o.op /\ call.to = o.to
  /\ call.args \in Operands(call.op, Reach)
  /\ Chain(frames) /\ Waiting(frames, bddrefstack)
  /\ calling # None => calling = AskedBy(frames) /\ returned = NoNode /\ ~AtMake(frames)
  /\ returned # NoNode => returned \in Results(call.op, AskedBy(frames)) /\ ~AtMake(frames)

Resting ==
  calling = None /\ frames = <<>> /\ returned = NoNode /\ bddrefstack = <<>>

\* A cache whose entries are right.
GoodCache(cache, c) ==
  /\ Cardinality(DOMAIN cache) \in Nat \ {0}
  /\ DOMAIN cache = 0..(Cardinality(DOMAIN cache) - 1)
  /\ \A i \in DOMAIN cache :
       cache[i] # NoEntry =>
         \E o \in Operations : \E args \in Operands(o.op, Live) :
           /\ CacheOf(o.op) = c /\ cache[i].key = Key(o.op, args)
           /\ cache[i].res \in Results(o.op, args)

GoodCaches(cs) ==
  /\ DOMAIN cs = {"apply", "ite"} /\ cs = [c \in {"apply", "ite"} |-> cs[c]]
  /\ \A c \in {"apply", "ite"} : GoodCache(cs[c], c)

CachesOK == GoodCaches(caches)

Good == TableOK /\ ValuesOK /\ ClientOK /\ CachesOK

MtbddInv ==
  ~bdderrorcond => Good /\ (call = None => Resting) /\ (call # None => Running)

----------------------------------------------------------------------------
\* The table.

Facts ==
  /\ Live \subseteq Nat /\ Live \subseteq Slot /\ NoNode \notin Live
  /\ 0..(2 * VarNum + 1) \subseteq Live /\ 0 \in Live /\ 1 \in Live
  /\ LEVEL(0) = VarNum /\ LEVEL(1) = VarNum
  /\ \A n \in Live : node[n] \in Node /\ LEVEL(n) \in Nat /\ LOW(n) \in Nat /\ HIGH(n) \in Nat
  /\ \A n \in Live : Leaf(n) => VarNum <= LEVEL(n) /\ Children(n) = {}
  /\ \A n \in Live : ~Leaf(n) =>
       /\ n \in Live \ {0, 1} /\ n >= 2 /\ ~ISTERMINAL(n) /\ InnerOK(n)
       /\ Children(n) = {LOW(n), HIGH(n)}
  /\ \A n \in 0..(2 * VarNum + 1) : ~ISTERMINAL(n)
  /\ Closed(Live)

LEMMA TableFacts == TableOK => Facts
  <1> USE MtbddAssumption
  <1> SUFFICES ASSUME TableOK PROVE Facts
    OBVIOUS
  <1>1. /\ VarNum \in Nat \ {0} /\ MAXLEVEL \in Nat /\ VarNum < MAXLEVEL /\ InitSize \in Nat
        /\ 2 * VarNum + 2 < InitSize
    OBVIOUS
  <1>2. Live \subseteq Slot /\ Slot \subseteq Nat /\ NoNode \notin Slot
    BY <1>1 DEF Live, Slot, NoNode
  <1>3. \A n \in Live : node[n] \in Node
    BY DEF TableOK, Live
  <1>4. \A n \in Live : LEVEL(n) \in Nat /\ LOW(n) \in Nat /\ HIGH(n) \in Nat
    BY <1>3 DEF Node, LEVEL, LOW, HIGH
  <1>5. ASSUME NEW n \in 0..(2 * VarNum + 1) PROVE n \in Live /\ LEVEL(n) <= VarNum /\ LEVEL(n) \in Nat
    <2>1. node[n] = FirstNode(n) /\ n \in Slot
      BY <1>1 DEF TableOK, Slot
    <2>2. FirstNode(n).level \in Nat /\ FirstNode(n).level <= VarNum
      <3>1. CASE n < 2
        BY <1>1, <3>1 DEF FirstNode
      <3>2. CASE ~(n < 2)
        <4>1. FirstNode(n).level = (n - 2) \div 2
          BY <3>2 DEF FirstNode
        <4>2. (n - 2) \div 2 \in Nat /\ (n - 2) \div 2 <= VarNum
          BY <1>1, <3>2
        <4>3. QED
          BY <4>1, <4>2
      <3>3. QED
        BY <3>1, <3>2
    <2>3. FirstNode(n) # Free
      <3>1. "level" \in DOMAIN FirstNode(n)
        BY DEF FirstNode
      <3>2. DOMAIN Free = {}
        BY DEF Free
      <3>3. QED
        BY <3>1, <3>2
    <2>4. QED
      BY <2>1, <2>2, <2>3 DEF Live, LEVEL
  <1>6. LEVEL(0) = VarNum /\ LEVEL(1) = VarNum
    <2>1. 0 \in 0..(2 * VarNum + 1) /\ 1 \in 0..(2 * VarNum + 1)
      BY <1>1
    <2>2. node[0] = FirstNode(0) /\ node[1] = FirstNode(1)
      BY <2>1 DEF TableOK
    <2>3. FirstNode(0).level = VarNum /\ FirstNode(1).level = VarNum
      BY DEF FirstNode
    <2>4. QED
      BY <2>2, <2>3 DEF LEVEL
  <1>7. 0 \in Live /\ 1 \in Live
    BY <1>1, <1>5
  <1>8. ASSUME NEW n \in Live, Leaf(n) PROVE VarNum <= LEVEL(n) /\ Children(n) = {}
    <2>1. CASE ISCONST(n)
      <3>1. n = 0 \/ n = 1
        BY <1>2, <2>1 DEF ISCONST
      <3>2. QED
        BY <1>1, <1>6, <2>1, <3>1 DEF Children
    <2>2. CASE ISTERMINAL(n)
      BY <1>1, <2>2 DEF ISTERMINAL, Children
    <2>3. QED
      BY <1>8, <2>1, <2>2 DEF Leaf
  <1>9. ASSUME NEW n \in Live, ~Leaf(n)
        PROVE  /\ n \in Live \ {0, 1} /\ n >= 2 /\ ~ISTERMINAL(n) /\ InnerOK(n)
               /\ Children(n) = {LOW(n), HIGH(n)}
    <2>1. ~ISCONST(n) /\ ~ISTERMINAL(n)
      BY <1>9 DEF Leaf
    <2>2. n >= 2 /\ n \in Live \ {0, 1}
      BY <1>2, <2>1 DEF ISCONST
    <2>3. QED
      BY <2>1, <2>2 DEF TableOK, Children
  <1>10. Closed(Live)
    BY <1>8, <1>9 DEF Closed, InnerOK
  <1>11. \A n \in 0..(2 * VarNum + 1) : ~ISTERMINAL(n)
    BY <1>1, <1>5 DEF ISTERMINAL
  <1>12. QED
    BY <1>2, <1>3, <1>4, <1>5, <1>6, <1>7, <1>8, <1>9, <1>10, <1>11 DEF Facts

\* An inner node and its children.
LEMMA InnerNode ==
  ASSUME TableOK, NEW n \in Live, ~Leaf(n)
  PROVE  /\ LEVEL(n) \in 0..(VarNum - 1) /\ n \in Live \ {0, 1} /\ ~ISTERMINAL(n)
         /\ LOW(n) \in Live /\ HIGH(n) \in Live /\ LOW(n) # HIGH(n)
         /\ LEVEL(n) < LEVEL(LOW(n)) /\ LEVEL(n) < LEVEL(HIGH(n))
         /\ Children(n) = {LOW(n), HIGH(n)}
  <1>1. Facts
    BY TableFacts
  <1>2. InnerOK(n) /\ LEVEL(n) \in Nat
    BY <1>1 DEF Facts
  <1>3. QED
    BY <1>1, <1>2, MtbddAssumption DEF Facts, InnerOK

\* What holds of a node whenever it holds of its children holds of all nodes
\* of a closed set.
LEMMA LevelInduction ==
  ASSUME TableOK, NEW S \in SUBSET Live, Closed(S), NEW P,
         \A n \in S : Children(n) \subseteq P => n \in P
  PROVE  S \subseteq P
  <1> DEFINE D(n) == IF Leaf(n) THEN 0 ELSE VarNum - LEVEL(n)
             T == {D(n) : n \in S \ P}
  <1> USE MtbddAssumption
  <1>1. Facts
    BY TableFacts
  <1>2. ASSUME NEW n \in S PROVE D(n) \in Nat
    <2>1. n \in Live
      OBVIOUS
    <2>2. QED
      BY <2>1, InnerNode
  <1>3. SUFFICES ASSUME S \ P # {} PROVE FALSE
    OBVIOUS
  <1>4. T \in SUBSET Nat /\ T # {}
    BY <1>2, <1>3
  <1> HIDE DEF T
  <1>5. PICK x \in T : \A y \in T : x <= y
    BY <1>4, LeastNatural
  <1>6. PICK n \in S \ P : x = D(n)
    BY <1>5 DEF T
  <1>7. PICK c \in Children(n) : c \notin P
    BY <1>6
  <1>8. c \in S \ P /\ c \in Live /\ n \in Live
    BY <1>6, <1>7 DEF Closed
  <1>9. ~Leaf(n)
    BY <1>1, <1>7, <1>8 DEF Facts
  <1>10. LEVEL(n) < LEVEL(c) /\ LEVEL(n) \in 0..(VarNum - 1) /\ LEVEL(c) \in Nat
    BY <1>1, <1>7, <1>8, <1>9, InnerNode DEF Facts
  <1>11. D(c) < D(n)
    <2>1. CASE Leaf(c)
      BY <1>9, <1>10, <2>1
    <2>2. CASE ~Leaf(c)
      BY <1>9, <1>10, <2>2
    <2>3. QED
      BY <2>1, <2>2
  <1>12. D(c) \in T /\ D(c) \in Nat /\ D(n) \in Nat
    BY <1>2, <1>6, <1>8 DEF T
  <1> HIDE DEF D
  <1>13. QED
    BY <1>5, <1>6, <1>11, <1>12

----------------------------------------------------------------------------
\* Protected nodes.

\* bdd_mark finds whole diagrams.
LEMMA SurvivorsClosed ==
  ASSUME TableOK
  PROVE  /\ Survivors \subseteq Live /\ Closed(Survivors)
         /\ Roots \subseteq Survivors /\ 0 \in Survivors /\ 1 \in Survivors
  <1>1. Facts
    BY TableFacts
  <1>2. Roots \subseteq Marked /\ Marked \subseteq Live
    <2>1. Roots \subseteq Live
      BY DEF Roots
    <2>2. QED
      BY <2>1 DEF Marked
  <1>3. ASSUME NEW n \in Marked, NEW c \in Children(n) PROVE c \in Marked
    <2>1. c \in Live
      BY <1>1, <1>2, <1>3 DEF Facts, Closed
    <2>2. ASSUME NEW T \in SUBSET (Live \ Roots), Closed(Roots \cup T)
          PROVE  c \in Roots \cup T
      <3>1. n \in Roots \cup T
        BY <2>2 DEF Marked
      <3>2. QED
        BY <2>2, <3>1 DEF Closed
    <2>3. QED
      BY <2>1, <2>2 DEF Marked
  <1>4. Leaf(0) /\ Leaf(1) /\ 0 \in Live /\ 1 \in Live
    BY <1>1 DEF Facts, Leaf, ISCONST
  <1>5. Children(0) = {} /\ Children(1) = {}
    BY <1>1, <1>4 DEF Facts
  <1>6. QED
    BY <1>2, <1>3, <1>4, <1>5 DEF Survivors, Closed

\* What hangs on a counted node is protected.
LEMMA ReachProtected ==
  ASSUME TableOK, ClientOK
  PROVE  /\ Reach \subseteq Live /\ Reach \subseteq Survivors /\ Counted \subseteq Reach
         /\ Closed(Reach)
         /\ 0..(2 * VarNum + 1) \subseteq Reach
         /\ \A x \in Names : edge[x] # NoNode => edge[x] \in Reach
  <1> USE MtbddAssumption
  <1>1. Facts
    BY TableFacts
  <1>2. Reach \subseteq Live /\ Counted \subseteq Reach
    BY DEF Reach, Counted
  <1>3. Reach \subseteq Survivors
    <2>1. Survivors \in SUBSET Live /\ Closed(Survivors) /\ Roots \subseteq Survivors
      BY SurvivorsClosed
    <2>2. Counted \subseteq Survivors
      BY <2>1 DEF Counted, Roots
    <2>3. QED
      BY <2>1, <2>2 DEF Reach
  <1>4. ASSUME NEW n \in Reach, NEW c \in Children(n) PROVE c \in Reach
    <2>1. c \in Live
      BY <1>1, <1>2, <1>4 DEF Facts, Closed
    <2>2. ASSUME NEW S \in SUBSET Live, Counted \subseteq S, Closed(S) PROVE c \in S
      <3>1. n \in S
        BY <2>2 DEF Reach
      <3>2. QED
        BY <2>2, <3>1 DEF Closed
    <2>3. QED
      BY <2>1, <2>2 DEF Reach
  <1>5. ASSUME NEW n \in 0..(2 * VarNum + 1) PROVE n \in Counted
    BY <1>1 DEF Facts, Counted, TableOK
  <1>6. ASSUME NEW x \in Names, edge[x] # NoNode PROVE edge[x] \in Counted
    <2> DEFINE n == edge[x]  H == {y \in Names : edge[y] = n}
    <2>1. n \in Live /\ n \in Slot /\ refcou[n] \in Nat
      BY <1>1, <1>6 DEF ClientOK, Facts, TableOK
    <2>2. IsFiniteSet(H) /\ x \in H
      BY FS_Subset
    <2>3. Cardinality(H) \in Nat /\ Cardinality(H) # 0
      BY <2>2, FS_CardinalityType, FS_EmptySet
    <2>4. refcou[n] = MaxRef \/ Cardinality(H) <= refcou[n]
      BY <2>1 DEF ClientOK
    <2> HIDE DEF H
    <2>5. refcou[n] > 0
      BY <2>1, <2>3, <2>4
    <2>6. QED
      BY <2>1, <2>5 DEF Counted
  <1>7. QED
    BY <1>2, <1>3, <1>4, <1>5, <1>6 DEF Closed


----------------------------------------------------------------------------
\* The table of values.

\* The numbers below k.
LEMMA NumbersBelow ==
  ASSUME NEW k \in Nat
  PROVE  IsFiniteSet(0..(k - 1)) /\ Cardinality(0..(k - 1)) = k
  <1>1. k - 1 \in Int /\ 0 \in Int /\ (0 > k - 1 <=> k = 0) /\ (k - 1) - 0 + 1 = k
    OBVIOUS
  <1>2. IsFiniteSet(0..(k - 1)) /\ Cardinality(0..(k - 1)) = IF 0 > k - 1 THEN 0 ELSE (k - 1) - 0 + 1
    BY <1>1, FS_Interval
  <1>3. QED
    BY <1>1, <1>2

\* The indices of terminals are finitely many.
LEMMA OwnedFinite ==
  ASSUME NEW vals, NEW owned, ValuesGood(vals, owned)
  PROVE  IsFiniteSet(owned) /\ Cardinality(owned) \in Nat /\ vals.used = Cardinality(owned)
  <1>1. vals.last \in Nat /\ owned \subseteq 0..(vals.last - 1) /\ vals.used = Cardinality(owned)
    BY DEF ValuesGood
  <1>2. IsFiniteSet(0..(vals.last - 1))
    BY <1>1, NumbersBelow
  <1>3. IsFiniteSet(owned)
    BY <1>1, <1>2, FS_Subset
  <1>4. QED
    BY <1>1, <1>3, FS_CardinalityType

\* The rest of a sequence of different numbers.
LEMMA DistinctTail ==
  ASSUME NEW s \in Seq(Nat), s # <<>>, \A i, j \in DOMAIN s : s[i] = s[j] => i = j
  PROVE  /\ Tail(s) \in Seq(Nat) /\ \E i \in DOMAIN s : Head(s) = s[i]
         /\ \A i, j \in DOMAIN Tail(s) : Tail(s)[i] = Tail(s)[j] => i = j
         /\ \A i \in DOMAIN s : s[i] = Head(s) \/ \E j \in DOMAIN Tail(s) : Tail(s)[j] = s[i]
         /\ \A j \in DOMAIN Tail(s) : \E i \in DOMAIN s : Tail(s)[j] = s[i] /\ s[i] # Head(s)
  <1> DEFINE t == Tail(s)  k == Len(s)
  <1>1. /\ k \in Nat \ {0} /\ DOMAIN s = 1..k /\ Head(s) = s[1]
        /\ t \in Seq(Nat) /\ DOMAIN t = 1..(k - 1) /\ \A i \in 1..(k - 1) : t[i] = s[i + 1]
    OBVIOUS
  <1> HIDE DEF t, k
  <1>2. 1 \in 1..k /\ \A i \in 1..(k - 1) : i + 1 \in 1..k /\ i + 1 # 1
    BY <1>1
  <1>3. \A i \in 1..k : i = 1 \/ (i - 1 \in 1..(k - 1) /\ (i - 1) + 1 = i)
    BY <1>1
  <1>4. \A i, j \in 1..(k - 1) : i + 1 = j + 1 => i = j
    BY <1>1
  <1>5. \A i, j \in DOMAIN t : t[i] = t[j] => i = j
    BY <1>1, <1>2, <1>4
  <1>6. \A i \in DOMAIN s : s[i] = Head(s) \/ \E j \in DOMAIN t : t[j] = s[i]
    BY <1>1, <1>3
  <1>7. \A j \in DOMAIN t : \E i \in DOMAIN s : t[j] = s[i] /\ s[i] # Head(s)
    <2>1. ASSUME NEW j \in 1..(k - 1) PROVE \E i \in 1..k : t[j] = s[i] /\ s[i] # s[1]
      <3>1. j + 1 \in 1..k /\ j + 1 # 1 /\ 1 \in 1..k /\ t[j] = s[j + 1]
        BY <1>1, <1>2
      <3>2. s[j + 1] # s[1]
        BY <1>1, <3>1
      <3>3. QED
        BY <3>1, <3>2
    <2>2. QED
      BY <1>1, <2>1
  <1>8. \E i \in DOMAIN s : Head(s) = s[i]
    BY <1>1, <1>2
  <1>9. t \in Seq(Nat)
    BY <1>1
  <1>10. QED
    BY <1>5, <1>6, <1>7, <1>8, <1>9 DEF t

\* mtbdd_insertvalue takes an index that no terminal has.
LEMMA InsertGood ==
  ASSUME NEW vals, NEW owned, ValuesGood(vals, owned), NEW value,
         NEW after, after = mtbdd_insertvalue(vals, value), NEW slot, slot = NextIndex(vals)
  PROVE  /\ slot \in Nat /\ slot \notin owned
         /\ ValuesGood(after, owned \cup {slot})
         /\ after.at[slot] = value /\ \A i \in owned : after.at[i] = vals.at[i]
  <1> DEFINE index == NextIndex(vals)
             capacity == Capacity(vals)
             size == IF capacity = 0 THEN INITIAL_TERMINAL_SIZE
                     ELSE IF vals.used = capacity THEN 2 * capacity
                     ELSE capacity
             at == [i \in 0..(size - 1) |->
                      IF i = index THEN value
                      ELSE IF i \in DOMAIN vals.at THEN vals.at[i] ELSE NoValue]
             last == IF vals.top = <<>> THEN vals.last + 1 ELSE vals.last
             top == IF vals.top = <<>> THEN <<>> ELSE Tail(vals.top)
             used == vals.used + 1
             new == [at |-> at, used |-> used, last |-> last, top |-> top]
  <1>0. INITIAL_TERMINAL_SIZE \in Nat \ {0}
    BY MtbddAssumption
  <1>1. mtbdd_insertvalue(vals, value) = new
    BY DEF mtbdd_insertvalue
  <1>2. /\ capacity \in Nat /\ vals.last \in Nat /\ vals.last <= capacity
        /\ vals.top \in Seq(Nat) /\ owned \subseteq 0..(vals.last - 1)
        /\ vals.used = Cardinality(owned)
        /\ DOMAIN vals.at = 0..(capacity - 1)
        /\ \A i \in DOMAIN vals.top : vals.top[i] \notin owned /\ vals.top[i] < vals.last
        /\ \A i, j \in DOMAIN vals.top : vals.top[i] = vals.top[j] => i = j
        /\ \A i \in 0..(vals.last - 1) : i \in owned \/ \E j \in DOMAIN vals.top : vals.top[j] = i
    BY DEF ValuesGood
  <1>3. IsFiniteSet(owned) /\ vals.used \in Nat
    BY OwnedFinite
  <1> DEFINE Fits ==
        /\ index \in Nat /\ index < size /\ index \notin owned
        /\ size \in Nat /\ capacity <= size
        /\ last \in Nat /\ last <= size /\ top \in Seq(Nat)
        /\ \A i, j \in DOMAIN top : top[i] = top[j] => i = j
        /\ \A i \in DOMAIN top : top[i] \notin owned \cup {index} /\ top[i] < last
        /\ \A i \in 0..(last - 1) : i \in owned \cup {index} \/ \E j \in DOMAIN top : top[j] = i
        /\ owned \cup {index} \subseteq 0..(last - 1)
  <1>4. ASSUME vals.top = <<>> PROVE Fits
    <2>1. index = vals.last /\ last = vals.last + 1 /\ top = <<>> /\ DOMAIN vals.top = {}
      BY <1>4 DEF NextIndex
    <2>2. owned = 0..(vals.last - 1)
      BY <1>2, <2>1
    <2>3. vals.used = vals.last
      BY <1>2, <2>2, NumbersBelow
    <2>4. size \in Nat /\ vals.last < size /\ capacity <= size
      BY <1>0, <1>2, <2>3
    <2> HIDE DEF index, capacity, size, last, top
    <2>5. DOMAIN top = {} /\ top \in Seq(Nat)
      BY <2>1
    <2>6. Fits
      BY <1>2, <2>1, <2>2, <2>4, <2>5
    <2>7. QED
      BY <2>6
  <1>5. ASSUME vals.top # <<>> PROVE Fits
    <2> DEFINE old == vals.top
    <2>0. /\ \A i, j \in DOMAIN top : top[i] = top[j] => i = j
          /\ \A i \in DOMAIN old : old[i] = index \/ \E j \in DOMAIN top : top[j] = old[i]
          /\ \A j \in DOMAIN top : \E i \in DOMAIN old : top[j] = old[i] /\ old[i] # index
          /\ top \in Seq(Nat) /\ \E i \in DOMAIN old : index = old[i]
          /\ last = vals.last
      <3>1. old \in Seq(Nat) /\ old # <<>> /\ \A i, j \in DOMAIN old : old[i] = old[j] => i = j
        BY <1>2, <1>5
      <3>2. index = Head(old) /\ top = Tail(old) /\ last = vals.last
        BY <1>5 DEF NextIndex
      <3> HIDE DEF old, index, top, last
      <3>3. QED
        BY <3>1, <3>2, DistinctTail
    <2>1. size \in Nat /\ capacity <= size
      BY <1>0, <1>2
    <2> HIDE DEF index, capacity, size, last, top
    <2>2. index \in Nat /\ index < vals.last /\ index \notin owned
      <3>1. PICK i \in DOMAIN vals.top : index = vals.top[i]
        BY <2>0
      <3>2. QED
        BY <1>2, <3>1
    <2>3. ASSUME NEW j \in DOMAIN top PROVE top[j] \notin owned \cup {index} /\ top[j] < last
      <3>1. PICK i \in DOMAIN vals.top : top[j] = vals.top[i] /\ vals.top[i] # index
        BY <2>0
      <3>2. QED
        BY <1>2, <2>0, <3>1
    <2>4. ASSUME NEW i \in 0..(last - 1), i \notin owned, i # index
          PROVE  \E j \in DOMAIN top : top[j] = i
      <3>1. PICK j \in DOMAIN vals.top : vals.top[j] = i
        BY <1>2, <2>0, <2>4
      <3>2. QED
        BY <2>0, <2>4, <3>1
    <2>5. index < size /\ last <= size /\ last \in Nat
      BY <1>2, <2>0, <2>1, <2>2
    <2>6. owned \cup {index} \subseteq 0..(last - 1)
      <3>1. index \in 0..(vals.last - 1) /\ owned \subseteq 0..(vals.last - 1) /\ last = vals.last
        BY <1>2, <2>0, <2>2
      <3>2. QED
        BY <3>1
    <2>7. QED
      BY <2>0, <2>1, <2>2, <2>3, <2>4, <2>5, <2>6
  <1>6. Fits
    <2> HIDE DEF Fits
    <2>1. QED
      BY <1>4, <1>5, Zenon
  <1>7. /\ new.at = at /\ new.used = used /\ new.last = last /\ new.top = top
        /\ DOMAIN at = 0..(size - 1) /\ at = [i \in DOMAIN at |-> at[i]]
    OBVIOUS
  <1>8. at[index] = value /\ \A i \in owned : at[i] = vals.at[i]
    <2> HIDE DEF index, size, last, top, capacity
    <2>1. index \in 0..(size - 1)
      BY <1>6
    <2>2. ASSUME NEW i \in owned PROVE i \in 0..(size - 1) /\ i \in DOMAIN vals.at /\ i # index
      <3>1. i \in 0..(vals.last - 1)
        BY <1>2
      <3>2. QED
        BY <1>2, <1>6, <3>1
    <2>3. QED
      BY <2>1, <2>2
  <1>9. used = Cardinality(owned \cup {index})
    <2> HIDE DEF index
    <2>1. QED
      BY <1>2, <1>3, <1>6, FS_AddElement
  <1>10. Capacity(new) = size
    <2> HIDE DEF at, size
    <2>1. Cardinality(0..(size - 1)) = size
      BY <1>6, NumbersBelow
    <2>2. QED
      BY <1>7, <2>1 DEF Capacity
  <1>11. new = [at |-> new.at, used |-> new.used, last |-> new.last, top |-> new.top]
    OBVIOUS
  <1> HIDE DEF index, at, size, last, top, capacity, new, used
  <1>12. ValuesGood(new, owned \cup {index})
    BY <1>6, <1>7, <1>9, <1>10, <1>11 DEF ValuesGood
  <1>13. QED
    BY <1>1, <1>6, <1>7, <1>8, <1>12 DEF index


\* The numbers of a finite set in order.
InOrderOf(s, T) ==
  /\ s \in [1..Cardinality(T) -> T]
  /\ \A i, j \in DOMAIN s : i < j => s[i] < s[j]

\* One more number, above all of them.
LEMMA OneMoreInOrder ==
  ASSUME NEW T \in SUBSET Nat, IsFiniteSet(T), NEW s, InOrderOf(s, T),
         NEW n \in Nat, \A m \in T : m < n
  PROVE  \E t : InOrderOf(t, T \cup {n})
  <1> DEFINE k == Cardinality(T)
             t == [i \in 1..(k + 1) |-> IF i = k + 1 THEN n ELSE s[i]]
  <1>1. k \in Nat /\ n \notin T
    BY FS_CardinalityType
  <1>2. Cardinality(T \cup {n}) = k + 1
    BY <1>1, FS_AddElement
  <1>3. s \in [1..k -> T] /\ \A i, j \in 1..k : i < j => s[i] < s[j]
    BY DEF InOrderOf
  <1> HIDE DEF k
  <1>4. \A i \in 1..(k + 1) : i = k + 1 \/ i \in 1..k
    BY <1>1
  <1>5. t \in [1..(k + 1) -> T \cup {n}]
    BY <1>3, <1>4
  <1>6. ASSUME NEW i \in 1..(k + 1), NEW j \in 1..(k + 1), i < j PROVE t[i] < t[j]
    <2>1. i \in 1..k /\ t[i] = s[i] /\ s[i] \in T
      BY <1>1, <1>3, <1>6
    <2>2. CASE j = k + 1
      BY <2>1, <2>2
    <2>3. CASE j # k + 1
      BY <1>3, <1>4, <1>6, <2>1, <2>3
    <2>4. QED
      BY <2>2, <2>3
  <1> HIDE DEF t
  <1>7. InOrderOf(t, T \cup {n})
    BY <1>2, <1>5, <1>6 DEF InOrderOf
  <1>8. QED
    BY <1>7

\* They can be put in order.
LEMMA OrderExists ==
  ASSUME NEW size \in Nat, NEW T \in SUBSET (0..(size - 1))
  PROVE  \E s : InOrderOf(s, T)
  <1> DEFINE P(k) == \E s : InOrderOf(s, T \cap 0..(k - 1))
             Bad == {k \in Nat : ~P(k)}
  <1>1. SUFFICES Bad = {}
    <2>1. T \cap 0..(size - 1) = T
      OBVIOUS
    <2>2. P(size)
      BY <1>1
    <2>3. QED
      BY <2>1, <2>2
  <1>2. P(0)
    <2>1. T \cap 0..(0 - 1) = {}
      OBVIOUS
    <2>2. Cardinality({}) = 0
      BY FS_EmptySet
    <2>3. InOrderOf(<<>>, {})
      BY <2>2 DEF InOrderOf
    <2>4. QED
      BY <2>1, <2>3
  <1>3. ASSUME NEW k \in Nat, P(k) PROVE P(k + 1)
    <2> DEFINE U == T \cap 0..(k - 1)
    <2>1. PICK s : InOrderOf(s, U)
      BY <1>3
    <2>2. T \cap 0..((k + 1) - 1) = IF k \in T THEN U \cup {k} ELSE U
      OBVIOUS
    <2>3. U \in SUBSET Nat /\ IsFiniteSet(U) /\ \A m \in U : m < k
      <3>1. IsFiniteSet(0..(k - 1))
        BY NumbersBelow
      <3>2. IsFiniteSet(U)
        BY <3>1, FS_Subset
      <3>3. QED
        BY <3>2
    <2> HIDE DEF U
    <2>4. CASE k \in T
      BY <2>1, <2>2, <2>3, <2>4, OneMoreInOrder
    <2>5. CASE k \notin T
      BY <2>1, <2>2, <2>5
    <2>6. QED
      BY <2>4, <2>5
  <1> HIDE DEF P
  <1>4. SUFFICES ASSUME Bad # {} PROVE FALSE
    OBVIOUS
  <1>5. PICK k \in Bad : \A j \in Bad : k <= j
    BY <1>4, LeastNatural
  <1>6. k # 0 /\ k \in Nat /\ ~P(k)
    BY <1>2, <1>5
  <1>7. k - 1 \in Nat /\ k - 1 \notin Bad /\ (k - 1) + 1 = k
    BY <1>5, <1>6
  <1>8. P(k - 1)
    BY <1>7
  <1>9. QED
    BY <1>3, <1>6, <1>7, <1>8

\* The slots of a set, each of them once.
LEMMA InOrderRight ==
  ASSUME NEW T \in SUBSET Slot
  PROVE  LET s == InOrder(T)
         IN  /\ s \in [1..Cardinality(T) -> T] /\ Cardinality(T) \in Nat /\ IsFiniteSet(T)
             /\ \A i, j \in DOMAIN s : s[i] = s[j] => i = j
             /\ \A n \in T : \E i \in DOMAIN s : s[i] = n
  <1> DEFINE s == InOrder(T)  k == Cardinality(T)
  <1>1. InitSize \in Nat /\ T \in SUBSET (0..(InitSize - 1)) /\ \A n \in T : n \in Nat
    BY MtbddAssumption DEF Slot
  <1>2. IsFiniteSet(T) /\ k \in Nat
    <2>1. IsFiniteSet(0..(InitSize - 1))
      BY <1>1, NumbersBelow
    <2>2. IsFiniteSet(T)
      BY <1>1, <2>1, FS_Subset
    <2>3. QED
      BY <2>2, FS_CardinalityType
  <1>3. \E t \in [1..Cardinality(T) -> T] : \A i, j \in DOMAIN t : i < j => t[i] < t[j]
    BY <1>1, OrderExists DEF InOrderOf
  <1>4. s \in [1..Cardinality(T) -> T] /\ \A i, j \in DOMAIN s : i < j => s[i] < s[j]
    BY <1>3, Zenon DEF InOrder
  <1> HIDE DEF s
  <1>5. ASSUME NEW i \in DOMAIN s, NEW j \in DOMAIN s, s[i] = s[j] PROVE i = j
    <2>1. s[i] \in Nat /\ s[j] \in Nat /\ i \in Nat /\ j \in Nat
      <3>1. i \in 1..k /\ j \in 1..k /\ s[i] \in T /\ s[j] \in T
        BY <1>4
      <3>2. \A n \in T : n \in Nat
        BY <1>1
      <3>3. s[i] \in Nat /\ s[j] \in Nat
        BY <3>1, <3>2
      <3>4. \A n \in 1..k : n \in Nat
        OBVIOUS
      <3> HIDE DEF k
      <3>5. i \in Nat /\ j \in Nat
        BY <3>1, <3>4
      <3>6. QED
        BY <3>3, <3>5
    <2>2. ~(i < j) /\ ~(j < i)
      BY <1>4, <1>5, <2>1
    <2>3. QED
      BY <2>1, <2>2
  <1>6. \A n \in T : \E i \in DOMAIN s : s[i] = n
    <2>1. s \in Injection(1..k, T)
      BY <1>4, <1>5 DEF Injection, IsInjective
    <2>2. IsFiniteSet(1..k) /\ Cardinality(1..k) = k
      BY <1>2, FS_Interval
    <2>3. s \in Surjection(1..k, T)
      BY <1>2, <2>1, <2>2, FS_Injection
    <2>4. QED
      BY <1>4, <2>3 DEF Surjection
  <1>7. QED
    BY <1>2, <1>4, <1>5, <1>6 DEF s


\* The sweep gives the indices of the terminals it takes back, and no other.
LEMMA DeleteGood ==
  ASSUME NEW vals, NEW owned, ValuesGood(vals, owned), NEW swept \in SUBSET Slot,
         \A n \in swept : ISTERMINAL(n) => HIGH(n) \in owned,
         \A m, n \in swept : ISTERMINAL(m) /\ ISTERMINAL(n) /\ HIGH(m) = HIGH(n) => m = n
  PROVE  LET new == mtbdd_delete_terminals(vals, swept)
             left == owned \ {HIGH(n) : n \in {m \in swept : ISTERMINAL(m)}}
         IN  ValuesGood(new, left) /\ \A i \in left : new.at[i] = vals.at[i]
  <1> DEFINE T == {n \in swept : ISTERMINAL(n)}
             given == {HIGH(n) : n \in T}
             left == owned \ given
             slots == InOrder(T)
             indices == [i \in DOMAIN slots |-> HIGH(slots[i])]
             k == Cardinality(T)
             at == [i \in DOMAIN vals.at |-> IF \E j \in DOMAIN indices : indices[j] = i
                                             THEN NoValue ELSE vals.at[i]]
             top == indices \o vals.top
             new == [at |-> at, used |-> vals.used - k, last |-> vals.last, top |-> top]
  <1>1. /\ Capacity(vals) \in Nat /\ vals.last \in Nat /\ vals.last <= Capacity(vals)
        /\ vals.top \in Seq(Nat) /\ owned \subseteq 0..(vals.last - 1)
        /\ DOMAIN vals.at = 0..(Capacity(vals) - 1)
        /\ vals = [at |-> vals.at, used |-> vals.used, last |-> vals.last, top |-> vals.top]
    BY DEF ValuesGood
  <1>2. /\ \A i \in DOMAIN vals.top : vals.top[i] \notin owned /\ vals.top[i] < vals.last
        /\ \A i, j \in DOMAIN vals.top : vals.top[i] = vals.top[j] => i = j
        /\ \A i \in 0..(vals.last - 1) : i \in owned \/ \E j \in DOMAIN vals.top : vals.top[j] = i
    BY DEF ValuesGood
  <1>3. IsFiniteSet(owned) /\ vals.used = Cardinality(owned) /\ vals.used \in Nat
    BY OwnedFinite
  <1>4. {n \in swept : ISTERMINAL(n) /\ HIGH(n) < Capacity(vals)} = T
    <2>1. ASSUME NEW n \in T PROVE HIGH(n) < Capacity(vals)
      <3>1. HIGH(n) \in 0..(vals.last - 1)
        BY <1>1
      <3>2. QED
        BY <1>1, <3>1
    <2>2. QED
      BY <2>1
  <1>5. /\ slots \in [1..k -> T] /\ k \in Nat
        /\ \A i, j \in 1..k : slots[i] = slots[j] => i = j
        /\ \A n \in T : \E i \in 1..k : slots[i] = n
    <2>1. T \in SUBSET Slot
      OBVIOUS
    <2> HIDE DEF T
    <2>2. /\ slots \in [1..k -> T] /\ k \in Nat
          /\ \A i, j \in DOMAIN slots : slots[i] = slots[j] => i = j
          /\ \A n \in T : \E i \in DOMAIN slots : slots[i] = n
      BY <2>1, InOrderRight
    <2> HIDE DEF slots
    <2>3. DOMAIN slots = 1..k
      BY <2>2
    <2>4. QED
      BY <2>2, <2>3
  <1>6. \A n \in T : HIGH(n) \in owned /\ HIGH(n) \in Nat
    BY <1>1
  <1>7. \A m, n \in T : HIGH(m) = HIGH(n) => m = n
    OBVIOUS
  <1> HIDE DEF T, slots, k
  <1>8. DOMAIN indices = 1..k /\ indices \in Seq(Nat) /\ Len(indices) = k
        /\ \A i \in 1..k : indices[i] = HIGH(slots[i])
    BY <1>5, <1>6
  <1>9. mtbdd_delete_terminals(vals, swept) = new
    <2>1. mtbdd_delete_terminals(vals, swept)
            = [vals EXCEPT !.at = [i \in DOMAIN @ |-> IF \E j \in DOMAIN indices : indices[j] = i
                                                      THEN NoValue ELSE @[i]],
                           !.used = @ - Len(indices), !.top = indices \o @]
      BY <1>4 DEF mtbdd_delete_terminals, slots
    <2> HIDE DEF indices
    <2>2. QED
      BY <1>1, <1>8, <2>1
  <1>10. \A i \in 1..k : indices[i] \in given /\ indices[i] \in owned
    BY <1>5, <1>6, <1>8
  <1>11. \A i \in given : \E j \in 1..k : indices[j] = i
    BY <1>5, <1>8
  <1>12. \A i, j \in 1..k : indices[i] = indices[j] => i = j
    BY <1>5, <1>7, <1>8
  <1> HIDE DEF indices
  <1>13. given \subseteq owned /\ IsFiniteSet(given) /\ Cardinality(given) = k
    <2>1. given \subseteq owned
      BY <1>6
    <2>2. IsFiniteSet(given)
      BY <1>3, <2>1, FS_Subset
    <2> DEFINE f == [i \in 1..k |-> indices[i]]
    <2>3. f \in Bijection(1..k, given)
      <3>1. f \in [1..k -> given]
        BY <1>10
      <3>2. f \in Injection(1..k, given)
        BY <1>12, <3>1 DEF Injection, IsInjective
      <3>3. f \in Surjection(1..k, given)
        BY <1>11, <3>1 DEF Surjection
      <3>4. QED
        BY <3>2, <3>3 DEF Bijection
    <2>4. Cardinality(given) = k
      <3>1. ExistsBijection(1..k, given)
        BY <2>3 DEF ExistsBijection
      <3>2. QED
        BY <1>5, <3>1, FS_CountingElements
    <2>5. QED
      BY <2>1, <2>2, <2>4
  <1> HIDE DEF given
  <1>14. left \subseteq owned /\ vals.used - k = Cardinality(left)
    <2>1. owned \cap given = given
      BY <1>13
    <2>2. Cardinality(owned \ given) = Cardinality(owned) - Cardinality(owned \cap given)
      BY <1>3, FS_Difference
    <2>3. QED
      BY <1>3, <1>13, <2>1, <2>2
  <1>15. /\ top \in Seq(Nat) /\ DOMAIN top = 1..(k + Len(vals.top))
         /\ Len(vals.top) \in Nat /\ DOMAIN vals.top = 1..Len(vals.top)
         /\ \A i \in 1..k : top[i] = indices[i]
         /\ \A i \in DOMAIN vals.top : top[k + i] = vals.top[i]
    BY <1>1, <1>5, <1>8
  <1> DEFINE d == Len(vals.top)
  <1> HIDE DEF top
  <1>16. /\ \A i \in 1..k : i \in DOMAIN top
         /\ \A i \in DOMAIN vals.top : k + i \in DOMAIN top
         /\ \A i \in DOMAIN top : i \in 1..k \/ \E j \in DOMAIN vals.top : i = k + j
    <2>1. ASSUME NEW i \in DOMAIN top, i \notin 1..k
          PROVE  \E j \in DOMAIN vals.top : i = k + j
      <3>1. i - k \in 1..d /\ i = k + (i - k)
        BY <1>5, <1>15, <2>1
      <3>2. QED
        BY <1>15, <3>1
    <2>2. \A i \in 1..k : i \in DOMAIN top
      BY <1>5, <1>15
    <2>3. ASSUME NEW i \in DOMAIN vals.top PROVE k + i \in DOMAIN top
      BY <1>5, <1>15
    <2>4. QED
      BY <2>1, <2>2, <2>3
  <1>17. \A i \in DOMAIN top : top[i] \notin left /\ top[i] < vals.last
    <2>1. ASSUME NEW i \in 1..k PROVE top[i] \notin left /\ top[i] < vals.last
      <3>1. top[i] \in given /\ top[i] \in owned
        BY <1>10, <1>15
      <3>2. top[i] \in 0..(vals.last - 1)
        BY <1>1, <3>1
      <3>3. QED
        BY <1>1, <3>1, <3>2
    <2>2. ASSUME NEW j \in DOMAIN vals.top PROVE top[k + j] \notin left /\ top[k + j] < vals.last
      BY <1>2, <1>15
    <2>3. QED
      BY <1>16, <2>1, <2>2
  <1>18. \A i, j \in DOMAIN top : top[i] = top[j] => i = j
    <2>1. ASSUME NEW i \in 1..k, NEW j \in DOMAIN vals.top PROVE top[i] # top[k + j]
      <3>1. top[i] \in owned /\ top[k + j] \notin owned
        BY <1>2, <1>10, <1>15
      <3>2. QED
        BY <3>1
    <2>2. ASSUME NEW i \in DOMAIN vals.top, NEW j \in DOMAIN vals.top, top[k + i] = top[k + j]
          PROVE  i = j
      BY <1>2, <1>15, <2>2
    <2>3. \A i, j \in 1..k : top[i] = top[j] => i = j
      BY <1>12, <1>15
    <2>4. QED
      BY <1>16, <2>1, <2>2, <2>3
  <1>19. \A i \in 0..(vals.last - 1) : i \in left \/ \E j \in DOMAIN top : top[j] = i
    <2>1. ASSUME NEW i \in given PROVE \E j \in DOMAIN top : top[j] = i
      BY <1>11, <1>15, <1>16
    <2>2. ASSUME NEW j \in DOMAIN vals.top PROVE \E m \in DOMAIN top : top[m] = vals.top[j]
      BY <1>15, <1>16
    <2>3. QED
      BY <1>2, <2>1, <2>2
  <1>20. at = [i \in DOMAIN at |-> at[i]] /\ DOMAIN at = DOMAIN vals.at
         /\ \A i \in left : at[i] = vals.at[i]
    <2>1. ASSUME NEW i \in left PROVE i \in DOMAIN vals.at /\ ~(\E j \in DOMAIN indices : indices[j] = i)
      <3>1. i \in 0..(vals.last - 1) /\ i \notin given
        BY <1>1
      <3>2. QED
        BY <1>1, <1>8, <1>10, <3>1
    <2>2. QED
      BY <2>1
  <1>21. /\ new.at = at /\ new.used = vals.used - k /\ new.last = vals.last /\ new.top = top
         /\ new = [at |-> new.at, used |-> new.used, last |-> new.last, top |-> new.top]
    OBVIOUS
  <1>22. Capacity(new) = Capacity(vals)
    BY <1>20, <1>21 DEF Capacity
  <1> HIDE DEF new, at, left
  <1>23. left \subseteq 0..(new.last - 1)
    BY <1>1, <1>14, <1>21
  <1>24. ValuesGood(new, left)
    BY <1>1, <1>14, <1>15, <1>17, <1>18, <1>19, <1>20, <1>21, <1>22, <1>23 DEF ValuesGood
  <1>25. new.at = at /\ \A i \in left : at[i] = vals.at[i]
    BY <1>20, <1>21
  <1>26. QED
    BY <1>9, <1>24, <1>25 DEF left, given, T


----------------------------------------------------------------------------
\* What a collection and a new node make of the table.

\* The nodes of K stay as they are, and so do the values of the terminals
\* among them; the counts may change, or not.
NodesStay(K) ==
  /\ K \in SUBSET Live /\ Closed(K) /\ Survivors \subseteq K /\ K \subseteq Live'
  /\ \A n \in K : node'[n] = node[n]
  /\ \A n \in K : ISTERMINAL(n) => values'.at[HIGH(n)] = values.at[HIGH(n)]
Stays(K) == NodesStay(K) /\ \A n \in K : refcou'[n] = refcou[n]

\* All that the client or the recursion needs is among them.
Kept == \E K : NodesStay(K)

\* The table has the nodes of K, and in the slots of N, one at most, the node
\* new.
Moved(K, N, new) ==
  /\ K \in SUBSET Live /\ Closed(K) /\ Survivors \subseteq K
  /\ N \in SUBSET (Slot \ K) /\ \A m, n \in N : m = n
  /\ node' = [n \in Slot |-> IF n \in N THEN new ELSE IF n \in K THEN node[n] ELSE Free]
  /\ refcou' \in [Slot -> 0..MaxRef] /\ \A n \in K : refcou'[n] = refcou[n]

\* A node that the table may get.
Fits(new) ==
  /\ new \in Node
  /\ new.level = MAXLEVEL \/
       /\ new.level < VarNum /\ new.low \in Survivors /\ new.high \in Survivors
       /\ new.low # new.high /\ new.level < LEVEL(new.low) /\ new.level < LEVEL(new.high)
       /\ \A n \in Live \ {0, 1} : node[n] # new

\* A node of K is the same before and after.
LEMMA SameNode ==
  ASSUME NEW n, node'[n] = node[n]
  PROVE  /\ LEVEL(n)' = LEVEL(n) /\ LOW(n)' = LOW(n) /\ HIGH(n)' = HIGH(n)
         /\ (ISTERMINAL(n)' <=> ISTERMINAL(n)) /\ (Leaf(n)' <=> Leaf(n))
         /\ Children(n)' = Children(n) /\ (ISCONST(n)' <=> ISCONST(n))
  <1>1. LEVEL(n)' = LEVEL(n) /\ LOW(n)' = LOW(n) /\ HIGH(n)' = HIGH(n)
    BY DEF LEVEL, LOW, HIGH
  <1>2. ISCONST(n)' <=> ISCONST(n)
    BY DEF ISCONST
  <1>3. ISTERMINAL(n)' <=> ISTERMINAL(n)
    BY <1>1 DEF ISTERMINAL
  <1>4. QED
    BY <1>1, <1>2, <1>3 DEF Leaf, Children

LEMMA MovedLive ==
  ASSUME TableOK, NEW K, NEW N, NEW new, Moved(K, N, new), N = {} \/ new \in Node
  PROVE  /\ Live' = K \cup N /\ K \subseteq Slot /\ N \subseteq Slot
         /\ \A n \in N : node'[n] = new
         /\ \A n \in K : node'[n] = node[n]
         /\ node' \in [Slot -> Node \cup {Free}]
  <1>1. K \subseteq Slot /\ N \subseteq Slot /\ K \cap N = {} /\ K \subseteq Live
    BY DEF Moved, Live
  <1>2. Slot' = Slot
    BY DEF Slot
  <1>3. \A n \in K : node[n] # Free /\ node[n] \in Node
    BY <1>1 DEF Live, TableOK
  <1>4. \A n \in N : node'[n] = new
    BY <1>1 DEF Moved
  <1>5. \A n \in K : node'[n] = node[n]
    BY <1>1 DEF Moved
  <1>6. \A n \in Slot : n \notin K /\ n \notin N => node'[n] = Free
    BY DEF Moved
  <1>7. new \in Node => new # Free
    <2>1. ASSUME new \in Node PROVE new # Free
      <3>1. "level" \in DOMAIN new
        BY <2>1 DEF Node
      <3>2. DOMAIN Free = {}
        BY DEF Free
      <3>3. QED
        BY <3>1, <3>2
    <2>2. QED
      BY <2>1
  <1>8. Live' = {n \in Slot : node'[n] # Free'}
    BY <1>2 DEF Live
  <1>9. Free' = Free
    BY DEF Free
  <1>10. Live' = K \cup N
    BY <1>1, <1>3, <1>4, <1>5, <1>6, <1>7, <1>8, <1>9
  <1>11. \A n \in Slot : node'[n] \in Node \cup {Free}
    BY <1>3, <1>4, <1>5, <1>6
  <1>12. node' \in [Slot -> Node \cup {Free}]
    BY <1>11 DEF Moved
  <1>13. QED
    BY <1>1, <1>4, <1>5, <1>10, <1>12

\* The table stays in order.
LEMMA MovedTable ==
  ASSUME TableOK, ClientOK, NEW K, NEW N, NEW new, Moved(K, N, new), N = {} \/ Fits(new)
  PROVE  TableOK'
  <1>1. Facts
    BY TableFacts
  <1>2. /\ Live' = K \cup N /\ K \subseteq Slot /\ N \subseteq Slot
        /\ \A n \in N : node'[n] = new
        /\ \A n \in K : node'[n] = node[n]
        /\ node' \in [Slot -> Node \cup {Free}]
    BY MovedLive DEF Fits
  <1>3. 0..(2 * VarNum + 1) \subseteq K /\ Survivors \subseteq K /\ K \subseteq Live /\ Closed(K)
    BY ReachProtected DEF Moved
  <1>4. \A n \in 0..(2 * VarNum + 1) : node'[n] = FirstNode(n) /\ refcou'[n] = MaxRef
    BY <1>2, <1>3 DEF Moved, TableOK
  <1>5. ASSUME NEW n \in K \ {0, 1} PROVE (ISTERMINAL(n) \/ InnerOK(n))'
    <2>1. n \in Live \ {0, 1} /\ n \in K /\ n \in Live
      BY <1>3
    <2>2. LEVEL(n)' = LEVEL(n) /\ LOW(n)' = LOW(n) /\ HIGH(n)' = HIGH(n) /\ (ISTERMINAL(n)' <=> ISTERMINAL(n))
      BY <1>2, <2>1, SameNode
    <2>3. CASE ISTERMINAL(n)
      BY <2>2, <2>3
    <2>4. CASE ~ISTERMINAL(n)
      <3>1. InnerOK(n) /\ n \in Nat /\ ~ISCONST(n)
        BY <1>1, <2>1, <2>4 DEF TableOK, Facts, ISCONST
      <3>2. LOW(n) \in K /\ HIGH(n) \in K
        BY <1>3, <2>1, <2>4, <3>1 DEF Closed, Children
      <3>3. LEVEL(LOW(n))' = LEVEL(LOW(n)) /\ LEVEL(HIGH(n))' = LEVEL(HIGH(n))
        <4>1. node'[LOW(n)] = node[LOW(n)] /\ node'[HIGH(n)] = node[HIGH(n)]
          BY <1>2, <3>2
        <4>2. QED
          BY <2>2, <4>1 DEF LEVEL
      <3>4. QED
        BY <1>2, <2>2, <3>1, <3>2, <3>3 DEF InnerOK
    <2>5. QED
      BY <2>3, <2>4
  <1>6. ASSUME NEW n \in N PROVE (ISTERMINAL(n) \/ InnerOK(n))'
    <2>1. Fits(new) /\ node'[n] = new
      BY <1>2, <1>6
    <2>2. LEVEL(n)' = new.level /\ LOW(n)' = new.low /\ HIGH(n)' = new.high
      BY <2>1 DEF LEVEL, LOW, HIGH
    <2>3. CASE new.level = MAXLEVEL
      BY <2>2, <2>3 DEF ISTERMINAL
    <2>4. CASE new.level # MAXLEVEL
      <3>1. /\ new.level < VarNum /\ new.low \in K /\ new.high \in K
            /\ new.low # new.high /\ new.level < LEVEL(new.low) /\ new.level < LEVEL(new.high)
        BY <1>3, <2>1, <2>4 DEF Fits
      <3>2. LEVEL(LOW(n))' = LEVEL(new.low) /\ LEVEL(HIGH(n))' = LEVEL(new.high)
        <4>1. node'[new.low] = node[new.low] /\ node'[new.high] = node[new.high]
          BY <1>2, <3>1
        <4>2. QED
          BY <2>2, <4>1 DEF LEVEL
      <3>3. QED
        BY <1>2, <2>2, <3>1, <3>2 DEF InnerOK
    <2>5. QED
      BY <2>3, <2>4
  <1>7. ASSUME NEW m \in Live' \ {0, 1}, NEW n \in Live' \ {0, 1}, ~ISTERMINAL(m)', node'[m] = node'[n]
        PROVE  m = n
    <2>1. ASSUME NEW a \in K \ {0, 1}, NEW b \in N, node'[a] = node'[b], ~ISTERMINAL(a)' PROVE FALSE
      <3>1. node[a] = new /\ Fits(new) /\ a \in Live \ {0, 1}
        BY <1>2, <1>3, <2>1
      <3>2. new.level # MAXLEVEL
        BY <1>2, <2>1 DEF ISTERMINAL, LEVEL
      <3>3. QED
        BY <3>1, <3>2 DEF Fits
    <2>2. CASE m \in K /\ n \in K
      <3>1. node[m] = node[n] /\ m \in Live \ {0, 1} /\ n \in Live \ {0, 1} /\ ~ISTERMINAL(m)
        BY <1>2, <1>3, <1>7, <2>2, SameNode
      <3>2. QED
        BY <3>1 DEF TableOK
    <2>3. CASE m \in N /\ n \in N
      BY <2>3 DEF Moved
    <2>4. CASE m \in K /\ n \in N
      BY <1>7, <2>1, <2>4
    <2>5. CASE m \in N /\ n \in K
      <3>1. ~ISTERMINAL(n)'
        BY <1>7 DEF ISTERMINAL, LEVEL
      <3>2. QED
        BY <1>7, <2>1, <2>5, <3>1
    <2>6. QED
      BY <1>2, <2>2, <2>3, <2>4, <2>5
  <1>8. \A n \in Live' \ {0, 1} : (ISTERMINAL(n) \/ InnerOK(n))'
    BY <1>2, <1>5, <1>6
  <1>9. refcou' \in [Slot -> 0..MaxRef]
    BY DEF Moved
  <1>10. QED
    BY <1>2, <1>4, <1>7, <1>8, <1>9 DEF TableOK, FirstNode, Slot


\* bdd_makenode takes a free slot, if it must after a collection, or fails.
LEMMA NewNodeMoves ==
  ASSUME TableOK, ClientOK, NEW new, new \in Node, NEW vals, NEW zero, NEW res \in Slot,
         NewNode(new, vals, zero, res), ~bdderrorcond'
  PROVE  \/ /\ Moved(Live, {res}, new) /\ values' = vals /\ ~Collects
         \/ /\ Collects /\ Moved(Survivors, {res}, new)
            /\ values' = mtbdd_delete_terminals(vals, Live \ Survivors)
  <1>1. Facts
    BY TableFacts
  <1>2. /\ Survivors \subseteq Live /\ Closed(Survivors) /\ Closed(Live)
        /\ Live \subseteq Slot
    BY <1>1, SurvivorsClosed DEF Facts
  <1>3. refcou \in [Slot -> 0..MaxRef] /\ node \in [Slot -> Node \cup {Free}]
    BY DEF TableOK
  <1>7. 0 \in 0..MaxRef
    BY MtbddAssumption
  <1> DEFINE Least(S) == {n \in S : \A m \in S : n <= m}
  <1>4. CASE /\ res \in Least(Slot \ Live)
             /\ node' = [node EXCEPT ![res] = new]
             /\ refcou' = [refcou EXCEPT ![res] = 0]
             /\ values' = vals
    <2>1. res \notin Live
      BY <1>4
    <2>2. ~Collects
      BY <1>2, <2>1 DEF Collects
    <2>3. node' = [n \in Slot |-> IF n \in {res} THEN new ELSE IF n \in Live THEN node[n] ELSE Free]
      <3>1. \A n \in Slot : node'[n] = IF n = res THEN new ELSE IF n \in Live THEN node[n] ELSE Free
        BY <1>3, <1>4 DEF Live
      <3>2. node' = [n \in Slot |-> node'[n]]
        BY <1>3, <1>4
      <3>3. QED
        BY <3>1, <3>2
    <2>4. refcou' \in [Slot -> 0..MaxRef] /\ \A n \in Live : refcou'[n] = refcou[n]
      BY <1>2, <1>3, <1>4, <1>7, <2>1
    <2>5. Moved(Live, {res}, new)
      BY <1>2, <2>1, <2>3, <2>4 DEF Moved
    <2>6. QED
      BY <1>4, <2>2, <2>5
  <1>5. CASE /\ Collects
             /\ res \in Least(Slot \ Survivors)
             /\ node' = [n \in Slot |-> IF n = res THEN new ELSE IF n \in Survivors THEN node[n] ELSE Free]
             /\ refcou' = [n \in Slot |-> IF n \in Survivors THEN refcou[n] ELSE 0]
             /\ values' = mtbdd_delete_terminals(vals, Live \ Survivors)
    <2>1. res \notin Survivors
      BY <1>5
    <2>2. refcou' \in [Slot -> 0..MaxRef] /\ \A n \in Survivors : refcou'[n] = refcou[n]
      BY <1>2, <1>3, <1>5, <1>7
    <2>3. node' = [n \in Slot |-> IF n \in {res} THEN new ELSE IF n \in Survivors THEN node[n] ELSE Free]
      BY <1>5
    <2>4. Moved(Survivors, {res}, new)
      BY <1>2, <2>1, <2>2, <2>3 DEF Moved
    <2>5. QED
      BY <1>5, <2>4
  <1>6. QED
    BY <1>4, <1>5 DEF NewNode

\* bdd_gbc called by the program.
LEMMA GbcMoves ==
  ASSUME TableOK, Gbc, NEW new
  PROVE  Moved(Survivors, {}, new) /\ values' = mtbdd_delete_terminals(values, Live \ Survivors)
  <1>0. 0 \in 0..MaxRef
    BY MtbddAssumption
  <1>1. Facts
    BY TableFacts
  <1>2. Survivors \subseteq Live /\ Closed(Survivors) /\ Live \subseteq Slot
    BY <1>1, SurvivorsClosed DEF Facts
  <1>3. refcou' \in [Slot -> 0..MaxRef] /\ \A n \in Survivors : refcou'[n] = refcou[n]
    BY <1>2, <1>0 DEF Gbc, TableOK
  <1>4. node' = [n \in Slot |-> IF n \in {} THEN new ELSE IF n \in Survivors THEN node[n] ELSE Free]
    BY DEF Gbc
  <1>5. QED
    BY <1>2, <1>3, <1>4 DEF Moved, Gbc

----------------------------------------------------------------------------
\* The values over a collection.

\* Two terminals have two indices.
LEMMA TerminalIndices ==
  ASSUME ValuesOK, NEW m \in LiveTerminals, NEW n \in LiveTerminals, HIGH(m) = HIGH(n)
  PROVE  m = n
  BY DEF ValuesOK

\* What is left of a table of values when the terminals outside K go; extra
\* has the index that a new terminal is about to have, if there is one.
Left(K, extra) == Indices(LiveTerminals \cap K) \cup extra

Swept(K, extra, vals, after) ==
  /\ K \in SUBSET Live
  /\ ValuesGood(vals, Left(Live, extra)) /\ extra \cap Indices(LiveTerminals) = {}
  /\ (after = vals /\ K = Live) \/ after = mtbdd_delete_terminals(vals, Live \ K)

Remains(K, extra, vals, after) ==
  /\ ValuesGood(after, Left(K, extra))
  /\ \A i \in Left(K, extra) : after.at[i] = vals.at[i]

\* The terminals that the sweep leaves keep their values.
LEMMA SweptValues ==
  ASSUME TableOK, ValuesOK, NEW K, NEW vals, NEW extra, NEW after, Swept(K, extra, vals, after)
  PROVE  Remains(K, extra, vals, after)
  <1> DEFINE owned == Left(Live, extra)
             left == Left(K, extra)
  <1>0. K \in SUBSET Live /\ LiveTerminals \cap Live = LiveTerminals /\ extra \cap Indices(LiveTerminals) = {}
        /\ ValuesGood(vals, owned)
    BY DEF Swept, LiveTerminals
  <1>1. CASE after = vals /\ K = Live
    BY <1>0, <1>1 DEF Remains
  <1>2. CASE after = mtbdd_delete_terminals(vals, Live \ K)
    <2> DEFINE swept == Live \ K
               given == {HIGH(n) : n \in {m \in swept : ISTERMINAL(m)}}
    <2>1. swept \in SUBSET Slot
      BY DEF Live
    <2>2. {m \in swept : ISTERMINAL(m)} = LiveTerminals \ K
      BY <1>0 DEF LiveTerminals
    <2>3. owned \ given = left
      <3>1. ASSUME NEW n \in LiveTerminals \cap K, NEW m \in LiveTerminals \ K PROVE HIGH(n) # HIGH(m)
        BY TerminalIndices
      <3>2. \A m \in LiveTerminals \ K : HIGH(m) \notin extra
        BY <1>0 DEF Indices
      <3>3. QED
        BY <1>0, <2>2, <3>1, <3>2 DEF Indices, Left
    <2>4. \A n \in swept : ISTERMINAL(n) => HIGH(n) \in owned
      BY <1>0 DEF LiveTerminals, Indices, Left
    <2>5. \A m, n \in swept : ISTERMINAL(m) /\ ISTERMINAL(n) /\ HIGH(m) = HIGH(n) => m = n
      <3>1. ASSUME NEW m \in swept, NEW n \in swept, ISTERMINAL(m), ISTERMINAL(n), HIGH(m) = HIGH(n)
            PROVE  m = n
        <4>1. m \in LiveTerminals /\ n \in LiveTerminals
          BY <3>1 DEF LiveTerminals
        <4>2. QED
          BY <3>1, <4>1, TerminalIndices
      <3>2. QED
        BY <3>1
    <2> HIDE DEF swept, owned, left
    <2>6. ValuesGood(after, owned \ given) /\ \A i \in owned \ given : after.at[i] = vals.at[i]
      BY <1>0, <1>2, <2>1, <2>4, <2>5, DeleteGood DEF swept
    <2>7. QED
      BY <2>3, <2>6 DEF Remains, left
  <1>3. QED
    BY <1>1, <1>2 DEF Swept

\* The terminals after a step.
LEMMA MovedTerminals ==
  ASSUME TableOK, NEW K, NEW N, NEW new, Moved(K, N, new), N = {} \/ new \in Node
  PROVE  /\ LiveTerminals' = (LiveTerminals \cap K) \cup
                             (IF N # {} /\ new.level = MAXLEVEL THEN N ELSE {})
         /\ \A n \in LiveTerminals \cap K : HIGH(n)' = HIGH(n) /\ node'[n] = node[n]
         /\ \A n \in N : HIGH(n)' = new.high /\ LEVEL(n)' = new.level /\ LOW(n)' = new.low
  <1>1. /\ Live' = K \cup N /\ \A n \in N : node'[n] = new
        /\ \A n \in K : node'[n] = node[n]
    BY MovedLive
  <1>2. K \subseteq Live
    BY DEF Moved
  <1>3. ASSUME NEW n \in N
        PROVE  HIGH(n)' = new.high /\ LEVEL(n)' = new.level /\ LOW(n)' = new.low
               /\ (ISTERMINAL(n)' <=> new.level = MAXLEVEL)
    BY <1>1 DEF HIGH, LEVEL, LOW, ISTERMINAL
  <1>4. ASSUME NEW n \in K PROVE HIGH(n)' = HIGH(n) /\ (ISTERMINAL(n)' <=> ISTERMINAL(n))
    BY <1>1, SameNode
  <1>5. LiveTerminals' = {n \in K \cup N : ISTERMINAL(n)'}
    BY <1>1 DEF LiveTerminals
  <1>6. LiveTerminals \cap K = {n \in K : ISTERMINAL(n)}
    BY <1>2 DEF LiveTerminals
  <1>7. QED
    BY <1>1, <1>3, <1>4, <1>5, <1>6

\* No new terminal: the values stay in order.
LEMMA MovedValues ==
  ASSUME TableOK, ValuesOK, ClientOK, NEW K, NEW N, NEW new, Moved(K, N, new),
         N = {} \/ (new \in Node /\ new.level # MAXLEVEL),
         \/ values' = values /\ K = Live
         \/ values' = mtbdd_delete_terminals(values, Live \ K)
  PROVE  ValuesOK' /\ Stays(K)
  <1> DEFINE left == Indices(LiveTerminals \cap K)
  <1>1. K \in SUBSET Live
    BY DEF Moved
  <1>3. ValuesGood(values', left) /\ \A i \in left : values'.at[i] = values.at[i]
    <2> DEFINE after == values'
    <2>1. Swept(K, {}, values, after)
      <3>1. Left(Live, {}) = Indices(LiveTerminals)
        BY DEF Left, Indices, LiveTerminals
      <3>2. QED
        BY <1>1, <3>1 DEF Swept, ValuesOK
    <2> HIDE DEF after
    <2>2. Remains(K, {}, values, after)
      BY <2>1, SweptValues
    <2>3. Left(K, {}) = left
      BY DEF Left
    <2>4. QED
      BY <2>2, <2>3 DEF Remains, after
  <1>4. /\ LiveTerminals' = LiveTerminals \cap K
        /\ \A n \in LiveTerminals \cap K : HIGH(n)' = HIGH(n) /\ node'[n] = node[n]
    BY MovedTerminals
  <1>5. Indices(LiveTerminals)' = left
    <2>1. Indices(LiveTerminals)' = {HIGH(n)' : n \in LiveTerminals \cap K}
      BY <1>4 DEF Indices
    <2>2. QED
      BY <1>4, <2>1 DEF Indices
  <1>6. \A n \in LiveTerminals \cap K : values'.at[HIGH(n)] = values.at[HIGH(n)]
    BY <1>3 DEF Indices
  <1>7. \A m, n \in LiveTerminals' : values'.at[HIGH(m)'] = values'.at[HIGH(n)'] => m = n
    BY <1>4, <1>6 DEF ValuesOK
  <1>8. ValuesGood(values', Indices(LiveTerminals)')
    BY <1>3, <1>5
  <1>9. ValuesOK'
    BY <1>7, <1>8 DEF ValuesOK, ValuesGood, Capacity
  <1>10. Stays(K)
    <2>1. \A n \in K : ISTERMINAL(n) => n \in LiveTerminals \cap K
      BY <1>1 DEF LiveTerminals
    <2>2. Live' = K \cup N /\ \A n \in K : node'[n] = node[n]
      BY MovedLive
    <2>3. QED
      BY <1>6, <2>1, <2>2 DEF Stays, NodesStay, Moved
  <1>11. QED
    BY <1>9, <1>10

\* A new terminal, whose value has been inserted.
LEMMA MovedNewValue ==
  ASSUME TableOK, ValuesOK, ClientOK, NEW value, FindTerminal(value) = {},
         NEW K, NEW res, NEW low,
         Moved(K, {res}, [level |-> MAXLEVEL, low |-> low, high |-> NextIndex(values)]),
         [level |-> MAXLEVEL, low |-> low, high |-> NextIndex(values)] \in Node,
         \/ values' = mtbdd_insertvalue(values, value) /\ K = Live
         \/ values' = mtbdd_delete_terminals(mtbdd_insertvalue(values, value), Live \ K)
  PROVE  /\ ValuesOK' /\ Stays(K)
         /\ res \in LiveTerminals' /\ values'.at[HIGH(res)'] = value
  <1> DEFINE index == NextIndex(values)
             new == [level |-> MAXLEVEL, low |-> low, high |-> index]
             vals == mtbdd_insertvalue(values, value)
             owned == Indices(LiveTerminals)
             left == Indices(LiveTerminals \cap K)
  <1>1. K \in SUBSET Live
    BY DEF Moved
  <1>2. ValuesGood(values, owned)
    BY DEF ValuesOK
  <1>3. /\ index \in Nat /\ index \notin owned /\ ValuesGood(vals, owned \cup {index})
        /\ vals.at[index] = value /\ \A i \in owned : vals.at[i] = values.at[i]
    <2>1. vals = mtbdd_insertvalue(values, value) /\ index = NextIndex(values)
      OBVIOUS
    <2> HIDE DEF owned, vals, index
    <2>2. QED
      BY <1>2, <2>1, InsertGood
  <1>4. /\ LiveTerminals' = (LiveTerminals \cap K) \cup {res}
        /\ \A n \in LiveTerminals \cap K : HIGH(n)' = HIGH(n) /\ node'[n] = node[n]
        /\ HIGH(res)' = index
    <2>1. new.level = MAXLEVEL /\ new.high = index
      OBVIOUS
    <2>2. Moved(K, {res}, new) /\ new \in Node
      OBVIOUS
    <2> HIDE DEF new
    <2>3. QED
      BY <2>1, <2>2, MovedTerminals
  <1>5. ValuesGood(values', left \cup {index}) /\ \A i \in left \cup {index} : values'.at[i] = vals.at[i]
    <2> DEFINE after == values'
    <2>1. Left(Live, {index}) = owned \cup {index} /\ Left(K, {index}) = left \cup {index}
      BY DEF Left, Indices, LiveTerminals
    <2>2. Swept(K, {index}, vals, after)
      BY <1>1, <1>3, <2>1 DEF Swept
    <2> HIDE DEF after, index, vals
    <2>3. Remains(K, {index}, vals, after)
      BY <2>2, SweptValues
    <2> HIDE DEF left
    <2>4. QED
      BY <2>1, <2>3 DEF Remains, after
  <1> HIDE DEF vals, index, new
  <1>6. left \subseteq owned
    BY DEF Indices
  <1>7. /\ values'.at[index] = value /\ \A i \in left : values'.at[i] = values.at[i]
        /\ \A n \in LiveTerminals \cap K : HIGH(n) \in left
    BY <1>3, <1>5, <1>6 DEF Indices
  <1>8. Indices(LiveTerminals)' = left \cup {index}
    <2>1. Indices(LiveTerminals)' = {HIGH(n)' : n \in (LiveTerminals \cap K) \cup {res}}
      BY <1>4 DEF Indices
    <2>2. QED
      BY <1>4, <2>1 DEF Indices
  <1>9. \A n \in LiveTerminals : values.at[HIGH(n)] # value
    <2>1. ASSUME NEW n \in LiveTerminals, values.at[HIGH(n)] = value PROVE FALSE
      <3>1. HIGH(n) \in 0..(values.last - 1) /\ values.last \in Nat /\ Capacity(values) \in Nat
            /\ values.last <= Capacity(values)
        BY <1>2, <2>1 DEF ValuesGood, Indices
      <3>2. HIGH(n) < Capacity(values)
        BY <3>1
      <3>3. n \in FindTerminal(value)
        BY <2>1, <3>2 DEF FindTerminal, LiveTerminals
      <3>4. QED
        BY <3>3
    <2>2. QED
      BY <2>1
  <1>10. \A m, n \in LiveTerminals' : values'.at[HIGH(m)'] = values'.at[HIGH(n)'] => m = n
    <2>1. \A n \in LiveTerminals \cap K : values'.at[HIGH(n)'] = values.at[HIGH(n)]
      BY <1>4, <1>7
    <2>2. values'.at[HIGH(res)'] = value
      BY <1>4, <1>7
    <2>3. \A m, n \in LiveTerminals : values.at[HIGH(m)] = values.at[HIGH(n)] => m = n
      BY DEF ValuesOK
    <2>4. QED
      BY <1>4, <1>9, <2>1, <2>2, <2>3
  <1>11. ValuesGood(values', Indices(LiveTerminals)')
    BY <1>5, <1>8
  <1>12. ValuesOK'
    BY <1>10, <1>11 DEF ValuesOK, ValuesGood, Capacity
  <1>13. Stays(K)
    <2>1. \A n \in K : ISTERMINAL(n) => n \in LiveTerminals \cap K
      BY <1>1 DEF LiveTerminals
    <2>2. Live' = K \cup {res} /\ \A n \in K : node'[n] = node[n]
      BY MovedLive
    <2>3. QED
      BY <1>7, <2>1, <2>2 DEF Stays, NodesStay, Moved
  <1>14. QED
    BY <1>4, <1>7, <1>12, <1>13


----------------------------------------------------------------------------
\* bdd_makenode and mtbdd_maketerminal.

\* Nothing has changed.
LEMMA NothingMoves ==
  ASSUME TableOK, ValuesOK, ClientOK, UNCHANGED tablevars
  PROVE  Stays(Live) /\ TableOK' /\ ValuesOK' /\ Live' = Live
  <1>1. node' = node /\ refcou' = refcou /\ values' = values
    BY DEF tablevars
  <1>2. Live' = Live /\ Closed(Live) /\ Survivors \subseteq Live
    BY <1>1, TableFacts, SurvivorsClosed DEF Facts, Live, Slot, Free
  <1>3. TableOK'
    BY <1>1, <1>2 DEF TableOK, Slot, Node, Free, FirstNode, InnerOK, ISTERMINAL, LEVEL, LOW, HIGH
  <1>4. LiveTerminals' = LiveTerminals
    BY <1>1, <1>2 DEF LiveTerminals, ISTERMINAL, LEVEL
  <1>5. Indices(LiveTerminals)' = Indices(LiveTerminals)
    BY <1>1, <1>4 DEF Indices, HIGH
  <1>6. ValuesOK'
    BY <1>1, <1>4, <1>5 DEF ValuesOK, ValuesGood, Capacity, HIGH
  <1>7. QED
    BY <1>1, <1>2, <1>3, <1>6 DEF Stays, NodesStay

\* A node with these children is there after a step that keeps K.
Made(level, low, high, res) ==
  IF low = high THEN res = low
  ELSE ~Leaf(res) /\ LEVEL(res) = level /\ LOW(res) = low /\ HIGH(res) = high

\* bdd_makenode is asked for a node on two protected ones.
NodeAsked(level, low, high) ==
  /\ level \in 0..(VarNum - 1) /\ low \in Survivors /\ high \in Survivors
  /\ level < LEVEL(low) /\ level < LEVEL(high)

\* The table is in order after a step; it keeps the nodes of K, which are all
\* unless it has collected.
Keeps(K, collects) ==
  /\ Stays(K) /\ TableOK' /\ ValuesOK'
  /\ collects \/ K = Live

LEMMA NodeMade ==
  ASSUME TableOK, ValuesOK, ClientOK, NEW level, NEW low, NEW high, NodeAsked(level, low, high),
         NEW res \in Slot, bdd_makenode(level, low, high, res), ~bdderrorcond'
  PROVE  \E K : /\ Keeps(K, Collecting(level, low, high))
                /\ res \in Live' /\ Made(level, low, high, res)'
  <1> USE MtbddAssumption
  <1>1. Facts
    BY TableFacts
  <1>2. /\ level \in Nat /\ level < VarNum /\ level # MAXLEVEL
        /\ low \in Survivors /\ high \in Survivors /\ Survivors \subseteq Live
        /\ low \in Live /\ high \in Live
        /\ level < LEVEL(low) /\ level < LEVEL(high)
    BY SurvivorsClosed DEF NodeAsked
  <1>3. CASE low = high
    <2>1. res = low /\ UNCHANGED tablevars
      BY <1>2, <1>3 DEF bdd_makenode
    <2>2. Stays(Live) /\ TableOK' /\ ValuesOK' /\ Live' = Live
      BY <2>1, NothingMoves
    <2>3. QED
      BY <1>2, <1>3, <2>1, <2>2 DEF Keeps, Made
  <1>4. CASE low # high /\ Matches(level, low, high) # {}
    <2>1. res \in Matches(level, low, high) /\ UNCHANGED tablevars
      BY <1>2, <1>4 DEF bdd_makenode
    <2>2. Stays(Live) /\ TableOK' /\ ValuesOK' /\ Live' = Live
      BY <2>1, NothingMoves
    <2>3. res \in Live \ {0, 1} /\ LEVEL(res) = level /\ LOW(res) = low /\ HIGH(res) = high
      BY <1>2, <2>1 DEF Matches
    <2>4. ~Leaf(res)
      BY <1>1, <1>2, <2>3 DEF Leaf, ISCONST, ISTERMINAL, Facts
    <2>5. node'[res] = node[res]
      BY <2>1 DEF tablevars
    <2>6. ~Leaf(res)' /\ LEVEL(res)' = level /\ LOW(res)' = low /\ HIGH(res)' = high
      BY <2>3, <2>4, <2>5, SameNode
    <2>7. QED
      BY <1>4, <2>2, <2>3, <2>6 DEF Keeps, Made
  <1>5. CASE low # high /\ Matches(level, low, high) = {}
    <2> DEFINE new == [level |-> level, low |-> low, high |-> high]
    <2>1. NewNode(new, values, node[0], res)
      BY <1>2, <1>5 DEF bdd_makenode
    <2>2. new \in Node /\ new.level # MAXLEVEL
      BY <1>1, <1>2 DEF Node, Facts
    <2>3. Fits(new)
      <3>1. ASSUME NEW n \in Live \ {0, 1}, node[n] = new PROVE FALSE
        <4>1. LEVEL(n) = level /\ LOW(n) = low /\ HIGH(n) = high
          BY <3>1 DEF LEVEL, LOW, HIGH
        <4>2. n \in Matches(level, low, high)
          BY <1>2, <4>1 DEF Matches
        <4>3. QED
          BY <1>5, <4>2
      <3>2. QED
        BY <1>2, <1>5, <2>2, <3>1 DEF Fits
    <2>4. PICK K : /\ Moved(K, {res}, new)
                   /\ Collecting(level, low, high) \/ K = Live
                   /\ \/ values' = values /\ K = Live
                      \/ values' = mtbdd_delete_terminals(values, Live \ K)
      <3> HIDE DEF new
      <3>1. \/ /\ Moved(Live, {res}, new) /\ values' = values /\ ~Collects
            \/ /\ Collects /\ Moved(Survivors, {res}, new)
               /\ values' = mtbdd_delete_terminals(values, Live \ Survivors)
        BY <2>1, <2>2, NewNodeMoves
      <3>2. Collects => Collecting(level, low, high)
        BY <1>5 DEF Collecting
      <3>3. QED
        BY <3>1, <3>2
    <2>5. TableOK'
      <3> HIDE DEF new
      <3>1. QED
        BY <2>3, <2>4, MovedTable
    <2>6. ValuesOK' /\ Stays(K)
      <3> HIDE DEF new
      <3>1. QED
        BY <2>2, <2>4, MovedValues
    <2>7. res \in Live' /\ node'[res] = new /\ res \notin Survivors
      <3> HIDE DEF new
      <3>1. Live' = K \cup {res} /\ node'[res] = new
        BY <2>2, <2>4, MovedLive
      <3>2. res \notin K /\ Survivors \subseteq K
        BY <2>4 DEF Moved
      <3>3. QED
        BY <3>1, <3>2
    <2>8. LEVEL(res)' = level /\ LOW(res)' = low /\ HIGH(res)' = high
      BY <2>7 DEF LEVEL, LOW, HIGH
    <2>9. ~Leaf(res)'
      <3>1. res # 0 /\ res # 1 /\ res \in Nat
        BY <1>1, <2>7 DEF Survivors, Slot
      <3>2. ~ISCONST(res)'
        BY <3>1 DEF ISCONST
      <3>3. ~ISTERMINAL(res)'
        BY <1>2, <2>8 DEF ISTERMINAL
      <3>4. QED
        BY <3>2, <3>3 DEF Leaf
    <2>10. QED
      BY <1>5, <2>4, <2>5, <2>6, <2>7, <2>8, <2>9 DEF Keeps, Made
  <1>6. QED
    BY <1>3, <1>4, <1>5

LEMMA TerminalMade ==
  ASSUME TableOK, ValuesOK, ClientOK, NEW value,
         NEW res \in Slot, mtbdd_maketerminal(value, res), ~bdderrorcond'
  PROVE  \E K : /\ Keeps(K, Collects /\ FindTerminal(value) = {})
                /\ res \in LiveTerminals' /\ values'.at[HIGH(res)'] = value
  <1> USE MtbddAssumption
  <1>1. CASE FindTerminal(value) # {}
    <2>1. res \in FindTerminal(value) /\ UNCHANGED tablevars
      BY <1>1 DEF mtbdd_maketerminal
    <2>2. Stays(Live) /\ TableOK' /\ ValuesOK' /\ Live' = Live
      BY <2>1, NothingMoves
    <2>3. res \in Live /\ ISTERMINAL(res) /\ values.at[HIGH(res)] = value
      BY <2>1 DEF FindTerminal
    <2>4. node'[res] = node[res] /\ values' = values
      BY <2>1 DEF tablevars
    <2>5. ISTERMINAL(res)' /\ HIGH(res)' = HIGH(res)
      BY <2>3, <2>4, SameNode
    <2>6. QED
      BY <2>2, <2>3, <2>4, <2>5 DEF Keeps, LiveTerminals
  <1>2. CASE FindTerminal(value) = {}
    <2> DEFINE index == NextIndex(values)
               new == [level |-> MAXLEVEL, low |-> 0, high |-> index]
               vals == mtbdd_insertvalue(values, value)
               zero == [node[0] EXCEPT !.low = 0, !.high = index]
    <2>1. NewNode(new, vals, zero, res)
      BY <1>2 DEF mtbdd_maketerminal
    <2>2. new \in Node /\ new.level = MAXLEVEL
      <3>1. index \in Nat
        BY InsertGood DEF ValuesOK
      <3>2. QED
        BY <3>1 DEF Node
    <2>3. Fits(new)
      BY <2>2 DEF Fits
    <2>4. PICK K : /\ Moved(K, {res}, new)
                   /\ Collects \/ K = Live
                   /\ \/ values' = vals /\ K = Live
                      \/ values' = mtbdd_delete_terminals(vals, Live \ K)
      <3> HIDE DEF new, vals, zero
      <3>1. \/ /\ Moved(Live, {res}, new) /\ values' = vals /\ ~Collects
            \/ /\ Collects /\ Moved(Survivors, {res}, new)
               /\ values' = mtbdd_delete_terminals(vals, Live \ Survivors)
        BY <2>1, <2>2, NewNodeMoves
      <3>2. QED
        BY <3>1
    <2>5. TableOK'
      <3> HIDE DEF new
      <3>1. QED
        BY <2>3, <2>4, MovedTable
    <2>6. ValuesOK' /\ Stays(K) /\ res \in LiveTerminals' /\ values'.at[HIGH(res)'] = value
      BY <1>2, <2>2, <2>4, MovedNewValue
    <2>7. QED
      BY <1>2, <2>4, <2>5, <2>6 DEF Keeps
  <1>3. QED
    BY <1>1, <1>2


----------------------------------------------------------------------------
\* What stays protected over a step.

LEMMA StaysSame ==
  ASSUME TableOK, NEW K, NodesStay(K), NEW n \in K
  PROVE  /\ n \in Live /\ n \in Live' /\ Children(n) \subseteq K /\ node'[n] = node[n]
         /\ LEVEL(n)' = LEVEL(n) /\ LOW(n)' = LOW(n) /\ HIGH(n)' = HIGH(n)
         /\ (ISTERMINAL(n)' <=> ISTERMINAL(n)) /\ (Leaf(n)' <=> Leaf(n))
         /\ Children(n)' = Children(n) /\ (ISCONST(n)' <=> ISCONST(n))
  <1>1. node'[n] = node[n]
    BY DEF NodesStay
  <1>2. QED
    BY <1>1, SameNode DEF NodesStay, Closed

LEMMA ReachKept ==
  ASSUME TableOK, ClientOK, NEW K, Stays(K)
  PROVE  Reach \subseteq K /\ Reach \subseteq Reach'
  <1>1. Reach \subseteq Survivors /\ Reach \subseteq K /\ Counted \subseteq Reach
    BY ReachProtected DEF Stays, NodesStay
  <1>2. ASSUME NEW n \in Reach, NEW S, S \subseteq Live', Counted' \subseteq S, Closed(S)'
        PROVE  n \in S
    <2> DEFINE R == S \cap K
    <2>1. R \subseteq Live
      BY DEF Stays, NodesStay
    <2>2. Counted \subseteq R
      <3>1. ASSUME NEW m \in Counted PROVE m \in Counted'
        <4>1. m \in K /\ refcou[m] > 0
          BY <1>1, <3>1 DEF Counted
        <4>2. refcou'[m] > 0 /\ m \in Live'
          BY <4>1 DEF Stays, NodesStay
        <4>3. QED
          BY <4>2 DEF Counted
      <3>2. QED
        BY <1>1, <1>2, <3>1
    <2>3. Closed(R)
      <3>1. ASSUME NEW m \in R PROVE Children(m) \subseteq R
        <4>1. Children(m)' = Children(m) /\ Children(m) \subseteq K
          BY StaysSame DEF Stays
        <4>2. Children(m)' \subseteq S
          BY <1>2 DEF Closed
        <4>3. QED
          BY <4>1, <4>2
      <3>2. QED
        BY <3>1 DEF Closed
    <2>4. n \in R
      BY <2>1, <2>2, <2>3 DEF Reach
    <2>5. QED
      BY <2>4
  <1>3. \A n \in Reach : n \in Live'
    BY <1>1 DEF Stays, NodesStay
  <1>4. Reach \subseteq Reach'
    BY <1>2, <1>3 DEF Reach
  <1>5. QED
    BY <1>1, <1>4

\* What the client holds stays counted.
LEMMA EdgesKept ==
  ASSUME TableOK, ClientOK, NEW K, Stays(K), TableOK', edge' = edge
  PROVE  /\ edge' \in [Names -> Live' \cup {NoNode}]
         /\ \A n \in Slot' : refcou'[n] = MaxRef \/ Cardinality({x \in Names : edge'[x] = n}) <= refcou'[n]
         /\ \A x \in Names : edge[x] # NoNode => edge[x] \in K
         /\ bddrefstack \in Seq(K) /\ K \subseteq Live'
  <1>1. Facts
    BY TableFacts
  <1>2. ASSUME NEW x \in Names, edge[x] # NoNode PROVE edge[x] \in K /\ edge[x] \in Live'
    BY <1>2, ReachProtected, ReachKept DEF Stays, NodesStay
  <1>3. edge' \in [Names -> Live' \cup {NoNode}]
    BY <1>2 DEF ClientOK
  <1>4. ASSUME NEW n \in Slot
        PROVE  refcou'[n] = MaxRef \/ Cardinality({x \in Names : edge'[x] = n}) <= refcou'[n]
    <2>1. CASE n \in K
      <3>1. refcou'[n] = refcou[n]
        BY <2>1 DEF Stays
      <3>2. QED
        BY <3>1 DEF ClientOK
    <2>2. CASE n \notin K
      <3>1. {x \in Names : edge'[x] = n} = {}
        <4>1. n # NoNode
          BY MtbddAssumption DEF Slot, NoNode
        <4>2. QED
          BY <1>2, <2>2, <4>1
      <3>2. refcou'[n] \in Nat
        BY DEF TableOK, Slot
      <3>3. QED
        BY <3>1, <3>2, FS_EmptySet
    <2>3. QED
      BY <2>1, <2>2
  <1>5. bddrefstack \in Seq(K)
    <2>1. ASSUME NEW i \in DOMAIN bddrefstack PROVE bddrefstack[i] \in K
      <3>1. bddrefstack[i] \in Live
        BY DEF ClientOK
      <3>2. bddrefstack[i] \in Roots
        BY <3>1 DEF Roots
      <3>3. QED
        BY <3>2, SurvivorsClosed DEF Stays, NodesStay
    <2>2. QED
      BY <2>1 DEF ClientOK
  <1>6. QED
    BY <1>2, <1>3, <1>4, <1>5 DEF Slot, Stays, NodesStay


----------------------------------------------------------------------------
\* The leaf a node leads to.

IsWalk(w, k, n, s) == w = [d \in 0..k |-> IF d = 0 THEN n ELSE Step(w[d - 1], s)]

LEMMA WalkExists ==
  ASSUME NEW n, NEW s, NEW k \in Nat
  PROVE  \E w : IsWalk(w, k, n, s)
  <1> DEFINE P(j) == \E w : IsWalk(w, j, n, s)
             Bad == {j \in Nat : ~P(j)}
  <1>1. P(0)
    <2> DEFINE w == [d \in 0..0 |-> n]
    <2>1. IsWalk(w, 0, n, s)
      BY DEF IsWalk
    <2>2. QED
      BY <2>1
  <1>2. ASSUME NEW j \in Nat, P(j) PROVE P(j + 1)
    <2>1. PICK v : IsWalk(v, j, n, s)
      BY <1>2
    <2> DEFINE w == [d \in 0..(j + 1) |-> IF d = j + 1 THEN Step(v[j], s) ELSE v[d]]
    <2>2. \A d \in 0..j : v[d] = IF d = 0 THEN n ELSE Step(v[d - 1], s)
      BY <2>1 DEF IsWalk
    <2>3. ASSUME NEW d \in 0..(j + 1) PROVE w[d] = IF d = 0 THEN n ELSE Step(w[d - 1], s)
      <3>1. CASE d = j + 1
        <4>1. w[d] = Step(v[j], s) /\ d - 1 = j /\ j \in 0..(j + 1) /\ j # j + 1 /\ d # 0
          BY <3>1
        <4>2. w[j] = v[j]
          BY <4>1
        <4> HIDE DEF w
        <4>3. QED
          BY <4>1, <4>2
      <3>2. CASE d # j + 1
        <4>1. d \in 0..j /\ w[d] = v[d]
          BY <3>2
        <4>2. d # 0 => d - 1 \in 0..(j + 1) /\ d - 1 # j + 1
          BY <4>1
        <4>3. d # 0 => w[d - 1] = v[d - 1]
          BY <4>2
        <4> HIDE DEF w
        <4>4. QED
          BY <2>2, <4>1, <4>3
      <3>3. QED
        BY <3>1, <3>2
    <2>4. w = [d \in 0..(j + 1) |-> w[d]]
      OBVIOUS
    <2> HIDE DEF w
    <2>5. IsWalk(w, j + 1, n, s)
      BY <2>3, <2>4 DEF IsWalk
    <2>6. QED
      BY <2>5
  <1> HIDE DEF P
  <1>3. Bad = {}
    <2>1. SUFFICES ASSUME Bad # {} PROVE FALSE
      OBVIOUS
    <2>2. PICK j \in Bad : \A i \in Bad : j <= i
      BY <2>1, LeastNatural
    <2>3. j \in Nat /\ j # 0 /\ ~P(j)
      BY <1>1, <2>2
    <2>4. j - 1 \in Nat /\ j - 1 \notin Bad /\ (j - 1) + 1 = j
      BY <2>2, <2>3
    <2>5. P(j - 1)
      BY <2>4
    <2>6. QED
      BY <1>2, <2>3, <2>4, <2>5
  <1>4. P(k)
    BY <1>3
  <1>5. QED
    BY <1>4 DEF P

LEMMA WalkUnique ==
  ASSUME NEW n, NEW s, NEW k \in Nat, NEW v, NEW w, IsWalk(v, k, n, s), IsWalk(w, k, n, s)
  PROVE  v = w
  <1> DEFINE Bad == {d \in 0..k : v[d] # w[d]}
  <1>1. \A d \in 0..k : /\ v[d] = IF d = 0 THEN n ELSE Step(v[d - 1], s)
                        /\ w[d] = IF d = 0 THEN n ELSE Step(w[d - 1], s)
    BY DEF IsWalk
  <1>2. v = [d \in 0..k |-> v[d]] /\ w = [d \in 0..k |-> w[d]]
    BY DEF IsWalk
  <1>3. Bad = {}
    <2>1. SUFFICES ASSUME Bad # {} PROVE FALSE
      OBVIOUS
    <2>2. Bad \in SUBSET Nat
      OBVIOUS
    <2> HIDE DEF Bad
    <2>3. PICK d \in Bad : \A i \in Bad : d <= i
      BY <2>1, <2>2, LeastNatural
    <2>4. d \in 0..k /\ v[d] # w[d]
      BY <2>3 DEF Bad
    <2>5. d # 0
      BY <1>1, <2>4
    <2>6. d - 1 \in 0..k /\ ~(d <= d - 1)
      BY <2>4, <2>5
    <2>7. v[d - 1] = w[d - 1]
      BY <2>3, <2>6 DEF Bad
    <2>8. QED
      BY <1>1, <2>4, <2>5, <2>7
  <1>4. \A d \in 0..k : v[d] = w[d]
    BY <1>3
  <1>5. QED
    BY <1>2, <1>4

LEMMA MeaningOfWalk ==
  ASSUME NEW n, NEW s \in Assignments, NEW w, IsWalk(w, VarNum, n, s)
  PROVE  Meaning(n)[s] = Leaves(w[VarNum])
  <1> DEFINE walk[d \in 0..VarNum] == IF d = 0 THEN n ELSE Step(walk[d - 1], s)
  <1>1. Meaning(n)[s] = Leaves(walk[VarNum])
    BY DEF Meaning
  <1>2. \E v : v = [d \in 0..VarNum |-> IF d = 0 THEN n ELSE Step(v[d - 1], s)]
    BY DEF IsWalk
  <1>3. walk = [d \in 0..VarNum |-> IF d = 0 THEN n ELSE Step(walk[d - 1], s)]
    BY <1>2, Zenon
  <1> HIDE DEF walk
  <1>4. IsWalk(walk, VarNum, n, s) /\ VarNum \in Nat
    BY <1>3, MtbddAssumption DEF IsWalk
  <1>5. walk = w
    BY <1>4, WalkUnique
  <1>6. QED
    BY <1>1, <1>5


\* After d steps a walk is d levels down, or at a leaf.
LEMMA WalkDown ==
  ASSUME TableOK, NEW n \in Live, NEW s, NEW k \in Nat, NEW w, IsWalk(w, k, n, s)
  PROVE  \A d \in 0..k : w[d] \in Live /\ (Leaf(w[d]) \/ d <= LEVEL(w[d]))
  <1> DEFINE Down(d) == w[d] \in Live /\ (Leaf(w[d]) \/ d <= LEVEL(w[d]))
             Bad == {d \in 0..k : ~Down(d)}
  <1>1. \A d \in 0..k : w[d] = IF d = 0 THEN n ELSE Step(w[d - 1], s)
    BY DEF IsWalk
  <1>2. Down(0)
    <2>1. w[0] = n
      BY <1>1
    <2>2. ~Leaf(n) => LEVEL(n) \in 0..(VarNum - 1)
      BY InnerNode
    <2>3. QED
      BY <2>1, <2>2
  <1>3. ASSUME NEW d \in 0..k, d # 0, Down(d - 1) PROVE Down(d)
    <2> DEFINE m == w[d - 1]
    <2>1. w[d] = Step(m, s) /\ m \in Live /\ (Leaf(m) \/ d - 1 <= LEVEL(m))
      BY <1>1, <1>3
    <2> HIDE DEF m
    <2>2. CASE Leaf(m)
      BY <2>1, <2>2 DEF Step
    <2>3. CASE ~Leaf(m)
      <3>1. /\ LOW(m) \in Live /\ HIGH(m) \in Live /\ LEVEL(m) \in 0..(VarNum - 1)
            /\ LEVEL(m) < LEVEL(LOW(m)) /\ LEVEL(m) < LEVEL(HIGH(m))
        BY <2>1, <2>3, InnerNode
      <3>2. LEVEL(LOW(m)) \in Nat /\ LEVEL(HIGH(m)) \in Nat
        BY <3>1, TableFacts DEF Facts
      <3>3. d - 1 < LEVEL(LOW(m)) /\ d - 1 < LEVEL(HIGH(m))
        BY <2>1, <2>3, <3>1, <3>2
      <3>4. w[d] = LOW(m) \/ w[d] = HIGH(m)
        BY <2>1, <2>3 DEF Step
      <3>5. QED
        BY <3>1, <3>2, <3>3, <3>4
    <2>4. QED
      BY <2>2, <2>3
  <1> HIDE DEF Down
  <1>4. SUFFICES ASSUME Bad # {} PROVE FALSE
    BY DEF Down
  <1>5. Bad \in SUBSET Nat
    OBVIOUS
  <1>6. PICK d \in Bad : \A i \in Bad : d <= i
    <2> HIDE DEF Bad
    <2>1. QED
      BY <1>4, <1>5, LeastNatural
  <1>7. d \in 0..k /\ ~Down(d) /\ d # 0
    BY <1>2, <1>6
  <1>8. d - 1 \in 0..k /\ d - 1 \notin Bad
    BY <1>6, <1>7
  <1>9. Down(d - 1)
    BY <1>8
  <1>10. QED
    BY <1>3, <1>7, <1>9

\* What the diagram of a leaf says, and that of another node.
LEMMA MeaningLeaf ==
  ASSUME NEW n, Leaf(n), NEW s \in Assignments
  PROVE  Meaning(n)[s] = Leaves(n)
  <1> DEFINE w == [d \in 0..VarNum |-> n]
  <1>1. VarNum \in Nat
    BY MtbddAssumption
  <1>2. IsWalk(w, VarNum, n, s) /\ w[VarNum] = n
    BY <1>1 DEF IsWalk, Step
  <1> HIDE DEF w
  <1>3. QED
    BY <1>2, MeaningOfWalk

LEMMA MeaningInner ==
  ASSUME TableOK, NEW n \in Live, ~Leaf(n), NEW s \in Assignments
  PROVE  Meaning(n)[s] = Meaning(IF LEVEL(n) \in s THEN HIGH(n) ELSE LOW(n))[s]
  <1> DEFINE c == IF LEVEL(n) \in s THEN HIGH(n) ELSE LOW(n)
  <1>1. VarNum \in Nat /\ VarNum # 0
    BY MtbddAssumption
  <1>2. c \in Live /\ Step(n, s) = c
    BY InnerNode DEF Step
  <1> HIDE DEF c
  <1>3. PICK v : IsWalk(v, VarNum, c, s)
    BY <1>1, WalkExists
  <1> DEFINE w == [d \in 0..VarNum |-> IF d = 0 THEN n ELSE v[d - 1]]
  <1>4. \A d \in 0..VarNum : v[d] = IF d = 0 THEN c ELSE Step(v[d - 1], s)
    BY <1>3 DEF IsWalk
  <1>5. ASSUME NEW d \in 0..VarNum PROVE w[d] = IF d = 0 THEN n ELSE Step(w[d - 1], s)
    <2>1. CASE d = 0
      BY <2>1
    <2>2. CASE d = 1
      <3>1. w[1] = v[0] /\ w[0] = n /\ v[0] = c
        BY <1>1, <1>4
      <3> HIDE DEF w
      <3>2. QED
        BY <1>2, <2>2, <3>1
    <2>3. CASE d # 0 /\ d # 1
      <3>1. d - 1 \in 0..VarNum /\ d - 1 # 0 /\ (d - 1) - 1 \in 0..VarNum
        BY <1>1, <2>3
      <3>2. w[d] = v[d - 1] /\ w[d - 1] = v[(d - 1) - 1]
        BY <2>3, <3>1
      <3>3. v[d - 1] = Step(v[(d - 1) - 1], s)
        BY <1>4, <3>1
      <3> HIDE DEF w
      <3>4. QED
        BY <2>3, <3>2, <3>3
    <2>4. QED
      BY <2>1, <2>2, <2>3
  <1>6. w = [d \in 0..VarNum |-> w[d]] /\ w[VarNum] = v[VarNum - 1]
    BY <1>1
  <1> HIDE DEF w
  <1>7. IsWalk(w, VarNum, n, s)
    BY <1>5, <1>6 DEF IsWalk
  <1>8. Leaf(w[VarNum])
    <2>1. VarNum \in 0..VarNum
      BY <1>1
    <2>2. w[VarNum] \in Live /\ (Leaf(w[VarNum]) \/ VarNum <= LEVEL(w[VarNum]))
      BY <1>1, <1>7, <2>1, WalkDown
    <2>3. ASSUME ~Leaf(w[VarNum]) PROVE FALSE
      BY <1>1, <2>2, <2>3, InnerNode
    <2>4. QED
      BY <2>3
  <1>9. v[VarNum] = w[VarNum]
    <2>1. v[VarNum] = Step(v[VarNum - 1], s)
      BY <1>1, <1>4
    <2>2. QED
      BY <1>6, <1>8, <2>1 DEF Step
  <1>10. Meaning(n)[s] = Leaves(w[VarNum]) /\ Meaning(c)[s] = Leaves(v[VarNum])
    BY <1>3, <1>7, MeaningOfWalk
  <1>11. QED
    BY <1>9, <1>10 DEF c

\* The function of a node, from those of its children.
Unfolds ==
  /\ \A n : Meaning(n) = [s \in Assignments |-> Meaning(n)[s]]
  /\ \A n : Leaf(n) => \A s \in Assignments : Meaning(n)[s] = Leaves(n)
  /\ \A n \in Live : ~Leaf(n) => \A s \in Assignments :
       /\ LEVEL(n) \in s => Meaning(n)[s] = Meaning(HIGH(n))[s]
       /\ LEVEL(n) \notin s => Meaning(n)[s] = Meaning(LOW(n))[s]

LEMMA MeaningUnfolds == TableOK => Unfolds
  <1> SUFFICES ASSUME TableOK PROVE Unfolds
    OBVIOUS
  <1>1. ASSUME NEW n PROVE Meaning(n) = [s \in Assignments |-> Meaning(n)[s]]
    <2> DEFINE walk(s) == CHOOSE w : w = [d \in 0..VarNum |-> IF d = 0 THEN n ELSE Step(w[d - 1], s)]
               L(s) == Leaves(walk(s)[VarNum])
    <2>1. Meaning(n) = [s \in Assignments |-> L(s)]
      BY DEF Meaning
    <2> HIDE DEF L
    <2>2. QED
      BY <2>1
  <1>2. ASSUME NEW n \in Live, ~Leaf(n), NEW s \in Assignments
        PROVE  /\ LEVEL(n) \in s => Meaning(n)[s] = Meaning(HIGH(n))[s]
               /\ LEVEL(n) \notin s => Meaning(n)[s] = Meaning(LOW(n))[s]
    <2>1. Meaning(n)[s] = Meaning(IF LEVEL(n) \in s THEN HIGH(n) ELSE LOW(n))[s]
      BY <1>2, MeaningInner
    <2>2. QED
      BY <2>1
  <1>3. QED
    BY <1>1, <1>2, MeaningLeaf DEF Unfolds

LEMMA MeaningUnfoldsNext == TableOK' => Unfolds'
  BY MeaningUnfolds, PTL

\* The functions of two nodes, point by point.
LEMMA SameFunction ==
  ASSUME TableOK, NEW m, NEW n, \A s \in Assignments : Meaning(m)[s] = Meaning(n)[s]
  PROVE  Meaning(m) = Meaning(n)
  BY MeaningUnfolds DEF Unfolds

\* A node stands for the same function before and after a step.
LEMMA MeaningKept ==
  ASSUME TableOK, NEW K, NodesStay(K), TableOK', NEW n \in K
  PROVE  Meaning(n)' = Meaning(n)
  <1> DEFINE P == {m \in K : \A s \in Assignments : Meaning(m)'[s] = Meaning(m)[s]}
  <1>0. Assignments' = Assignments
    BY DEF Assignments
  <1>1. ASSUME NEW m \in K, Children(m) \subseteq P PROVE m \in P
    <2>0. /\ m \in Live /\ m \in Live' /\ LEVEL(m)' = LEVEL(m) /\ LOW(m)' = LOW(m) /\ HIGH(m)' = HIGH(m)
          /\ (ISTERMINAL(m)' <=> ISTERMINAL(m)) /\ (Leaf(m)' <=> Leaf(m)) /\ (ISCONST(m)' <=> ISCONST(m))
      BY StaysSame
    <2>1. CASE Leaf(m)
      <3>1. \A s \in Assignments : Meaning(m)[s] = Leaves(m)
        BY <2>1, MeaningUnfolds DEF Unfolds
      <3>2. \A s \in Assignments : Meaning(m)'[s] = Leaves(m)'
        BY <1>0, <2>0, <2>1, MeaningUnfoldsNext DEF Unfolds
      <3>3. Leaves(m)' = Leaves(m)
        <4>1. ISTERMINAL(m) => values'.at[HIGH(m)] = values.at[HIGH(m)]
          BY DEF NodesStay
        <4>2. ISCONST(m) \/ ISTERMINAL(m)
          BY <2>1 DEF Leaf
        <4>3. QED
          BY <2>0, <4>1, <4>2 DEF Leaves, Value
      <3>4. QED
        BY <3>1, <3>2, <3>3
    <2>2. CASE ~Leaf(m)
      <3>1. PICK h, l : h = HIGH(m) /\ l = LOW(m)
        OBVIOUS
      <3>2. h \in P /\ l \in P
        BY <1>1, <2>0, <2>2, <3>1, InnerNode
      <3>3. ASSUME NEW s \in Assignments PROVE Meaning(m)'[s] = Meaning(m)[s]
        <4>1. /\ LEVEL(m) \in s => Meaning(m)[s] = Meaning(h)[s]
              /\ LEVEL(m) \notin s => Meaning(m)[s] = Meaning(l)[s]
          BY <2>0, <2>2, <3>1, MeaningUnfolds DEF Unfolds
        <4>2. /\ LEVEL(m)' \in s => Meaning(m)'[s] = Meaning(h)'[s]
              /\ LEVEL(m)' \notin s => Meaning(m)'[s] = Meaning(l)'[s]
          BY <1>0, <2>0, <2>2, <3>1, MeaningUnfoldsNext DEF Unfolds
        <4>3. QED
          BY <2>0, <3>2, <4>1, <4>2
      <3>4. QED
        BY <3>3
    <2>3. QED
      BY <2>1, <2>2
  <1>2. K \subseteq P
    <2>1. K \in SUBSET Live /\ Closed(K)
      BY DEF NodesStay
    <2> HIDE DEF P
    <2>2. QED
      BY <1>1, <2>1, LevelInduction
  <1>3. \A s \in Assignments : Meaning(n)'[s] = Meaning(n)[s]
    BY <1>2
  <1>4. /\ Meaning(n) = [s \in Assignments |-> Meaning(n)[s]]
        /\ Meaning(n)' = [s \in Assignments |-> Meaning(n)'[s]]
    BY <1>0, MeaningUnfolds, MeaningUnfoldsNext DEF Unfolds
  <1>5. QED
    BY <1>3, <1>4


----------------------------------------------------------------------------
\* Equal functions have equal nodes.

\* A variable above a node does not matter to its function.
LEMMA MeaningIndependent ==
  ASSUME TableOK, NEW l \in 0..(VarNum - 1), NEW n \in Live, Leaf(n) \/ l < LEVEL(n),
         NEW s \in Assignments
  PROVE  Meaning(n)[s \cup {l}] = Meaning(n)[s] /\ Meaning(n)[s \ {l}] = Meaning(n)[s]
  <1> DEFINE Same(m) == \A t \in Assignments : /\ Meaning(m)[t \cup {l}] = Meaning(m)[t]
                                               /\ Meaning(m)[t \ {l}] = Meaning(m)[t]
             P == {m \in Live : Leaf(m) \/ l < LEVEL(m) => Same(m)}
  <1>1. \A t \in Assignments : t \cup {l} \in Assignments /\ t \ {l} \in Assignments
    BY DEF Assignments
  <1>2. ASSUME NEW m \in Live, Children(m) \subseteq P PROVE m \in P
    <2>1. CASE Leaf(m)
      <3>1. \A t \in Assignments : Meaning(m)[t] = Leaves(m)
        BY <2>1, MeaningUnfolds DEF Unfolds
      <3>2. Same(m)
        BY <1>1, <3>1
      <3>3. QED
        BY <3>2
    <2>2. CASE ~Leaf(m) /\ l < LEVEL(m)
      <3>1. /\ LEVEL(m) \in 0..(VarNum - 1) /\ LOW(m) \in Live /\ HIGH(m) \in Live
            /\ LEVEL(m) < LEVEL(LOW(m)) /\ LEVEL(m) < LEVEL(HIGH(m))
            /\ LOW(m) \in P /\ HIGH(m) \in P
        BY <1>2, <2>2, InnerNode
      <3>2. l < LEVEL(LOW(m)) /\ l < LEVEL(HIGH(m)) /\ l # LEVEL(m)
        BY <2>2, <3>1, MtbddAssumption, TableFacts DEF Facts
      <3>3. Same(LOW(m)) /\ Same(HIGH(m))
        BY <3>1, <3>2
      <3>4. ASSUME NEW t \in Assignments PROVE /\ Meaning(m)[t \cup {l}] = Meaning(m)[t]
                                               /\ Meaning(m)[t \ {l}] = Meaning(m)[t]
        <4>1. \A u \in Assignments : /\ LEVEL(m) \in u => Meaning(m)[u] = Meaning(HIGH(m))[u]
                                     /\ LEVEL(m) \notin u => Meaning(m)[u] = Meaning(LOW(m))[u]
          BY <2>2, MeaningUnfolds DEF Unfolds
        <4>2. t \cup {l} \in Assignments /\ t \ {l} \in Assignments
          BY <1>1
        <4>3. CASE LEVEL(m) \in t
          <5>1. LEVEL(m) \in t \cup {l} /\ LEVEL(m) \in t \ {l}
            BY <3>2, <4>3
          <5>2. QED
            BY <3>3, <4>1, <4>2, <4>3, <5>1
        <4>4. CASE LEVEL(m) \notin t
          <5>1. LEVEL(m) \notin t \cup {l} /\ LEVEL(m) \notin t \ {l}
            BY <3>2, <4>4
          <5>2. QED
            BY <3>3, <4>1, <4>2, <4>4, <5>1
        <4>5. QED
          BY <4>3, <4>4
      <3>5. QED
        BY <3>4
    <2>3. QED
      BY <2>1, <2>2
  <1>3. Live \subseteq P
    <2>1. Closed(Live)
      BY TableFacts DEF Facts
    <2> HIDE DEF P
    <2>2. QED
      BY <1>2, <2>1, LevelInduction
  <1>4. Same(n)
    BY <1>3
  <1>5. QED
    BY <1>4

\* The functions of a node's children, from its own.
LEMMA ChildMeaning ==
  ASSUME TableOK, NEW n \in Live, ~Leaf(n), NEW s \in Assignments
  PROVE  /\ Meaning(HIGH(n))[s] = Meaning(n)[s \cup {LEVEL(n)}]
         /\ Meaning(LOW(n))[s] = Meaning(n)[s \ {LEVEL(n)}]
  <1> DEFINE l == LEVEL(n)
  <1>1. /\ l \in 0..(VarNum - 1) /\ LOW(n) \in Live /\ HIGH(n) \in Live
        /\ l < LEVEL(LOW(n)) /\ l < LEVEL(HIGH(n))
    BY InnerNode
  <1>2. s \cup {l} \in Assignments /\ s \ {l} \in Assignments
    BY <1>1 DEF Assignments
  <1>3. Meaning(n)[s \cup {l}] = Meaning(HIGH(n))[s \cup {l}] /\ Meaning(n)[s \ {l}] = Meaning(LOW(n))[s \ {l}]
    BY <1>2, MeaningUnfolds DEF Unfolds
  <1>4. Meaning(HIGH(n))[s \cup {l}] = Meaning(HIGH(n))[s] /\ Meaning(LOW(n))[s \ {l}] = Meaning(LOW(n))[s]
    BY <1>1, MeaningIndependent
  <1>5. QED
    BY <1>3, <1>4

\* A node whose function is that of a node that its variable does not matter
\* to has children with that function.
LEMMA RedundantMeaning ==
  ASSUME TableOK, NEW n \in Live, ~Leaf(n), NEW m \in Live, Leaf(m) \/ LEVEL(n) < LEVEL(m),
         Meaning(m) = Meaning(n)
  PROVE  Meaning(LOW(n)) = Meaning(m) /\ Meaning(HIGH(n)) = Meaning(m)
  <1>1. LEVEL(n) \in 0..(VarNum - 1)
    BY InnerNode
  <1>2. ASSUME NEW s \in Assignments
        PROVE  Meaning(LOW(n))[s] = Meaning(m)[s] /\ Meaning(HIGH(n))[s] = Meaning(m)[s]
    <2>1. Meaning(m)[s \cup {LEVEL(n)}] = Meaning(m)[s] /\ Meaning(m)[s \ {LEVEL(n)}] = Meaning(m)[s]
      BY <1>1, MeaningIndependent
    <2>2. QED
      BY <2>1, ChildMeaning
  <1>3. QED
    BY <1>2, SameFunction

\* Two leaves.
LEMMA DistinctLeaves ==
  ASSUME TableOK, ValuesOK, NEW m \in Live, NEW n \in Live, Leaf(m), Leaf(n), Meaning(m) = Meaning(n)
  PROVE  m = n
  <1>1. {} \in Assignments
    BY DEF Assignments
  <1>2. Leaves(m) = Leaves(n)
    BY <1>1, MeaningUnfolds DEF Unfolds
  <1>3. CASE ISCONST(m) /\ ISCONST(n)
    BY <1>2, <1>3 DEF Leaves
  <1>4. CASE ~ISCONST(m) /\ ~ISCONST(n)
    <2>1. m \in LiveTerminals /\ n \in LiveTerminals
      BY <1>4 DEF Leaf, LiveTerminals
    <2>2. values.at[HIGH(m)] = values.at[HIGH(n)]
      BY <1>2, <1>4 DEF Leaves, Value
    <2>3. QED
      BY <2>1, <2>2 DEF ValuesOK
  <1>5. CASE ISCONST(m) /\ ~ISCONST(n)
    BY <1>2, <1>5 DEF Leaves, Value
  <1>6. CASE ~ISCONST(m) /\ ISCONST(n)
    BY <1>2, <1>6 DEF Leaves, Value
  <1>7. QED
    BY <1>3, <1>4, <1>5, <1>6

\* Nodes with equal functions are one.
LEMMA MeaningDistinguishes ==
  ASSUME TableOK, ValuesOK, NEW m \in Live, NEW n \in Live, Meaning(m) = Meaning(n)
  PROVE  m = n
  <1> DEFINE Alone(a) == \A b \in Live : Meaning(a) = Meaning(b) => a = b
             P == {a \in Live : Alone(a)}
  <1>0. Closed(Live) /\ Live \subseteq Nat /\ \A a \in Live : LEVEL(a) \in Nat
    BY TableFacts DEF Facts
  <1>1. ASSUME NEW a \in Live, Children(a) \subseteq P PROVE a \in P
    <2> DEFINE Q == {b \in Live : Meaning(a) = Meaning(b) => a = b}
    <2>1. ASSUME NEW b \in Live, Children(b) \subseteq Q, Meaning(a) = Meaning(b) PROVE a = b
      <3>1. CASE Leaf(a) /\ Leaf(b)
        BY <2>1, <3>1, DistinctLeaves
      <3>2. CASE ~Leaf(a) /\ (Leaf(b) \/ LEVEL(a) < LEVEL(b))
        <4>1. Meaning(LOW(a)) = Meaning(b) /\ Meaning(HIGH(a)) = Meaning(b)
          BY <2>1, <3>2, RedundantMeaning
        <4>2. LOW(a) \in P /\ LOW(a) # HIGH(a) /\ HIGH(a) \in Live
          BY <1>1, <3>2, InnerNode
        <4>3. QED
          BY <4>1, <4>2
      <3>3. CASE ~Leaf(b) /\ (Leaf(a) \/ LEVEL(b) < LEVEL(a))
        <4>1. Meaning(LOW(b)) = Meaning(a) /\ Meaning(HIGH(b)) = Meaning(a)
          BY <2>1, <3>3, RedundantMeaning
        <4>2. LOW(b) \in Q /\ HIGH(b) \in Q /\ LOW(b) # HIGH(b)
          BY <2>1, <3>3, InnerNode
        <4>3. QED
          BY <4>1, <4>2
      <3>4. CASE ~Leaf(a) /\ ~Leaf(b) /\ LEVEL(a) = LEVEL(b)
        <4>1. /\ LOW(a) \in P /\ HIGH(a) \in P /\ LOW(b) \in Live /\ HIGH(b) \in Live
              /\ a \in Live \ {0, 1} /\ b \in Live \ {0, 1} /\ ~ISTERMINAL(a)
          BY <1>1, <3>4, InnerNode
        <4>2. ASSUME NEW s \in Assignments
              PROVE  /\ Meaning(LOW(a))[s] = Meaning(LOW(b))[s]
                     /\ Meaning(HIGH(a))[s] = Meaning(HIGH(b))[s]
          <5> HIDE DEF P, Q
          <5>1. a \in Live /\ b \in Live
            BY <1>1, <2>1
          <5>2. /\ Meaning(HIGH(a))[s] = Meaning(a)[s \cup {LEVEL(a)}]
                /\ Meaning(LOW(a))[s] = Meaning(a)[s \ {LEVEL(a)}]
            BY <3>4, <5>1, ChildMeaning
          <5>3. /\ Meaning(HIGH(b))[s] = Meaning(b)[s \cup {LEVEL(b)}]
                /\ Meaning(LOW(b))[s] = Meaning(b)[s \ {LEVEL(b)}]
            BY <3>4, <5>1, ChildMeaning
          <5>4. QED
            BY <2>1, <3>4, <5>2, <5>3
        <4>3. LOW(a) = LOW(b) /\ HIGH(a) = HIGH(b)
          <5>1. Meaning(LOW(a)) = Meaning(LOW(b)) /\ Meaning(HIGH(a)) = Meaning(HIGH(b))
            BY <4>2, SameFunction
          <5>2. QED
            BY <4>1, <5>1
        <4>4. node[a] = node[b]
          <5>1. node[a] \in Node /\ node[b] \in Node
            BY TableFacts DEF Facts
          <5>2. QED
            BY <3>4, <4>3, <5>1 DEF Node, LEVEL, LOW, HIGH
        <4>5. QED
          BY <4>1, <4>4 DEF TableOK
      <3>5. QED
        BY <1>0, <3>1, <3>2, <3>3, <3>4
    <2>2. \A b \in Live : Children(b) \subseteq Q => b \in Q
      BY <2>1
    <2>3. Live \subseteq Q
      <3> HIDE DEF Q
      <3>1. QED
        BY <1>0, <2>2, LevelInduction
    <2>4. QED
      BY <2>3
  <1>2. Live \subseteq P
    <2> HIDE DEF P
    <2>1. QED
      BY <1>0, <1>1, LevelInduction
  <1>3. QED
    BY <1>2


\* As many values as arguments, if they are all different.
LEMMA InjectiveImage ==
  ASSUME NEW S, IsFiniteSet(S), NEW f, f = [x \in S |-> f[x]],
         \A x, y \in S : f[x] = f[y] => x = y
  PROVE  Cardinality({f[x] : x \in S}) = Cardinality(S)
  <1> DEFINE T == {f[x] : x \in S}
  <1>1. f \in [S -> T]
    <2>1. \A x \in S : f[x] \in T
      OBVIOUS
    <2> HIDE DEF T
    <2>2. QED
      BY <2>1
  <1>2. f \in Bijection(S, T)
    BY <1>1 DEF Bijection, Injection, IsInjective, Surjection
  <1>3. ExistsBijection(S, T)
    BY <1>2 DEF ExistsBijection
  <1> HIDE DEF T
  <1>4. QED
    BY <1>3, FS_Bijection DEF T

\* There are as many functions as nodes.
LEMMA FunctionsCounted ==
  ASSUME TableOK, ValuesOK
  PROVE  Cardinality({Meaning(n) : n \in Live}) = Cardinality(Live)
  <1> DEFINE f == [n \in Live |-> Meaning(n)]
  <1>1. IsFiniteSet(Live)
    <2>1. Live \in SUBSET Slot
      BY DEF Live
    <2>2. QED
      BY <2>1, InOrderRight
  <1>2. \A m, n \in Live : Meaning(m) = Meaning(n) => m = n
    BY MeaningDistinguishes
  <1>3. /\ f = [n \in Live |-> f[n]] /\ \A m, n \in Live : f[m] = f[n] => m = n
        /\ \A n \in Live : f[n] = Meaning(n)
    BY <1>2
  <1> HIDE DEF f
  <1>4. Cardinality({f[n] : n \in Live}) = Cardinality(Live)
    BY <1>1, <1>3, InjectiveImage
  <1>5. {f[n] : n \in Live} = {Meaning(n) : n \in Live}
    BY <1>3
  <1>6. QED
    BY <1>4, <1>5

\* The indices are counted as the invariant of the runs has them.
LEMMA SlotsCounted ==
  ASSUME TableOK, ValuesOK
  PROVE  LET owned == {HIGH(n) : n \in LiveTerminals}
             stacked == {values.top[i] : i \in DOMAIN values.top}
         IN  /\ Cardinality(owned) = Cardinality(LiveTerminals)
             /\ Cardinality(stacked) = Len(values.top)
             /\ owned \cap stacked = {}
             /\ owned \cup stacked = 0..(values.last - 1)
             /\ values.used = Cardinality(owned)
  <1> DEFINE owned == {HIGH(n) : n \in LiveTerminals}
             top == values.top
             stacked == {top[i] : i \in DOMAIN top}
  <1>1. ValuesGood(values, owned)
    BY DEF ValuesOK, Indices
  <1>2. Cardinality(owned) = Cardinality(LiveTerminals)
    <2> DEFINE f == [n \in LiveTerminals |-> HIGH(n)]
    <2>1. LiveTerminals \in SUBSET Slot
      BY DEF LiveTerminals, Live
    <2>2. IsFiniteSet(LiveTerminals)
      BY <2>1, InOrderRight
    <2>3. \A m, n \in LiveTerminals : HIGH(m) = HIGH(n) => m = n
      BY TerminalIndices
    <2>4. /\ f = [n \in LiveTerminals |-> f[n]] /\ \A m, n \in LiveTerminals : f[m] = f[n] => m = n
          /\ \A n \in LiveTerminals : f[n] = HIGH(n)
      BY <2>3
    <2> HIDE DEF f
    <2>5. Cardinality({f[n] : n \in LiveTerminals}) = Cardinality(LiveTerminals)
      BY <2>2, <2>4, InjectiveImage
    <2>6. {f[n] : n \in LiveTerminals} = owned
      BY <2>4
    <2>7. QED
      BY <2>5, <2>6
  <1>3. /\ top \in Seq(Nat) /\ \A i, j \in DOMAIN top : top[i] = top[j] => i = j
        /\ \A i \in DOMAIN top : top[i] \notin owned /\ top[i] < values.last
        /\ \A i \in 0..(values.last - 1) : i \in owned \/ \E j \in DOMAIN top : top[j] = i
        /\ owned \subseteq 0..(values.last - 1) /\ values.last \in Nat
        /\ values.used = Cardinality(owned)
    BY <1>1 DEF ValuesGood
  <1> HIDE DEF owned, top
  <1>4. Cardinality(stacked) = Len(top)
    <2>1. Len(top) \in Nat /\ DOMAIN top = 1..Len(top) /\ top = [i \in 1..Len(top) |-> top[i]]
      BY <1>3
    <2>2. IsFiniteSet(1..Len(top)) /\ Cardinality(1..Len(top)) = Len(top)
      BY <2>1, FS_Interval
    <2>3. Cardinality({top[i] : i \in 1..Len(top)}) = Len(top)
      BY <1>3, <2>1, <2>2, InjectiveImage
    <2>4. QED
      BY <2>1, <2>3
  <1>5. owned \cap stacked = {}
    BY <1>3
  <1>6. owned \cup stacked = 0..(values.last - 1)
    <2>1. \A i \in DOMAIN top : top[i] \in Nat
      BY <1>3
    <2>2. \A i \in DOMAIN top : top[i] \in 0..(values.last - 1)
      BY <1>3, <2>1
    <2>3. stacked \subseteq 0..(values.last - 1)
      BY <2>2
    <2>4. 0..(values.last - 1) \subseteq owned \cup stacked
      BY <1>3
    <2> HIDE DEF stacked
    <2>5. QED
      BY <1>3, <2>3, <2>4
  <1>7. QED
    BY <1>2, <1>3, <1>4, <1>5, <1>6 DEF owned, top


----------------------------------------------------------------------------
\* Operands and results.

LEMMA OperandsRange ==
  ASSUME NEW op, NEW S, NEW args \in Operands(op, S)
  PROVE  /\ Len(args) \in {1, 2, 3} /\ DOMAIN args = 1..Len(args) /\ 1 \in DOMAIN args
         /\ \A i \in DOMAIN args : args[i] \in S
         /\ args = [i \in DOMAIN args |-> args[i]]
         /\ op = "ite" => DOMAIN args = {1, 2, 3}
  <1>1. args \in Seq(S) /\ Len(args) \in {1, 2, 3} /\ (op = "ite" => Len(args) = 3)
    BY DEF Operands
  <1>2. DOMAIN args = 1..Len(args) /\ args = [i \in 1..Len(args) |-> args[i]]
        /\ \A i \in 1..Len(args) : args[i] \in S
    BY <1>1
  <1>3. 1 \in 1..Len(args) /\ (Len(args) = 3 => 1..Len(args) = {1, 2, 3})
    <2>1. 1..3 = {1, 2, 3} /\ 1 \in 1..1 /\ 1 \in 1..2 /\ 1 \in 1..3
      OBVIOUS
    <2>2. QED
      BY <1>1, <2>1
  <1>4. QED
    BY <1>1, <1>2, <1>3

\* The least level among those of the operands.
IsTop(args, l) ==
  /\ l \in Nat /\ \E i \in DOMAIN args : l = LEVEL(args[i])
  /\ \A i \in DOMAIN args : LEVEL(args[i]) \in Nat /\ l <= LEVEL(args[i])

Tops == \A op : \A args \in Operands(op, Live) : IsTop(args, TopLevel(args))

LEMMA TopsRight == TableOK => Tops
  <1> SUFFICES ASSUME TableOK, NEW op, NEW args \in Operands(op, Live)
               PROVE  IsTop(args, TopLevel(args))
    BY DEF Tops
  <1> DEFINE T == {LEVEL(args[i]) : i \in DOMAIN args}
  <1>1. \A i \in DOMAIN args : LEVEL(args[i]) \in Nat
    BY OperandsRange, TableFacts DEF Facts
  <1>2. T \in SUBSET Nat /\ T # {}
    BY <1>1, OperandsRange
  <1>3. \E l \in T : \A m \in T : l <= m
    <2> HIDE DEF T
    <2>1. QED
      BY <1>2, LeastNatural
  <1>4. \E l \in T : \A i \in DOMAIN args : l <= LEVEL(args[i])
    BY <1>3
  <1>5. TopLevel(args) \in T /\ \A i \in DOMAIN args : TopLevel(args) <= LEVEL(args[i])
    BY <1>4, Zenon DEF TopLevel
  <1> HIDE DEF T
  <1>6. TopLevel(args) \in Nat
    BY <1>2, <1>5
  <1>7. QED
    BY <1>1, <1>5, <1>6 DEF IsTop, T

LEMMA TopsRightNext == TableOK' => Tops'
  BY TopsRight, PTL

\* The operands of a call stay what they are while their nodes stay.
LEMMA OperandsKept ==
  ASSUME TableOK, NEW K, NodesStay(K), TableOK', NEW op, NEW args \in Operands(op, K)
  PROVE  /\ args \in Operands(op, Live) /\ args \in Operands(op, Live')
         /\ TopLevel(args)' = TopLevel(args)
         /\ \A i \in DOMAIN args : /\ LEVEL(args[i])' = LEVEL(args[i])
                                   /\ LOW(args[i])' = LOW(args[i])
                                   /\ HIGH(args[i])' = HIGH(args[i])
                                   /\ (ISTERMINAL(args[i])' <=> ISTERMINAL(args[i]))
                                   /\ Meaning(args[i])' = Meaning(args[i])
  <1>1. \A i \in DOMAIN args : args[i] \in K
    BY OperandsRange
  <1>2. K \subseteq Live /\ K \subseteq Live'
    BY DEF NodesStay
  <1>3. args \in Operands(op, Live) /\ args \in Operands(op, Live')
    <2>1. args \in Seq(K)
      BY DEF Operands
    <2>2. args \in Seq(Live) /\ args \in Seq(Live')
      BY <1>2, <2>1
    <2>3. QED
      BY <2>2 DEF Operands
  <1>4. ASSUME NEW i \in DOMAIN args
        PROVE  /\ LEVEL(args[i])' = LEVEL(args[i]) /\ LOW(args[i])' = LOW(args[i])
               /\ HIGH(args[i])' = HIGH(args[i])
               /\ (ISTERMINAL(args[i])' <=> ISTERMINAL(args[i]))
               /\ Meaning(args[i])' = Meaning(args[i])
    BY <1>1, StaysSame, MeaningKept
  <1>5. TopLevel(args)' = TopLevel(args)
    <2>1. IsTop(args, TopLevel(args))
      BY <1>3, TopsRight DEF Tops
    <2>2. IsTop(args, TopLevel(args))'
      BY <1>3, TopsRightNext DEF Tops
    <2> DEFINE l == TopLevel(args)  m == TopLevel(args)'
    <2>3. /\ l \in Nat /\ \E i \in DOMAIN args : l = LEVEL(args[i])
          /\ \A i \in DOMAIN args : l <= LEVEL(args[i])
      BY <2>1 DEF IsTop
    <2>4. /\ m \in Nat /\ \E i \in DOMAIN args : m = LEVEL(args[i])
          /\ \A i \in DOMAIN args : m <= LEVEL(args[i])
      BY <1>4, <2>2 DEF IsTop
    <2> HIDE DEF l, m
    <2>5. l <= m /\ m <= l
      BY <2>3, <2>4
    <2>6. l = m
      BY <2>3, <2>4, <2>5
    <2>7. QED
      BY <2>6 DEF l, m
  <1>6. QED
    BY <1>3, <1>4, <1>5


\* What a call may return stays so.
LEMMA ResultsKept ==
  ASSUME TableOK, NEW K, NodesStay(K), TableOK', NEW op, NEW args \in Operands(op, K)
  PROVE  /\ Cofactors(args, FALSE)' = Cofactors(args, FALSE)
         /\ Cofactors(args, TRUE)' = Cofactors(args, TRUE)
         /\ (OnTop(op, args)' <=> OnTop(op, args))
         /\ OperationMeaning(op, args)' = OperationMeaning(op, args)
         /\ Results(op, args) \cap K \subseteq Results(op, args)'
  <1>1. /\ args \in Operands(op, Live) /\ args \in Operands(op, Live')
        /\ TopLevel(args)' = TopLevel(args)
        /\ \A i \in DOMAIN args : /\ LEVEL(args[i])' = LEVEL(args[i])
                                  /\ LOW(args[i])' = LOW(args[i])
                                  /\ HIGH(args[i])' = HIGH(args[i])
                                  /\ (ISTERMINAL(args[i])' <=> ISTERMINAL(args[i]))
                                  /\ Meaning(args[i])' = Meaning(args[i])
    BY OperandsKept
  <1>2. /\ Cofactors(args, FALSE)' = Cofactors(args, FALSE)
        /\ Cofactors(args, TRUE)' = Cofactors(args, TRUE)
    <2>1. \A i \in DOMAIN args :
            /\ (IF LEVEL(args[i])' # TopLevel(args)' THEN args[i] ELSE LOW(args[i])')
               = (IF LEVEL(args[i]) # TopLevel(args) THEN args[i] ELSE LOW(args[i]))
            /\ (IF LEVEL(args[i])' # TopLevel(args)' THEN args[i] ELSE HIGH(args[i])')
               = (IF LEVEL(args[i]) # TopLevel(args) THEN args[i] ELSE HIGH(args[i]))
      BY <1>1
    <2>2. QED
      BY <2>1 DEF Cofactors
  <1>3. OnTop(op, args)' <=> OnTop(op, args)
    <2>1. op = "ite" => 1 \in DOMAIN args /\ 2 \in DOMAIN args /\ 3 \in DOMAIN args
      BY OperandsRange
    <2>2. op = "ite" =>
            /\ LEVEL(args[1])' = LEVEL(args[1])
            /\ (ISTERMINAL(args[2])' <=> ISTERMINAL(args[2]))
            /\ (ISTERMINAL(args[3])' <=> ISTERMINAL(args[3]))
      BY <1>1, <2>1
    <2>3. ISCONST(args[1])' <=> ISCONST(args[1])
      BY DEF ISCONST
    <2>4. Immediate(op, args)' = Immediate(op, args)
      BY DEF Immediate, IteShortcut
    <2>5. op = "ite" => (IsDecision(op, args)' <=> IsDecision(op, args))
      BY <2>2, <2>4 DEF IsDecision
    <2>6. QED
      BY <1>1, <2>2, <2>3, <2>5 DEF OnTop
  <1>4. OperationMeaning(op, args)' = OperationMeaning(op, args)
    <2>1. ASSUME NEW s \in Assignments
          PROVE  [i \in DOMAIN args |-> Meaning(args[i])'[s]] = [i \in DOMAIN args |-> Meaning(args[i])[s]]
      BY <1>1
    <2>2. \A s \in Assignments :
            OperationValue(op, [i \in DOMAIN args |-> Meaning(args[i])'[s]])
            = OperationValue(op, [i \in DOMAIN args |-> Meaning(args[i])[s]])
      BY <2>1
    <2>3. QED
      BY <2>2 DEF OperationMeaning
  <1>5. ASSUME NEW n \in K, n \in Results(op, args) PROVE n \in Results(op, args)'
    <2>1. n \in Live' /\ LEVEL(n)' = LEVEL(n)
      BY <1>5, StaysSame
    <2>2. Meaning(n)' = Meaning(n)
      BY <1>5, MeaningKept
    <2>3. /\ TopLevel(args) <= LEVEL(n) \/ VarNum <= LEVEL(n)
          /\ OnTop(op, args) => Meaning(n) = OperationMeaning(op, args)
      BY <1>5 DEF Results
    <2>4. /\ TopLevel(args)' <= LEVEL(n)' \/ VarNum <= LEVEL(n)'
          /\ OnTop(op, args)' => Meaning(n)' = OperationMeaning(op, args)'
      BY <1>1, <1>3, <1>4, <2>1, <2>2, <2>3
    <2>5. QED
      BY <2>1, <2>4 DEF Results
  <1>6. QED
    BY <1>2, <1>3, <1>4, <1>5


\* What a step of an operation returns, from what it makes of one assignment.
LEMMA ResultIs ==
  ASSUME TableOK, NEW op, NEW args, NEW n \in Live,
         TopLevel(args) <= LEVEL(n) \/ VarNum <= LEVEL(n),
         OnTop(op, args) => \A s \in Assignments : Meaning(n)[s] = OperationMeaning(op, args)[s]
  PROVE  n \in Results(op, args)
  <1>1. Meaning(n) = [s \in Assignments |-> Meaning(n)[s]]
    BY MeaningUnfolds DEF Unfolds
  <1>2. OperationMeaning(op, args) = [s \in Assignments |-> OperationMeaning(op, args)[s]]
    BY DEF OperationMeaning
  <1>3. OnTop(op, args) => Meaning(n) = OperationMeaning(op, args)
    BY <1>1, <1>2
  <1>4. QED
    BY <1>3 DEF Results

LEMMA MeaningAt ==
  ASSUME NEW op, NEW args, NEW s \in Assignments
  PROVE  OperationMeaning(op, args)[s] = OperationValue(op, [i \in DOMAIN args |-> Meaning(args[i])[s]])
  BY DEF OperationMeaning

LEMMA IteAt ==
  ASSUME NEW args \in Operands("ite", Live), NEW s \in Assignments
  PROVE  OperationMeaning("ite", args)[s]
         = IF Meaning(args[1])[s] = <<"const", 1>> THEN Meaning(args[2])[s] ELSE Meaning(args[3])[s]
  <1> DEFINE L == [i \in DOMAIN args |-> Meaning(args[i])[s]]
  <1>1. 1 \in DOMAIN args /\ 2 \in DOMAIN args /\ 3 \in DOMAIN args
    BY OperandsRange
  <1>2. L[1] = Meaning(args[1])[s] /\ L[2] = Meaning(args[2])[s] /\ L[3] = Meaning(args[3])[s]
    BY <1>1
  <1>3. OperationMeaning("ite", args)[s] = OperationValue("ite", L)
    BY MeaningAt
  <1> HIDE DEF L
  <1>4. OperationValue("ite", L) = IF L[1] = <<"const", 1>> THEN L[2] ELSE L[3]
    BY DEF OperationValue
  <1>5. QED
    BY <1>2, <1>3, <1>4

\* The two constants.
LEMMA ConstantMeaning ==
  ASSUME NEW s \in Assignments
  PROVE  Meaning(0)[s] = <<"const", 0>> /\ Meaning(1)[s] = <<"const", 1>>
  <1>1. Leaf(0) /\ Leaf(1) /\ ISCONST(0) /\ ISCONST(1)
    BY DEF Leaf, ISCONST
  <1>2. QED
    BY <1>1, MeaningLeaf DEF Leaves

\* mtbdd_ite_rec returns an operand.
LEMMA ImmediateResult ==
  ASSUME TableOK, NEW op, NEW args \in Operands(op, Live), NEW n \in Immediate(op, args)
  PROVE  n \in Results(op, args)
  <1>1. op = "ite" /\ n \in IteShortcut(args[1], args[2], args[3])
    BY DEF Immediate
  <1>2. args \in Operands("ite", Live)
    BY <1>1
  <1>3. \/ args[1] = 0 /\ n = args[3]
        \/ (args[1] = 1 \/ args[2] = args[3]) /\ n = args[2] /\ args[1] # 0
    BY <1>1 DEF IteShortcut
  <1>4. 2 \in DOMAIN args /\ 3 \in DOMAIN args /\ args[2] \in Live /\ args[3] \in Live
    BY <1>2, OperandsRange
  <1>5. IsTop(args, TopLevel(args))
    BY TopsRight DEF Tops
  <1>6. n \in Live /\ TopLevel(args) <= LEVEL(n)
    BY <1>3, <1>4, <1>5 DEF IsTop
  <1>7. ASSUME NEW s \in Assignments PROVE Meaning(n)[s] = OperationMeaning(op, args)[s]
    <2>1. Meaning(0)[s] # <<"const", 1>> /\ Meaning(1)[s] = <<"const", 1>>
      BY ConstantMeaning
    <2>2. OperationMeaning(op, args)[s]
          = IF Meaning(args[1])[s] = <<"const", 1>> THEN Meaning(args[2])[s] ELSE Meaning(args[3])[s]
      BY <1>1, <1>2, IteAt
    <2>3. QED
      BY <1>3, <2>1, <2>2
  <1>8. QED
    BY <1>6, <1>7, ResultIs


\* mtbdd_leaf_result
LeafAnswer(op, args, n) ==
  LET value == Callback(op, [i \in DOMAIN args |-> TerminalValue(args[i])])
  IN  IF value = NoValue THEN n = 0 ELSE n \in LiveTerminals /\ values.at[HIGH(n)] = value

LeafResults ==
  \A op : op # "ite" => \A args \in Operands(op, Live) : AllLeaves(args) =>
    \A n : LeafAnswer(op, args, n) => n \in Results(op, args)

LEMMA LeafResult == TableOK => LeafResults
  <1> SUFFICES ASSUME TableOK, NEW op, op # "ite", NEW args \in Operands(op, Live), AllLeaves(args),
                      NEW n, LeafAnswer(op, args, n)
               PROVE  n \in Results(op, args)
    BY DEF LeafResults
  <1> DEFINE vals == [i \in DOMAIN args |-> TerminalValue(args[i])]
             value == Callback(op, vals)
  <1>1. Facts
    BY TableFacts
  <1>2. IF value = NoValue THEN n = 0 ELSE n \in LiveTerminals /\ values.at[HIGH(n)] = value
    BY DEF LeafAnswer
  <1>3. n \in Live /\ Leaf(n) /\ VarNum <= LEVEL(n)
    <2>1. 0 \in Live /\ Leaf(0)
      BY <1>1 DEF Facts, Leaf, ISCONST
    <2>2. \A m \in LiveTerminals : m \in Live /\ Leaf(m)
      BY DEF LiveTerminals, Leaf
    <2>3. n \in Live /\ Leaf(n)
      BY <1>2, <2>1, <2>2
    <2>4. QED
      BY <1>1, <2>3 DEF Facts
  <1>4. Leaves(n) = IF value = NoValue THEN <<"const", 0>> ELSE <<"value", value>>
    <2>1. CASE value = NoValue
      <3>1. ISCONST(0) /\ n = 0
        BY <1>2, <2>1 DEF ISCONST
      <3>2. QED
        BY <2>1, <3>1 DEF Leaves
    <2>2. CASE value # NoValue
      <3>1. n \in LiveTerminals /\ values.at[HIGH(n)] = value
        BY <1>2, <2>2
      <3>2. ~ISCONST(n)
        <4>1. n # 0 /\ n # 1
          <5>1. 0 \in 0..(2 * VarNum + 1) /\ 1 \in 0..(2 * VarNum + 1)
            BY MtbddAssumption
          <5>2. ~ISTERMINAL(0) /\ ~ISTERMINAL(1)
            BY <1>1, <5>1 DEF Facts
          <5>3. QED
            BY <3>1, <5>2 DEF LiveTerminals
        <4>2. n \in Nat
          BY <1>1, <1>3 DEF Facts
        <4>3. QED
          BY <4>1, <4>2 DEF ISCONST
      <3>3. QED
        BY <2>2, <3>1, <3>2 DEF Leaves, Value
    <2>3. QED
      BY <2>1, <2>2
  <1>5. ASSUME NEW s \in Assignments PROVE Meaning(n)[s] = OperationMeaning(op, args)[s]
    <2> DEFINE L == [i \in DOMAIN args |-> Meaning(args[i])[s]]
               M == [i \in DOMAIN L |-> IF L[i][1] = "value" THEN L[i][2] ELSE NoValue]
    <2>1. OperationMeaning(op, args)[s] = OperationValue(op, L)
      BY MeaningAt
    <2>2. OperationValue(op, L)
          = IF Callback(op, M) = NoValue THEN <<"const", 0>> ELSE <<"value", Callback(op, M)>>
      <3> HIDE DEF L
      <3>1. QED
        BY DEF OperationValue, Value
    <2>3. ASSUME NEW i \in DOMAIN args
          PROVE  (IF L[i][1] = "value" THEN L[i][2] ELSE NoValue) = TerminalValue(args[i])
      <3>1. Leaf(args[i])
        BY DEF AllLeaves
      <3>2. L[i] = Leaves(args[i])
        BY <3>1, MeaningLeaf
      <3> HIDE DEF L
      <3>3. CASE ISCONST(args[i])
        <4>1. L[i] = <<"const", args[i]>>
          BY <3>2, <3>3 DEF Leaves
        <4>2. L[i][1] # "value"
          BY <4>1
        <4>3. QED
          BY <3>3, <4>2 DEF TerminalValue
      <3>4. CASE ~ISCONST(args[i])
        <4>1. L[i] = <<"value", values.at[HIGH(args[i])]>>
          BY <3>2, <3>4 DEF Leaves, Value
        <4>2. L[i][1] = "value" /\ L[i][2] = values.at[HIGH(args[i])]
          BY <4>1
        <4>3. QED
          BY <3>4, <4>2 DEF TerminalValue
      <3>5. QED
        BY <3>3, <3>4
    <2>4. M = vals
      <3>1. DOMAIN L = DOMAIN args
        OBVIOUS
      <3> HIDE DEF L
      <3>2. QED
        BY <2>3, <3>1
    <2>5. Meaning(n)[s] = Leaves(n)
      BY <1>3, MeaningLeaf
    <2> HIDE DEF L, M, vals
    <2>6. QED
      BY <1>4, <2>1, <2>2, <2>4, <2>5
  <1>6. QED
    BY <1>3, <1>5, ResultIs

LEMMA LeafResultNext == TableOK' => LeafResults'
  BY LeafResult, PTL


\* The node of a variable leads to constants.
LEMMA VariableNode ==
  ASSUME TableOK, NEW n \in 0..(2 * VarNum + 1), n # 0, n # 1
  PROVE  /\ n \in Live /\ ~Leaf(n) /\ LOW(n) \in {0, 1} /\ HIGH(n) \in {0, 1}
         /\ LEVEL(n) \in 0..(VarNum - 1)
  <1> USE MtbddAssumption
  <1>1. n \in Live /\ ~ISTERMINAL(n)
    BY TableFacts DEF Facts
  <1>2. ~ISCONST(n) /\ n \in Nat
    BY DEF ISCONST
  <1>3. ~Leaf(n)
    BY <1>1, <1>2 DEF Leaf
  <1>4. node[n] = FirstNode(n)
    BY DEF TableOK
  <1>5. node[n].low = n % 2 /\ node[n].high = 1 - (n % 2)
    <2>1. ~(n < 2)
      BY <1>2 DEF ISCONST
    <2>2. QED
      BY <1>4, <2>1 DEF FirstNode
  <1>6. n % 2 \in {0, 1}
    BY <1>2
  <1>7. LOW(n) \in {0, 1} /\ HIGH(n) \in {0, 1}
    BY <1>5, <1>6 DEF LOW, HIGH
  <1>8. QED
    BY <1>1, <1>3, <1>7, InnerNode

\* The operands of the recursive calls are further down.
CofactorsDown(op, args, S, cof) ==
  /\ cof \in Operands(op, S) /\ cof \in Operands(op, Live) /\ DOMAIN cof = DOMAIN args
  /\ TopLevel(args) < TopLevel(cof)

LEMMA CofactorRange ==
  ASSUME TableOK, NEW S \in SUBSET Live, Closed(S), NEW op, NEW args \in Operands(op, S),
         TopLevel(args) < VarNum, NEW high \in BOOLEAN
  PROVE  /\ args \in Operands(op, Live) /\ TopLevel(args) \in 0..(VarNum - 1)
         /\ CofactorsDown(op, args, S, Cofactors(args, high))
  <1> DEFINE l == TopLevel(args)  cof == Cofactors(args, high)
  <1> USE MtbddAssumption
  <1>1. Facts
    BY TableFacts
  <1>2. /\ args \in Seq(S) /\ DOMAIN args = 1..Len(args) /\ Len(args) \in Nat
        /\ \A i \in DOMAIN args : args[i] \in S
    <2>1. args \in Seq(S)
      BY DEF Operands
    <2>2. QED
      BY <2>1
  <1>3. args \in Operands(op, Live)
    <2>1. args \in Seq(Live)
      BY <1>2
    <2>2. QED
      BY <2>1 DEF Operands
  <1>4. IsTop(args, l)
    BY <1>3, TopsRight DEF Tops
  <1>5. l \in 0..(VarNum - 1)
    BY <1>4 DEF IsTop
  <1> HIDE DEF l
  <1>6. cof = [i \in DOMAIN args |-> IF LEVEL(args[i]) # l THEN args[i]
                                     ELSE IF high THEN HIGH(args[i]) ELSE LOW(args[i])]
    BY DEF Cofactors, l
  <1>7. ASSUME NEW i \in DOMAIN args
        PROVE  cof[i] \in S /\ l < LEVEL(cof[i]) /\ LEVEL(cof[i]) \in Nat
    <2>1. args[i] \in S /\ args[i] \in Live /\ l <= LEVEL(args[i]) /\ LEVEL(args[i]) \in Nat
      BY <1>2, <1>4 DEF IsTop
    <2>2. CASE LEVEL(args[i]) # l
      <3>1. cof[i] = args[i]
        BY <1>6, <2>2
      <3>2. QED
        BY <1>5, <2>1, <2>2, <3>1
    <2>3. CASE LEVEL(args[i]) = l
      <3>1. ~Leaf(args[i])
        <4>1. Leaf(args[i]) => VarNum <= LEVEL(args[i])
          BY <1>1, <2>1 DEF Facts
        <4>2. QED
          BY <1>5, <2>3, <4>1
      <3>2. /\ Children(args[i]) = {LOW(args[i]), HIGH(args[i])}
            /\ l < LEVEL(LOW(args[i])) /\ l < LEVEL(HIGH(args[i]))
        BY <2>1, <2>3, <3>1, InnerNode
      <3>3. LOW(args[i]) \in S /\ HIGH(args[i]) \in S
        BY <2>1, <3>2 DEF Closed
      <3>4. cof[i] = IF high THEN HIGH(args[i]) ELSE LOW(args[i])
        BY <1>6, <2>3
      <3>5. cof[i] \in S /\ l < LEVEL(cof[i])
        BY <3>2, <3>3, <3>4
      <3>6. LEVEL(cof[i]) \in Nat
        BY <1>1, <3>5 DEF Facts
      <3>7. QED
        BY <3>5, <3>6
    <2>4. QED
      BY <2>2, <2>3
  <1>8. DOMAIN cof = DOMAIN args
    BY <1>6
  <1>9. op = "ite" => cof[1] \in 0..(2 * VarNum + 1)
    <2>1. SUFFICES ASSUME op = "ite" PROVE cof[1] \in 0..(2 * VarNum + 1)
      OBVIOUS
    <2>2. args[1] \in 0..(2 * VarNum + 1) /\ 1 \in DOMAIN args
      BY <2>1, OperandsRange DEF Operands
    <2>3. CASE LEVEL(args[1]) # l
      BY <1>6, <2>2, <2>3
    <2>4. CASE LEVEL(args[1]) = l
      <3>1. args[1] # 0 /\ args[1] # 1
        BY <1>1, <1>5, <2>4 DEF Facts
      <3>2. LOW(args[1]) \in {0, 1} /\ HIGH(args[1]) \in {0, 1}
        BY <2>2, <3>1, VariableNode
      <3>3. cof[1] \in {0, 1}
        BY <1>6, <2>2, <2>4, <3>2
      <3>4. QED
        BY <3>3
    <2>5. QED
      BY <2>3, <2>4
  <1> HIDE DEF cof
  <1>10. cof \in Operands(op, S) /\ cof \in Operands(op, Live)
    <2>1. cof \in [1..Len(args) -> S]
      <3>1. cof = [i \in DOMAIN cof |-> cof[i]]
        BY <1>6, <1>8
      <3>2. QED
        BY <1>2, <1>7, <1>8, <3>1
    <2>2. cof \in Seq(S) /\ Len(cof) = Len(args)
      BY <1>2, <2>1
    <2>3. cof \in Seq(Live)
      BY <2>2
    <2>4. /\ op = "ite" => Len(args) = 3
          /\ op # "ite" => Len(args) \in {1, 2}
      BY DEF Operands
    <2>5. QED
      BY <1>9, <2>2, <2>3, <2>4 DEF Operands
  <1>11. l < TopLevel(cof)
    <2>1. IsTop(cof, TopLevel(cof))
      BY <1>10, TopsRight DEF Tops
    <2>2. PICK i \in DOMAIN cof : TopLevel(cof) = LEVEL(cof[i])
      BY <2>1 DEF IsTop
    <2>3. QED
      BY <1>7, <1>8, <2>2
  <1>12. QED
    BY <1>3, <1>5, <1>8, <1>10, <1>11 DEF l, cof, CofactorsDown


\* Under an assignment the operands are their cofactors.
LEMMA CofactorMeaning ==
  ASSUME TableOK, NEW op, NEW args \in Operands(op, Live), TopLevel(args) < VarNum,
         NEW s \in Assignments
  PROVE  OperationMeaning(op, args)[s] = OperationMeaning(op, Cofactors(args, TopLevel(args) \in s))[s]
  <1> DEFINE l == TopLevel(args)  cof == Cofactors(args, l \in s)
  <1>1. Facts
    BY TableFacts
  <1>2. IsTop(args, l)
    BY TopsRight DEF Tops
  <1>3. \A i \in DOMAIN args : args[i] \in Live
    BY OperandsRange
  <1> HIDE DEF l
  <1>4. cof = [i \in DOMAIN args |-> IF LEVEL(args[i]) # l THEN args[i]
                                     ELSE IF l \in s THEN HIGH(args[i]) ELSE LOW(args[i])]
    BY DEF Cofactors, l
  <1>5. ASSUME NEW i \in DOMAIN args PROVE Meaning(cof[i])[s] = Meaning(args[i])[s]
    <2>1. CASE LEVEL(args[i]) # l
      BY <1>4, <2>1
    <2>2. CASE LEVEL(args[i]) = l
      <3>1. ~Leaf(args[i])
        <4>1. Leaf(args[i]) => VarNum <= LEVEL(args[i])
          BY <1>1, <1>3 DEF Facts
        <4>2. l \in Nat /\ l < VarNum
          BY <1>2 DEF IsTop, l
        <4>3. QED
          BY <2>2, <4>1, <4>2, MtbddAssumption
      <3>2. /\ l \in s => Meaning(args[i])[s] = Meaning(HIGH(args[i]))[s]
            /\ l \notin s => Meaning(args[i])[s] = Meaning(LOW(args[i]))[s]
        BY <1>3, <2>2, <3>1, MeaningUnfolds DEF Unfolds
      <3>3. cof[i] = IF l \in s THEN HIGH(args[i]) ELSE LOW(args[i])
        BY <1>4, <2>2
      <3> HIDE DEF cof
      <3>4. QED
        BY <3>2, <3>3
    <2>3. QED
      BY <2>1, <2>2
  <1>6. DOMAIN cof = DOMAIN args
    BY <1>4
  <1>7. [i \in DOMAIN args |-> Meaning(args[i])[s]] = [i \in DOMAIN cof |-> Meaning(cof[i])[s]]
    <2> HIDE DEF cof
    <2>1. QED
      BY <1>5, <1>6
  <1> HIDE DEF cof
  <1>8. OperationMeaning(op, args)[s] = OperationMeaning(op, cof)[s]
    <2>1. OperationMeaning(op, args)[s]
          = OperationValue(op, [i \in DOMAIN args |-> Meaning(args[i])[s]])
      BY MeaningAt
    <2>2. OperationMeaning(op, cof)[s]
          = OperationValue(op, [i \in DOMAIN cof |-> Meaning(cof[i])[s]])
      BY MeaningAt
    <2>3. QED
      BY <1>7, <2>1, <2>2
  <1>9. QED
    BY <1>8 DEF cof, l

\* Where mtbdd_ite_rec takes the condition apart, it leaves a constant.
LEMMA CofactorsOnTop ==
  ASSUME TableOK, NEW op, NEW args \in Operands(op, Live), TopLevel(args) < VarNum,
         Immediate(op, args) = {}, OnTop(op, args), NEW high \in BOOLEAN
  PROVE  OnTop(op, Cofactors(args, high))
  <1>1. SUFFICES ASSUME op = "ite" PROVE ISCONST(Cofactors(args, high)[1])
    BY DEF OnTop
  <1>2. /\ 1 \in DOMAIN args /\ args[1] \in 0..(2 * VarNum + 1)
    BY <1>1, OperandsRange DEF Operands
  <1>3. args[1] # 0 /\ args[1] # 1
    BY <1>1 DEF Immediate, IteShortcut
  <1>4. ~ISCONST(args[1])
    BY <1>2, <1>3 DEF ISCONST
  <1>5. LEVEL(args[1]) = TopLevel(args)
    BY <1>1, <1>4 DEF OnTop
  <1>6. LOW(args[1]) \in {0, 1} /\ HIGH(args[1]) \in {0, 1}
    BY <1>2, <1>3, VariableNode
  <1>7. Cofactors(args, high)[1] \in {0, 1}
    BY <1>2, <1>5, <1>6 DEF Cofactors
  <1>8. QED
    BY <1>7 DEF ISCONST

\* The function of what bdd_makenode returns.
ShannonHolds ==
  \A level, low, high : \A n \in Live : Made(level, low, high, n) =>
    \A s \in Assignments : Meaning(n)[s] = IF level \in s THEN Meaning(high)[s] ELSE Meaning(low)[s]

LEMMA Shannon == TableOK => ShannonHolds
  <1> SUFFICES ASSUME TableOK, NEW level, NEW low, NEW high, NEW n \in Live, Made(level, low, high, n),
                      NEW s \in Assignments
               PROVE  Meaning(n)[s] = IF level \in s THEN Meaning(high)[s] ELSE Meaning(low)[s]
    BY DEF ShannonHolds
  <1>1. CASE low = high
    BY <1>1 DEF Made
  <1>2. CASE low # high
    <2>1. ~Leaf(n) /\ LEVEL(n) = level /\ LOW(n) = low /\ HIGH(n) = high
      BY <1>2 DEF Made
    <2>2. /\ level \in s => Meaning(n)[s] = Meaning(high)[s]
          /\ level \notin s => Meaning(n)[s] = Meaning(low)[s]
      BY <2>1, MeaningUnfolds DEF Unfolds
    <2>3. QED
      BY <2>2
  <1>3. QED
    BY <1>1, <1>2

LEMMA ShannonNext == TableOK' => ShannonHolds'
  BY Shannon, PTL


\* The results of the two recursive calls, and the node of both after a step
\* that keeps them.
LEMMA BuiltResult ==
  ASSUME TableOK, NEW K, NodesStay(K), TableOK', NEW op, NEW args \in Operands(op, K),
         TopLevel(args) < VarNum, Immediate(op, args) = {},
         NEW low \in K, low \in Results(op, Cofactors(args, FALSE)),
         NEW high \in K, high \in Results(op, Cofactors(args, TRUE)),
         NEW n \in Live', Made(TopLevel(args), low, high, n)'
  PROVE  n \in Results(op, args)'
  <1> DEFINE l == TopLevel(args)
             cofL == Cofactors(args, FALSE)  cofH == Cofactors(args, TRUE)
  <1>1. K \in SUBSET Live /\ Closed(K)
    BY DEF NodesStay
  <1>2. /\ args \in Operands(op, Live) /\ l \in 0..(VarNum - 1)
        /\ CofactorsDown(op, args, K, cofL) /\ CofactorsDown(op, args, K, cofH)
    BY <1>1, CofactorRange
  <1>3. /\ cofL \in Operands(op, Live) /\ cofH \in Operands(op, Live)
        /\ l < TopLevel(cofL) /\ l < TopLevel(cofH)
    BY <1>2 DEF CofactorsDown
  <1>4. TopLevel(args)' = l
    BY OperandsKept
  <1>5. /\ OnTop(op, args)' <=> OnTop(op, args)
        /\ OperationMeaning(op, args)' = OperationMeaning(op, args)
    BY ResultsKept
  <1>6. ASSUME OnTop(op, args), NEW s \in Assignments
        PROVE  Meaning(n)'[s] = OperationMeaning(op, args)'[s]
    <2>1. OnTop(op, cofL) /\ OnTop(op, cofH)
      BY <1>2, <1>6, CofactorsOnTop
    <2>2. Meaning(low) = OperationMeaning(op, cofL) /\ Meaning(high) = OperationMeaning(op, cofH)
      BY <2>1 DEF Results
    <2>3. Meaning(low)' = Meaning(low) /\ Meaning(high)' = Meaning(high)
      BY MeaningKept
    <2>4. Meaning(n)'[s] = IF l \in s THEN Meaning(high)'[s] ELSE Meaning(low)'[s]
      <3>1. PICK k : k = l
        OBVIOUS
      <3>2. Made(k, low, high, n)'
        BY <1>4, <3>1 DEF Made
      <3>3. Meaning(n)'[s] = IF k \in s THEN Meaning(high)'[s] ELSE Meaning(low)'[s]
        BY <3>2, ShannonNext DEF ShannonHolds
      <3>4. QED
        BY <3>1, <3>3
    <2>5. OperationMeaning(op, args)[s] = OperationMeaning(op, Cofactors(args, l \in s))[s]
      BY <1>2, CofactorMeaning
    <2>6. Cofactors(args, l \in s) = IF l \in s THEN cofH ELSE cofL
      <3>1. (l \in s) = TRUE \/ (l \in s) = FALSE
        OBVIOUS
      <3>2. QED
        BY <3>1
    <2>7. QED
      BY <1>5, <2>2, <2>3, <2>4, <2>5, <2>6
  <1>7. l <= LEVEL(n)' \/ VarNum <= LEVEL(n)'
    <2>1. CASE low = high
      <3>1. n = low
        BY <2>1 DEF Made
      <3>2. TopLevel(cofL) <= LEVEL(low) \/ VarNum <= LEVEL(low)
        BY DEF Results
      <3>3. LEVEL(low) \in Nat /\ TopLevel(cofL) \in Nat
        BY <1>3, TableFacts, TopsRight DEF Results, Facts, Tops, IsTop
      <3>4. LEVEL(low)' = LEVEL(low)
        BY StaysSame
      <3> HIDE DEF l, cofL, cofH
      <3>5. l <= LEVEL(low) \/ VarNum <= LEVEL(low)
        BY <1>2, <1>3, <3>2, <3>3
      <3>6. QED
        BY <3>1, <3>4, <3>5
    <2>2. CASE low # high
      <3>1. LEVEL(n)' = TopLevel(args)'
        BY <2>2 DEF Made
      <3> HIDE DEF l
      <3>2. QED
        BY <1>2, <1>4, <3>1
    <2>3. QED
      BY <2>1, <2>2
  <1>8. QED
    <2>1. Meaning(n)' = [s \in Assignments |-> Meaning(n)'[s]]
      BY MeaningUnfoldsNext DEF Unfolds
    <2>2. OperationMeaning(op, args)' = [s \in Assignments |-> OperationMeaning(op, args)'[s]]
      BY DEF OperationMeaning
    <2>3. OnTop(op, args)' => Meaning(n)' = OperationMeaning(op, args)'
      BY <1>5, <1>6, <2>1, <2>2
    <2>4. QED
      BY <1>4, <1>7, <2>3 DEF Results


\* A decision node on two terminals.
LEMMA DecisionResult ==
  ASSUME TableOK, NEW K, NodesStay(K), TableOK', NEW op, NEW args \in Operands(op, K),
         IsDecision(op, args), NEW n \in Live', Made(LEVEL(args[1]), args[2], args[3], n)'
  PROVE  n \in Results(op, args)'
  <1> USE MtbddAssumption
  <1>1. /\ op = "ite" /\ Immediate(op, args) = {} /\ 1 \in DOMAIN args
        /\ args[1] \in 0..(2 * VarNum + 1)
    BY OperandsRange DEF IsDecision, Operands
  <1>2. args[1] # 0 /\ args[1] # 1 /\ args[2] # args[3]
    BY <1>1 DEF Immediate, IteShortcut
  <1>3. LEVEL(n)' = LEVEL(args[1])'
    BY <1>2 DEF Made
  <1>4. IsTop(args, TopLevel(args))'
    <2>1. args \in Operands(op, Live')
      BY OperandsKept
    <2>2. QED
      BY <2>1, TopsRightNext DEF Tops
  <1>5. TopLevel(args)' <= LEVEL(n)'
    BY <1>1, <1>3, <1>4 DEF IsTop
  <1>6. ~OnTop(op, args)
    BY <1>1, <1>2 DEF OnTop, ISCONST
  <1>7. ~OnTop(op, args)'
    BY <1>6, ResultsKept
  <1>8. QED
    BY <1>5, <1>7 DEF Results

LEMMA DecisionAsked ==
  ASSUME TableOK, NEW op, NEW args \in Operands(op, Survivors), IsDecision(op, args)
  PROVE  NodeAsked(LEVEL(args[1]), args[2], args[3])
  <1> USE MtbddAssumption
  <1>1. /\ op = "ite" /\ Immediate(op, args) = {}
        /\ args[1] \in 0..(2 * VarNum + 1) /\ ISTERMINAL(args[2]) /\ ISTERMINAL(args[3])
    BY DEF IsDecision, Operands
  <1>2. 2 \in DOMAIN args /\ 3 \in DOMAIN args
    BY <1>1, OperandsRange
  <1>3. args[2] \in Survivors /\ args[3] \in Survivors
    BY <1>2, OperandsRange
  <1>4. args[1] # 0 /\ args[1] # 1
    BY <1>1 DEF Immediate, IteShortcut
  <1>5. LEVEL(args[1]) \in 0..(VarNum - 1)
    BY <1>1, <1>4, VariableNode
  <1>6. LEVEL(args[1]) < LEVEL(args[2]) /\ LEVEL(args[1]) < LEVEL(args[3])
    BY <1>1, <1>5 DEF ISTERMINAL
  <1>7. QED
    BY <1>3, <1>5, <1>6 DEF NodeAsked

----------------------------------------------------------------------------
\* The caches.

LEMMA HashRange ==
  ASSUME TableOK, NEW o \in Operations, NEW args \in Operands(o.op, Live)
  PROVE  CacheHash(o.op, args) \in Nat
  <1>1. Live \subseteq 0..(InitSize - 1)
    BY DEF Live, Slot
  <1>2. Len(args) \in 1..3 /\ args \in [1..Len(args) -> 0..(InitSize - 1)]
    BY <1>1, OperandsRange
  <1>3. QED
    BY <1>2, OperationAssumption

LEMMA SlotRange ==
  ASSUME NEW cache, NEW c, GoodCache(cache, c), NEW hash \in Nat
  PROVE  SlotOf(cache, hash) \in DOMAIN cache
  <1> DEFINE k == Cardinality(DOMAIN cache)
  <1>1. k \in Nat \ {0} /\ DOMAIN cache = 0..(k - 1)
    BY DEF GoodCache
  <1> HIDE DEF k
  <1>2. hash % k \in 0..(k - 1)
    BY <1>1
  <1>3. QED
    BY <1>1, <1>2 DEF SlotOf, k

\* A key tells the operation and its operands.
LEMMA KeySame ==
  ASSUME NEW S, NEW op, NEW args \in Operands(op, S), NEW op2, NEW args2 \in Operands(op2, S),
         Key(op, args) = Key(op2, args2)
  PROVE  op = op2 /\ args = args2
  <1> DEFINE k == Key(op, args)  k2 == Key(op2, args2)
  <1>1. args \in Seq(S) /\ args2 \in Seq(S)
    BY DEF Operands
  <1>2. /\ k[1] = op /\ Len(k) = Len(args) + 1 /\ \A i \in 1..Len(args) : k[i + 1] = args[i]
        /\ k2[1] = op2 /\ Len(k2) = Len(args2) + 1 /\ \A i \in 1..Len(args2) : k2[i + 1] = args2[i]
        /\ Len(args) \in Nat /\ Len(args2) \in Nat
        /\ args = [i \in 1..Len(args) |-> args[i]] /\ args2 = [i \in 1..Len(args2) |-> args2[i]]
    BY <1>1 DEF Key
  <1>3. k = k2
    OBVIOUS
  <1> HIDE DEF k, k2
  <1>4. Len(args) = Len(args2)
    <2> DEFINE n == Len(args)  n2 == Len(args2)
    <2>1. n \in Nat /\ n2 \in Nat /\ Len(k) = n + 1 /\ Len(k2) = n2 + 1
      BY <1>2
    <2> HIDE DEF n, n2
    <2>2. n + 1 = n2 + 1
      BY <1>3, <2>1
    <2>3. n = n2
      BY <2>1, <2>2
    <2>4. QED
      BY <2>3 DEF n, n2
  <1>5. \A i \in 1..Len(args) : args[i] = args2[i]
    BY <1>2, <1>3, <1>4
  <1>6. QED
    BY <1>2, <1>3, <1>4, <1>5

LEMMA HitResult ==
  ASSUME TableOK, CachesOK, NEW o \in Operations, NEW args \in Operands(o.op, Live),
         Hit(o.op, args)
  PROVE  CacheEntry(o.op, args).res \in Results(o.op, args)
  <1> DEFINE c == CacheOf(o.op)  i == SlotOf(caches[c], CacheHash(o.op, args))
  <1>1. c \in {"apply", "ite"}
    BY DEF CacheOf
  <1>2. GoodCache(caches[c], c)
    BY <1>1 DEF CachesOK, GoodCaches
  <1>3. i \in DOMAIN caches[c]
    BY <1>2, HashRange, SlotRange
  <1>4. CacheEntry(o.op, args) = caches[c][i]
    BY DEF CacheEntry, Entry
  <1> HIDE DEF i, c
  <1>5. caches[c][i] # NoEntry /\ caches[c][i].key = Key(o.op, args)
    BY <1>4 DEF Hit
  <1>6. PICK p \in Operations : \E args2 \in Operands(p.op, Live) :
          caches[c][i].key = Key(p.op, args2) /\ caches[c][i].res \in Results(p.op, args2)
    BY <1>2, <1>3, <1>5 DEF GoodCache
  <1>7. PICK args2 \in Operands(p.op, Live) :
          caches[c][i].key = Key(p.op, args2) /\ caches[c][i].res \in Results(p.op, args2)
    BY <1>6
  <1>8. p.op = o.op /\ args2 = args
    BY <1>5, <1>7, KeySame
  <1>9. QED
    BY <1>4, <1>7, <1>8


\* While the nodes stay, so does what a cache has of them.
LEMMA CacheStays ==
  ASSUME TableOK, NodesStay(Live), TableOK', NEW cache, NEW c, GoodCache(cache, c)
  PROVE  GoodCache(cache, c)'
  <1>1. ASSUME NEW i \in DOMAIN cache, cache[i] # NoEntry
        PROVE  \E o \in Operations : \E args \in Operands(o.op, Live') :
                 /\ CacheOf(o.op) = c /\ cache[i].key = Key(o.op, args)
                 /\ cache[i].res \in Results(o.op, args)'
    <2>1. PICK o \in Operations : \E args \in Operands(o.op, Live) :
            /\ CacheOf(o.op) = c /\ cache[i].key = Key(o.op, args)
            /\ cache[i].res \in Results(o.op, args)
      BY <1>1 DEF GoodCache
    <2>2. PICK args \in Operands(o.op, Live) :
            /\ CacheOf(o.op) = c /\ cache[i].key = Key(o.op, args)
            /\ cache[i].res \in Results(o.op, args)
      BY <2>1
    <2>3. args \in Operands(o.op, Live')
      BY OperandsKept
    <2>4. Results(o.op, args) \cap Live \subseteq Results(o.op, args)'
      BY ResultsKept
    <2>5. cache[i].res \in Live
      BY <2>2 DEF Results
    <2>6. QED
      BY <2>2, <2>3, <2>4, <2>5
  <1>2. /\ Cardinality(DOMAIN cache) \in Nat \ {0}
        /\ DOMAIN cache = 0..(Cardinality(DOMAIN cache) - 1)
    BY DEF GoodCache
  <1>3. QED
    BY <1>1, <1>2 DEF GoodCache

\* An empty cache is right, whatever the nodes are.
LEMMA EmptyCacheGood ==
  ASSUME NEW size \in Nat \ {0}, NEW c
  PROVE  GoodCache(EmptyCache(size), c)
  <1>1. DOMAIN EmptyCache(size) = 0..(size - 1) /\ \A i \in 0..(size - 1) : EmptyCache(size)[i] = NoEntry
    BY DEF EmptyCache
  <1>2. Cardinality(0..(size - 1)) = size
    BY NumbersBelow
  <1>3. QED
    BY <1>1, <1>2 DEF GoodCache

EmptyGood == \A size \in Nat \ {0} : \A c : GoodCache(EmptyCache(size), c)

LEMMA EmptyCachesGood == EmptyGood
  BY EmptyCacheGood DEF EmptyGood

LEMMA EmptyCachesGoodNext == EmptyGood'
  BY EmptyCachesGood, PTL

\* A new entry that is right.
StoresGood ==
  \A cache, c, res : \A o \in Operations : \A args \in Operands(o.op, Live) :
    TableOK /\ GoodCache(cache, c) /\ CacheOf(o.op) = c /\ res \in Results(o.op, args) =>
      GoodCache(Stored(cache, CacheHash(o.op, args), Key(o.op, args), res), c)

LEMMA StoredGood == StoresGood
  <1> SUFFICES ASSUME NEW cache, NEW c, NEW res, NEW o \in Operations,
                      NEW args \in Operands(o.op, Live), TableOK, GoodCache(cache, c),
                      CacheOf(o.op) = c, res \in Results(o.op, args)
               PROVE  GoodCache(Stored(cache, CacheHash(o.op, args), Key(o.op, args), res), c)
    BY DEF StoresGood
  <1> DEFINE i == SlotOf(cache, CacheHash(o.op, args))
             e == [key |-> Key(o.op, args), res |-> res]
             new == [cache EXCEPT ![i] = e]
  <1>1. i \in DOMAIN cache
    BY HashRange, SlotRange
  <1>2. e.key = Key(o.op, args) /\ e.res = res
    OBVIOUS
  <1> HIDE DEF i, e
  <1>3. DOMAIN new = DOMAIN cache /\ \A j \in DOMAIN cache : new[j] = IF j = i THEN e ELSE cache[j]
    OBVIOUS
  <1> HIDE DEF new
  <1>4. ASSUME NEW j \in DOMAIN new, new[j] # NoEntry
        PROVE  \E p \in Operations : \E args2 \in Operands(p.op, Live) :
                 /\ CacheOf(p.op) = c /\ new[j].key = Key(p.op, args2)
                 /\ new[j].res \in Results(p.op, args2)
    <2>1. CASE j = i
      <3>1. new[j] = e
        BY <1>3, <2>1, <1>4
      <3>2. QED
        BY <1>2, <3>1
    <2>2. CASE j # i
      <3>1. new[j] = cache[j] /\ j \in DOMAIN cache
        BY <1>3, <1>4, <2>2
      <3>2. QED
        BY <1>4, <3>1 DEF GoodCache
    <2>3. QED
      BY <2>1, <2>2
  <1>5. GoodCache(new, c)
    BY <1>3, <1>4 DEF GoodCache
  <1>6. QED
    BY <1>5 DEF Stored, new, i, e

LEMMA StoredGoodNext == StoresGood'
  BY StoredGood, PTL


\* The caches after a step that keeps K: they are reset, unless K is all.
LEMMA BaseGood ==
  ASSUME TableOK, CachesOK, NEW K, NodesStay(K), TableOK',
         NEW base, base = AllReset \/ (base = caches /\ K = Live)
  PROVE  GoodCaches(base)'
  <1>1. /\ DOMAIN caches = {"apply", "ite"} /\ caches = [c \in {"apply", "ite"} |-> caches[c]]
        /\ \A c \in {"apply", "ite"} : GoodCache(caches[c], c)
    BY DEF CachesOK, GoodCaches
  <1>2. CASE base = AllReset
    <2>1. base = [c \in {"apply", "ite"} |-> EmptyCache(Cardinality(DOMAIN caches[c]))]
      BY <1>1, <1>2 DEF AllReset, Reset
    <2>2. ASSUME NEW c \in {"apply", "ite"} PROVE GoodCache(base[c], c)'
      <3>1. PICK size \in Nat \ {0} : size = Cardinality(DOMAIN caches[c])
        BY <1>1 DEF GoodCache
      <3>2. GoodCache(EmptyCache(size), c)'
        BY EmptyCachesGoodNext DEF EmptyGood
      <3>3. base[c] = EmptyCache(size)
        BY <2>1, <3>1
      <3>4. QED
        BY <3>2, <3>3
    <2>3. DOMAIN base = {"apply", "ite"} /\ base = [c \in {"apply", "ite"} |-> base[c]]
      BY <2>1
    <2>4. QED
      BY <2>2, <2>3 DEF GoodCaches
  <1>3. CASE base = caches /\ K = Live
    <2>1. ASSUME NEW c \in {"apply", "ite"} PROVE GoodCache(base[c], c)'
      <3>1. GoodCache(base[c], c)
        BY <1>1, <1>3
      <3>2. NodesStay(Live)
        BY <1>3
      <3>3. QED
        BY <3>1, <3>2, CacheStays
    <2>2. QED
      BY <1>1, <1>3, <2>1 DEF GoodCaches
  <1>4. QED
    BY <1>2, <1>3

LEMMA CachesKept ==
  ASSUME TableOK, CachesOK, NEW K, NodesStay(K), TableOK',
         caches' = AllReset \/ (caches' = caches /\ K = Live)
  PROVE  CachesOK'
  <1>1. PICK base : base = caches'
    OBVIOUS
  <1>2. base = AllReset \/ (base = caches /\ K = Live)
    BY <1>1
  <1>3. GoodCaches(base)'
    BY <1>2, BaseGood
  <1>4. QED
    BY <1>1, <1>3 DEF CachesOK, GoodCaches

LEMMA CachesStored ==
  ASSUME TableOK, CachesOK, NEW K, NodesStay(K), TableOK',
         NEW base, base = AllReset \/ (base = caches /\ K = Live),
         NEW o \in Operations, NEW args \in Operands(o.op, K), NEW res,
         res \in Results(o.op, args)',
         caches' = [base EXCEPT ![CacheOf(o.op)] =
                      Stored(@, CacheHash(o.op, args), Key(o.op, args), res)]
  PROVE  CachesOK'
  <1>1. GoodCaches(base)'
    BY BaseGood
  <1>2. /\ DOMAIN base = {"apply", "ite"} /\ base = [c \in {"apply", "ite"} |-> base[c]]
        /\ \A c \in {"apply", "ite"} : GoodCache(base[c], c)'
    BY <1>1 DEF GoodCaches
  <1>3. args \in Operands(o.op, Live')
    BY OperandsKept
  <1> DEFINE d == CacheOf(o.op)  hash == CacheHash(o.op, args)  key == Key(o.op, args)
  <1>4. d \in {"apply", "ite"}
    BY DEF CacheOf
  <1>5. GoodCache(Stored(base[d], hash, key, res), d)'
    BY <1>2, <1>3, <1>4, StoredGoodNext DEF StoresGood
  <1> DEFINE new == Stored(base[d], hash, key, res)
             all == [base EXCEPT ![d] = new]
  <1>6. caches' = all
    OBVIOUS
  <1>7. GoodCache(new, d)'
    BY <1>5
  <1> HIDE DEF d, hash, key, new
  <1>8. /\ DOMAIN all = {"apply", "ite"} /\ all = [c \in {"apply", "ite"} |-> all[c]]
        /\ \A c \in {"apply", "ite"} : all[c] = IF c = d THEN new ELSE base[c]
    BY <1>2, <1>4
  <1>9. PICK cs : cs = all
    OBVIOUS
  <1> HIDE DEF all
  <1>10. ASSUME NEW c \in {"apply", "ite"} PROVE GoodCache(cs[c], c)'
    <2>1. CASE c = d
      <3>1. cs[c] = new
        BY <1>8, <1>9, <2>1
      <3>2. PICK entry : entry = new
        OBVIOUS
      <3>3. GoodCache(entry, c)'
        BY <1>7, <2>1, <3>2
      <3>4. QED
        BY <3>1, <3>2, <3>3
    <2>2. CASE c # d
      <3>1. cs[c] = base[c]
        BY <1>8, <1>9, <2>2
      <3>2. QED
        BY <1>2, <3>1
    <2>3. QED
      BY <2>1, <2>2
  <1>11. GoodCaches(cs)'
    BY <1>8, <1>9, <1>10 DEF GoodCaches
  <1>12. QED
    BY <1>6, <1>9, <1>11 DEF CachesOK, GoodCaches


----------------------------------------------------------------------------
\* The calls that wait, over a step.

\* The operands of a call that waits, and of the calls that it makes.
LEMMA ChainArgs ==
  ASSUME TableOK, ClientOK, call.args \in Operands(call.op, Reach), NEW fs, Chain(fs)
  PROVE  /\ \A i \in DOMAIN fs :
              /\ fs[i] \in Frame /\ fs[i].args \in Operands(call.op, Reach)
              /\ fs[i].step \in {"low", "high", "make"} /\ TopLevel(fs[i].args) < VarNum
              /\ Cofactors(fs[i].args, FALSE) \in Operands(call.op, Reach)
              /\ Cofactors(fs[i].args, TRUE) \in Operands(call.op, Reach)
         /\ AskedBy(fs) \in Operands(call.op, Reach)
         /\ fs \in Seq(Frame) /\ DOMAIN fs = 1..Len(fs) /\ Len(fs) \in Nat
         /\ fs # <<>> => Len(fs) \in DOMAIN fs
  <1>1. fs \in Seq(Frame) /\ DOMAIN fs = 1..Len(fs) /\ Len(fs) \in Nat
        /\ (fs # <<>> => Len(fs) \in DOMAIN fs)
    BY DEF Chain
  <1>2. Reach \in SUBSET Live /\ Closed(Reach)
    BY ReachProtected
  <1>3. ASSUME NEW i \in DOMAIN fs
        PROVE  /\ fs[i] \in Frame /\ fs[i].args \in Operands(call.op, Reach)
               /\ fs[i].step \in {"low", "high", "make"} /\ TopLevel(fs[i].args) < VarNum
               /\ Cofactors(fs[i].args, FALSE) \in Operands(call.op, Reach)
               /\ Cofactors(fs[i].args, TRUE) \in Operands(call.op, Reach)
    <2>1. fs[i] \in Frame
      BY <1>1
    <2>2. fs[i].args \in Operands(call.op, Reach) /\ fs[i].step \in {"low", "high", "make"}
      BY <2>1 DEF Frame
    <2>3. TopLevel(fs[i].args) < VarNum
      BY DEF Chain
    <2>4. CofactorsDown(call.op, fs[i].args, Reach, Cofactors(fs[i].args, FALSE))
      BY <1>2, <2>2, <2>3, CofactorRange
    <2>5. CofactorsDown(call.op, fs[i].args, Reach, Cofactors(fs[i].args, TRUE))
      BY <1>2, <2>2, <2>3, CofactorRange
    <2>6. QED
      BY <2>1, <2>2, <2>3, <2>4, <2>5 DEF CofactorsDown
  <1>4. AskedBy(fs) \in Operands(call.op, Reach)
    <2>1. CASE fs = <<>>
      BY <2>1 DEF AskedBy
    <2>2. CASE fs # <<>>
      <3>1. Len(fs) \in DOMAIN fs
        BY <1>1, <2>2
      <3>2. NextArgs(fs[Len(fs)]) \in {Cofactors(fs[Len(fs)].args, FALSE), Cofactors(fs[Len(fs)].args, TRUE)}
        <4>1. (fs[Len(fs)].step # "low") = TRUE \/ (fs[Len(fs)].step # "low") = FALSE
          OBVIOUS
        <4>2. QED
          BY <4>1 DEF NextArgs
      <3>3. QED
        BY <1>3, <2>2, <3>1, <3>2 DEF AskedBy
    <2>3. QED
      BY <2>1, <2>2
  <1>5. QED
    BY <1>1, <1>3, <1>4

\* They stay right while the nodes they protect do.
LEMMA ChainKept ==
  ASSUME TableOK, ClientOK, NEW K, Stays(K), TableOK', call' = call,
         call.args \in Operands(call.op, Reach), NEW fs, Chain(fs),
         NEW refs \in Seq(K), Waiting(fs, refs)
  PROVE  /\ Chain(fs)' /\ Waiting(fs, refs)'
         /\ AskedBy(fs)' = AskedBy(fs) /\ AskedBy(fs) \in Operands(call.op, K)
         /\ call'.args \in Operands(call'.op, Reach')
         /\ Results(call.op, AskedBy(fs)) \cap K \subseteq Results(call.op, AskedBy(fs))'
  <1>1. PICK c : c = call /\ c = call'
    OBVIOUS
  <1> DEFINE op == c.op
  <1>2. Reach \subseteq K /\ Reach \subseteq Reach'
    BY ReachKept
  <1>3. \A args \in Operands(op, Reach) : args \in Operands(op, K) /\ args \in Operands(op, Reach')
    <2>1. ASSUME NEW args \in Operands(op, Reach)
          PROVE  args \in Operands(op, K) /\ args \in Operands(op, Reach')
      <3>1. args \in Seq(Reach)
        BY DEF Operands
      <3>2. args \in Seq(K) /\ args \in Seq(Reach')
        BY <1>2, <3>1
      <3>3. QED
        BY <3>2 DEF Operands
    <2>2. QED
      BY <2>1
  <1>4. /\ \A i \in DOMAIN fs :
             /\ fs[i] \in Frame /\ fs[i].args \in Operands(op, Reach)
             /\ fs[i].step \in {"low", "high", "make"} /\ TopLevel(fs[i].args) < VarNum
             /\ Cofactors(fs[i].args, FALSE) \in Operands(op, Reach)
             /\ Cofactors(fs[i].args, TRUE) \in Operands(op, Reach)
        /\ AskedBy(fs) \in Operands(op, Reach)
        /\ fs \in Seq(Frame) /\ DOMAIN fs = 1..Len(fs) /\ Len(fs) \in Nat
        /\ fs # <<>> => Len(fs) \in DOMAIN fs
    BY <1>1, ChainArgs
  <1>5. ASSUME NEW i \in DOMAIN fs
        PROVE  /\ TopLevel(fs[i].args)' = TopLevel(fs[i].args)
               /\ Cofactors(fs[i].args, FALSE)' = Cofactors(fs[i].args, FALSE)
               /\ Cofactors(fs[i].args, TRUE)' = Cofactors(fs[i].args, TRUE)
               /\ NextArgs(fs[i])' = NextArgs(fs[i])
    <2>1. PICK args : args = fs[i].args /\ args \in Operands(op, K)
      BY <1>3, <1>4
    <2>2. /\ TopLevel(args)' = TopLevel(args)
          /\ Cofactors(args, FALSE)' = Cofactors(args, FALSE)
          /\ Cofactors(args, TRUE)' = Cofactors(args, TRUE)
      <3>1. NodesStay(K)
        BY DEF Stays
      <3>2. PICK o : args \in Operands(o, K)
        BY <2>1
      <3>3. TopLevel(args)' = TopLevel(args)
        BY <3>1, <3>2, OperandsKept
      <3>4. /\ Cofactors(args, FALSE)' = Cofactors(args, FALSE)
            /\ Cofactors(args, TRUE)' = Cofactors(args, TRUE)
        BY <3>1, <3>2, ResultsKept
      <3>5. QED
        BY <3>3, <3>4
    <2>3. (fs[i].step # "low") = TRUE \/ (fs[i].step # "low") = FALSE
      OBVIOUS
    <2>4. QED
      BY <2>1, <2>2, <2>3 DEF NextArgs
  <1>6. AskedBy(fs)' = AskedBy(fs)
    <2>1. CASE fs = <<>>
      BY <1>1, <2>1 DEF AskedBy
    <2>2. CASE fs # <<>>
      <3>1. Len(fs) \in DOMAIN fs
        BY <1>4, <2>2
      <3>2. NextArgs(fs[Len(fs)])' = NextArgs(fs[Len(fs)])
        BY <1>5, <3>1
      <3>3. QED
        BY <2>2, <3>2 DEF AskedBy
    <2>3. QED
      BY <2>1, <2>2
  <1>7. Chain(fs)'
    <2>1. fs \in Seq(Frame')
      <3>1. \A i \in DOMAIN fs : fs[i] \in Frame'
        <4>1. ASSUME NEW i \in DOMAIN fs PROVE fs[i] \in Frame'
          <5>1. fs[i] \in [args : Operands(op, Reach), step : {"low", "high", "make"}]
            BY <1>1, <1>4 DEF Frame
          <5>2. fs[i].args \in Operands(op, Reach')
            BY <1>3, <1>4
          <5>3. fs[i] \in [args : Operands(op, Reach'), step : {"low", "high", "make"}]
            BY <5>1, <5>2
          <5>4. QED
            BY <1>1, <5>3 DEF Frame
        <4>2. QED
          BY <4>1
      <3>2. QED
        BY <1>4, <3>1
    <2>2. ASSUME NEW i \in DOMAIN fs
          PROVE  /\ TopLevel(fs[i].args)' < VarNum /\ Immediate(call.op, fs[i].args)' = {}
                 /\ fs[i].args = IF i = 1 THEN call'.args ELSE NextArgs(fs[i - 1])'
      <3>1. TopLevel(fs[i].args)' < VarNum
        BY <1>4, <1>5
      <3>2. Immediate(call.op, fs[i].args)' = {}
        <4>1. Immediate(call.op, fs[i].args) = {}
          BY DEF Chain
        <4>2. QED
          BY <4>1 DEF Immediate, IteShortcut
      <3>3. fs[i].args = IF i = 1 THEN call'.args ELSE NextArgs(fs[i - 1])'
        <4>1. fs[i].args = IF i = 1 THEN call.args ELSE NextArgs(fs[i - 1])
          BY DEF Chain
        <4>2. i # 1 => i - 1 \in DOMAIN fs
          BY <1>4
        <4>3. i # 1 => NextArgs(fs[i - 1])' = NextArgs(fs[i - 1])
          BY <1>5, <4>2
        <4>4. QED
          BY <4>1, <4>3
      <3>4. QED
        BY <3>1, <3>2, <3>3
    <2>3. \A i \in 1..(Len(fs) - 1) : fs[i].step # "make"
      BY DEF Chain
    <2>4. QED
      BY <2>1, <2>2, <2>3 DEF Chain
  <1>8. Results(call.op, AskedBy(fs)) \cap K \subseteq Results(call.op, AskedBy(fs))'
    <2>1. PICK args : args = AskedBy(fs) /\ args = AskedBy(fs)'
      BY <1>6
    <2>2. args \in Operands(op, K)
      BY <1>3, <1>4, <2>1
    <2>3. Results(op, args) \cap K \subseteq Results(op, args)'
      BY <2>2, ResultsKept DEF Stays
    <2>4. QED
      BY <1>1, <2>1, <2>3 DEF Results, OnTop, OperationMeaning
  <1>9. Waiting(fs, refs)'
    <2>1. ASSUME NEW i \in DOMAIN fs
          PROVE  /\ LowResults(fs)[i] \cap K \subseteq LowResults(fs)'[i]
                 /\ HighResults(fs)[i] \cap K \subseteq HighResults(fs)'[i]
      <3>1. PICK cl : cl = Cofactors(fs[i].args, FALSE) /\ cl = Cofactors(fs[i].args, FALSE)'
                      /\ cl \in Operands(op, K)
        BY <1>3, <1>4, <1>5
      <3>2. PICK ch : ch = Cofactors(fs[i].args, TRUE) /\ ch = Cofactors(fs[i].args, TRUE)'
                      /\ ch \in Operands(op, K)
        BY <1>3, <1>4, <1>5
      <3>3. Results(op, cl) \cap K \subseteq Results(op, cl)' /\ Results(op, ch) \cap K \subseteq Results(op, ch)'
        BY <3>1, <3>2, ResultsKept DEF Stays
      <3>4. LowResults(fs)[i] = Results(op, cl) /\ HighResults(fs)[i] = Results(op, ch)
        BY <1>1, <3>1, <3>2 DEF LowResults, HighResults
      <3>5. LowResults(fs)'[i] = Results(op, cl)' /\ HighResults(fs)'[i] = Results(op, ch)'
        BY <1>1, <3>1, <3>2 DEF LowResults, HighResults, Results, OnTop, OperationMeaning
      <3>6. QED
        BY <3>3, <3>4, <3>5
    <2>2. Waits(fs, refs, LowResults(fs), HighResults(fs))
      BY DEF Waiting
    <2> DEFINE low == LowResults(fs)  high == HighResults(fs)
               low2 == LowResults(fs)'  high2 == HighResults(fs)'
    <2>3. \A i \in DOMAIN fs : low[i] \cap K \subseteq low2[i] /\ high[i] \cap K \subseteq high2[i]
      BY <2>1
    <2>4. Waits(fs, refs, low, high)
      BY <2>2
    <2> HIDE DEF low, high, low2, high2
    <2>5. Waits(fs, refs, low2, high2)
      BY <1>4, <2>3, <2>4, WaitsKept
    <2>6. QED
      BY <2>5 DEF Waiting, low2, high2, Waits
  <1>10. call'.args \in Operands(call'.op, Reach')
    BY <1>1, <1>3
  <1>11. QED
    BY <1>1, <1>3, <1>4, <1>6, <1>7, <1>8, <1>9, <1>10


----------------------------------------------------------------------------
\* The steps that leave the table alone.

\* What the client may have got from the call.
Held(r) == r = None \/ (r \in [to : Names, node : Live] /\ edge[r.to] = NoNode)

LEMMA ClientKept ==
  ASSUME TableOK, ClientOK, NEW K, Stays(K), TableOK', edge' = edge,
         Held(result)', bddrefstack' \in Seq(Live')
  PROVE  ClientOK'
  <1>1. /\ edge' \in [Names -> Live' \cup {NoNode}]
        /\ \A n \in Slot' : refcou'[n] = MaxRef \/ Cardinality({x \in Names : edge'[x] = n}) <= refcou'[n]
    BY EdgesKept
  <1>2. result' # None => result' \in [to : Names, node : Live'] /\ edge'[result'.to] = NoNode
    BY DEF Held
  <1>3. QED
    BY <1>1, <1>2 DEF ClientOK

LEMMA QuietStep ==
  ASSUME Good, UNCHANGED tablevars, edge' = edge, Held(result)', caches' = caches,
         bddrefstack' \in Seq(Live)
  PROVE  Good' /\ Stays(Live) /\ Live' = Live
  <1>1. TableOK /\ ValuesOK /\ ClientOK /\ CachesOK
    BY DEF Good
  <1>2. Stays(Live) /\ TableOK' /\ ValuesOK' /\ Live' = Live
    BY <1>1, NothingMoves
  <1>3. ClientOK'
    BY <1>1, <1>2, ClientKept
  <1>4. CachesOK'
    BY <1>1, <1>2, CachesKept DEF Stays
  <1>5. QED
    BY <1>1, <1>2, <1>3, <1>4 DEF Good

\* While an operation runs.
LEMMA RunningParts ==
  ASSUME Good, Running
  PROVE  /\ TableOK /\ ValuesOK /\ ClientOK /\ CachesOK /\ result = None /\ Held(result)
         /\ edge[call.to] = NoNode
         /\ \E o \in Operations : call.op = o.op /\ call.to = o.to
         /\ call.args \in Operands(call.op, Reach)
         /\ Chain(frames) /\ Waiting(frames, bddrefstack) /\ bddrefstack \in Seq(Live)
         /\ AskedBy(frames) \in Operands(call.op, Reach)
         /\ AskedBy(frames) \in Operands(call.op, Live)
         /\ Reach \subseteq Live
  <1>1. AskedBy(frames) \in Operands(call.op, Reach) /\ Reach \subseteq Live
    BY ChainArgs, ReachProtected DEF Good, Running
  <1>2. AskedBy(frames) \in Seq(Live)
    BY <1>1 DEF Operands
  <1>3. AskedBy(frames) \in Operands(call.op, Live)
    BY <1>1, <1>2 DEF Operands
  <1>4. QED
    BY <1>1, <1>3 DEF Good, Running, Held, ClientOK

\* The innermost call returns, and the table is as before.
LEMMA QuietReturn ==
  ASSUME Good, Running, UNCHANGED tablevars, UNCHANGED <<edge, result, caches, bddrefstack, call, frames>>,
         calling' = None, ~AtMake(frames), returned' \in Results(call.op, AskedBy(frames))
  PROVE  Good' /\ Running' /\ Kept
  <1>1. /\ TableOK /\ ClientOK /\ Held(result)' /\ bddrefstack \in Seq(Live)
        /\ call.args \in Operands(call.op, Reach)
        /\ Chain(frames) /\ Waiting(frames, bddrefstack)
    BY RunningParts DEF Held
  <1>2. Good' /\ Stays(Live) /\ Live' = Live /\ TableOK'
    BY <1>1, QuietStep DEF Good
  <1>3. PICK fs : fs = frames /\ fs = frames'
    OBVIOUS
  <1>4. PICK refs : refs = bddrefstack /\ refs = bddrefstack'
    OBVIOUS
  <1>5. Chain(fs) /\ Waiting(fs, refs)
    BY <1>1, <1>3, <1>4
  <1>6. /\ Chain(fs)' /\ Waiting(fs, refs)' /\ AskedBy(fs)' = AskedBy(fs)
        /\ call'.args \in Operands(call'.op, Reach')
        /\ Results(call.op, AskedBy(fs)) \cap Live \subseteq Results(call.op, AskedBy(fs))'
    BY <1>1, <1>2, <1>4, <1>5, ChainKept
  <1>7. returned' \in Live
    BY DEF Results
  <1>8. returned' \in Results(call.op, AskedBy(fs))'
    BY <1>3, <1>6, <1>7
  <1>9. Chain(frames)' /\ Waiting(frames, bddrefstack)' /\ returned' \in Results(call.op, AskedBy(frames))'
        /\ ~AtMake(frames)'
    BY <1>3, <1>4, <1>6, <1>8
  <1>10. result' = None /\ edge'[call'.to] = NoNode /\ \E o \in Operations : call'.op = o.op /\ call'.to = o.to
    BY DEF Running
  <1>11. QED
    BY <1>2, <1>6, <1>9, <1>10 DEF Running, Kept, Stays


LEMMA ReturnImmediateStep == ASSUME Good, Running, ReturnImmediate PROVE Good' /\ Running' /\ Kept
  <1>1. /\ calling # None /\ returned' \in Immediate(call.op, calling) /\ calling' = None
        /\ UNCHANGED tablevars /\ UNCHANGED <<edge, result, caches, bddrefstack, call, frames>>
    BY DEF ReturnImmediate, clientvars
  <1>2. calling = AskedBy(frames) /\ ~AtMake(frames)
    BY <1>1 DEF Running
  <1>3. PICK args : args = AskedBy(frames)
    OBVIOUS
  <1>4. args \in Operands(call.op, Live) /\ TableOK
    BY <1>3, RunningParts
  <1>5. returned' \in Results(call.op, args)
    BY <1>1, <1>2, <1>3, <1>4, ImmediateResult
  <1>6. QED
    BY <1>1, <1>2, <1>3, <1>5, QuietReturn

LEMMA ReturnCachedStep == ASSUME Good, Running, ReturnCached PROVE Good' /\ Running' /\ Kept
  <1>1. /\ calling # None /\ Hit(call.op, calling) /\ calling' = None
        /\ returned' = CacheEntry(call.op, calling).res
        /\ UNCHANGED tablevars /\ UNCHANGED <<edge, result, caches, bddrefstack, call, frames>>
    BY DEF ReturnCached, clientvars
  <1>2. calling = AskedBy(frames) /\ ~AtMake(frames)
    BY <1>1 DEF Running
  <1>3. PICK args : args = AskedBy(frames)
    OBVIOUS
  <1>4. args \in Operands(call.op, Live) /\ TableOK /\ CachesOK
    BY <1>3, RunningParts
  <1>5. PICK o \in Operations : call.op = o.op
    BY RunningParts
  <1>6. CacheEntry(o.op, args).res \in Results(o.op, args)
    BY <1>1, <1>2, <1>3, <1>4, <1>5, HitResult
  <1>7. returned' \in Results(call.op, AskedBy(frames))
    BY <1>1, <1>2, <1>3, <1>5, <1>6
  <1>8. QED
    BY <1>1, <1>2, <1>7, QuietReturn

\* The operands of a call that is not answered at once go below some level.
LEMMA CallGoesDown ==
  ASSUME TableOK, NEW op, NEW args \in Operands(op, Live), Immediate(op, args) = {},
         op # "ite" => ~AllLeaves(args)
  PROVE  TopLevel(args) < VarNum
  <1> USE MtbddAssumption
  <1>1. \E i \in DOMAIN args : ~Leaf(args[i])
    <2>1. CASE op # "ite"
      BY <2>1 DEF AllLeaves
    <2>2. CASE op = "ite"
      <3>1. args[1] # 0 /\ args[1] # 1
        BY <2>2 DEF Immediate, IteShortcut
      <3>2. args[1] \in 0..(2 * VarNum + 1) /\ 1 \in DOMAIN args
        BY <2>2, OperandsRange DEF Operands
      <3>3. ~Leaf(args[1])
        BY <3>1, <3>2, VariableNode
      <3>4. QED
        BY <3>2, <3>3
    <2>3. QED
      BY <2>1, <2>2
  <1>2. PICK i \in DOMAIN args : ~Leaf(args[i])
    BY <1>1
  <1>3. args[i] \in Live
    BY OperandsRange
  <1>4. LEVEL(args[i]) \in 0..(VarNum - 1)
    BY <1>2, <1>3, InnerNode
  <1>5. IsTop(args, TopLevel(args))
    BY TopsRight DEF Tops
  <1>6. TopLevel(args) \in Nat /\ TopLevel(args) <= LEVEL(args[i])
    BY <1>5 DEF IsTop
  <1>7. QED
    BY <1>4, <1>6


\* A call waits for its first recursive call.
LEMMA ChainPush ==
  ASSUME TableOK, ClientOK, call.args \in Operands(call.op, Reach), NEW fs, Chain(fs), ~AtMake(fs),
         NEW refs, Waiting(fs, refs), NEW args, args = AskedBy(fs), TopLevel(args) < VarNum,
         Immediate(call.op, args) = {}, NEW new, new = [args |-> args, step |-> "low"]
  PROVE  /\ Chain(Append(fs, new)) /\ Waiting(Append(fs, new), refs)
         /\ AskedBy(Append(fs, new)) = Cofactors(args, FALSE) /\ ~AtMake(Append(fs, new))
  <1> DEFINE gs == Append(fs, new)
  <1>1. /\ fs \in Seq(Frame) /\ DOMAIN fs = 1..Len(fs) /\ Len(fs) \in Nat
        /\ args \in Operands(call.op, Reach)
    BY ChainArgs
  <1>2. new \in Frame /\ new.args = args /\ new.step = "low"
    BY <1>1 DEF Frame
  <1>3. /\ gs \in Seq(Frame) /\ Len(gs) = Len(fs) + 1 /\ DOMAIN gs = 1..(Len(fs) + 1)
        /\ gs[Len(fs) + 1] = new /\ \A i \in 1..Len(fs) : gs[i] = fs[i]
    BY <1>1, <1>2
  <1> HIDE DEF gs
  <1> DEFINE k == Len(fs)
  <1>4. /\ k \in Nat
        /\ \A i \in 1..(k + 1) : i = k + 1 \/ i \in 1..k
        /\ \A i \in 1..k : i # 1 => i - 1 \in 1..k
        /\ \A i \in 1..k : k # 0 /\ (i = k \/ i \in 1..(k - 1))
        /\ (k + 1) - 1 = k /\ k + 1 \in 1..(k + 1)
        /\ k # 0 => k \in 1..k /\ k + 1 # 1
    BY <1>1, OnePlaceMore
  <1>5. k = 0 <=> fs = <<>>
    BY <1>1
  <1>6. DOMAIN fs = 1..k /\ Len(gs) = k + 1 /\ DOMAIN gs = 1..(k + 1) /\ gs[k + 1] = new
        /\ \A i \in 1..k : gs[i] = fs[i]
    BY <1>1, <1>3
  <1>7. args = IF k = 0 THEN call.args ELSE NextArgs(fs[k])
    BY <1>5 DEF AskedBy
  <1>8. ASSUME NEW i \in 1..k
        PROVE  /\ TopLevel(fs[i].args) < VarNum /\ Immediate(call.op, fs[i].args) = {}
               /\ fs[i].args = IF i = 1 THEN call.args ELSE NextArgs(fs[i - 1])
    BY <1>6 DEF Chain
  <1>9. \A i \in 1..k : fs[i].step # "make"
    <2>1. \A i \in 1..(k - 1) : fs[i].step # "make"
      BY DEF Chain
    <2>2. k # 0 => fs[k].step # "make"
      BY <1>5 DEF AtMake
    <2>3. QED
      BY <1>4, <2>1, <2>2
  <1> HIDE DEF k
  <1>10. Chain(gs)
    <2>1. ASSUME NEW i \in DOMAIN gs
          PROVE  /\ TopLevel(gs[i].args) < VarNum /\ Immediate(call.op, gs[i].args) = {}
                 /\ gs[i].args = IF i = 1 THEN call.args ELSE NextArgs(gs[i - 1])
      <3>1. CASE i = k + 1
        <4>1. gs[i].args = args
          BY <1>2, <1>6, <3>1
        <4>2. i # 1 => i - 1 = k /\ k \in 1..k /\ gs[k] = fs[k]
          BY <1>4, <1>6, <3>1
        <4>3. i = 1 <=> k = 0
          BY <1>4, <3>1
        <4>4. QED
          BY <1>7, <4>1, <4>2, <4>3
      <3>2. CASE i \in 1..k
        BY <1>4, <1>6, <1>8, <3>2
      <3>3. QED
        BY <1>4, <1>6, <3>1, <3>2
    <2>2. \A i \in 1..(Len(gs) - 1) : gs[i].step # "make"
      BY <1>4, <1>6, <1>9
    <2>3. QED
      BY <1>3, <2>1, <2>2 DEF Chain
  <1>11. ~AtMake(gs)
    BY <1>2, <1>6 DEF AtMake
  <1>12. AskedBy(gs) = Cofactors(args, FALSE)
    <2>1. gs # <<>>
      BY <1>4, <1>6
    <2>2. AskedBy(gs) = NextArgs(new)
      BY <1>6, <2>1 DEF AskedBy
    <2>3. (new.step # "low") = FALSE
      BY <1>2
    <2>4. QED
      BY <1>2, <2>2, <2>3 DEF NextArgs
  <1>13. Waiting(gs, refs)
    <2> DEFINE low == LowResults(fs)  high == HighResults(fs)
               low2 == LowResults(gs)  high2 == HighResults(gs)
    <2>1. \A i \in DOMAIN fs : low2[i] = low[i]
      <3>1. \A i \in DOMAIN fs : i \in DOMAIN gs /\ gs[i] = fs[i]
        BY <1>4, <1>6
      <3>2. QED
        BY <3>1 DEF LowResults
    <2>2. Waits(fs, refs, low, high)
      BY DEF Waiting
    <2> HIDE DEF low, high, low2, high2
    <2>3. Waits(Append(fs, new), refs, low2, high2)
      BY <1>1, <1>2, <2>1, <2>2, WaitsCall
    <2>4. QED
      BY <2>3 DEF Waiting, gs, low2, high2
  <1>14. QED
    BY <1>10, <1>11, <1>12, <1>13 DEF gs


\* The innermost call has pushed a result.
LEMMA ChainNext ==
  ASSUME TableOK, ClientOK, call.args \in Operands(call.op, Reach), NEW fs, Chain(fs), fs # <<>>,
         NEW refs \in Seq(Live), Waiting(fs, refs), NEW n \in Results(call.op, AskedBy(fs)), NEW step,
         \/ fs[Len(fs)].step = "low" /\ step = "high"
         \/ fs[Len(fs)].step = "high" /\ step = "make"
  PROVE  /\ Chain(NextStep(fs, step)) /\ Waiting(NextStep(fs, step), Append(refs, n))
         /\ Append(refs, n) \in Seq(Live)
         /\ AskedBy(NextStep(fs, step)) = Cofactors(fs[Len(fs)].args, TRUE)
         /\ AtMake(NextStep(fs, step)) => step = "make"
  <1> DEFINE gs == NextStep(fs, step)  k == Len(fs)  top == fs[Len(fs)]
             new == [fs[Len(fs)] EXCEPT !.step = step]
  <1>1. /\ fs \in Seq(Frame) /\ DOMAIN fs = 1..k /\ k \in Nat /\ k \in DOMAIN fs
        /\ top.args \in Operands(call.op, Reach) /\ top \in Frame
    BY ChainArgs
  <1>2. new \in Frame /\ new.args = top.args /\ new.step = step
    <2>1. top \in [args : Operands(call.op, Reach), step : {"low", "high", "make"}]
      BY <1>1 DEF Frame
    <2> HIDE DEF top
    <2>2. [top EXCEPT !.step = step] \in [args : Operands(call.op, Reach), step : {"low", "high", "make"}]
      BY <2>1
    <2>3. [top EXCEPT !.step = step].args = top.args /\ [top EXCEPT !.step = step].step = step
      BY <2>1
    <2>4. QED
      BY <2>2, <2>3 DEF Frame, top
  <1>3. /\ k \in Nat \ {0} /\ gs \in Seq(Frame) /\ Len(gs) = k /\ DOMAIN gs = 1..k
        /\ \A i \in 1..(k - 1) : i \in DOMAIN fs /\ gs[i] = fs[i]
        /\ gs[k] = new
    BY <1>1, <1>2, NextStepSeq
  <1>4. /\ \A i \in 1..(k - 1) : i \in 1..k /\ i # k
        /\ \A i \in 1..k : i = k \/ i \in 1..(k - 1)
    BY <1>3, PlacesBefore
  <1>5. \A i \in 1..k : i # 1 => i - 1 \in 1..(k - 1)
    <2> HIDE DEF k
    <2>1. QED
      BY <1>3
  <1>6. \A i \in 1..k : gs[i].args = fs[i].args
    BY <1>2, <1>3, <1>4
  <1>7. n \in Live /\ Append(refs, n) \in Seq(Live)
    BY DEF Results
  <1> HIDE DEF gs, new
  <1>8. Chain(gs)
    <2>1. ASSUME NEW i \in DOMAIN gs
          PROVE  /\ TopLevel(gs[i].args) < VarNum /\ Immediate(call.op, gs[i].args) = {}
                 /\ gs[i].args = IF i = 1 THEN call.args ELSE NextArgs(gs[i - 1])
      <3>1. i \in 1..k /\ i \in DOMAIN fs /\ gs[i].args = fs[i].args
        BY <1>1, <1>3, <1>6
      <3>2. /\ TopLevel(fs[i].args) < VarNum /\ Immediate(call.op, fs[i].args) = {}
            /\ fs[i].args = IF i = 1 THEN call.args ELSE NextArgs(fs[i - 1])
        BY <3>1 DEF Chain
      <3>3. i # 1 => gs[i - 1] = fs[i - 1]
        BY <1>3, <1>5, <3>1
      <3>4. QED
        BY <3>1, <3>2, <3>3
    <2>2. \A i \in 1..(Len(gs) - 1) : gs[i].step # "make"
      BY <1>3 DEF Chain
    <2>3. QED
      BY <1>3, <2>1, <2>2 DEF Chain
  <1>9. AskedBy(gs) = Cofactors(top.args, TRUE)
    <2>1. gs # <<>>
      BY <1>1, <1>3
    <2>2. AskedBy(gs) = NextArgs(new)
      BY <1>3, <2>1 DEF AskedBy
    <2>3. (new.step # "low") = TRUE
      BY <1>2
    <2>4. QED
      BY <1>2, <2>2, <2>3 DEF NextArgs
  <1>10. AtMake(gs) => step = "make"
    BY <1>2, <1>3 DEF AtMake
  <1>11. Waiting(gs, Append(refs, n))
    <2> DEFINE low == LowResults(fs)  high == HighResults(fs)
    <2>1. LowResults(gs) = low /\ HighResults(gs) = high
      <3>1. DOMAIN gs = DOMAIN fs /\ \A i \in DOMAIN fs : gs[i].args = fs[i].args
        BY <1>1, <1>3, <1>6
      <3>2. QED
        BY <3>1 DEF LowResults, HighResults
    <2>2. Waits(fs, refs, low, high)
      BY DEF Waiting
    <2>3. \/ top.step = "low" /\ step = "high" /\ n \in low[k]
          \/ top.step = "high" /\ step = "make" /\ n \in high[k]
      <3>1. CASE top.step = "low" /\ step = "high"
        <4>1. (top.step # "low") = FALSE
          BY <3>1
        <4>2. n \in Results(call.op, Cofactors(top.args, FALSE))
          BY <4>1 DEF AskedBy, NextArgs
        <4>3. QED
          BY <1>1, <3>1, <4>2 DEF LowResults
      <3>2. CASE top.step = "high" /\ step = "make"
        <4>1. (top.step # "low") = TRUE
          BY <3>2
        <4>2. n \in Results(call.op, Cofactors(top.args, TRUE))
          BY <4>1 DEF AskedBy, NextArgs
        <4>3. QED
          BY <1>1, <3>2, <4>2 DEF HighResults
      <3>3. QED
        BY <3>1, <3>2
    <2> HIDE DEF low, high
    <2>4. Waits(NextStep(fs, step), Append(refs, n), low, high)
      BY <1>1, <1>2, <1>7, <2>2, <2>3, WaitsPush DEF new
    <2>5. QED
      BY <2>1, <2>4 DEF Waiting, gs
  <1>12. QED
    BY <1>7, <1>8, <1>9, <1>10, <1>11 DEF gs

\* Calls and what they wait with have changed, and the table is as before.
LEMMA QuietMove ==
  ASSUME Good, Running, UNCHANGED tablevars, UNCHANGED <<edge, result, caches, call>>,
         NEW fs, frames' = fs, NEW refs \in Seq(Live), bddrefstack' = refs,
         Chain(fs), Waiting(fs, refs), returned' = NoNode,
         calling' = None \/ (calling' = AskedBy(fs) /\ ~AtMake(fs))
  PROVE  Good' /\ Running' /\ Kept
  <1>1. TableOK /\ ClientOK /\ Held(result)' /\ call.args \in Operands(call.op, Reach)
    BY RunningParts DEF Held
  <1>2. Good' /\ Stays(Live) /\ Live' = Live /\ TableOK'
    BY <1>1, QuietStep DEF Good
  <1>3. /\ Chain(fs)' /\ Waiting(fs, refs)' /\ AskedBy(fs)' = AskedBy(fs)
        /\ call'.args \in Operands(call'.op, Reach')
    BY <1>1, <1>2, ChainKept
  <1>4. Chain(frames)' /\ Waiting(frames, bddrefstack)'
        /\ (calling' # None => calling' = AskedBy(frames)' /\ ~AtMake(frames)')
    <2>1. AskedBy(frames)' = AskedBy(fs)'
      BY DEF AskedBy, NextArgs
    <2>2. AtMake(frames)' <=> AtMake(fs)
      BY DEF AtMake
    <2>3. Chain(frames)' /\ Waiting(frames, bddrefstack)'
      BY <1>3 DEF Chain, Waiting, LowResults, HighResults, NextArgs
    <2>4. QED
      BY <1>3, <2>1, <2>2, <2>3
  <1>5. result' = None /\ edge'[call'.to] = NoNode /\ \E o \in Operations : call'.op = o.op /\ call'.to = o.to
    BY DEF Running
  <1>6. QED
    BY <1>2, <1>3, <1>4, <1>5 DEF Running, Kept, Stays


LEMMA DescendStep == ASSUME Good, Running, Descend PROVE Good' /\ Running' /\ Kept
  <1>1. /\ calling # None /\ Asks(call.op, calling)
        /\ call.op # "ite" => ~AllLeaves(calling)
        /\ frames' = Append(frames, [args |-> calling, step |-> "low"])
        /\ calling' = Cofactors(calling, FALSE)
        /\ returned' = returned /\ bddrefstack' = bddrefstack
        /\ UNCHANGED tablevars /\ UNCHANGED <<edge, result, caches, call>>
    BY DEF Descend, clientvars
  <1>2. calling = AskedBy(frames) /\ ~AtMake(frames) /\ returned = NoNode
    BY <1>1 DEF Running
  <1>3. /\ TableOK /\ ClientOK /\ call.args \in Operands(call.op, Reach)
        /\ Chain(frames) /\ Waiting(frames, bddrefstack) /\ bddrefstack \in Seq(Live)
        /\ AskedBy(frames) \in Operands(call.op, Live)
    BY RunningParts
  <1>4. PICK args : args = calling
    OBVIOUS
  <1>5. Immediate(call.op, args) = {}
    BY <1>1, <1>4 DEF Asks
  <1>6. TopLevel(args) < VarNum
    BY <1>1, <1>2, <1>3, <1>4, <1>5, CallGoesDown
  <1> DEFINE new == [args |-> args, step |-> "low"]
  <1>7. PICK fs : fs = frames
    OBVIOUS
  <1>8. PICK refs : refs = bddrefstack
    OBVIOUS
  <1>9. /\ Chain(Append(fs, new)) /\ Waiting(Append(fs, new), refs)
        /\ AskedBy(Append(fs, new)) = Cofactors(args, FALSE) /\ ~AtMake(Append(fs, new))
    BY <1>2, <1>3, <1>4, <1>5, <1>6, <1>7, <1>8, ChainPush
  <1>10. PICK gs : gs = Append(fs, new)
    OBVIOUS
  <1>11. /\ frames' = gs /\ Chain(gs) /\ Waiting(gs, refs) /\ ~AtMake(gs)
         /\ calling' = AskedBy(gs) /\ bddrefstack' = refs /\ refs \in Seq(Live) /\ returned' = NoNode
    BY <1>1, <1>2, <1>3, <1>4, <1>7, <1>8, <1>9, <1>10
  <1>12. QED
    BY <1>1, <1>11, QuietMove

\* What PushLow and PushHigh push.
LEMMA PushedResult ==
  ASSUME Good, Running, returned # NoNode, frames # <<>>, NEW step,
         \/ Innermost.step = "low" /\ step = "high"
         \/ Innermost.step = "high" /\ step = "make",
         NEW gs, gs = NextStep(frames, step), NEW refs, refs = Append(bddrefstack, returned)
  PROVE  /\ Chain(gs) /\ Waiting(gs, refs) /\ refs \in Seq(Live)
         /\ AskedBy(gs) = Cofactors(Innermost.args, TRUE) /\ (AtMake(gs) => step = "make")
         /\ calling = None
  <1>1. /\ TableOK /\ ClientOK /\ call.args \in Operands(call.op, Reach)
        /\ Chain(frames) /\ Waiting(frames, bddrefstack) /\ bddrefstack \in Seq(Live)
    BY RunningParts
  <1>2. returned \in Results(call.op, AskedBy(frames)) /\ calling = None
    BY DEF Running
  <1>3. PICK fs : fs = frames
    OBVIOUS
  <1>4. PICK rs : rs = bddrefstack
    OBVIOUS
  <1>5. PICK n : n = returned
    OBVIOUS
  <1>6. \/ fs[Len(fs)].step = "low" /\ step = "high"
        \/ fs[Len(fs)].step = "high" /\ step = "make"
    BY <1>3 DEF Innermost
  <1>7. /\ Chain(fs) /\ fs # <<>> /\ rs \in Seq(Live) /\ Waiting(fs, rs)
        /\ n \in Results(call.op, AskedBy(fs))
    BY <1>1, <1>2, <1>3, <1>4, <1>5
  <1>8. /\ Chain(NextStep(fs, step)) /\ Waiting(NextStep(fs, step), Append(rs, n))
        /\ Append(rs, n) \in Seq(Live)
        /\ AskedBy(NextStep(fs, step)) = Cofactors(fs[Len(fs)].args, TRUE)
        /\ AtMake(NextStep(fs, step)) => step = "make"
    BY <1>1, <1>6, <1>7, ChainNext
  <1>9. gs = NextStep(fs, step) /\ refs = Append(rs, n) /\ fs[Len(fs)].args = Innermost.args
    BY <1>3, <1>4, <1>5 DEF Innermost
  <1>10. QED
    BY <1>2, <1>8, <1>9

LEMMA PushLowStep == ASSUME Good, Running, PushLow PROVE Good' /\ Running' /\ Kept
  <1>1. /\ returned # NoNode /\ frames # <<>> /\ Innermost.step = "low"
        /\ bddrefstack' = Append(bddrefstack, returned) /\ returned' = NoNode
        /\ frames' = NextStep(frames, "high")
        /\ calling' = Cofactors(Innermost.args, TRUE)
        /\ UNCHANGED tablevars /\ UNCHANGED <<edge, result, caches, call>>
    BY DEF PushLow, clientvars, NextStep
  <1>2. PICK gs : gs = NextStep(frames, "high") /\ frames' = gs
    BY <1>1
  <1>3. PICK refs : refs = Append(bddrefstack, returned) /\ bddrefstack' = refs
    BY <1>1
  <1>4. /\ Chain(gs) /\ Waiting(gs, refs) /\ refs \in Seq(Live)
        /\ AskedBy(gs) = Cofactors(Innermost.args, TRUE) /\ (AtMake(gs) => "high" = "make")
    BY <1>1, <1>2, <1>3, PushedResult
  <1>5. calling' = AskedBy(gs) /\ ~AtMake(gs)
    BY <1>1, <1>4
  <1>6. QED
    BY <1>1, <1>2, <1>3, <1>4, <1>5, QuietMove

LEMMA PushHighStep == ASSUME Good, Running, PushHigh PROVE Good' /\ Running' /\ Kept
  <1>1. /\ returned # NoNode /\ frames # <<>> /\ Innermost.step = "high"
        /\ bddrefstack' = Append(bddrefstack, returned) /\ returned' = NoNode
        /\ frames' = NextStep(frames, "make") /\ calling' = calling
        /\ UNCHANGED tablevars /\ UNCHANGED <<edge, result, caches, call>>
    BY DEF PushHigh, clientvars, NextStep
  <1>2. PICK gs : gs = NextStep(frames, "make") /\ frames' = gs
    BY <1>1
  <1>3. PICK refs : refs = Append(bddrefstack, returned) /\ bddrefstack' = refs
    BY <1>1
  <1>4. Chain(gs) /\ Waiting(gs, refs) /\ refs \in Seq(Live) /\ calling' = None
    BY <1>1, <1>2, <1>3, PushedResult
  <1>5. QED
    BY <1>1, <1>2, <1>3, <1>4, QuietMove


----------------------------------------------------------------------------
\* The steps of an operation that may make a node.

\* The innermost call returns, and the table has moved.
LEMMA MovedReturn ==
  ASSUME Good, Running, NEW K, Stays(K), TableOK', ValuesOK', CachesOK',
         UNCHANGED <<edge, result, call>>,
         NEW fs, frames' = fs, NEW refs \in Seq(K), bddrefstack' = refs,
         Chain(fs), Waiting(fs, refs), ~AtMake(fs), calling' = None,
         returned' \in Results(call.op, AskedBy(fs))'
  PROVE  Good' /\ Running' /\ Kept
  <1>1. /\ TableOK /\ ClientOK /\ Held(result)' /\ call.args \in Operands(call.op, Reach)
    BY RunningParts DEF Held
  <1>2. K \subseteq Live'
    BY DEF Stays, NodesStay
  <1>3. bddrefstack' \in Seq(Live')
    BY <1>2
  <1>4. Good'
    BY <1>1, <1>3, ClientKept DEF Good
  <1>5. /\ Chain(fs)' /\ Waiting(fs, refs)' /\ AskedBy(fs)' = AskedBy(fs)
        /\ call'.args \in Operands(call'.op, Reach')
    BY <1>1, ChainKept
  <1>6. Chain(frames)' /\ Waiting(frames, bddrefstack)' /\ ~AtMake(frames)'
        /\ returned' \in Results(call.op, AskedBy(frames))'
    <2>1. AskedBy(frames)' = AskedBy(fs)'
      BY DEF AskedBy, NextArgs
    <2>2. AtMake(frames)' <=> AtMake(fs)
      BY DEF AtMake
    <2>3. Chain(frames)' /\ Waiting(frames, bddrefstack)'
      BY <1>5 DEF Chain, Waiting, LowResults, HighResults, NextArgs
    <2>4. QED
      BY <2>1, <2>2, <2>3
  <1>7. result' = None /\ edge'[call'.to] = NoNode /\ \E o \in Operations : call'.op = o.op /\ call'.to = o.to
    BY DEF Running
  <1>8. QED
    BY <1>4, <1>5, <1>6, <1>7 DEF Running, Kept, Stays

\* What the calls wait with is kept by every step.
LEMMA WaitedKept ==
  ASSUME TableOK, ClientOK, NEW K, Stays(K), TableOK', NEW op, NEW args \in Operands(op, Reach)
  PROVE  bddrefstack \in Seq(K) /\ args \in Operands(op, K)
  <1>1. Reach \subseteq K
    BY ReachKept
  <1>2. Survivors \subseteq K
    BY DEF Stays, NodesStay
  <1>3. Roots \subseteq Survivors
    BY SurvivorsClosed
  <1>4. bddrefstack \in Seq(Live)
    BY DEF ClientOK
  <1>5. ASSUME NEW i \in DOMAIN bddrefstack PROVE bddrefstack[i] \in K
    <2>1. bddrefstack[i] \in Live
      BY <1>4
    <2>2. bddrefstack[i] \in Roots
      BY <2>1 DEF Roots
    <2>3. QED
      BY <1>2, <1>3, <2>2
  <1>6. bddrefstack \in Seq(K)
    BY <1>4, <1>5
  <1>7. args \in Seq(Reach)
    BY DEF Operands
  <1>8. args \in Seq(K)
    BY <1>1, <1>7
  <1>9. QED
    BY <1>6, <1>8 DEF Operands

LEMMA MakeDecisionStep ==
  ASSUME Good, Running, MakeDecision, ~bdderrorcond' PROVE Good' /\ Running' /\ Kept
  <1>1. /\ calling # None /\ IsDecision(call.op, calling) /\ calling' = None
        /\ UNCHANGED <<edge, result, call>> /\ frames' = frames /\ bddrefstack' = bddrefstack
    BY DEF MakeDecision, clientvars
  <1>2. calling = AskedBy(frames) /\ ~AtMake(frames)
    BY <1>1 DEF Running
  <1>3. /\ TableOK /\ ValuesOK /\ ClientOK /\ CachesOK
        /\ Chain(frames) /\ Waiting(frames, bddrefstack)
        /\ AskedBy(frames) \in Operands(call.op, Reach) /\ call.args \in Operands(call.op, Reach)
    BY RunningParts
  <1>4. PICK args : args = calling
    OBVIOUS
  <1>5. PICK op : op = call.op
    OBVIOUS
  <1>6. args \in Operands(op, Reach) /\ IsDecision(op, args)
    BY <1>1, <1>2, <1>3, <1>4, <1>5
  <1>7. PICK level, low, high : level = LEVEL(args[1]) /\ low = args[2] /\ high = args[3]
    OBVIOUS
  <1>8. PICK n \in Slot : bdd_makenode(level, low, high, n) /\ returned' = n
    BY <1>4, <1>7 DEF MakeDecision
  <1>9. caches' = IF Collecting(level, low, high) THEN AllReset ELSE caches
    BY <1>4, <1>7 DEF MakeDecision
  <1>10. NodeAsked(level, low, high)
    <2>1. Reach \subseteq Survivors
      BY <1>3, ReachProtected
    <2>2. args \in Seq(Reach)
      BY <1>6 DEF Operands
    <2>3. args \in Seq(Survivors)
      BY <2>1, <2>2
    <2>4. args \in Operands(op, Survivors)
      BY <1>6, <2>3 DEF Operands
    <2>5. QED
      BY <1>3, <1>6, <1>7, <2>4, DecisionAsked
  <1>11. PICK K : Keeps(K, Collecting(level, low, high)) /\ n \in Live' /\ Made(level, low, high, n)'
    BY <1>3, <1>8, <1>10, NodeMade
  <1>12. Stays(K) /\ TableOK' /\ ValuesOK' /\ (Collecting(level, low, high) \/ K = Live)
    BY <1>11 DEF Keeps
  <1>13. CachesOK'
    BY <1>3, <1>9, <1>12, CachesKept DEF Stays
  <1>14. bddrefstack \in Seq(K) /\ args \in Operands(op, K)
    BY <1>3, <1>6, <1>12, WaitedKept
  <1>15. Made(LEVEL(args[1]), args[2], args[3], n)'
    <2>1. 1 \in DOMAIN args
      BY <1>6, OperandsRange
    <2>2. LEVEL(args[1])' = level
      BY <1>3, <1>7, <1>12, <1>14, <2>1, OperandsKept DEF Stays
    <2>3. QED
      BY <1>7, <1>11, <2>2 DEF Made
  <1>16. n \in Results(op, args)'
    BY <1>3, <1>6, <1>11, <1>12, <1>14, <1>15, DecisionResult DEF Stays
  <1>17. PICK fs : fs = frames
    OBVIOUS
  <1>18. PICK refs : refs = bddrefstack
    OBVIOUS
  <1>19. /\ frames' = fs /\ bddrefstack' = refs /\ refs \in Seq(K) /\ Chain(fs) /\ Waiting(fs, refs)
         /\ ~AtMake(fs)
    BY <1>1, <1>2, <1>3, <1>14, <1>17, <1>18
  <1>20. returned' \in Results(call.op, AskedBy(fs))'
    <2>1. AskedBy(fs) = args
      BY <1>2, <1>4, <1>17
    <2>2. AskedBy(fs)' = AskedBy(fs)
      BY <1>1, <1>3, <1>12, <1>19, ChainKept
    <2>3. call'.op = op
      BY <1>1, <1>5
    <2>4. QED
      BY <1>8, <1>16, <2>1, <2>2, <2>3 DEF Results, OnTop, OperationMeaning
  <1>21. QED
    BY <1>1, <1>12, <1>13, <1>19, <1>20, MovedReturn


\* What the callback gets stays the same.
LEMMA TerminalValuesKept ==
  ASSUME TableOK, NEW K, NodesStay(K), NEW op, NEW args \in Operands(op, K), AllLeaves(args)
  PROVE  /\ AllLeaves(args)'
         /\ [i \in DOMAIN args |-> TerminalValue(args[i])]' = [i \in DOMAIN args |-> TerminalValue(args[i])]
  <1>1. ASSUME NEW i \in DOMAIN args
        PROVE  Leaf(args[i])' /\ TerminalValue(args[i])' = TerminalValue(args[i])
    <2>1. args[i] \in K /\ Leaf(args[i])
      BY OperandsRange DEF AllLeaves
    <2>2. /\ HIGH(args[i])' = HIGH(args[i]) /\ (Leaf(args[i])' <=> Leaf(args[i]))
          /\ (ISCONST(args[i])' <=> ISCONST(args[i]))
      BY <2>1, StaysSame
    <2>3. ISTERMINAL(args[i]) => values'.at[HIGH(args[i])] = values.at[HIGH(args[i])]
      BY <2>1 DEF NodesStay
    <2>4. QED
      BY <2>1, <2>2, <2>3 DEF Leaf, TerminalValue
  <1>2. QED
    BY <1>1 DEF AllLeaves

LEMMA CallBackStep ==
  ASSUME Good, Running, CallBack, ~bdderrorcond' PROVE Good' /\ Running' /\ Kept
  <1>1. /\ calling # None /\ call.op # "ite" /\ AllLeaves(calling) /\ calling' = None
        /\ UNCHANGED <<edge, result, call>> /\ frames' = frames /\ bddrefstack' = bddrefstack
    BY DEF CallBack, clientvars
  <1>2. calling = AskedBy(frames) /\ ~AtMake(frames)
    BY <1>1 DEF Running
  <1>3. /\ TableOK /\ ValuesOK /\ ClientOK /\ CachesOK
        /\ Chain(frames) /\ Waiting(frames, bddrefstack)
        /\ AskedBy(frames) \in Operands(call.op, Reach) /\ call.args \in Operands(call.op, Reach)
    BY RunningParts
  <1>4. PICK args : args = calling
    OBVIOUS
  <1>5. PICK o \in Operations : o.op = call.op
    BY RunningParts
  <1>6. args \in Operands(o.op, Reach) /\ AllLeaves(args) /\ o.op # "ite"
    BY <1>1, <1>2, <1>3, <1>4, <1>5
  <1>7. PICK value : value = Callback(o.op, [i \in DOMAIN args |-> TerminalValue(args[i])])
    OBVIOUS
  <1>8. PICK n \in Slot :
          /\ IF value = NoValue THEN n = 0 /\ UNCHANGED tablevars
             ELSE mtbdd_maketerminal(value, n)
          /\ caches' = StoredAfter((value # NoValue /\ FindTerminal(value) = {}) /\ Collects, calling, n)
          /\ returned' = n
    BY <1>4, <1>5, <1>7 DEF CallBack
  <1>9. \E K : /\ Keeps(K, (value # NoValue /\ FindTerminal(value) = {}) /\ Collects)
               /\ IF value = NoValue THEN n = 0 ELSE n \in LiveTerminals' /\ values'.at[HIGH(n)'] = value
    <2>1. CASE value = NoValue
      <3>1. UNCHANGED tablevars /\ n = 0
        BY <1>8, <2>1
      <3>2. Stays(Live) /\ TableOK' /\ ValuesOK'
        BY <1>3, <3>1, NothingMoves
      <3>3. Keeps(Live, (value # NoValue /\ FindTerminal(value) = {}) /\ Collects)
        BY <3>2 DEF Keeps
      <3>4. QED
        BY <2>1, <3>1, <3>3
    <2>2. CASE value # NoValue
      <3>1. PICK K : /\ Keeps(K, Collects /\ FindTerminal(value) = {})
                     /\ n \in LiveTerminals' /\ values'.at[HIGH(n)'] = value
        BY <1>3, <1>8, <2>2, TerminalMade
      <3>2. Keeps(K, (value # NoValue /\ FindTerminal(value) = {}) /\ Collects)
        BY <2>2, <3>1 DEF Keeps
      <3>3. QED
        BY <2>2, <3>1, <3>2
    <2>3. QED
      BY <2>1, <2>2
  <1>10. PICK K : /\ Keeps(K, (value # NoValue /\ FindTerminal(value) = {}) /\ Collects)
                  /\ IF value = NoValue THEN n = 0 ELSE n \in LiveTerminals' /\ values'.at[HIGH(n)'] = value
    BY <1>9
  <1>11. /\ Stays(K) /\ TableOK' /\ ValuesOK'
         /\ ((value # NoValue /\ FindTerminal(value) = {}) /\ Collects) \/ K = Live
    BY <1>10 DEF Keeps
  <1>12. bddrefstack \in Seq(K) /\ args \in Operands(o.op, K)
    BY <1>3, <1>6, <1>11, WaitedKept
  <1>13. n \in Results(o.op, args)'
    <2>1. /\ AllLeaves(args)'
          /\ [i \in DOMAIN args |-> TerminalValue(args[i])]' = [i \in DOMAIN args |-> TerminalValue(args[i])]
      BY <1>3, <1>6, <1>11, <1>12, TerminalValuesKept DEF Stays
    <2>2. LeafAnswer(o.op, args, n)'
      BY <1>7, <1>10, <2>1 DEF LeafAnswer
    <2>3. args \in Operands(o.op, Live')
      BY <1>3, <1>11, <1>12, OperandsKept DEF Stays
    <2>4. QED
      BY <1>6, <1>11, <2>1, <2>2, <2>3, LeafResultNext DEF LeafResults
  <1>14. CachesOK'
    <2>1. PICK base : base = IF (value # NoValue /\ FindTerminal(value) = {}) /\ Collects
                               THEN AllReset ELSE caches
      OBVIOUS
    <2>2. base = AllReset \/ (base = caches /\ K = Live)
      BY <1>11, <2>1
    <2>3. caches' = [base EXCEPT ![CacheOf(o.op)] =
                       Stored(@, CacheHash(o.op, args), Key(o.op, args), n)]
      BY <1>4, <1>5, <1>8, <2>1 DEF StoredAfter
    <2>4. QED
      BY <1>3, <1>11, <1>12, <1>13, <2>2, <2>3, CachesStored DEF Stays
  <1>15. PICK fs : fs = frames
    OBVIOUS
  <1>16. PICK refs : refs = bddrefstack
    OBVIOUS
  <1>17. /\ frames' = fs /\ bddrefstack' = refs /\ refs \in Seq(K) /\ Chain(fs) /\ Waiting(fs, refs)
         /\ ~AtMake(fs)
    BY <1>1, <1>2, <1>3, <1>12, <1>15, <1>16
  <1>18. returned' \in Results(call.op, AskedBy(fs))'
    <2>1. AskedBy(fs) = args
      BY <1>2, <1>4, <1>15
    <2>2. AskedBy(fs)' = AskedBy(fs)
      BY <1>1, <1>3, <1>11, <1>17, ChainKept
    <2>3. call'.op = o.op
      BY <1>1, <1>5
    <2>4. QED
      BY <1>8, <1>13, <2>1, <2>2, <2>3 DEF Results, OnTop, OperationMeaning
  <1>19. QED
    BY <1>1, <1>11, <1>14, <1>17, <1>18, MovedReturn


\* The innermost call has both results, and gives them off the stack.
LEMMA ChainPop ==
  ASSUME TableOK, ClientOK, call.args \in Operands(call.op, Reach), NEW fs, Chain(fs), AtMake(fs),
         NEW refs \in Seq(Survivors), Waiting(fs, refs), NEW args, args = fs[Len(fs)].args,
         NEW gs, gs = SubSeq(fs, 1, Len(fs) - 1)
  PROVE  /\ Chain(gs) /\ Waiting(gs, SubSeq(refs, 1, Len(refs) - 2)) /\ ~AtMake(gs)
         /\ SubSeq(refs, 1, Len(refs) - 2) \in Seq(Survivors)
         /\ AskedBy(gs) = args /\ args \in Operands(call.op, Reach)
         /\ TopLevel(args) < VarNum /\ Immediate(call.op, args) = {}
         /\ refs[Len(refs) - 1] \in Results(call.op, Cofactors(args, FALSE)) \cap Survivors
         /\ refs[Len(refs)] \in Results(call.op, Cofactors(args, TRUE)) \cap Survivors
  <1> DEFINE k == Len(fs)  low == LowResults(fs)  high == HighResults(fs)
             rs == SubSeq(refs, 1, Len(refs) - 2)
  <1>1. /\ fs \in Seq(Frame) /\ fs # <<>> /\ k \in DOMAIN fs
        /\ args \in Operands(call.op, Reach) /\ TopLevel(args) < VarNum
        /\ \A i \in 1..(k - 1) : fs[i].step # "make"
    BY ChainArgs DEF Chain, AtMake
  <1>2. Waits(fs, refs, low, high)
    BY DEF Waiting
  <1>3. low[k] = Results(call.op, Cofactors(args, FALSE)) /\ high[k] = Results(call.op, Cofactors(args, TRUE))
    BY <1>1 DEF LowResults, HighResults
  <1>4. \A i \in DOMAIN fs :
          /\ low[i] = Results(call.op, Cofactors(fs[i].args, FALSE))
          /\ high[i] = Results(call.op, Cofactors(fs[i].args, TRUE))
    BY DEF LowResults, HighResults
  <1> HIDE DEF low, high
  <1>5. /\ refs[Len(refs) - 1] \in low[k] /\ refs[Len(refs) - 1] \in Survivors
        /\ refs[Len(refs)] \in high[k] /\ refs[Len(refs)] \in Survivors
        /\ k \in Nat \ {0} /\ DOMAIN fs = 1..k
        /\ gs \in Seq(Frame) /\ Len(gs) = k - 1
        /\ \A i \in 1..(k - 1) : i \in 1..k /\ gs[i] = fs[i]
        /\ ~AtMake(gs) /\ rs \in Seq(Survivors)
        /\ Waits(gs, rs, low, high)
    BY <1>1, <1>2, WaitsPop
  <1> HIDE DEF rs
  <1>6. DOMAIN gs = 1..(k - 1)
    BY <1>5
  <1>7. /\ \A i \in 1..(k - 1) : i # 1 => i - 1 \in 1..(k - 1)
        /\ \A i \in 1..((k - 1) - 1) : i \in 1..(k - 1)
        /\ k # 1 => k - 1 \in 1..(k - 1)
    <2> HIDE DEF k
    <2>1. \A i \in 1..(k - 1) : i # 1 => i - 1 \in 1..(k - 1)
      BY <1>5
    <2>2. \A i \in 1..((k - 1) - 1) : i \in 1..(k - 1)
      BY <1>5
    <2>3. k # 1 => k - 1 \in 1..(k - 1)
      BY <1>5
    <2>4. QED
      BY <2>1, <2>2, <2>3
  <1>8. ASSUME NEW i \in DOMAIN fs
        PROVE  /\ TopLevel(fs[i].args) < VarNum /\ Immediate(call.op, fs[i].args) = {}
               /\ fs[i].args = IF i = 1 THEN call.args ELSE NextArgs(fs[i - 1])
    BY DEF Chain
  <1>9. Chain(gs)
    <2>1. ASSUME NEW i \in DOMAIN gs
          PROVE  /\ TopLevel(gs[i].args) < VarNum /\ Immediate(call.op, gs[i].args) = {}
                 /\ gs[i].args = IF i = 1 THEN call.args ELSE NextArgs(gs[i - 1])
      <3>1. i \in DOMAIN fs /\ gs[i] = fs[i]
        BY <1>5, <1>6
      <3>2. i # 1 => gs[i - 1] = fs[i - 1]
        BY <1>5, <1>6, <1>7
      <3>3. QED
        BY <1>8, <3>1, <3>2
    <2>2. \A i \in 1..(Len(gs) - 1) : gs[i].step # "make"
      BY <1>1, <1>5, <1>7
    <2>3. QED
      BY <1>5, <2>1, <2>2 DEF Chain
  <1>10. AskedBy(gs) = args
    <2>1. args = IF k = 1 THEN call.args ELSE NextArgs(fs[k - 1])
      BY <1>1, <1>8
    <2>2. CASE k = 1
      <3>1. gs = <<>>
        <4>1. Len(gs) = 0
          BY <1>5, <2>2
        <4>2. QED
          BY <1>5, <4>1
      <3>2. QED
        BY <2>1, <2>2, <3>1 DEF AskedBy
    <2>3. CASE k # 1
      <3>1. k - 1 \in 1..(k - 1) /\ gs[k - 1] = fs[k - 1]
        BY <1>5, <1>7, <2>3
      <3>2. gs # <<>>
        <4>1. k - 1 \in DOMAIN gs /\ DOMAIN << >> = {}
          BY <1>6, <3>1
        <4> HIDE DEF k
        <4>2. QED
          BY <4>1
      <3>3. QED
        BY <1>5, <2>1, <2>3, <3>1, <3>2 DEF AskedBy
    <2>4. QED
      BY <2>2, <2>3
  <1>11. Waiting(gs, rs)
    <2> DEFINE low2 == LowResults(gs)  high2 == HighResults(gs)
    <2>1. ASSUME NEW i \in DOMAIN gs
          PROVE  low[i] \cap Survivors \subseteq low2[i] /\ high[i] \cap Survivors \subseteq high2[i]
      <3>1. i \in DOMAIN fs /\ gs[i] = fs[i]
        BY <1>5, <1>6
      <3>2. low2[i] = low[i] /\ high2[i] = high[i]
        BY <1>4, <3>1 DEF LowResults, HighResults
      <3>3. QED
        BY <3>2
    <2> HIDE DEF low2, high2
    <2>2. Waits(gs, rs, low2, high2)
      BY <1>5, <2>1, WaitsKept
    <2>3. QED
      BY <2>2 DEF Waiting, low2, high2
  <1>12. Immediate(call.op, args) = {}
    BY <1>1, <1>8
  <1>13. QED
    BY <1>1, <1>3, <1>5, <1>9, <1>10, <1>11, <1>12 DEF rs


LEMMA RefsProtected ==
  ASSUME TableOK, ClientOK
  PROVE  bddrefstack \in Seq(Survivors) /\ Survivors \subseteq Live /\ Reach \subseteq Survivors
  <1>1. Roots \subseteq Survivors /\ Survivors \subseteq Live
    BY SurvivorsClosed
  <1>2. bddrefstack \in Seq(Live)
    BY DEF ClientOK
  <1>3. ASSUME NEW i \in DOMAIN bddrefstack PROVE bddrefstack[i] \in Survivors
    <2>1. bddrefstack[i] \in Live
      BY <1>2
    <2>2. bddrefstack[i] \in Roots
      BY <2>1 DEF Roots
    <2>3. QED
      BY <1>1, <2>2
  <1>4. QED
    BY <1>1, <1>2, <1>3, ReachProtected

\* Build asks for a node on two that are further down.
LEMMA BuildAsked ==
  ASSUME TableOK, ClientOK, NEW op, NEW args \in Operands(op, Reach), TopLevel(args) < VarNum,
         NEW low, low \in Results(op, Cofactors(args, FALSE)) \cap Survivors,
         NEW high, high \in Results(op, Cofactors(args, TRUE)) \cap Survivors
  PROVE  NodeAsked(TopLevel(args), low, high)
  <1> DEFINE l == TopLevel(args)  cofL == Cofactors(args, FALSE)  cofH == Cofactors(args, TRUE)
  <1>1. Reach \in SUBSET Live /\ Closed(Reach)
    BY ReachProtected
  <1>2. l \in 0..(VarNum - 1) /\ CofactorsDown(op, args, Reach, cofL) /\ CofactorsDown(op, args, Reach, cofH)
    BY <1>1, CofactorRange
  <1>3. l < TopLevel(cofL) /\ l < TopLevel(cofH) /\ TopLevel(cofL) \in Nat /\ TopLevel(cofH) \in Nat
    BY <1>2, TopsRight DEF CofactorsDown, Tops, IsTop
  <1>4. LEVEL(low) \in Nat /\ LEVEL(high) \in Nat
    BY TableFacts DEF Facts, Results
  <1>5. /\ TopLevel(cofL) <= LEVEL(low) \/ VarNum <= LEVEL(low)
        /\ TopLevel(cofH) <= LEVEL(high) \/ VarNum <= LEVEL(high)
    BY DEF Results
  <1> HIDE DEF l, cofL, cofH
  <1>6. l < LEVEL(low) /\ l < LEVEL(high)
    BY <1>2, <1>3, <1>4, <1>5, MtbddAssumption
  <1>7. QED
    BY <1>2, <1>6 DEF NodeAsked, l

LEMMA BuildStep ==
  ASSUME Good, Running, Build, ~bdderrorcond' PROVE Good' /\ Running' /\ Kept
  <1>1. /\ calling = None /\ frames # <<>> /\ Innermost.step = "make" /\ calling' = None
        /\ UNCHANGED <<edge, result, call>>
        /\ frames' = SubSeq(frames, 1, Len(frames) - 1)
        /\ bddrefstack' = SubSeq(bddrefstack, 1, Len(bddrefstack) - 2)
    BY DEF Build, clientvars
  <1>2. /\ TableOK /\ ValuesOK /\ ClientOK /\ CachesOK
        /\ Chain(frames) /\ Waiting(frames, bddrefstack) /\ call.args \in Operands(call.op, Reach)
    BY RunningParts
  <1>3. PICK fs : fs = frames
    OBVIOUS
  <1>4. PICK rs : rs = bddrefstack /\ rs \in Seq(Survivors)
    BY <1>2, RefsProtected
  <1>5. PICK args : args = Innermost.args /\ args = fs[Len(fs)].args
    BY <1>3 DEF Innermost
  <1>6. PICK o \in Operations : o.op = call.op
    BY RunningParts
  <1>7. PICK gs : gs = SubSeq(fs, 1, Len(fs) - 1) /\ frames' = gs
    BY <1>1, <1>3
  <1>8. PICK refs : refs = SubSeq(rs, 1, Len(rs) - 2) /\ bddrefstack' = refs
    BY <1>1, <1>4
  <1>9. PICK low : low = bddrefstack[Len(bddrefstack) - 1] /\ low = rs[Len(rs) - 1]
    BY <1>4
  <1>10. PICK high : high = bddrefstack[Len(bddrefstack)] /\ high = rs[Len(rs)]
    BY <1>4
  <1>11. Chain(fs) /\ AtMake(fs) /\ Waiting(fs, rs)
    BY <1>1, <1>2, <1>3, <1>4 DEF AtMake, Innermost
  <1>12. /\ Chain(gs) /\ Waiting(gs, refs) /\ ~AtMake(gs) /\ refs \in Seq(Survivors)
         /\ AskedBy(gs) = args /\ args \in Operands(o.op, Reach)
         /\ TopLevel(args) < VarNum /\ Immediate(o.op, args) = {}
         /\ low \in Results(o.op, Cofactors(args, FALSE)) \cap Survivors
         /\ high \in Results(o.op, Cofactors(args, TRUE)) \cap Survivors
    <2>1. args = fs[Len(fs)].args /\ gs = SubSeq(fs, 1, Len(fs) - 1) /\ rs \in Seq(Survivors)
      BY <1>4, <1>5, <1>7
    <2>2. /\ Chain(gs) /\ Waiting(gs, SubSeq(rs, 1, Len(rs) - 2)) /\ ~AtMake(gs)
          /\ SubSeq(rs, 1, Len(rs) - 2) \in Seq(Survivors)
          /\ AskedBy(gs) = args /\ args \in Operands(call.op, Reach)
          /\ TopLevel(args) < VarNum /\ Immediate(call.op, args) = {}
          /\ rs[Len(rs) - 1] \in Results(call.op, Cofactors(args, FALSE)) \cap Survivors
          /\ rs[Len(rs)] \in Results(call.op, Cofactors(args, TRUE)) \cap Survivors
      BY <1>2, <1>11, <2>1, ChainPop
    <2>3. QED
      BY <1>6, <1>8, <1>9, <1>10, <2>2
  <1>13. PICK level : level = TopLevel(args)
    OBVIOUS
  <1>14. PICK n \in Slot :
           /\ bdd_makenode(level, low, high, n) /\ returned' = n
           /\ caches' = StoredAfter(Collecting(level, low, high), args, n)
    BY <1>5, <1>9, <1>10, <1>13 DEF Build
  <1>15. NodeAsked(level, low, high)
    BY <1>2, <1>12, <1>13, BuildAsked
  <1>16. PICK K : Keeps(K, Collecting(level, low, high)) /\ n \in Live' /\ Made(level, low, high, n)'
    BY <1>2, <1>14, <1>15, NodeMade
  <1>17. Stays(K) /\ TableOK' /\ ValuesOK' /\ (Collecting(level, low, high) \/ K = Live)
    BY <1>16 DEF Keeps
  <1>18. args \in Operands(o.op, K) /\ low \in K /\ high \in K /\ refs \in Seq(K)
    <2>1. Survivors \subseteq K
      BY <1>17 DEF Stays, NodesStay
    <2>2. args \in Operands(o.op, K)
      BY <1>2, <1>12, <1>17, WaitedKept
    <2>3. QED
      BY <1>12, <2>1, <2>2
  <1>19. n \in Results(o.op, args)'
    <2>1. Made(TopLevel(args), low, high, n)'
      <3>1. TopLevel(args)' = level
        BY <1>2, <1>13, <1>17, <1>18, OperandsKept DEF Stays
      <3>2. QED
        BY <1>16, <3>1 DEF Made
    <2>2. low \in Results(o.op, Cofactors(args, FALSE)) /\ high \in Results(o.op, Cofactors(args, TRUE))
      BY <1>12
    <2>3. QED
      BY <1>2, <1>12, <1>16, <1>17, <1>18, <2>1, <2>2, BuiltResult DEF Stays
  <1>20. CachesOK'
    <2>1. PICK base : base = IF Collecting(level, low, high) THEN AllReset ELSE caches
      OBVIOUS
    <2>2. base = AllReset \/ (base = caches /\ K = Live)
      BY <1>17, <2>1
    <2>3. caches' = [base EXCEPT ![CacheOf(o.op)] =
                       Stored(@, CacheHash(o.op, args), Key(o.op, args), n)]
      BY <1>6, <1>14, <2>1 DEF StoredAfter
    <2>4. QED
      BY <1>2, <1>17, <1>18, <1>19, <2>2, <2>3, CachesStored DEF Stays
  <1>21. returned' \in Results(call.op, AskedBy(gs))'
    <2>1. AskedBy(gs)' = AskedBy(gs)
      BY <1>1, <1>2, <1>12, <1>17, <1>18, ChainKept
    <2>2. call'.op = o.op
      BY <1>1, <1>6
    <2>3. QED
      BY <1>12, <1>14, <1>19, <2>1, <2>2 DEF Results, OnTop, OperationMeaning
  <1>22. QED
    BY <1>1, <1>7, <1>8, <1>12, <1>17, <1>18, <1>20, <1>21, MovedReturn


----------------------------------------------------------------------------
\* The client, before and after an operation.

\* What an operand names is protected.
LEMMA OperandProtected ==
  ASSUME TableOK, ClientOK, NEW x \in Names \cup Fixed, Known(x)
  PROVE  Operand(x) \in Reach /\ (x \in Fixed => Operand(x) \in 0..(2 * VarNum + 1))
  <1>1. VarNum \in Nat \ {0} /\ Names \cap Fixed = {}
    BY MtbddAssumption
  <1>2. /\ 0..(2 * VarNum + 1) \subseteq Reach
        /\ \A y \in Names : edge[y] # NoNode => edge[y] \in Reach
    BY ReachProtected
  <1>3. CASE x \in Names
    BY <1>1, <1>2, <1>3 DEF Known, Operand
  <1>4. CASE x \in Fixed
    <2>1. x \notin Names
      BY <1>1, <1>4
    <2>2. ASSUME NEW n \in {0, 1}, x = Constant(n) PROVE Operand(x) \in 0..(2 * VarNum + 1)
      <3>1. x.constant = n /\ x \in {Constant(0), Constant(1)}
        BY <2>2 DEF Constant
      <3>2. Operand(x) = n
        BY <2>1, <3>1 DEF Operand
      <3>3. QED
        BY <1>1, <3>2
    <2>3. ASSUME NEW l \in 0..(VarNum - 1), x = Literal(l) PROVE Operand(x) \in 0..(2 * VarNum + 1)
      <3>1. x.literal = l
        BY <2>3 DEF Literal
      <3>2. \A n : x # Constant(n)
        <4>1. "literal" \in DOMAIN x
          BY <2>3 DEF Literal
        <4>2. \A n : "literal" \notin DOMAIN Constant(n)
          BY DEF Constant
        <4>3. QED
          BY <4>1, <4>2
      <3>3. Operand(x) = 2 * l + 2
        BY <2>1, <3>1, <3>2 DEF Operand
      <3>4. 2 * l + 2 \in 0..(2 * VarNum + 1)
        BY <1>1
      <3>5. QED
        BY <3>3, <3>4
    <2>4. Operand(x) \in 0..(2 * VarNum + 1)
      BY <1>4, <2>2, <2>3 DEF Fixed
    <2>5. QED
      BY <1>2, <2>4
  <1>5. QED
    BY <1>3, <1>4

\* So are the operands of an operation.
LEMMA StartAsked ==
  ASSUME TableOK, ClientOK, NEW o \in Operations, \A i \in DOMAIN o.args : Known(o.args[i])
  PROVE  [i \in DOMAIN o.args |-> Operand(o.args[i])] \in Operands(o.op, Reach)
  <1> DEFINE args == [i \in DOMAIN o.args |-> Operand(o.args[i])]
  <1>1. /\ o.args \in Seq(Names \cup Fixed)
        /\ o.op = "ite" => Len(o.args) = 3 /\ o.args[1] \in Fixed
        /\ o.op # "ite" => Len(o.args) \in {1, 2}
    BY OperationAssumption
  <1>2. DOMAIN o.args = 1..Len(o.args) /\ \A i \in DOMAIN o.args : o.args[i] \in Names \cup Fixed
        /\ Len(o.args) \in Nat
    BY <1>1
  <1>3. ASSUME NEW i \in DOMAIN o.args
        PROVE  Operand(o.args[i]) \in Reach
               /\ (o.args[i] \in Fixed => Operand(o.args[i]) \in 0..(2 * VarNum + 1))
    BY <1>2, OperandProtected
  <1>4. PICK k \in Nat : k = Len(o.args)
    BY <1>2
  <1>5. args \in [1..k -> Reach]
    BY <1>2, <1>3, <1>4
  <1>6. args \in Seq(Reach) /\ Len(args) = k
    BY <1>5
  <1>7. o.op = "ite" => args[1] \in 0..(2 * VarNum + 1)
    <2>1. ASSUME o.op = "ite" PROVE args[1] \in 0..(2 * VarNum + 1)
      <3>1. k = 3 /\ 1 \in DOMAIN o.args
        BY <1>1, <1>2, <1>4, <2>1
      <3>2. QED
        BY <1>1, <1>3, <2>1, <3>1
    <2>2. QED
      BY <2>1
  <1> HIDE DEF args
  <1>8. args \in Operands(o.op, Reach)
    BY <1>1, <1>4, <1>6, <1>7 DEF Operands
  <1>9. QED
    BY <1>8 DEF args


\* No call waits.
LEMMA NoneWaits ==
  ASSUME frames' = <<>>, bddrefstack' = <<>>
  PROVE  Chain(frames)' /\ Waiting(frames, bddrefstack)' /\ ~AtMake(frames)' /\ AskedBy(frames)' = call'.args
  <1>1. PICK lo, hi : lo = LowResults(frames)' /\ hi = HighResults(frames)'
    OBVIOUS
  <1>2. Waits(<<>>, <<>>, lo, hi)
    BY NothingWaits
  <1>3. Waiting(frames, bddrefstack)'
    BY <1>1, <1>2 DEF Waiting
  <1>4. Len(<<>>) = 0 /\ DOMAIN <<>> = {} /\ 1..(0 - 1) = {} /\ \A S : <<>> \in Seq(S)
    OBVIOUS
  <1>5. Chain(frames)'
    BY <1>4 DEF Chain
  <1>6. ~AtMake(frames)' /\ AskedBy(frames)' = call'.args
    BY DEF AtMake, AskedBy
  <1>7. QED
    BY <1>3, <1>5, <1>6

LEMMA StartStep ==
  ASSUME Good, Resting, NEW o \in Operations, Start(o) PROVE Good' /\ Running' /\ Kept /\ call' # None
  <1> DEFINE args == [i \in DOMAIN o.args |-> Operand(o.args[i])]
             new == [op |-> o.op, args |-> args, to |-> o.to]
  <1>1. /\ result = None /\ edge[o.to] = NoNode /\ result' = None /\ edge' = edge
        /\ \A i \in DOMAIN o.args : Known(o.args[i])
        /\ call' = new /\ calling' = args
        /\ UNCHANGED tablevars /\ caches' = caches /\ bddrefstack' = bddrefstack
        /\ frames' = frames /\ returned' = returned
    BY DEF Start, Idle, clientvars
  <1>2. TableOK /\ ClientOK /\ bddrefstack \in Seq(Live)
    BY DEF Good, ClientOK
  <1>3. Good' /\ Stays(Live)
    BY <1>1, <1>2, QuietStep DEF Held
  <1>4. args \in Operands(o.op, Reach)
    BY <1>1, <1>2, StartAsked
  <1>5. new.op = o.op /\ new.args = args /\ new.to = o.to /\ new # None
    <2>1. "op" \in DOMAIN new /\ DOMAIN None = {}
      BY DEF None
    <2>2. QED
      BY <2>1
  <1> HIDE DEF args, new
  <1>6. args \in Operands(o.op, Reach')
    <2>1. Reach \subseteq Reach'
      BY <1>2, <1>3, ReachKept
    <2>2. args \in Seq(Reach)
      BY <1>4 DEF Operands
    <2>3. args \in Seq(Reach')
      BY <2>1, <2>2
    <2>4. QED
      BY <1>4, <2>3 DEF Operands
  <1>7. frames' = <<>> /\ bddrefstack' = <<>> /\ returned' = NoNode
    BY <1>1 DEF Resting
  <1>8. Chain(frames)' /\ Waiting(frames, bddrefstack)' /\ ~AtMake(frames)' /\ AskedBy(frames)' = call'.args
    BY <1>7, NoneWaits
  <1>9. Running'
    BY <1>1, <1>5, <1>6, <1>7, <1>8 DEF Running
  <1>10. QED
    BY <1>1, <1>3, <1>5, <1>9 DEF Kept, Stays

\* The result of an operation, which the client takes from there.
LEMMA FinishStep ==
  ASSUME Good, Running, Finish
  PROVE  /\ Good' /\ Resting' /\ call' = None
         /\ result'.node = returned /\ returned \in Results(call.op, call.args)
         /\ call.args \in Operands(call.op, Live) /\ NodesStay(Live)
  <1>1. /\ call # None /\ returned # NoNode /\ frames = <<>> /\ frames' = frames
        /\ result' = [to |-> call.to, node |-> returned] /\ call' = None /\ returned' = NoNode
        /\ UNCHANGED tablevars /\ caches' = caches /\ bddrefstack' = bddrefstack
        /\ edge' = edge /\ calling' = calling
    BY DEF Finish
  <1>2. /\ TableOK /\ bddrefstack \in Seq(Live) /\ Waiting(frames, bddrefstack)
        /\ edge[call.to] = NoNode /\ \E o \in Operations : call.to = o.to
        /\ AskedBy(frames) \in Operands(call.op, Live)
    BY RunningParts
  <1>3. calling = None
    BY <1>1 DEF Running
  <1>4. AskedBy(frames) = call.args
    BY <1>1 DEF AskedBy
  <1>5. returned \in Results(call.op, call.args)
    BY <1>1, <1>4 DEF Running
  <1>6. returned \in Live
    BY <1>5 DEF Results
  <1>7. bddrefstack = <<>>
    <2>1. Len(bddrefstack) = Pushed(<<>>, 0) + 0
      BY <1>1, <1>2 DEF Waiting, Waits, AtMake
    <2>2. Len(bddrefstack) = 0
      BY <2>1, PushedNone
    <2>3. QED
      BY <1>2, <2>2
  <1>8. Held(result)'
    <2>1. PICK o \in Operations : call.to = o.to
      BY <1>2
    <2>2. call.to \in Names
      BY <2>1, OperationAssumption
    <2>3. Live' = Live
      BY <1>1 DEF Live, Slot, tablevars, Free
    <2>4. QED
      BY <1>1, <1>2, <1>6, <2>2, <2>3 DEF Held
  <1>9. Good' /\ Stays(Live)
    BY <1>1, <1>2, <1>8, QuietStep
  <1>10. QED
    BY <1>1, <1>2, <1>3, <1>4, <1>5, <1>7, <1>9 DEF Resting, Stays


\* The client gets a node, and the table has moved.
LEMMA ClientGets ==
  ASSUME Good, Resting, NEW K, Stays(K), TableOK', ValuesOK',
         caches' = AllReset \/ (caches' = caches /\ K = Live),
         UNCHANGED <<edge, bddrefstack>>, UNCHANGED callvars, Held(result)'
  PROVE  Good' /\ Resting' /\ Kept
  <1>1. TableOK /\ ValuesOK /\ ClientOK /\ CachesOK
    BY DEF Good
  <1>2. Resting'
    BY DEF Resting, callvars
  <1>3. CachesOK'
    BY <1>1, CachesKept DEF Stays
  <1>4. bddrefstack' \in Seq(Live')
    BY <1>2 DEF Resting
  <1>5. ClientOK'
    BY <1>1, <1>4, ClientKept
  <1>6. QED
    BY <1>2, <1>3, <1>5 DEF Good, Kept, Stays

LEMMA NewTerminalStep ==
  ASSUME Good, Resting, NEW t \in Terminals, NewTerminal(t), ~bdderrorcond'
  PROVE  Good' /\ Resting' /\ Kept
  <1>1. /\ edge[t.to] = NoNode /\ edge' = edge /\ bddrefstack' = bddrefstack /\ UNCHANGED callvars
        /\ caches' = IF Collects /\ FindTerminal(t.value) = {} THEN AllReset ELSE caches
    BY DEF NewTerminal, MakeTerminal, Idle, ResetIf
  <1>2. PICK n \in Slot : mtbdd_maketerminal(t.value, n) /\ result' = [to |-> t.to, node |-> n]
    BY DEF NewTerminal, MakeTerminal
  <1>3. TableOK /\ ValuesOK /\ ClientOK
    BY DEF Good
  <1>4. PICK K : Keeps(K, Collects /\ FindTerminal(t.value) = {}) /\ n \in LiveTerminals'
    <2>1. PICK value : value = t.value
      OBVIOUS
    <2>2. mtbdd_maketerminal(value, n)
      BY <1>2, <2>1
    <2>3. \E K : Keeps(K, Collects /\ FindTerminal(value) = {}) /\ n \in LiveTerminals'
      BY <1>3, <2>2, TerminalMade
    <2>4. QED
      BY <2>1, <2>3
  <1>5. Stays(K) /\ TableOK' /\ ValuesOK' /\ (caches' = AllReset \/ (caches' = caches /\ K = Live))
    BY <1>1, <1>4 DEF Keeps
  <1>6. Held(result)'
    <2>1. n \in Live' /\ t.to \in Names
      BY <1>4, MtbddAssumption DEF LiveTerminals
    <2>2. QED
      BY <1>1, <1>2, <2>1 DEF Held
  <1>7. QED
    BY <1>1, <1>5, <1>6, ClientGets

LEMMA NewNodeStep ==
  ASSUME Good, Resting, NEW m \in Nodes, NewNodeOf(m), ~bdderrorcond'
  PROVE  Good' /\ Resting' /\ Kept
  <1>1. PICK level, low, high : level = m.level /\ low = Operand(m.low) /\ high = Operand(m.high)
    OBVIOUS
  <1>2. /\ edge[m.to] = NoNode /\ edge' = edge /\ bddrefstack' = bddrefstack /\ UNCHANGED callvars
        /\ Known(m.low) /\ Known(m.high) /\ level < LEVEL(low) /\ level < LEVEL(high)
        /\ caches' = IF Collecting(level, low, high) THEN AllReset ELSE caches
    BY <1>1 DEF NewNodeOf, MakeNode, Idle, ResetIf
  <1>3. PICK n \in Slot : bdd_makenode(level, low, high, n) /\ result' = [to |-> m.to, node |-> n]
    BY <1>1 DEF NewNodeOf, MakeNode
  <1>4. TableOK /\ ValuesOK /\ ClientOK
    BY DEF Good
  <1>5. /\ m.to \in Names /\ m.level \in 0..(VarNum - 1)
        /\ m.low \in Names \cup Fixed /\ m.high \in Names \cup Fixed
    BY MtbddAssumption
  <1>6. NodeAsked(level, low, high)
    <2>1. low \in Reach /\ high \in Reach
      BY <1>1, <1>2, <1>4, <1>5, OperandProtected
    <2>2. QED
      BY <1>1, <1>2, <1>4, <1>5, <2>1, ReachProtected DEF NodeAsked
  <1>7. PICK K : Keeps(K, Collecting(level, low, high)) /\ n \in Live'
    BY <1>3, <1>4, <1>6, NodeMade
  <1>8. Stays(K) /\ TableOK' /\ ValuesOK' /\ (caches' = AllReset \/ (caches' = caches /\ K = Live))
    BY <1>2, <1>7 DEF Keeps
  <1>9. Held(result)'
    BY <1>2, <1>3, <1>5, <1>7 DEF Held
  <1>10. QED
    BY <1>2, <1>8, <1>9, ClientGets

\* A collection leaves what the client holds.
LEMMA CollectStep ==
  ASSUME Good, Resting, Collect
  PROVE  Good' /\ Resting' /\ Kept
  <1>1. /\ Gbc /\ caches' = AllReset /\ result = None /\ UNCHANGED callvars
        /\ edge' = edge /\ result' = result /\ bddrefstack' = bddrefstack
    BY DEF Collect, Gbc, ResetIf, clientvars
  <1>2. TableOK /\ ValuesOK /\ ClientOK
    BY DEF Good
  <1>3. Moved(Survivors, {}, 0) /\ values' = mtbdd_delete_terminals(values, Live \ Survivors)
    BY <1>1, <1>2, GbcMoves
  <1>4. PICK K : K = Survivors
    OBVIOUS
  <1>5. Moved(K, {}, 0) /\ values' = mtbdd_delete_terminals(values, Live \ K)
    BY <1>3, <1>4
  <1>6. TableOK'
    BY <1>2, <1>5, MovedTable
  <1>7. ValuesOK' /\ Stays(K)
    BY <1>2, <1>5, MovedValues
  <1>8. Held(result)'
    BY <1>1 DEF Held
  <1>9. QED
    BY <1>1, <1>6, <1>7, <1>8, ClientGets


\* Counts change, and nodes and values do not.
LEMMA CountsMove ==
  ASSUME Good, Resting, node' = node, values' = values, caches' = caches, UNCHANGED callvars,
         bddrefstack' = bddrefstack, result' = None,
         refcou' \in [Slot -> 0..MaxRef],
         \A n \in 0..(2 * VarNum + 1) : refcou'[n] = MaxRef,
         edge' \in [Names -> Live \cup {NoNode}],
         \A n \in Slot : refcou'[n] = MaxRef \/ Cardinality({x \in Names : edge'[x] = n}) <= refcou'[n]
  PROVE  Good' /\ Resting' /\ Kept
  <1>1. TableOK /\ ValuesOK /\ CachesOK
    BY DEF Good
  <1>2. Live' = Live /\ Slot' = Slot /\ Closed(Live) /\ Survivors \subseteq Live
    BY <1>1, TableFacts, SurvivorsClosed DEF Facts, Live, Slot, Free
  <1>3. TableOK'
    BY <1>1, <1>2 DEF TableOK, Slot, Node, Free, FirstNode, InnerOK, ISTERMINAL, LEVEL, LOW, HIGH
  <1>4. LiveTerminals' = LiveTerminals
    BY <1>2 DEF LiveTerminals, ISTERMINAL, LEVEL
  <1>5. Indices(LiveTerminals)' = Indices(LiveTerminals)
    BY <1>4 DEF Indices, HIGH
  <1>6. ValuesOK'
    BY <1>1, <1>4, <1>5 DEF ValuesOK, ValuesGood, Capacity, HIGH
  <1>7. NodesStay(Live)
    BY <1>2 DEF NodesStay
  <1>8. CachesOK'
    BY <1>1, <1>3, <1>7, CachesKept
  <1>9. Resting'
    BY DEF Resting, callvars
  <1>10. ClientOK'
    BY <1>2, <1>9 DEF ClientOK, Resting, NoNode
  <1>11. QED
    BY <1>3, <1>6, <1>7, <1>8, <1>9, <1>10 DEF Good, Kept

\* How often a node is held, when one variable changes.
Holders(e, n) == {y \in Names : e[y] = n}
Changed(e, x, r, f) == x \in Names /\ \A y \in Names : f[y] = IF y = x THEN r ELSE e[y]

LEMMA HoldersChange ==
  ASSUME NEW e, NEW x, NEW r, NEW f, Changed(e, x, r, f), NEW n, e[x] # n
  PROVE  /\ Cardinality(Holders(e, n)) \in Nat
         /\ Cardinality(Holders(f, n)) = Cardinality(Holders(e, n)) + (IF r = n THEN 1 ELSE 0)
  <1> DEFINE H == Holders(e, n)  J == Holders(f, n)
  <1>1. IsFiniteSet(H) /\ x \notin H
    BY MtbddAssumption, FS_Subset DEF Holders
  <1>2. J = IF r = n THEN H \cup {x} ELSE H
    BY DEF Holders, Changed
  <1> HIDE DEF H, J
  <1>3. Cardinality(H) \in Nat /\ Cardinality(H \cup {x}) = Cardinality(H) + 1
    BY <1>1, FS_CardinalityType, FS_AddElement
  <1>4. Cardinality(J) = Cardinality(H) + (IF r = n THEN 1 ELSE 0)
    BY <1>2, <1>3
  <1>5. QED
    BY <1>3, <1>4 DEF H, J

LEMMA TakeReferenceStep ==
  ASSUME Good, Resting, TakeReference PROVE Good' /\ Resting' /\ Kept
  <1>1. PICK r, x : r = result.node /\ x = result.to
    OBVIOUS
  <1>2. /\ result # None /\ result' = None /\ edge' = [edge EXCEPT ![x] = r]
        /\ refcou' = IF ISCONST(r) THEN refcou ELSE [refcou EXCEPT ![r] = Increased(@)]
        /\ node' = node /\ values' = values /\ caches' = caches /\ UNCHANGED callvars
        /\ bddrefstack' = bddrefstack
    BY <1>1 DEF TakeReference, AddRef
  <1>3. TableOK /\ ClientOK
    BY DEF Good
  <1>4. r \in Live /\ x \in Names /\ edge[x] = NoNode /\ edge \in [Names -> Live \cup {NoNode}]
    BY <1>1, <1>2, <1>3 DEF ClientOK
  <1>5. /\ MaxRef \in Nat \ {0} /\ r \in Slot /\ r \in Nat /\ refcou \in [Slot -> 0..MaxRef]
        /\ 0 \in 0..(2 * VarNum + 1) /\ 1 \in 0..(2 * VarNum + 1)
        /\ \A n \in 0..(2 * VarNum + 1) : refcou[n] = MaxRef
        /\ \A n \in Slot : n # NoNode
    BY <1>3, <1>4, MtbddAssumption DEF TableOK, Live, Slot, NoNode
  <1>6. ISCONST(r) => r \in 0..(2 * VarNum + 1)
    BY <1>5, MtbddAssumption DEF ISCONST
  <1>7. /\ refcou' \in [Slot -> 0..MaxRef]
        /\ \A n \in Slot : n # r => refcou'[n] = refcou[n]
        /\ refcou'[r] = MaxRef \/ (refcou'[r] = refcou[r] + 1 /\ refcou[r] < MaxRef)
        /\ refcou[r] = MaxRef => refcou'[r] = MaxRef
    <2>1. Increased(refcou[r]) \in 0..MaxRef
          /\ (Increased(refcou[r]) = MaxRef \/ (Increased(refcou[r]) = refcou[r] + 1 /\ refcou[r] < MaxRef))
          /\ (refcou[r] = MaxRef => Increased(refcou[r]) = MaxRef)
      BY <1>5 DEF Increased
    <2>2. CASE ISCONST(r)
      BY <1>2, <1>5, <1>6, <2>2
    <2>3. CASE ~ISCONST(r)
      BY <1>2, <1>5, <2>1, <2>3
    <2>4. QED
      BY <2>2, <2>3
  <1>8. \A n \in 0..(2 * VarNum + 1) : refcou'[n] = MaxRef
    <2>1. 0..(2 * VarNum + 1) \subseteq Slot
      BY MtbddAssumption DEF Slot
    <2>2. QED
      BY <1>5, <1>7, <2>1
  <1>9. ASSUME NEW n \in Slot
        PROVE  refcou'[n] = MaxRef \/ Cardinality({y \in Names : edge'[y] = n}) <= refcou'[n]
    <2> DEFINE c == Cardinality(Holders(edge, n))
               d == Cardinality(Holders(edge', n))
    <2>1. PICK e, f : e = edge /\ f = edge'
      OBVIOUS
    <2>2. e[x] # n /\ Changed(e, x, r, f)
      BY <1>2, <1>4, <1>5, <2>1 DEF Changed
    <2>3. c \in Nat /\ d = c + (IF r = n THEN 1 ELSE 0)
      <3>1. /\ Cardinality(Holders(e, n)) \in Nat
            /\ Cardinality(Holders(f, n)) = Cardinality(Holders(e, n)) + (IF r = n THEN 1 ELSE 0)
        BY <2>2, HoldersChange
      <3>2. QED
        BY <2>1, <3>1
    <2>4. refcou[n] = MaxRef \/ c <= refcou[n]
      BY <1>3 DEF ClientOK, Holders
    <2> HIDE DEF c, d
    <2>5. refcou[n] \in Nat
      BY <1>5
    <2>6. refcou'[n] = MaxRef \/ d <= refcou'[n]
      BY <1>5, <1>7, <2>3, <2>4, <2>5
    <2>7. QED
      BY <2>6 DEF d, Holders
  <1>10. edge' \in [Names -> Live \cup {NoNode}]
    BY <1>2, <1>4
  <1>11. QED
    BY <1>2, <1>7, <1>8, <1>9, <1>10, CountsMove

LEMMA GiveReferenceStep ==
  ASSUME Good, Resting, NEW x \in Names, GiveReference(x) PROVE Good' /\ Resting' /\ Kept
  <1>1. PICK r : r = edge[x]
    OBVIOUS
  <1>2. /\ r # NoNode /\ result' = None /\ edge' = [edge EXCEPT ![x] = NoNode]
        /\ refcou' = IF ISCONST(r) THEN refcou ELSE [refcou EXCEPT ![r] = Decreased(@)]
        /\ node' = node /\ values' = values /\ caches' = caches /\ UNCHANGED callvars
        /\ bddrefstack' = bddrefstack
    BY <1>1 DEF GiveReference, DelRef
  <1>3. TableOK /\ ClientOK
    BY DEF Good
  <1>4. r \in Live /\ edge \in [Names -> Live \cup {NoNode}]
    BY <1>1, <1>2, <1>3 DEF ClientOK
  <1>5. /\ MaxRef \in Nat \ {0} /\ r \in Slot /\ r \in Nat /\ refcou \in [Slot -> 0..MaxRef]
        /\ \A n \in 0..(2 * VarNum + 1) : refcou[n] = MaxRef
        /\ \A n \in Slot : n # NoNode
    BY <1>3, <1>4, MtbddAssumption DEF TableOK, Live, Slot, NoNode
  <1>6. /\ refcou' \in [Slot -> 0..MaxRef]
        /\ \A n \in Slot : n # r => refcou'[n] = refcou[n]
        /\ refcou'[r] = refcou[r] \/ refcou'[r] = refcou[r] - 1
        /\ refcou[r] = MaxRef => refcou'[r] = MaxRef
    <2>1. Decreased(refcou[r]) \in 0..MaxRef
          /\ (Decreased(refcou[r]) = refcou[r] \/ Decreased(refcou[r]) = refcou[r] - 1)
          /\ (refcou[r] = MaxRef => Decreased(refcou[r]) = MaxRef)
      BY <1>5 DEF Decreased
    <2>2. QED
      BY <1>2, <1>5, <2>1
  <1>7. \A n \in 0..(2 * VarNum + 1) : refcou'[n] = MaxRef
    <2>1. 0..(2 * VarNum + 1) \subseteq Slot
      BY MtbddAssumption DEF Slot
    <2>2. QED
      BY <1>5, <1>6, <2>1
  <1>8. ASSUME NEW n \in Slot
        PROVE  refcou'[n] = MaxRef \/ Cardinality({y \in Names : edge'[y] = n}) <= refcou'[n]
    <2> DEFINE c == Cardinality(Holders(edge, n))
               d == Cardinality(Holders(edge', n))
    <2>1. PICK e, f : e = edge' /\ f = edge
      OBVIOUS
    <2>2. e[x] # n /\ Changed(e, x, r, f)
      BY <1>1, <1>2, <1>4, <1>5, <2>1 DEF Changed
    <2>3. d \in Nat /\ c = d + (IF r = n THEN 1 ELSE 0)
      <3>1. /\ Cardinality(Holders(e, n)) \in Nat
            /\ Cardinality(Holders(f, n)) = Cardinality(Holders(e, n)) + (IF r = n THEN 1 ELSE 0)
        BY <2>2, HoldersChange
      <3>2. QED
        BY <2>1, <3>1
    <2>4. refcou[n] = MaxRef \/ c <= refcou[n]
      BY <1>3 DEF ClientOK, Holders
    <2> HIDE DEF c, d
    <2>5. refcou[n] \in Nat
      BY <1>5
    <2>6. refcou'[n] = MaxRef \/ d <= refcou'[n]
      BY <1>5, <1>6, <2>3, <2>4, <2>5
    <2>7. QED
      BY <2>6 DEF d, Holders
  <1>9. edge' \in [Names -> Live \cup {NoNode}]
    BY <1>2, <1>4
  <1>10. QED
    BY <1>2, <1>6, <1>7, <1>8, <1>9, CountsMove


----------------------------------------------------------------------------
\* Every step.

\* No step of the model takes an error back.
LEMMA MakenodeError ==
  ASSUME bdderrorcond, NEW level, NEW low, NEW high, NEW res, bdd_makenode(level, low, high, res)
  PROVE  bdderrorcond'
  BY DEF bdd_makenode, NewNode, tablevars

LEMMA MaketerminalError ==
  ASSUME bdderrorcond, NEW value, NEW res, mtbdd_maketerminal(value, res)
  PROVE  bdderrorcond'
  BY DEF mtbdd_maketerminal, NewNode, tablevars

LEMMA ErrorStays == ASSUME ApplyNext, bdderrorcond PROVE bdderrorcond'
  <1>1. CASE \/ \E o \in Operations : Start(o)
             \/ ReturnImmediate \/ ReturnCached \/ Descend \/ PushLow \/ PushHigh \/ Finish
    BY <1>1 DEF Start, ReturnImmediate, ReturnCached, Descend, PushLow, PushHigh, Finish, tablevars
  <1>2. CASE MakeDecision
    BY <1>2, MakenodeError DEF MakeDecision
  <1>3. CASE CallBack
    <2>1. PICK value, n : \/ UNCHANGED tablevars
                          \/ mtbdd_maketerminal(value, n)
      BY <1>3 DEF CallBack
    <2>2. QED
      BY <2>1, MaketerminalError DEF tablevars
  <1>4. CASE Build
    <2>1. PICK level, low, high, n : bdd_makenode(level, low, high, n)
      BY <1>4 DEF Build
    <2>2. QED
      BY <2>1, MakenodeError
  <1>5. CASE \E t \in Terminals : NewTerminal(t)
    <2>1. PICK value, n : mtbdd_maketerminal(value, n)
      BY <1>5 DEF NewTerminal, MakeTerminal
    <2>2. QED
      BY <2>1, MaketerminalError
  <1>6. CASE \E m \in Nodes : NewNodeOf(m)
    <2>1. PICK level, low, high, n : bdd_makenode(level, low, high, n)
      BY <1>6 DEF NewNodeOf, MakeNode
    <2>2. QED
      BY <2>1, MakenodeError
  <1>7. CASE TakeReference \/ (\E x \in Names : GiveReference(x)) \/ Collect
    BY <1>7 DEF TakeReference, AddRef, GiveReference, DelRef, Collect, Gbc
  <1>8. QED
    BY <1>1, <1>2, <1>3, <1>4, <1>5, <1>6, <1>7 DEF ApplyNext

\* While an operation runs it is not exchanged for another one.
LEMMA RunningStep ==
  ASSUME Good, Running, call # None, ApplyNext, ~bdderrorcond'
  PROVE  Good' /\ Kept /\ (call' = None => Resting') /\ (call' # None => Running')
  <1>1. CASE Finish
    BY <1>1, FinishStep DEF Kept
  <1>2. CASE \/ ReturnImmediate \/ MakeDecision \/ ReturnCached \/ CallBack
             \/ Descend \/ PushLow \/ PushHigh \/ Build
    <2>1. call' = call
      BY <1>2 DEF ReturnImmediate, MakeDecision, ReturnCached, CallBack, Descend, PushLow, PushHigh, Build
    <2>2. Good' /\ Running' /\ Kept
      BY <1>2, ReturnImmediateStep, MakeDecisionStep, ReturnCachedStep, CallBackStep,
         DescendStep, PushLowStep, PushHighStep, BuildStep
    <2>3. QED
      BY <2>1, <2>2
  <1>3. CASE (\E o \in Operations : Start(o)) \/ (\E t \in Terminals : NewTerminal(t))
             \/ (\E m \in Nodes : NewNodeOf(m)) \/ TakeReference
             \/ (\E x \in Names : GiveReference(x)) \/ Collect
    BY <1>3 DEF Start, NewTerminal, NewNodeOf, TakeReference, GiveReference, Collect
  <1>4. QED
    BY <1>1, <1>2, <1>3 DEF ApplyNext

\* Between operations the client goes on.
LEMMA RestingStep ==
  ASSUME Good, Resting, call = None, ApplyNext, ~bdderrorcond'
  PROVE  Good' /\ Kept /\ (call' = None => Resting') /\ (call' # None => Running')
  <1>1. CASE \E o \in Operations : Start(o)
    <2>1. PICK o \in Operations : Start(o)
      BY <1>1
    <2>2. Good' /\ Running' /\ Kept /\ call' # None
      BY <2>1, StartStep
    <2>3. QED
      BY <2>2
  <1>2. CASE \/ (\E t \in Terminals : NewTerminal(t)) \/ (\E m \in Nodes : NewNodeOf(m))
             \/ TakeReference \/ (\E x \in Names : GiveReference(x)) \/ Collect
    <2>1. call' = None
      BY <1>2 DEF NewTerminal, NewNodeOf, TakeReference, GiveReference, Collect, callvars
    <2>2. Good' /\ Resting' /\ Kept
      BY <1>2, NewTerminalStep, NewNodeStep, TakeReferenceStep, GiveReferenceStep, CollectStep
    <2>3. QED
      BY <2>1, <2>2
  <1>3. CASE \/ ReturnImmediate \/ MakeDecision \/ ReturnCached \/ CallBack \/ Descend
             \/ PushLow \/ PushHigh \/ Build \/ Finish
    BY <1>3 DEF Resting, ReturnImmediate, MakeDecision, ReturnCached, CallBack, Descend, PushLow,
                PushHigh, Build, Finish
  <1>4. QED
    BY <1>1, <1>2, <1>3 DEF ApplyNext

\* Nothing happens.
LEMMA StutterResting ==
  ASSUME Good, UNCHANGED allvars PROVE Good' /\ Stays(Live) /\ (Resting => Resting')
  <1>1. /\ UNCHANGED tablevars /\ UNCHANGED callvars /\ edge' = edge /\ result' = result
        /\ caches' = caches /\ bddrefstack' = bddrefstack
    BY DEF allvars, clientvars
  <1>2. bddrefstack \in Seq(Live) /\ Live' = Live
    BY <1>1 DEF Good, ClientOK, tablevars, Live, Slot, Free
  <1>3. Held(result)'
    BY <1>1, <1>2 DEF Held, Good, ClientOK, None
  <1>4. Good' /\ Stays(Live)
    BY <1>1, <1>2, <1>3, QuietStep
  <1>5. QED
    BY <1>1, <1>4 DEF Resting, callvars

LEMMA StutterRunning ==
  ASSUME Good, Running, UNCHANGED allvars PROVE Running'
  <1>1. /\ call' = call /\ calling' = calling /\ frames' = frames /\ returned' = returned
        /\ edge' = edge /\ result' = result /\ bddrefstack' = bddrefstack
    BY DEF allvars, clientvars, callvars
  <1>2. TableOK /\ ClientOK /\ bddrefstack \in Seq(Live) /\ call.args \in Operands(call.op, Reach)
    BY RunningParts
  <1>3. TableOK' /\ Stays(Live)
    BY StutterResting DEF Good
  <1>4. PICK fs : fs = frames /\ fs = frames'
    BY <1>1
  <1>5. PICK refs : refs = bddrefstack /\ refs = bddrefstack'
    BY <1>1
  <1>6. Chain(fs) /\ Waiting(fs, refs)
    BY <1>4, <1>5 DEF Running
  <1>7. /\ Chain(fs)' /\ Waiting(fs, refs)' /\ AskedBy(fs)' = AskedBy(fs)
        /\ call'.args \in Operands(call'.op, Reach')
        /\ Results(call.op, AskedBy(fs)) \cap Live \subseteq Results(call.op, AskedBy(fs))'
    BY <1>1, <1>2, <1>3, <1>5, <1>6, ChainKept
  <1>8. AtMake(frames)' <=> AtMake(frames)
    BY <1>1
  <1>9. returned # NoNode => returned' \in Results(call.op, AskedBy(frames))' /\ ~AtMake(frames)'
    <2>1. ASSUME returned # NoNode PROVE returned' \in Results(call.op, AskedBy(fs))' /\ ~AtMake(frames)'
      <3>1. returned \in Results(call.op, AskedBy(fs)) /\ ~AtMake(frames)
        BY <1>4, <2>1 DEF Running
      <3>2. returned \in Live
        BY <3>1 DEF Results
      <3>3. QED
        BY <1>1, <1>7, <1>8, <3>1, <3>2
    <2>2. QED
      BY <1>4, <2>1
  <1>10. calling' # None => calling' = AskedBy(frames)' /\ returned' = NoNode /\ ~AtMake(frames)'
    BY <1>1, <1>4, <1>7, <1>8 DEF Running
  <1>11. Chain(frames)' /\ Waiting(frames, bddrefstack)'
    BY <1>4, <1>5, <1>7
  <1>12. result' = None /\ edge'[call'.to] = NoNode /\ \E o \in Operations : call'.op = o.op /\ call'.to = o.to
    BY <1>1 DEF Running
  <1>13. QED
    BY <1>1, <1>7, <1>9, <1>10, <1>11, <1>12 DEF Running

LEMMA StepMtbddInv == MtbddInv /\ [ApplyNext]_allvars => MtbddInv'
  <1> SUFFICES ASSUME MtbddInv, [ApplyNext]_allvars, ~bdderrorcond' PROVE MtbddInv'
    BY DEF MtbddInv
  <1>1. CASE ApplyNext
    <2>1. ~bdderrorcond
      BY <1>1, ErrorStays
    <2>2. CASE call = None
      <3>1. Good /\ Resting
        BY <2>1, <2>2 DEF MtbddInv
      <3>2. QED
        BY <1>1, <2>2, <3>1, RestingStep DEF MtbddInv
    <2>3. CASE call # None
      <3>1. Good /\ Running
        BY <2>1, <2>3 DEF MtbddInv
      <3>2. QED
        BY <1>1, <2>3, <3>1, RunningStep DEF MtbddInv
    <2>4. QED
      BY <2>2, <2>3
  <1>2. CASE UNCHANGED allvars
    <2>1. bdderrorcond' = bdderrorcond /\ call' = call
      BY <1>2 DEF allvars, tablevars, callvars
    <2>2. QED
      BY <1>2, <2>1, StutterResting, StutterRunning DEF MtbddInv
  <1>3. QED
    BY <1>1, <1>2


\* At the start.
LEMMA InitTable ==
  ASSUME TableInit
  PROVE  TableOK /\ Live = 0..(2 * VarNum + 1) /\ LiveTerminals = {}
  <1> DEFINE last == 2 * VarNum + 1
  <1>1. /\ VarNum \in Nat \ {0} /\ MAXLEVEL \in Nat /\ VarNum < MAXLEVEL /\ MaxRef \in Nat \ {0}
        /\ InitSize \in Nat /\ last < InitSize /\ last \in Nat
        /\ 0..last \subseteq Slot /\ 0 \in 0..last /\ 1 \in 0..last
    BY MtbddAssumption DEF Slot
  <1>2. \A n \in Slot : n \in Nat /\ (n < 2 * VarNum + 2 <=> n \in 0..last)
    BY <1>1 DEF Slot
  <1>3. \A n \in Slot : node[n] = (IF n \in 0..last THEN FirstNode(n) ELSE Free)
    <2>1. ASSUME NEW n \in Slot PROVE node[n] = (IF n \in 0..last THEN FirstNode(n) ELSE Free)
      <3>1. node[n] = IF n < 2 THEN [level |-> VarNum, low |-> n, high |-> n]
               ELSE IF n < 2 * VarNum + 2
                 THEN [level |-> (n - 2) \div 2, low |-> n % 2, high |-> 1 - (n % 2)]
               ELSE Free
        BY DEF TableInit
      <3>2. n < 2 => n \in 0..last
        BY <1>1, <1>2
      <3>3. n < 2 * VarNum + 2 <=> n \in 0..last
        BY <1>2
      <3> HIDE DEF last
      <3>4. QED
        BY <3>1, <3>2, <3>3 DEF FirstNode
    <2>2. QED
      BY <2>1
  <1>4. ASSUME NEW n \in 0..last, ~(n < 2)
        PROVE  /\ FirstNode(n).level = (n - 2) \div 2 /\ FirstNode(n).low = n % 2
               /\ FirstNode(n).high = 1 - (n % 2)
               /\ (n - 2) \div 2 \in 0..(VarNum - 1)
               /\ \/ n % 2 = 0 /\ 1 - (n % 2) = 1
                  \/ n % 2 = 1 /\ 1 - (n % 2) = 0
    <2>1. FirstNode(n) = [level |-> (n - 2) \div 2, low |-> n % 2, high |-> 1 - (n % 2)]
      BY <1>4 DEF FirstNode
    <2>2. (n - 2) \div 2 \in 0..(VarNum - 1)
      BY <1>1, <1>4
    <2>3. n % 2 = 0 \/ n % 2 = 1
      BY <1>1
    <2>4. QED
      BY <2>1, <2>2, <2>3
  <1>5. ASSUME NEW n \in 0..last
        PROVE  FirstNode(n) \in Node /\ FirstNode(n) # Free /\ FirstNode(n).level # MAXLEVEL
    <2>1. CASE n < 2
      <3>1. FirstNode(n) = [level |-> VarNum, low |-> n, high |-> n]
        BY <2>1 DEF FirstNode
      <3>2. n \in Nat /\ VarNum # MAXLEVEL
        BY <1>1
      <3>3. FirstNode(n) \in Node /\ FirstNode(n).level # MAXLEVEL
        BY <1>1, <3>1, <3>2 DEF Node
      <3>4. "level" \in DOMAIN FirstNode(n) /\ DOMAIN Free = {}
        BY <3>1 DEF Free
      <3>5. QED
        BY <3>3, <3>4
    <2>2. CASE ~(n < 2)
      <3>1. FirstNode(n) = [level |-> (n - 2) \div 2, low |-> n % 2, high |-> 1 - (n % 2)]
        BY <2>2 DEF FirstNode
      <3>2. (n - 2) \div 2 \in Nat /\ n % 2 \in Nat /\ 1 - (n % 2) \in Nat /\ (n - 2) \div 2 < MAXLEVEL
        BY <1>1, <1>4, <2>2
      <3>3. FirstNode(n) \in Node /\ FirstNode(n).level # MAXLEVEL
        BY <1>1, <3>1, <3>2 DEF Node
      <3>4. "level" \in DOMAIN FirstNode(n) /\ DOMAIN Free = {}
        BY <3>1 DEF Free
      <3>5. QED
        BY <3>3, <3>4
    <2>3. QED
      BY <2>1, <2>2
  <1> HIDE DEF last
  <1>6. Live = 0..last
    BY <1>1, <1>3, <1>5 DEF Live
  <1>7. LiveTerminals = {}
    BY <1>1, <1>3, <1>5, <1>6 DEF LiveTerminals, ISTERMINAL, LEVEL
  <1>8. node \in [Slot -> Node \cup {Free}]
    <2>1. \A n \in Slot : node[n] \in Node \cup {Free}
      BY <1>3, <1>5
    <2>2. node = [n \in Slot |-> node[n]]
      BY DEF TableInit
    <2>3. QED
      BY <2>1, <2>2
  <1>9. refcou \in [Slot -> 0..MaxRef] /\ \A n \in 0..last : refcou[n] = MaxRef
    <2>1. MaxRef \in 0..MaxRef /\ 0 \in 0..MaxRef
      BY <1>1
    <2>2. refcou = [n \in Slot |-> IF n < 2 * VarNum + 2 THEN MaxRef ELSE 0]
      BY DEF TableInit
    <2>3. QED
      BY <1>1, <1>2, <2>1, <2>2
  <1>10. LEVEL(0) = VarNum /\ LEVEL(1) = VarNum
    <2>1. node[0] = FirstNode(0) /\ node[1] = FirstNode(1)
      BY <1>1, <1>3
    <2>2. FirstNode(0).level = VarNum /\ FirstNode(1).level = VarNum
      BY DEF FirstNode
    <2>3. QED
      BY <2>1, <2>2 DEF LEVEL
  <1>11. ASSUME NEW n \in Live \ {0, 1} PROVE InnerOK(n) /\ n \in 0..last /\ ~(n < 2)
    <2>1. n \in 0..last /\ n \in Slot /\ ~(n < 2)
      BY <1>1, <1>2, <1>6
    <2>2. node[n] = FirstNode(n)
      BY <1>3, <2>1
    <2>3. LEVEL(n) \in 0..(VarNum - 1) /\ LOW(n) \in {0, 1} /\ HIGH(n) \in {0, 1} /\ LOW(n) # HIGH(n)
      BY <1>4, <2>1, <2>2 DEF LEVEL, LOW, HIGH
    <2>4. QED
      BY <1>1, <1>6, <1>10, <2>1, <2>3 DEF InnerOK
  <1>12. ASSUME NEW m \in Live \ {0, 1}, NEW n \in Live \ {0, 1}, node[m] = node[n] PROVE m = n
    <2>1. /\ m \in 0..last /\ n \in 0..last /\ ~(m < 2) /\ ~(n < 2)
          /\ node[m] = FirstNode(m) /\ node[n] = FirstNode(n)
      BY <1>1, <1>3, <1>11
    <2>2. (m - 2) \div 2 = (n - 2) \div 2 /\ m % 2 = n % 2
      BY <1>4, <1>12, <2>1
    <2>3. QED
      BY <1>1, <2>1, <2>2
  <1>13. TableOK
    BY <1>1, <1>3, <1>8, <1>9, <1>11, <1>12 DEF TableOK, last
  <1>14. QED
    BY <1>6, <1>7, <1>13 DEF last

LEMMA InitMtbddInv == ApplyInit => MtbddInv
  <1> SUFFICES ASSUME ApplyInit PROVE Good /\ Resting /\ call = None
    BY DEF MtbddInv
  <1>1. TableInit /\ call = None /\ calling = None /\ frames = <<>> /\ returned = NoNode
        /\ caches = [c \in {"apply", "ite"} |-> EmptyCache(CacheSize)]
    BY DEF ApplyInit
  <1>2. TableOK /\ Live = 0..(2 * VarNum + 1) /\ LiveTerminals = {}
    BY <1>1, InitTable
  <1>3. /\ values = NoValues /\ edge = [x \in Names |-> NoNode] /\ result = None /\ bddrefstack = <<>>
    BY <1>1 DEF TableInit
  <1>4. ValuesOK
    <2>1. Indices(LiveTerminals) = {}
      BY <1>2 DEF Indices
    <2>2. DOMAIN NoValues.at = {} /\ Capacity(NoValues) = 0 /\ NoValues.last = 0 /\ NoValues.used = 0
          /\ NoValues.top = <<>> /\ DOMAIN NoValues.top = {} /\ NoValues.at = <<>>
          /\ NoValues = [at |-> <<>>, used |-> 0, last |-> 0, top |-> <<>>]
      BY FS_EmptySet DEF NoValues, Capacity
    <2>3. 0..(0 - 1) = {} /\ Cardinality({}) = 0 /\ <<>> \in Seq(Nat) /\ <<>> = [i \in {} |-> <<>>[i]]
      BY FS_EmptySet
    <2>4. ValuesGood(NoValues, {})
      BY <2>2, <2>3 DEF ValuesGood
    <2>5. QED
      BY <1>2, <1>3, <2>1, <2>4 DEF ValuesOK
  <1>5. ClientOK
    <2>1. edge \in [Names -> Live \cup {NoNode}] /\ bddrefstack \in Seq(Live)
      BY <1>3
    <2>2. ASSUME NEW n \in Slot PROVE Cardinality({x \in Names : edge[x] = n}) <= refcou[n]
      <3>1. n # NoNode
        BY MtbddAssumption DEF Slot, NoNode
      <3>2. {x \in Names : edge[x] = n} = {}
        BY <1>3, <3>1
      <3>3. refcou[n] \in 0..MaxRef
        BY <1>2, <2>2 DEF TableOK
      <3>4. refcou[n] >= 0
        BY <3>3, MtbddAssumption
      <3>5. QED
        BY <3>2, <3>4, FS_EmptySet
    <2>3. QED
      BY <1>3, <2>1, <2>2 DEF ClientOK
  <1>6. CachesOK
    <2>1. CacheSize \in Nat \ {0}
      BY OperationAssumption
    <2>2. \A c \in {"apply", "ite"} : GoodCache(EmptyCache(CacheSize), c)
      BY <2>1, EmptyCachesGood DEF EmptyGood
    <2>3. QED
      BY <1>1, <2>2 DEF CachesOK, GoodCaches
  <1>7. QED
    BY <1>1, <1>2, <1>3, <1>4, <1>5, <1>6 DEF Good, Resting

----------------------------------------------------------------------------
\* The theorems.

\* The invariant, and with it the types: nothing that the code does between
\* two errors breaks the table, the values, the counts, the caches or the
\* calls that wait.
THEOREM MtbddInvariance == ApplySpec => []MtbddInv
  <1>1. QED
    BY InitMtbddInv, StepMtbddInv, PTL DEF ApplySpec

\* Each index of a value that mtbdd_insertvalue ever gave out is that of one
\* terminal, or once on the index stack.
THEOREM MtbddValueSlotsOwned == ApplySpec => []ValueSlotsOwned
  <1>1. MtbddInv => ValueSlotsOwned
    BY SlotsCounted DEF MtbddInv, Good, ValueSlotsOwned
  <1>2. QED
    BY <1>1, MtbddInvariance, PTL

\* Equal functions have equal nodes: a value has one terminal, and bdd_makenode
\* one node for each of its arguments.
THEOREM MtbddCanonical == ApplySpec => []Canonical
  <1>1. MtbddInv => Canonical
    BY FunctionsCounted DEF MtbddInv, Good, Canonical
  <1>2. QED
    BY <1>1, MtbddInvariance, PTL


\* A step leaves what the client goes on holding.
LEMMA EdgesStay ==
  ASSUME Good, call = None => Resting, call # None => Running, ApplyNext,
         NEW x \in Names, edge[x] # NoNode, edge'[x] # NoNode
  PROVE  edge'[x] = edge[x]
  <1>1. CASE TakeReference
    <2>1. edge' = [edge EXCEPT ![result.to] = result.node] /\ result # None
      BY <1>1 DEF TakeReference, AddRef
    <2>2. edge[result.to] = NoNode /\ DOMAIN edge = Names
      BY <2>1 DEF Good, ClientOK
    <2>3. QED
      BY <2>1, <2>2
  <1>2. CASE \E y \in Names : GiveReference(y)
    <2>1. PICK y \in Names : edge' = [edge EXCEPT ![y] = NoNode]
      BY <1>2 DEF GiveReference, DelRef
    <2>2. DOMAIN edge = Names
      BY DEF Good, ClientOK
    <2>3. QED
      BY <2>1, <2>2
  <1>3. CASE ~TakeReference /\ ~(\E y \in Names : GiveReference(y))
    <2>1. edge' = edge
      BY <1>3 DEF ApplyNext, Start, ReturnImmediate, MakeDecision, ReturnCached, CallBack, Descend,
                  PushLow, PushHigh, Build, Finish, NewTerminal, MakeTerminal, NewNodeOf, MakeNode,
                  Collect, Gbc, clientvars
    <2>2. QED
      BY <2>1
  <1>4. QED
    BY <1>1, <1>2, <1>3

\* An operation that ends has the function asked for.
LEMMA FinishRight ==
  ASSUME Good, Running, Finish, OnTop(call.op, call.args) PROVE Right
  <1>1. /\ Good' /\ result'.node = returned /\ returned \in Results(call.op, call.args)
        /\ NodesStay(Live)
    BY FinishStep
  <1>2. PICK n : n = returned /\ n = result'.node
    BY <1>1
  <1>3. PICK op, args : op = call.op /\ args = call.args
    OBVIOUS
  <1>4. n \in Live /\ Meaning(n) = OperationMeaning(op, args)
    BY <1>1, <1>2, <1>3 DEF Results
  <1>5. Meaning(n)' = Meaning(n)
    BY <1>1, <1>4, MeaningKept DEF Good
  <1>6. Meaning(result.node)' = Meaning(n)'
    BY <1>2
  <1> DEFINE M == [i \in DOMAIN args |-> Meaning(args[i])]
  <1>7. OperationMeaning(op, args) = [s \in Assignments |-> OperationValue(op, [i \in DOMAIN M |-> M[i][s]])]
    <2>1. ASSUME NEW s \in Assignments
          PROVE  [i \in DOMAIN args |-> Meaning(args[i])[s]] = [i \in DOMAIN M |-> M[i][s]]
      OBVIOUS
    <2> HIDE DEF M
    <2>2. \A s \in Assignments : OperationValue(op, [i \in DOMAIN args |-> Meaning(args[i])[s]])
                                 = OperationValue(op, [i \in DOMAIN M |-> M[i][s]])
      BY <2>1
    <2>3. QED
      BY <2>2 DEF OperationMeaning
  <1>8. QED
    BY <1>3, <1>4, <1>5, <1>6, <1>7 DEF Right

LEMMA StepRight ==
  ASSUME MtbddInv, ApplyNext
  PROVE  /\ \A x \in Names : HeldAs(x) => Meaning(edge[x])' = Meaning(edge[x])
         /\ Ends /\ OnTop(call.op, call.args) => Right
  <1>1. ASSUME ~bdderrorcond' PROVE Good /\ (call = None => Resting) /\ (call # None => Running)
    BY <1>1, ErrorStays DEF MtbddInv
  <1>2. ASSUME ~bdderrorcond' PROVE Good' /\ Kept
    BY <1>1, <1>2, RestingStep, RunningStep
  <1>3. ASSUME NEW x \in Names, HeldAs(x) PROVE Meaning(edge[x])' = Meaning(edge[x])
    <2>1. edge[x] # NoNode /\ edge'[x] # NoNode /\ ~bdderrorcond'
      BY <1>3 DEF HeldAs
    <2>2. edge'[x] = edge[x]
      BY <1>1, <2>1, EdgesStay
    <2>3. PICK n : n = edge[x] /\ n = edge'[x]
      BY <2>2
    <2>4. TableOK /\ TableOK' /\ ClientOK
      BY <1>1, <1>2, <2>1 DEF Good
    <2>5. PICK K : NodesStay(K)
      BY <1>2, <2>1 DEF Kept
    <2>6. n \in K
      <3>1. edge[x] \in Reach /\ Reach \subseteq Survivors
        BY <2>1, <2>4, ReachProtected
      <3>2. Survivors \subseteq K
        BY <2>5 DEF NodesStay
      <3>3. QED
        BY <2>3, <3>1, <3>2
    <2>7. Meaning(n)' = Meaning(n)
      BY <2>4, <2>5, <2>6, MeaningKept
    <2>8. QED
      BY <2>3, <2>7
  <1>4. ASSUME Ends, OnTop(call.op, call.args) PROVE Right
    <2>1. call # None /\ call' = None /\ ~bdderrorcond'
      BY <1>4 DEF Ends
    <2>2. Finish
      BY <2>1 DEF ApplyNext, Start, ReturnImmediate, MakeDecision, ReturnCached, CallBack, Descend,
                  PushLow, PushHigh, Build, NewTerminal, NewNodeOf, TakeReference, GiveReference, Collect
    <2>3. QED
      BY <1>1, <1>4, <2>1, <2>2, FinishRight
  <1>5. QED
    BY <1>3, <1>4

\* What the client holds goes on standing for the same function, whatever is
\* collected and whichever index is used again; and an operation that ends
\* returns the right function of its operands, although collections come
\* between its steps, and its caches answer for earlier calls.
THEOREM MtbddDiagramsRight == ApplySpec => DiagramsRight
  <1>1. MtbddInv /\ [ApplyNext]_allvars =>
          [/\ \A x \in Names : HeldAs(x) => Meaning(edge[x])' = Meaning(edge[x])
           /\ Ends /\ OnTop(call.op, call.args) => Right]_allvars
    BY StepRight
  <1>2. QED
    BY <1>1, MtbddInvariance, PTL DEF ApplySpec, DiagramsRight

=============================================================================
