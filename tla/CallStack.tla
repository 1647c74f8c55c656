----------------------------- MODULE CallStack -----------------------------
(***************************************************************************)
(* The discipline of the recursions of the library: a call pushes the      *)
(* result of its first recursive call on the reference stack, then that of *)
(* the second, makes a node of both and takes them off.  What follows is   *)
(* of any sequence of calls, the innermost last, with a field step.        *)
(***************************************************************************)
EXTENDS Integers, Sequences, FiniteSets, FiniteSetTheorems, WellFoundedInduction, TLAPS

\* The number of calls in fs, up to the i-th one, that have pushed their
\* first result.
Pushed(fs, i) == Cardinality({j \in 1..i : fs[j].step # "low"})

\* The innermost call is about to make its node.
AtMake(fs) == fs # <<>> /\ fs[Len(fs)].step = "make"

\* The innermost call goes on.
NextStep(fs, step) == [fs EXCEPT ![Len(fs)].step = step]

\* The reference stack has the first result of every call that waits for its
\* second one, and both of a call that is about to make its node.  low[i] and
\* high[i] are what the two may be for the i-th call.
Waits(fs, refs, low, high) ==
  /\ Len(refs) = Pushed(fs, Len(fs)) + (IF AtMake(fs) THEN 1 ELSE 0)
  /\ \A i \in DOMAIN fs : fs[i].step # "low" => refs[Pushed(fs, i)] \in low[i]
  /\ AtMake(fs) => refs[Len(refs)] \in high[Len(fs)]

----------------------------------------------------------------------------
\* Every set of natural numbers has a least one.
LEMMA LeastNatural ==
  ASSUME NEW T \in SUBSET Nat, T # {}
  PROVE  \E x \in T : \A y \in T : x <= y
  <1> DEFINE R == OpToRel(<, Nat)
  <1>1. IsWellFoundedOn(R, Nat)
    BY NatLessThanWellFounded
  <1>2. PICK x \in T : \A y \in T : <<y, x>> \notin R
    <2> HIDE DEF R
    <2>1. QED
      BY <1>1, WFMin
  <1>3. \A y \in T : ~(y < x)
    BY <1>2 DEF OpToRel
  <1>4. QED
    BY <1>3

\* The places of a stack below its top.
LEMMA PlacesBefore ==
  ASSUME NEW k \in Nat \ {0}
  PROVE  /\ \A i \in 1..(k - 1) : i \in 1..k /\ i # k
         /\ \A i \in 1..k : i = k \/ i \in 1..(k - 1)
  OBVIOUS

\* The places of a stack with one more call.
LEMMA OnePlaceMore ==
  ASSUME NEW k \in Nat
  PROVE  /\ \A i \in 1..(k + 1) : i = k + 1 \/ i \in 1..k
         /\ \A i \in 1..k : i # 1 => i - 1 \in 1..k
         /\ \A i \in 1..k : k # 0 /\ (i = k \/ i \in 1..(k - 1))
         /\ (k + 1) - 1 = k /\ k + 1 \in 1..(k + 1)
         /\ k # 0 => k \in 1..k /\ k + 1 # 1
  <1>1. \A i \in 1..(k + 1) : i = k + 1 \/ i \in 1..k
    OBVIOUS
  <1>2. \A i \in 1..k : i # 1 => i - 1 \in 1..k
    OBVIOUS
  <1>3. \A i \in 1..k : k # 0 /\ (i = k \/ i \in 1..(k - 1))
    OBVIOUS
  <1>4. (k + 1) - 1 = k /\ k + 1 \in 1..(k + 1)
    OBVIOUS
  <1>5. k # 0 => k \in 1..k /\ k + 1 # 1
    OBVIOUS
  <1>6. QED
    BY <1>1, <1>2, <1>3, <1>4, <1>5

\* One more call has pushed its first result, or not.
LEMMA PushedStep ==
  ASSUME NEW fs, NEW i \in Nat, i > 0
  PROVE  /\ Pushed(fs, i) = Pushed(fs, i - 1) + (IF fs[i].step = "low" THEN 0 ELSE 1)
         /\ Pushed(fs, i) \in Nat /\ Pushed(fs, i - 1) \in Nat
  <1> DEFINE P(k) == {j \in 1..k : fs[j].step # "low"}
  <1>1. \A k \in Nat : IsFiniteSet(P(k)) /\ Cardinality(P(k)) \in Nat
    <2>1. ASSUME NEW k \in Nat PROVE IsFiniteSet(P(k)) /\ Cardinality(P(k)) \in Nat
      <3>1. IsFiniteSet(1..k)
        BY FS_Interval
      <3>2. IsFiniteSet(P(k))
        BY <3>1, FS_Subset
      <3>3. QED
        BY <3>2, FS_CardinalityType
    <2>2. QED
      BY <2>1
  <1>2. CASE fs[i].step = "low"
    <2>1. P(i) = P(i - 1) /\ i - 1 \in Nat
      BY <1>2
    <2>2. Cardinality(P(i)) = Cardinality(P(i - 1)) /\ Cardinality(P(i - 1)) \in Nat
      <3> HIDE DEF P
      <3>1. QED
        BY <1>1, <2>1
    <2>3. QED
      BY <1>2, <2>2 DEF Pushed
  <1>3. CASE fs[i].step # "low"
    <2>1. P(i) = P(i - 1) \cup {i} /\ i \notin P(i - 1) /\ i - 1 \in Nat
      BY <1>3
    <2>2. Cardinality(P(i)) = Cardinality(P(i - 1)) + 1
      BY <1>1, <2>1, FS_AddElement
    <2>3. QED
      BY <1>1, <1>3, <2>1, <2>2 DEF Pushed
  <1>4. QED
    BY <1>2, <1>3

\* The calls further out have pushed no more.
LEMMA PushedMonotonic ==
  ASSUME NEW fs, NEW i \in Nat, NEW k \in Nat, i <= k
  PROVE  Pushed(fs, i) \in Nat /\ Pushed(fs, i) <= Pushed(fs, k) /\ Pushed(fs, i) <= i
  <1> DEFINE P(n) == {j \in 1..n : fs[j].step # "low"}
  <1>1. IsFiniteSet(1..k) /\ IsFiniteSet(1..i) /\ Cardinality(1..i) = i
    BY FS_Interval
  <1>2. P(i) \subseteq P(k) /\ P(i) \subseteq 1..i /\ P(k) \subseteq 1..k
    OBVIOUS
  <1>3. IsFiniteSet(P(i)) /\ IsFiniteSet(P(k)) /\ Cardinality(P(i)) <= Cardinality(P(k))
        /\ Cardinality(P(i)) <= i
    BY <1>1, <1>2, FS_Subset
  <1>4. Cardinality(P(i)) \in Nat
    BY <1>3, FS_CardinalityType
  <1>5. QED
    BY <1>3, <1>4 DEF Pushed

LEMMA PushedSame ==
  ASSUME NEW fs, NEW gs, NEW i \in Nat, \A j \in 1..i : fs[j].step = gs[j].step
  PROVE  Pushed(fs, i) = Pushed(gs, i)
  BY DEF Pushed

LEMMA PushedNone == \A fs : Pushed(fs, 0) = 0
  <1>1. \A fs : {j \in 1..0 : fs[j].step # "low"} = {}
    OBVIOUS
  <1>2. QED
    BY <1>1, FS_EmptySet DEF Pushed

LEMMA NothingWaits ==
  ASSUME NEW low, NEW high
  PROVE  Waits(<<>>, <<>>, low, high)
  <1>1. Len(<<>>) = 0 /\ DOMAIN <<>> = {}
    OBVIOUS
  <1>2. Pushed(<<>>, 0) = 0
    BY PushedNone
  <1>3. QED
    BY <1>1, <1>2 DEF Waits, AtMake

\* The places of the results that calls wait with.
LEMMA WaitsInRange ==
  ASSUME NEW F, NEW fs \in Seq(F), NEW refs, NEW low, NEW high, Waits(fs, refs, low, high)
  PROVE  /\ Pushed(fs, Len(fs)) \in Nat
         /\ Pushed(fs, Len(fs)) = Len(refs) - (IF AtMake(fs) THEN 1 ELSE 0)
         /\ Len(refs) \in Nat
         /\ \A i \in DOMAIN fs : /\ Pushed(fs, i) \in Nat /\ Pushed(fs, i) <= Pushed(fs, Len(fs))
                                 /\ fs[i].step # "low" => Pushed(fs, i) > 0
  <1>1. Len(fs) \in Nat /\ DOMAIN fs = 1..Len(fs)
    OBVIOUS
  <1>2. Pushed(fs, Len(fs)) \in Nat
    BY <1>1, PushedMonotonic
  <1>3. ASSUME NEW i \in DOMAIN fs
        PROVE  /\ Pushed(fs, i) \in Nat /\ Pushed(fs, i) <= Pushed(fs, Len(fs))
               /\ fs[i].step # "low" => Pushed(fs, i) > 0
    <2>1. i \in Nat /\ i > 0 /\ i <= Len(fs)
      BY <1>1
    <2>2. /\ Pushed(fs, i) = Pushed(fs, i - 1) + (IF fs[i].step = "low" THEN 0 ELSE 1)
          /\ Pushed(fs, i - 1) \in Nat
      BY <2>1, PushedStep
    <2>3. Pushed(fs, i) \in Nat /\ Pushed(fs, i) <= Pushed(fs, Len(fs))
      BY <1>1, <2>1, PushedMonotonic
    <2>4. QED
      BY <2>2, <2>3
  <1>4. Len(refs) = Pushed(fs, Len(fs)) + (IF AtMake(fs) THEN 1 ELSE 0)
    BY DEF Waits
  <1>5. QED
    BY <1>2, <1>3, <1>4

\* The table changes: what the calls wait with is still right.
LEMMA WaitsKept ==
  ASSUME NEW F, NEW fs \in Seq(F), NEW S, NEW refs \in Seq(S),
         NEW low, NEW high, Waits(fs, refs, low, high), NEW low2, NEW high2,
         \A i \in DOMAIN fs : low[i] \cap S \subseteq low2[i] /\ high[i] \cap S \subseteq high2[i]
  PROVE  Waits(fs, refs, low2, high2)
  <1>1. Len(fs) \in Nat /\ DOMAIN fs = 1..Len(fs) /\ (fs # <<>> => Len(fs) \in DOMAIN fs)
    OBVIOUS
  <1>2. \A j \in 1..Len(refs) : refs[j] \in S
    OBVIOUS
  <1>3. ASSUME NEW i \in DOMAIN fs, fs[i].step # "low" PROVE refs[Pushed(fs, i)] \in low2[i]
    <2>1. Pushed(fs, i) \in Nat /\ Pushed(fs, i) > 0 /\ Pushed(fs, i) <= Len(refs) /\ Len(refs) \in Nat
      BY <1>3, WaitsInRange
    <2>2. refs[Pushed(fs, i)] \in low[i] /\ refs[Pushed(fs, i)] \in S
      BY <1>2, <1>3, <2>1 DEF Waits
    <2>3. QED
      BY <2>2
  <1>4. ASSUME AtMake(fs) PROVE refs[Len(refs)] \in high2[Len(fs)]
    <2>1. Len(fs) \in DOMAIN fs
      BY <1>1, <1>4 DEF AtMake
    <2>2. Len(refs) \in Nat /\ Len(refs) > 0
      BY <1>4, WaitsInRange
    <2>3. refs[Len(refs)] \in high[Len(fs)] /\ refs[Len(refs)] \in S
      BY <1>2, <1>4, <2>2 DEF Waits
    <2>4. QED
      BY <2>1, <2>3
  <1>5. QED
    BY <1>3, <1>4 DEF Waits

\* A call goes on with its first recursive call.
LEMMA WaitsCall ==
  ASSUME NEW F, NEW fs \in Seq(F), NEW refs, NEW low, NEW high,
         Waits(fs, refs, low, high), ~AtMake(fs), NEW new \in F, new.step = "low",
         NEW low2, NEW high2, \A i \in DOMAIN fs : low2[i] = low[i]
  PROVE  Waits(Append(fs, new), refs, low2, high2)
  <1> DEFINE gs == Append(fs, new)  k == Len(fs)
  <1>1. k \in Nat /\ DOMAIN fs = 1..k
    OBVIOUS
  <1>2. /\ Len(gs) = k + 1 /\ DOMAIN gs = 1..(k + 1)
        /\ gs[k + 1] = new /\ \A i \in 1..k : gs[i] = fs[i]
    OBVIOUS
  <1> HIDE DEF gs
  <1>3. \A i \in 0..k : Pushed(gs, i) = Pushed(fs, i)
    <2>1. ASSUME NEW i \in 0..k PROVE Pushed(gs, i) = Pushed(fs, i)
      <3>1. i \in Nat /\ \A j \in 1..i : gs[j].step = fs[j].step
        BY <1>1, <1>2
      <3>2. QED
        BY <3>1, PushedSame
    <2>2. QED
      BY <2>1
  <1>4. Pushed(gs, k + 1) = Pushed(fs, k) /\ Pushed(fs, k) \in Nat
    <2>1. k + 1 \in Nat /\ k + 1 > 0 /\ (k + 1) - 1 = k /\ k \in 0..k
      BY <1>1
    <2>2. /\ Pushed(gs, k + 1) = Pushed(gs, k) + (IF gs[k + 1].step = "low" THEN 0 ELSE 1)
          /\ Pushed(gs, k) \in Nat
      BY <2>1, PushedStep
    <2>3. QED
      BY <1>2, <1>3, <2>1, <2>2
  <1>5. Len(refs) = Pushed(fs, k)
    BY <1>4 DEF Waits
  <1>6. ~AtMake(gs)
    BY <1>2 DEF AtMake
  <1>7. ASSUME NEW i \in DOMAIN gs, gs[i].step # "low"
        PROVE  refs[Pushed(gs, i)] \in low2[i]
    <2>1. i \in 1..k /\ i \in 0..k
      BY <1>1, <1>2, <1>7
    <2>2. QED
      BY <1>1, <1>2, <1>3, <1>7, <2>1 DEF Waits
  <1>8. QED
    BY <1>2, <1>4, <1>5, <1>6, <1>7 DEF gs, Waits

\* The innermost call goes on: the others stay.
LEMMA NextStepSeq ==
  ASSUME NEW F, NEW fs \in Seq(F), fs # <<>>, NEW step,
         [fs[Len(fs)] EXCEPT !.step = step] \in F
  PROVE  /\ Len(fs) \in Nat \ {0} /\ Len(fs) \in DOMAIN fs /\ DOMAIN fs = 1..Len(fs)
         /\ NextStep(fs, step) \in Seq(F) /\ Len(NextStep(fs, step)) = Len(fs)
         /\ DOMAIN NextStep(fs, step) = 1..Len(fs)
         /\ \A i \in 1..(Len(fs) - 1) : i \in DOMAIN fs /\ NextStep(fs, step)[i] = fs[i]
         /\ NextStep(fs, step)[Len(fs)] = [fs[Len(fs)] EXCEPT !.step = step]
  <1> DEFINE k == Len(fs)
             top == [fs[k] EXCEPT !.step = step]
  <1>1. k \in Nat \ {0} /\ DOMAIN fs = 1..k /\ k \in DOMAIN fs /\ top \in F
    OBVIOUS
  <1>2. NextStep(fs, step) = [fs EXCEPT ![k] = top]
    BY DEF NextStep
  <1>3. \A i \in 1..(k - 1) : i \in 1..k /\ i # k
    <2> HIDE DEF k
    <2>1. QED
      BY <1>1, PlacesBefore, Zenon
  <1> HIDE DEF k, top
  <1>4. NextStep(fs, step) \in Seq(F) /\ DOMAIN NextStep(fs, step) = 1..k
    BY <1>1, <1>2
  <1>5. Len(NextStep(fs, step)) = k
    BY <1>1, <1>4
  <1>6. NextStep(fs, step)[k] = top
    BY <1>1, <1>2
  <1>7. \A i \in 1..(k - 1) : NextStep(fs, step)[i] = fs[i]
    BY <1>1, <1>2, <1>3
  <1>8. QED
    BY <1>1, <1>3, <1>4, <1>5, <1>6, <1>7 DEF k, top

\* It pushes its first result, or its second one.
LEMMA WaitsPush ==
  ASSUME NEW F, NEW fs \in Seq(F), fs # <<>>, NEW S, NEW refs \in Seq(S), NEW low, NEW high,
         Waits(fs, refs, low, high), NEW n \in S, NEW step,
         [fs[Len(fs)] EXCEPT !.step = step] \in F,
         [fs[Len(fs)] EXCEPT !.step = step].step = step,
         \/ fs[Len(fs)].step = "low" /\ step = "high" /\ n \in low[Len(fs)]
         \/ fs[Len(fs)].step = "high" /\ step = "make" /\ n \in high[Len(fs)]
  PROVE  Waits(NextStep(fs, step), Append(refs, n), low, high)
  <1> DEFINE k == Len(fs)
             gs == NextStep(fs, step)
             new == Append(refs, n)
  <1>1. k \in Nat /\ k > 0 /\ DOMAIN fs = 1..k /\ k \in 1..k
    OBVIOUS
  <1>2. /\ gs \in Seq(F) /\ Len(gs) = k /\ DOMAIN gs = 1..k
        /\ \A i \in 1..(k - 1) : i \in 1..k /\ gs[i] = fs[i]
        /\ gs[k].step = step /\ gs # <<>>
    <2>1. /\ gs \in Seq(F) /\ Len(gs) = k /\ DOMAIN gs = 1..k
          /\ \A i \in 1..(k - 1) : i \in DOMAIN fs /\ gs[i] = fs[i]
          /\ gs[k] = [fs[k] EXCEPT !.step = step]
      BY NextStepSeq
    <2> HIDE DEF gs, k
    <2>2. gs # <<>>
      BY <1>1, <2>1
    <2>3. QED
      BY <1>1, <2>1, <2>2 DEF k
  <1> HIDE DEF gs
  <1>3. ~AtMake(fs) /\ (AtMake(gs) <=> step = "make")
    BY <1>1, <1>2 DEF AtMake
  <1>4. /\ Pushed(fs, k) = Len(refs) /\ Len(refs) \in Nat
        /\ \A i \in 1..k : Pushed(fs, i) \in Nat /\ Pushed(fs, i) <= Len(refs)
                           /\ (fs[i].step # "low" => Pushed(fs, i) > 0)
    BY <1>1, <1>3, WaitsInRange
  <1>5. /\ Len(new) = Len(refs) + 1 /\ new[Len(refs) + 1] = n
        /\ \A j \in 1..Len(refs) : new[j] = refs[j]
    OBVIOUS
  <1> HIDE DEF new
  <1>6. \A i \in 0..(k - 1) : Pushed(gs, i) = Pushed(fs, i)
    <2>1. ASSUME NEW i \in 0..(k - 1) PROVE Pushed(gs, i) = Pushed(fs, i)
      <3>1. i \in Nat /\ \A j \in 1..i : gs[j].step = fs[j].step
        BY <1>1, <1>2
      <3>2. QED
        BY <3>1, PushedSame
    <2>2. QED
      BY <2>1
  <1>7. /\ Pushed(fs, k) = Pushed(fs, k - 1) + (IF fs[k].step = "low" THEN 0 ELSE 1)
        /\ Pushed(gs, k) = Pushed(fs, k - 1) + 1
        /\ Pushed(fs, k - 1) \in Nat
    <2>1. Pushed(gs, k) = Pushed(gs, k - 1) + (IF gs[k].step = "low" THEN 0 ELSE 1)
      BY <1>1, PushedStep
    <2>2. /\ Pushed(fs, k) = Pushed(fs, k - 1) + (IF fs[k].step = "low" THEN 0 ELSE 1)
          /\ Pushed(fs, k - 1) \in Nat
      BY <1>1, PushedStep
    <2>3. gs[k].step # "low" /\ k - 1 \in 0..(k - 1)
      BY <1>1, <1>2
    <2>4. QED
      BY <1>6, <2>1, <2>2, <2>3
  <1>8. ASSUME NEW i \in 1..(k - 1), gs[i].step # "low"
        PROVE  new[Pushed(gs, i)] \in low[i]
    <2>1. i \in 1..k /\ i \in 0..(k - 1) /\ fs[i].step # "low"
      BY <1>1, <1>2, <1>8
    <2>2. Pushed(gs, i) = Pushed(fs, i) /\ Pushed(fs, i) \in 1..Len(refs)
      BY <1>4, <1>6, <2>1
    <2>3. refs[Pushed(fs, i)] \in low[i]
      BY <1>1, <2>1 DEF Waits
    <2>4. QED
      BY <1>5, <2>2, <2>3
  <1>9. \A i \in 1..k : i = k \/ i \in 1..(k - 1)
    <2> HIDE DEF k
    <2>1. QED
      BY <1>1
  <1>10. CASE fs[k].step = "low" /\ step = "high" /\ n \in low[k]
    <2>1. Pushed(gs, k) = Len(refs) + 1
      BY <1>4, <1>7, <1>10
    <2>2. Len(new) = Pushed(gs, k) + 0 /\ new[Pushed(gs, k)] \in low[k]
      BY <1>4, <1>5, <1>10, <2>1
    <2>3. QED
      BY <1>2, <1>3, <1>8, <1>9, <1>10, <2>2 DEF Waits, gs, new
  <1>11. CASE fs[k].step = "high" /\ step = "make" /\ n \in high[k]
    <2>1. Pushed(gs, k) = Len(refs) /\ Pushed(gs, k) = Pushed(fs, k)
      BY <1>4, <1>7, <1>11
    <2>2. Len(new) = Pushed(gs, k) + 1 /\ new[Len(new)] \in high[k]
      BY <1>5, <1>11, <2>1
    <2>3. new[Pushed(gs, k)] \in low[k]
      <3>1. refs[Pushed(fs, k)] \in low[k] /\ Pushed(fs, k) > 0
        BY <1>1, <1>4, <1>11 DEF Waits
      <3>2. QED
        BY <1>4, <1>5, <2>1, <3>1
    <2>4. QED
      BY <1>2, <1>3, <1>8, <1>9, <1>11, <2>2, <2>3 DEF Waits, gs, new
  <1>12. QED
    BY <1>10, <1>11

\* It takes both off, and returns.
LEMMA WaitsPop ==
  ASSUME NEW F, NEW fs \in Seq(F), AtMake(fs), NEW S, NEW refs \in Seq(S), NEW low, NEW high,
         Waits(fs, refs, low, high),
         \A i \in 1..(Len(fs) - 1) : fs[i].step # "make"
  PROVE  /\ Len(refs) \in Nat /\ Len(refs) >= 2
         /\ refs[Len(refs) - 1] \in low[Len(fs)] /\ refs[Len(refs) - 1] \in S
         /\ refs[Len(refs)] \in high[Len(fs)] /\ refs[Len(refs)] \in S
         /\ Len(fs) \in Nat \ {0} /\ DOMAIN fs = 1..Len(fs)
         /\ SubSeq(fs, 1, Len(fs) - 1) \in Seq(F)
         /\ Len(SubSeq(fs, 1, Len(fs) - 1)) = Len(fs) - 1
         /\ \A i \in 1..(Len(fs) - 1) : i \in 1..Len(fs) /\ SubSeq(fs, 1, Len(fs) - 1)[i] = fs[i]
         /\ ~AtMake(SubSeq(fs, 1, Len(fs) - 1))
         /\ SubSeq(refs, 1, Len(refs) - 2) \in Seq(S)
         /\ Waits(SubSeq(fs, 1, Len(fs) - 1), SubSeq(refs, 1, Len(refs) - 2), low, high)
  <1> DEFINE k == Len(fs)
             d == Len(refs)
             gs == SubSeq(fs, 1, k - 1)
             left == SubSeq(refs, 1, d - 2)
  <1>1. k \in Nat /\ k > 0 /\ DOMAIN fs = 1..k /\ d \in Nat /\ fs # <<>> /\ k \in 1..k
    BY DEF AtMake
  <1>2. /\ Len(gs) = k - 1 /\ \A i \in 1..(k - 1) : gs[i] = fs[i]
        /\ DOMAIN gs = 1..(k - 1) /\ gs \in Seq(F)
    BY <1>1
  <1> HIDE DEF gs
  <1>3. fs[k].step = "make"
    BY DEF AtMake
  <1>4. /\ Pushed(fs, k) = d - 1 /\ Pushed(fs, k) > 0
    BY <1>1, <1>3, WaitsInRange
  <1>5. d >= 2
    BY <1>1, <1>4
  <1>6. /\ Len(left) = d - 2 /\ \A j \in 1..(d - 2) : left[j] = refs[j]
        /\ \A j \in 1..d : refs[j] \in S
        /\ left \in Seq(S)
    <2>1. \A j \in 1..d : refs[j] \in S
      OBVIOUS
    <2>2. d - 2 \in Nat /\ d - 2 <= d
      BY <1>1, <1>5
    <2>3. left = [j \in 1..(d - 2) |-> refs[j]]
      BY <2>2
    <2>4. \A j \in 1..(d - 2) : j \in 1..d
      BY <2>2
    <2> HIDE DEF left, d
    <2>5. left \in [1..(d - 2) -> S]
      BY <2>1, <2>3, <2>4
    <2>6. left \in Seq(S)
      BY <2>2, <2>5
    <2>7. Len(left) = d - 2
      BY <2>2, <2>3
    <2>8. QED
      BY <2>1, <2>3, <2>6, <2>7
  <1> HIDE DEF left
  <1>7. refs[d - 1] \in low[k] /\ refs[d] \in high[k] /\ refs[d - 1] \in S /\ refs[d] \in S
    <2>1. refs[Pushed(fs, k)] \in low[k]
      BY <1>1, <1>3 DEF Waits
    <2>2. refs[d] \in high[k]
      BY DEF Waits
    <2>3. d - 1 \in 1..d /\ d \in 1..d
      BY <1>1, <1>5
    <2>4. QED
      BY <1>4, <1>6, <2>1, <2>2, <2>3
  <1>8. \A i \in 1..(k - 1) : i \in 1..k
    <2> HIDE DEF k
    <2>1. QED
      BY <1>1
  <1>9. ~AtMake(gs)
    <2>1. CASE k = 1
      BY <1>2, <2>1 DEF AtMake
    <2>2. CASE k # 1
      <3>1. k - 1 \in 1..(k - 1)
        BY <1>1, <2>2
      <3>2. gs[Len(gs)] = fs[k - 1] /\ fs[k - 1].step # "make"
        BY <1>2, <3>1
      <3>3. QED
        BY <3>2 DEF AtMake
    <2>3. QED
      BY <2>1, <2>2
  <1>10. \A i \in 0..(k - 1) : Pushed(gs, i) = Pushed(fs, i)
    <2>1. ASSUME NEW i \in 0..(k - 1) PROVE Pushed(gs, i) = Pushed(fs, i)
      <3>1. i \in Nat /\ \A j \in 1..i : gs[j].step = fs[j].step
        BY <1>1, <1>2
      <3>2. QED
        BY <3>1, PushedSame
    <2>2. QED
      BY <2>1
  <1>11. Pushed(fs, k - 1) = d - 2
    <2>1. /\ Pushed(fs, k) = Pushed(fs, k - 1) + (IF fs[k].step = "low" THEN 0 ELSE 1)
          /\ Pushed(fs, k - 1) \in Nat
      BY <1>1, PushedStep
    <2>2. QED
      BY <1>1, <1>3, <1>4, <2>1
  <1>12. ASSUME NEW i \in 1..(k - 1), gs[i].step # "low"
         PROVE  left[Pushed(gs, i)] \in low[i]
    <2>1. i \in 1..k /\ i \in 0..(k - 1) /\ fs[i].step # "low" /\ i <= k - 1
          /\ i \in Nat /\ k - 1 \in Nat
      <3>1. fs[i].step # "low" /\ i \in 1..k
        BY <1>2, <1>8, <1>12
      <3>2. k \in Nat /\ k > 0
        BY <1>1
      <3> HIDE DEF k
      <3>3. QED
        BY <3>1, <3>2
    <2>2. Pushed(fs, i) \in Nat /\ Pushed(fs, i) > 0
      BY <1>1, <2>1, WaitsInRange
    <2>3. Pushed(fs, i) <= d - 2
      BY <1>11, <2>1, PushedMonotonic
    <2>4. refs[Pushed(fs, i)] \in low[i]
      BY <1>1, <2>1 DEF Waits
    <2>5. Pushed(gs, i) = Pushed(fs, i) /\ Pushed(fs, i) \in 1..(d - 2)
      BY <1>1, <1>10, <2>1, <2>2, <2>3
    <2>6. QED
      BY <1>6, <2>4, <2>5
  <1>13. Waits(gs, left, low, high)
    <2>1. k - 1 \in 0..(k - 1)
      BY <1>1
    <2>2. Len(left) = Pushed(gs, Len(gs)) + 0
      <3>1. Pushed(gs, k - 1) = d - 2
        BY <1>10, <1>11, <2>1
      <3>2. Len(gs) = k - 1
        BY <1>1, <1>2
      <3>3. Len(left) = d - 2 /\ d - 2 \in Nat
        BY <1>1, <1>5, <1>6
      <3> HIDE DEF gs, left, d
      <3>4. QED
        BY <3>1, <3>2, <3>3
    <2>3. QED
      BY <1>2, <1>9, <1>12, <2>2 DEF Waits
  <1>14. k \in Nat \ {0}
    BY <1>1
  <1>15. QED
    BY <1>1, <1>2, <1>5, <1>6, <1>7, <1>8, <1>9, <1>13, <1>14, Zenon DEF gs, left

=============================================================================
