---------------------------- MODULE DiagramStore ----------------------------
(***************************************************************************)
(* What the node table promises its clients, without any table: a client   *)
(* works with decision diagrams as values.  A diagram is <<0>>, <<1>> or   *)
(* <<level, low diagram, high diagram>> with two different children, so    *)
(* that one function has one diagram.  Collections, resizes and the reuse  *)
(* of slots are not visible: a diagram that is kept, or that an operation  *)
(* has among its intermediate results, never becomes another one.          *)
(***************************************************************************)
EXTENDS Integers, Sequences, FiniteSets

CONSTANTS
  VarNum,    \* the number of variables, and of levels
  Operands   \* diagrams a client can name without keeping them

VARIABLES
  kept,      \* the diagrams the client keeps, each with its number of references
  temps,     \* the intermediate results of the running operation
  answer,    \* what the last operation returned
  exhausted  \* no diagram could be made, and the error stands

vars == <<kept, temps, answer, exhausted>>

False == <<0>>
True == <<1>>

\* The diagram of "if the variable at level l then b else a".
Node(l, a, b) == IF a = b THEN a ELSE <<l, a, b>>

Level(d) == IF Len(d) = 1 THEN VarNum ELSE d[1]
Children(d) == IF Len(d) = 1 THEN {} ELSE {d[2], d[3]}
Known == (DOMAIN kept) \cup UNION {Children(d) : d \in DOMAIN kept}

Literal(l) == {Node(l, False, True), Node(l, True, False)}
Literals == UNION {Literal(l) : l \in 0..(VarNum - 1)}

Init ==
  /\ kept = <<>>
  /\ temps = <<>>
  /\ answer = False
  /\ exhausted = FALSE

\* The running operation takes up an operand.
Push ==
  /\ \E d \in Operands \cup Known : temps' = Append(temps, d)
  /\ answer' = False
  /\ UNCHANGED <<kept, exhausted>>

\* It makes a diagram of its two last results, unless the nodes are
\* exhausted: then it goes on with False.
Make(l) ==
  /\ Len(temps) >= 2
  /\ LET depth == Len(temps)
         a == temps[depth - 1]
         b == temps[depth]
         Popped == SubSeq(temps, 1, depth - 2)
     IN  /\ l < Level(a) /\ l < Level(b)
         /\ \/ temps' = Append(Popped, Node(l, a, b)) /\ UNCHANGED exhausted
            \/ temps' = Append(Popped, False) /\ exhausted' = TRUE
               /\ a # b /\ <<l, a, b>> \notin Literals \cup (DOMAIN kept)
  /\ UNCHANGED <<kept, answer>>

Finish ==
  /\ Len(temps) = 1
  /\ answer' = temps[1]
  /\ temps' = <<>>
  /\ UNCHANGED <<kept, exhausted>>

Restart == temps # <<>> /\ temps' = <<>> /\ UNCHANGED <<kept, answer, exhausted>>

\* The client takes a reference, and gives one back.
Keep(d) ==
  /\ kept' = [e \in (DOMAIN kept) \cup {d} |->
                IF e = d THEN (IF d \in DOMAIN kept THEN kept[d] ELSE 0) + 1 ELSE kept[e]]
  /\ UNCHANGED <<temps, answer, exhausted>>

Release(d) ==
  /\ kept' = [e \in {c \in DOMAIN kept : c # d \/ kept[c] > 1} |->
                IF e = d THEN kept[e] - 1 ELSE kept[e]]
  /\ UNCHANGED <<temps, answer, exhausted>>

\* An answer that was not kept may be forgotten.
Forget == answer' = False /\ UNCHANGED <<kept, temps, exhausted>>

ClearError == exhausted' = FALSE /\ UNCHANGED <<kept, temps, answer>>

Next ==
  \/ Push
  \/ \E l \in 0..(VarNum - 1) : Make(l)
  \/ Finish
  \/ Restart
  \/ \E d \in Known \cup {answer} : Keep(d)
  \/ \E d \in DOMAIN kept : Release(d)
  \/ Forget
  \/ ClearError

Spec == Init /\ [][Next]_vars

=============================================================================
