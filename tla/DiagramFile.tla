---------------------------- MODULE DiagramFile ----------------------------
(***************************************************************************)
(* Diagrams in files (bddio.c): bdd_fnsave writes a header and a line for  *)
(* each node, children first; bdd_load reads the header line by line, then *)
(* builds a node for each line as its children are known, through a hash   *)
(* table from the numbers in the file to diagrams.  Lines whose children   *)
(* are not known yet wait in un_nodes.                                     *)
(*                                                                         *)
(* A file is a sequence of lines, a line a record whose tag says what kind *)
(* it is; n = -1 is a number that is missing or not one.  Between saving   *)
(* and loading, lines may be lost, changed or moved, and the session that  *)
(* loads may have fewer variables or another order.                        *)
(***************************************************************************)
EXTENDS Operations

LOCAL SX == INSTANCE SequencesExt

CONSTANTS
  SavedFunctions,  \* bound: what is saved: sets of sets of variables
  SaveOrders,      \* bound: the orders (variable at each level) it is saved under
  NumberSteps,     \* bound: how far apart the node numbers in a file are
  LoadSessions,    \* bound: [varnum, var2level] of the sessions that load
  NodeCounts,      \* bound: what %Nodes may be changed to
  LH_INIT_VALUE    \* size of the tables at the start (1000 in the code)

ASSUME FileAssumption == LH_INIT_VALUE \in Nat \ {0} /\ NumberSteps \subseteq Nat \ {0}

VARIABLES
  stage,          \* "empty", "written", "header", "body", "closed"
  file,           \* the lines still to be read
  saved,          \* what was written: [function, lines], and the line that was
                  \* lost or changed after that
  session,        \* [varnum, var2level] of the process that loads
  header,         \* tags read so far
  vnum,           \* %Vars; anything where it is needed and was not read
  given,          \* *root
  lh_table, lh_freepos, un_nodes, unresolved_size,
  lastbuilt,      \* root in bdd_loaddata
  held,           \* references bdd_load has added to each diagram
  status          \* what it returned

hash == <<lh_table, lh_freepos, un_nodes, unresolved_size, lastbuilt, held>>
filevars == <<stage, file, saved, session, header, vnum, given, hash, status>>

\* The error of a file that is no diagram.
BDD_FORMAT == -7

NoNode == <<>>
NothingSaved == [function |-> {}, lines |-> <<>>, changed |-> <<>>]
Unchanged == saved.changed = <<>>

----------------------------------------------------------------------------
\* bdd_save.

\* bdd_save_rec: a marked node is not written again.
RECURSIVE Written(_, _)
Written(d, done) ==
  IF ISCONST(d) \/ \E i \in DOMAIN done : done[i] = d THEN done
  ELSE Append(Written(High(d), Written(Low(d), done)), d)

\* The number a node has in the table that is saved: any that is not that of
\* a constant or of another node.
NumberIn(nodes, d, step) ==
  IF ISCONST(d) THEN Value(d) ELSE 2 + step * (CHOOSE i \in DOMAIN nodes : nodes[i] = d)

Field(tag, n) == [tag |-> tag, n |-> n]

NodeLines(d, order, step) ==
  LET nodes == Written(d, <<>>)
      number(e) == NumberIn(nodes, e, step)
  IN  [i \in DOMAIN nodes |->
         [tag |-> "node", key |-> number(nodes[i]), var |-> order[Level(nodes[i])],
          low |-> number(Low(nodes[i])), high |-> number(High(nodes[i]))]]

bdd_save(d, order, step) ==
  IF ISCONST(d) THEN <<Field("%Vars", 0), Field("%Nodes", 0), Field("%Root", Value(d))>>
  ELSE <<Field("%Vars", VarNum), Field("%Nodes", Cardinality(Nodes(d))),
         Field("%Root", NumberIn(Written(d, <<>>), d, step)), Field("%Ordering", VarNum)>>
       \o NodeLines(d, order, step)

bdd_fnsave(d, order, step) == <<Field("@BDD", 0), Field("%Name", 0)>> \o bdd_save(d, order, step)

Save(S, order, step) ==
  LET d == Diagram({{l \in Levels : order[l] \in s} : s \in S})
      lines == bdd_fnsave(d, order, step)
  IN  /\ stage = "empty"
      /\ stage' = "written" /\ file' = lines
      /\ saved' = [function |-> S, lines |-> lines, changed |-> <<>>]
      /\ UNCHANGED <<session, header, vnum, given, hash, status>>

----------------------------------------------------------------------------
\* What may become of a file.  The node lines in another order are still the
\* whole file, and so are they with another or no count of nodes.

HeaderLength == Cardinality({i \in DOMAIN file : file[i].tag # "node"})

Shuffle ==
  /\ stage = "written" /\ file = saved.lines
  /\ \E p \in {q \in [(HeaderLength + 1)..Len(file) -> (HeaderLength + 1)..Len(file)] :
                 \A i, j \in DOMAIN q : i # j => q[i] # q[j]} :
       file' = [i \in DOMAIN file |-> IF i \in DOMAIN p THEN file[p[i]] ELSE file[i]]
  /\ UNCHANGED <<stage, saved, session, header, vnum, given, hash, status>>

Without(i) == [j \in 1..(Len(file) - 1) |-> IF j < i THEN file[j] ELSE file[j + 1]]

Lose(i) ==
  /\ stage = "written" /\ Unchanged
  /\ file' = Without(i)
  /\ saved' = [saved EXCEPT !.changed = <<file[i]>>]
  /\ UNCHANGED <<stage, session, header, vnum, given, hash, status>>

Miscount(n) ==
  /\ stage = "written" /\ Unchanged
  /\ \E i \in DOMAIN file :
       /\ file[i].tag = "%Nodes" /\ file[i].n # n
       /\ file' = [file EXCEPT ![i].n = n]
       /\ saved' = [saved EXCEPT !.changed = <<file'[i]>>]
  /\ UNCHANGED <<stage, session, header, vnum, given, hash, status>>

\* A line that cannot be read: in the header a number that is none, in the
\* body a line with other than four numbers, or a negative variable.
Garble(i) ==
  /\ stage = "written" /\ Unchanged
  /\ \/ file[i].tag \in {"%Vars", "%Root", "%Ordering"} /\ file' = [file EXCEPT ![i].n = -1]
     \/ file[i].tag = "node" /\ file' = [file EXCEPT ![i].tag = "bad"]
     \/ file[i].tag = "node" /\ file' = [file EXCEPT ![i].var = -1]
  /\ saved' = [saved EXCEPT !.changed = <<file[i]>>]
  /\ UNCHANGED <<stage, session, header, vnum, given, hash, status>>

----------------------------------------------------------------------------
\* bdd_load: the header.

Cleared(size) == [n \in 0..(size - 1) |->
  [first |-> -1, next |-> IF n = size - 1 THEN -1 ELSE n + 1, key |-> 0, data |-> Zero]]

\* The table has lh_nodenum slots; before it is made, that many are wanted.
lh_nodenum == Cardinality(DOMAIN lh_table)

\* bdd_fnload, and bdd_load up to its loop.
Open(s) ==
  /\ stage = "written"
  /\ stage' = "header" /\ session' = s
  /\ header' = {} /\ vnum' = 0 /\ given' = Zero
  /\ lh_table' = Cleared(LH_INIT_VALUE) /\ lh_freepos' = 0 /\ un_nodes' = <<>>
  /\ lastbuilt' = Zero
  /\ UNCHANGED <<file, saved, unresolved_size, held, status>>

Close(result) == stage' = "closed" /\ status' = result

Fail == Close(BDD_FORMAT) /\ UNCHANGED <<file, saved, session, header, vnum, given, hash>>

\* typeR, nameR, rootR and varsR are set where their line is read, and are
\* not initialized: without the line they hold anything.
AllRead == {"@BDD", "%Name", "%Root", "%Vars"} \subseteq header

\* After the header: a constant is the result, else there is a table.
StartBody ==
  IF ISCONST(given) THEN Close(0) /\ UNCHANGED <<session, lh_table>>
  ELSE /\ stage' = "body" /\ UNCHANGED status
       /\ session' = [session EXCEPT !.varnum = IF vnum > @ THEN vnum ELSE @]
       /\ lh_table' = Cleared(IF lh_nodenum < 1 THEN 1 ELSE lh_nodenum)

\* *root holds the number from the file: 0 and 1 are diagrams of this
\* session too, any other is none.
Root(n) == IF n < 2 THEN Const(n) ELSE NoNode

ReadHeader ==
  /\ stage = "header" /\ file # <<>> /\ "%Ordering" \notin header
  /\ LET line == Head(file)
         started == "@BDD" \in header \/ line.tag = "@BDD"
     IN \E vars \in IF "%Vars" \in header THEN {vnum} ELSE 0..(VarNum + 1) :
     IF /\ started /\ line.tag \in {"%Vars", "%Root", "%Nodes", "%Ordering"}
        /\ line.n < IF line.tag = "%Ordering" THEN vars ELSE 0
     THEN Fail
     ELSE /\ file' = Tail(file)
          /\ header' = IF started /\ line.tag \notin {"node", "bad"}
                       THEN header \cup {line.tag}
                              \cup (IF line.tag = "%Root" /\ line.n < 2 THEN {"%Ordering"} ELSE {})
                       ELSE header
          /\ vnum' = IF ~started THEN vnum
                     ELSE IF line.tag = "%Vars" THEN line.n
                     ELSE IF line.tag = "%Ordering" THEN vars ELSE vnum
          /\ given' = IF started /\ line.tag = "%Root" THEN Root(line.n) ELSE given
          /\ lh_table' = IF started /\ line.tag = "%Nodes" THEN Cleared(line.n) ELSE lh_table
          /\ UNCHANGED <<stage, saved, session, lh_freepos, un_nodes, unresolved_size, lastbuilt, held, status>>

\* The end of the file within the header.
HeaderEnds == stage = "header" /\ file = <<>> /\ "%Ordering" \notin header /\ Fail

CheckHeader ==
  /\ stage = "header" /\ "%Ordering" \in header
  /\ \/ StartBody /\ UNCHANGED <<file, saved, header, vnum, given, lh_freepos, un_nodes, unresolved_size, lastbuilt, held>>
     \/ ~AllRead /\ Fail

----------------------------------------------------------------------------
\* The hash table: bucket k starts at slot first of slot k, and goes on in
\* next, which also links the free slots.

RECURSIVE Chain(_, _)
Chain(table, slot) == IF slot = -1 THEN <<>> ELSE <<slot>> \o Chain(table, table[slot].next)

Bucket(table, key) == Chain(table, table[key % Cardinality(DOMAIN table)].first)

loadhash_get(table, key) ==
  LET slots == Bucket(table, key)
      hits == {i \in DOMAIN slots : table[slots[i]].key = key}
  IN  IF hits = {} THEN NoNode
      ELSE table[slots[CHOOSE i \in hits : \A j \in hits : i <= j]].data

loadhash_insert(h, key, data) ==
  LET k == key % Cardinality(DOMAIN h.table)
      chained == [h.table EXCEPT ![h.freepos].next = h.table[k].first, ![k].first = h.freepos]
  IN  [table |-> [chained EXCEPT ![h.freepos].key = key, ![h.freepos].data = data],
       freepos |-> h.table[h.freepos].next]

\* Mutant: of each bucket only the first slot is taken over.
loadhash_reallocFirst(h) ==
  LET size == Cardinality(DOMAIN h.table)
      slots == [b \in 1..size |-> h.table[b - 1].first]
      Step(g, slot) == IF slot = -1 THEN g ELSE loadhash_insert(g, h.table[slot].key, h.table[slot].data)
  IN  SX!FoldLeft(Step, [table |-> Cleared(2 * size), freepos |-> 0], slots)

loadhash_realloc(h) ==
  LET size == Cardinality(DOMAIN h.table)
      slots == SX!FoldLeft(LAMBDA all, b : all \o Chain(h.table, h.table[b - 1].first), <<>>, [b \in 1..size |-> b])
  IN  SX!FoldLeft(LAMBDA g, slot : loadhash_insert(g, h.table[slot].key, h.table[slot].data),
               [table |-> Cleared(2 * size), freepos |-> 0], slots)

loadhash_add(h, key, data) ==
  loadhash_insert(IF h.freepos = -1 THEN loadhash_realloc(h) ELSE h, key, data)

----------------------------------------------------------------------------
\* bdd_loaddata.

Child(table, number) == IF number < 2 THEN Const(number) ELSE loadhash_get(table, number)

Resolvable(table, line) == Child(table, line.low) # NoNode /\ Child(table, line.high) # NoNode

\* bdd_addref of what is no constant.
AddRef(refs, d) ==
  IF ISCONST(d) THEN refs
  ELSE [e \in DOMAIN refs \cup {d} |->
          (IF e \in DOMAIN refs THEN refs[e] ELSE 0) + (IF e = d THEN 1 ELSE 0)]
DelRef(refs, d) == IF ISCONST(d) THEN refs ELSE [refs EXCEPT ![d] = @ - 1]

\* bdd_ithvar; a variable that is not there is an error and 0.
Ithvar(v) == IF v < session.varnum THEN Literal(session.var2level[v]) ELSE Zero

Build(st, line) ==
  LET d == Ite(Ithvar(line.var), Child(st.table, line.high), Child(st.table, line.low))
      h == loadhash_add([table |-> st.table, freepos |-> st.freepos], line.key, d)
  IN  [st EXCEPT !.table = h.table, !.freepos = h.freepos, !.root = d, !.refs = AddRef(st.refs, d)]

\* The last waiting line takes the place of a resolved one, and is next.
Replaced(waiting, i) == [j \in 1..(Len(waiting) - 1) |-> IF j = i THEN waiting[Len(waiting)] ELSE waiting[j]]

RECURSIVE ResolveFrom(_, _)
ResolveFrom(st, i) ==
  IF i > Len(st.waiting) THEN st
  ELSE IF ~Resolvable(st.table, st.waiting[i]) THEN ResolveFrom(st, i + 1)
  ELSE ResolveFrom([Build(st, st.waiting[i]) EXCEPT !.waiting = Replaced(st.waiting, i)], i)

resolve_nodes(st) == ResolveFrom(st, 1)

\* Mutant: no round over the waiting lines at the end.
ResolveAllOnce(st) == st

RECURSIVE ResolveAll(_)
ResolveAll(st) ==
  LET next == resolve_nodes(st)
  IN  IF Len(next.waiting) \in {0, Len(st.waiting)} THEN next ELSE ResolveAll(next)

Loading == [table |-> lh_table, freepos |-> lh_freepos, waiting |-> un_nodes, root |-> lastbuilt, refs |-> held]

BecomesLoading(st) ==
  /\ lh_table' = st.table /\ lh_freepos' = st.freepos /\ un_nodes' = st.waiting
  /\ lastbuilt' = st.root /\ held' = st.refs

\* unresolved_realloc, at three quarters of the array.
Grown(n) == IF 4 * n < 3 * unresolved_size THEN unresolved_size ELSE 2 * unresolved_size

\* The end of bdd_load: every slot's reference is given back.
Released(st) ==
  [st EXCEPT !.refs = SX!FoldLeft(LAMBDA r, n : DelRef(r, st.table[n - 1].data), st.refs,
                               [n \in 1..Cardinality(DOMAIN st.table) |-> n])]

Return(st, result, root) ==
  /\ Close(result) /\ given' = root
  /\ BecomesLoading(Released(st))
  /\ UNCHANGED <<file, saved, session, header, vnum, unresolved_size>>

ReadNode ==
  /\ stage = "body" /\ file # <<>>
  /\ LET line == Head(file) IN
     IF line.tag = "bad" \/ line.var < 0 THEN Return(Loading, BDD_FORMAT, Zero)
     ELSE /\ file' = Tail(file)
          /\ IF Resolvable(lh_table, line)
             THEN BecomesLoading(resolve_nodes(Build(Loading, line))) /\ UNCHANGED unresolved_size
             ELSE /\ un_nodes' = Append(un_nodes, line)
                  /\ unresolved_size' = Grown(Len(un_nodes))
                  /\ UNCHANGED <<lh_table, lh_freepos, lastbuilt, held>>
          /\ UNCHANGED <<stage, saved, session, header, vnum, given, status>>

Finish ==
  /\ stage = "body" /\ file = <<>>
  /\ LET st == IF un_nodes = <<>> THEN Loading ELSE ResolveAll(Loading) IN
     IF st.waiting # <<>> THEN Return(st, BDD_FORMAT, Zero) ELSE Return(st, 0, st.root)

----------------------------------------------------------------------------
InitFile ==
  /\ stage = "empty" /\ file = <<>> /\ saved = NothingSaved
  /\ session = [varnum |-> VarNum, var2level |-> [v \in Levels |-> v]]
  /\ header = {} /\ vnum = 0 /\ given = Zero /\ status = 0
  /\ lh_table = Cleared(LH_INIT_VALUE) /\ lh_freepos = 0
  /\ un_nodes = <<>> /\ unresolved_size = LH_INIT_VALUE
  /\ lastbuilt = Zero /\ held = <<>>

NextFile ==
  \/ \E S \in SavedFunctions : \E order \in SaveOrders : \E step \in NumberSteps : Save(S, order, step)
  \/ Shuffle
  \/ \E i \in DOMAIN file : Lose(i) \/ Garble(i)
  \/ \E n \in NodeCounts : Miscount(n)
  \/ \E s \in LoadSessions : Open(s)
  \/ ReadHeader \/ HeaderEnds \/ CheckHeader
  \/ ReadNode \/ Finish

FileSpec == InitFile /\ [][NextFile]_filevars

=============================================================================
