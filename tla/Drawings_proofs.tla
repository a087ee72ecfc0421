---------------------------- MODULE Drawings_proofs ----------------------------
(***************************************************************************)
(* Proofs about the graphs that the client draws: whatever the server does *)
(* in the meantime, they have what was asked for, and each arrow once.     *)
(***************************************************************************)
EXTENDS Drawings, Induction, TLAPS

\* Asked is between what some number of steps reaches and every closed set.
LEMMA AskedIs ==
    ASSUME NEW D, NEW steps \in [D -> SUBSET D], NEW root \in D, NEW n \in Nat \cup {Infinity}, Infinity \notin Nat
    PROVE  /\ \A m \in Nat : n = Infinity \/ m <= n => Within(steps, root)[m] \subseteq Asked(steps, root, n)
           /\ \A s \in SUBSET D : Encloses(s, steps, root) => Asked(steps, root, n) \subseteq s
           /\ root \in Asked(steps, root, n) /\ Asked(steps, root, n) \subseteq D
<1>0. Encloses(D, steps, root)
  BY DEF Encloses
<1>1. CASE n = Infinity
  <2>1. Asked(steps, root, n) = Reached(steps, root)
    BY <1>1 DEF Asked
  <2>2. \A m \in Nat : Within(steps, root)[m] \subseteq Reached(steps, root)
    BY ReachedIs, WithinStays
  <2>3. root \in Reached(steps, root)
    BY ReachedIs DEF Encloses
  <2> QED
    BY <2>1, <2>2, <2>3, ReachedIs
<1>2. CASE n \in Nat
  <2>1. Asked(steps, root, n) = Within(steps, root)[n]
    BY <1>2 DEF Asked
  <2>2. \A m \in Nat : m <= n => Within(steps, root)[m] \subseteq Within(steps, root)[n]
    BY <1>2, WithinGrows
  <2>3. \A s : Encloses(s, steps, root) => Within(steps, root)[n] \subseteq s
    BY <1>2, WithinStays
  <2>4. root \in Within(steps, root)[0]
    BY WithinIs DEF Unrolled
  <2>5. 0 \in Nat /\ 0 <= n
    BY <1>2
  <2>6. root \in Within(steps, root)[n]
    BY <2>2, <2>4, <2>5
  <2> QED
    BY <1>0, <1>2, <2>1, <2>2, <2>3, <2>6
<1> QED
  BY <1>1, <1>2

-----------------------------------------------------------------------------
(* What is drawn *)

Thunk(a, n) == [waits |-> n, arrow |-> a]

\* Arrows are drawn once, with both ends, and a thunk waits for the end that is missing.
Sound(g, arrs) ==
    /\ g.edges \in [arrs -> {0, 1}]
    /\ \A a \in arrs : g.edges[a] = 1 => {a.from, a.to} \subseteq g.nodes
    /\ \A t \in g.thunks : /\ t = Thunk(t.arrow, t.waits) /\ t.arrow \in arrs
                           /\ t.waits \in {t.arrow.from, t.arrow.to} /\ t.waits \notin g.nodes
                           /\ OtherEnd(t.arrow, t.waits) \in g.nodes

\* h is g and node n that is known to have some arrows.
Grown(g, h, arrs, n, known) ==
    /\ h.nodes = g.nodes \cup {n} /\ Sound(h, arrs)
    /\ \A a \in arrs : g.edges[a] = 1 \/ Thunk(a, n) \in g.thunks => h.edges[a] = 1
    /\ \A t \in g.thunks : t.waits # n => t \in h.thunks
    /\ \A a \in known : OtherEnd(a, n) \notin g.nodes => Thunk(a, OtherEnd(a, n)) \in h.thunks

LEMMA EmptyIsSound == ASSUME NEW arrs PROVE Sound(EmptyGraph(arrs), arrs) /\ EmptyGraph(arrs).nodes = {}
BY DEF Sound, EmptyGraph

LEMMA AddNodeIs ==
    ASSUME NEW g, NEW arrs, Sound(g, arrs), \A a \in arrs : a.from # a.to,
           NEW n, n \notin g.nodes, NEW known \in SUBSET arrs, \A a \in known : n \in {a.from, a.to}
    PROVE  Grown(g, AddNode(g, n, known), arrs, n, known)
<1> DEFINE h == AddNode(g, n, known)
           due == {t.arrow : t \in Due(g, n)}
<1>1. /\ h.nodes = g.nodes \cup {n}
      /\ h.edges = DrawAll(g, due)
      /\ h.thunks = (g.thunks \ Due(g, n)) \cup Thunks(g, n, known)
  BY DEF AddNode
<1> HIDE DEF h
<1>2. \A a : a \in due <=> \E t \in g.thunks : t.waits = n /\ t.arrow = a
  BY DEF Due
<1>3. DOMAIN g.edges = arrs /\ \A a \in arrs : g.edges[a] = 0 \/ g.edges[a] = 1
  BY DEF Sound
<1>4. \A a \in due : a \in arrs /\ n \in {a.from, a.to} /\ OtherEnd(a, n) \in g.nodes /\ g.edges[a] = 0
  BY <1>2, <1>3 DEF Sound
<1>5. h.edges = [a \in arrs |-> g.edges[a] + IF a \in due THEN 1 ELSE 0]
  BY <1>1, <1>3 DEF DrawAll
<1> HIDE DEF due
<1>6. \A a \in arrs : h.edges[a] = IF a \in due THEN 1 ELSE g.edges[a]
  BY <1>3, <1>4, <1>5
<1>7. h.edges \in [arrs -> {0, 1}]
  BY <1>3, <1>5, <1>6
<1>8. \A a \in arrs : h.edges[a] = 1 => {a.from, a.to} \subseteq h.nodes
  <2> SUFFICES ASSUME NEW a \in arrs, h.edges[a] = 1 PROVE {a.from, a.to} \subseteq h.nodes
    OBVIOUS
  <2>1. CASE a \in due
    BY <1>1, <1>4, <2>1 DEF OtherEnd
  <2>2. CASE a \notin due
    BY <1>1, <1>6, <2>2 DEF Sound
  <2> QED
    BY <2>1, <2>2
<1>9. ASSUME NEW t \in h.thunks
      PROVE  /\ t = Thunk(t.arrow, t.waits) /\ t.arrow \in arrs
             /\ t.waits \in {t.arrow.from, t.arrow.to} /\ t.waits \notin h.nodes
             /\ OtherEnd(t.arrow, t.waits) \in h.nodes
  <2>1. CASE t \in g.thunks /\ t.waits # n
    BY <1>1, <2>1 DEF Sound
  <2>2. CASE t \in Thunks(g, n, known)
    <3>1. PICK a \in known : OtherEnd(a, n) \notin g.nodes /\ t = [waits |-> OtherEnd(a, n), arrow |-> a]
      BY <2>2 DEF Thunks
    <3>2. t.arrow = a /\ t.waits = OtherEnd(a, n) /\ a \in arrs /\ n \in {a.from, a.to} /\ a.from # a.to
      BY <3>1
    <3>3. OtherEnd(a, n) # n /\ OtherEnd(a, n) \in {a.from, a.to} /\ OtherEnd(a, OtherEnd(a, n)) = n
      BY <3>2 DEF OtherEnd
    <3> QED
      BY <1>1, <3>1, <3>2, <3>3 DEF Thunk
  <2> QED
    BY <1>1, <2>1, <2>2 DEF Due
<1>10. Sound(h, arrs)
  BY <1>7, <1>8, <1>9 DEF Sound
<1>11. \A a \in arrs : g.edges[a] = 1 \/ Thunk(a, n) \in g.thunks => h.edges[a] = 1
  <2>1. \A a \in arrs : Thunk(a, n) \in g.thunks => a \in due
    BY <1>2 DEF Thunk
  <2> QED
    BY <1>6, <2>1
<1>12. \A t \in g.thunks : t.waits # n => t \in h.thunks
  BY <1>1 DEF Due
<1>13. \A a \in known : OtherEnd(a, n) \notin g.nodes => Thunk(a, OtherEnd(a, n)) \in h.thunks
  BY <1>1 DEF Thunks, Thunk
<1> QED
  BY <1>1, <1>10, <1>11, <1>12, <1>13 DEF Grown, h

-----------------------------------------------------------------------------
(* Lineages *)

Onward(up, r) == IF up THEN Taken(r) ELSE Made(r)
Up == phase = "up"
Stays(r) == r \in atFirst \cap there

LineageFact ==
    /\ \A r \in RunNode : Taken(r) \subseteq DataNode /\ Made(r) \subseteq DataNode
    /\ \A d \in DataNode : MadeBy(d) \in RunNode /\ d \in Made(MadeBy(d))
    /\ \A d \in DataNode, r \in RunNode : d \in Made(r) => r = MadeBy(d)
    /\ \A d \in DataNode, r \in RunNode : /\ d \in Taken(r) => Age[d] < Age[r]
                                          /\ d \in Made(r) => Age[r] < Age[d]
    /\ \A n \in DataNode \cup RunNode : Age[n] \in Nat
    /\ \A a \in arrows : \/ a.from \in DataNode /\ a.to \in RunNode
                         \/ a.from \in RunNode /\ a.to \in DataNode
    /\ \A n : n \in DataNode => n \notin RunNode

\* Data have one run that made them, and all of it came in turn.
LEMMA LineageFacts == ASSUME LineageAssumption, arrows \in Lineages PROVE LineageFact
<1>1. /\ \A a \in arrows : /\ \/ a.from \in DataNode /\ a.to \in RunNode
                              \/ a.from \in RunNode /\ a.to \in DataNode
                           /\ Age[a.from] < Age[a.to]
      /\ \A d \in DataNode : \E r \in RunNode : {a.from : a \in {a \in arrows : a.to = d}} = {r}
      /\ \A n : n \in DataNode => n \notin RunNode
      /\ \A n \in DataNode \cup RunNode : Age[n] \in Nat
  BY DEF LineageAssumption
<1>2. \A d, r : d \in Taken(r) <=> \E a \in arrows : a.from = d /\ a.to = r
  BY DEF Taken
<1>3. \A d, r : d \in Made(r) <=> \E a \in arrows : a.from = r /\ a.to = d
  BY DEF Made
<1>4. ASSUME NEW d \in DataNode
      PROVE  /\ MadeBy(d) \in RunNode /\ d \in Made(MadeBy(d))
             /\ \A r \in RunNode : d \in Made(r) => r = MadeBy(d)
  <2>1. PICK r \in RunNode : {a.from : a \in {a \in arrows : a.to = d}} = {r}
    BY <1>1
  <2>2. \A s \in RunNode : d \in Made(s) <=> s = r
    <3> TAKE s \in RunNode
    <3>1. d \in Made(s) <=> s \in {a.from : a \in {a \in arrows : a.to = d}}
      BY DEF Made
    <3> QED
      BY <2>1, <3>1
  <2> QED
    BY <2>2 DEF MadeBy
<1>5. \A r \in RunNode : Taken(r) \subseteq DataNode /\ Made(r) \subseteq DataNode
  BY <1>1, <1>2, <1>3
<1>6. \A d \in DataNode, r \in RunNode : /\ d \in Taken(r) => Age[d] < Age[r]
                                         /\ d \in Made(r) => Age[r] < Age[d]
  BY <1>1, <1>2, <1>3
<1> QED
  BY <1>1, <1>4, <1>5, <1>6 DEF LineageFact

LEMMA RoundsAre ==
    ASSUME LineageFact, NEW up \in BOOLEAN
    PROVE  /\ Rounds(up) \in [DataNode -> SUBSET DataNode]
           /\ \A x \in DataNode : \A d : d \in Rounds(up)[x] <=> \E r \in RunsOf(up, x) : d \in Onward(up, r)
           /\ \A x \in DataNode : RunsOf(up, x) \subseteq RunNode
           /\ \A x \in DataNode, r \in RunNode :
                  r \in RunsOf(up, x) <=> IF up THEN r = MadeBy(x) ELSE x \in Taken(r)
<1>1. \A x \in DataNode : RunsOf(up, x) \subseteq RunNode
  BY DEF RunsOf
<1>2. \A r \in RunNode : Onward(up, r) \subseteq DataNode
  BY DEF LineageFact, Onward
<1>3. Rounds(up) = [d \in DataNode |-> UNION {Onward(up, r) : r \in RunsOf(up, d)}]
  BY DEF Rounds, Onward
<1>4. \A x \in DataNode, r \in RunNode : r \in RunsOf(up, x) <=> IF up THEN r = MadeBy(x) ELSE x \in Taken(r)
  BY DEF RunsOf, LineageFact
<1>5. \A x \in DataNode : UNION {Onward(up, r) : r \in RunsOf(up, x)} \subseteq DataNode
  BY <1>1, <1>2
<1>6. Rounds(up) \in [DataNode -> SUBSET DataNode]
  BY <1>3, <1>5
<1> QED
  BY <1>1, <1>3, <1>4, <1>6

LineageTypeOK ==
    /\ arrows \in Lineages /\ there \subseteq RunNode /\ atFirst \subseteq RunNode
    /\ ask \in [root : DataNode, up : BOOLEAN, down : BOOLEAN, number : Depths]
    /\ graph.nodes \subseteq DataNode \cup RunNode /\ said \in [DataNode \cup RunNode -> SUBSET arrows]
    /\ phase \in {"up", "down", "printed", "error"} /\ depth \in Nat
    /\ layer \subseteq DataNode /\ next \subseteq DataNode /\ runs \subseteq RunNode /\ fetch \subseteq DataNode

\* What runs take is there as long as they are.
Whole(s) == \A r \in s : \A d \in Taken(r) : MadeBy(d) \in s

\* Of the ends of an arrow, data and a run, one is in the graph: a thunk waits for the
\* other, unless it is a run that has come late or has gone.
DrawnOK ==
    /\ Sound(graph, arrows)
    /\ \A a \in arrows : \A d \in DataNode, r \in RunNode : {a.from, a.to} = {d, r} =>
           /\ InGraph(r) /\ ~InGraph(d) => Thunk(a, d) \in graph.thunks
           /\ InGraph(d) /\ ~InGraph(r) /\ Stays(r) => Thunk(a, r) \in graph.thunks
           /\ InGraph(r) /\ InGraph(d) /\ r \in atFirst => graph.edges[a] = 1

\* What was told of data has the run that made it, and those that take it and stay.
SaidOK ==
    \A d \in graph.nodes \cap DataNode : \A a \in arrows :
        a.to = d \/ (a.from = d /\ Stays(a.to)) => a \in said[d]

\* What a run takes and makes is in the graph, or about to be.
FetchOK == \A r \in graph.nodes \cap RunNode : Taken(r) \cup Made(r) \subseteq graph.nodes \cup fetch

Drawing == LineageTypeOK /\ Whole(there) /\ Whole(atFirst) /\ DrawnOK /\ SaidOK /\ FetchOK

LEMMA DrawingInit == ASSUME LineageAssumption, LineageInit PROVE Drawing
<1>1. LineageTypeOK
  BY EmptyIsSound DEF LineageInit, LineageTypeOK
<1>2. Whole(there) /\ Whole(atFirst)
  BY DEF LineageInit, Whole
<1>3. DrawnOK /\ SaidOK /\ FetchOK
  BY EmptyIsSound DEF LineageInit, DrawnOK, SaidOK, FetchOK, InGraph
<1> QED
  BY <1>1, <1>2, <1>3 DEF Drawing

\* A node that is new to the graph comes with its arrows.
LEMMA GetKeeps ==
    ASSUME LineageAssumption, Drawing, NEW n \in DataNode \cup RunNode, ~InGraph(n), Exists(n), Get(n), UNCHANGED server
    PROVE  /\ graph'.nodes = graph.nodes \cup {n} /\ DrawnOK' /\ SaidOK'
           /\ said' \in [DataNode \cup RunNode -> SUBSET arrows]
<1>1. arrows' = arrows /\ there' = there /\ atFirst' = atFirst
  BY DEF server
<1>2. LineageFact
  BY LineageFacts DEF Drawing, LineageTypeOK
<1>3. Told(n) \in SUBSET arrows /\ (\A a \in Told(n) : n \in {a.from, a.to})
  BY DEF Told
<1>4. /\ graph' = AddNode(graph, n, Told(n))
      /\ \A m \in DataNode \cup RunNode : said'[m] = IF m = n THEN Told(n) ELSE said[m]
      /\ said' \in [DataNode \cup RunNode -> SUBSET arrows]
  BY <1>3 DEF Get, Drawing, LineageTypeOK
<1>5. Grown(graph, graph', arrows, n, Told(n))
  <2>1. \A a \in arrows : a.from # a.to
    BY <1>2 DEF LineageFact
  <2> QED
    BY <1>3, <1>4, <2>1, AddNodeIs DEF Drawing, DrawnOK, InGraph
<1>6. \A r \in RunNode : Exists(r) <=> r \in there
  BY DEF Exists
<1>7. \A d \in DataNode : Exists(d) <=> MadeBy(d) \in there
  BY <1>2 DEF Exists, LineageFact
<1>8. \A r \in there : \A d \in Taken(r) \cup Made(r) : Exists(d)
  <2> SUFFICES ASSUME NEW r \in there, NEW d \in Taken(r) \cup Made(r) PROVE Exists(d)
    OBVIOUS
  <2>1. r \in RunNode /\ d \in DataNode
    BY <1>2 DEF LineageFact, Drawing, LineageTypeOK
  <2> QED
    BY <1>2, <1>7, <2>1 DEF Drawing, Whole, LineageFact
<1>9. ASSUME NEW a \in arrows, NEW d \in DataNode, NEW r \in RunNode, {a.from, a.to} = {d, r}
      PROVE  /\ n = r => a \in Told(n) /\ OtherEnd(a, n) = d
             /\ n = d /\ r \in there => a \in Told(n) /\ OtherEnd(a, n) = r
             /\ n = d /\ r = MadeBy(d) => r \in there
             /\ d # r
  <2>1. d # r /\ ((a.from = d /\ a.to = r) \/ (a.from = r /\ a.to = d))
    <3>1. a.from \in {d, r} /\ a.to \in {d, r}
      BY <1>9
    <3>2. /\ (a.from \in DataNode /\ a.to \in RunNode) \/ (a.from \in RunNode /\ a.to \in DataNode)
          /\ \A m : m \in DataNode => m \notin RunNode
      BY <1>2 DEF LineageFact
    <3> QED
      BY <3>1, <3>2
  <2>2. d \in Taken(r) \cup Made(r)
    BY <2>1 DEF Taken, Made
  <2>3. r \in there => Exists(d) /\ Exists(r)
    BY <1>6, <1>8, <2>2
  <2>4. n = r => r \in there
    BY <1>6
  <2>5. n = d /\ r = MadeBy(d) => r \in there
    BY <1>7
  <2> QED
    BY <2>1, <2>3, <2>4, <2>5 DEF Told, OtherEnd
<1>10. DrawnOK'
  <2>1. Sound(graph', arrows')
    BY <1>1, <1>5 DEF Grown
  <2>2. ASSUME NEW a \in arrows, NEW d \in DataNode, NEW r \in RunNode, {a.from, a.to} = {d, r}
        PROVE  /\ r \in graph'.nodes /\ d \notin graph'.nodes => Thunk(a, d) \in graph'.thunks
               /\ d \in graph'.nodes /\ r \notin graph'.nodes /\ Stays(r) => Thunk(a, r) \in graph'.thunks
               /\ r \in graph'.nodes /\ d \in graph'.nodes /\ r \in atFirst => graph'.edges[a] = 1
    <3>1. /\ InGraph(r) /\ ~InGraph(d) => Thunk(a, d) \in graph.thunks
          /\ InGraph(d) /\ ~InGraph(r) /\ Stays(r) => Thunk(a, r) \in graph.thunks
          /\ InGraph(r) /\ InGraph(d) /\ r \in atFirst => graph.edges[a] = 1
      BY <2>2 DEF Drawing, DrawnOK
    <3>2. /\ n = r => a \in Told(n) /\ OtherEnd(a, n) = d
          /\ n = d /\ r \in there => a \in Told(n) /\ OtherEnd(a, n) = r
          /\ d # r
      BY <1>9, <2>2
    <3>3. \A m : m \in graph'.nodes <=> InGraph(m) \/ m = n
      BY <1>5 DEF Grown, InGraph
    <3>4. /\ graph.edges[a] = 1 \/ Thunk(a, n) \in graph.thunks => graph'.edges[a] = 1
          /\ \A m : Thunk(a, m) \in graph.thunks /\ m # n => Thunk(a, m) \in graph'.thunks
          /\ a \in Told(n) /\ ~InGraph(OtherEnd(a, n)) => Thunk(a, OtherEnd(a, n)) \in graph'.thunks
      BY <1>5 DEF Grown, InGraph, Thunk
    <3>5. n = r => r \in there
      BY <1>6
    <3>6. r \in graph'.nodes /\ d \notin graph'.nodes => Thunk(a, d) \in graph'.thunks
      BY <3>1, <3>2, <3>3, <3>4
    <3>7. d \in graph'.nodes /\ r \notin graph'.nodes /\ Stays(r) => Thunk(a, r) \in graph'.thunks
      BY <3>1, <3>2, <3>3, <3>4 DEF Stays
    <3>8. r \in graph'.nodes /\ d \in graph'.nodes /\ r \in atFirst => graph'.edges[a] = 1
      BY <3>1, <3>2, <3>3, <3>4, <3>5 DEF Stays
    <3> QED
      BY <3>6, <3>7, <3>8
  <2> QED
    BY <1>1, <2>1, <2>2 DEF DrawnOK, InGraph, Stays
<1>11. SaidOK'
  <2> SUFFICES ASSUME NEW d \in graph'.nodes \cap DataNode, NEW a \in arrows,
                      a.to = d \/ (a.from = d /\ Stays(a.to))
               PROVE  a \in said'[d]
    BY <1>1 DEF SaidOK, Stays
  <2>1. CASE d = n
    <3>1. PICK r \in RunNode : {a.from, a.to} = {d, r} /\ ((a.from = r /\ a.to = d) \/ (a.from = d /\ a.to = r))
      <4>1. /\ (a.from \in DataNode /\ a.to \in RunNode) \/ (a.from \in RunNode /\ a.to \in DataNode)
            /\ \A m : m \in DataNode => m \notin RunNode
        BY <1>2 DEF LineageFact
      <4>2. CASE a.to = d
        BY <4>1, <4>2
      <4>3. CASE a.from = d
        BY <4>1, <4>3
      <4> QED
        BY <4>2, <4>3
    <3>2. r \in there
      <4>1. CASE a.from = r /\ a.to = d
        <5>1. r = MadeBy(d)
          BY <1>2, <4>1 DEF LineageFact, Made
        <5> QED
          BY <1>9, <2>1, <3>1, <5>1
      <4>2. CASE a.from = d /\ a.to = r
        <5>1. d # r
          BY <1>9, <3>1
        <5> QED
          BY <4>2, <5>1 DEF Stays
      <4> QED
        BY <3>1, <4>1, <4>2
    <3> QED
      BY <1>4, <1>9, <2>1, <3>1, <3>2
  <2>2. CASE d # n
    <3>1. d \in graph.nodes
      BY <1>5, <2>2 DEF Grown
    <3> QED
      BY <1>4, <2>2, <3>1 DEF Drawing, SaidOK
  <2> QED
    BY <2>1, <2>2
<1> QED
  BY <1>4, <1>5, <1>10, <1>11 DEF Grown
\* All that is told of a run that is there, and of data that is there or in the graph.
LEMMA ToldOfRun ==
    ASSUME LineageAssumption, Drawing, NEW r \in there
    PROVE  /\ ({a.from : a \in Told(r)} \cup {a.to : a \in Told(r)}) \ {r} = Taken(r) \cup Made(r)
           /\ Following(r, Told(r)) = Onward(Up, r)
<1>1. LineageFact /\ r \in RunNode
  BY LineageFacts DEF Drawing, LineageTypeOK
<1>2. \A d \in Taken(r) \cup Made(r) : Exists(d)
  <2> SUFFICES ASSUME NEW d \in Taken(r) \cup Made(r) PROVE Exists(d)
    OBVIOUS
  <2>1. d \in DataNode /\ d \notin RunNode
    BY <1>1 DEF LineageFact
  <2>2. MadeBy(d) \in there
    BY <1>1, <2>1 DEF Drawing, Whole, LineageFact
  <2> QED
    BY <2>1, <2>2 DEF Exists
<1>3. Exists(r)
  BY <1>1 DEF Exists
<1>4. \A a \in arrows : /\ a.from = r => a.to \in Made(r)
                        /\ a.to = r => a.from \in Taken(r)
  BY DEF Made, Taken
<1>5. \A a : a \in Told(r) <=> a \in arrows /\ r \in {a.from, a.to}
  <2>1. ASSUME NEW a \in arrows, r \in {a.from, a.to} PROVE Exists(a.from) /\ Exists(a.to)
    <3>1. CASE a.from = r
      <4>1. a.to \in Made(r)
        BY <1>4, <3>1
      <4> QED
        BY <1>2, <1>3, <3>1, <4>1
    <3>2. CASE a.to = r
      <4>1. a.from \in Taken(r)
        BY <1>4, <3>2
      <4> QED
        BY <1>2, <1>3, <3>2, <4>1
    <3> QED
      BY <2>1, <3>1, <3>2
  <2> QED
    BY <2>1 DEF Told
<1>6. \A a \in Told(r) : (a.from \in Taken(r) /\ a.to = r) \/ (a.from = r /\ a.to \in Made(r))
  BY <1>4, <1>5
<1>7. r \notin Taken(r) \cup Made(r)
  BY <1>1 DEF LineageFact
<1>8. \A d : /\ d \in Taken(r) <=> \E a \in Told(r) : a.from = d /\ a.to = r
             /\ d \in Made(r) <=> \E a \in Told(r) : a.to = d /\ a.from = r
  BY <1>5 DEF Taken, Made
<1>9. \A d : d \in (({a.from : a \in Told(r)} \cup {a.to : a \in Told(r)}) \ {r}) <=> d \in Taken(r) \cup Made(r)
  BY <1>6, <1>7, <1>8
<1>10. \A d : d \in Following(r, Told(r)) <=> d \in Onward(Up, r)
  BY <1>8 DEF Following, Onward, Up
<1>11. \A d : d \in Following(r, Told(r)) => d \in {a.from : a \in Told(r)} \cup {a.to : a \in Told(r)}
  BY DEF Following
<1>12. Following(r, Told(r)) = Onward(Up, r)
  <2>1. CASE Up
    BY <1>10, <2>1 DEF Following, Onward, Up
  <2>2. CASE ~Up
    BY <1>10, <2>2 DEF Following, Onward, Up
  <2> QED
    BY <2>1, <2>2
<1> QED
  BY <1>9, <1>12

RunsTold(d) ==
    LET told == IF InGraph(d) THEN said[d] ELSE Told(d)
    IN  IF Up THEN {a.from : a \in {a \in told : a.to = d}} ELSE {a.to : a \in {a \in told : a.from = d}}

LEMMA ToldOfData ==
    ASSUME LineageAssumption, Drawing, NEW d \in DataNode, Exists(d) \/ InGraph(d)
    PROVE  /\ RunsTold(d) \subseteq RunsOf(Up, d) /\ RunsTold(d) \subseteq RunNode
           /\ \A r \in RunsOf(Up, d) : Up \/ Stays(r) => r \in RunsTold(d)
<1> DEFINE told == IF InGraph(d) THEN said[d] ELSE Told(d)
<1>1. LineageFact /\ Up \in BOOLEAN
  BY LineageFacts DEF Drawing, LineageTypeOK, Up
<1>2. told \subseteq arrows
  BY DEF Told, Drawing, LineageTypeOK
<1>3. \A a \in arrows : a.to = d \/ (a.from = d /\ Stays(a.to)) => a \in told
  <2> SUFFICES ASSUME NEW a \in arrows, a.to = d \/ (a.from = d /\ Stays(a.to)) PROVE a \in told
    OBVIOUS
  <2>1. CASE InGraph(d)
    BY <2>1 DEF Drawing, SaidOK, InGraph
  <2>2. CASE ~InGraph(d)
    <3>1. Exists(d) /\ MadeBy(d) \in there
      BY <1>1, <2>2 DEF Exists, LineageFact
    <3>2. CASE a.to = d
      <4>1. a.from \in RunNode /\ a.from = MadeBy(d)
        <5>1. a.from \in RunNode
          BY <1>1, <3>2 DEF LineageFact
        <5>2. d \in Made(a.from)
          BY <3>2 DEF Made
        <5> QED
          BY <1>1, <5>1, <5>2 DEF LineageFact
      <4>2. Exists(a.from)
        BY <3>1, <4>1 DEF Exists
      <4> QED
        BY <2>2, <3>1, <3>2, <4>2 DEF Told
    <3>3. CASE a.from = d /\ Stays(a.to)
      <4>1. Exists(a.to)
        BY <3>3 DEF Stays, Exists, Drawing, LineageTypeOK
      <4> QED
        BY <2>2, <3>1, <3>3, <4>1 DEF Told
    <3> QED
      BY <3>2, <3>3
  <2> QED
    BY <2>1, <2>2
<1> HIDE DEF told
<1>4. \A r : r \in RunsTold(d) <=> \E a \in told : IF Up THEN a.to = d /\ a.from = r ELSE a.from = d /\ a.to = r
  BY DEF RunsTold, told
<1>5. \A r : r \in RunsOf(Up, d) <=> r \in RunNode /\ IF Up THEN d \in Made(r) ELSE d \in Taken(r)
  BY DEF RunsOf
<1>6. ASSUME NEW r \in RunsTold(d) PROVE r \in RunNode /\ r \in RunsOf(Up, d)
  <2>1. PICK a \in told : IF Up THEN a.to = d /\ a.from = r ELSE a.from = d /\ a.to = r
    BY <1>4
  <2>2. a \in arrows
    BY <1>2
  <2>3. r \in RunNode
    BY <1>1, <2>1, <2>2 DEF LineageFact
  <2>4. IF Up THEN d \in Made(r) ELSE d \in Taken(r)
    BY <2>1, <2>2 DEF Made, Taken
  <2> QED
    BY <1>5, <2>3, <2>4
<1>7. ASSUME NEW r \in RunsOf(Up, d), Up \/ Stays(r) PROVE r \in RunsTold(d)
  <2>1. r \in RunNode /\ IF Up THEN d \in Made(r) ELSE d \in Taken(r)
    BY <1>5
  <2>2. PICK a \in arrows : IF Up THEN a.to = d /\ a.from = r ELSE a.from = d /\ a.to = r
    BY <2>1 DEF Made, Taken
  <2>3. a \in told
    BY <1>3, <1>7, <2>2
  <2> QED
    BY <1>4, <2>2, <2>3
<1> QED
  BY <1>6, <1>7

\* What each step does, as far as the proofs need it.
VisitIs(d) ==
    /\ UNCHANGED <<server, phase, depth, next, fetch>> /\ d \in layer /\ runs = {} /\ fetch = {} /\ Tracing
    /\ layer' = layer \ {d} /\ runs' = RunsTold(d)
    /\ \/ InGraph(d) /\ UNCHANGED <<graph, said>>
       \/ ~InGraph(d) /\ Exists(d) /\ Get(d)

VisitRunIs(r) ==
    /\ UNCHANGED <<server, phase, depth, layer>> /\ r \in runs /\ fetch = {} /\ Tracing /\ runs' = runs \ {r}
    /\ \/ InGraph(r) /\ UNCHANGED <<graph, said, next, fetch>>
       \/ /\ ~InGraph(r) /\ r \in there /\ Get(r)
          /\ fetch' = Taken(r) \cup Made(r) /\ next' = next \cup Onward(Up, r)

FetchIs(d) ==
    /\ UNCHANGED <<server, phase, depth, layer, next, runs>> /\ d \in fetch /\ fetch' = fetch \ {d} /\ Tracing
    /\ \/ InGraph(d) /\ UNCHANGED <<graph, said>>
       \/ ~InGraph(d) /\ Exists(d) /\ Get(d)

ServerMoves ==
    /\ UNCHANGED <<arrows, atFirst, ask, walk>> /\ atFirst \cap there' \subseteq there
    /\ there' \subseteq RunNode /\ Whole(there')

LEMMA StepsAre ==
    ASSUME LineageAssumption, Drawing, [LineageNext]_lineageVars
    PROVE  \/ NextLayer \/ Error \/ UNCHANGED lineageVars \/ ServerMoves
           \/ \E d \in DataNode : VisitIs(d) \/ FetchIs(d)
           \/ \E r \in RunNode : VisitRunIs(r)
<1>1. LineageFact
  BY LineageFacts DEF Drawing, LineageTypeOK
<1>2. ASSUME NEW d \in DataNode, Visit(d) PROVE Error \/ VisitIs(d)
  BY <1>2 DEF Visit, VisitIs, RunsTold, Up
<1>3. ASSUME NEW d \in DataNode, Fetch(d) PROVE Error \/ FetchIs(d)
  BY <1>3 DEF Fetch, FetchIs
<1>4. ASSUME NEW r \in RunNode, VisitRun(r) PROVE Error \/ VisitRunIs(r)
  <2>1. CASE InGraph(r)
    BY <1>4, <2>1 DEF VisitRun, VisitRunIs
  <2>2. CASE ~InGraph(r) /\ r \in there
    <3>1. /\ Tracing /\ r \in runs /\ fetch = {} /\ runs' = runs \ {r} /\ Get(r)
          /\ fetch' = ({a.from : a \in Told(r)} \cup {a.to : a \in Told(r)}) \ {r}
          /\ next' = next \cup Following(r, Told(r))
          /\ UNCHANGED <<server, phase, depth, layer>>
      BY <1>4, <2>2 DEF VisitRun, Keep, Exists
    <3> QED
      BY <2>2, <3>1, ToldOfRun DEF VisitRunIs
  <2>3. CASE ~InGraph(r) /\ r \notin there
    BY <1>4, <2>3 DEF VisitRun, Exists
  <2> QED
    BY <2>1, <2>2, <2>3
<1>5. ASSUME NEW r \in RunNode, DeleteRun(r) PROVE ServerMoves
  <2>1. /\ UNCHANGED <<arrows, atFirst, ask, walk>> /\ there' = there \ {r} /\ r \in there
        /\ \A s \in there : Taken(s) \cap Made(r) = {}
    BY <1>5 DEF DeleteRun
  <2>2. Whole(there')
    <3> SUFFICES ASSUME NEW s \in there', NEW d \in Taken(s) PROVE MadeBy(d) \in there'
      BY DEF Whole
    <3>1. s \in there /\ MadeBy(d) \in there /\ d \in DataNode
      BY <1>1, <2>1 DEF Drawing, Whole, LineageFact, LineageTypeOK
    <3>2. d \in Made(MadeBy(d))
      BY <1>1, <3>1 DEF LineageFact
    <3> QED
      BY <2>1, <3>1, <3>2
  <2> QED
    BY <2>1, <2>2 DEF ServerMoves, Drawing, LineageTypeOK
<1>6. ASSUME NEW r \in RunNode, Appear(r) PROVE ServerMoves
  <2>1. /\ UNCHANGED <<arrows, atFirst, ask, walk>> /\ there' = there \cup {r} /\ r \notin atFirst
        /\ \A d \in Taken(r) : Exists(d)
    BY <1>6 DEF Appear
  <2>2. Whole(there')
    <3> SUFFICES ASSUME NEW s \in there', NEW d \in Taken(s) PROVE MadeBy(d) \in there'
      BY DEF Whole
    <3>1. CASE s \in there
      BY <2>1, <3>1 DEF Drawing, Whole
    <3>2. CASE s = r
      <4>1. d \in DataNode /\ d \notin RunNode
        BY <1>1, <3>2 DEF LineageFact
      <4> QED
        BY <2>1, <3>2, <4>1 DEF Exists
    <3> QED
      BY <2>1, <3>1, <3>2
  <2> QED
    BY <2>1, <2>2 DEF ServerMoves, Drawing, LineageTypeOK
<1> QED
  BY <1>2, <1>3, <1>4, <1>5, <1>6 DEF LineageNext, Trace

LEMMA SameServer ==
    ASSUME UNCHANGED server
    PROVE  /\ arrows' = arrows /\ there' = there /\ atFirst' = atFirst /\ ask' = ask
           /\ \A r : Taken(r)' = Taken(r) /\ Made(r)' = Made(r) /\ MadeBy(r)' = MadeBy(r) /\ Stays(r)' = Stays(r)
           /\ Whole(there)' = Whole(there) /\ Whole(atFirst)' = Whole(atFirst)
<1>1. arrows' = arrows /\ there' = there /\ atFirst' = atFirst /\ ask' = ask
  BY DEF server
<1>2. \A r : Taken(r)' = Taken(r) /\ Made(r)' = Made(r) /\ Stays(r)' = Stays(r)
  BY <1>1 DEF Taken, Made, Stays
<1>3. \A r : MadeBy(r)' = MadeBy(r)
  BY <1>1 DEF MadeBy, Made
<1>4. Whole(there)' = Whole(there) /\ Whole(atFirst)' = Whole(atFirst)
  BY <1>1, <1>2, <1>3 DEF Whole
<1> QED
  BY <1>1, <1>2, <1>3, <1>4

LEMMA SameGraph ==
    ASSUME Drawing, UNCHANGED <<server, graph, said>>, fetch \subseteq fetch' \cup graph.nodes
    PROVE  DrawnOK' /\ SaidOK' /\ FetchOK'
<1>1. /\ arrows' = arrows /\ atFirst' = atFirst /\ graph' = graph /\ said' = said
      /\ \A r : Taken(r)' = Taken(r) /\ Made(r)' = Made(r) /\ Stays(r)' = Stays(r)
  BY SameServer
<1>2. DrawnOK'
  BY <1>1 DEF Drawing, DrawnOK, InGraph
<1>3. SaidOK'
  BY <1>1 DEF Drawing, SaidOK
<1>4. FetchOK'
  BY <1>1 DEF Drawing, FetchOK
<1> QED
  BY <1>2, <1>3, <1>4

\* What is drawn is sound whichever step is taken.
LEMMA DrawingStep == ASSUME LineageAssumption, Drawing, [LineageNext]_lineageVars PROVE Drawing'
<1>1. LineageFact
  BY LineageFacts DEF Drawing, LineageTypeOK
<1>2. CASE UNCHANGED lineageVars
  <2>1. UNCHANGED server /\ UNCHANGED <<graph, said, fetch>>
    BY <1>2 DEF lineageVars, walk
  <2>2. LineageTypeOK'
    BY <1>2 DEF lineageVars, server, walk, Drawing, LineageTypeOK
  <2> QED
    BY <2>1, <2>2, SameServer, SameGraph DEF Drawing
<1>3. CASE NextLayer \/ Error
  <2>1. /\ UNCHANGED <<server, graph, said, runs, fetch>>
        /\ phase' \in {"up", "down", "printed", "error"} /\ depth' \in Nat
        /\ layer' \subseteq DataNode /\ next' \subseteq DataNode
    BY <1>3 DEF NextLayer, Error, Drawing, LineageTypeOK
  <2> QED
    <3>1. LineageTypeOK'
      BY <2>1 DEF server, Drawing, LineageTypeOK
    <3> QED
      BY <2>1, <3>1, SameServer, SameGraph DEF Drawing
<1>4. CASE ServerMoves
  <2>1. UNCHANGED <<arrows, atFirst, ask, walk>> /\ atFirst \cap there' \subseteq there
    BY <1>4 DEF ServerMoves
  <2>2. LineageTypeOK'
    BY <1>4, <2>1 DEF ServerMoves, walk, Drawing, LineageTypeOK
  <2>3. Whole(there)' /\ Whole(atFirst)'
    BY <1>4, <2>1 DEF ServerMoves, Drawing, Whole, Taken, Made, MadeBy
  <2>4. DrawnOK' /\ SaidOK' /\ FetchOK'
    BY <2>1 DEF walk, Drawing, DrawnOK, SaidOK, FetchOK, InGraph, Stays, Taken, Made
  <2> QED
    BY <2>2, <2>3, <2>4 DEF Drawing
<1>5. ASSUME NEW d \in DataNode, VisitIs(d) PROVE Drawing'
  <2>1. UNCHANGED <<server, phase, depth, next, fetch>> /\ layer' \subseteq DataNode
    BY <1>5 DEF VisitIs, Drawing, LineageTypeOK
  <2>2. runs' \subseteq RunNode
    <3>1. Exists(d) \/ InGraph(d)
      BY <1>5 DEF VisitIs
    <3> QED
      BY <1>5, <3>1, ToldOfData DEF VisitIs
  <2>3. CASE InGraph(d) /\ UNCHANGED <<graph, said>>
    <3>1. LineageTypeOK'
      BY <2>1, <2>2, <2>3 DEF server, Drawing, LineageTypeOK
    <3>2. fetch \subseteq fetch' \cup graph.nodes
      BY <2>1, <2>2, <2>3 DEF InGraph
    <3> QED
      BY <2>1, <2>2, <2>3, <3>1, <3>2, SameServer, SameGraph DEF Drawing
  <2>4. CASE ~InGraph(d) /\ Exists(d) /\ Get(d)
    <3>1. /\ graph'.nodes = graph.nodes \cup {d} /\ DrawnOK' /\ SaidOK'
          /\ said' \in [DataNode \cup RunNode -> SUBSET arrows]
      BY <2>1, <2>4, GetKeeps
    <3>2. LineageTypeOK' /\ Whole(there)' /\ Whole(atFirst)'
      <4>1. LineageTypeOK'
        BY <2>1, <2>2, <3>1 DEF server, Drawing, LineageTypeOK
      <4> QED
        BY <2>1, <4>1, SameServer DEF Drawing
    <3>3. FetchOK'
      BY <1>1, <2>1, <3>1 DEF server, Drawing, FetchOK, Taken, Made, LineageFact
    <3> QED
      BY <3>1, <3>2, <3>3 DEF Drawing
  <2> QED
    BY <1>5, <2>3, <2>4 DEF VisitIs
<1>6. ASSUME NEW d \in DataNode, FetchIs(d) PROVE Drawing'
  <2>1. UNCHANGED <<server, phase, depth, layer, next, runs>> /\ fetch' = fetch \ {d}
    BY <1>6 DEF FetchIs
  <2>2. CASE InGraph(d) /\ UNCHANGED <<graph, said>>
    <3>1. LineageTypeOK'
      BY <2>1, <2>2 DEF server, Drawing, LineageTypeOK
    <3>2. fetch \subseteq fetch' \cup graph.nodes
      BY <2>1, <2>2 DEF InGraph
    <3> QED
      BY <2>1, <2>2, <3>1, <3>2, SameServer, SameGraph DEF Drawing
  <2>3. CASE ~InGraph(d) /\ Exists(d) /\ Get(d)
    <3>1. /\ graph'.nodes = graph.nodes \cup {d} /\ DrawnOK' /\ SaidOK'
          /\ said' \in [DataNode \cup RunNode -> SUBSET arrows]
      BY <2>1, <2>3, GetKeeps
    <3>2. LineageTypeOK' /\ Whole(there)' /\ Whole(atFirst)'
      <4>1. LineageTypeOK'
        BY <2>1, <3>1 DEF server, Drawing, LineageTypeOK
      <4> QED
        BY <2>1, <4>1, SameServer DEF Drawing
    <3>3. FetchOK'
      BY <1>1, <2>1, <3>1 DEF server, Drawing, FetchOK, Taken, Made, LineageFact
    <3> QED
      BY <3>1, <3>2, <3>3 DEF Drawing
  <2> QED
    BY <1>6, <2>2, <2>3 DEF FetchIs
<1>7. ASSUME NEW r \in RunNode, VisitRunIs(r) PROVE Drawing'
  <2>1. UNCHANGED <<server, phase, depth, layer>> /\ fetch = {} /\ runs' = runs \ {r}
    BY <1>7 DEF VisitRunIs
  <2>2. CASE InGraph(r) /\ UNCHANGED <<graph, said, next, fetch>>
    <3>1. LineageTypeOK'
      BY <2>1, <2>2 DEF server, Drawing, LineageTypeOK
    <3>2. fetch \subseteq fetch' \cup graph.nodes
      BY <2>1, <2>2 DEF InGraph
    <3> QED
      BY <2>1, <2>2, <3>1, <3>2, SameServer, SameGraph DEF Drawing
  <2>3. CASE /\ ~InGraph(r) /\ r \in there /\ Get(r)
             /\ fetch' = Taken(r) \cup Made(r) /\ next' = next \cup Onward(Up, r)
    <3>1. Exists(r)
      BY <2>3 DEF Exists
    <3>2. /\ graph'.nodes = graph.nodes \cup {r} /\ DrawnOK' /\ SaidOK'
          /\ said' \in [DataNode \cup RunNode -> SUBSET arrows]
      BY <2>1, <2>3, <3>1, GetKeeps
    <3>3. fetch' \subseteq DataNode /\ next' \subseteq DataNode
      BY <1>1, <2>3 DEF LineageFact, Onward, Drawing, LineageTypeOK
    <3>4. LineageTypeOK' /\ Whole(there)' /\ Whole(atFirst)'
      <4>1. LineageTypeOK'
        BY <2>1, <3>2, <3>3 DEF server, Drawing, LineageTypeOK
      <4> QED
        BY <2>1, <4>1, SameServer DEF Drawing
    <3>5. FetchOK'
      BY <2>1, <2>3, <3>2 DEF server, Drawing, FetchOK, Taken, Made
    <3> QED
      BY <3>2, <3>4, <3>5 DEF Drawing
  <2> QED
    BY <1>7, <2>2, <2>3 DEF VisitRunIs
<1> QED
  BY <1>2, <1>3, <1>4, <1>5, <1>6, <1>7, StepsAre

-----------------------------------------------------------------------------
(* What a trace finds *)

\* Runs that stay, and going up all, as what is there has what it takes.
Needed(r) == Up \/ Stays(r)
Lasting(d) == Up \/ Stays(MadeBy(d))

\* Data that was gone on from, and data within n rounds.
Served(d) == \A r \in RunsOf(Up, d) : Needed(r) => r \in graph.nodes \cup runs
Reach(n) == Within(Rounds(Up), ask.root)[n]

\* Data of the rounds so far wait in the layer or were gone on from, and so for what
\* follows the runs of this direction; those that were found going up are older than
\* the root.
Traced ==
    Tracing =>
        /\ IF Up THEN ask.up ELSE ask.down
        /\ ask.number = Infinity \/ depth + 1 <= ask.number
        /\ layer \subseteq Reach(depth) /\ next \subseteq Reach(depth + 1)
        /\ \A r \in runs : \E d \in Reach(depth) : r \in RunsOf(Up, d)
        /\ \A d \in Reach(depth) : Lasting(d) => d \in layer \/ Served(d)
        /\ \A r \in graph.nodes \cap RunNode :
               Up \/ Age[r] > Age[ask.root] => \A d \in Onward(Up, r) : d \in next \cup layer \/ Served(d)
        /\ Up => \A r \in graph.nodes \cap RunNode : Age[r] < Age[ask.root]

\* What was found, of the directions that are done.
Outcome ==
    /\ graph.nodes \cap RunNode \subseteq AskedRuns
    /\ ask.up /\ phase \in {"down", "printed"} => RunsWithin(TRUE) \cap atFirst \cap there \subseteq graph.nodes
    /\ ask.down /\ phase = "printed" => RunsWithin(FALSE) \cap atFirst \cap there \subseteq graph.nodes
    /\ phase = "printed" => fetch = {}

LEMMA ReachIs ==
    ASSUME LineageAssumption, Drawing
    PROVE  /\ Reach(0) = {ask.root}
           /\ \A n \in Nat : Reach(n) \subseteq DataNode /\ ask.root \in Reach(n)
           /\ \A n \in Nat : \A d : d \in Reach(n + 1) <=>
                  d \in Reach(n) \/ \E x \in Reach(n) : \E r \in RunsOf(Up, x) : d \in Onward(Up, r)
           /\ \A n \in Nat : \A d \in Reach(n) : IF Up THEN Age[d] <= Age[ask.root] ELSE Age[d] >= Age[ask.root]
<1> DEFINE steps == Rounds(Up)
           root == ask.root
<1>1. LineageFact /\ Up \in BOOLEAN /\ root \in DataNode
  BY LineageFacts DEF Drawing, LineageTypeOK, Up
<1>2. /\ steps \in [DataNode -> SUBSET DataNode]
      /\ \A x \in DataNode : \A d : d \in steps[x] <=> \E r \in RunsOf(Up, x) : d \in Onward(Up, r)
      /\ \A x \in DataNode : RunsOf(Up, x) \subseteq RunNode
      /\ \A x \in DataNode, r \in RunNode : r \in RunsOf(Up, x) <=> IF Up THEN r = MadeBy(x) ELSE x \in Taken(r)
  BY <1>1, RoundsAre
<1> HIDE DEF steps, root
<1>3. Unrolled(Within(steps, root), steps, DataNode, root)
  BY <1>1, <1>2, WithinIs
<1>4. \A n \in Nat : Within(steps, root)[n] \subseteq DataNode /\ root \in Within(steps, root)[n]
  <2> TAKE n \in Nat
  <2>1. 0 \in Nat /\ 0 <= n
    OBVIOUS
  <2>2. Within(steps, root)[0] \subseteq Within(steps, root)[n]
    BY <1>1, <1>2, <2>1, WithinGrows
  <2> QED
    BY <1>3, <2>2 DEF Unrolled
<1>5. \A n \in Nat : \A d : d \in Within(steps, root)[n + 1] <=>
          d \in Within(steps, root)[n] \/ \E x \in Within(steps, root)[n] : \E r \in RunsOf(Up, x) : d \in Onward(Up, r)
  BY <1>2, <1>3, <1>4 DEF Unrolled
<1>6. \A n \in Nat : \A d \in Within(steps, root)[n] : IF Up THEN Age[d] <= Age[root] ELSE Age[d] >= Age[root]
  <2> DEFINE s == {d \in DataNode : IF Up THEN Age[d] <= Age[root] ELSE Age[d] >= Age[root]}
  <2>1. \A d \in DataNode : Age[d] \in Nat
    BY <1>1 DEF LineageFact
  <2>2. root \in s
    BY <1>1, <2>1
  <2>3. ASSUME NEW x \in s, NEW d \in steps[x] PROVE d \in s
    <3>1. PICK r \in RunsOf(Up, x) : d \in Onward(Up, r)
      BY <1>2, <2>3
    <3>2. r \in RunNode /\ d \in DataNode
      BY <1>2, <2>3
    <3>3. Age[x] \in Nat /\ Age[r] \in Nat /\ Age[d] \in Nat /\ Age[root] \in Nat
      BY <1>1, <3>2 DEF LineageFact
    <3>4. CASE Up
      <4>1. x \in Made(r) /\ d \in Taken(r)
        BY <1>1, <1>2, <2>3, <3>1, <3>2, <3>4 DEF LineageFact, Onward
      <4>2. Age[d] < Age[r] /\ Age[r] < Age[x]
        BY <1>1, <2>3, <3>2, <4>1 DEF LineageFact
      <4> QED
        BY <2>3, <3>2, <3>3, <3>4, <4>2
    <3>5. CASE ~Up
      <4>1. x \in Taken(r) /\ d \in Made(r)
        BY <1>2, <2>3, <3>1, <3>2, <3>5 DEF Onward
      <4>2. Age[d] > Age[r] /\ Age[r] > Age[x]
        BY <1>1, <2>3, <3>2, <3>3, <4>1 DEF LineageFact
      <4> QED
        BY <2>3, <3>2, <3>3, <3>5, <4>2
    <3> QED
      BY <3>4, <3>5
  <2>4. Encloses(s, steps, root)
    <3> HIDE DEF s
    <3> QED
      BY <2>2, <2>3 DEF Encloses
  <2> HIDE DEF s
  <2>5. \A n \in Nat : Within(steps, root)[n] \subseteq s
    BY <1>1, <1>2, <2>4, WithinStays
  <2> QED
    BY <2>5 DEF s
<1> QED
  BY <1>3, <1>4, <1>5, <1>6 DEF Reach, steps, root, Unrolled

\* The runs that are asked for in this direction: those of the data within so many
\* rounds, and of no data that is not in a closed set.
LEMMA RunsWithinAre ==
    ASSUME LineageAssumption, Drawing
    PROVE  /\ \A n \in Nat : ask.number = Infinity \/ n + 1 <= ask.number =>
                  \A d \in Reach(n) : RunsOf(Up, d) \subseteq RunsWithin(Up)
           /\ \A s \in SUBSET DataNode :
                  ask.root \in s /\ (\A x \in s : \A r \in RunsOf(Up, x) : Onward(Up, r) \subseteq s)
                  => \A r \in RunsWithin(Up) : \E d \in s : r \in RunsOf(Up, d)
           /\ \A n \in Nat : n + 1 = ask.number => \A r \in RunsWithin(Up) : \E d \in Reach(n) : r \in RunsOf(Up, d)
<1> DEFINE steps == Rounds(Up)
           root == ask.root
           n0 == IF ask.number = Infinity THEN Infinity ELSE ask.number - 1
<1>1. LineageFact /\ Up \in BOOLEAN /\ root \in DataNode
  BY LineageFacts DEF Drawing, LineageTypeOK, Up
<1>2. /\ Infinity \notin Nat /\ (ask.number = Infinity \/ (ask.number \in Nat /\ ask.number # 0))
  BY DEF Drawing, LineageTypeOK, LineageAssumption, DepthAssumption
<1>3. /\ n0 \in Nat \cup {Infinity} /\ (n0 = Infinity <=> ask.number = Infinity)
      /\ \A n \in Nat : n + 1 = ask.number => n0 = n
      /\ \A n \in Nat : ask.number = Infinity \/ n + 1 <= ask.number => n0 = Infinity \/ n <= n0
  BY <1>2
<1>4. /\ steps \in [DataNode -> SUBSET DataNode]
      /\ \A x \in DataNode : \A d : d \in steps[x] <=> \E r \in RunsOf(Up, x) : d \in Onward(Up, r)
  BY <1>1, RoundsAre
<1>5. RunsWithin(Up) = UNION {RunsOf(Up, d) : d \in Asked(steps, root, n0)}
  BY DEF RunsWithin
<1>6. \A n : Reach(n) = Within(steps, root)[n]
  BY DEF Reach
<1> HIDE DEF steps, root, n0
<1>7. /\ \A m \in Nat : n0 = Infinity \/ m <= n0 => Within(steps, root)[m] \subseteq Asked(steps, root, n0)
      /\ \A s \in SUBSET DataNode : Encloses(s, steps, root) => Asked(steps, root, n0) \subseteq s
  BY <1>1, <1>2, <1>3, <1>4, AskedIs
<1>8. \A n \in Nat : n0 = n => Asked(steps, root, n0) = Reach(n)
  BY <1>2, <1>6 DEF Asked
<1>9. ASSUME NEW s \in SUBSET DataNode, root \in s, \A x \in s : \A r \in RunsOf(Up, x) : Onward(Up, r) \subseteq s
      PROVE  Encloses(s, steps, root)
  BY <1>4, <1>9 DEF Encloses
<1>10. \A r : r \in RunsWithin(Up) <=> \E d \in Asked(steps, root, n0) : r \in RunsOf(Up, d)
  BY <1>5
<1>11. \A n \in Nat : ask.number = Infinity \/ n + 1 <= ask.number =>
           \A d \in Reach(n) : RunsOf(Up, d) \subseteq RunsWithin(Up)
  BY <1>3, <1>6, <1>7, <1>10
<1>12. ASSUME NEW s \in SUBSET DataNode,
              ask.root \in s /\ (\A x \in s : \A r \in RunsOf(Up, x) : Onward(Up, r) \subseteq s),
              NEW r \in RunsWithin(Up)
       PROVE  \E d \in s : r \in RunsOf(Up, d)
  <2>1. Encloses(s, steps, root)
    BY <1>9, <1>12 DEF root
  <2> QED
    BY <1>7, <1>10, <1>12, <2>1
<1>13. \A n \in Nat : n + 1 = ask.number => \A r \in RunsWithin(Up) : \E d \in Reach(n) : r \in RunsOf(Up, d)
  BY <1>3, <1>8, <1>10
<1> QED
  BY <1>11, <1>12, <1>13

\* What is asked for stays what it is.
LEMMA SameAsked ==
    ASSUME UNCHANGED <<arrows, ask>>
    PROVE  /\ \A r : Taken(r)' = Taken(r) /\ Made(r)' = Made(r) /\ MadeBy(r)' = MadeBy(r)
           /\ RunsWithin(TRUE)' = RunsWithin(TRUE) /\ RunsWithin(FALSE)' = RunsWithin(FALSE)
           /\ AskedRuns' = AskedRuns
<1>1. \A r : Taken(r)' = Taken(r) /\ Made(r)' = Made(r)
  BY DEF Taken, Made
<1>2. \A r : MadeBy(r)' = MadeBy(r)
  BY <1>1 DEF MadeBy
<1>3. RunsWithin(TRUE)' = RunsWithin(TRUE) /\ RunsWithin(FALSE)' = RunsWithin(FALSE)
  BY DEF RunsWithin, Rounds, RunsOf, Taken, Made
<1> QED
  BY <1>1, <1>2, <1>3 DEF AskedRuns

\* Nothing else does, as long as the direction is the same.
LEMMA SameDirection ==
    ASSUME UNCHANGED <<arrows, atFirst, ask, phase>>, atFirst \cap there' \subseteq there
    PROVE  /\ Up' = Up /\ Tracing' = Tracing
           /\ \A n : Reach(n)' = Reach(n)
           /\ \A d : RunsOf(Up, d)' = RunsOf(Up, d)
           /\ \A r : Onward(Up, r)' = Onward(Up, r) /\ (Needed(r)' => Needed(r))
           /\ \A d : Lasting(d)' => Lasting(d)
<1>1. Up' = Up /\ Tracing' = Tracing
  BY DEF Up, Tracing
<1>2. \A n : Reach(n)' = Reach(n)
  BY DEF Reach, Rounds, RunsOf, Taken, Made, Up
<1>3. \A d : RunsOf(Up, d)' = RunsOf(Up, d)
  BY DEF RunsOf, Taken, Made, Up
<1>4. \A r : Onward(Up, r)' = Onward(Up, r)
  BY DEF Onward, Taken, Made, Up
<1>5. \A r : Stays(r)' => Stays(r)
  BY DEF Stays
<1>6. \A r : Needed(r)' => Needed(r)
  BY <1>1, <1>5 DEF Needed
<1>7. \A d : Lasting(d)' => Lasting(d)
  BY <1>1, <1>5, SameAsked DEF Lasting, Stays
<1> QED
  BY <1>1, <1>2, <1>3, <1>4, <1>6, <1>7

LEMMA TracedInit == ASSUME LineageAssumption, LineageInit PROVE Traced /\ Outcome
<1>1. Drawing
  BY DrawingInit
<1>2. /\ graph.nodes = {} /\ layer = {ask.root} /\ depth = 0 /\ next = {} /\ runs = {} /\ fetch = {}
      /\ (phase = "up" /\ ask.up) \/ (phase = "down" /\ ~ask.up /\ ask.down)
  BY EmptyIsSound DEF LineageInit
<1>3. ask.number = Infinity \/ 0 + 1 <= ask.number
  BY <1>1 DEF Drawing, LineageTypeOK, LineageAssumption, DepthAssumption
<1>4. Reach(0) = {ask.root}
  BY <1>1, ReachIs
<1>5. Traced
  BY <1>2, <1>3, <1>4 DEF Traced, Up
<1>6. Outcome
  BY <1>2 DEF Outcome
<1> QED
  BY <1>5, <1>6

\* A step within a round: what was gone on from is served, and a run that is new to the
\* graph is one of this round's.
InRound ==
    /\ Tracing /\ UNCHANGED <<arrows, atFirst, ask, phase, depth>> /\ atFirst \cap there' \subseteq there
    /\ graph.nodes \subseteq graph'.nodes /\ graph.nodes \cup runs \subseteq graph'.nodes \cup runs'
    /\ graph'.nodes \subseteq DataNode \cup RunNode
    /\ layer' \subseteq layer /\ \A d \in layer \ layer' : Served(d)'
    /\ next \subseteq next' /\ next' \subseteq Reach(depth + 1)
    /\ \A r \in runs' : \E d \in Reach(depth) : r \in RunsOf(Up, d)
    /\ \A r \in (graph'.nodes \cap RunNode) \ graph.nodes : r \in runs /\ Onward(Up, r) \subseteq next'

LEMMA RoundKeeps ==
    ASSUME LineageAssumption, Drawing, Traced, Outcome, InRound
    PROVE  Traced' /\ Outcome'
<1>1. /\ Up' = Up /\ Tracing' = Tracing
      /\ \A n : Reach(n)' = Reach(n)
      /\ \A d : RunsOf(Up, d)' = RunsOf(Up, d)
      /\ \A r : Onward(Up, r)' = Onward(Up, r) /\ (Needed(r)' => Needed(r))
      /\ \A d : Lasting(d)' => Lasting(d)
  BY SameDirection DEF InRound
<1>2. /\ UNCHANGED <<ask, atFirst, phase, depth>>
      /\ RunsWithin(TRUE)' = RunsWithin(TRUE) /\ RunsWithin(FALSE)' = RunsWithin(FALSE)
      /\ AskedRuns' = AskedRuns
  BY SameAsked DEF InRound
<1>3. \A d : Served(d) => Served(d)'
  BY <1>1 DEF Served, InRound
<1>4. /\ IF Up THEN ask.up ELSE ask.down
      /\ ask.number = Infinity \/ depth + 1 <= ask.number
      /\ layer \subseteq Reach(depth) /\ next \subseteq Reach(depth + 1)
      /\ \A r \in runs : \E d \in Reach(depth) : r \in RunsOf(Up, d)
      /\ \A d \in Reach(depth) : Lasting(d) => d \in layer \/ Served(d)
      /\ \A r \in graph.nodes \cap RunNode :
             Up \/ Age[r] > Age[ask.root] => \A d \in Onward(Up, r) : d \in next \cup layer \/ Served(d)
      /\ Up => \A r \in graph.nodes \cap RunNode : Age[r] < Age[ask.root]
  BY DEF InRound, Traced
<1>5. LineageFact /\ depth \in Nat /\ Up \in BOOLEAN /\ ask.root \in DataNode
  BY LineageFacts DEF Drawing, LineageTypeOK, Up
  \* A run of this round is as far from the root as it should be, and asked for.
<1>6. ASSUME NEW r \in runs PROVE r \in AskedRuns /\ (Up => Age[r] < Age[ask.root])
  <2>1. PICK d \in Reach(depth) : r \in RunsOf(Up, d)
    BY <1>4
  <2>2. d \in DataNode /\ (Up => Age[d] <= Age[ask.root])
    BY <1>5, ReachIs
  <2>3. r \in RunNode /\ (Up => r = MadeBy(d))
    BY <1>5, <2>1, <2>2, RoundsAre
  <2>4. Up => Age[r] < Age[ask.root]
    <3> SUFFICES ASSUME Up PROVE Age[r] < Age[ask.root]
      OBVIOUS
    <3>1. Age[r] < Age[d] /\ Age[r] \in Nat /\ Age[d] \in Nat /\ Age[ask.root] \in Nat
      BY <1>5, <2>2, <2>3 DEF LineageFact
    <3> QED
      BY <2>2, <3>1
  <2>5. r \in RunsWithin(Up)
    BY <1>4, <1>5, <2>1, RunsWithinAre
  <2>6. r \in AskedRuns
    <3>1. CASE Up
      BY <1>4, <2>5, <3>1 DEF AskedRuns
    <3>2. CASE ~Up
      <4>1. Up = FALSE
        BY <1>5, <3>2
      <4>2. r \in RunsWithin(FALSE)
        BY <2>5, <4>1
      <4> QED
        BY <1>4, <3>2, <4>2 DEF AskedRuns
    <3> QED
      BY <3>1, <3>2
  <2> QED
    BY <2>4, <2>6
<1>7. ASSUME NEW r \in graph'.nodes \cap RunNode PROVE r \in graph.nodes \/ (r \in runs /\ Onward(Up, r) \subseteq next')
  BY DEF InRound
<1>8. \A d \in Reach(depth) : Lasting(d)' => d \in layer' \/ Served(d)'
  BY <1>1, <1>3, <1>4 DEF InRound
<1>9. \A r \in graph'.nodes \cap RunNode :
          Up \/ Age[r] > Age[ask.root] => \A d \in Onward(Up, r) : d \in next' \cup layer' \/ Served(d)'
  BY <1>3, <1>4, <1>7 DEF InRound
<1>10. Up => \A r \in graph'.nodes \cap RunNode : Age[r] < Age[ask.root]
  BY <1>4, <1>6, <1>7
<1>11. Traced'
  BY <1>1, <1>2, <1>4, <1>8, <1>9, <1>10 DEF Traced, InRound
<1>12. graph'.nodes \cap RunNode \subseteq AskedRuns
  BY <1>6, <1>7 DEF Outcome
<1>13. phase # "printed"
  BY DEF InRound, Tracing
<1>14. ask.up /\ phase = "down" => RunsWithin(TRUE) \cap atFirst \cap there' \subseteq graph'.nodes
  BY DEF InRound, Outcome
<1>15. Outcome'
  BY <1>2, <1>12, <1>13, <1>14 DEF Outcome
<1> QED
  BY <1>11, <1>15

\* When a round is over, its data that stay are served, and runs that stay were found:
\* what such a run comes from, or goes to, stays.
RoundIsOver == Tracing /\ layer = {} /\ runs = {} /\ fetch = {}

LEMMA RoundFound ==
    ASSUME LineageAssumption, Drawing, Traced, RoundIsOver,
           NEW d \in DataNode, NEW r \in RunsOf(Up, d), Lasting(d) => Served(d)
    PROVE  /\ Stays(r) => Lasting(d) /\ r \in graph.nodes
           /\ \A x \in Onward(Up, r) : Lasting(x) => Lasting(d) /\ r \in graph.nodes
<1>1. LineageFact /\ Up \in BOOLEAN
  BY LineageFacts DEF Drawing, LineageTypeOK, Up
<1>2. r \in RunNode /\ IF Up THEN r = MadeBy(d) ELSE d \in Taken(r)
  BY <1>1, RoundsAre
<1>3. Stays(r) => Lasting(d)
  BY <1>2 DEF Lasting, Stays, Drawing, Whole
<1>4. Lasting(d) /\ Needed(r) => r \in graph.nodes
  BY DEF Served, RoundIsOver
<1>5. ASSUME NEW x \in Onward(Up, r), Lasting(x) PROVE Lasting(d) /\ Needed(r)
  <2>1. CASE Up
    BY <2>1 DEF Lasting, Needed
  <2>2. CASE ~Up
    <3>1. x \in Made(r) /\ x \in DataNode
      BY <1>1, <1>2, <2>2 DEF Onward, LineageFact
    <3>2. r = MadeBy(x)
      BY <1>1, <1>2, <3>1 DEF LineageFact
    <3>3. Stays(r)
      BY <1>5, <2>2, <3>2 DEF Lasting
    <3> QED
      BY <1>3, <3>3 DEF Needed
  <2> QED
    BY <2>1, <2>2
<1>6. Stays(r) => Needed(r)
  BY DEF Needed
<1> QED
  BY <1>3, <1>4, <1>5, <1>6

LEMMA NextRound ==
    ASSUME LineageAssumption, Drawing, Traced, Outcome, NextLayer, Deeper, next # {}
    PROVE  Traced' /\ Outcome'
<1>1. /\ UNCHANGED <<server, graph, said, runs, fetch, phase>> /\ RoundIsOver
      /\ layer' = next /\ next' = {} /\ depth' = depth + 1
  BY DEF NextLayer, RoundIsOver
<1>2. UNCHANGED <<arrows, atFirst, there, ask>>
  BY <1>1 DEF server
<1>3. /\ Up' = Up /\ Tracing' = Tracing
      /\ \A n : Reach(n)' = Reach(n)
      /\ \A d : RunsOf(Up, d)' = RunsOf(Up, d)
      /\ \A r : Onward(Up, r)' = Onward(Up, r) /\ (Needed(r)' => Needed(r))
      /\ \A d : Lasting(d)' => Lasting(d)
  BY <1>1, <1>2, SameDirection
<1>4. \A d : Served(d) => Served(d)'
  BY <1>1, <1>3 DEF Served
<1>5. /\ IF Up THEN ask.up ELSE ask.down
      /\ next \subseteq Reach(depth + 1)
      /\ \A d \in Reach(depth) : Lasting(d) => Served(d)
      /\ \A r \in graph.nodes \cap RunNode :
             Up \/ Age[r] > Age[ask.root] => \A d \in Onward(Up, r) : d \in next \/ Served(d)
      /\ Up => \A r \in graph.nodes \cap RunNode : Age[r] < Age[ask.root]
  BY <1>1 DEF RoundIsOver, Traced
<1>6. LineageFact /\ depth \in Nat /\ Up \in BOOLEAN /\ ask.root \in DataNode
  BY LineageFacts DEF Drawing, LineageTypeOK, Up
<1>7. ask.number = Infinity \/ depth' + 1 <= ask.number
  <2>1. ask.number = Infinity \/ ask.number \in Nat
    BY DEF Drawing, LineageTypeOK, LineageAssumption, DepthAssumption
  <2> QED
    BY <1>1, <1>6, <2>1 DEF Deeper
<1>8. ASSUME NEW d \in Reach(depth + 1), Lasting(d) PROVE d \in next \/ Served(d)
  <2>1. CASE d \in Reach(depth)
    BY <1>5, <1>8, <2>1
  <2>2. CASE d \notin Reach(depth)
    <3>1. PICK x \in Reach(depth) : \E r \in RunsOf(Up, x) : d \in Onward(Up, r)
      BY <1>6, <2>2, ReachIs
    <3>2. PICK r \in RunsOf(Up, x) : d \in Onward(Up, r)
      BY <3>1
    <3>3. x \in DataNode /\ (IF Up THEN TRUE ELSE Age[x] >= Age[ask.root])
      BY <1>6, ReachIs
    <3>4. r \in graph.nodes
      BY <1>1, <1>5, <1>8, <3>2, <3>3, RoundFound
    <3>5. r \in RunNode /\ IF Up THEN r = MadeBy(x) ELSE x \in Taken(r)
      BY <1>6, <3>3, RoundsAre
    <3>6. Up \/ Age[r] > Age[ask.root]
      <4>1. Age[r] \in Nat /\ Age[x] \in Nat /\ Age[ask.root] \in Nat
        BY <1>6, <3>3, <3>5 DEF LineageFact
      <4>2. ~Up => Age[x] < Age[r]
        BY <1>6, <3>3, <3>5 DEF LineageFact
      <4> QED
        BY <3>3, <4>1, <4>2
    <3> QED
      BY <1>5, <3>2, <3>4, <3>5, <3>6
  <2> QED
    BY <2>1, <2>2
<1>9. \A d \in Reach(depth') : Lasting(d)' => d \in layer' \/ Served(d)'
  BY <1>1, <1>3, <1>4, <1>8
<1>10. \A r \in graph'.nodes \cap RunNode :
           Up \/ Age[r] > Age[ask.root] => \A d \in Onward(Up, r) : d \in next' \cup layer' \/ Served(d)'
  BY <1>1, <1>4, <1>5
<1>11. /\ layer' \subseteq Reach(depth') /\ next' \subseteq Reach(depth' + 1)
       /\ \A r \in runs' : \E d \in Reach(depth') : r \in RunsOf(Up, d)
  BY <1>1, <1>5 DEF RoundIsOver
<1>12. /\ IF Up' THEN ask'.up ELSE ask'.down
       /\ ask'.number = Infinity \/ depth' + 1 <= ask'.number
       /\ Up => \A r \in graph'.nodes \cap RunNode : Age[r] < Age[ask'.root]
  BY <1>1, <1>2, <1>3, <1>5, <1>7
<1>13. Traced'
  BY <1>2, <1>3, <1>9, <1>10, <1>11, <1>12 DEF Traced
<1>14. /\ RunsWithin(TRUE)' = RunsWithin(TRUE) /\ RunsWithin(FALSE)' = RunsWithin(FALSE)
       /\ AskedRuns' = AskedRuns
  BY <1>2, SameAsked
<1>15. Outcome'
  BY <1>1, <1>2, <1>14 DEF Outcome
<1> QED
  BY <1>13, <1>15

\* A direction is over when as many rounds are done as were asked for, or when no data
\* are left to go on from.
LEMMA DirectionDone ==
    ASSUME LineageAssumption, Drawing, Traced, RoundIsOver, ~Deeper \/ next = {}
    PROVE  RunsWithin(Up) \cap atFirst \cap there \subseteq graph.nodes
<1>1. LineageFact /\ depth \in Nat /\ Up \in BOOLEAN /\ ask.root \in DataNode
  BY LineageFacts DEF Drawing, LineageTypeOK, Up
<1>2. ask.number = Infinity \/ ask.number \in Nat
  BY DEF Drawing, LineageTypeOK, LineageAssumption, DepthAssumption
<1>3. \A d \in Reach(depth) : Lasting(d) => Served(d)
  BY DEF RoundIsOver, Traced
<1> SUFFICES ASSUME NEW r \in RunsWithin(Up), Stays(r) PROVE r \in graph.nodes
  BY DEF Stays
<1>4. CASE ~Deeper
  <2>1. depth + 1 = ask.number
    BY <1>1, <1>2, <1>4 DEF Deeper, RoundIsOver, Traced
  <2>2. PICK d \in Reach(depth) : r \in RunsOf(Up, d)
    BY <1>1, <2>1, RunsWithinAre
  <2>3. d \in DataNode
    BY <1>1, ReachIs
  <2> QED
    BY <1>3, <2>2, <2>3, RoundFound
<1>5. CASE next = {}
  <2> DEFINE s == {x \in DataNode : (Up \/ Age[x] >= Age[ask.root]) /\ (Lasting(x) => Served(x))}
  <2>1. ask.root \in s
    <3>1. ask.root \in Reach(depth) /\ Age[ask.root] \in Nat
      BY <1>1, ReachIs DEF LineageFact
    <3> QED
      BY <1>1, <1>3, <3>1
  <2>2. ASSUME NEW x \in s, NEW q \in RunsOf(Up, x), NEW d \in Onward(Up, q) PROVE d \in s
    <3>1. q \in RunNode /\ IF Up THEN q = MadeBy(x) ELSE x \in Taken(q)
      BY <1>1, RoundsAre
    <3>2. d \in DataNode /\ Age[d] \in Nat /\ Age[q] \in Nat /\ Age[x] \in Nat /\ Age[ask.root] \in Nat
      BY <1>1, <3>1 DEF LineageFact, Onward
    <3>3. Up \/ (Age[x] < Age[q] /\ Age[q] < Age[d])
      BY <1>1, <3>1, <3>2 DEF LineageFact, Onward
    <3>4. Up \/ (Age[q] > Age[ask.root] /\ Age[d] >= Age[ask.root])
      BY <3>2, <3>3
    <3>5. ASSUME Lasting(d) PROVE Served(d)
      <4>1. q \in graph.nodes
        BY <3>5, RoundFound
      <4> QED
        BY <1>5, <3>1, <3>4, <4>1 DEF Traced, RoundIsOver
    <3> QED
      BY <3>2, <3>4, <3>5
  <2>3. s \in SUBSET DataNode
    OBVIOUS
  <2>4. \A x \in s : \A q \in RunsOf(Up, x) : Onward(Up, q) \subseteq s
    <3> HIDE DEF s
    <3> QED
      BY <2>2
  <2>5. PICK d \in s : r \in RunsOf(Up, d)
    <3> HIDE DEF s
    <3> QED
      BY <2>1, <2>3, <2>4, RunsWithinAre
  <2> QED
    BY <2>5, RoundFound
<1> QED
  BY <1>4, <1>5

\* Then it goes the other way, or prints.
LEMMA DirectionOver ==
    ASSUME LineageAssumption, Drawing, Traced, Outcome, NextLayer, ~(Deeper /\ next # {})
    PROVE  Traced' /\ Outcome'
<1>1. /\ UNCHANGED <<server, graph, said, runs, fetch>> /\ RoundIsOver /\ next' = {}
      /\ IF Up /\ ask.down THEN phase' = "down" /\ layer' = {ask.root} /\ depth' = 0
         ELSE phase' = "printed"
  BY DEF NextLayer, RoundIsOver, Up
<1>2. UNCHANGED <<arrows, atFirst, there, ask>>
  BY <1>1 DEF server
<1>3. RunsWithin(Up) \cap atFirst \cap there \subseteq graph.nodes
  BY <1>1, DirectionDone
<1>4. /\ RunsWithin(TRUE)' = RunsWithin(TRUE) /\ RunsWithin(FALSE)' = RunsWithin(FALSE)
      /\ AskedRuns' = AskedRuns
  BY <1>2, SameAsked
<1>5. CASE Up /\ ask.down
  <2>1. /\ phase' = "down" /\ layer' = {ask.root} /\ depth' = 0 /\ Up' = FALSE /\ Up = TRUE
        /\ ask' = ask /\ graph' = graph /\ runs' = {} /\ fetch' = {} /\ next' = {}
    BY <1>1, <1>2, <1>5 DEF Up, RoundIsOver
  <2>2. Reach(0)' = {ask'.root}
    <3>1. LineageFact /\ ask.root \in DataNode
      BY LineageFacts DEF Drawing, LineageTypeOK
    <3>2. Rounds(FALSE) \in [DataNode -> SUBSET DataNode]
      BY <3>1, RoundsAre
    <3>3. Within(Rounds(FALSE), ask.root)[0] = {ask.root}
      <4> DEFINE steps == Rounds(FALSE)
      <4> HIDE DEF steps
      <4>1. Unrolled(Within(steps, ask.root), steps, DataNode, ask.root)
        BY <3>1, <3>2, WithinIs DEF steps
      <4> QED
        BY <4>1 DEF Unrolled, steps
    <3>4. Rounds(FALSE)' = Rounds(FALSE)
      BY <1>2 DEF Rounds, RunsOf, Taken, Made
    <3>5. Reach(0)' = Within(Rounds(FALSE), ask.root)[0]
      BY <2>1, <3>4 DEF Reach
    <3> QED
      BY <2>1, <3>3, <3>5
  <2>3. \A r \in graph.nodes \cap RunNode : Age[r] < Age[ask.root]
    BY <1>1, <1>5 DEF Traced, RoundIsOver
  <2>4. \A r \in graph'.nodes \cap RunNode : ~(Up' \/ Age[r] > Age[ask'.root])
    <3>1. \A n \in DataNode \cup RunNode : Age[n] \in Nat
      BY LineageFacts DEF Drawing, LineageTypeOK, LineageFact
    <3>2. ask.root \in DataNode
      BY DEF Drawing, LineageTypeOK
    <3> QED
      BY <2>1, <2>3, <3>1, <3>2
  <2>5. ask'.number = Infinity \/ depth' + 1 <= ask'.number
    <3>1. ask.number = Infinity \/ (ask.number \in Nat /\ ask.number # 0)
      BY DEF Drawing, LineageTypeOK, LineageAssumption, DepthAssumption
    <3>2. ask.number = Infinity \/ 0 + 1 <= ask.number
      BY <3>1
    <3> QED
      BY <2>1, <3>2
  <2>6. Traced'
    BY <1>5, <2>1, <2>2, <2>4, <2>5 DEF Traced
  <2>7. RunsWithin(TRUE) \cap atFirst \cap there \subseteq graph.nodes
    BY <1>3, <2>1
  <2>8. Outcome'
    BY <1>2, <1>4, <2>1, <2>7 DEF Outcome
  <2> QED
    BY <2>6, <2>8
<1>6. CASE ~(Up /\ ask.down)
  <2>1. /\ phase' = "printed" /\ graph' = graph /\ fetch' = {} /\ there' = there
        /\ ask' = ask /\ atFirst' = atFirst
    BY <1>1, <1>2, <1>6 DEF RoundIsOver
  <2>2. Traced'
    BY <2>1 DEF Traced, Tracing
  <2>3. IF Up THEN ask.up ELSE ask.down
    BY <1>1 DEF Traced, RoundIsOver
  <2>4. graph.nodes \cap RunNode \subseteq AskedRuns
    BY DEF Outcome
  <2>5. /\ ask.up => RunsWithin(TRUE) \cap atFirst \cap there \subseteq graph.nodes
        /\ ask.down => RunsWithin(FALSE) \cap atFirst \cap there \subseteq graph.nodes
    <3>1. CASE Up
      <4>1. Up = TRUE /\ ~ask.down
        BY <1>6, <3>1 DEF Up
      <4>2. RunsWithin(TRUE) \cap atFirst \cap there \subseteq graph.nodes
        BY <1>3, <4>1
      <4> QED
        BY <4>1, <4>2
    <3>2. CASE ~Up
      <4>1. Up = FALSE /\ phase = "down"
        BY <1>1, <3>2 DEF Up, RoundIsOver, Tracing
      <4>2. RunsWithin(FALSE) \cap atFirst \cap there \subseteq graph.nodes
        BY <1>3, <4>1
      <4> QED
        BY <4>1, <4>2 DEF Outcome
    <3> QED
      BY <3>1, <3>2
  <2>6. Outcome'
    BY <1>4, <2>1, <2>4, <2>5 DEF Outcome
  <2> QED
    BY <2>2, <2>6
<1> QED
  BY <1>5, <1>6

\* What a trace found is right whichever step is taken.
LEMMA TracedStep ==
    ASSUME LineageAssumption, Drawing, Traced, Outcome, [LineageNext]_lineageVars
    PROVE  Traced' /\ Outcome'
<1>1. LineageFact /\ depth \in Nat /\ Up \in BOOLEAN
  BY LineageFacts DEF Drawing, LineageTypeOK, Up
<1>2. Drawing'
  BY DrawingStep
<1>3. graph'.nodes \subseteq DataNode \cup RunNode
  BY <1>2 DEF Drawing, LineageTypeOK
<1>4. CASE UNCHANGED lineageVars
  <2>1. /\ UNCHANGED <<arrows, atFirst, there, ask, phase, depth, layer, next, runs, fetch, graph>>
        /\ atFirst \cap there' \subseteq there
    BY <1>4 DEF lineageVars, server, walk
  <2>2. CASE Tracing
    <3>1. InRound
      BY <2>1, <2>2, <1>3 DEF InRound, Traced
    <3> QED
      BY <3>1, RoundKeeps
  <2>3. CASE ~Tracing
    <3>1. Traced'
      BY <2>1, <2>3 DEF Traced, Tracing
    <3>2. Outcome'
      BY <2>1, SameAsked DEF Outcome
    <3> QED
      BY <3>1, <3>2
  <2> QED
    BY <2>2, <2>3
<1>5. CASE ServerMoves
  <2>1. /\ UNCHANGED <<arrows, atFirst, ask, phase, depth, layer, next, runs, fetch, graph>>
        /\ atFirst \cap there' \subseteq there
    BY <1>5 DEF ServerMoves, walk
  <2>2. CASE Tracing
    <3>1. InRound
      BY <2>1, <2>2, <1>3 DEF InRound, Traced
    <3> QED
      BY <3>1, RoundKeeps
  <2>3. CASE ~Tracing
    <3>1. Traced'
      BY <2>1, <2>3 DEF Traced, Tracing
    <3>2. Outcome'
      BY <2>1, SameAsked DEF Outcome
    <3> QED
      BY <3>1, <3>2
  <2> QED
    BY <2>2, <2>3
<1>6. CASE Error
  <2>1. phase' = "error" /\ UNCHANGED <<arrows, atFirst, there, ask, graph>>
    BY <1>6 DEF Error, server
  <2>2. Traced'
    BY <2>1 DEF Traced, Tracing
  <2>3. Outcome'
    BY <2>1, SameAsked DEF Outcome
  <2> QED
    BY <2>2, <2>3
<1>7. ASSUME NEW d \in DataNode, VisitIs(d) PROVE InRound
  <2>1. /\ UNCHANGED <<arrows, atFirst, there, ask, phase, depth, next>> /\ Tracing
        /\ d \in layer /\ layer' = layer \ {d} /\ runs = {} /\ runs' = RunsTold(d)
        /\ Exists(d) \/ InGraph(d)
    BY <1>7 DEF VisitIs, server
  <2>2. graph'.nodes = graph.nodes \/ graph'.nodes = graph.nodes \cup {d}
    <3>1. CASE InGraph(d) /\ UNCHANGED <<graph, said>>
      BY <3>1
    <3>2. CASE ~InGraph(d) /\ Exists(d) /\ Get(d)
      BY <1>7, <3>2, GetKeeps DEF VisitIs
    <3> QED
      BY <1>7, <3>1, <3>2 DEF VisitIs
  <2>3. /\ RunsTold(d) \subseteq RunsOf(Up, d)
        /\ \A r \in RunsOf(Up, d) : Needed(r) => r \in RunsTold(d)
    BY <2>1, ToldOfData DEF Needed
  <2>4. /\ RunsOf(Up, d)' = RunsOf(Up, d)
        /\ \A r : Needed(r)' => Needed(r)
    BY <2>1, SameDirection
  <2>5. Served(d)'
    BY <2>1, <2>3, <2>4 DEF Served
  <2>6. d \in Reach(depth) /\ next \subseteq Reach(depth + 1)
    BY <2>1 DEF Traced
  <2>7. d \notin RunNode
    BY <1>1 DEF LineageFact
  <2> QED
    BY <1>3, <2>1, <2>2, <2>3, <2>5, <2>6, <2>7 DEF InRound
<1>8. ASSUME NEW d \in DataNode, FetchIs(d) PROVE InRound
  <2>1. UNCHANGED <<arrows, atFirst, there, ask, phase, depth, layer, next, runs>> /\ Tracing
    BY <1>8 DEF FetchIs, server
  <2>2. graph'.nodes = graph.nodes \/ graph'.nodes = graph.nodes \cup {d}
    <3>1. CASE InGraph(d) /\ UNCHANGED <<graph, said>>
      BY <3>1
    <3>2. CASE ~InGraph(d) /\ Exists(d) /\ Get(d)
      BY <1>8, <3>2, GetKeeps DEF FetchIs
    <3> QED
      BY <1>8, <3>1, <3>2 DEF FetchIs
  <2>3. d \notin RunNode
    BY <1>1 DEF LineageFact
  <2> QED
    BY <1>3, <2>1, <2>2, <2>3 DEF InRound, Traced
<1>9. ASSUME NEW r \in RunNode, VisitRunIs(r) PROVE InRound
  <2>1. /\ UNCHANGED <<arrows, atFirst, there, ask, phase, depth, layer>> /\ Tracing
        /\ r \in runs /\ runs' = runs \ {r}
    BY <1>9 DEF VisitRunIs, server
  <2>2. CASE InGraph(r) /\ UNCHANGED <<graph, said, next, fetch>>
    BY <1>3, <2>1, <2>2 DEF InRound, Traced, InGraph
  <2>3. CASE /\ ~InGraph(r) /\ r \in there /\ Get(r)
             /\ fetch' = Taken(r) \cup Made(r) /\ next' = next \cup Onward(Up, r)
    <3>1. graph'.nodes = graph.nodes \cup {r}
      BY <1>9, <2>3, GetKeeps DEF VisitRunIs, Exists
    <3>2. PICK d \in Reach(depth) : r \in RunsOf(Up, d)
      BY <2>1 DEF Traced
    <3>3. Onward(Up, r) \subseteq Reach(depth + 1)
      BY <1>1, <3>2, ReachIs
    <3> QED
      BY <1>3, <2>1, <2>3, <3>1, <3>3 DEF InRound, Traced
  <2> QED
    BY <1>9, <2>2, <2>3 DEF VisitRunIs
<1>10. CASE NextLayer
  BY <1>10, NextRound, DirectionOver
<1> QED
  BY <1>4, <1>5, <1>6, <1>7, <1>8, <1>9, <1>10, StepsAre, RoundKeeps

\* An arrow of a run is drawn once its ends are there, and what was asked for is found.
LEMMA TraceIsRight ==
    ASSUME LineageAssumption, Drawing, Traced, Outcome
    PROVE  FindsWhatIsAsked /\ EveryArrowOnce
<1>1. LineageFact
  BY LineageFacts DEF Drawing, LineageTypeOK
<1>2. FindsWhatIsAsked
  <2> SUFFICES ASSUME phase = "printed"
               PROVE  /\ graph.nodes \cap RunNode \subseteq AskedRuns
                      /\ AskedRuns \cap atFirst \cap there \subseteq graph.nodes
                      /\ \A r \in graph.nodes \cap RunNode : Taken(r) \cup Made(r) \subseteq graph.nodes
    BY DEF FindsWhatIsAsked
  <2>1. AskedRuns \cap atFirst \cap there \subseteq graph.nodes
    BY DEF Outcome, AskedRuns
  <2>2. \A r \in graph.nodes \cap RunNode : Taken(r) \cup Made(r) \subseteq graph.nodes
    BY DEF Outcome, Drawing, FetchOK
  <2> QED
    BY <2>1, <2>2 DEF Outcome
<1>3. ASSUME NEW a \in arrows
      PROVE  /\ graph.edges[a] > 0 => graph.edges[a] = 1 /\ {a.from, a.to} \subseteq graph.nodes
             /\ {a.from, a.to} \subseteq graph.nodes /\ {a.from, a.to} \cap RunNode \subseteq atFirst
                => graph.edges[a] = 1
  <2>1. /\ graph.edges[a] = 0 \/ graph.edges[a] = 1
        /\ graph.edges[a] = 1 => {a.from, a.to} \subseteq graph.nodes
    BY DEF Drawing, DrawnOK, Sound
  <2>2. PICK d \in DataNode, r \in RunNode : {a.from, a.to} = {d, r}
    BY <1>1 DEF LineageFact
  <2>3. InGraph(r) /\ InGraph(d) /\ r \in atFirst => graph.edges[a] = 1
    BY <2>2 DEF Drawing, DrawnOK
  <2> QED
    BY <2>1, <2>2, <2>3 DEF InGraph
<1>4. EveryArrowOnce
  BY <1>3 DEF EveryArrowOnce
<1> QED
  BY <1>2, <1>4

LEMMA LineageIsRight ==
    ASSUME LineageAssumption
    PROVE  LineageBehavior => [](FindsWhatIsAsked /\ EveryArrowOnce)
<1> DEFINE Inv == Drawing /\ Traced /\ Outcome
<1>1. LineageInit => Inv
  BY DrawingInit, TracedInit
<1>2. Inv /\ [LineageNext]_lineageVars => Inv'
  <2>1. SUFFICES ASSUME Inv, [LineageNext]_lineageVars PROVE Inv'
    OBVIOUS
  <2>2. Drawing'
    BY <2>1, DrawingStep
  <2>3. Traced' /\ Outcome'
    BY <2>1, TracedStep
  <2> QED
    BY <2>2, <2>3
<1>3. Inv => FindsWhatIsAsked /\ EveryArrowOnce
  BY TraceIsRight
<1> HIDE DEF Inv
<1> QED
  BY <1>1, <1>2, <1>3, PTL DEF LineageBehavior

-----------------------------------------------------------------------------
(* Pipelines *)

Rising == stage = "up"
Drawn(p) == p \in planGraph.nodes

PlanGraphTypeOK ==
    /\ feeds \in Pipelines /\ registered \subseteq PlanNode /\ atStart \subseteq registered
    /\ wanted \in [root : atStart, up : BOOLEAN, down : BOOLEAN, number : Depths] /\ (wanted.up \/ wanted.down)
    /\ planGraph.nodes \subseteq PlanNode /\ toldOf \in [PlanNode -> SUBSET feeds]
    /\ stage \in {"start", "up", "down", "printed"} /\ left \in Nat \cup {Infinity}
    /\ leaves \cup grown \subseteq planGraph.nodes
    /\ IF stage = "start" THEN planGraph.nodes = {} /\ grown = {} ELSE wanted.root \in planGraph.nodes

\* Of plans that were there from the first, one waits for the other, or an arrow is drawn.
FeedsOK ==
    /\ Sound(planGraph, feeds)
    /\ \A a \in feeds : \A p, q \in atStart : {a.from, a.to} = {p, q} /\ Drawn(p) =>
           IF Drawn(q) THEN planGraph.edges[a] = 1 ELSE Thunk(a, q) \in planGraph.thunks
    /\ \A p \in planGraph.nodes :
           /\ \A a \in toldOf[p] : p \in {a.from, a.to}
           /\ \A a \in feeds : p \in {a.from, a.to} /\ {a.from, a.to} \subseteq atStart => a \in toldOf[p]

Growing == PlanGraphTypeOK /\ FeedsOK

\* Plans within n steps, of some of the plans, in this direction.
PlansWithin(plans, n) == Within(Steps(Rising, plans), wanted.root)[n]

\* After k rounds the plans that were there from the first are found, as far as k steps.
AfterRounds(k) ==
    /\ (left = Infinity /\ wanted.number = Infinity) \/ (left \in Nat /\ left + k = wanted.number)
    /\ PlansWithin(atStart, k) \subseteq planGraph.nodes \ grown
    /\ leaves \subseteq PlansWithin(PlanNode, k) /\ grown \subseteq PlansWithin(PlanNode, k + 1)

\* Plans of this direction are gone on from or are yet to be; those that were found
\* going up come before the root.
Traversed ==
    stage \in {"up", "down"} =>
        /\ IF Rising THEN wanted.up ELSE wanted.down
        /\ \E k \in Nat : AfterRounds(k)
        /\ \A p \in planGraph.nodes :
               Rising \/ Rank[p] >= Rank[wanted.root] => p \in leaves \cup grown \/ Neighbours(p) \subseteq planGraph.nodes
        /\ Rising => \A p \in planGraph.nodes : p = wanted.root \/ Rank[p] < Rank[wanted.root]

AskedOf(up, plans) == Asked(Steps(up, plans), wanted.root, wanted.number)

\* What was found, of the directions that are done.
Harvest ==
    /\ planGraph.nodes \subseteq AskedPlans(PlanNode)
    /\ stage = "start" => left = wanted.number
    /\ wanted.up /\ stage \in {"down", "printed"} => AskedOf(TRUE, atStart) \subseteq planGraph.nodes
    /\ wanted.down /\ stage = "printed" => AskedOf(FALSE, atStart) \subseteq planGraph.nodes

FeedFact ==
    /\ \A a \in feeds : a.from \in PlanNode /\ a.to \in PlanNode /\ Rank[a.from] < Rank[a.to] /\ a.from # a.to
    /\ \A p \in PlanNode : Rank[p] \in Nat

LEMMA FeedFacts == ASSUME PlanGraphAssumption, feeds \in Pipelines PROVE FeedFact
<1>1. /\ \A a \in feeds : a.from \in PlanNode /\ a.to \in PlanNode /\ Rank[a.from] < Rank[a.to]
      /\ \A p \in PlanNode : Rank[p] \in Nat
  BY DEF PlanGraphAssumption
<1>2. \A a \in feeds : a.from # a.to
  BY <1>1
<1> QED
  BY <1>1, <1>2 DEF FeedFact

LEMMA StepsOf ==
    ASSUME FeedFact, NEW up \in BOOLEAN, NEW plans \in SUBSET PlanNode
    PROVE  /\ Steps(up, plans) \in [PlanNode -> SUBSET PlanNode]
           /\ \A p, q \in PlanNode :
                  q \in Steps(up, plans)[p] <=>
                      /\ p \in plans /\ q \in plans
                      /\ \E a \in feeds : IF up THEN a.from = q /\ a.to = p ELSE a.from = p /\ a.to = q
           /\ \A p \in PlanNode : \A q \in Steps(up, plans)[p] : IF up THEN Rank[q] < Rank[p] ELSE Rank[p] < Rank[q]
<1>1. Steps(up, plans) \in [PlanNode -> SUBSET PlanNode]
  BY DEF Steps
<1>2. ASSUME NEW p \in PlanNode, NEW q \in PlanNode
      PROVE  q \in Steps(up, plans)[p] <=>
                 /\ p \in plans /\ q \in plans
                 /\ \E a \in feeds : IF up THEN a.from = q /\ a.to = p ELSE a.from = p /\ a.to = q
  <2>1. \A a : {a.from, a.to} = {p, q} /\ (IF up THEN a.to ELSE a.from) = p
               <=> IF up THEN a.from = q /\ a.to = p ELSE a.from = p /\ a.to = q
    OBVIOUS
  <2> QED
    BY <2>1 DEF Steps
<1>3. ASSUME NEW p \in PlanNode, NEW q \in Steps(up, plans)[p]
      PROVE  IF up THEN Rank[q] < Rank[p] ELSE Rank[p] < Rank[q]
  <2>1. q \in PlanNode
    BY <1>1
  <2> QED
    BY <1>2, <2>1 DEF FeedFact
<1> QED
  BY <1>1, <1>2, <1>3

\* What the server told of a plan: all that was there from the first, and no more than
\* there ever is.
LEMMA NeighboursAre ==
    ASSUME PlanGraphAssumption, Growing, NEW p \in planGraph.nodes, stage \in {"up", "down"}
    PROVE  Neighbours(p) \subseteq Steps(Rising, PlanNode)[p] /\ Steps(Rising, atStart)[p] \subseteq Neighbours(p)
<1>1. FeedFact /\ Rising \in BOOLEAN /\ p \in PlanNode /\ atStart \in SUBSET PlanNode
  BY FeedFacts DEF Growing, PlanGraphTypeOK, Rising
<1>2. toldOf[p] \subseteq feeds
  BY <1>1 DEF Growing, PlanGraphTypeOK
<1>3. \A q : q \in Neighbours(p) <=> \E a \in toldOf[p] : IF Rising THEN a.from = q /\ a.to = p ELSE a.from = p /\ a.to = q
  BY DEF Neighbours, Rising
<1>4. ASSUME NEW q \in Neighbours(p) PROVE q \in Steps(Rising, PlanNode)[p]
  <2>1. q \in PlanNode
    BY <1>1, <1>2, <1>3 DEF FeedFact
  <2> QED
    BY <1>1, <1>2, <1>3, <2>1, StepsOf
<1>5. ASSUME NEW q \in Steps(Rising, atStart)[p] PROVE q \in Neighbours(p)
  <2>1. q \in PlanNode
    BY <1>1, StepsOf
  <2>2. /\ p \in atStart /\ q \in atStart
        /\ \E a \in feeds : IF Rising THEN a.from = q /\ a.to = p ELSE a.from = p /\ a.to = q
    BY <1>1, <2>1, StepsOf
  <2>3. \A a \in feeds : p \in {a.from, a.to} /\ {a.from, a.to} \subseteq atStart => a \in toldOf[p]
    BY DEF Growing, FeedsOK
  <2> QED
    BY <1>3, <2>2, <2>3
<1> QED
  BY <1>4, <1>5

\* A plan that is new to the graph comes with its arrows.
LEMMA GetPlanKeeps ==
    ASSUME PlanGraphAssumption, Growing, NEW n \in PlanNode, ~Drawn(n), GetPlan(n), UNCHANGED planServer
    PROVE  /\ planGraph'.nodes = planGraph.nodes \cup {n} /\ FeedsOK'
           /\ toldOf' \in [PlanNode -> SUBSET feeds]
           /\ \A p \in planGraph.nodes : toldOf'[p] = toldOf[p]
<1>1. feeds' = feeds /\ atStart' = atStart /\ registered' = registered
  BY DEF planServer
<1>2. FeedFact
  BY FeedFacts DEF Growing, PlanGraphTypeOK
<1>3. /\ Stated(n) \in SUBSET feeds /\ (\A a \in Stated(n) : n \in {a.from, a.to})
      /\ \A a \in feeds : n \in {a.from, a.to} /\ {a.from, a.to} \subseteq atStart => a \in Stated(n)
  BY DEF Stated, Growing, PlanGraphTypeOK
<1>4. /\ planGraph' = AddNode(planGraph, n, Stated(n))
      /\ \A p \in PlanNode : toldOf'[p] = IF p = n THEN Stated(n) ELSE toldOf[p]
      /\ toldOf' \in [PlanNode -> SUBSET feeds]
  BY <1>3 DEF GetPlan, Growing, PlanGraphTypeOK
<1>5. Grown(planGraph, planGraph', feeds, n, Stated(n))
  <2>1. \A a \in feeds : a.from # a.to
    BY <1>2 DEF FeedFact
  <2> QED
    BY <1>3, <1>4, <2>1, AddNodeIs DEF Growing, FeedsOK, Drawn
<1>6. \A m : m \in planGraph'.nodes <=> Drawn(m) \/ m = n
  BY <1>5 DEF Grown, Drawn
<1>7. ASSUME NEW a \in feeds, NEW p \in atStart, NEW q \in atStart, {a.from, a.to} = {p, q}, p \in planGraph'.nodes
      PROVE  IF q \in planGraph'.nodes THEN planGraph'.edges[a] = 1 ELSE Thunk(a, q) \in planGraph'.thunks
  <2>1. /\ planGraph.edges[a] = 1 \/ Thunk(a, n) \in planGraph.thunks => planGraph'.edges[a] = 1
        /\ \A m : Thunk(a, m) \in planGraph.thunks /\ m # n => Thunk(a, m) \in planGraph'.thunks
        /\ a \in Stated(n) /\ ~Drawn(OtherEnd(a, n)) => Thunk(a, OtherEnd(a, n)) \in planGraph'.thunks
    BY <1>5 DEF Grown, Drawn, Thunk
  <2>2. /\ Drawn(p) => IF Drawn(q) THEN planGraph.edges[a] = 1 ELSE Thunk(a, q) \in planGraph.thunks
        /\ Drawn(q) => IF Drawn(p) THEN planGraph.edges[a] = 1 ELSE Thunk(a, p) \in planGraph.thunks
    <3>1. {a.from, a.to} = {q, p}
      BY <1>7
    <3> QED
      BY <1>7, <3>1 DEF Growing, FeedsOK
  <2>3. p # q
    BY <1>2, <1>7 DEF FeedFact
  <2>4. CASE p # n /\ q # n
    BY <1>6, <1>7, <2>1, <2>2, <2>4
  <2>5. CASE q = n
    <3>1. Drawn(p)
      BY <1>6, <1>7, <2>3, <2>5
    <3> QED
      BY <1>6, <2>1, <2>2, <2>5, <3>1
  <2>6. CASE p = n
    <3>1. a \in Stated(n) /\ OtherEnd(a, n) = q
      <4>1. n \in {a.from, a.to} /\ {a.from, a.to} \subseteq atStart
        BY <1>7, <2>6
      <4>2. OtherEnd(a, n) = q
        BY <1>7, <2>3, <2>6 DEF OtherEnd
      <4> QED
        BY <1>3, <4>1, <4>2
    <3> QED
      BY <1>6, <2>1, <2>2, <2>3, <2>6, <3>1
  <2> QED
    BY <2>4, <2>5, <2>6
<1>8. ASSUME NEW p \in planGraph'.nodes
      PROVE  /\ \A a \in toldOf'[p] : p \in {a.from, a.to}
             /\ \A a \in feeds : p \in {a.from, a.to} /\ {a.from, a.to} \subseteq atStart => a \in toldOf'[p]
  <2>1. CASE p = n
    BY <1>3, <1>4, <2>1
  <2>2. CASE p # n
    <3>1. p \in planGraph.nodes /\ p \in PlanNode
      BY <1>6, <2>2 DEF Drawn, Growing, PlanGraphTypeOK
    <3> QED
      BY <1>4, <2>2, <3>1 DEF Growing, FeedsOK
  <2> QED
    BY <2>1, <2>2
<1>9. Sound(planGraph', feeds')
  BY <1>1, <1>5 DEF Grown
<1>10. FeedsOK'
  BY <1>1, <1>7, <1>8, <1>9 DEF FeedsOK, Drawn
<1>11. \A p \in planGraph.nodes : toldOf'[p] = toldOf[p]
  BY <1>4 DEF Drawn, Growing, PlanGraphTypeOK
<1> QED
  BY <1>4, <1>5, <1>10, <1>11 DEF Grown

LEMMA GrowingInit == ASSUME PlanGraphAssumption, PlanGraphInit PROVE Growing
<1>1. Sound(planGraph, feeds) /\ planGraph.nodes = {}
  BY EmptyIsSound DEF PlanGraphInit
<1>2. FeedsOK
  BY <1>1 DEF FeedsOK, Drawn
<1>3. wanted.number \in Nat \cup {Infinity}
  BY DEF PlanGraphInit, PlanGraphAssumption, DepthAssumption
<1>4. PlanGraphTypeOK
  BY <1>1, <1>3 DEF PlanGraphInit, PlanGraphTypeOK
<1> QED
  BY <1>2, <1>4 DEF Growing

\* What is drawn is sound whichever step is taken.
LEMMA GrowingStep == ASSUME PlanGraphAssumption, Growing, [PlanGraphNext]_planGraphVars PROVE Growing'
<1>1. wanted.number \in Nat \cup {Infinity} /\ wanted.root \in PlanNode
  BY DEF Growing, PlanGraphTypeOK, PlanGraphAssumption, DepthAssumption
<1>2. CASE UNCHANGED planGraphVars
  BY <1>2 DEF planGraphVars, planServer, planWalk, Growing, FeedsOK, Drawn, PlanGraphTypeOK
<1>3. ASSUME NEW p \in PlanNode, NewPlan(p) PROVE Growing'
  <2>1. UNCHANGED <<feeds, atStart, wanted, planWalk>> /\ registered' = registered \cup {p}
    BY <1>3 DEF NewPlan
  <2>2. FeedsOK'
    BY <2>1 DEF planWalk, Growing, FeedsOK, Drawn
  <2>3. PlanGraphTypeOK'
    BY <2>1 DEF planWalk, Growing, PlanGraphTypeOK
  <2> QED
    BY <2>2, <2>3 DEF Growing
<1>4. CASE Round
  <2>1. UNCHANGED <<planServer, planGraph, toldOf>> /\ grown' = {} /\ stage \in {"up", "down"}
    BY <1>4 DEF Round
  <2>2. /\ stage' \in {"up", "down", "printed"} /\ leaves' \subseteq planGraph.nodes
        /\ left' \in Nat \cup {Infinity}
    <3>1. CASE Goes /\ grown # {}
      <4>1. leaves' = grown /\ left' = (IF left = Infinity THEN left ELSE left - 1) /\ stage' = stage
        BY <1>4, <3>1 DEF Round
      <4>2. left' \in Nat \cup {Infinity}
        BY <3>1, <4>1 DEF Goes, Growing, PlanGraphTypeOK
      <4> QED
        BY <2>1, <4>1, <4>2 DEF Growing, PlanGraphTypeOK
    <3>2. CASE ~(Goes /\ grown # {}) /\ stage = "up" /\ wanted.down
      <4>1. stage' = "down" /\ leaves' = {wanted.root} /\ left' = wanted.number
        BY <1>4, <3>2 DEF Round
      <4> QED
        BY <1>1, <3>2, <4>1 DEF Growing, PlanGraphTypeOK
    <3>3. CASE ~(Goes /\ grown # {}) /\ ~(stage = "up" /\ wanted.down)
      <4>1. stage' = "printed" /\ UNCHANGED <<leaves, left>>
        BY <1>4, <3>3 DEF Round
      <4> QED
        BY <4>1 DEF Growing, PlanGraphTypeOK
    <3> QED
      BY <3>1, <3>2, <3>3
  <2>3. FeedsOK'
    BY <2>1 DEF planServer, Growing, FeedsOK, Drawn
  <2>4. PlanGraphTypeOK'
    BY <2>1, <2>2 DEF planServer, Growing, PlanGraphTypeOK
  <2> QED
    BY <2>3, <2>4 DEF Growing
<1>5. CASE MakeGraph
  <2>1. /\ UNCHANGED <<planServer, left, grown>> /\ GetPlan(wanted.root) /\ leaves' = {wanted.root}
        /\ stage = "start" /\ stage' \in {"up", "down"}
    BY <1>5 DEF MakeGraph
  <2>2. planGraph.nodes = {} /\ grown = {} /\ ~Drawn(wanted.root)
    BY <2>1 DEF Growing, PlanGraphTypeOK, Drawn
  <2>3. planGraph'.nodes = {wanted.root} /\ FeedsOK' /\ toldOf' \in [PlanNode -> SUBSET feeds]
    <3>1. planGraph'.nodes = planGraph.nodes \cup {wanted.root} /\ FeedsOK' /\ toldOf' \in [PlanNode -> SUBSET feeds]
      BY <1>1, <2>1, <2>2, GetPlanKeeps
    <3> QED
      BY <2>2, <3>1
  <2>4. PlanGraphTypeOK'
    BY <1>1, <2>1, <2>2, <2>3 DEF planServer, Growing, PlanGraphTypeOK
  <2> QED
    BY <2>3, <2>4 DEF Growing
<1>6. ASSUME NEW p \in PlanNode, Grow(p) PROVE Growing'
  <2>1. /\ UNCHANGED <<planServer, stage, left, leaves>> /\ ~Drawn(p) /\ GetPlan(p) /\ grown' = grown \cup {p}
        /\ stage \in {"up", "down"}
    BY <1>6 DEF Grow, Drawn
  <2>2. planGraph'.nodes = planGraph.nodes \cup {p} /\ FeedsOK' /\ toldOf' \in [PlanNode -> SUBSET feeds]
    BY <2>1, GetPlanKeeps
  <2>3. PlanGraphTypeOK'
    BY <2>1, <2>2 DEF planServer, Growing, PlanGraphTypeOK
  <2> QED
    BY <2>2, <2>3 DEF Growing
<1> QED
  BY <1>2, <1>3, <1>4, <1>5, <1>6 DEF PlanGraphNext, MakesGraph

LEMMA PlansWithinAre ==
    ASSUME PlanGraphAssumption, Growing, NEW plans \in SUBSET PlanNode
    PROVE  /\ PlansWithin(plans, 0) = {wanted.root}
           /\ \A n \in Nat : PlansWithin(plans, n) \subseteq PlanNode
           /\ \A n \in Nat : \A q : q \in PlansWithin(plans, n + 1) <=>
                  q \in PlansWithin(plans, n) \/ \E p \in PlansWithin(plans, n) : q \in Steps(Rising, plans)[p]
           /\ \A n \in Nat : \A p \in PlansWithin(plans, n) : Rising \/ Rank[p] >= Rank[wanted.root]
           /\ \A n \in Nat : wanted.number = Infinity \/ n <= wanted.number =>
                  PlansWithin(plans, n) \subseteq AskedOf(Rising, plans)
           /\ \A n \in Nat : n = wanted.number => AskedOf(Rising, plans) = PlansWithin(plans, n)
           /\ \A s \in SUBSET PlanNode :
                  wanted.root \in s /\ (\A p \in s : Steps(Rising, plans)[p] \subseteq s) => AskedOf(Rising, plans) \subseteq s
<1> DEFINE steps == Steps(Rising, plans)
           root == wanted.root
<1>1. FeedFact /\ Rising \in BOOLEAN /\ root \in PlanNode
  BY FeedFacts DEF Growing, PlanGraphTypeOK, Rising
<1>2. Infinity \notin Nat /\ wanted.number \in Nat \cup {Infinity}
  BY DEF Growing, PlanGraphTypeOK, PlanGraphAssumption, DepthAssumption
<1>3. /\ steps \in [PlanNode -> SUBSET PlanNode]
      /\ \A p \in PlanNode : \A q \in steps[p] : Rising \/ Rank[p] < Rank[q]
  BY <1>1, StepsOf
<1>4. /\ \A n : PlansWithin(plans, n) = Within(steps, root)[n]
      /\ AskedOf(Rising, plans) = Asked(steps, root, wanted.number)
  BY DEF PlansWithin, AskedOf
<1> HIDE DEF steps, root
<1>5. Unrolled(Within(steps, root), steps, PlanNode, root)
  BY <1>1, <1>3, WithinIs
<1>6. \A n \in Nat : \A q : q \in Within(steps, root)[n + 1] <=>
          q \in Within(steps, root)[n] \/ \E p \in Within(steps, root)[n] : q \in steps[p]
  BY <1>5 DEF Unrolled
<1>7. \A n \in Nat : \A p \in Within(steps, root)[n] : Rising \/ Rank[p] >= Rank[root]
  <2> DEFINE s == {p \in PlanNode : Rising \/ Rank[p] >= Rank[root]}
  <2>1. \A p \in PlanNode : Rank[p] \in Nat
    BY <1>1 DEF FeedFact
  <2>2. root \in s
    BY <1>1, <2>1
  <2>3. ASSUME NEW p \in s, NEW q \in steps[p] PROVE q \in s
    <3>1. q \in PlanNode /\ (Rising \/ Rank[p] < Rank[q])
      BY <1>3, <2>3
    <3>2. Rank[p] \in Nat /\ Rank[q] \in Nat /\ Rank[root] \in Nat
      BY <1>1, <2>1, <2>3, <3>1
    <3> QED
      BY <2>3, <3>1, <3>2
  <2>4. Encloses(s, steps, root)
    <3> HIDE DEF s
    <3> QED
      BY <2>2, <2>3 DEF Encloses
  <2> HIDE DEF s
  <2>5. \A n \in Nat : Within(steps, root)[n] \subseteq s
    BY <1>1, <1>3, <2>4, WithinStays
  <2> QED
    BY <2>5 DEF s
<1>8. /\ \A m \in Nat : wanted.number = Infinity \/ m <= wanted.number =>
             Within(steps, root)[m] \subseteq Asked(steps, root, wanted.number)
      /\ \A s \in SUBSET PlanNode : Encloses(s, steps, root) => Asked(steps, root, wanted.number) \subseteq s
  BY <1>1, <1>2, <1>3, AskedIs
<1>9. \A n \in Nat : n = wanted.number => Asked(steps, root, wanted.number) = Within(steps, root)[n]
  BY <1>2 DEF Asked
<1>10. \A s : Encloses(s, steps, root) <=> root \in s /\ \A p \in s : steps[p] \subseteq s
  BY DEF Encloses
<1>11. Within(steps, root)[0] = {root} /\ \A n \in Nat : Within(steps, root)[n] \subseteq PlanNode
  BY <1>5 DEF Unrolled
<1>12. \A n \in Nat : \A q : q \in PlansWithin(plans, n + 1) <=>
           q \in PlansWithin(plans, n) \/ \E p \in PlansWithin(plans, n) : q \in steps[p]
  BY <1>4, <1>6
<1>13. \A n \in Nat : \A p \in PlansWithin(plans, n) : Rising \/ Rank[p] >= Rank[root]
  BY <1>4, <1>7
<1>14. /\ \A n \in Nat : wanted.number = Infinity \/ n <= wanted.number =>
              PlansWithin(plans, n) \subseteq AskedOf(Rising, plans)
       /\ \A n \in Nat : n = wanted.number => AskedOf(Rising, plans) = PlansWithin(plans, n)
  BY <1>4, <1>8, <1>9
<1>15. \A s \in SUBSET PlanNode : root \in s /\ (\A p \in s : steps[p] \subseteq s) => AskedOf(Rising, plans) \subseteq s
  BY <1>4, <1>8, <1>10
<1>16. PlansWithin(plans, 0) = {root} /\ \A n \in Nat : PlansWithin(plans, n) \subseteq PlanNode
  BY <1>4, <1>11
<1> QED
  BY <1>12, <1>13, <1>14, <1>15, <1>16 DEF steps, root

\* What is asked for stays what it is, and what is within some steps as long as the
\* direction is the same.
LEMMA SamePipeline ==
    ASSUME UNCHANGED <<feeds, atStart, wanted>>
    PROVE  /\ AskedPlans(PlanNode)' = AskedPlans(PlanNode)
           /\ AskedOf(TRUE, atStart)' = AskedOf(TRUE, atStart) /\ AskedOf(FALSE, atStart)' = AskedOf(FALSE, atStart)
           /\ stage' = stage => /\ Rising' = Rising
                                /\ \A n : /\ PlansWithin(atStart, n)' = PlansWithin(atStart, n)
                                          /\ PlansWithin(PlanNode, n)' = PlansWithin(PlanNode, n)
<1>1. AskedPlans(PlanNode)' = AskedPlans(PlanNode)
  BY DEF AskedPlans, Steps
<1>2. AskedOf(TRUE, atStart)' = AskedOf(TRUE, atStart) /\ AskedOf(FALSE, atStart)' = AskedOf(FALSE, atStart)
  BY DEF AskedOf, Steps
<1>3. ASSUME stage' = stage, NEW n
      PROVE  /\ PlansWithin(atStart, n)' = PlansWithin(atStart, n)
             /\ PlansWithin(PlanNode, n)' = PlansWithin(PlanNode, n)
  BY <1>3 DEF PlansWithin, Steps, Rising
<1>4. stage' = stage => Rising' = Rising
  BY DEF Rising
<1> QED
  BY <1>1, <1>2, <1>3, <1>4

LEMMA AskedPlansAre ==
    ASSUME PlanGraphAssumption, Growing
    PROVE  /\ \A plans : wanted.root \in AskedPlans(plans)
           /\ \A plans : (IF Rising THEN wanted.up ELSE wanted.down) => AskedOf(Rising, plans) \subseteq AskedPlans(plans)
           /\ \A plans, s : /\ wanted.root \in s /\ (wanted.up => AskedOf(TRUE, plans) \subseteq s)
                            /\ wanted.down => AskedOf(FALSE, plans) \subseteq s
                            => AskedPlans(plans) \subseteq s
<1>1. \A plans : AskedPlans(plans) =
          {wanted.root} \cup UNION {AskedOf(up, plans) : up \in {u \in BOOLEAN : IF u THEN wanted.up ELSE wanted.down}}
  BY DEF AskedPlans, AskedOf
<1>2. Rising \in BOOLEAN
  BY DEF Rising
<1>3. \A plans : \A up \in BOOLEAN : (IF up THEN wanted.up ELSE wanted.down) => AskedOf(up, plans) \subseteq AskedPlans(plans)
  BY <1>1
<1>4. \A plans : wanted.root \in AskedPlans(plans)
  BY <1>1
<1>5. \A plans : \A p \in AskedPlans(plans) :
          p = wanted.root \/ \E up \in BOOLEAN : (IF up THEN wanted.up ELSE wanted.down) /\ p \in AskedOf(up, plans)
  BY <1>1
<1>6. ASSUME NEW plans, NEW s, wanted.root \in s, wanted.up => AskedOf(TRUE, plans) \subseteq s,
             wanted.down => AskedOf(FALSE, plans) \subseteq s, NEW p \in AskedPlans(plans)
      PROVE  p \in s
  <2>1. CASE p = wanted.root
    BY <1>6, <2>1
  <2>2. ASSUME NEW up \in BOOLEAN, IF up THEN wanted.up ELSE wanted.down, p \in AskedOf(up, plans) PROVE p \in s
    <3>1. CASE up = TRUE
      BY <1>6, <2>2, <3>1
    <3>2. CASE up = FALSE
      BY <1>6, <2>2, <3>2
    <3> QED
      BY <3>1, <3>2
  <2> QED
    BY <1>5, <2>1, <2>2
<1> QED
  BY <1>2, <1>3, <1>4, <1>6

\* A direction begins with the root alone: what is in the graph goes the other way.
LEMMA DirectionBegins ==
    ASSUME PlanGraphAssumption, Growing, UNCHANGED <<feeds, atStart, wanted>>, NEW up \in BOOLEAN,
           stage' = IF up THEN "up" ELSE "down", IF up THEN wanted.up ELSE wanted.down,
           left' = wanted.number, leaves' = {wanted.root}, grown' = {}, wanted.root \in planGraph'.nodes,
           \A p \in planGraph'.nodes : p = wanted.root \/ (~up /\ Rank[p] < Rank[wanted.root]),
           planGraph'.nodes \subseteq PlanNode
    PROVE  Traversed'
<1>1. FeedFact /\ wanted.root \in PlanNode /\ atStart \in SUBSET PlanNode /\ PlanNode \in SUBSET PlanNode
  BY FeedFacts DEF Growing, PlanGraphTypeOK
<1>2. Rising' = up
  BY DEF Rising
<1>3. ASSUME NEW plans \in SUBSET PlanNode
      PROVE  Within(Steps(up, plans), wanted.root)[0] = {wanted.root}
  <2> DEFINE steps == Steps(up, plans)
  <2>1. steps \in [PlanNode -> SUBSET PlanNode]
    BY <1>1, StepsOf
  <2> HIDE DEF steps
  <2>2. Unrolled(Within(steps, wanted.root), steps, PlanNode, wanted.root)
    BY <1>1, <2>1, WithinIs
  <2> QED
    BY <2>2 DEF Unrolled, steps
<1>4. /\ PlansWithin(atStart, 0)' = Within(Steps(up, atStart), wanted.root)[0]
      /\ PlansWithin(PlanNode, 0)' = Within(Steps(up, PlanNode), wanted.root)[0]
  BY <1>2 DEF PlansWithin, Steps
<1>5. PlansWithin(atStart, 0)' = {wanted.root} /\ PlansWithin(PlanNode, 0)' = {wanted.root}
  BY <1>1, <1>3, <1>4
<1>6. (left' = Infinity /\ wanted'.number = Infinity) \/ (left' \in Nat /\ left' + 0 = wanted'.number)
  <2>1. wanted.number \in Nat \cup {Infinity} /\ wanted' = wanted
    BY DEF Growing, PlanGraphTypeOK, PlanGraphAssumption, DepthAssumption
  <2> QED
    BY <2>1
<1>7. AfterRounds(0)'
  BY <1>5, <1>6 DEF AfterRounds
<1>8. \A p \in planGraph'.nodes : Rank[p] \in Nat /\ Rank[wanted.root] \in Nat
  BY <1>1 DEF FeedFact
<1>9. \A p \in planGraph'.nodes :
          up \/ Rank[p] >= Rank[wanted.root] => p \in leaves' \cup grown' \/ Neighbours(p)' \subseteq planGraph'.nodes
  BY <1>8
<1>10. \E k \in Nat : AfterRounds(k)'
  BY <1>7
<1> QED
  BY <1>2, <1>9, <1>10 DEF Traversed

\* A plan that a leaf led to is one step further, and asked for.
LEMMA GrowKeeps ==
    ASSUME PlanGraphAssumption, Growing, Traversed, Harvest, NEW p \in PlanNode, Grow(p)
    PROVE  Traversed' /\ Harvest'
<1>1. /\ UNCHANGED <<planServer, stage, left, leaves>> /\ stage \in {"up", "down"} /\ Goes
      /\ ~Drawn(p) /\ GetPlan(p) /\ grown' = grown \cup {p}
  BY DEF Grow, Drawn
<1>2. UNCHANGED <<feeds, atStart, wanted>>
  BY <1>1 DEF planServer
<1>3. PICK leaf \in leaves : p \in Neighbours(leaf)
  BY DEF Grow
<1>4. leaf \in planGraph.nodes /\ leaf \in PlanNode /\ atStart \in SUBSET PlanNode /\ PlanNode \in SUBSET PlanNode
  BY DEF Growing, PlanGraphTypeOK
<1>5. p \in Steps(Rising, PlanNode)[leaf]
  BY <1>1, <1>3, <1>4, NeighboursAre
<1>6. /\ planGraph'.nodes = planGraph.nodes \cup {p} /\ \A q \in planGraph.nodes : toldOf'[q] = toldOf[q]
  BY <1>1, GetPlanKeeps
<1>7. /\ AskedPlans(PlanNode)' = AskedPlans(PlanNode)
      /\ AskedOf(TRUE, atStart)' = AskedOf(TRUE, atStart) /\ AskedOf(FALSE, atStart)' = AskedOf(FALSE, atStart)
      /\ Rising' = Rising
      /\ \A n : /\ PlansWithin(atStart, n)' = PlansWithin(atStart, n)
                /\ PlansWithin(PlanNode, n)' = PlansWithin(PlanNode, n)
  BY <1>1, <1>2, SamePipeline
<1>8. PICK k \in Nat : AfterRounds(k)
  BY <1>1 DEF Traversed
<1>9. p \in PlansWithin(PlanNode, k + 1)
  <2>1. leaf \in PlansWithin(PlanNode, k)
    BY <1>8 DEF AfterRounds
  <2> QED
    BY <1>4, <1>5, <2>1, PlansWithinAre
<1>10. p \in AskedPlans(PlanNode)
  <2>1. k + 1 \in Nat /\ (wanted.number = Infinity \/ k + 1 <= wanted.number)
    BY <1>1, <1>8 DEF AfterRounds, Goes, PlanGraphAssumption, DepthAssumption
  <2>2. p \in AskedOf(Rising, PlanNode)
    BY <1>4, <1>9, <2>1, PlansWithinAre
  <2>3. IF Rising THEN wanted.up ELSE wanted.down
    BY <1>1 DEF Traversed
  <2> QED
    BY <2>2, <2>3, AskedPlansAre
<1>11. AfterRounds(k)'
  BY <1>1, <1>2, <1>6, <1>7, <1>8, <1>9 DEF AfterRounds, Drawn
<1>12. \A q \in planGraph.nodes : Neighbours(q)' = Neighbours(q)
  BY <1>1, <1>6 DEF Neighbours
<1>13. \A q \in planGraph'.nodes :
           Rising \/ Rank[q] >= Rank[wanted.root] => q \in leaves' \cup grown' \/ Neighbours(q)' \subseteq planGraph'.nodes
  BY <1>1, <1>6, <1>12 DEF Traversed
<1>14. Rising => \A q \in planGraph'.nodes : q = wanted.root \/ Rank[q] < Rank[wanted.root]
  <2>1. FeedFact /\ Rising \in BOOLEAN /\ wanted.root \in PlanNode
    BY FeedFacts DEF Growing, PlanGraphTypeOK, Rising
  <2>2. Rising => Rank[p] < Rank[leaf] /\ (leaf = wanted.root \/ Rank[leaf] < Rank[wanted.root])
    BY <1>1, <1>4, <1>5, <2>1, StepsOf DEF Traversed
  <2>3. Rank[p] \in Nat /\ Rank[leaf] \in Nat /\ Rank[wanted.root] \in Nat
    BY <1>4, <2>1 DEF FeedFact
  <2>4. Rising => Rank[p] < Rank[wanted.root]
    BY <2>2, <2>3
  <2> QED
    BY <1>1, <1>6, <2>4 DEF Traversed
<1>15. \E n \in Nat : AfterRounds(n)'
  BY <1>11
<1>16. Traversed'
  BY <1>1, <1>2, <1>7, <1>13, <1>14, <1>15 DEF Traversed
<1>17. Harvest'
  BY <1>1, <1>2, <1>6, <1>7, <1>10 DEF Harvest
<1> QED
  BY <1>16, <1>17

\* When a round is over, what the plans of this direction lead to is in the graph.
LEMMA RoundGathers ==
    ASSUME PlanGraphAssumption, Growing, Traversed, stage \in {"up", "down"},
           \A leaf \in leaves : Neighbours(leaf) \subseteq planGraph.nodes,
           NEW p \in planGraph.nodes \ grown, Rising \/ Rank[p] >= Rank[wanted.root]
    PROVE  Neighbours(p) \subseteq planGraph.nodes /\ Steps(Rising, atStart)[p] \subseteq planGraph.nodes
<1>1. Neighbours(p) \subseteq planGraph.nodes
  BY DEF Traversed
<1> QED
  BY <1>1, NeighboursAre

LEMMA NextRoundOfPlans ==
    ASSUME PlanGraphAssumption, Growing, Traversed, Harvest, Round, Goes, grown # {}
    PROVE  Traversed' /\ Harvest'
<1>1. /\ UNCHANGED <<planServer, planGraph, toldOf, stage>> /\ stage \in {"up", "down"}
      /\ \A leaf \in leaves : Neighbours(leaf) \subseteq planGraph.nodes
      /\ grown' = {} /\ leaves' = grown /\ left' = (IF left = Infinity THEN left ELSE left - 1)
  BY DEF Round
<1>2. UNCHANGED <<feeds, atStart, wanted>>
  BY <1>1 DEF planServer
<1>3. /\ AskedPlans(PlanNode)' = AskedPlans(PlanNode)
      /\ AskedOf(TRUE, atStart)' = AskedOf(TRUE, atStart) /\ AskedOf(FALSE, atStart)' = AskedOf(FALSE, atStart)
      /\ Rising' = Rising
      /\ \A n : /\ PlansWithin(atStart, n)' = PlansWithin(atStart, n)
                /\ PlansWithin(PlanNode, n)' = PlansWithin(PlanNode, n)
  BY <1>1, <1>2, SamePipeline
<1>4. PICK k \in Nat : AfterRounds(k)
  BY <1>1 DEF Traversed
<1>5. Infinity \notin Nat /\ atStart \in SUBSET PlanNode /\ PlanNode \in SUBSET PlanNode
  BY DEF PlanGraphAssumption, DepthAssumption, Growing, PlanGraphTypeOK
<1>6. (left' = Infinity /\ wanted'.number = Infinity) \/ (left' \in Nat /\ left' + (k + 1) = wanted'.number)
  BY <1>1, <1>2, <1>4, <1>5 DEF AfterRounds, Goes
<1>7. PlansWithin(atStart, k + 1) \subseteq planGraph.nodes
  <2> SUFFICES ASSUME NEW q \in PlansWithin(atStart, k + 1) PROVE q \in planGraph.nodes
    OBVIOUS
  <2>1. CASE q \in PlansWithin(atStart, k)
    BY <1>4, <2>1 DEF AfterRounds
  <2>2. ASSUME NEW p \in PlansWithin(atStart, k), q \in Steps(Rising, atStart)[p] PROVE q \in planGraph.nodes
    <3>1. p \in planGraph.nodes \ grown
      BY <1>4 DEF AfterRounds
    <3>2. Rising \/ Rank[p] >= Rank[wanted.root]
      BY <1>5, PlansWithinAre
    <3> QED
      BY <1>1, <2>2, <3>1, <3>2, RoundGathers
  <2> QED
    BY <1>5, <2>1, <2>2, PlansWithinAre
<1>8. AfterRounds(k + 1)'
  BY <1>1, <1>3, <1>4, <1>6, <1>7 DEF AfterRounds
<1>9. \A q : Neighbours(q)' = Neighbours(q)
  BY <1>1 DEF Neighbours
<1>10. \A q \in planGraph'.nodes :
           Rising \/ Rank[q] >= Rank[wanted.root] => q \in leaves' \cup grown' \/ Neighbours(q)' \subseteq planGraph'.nodes
  BY <1>1, <1>9 DEF Traversed
<1>11. \E n \in Nat : AfterRounds(n)'
  <2>1. k + 1 \in Nat
    OBVIOUS
  <2> QED
    BY <1>8, <2>1
<1>12. Traversed'
  BY <1>1, <1>2, <1>3, <1>10, <1>11 DEF Traversed
<1>13. Harvest'
  BY <1>1, <1>2, <1>3 DEF Harvest
<1> QED
  BY <1>12, <1>13

\* A direction is over when as many rounds are done as were asked for, or when no plans
\* are left to go on from.
LEMMA DirectionGathered ==
    ASSUME PlanGraphAssumption, Growing, Traversed, Round, ~(Goes /\ grown # {})
    PROVE  AskedOf(Rising, atStart) \subseteq planGraph.nodes
<1>1. stage \in {"up", "down"} /\ atStart \in SUBSET PlanNode
  BY DEF Round, Growing, PlanGraphTypeOK
<1>2. PICK k \in Nat : AfterRounds(k)
  BY <1>1 DEF Traversed
<1>3. CASE ~Goes
  <2>1. k = wanted.number
    BY <1>2, <1>3 DEF AfterRounds, Goes
  <2>2. AskedOf(Rising, atStart) = PlansWithin(atStart, k)
    BY <1>1, <2>1, PlansWithinAre
  <2> QED
    BY <1>2, <2>2 DEF AfterRounds
<1>4. CASE Goes /\ grown = {}
  <2> DEFINE s == {p \in planGraph.nodes : Rising \/ Rank[p] >= Rank[wanted.root]}
  <2>1. FeedFact /\ Rising \in BOOLEAN /\ planGraph.nodes \subseteq PlanNode /\ wanted.root \in planGraph.nodes
    BY <1>1, FeedFacts DEF Growing, PlanGraphTypeOK, Rising
  <2>2. wanted.root \in s /\ s \in SUBSET PlanNode
    BY <2>1 DEF FeedFact
  <2>3. ASSUME NEW p \in s, NEW q \in Steps(Rising, atStart)[p] PROVE q \in s
    <3>1. \A leaf \in leaves : Neighbours(leaf) \subseteq planGraph.nodes
      BY <1>4 DEF Round
    <3>2. q \in planGraph.nodes
      BY <1>1, <1>4, <2>3, <3>1, RoundGathers
    <3>3. Rising \/ Rank[p] < Rank[q]
      BY <1>1, <2>1, <2>3, StepsOf
    <3>4. Rank[p] \in Nat /\ Rank[q] \in Nat /\ Rank[wanted.root] \in Nat
      BY <2>1, <2>3, <3>2 DEF FeedFact
    <3> QED
      BY <2>3, <3>2, <3>3, <3>4
  <2>4. \A p \in s : Steps(Rising, atStart)[p] \subseteq s
    <3> HIDE DEF s
    <3> QED
      BY <2>3
  <2>5. AskedOf(Rising, atStart) \subseteq s
    <3> HIDE DEF s
    <3> QED
      BY <1>1, <2>2, <2>4, PlansWithinAre
  <2> QED
    BY <2>5
<1> QED
  BY <1>3, <1>4

\* Then it goes the other way, or prints.
LEMMA DirectionEnds ==
    ASSUME PlanGraphAssumption, Growing, Traversed, Harvest, Round, ~(Goes /\ grown # {})
    PROVE  Traversed' /\ Harvest'
<1>1. /\ UNCHANGED <<planServer, planGraph, toldOf>> /\ stage \in {"up", "down"} /\ grown' = {}
      /\ IF Rising /\ wanted.down
         THEN stage' = "down" /\ leaves' = {wanted.root} /\ left' = wanted.number
         ELSE stage' = "printed"
  BY DEF Round, Rising
<1>2. UNCHANGED <<feeds, atStart, wanted>>
  BY <1>1 DEF planServer
<1>3. /\ AskedPlans(PlanNode)' = AskedPlans(PlanNode)
      /\ AskedOf(TRUE, atStart)' = AskedOf(TRUE, atStart) /\ AskedOf(FALSE, atStart)' = AskedOf(FALSE, atStart)
  BY <1>2, SamePipeline
<1>4. AskedOf(Rising, atStart) \subseteq planGraph.nodes
  BY DirectionGathered
<1>5. CASE Rising /\ wanted.down
  <2>1. Rising = TRUE /\ stage' = "down" /\ leaves' = {wanted.root} /\ left' = wanted.number
    BY <1>1, <1>5 DEF Rising
  <2>2. \A p \in planGraph.nodes : p = wanted.root \/ Rank[p] < Rank[wanted.root]
    BY <1>1, <2>1 DEF Traversed
  <2>3. planGraph.nodes \subseteq PlanNode /\ wanted.root \in planGraph.nodes
    BY <1>1 DEF Growing, PlanGraphTypeOK
  <2>4. Traversed'
    <3>1. stage' = IF FALSE THEN "up" ELSE "down"
      BY <2>1
    <3>2. IF FALSE THEN wanted.up ELSE wanted.down
      BY <1>5
    <3>3. /\ wanted.root \in planGraph'.nodes /\ planGraph'.nodes \subseteq PlanNode
          /\ \A p \in planGraph'.nodes : p = wanted.root \/ (~FALSE /\ Rank[p] < Rank[wanted.root])
      BY <1>1, <2>2, <2>3
    <3> QED
      BY <1>1, <1>2, <2>1, <3>1, <3>2, <3>3, DirectionBegins
  <2>5. AskedOf(TRUE, atStart) \subseteq planGraph.nodes
    BY <1>4, <2>1
  <2>6. Harvest'
    BY <1>1, <1>2, <1>3, <2>1, <2>5 DEF Harvest
  <2> QED
    BY <2>4, <2>6
<1>6. CASE ~(Rising /\ wanted.down)
  <2>1. stage' = "printed" /\ planGraph' = planGraph /\ wanted' = wanted
    BY <1>1, <1>2, <1>6
  <2>2. Traversed'
    BY <2>1 DEF Traversed
  <2>3. /\ wanted.up => AskedOf(TRUE, atStart) \subseteq planGraph.nodes
        /\ wanted.down => AskedOf(FALSE, atStart) \subseteq planGraph.nodes
    <3>1. CASE Rising
      <4>1. Rising = TRUE /\ ~wanted.down
        BY <1>6, <3>1 DEF Rising
      <4>2. AskedOf(TRUE, atStart) \subseteq planGraph.nodes
        BY <1>4, <4>1
      <4> QED
        BY <4>1, <4>2
    <3>2. CASE ~Rising
      <4>1. Rising = FALSE /\ stage = "down"
        BY <1>1, <3>2 DEF Rising
      <4>2. AskedOf(FALSE, atStart) \subseteq planGraph.nodes
        BY <1>4, <4>1
      <4> QED
        BY <4>1, <4>2 DEF Harvest
    <3> QED
      BY <3>1, <3>2
  <2>4. Harvest'
    BY <1>3, <2>1, <2>3 DEF Harvest
  <2> QED
    BY <2>2, <2>4
<1> QED
  BY <1>5, <1>6

LEMMA MakeGraphKeeps ==
    ASSUME PlanGraphAssumption, Growing, Harvest, MakeGraph
    PROVE  Traversed' /\ Harvest'
<1>1. /\ UNCHANGED <<planServer, left, grown>> /\ GetPlan(wanted.root) /\ leaves' = {wanted.root}
      /\ stage = "start" /\ stage' = IF wanted.up THEN "up" ELSE "down"
  BY DEF MakeGraph
<1>2. /\ planGraph.nodes = {} /\ grown' = {} /\ left' = wanted.number /\ wanted.root \in PlanNode
      /\ wanted.up \in BOOLEAN /\ (wanted.up \/ wanted.down)
  BY <1>1 DEF Growing, PlanGraphTypeOK, Harvest
<1>3. planGraph'.nodes = {wanted.root}
  <2>1. planGraph'.nodes = planGraph.nodes \cup {wanted.root}
    BY <1>1, <1>2, GetPlanKeeps DEF Drawn
  <2> QED
    BY <1>2, <2>1
<1>4. UNCHANGED <<feeds, atStart, wanted>>
  BY <1>1 DEF planServer
<1>5. Traversed'
  <2>1. stage' = (IF wanted.up THEN "up" ELSE "down") /\ IF wanted.up THEN wanted.up ELSE wanted.down
    BY <1>1, <1>2
  <2>2. /\ wanted.root \in planGraph'.nodes /\ planGraph'.nodes \subseteq PlanNode
        /\ \A p \in planGraph'.nodes : p = wanted.root \/ (~wanted.up /\ Rank[p] < Rank[wanted.root])
    BY <1>2, <1>3
  <2> QED
    BY <1>1, <1>2, <1>4, <2>1, <2>2, DirectionBegins
<1>6. AskedPlans(PlanNode)' = AskedPlans(PlanNode) /\ wanted.root \in AskedPlans(PlanNode)
  BY <1>4, SamePipeline, AskedPlansAre
<1>7. Harvest'
  BY <1>1, <1>2, <1>3, <1>4, <1>6 DEF Harvest
<1> QED
  BY <1>5, <1>7

\* What a traversal found is right whichever step is taken.
LEMMA TraversedStep ==
    ASSUME PlanGraphAssumption, Growing, Traversed, Harvest, [PlanGraphNext]_planGraphVars
    PROVE  Traversed' /\ Harvest'
<1>1. ASSUME UNCHANGED <<feeds, atStart, wanted, planWalk>> PROVE Traversed' /\ Harvest'
  <2>1. UNCHANGED <<feeds, atStart, wanted, planGraph, toldOf, stage, left, leaves, grown>>
    BY <1>1 DEF planWalk
  <2>2. /\ AskedPlans(PlanNode)' = AskedPlans(PlanNode)
        /\ AskedOf(TRUE, atStart)' = AskedOf(TRUE, atStart) /\ AskedOf(FALSE, atStart)' = AskedOf(FALSE, atStart)
        /\ Rising' = Rising
        /\ \A n : /\ PlansWithin(atStart, n)' = PlansWithin(atStart, n)
                  /\ PlansWithin(PlanNode, n)' = PlansWithin(PlanNode, n)
    BY <2>1, SamePipeline
  <2>3. \A k : AfterRounds(k)' = AfterRounds(k)
    BY <2>1, <2>2 DEF AfterRounds
  <2>4. \A p : Neighbours(p)' = Neighbours(p)
    BY <2>1 DEF Neighbours
  <2>5. Traversed'
    BY <2>1, <2>2, <2>3, <2>4 DEF Traversed
  <2>6. Harvest'
    BY <2>1, <2>2 DEF Harvest
  <2> QED
    BY <2>5, <2>6
<1>2. CASE UNCHANGED planGraphVars
  BY <1>1, <1>2 DEF planGraphVars, planServer
<1>3. ASSUME NEW p \in PlanNode, NewPlan(p) PROVE Traversed' /\ Harvest'
  BY <1>1, <1>3 DEF NewPlan
<1>4. CASE MakeGraph
  BY <1>4, MakeGraphKeeps
<1>5. CASE Round
  BY <1>5, NextRoundOfPlans, DirectionEnds
<1>6. ASSUME NEW p \in PlanNode, Grow(p) PROVE Traversed' /\ Harvest'
  BY <1>6, GrowKeeps
<1> QED
  BY <1>2, <1>3, <1>4, <1>5, <1>6 DEF PlanGraphNext, MakesGraph

LEMMA TraversalIsRight ==
    ASSUME PlanGraphAssumption, Growing, Traversed, Harvest
    PROVE  FindsPlansAsked /\ EveryFeedOnce
<1>1. FindsPlansAsked
  <2> SUFFICES ASSUME stage = "printed" PROVE AskedPlans(atStart) \subseteq planGraph.nodes
    BY DEF FindsPlansAsked, Harvest
  <2>1. wanted.root \in planGraph.nodes
    BY DEF Growing, PlanGraphTypeOK
  <2>2. /\ wanted.up => AskedOf(TRUE, atStart) \subseteq planGraph.nodes
        /\ wanted.down => AskedOf(FALSE, atStart) \subseteq planGraph.nodes
    BY DEF Harvest
  <2> QED
    BY <2>1, <2>2, AskedPlansAre
<1>2. ASSUME NEW a \in feeds
      PROVE  /\ planGraph.edges[a] > 0 => planGraph.edges[a] = 1 /\ {a.from, a.to} \subseteq planGraph.nodes
             /\ {a.from, a.to} \subseteq planGraph.nodes /\ {a.from, a.to} \subseteq atStart
                => planGraph.edges[a] = 1
  <2>1. /\ planGraph.edges[a] = 0 \/ planGraph.edges[a] = 1
        /\ planGraph.edges[a] = 1 => {a.from, a.to} \subseteq planGraph.nodes
    BY DEF Growing, FeedsOK, Sound
  <2>2. {a.from, a.to} \subseteq planGraph.nodes /\ {a.from, a.to} \subseteq atStart => planGraph.edges[a] = 1
    BY DEF Growing, FeedsOK, Drawn
  <2> QED
    BY <2>1, <2>2
<1> QED
  BY <1>1, <1>2 DEF EveryFeedOnce

LEMMA PlanGraphIsRight ==
    ASSUME PlanGraphAssumption
    PROVE  PlanGraphBehavior => [](FindsPlansAsked /\ EveryFeedOnce)
<1> DEFINE Inv == Growing /\ Traversed /\ Harvest
<1>1. PlanGraphInit => Inv
  <2>1. SUFFICES ASSUME PlanGraphInit PROVE Inv
    OBVIOUS
  <2>2. Traversed /\ Harvest
    BY <2>1, EmptyIsSound DEF PlanGraphInit, Traversed, Harvest
  <2> QED
    BY <2>1, <2>2, GrowingInit
<1>2. Inv /\ [PlanGraphNext]_planGraphVars => Inv'
  <2>1. SUFFICES ASSUME Inv, [PlanGraphNext]_planGraphVars PROVE Inv'
    OBVIOUS
  <2>2. Growing'
    BY <2>1, GrowingStep
  <2>3. Traversed' /\ Harvest'
    BY <2>1, TraversedStep
  <2> QED
    BY <2>2, <2>3
<1>3. Inv => FindsPlansAsked /\ EveryFeedOnce
  BY TraversalIsRight
<1> HIDE DEF Inv
<1> QED
  BY <1>1, <1>2, <1>3, PTL DEF PlanGraphBehavior

-----------------------------------------------------------------------------
\* What is printed of a lineage or a pipeline is what was asked for, for all that stays
\* while it is traced, with each arrow once; whatever the history, the depth and the
\* order of the answers.
THEOREM DrawnCorrect ==
    ASSUME LineageAssumption, PlanGraphAssumption
    PROVE  DrawingsBehavior => []DrawnAsAsked
<1>1. LineageBehavior => [](FindsWhatIsAsked /\ EveryArrowOnce)
  BY LineageIsRight
<1>2. PlanGraphBehavior => [](FindsPlansAsked /\ EveryFeedOnce)
  BY PlanGraphIsRight
<1>3. FindsWhatIsAsked /\ EveryArrowOnce /\ FindsPlansAsked /\ EveryFeedOnce => DrawnAsAsked
  BY DEF DrawnAsAsked
<1> QED
  BY <1>1, <1>2, <1>3, PTL DEF DrawingsBehavior
=============================================================================
