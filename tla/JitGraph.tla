------------------------------ MODULE JitGraph ------------------------------
(***************************************************************************)
(* The graph of the JIT library that draws the network page of rfweb       *)
(* (rfweb/js/jit/jit.js): Graph, Graph.Util and the JSON loader.  A graph  *)
(* is a value [nodes, adj]: the ids in insertion order, and for every id   *)
(* the ids adjacent to it, in insertion order (the objects this.nodes and  *)
(* this.edges; a JavaScript object enumerates its keys in that order).     *)
(* A JSON graph is a sequence of [id, adjacencies]; a JSON tree is a       *)
(* record [id, children].                                                  *)
(***************************************************************************)
EXTENDS Integers, Sequences, SequencesExt, FiniteSets, FiniteSetsExt, Functions, TLC

(* Graph.empty *)
EmptyGraph == [nodes |-> <<>>, adj |-> <<>>]

Nodes(g) == DOMAIN g.adj

Edges(g) == {{m, n} : <<m, n>> \in {p \in Nodes(g) \X Nodes(g) : p[2] \in ToSet(g.adj[p[1]])}}

hasNode(g, id) == id \in Nodes(g)

addNode(g, id) ==
    IF hasNode(g, id) THEN g
    ELSE [nodes |-> Append(g.nodes, id), adj |-> g.adj @@ (id :> <<>>)]

(* One Adjacence object is entered under both ids. *)
addAdjacence(g, obj, obj2) ==
    LET h == addNode(addNode(g, obj), obj2)
        one == [h EXCEPT !.adj[obj] = Append(@, obj2)]
    IN  IF obj2 \in ToSet(h.adj[obj]) THEN h
        ELSE IF obj = obj2 THEN one
        ELSE [one EXCEPT !.adj[obj2] = Append(@, obj)]

Without(seq, id) == SelectSeq(seq, LAMBDA x : x # id)

removeNode(g, id) ==
    IF hasNode(g, id)
    THEN [nodes |-> Without(g.nodes, id),
          adj   |-> [n \in Nodes(g) \ {id} |-> Without(g.adj[n], id)]]
    ELSE g

removeAdjacence(g, id1, id2) ==
    [g EXCEPT !.adj[id1] = Without(@, id2), !.adj[id2] = Without(@, id1)]

-----------------------------------------------------------------------------
(* addAdjacence of every pair, in order, to a graph that has nodes. *)
RECURSIVE AddAdjacencies(_, _)
AddAdjacencies(g, pairs) ==
    IF Nodes(g) = {} \/ pairs = <<>> THEN g
    ELSE AddAdjacencies(addAdjacence(g, pairs[1][1], pairs[1][2]), Tail(pairs))

PairsFrom(id, tos) == [i \in DOMAIN tos |-> <<id, tos[i]>>]

(* Loader.construct: of a JSON graph, every node with its adjacencies, in   *)
(* the order of the JSON; of a JSON tree, parents before children.          *)
RECURSIVE ConstructRows(_, _)
ConstructRows(g, rows) ==
    IF rows = <<>> THEN g
    ELSE ConstructRows(AddAdjacencies(addNode(g, rows[1].id),
                                      PairsFrom(rows[1].id, rows[1].adjacencies)), Tail(rows))

ConstructGraph(json) == ConstructRows(EmptyGraph, json)

RECURSIVE ConstructTree(_, _)
ConstructTree(g, json) ==
    FoldLeft(LAMBDA h, ch : ConstructTree(addAdjacence(h, json.id, ch.id), ch),
             addNode(g, json.id), json.children)

-----------------------------------------------------------------------------
(* The JSON utilities.  A tree that is not found is the empty sequence.     *)
RECURSIVE prune(_, _)
prune(tree, maxLevel) ==
    [id |-> tree.id,
     children |-> IF maxLevel = 0 THEN <<>>
                  ELSE [i \in DOMAIN tree.children |-> prune(tree.children[i], maxLevel - 1)]]

RECURSIVE getSubtree(_, _)
getSubtree(tree, id) ==
    IF tree.id = id THEN <<tree>>
    ELSE FlattenSeq([i \in DOMAIN tree.children |-> getSubtree(tree.children[i], id)])

RECURSIVE getParent(_, _)
getParent(tree, id) ==
    FlattenSeq([i \in DOMAIN tree.children |->
        IF tree.children[i].id = id THEN <<tree>> ELSE getParent(tree.children[i], id)])

(* The adjacencies construct makes of a tree. *)
RECURSIVE PairsBelow(_)
PairsBelow(tree) ==
    FlattenSeq([i \in DOMAIN tree.children |->
        <<<<tree.id, tree.children[i].id>>>> \o PairsBelow(tree.children[i])])

-----------------------------------------------------------------------------
(* Graph.Util.computeLevels from the node id with startDepth 0.  The        *)
(* depths of the nodes in "ignored" (the flag "ignore") are left as they    *)
(* are in depth0, and no path runs through them.  The queue is the code's,  *)
(* head first; a node may be queued more than once.                         *)
RECURSIVE LevelsFrom(_, _, _, _, _)
LevelsFrom(g, ignored, queue, flagged, depth) ==
    IF queue = <<>> THEN depth
    ELSE LET node == Head(queue)
             seen == flagged \cup {node}
             next == SelectSeq(g.adj[node], LAMBDA n : n \notin seen \cup ignored)
         IN  LevelsFrom(g, ignored, Tail(queue) \o next, seen,
                        [n \in {m \in ToSet(next) : depth[m] < 0} |-> depth[node] + 1] @@ depth)

computeLevels(g, id, ignored, depth0) ==
    LevelsFrom(g, ignored, <<id>>, {},
               [n \in Nodes(g) |-> IF n = id THEN 0
                                   ELSE IF n \in ignored THEN depth0[n] ELSE -1])

(* Graph.Util.eachLevel between the relative levels begin and end: a node   *)
(* below two parents is met once for each path that descends to it.         *)
RECURSIVE LoopLevel(_, _, _, _, _)
LoopLevel(g, depth, list, begin, end) ==
    IF list = <<>> THEN <<>>
    ELSE LET node  == Head(list)
             d     == depth[node]
             below == SelectSeq(g.adj[node], LAMBDA n : depth[n] > d)
         IN  (IF d \in begin..end THEN <<node>> ELSE <<>>)
               \o (IF d < end THEN LoopLevel(g, depth, below, begin, end) ELSE <<>>)
               \o LoopLevel(g, depth, Tail(list), begin, end)

NoLimit == 100  \* Number.MAX_VALUE

eachLevel(g, depth, node, begin, end) ==
    LoopLevel(g, depth, <<node>>, depth[node] + begin, depth[node] + end)

eachSubgraph(g, depth, node) == eachLevel(g, depth, node, 0, NoLimit)

eachSubnode(g, depth, node) == eachLevel(g, depth, node, 1, 1)

(* The condition asked for is to be in S. *)
anySubnode(g, depth, node, S) == ToSet(eachSubnode(g, depth, node)) \cap S # {}

getParents(g, depth, node) == SelectSeq(g.adj[node], LAMBDA n : depth[n] < depth[node])

RECURSIVE isDescendantOf(_, _, _, _)
isDescendantOf(g, depth, node, id) ==
    node = id \/ \E p \in ToSet(getParents(g, depth, node)) : isDescendantOf(g, depth, p, id)

-----------------------------------------------------------------------------
(* Loader.toJSON.  The graph form lists an edge at the first of its two     *)
(* nodes, told by the parity of the "visited" marks, which start equal and  *)
(* are all flipped.                                                         *)
RECURSIVE toJSONTree(_, _, _)
toJSONTree(g, depth, node) ==
    LET sub == eachSubnode(g, depth, node)
    IN  [id |-> node, children |-> [i \in DOMAIN sub |-> toJSONTree(g, depth, sub[i])]]

toJSONGraph(g, visited, root) ==
    [i \in DOMAIN g.nodes |->
        LET flipped == ToSet(SubSeq(g.nodes, 1, i - 1))
            mark(n) == IF n \in flipped THEN ~visited[root] ELSE visited[n]
        IN  [id |-> g.nodes[i],
             adjacencies |-> SelectSeq(g.adj[g.nodes[i]], LAMBDA n : mark(n) = visited[root])]]
=============================================================================
