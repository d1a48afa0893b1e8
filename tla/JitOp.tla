------------------------------- MODULE JitOp --------------------------------
(***************************************************************************)
(* A JIT visualization and the operations on its graph (rfweb/js/jit/      *)
(* jit.js): Animation, Graph.Plot (prepare, animate, sequence, plot),      *)
(* Graph.Op (removeNode, removeEdge, sum, morph, contract, expand) and     *)
(* RGraph, the visualization of the network page.                          *)
(*                                                                         *)
(* The visualization is one record, viz.  Operations that are animated     *)
(* leave the rest of their work to the end of the animation, the record    *)
(* "animation", or to the ticks of an interval timer, "sequence".          *)
(*                                                                         *)
(* The caller keeps to what the operations are written for: it starts one  *)
(* when the last has ended, it expands the nodes it contracted before it   *)
(* changes or recentres the graph, and it contracts and expands with one   *)
(* type of animation.                                                      *)
(***************************************************************************)
EXTENDS JitRadial

CONSTANTS Graphs,     \* the JSON graphs given to loadJSON, sum and morph
          MaxOps      \* bound on the number of operations

VARIABLES viz, busy, animation, sequence, ctype, want, last, ops

vars == <<viz, busy, animation, sequence, ctype, want, last, ops>>

None == "none"

Unset == 2  \* no end value of alpha: getData falls back to the current one

Extend(f, S, value) == [n \in S |-> IF n \in DOMAIN f THEN f[n] ELSE value]

(* The visualization with another graph: a node keeps its attributes, a     *)
(* node that is new has those of Graph.Node.initialize.                     *)
WithGraph(v, g) ==
    [v EXCEPT !.graph    = g,
              !.depth    = Extend(@, Nodes(g), -1),
              !.dist     = Extend(@, Nodes(g), NoDist),
              !.visited  = Extend(@, Nodes(g), FALSE),
              !.alpha    = Extend(@, Nodes(g), 1),
              !.endAlpha = Extend(@, Nodes(g), Unset),
              !.pos      = Extend(@, Nodes(g), Origin),
              !.endPos   = Extend(@, Nodes(g), Origin),
              !.line     = Extend(@, Edges(g), 1),
              !.endLine  = Extend(@, Edges(g), Unset),
              !.ignored  = @ \cap Nodes(g),
              !.loose    = @ \cap Edges(g),
              !.collapsed = @ \cap Nodes(g)]

(* Radial.compute('end'), RGraph.reposition *)
AtEnd(v) == [v EXCEPT !.endPos = computePositions(v, @)]

AtOnce(v) == [v EXCEPT !.pos = computePositions(v, @)]

reposition(v) == AtEnd([v EXCEPT !.depth = Levels(v)])

(* Radial.compute() *)
compute(v) == AtOnce(reposition(v))

(* Graph.Plot.plot: an edge is drawn at the first of its nodes, told by the *)
(* parity of the "visited" marks, as in toJSON.                             *)
plot(v) ==
    LET rows == toJSONGraph(v.graph, v.visited, v.root)
    IN  [v EXCEPT !.drawn   = UNION {{{rows[i].id, n} : n \in ToSet(rows[i].adjacencies)}
                                     : i \in DOMAIN rows},
                  !.visited = [n \in DOMAIN @ |-> ~v.visited[v.root]]]

refresh(v) == plot(compute(v))

(* Loader.loadJSON of a graph: the root is the first node. *)
loadJSON(json) ==
    WithGraph([graph |-> EmptyGraph, root |-> json[1].id, parent |-> None, drawn |-> {},
               depth |-> <<>>, dist |-> <<>>, visited |-> <<>>, alpha |-> <<>>,
               endAlpha |-> <<>>, pos |-> <<>>, endPos |-> <<>>, line |-> <<>>,
               endLine |-> <<>>, ignored |-> {}, loose |-> {}, collapsed |-> {}],
              ConstructGraph(json))

(* Plot.animate: what the animation is to interpolate, and what onComplete  *)
(* does when it has ended, with the nodes, edges or modes it does it to.    *)
Complete(do, nodes, edges, modes) ==
    [do |-> do, nodes |-> nodes, edges |-> edges, modes |-> modes]

Nothing == Complete(None, <<>>, <<>>, {})

NoAnimation == [modes |-> {}, then |-> Nothing]

animate(modes, then) == animation' = [modes |-> modes, then |-> then]

NoSequence == [of |-> None, nodes |-> <<>>, edges |-> <<>>]

Idle == animation = NoAnimation /\ sequence = NoSequence

(* The caller: one operation at a time, MaxOps of them. *)
Calls(name) == Idle /\ ops < MaxOps /\ ops' = ops + 1 /\ last' = name

(* The levels are those of the graph: the caller has refreshed it after an  *)
(* operation of type "nothing".                                             *)
Computed == last[2] # "nothing"

(* Contracting and expanding does not count, and stops with the rest. *)
Folds(name) == Idle /\ ops < MaxOps /\ Computed /\ last' = <<name, ctype>> /\ UNCHANGED ops

Expanded == viz.ignored = {} /\ viz.collapsed = {}

WantedGraph(g) == [nodes |-> Nodes(g), edges |-> Edges(g)]


WithoutNodes(g, ids) == FoldLeft(removeNode, g, ids)

WithoutEdges(g, vs) == FoldLeft(LAMBDA h, e : removeAdjacence(h, e[1], e[2]), g, vs)

(* The caller refreshes the visualization (RGraph.refresh). *)
Refresh ==
    /\ Idle /\ ~Computed
    /\ viz' = refresh(viz) /\ last' = <<"refresh", None>>
    /\ UNCHANGED <<busy, animation, sequence, ctype, want, ops>>

-----------------------------------------------------------------------------
(* Op.removeNode, by type of animation. *)
removeNodeNow(ids, type) ==
    LET v == WithGraph(viz, WithoutNodes(viz.graph, ids))
    IN  /\ type \in {"nothing", "replot"}
        /\ viz' = IF type = "replot" THEN refresh(v) ELSE v
        /\ UNCHANGED <<animation, sequence>>


removeNodeFade(ids, type) ==
    LET v == [viz EXCEPT !.endAlpha = [n \in DOMAIN @ |-> IF n \in ToSet(ids) THEN 0 ELSE @[n]]]
    IN  /\ \/ /\ type = "fade:seq"
              /\ viz' = v
              /\ animate({"alpha"}, Complete("remove nodes, then move", ids, <<>>, {}))
           \/ /\ type = "fade:con"
              /\ viz' = reposition([v EXCEPT !.ignored = @ \cup ToSet(ids)])
              /\ animate({"alpha", "position"}, Complete("remove nodes", ids, <<>>, {}))
        /\ UNCHANGED sequence

removeNodeIter(ids, type) ==
    /\ type = "iter"
    /\ sequence' = [NoSequence EXCEPT !.of = "nodes", !.nodes = ids]
    /\ UNCHANGED <<viz, animation>>

OpRemoveNode(ids, type) ==
    /\ Calls(<<"removeNode", type>>) /\ Expanded
    /\ ToSet(ids) \subseteq Nodes(viz.graph) \ {viz.root}
    /\ \/ removeNodeNow(ids, type)
       \/ removeNodeFade(ids, type)
       \/ removeNodeIter(ids, type)
    /\ want' = [nodes |-> want.nodes \ ToSet(ids),
                edges |-> {e \in want.edges : e \cap ToSet(ids) = {}}]
    /\ UNCHANGED <<busy, ctype>>

-----------------------------------------------------------------------------
(* Op.removeEdge *)
removeEdgeNow(vs, type) ==
    LET v == WithGraph(viz, WithoutEdges(viz.graph, vs))
    IN  /\ type \in {"nothing", "replot"}
        /\ viz' = IF type = "replot" THEN refresh(v) ELSE v
        /\ UNCHANGED <<animation, sequence>>

removeEdgeFade(vs, type) ==
    LET es == {{vs[i][1], vs[i][2]} : i \in DOMAIN vs}
        v  == [viz EXCEPT !.endLine = [e \in DOMAIN @ |-> IF e \in es THEN 0 ELSE @[e]]]
    IN  /\ \/ /\ type = "fade:seq"
              /\ viz' = v
              /\ animate({"line"}, Complete("remove edges, then move", <<>>, vs, {}))
           \/ /\ type = "fade:con"
              /\ viz' = reposition([v EXCEPT !.loose = @ \cup es])
              /\ animate({"line", "position"}, Complete("remove edges", <<>>, vs, {}))
        /\ UNCHANGED sequence

removeEdgeIter(vs, type) ==
    /\ type = "iter"
    /\ sequence' = [NoSequence EXCEPT !.of = "edges", !.edges = vs]
    /\ UNCHANGED <<viz, animation>>

OpRemoveEdge(vs, type) ==
    /\ Calls(<<"removeEdge", type>>) /\ Expanded
    /\ \A i \in DOMAIN vs : {vs[i][1], vs[i][2]} \in Edges(viz.graph)
    /\ \/ removeEdgeNow(vs, type)
       \/ removeEdgeFade(vs, type)
       \/ removeEdgeIter(vs, type)
    /\ want' = [want EXCEPT !.edges = @ \ {{vs[i][1], vs[i][2]} : i \in DOMAIN vs}]
    /\ UNCHANGED <<busy, ctype>>

-----------------------------------------------------------------------------
(* addAdjacence of every adjacency of h, in its order: a node without edges *)
(* is not added.                                                            *)
MergeAdjacencies(g, h) ==
    AddAdjacencies(g, FlattenSeq([i \in DOMAIN h.nodes |-> PairsFrom(h.nodes[i], h.adj[h.nodes[i]])]))

(* Op.preprocessSum: new nodes and new edges are to fade in. *)
preprocessSum(v, h) ==
    LET g == MergeAdjacencies(FoldLeft(addNode, v.graph, h.nodes), h)
        u == WithGraph(v, g)
        newNodes == Nodes(g) \ Nodes(v.graph)
        newEdges == Edges(g) \ Edges(v.graph)
    IN  [u EXCEPT !.alpha    = [n \in DOMAIN @ |-> IF n \in newNodes THEN 0 ELSE @[n]],
                  !.endAlpha = [n \in DOMAIN @ |-> IF n \in newNodes THEN 1 ELSE @[n]],
                  !.line     = [e \in DOMAIN @ |-> IF e \in newEdges THEN 0 ELSE @[e]],
                  !.endLine  = [e \in DOMAIN @ |-> IF e \in newEdges THEN 1 ELSE @[e]]]

FadesEdges(v, h) == ~(Edges(h) \subseteq Edges(v.graph))

(* The nodes still at the origin start from where they are going. *)
FromOrigin(v, root) ==
    [v EXCEPT !.pos = [n \in DOMAIN @ |-> IF n # root /\ @[n] = Origin THEN v.endPos[n] ELSE @[n]]]

(* Op.sum; id is opt.id, a node the two graphs share. *)
sumNow(h, id, type) ==
    LET rooted == [viz EXCEPT !.root = id]
        Sum(v) == WithGraph(v, MergeAdjacencies(v.graph, h))
    IN  /\ type \in {"nothing", "replot"}
        /\ IF type = "replot" THEN \E v \in {refresh(rooted)} : viz' = refresh(Sum(v))
                              ELSE viz' = Sum(rooted)
        /\ UNCHANGED animation

sumFade(h, id, type) ==
    LET modes == {"alpha"} \cup IF FadesEdges(viz, h) THEN {"line"} ELSE {}
    IN  \E v \in {preprocessSum([viz EXCEPT !.root = id], h)} :
            \/ /\ type = "fade:seq"
               /\ viz' = reposition(v)
               /\ animate({"position"}, Complete("fade in", <<>>, <<>>, modes))
            \/ /\ type = "fade:con"
               /\ viz' = FromOrigin(reposition(v), viz.root)
               /\ animate({"position"} \cup modes, Nothing)

OpSum(json, id, type) ==
    LET h == ConstructGraph(json)
    IN  /\ Calls(<<"sum", type>>) /\ Expanded
        /\ id \in Nodes(h) \cap Nodes(viz.graph)
        /\ sumNow(h, id, type) \/ sumFade(h, id, type)
        /\ want' = [nodes |-> want.nodes \cup Nodes(h), edges |-> want.edges \cup Edges(h)]
        /\ UNCHANGED <<busy, sequence, ctype>>

(* Op.morph: with an animation the edges that go are only faded out, since  *)
(* nothing sets their flag "ignore".                                        *)
morphNow(h, id, type) ==
    LET merged == MergeAdjacencies(viz.graph, h)
        kept   == WithoutNodes([merged EXCEPT !.adj = [n \in DOMAIN @ |->
                      SelectSeq(@[n], LAMBDA m : {m, n} \in Edges(h))]],
                      SelectSeq(merged.nodes, LAMBDA n : ~hasNode(h, n)))
    IN  /\ type \in {"nothing", "replot"}
        /\ \E v \in {WithGraph([viz EXCEPT !.root = id], kept)} :
               IF type = "replot" THEN \E u \in {refresh(v)} : viz' = refresh(u)
                                  ELSE viz' = v
        /\ UNCHANGED animation

morphFade(h, id, type) ==
    LET gone == Nodes(viz.graph) \ Nodes(h)
        cut  == {e \in Edges(viz.graph) : e \subseteq Nodes(h)} \ Edges(h)
        v    == [viz EXCEPT !.root     = id,
                            !.ignored  = @ \cup gone,
                            !.alpha    = [n \in DOMAIN @ |-> IF n \in gone THEN 1 ELSE @[n]],
                            !.endAlpha = [n \in DOMAIN @ |-> IF n \in gone THEN 0 ELSE @[n]],
                            !.line     = [e \in DOMAIN @ |-> IF e \in cut THEN 1 ELSE @[e]],
                            !.endLine  = [e \in DOMAIN @ |-> IF e \in cut THEN 0 ELSE @[e]]]
    IN  /\ type = "fade:con"
        /\ \E u \in {preprocessSum(v, h)} : viz' = FromOrigin(reposition(u), viz.root)
        /\ animate({"position", "alpha", "line"}, Complete("remove ignored", <<>>, <<>>, {}))

OpMorph(json, id, type) ==
    LET h == ConstructGraph(json)
    IN  /\ Calls(<<"morph", type>>) /\ Expanded
        /\ id \in Nodes(h) \cap Nodes(viz.graph)
        /\ morphNow(h, id, type) \/ morphFade(h, id, type)
        /\ want' = WantedGraph(h)
        /\ UNCHANGED <<busy, sequence, ctype>>

-----------------------------------------------------------------------------
Below(v, node) == ToSet(eachSubgraph(v.graph, v.depth, node)) \ {node}

SetAlpha(v, S, value) ==
    IF ctype = "animate"
    THEN [v EXCEPT !.endAlpha = [n \in DOMAIN @ |-> IF n \in S THEN value ELSE @[n]]]
    ELSE [v EXCEPT !.alpha = [n \in DOMAIN @ |-> IF n \in S THEN value ELSE @[n]]]

GatherAt(v, node, below) ==
    [v EXCEPT !.endPos = [n \in DOMAIN @ |-> IF n \in below THEN @[node] ELSE @[n]]]

(* The end of contract, where the nodes "below" end where node is, and of   *)
(* expand, where there are none.                                            *)
Redraw(v, node, below) ==
    \/ /\ ctype = "animate"
       /\ viz' = GatherAt(reposition(v), node, below)
       /\ animate({"alpha", "position"}, Nothing)
    \/ /\ ctype = "replot"
       /\ viz' = refresh(v)
       /\ UNCHANGED animation

(* Op.contract of a node that can be seen. *)
OpContract(node) ==
    LET below == Below(viz, node)
        v     == SetAlpha([viz EXCEPT !.collapsed = @ \cup {node}, !.ignored = @ \cup below],
                          below, 0)
    IN  /\ Folds("contract")
        /\ node \in Nodes(viz.graph) \ (viz.ignored \cup viz.collapsed)
        /\ anySubnode(viz.graph, viz.depth, node, Nodes(viz.graph))
        /\ Redraw(v, node, below)
        /\ UNCHANGED <<busy, sequence, ctype, want>>

(* Mutant: only the children are shown again. *)
children_OpExpand(node) ==
    LET below == ToSet(eachSubnode(viz.graph, viz.depth, node))
        v     == SetAlpha([viz EXCEPT !.collapsed = @ \ {node}, !.ignored = @ \ below], below, 1)
    IN  /\ Folds("expand")
        /\ node \in viz.collapsed \ viz.ignored
        /\ Redraw(v, node, {})
        /\ UNCHANGED <<busy, sequence, ctype, want>>

(* Op.expand *)
OpExpand(node) ==
    LET below == Below(viz, node)
        v     == SetAlpha([viz EXCEPT !.collapsed = @ \ {node}, !.ignored = @ \ below], below, 1)
    IN  /\ Folds("expand")
        /\ node \in viz.collapsed \ viz.ignored
        /\ Redraw(v, node, {})
        /\ UNCHANGED <<busy, sequence, ctype, want>>

-----------------------------------------------------------------------------
(* RGraph.tagChildren: the neighbours of par are numbered from the one      *)
(* after id, in cyclic order.                                               *)
tagChildren(v, par, id) ==
    LET adjs == v.graph.adj[par]
        len  == Len(adjs)
        i    == CHOOSE k \in 1..len : adjs[k] = id
    IN  [v EXCEPT !.dist = [n \in DOMAIN @ |->
            IF n \in ToSet(adjs) \ {id}
            THEN ((CHOOSE k \in 1..len : adjs[k] = n) - i - 1 + len) % len
            ELSE @[n]]]

(* RGraph.onClick (with getNodeAndParentAngle) on a node that is reached    *)
(* from the root, so that it has a parent.  The turn of the whole picture   *)
(* by thetaDiff is left out.                                                *)
onClick(id) ==
    LET parent == getParents(viz.graph, viz.depth, id)[1]
        v      == tagChildren(viz, parent, id)
    IN  /\ Calls(<<"click", None>>) /\ Expanded /\ Computed
        /\ id \in Nodes(viz.graph) /\ viz.depth[id] > 0
        /\ viz.root # id /\ ~busy
        /\ busy' = TRUE
        /\ viz' = reposition([v EXCEPT !.root = id, !.parent = parent])
        /\ animate({"position"}, Complete("not busy", <<>>, <<>>, {}))
        /\ UNCHANGED <<sequence, ctype, want>>

-----------------------------------------------------------------------------
EndValue(f, end) == [x \in DOMAIN f |-> IF end[x] = Unset THEN f[x] ELSE end[x]]

(* The interpolators at delta = 1. *)
Interpolated(v, modes) ==
    [v EXCEPT !.pos   = IF "position" \in modes THEN v.endPos ELSE @,
              !.alpha = IF "alpha" \in modes THEN EndValue(@, v.endAlpha) ELSE @,
              !.line  = IF "line" \in modes THEN EndValue(@, v.endLine) ELSE @]

(* The frames drawn: any number during the animation, one at its end, one   *)
(* by complete().  What the next plot draws depends on their parity.        *)
Frames(v, odd) == IF odd THEN plot(plot(plot(v))) ELSE plot(plot(v))

(* Animation.step at the end of the duration: compute(1), then complete()   *)
(* of Plot.animate with the onComplete of the operation.                    *)
AnimationStep(odd) ==
    LET then == animation.then
        Removed(v) == WithGraph(v, WithoutEdges(WithoutNodes(v.graph, then.nodes), then.edges))
    IN  /\ animation # NoAnimation
        /\ \E v \in {Frames(Interpolated(viz, animation.modes), odd)} :
               \/ /\ then.do \in {None, "not busy"}
                  /\ viz' = v /\ animation' = NoAnimation
               \/ /\ then.do \in {"remove nodes", "remove edges"}
                  /\ viz' = Removed(v) /\ animation' = NoAnimation
               \/ /\ then.do \in {"remove nodes, then move", "remove edges, then move"}
                  /\ viz' = reposition(Removed(v))
                  /\ animate({"position"}, Nothing)
               \/ /\ then.do = "fade in"
                  /\ viz' = v /\ animate(then.modes, Nothing)
               \/ /\ then.do = "remove ignored"
                  /\ viz' = WithGraph(v, WithoutEdges(
                                WithoutNodes(v.graph, SetToSeq(v.ignored)),
                                SetToSeq({SetToSeq(e) : e \in v.loose})))
                  /\ animation' = NoAnimation
        /\ busy' = (busy /\ then.do # "not busy")
        /\ UNCHANGED <<sequence, ctype, want, last, ops>>

(* Plot.sequence: one element is removed at every tick of the interval. *)
SequenceTick ==
    /\ \/ /\ sequence.nodes # <<>>
          /\ sequence' = [sequence EXCEPT !.nodes = Tail(@)]
          /\ viz' = refresh(WithGraph(viz, removeNode(viz.graph, Head(sequence.nodes))))
       \/ /\ sequence.edges # <<>>
          /\ sequence' = [sequence EXCEPT !.edges = Tail(@)]
          /\ viz' = refresh(WithGraph(viz, WithoutEdges(viz.graph, <<Head(sequence.edges)>>)))
       \/ /\ sequence.of # None /\ sequence.nodes = <<>> /\ sequence.edges = <<>>
          /\ sequence' = NoSequence
          /\ viz' = refresh(viz)
    /\ UNCHANGED <<busy, animation, ctype, want, last, ops>>

-----------------------------------------------------------------------------
Init ==
    /\ \E json \in Graphs : /\ viz = refresh(loadJSON(json))
                            /\ want = WantedGraph(ConstructGraph(json))
    /\ ctype \in {"animate", "replot"}
    /\ busy = FALSE /\ animation = NoAnimation /\ sequence = NoSequence
    /\ last = <<"load", None>> /\ ops = 0

(* What the caller passes: two nodes or edges to "iter", one to the others. *)
SomeNodes(type) == {SetToSeq(S) : S \in kSubset(IF type = "iter" THEN 2 ELSE 1, Nodes(viz.graph))}

SomeEdges(type) ==
    {SetToSeq({SetToSeq(e) : e \in S}) : S \in kSubset(IF type = "iter" THEN 2 ELSE 1, Edges(viz.graph))}

Types == {"nothing", "replot", "fade:seq", "fade:con", "iter"}

Next ==
    \/ \E type \in Types : \/ \E ids \in SomeNodes(type) : OpRemoveNode(ids, type)
                           \/ \E vs \in SomeEdges(type) : OpRemoveEdge(vs, type)
                           \/ \E json \in Graphs : \E id \in {viz.root, json[1].id} :
                                 OpSum(json, id, type) \/ OpMorph(json, id, type)
    \/ \E n \in Nodes(viz.graph) : OpContract(n) \/ OpExpand(n) \/ onClick(n)
    \/ \E odd \in BOOLEAN : AnimationStep(odd)
    \/ SequenceTick
    \/ Refresh

Spec == Init /\ [][Next]_vars

-----------------------------------------------------------------------------
Reached(v) == {n \in Nodes(v.graph) \ v.ignored : v.depth[n] >= 0}

Replotted == Idle /\ Computed


(* When an operation has ended the nodes are where a layout of the graph    *)
(* that is left puts them, although compute ran before the nodes to remove  *)
(* were removed.  (removeEdge with "fade:con" is left out: eachLevel walks  *)
(* the edges that are to go.)                                               *)
LayoutCurrent ==
    Replotted /\ last # <<"removeEdge", "fade:con">>
        => LET fresh == compute(viz)
           IN  \A n \in Reached(viz) : viz.pos[n] = fresh.pos[n]

(* No two nodes of a level share an angle, also when a node has two parents *)
(* (computePositions skips the ones already placed).                        *)
SpansDisjoint ==
    Replotted =>
        \A m, n \in Reached(viz) :
            m # n /\ viz.pos[m].rho = viz.pos[n].rho
                => \/ AtMost(viz.pos[m].end, viz.pos[n].begin)
                   \/ AtMost(viz.pos[n].end, viz.pos[m].begin)

(* The last plot drew every edge, whatever the number of frames before it   *)
(* (the parity of "visited"), for the operations that plot at least twice.  *)
(* The first plot after nodes were added may leave out their edges, since   *)
(* their mark need not be that of the others: sum with "replot" plots once, *)
(* morph twice.                                                             *)
EdgesDrawn ==
    Idle /\ (last[2] \in {"fade:seq", "fade:con", "iter", "animate"} \/ last[1] = "click"
             \/ last = <<"morph", "replot">>)
        => Edges(viz.graph) \subseteq viz.drawn

(* The nodes that cannot be seen are those the layout ignores. *)
AlphaMatchesHidden ==
    Idle => \A n \in Nodes(viz.graph) : viz.alpha[n] = IF n \in viz.ignored THEN 0 ELSE 1

(* A node stays hidden only while a node above it is collapsed, over nested *)
(* contractions and expansions in any order.                                *)
HiddenBelowCollapsed ==
    Idle => \A n \in viz.ignored :
                \E c \in viz.collapsed \ {n} : isDescendantOf(viz.graph, viz.depth, n, c)

RECURSIVE Ball(_, _, _)
Ball(g, root, k) ==
    IF k = 0 THEN {root}
    ELSE LET b == Ball(g, root, k - 1) IN b \cup UNION {ToSet(g.adj[n]) : n \in b}

(* The depth computeLevels gives a node is its distance from the root among *)
(* the nodes that can be seen, and -1 if there is no way to it.             *)
LevelsAreDistances ==
    Replotted =>
        LET g == WithoutNodes(viz.graph, SetToSeq(viz.ignored))
            N == Cardinality(Nodes(g))
        IN  \A n \in Nodes(g) \ (IF last = <<"removeEdge", "fade:con">> THEN Nodes(g) ELSE {}) :
                LET near == {k \in 0..N : n \in Ball(g, viz.root, k)}
                IN  viz.depth[n] = IF near = {} THEN -1 ELSE Min(near)

(* Walking down from a node (eachSubgraph) and up from another              *)
(* (isDescendantOf) agree on who is below whom.                             *)
DescendantsAgree ==
    Replotted =>
        \A m, n \in Reached(viz) :
            m \in ToSet(eachSubgraph(viz.graph, viz.depth, n))
                <=> isDescendantOf(viz.graph, viz.depth, m, n)

(* The graph that toJSON writes is the graph construct reads back. *)
RoundTrip ==
    Replotted =>
        LET g == ConstructGraph(toJSONGraph(viz.graph, viz.visited, viz.root))
        IN  Nodes(g) = Nodes(viz.graph) /\ Edges(g) = Edges(viz.graph)

(* What can be seen follows the graph: the last plot drew every edge, a     *)
(* node is invisible exactly if the layout ignores it, and only while a     *)
(* node above it is collapsed, over any operations, contractions and        *)
(* expansions (plot, Op, contract, expand).                                 *)
SightMatchesGraph == EdgesDrawn /\ AlphaMatchesHidden /\ HiddenBelowCollapsed

=============================================================================
