----------------------------- MODULE JitRadial ------------------------------
(***************************************************************************)
(* Layouts.Radial of the JIT library (rfweb/js/jit/jit.js), the layout of  *)
(* the network page: every node is given a level (its distance from the    *)
(* centre, in levelDistance) and a span of angles inside that of the node  *)
(* above it.  An angle is a fraction <<n, d>> of the full circle; a node   *)
(* is drawn in the middle of its span.                                     *)
(*                                                                         *)
(* v is a visualization: its graph, the nodes and edges flagged "ignore",  *)
(* the depths, the root, the node "parent" whose children keep their order *)
(* and the order "dist" tagChildren gave them.                             *)
(***************************************************************************)
EXTENDS JitGraph, JitFraction

-----------------------------------------------------------------------------
NoDist == -1

(* The graph without its ignored edges (eachAdjacency with flags). *)
Kept(v) ==
    [v.graph EXCEPT !.adj = [n \in DOMAIN @ |->
        SelectSeq(@[n], LAMBDA m : {m, n} \notin v.loose)]]

(* setAngularWidthForNodes: 5 / depth, in twelfths; the root's is infinite  *)
(* and not used.                                                            *)
AngularWidth(depth) == 60 \div depth

Children(v, elem) ==
    SelectSeq(eachSubnode(v.graph, v.depth, elem), LAMBDA n : n \notin v.ignored)

RECURSIVE Total(_, _)
Total(widths, list) ==
    IF list = <<>> THEN 0 ELSE widths[Head(list)] + Total(widths, Tail(list))

(* setSubtreesAngularWidth: a node is as wide as itself or as its children  *)
(* together.                                                                *)
TreeAngularWidths(v) ==
    LET width[n \in {m \in Nodes(v.graph) : v.depth[m] > 0}] ==
            Max({AngularWidth(v.depth[n]), Total(width, Children(v, n))})
    IN  width

(* The children of elem in the order they are placed: those of the former   *)
(* parent of the root in the order of dist, when the first one has been     *)
(* tagged with a dist other than 0.  (One added since has none and is put   *)
(* first; the order JavaScript gives it is not defined.)                    *)
Subnodes(v, elem) ==
    LET children == Children(v, elem)
    IN  IF v.parent = elem /\ children # <<>> /\ v.dist[children[1]] > 0
        THEN SortSeq(children, LAMBDA a, b : v.dist[a] < v.dist[b])
        ELSE children

(* The inner loop of computePositions: a span is divided among the children *)
(* in proportion to the widths of their subtrees; those already placed      *)
(* below another node (flagged) are skipped.                                *)
RECURSIVE Place(_, _, _, _, _, _)
Place(widths, share, children, flagged, angle, pos) ==
    IF children = <<>> THEN pos
    ELSE LET child == Head(children)
             end   == Plus(angle, Frac(widths[child] * share.of[1], share.total * share.of[2]))
         IN  IF child \in flagged
             THEN Place(widths, share, Tail(children), flagged, angle, pos)
             ELSE Place(widths, share, Tail(children), flagged, end,
                        [pos EXCEPT ![child] = [rho |-> share.rho, begin |-> angle, end |-> end]])

PlaceChildren(v, widths, elem, flagged, pos) ==
    LET subnodes == Subnodes(v, elem)
        share == [of    |-> Minus(pos[elem].end, pos[elem].begin),
                  total |-> Total(widths, subnodes),
                  rho   |-> v.depth[elem] + 1]
    IN  Place(widths, share, subnodes, flagged, pos[elem].begin, pos)

RECURSIVE PlaceFrom(_, _, _, _, _)
PlaceFrom(v, widths, queue, flagged, pos) ==
    IF queue = <<>> THEN pos
    ELSE LET elem == Head(queue)
             next == SelectSeq(Kept(v).adj[elem], LAMBDA n : n \notin flagged \cup v.ignored)
         IN  PlaceFrom(v, widths, Tail(queue) \o next, flagged \cup ToSet(next),
                       PlaceChildren(v, widths, elem, flagged, pos))

Origin == [rho |-> 0, begin |-> <<0, 1>>, end |-> <<0, 1>>]

(* computePositions: pos0 is what the nodes not reached keep. *)
computePositions(v, pos0) ==
    PlaceFrom(v, TreeAngularWidths(v), <<v.root>>, {v.root},
              [pos0 EXCEPT ![v.root] = [rho |-> 0, begin |-> <<0, 1>>, end |-> <<1, 1>>]])

(* The levels compute works with. *)
Levels(v) == computeLevels(Kept(v), v.root, v.ignored, v.depth)
=============================================================================
