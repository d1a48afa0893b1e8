----------------------------- MODULE JitTreemap -----------------------------
(***************************************************************************)
(* The layouts that divide a rectangle (rfweb/js/jit/jit.js):              *)
(* Layouts.TM.SliceAndDice, Squarified and Strip, and Layouts.Icicle.      *)
(*                                                                         *)
(* A tree is a record [id, area, children]; a layout gives a set of        *)
(* rectangles [id, x, y, w, h].  c has the height of the titles and the    *)
(* offset between rectangles.                                              *)
(***************************************************************************)
EXTENDS JitFraction, FiniteSets, SequencesExt

Rect(id, x, y, w, h) == [id |-> id, x |-> x, y |-> y, w |-> w, h |-> h]

Coord(left, top, width, height) == [left |-> left, top |-> top, width |-> width, height |-> height]

AreaOf(nodes) == SumOf([i \in DOMAIN nodes |-> nodes[i].area])

(* processChildrenLayout: the areas the children are to have in coord. *)
Scaled(nodes, coord) ==
    LET total == AreaOf(nodes)
        all   == Times(coord.width, coord.height)
    IN  [i \in DOMAIN nodes |-> [id |-> nodes[i].id, area |-> Over(Times(all, nodes[i].area), total)]]

RECURSIVE LargestArea(_), SmallestArea(_)
LargestArea(ch) == IF Len(ch) = 1 THEN ch[1].area ELSE Larger(ch[1].area, LargestArea(Tail(ch)))
SmallestArea(ch) == IF Len(ch) = 1 THEN ch[1].area ELSE Smaller(ch[1].area, SmallestArea(Tail(ch)))

worstAspectRatio(ch, w) ==
    LET sq(x) == Times(x, x)
        ratio == Over(sq(w), sq(AreaOf(ch)))
    IN  Larger(Times(ratio, LargestArea(ch)), Over(Whole(1), Times(ratio, SmallestArea(ch))))

avgAspectRatio(ch, w) ==
    LET Ratio(area) == LET h == Over(area, w) IN IF Less(h, w) THEN Over(w, h) ELSE Over(h, w)
    IN  Over(SumOf([i \in DOMAIN ch |-> Ratio(ch[i].area)]), Whole(Len(ch)))

(* A row of rectangles of one size "across", side by side from "start". *)
RECURSIVE Row(_, _, _)
Row(ch, across, start) ==
    IF ch = <<>> THEN {}
    ELSE LET along == Over(ch[1].area, across)
         IN  {[id |-> ch[1].id, at |-> start, along |-> along]}
                \cup Row(Tail(ch), across, Plus(start, along))

-----------------------------------------------------------------------------
(* Squarified.layoutV, layoutH: a column at the left or a row at the top,   *)
(* what is left of coord, its shorter side, and whether it is wider than    *)
(* high (layout.orientation).                                               *)
layoutV(ch, w, coord, horizontal) ==
    LET width == Over(AreaOf(ch), w)
        rest  == Coord(Plus(coord.left, width), coord.top, Minus(coord.width, width), coord.height)
        dim   == Smaller(rest.width, rest.height)
    IN  [rects |-> {Rect(r.id, coord.left, r.at, width, r.along) : r \in Row(ch, width, coord.top)},
         coord |-> rest, dim |-> dim,
         horizontal |-> IF dim # rest.height THEN ~horizontal ELSE horizontal]

layoutH(ch, w, coord, horizontal) ==
    LET height == Over(AreaOf(ch), w)
        rest   == Coord(coord.left, Plus(coord.top, height), coord.width, Minus(coord.height, height))
        dim    == Smaller(rest.width, rest.height)
    IN  [rects |-> {Rect(r.id, r.at, coord.top, r.along, height) : r \in Row(ch, height, coord.left)},
         coord |-> rest, dim |-> dim,
         horizontal |-> IF dim # rest.width THEN ~horizontal ELSE horizontal]

(* Strip.layoutV, layoutH: columns from the left filled from the bottom up, *)
(* or rows from the bottom.                                                 *)
stripV(ch, w, coord) ==
    LET width == Over(AreaOf(ch), w)
        Y(r)  == Minus(Plus(coord.top, Minus(w, r.along)), r.at)
    IN  [rects |-> {Rect(r.id, coord.left, Y(r), width, r.along) : r \in Row(ch, width, Zero)},
         coord |-> Coord(Plus(coord.left, width), coord.top, Minus(coord.width, width), coord.height),
         dim |-> w, horizontal |-> FALSE]

stripH(ch, w, coord) ==
    LET height == Over(AreaOf(ch), w)
        y      == Plus(coord.top, Minus(coord.height, height))
    IN  [rects |-> {Rect(r.id, r.at, y, r.along, height) : r \in Row(ch, height, coord.left)},
         coord |-> Coord(coord.left, coord.top, coord.width, Minus(coord.height, height)),
         dim |-> w, horizontal |-> TRUE]

layoutRow(kind, ch, w, coord, horizontal) ==
    IF kind = "Squarified"
    THEN IF horizontal THEN layoutV(ch, w, coord, horizontal) ELSE layoutH(ch, w, coord, horizontal)
    ELSE IF horizontal THEN stripH(ch, w, coord) ELSE stripV(ch, w, coord)

(* Whether the row gets no worse with one more. *)
NoWorse(kind, row, longer, w) ==
    IF kind = "Squarified" THEN AtMost(worstAspectRatio(longer, w), worstAspectRatio(row, w))
    ELSE AtMost(avgAspectRatio(longer, w), avgAspectRatio(row, w))

layoutLast(ch, coord) == {Rect(ch.id, coord.left, coord.top, coord.width, coord.height)}

(* Area.computeDim: rows are filled while their shape does not get worse;   *)
(* the last rectangle alone takes what is left.                             *)
RECURSIVE computeDim(_, _, _, _, _, _)
computeDim(kind, tail, initElem, w, coord, horizontal) ==
    IF Len(tail) + Len(initElem) = 1 THEN layoutLast((tail \o initElem)[1], coord)
    ELSE IF initElem = <<>>
    THEN computeDim(kind, Tail(tail), <<tail[1]>>, w, coord, horizontal)
    ELSE IF tail = <<>> THEN layoutRow(kind, initElem, w, coord, horizontal).rects
    ELSE IF NoWorse(kind, initElem, <<tail[1]>> \o initElem, w)
    THEN computeDim(kind, Tail(tail), Append(initElem, tail[1]), w, coord, horizontal)
    ELSE LET row == layoutRow(kind, initElem, w, coord, horizontal)
         IN  row.rects \cup computeDim(kind, tail, <<>>, row.dim, row.coord, row.horizontal)

(* processChildrenLayout.  Squarified takes the largest first, and equal    *)
(* ones by their id.                                                        *)
processChildrenLayout(kind, children, coord, horizontal) ==
    LET scaled == Scaled(children, coord)
        sorted == SortSeq(scaled, LAMBDA a, b : \/ Less(b.area, a.area)
                                                \/ a.area = b.area /\ a.id < b.id)
    IN  IF kind = "Squarified"
        THEN computeDim(kind, Tail(sorted), <<sorted[1]>>,
                        IF horizontal THEN coord.height ELSE coord.width, coord, horizontal)
        ELSE computeDim(kind, Tail(scaled), <<scaled[1]>>,
                        IF horizontal THEN coord.width ELSE coord.height, coord, horizontal)

(* The coordinates inside a rectangle. *)
Inside(c, r) ==
    Coord(r.x, Plus(r.y, c.titleHeight), Minus(r.w, c.offset),
          Minus(Minus(r.h, c.offset), c.titleHeight))

(* Squarified.computePositions, Strip.computePositions *)
RECURSIVE AreaPositions(_, _, _, _), AreaBelow(_, _, _, _)
AreaPositions(c, kind, node, coord) ==
    LET horizontal == IF kind = "Squarified" THEN AtMost(coord.height, coord.width)
                      ELSE c.orientation = "h"
    IN  IF node.children = <<>> THEN {}
        ELSE AreaBelow(c, kind, node.children,
                       processChildrenLayout(kind, node.children, coord, horizontal))

AreaBelow(c, kind, children, rects) ==
    IF children = <<>> THEN rects
    ELSE LET r == CHOOSE r \in rects : r.id = children[1].id
         IN  AreaPositions(c, kind, children[1], Inside(c, r))
                \cup AreaBelow(c, kind, Tail(children), rects)

(* The root has the canvas, whose centre is the origin. *)
Canvas(c, tree) == Rect(tree.id, Minus(Zero, Half(c.width)), Minus(Zero, Half(c.height)), c.width, c.height)

(* Area.compute *)
AreaLayout(c, kind, tree) ==
    {Canvas(c, tree)} \cup AreaPositions(c, kind, tree, Inside(c, Canvas(c, tree)))

-----------------------------------------------------------------------------
(* SliceAndDice.computePositions: the children of r.id share it below the   *)
(* title, one after another from "start".                                   *)
RECURSIVE SliceBelow(_, _, _, _, _)
SliceBelow(c, children, r, horizontal, start) ==
    LET height == Minus(r.h, c.titleHeight)
        Part(n, all) == Over(n.area, AreaOf(all))
        Place(n, part, at) ==
            IF horizontal THEN Rect(n.id, r.x, Plus(Plus(at, r.y), c.titleHeight), r.w, Times(height, part))
            ELSE Rect(n.id, Plus(at, r.x), Plus(r.y, c.titleHeight), Times(r.w, part), height)
        RECURSIVE From(_, _)
        From(ns, at) ==
            IF ns = <<>> THEN {}
            ELSE LET q == Place(ns[1], Part(ns[1], children), at)
                 IN  {q} \cup SliceBelow(c, ns[1].children, q, ~horizontal, Zero)
                         \cup From(Tail(ns), Plus(at, IF horizontal THEN q.h ELSE q.w))
    IN  From(children, start)

(* SliceAndDice.compute *)
SliceLayout(c, tree) ==
    {Canvas(c, tree)} \cup SliceBelow(c, tree.children, Canvas(c, tree), c.orientation = "h", Zero)

-----------------------------------------------------------------------------
(* Icicle.computeSubtree: the children follow their parent in the next      *)
(* level and share its length by their "dim", here their area.              *)
RECURSIVE computeSubtree(_, _)
computeSubtree(c, node) ==
    LET r == node.rect
        Share(n) == Times(IF c.orientation = "h" THEN r.h ELSE r.w, Over(n.area, AreaOf(node.children)))
        RECURSIVE From(_, _)
        From(ns, at) ==
            IF ns = <<>> THEN {}
            ELSE LET n == ns[1]
                     q == IF c.orientation = "h" THEN Rect(n.id, Plus(r.x, r.w), at, r.w, Share(n))
                          ELSE Rect(n.id, at, Plus(r.y, r.h), Share(n), r.h)
                 IN  computeSubtree(c, [children |-> n.children, rect |-> q])
                        \cup From(Tail(ns), Plus(at, Share(n)))
    IN  {r} \cup From(node.children, IF c.orientation = "h" THEN r.y ELSE r.x)

RECURSIVE Depth(_)
Depth(node) ==
    LET below == {Depth(node.children[i]) : i \in DOMAIN node.children}
    IN  IF below = {} THEN 0 ELSE 1 + CHOOSE d \in below : \A e \in below : e <= d

(* Icicle.compute for the root: the levels to show share the canvas. *)
IcicleLayout(c, tree) ==
    LET levels == 1 + (IF c.levelsToShow - 1 < Depth(tree) THEN c.levelsToShow - 1 ELSE Depth(tree))
        canvas == Canvas(c, tree)
        rect   == IF c.orientation = "h" THEN [canvas EXCEPT !.w = Over(@, Whole(levels))]
                  ELSE [canvas EXCEPT !.h = Over(@, Whole(levels))]
    IN  computeSubtree(c, [children |-> tree.children, rect |-> rect])

Treemap(c, kind, tree) ==
    CASE kind = "SliceAndDice" -> SliceLayout(c, tree)
      [] kind = "Icicle" -> IcicleLayout(c, tree)
      [] OTHER -> AreaLayout(c, kind, tree)

-----------------------------------------------------------------------------
(* The rectangle the children of the node in r are to fill. *)
Region(c, kind, r) ==
    CASE kind = "SliceAndDice" ->
            Coord(r.x, Plus(r.y, c.titleHeight), r.w, Minus(r.h, c.titleHeight))
      [] kind = "Icicle" ->
            IF c.orientation = "h" THEN Coord(Plus(r.x, r.w), r.y, r.w, r.h)
            ELSE Coord(r.x, Plus(r.y, r.h), r.w, r.h)
      [] OTHER -> Inside(c, r)

Covers(coord, r) ==
    /\ AtMost(coord.left, r.x) /\ AtMost(Plus(r.x, r.w), Plus(coord.left, coord.width))
    /\ AtMost(coord.top, r.y) /\ AtMost(Plus(r.y, r.h), Plus(coord.top, coord.height))

Disjoint(r, q) ==
    \/ AtMost(Plus(r.x, r.w), q.x) \/ AtMost(Plus(q.x, q.w), r.x)
    \/ AtMost(Plus(r.y, r.h), q.y) \/ AtMost(Plus(q.y, q.h), r.y)

(* The children of every node tile its region: each lies in it, no two      *)
(* overlap, and the share of each is that of its area.                      *)
RECURSIVE Tiles(_, _, _, _)
Tiles(c, kind, rects, node) ==
    LET Of(n)  == CHOOSE r \in rects : r.id = n.id
        region == Region(c, kind, Of(node))
        ch     == node.children
    IN  /\ \A i \in DOMAIN ch :
              /\ Covers(region, Of(ch[i]))
              /\ Times(Times(Of(ch[i]).w, Of(ch[i]).h), AreaOf(ch))
                    = Times(Times(region.width, region.height), ch[i].area)
              /\ Tiles(c, kind, rects, ch[i])
        /\ \A i, j \in DOMAIN ch : i # j => Disjoint(Of(ch[i]), Of(ch[j]))
=============================================================================
