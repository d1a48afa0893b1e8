------------------------------ MODULE JitTree -------------------------------
(***************************************************************************)
(* Layouts.Tree of the JIT library (rfweb/js/jit/jit.js) and the geometry  *)
(* of the space tree that uses it (Graph.Geom, ST.Geom).                   *)
(*                                                                         *)
(* v is a tree being shown: its graph, depths and root, the set "exist" of *)
(* the nodes laid out, the size [width, height] of every node, its side    *)
(* "orn" in a multitree (None without one) and the options.  A contour     *)
(* ("extent") is a sequence of pairs, the leftmost and rightmost point of  *)
(* every level.  Lengths are in 64ths of a pixel, so that the halves taken *)
(* on the way down are whole numbers.                                      *)
(***************************************************************************)
EXTENDS JitGraph

None == "none"

Sideways(orn) == orn \in {"left", "right"}

(* The size of a node along its level, and across it. *)
Along(orn, dim) == IF Sideways(orn) THEN dim.height ELSE dim.width

Across(orn, dim) == IF Sideways(orn) THEN dim.width ELSE dim.height

OnSide(v, n, orn) == v.config.multitree => v.orn[n] = orn

(* getData('width'), getData('height') *)
Dim(v, n) == IF v.config.overridable THEN v.size[n] ELSE v.config.dim

(* NodeDim.compute: a node sized by its label takes the size of the label,  *)
(* and the larger side of it twice when its shape has only one dimension.   *)
NodeDim(v, label) ==
    LET c == v.config
        Fitted(n) == [width  |-> IF c.autoWidth THEN label[n].width ELSE c.dim.width,
                      height |-> IF c.autoHeight THEN label[n].height ELSE c.dim.height]
        Squared(d) == [width |-> Max({d.width, d.height}), height |-> Max({d.width, d.height})]
    IN  IF c.autoWidth \/ c.autoHeight
        THEN [v EXCEPT !.size = [n \in DOMAIN @ |-> IF c.type = "circle" THEN Squared(Fitted(n))
                                                    ELSE Fitted(n)]]
        ELSE v

(* The size of the largest node of a level. *)
getBoundaries(v, level, orn) ==
    LET row == {n \in Nodes(v.graph) : v.depth[n] = level /\ OnSide(v, n, orn)}
    IN  IF v.config.overridable /\ row # {}
        THEN [width |-> Max({Dim(v, n).width : n \in row}), height |-> Max({Dim(v, n).height : n \in row})]
        ELSE v.config.dim

moveextent(extent, val) == [i \in DOMAIN extent |-> <<extent[i][1] + val, extent[i][2] + val>>]

(* The contour of ps with qs on its right. *)
merge(ps, qs) ==
    [i \in 1..Max({Len(ps), Len(qs)}) |->
        IF i > Len(ps) THEN qs[i] ELSE IF i > Len(qs) THEN ps[i] ELSE <<ps[i][1], qs[i][2]>>]

RECURSIVE mergelist(_)
mergelist(ls) == IF ls = <<>> THEN <<>> ELSE merge(Head(ls), mergelist(Tail(ls)))

(* How far ext2 is to be moved right to clear ext1 from level i down. *)
RECURSIVE fit(_, _, _, _, _)
fit(ext1, ext2, subtreeOffset, siblingOffset, i) ==
    IF Len(ext1) < i \/ Len(ext2) < i THEN 0
    ELSE Max({fit(ext1, ext2, subtreeOffset, siblingOffset, i + 1) + subtreeOffset,
              ext1[i][2] - ext2[i][1] + siblingOffset})

RECURSIVE FitLeft(_, _, _)
FitLeft(c, acc, es) ==
    IF es = <<>> THEN <<>>
    ELSE LET ans == fit(acc, es[1], c.subtreeOffset, c.siblingOffset, 1)
         IN  <<ans>> \o FitLeft(c, merge(acc, moveextent(es[1], ans)), Tail(es))

fitlistl(c, es) == FitLeft(c, <<>>, es)

RECURSIVE FitRight(_, _, _)
FitRight(c, acc, es) ==
    IF es = <<>> THEN <<>>
    ELSE LET ans == -fit(Last(es), acc, c.subtreeOffset, c.siblingOffset, 1)
         IN  FitRight(c, merge(moveextent(Last(es), ans), acc), Front(es)) \o <<ans>>

fitlistr(c, es) == FitRight(c, <<>>, es)

Between(l, r) == [i \in DOMAIN l |-> (l[i] + r[i]) \div 2]

(* Mutant: a centred tree is packed to the left. *)
left_fitlist(c, es) == IF c.align = "right" THEN fitlistr(c, es) ELSE fitlistl(c, es)

(* Where the subtrees go, relative to their parent. *)
fitlist(c, es) ==
    CASE c.align = "left"   -> fitlistl(c, es)
      [] c.align = "right"  -> fitlistr(c, es)
      [] c.align = "center" -> Between(fitlistl(c, es), fitlistr(c, es))

LaidChildren(v, orn, node) ==
    SelectSeq(eachSubnode(v.graph, v.depth, node),
              LAMBDA n : n \in v.exist /\ OnSide(v, n, orn))

RECURSIVE designAll(_, _, _, _, _), PlacedAll(_, _, _)

Movedextents(trees, positions) == [i \in DOMAIN trees |-> moveextent(trees[i].extent, positions[i])]

Joined(node, here, half, children, trees, positions) ==
    [extent |-> <<<<-half, half>>>> \o mergelist(Movedextents(trees, positions)),
     at     |-> (node :> here) @@ PlacedAll(children, trees, positions)]

Fitted(v, orn, node, acum, children, trees) ==
    Joined(node, [along |-> 0, across |-> IF orn \in {"top", "left"} THEN acum ELSE -acum],
           Along(orn, Dim(v, node)) \div 2, children, trees,
           fitlist(v.config, [i \in DOMAIN trees |-> trees[i].extent]))

WithSubtrees(v, orn, node, acum, children, chacum) ==
    Fitted(v, orn, node, acum, children,
           IF children = <<>> THEN <<>>
           ELSE designAll(v, orn, children, Across(orn, getBoundaries(v, v.depth[children[1]], orn)), chacum))

(* design: the contour of the tree below node, and for every node of it the *)
(* offset from its parent along the level and its place across the levels.  *)
design(v, orn, node, maxsize, acum) ==
    WithSubtrees(v, orn, node, acum, LaidChildren(v, orn, node),
                 acum + v.config.levelDistance + (IF maxsize > 0 THEN maxsize ELSE Across(orn, Dim(v, node))))

designAll(v, orn, children, maxsize, acum) ==
    IF children = <<>> THEN <<>>
    ELSE <<design(v, orn, Head(children), maxsize, acum)>>
            \o designAll(v, orn, Tail(children), maxsize, acum)

(* movetree of every child. *)
PlacedAll(children, trees, positions) ==
    IF children = <<>> THEN <<>>
    ELSE [trees[1].at EXCEPT ![children[1]].along = positions[1]]
            @@ PlacedAll(Tail(children), Tail(trees), Tail(positions))

Point(orn, along, across) ==
    IF Sideways(orn) THEN [x |-> across, y |-> along] ELSE [x |-> along, y |-> across]

(* computePositions: the offsets are added up from the root down ("red"),   *)
(* with the indent of a tree that is aligned to a side.                     *)
RECURSIVE Absolute(_, _, _, _)
Absolute(v, offsets, node, root) ==
    IF node = root THEN 0
    ELSE LET c == v.config
         IN  offsets[node].along + Absolute(v, offsets, getParents(v.graph, v.depth, node)[1], root)
                + (IF c.align = "center" THEN 0 ELSE IF c.align = "left" THEN c.indent ELSE -c.indent)

Points(v, orn, offsets) ==
    [n \in DOMAIN offsets |-> Point(orn, Absolute(v, offsets, n, v.root), offsets[n].across)]

LaidOut(v, orn) == Points(v, orn, design(v, orn, v.root, 0, 0).at)

Orientations(v) == IF v.config.multitree THEN {"top", "right", "bottom", "left"}
                   ELSE {v.config.orientation}

AllSides(v, sides) ==
    [n \in UNION {DOMAIN s : s \in sides} |->
        IF n = v.root THEN [x |-> 0, y |-> 0] ELSE (CHOOSE s \in sides : n \in DOMAIN s)[n]]

(* The place of every node that exists and is reached through such nodes. *)
computePositions(v) == AllSides(v, {LaidOut(v, orn) : orn \in Orientations(v)})

-----------------------------------------------------------------------------
(* ST.Geom *)
OrientationOf(v, n) ==
    IF v.config.multitree /\ v.orn[n] # None THEN v.orn[n] ELSE v.config.orientation

(* getSize(n, true) *)
getSize(v, n) ==
    v.config.siblingOffset
      + IF OrientationOf(v, n) \in {"top", "bottom"} THEN Dim(v, n).width ELSE Dim(v, n).height

RECURSIVE getTreeBaseSize(_, _, _), BaseSizes(_, _, _)
getTreeBaseSize(v, node, level) ==
    LET sub == eachSubnode(v.graph, v.depth, node)
    IN  IF level = 0 \/ sub = <<>> THEN getSize(v, node)
        ELSE Max({getSize(v, node), BaseSizes(v, sub, level - 1)}) + v.config.subtreeOffset

BaseSizes(v, nodes, level) ==
    IF nodes = <<>> THEN 0
    ELSE getTreeBaseSize(v, Head(nodes), level) + BaseSizes(v, Tail(nodes), level)

treeFitsInCanvas(v, node, level) ==
    getTreeBaseSize(v, node, level)
      < Along(OrientationOf(v, node), v.config.canvas)

(* Graph.Geom.getRightLevelToShow: as many levels as fit, at least one. *)
RECURSIVE RightLevelFrom(_, _, _)
RightLevelFrom(v, node, level) ==
    IF treeFitsInCanvas(v, node, level) \/ level <= 1 THEN level
    ELSE RightLevelFrom(v, node, level - 1)

getRightLevelToShow(v, node) ==
    IF v.config.constrained THEN RightLevelFrom(v, node, v.config.levelsToShow)
    ELSE v.config.levelsToShow

-----------------------------------------------------------------------------
(* A loaded JSON tree, everything in sight. *)
LoadedTree(json, config, size, orn) ==
    LET g == ConstructTree(EmptyGraph, json)
    IN  [graph |-> g, root |-> json.id, depth |-> computeLevels(g, json.id, {}, <<>>),
         exist |-> Nodes(g), size |-> size, orn |-> orn, config |-> config]

(* The nodes in S that are of one level, and of one side, clear each other  *)
(* by at least siblingOffset.                                               *)
Apart(v, pos, S) ==
    \A m, n \in S :
        m # n /\ v.depth[m] = v.depth[n] /\ v.orn[m] = v.orn[n] =>
            LET orn   == OrientationOf(v, m)
                At(k) == IF Sideways(orn) THEN pos[k].y ELSE pos[k].x
                gap   == (Along(orn, Dim(v, m)) + Along(orn, Dim(v, n))) \div 2 + v.config.siblingOffset
            IN  At(m) >= At(n) + gap \/ At(n) >= At(m) + gap

(* The JSON tree and the graph it was loaded into, walked side by side. *)
JsonWalks(g, depth, json) ==
    \A n \in Nodes(g) :
        LET t  == getSubtree(json, n)
            up == getParent(json, n)
        IN  /\ Len(t) = 1 /\ toJSONTree(g, depth, n) = t[1]
            /\ [i \in DOMAIN up |-> up[i].id] = getParents(g, depth, n)
            /\ \A k \in 0..2 : Nodes(ConstructTree(EmptyGraph, prune(t[1], k)))
                                  = ToSet(eachLevel(g, depth, n, 0, k))

(* The tree with its subtrees in the opposite order, aligned to the other   *)
(* side, is drawn as the mirror image.                                      *)
Mirrored(v) ==
    LET opposite == CASE v.config.align = "left" -> "right"
                      [] v.config.align = "right" -> "left"
                      [] OTHER -> "center"
        w    == [v EXCEPT !.graph.adj = [n \in DOMAIN @ |-> Reverse(@[n])], !.config.align = opposite]
        pos  == computePositions(v)
        mpos == computePositions(w)
    IN  \A n \in DOMAIN pos \ {v.root} :
            mpos[n] = IF Sideways(OrientationOf(v, n)) THEN [pos[n] EXCEPT !.y = -@]
                      ELSE [pos[n] EXCEPT !.x = -@]
=============================================================================
