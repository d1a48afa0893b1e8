------------------------------- MODULE JitTM --------------------------------
(***************************************************************************)
(* Going down into a treemap and out of it again (rfweb/js/jit/jit.js):    *)
(* TM.Base (enter, out, refresh, requestNodes), TM.Geom, TM.Group, TM.Plot *)
(* and the same operations of Icicle.                                      *)
(*                                                                         *)
(* The coordinates are those of JitTreemap; here the position of a node is *)
(* the node that filled the canvas when it was laid out ("laid").  Of the  *)
(* two kinds of view only the treemap loads nodes on request: Icicle.enter *)
(* passes requestNodes a name that is not defined.                         *)
(***************************************************************************)
EXTENDS JitGraph

CONSTANTS Tree,     \* the whole tree, [id, children]
          Configs   \* [icicle, levelsToShow, animate, request, loaded, calls]

VARIABLES view, busy, animation, left

None == "none"

Unset == 2

Quiet == [do |-> None, node |-> None, leaves |-> {}]

Then(do, node) == [do |-> do, node |-> node, leaves |-> {}]

(* The node that fills the canvas. *)
Base(v) == IF v.clicked = None THEN v.root ELSE v.clicked

Levels(v, n, from, to) == ToSet(eachLevel(v.graph, v.depth, n, from, to))

Extend(f, S, value) == [n \in S |-> IF n \in DOMAIN f THEN f[n] ELSE value]

(* Nodes that came in answer to a request are met by no walk until the      *)
(* levels are computed.                                                     *)
WithLevels(v, ignored) ==
    LET g == AddAdjacencies(v.graph, v.fresh)
        S == Nodes(g)
    IN  [v EXCEPT !.graph = g, !.fresh = <<>>,
                  !.depth = computeLevels(g, v.root, ignored, Extend(@, S, -1)),
                  !.exist = @ \cup (S \ Nodes(v.graph)), !.drawn = @ \cup (S \ Nodes(v.graph)),
                  !.alpha = Extend(@, S, 1), !.endAlpha = Extend(@, S, Unset),
                  !.laid = Extend(@, S, None), !.endLaid = Extend(@, S, None)]

(* The nodes computePositions comes to. *)
RECURSIVE Covered(_, _)
Covered(v, nodes) ==
    IF nodes = {} THEN {}
    ELSE nodes \cup Covered(v, UNION {Levels(v, n, 1, 1) : n \in nodes}
                                  \ IF v.config.icicle THEN {} ELSE v.ignored)

LaidFor(v, base) == {n \in Nodes(v.graph) : n \in Covered(v, {base})}

(* compute(), compute('end') *)
compute(v) ==
    LET u == WithLevels(v, v.ignored)
        S == LaidFor(u, Base(u))
    IN  [u EXCEPT !.laid = [n \in DOMAIN @ |-> IF n \in S THEN Base(u) ELSE @[n]]]

computeEnd(v) ==
    LET u == WithLevels(v, v.ignored)
        S == LaidFor(u, Base(u))
    IN  [u EXCEPT !.endLaid = [n \in DOMAIN @ |-> IF n \in S THEN Base(u) ELSE @[n]]]

(* TM.Geom.setRightLevelToShow: the level below the last one is cut off.    *)
setRightLevelToShow(v, node) ==
    LET near   == Levels(v, node, 0, v.config.levelsToShow)
        beyond == Levels(v, node, v.config.levelsToShow + 1, v.config.levelsToShow + 1)
    IN  [v EXCEPT !.exist = (@ \ beyond) \cup near, !.drawn = (@ \ beyond) \cup near,
                  !.ignored = (@ \cup beyond) \ near]

(* When the number of levels is limited. *)
Limited(v, node) ==
    IF v.config.levelsToShow > 0 /\ ~v.config.icicle THEN setRightLevelToShow(v, node) ELSE v

RequestedLeaves(v, node) ==
    {n \in Levels(v, node, 0, v.config.levelsToShow) \cap v.drawn :
        /\ eachSubnode(v.graph, v.depth, n) = <<>>
        /\ v.depth[n] - v.depth[node] < v.config.levelsToShow}

(* The animation of the attributes, at its end. *)
EndValue(f, end) == [n \in DOMAIN f |-> IF end[n] = Unset THEN f[n] ELSE end[n]]

Faded(v) == [v EXCEPT !.alpha = EndValue(@, v.endAlpha)]

Moved(v) == [v EXCEPT !.laid = v.endLaid]

-----------------------------------------------------------------------------
(* refresh *)
Refreshed(v) ==
    IF v.config.animate /\ ~v.config.icicle
    THEN /\ view' = Limited(computeEnd(v), Base(v))
         /\ busy' = TRUE /\ animation' = Then("refresh", None)
    ELSE /\ view' = Limited(compute(v), Base(v))
         /\ busy' = FALSE /\ animation' = Quiet

(* enter, when the nodes it needs have come: the rest of the tree fades out *)
(* and the node grows, or the view is redrawn at once.                      *)
Entering(v, n) ==
    LET u == Limited(v, n)
        w == IF ~v.config.icicle /\ (v.config.levelsToShow > 0 \/ v.config.request)
             THEN compute(u) ELSE u
        inside == Levels(w, n, 0, NoLimit) \ w.ignored
        fading == [w EXCEPT !.alpha = [m \in DOMAIN @ |-> IF w.config.icicle THEN 1 ELSE @[m]],
                            !.endAlpha = [m \in DOMAIN @ |-> IF m \in inside THEN 1 ELSE 0]]
    IN  IF v.config.animate
        THEN view' = fading /\ busy' = TRUE /\ animation' = Then("enter: fade", n)
        ELSE Refreshed([w EXCEPT !.clicked = n])

(* out, when its animations have ended. *)
OutDone(v) == view' = compute(v) /\ busy' = FALSE /\ animation' = Quiet

Leaving(v, parent) ==
    LET u == [v EXCEPT !.clicked = parent]
        leaves == RequestedLeaves(u, parent)
    IN  IF v.config.request /\ leaves # {}
        THEN /\ view' = u /\ busy' = TRUE
             /\ animation' = [do |-> "out: request", node |-> parent, leaves |-> leaves]
        ELSE OutDone(u)

-----------------------------------------------------------------------------
(* Icicle.Plot.plot cuts the tree off here; TM.Plot.plot does not. *)
plotSubtree(v, ch) ==
    v.config.icicle /\ v.config.levelsToShow > 0
        => v.depth[ch] - v.depth[Base(v)] < v.config.levelsToShow

(* plotTree, from the node that fills the canvas. *)
RECURSIVE Plotted(_, _)
Plotted(v, node) ==
    LET plotted == {n \in Levels(v, node, 1, 1) : plotSubtree(v, n) /\ n \in v.exist \cap v.drawn}
    IN  {node} \cup UNION {Plotted(v, ch) : ch \in plotted}

Calls == left > 0 /\ left' = left - 1 /\ ~busy

enter(n) ==
    LET leaves == RequestedLeaves(view, n)
    IN  /\ Calls /\ n \in Plotted(view, Base(view))
        /\ IF view.config.request /\ leaves # {}
           THEN /\ busy' = TRUE /\ UNCHANGED view
                /\ animation' = [do |-> "enter: request", node |-> n, leaves |-> leaves]
           ELSE Entering(view, n)

out ==
    LET parents == getParents(view.graph, view.depth, Base(view))
        parent  == parents[1]
        u       == Limited(view, parent)
        ended   == computeEnd([u EXCEPT !.clicked = parent])
    IN  /\ Calls
        /\ IF parents = <<>> THEN UNCHANGED <<view, busy, animation>>
           ELSE IF view.config.animate
           THEN /\ view' = [ended EXCEPT !.clicked = view.clicked]
                /\ busy' = TRUE /\ animation' = Then("out: move", parent)
           ELSE Leaving(u, parent)

refresh == Calls /\ Refreshed(view)

(* The callback of a request, with the children of a leaf. *)
Answer(leaf) ==
    LET node == animation.node
        t == getSubtree(Tree, leaf)[1]
        levels == view.config.levelsToShow - (view.depth[leaf] - view.depth[node])
        v == [view EXCEPT !.fresh = @ \o PairsBelow(prune(t, levels))]
    IN  /\ leaf \in animation.leaves
        /\ IF animation.leaves # {leaf}
           THEN view' = v /\ animation' = [animation EXCEPT !.leaves = @ \ {leaf}] /\ UNCHANGED busy
           ELSE \/ animation.do = "enter: request" /\ Entering(WithLevels(v, {}), node)
                \/ animation.do = "out: request" /\ OutDone(WithLevels(v, {}))
        /\ UNCHANGED left

(* The end of an animation. *)
AnimationEnd ==
    LET node == animation.node
        v    == IF animation.do \in {"enter: fade", "out: fade"} THEN Faded(view) ELSE Moved(view)
        inner == Levels(v, Base(v), 0, NoLimit) \ v.ignored
    IN  /\ \/ /\ animation.do = "refresh"
              /\ view' = v /\ busy' = FALSE /\ animation' = Quiet
           \/ /\ animation.do = "enter: fade"
              /\ view' = [computeEnd([v EXCEPT !.clicked = node]) EXCEPT
                              !.clicked = IF v.config.icicle THEN node ELSE v.clicked]
              /\ animation' = Then("enter: move", node) /\ UNCHANGED busy
           \/ /\ animation.do = "enter: move"
              /\ view' = [v EXCEPT !.clicked = node] /\ busy' = FALSE /\ animation' = Quiet
           \/ /\ animation.do = "out: move"
              /\ view' = [v EXCEPT !.clicked = node,
                      !.alpha = [n \in DOMAIN @ |-> IF n \in inner THEN 1
                                                    ELSE IF n \in v.ignored THEN @[n] ELSE 0],
                      !.endAlpha = [n \in DOMAIN @ |-> IF n \in v.ignored THEN @[n] ELSE 1]]
              /\ animation' = Then("out: fade", node) /\ UNCHANGED busy
           \/ /\ animation.do = "out: fade"
              /\ Leaving(v, node)
        /\ UNCHANGED left

-----------------------------------------------------------------------------
Created(c) ==
    WithLevels([graph |-> [nodes |-> <<Tree.id>>, adj |-> Tree.id :> <<>>],
                fresh |-> PairsBelow(prune(Tree, c.loaded)), root |-> Tree.id, clicked |-> None,
                depth |-> <<>>, exist |-> {Tree.id}, drawn |-> {Tree.id}, ignored |-> {},
                alpha |-> <<>>, endAlpha |-> <<>>, laid |-> <<>>, endLaid |-> <<>>,
                config |-> c], {})

(* loadJSON, refresh *)
Init ==
    /\ \E c \in Configs : /\ left = c.calls
                          /\ view = IF c.animate /\ ~c.icicle
                                    THEN Moved(Limited(computeEnd(Created(c)), Tree.id))
                                    ELSE Limited(compute(Created(c)), Tree.id)
    /\ busy = FALSE /\ animation = Quiet

Next ==
    \/ \E n \in Nodes(view.graph) : enter(n)
    \/ out
    \/ refresh
    \/ \E leaf \in animation.leaves : Answer(leaf)
    \/ AnimationEnd

Spec == Init /\ [][Next]_<<view, busy, animation, left>>

-----------------------------------------------------------------------------
Idle == ~busy /\ animation = Quiet

(* When an operation has ended, every node that plot draws can be seen and  *)
(* is where the layout for the node that fills the canvas puts it.          *)
PlottedCurrent ==
    Idle => \A n \in Plotted(view, Base(view)) : view.alpha[n] = 1 /\ view.laid[n] = Base(view)

(* The levels asked for are all drawn, and no others unless the tree has    *)
(* been two levels deeper: what is below the level that is cut off loses    *)
(* its depth in computeLevels and is met by no later setRightLevelToShow,   *)
(* so that it shows when the level above it does.                           *)
LevelsShown ==
    LET plotted == Plotted(view, Base(view))
        asked == IF view.config.levelsToShow = 0 THEN NoLimit
                 ELSE view.config.levelsToShow - (IF view.config.icicle THEN 1 ELSE 0)
    IN  Idle => /\ Levels(view, Base(view), 0, asked) \subseteq plotted
                /\ (view.config.icicle \/ \A n \in Nodes(view.graph) : view.depth[n] <= asked + 1)
                        => plotted = Levels(view, Base(view), 0, asked)

(* While busy is set something is under way that will clear it. *)
BusyEnds == busy <=> animation # Quiet
=============================================================================
