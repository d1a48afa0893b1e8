------------------------------- MODULE JitST --------------------------------
(***************************************************************************)
(* The space tree of the JIT library (rfweb/js/jit/jit.js): ST, ST.Group   *)
(* and the part of Graph.Geom that decides what is shown.                  *)
(*                                                                         *)
(* view is the tree being shown (JitTree) with the nodes drawn and those   *)
(* on the selected path, the node clicked last, nodesInPath, the positions *)
(* and those the animation is to reach, and "fresh", the edges that came   *)
(* in answer to a request since the levels were computed: until then a     *)
(* node has no _depth and no walk of the tree meets it.  The position of a *)
(* node that does not exist is left out (Origin): compute gives it one     *)
(* before it is drawn.                                                     *)
(*                                                                         *)
(* animation has the two Animation objects, that of fx and that of group,  *)
(* what each is to do at its end, and the rounds of requests whose answers *)
(* have not all come.  A setOptions on a running animation replaces what   *)
(* it is to do.                                                            *)
(*                                                                         *)
(* Calls are made while no click is being handled and no answer is out (an *)
(* answer that comes after another node was selected is laid out for the   *)
(* node that was selected first), but also while the contraction of        *)
(* switchPosition runs.  The tree is changed when everything has ended and *)
(* away from the selected path.  multitree is left out here: the           *)
(* expansion of its root refers to a name that is not defined.             *)
(***************************************************************************)
EXTENDS JitTree

CONSTANTS Tree,     \* the whole tree, [id, children]
          Configs   \* [config, levels]: the options, and how many levels are loaded at first

VARIABLES view, busy, animation, left

Origin == [x |-> 0, y |-> 0]

NoEnd == [do |-> None, nodes |-> {}, of |-> None]

Ends(do, nodes, of) == [do |-> do, nodes |-> nodes, of |-> of]

Idle == ~busy /\ animation.fx = NoEnd /\ animation.group = NoEnd /\ animation.requests = <<>>

Subtree(v, n) == ToSet(eachSubgraph(v.graph, v.depth, n))

Levels(v, n, from, to) == ToSet(eachLevel(v.graph, v.depth, n, from, to))

Parent(v, n) == getParents(v.graph, v.depth, n)[1]

Ancestors(v, n) == {m \in Nodes(v.graph) : isDescendantOf(v.graph, v.depth, n, m)}

(* Graph.computeLevels *)
WithGraph(v, g) ==
    [v EXCEPT !.graph = g, !.fresh = <<>>,
              !.depth = computeLevels(g, v.root, {}, <<>>),
              !.size  = [n \in Nodes(g) |-> v.config.size[n]],
              !.orn   = [n \in Nodes(g) |-> None]]

STLevels(v) == WithGraph(v, AddAdjacencies(v.graph, v.fresh))

Positions(v, placed) == [n \in Nodes(v.graph) |-> IF n \in DOMAIN placed THEN placed[n] ELSE Origin]

Laid(v) == [v EXCEPT !.endPos = Positions(v, computePositions(v))]

(* compute: the root is always there. *)
Rooted(v) ==
    [v EXCEPT !.drawn = @ \cup {v.root}, !.exist = @ \cup {v.root}, !.selected = @ \cup {v.root}]

compute(v) == Laid(NodeDim(Rooted(v), v.config.label))

(* Group.getNodesWithChildren, Group.prepare *)
getNodesWithChildren(v, nodes) ==
    {n \in nodes : /\ anySubnode(v.graph, v.depth, n, v.exist)
                   /\ \A m \in nodes \ {n} : ~isDescendantOf(v.graph, v.depth, n, m)}

prepare(v, nodes) == [v EXCEPT !.nodes = getNodesWithChildren(v, nodes)]

Undrawn(v, gone) == [v EXCEPT !.drawn = @ \ (gone \cap v.exist), !.exist = @ \ gone]


hide(v, nodes) == Undrawn(v, UNION {Levels(v, n, 1, NoLimit) : n \in nodes})

show(v, nodes) ==
    [prepare(v, nodes) EXCEPT !.drawn =
        @ \cup (UNION {Levels(v, n, 0, v.config.levelsToShow) : n \in nodes} \cap v.exist)]

(* plotStep leaves the nodes it collapses or expands drawn. *)
plotStep(v) == [v EXCEPT !.drawn = @ \cup v.nodes]

getSiblings(v, n) ==
    IF n = v.root THEN {n} ELSE ToSet(eachSubnode(v.graph, v.depth, Parent(v, n)))

-----------------------------------------------------------------------------
NodesToHide(v, node, unselected, leafLevel) ==
    {n \in unselected : isDescendantOf(v.graph, v.depth, n, node) => v.depth[n] <= v.depth[node]}
    \cup (Levels(v, node, leafLevel, leafLevel) \cap unselected)
    \cup {n \in ToSet(v.path) : ~isDescendantOf(v.graph, v.depth, n, node)}

getNodesToHide(v) ==
    IF ~v.config.constrained THEN {}
    ELSE NodesToHide(v, v.clicked, v.exist \ v.selected, getRightLevelToShow(v, v.clicked))

getNodesToShow(v) ==
    {n \in Levels(v, v.clicked, 0, v.config.levelsToShow) \cap v.drawn :
        ~anySubnode(v.graph, v.depth, n, v.drawn)}

CutOff(v, node, all, near) ==
    [v EXCEPT !.exist = (@ \ all) \cup near, !.drawn = (@ \ (all \ near)) \cup {node}]

setRightLevelToShow(v, node) ==
    CutOff(v, node, Levels(v, node, 0, v.config.levelsToShow),
                    Levels(v, node, 0, getRightLevelToShow(v, node)))

Seen(v, seen) == [v EXCEPT !.exist = @ \cup seen, !.drawn = @ \cup seen]

WithPath(v, path) == [Seen(v, UNION {getSiblings(v, n) : n \in path}) EXCEPT !.selected = path]

selectPath(v, node) == WithPath(v, UNION {Ancestors(v, n) : n \in {node} \cup ToSet(v.path)})

(* geom.translate: the node goes to the offset from the middle. *)
Centred(v, node) ==
    LET to == v.endPos[node]
        c  == v.config
    IN  [v EXCEPT !.endPos = [n \in DOMAIN @ |->
            IF n \in v.exist THEN [x |-> @[n].x - to.x - c.offsetX, y |-> @[n].y - to.y - c.offsetY]
            ELSE @[n]]]

-----------------------------------------------------------------------------
(* requestNodes: the leaves in sight whose children are asked for, each     *)
(* with the number of levels wanted.                                        *)
RequestedLeaves(v, node) ==
    IF v.config.request
    THEN {n \in Levels(v, node, 0, v.config.levelsToShow) \cap v.drawn : eachSubnode(v.graph, v.depth, n) = <<>>}
    ELSE {}

Wanted(v, node, n) == v.config.levelsToShow - (v.depth[n] - v.depth[node])

(* select, once the nodes have come. *)
Hidden(v) == hide(v, v.nodes)

Shown(v) == [show(v, getNodesToShow(v)) EXCEPT !.pos = v.endPos]

SelectDone(v, node) ==
    Shown(Centred(compute(setRightLevelToShow(Hidden(prepare(v, getNodesToHide(v))), node)), node))

(* Group.contract: the animation of the nodes to hide. *)
Contracting(v, anim, nodes, do, of) ==
    view' = prepare(v, nodes) /\ animation' = [anim EXCEPT !.group = Ends(do, view'.nodes, of)]

Ask(v, anim, node, leaves, then) ==
    /\ view' = v
    /\ animation' = [anim EXCEPT !.requests = Append(@, [node |-> node, then |-> then,
           leaves |-> {[id |-> n, levels |-> Wanted(v, node, n)] : n \in leaves}])]

(* What follows the last answer, or the call itself when nothing is asked. *)
Selected(v, anim, node) == view' = SelectDone(v, node) /\ animation' = anim

Clicked(v, anim, node) == Contracting(v, anim, getNodesToHide(v), "click", node)

Nested(v, id) ==
    \E p \in ToSet(v.path), n \in ToSet(v.path) \cup {id} :
        p # n /\ (isDescendantOf(v.graph, v.depth, n, p) \/ isDescendantOf(v.graph, v.depth, p, n))

OnPath(v, id) == [selectPath(v, id) EXCEPT !.clicked = id, !.nested = @ \/ Nested(v, id)]

select(v, anim, id) ==
    \E u \in {OnPath(v, id)} : \E leaves \in {RequestedLeaves(u, id)} :
        IF leaves = {} THEN Selected(u, anim, id) ELSE Ask(u, anim, id, leaves, "select")

(* onClick does nothing while another click is handled. *)
onClick(v, anim, id, free) ==
    IF free
    THEN /\ busy' = TRUE
         /\ \E u \in {OnPath(v, id)} : \E leaves \in {RequestedLeaves(u, id)} :
                IF leaves = {} THEN Clicked(u, anim, id) ELSE Ask(u, anim, id, leaves, "click")
    ELSE view' = v /\ animation' = anim /\ UNCHANGED busy

-----------------------------------------------------------------------------
(* The subtree below id, as many levels of it as asked for, in pairs. *)
Calls ==
    /\ left > 0 /\ left' = left - 1
    /\ ~busy /\ animation.requests = <<>> /\ view.clicked # None

ClickNode(id) == Calls /\ id \in view.drawn /\ onClick(view, animation, id, TRUE)

SelectNode(id) == Calls /\ select(view, animation, id) /\ UNCHANGED busy

addNodeInPath(id) ==
    /\ Calls /\ id \notin ToSet(view.path)
    /\ select([view EXCEPT !.path = Append(@, id)], animation, view.clicked)
    /\ UNCHANGED busy

clearNodesInPath ==
    /\ Calls /\ view.path # <<>>
    /\ select([view EXCEPT !.path = <<>>], animation, view.clicked)
    /\ UNCHANGED busy

(* switchAlignment: "animate" selects, "replot" clicks. *)
switchAlignment(align, method) ==
    LET v == [view EXCEPT !.config.align = align]
    IN  /\ Calls /\ align # view.config.align
        /\ \/ method = "animate" /\ select(v, animation, v.clicked) /\ UNCHANGED busy
           \/ method = "replot" /\ onClick(v, animation, v.clicked, TRUE)

(* switchPosition: what is to be hidden is worked out as if turned. *)
switchPosition(orn, method) ==
    /\ Calls /\ ~view.fxBusy /\ orn # view.config.orientation
    /\ Contracting([view EXCEPT !.fxBusy = TRUE], animation,
                   getNodesToHide([view EXCEPT !.config.orientation = orn]),
                   IF method = "animate" THEN "switch and click" ELSE "switch and select", orn)
    /\ UNCHANGED busy

(* setRoot: the nodes near the new root appear, and it is clicked when they *)
(* have moved.                                                              *)
setRoot(id, method) ==
    LET moving == [animation EXCEPT !.fx = Ends("root", {}, id)]
        Near(u) == compute(Seen(u, Levels(u, id, 0, getRightLevelToShow(u, id))))
    IN  /\ Calls /\ id \in view.drawn /\ busy' = TRUE
        /\ \E v \in {Near(STLevels([view EXCEPT !.root = id, !.clicked = id]))} :
               \/ method = "animate" /\ view' = selectPath(v, id) /\ animation' = moving
               \/ method = "replot" /\ select(v, moving, id)

AllDrawn(v) == [v EXCEPT !.drawn = @ \cup v.exist]

reposition(v) == compute(AllDrawn(setRightLevelToShow(STLevels(v), v.clicked)))

(* refresh, when nothing is to be requested. *)
refresh(v) == SelectDone(selectPath(reposition(v), v.clicked), v.clicked)

(* addSubtree with "replot" (Op.sum): refresh, the new edges, refresh. *)
addSubtree(id) ==
    /\ Calls /\ Idle /\ ~view.config.request
    /\ \E t \in ToSet(getSubtree(Tree, id)) :
           view' = refresh([refresh(view) EXCEPT !.fresh = PairsBelow(t)])
    /\ UNCHANGED <<busy, animation>>

(* removeSubtree with "replot" (Op.removeNode), without its root. *)
removeSubtree(id) ==
    LET gone == Levels(view, id, 1, NoLimit)
        v == [view EXCEPT !.graph = FoldLeft(removeNode, @, SelectSeq(@.nodes, LAMBDA n : n \in gone)),
                          !.exist = @ \ gone, !.drawn = @ \ gone]
    IN  /\ Calls /\ Idle /\ ~view.config.request
        /\ gone # {} /\ gone \cap (view.selected \cup {view.clicked, view.root}) = {}
        /\ view' = refresh(v)
        /\ UNCHANGED <<busy, animation>>

-----------------------------------------------------------------------------
(* The callback of a request: the last one to come computes the levels and  *)
(* goes on.                                                                 *)
Answer(i, leaf) ==
    LET r == animation.requests[i]
        t == getSubtree(Tree, leaf.id)[1]
        v == [view EXCEPT !.fresh = @ \o PairsBelow(prune(t, leaf.levels))]
    IN  /\ IF r.leaves # {leaf}
           THEN view' = v /\ animation' = [animation EXCEPT !.requests[i].leaves = @ \ {leaf}]
           ELSE \E u \in {STLevels(v)}, done \in {[animation EXCEPT !.requests = RemoveAt(@, i)]} :
                   \/ r.then = "select" /\ Selected(u, done, r.node)
                   \/ r.then = "click" /\ Clicked(u, done, r.node)
        /\ UNCHANGED <<busy, left>>

(* The end of the animation of Group.contract: hide, and what follows. *)
ContractEnd ==
    LET end  == animation.group
        done == [animation EXCEPT !.group = NoEnd]
        turned == {compute([v EXCEPT !.config.orientation = end.of, !.fxBusy = FALSE])
                        : v \in {hide(plotStep(view), end.nodes)}}
    IN  /\ \/ /\ end.do = "click"
              /\ view' = Centred(compute(setRightLevelToShow(hide(plotStep(view), end.nodes), end.of)), end.of)
              /\ animation' = [done EXCEPT !.fx = Ends("move", {}, end.of)]
              /\ UNCHANGED busy
           \/ /\ end.do = "switch and click"
              /\ \E v \in turned : onClick(v, done, v.clicked, ~busy)
           \/ /\ end.do = "switch and select"
              /\ \E v \in turned : select(v, done, v.clicked)
              /\ UNCHANGED busy
        /\ UNCHANGED left

(* The end of the animation of fx: move goes on with expand, setRoot with a *)
(* click.                                                                   *)
MoveEnd ==
    LET end  == animation.fx
        v    == [view EXCEPT !.pos = view.endPos]
        done == [animation EXCEPT !.fx = NoEnd]
    IN  /\ \/ /\ end.do = "move"
              /\ view' = show(v, getNodesToShow(v))
              /\ animation' = [done EXCEPT !.group = Ends("expand", {}, None)]
              /\ UNCHANGED busy
           \/ /\ end.do = "root"
              /\ onClick(v, done, end.of, TRUE)
        /\ UNCHANGED left

ExpandEnd ==
    /\ animation.group.do = "expand"
    /\ view' = plotStep(view) /\ busy' = FALSE
    /\ animation' = [animation EXCEPT !.group = NoEnd]
    /\ UNCHANGED left

-----------------------------------------------------------------------------
(* loadJSON, compute *)
Created(c) ==
    LET empty == [EmptyGraph EXCEPT !.nodes = <<Tree.id>>, !.adj = Tree.id :> <<>>]
        v == STLevels([graph |-> empty, fresh |-> PairsBelow(prune(Tree, c.levels)), root |-> Tree.id,
                       depth |-> <<>>, size |-> <<>>, orn |-> <<>>, config |-> c.config,
                       exist |-> {}, drawn |-> {}, selected |-> {}, clicked |-> None,
                       path |-> <<>>, nested |-> FALSE, nodes |-> {}, fxBusy |-> FALSE,
                       pos |-> <<>>, endPos |-> <<>>])
        u == compute(v)
    IN  [u EXCEPT !.pos = u.endPos]

Init ==
    /\ \E c \in Configs : view = Created(c) /\ left = c.calls
    /\ busy = FALSE
    /\ animation = [fx |-> NoEnd, group |-> NoEnd, requests |-> <<>>]

Start == view.clicked = None /\ onClick(view, animation, view.root, TRUE) /\ UNCHANGED left

Next ==
    \/ Start
    \/ \E id \in Nodes(view.graph) : \/ ClickNode(id) \/ SelectNode(id)
                                     \/ addNodeInPath(id) \/ addSubtree(id) \/ removeSubtree(id)
    \/ clearNodesInPath
    \/ \E method \in {"animate", "replot"} :
          \/ \E align \in {"left", "right", "center"} : switchAlignment(align, method)
          \/ \E orn \in {"left", "top"} : switchPosition(orn, method)
          \/ \E id \in Nodes(view.graph) : setRoot(id, method)
    \/ \E i \in DOMAIN animation.requests : \E leaf \in animation.requests[i].leaves : Answer(i, leaf)
    \/ ContractEnd \/ MoveEnd \/ ExpandEnd

Spec == Init /\ [][Next]_<<view, busy, animation, left>>

-----------------------------------------------------------------------------
(* Everything has ended, and no node of nodesInPath was ever above or below *)
(* the node selected or another of them: getNodesToHide collapses one above *)
(* with all that is below it, setRightLevelToShow hides one below that is   *)
(* too deep to fit, and what was lost that way may stay out of sight.       *)
Settled == Idle /\ view.clicked # None /\ ~view.nested

(* When everything has ended, what is drawn hangs together: the nodes above *)
(* a drawn node are drawn, and a node is drawn exactly when it is laid out. *)
DrawnFromRoot ==
    Settled => /\ view.drawn = view.exist
               /\ \A n \in view.drawn : Ancestors(view, n) \subseteq view.drawn

(* What is in sight is what the last click or selection asked for: the path *)
(* to the node, the siblings along it, and as many levels below it as fit.  *)
ShownIsSelected ==
    Settled /\ view.config.constrained /\ view.path = <<>> =>
        view.drawn = UNION {getSiblings(view, n) : n \in view.selected}
                     \cup Levels(view, view.clicked, 0, getRightLevelToShow(view, view.clicked))

(* The clicked node ends at the middle of the canvas, less the offset. *)
ClickedCentred ==
    Settled => view.pos[view.clicked] = [x |-> -view.config.offsetX, y |-> -view.config.offsetY]

(* Nodes of one level that are in sight do not overlap. *)
NoOverlap == Settled => Apart(view, view.pos, view.drawn)

(* While busy is set something is under way that will clear it. *)
BusyEnds ==
    busy => \/ animation.fx.do \in {"move", "root"}
            \/ animation.group.do \in {"click", "expand"}
            \/ \E i \in DOMAIN animation.requests : animation.requests[i].then = "click"
=============================================================================
