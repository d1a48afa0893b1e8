------------------------------ MODULE JitExtras -----------------------------
(***************************************************************************)
(* What the pointer does to a visualization (rfweb/js/jit/jit.js): the     *)
(* classes NodeStyles, Tips and Navigation that MouseEventsManager calls   *)
(* in this order for every event, Canvas.translate, scale and resize, and  *)
(* Plot.nodeFx.  Events are "Native" (dom is false); JitEvents has the     *)
(* class Events.                                                           *)
(*                                                                         *)
(* One coordinate stands for both.  The pointer is at a screen position,   *)
(* measured from the centre of the canvas; a node is a point of the graph. *)
(* A style is a property that has the node's own value, the one of         *)
(* stylesHover or the one of stylesClick.                                  *)
(***************************************************************************)
EXTENDS JitFraction, FiniteSets

CONSTANTS
    Configs  \* sets of [nodes (a function to points), hover, click (sets of
             \* properties), panning ("none", "all" or "avoid nodes"),
             \* zooming, calls]

VARIABLES view, busy, animation, left

vars == <<view, busy, animation, left>>

NoNode == "none"

NoAnimation == {}

Nodes == DOMAIN view.config.nodes

Outside == 99  \* the pointer is not over the canvas

Positions == {-2, 0, 2}

-----------------------------------------------------------------------------
(* eventInfo.getPos: the point of the graph at a screen position. *)
getPos(canvas, x) == Over(Minus(Whole(x), canvas.offset), canvas.scale)

(* eventInfo.getNode, asked once for each event. *)
getNode(v, x) ==
    LET under == {n \in DOMAIN v.config.nodes : Whole(v.config.nodes[n]) = getPos(v.canvas, x)}
    IN  IF under = {} THEN NoNode ELSE CHOOSE n \in under : TRUE

Home == [offset |-> Zero, scale |-> Whole(1)]

(* Canvas.Base.translate and scale: the same for its own record of the      *)
(* offset and for the drawing context.                                      *)
BaseTranslate(base, x) == [base EXCEPT !.offset = Plus(@, Times(x, base.scale))]

BaseScale(base, x) == [base EXCEPT !.scale = Times(@, x)]

(* Canvas.translate *)
translate(v, x) ==
    [v EXCEPT !.canvas = BaseTranslate(@, x), !.base = BaseTranslate(@, x),
              !.ctx = BaseTranslate(@, x)]

(* Mutant: the offset is not scaled. *)
fixed_scale(v, x) ==
    [v EXCEPT !.canvas = BaseScale(@, x), !.base = BaseScale(@, x), !.ctx = BaseScale(@, x)]

(* Canvas.scale, about the centre of the canvas: the offset grows with the  *)
(* scale.                                                                   *)
scale(v, x) ==
    LET p  == Times(v.canvas.scale, x)
        dx == Over(Times(v.canvas.offset, Minus(x, Whole(1))), p)
        u  == [v EXCEPT !.canvas = [@ EXCEPT !.scale = p],
                        !.base = BaseScale(@, x), !.ctx = BaseScale(@, x)]
    IN  translate(u, dx)

-----------------------------------------------------------------------------
(* nodeFx: a transition of some properties; one that is running is stopped, *)
(* and what it had not reached stays in between.                            *)
nodeFx(v, node, values) ==
    [v EXCEPT
        !.data = [n \in DOMAIN @ |-> [p \in DOMAIN @[n] |->
            IF p \in animation /\ v.end[n][p] \notin {"unset", v.data[n][p]} THEN "between"
            ELSE v.data[n][p]]],
        !.end[node] = [p \in DOMAIN @ |-> IF p \in DOMAIN values THEN values[p] ELSE @[p]]]

Animated(v, props) == view' = v /\ animation' = props

(* toggleStylesOn with set: the own styles are remembered the first time. *)
StylesOn(v, props, style, node) ==
    nodeFx([v EXCEPT !.styles[node] = [p \in DOMAIN @ |->
                IF p \in props /\ @[p] = "unset" THEN v.data[node][p] ELSE @[p]]],
           node, [p \in props |-> style])

(* toggleStylesOn without set. *)
StylesOff(v, props, node) == nodeFx(v, node, [p \in props |-> v.styles[node][p]])

(* The nodes of a set go back to their own styles with the next transition. *)
Reset(v, S, props) ==
    [v EXCEPT !.end = [n \in DOMAIN @ |-> [p \in DOMAIN @[n] |->
        IF n \in S /\ p \in props THEN v.styles[n][p] ELSE @[n][p]]]]

(* NodeStyles.onMouseMove: what it makes of the view and the properties of  *)
(* the transition it starts ("none" when it starts none).                   *)
StylesMove(v, x) ==
    LET node    == getNode(v, x)
        dragged == [v EXCEPT !.move = @ \/ v.down # NoNode]
        props   == v.config.hover
    IN  IF \/ props = {}
           \/ v.hoveredNode # NoNode /\ Whole(v.config.nodes[v.hoveredNode]) = getPos(v.canvas, x)
           \/ v.hoveredNode = NoNode /\ node = NoNode
           \/ node # NoNode /\ node \in v.hovered
        THEN [view |-> dragged, props |-> animation]
        ELSE IF node # NoNode /\ node \notin v.selected
        THEN LET others == v.hovered \ v.selected
                 u == [Reset(dragged, others, props) EXCEPT !.hovered = (@ \ others) \cup {node},
                                                            !.hoveredNode = node]
             IN  [view |-> StylesOn(u, props, "hover", node), props |-> props]
        ELSE IF v.hoveredNode # NoNode /\ v.hoveredNode \notin v.selected
        THEN [view |-> [StylesOff(dragged, props, v.hoveredNode) EXCEPT
                           !.hovered = @ \ {v.hoveredNode}, !.hoveredNode = NoNode],
              props |-> props]
        ELSE [view |-> dragged, props |-> animation]


(* Tips.onMouseMove *)
TipsMove(v, x) ==
    LET node == getNode(v, x)
    IN  IF node = NoNode THEN [v EXCEPT !.tip.shown = FALSE]
        ELSE [v EXCEPT !.tip = [shown |-> TRUE, node |-> node]]

(* Navigation.onMouseMove: nav.pos is the screen position. *)
NavigationMove(v, x) ==
    IF \/ v.config.panning = "none"
       \/ ~v.nav.pressed
       \/ v.config.panning = "avoid nodes" /\ getNode(v, x) # NoNode
    THEN v
    ELSE [translate(v, Over(Whole(x - v.nav.pos), v.canvas.scale)) EXCEPT !.nav.pos = x]

(* Navigation.onMouseDown: the screen position is that of the pointer. *)
NavigationDown(v, x) ==
    IF \/ v.config.panning = "none"
       \/ v.config.panning = "avoid nodes" /\ getNode(v, x) # NoNode
    THEN v
    ELSE [v EXCEPT !.nav = [pressed |-> TRUE, pos |-> x]]

(* Navigation.onMouseUp *)
NavigationUp(v) == IF v.config.panning = "none" THEN v ELSE [v EXCEPT !.nav.pressed = FALSE]

(* Tips.onMouseOut *)
TipsOut(v) == [v EXCEPT !.tip.shown = FALSE]

(* NodeStyles.onClick *)
StylesClick(v, node) ==
    LET props == v.config.click
    IN  IF node = NoNode \/ props = {} THEN [view |-> v, props |-> animation]
        ELSE IF node \in v.selected
        THEN [view |-> [StylesOff(v, props, node) EXCEPT !.selected = @ \ {node}], props |-> props]
        ELSE LET u == StylesOn(Reset(v, v.selected, props), props, "click", node)
             IN  [view |-> [u EXCEPT !.selected = {node}, !.hovered = @ \ {node},
                                     !.hoveredNode = NoNode,
                                     !.jumped = @ \/ v.hoveredNode \notin {NoNode, node}],
                  props |-> props]

-----------------------------------------------------------------------------
(* The events. *)
Calls == left > 0 /\ left' = left - 1 /\ UNCHANGED busy

onMouseMove(x) ==
    /\ Calls
    /\ LET styled == StylesMove(view, x)
       IN  Animated([NavigationMove(TipsMove(styled.view, x), x) EXCEPT !.at = x, !.last = "move"],
                    styled.props)

(* The pointer leaves the canvas.  The hovered node loses its style, not    *)
(* its mark, so that it is not hovered again before another one is.         *)
onMouseOut ==
    /\ Calls
    /\ view.at # Outside
    /\ LET v == [TipsOut(view) EXCEPT !.at = Outside, !.last = "out", !.down = NoNode, !.move = FALSE]
       IN  IF v.hoveredNode = NoNode \/ v.config.hover = {} THEN Animated(v, animation)
           ELSE Animated([StylesOff(v, v.config.hover, v.hoveredNode) EXCEPT !.hoveredNode = NoNode],
                         v.config.hover)

(* A button is pressed: NodeStyles looks at the left one only. *)
onMouseDown(right) ==
    /\ Calls
    /\ view.at # Outside
    /\ LET styled == IF right THEN view
                     ELSE [view EXCEPT !.down = getNode(view, view.at), !.move = FALSE]
       IN  Animated([NavigationDown(styled, view.at) EXCEPT !.last = "down"], animation)

onMouseUp(right) ==
    /\ Calls
    /\ view.last # "up"
    /\ view.at # Outside
    /\ LET clicked == IF right \/ view.move THEN [view |-> view, props |-> animation]
                      ELSE StylesClick(view, getNode(view, view.at))
           v == IF right THEN clicked.view ELSE [clicked.view EXCEPT !.down = NoNode, !.move = FALSE]
       IN  Animated([NavigationUp(v) EXCEPT !.last = "up"], clicked.props)

onMouseWheel(x) ==
    /\ Calls
    /\ view.config.zooming
    /\ view.at # Outside
    /\ view' = [scale(view, x) EXCEPT !.last = "wheel"]
    /\ UNCHANGED animation

(* Canvas.Base.resize; the browser clears the drawing context. *)
BaseResize(v) == [v EXCEPT !.base = Home, !.ctx = Home]

(* Canvas.resize *)
resize ==
    /\ Calls
    /\ view.config.zooming
    /\ view' = [BaseResize(view) EXCEPT !.canvas = Home, !.last = "resize"]
    /\ UNCHANGED animation

AnimationEnd ==
    /\ animation # NoAnimation
    /\ animation' = NoAnimation
    /\ view' = [view EXCEPT !.data = [n \in DOMAIN @ |-> [p \in DOMAIN @[n] |->
            IF p \in animation /\ view.end[n][p] # "unset" THEN view.end[n][p] ELSE @[n][p]]]]
    /\ UNCHANGED <<busy, left>>

Created(c) ==
    LET all(x) == [n \in DOMAIN c.nodes |-> [p \in c.hover \cup c.click |-> x]]
    IN  [config |-> c, at |-> Outside, last |-> "none",
         canvas |-> Home, base |-> Home, ctx |-> Home,
         nav |-> [pressed |-> FALSE, pos |-> 0], tip |-> [shown |-> FALSE, node |-> NoNode],
         hoveredNode |-> NoNode, hovered |-> {}, selected |-> {}, down |-> NoNode, move |-> FALSE,
         data |-> all("own"), end |-> all("unset"), styles |-> all("unset"), jumped |-> FALSE]

Init ==
    \E c \in Configs :
        /\ view = Created(c)
        /\ busy = FALSE
        /\ animation = NoAnimation
        /\ left = c.calls

Next ==
    \/ \E x \in Positions : onMouseMove(x)
    \/ onMouseOut
    \/ \E right \in BOOLEAN : onMouseDown(right) \/ onMouseUp(right)
    \/ \E x \in {Whole(2), Frac(1, 2)} : onMouseWheel(x)
    \/ resize
    \/ AnimationEnd

Spec == Init /\ [][Next]_vars

-----------------------------------------------------------------------------
(* Whatever is panned, zoomed and resized, the point of the graph that the  *)
(* event handlers find at a place is the one drawn there: the widget, its   *)
(* canvas and the drawing context agree, and offset and scale fit together  *)
(* (Canvas.translate, scale and resize, jit.js:2865-2932).                  *)
CanvasInSync == view.canvas = view.base /\ view.base = view.ctx

(* While the canvas is dragged the point that was grabbed stays under the   *)
(* pointer, at every scale, also after moves that panned nothing            *)
(* (Navigation.onMouseMove, jit.js:2610).                                   *)
PanFollows ==
    view.nav.pressed /\ view'.last = "move" =>
        getPos(view'.canvas, view'.nav.pos) = getPos(view.canvas, view.nav.pos)

(* Zooming keeps what is in the centre of the canvas there (Canvas.scale,   *)
(* jit.js:2921).                                                            *)
ZoomsAboutCentre ==
    view'.last = "wheel" /\ view' # view => getPos(view'.canvas, 0) = getPos(view.canvas, 0)

(* After a move with no button down the tip is shown for the node under the *)
(* pointer, and for no other (Tips.onMouseMove, jit.js:2321).               *)
TipRight ==
    view.last = "move" /\ ~view.nav.pressed =>
        LET node == getNode(view, view.at)
        IN  view.tip.shown = (node # NoNode) /\ (view.tip.shown => view.tip.node = node)

(* With the same properties for both styles, and the pointer over what it   *)
(* clicks, every transition that is interrupted is made up for: at rest the *)
(* selected node has the click style, the hovered one the hover style, and  *)
(* all others their own (NodeStyles, jit.js:2381).                          *)
StylesSettle ==
    animation = NoAnimation /\ view.config.hover = view.config.click /\ ~view.jumped =>
        \A n \in Nodes, p \in view.config.hover :
            view.data[n][p] = IF n \in view.selected THEN "click"
                              ELSE IF n = view.hoveredNode THEN "hover" ELSE "own"
=============================================================================
