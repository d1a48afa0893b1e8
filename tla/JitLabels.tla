------------------------------ MODULE JitLabels -----------------------------
(***************************************************************************)
(* The labels of a visualization as elements of the page (rfweb/js/jit/    *)
(* jit.js, Graph.Label.DOM and HTML, placeLabel of RGraph), and what       *)
(* loadJSON, the operations, plot and animate do to them.                  *)
(*                                                                         *)
(* A graph is a function from ids to names.  elements has the label of an  *)
(* id in the page ([name, shown]; at most one, because plotLabel looks for *)
(* one before it makes one), labels the ids the widget has looked up.      *)
(* faint has the nodes below the alpha that a label is drawn for, outside  *)
(* those that are not within the canvas.                                   *)
(*                                                                         *)
(* An operation is called when the last one has ended; a plain animation   *)
(* may cut another short.  view.kept has the ids removed while their label *)
(* stayed, view.cut says that an animation that had hidden the labels was  *)
(* cut short, view.plotted that nothing changed since the last plot.       *)
(***************************************************************************)
EXTENDS Naturals, Functions, TLC

CONSTANTS Graphs,  \* a set of functions from ids to names: connected graphs with the node Root
          Root,    \* a node that is never removed
          Budget   \* calls of the page

VARIABLES view, busy, animation, left

Still == [do |-> "nothing", hideLabels |-> FALSE, nodes |-> {}]

Nodes(v) == DOMAIN v.graph

-----------------------------------------------------------------------------
(* getLabel remembers the id, whether or not the page has the element. *)
getLabel(v, id) == [v EXCEPT !.labels = @ \cup {id}]

(* disposeLabel of a set of ids *)
disposeLabel(v, ids) == [v EXCEPT !.elements = Restrict(@, DOMAIN @ \ ids)]

(* Mutant: force is not looked at. *)
lazy_clearLabels(v, force) ==
    LET gone == v.labels \ Nodes(v)
    IN  [disposeLabel(v, gone) EXCEPT !.labels = @ \ gone, !.kept = @ \ gone]

clearLabels(v, force) ==
    LET gone == IF force THEN v.labels ELSE v.labels \ Nodes(v)
    IN  [disposeLabel(v, gone) EXCEPT !.labels = @ \ gone, !.kept = @ \ gone]

(* hideLabel(node, false) *)
hideLabel(v, id) ==
    LET u == getLabel(v, id)
    IN  IF id \in DOMAIN u.elements THEN [u EXCEPT !.elements[id].shown = FALSE] ELSE u

(* placeLabel shows a label that fits in the canvas. *)
placeLabel(v, id) == [v EXCEPT !.elements[id].shown = id \notin v.outside]

(* plotLabel: onCreateLabel writes the name, once. *)
plotLabel(v, id) ==
    LET u == getLabel(v, id)
    IN  IF id \in DOMAIN u.elements THEN placeLabel(u, id)
        ELSE placeLabel([u EXCEPT !.elements = @ @@ (id :> [name |-> v.graph[id], shown |-> FALSE])], id)

RECURSIVE PlotLabels(_, _)
PlotLabels(v, ids) ==
    IF ids = {} THEN [v EXCEPT !.plotted = TRUE]
    ELSE LET id == CHOOSE id \in ids : TRUE
         IN  PlotLabels(IF id \in v.faint THEN hideLabel(v, id) ELSE plotLabel(v, id), ids \ {id})

plot(v) == PlotLabels(v, Nodes(v))

(* hideLabels *)
hideLabels(v, hide) == [v EXCEPT !.hidden = hide]

-----------------------------------------------------------------------------
(* Graph.removeNode, of a set of nodes. *)
Without(v, ids) ==
    [v EXCEPT !.graph = Restrict(@, Nodes(v) \ ids), !.faint = @ \ ids, !.outside = @ \ ids,
              !.kept = @ \cup (ids \cap DOMAIN v.elements), !.plotted = FALSE]

(* Graph.addNode leaves a node that is there as it is. *)
With(v, graph) == [v EXCEPT !.graph = @ @@ graph, !.plotted = FALSE]

Calls == left > 0 /\ left' = left - 1 /\ animation = Still /\ UNCHANGED busy

AtOnce(v) == view' = v /\ UNCHANGED animation

(* Plot.animate *)
animate(v, hide, do, ids) ==
    /\ view' = IF hide THEN hideLabels(v, TRUE) ELSE v
    /\ animation' = [do |-> do, hideLabels |-> hide, nodes |-> ids]

(* Loader.loadJSON and refresh *)
loadJSON(graph) ==
    /\ Calls
    /\ AtOnce(plot([clearLabels(view, TRUE) EXCEPT !.graph = graph, !.faint = {}, !.outside = {}]))

(* Op.removeNode; "fade:seq" clears the labels before it moves the others,  *)
(* "nothing" and "fade:con" do not clear them.                              *)
removeNode(id, type, hide) ==
    /\ Calls
    /\ id \in Nodes(view) \ {Root}
    /\ \/ type = "nothing" /\ AtOnce(Without(view, {id}))
       \/ type = "replot" /\ AtOnce(plot(clearLabels(Without(view, {id}), FALSE)))
       \/ type \in {"fade:seq", "fade:con"} /\ animate(view, hide, type, {id})

(* Op.sum *)
sum(graph, type) ==
    /\ Calls
    /\ \/ type = "nothing" /\ AtOnce(With(view, graph))
       \/ type = "replot" /\ AtOnce(plot(With(plot(view), graph)))

(* Op.morph, "replot": the labels go first, and come back with refresh. *)
morph(graph) ==
    /\ Calls
    /\ LET u == With(clearLabels(view, TRUE), graph)
       IN  AtOnce(plot(plot(Without(u, Nodes(u) \ DOMAIN graph))))

(* Op.contract and expand with "replot", of the nodes below one. *)
contract(ids) == Calls /\ AtOnce(plot([view EXCEPT !.faint = (ids \cap Nodes(view)) \ {Root}]))

(* The canvas is moved, and plotted again. *)
Pan(ids) == Calls /\ AtOnce(plot([view EXCEPT !.outside = ids \cap Nodes(view)]))

(* An animation of the page's own, or of onClick.  What was to be done at   *)
(* the end of the one it cuts short is not done.                            *)
Animate(hide) ==
    /\ left > 0 /\ left' = left - 1 /\ UNCHANGED busy
    /\ animation.do \in {"nothing", "move"}
    /\ animate([view EXCEPT !.cut = ~hide /\ (@ \/ animation.hideLabels)], hide, "move", {})

-----------------------------------------------------------------------------

(* complete(): the labels come back, and the view is plotted. *)
Completed(v) == plot(IF animation.hideLabels THEN hideLabels(v, FALSE) ELSE v)

(* The end of an animation, after which the nodes "ids" are outside, with   *)
(* the onComplete of removeNode.  Nodes that have faded are plotted once    *)
(* more before they are removed.                                            *)
AnimationEnd(ids) ==
    LET v == Completed([view EXCEPT !.faint = @ \cup animation.nodes, !.outside = ids \cap Nodes(view)])
        u == Without(v, animation.nodes)
    IN  /\ animation # Still
        /\ \/ animation.do = "move" /\ view' = v /\ animation' = Still
           \/ animation.do = "fade:con" /\ view' = u /\ animation' = Still
           \/ animation.do = "fade:seq" /\ animate(clearLabels(u, FALSE), animation.hideLabels, "move", {})
        /\ UNCHANGED <<busy, left>>

Init ==
    /\ \E graph \in Graphs :
          view = plot([graph |-> graph, labels |-> {}, elements |-> <<>>, faint |-> {}, outside |-> {},
                       hidden |-> FALSE, kept |-> {}, cut |-> FALSE, plotted |-> TRUE])
    /\ busy = FALSE /\ animation = Still /\ left = Budget

Ids == UNION {DOMAIN graph : graph \in Graphs}

Next ==
    \/ \E graph \in Graphs : loadJSON(graph) \/ morph(graph)
    \/ \E graph \in Graphs, type \in {"nothing", "replot"} : sum(graph, type)
    \/ \E id \in Ids, type \in {"nothing", "replot", "fade:seq", "fade:con"}, hide \in BOOLEAN :
          removeNode(id, type, hide)
    \/ \E ids \in SUBSET Ids : contract(ids) \/ Pan(ids) \/ AnimationEnd(ids)
    \/ \E hide \in BOOLEAN : Animate(hide)

Spec == Init /\ [][Next]_<<view, busy, animation, left>>

-----------------------------------------------------------------------------
(* After a plot the labels the page shows are those of the nodes that can   *)
(* be seen, and each has the name of its node, over loading, removing and   *)
(* adding nodes in any order.  (The label of a node removed without         *)
(* clearLabels stays as it was, also for a new node with that id.)          *)
LabelsRight ==
    view.plotted =>
        /\ \A id \in DOMAIN view.elements \ view.kept :
              id \in Nodes(view) /\ view.elements[id].name = view.graph[id]
        /\ \A id \in Nodes(view) :
              (id \in DOMAIN view.elements /\ view.elements[id].shown) <=> id \notin view.faint \cup view.outside

(* When no animation runs the labels are not hidden, unless one that had    *)
(* hidden them was cut short by one that did not.                           *)
LabelsReturn == animation = Still /\ ~view.cut => ~view.hidden
=============================================================================
