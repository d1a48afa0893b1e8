---------------------------- MODULE NetworkPage -----------------------------
(***************************************************************************)
(* The network tab of rfweb (rfweb/js/rf/network.js): a graph of the       *)
(* network that is fetched every five seconds, that the user may drag,     *)
(* recentre and select a node in, and the panel with the statistics of the *)
(* selected node.  Everything is asynchronous: the answers of the server   *)
(* arrive in any order, or not at all, between any two mouse events.       *)
(*                                                                         *)
(* A topology is a sequence of rows [id, links].  A position is the layout *)
(* it is part of ("laid" around a root), "dragged", or "between" two       *)
(* layouts, while or because an animation did not reach its end.           *)
(***************************************************************************)
EXTENDS JitEvents, Functions, TLC

CONSTANTS Topologies,   \* the topologies the server may report
          MaxRequests   \* bound on the requests in flight, of each kind

VARIABLES rgraph,         \* the visualization (network.js: rgraph)
          animation,      \* the animation rgraph.onClick started
          previous_pos, selected_node,
          info,           \* the node named and the node described by the panel
          timers,         \* the live intervals; whether interval_id is one
          asked, answers, \* requests for /topology: not answered yet, answered
          switches,       \* requests for /switch/<id>
          topology,       \* what the server would answer
          buttons,
          left,           \* how often the user and the network may still act
          clean           \* no click raised an exception, no release was outside
                          \* the canvas, no second button was pressed in a drag

pageVars == <<rgraph, animation, previous_pos, selected_node, info>>

netVars == <<asked, answers, switches, topology>>

networkVars == <<pageVars, timers, netVars, buttons, left, clean, eventVars>>

None == "none"

IdSeq(t) == [i \in DOMAIN Topologies[t] |-> Topologies[t][i].id]

Ids(t) == ToSet(IdSeq(t))

AllIds == UNION {Ids(t) : t \in DOMAIN Topologies}

(* What rfweb.py lists: at least one element, and the end of every link. *)
ASSUME TopologiesListed ==
    \A t \in DOMAIN Topologies :
        /\ Topologies[t] # <<>>
        /\ \A row \in ToSet(Topologies[t]) : ToSet(row.links) \subseteq Ids(t)

Linked(t, m, n) ==
    \E row \in ToSet(Topologies[t]) : \/ row.id = m /\ n \in ToSet(row.links)
                                      \/ row.id = n /\ m \in ToSet(row.links)

(* The nodes that can be reached from r: those computeLevels gives a depth. *)
Within(t, r) ==
    LET ball[k \in 0..Cardinality(AllIds)] ==
            IF k = 0 THEN {r} ELSE {n \in Ids(t) : n \in ball[k - 1]
                                        \/ \E m \in ball[k - 1] : Linked(t, m, n)}
    IN  ball[Cardinality(AllIds)]

Reached == [t \in DOMAIN Topologies |-> [r \in Ids(t) |-> Within(t, r)]]

(* Where compute puts the nodes: those it does not reach stay at the origin. *)
Laid(t, root) == [n \in Ids(t) |-> IF n \in Reached[t][root] THEN root ELSE "origin"]

Undefined == [built |-> FALSE, topology |-> 1, root |-> None, levels |-> None,
              busy |-> FALSE, pos |-> <<>>]

NoAnimation == [on |-> FALSE, old |-> FALSE, root |-> None]

Shown == IF rgraph.built THEN Ids(rgraph.topology) ELSE {}

(* getParents(id) # [], with the depths of the last compute. *)
HasParent(id) ==
    /\ rgraph.levels \in Shown
    /\ id \in Reached[rgraph.topology][rgraph.levels] \ {rgraph.levels}

-----------------------------------------------------------------------------
network_start_updating(t) == [live |-> t.live + 1, named |-> TRUE]

(* clearInterval; of an interval that is not live it does nothing. *)
network_stop_updating(t) ==
    IF t.named THEN [live |-> t.live - 1, named |-> FALSE] ELSE t

(* node_update; more than MaxRequests requests for one node are not told    *)
(* apart from MaxRequests.                                                  *)
node_update(id) ==
    switches' = [switches EXCEPT ![id] = IF @ < MaxRequests THEN @ + 1 ELSE @]

-----------------------------------------------------------------------------

(* Events.onDragMove: node.pos is that of the object pressed.  When it is   *)
(* of an earlier graph the picture does not change, but previous_pos may    *)
(* hold that very object.                                                   *)
onDragMove(node) ==
    /\ timers' = network_stop_updating(timers)
    /\ rgraph' = IF node.old THEN rgraph ELSE [rgraph EXCEPT !.pos[node.id] = "dragged"]
    /\ \/ UNCHANGED previous_pos
       \/ /\ node.old /\ node.id \in DOMAIN previous_pos \ Shown
          /\ previous_pos' = [previous_pos EXCEPT ![node.id] = "dragged"]
    /\ UNCHANGED <<animation, selected_node, info, netVars>>

onDragEnd(node) ==
    /\ timers' = network_start_updating(timers)
    /\ UNCHANGED <<pageVars, netVars>>

Nothing == UNCHANGED <<pageVars, timers, netVars>>

onClick(node) ==
    \/ node = NoNode /\ Nothing
    \/ /\ node # NoNode
       /\ selected_node' = node.id
       /\ node_update(node.id)
       /\ UNCHANGED <<rgraph, animation, previous_pos, info, timers, asked, answers, topology>>

(* rgraph.onClick of a node that has a parent: the whole graph moves. *)
RGraphOnClick(id) ==
    IF rgraph.root = id \/ rgraph.busy
    THEN UNCHANGED <<rgraph, animation>>
    ELSE /\ HasParent(id)
         /\ rgraph' = [rgraph EXCEPT !.busy = TRUE, !.root = id, !.levels = id,
                                     !.pos = [n \in DOMAIN @ |-> "between"]]
         /\ animation' = [on |-> TRUE, old |-> FALSE, root |-> id]

onRightClick(node) ==
    \/ node = NoNode /\ Nothing
    \/ /\ node # NoNode
       /\ RGraphOnClick(node.id)
       /\ timers' = network_start_updating(network_stop_updating(timers))
       /\ previous_pos' = <<>>
       /\ UNCHANGED <<selected_node, info, netVars>>

(* onRightClick when rgraph.onClick raises an exception: the hovered node   *)
(* is not in the graph any more, or has no parent.  The updates are stopped *)
(* and the visualization stays busy; the rest of onMouseUp is skipped.      *)
RightClickRaises(node) ==
    /\ node # NoNode
    /\ rgraph.root # node.id /\ ~rgraph.busy /\ ~HasParent(node.id)
    /\ timers' = network_stop_updating(timers)
    /\ previous_pos' = <<>>
    /\ rgraph' = [rgraph EXCEPT !.busy = TRUE, !.root = node.id,
                                !.levels = IF node.id \in Shown THEN node.id ELSE @]
    /\ UNCHANGED <<animation, selected_node, info, netVars>>

-----------------------------------------------------------------------------
(* The mouse, over the canvas of a graph that has been built. *)
Move ==
    /\ \E over \in SUBSET Shown, still \in BOOLEAN :
           onMouseMove(getNode(IdSeq(rgraph.topology), over), still)
    /\ \/ MoveCalls = "onDragMove" /\ onDragMove(pressed)
       \/ MoveCalls = "none" /\ Nothing
    /\ UNCHANGED <<buttons, left, clean>>

Leave ==
    /\ hovered # NoNode /\ onMouseOut
    /\ Nothing /\ UNCHANGED <<buttons, left, clean>>

Press(b) ==
    /\ b \notin buttons /\ buttons' = buttons \cup {b}
    /\ left.presses > 0 /\ left' = [left EXCEPT !.presses = @ - 1]
    /\ \E over \in SUBSET Shown : onMouseDown(getNode(IdSeq(rgraph.topology), over))
    /\ clean' = (clean /\ ~moved)
    /\ Nothing

Release(b) ==
    /\ b \in buttons /\ buttons' = buttons \ {b}
    /\ LET calls == UpCalls(b = "right")
       IN  \/ /\ \/ calls = "onRightClick" /\ onRightClick(hovered)
                 \/ calls = "onClick" /\ onClick(pressed)
                 \/ calls = "onDragEnd" /\ onDragEnd(pressed)
                 \/ calls = "none" /\ Nothing
              /\ onMouseUp
              /\ UNCHANGED clean
           \/ /\ calls = "onRightClick" /\ RightClickRaises(hovered)
              /\ clean' = FALSE
              /\ UNCHANGED eventVars
    /\ UNCHANGED left

(* The button is released outside the canvas: no handler runs. *)
ReleaseOutside(b) ==
    /\ b \in buttons /\ buttons' = buttons \ {b}
    /\ clean' = FALSE
    /\ Nothing /\ UNCHANGED <<eventVars, left>>

-----------------------------------------------------------------------------
(* network_update: the interval's tick, when there is room for a request. *)
InFlight == asked + FoldFunction(+, 0, answers)

network_update == InFlight < MaxRequests /\ asked' = asked + 1

Tick ==
    /\ timers.live > 0
    /\ network_update
    /\ UNCHANGED <<pageVars, timers, answers, switches, topology, buttons, left, clean, eventVars>>

(* The server answers with what it has now. *)
Answer ==
    /\ asked > 0 /\ asked' = asked - 1
    /\ answers' = [answers EXCEPT ![topology] = @ + 1]
    /\ UNCHANGED <<pageVars, timers, switches, topology, buttons, left, clean, eventVars>>

Build(t) ==
    LET root == IF "rfproxy" \in Ids(t) THEN "rfproxy" ELSE IdSeq(t)[1]
    IN  /\ rgraph' = [built |-> TRUE, topology |-> t, root |-> root, levels |-> root,
                      busy |-> FALSE, pos |-> Laid(t, root)]
        /\ hovered' = NoNode /\ pressed' = NoNode /\ moved' = FALSE
        /\ UNCHANGED <<animation, previous_pos, switches>>

(* Mutant: the positions are restored before the layout. *)
unrestored_Update(t) ==
    LET root  == IdSeq(t)[1]
        saved == rgraph.pos @@ previous_pos
    IN  /\ previous_pos' = saved
        /\ rgraph' = [rgraph EXCEPT !.topology = t, !.root = root, !.levels = root,
                                    !.pos = Laid(t, root)]
        /\ animation' = [animation EXCEPT !.old = TRUE]
        /\ hovered' = Aged(hovered) /\ pressed' = Aged(pressed) /\ UNCHANGED moved
        /\ IF selected_node = None THEN UNCHANGED switches ELSE node_update(selected_node)

(* Mutant: the panel is only filled by a click. *)
silent_Update(t) ==
    LET root  == IdSeq(t)[1]
        saved == rgraph.pos @@ previous_pos
    IN  /\ previous_pos' = saved
        /\ rgraph' = [rgraph EXCEPT !.topology = t, !.root = root, !.levels = root,
                                    !.pos = [n \in Ids(t) |-> IF n \in DOMAIN saved THEN saved[n]
                                                              ELSE Laid(t, root)[n]]]
        /\ animation' = [animation EXCEPT !.old = TRUE]
        /\ hovered' = Aged(hovered) /\ pressed' = Aged(pressed) /\ UNCHANGED <<moved, switches>>

(* The callback of network_update once the graph exists: the root is the    *)
(* first node of the topology, whatever it was before.                      *)
Update(t) ==
    LET root  == IdSeq(t)[1]
        saved == rgraph.pos @@ previous_pos
    IN  /\ previous_pos' = saved
        /\ rgraph' = [rgraph EXCEPT !.topology = t, !.root = root, !.levels = root,
                                    !.pos = [n \in Ids(t) |-> IF n \in DOMAIN saved THEN saved[n]
                                                              ELSE Laid(t, root)[n]]]
        /\ animation' = [animation EXCEPT !.old = TRUE]
        /\ hovered' = Aged(hovered) /\ pressed' = Aged(pressed) /\ UNCHANGED moved
        /\ IF selected_node = None THEN UNCHANGED switches ELSE node_update(selected_node)

Deliver(t) ==
    /\ answers[t] > 0 /\ answers' = [answers EXCEPT ![t] = @ - 1]
    /\ IF rgraph.built THEN Update(t) ELSE Build(t)
    /\ UNCHANGED <<selected_node, info, timers, asked, topology, buttons, left, clean>>

(* The callback of node_update: show_info of the node that is selected now, *)
(* with the data of the node that was asked for.  Without such a node it    *)
(* raises and the panel stays as it is.                                     *)
DeliverSwitch(id) ==
    /\ switches[id] > 0 /\ switches' = [switches EXCEPT ![id] = @ - 1]
    /\ info' = IF selected_node \in Shown THEN [title |-> selected_node, data |-> id] ELSE info
    /\ UNCHANGED <<rgraph, animation, previous_pos, selected_node, timers, asked, answers,
                   topology, buttons, left, clean, eventVars>>

(* A request fails, or is answered null. *)
Lose ==
    /\ left.losses > 0 /\ left' = [left EXCEPT !.losses = @ - 1]
    /\ \/ asked > 0 /\ asked' = asked - 1 /\ UNCHANGED switches
       \/ \E id \in AllIds : /\ switches[id] > 0
                             /\ switches' = [switches EXCEPT ![id] = @ - 1]
                             /\ UNCHANGED asked
    /\ UNCHANGED <<pageVars, timers, answers, topology, buttons, clean, eventVars>>

ChangeTopology ==
    /\ left.changes > 0 /\ left' = [left EXCEPT !.changes = @ - 1]
    /\ topology' \in DOMAIN Topologies \ {topology}
    /\ UNCHANGED <<pageVars, timers, asked, answers, switches, buttons, clean, eventVars>>

(* The animation moves the nodes of the graph it was started on, and lets   *)
(* go of "busy" on whichever graph is shown.                                *)
AnimationEnd ==
    /\ animation.on /\ animation' = NoAnimation
    /\ rgraph' = [rgraph EXCEPT !.busy = FALSE,
                                !.pos = IF animation.old THEN @
                                        ELSE Laid(rgraph.topology, animation.root)]
    /\ previous_pos' = [n \in DOMAIN previous_pos |->
                           IF animation.old /\ n \notin Shown /\ previous_pos[n] = "between"
                           THEN animation.root ELSE previous_pos[n]]
    /\ UNCHANGED <<selected_node, info, timers, netVars, buttons, left, clean, eventVars>>
=============================================================================
