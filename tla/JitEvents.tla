----------------------------- MODULE JitEvents ------------------------------
(***************************************************************************)
(* The mouse events of a JIT visualization (rfweb/js/jit/jit.js):          *)
(* MouseEventsManager and Extras.Classes.Events with "Native" events (dom  *)
(* is false, enableForEdges too).  MoveCalls and UpCalls say which of the  *)
(* visualization's callbacks a handler calls.                              *)
(*                                                                         *)
(* A node object is [id, old]; old once another graph has been loaded: the *)
(* handlers keep the object, not the id.                                   *)
(***************************************************************************)
EXTENDS Naturals, Sequences, SequencesExt, FiniteSets

VARIABLES hovered, pressed, moved

eventVars == <<hovered, pressed, moved>>

NoNode == [id |-> "none", old |-> FALSE]

EventsInit == hovered = NoNode /\ pressed = NoNode /\ moved = FALSE

(* makeEventObject.getNode: the first node of the graph, in its order, that *)
(* is under the pointer.                                                    *)
getNode(ids, over) ==
    LET hits == SelectSeq(ids, LAMBDA n : n \in over)
    IN  IF hits = <<>> THEN NoNode ELSE [id |-> hits[1], old |-> FALSE]

(* The objects held when another graph is loaded. *)
Aged(node) == IF node = NoNode THEN node ELSE [node EXCEPT !.old = TRUE]

(* onMouseMove with the node found under the pointer; "still" if the node   *)
(* that was hovered contains it.  MoveCalls is the callback it calls.       *)
MoveCalls == IF pressed # NoNode THEN "onDragMove" ELSE "none"

onMouseMove(found, still) ==
    \/ /\ pressed # NoNode
       /\ moved' = TRUE
       /\ UNCHANGED <<hovered, pressed>>
    \/ /\ pressed = NoNode
       /\ hovered' = IF hovered # NoNode /\ still THEN hovered ELSE found
       /\ UNCHANGED <<pressed, moved>>

(* onMouseOut of the canvas *)
onMouseOut == hovered' = NoNode /\ UNCHANGED <<pressed, moved>>

(* onMouseDown, of either button *)
onMouseDown(found) == pressed' = found /\ UNCHANGED <<hovered, moved>>

(* onMouseUp: the callback it calls, a right click on the hovered node and  *)
(* a click or the end of a drag on the pressed one, and what it does after  *)
(* that.                                                                    *)
UpCalls(isRightClick) ==
    CASE ~moved /\ isRightClick -> "onRightClick"
      [] ~moved /\ ~isRightClick -> "onClick"
      [] moved /\ pressed # NoNode -> "onDragEnd"
      [] OTHER -> "none"

onMouseUp ==
    /\ pressed' = NoNode
    /\ moved' = IF pressed # NoNode THEN FALSE ELSE moved
    /\ UNCHANGED hovered
=============================================================================
