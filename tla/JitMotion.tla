------------------------------ MODULE JitMotion -----------------------------
(***************************************************************************)
(* The two views of the JIT library (rfweb/js/jit/jit.js) that move as a   *)
(* whole: Sunburst, which turns (rotate, rotateAngle, Polar.interpolate),  *)
(* and Hypertree, which is shifted in its disk (move, onClick, reposition, *)
(* moebiusTransformation).                                                 *)
(*                                                                         *)
(* A position is one number: of a sunburst the angle, as a fraction of the *)
(* circle; of a hypertree the place on a diameter of the disk of radius 1. *)
(* An animation is seen when it starts, half way and at its end.  A view   *)
(* is laid out again only while it is not moving.                          *)
(*                                                                         *)
(* view.target is the node the last call was for, view.mixed says that the *)
(* last rotate met positions and end positions that differed (a "replot"   *)
(* moves only the first, an animation under way is not yet at the second), *)
(* view.kept that the last call was refresh(true).                         *)
(***************************************************************************)
EXTENDS JitFraction

CONSTANTS Configs  \* sets of [kind, layout (a function to positions), root, calls]

VARIABLES view, busy, animation, left

vars == <<view, busy, animation, left>>

Sunburst == view.config.kind = "sunburst"

NoNode == "none"

Still == [do |-> "nothing", by |-> Zero]

One == Whole(1)

Calls == left > 0 /\ left' = left - 1

-----------------------------------------------------------------------------
(* Polar.interpolate.  ch brings an angle into one turn: % keeps the sign   *)
(* of its left side.                                                        *)
ch(t) == IF t[1] < 0 THEN Plus(Frac(-((-t[1]) % t[2]), t[2]), One) ELSE Frac(t[1] % t[2], t[2])

(* The shorter way from et to tt; half a turn always goes the same way.     *)
interpolate(tt, et, delta) ==
    LET diff == IF Less(tt, et) THEN Minus(et, tt) ELSE Minus(tt, et)
    IN  IF Less(diff, Frac(1, 2)) THEN ch(Plus(et, Times(Minus(tt, et), delta)))
        ELSE IF Less(et, tt)
        THEN ch(Plus(et, Times(Minus(Minus(tt, One), et), delta)))
        ELSE IF diff = Frac(1, 2)
        THEN ch(Plus(Minus(et, One), Times(Minus(tt, et), delta)))
        ELSE ch(Plus(Minus(et, One), Times(Minus(tt, Minus(et, One)), delta)))

(* Complex.moebiusTransformation on the diameter. *)
moebiusTransformation(z, c) == Over(Plus(z, c), Plus(One, Times(c, z)))

(* Graph.Util.moebiusTransformation, of every node; it takes pos[i] with    *)
(* the other sign.                                                          *)
MoebiusAll(positions, by) ==
    [n \in DOMAIN positions |-> moebiusTransformation(positions[n], Minus(Zero, by))]

(* The interpolators "polar" and "moebius". *)
Moved(delta) ==
    IF Sunburst
    THEN [n \in DOMAIN view.pos |-> interpolate(view.end[n], view.start[n], delta)]
    ELSE MoebiusAll(view.start, Times(animation.by, delta))

(* Plot.prepare: an animation starts where the nodes are. *)
prepare(v) == [v EXCEPT !.start = v.pos]

-----------------------------------------------------------------------------
Turned(pos, theta) ==
    [n \in DOMAIN pos |-> LET t == Plus(pos[n], theta) IN IF t[1] < 0 THEN Plus(t, One) ELSE t]

(* Sunburst.rotateAngle turns the end positions or, for "replot", the       *)
(* current ones; a running animation is paused where it is.                 *)
rotateAngle(v, theta, method) ==
    /\ UNCHANGED busy
    /\ \/ /\ method = "animate"
          /\ view' = [prepare(v) EXCEPT !.end = Turned(@, theta),
                               !.mixed = \E n \in DOMAIN v.pos : ch(v.pos[n]) # ch(v.end[n])]
          /\ animation' = [do |-> "polar", by |-> theta]
       \/ /\ method = "replot"
          /\ view' = [v EXCEPT !.pos = Turned(@, theta), !.mixed = animation # Still]
          /\ UNCHANGED animation

(* Mutant: the node goes on by its own angle instead of back. *)
away_rotate(node, method) ==
    /\ Sunburst /\ Calls
    /\ rotateAngle([view EXCEPT !.target = node], view.pos[node], method)

(* Sunburst.rotate *)
rotate(node, method) ==
    /\ Sunburst /\ Calls
    /\ rotateAngle([view EXCEPT !.target = node], Minus(Zero, view.pos[node]), method)

RotateAngle(theta, method) ==
    /\ Sunburst /\ Calls
    /\ rotateAngle([view EXCEPT !.target = NoNode], theta, method)

-----------------------------------------------------------------------------
(* Hypertree.onClick, Hypertree.move *)
onClick(node) ==
    /\ ~Sunburst /\ Calls
    /\ IF busy THEN UNCHANGED <<view, busy, animation>>
       ELSE /\ busy' = TRUE
            /\ view' = [prepare(view) EXCEPT !.target = node]
            /\ animation' = [do |-> "moebius", by |-> view.pos[node]]

(* Hypertree.reposition: the layout, shifted so that the root stays. *)
reposition(v) ==
    [v EXCEPT !.end = MoebiusAll(v.config.layout, Minus(Zero, v.pos[v.config.root]))]

(* Hypertree.refresh(true) or refresh(), Sunburst.refresh: every position   *)
(* is that of the layout.                                                   *)
refresh(keep) ==
    /\ Calls /\ animation = Still
    /\ LET v   == IF Sunburst \/ ~keep THEN [view EXCEPT !.end = view.config.layout] ELSE reposition(view)
       IN  view' = [v EXCEPT !.pos = v.end, !.start = v.end, !.mixed = FALSE,
                             !.target = NoNode, !.kept = keep /\ ~Sunburst]
    /\ UNCHANGED <<busy, animation>>

AnimationStep ==
    /\ animation # Still
    /\ view' = [view EXCEPT !.pos = Moved(Frac(1, 2))]
    /\ UNCHANGED <<busy, animation, left>>

AnimationEnd ==
    /\ animation # Still
    /\ view' = [view EXCEPT !.pos = Moved(One)]
    /\ busy' = FALSE /\ animation' = Still
    /\ UNCHANGED left

-----------------------------------------------------------------------------
Init ==
    \E c \in Configs :
        /\ view = [config |-> c, pos |-> c.layout, start |-> c.layout, end |-> c.layout,
                   target |-> NoNode, mixed |-> FALSE, kept |-> FALSE]
        /\ busy = FALSE /\ animation = Still /\ left = c.calls

Next ==
    \/ \E method \in {"animate", "replot"} :
          \/ \E node \in DOMAIN view.pos : rotate(node, method)
          \/ \E theta \in {Frac(1, 2), Frac(-1, 2), Frac(-1, 4)} : RotateAngle(theta, method)
    \/ \E node \in DOMAIN view.pos : onClick(node)
    \/ \E keep \in BOOLEAN : refresh(keep)
    \/ AnimationStep
    \/ AnimationEnd

Spec == Init /\ [][Next]_vars

-----------------------------------------------------------------------------
(* A sunburst turns as one: at every moment of a rotation, one that was cut *)
(* short included, the angles between the nodes are those of the layout, as *)
(* long as no angle has grown past a full turn (Polar.interpolate and       *)
(* rotateAngle, jit.js:3423, 11705).                                        *)
Rigid ==
    Sunburst /\ (\A n \in DOMAIN view.pos : AtMost(view.end[n], One) /\ AtMost(view.pos[n], One)
                                              /\ AtMost(view.start[n], One)) =>
        \A m, n \in DOMAIN view.pos :
            Minus(Minus(view.pos[m], view.pos[n]),
                  Minus(view.config.layout[m], view.config.layout[n]))[2] = 1

(* When a view comes to rest the node it was moved for is where it was      *)
(* asked to be: on the right of a sunburst whose positions and end          *)
(* positions agreed, in the middle of a hypertree (rotate, onClick,         *)
(* jit.js:11683, 16390).                                                    *)
TargetReached ==
    animation = Still /\ view.target # NoNode /\ ~view.mixed => view.pos[view.target][2] = 1
                                                       /\ (~Sunburst => view.pos[view.target] = Zero)

(* The nodes of a hypertree stay inside the disk and in the order they were *)
(* laid out in, half way through a move too (moebiusTransformation,         *)
(* jit.js:16121).                                                           *)
DiskKept ==
    ~Sunburst =>
        /\ \A n \in DOMAIN view.pos : Less(Whole(-1), view.pos[n]) /\ Less(view.pos[n], One)
        /\ \A m, n \in DOMAIN view.pos :
              Less(view.config.layout[m], view.config.layout[n]) => Less(view.pos[m], view.pos[n])

(* refresh(true) leaves the root of a hypertree where it is (reposition,    *)
(* jit.js:16345).                                                           *)
RootStays ==
    animation = Still /\ animation' = Still /\ view'.kept =>
        view'.pos[view.config.root] = view.pos[view.config.root]
=============================================================================
