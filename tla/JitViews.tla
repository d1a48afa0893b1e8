------------------------------ MODULE JitViews ------------------------------
(***************************************************************************)
(* The visualizations of the JIT library (rfweb/js/jit/jit.js), one at a   *)
(* time: kind says which, and view, busy, animation and left (the calls a  *)
(* page may still make) are its state.  "tree" and "treemap" are layouts   *)
(* and "node" and "edge" shapes, with the input as their only state.       *)
(***************************************************************************)
EXTENDS Integers, Sequences

CONSTANTS STTree, STConfigs,        \* JitST
          TMTree, TMConfigs,        \* JitTM
          Charts,                   \* JitCharts
          ExtrasConfigs,            \* JitExtras
          MotionConfigs,            \* JitMotion
          Graphs, Root, Budget,     \* JitLabels
          Trees,                    \* sets of [json, config, size, orn] for JitTree
          Treemaps,                 \* sets of [c, layout, tree] for JitTreemap
          NodeShapes, EdgeShapes,   \* nodes and edges for JitShapes
          PointerPlaces             \* the points tried with them

VARIABLES kind, view, busy, animation, left

vars == <<kind, view, busy, animation, left>>

SpaceTree == INSTANCE JitST WITH Tree <- STTree, Configs <- STConfigs

Treemap == INSTANCE JitTM WITH Tree <- TMTree, Configs <- TMConfigs

Chart == INSTANCE JitCharts

Pointer == INSTANCE JitExtras WITH Configs <- ExtrasConfigs

Motion == INSTANCE JitMotion WITH Configs <- MotionConfigs

Labels == INSTANCE JitLabels

TreeLayout == INSTANCE JitTree

AreaLayout == INSTANCE JitTreemap

Shapes == INSTANCE JitShapes

Init ==
    \/ kind = "ST" /\ SpaceTree!Init
    \/ kind = "TM" /\ Treemap!Init
    \/ kind = "chart" /\ Chart!Init
    \/ kind = "extras" /\ Pointer!Init
    \/ kind = "motion" /\ Motion!Init
    \/ kind = "labels" /\ Labels!Init
    \/ kind = "tree" /\ view \in Trees /\ busy = FALSE /\ animation = "none" /\ left = 0
    \/ kind = "treemap" /\ view \in Treemaps /\ busy = FALSE /\ animation = "none" /\ left = 0
    \/ kind = "node" /\ view \in NodeShapes /\ busy = FALSE /\ animation = "none" /\ left = 0
    \/ kind = "edge" /\ view \in EdgeShapes /\ busy = FALSE /\ animation = "none" /\ left = 0

Next ==
    /\ UNCHANGED kind
    /\ \/ kind = "ST" /\ SpaceTree!Next
       \/ kind = "TM" /\ Treemap!Next
       \/ kind = "chart" /\ Chart!Next
       \/ kind = "extras" /\ Pointer!Next
       \/ kind = "motion" /\ Motion!Next
       \/ kind = "labels" /\ Labels!Next

Spec == Init /\ [][Next]_vars

-----------------------------------------------------------------------------

(* The layouts against what defines them, for every small input: in a tree  *)
(* the nodes of a level keep the distance asked for, and the mirror image   *)
(* of a tree, aligned to the other side, is the mirror image of its layout  *)
(* (fit, fitlist, design); a JSON tree survives loading and saving, and     *)
(* walking it agrees with walking the graph (construct, toJSON, getParent,  *)
(* getSubtree, prune); the children of a node of a treemap or an icicle     *)
(* fill its rectangle, without overlapping, in proportion to their areas    *)
(* (computePositions of SliceAndDice, Squarified, Strip and Icicle).        *)
LayoutsRight ==
    /\ kind = "tree" =>
          LET v == TreeLayout!LoadedTree(view.json, view.config, view.size, view.orn)
              pos == TreeLayout!computePositions(v)
          IN  /\ TreeLayout!Apart(v, pos, DOMAIN pos \ {v.root})
              /\ TreeLayout!Mirrored(v)
              /\ TreeLayout!toJSONTree(v.graph, v.depth, v.root) = view.json
              /\ TreeLayout!JsonWalks(v.graph, v.depth, view.json)
    /\ kind = "treemap" => AreaLayout!Tiles(view.c, view.layout,
                                            AreaLayout!Treemap(view.c, view.layout, view.tree), view.tree)



(* Sunburst: at every moment of a rotation, one that was cut short          *)
(* included, the angles between the nodes are those of the layout.          *)
(* Hypertree: nodes stay inside the disk and in order, half way through a   *)
(* move too.  Both: at rest the node the view was moved for is where it was *)
(* asked to be (Polar.interpolate, rotate, move, moebiusTransformation).    *)
MotionRight == kind = "motion" => Motion!Rigid /\ Motion!TargetReached /\ Motion!DiskKept

(* After a plot the labels in the page are those of the nodes that can be   *)
(* seen, with their names, whatever was loaded, removed and added before,   *)
(* and labels hidden for an animation come back when it ends (clearLabels,  *)
(* plotLabel, hideLabel, animate).                                          *)
LabelsRight == kind = "labels" => Labels!LabelsRight /\ Labels!LabelsReturn

(* While the canvas is dragged the point that was grabbed stays under the   *)
(* pointer, at every scale; zooming keeps what is in the centre there; and  *)
(* refresh(true) of a Hypertree leaves the root where it is                 *)
(* (Navigation.onMouseMove, Canvas.scale, reposition).                      *)
StepsKeepPlace ==
    [][/\ kind = "extras" => Pointer!PanFollows /\ Pointer!ZoomsAboutCentre
       /\ kind = "motion" => Motion!RootStays]_vars
=============================================================================
