------------------------------ MODULE JitShapes ------------------------------
(***************************************************************************)
(* The shapes of nodes and edges (NodeHelper, EdgeHelper, the node and edge *)
(* types of RGraph in rfweb/js/jit/jit.js, and the icons network.js adds):  *)
(* render is the set of points a shape covers, contains the test the mouse  *)
(* events use to find what is under the pointer.  Points are pairs of       *)
(* integers.  Left out: the star and the head of the arrow, whose corners   *)
(* are irrational; both use the contains of the circle and of the line.     *)
(***************************************************************************)
EXTENDS Integers, JitFraction, FiniteSetsExt

Dx(npos, pos) == pos[1] - npos[1]

Dy(npos, pos) == pos[2] - npos[2]

circle_render(npos, pos, radius) ==
    Dx(npos, pos) * Dx(npos, pos) + Dy(npos, pos) * Dy(npos, pos) <= radius * radius

circle_contains(npos, pos, radius) ==
    LET diffx == npos[1] - pos[1] diffy == npos[2] - pos[2]
    IN  diffx * diffx + diffy * diffy <= radius * radius

(* The context is scaled by width/height and height/width around a circle   *)
(* of radius height/2: width/2 across, but height^2/(2 width) up and down.  *)
ellipse_render(npos, pos, width, height) ==
    LET w2 == width * width h2 == height * height
    IN  4 * Dx(npos, pos) * Dx(npos, pos) * h2 * h2 + 4 * Dy(npos, pos) * Dy(npos, pos) * w2 * w2
            <= w2 * h2 * h2

(* A circle of the mean radius. *)
ellipse_contains(npos, pos, width, height) ==
    16 * (Dx(npos, pos) * Dx(npos, pos) + Dy(npos, pos) * Dy(npos, pos))
        <= (width + height) * (width + height)

(* What fillRect(x, y, w, h) covers, with everything doubled. *)
Rect(pos, x2, y2, w2, h2) ==
    /\ x2 <= 2 * pos[1] /\ 2 * pos[1] <= x2 + w2
    /\ y2 <= 2 * pos[2] /\ 2 * pos[2] <= y2 + h2

square_render(npos, pos, dim) ==
    Rect(pos, 2 * (npos[1] - dim), 2 * (npos[2] - dim), 4 * dim, 4 * dim)

square_contains(npos, pos, dim) == Abs(Dx(npos, pos)) <= dim /\ Abs(Dy(npos, pos)) <= dim

rectangle_render(npos, pos, width, height) ==
    Rect(pos, 2 * npos[1] - width, 2 * npos[2] - height, 2 * width, 2 * height)

rectangle_contains(npos, pos, width, height) ==
    2 * Abs(Dx(npos, pos)) <= width /\ 2 * Abs(Dy(npos, pos)) <= height

(* The corners are (0, -dim), (-dim, dim) and (dim, dim). *)
triangle_render(npos, pos, dim) ==
    Dy(npos, pos) <= dim /\ 2 * Abs(Dx(npos, pos)) <= Dy(npos, pos) + dim

triangle_contains(npos, pos, dim) == circle_contains(npos, pos, dim)

(* The icons: the switch is a fifth as high as it is wide, and is found in  *)
(* the whole square; five times everything keeps to integers.               *)
IconRender(type, npos, pos, size) ==
    /\ 2 * Abs(Dx(npos, pos)) <= size
    /\ (IF type = "switch" THEN 5 ELSE 1) * 2 * Abs(Dy(npos, pos)) <= size

IconContains(npos, pos, size) == rectangle_contains(npos, pos, size, size)

Icons == {"switch", "rfserver", "rfproxy"}

(* NodeTypes[type].render and .contains; an icon's size is node.width. *)
NodeRender(node, pos) ==
    CASE node.type = "none"      -> FALSE
      [] node.type = "circle"    -> circle_render(node.pos, pos, node.dim)
      [] node.type = "ellipse"   -> ellipse_render(node.pos, pos, node.width, node.height)
      [] node.type = "square"    -> square_render(node.pos, pos, node.dim)
      [] node.type = "rectangle" -> rectangle_render(node.pos, pos, node.width, node.height)
      [] node.type = "triangle"  -> triangle_render(node.pos, pos, node.dim)
      [] node.type \in Icons     -> IconRender(node.type, node.pos, pos, node.width)

NodeContains(node, pos) ==
    CASE node.type = "none"      -> FALSE
      [] node.type = "circle"    -> circle_contains(node.pos, pos, node.dim)
      [] node.type = "ellipse"   -> ellipse_contains(node.pos, pos, node.width, node.height)
      [] node.type = "square"    -> square_contains(node.pos, pos, node.dim)
      [] node.type = "rectangle" -> rectangle_contains(node.pos, pos, node.width, node.height)
      [] node.type = "triangle"  -> triangle_contains(node.pos, pos, node.dim)
      [] node.type \in Icons     -> IconContains(node.pos, pos, node.width)

(* The box with two opposite corners. *)
Within(from, to, pos) ==
    \A i \in {1, 2} : Min({from[i], to[i]}) <= pos[i] /\ pos[i] <= Max({from[i], to[i]})

line_render(from, to, pos) ==
    /\ Within(from, to, pos)
    /\ Dy(from, to) * Dx(from, pos) = Dx(from, to) * Dy(from, pos)

(* The distance is measured up and down, unless the line is steep. *)
line_contains(from, to, pos, epsilon) ==
    /\ Within(from, to, pos)
    /\ \/ Abs(Dx(from, to)) <= epsilon
       \/ Abs(Dy(from, to) * Dx(from, pos) + (from[2] - pos[2]) * Dx(from, to))
             <= epsilon * Abs(Dx(from, to))

EdgeContains(edge, pos) == line_contains(edge.from, edge.to, pos, edge.epsilon)

-----------------------------------------------------------------------------
(* A node is found exactly where it is drawn; the switch is found around    *)
(* its icon too, a triangle nowhere outside the square it is drawn in, and  *)
(* an ellipse exactly when it is round.                                     *)
NodeFound(node, points) ==
    \A p \in points :
        /\ (node.type \in {"none", "circle", "square", "rectangle", "rfserver", "rfproxy"}
            \/ (node.type = "ellipse" /\ node.width = node.height))
              => NodeContains(node, p) = NodeRender(node, p)
        /\ node.type = "switch" /\ NodeRender(node, p) => NodeContains(node, p)
        /\ node.type = "triangle" /\ NodeContains(node, p) => square_render(node.pos, p, node.dim)

(* An edge is found at every point it is drawn at, elsewhere only at a      *)
(* distance of at most epsilon, and the same from either end.               *)
EdgeFound(edge, points) ==
    LET dx == Dx(edge.from, edge.to) dy == Dy(edge.from, edge.to)
    IN  \A p \in points :
            LET cross == dx * Dy(edge.from, p) - dy * Dx(edge.from, p)
            IN  /\ line_render(edge.from, edge.to, p) => EdgeContains(edge, p)
                /\ EdgeContains(edge, p) =>
                      cross * cross <= edge.epsilon * edge.epsilon * (dx * dx + dy * dy)
                /\ EdgeContains(edge, p)
                      = EdgeContains([edge EXCEPT !.from = edge.to, !.to = edge.from], p)
=============================================================================
