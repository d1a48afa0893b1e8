----------------------------- MODULE MCJitViews -----------------------------
EXTENDS JitViews, FiniteSets

Leaf(id) == [id |-> id, children |-> <<>>]

Inner(id, children) == [id |-> id, children |-> children]

-----------------------------------------------------------------------------
(* ST, in 64ths of a pixel *)
MCSTTree == Inner("a", <<Inner("b", <<Leaf("d"), Inner("e", <<Leaf("g")>>)>>),
                         Inner("c", <<Leaf("f")>>)>>)

Size(w, h) == [width |-> w * 64, height |-> h * 64]

Sizes == [n \in {"a", "b", "c", "d", "e", "f", "g"} |-> IF n \in {"d", "c"} THEN Size(4, 2) ELSE Size(2, 2)]

Options ==
    [orientation |-> "left", align |-> "center", indent |-> 64, siblingOffset |-> 64,
     subtreeOffset |-> 128, levelDistance |-> 192, multitree |-> FALSE, overridable |-> TRUE,
     dim |-> Size(2, 2), autoWidth |-> FALSE, autoHeight |-> FALSE, type |-> "rectangle",
     canvas |-> Size(20, 20), constrained |-> TRUE, levelsToShow |-> 2, request |-> FALSE,
     offsetX |-> 0, offsetY |-> 0, size |-> Sizes, label |-> Sizes]

STView(config, levels, calls) == [config |-> config, levels |-> levels, calls |-> calls]

MCSTConfigs ==
    {STView(Options, 10, 3),
     STView([Options EXCEPT !.request = TRUE, !.levelsToShow = 1, !.offsetX = 64], 1, 2),
     STView([Options EXCEPT !.constrained = FALSE, !.autoWidth = TRUE], 2, 1),
     STView([Options EXCEPT !.orientation = "top", !.canvas = Size(12, 12)], 2, 2)}

-----------------------------------------------------------------------------
MCTMTree == Inner("a", <<Inner("b", <<Leaf("d"), Inner("e", <<Inner("g", <<Leaf("h")>>)>>)>>),
                         Inner("c", <<Leaf("f")>>)>>)

MCTMConfigs ==
    [icicle : {FALSE}, levelsToShow : 0..2, animate : BOOLEAN, request : {FALSE}, loaded : {100}, calls : {4}]
    \cup [icicle : {FALSE}, levelsToShow : 1..2, animate : BOOLEAN, request : {TRUE}, loaded : {1}, calls : {4}]
    \cup [icicle : {TRUE}, levelsToShow : {0, 2}, animate : BOOLEAN, request : {FALSE}, loaded : {100}, calls : {4}]

-----------------------------------------------------------------------------
Row(label, values) == [label |-> label, values |-> values]

Config(chart, animate, grouped, updateHeights, stacks) ==
    [chart |-> chart, animate |-> animate, grouped |-> grouped, updateHeights |-> updateHeights,
     stacks |-> stacks]

ChartOf(config, load, updates) == [config |-> config, load |-> load, updates |-> updates, calls |-> 3]

Two == <<Row("x", <<1, 2>>), Row("y", <<3, 0>>), Row("z", <<2, 2>>)>>

TwoUpdates == {<<Row("y", <<0, 5>>)>>,
               <<Row("x", <<2, 1>>), Row("z", <<4, 4>>)>>,
               <<Row("w", <<1, 1>>), Row("x", <<0, 0>>)>>}

Single == <<Row("x", <<1>>), Row("y", <<3>>), Row("z", <<2>>)>>

SingleUpdates == {<<Row("y", <<0>>), Row("x", <<4>>)>>, <<Row("z", <<1>>)>>}

MCCharts ==
    {ChartOf(Config("area", a, FALSE, FALSE, <<"p", "q">>), Two, TwoUpdates) : a \in BOOLEAN}
    \cup {ChartOf(Config("bar", a, g, FALSE, <<"p", "q">>), Two, TwoUpdates) : a, g \in BOOLEAN}
    \cup {ChartOf(Config("pie", a, FALSE, h, <<"p", "q">>), Two, TwoUpdates) : a, h \in BOOLEAN}
    \cup {ChartOf(Config("pie", a, FALSE, h, <<"p">>), Single, SingleUpdates) : a, h \in BOOLEAN}

-----------------------------------------------------------------------------
Styled(hover, click, panning, zooming, calls) ==
    [nodes |-> [a |-> 0, b |-> 2, d |-> 1], hover |-> hover, click |-> click,
     panning |-> panning, zooming |-> zooming, calls |-> calls]

MCExtrasConfigs ==
    {Styled({"color"}, {"color"}, p, z, 5) : p \in {"all", "avoid nodes"}, z \in BOOLEAN}
    \cup {Styled({"color"}, {"color", "dim"}, "none", FALSE, 5),
          Styled({}, {"dim"}, "none", FALSE, 4), Styled({"dim"}, {}, "none", FALSE, 4)}

MCMotionConfigs ==
    {[kind |-> "sunburst", layout |-> [a |-> <<0, 1>>, b |-> <<1, 4>>, d |-> <<2, 3>>],
      root |-> "a", calls |-> 3],
     [kind |-> "hypertree", layout |-> [a |-> <<0, 1>>, b |-> <<1, 2>>, d |-> <<-1, 2>>],
      root |-> "a", calls |-> 3]}

MCGraphs == {[a |-> "x", b |-> "x"], [a |-> "y", c |-> "x"], [a |-> "x", b |-> "y", c |-> "y"]}

-----------------------------------------------------------------------------
(* Layouts of trees: every choice of two sizes for the nodes. *)
Bush == Inner("a", <<Leaf("b"), Inner("c", <<Leaf("d"), Leaf("e")>>), Inner("f", <<Leaf("g")>>)>>)

IdsOf == {"a", "b", "c", "d", "e", "f", "g"}

Aligned(align, orientation, multitree) ==
    [Options EXCEPT !.align = align, !.orientation = orientation, !.multitree = multitree]

OneSide == [n \in IdsOf |-> "none"]

BothSides == [n \in IdsOf |-> IF n \in {"a", "b", "d", "e", "g"} THEN "left" ELSE "right"]

MCTrees ==
    {[json |-> json, config |-> Aligned(al, orn, FALSE), size |-> size, orn |-> OneSide] :
        json \in {MCSTTree, Bush}, al \in {"left", "center", "right"}, orn \in {"left", "top"},
        size \in [IdsOf -> {Size(2, 2), Size(6, 8)}]}
    \cup {[json |-> MCSTTree, config |-> Aligned(al, "left", TRUE), size |-> Sizes, orn |-> BothSides] :
        al \in {"left", "center", "right"}}

-----------------------------------------------------------------------------
(* Layouts of treemaps: up to four children of areas 1 to 3, and children   *)
(* of children.                                                             *)
Area(id, area, children) == [id |-> id, area |-> <<area, 1>>, children |-> children]

Flat(areas) == Area(0, 1, [i \in DOMAIN areas |-> Area(i, areas[i], <<>>)])

Nested(areas) ==
    Area(0, 1, <<Area(1, areas[1] + areas[2], <<Area(4, areas[1], <<>>), Area(5, areas[2], <<>>)>>),
                 Area(2, areas[3], <<>>),
                 Area(3, areas[4], <<Area(6, areas[4], <<>>)>>)>>)

Canvas(w, h, orn, title, offset) ==
    [width |-> <<w, 1>>, height |-> <<h, 1>>, titleHeight |-> <<title, 1>>, offset |-> <<offset, 1>>,
     orientation |-> orn, levelsToShow |-> 3]

MCTreemaps ==
    {[c |-> Canvas(12, h, orn, title, offset), layout |-> l, tree |-> t] :
        h \in {6, 12}, orn \in {"h", "v"}, title \in {0, 1}, offset \in {0},
        l \in {"SliceAndDice", "Squarified", "Strip", "Icicle"},
        t \in {Flat(a) : a \in UNION {[1..k -> 1..3] : k \in 1..3}}
              \cup {Nested(a) : a \in [1..4 -> {1, 3}]}}
    \cup {[c |-> Canvas(13, 14, orn, 1, 1), layout |-> l, tree |-> Nested(a)] :
        orn \in {"h", "v"}, l \in {"SliceAndDice", "Squarified", "Strip", "Icicle"},
        a \in [1..4 -> {1, 2}]}
-----------------------------------------------------------------------------
(* Shapes: every type and a few sizes off the origin, lines in every        *)
(* direction, and the points of a square around them.                       *)
MCPoints == (-5..5) \X (-5..5)

MCNodeShapes ==
    {[type |-> t, pos |-> p, dim |-> s[1], width |-> 2 * s[1], height |-> s[2]] :
        t \in {"none", "circle", "ellipse", "square", "rectangle", "triangle",
               "switch", "rfserver", "rfproxy"},
        p \in {<<0, 0>>, <<1, -1>>}, s \in {1, 3} \X {2, 3, 6}}

MCEdgeShapes ==
    {[from |-> <<0, 1>>, to |-> to, epsilon |-> e] : to \in (-4..4) \X (-4..4), e \in 1..2}
=============================================================================
