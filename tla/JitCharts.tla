------------------------------ MODULE JitCharts -----------------------------
(***************************************************************************)
(* AreaChart, BarChart and PieChart (rfweb/js/jit/jit.js): one child of an *)
(* ST or a Sunburst for every bar, each a stack of values.                 *)
(*                                                                         *)
(* A value of an area is <<left, right>>, of a bar or a slice <<v>>.  A    *)
(* dimension is a fraction of the height (or radius) of the chart; the     *)
(* height of a bar, the sum of its dimensions, changes with them.  The     *)
(* angle of a slice is a fraction of the circle.  Of the ST only the order *)
(* of the bars is kept here (JitTree has the layout).                      *)
(*                                                                         *)
(* A page loads a chart again only when the last transition has ended.     *)
(***************************************************************************)
EXTENDS JitFraction, FiniteSets

CONSTANTS
    Charts  \* sets of [config, load, updates, calls]: a chart (chart, animate,
            \* grouped, updateHeights, stacks), the data it is loaded with, the
            \* data it may be given and the number of calls

VARIABLES view, busy, animation, left

vars == <<view, busy, animation, left>>

Maximum(S) == CHOOSE x \in S : \A y \in S : y <= x

RECURSIVE Total(_)
Total(list) == IF list = <<>> THEN 0 ELSE Head(list) + Total(Tail(list))

NoBorder == [name |-> 0, index |-> 0]

NoSelection == [id |-> 0, name |-> 0, index |-> 0]

NoAnimation == [modes |-> {}, then |-> "nothing"]

Area(config) == config.chart = "area"

-----------------------------------------------------------------------------
Columns(values) == IF values = <<>> THEN {} ELSE DOMAIN values[1]

Column(values, k) == [i \in DOMAIN values |-> values[i][k]]

(* The height a bar needs on each side. *)
Heights(config, values) ==
    {IF config.grouped THEN Maximum({values[i][k] : i \in DOMAIN values})
     ELSE Total(Column(values, k)) : k \in Columns(values)}

getMaxValue(config, bars) ==
    Maximum({0} \cup UNION {Heights(config, bars[b].value) : b \in DOMAIN bars})

(* The dimensions of the values of a bar; a slice of one value has the      *)
(* whole radius unless updateHeights is set.                                *)
DimsOf(config, bars, values) ==
    LET most == getMaxValue(config, bars)
        max  == IF most = 0 THEN 1 ELSE most
        full == config.chart = "pie" /\ Len(values) = 1 /\ ~config.updateHeights
    IN  [i \in DOMAIN values |->
            [k \in DOMAIN values[i] |-> IF full THEN Whole(1) ELSE Frac(values[i][k], max)]]

(* An animated chart starts from nothing (a pie from one pixel). *)
Flat(values) == [i \in DOMAIN values |-> [k \in DOMAIN values[i] |-> Zero]]

(* normalizeDims.  <<>> is a dimension or an end dimension never set. *)
normalizeDims(config, bars) ==
    [b \in DOMAIN bars |->
        LET dims == DimsOf(config, bars, bars[b].value)
        IN  IF config.animate
            THEN [bars[b] EXCEPT !.end = dims, !.dim = IF @ = <<>> THEN Flat(bars[b].value) ELSE @]
            ELSE [bars[b] EXCEPT !.dim = dims]]

(* The angles of the slices: Sunburst.compute with angularWidth the sum of  *)
(* the values, and 5 for a sum of 0.                                        *)
Spans(bars) ==
    LET width == [b \in DOMAIN bars |-> IF bars[b].angularWidth = 0 THEN 5 ELSE bars[b].angularWidth]
    IN  [b \in DOMAIN bars |-> Frac(width[b], Total(width))]

computeSpans(bars) == [b \in DOMAIN bars |-> [bars[b] EXCEPT !.endSpan = Spans(bars)[b]]]

refreshSpans(bars) ==
    [b \in DOMAIN bars |-> [bars[b] EXCEPT !.span = Spans(bars)[b], !.endSpan = Spans(bars)[b]]]

(* fx.animate; busy is cleared at the end of some animations. *)
animate(modes, then) == animation' = [modes |-> modes, then |-> then]

Calls == left > 0 /\ left' = left - 1

-----------------------------------------------------------------------------
(* A bar as loadJSON makes it.  An area has both the values at its label    *)
(* and those at the next, and the last label has none of its own.           *)
Bar(config, json, i) ==
    LET here == json[i].values
    IN  [name  |-> json[i].label,
         value |-> [s \in DOMAIN here |->
                       IF Area(config) THEN <<here[s], json[i + 1].values[s]>> ELSE <<here[s]>>],
         prev  |-> IF Area(config) /\ i > 1 THEN json[i - 1].label ELSE "none",
         next  |-> IF Area(config) THEN json[i + 1].label ELSE "none",
         angularWidth |-> Total(here),
         dim |-> <<>>, end |-> <<>>, span |-> Zero, endSpan |-> Zero, border |-> NoBorder]

Loaded(config, json) ==
    LET count == IF Area(config) THEN Len(json) - 1 ELSE Len(json)
        bars  == normalizeDims(config, [i \in 1..count |-> Bar(config, json, i)])
    IN  IF config.chart = "pie" THEN refreshSpans(bars) ELSE bars

(* What loadJSON starts: the bars of a chart that is not animated are right *)
(* at once, and only a BarChart is busy while they grow.                    *)
loadJSON(json) ==
    /\ animation = NoAnimation
    /\ Calls
    /\ IF view.config.chart = "bar" /\ busy THEN UNCHANGED <<view, busy, animation>>
       ELSE /\ view' = [view EXCEPT !.bars = Loaded(view.config, json),
                                    !.kept = 1..Len(view.config.stacks), !.cut = FALSE]
            /\ IF view.config.animate
               THEN /\ animate({"dim"}, IF view.config.chart = "bar" THEN "idle" ELSE "nothing")
                    /\ busy' = (busy \/ view.config.chart = "bar")
               ELSE UNCHANGED <<busy, animation>>

(* graph.getByName *)
Named(bars, name) == {b \in DOMAIN bars : bars[b].name = name}

WithSide(values, k, news) == [s \in DOMAIN values |-> [values[s] EXCEPT ![k] = news[s]]]

(* The values at a label are the left of its area and the right of the one  *)
(* before; the last area takes them on both sides.                          *)
UpdateArea(bars, v) ==
    LET next(b) == Named(bars, bars[b].next)
        before  == UNION {Named(bars, bars[b].prev) : b \in Named(bars, v.label)}
    IN  [b \in DOMAIN bars |->
            IF bars[b].name = v.label
            THEN [bars[b] EXCEPT !.value =
                     IF next(b) = {} THEN WithSide(WithSide(@, 1, v.values), 2, v.values)
                     ELSE WithSide(@, 1, v.values)]
            ELSE IF b \in before THEN [bars[b] EXCEPT !.value = WithSide(@, 2, v.values)]
            ELSE bars[b]]

UpdateBar(bars, v) ==
    [b \in DOMAIN bars |->
        IF bars[b].name = v.label
        THEN [bars[b] EXCEPT !.value = [s \in DOMAIN v.values |-> <<v.values[s]>>],
                             !.angularWidth = Total(v.values)]
        ELSE bars[b]]

RECURSIVE Updated(_, _, _)
Updated(config, bars, json) ==
    IF json = <<>> THEN bars
    ELSE Updated(config, IF Area(config) THEN UpdateArea(bars, json[1]) ELSE UpdateBar(bars, json[1]),
                 Tail(json))

(* updateJSON: labels the chart does not have are ignored; a chart that is  *)
(* not animated stays busy.                                                 *)
updateJSON(json) ==
    /\ Calls
    /\ IF busy THEN UNCHANGED <<view, busy, animation>>
       ELSE LET config == view.config
                bars   == normalizeDims(config, Updated(config, view.bars, json))
                modes  == IF config.chart = "pie" THEN {"dim", "span"} ELSE {"dim"}
            IN  /\ busy' = TRUE
                /\ view' = [view EXCEPT
                       !.bars = IF config.chart # "pie" THEN bars
                                ELSE IF config.animate THEN computeSpans(bars) ELSE refreshSpans(bars),
                       !.kept = 1..Len(config.stacks), !.cut = FALSE]
                /\ IF config.animate THEN animate(modes, "idle") ELSE UNCHANGED animation

-----------------------------------------------------------------------------
(* Where the stacks of a bar or an area are drawn and which one the pointer *)
(* hits: across is a fraction of the width of the bar, along one of the     *)
(* height of the chart, from the base.                                      *)
Box(from, to, l, r) == [from |-> from, to |-> to, left |-> l, right |-> r]

Below(dims, s, k) == SumOf([i \in 1..s |-> dims[i][k]])

(* areachart-stacked: lines from the left sides to the right sides. *)
AreaLine(dims, s, across) ==
    Plus(Below(dims, s, 1), Times(Minus(Below(dims, s, 2), Below(dims, s, 1)), across))

renderArea(dims, s, across) ==
    Box(AreaLine(dims, s - 1, across), AreaLine(dims, s, across), Zero, Whole(1))

(* barchart-stacked *)
renderStacked(dims, s) == Box(Below(dims, s - 1, 1), Below(dims, s, 1), Zero, Whole(1))

(* barchart-grouped *)
renderGrouped(dims, s) == Box(Zero, dims[s][1], Frac(s - 1, Len(dims)), Frac(s, Len(dims)))

render(config, dims, s, across) ==
    IF Area(config) THEN renderArea(dims, s, across)
    ELSE IF config.grouped THEN renderGrouped(dims, s) ELSE renderStacked(dims, s)

Within(r, across, along) ==
    /\ AtMost(r.from, along) /\ AtMost(along, r.to)
    /\ AtMost(r.left, across) /\ AtMost(across, r.right)

StrictlyWithin(r, across, along) ==
    /\ Less(r.from, along) /\ Less(along, r.to)
    /\ Less(r.left, across) /\ Less(across, r.right)

(* The node's height, set by normalizeDims for all its values. *)
HeightOf(config, bars, b) ==
    LET dims == DimsOf(config, bars, bars[b].value)
        side(k) == SumOf([s \in DOMAIN dims |-> dims[s][k]])
    IN  IF Area(config) THEN Larger(side(1), side(2)) ELSE side(1)

(* The contains functions: the first stack the pointer is not above. *)
containsArea(dims, across, along) ==
    {s \in DOMAIN dims : AtMost(along, AreaLine(dims, s, across))}

containsStacked(dims, along) == {s \in DOMAIN dims : AtMost(along, Below(dims, s, 1))}

containsGrouped(dims, across, along) ==
    {s \in DOMAIN dims : /\ AtMost(along, dims[s][1])
                         /\ AtMost(Frac(s - 1, Len(dims)), across)
                         /\ AtMost(across, Frac(s, Len(dims)))}

(* 0 is a miss. *)
contains(config, bars, b, across, along) ==
    LET dims == bars[b].dim
        hit  == IF Area(config) THEN containsArea(dims, across, along)
                ELSE IF config.grouped THEN containsGrouped(dims, across, along)
                ELSE containsStacked(dims, along)
    IN  IF ~AtMost(along, HeightOf(config, bars, b)) \/ hit = {} THEN 0
        ELSE CHOOSE s \in hit : \A t \in hit : s <= t

-----------------------------------------------------------------------------

(* select: the bar under the pointer is marked, in an area chart with the   *)
(* side (1 or 2) and the area that shares it.                               *)
Marked(v, id, name, index) ==
    LET linked == IF ~Area(v.config) \/ id = 0 THEN {}
                  ELSE Named(v.bars, IF index = 1 THEN v.bars[id].prev ELSE v.bars[id].next)
    IN  [v EXCEPT !.selected = [id |-> id, name |-> name, index |-> index],
                  !.bars = [b \in DOMAIN @ |-> [@[b] EXCEPT !.border =
                      IF b = id THEN [name |-> name, index |-> index]
                      ELSE IF b \in linked THEN [name |-> name, index |-> 3 - index]
                      ELSE NoBorder]]]

Selected(v, id, name, index) ==
    IF v.selected = [id |-> id, name |-> name, index |-> index] THEN v ELSE Marked(v, id, name, index)

onMouseMove(id, name, index) ==
    /\ Calls
    /\ view' = Selected(view, id, name, index)
    /\ UNCHANGED <<busy, animation>>


(* The other stacks are collapsed; a stack asked for keeps its dimension,   *)
(* also when an earlier filter has collapsed it or when it is still growing *)
(* (view.kept has the stacks that are left, view.cut says that a transition *)
(* was cut short).                                                          *)
Filtered(bars, S) ==
    [b \in DOMAIN bars |-> [bars[b] EXCEPT !.end =
        [s \in DOMAIN bars[b].dim |-> IF s \in S THEN bars[b].dim[s] ELSE <<Zero, Zero>>]]]

(* AreaChart.filter *)
filter(S) ==
    /\ Area(view.config)
    /\ Calls
    /\ IF busy THEN UNCHANGED <<view, busy, animation>>
       ELSE /\ busy' = TRUE
            /\ view' = LET v == Selected(view, 0, 0, 0)
                       IN  [v EXCEPT !.bars = Filtered(@, S), !.kept = @ \cap S,
                                     !.cut  = @ \/ animation # NoAnimation]
            /\ animate({"dim"}, "idle")

(* AreaChart.restore.  Without animation the dimensions are right at once,  *)
(* and the transition then takes them back to the end values of the last    *)
(* filter.                                                                  *)
restore ==
    /\ Area(view.config)
    /\ Calls
    /\ IF busy THEN UNCHANGED <<view, busy, animation>>
       ELSE /\ busy' = TRUE
            /\ view' = LET v == Selected(view, 0, 0, 0)
                       IN  [v EXCEPT !.bars = normalizeDims(v.config, @),
                                     !.kept = IF v.config.animate THEN 1..Len(v.config.stacks) ELSE @,
                                     !.cut  = @ /\ ~v.config.animate]
            /\ animate({"dim"}, "idle")

(* The last step of an animation. *)
AnimationEnd ==
    /\ animation # NoAnimation
    /\ animation' = NoAnimation
    /\ view' = [view EXCEPT !.bars = [b \in DOMAIN @ |-> [@[b] EXCEPT
            !.dim  = IF view.bars[b].end = <<>> THEN @ ELSE view.bars[b].end,
            !.span = IF "span" \in animation.modes THEN view.bars[b].endSpan ELSE @]]]
    /\ busy' = IF animation.then = "idle" THEN FALSE ELSE busy
    /\ UNCHANGED left

-----------------------------------------------------------------------------
Init ==
    \E c \in Charts :
        /\ view = [config |-> c.config, load |-> c.load, updates |-> c.updates,
                   bars |-> Loaded(c.config, c.load), selected |-> NoSelection,
                   kept |-> 1..Len(c.config.stacks), cut |-> FALSE]
        /\ busy = (c.config.animate /\ c.config.chart = "bar")
        /\ animation = IF c.config.animate
                       THEN [modes |-> {"dim"}, then |-> IF busy THEN "idle" ELSE "nothing"]
                       ELSE NoAnimation
        /\ left = c.calls

Hover ==
    \/ onMouseMove(0, 0, 0)
    \/ \E b \in DOMAIN view.bars, s \in DOMAIN view.config.stacks :
          \E k \in DOMAIN view.bars[b].value[s] : onMouseMove(b, s, k)

Next ==
    \/ loadJSON(view.load)
    \/ \E json \in view.updates : updateJSON(json)
    \/ Hover
    \/ \E S \in SUBSET (1..Len(view.config.stacks)) : filter(S)
    \/ restore
    \/ AnimationEnd

Spec == Init /\ [][Next]_vars

-----------------------------------------------------------------------------
(* Neighbouring areas meet: whatever is updated, filtered or restored, the  *)
(* right of an area has the values and the dimensions of the left of the    *)
(* next (updateJSON, jit.js:10156).                                         *)
AreasJoined ==
    Area(view.config) =>
        \A b \in 1..(Len(view.bars) - 1), s \in DOMAIN view.config.stacks :
            LET here == view.bars[b] next == view.bars[b + 1]
            IN  /\ here.value[s][2] = next.value[s][1]
                /\ here.dim[s][2] = next.dim[s][1]

(* When nothing moves the stacks that no filter has collapsed are drawn in  *)
(* proportion to their values, the others not at all, and the angles of the *)
(* slices to their sums (normalizeDims, filter and restore).                *)
ShownToScale ==
    animation = NoAnimation /\ ~view.cut =>
        /\ \A b \in DOMAIN view.bars :
              LET bar == view.bars[b] dims == DimsOf(view.config, view.bars, bar.value)
              IN  \A s \in DOMAIN bar.value :
                     bar.dim[s] = IF s \in view.kept \/ ~Area(view.config) THEN dims[s] ELSE <<Zero, Zero>>
        /\ view.config.chart = "pie" /\ (\A b \in DOMAIN view.bars : view.bars[b].angularWidth > 0) =>
              \A b \in DOMAIN view.bars :
                 view.bars[b].span = Frac(Total(Column(view.bars[b].value, 1)),
                                          Total([c \in DOMAIN view.bars |-> Total(Column(view.bars[c].value, 1))]))

(* One bar is marked, in an area chart with the neighbour on the marked     *)
(* side: marks of earlier selections go away (select, jit.js:10277, 11139). *)
OneMarked ==
    LET marked == {b \in DOMAIN view.bars : view.bars[b].border # NoBorder}
    IN  /\ \A b, c \in marked : b < c => /\ Area(view.config)
                                          /\ c = b + 1
                                          /\ view.bars[b].border.index = 2
                                          /\ view.bars[c].border.index = 1
        /\ \A b, c \in marked : view.bars[b].border.name = view.bars[c].border.name

(* The stack found under the pointer is the one that is drawn there, in     *)
(* every shape of chart and after every filter (render and contains,        *)
(* jit.js:9745, 10497).                                                     *)
HitsWhatIsDrawn ==
    animation = NoAnimation /\ view.config.chart # "pie" /\ ~view.cut =>
        \A b \in DOMAIN view.bars, x \in {1, 3, 4}, y \in 0..8 :
            LET across == Frac(x, 4) along == Frac(y, 8)
                hit    == contains(view.config, view.bars, b, across, along)
                drawn(s) == render(view.config, view.bars[b].dim, s, across)
            IN  /\ hit # 0 => Within(drawn(hit), across, along)
                /\ \A s \in DOMAIN view.bars[b].dim :
                      StrictlyWithin(drawn(s), across, along) => hit = s

(* A busy animated chart has a transition that will end it (a chart that is *)
(* not animated stays busy after updateJSON).                               *)
BusyEnds == busy /\ view.config.animate => animation.then = "idle"
=============================================================================
