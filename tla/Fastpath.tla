------------------------------- MODULE Fastpath -------------------------------
(***************************************************************************)
(* The allocation of fastpath labels (rfserver/rffastpath.py), which the    *)
(* RFServer runs once, before it listens.  shortest_recursive walks the      *)
(* switches breadth-first from the fastpath links: each port of a switch    *)
(* gets a label, the link that reached the switch becomes its way up to the *)
(* controller, and on the way back every link collects the labels of the    *)
(* links below it.  A step is one turn of one of its loops.                 *)
(*                                                                          *)
(* All switches have one controller (ct_id).  The order in which a table    *)
(* returns its rows is arbitrary.                                           *)
(***************************************************************************)
EXTENDS Naturals, Sequences, FiniteSets, SequencesExt

CONSTANTS
    Dps,            \* switches
    FpLinks,        \* fastpath links, from dp0 to a switch (RFFPConf)
    IslLinks,       \* links between switches (RFISLConf)
    PortCounts,     \* how many ports RFConfig may give a switch
    LabelLimit,     \* 1<<11 in MetaVLAN.allocate_label
    Dp0,            \* the controller's end of a fastpath link (-1 in the code)
    None

ASSUME FastpathAssumption ==
    /\ PortCounts \subseteq Nat /\ LabelLimit \in Nat
    /\ Dp0 \notin Dps /\ None \notin Dps \cup {Dp0}

VARIABLES
    ends, ports,    \* the configuration: ends of each link, ports of each switch
    label,          \* MetaVLAN.label, the next one
    fp_label,       \* label of each port, or None
    fast_paths,     \* labels of each link, or None before it is in a check_set
    fp_master,      \* the end of each link nearer to dp0, or None
    levels,         \* the check_set of each call of shortest_recursive
    call,           \* the innermost call
    next_set, todo, \* its local variables
    at, from,       \* its positions in check_set and next_set
    mode            \* where it is

config == <<ends, ports>>
vars == <<config, label, fp_label, fast_paths, fp_master, levels, call, next_set, todo,
          at, from, mode>>

Links == FpLinks \cup IslLinks
Ports == Dps \X (1..Max(PortCounts \cup {1}))

check_set == levels[call]
Item(parent, link) == [parent |-> parent, link |-> link]

\* my_dpid: the end of the link that is not the parent.
Child(item) == CHOOSE dp \in ends[item.link] : dp # item.parent

\* get_config_for_dp, and the links of get_entries_by_dpid without fast_paths.
PortsOf(dp) == {p \in ports : p[1] = dp}
FreshIsls(dp) == {l \in IslLinks : dp \in ends[l] /\ fast_paths[l] = None}

\* fp_allocate_labels: every fastpath link is in the first check_set.
Init ==
    /\ \E fp \in [FpLinks -> Dps], isl \in [IslLinks -> kSubset(2, Dps)] :
         ends = [l \in Links |-> IF l \in FpLinks THEN {Dp0, fp[l]} ELSE isl[l]]
    /\ \E count \in [Dps -> PortCounts] : ports = {p \in Ports : p[2] <= count[p[1]]}
    /\ label = 2 /\ fp_label = [p \in ports |-> None]
    /\ fast_paths = [l \in Links |-> IF l \in FpLinks THEN <<>> ELSE None]
    /\ fp_master = [l \in Links |-> None]
    /\ \E order \in SetToSeqs(FpLinks) :
         levels = <<[i \in DOMAIN order |-> Item(Dp0, order[i])]>>
    /\ call = 1 /\ next_set = <<>> /\ todo = {} /\ at = 1 /\ from = 1
    /\ mode = IF FpLinks = {} THEN "done" ELSE "link"

------------------------------------------------------------------------------
(* The first loop: for ct_id, parent_dpid, link in check_set.               *)

start_link ==
    /\ mode = "link" /\ at <= Len(check_set)
    /\ todo' = PortsOf(Child(check_set[at]))
    /\ mode' = "port"
    /\ UNCHANGED <<config, label, fp_label, fast_paths, fp_master, levels, call, next_set, at, from>>

\* Mutant: a label is given twice.
label_port_same(p) ==
    /\ mode = "port" /\ p \in todo /\ fp_label[p] = None
    /\ label' = label
    /\ IF label >= LabelLimit
       THEN mode' = "overflow" /\ UNCHANGED <<fp_label, fast_paths, todo>>
       ELSE /\ fp_label' = [fp_label EXCEPT ![p] = label]
            /\ fast_paths' = [fast_paths EXCEPT ![check_set[at].link] = Append(@, label)]
            /\ todo' = todo \ {p}
            /\ UNCHANGED mode
    /\ UNCHANGED <<config, fp_master, levels, call, next_set, at, from>>

\* allocate_label, conf.set_entry and link.fast_paths.append.
label_port(p) ==
    /\ mode = "port" /\ p \in todo /\ fp_label[p] = None
    /\ label' = label + 1
    /\ IF label >= LabelLimit
       THEN mode' = "overflow" /\ UNCHANGED <<fp_label, fast_paths, todo>>
       ELSE /\ fp_label' = [fp_label EXCEPT ![p] = label]
            /\ fast_paths' = [fast_paths EXCEPT ![check_set[at].link] = Append(@, label)]
            /\ todo' = todo \ {p}
            /\ UNCHANGED mode
    /\ UNCHANGED <<config, fp_master, levels, call, next_set, at, from>>


\* A port that has its label: another link reached this switch before.
skip_link(p) ==
    /\ mode = "port" /\ p \in todo /\ fp_label[p] # None
    /\ fp_master' = [fp_master EXCEPT ![check_set[at].link] = None]
    /\ todo' = {} /\ at' = at + 1 /\ mode' = "link"
    /\ UNCHANGED <<config, label, fp_label, fast_paths, levels, call, next_set, from>>

\* Mutant: next_set is emptied for every link.
take_link_resets ==
    LET item == check_set[at]
        dp == Child(item)
    IN  /\ mode = "port" /\ todo = {}
        /\ fp_master' = [fp_master EXCEPT ![item.link] = item.parent]
        /\ fast_paths' = [l \in Links |-> IF l \in FreshIsls(dp) THEN <<>> ELSE fast_paths[l]]
        /\ \E order \in SetToSeqs(FreshIsls(dp)) :
             next_set' = [i \in DOMAIN order |-> Item(dp, order[i])]
        /\ at' = at + 1 /\ mode' = "link"
        /\ UNCHANGED <<config, label, fp_label, levels, call, todo, from>>

\* Every port of the switch is labelled: the link is its way up, and the links
\* of the switch that are in no check_set go to the next one.
take_link ==
    LET item == check_set[at]
        dp == Child(item)
    IN  /\ mode = "port" /\ todo = {}
        /\ fp_master' = [fp_master EXCEPT ![item.link] = item.parent]
        /\ fast_paths' = [l \in Links |-> IF l \in FreshIsls(dp) THEN <<>> ELSE fast_paths[l]]
        /\ \E order \in SetToSeqs(FreshIsls(dp)) :
             next_set' = next_set \o [i \in DOMAIN order |-> Item(dp, order[i])]
        /\ at' = at + 1 /\ mode' = "link"
        /\ UNCHANGED <<config, label, fp_label, levels, call, todo, from>>

\* The recursive call, unless next_set is empty.
recurse ==
    /\ mode = "link" /\ at > Len(check_set)
    /\ IF next_set = <<>>
       THEN mode' = "collect" /\ UNCHANGED <<levels, call, next_set>>
       ELSE /\ levels' = Append(levels, next_set) /\ call' = call + 1
            /\ next_set' = <<>> /\ UNCHANGED mode
    /\ at' = 1 /\ from' = 1
    /\ UNCHANGED <<config, label, fp_label, fast_paths, fp_master, todo>>

------------------------------------------------------------------------------
(* The second loop: for _, parent_dpid, next_isl in next_set.               *)

collecting == mode = "collect" /\ from <= Len(next_set)

\* The while loop: the next link of check_set, or StopIteration.
next_link ==
    /\ collecting /\ next_set[from].parent \notin ends[check_set[at].link]
    /\ IF at = Len(check_set) THEN mode' = "StopIteration" /\ UNCHANGED at
                              ELSE at' = at + 1 /\ UNCHANGED mode
    /\ UNCHANGED <<config, label, fp_label, fast_paths, fp_master, levels, call, next_set, todo,
                   from>>

\* Mutant: the labels of the link below replace those of the link.
collect_labels_over ==
    LET x == check_set[at].link
    IN  /\ collecting /\ next_set[from].parent \in ends[x]
        /\ fast_paths' = [fast_paths EXCEPT ![x] = fast_paths[next_set[from].link]]
        /\ from' = from + 1
        /\ UNCHANGED <<config, label, fp_label, fp_master, levels, call, next_set, todo, at, mode>>

\* x.fast_paths += next_isl.fast_paths
collect_labels ==
    LET x == check_set[at].link
    IN  /\ collecting /\ next_set[from].parent \in ends[x]
        /\ fast_paths' = [fast_paths EXCEPT ![x] = @ \o fast_paths[next_set[from].link]]
        /\ from' = from + 1
        /\ UNCHANGED <<config, label, fp_label, fp_master, levels, call, next_set, todo, at, mode>>

\* The call returns: the caller's next_set was this call's check_set.
return ==
    /\ mode = "collect" /\ from > Len(next_set)
    /\ IF call = 1 THEN mode' = "done" /\ UNCHANGED <<call, next_set>>
                   ELSE call' = call - 1 /\ next_set' = check_set /\ UNCHANGED mode
    /\ at' = 1 /\ from' = 1
    /\ UNCHANGED <<config, label, fp_label, fast_paths, fp_master, levels, todo>>

Next ==
    \/ start_link \/ take_link \/ recurse \/ next_link \/ collect_labels \/ return
    \/ \E p \in ports : label_port(p) \/ skip_link(p)

Spec == Init /\ [][Next]_vars

------------------------------------------------------------------------------
(* What the translators read from the result (rfserver.py).                 *)

\* The candidates of _get_fastpath_port for the way up from a switch.
Masters(dp) == {l \in Links : dp \in ends[l] /\ fp_master[l] \notin {None, dp}}

\* The labels for which _register_fastpaths gives a switch rules: those of its
\* ports and those of the links below it.
Registered(dp) ==
    {fp_label[p] : p \in PortsOf(dp)}
        \cup UNION {ToSet(fast_paths[l]) : l \in {k \in Links : fp_master[k] = dp}}

------------------------------------------------------------------------------

\* A switch that has labels to send up has a single way up to the controller, as
\* _get_fastpath_port expects.
Reached == {Child(i) : i \in UNION {ToSet(s) : s \in ToSet(levels)}}

\* What a switch sends up its master link is what the switch above has rules
\* for: the link carries each label of the ports behind it, once, and no other.
LabelsCarried ==
    mode = "done" =>
        \A dp \in Reached : \A l \in Masters(dp) :
            ToSet(fast_paths[l]) = Registered(dp) /\ IsInjective(fast_paths[l])

\* The way up is a shortest one ("Finds the shortest path to the controller for
\* every OF switch"): a switch with a fastpath link uses one, and the depths of
\* two linked switches differ by one at most.
Depth(dp) == CHOOSE n \in DOMAIN levels :
                 \E item \in ToSet(levels[n]) : Child(item) = dp /\ item.link \in Masters(dp)
ShortestPath ==
    mode = "done" =>
        /\ \A l \in FpLinks : \A dp \in ends[l] \ {Dp0} : Depth(dp) = 1
        /\ \A l \in IslLinks : \A a, b \in ends[l] :
               a \in Reached => b \in Reached /\ Depth(b) <= Depth(a) + 1

\* The way back always finds the link above (no StopIteration), and in the end
\* each port of a switch that is reached has a label of its own; every label is
\* below the limit, at which the allocation raises.
AllLabelled ==
    /\ mode # "StopIteration"
    /\ \A p \in ports : fp_label[p] # None => fp_label[p] < LabelLimit
    /\ mode = "done" =>
         \A p \in ports : p[1] \in Reached =>
             fp_label[p] # None /\ \A q \in ports \ {p} : fp_label[q] # fp_label[p]
===============================================================================
