------------------------------- MODULE RFWeb --------------------------------
(***************************************************************************)
(* The web page of RouteFlow (rfweb/index.html): its three tabs and the    *)
(* handler of "tabsload", which stops the tab that was shown and starts    *)
(* the one that has been loaded.  jQuery UI loads a tab's page again every *)
(* time it is selected, runs its scripts, then raises "tabsload".          *)
(*                                                                         *)
(* While a tab is loading the user waits: no mouse event reaches a page.   *)
(***************************************************************************)
EXTENDS NetworkPage, MessagesPage

CONSTANT Budgets        \* how often the user presses a button of the mouse, changes
                        \* the filter or selects a tab, and the network changes or
                        \* fails, in a behaviour: [presses, tabs, changes, losses]

VARIABLES selected,     \* the tab last loaded (index.html: selected)
          loading       \* the tab being loaded

tabVars == <<selected, loading>>

vars == <<networkVars, messageVars, rftableVars, tabVars>>

Tabs == {"network", "messages", "rftable"}

NoInfo == [title |-> None, data |-> None]

SelectTab(t) ==
    /\ t # (IF loading = None THEN selected ELSE loading)
    /\ left.tabs > 0 /\ left' = [left EXCEPT !.tabs = @ - 1]
    /\ buttons = {}
    /\ loading' = t
    /\ UNCHANGED <<pageVars, timers, netVars, buttons, clean, eventVars,
                   messageVars, rftableVars, selected>>

(* Mutant: the previous tab is not stopped. *)
running_stop(t) == t

(* <tab>_stop of the tab that was shown; only the network tab has one. *)
stop(t) == IF selected = "network" THEN network_stop_updating(t) ELSE t

(* network.js is run again: its variables are reset, except interval_id,    *)
(* which is declared without a value.                                       *)
NetworkScript ==
    /\ rgraph' = Undefined /\ animation' = NoAnimation
    /\ previous_pos' = <<>> /\ selected_node' = None /\ info' = NoInfo
    /\ hovered' = NoNode /\ pressed' = NoNode /\ moved' = FALSE
    /\ clean' = TRUE

network_init ==
    /\ network_update
    /\ timers' = network_start_updating(stop(timers))
    /\ UNCHANGED <<answers, switches, topology>>

TabsLoad ==
    /\ loading # None
    /\ \/ /\ loading = "network" /\ NetworkScript /\ network_init
          /\ UNCHANGED <<messageVars, rftableVars>>
       \/ /\ loading = "messages" /\ messages_init /\ timers' = stop(timers)
          /\ UNCHANGED <<pageVars, netVars, eventVars, clean>>
       \/ /\ loading = "rftable" /\ rftable_init /\ timers' = stop(timers)
          /\ UNCHANGED <<pageVars, netVars, eventVars, clean>>
    /\ selected' = loading /\ loading' = None
    /\ UNCHANGED <<buttons, left>>

-----------------------------------------------------------------------------
Init ==
    /\ rgraph = Undefined /\ animation = NoAnimation /\ previous_pos = <<>>
    /\ selected_node = None /\ info = NoInfo
    /\ timers = [live |-> 0, named |-> FALSE]
    /\ asked = 0 /\ answers = [t \in DOMAIN Topologies |-> 0]
    /\ switches = [id \in AllIds |-> 0] /\ topology = 1
    /\ buttons = {} /\ left \in Budgets
    /\ clean = TRUE
    /\ EventsInit /\ MessagesInit
    /\ selected = None /\ loading = "network"

(* The mouse is used on the tab that is shown. *)
OnNetwork == selected = "network" /\ loading = None /\ rgraph.built

Mouse ==
    /\ OnNetwork
    /\ Move \/ Leave \/ \E b \in {"left", "right"} : Press(b) \/ Release(b) \/ ReleaseOutside(b)

Background ==
    \/ Tick \/ Answer \/ Lose \/ ChangeTopology \/ AnimationEnd
    \/ \E t \in DOMAIN Topologies : Deliver(t)
    \/ \E id \in AllIds : DeliverSwitch(id)

Tables ==
    \/ AnswerRFTable /\ UNCHANGED left
    \/ \E c \in DOMAIN Channels :
          \/ AnswerMessages(c) /\ UNCHANGED left
          \/ LoseMessages(c) /\ left.losses > 0 /\ left' = [left EXCEPT !.losses = @ - 1]
          \/ /\ selected = "messages" /\ loading = None
             /\ left.clicks > 0 /\ left' = [left EXCEPT !.clicks = @ - 1]
             /\ \/ \E type \in Channels[c].all : ClickFilter(c, type)
                \/ \E id \in 1..Len(Messages[c]) : toggle(c, id)

Next ==
    \/ (Mouse \/ Background) /\ UNCHANGED <<messageVars, rftableVars, tabVars>>
    \/ Tables /\ UNCHANGED <<pageVars, timers, netVars, buttons, clean, eventVars, tabVars>>
    \/ \E t \in Tabs : SelectTab(t)
    \/ TabsLoad

(* The timer ticks, the server answers, answers that are not lost arrive,   *)
(* animations end, pages load; a button that is down is released some day.  *)
Quiet(A) == A /\ UNCHANGED <<messageVars, rftableVars, tabVars>>

Fairness ==
    /\ WF_vars(Quiet(Tick)) /\ WF_vars(Quiet(Answer)) /\ WF_vars(Quiet(AnimationEnd))
    /\ \A t \in DOMAIN Topologies : WF_vars(Quiet(Deliver(t)))
    /\ \A id \in AllIds : WF_vars(Quiet(DeliverSwitch(id)))
    /\ \A b \in {"left", "right"} : WF_vars(Quiet(OnNetwork /\ Release(b)))
    /\ WF_vars(TabsLoad)

Spec == Init /\ [][Next]_vars /\ Fairness

-----------------------------------------------------------------------------
(* There is never more than one interval that calls network_update,         *)
(* whatever the user does with buttons and tabs: every start follows a stop *)
(* (onDragEnd that of onDragMove, network_init that of tabsload); and the   *)
(* page polls exactly while the network tab is shown and nothing is being   *)
(* dragged.                                                                 *)
TimerMatchesPage ==
    /\ timers.live <= 1
    /\ clean /\ selected # None => (timers.live = 1 <=> selected = "network" /\ ~moved)

(* An update of the topology moves no node that stays, neither one that was *)
(* dragged nor one of a layout around another root (network_update saves    *)
(* and restores the positions around loadJSON and refresh).                 *)
PositionsKept ==
    [][(\E t \in DOMAIN Topologies : Deliver(t)) /\ rgraph.built =>
           \A n \in DOMAIN rgraph.pos \cap DOMAIN rgraph'.pos : rgraph'.pos[n] = rgraph.pos[n]]_vars

(* When the topology stops changing the page ends up showing it, though     *)
(* answers to older requests may arrive last and updates pause in a drag,   *)
(* and ends up ready to centre a node; and the panel ends up naming and     *)
(* describing the node selected last, though show_info joins the name of    *)
(* that node with whatever answer arrives.                                  *)
PageSettles ==
    <>[](clean /\ selected = "network" /\ loading = None
            => /\ rgraph.built /\ rgraph.topology = topology /\ ~rgraph.busy
               /\ selected_node \in Ids(topology)
                     => info = [title |-> selected_node, data |-> selected_node])

(* When no answer is awaited a table has the messages of the types that are *)
(* checked, once each and newest first, if the user waited for the tables   *)
(* before changing the filter again; the table of ports is sorted.          *)
TablesRight ==
    /\ \A c \in DOMAIN Channels :
           selected = "messages" /\ pending[c] = <<>> /\ ~overlapped[c]
               => /\ [k \in DOMAIN rows[c] |-> rows[c][k].type] = Answered(c, checked[c])
                  /\ IsInjective([k \in DOMAIN rows[c] |-> rows[c][k].id])
    /\ selected = "rftable" /\ ~rftableAsked
           => /\ Len(entries) = Len(Entries)
              /\ \A i \in 1..Len(entries) - 1 : entries[i] <= entries[i + 1]
=============================================================================
