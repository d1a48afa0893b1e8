---------------------------- MODULE MessagesPage ----------------------------
(***************************************************************************)
(* The messages tab (rfweb/js/rf/messages.js) and the table tab            *)
(* (rftable.js) of rfweb: tables filled from answers of the server.  Every *)
(* change of the filter clears the tables at once and asks for their rows; *)
(* an answer appends its rows to what is there when it arrives.            *)
(***************************************************************************)
EXTENDS Naturals, Sequences, SequencesExt

CONSTANTS Channels,     \* the channels: name |-> [shown, all]: types of messages
          Messages,     \* for every channel, the types of its messages, newest first
          Entries,      \* the vm_ids of the server's table, in its order
          MaxPending    \* bound on the requests in flight for a channel

VARIABLES checked,      \* the boxes of the filter that are checked
          rows,         \* the rows of every table, [type, id, open]
          pending,      \* the types asked for, for every request in flight
          overlapped,   \* the last update found a request in flight, or one failed
          entries,      \* the rows of the table tab
          rftableAsked  \* whether its request is in flight

messageVars == <<checked, rows, pending, overlapped>>

rftableVars == <<entries, rftableAsked>>

(* process_message and the template: the rows of an answer. *)
Rendered(types) == [i \in DOMAIN types |-> [type |-> types[i], id |-> i, open |-> FALSE]]

(* rfweb.py messages: the messages of the types asked for, newest first. *)
Answered(c, types) == SelectSeq(Messages[c], LAMBDA m : m \in types)

(* Mutant: the table is not cleared. *)
kept_update(boxes) ==
    /\ rows' = rows
    /\ pending' = [c \in DOMAIN Channels |->
                      IF boxes[c] = {} THEN pending[c] ELSE Append(pending[c], boxes[c])]
    /\ overlapped' = [c \in DOMAIN Channels |-> pending[c] # <<>>]

(* update and update_table, for every channel; without a type that is       *)
(* checked there is no request.                                             *)
update(boxes) ==
    /\ rows' = [c \in DOMAIN Channels |-> <<>>]
    /\ pending' = [c \in DOMAIN Channels |->
                      IF boxes[c] = {} THEN pending[c] ELSE Append(pending[c], boxes[c])]
    /\ overlapped' = [c \in DOMAIN Channels |-> pending[c] # <<>>]

(* A box of the filter is clicked: the tables of all channels are updated. *)
ClickFilter(c, type) ==
    LET boxes == [checked EXCEPT ![c] = IF type \in @ THEN @ \ {type} ELSE @ \cup {type}]
    IN  /\ \A d \in DOMAIN Channels : Len(pending[d]) < MaxPending
        /\ checked' = boxes
        /\ update(boxes)
        /\ UNCHANGED rftableVars

(* The success callback of update_table, for any of the requests. *)
AnswerMessages(c) ==
    \E i \in DOMAIN pending[c] :
        /\ rows' = [rows EXCEPT ![c] = @ \o Rendered(Answered(c, pending[c][i]))]
        /\ pending' = [pending EXCEPT ![c] = RemoveAt(@, i)]
        /\ UNCHANGED <<checked, overlapped, rftableVars>>

LoseMessages(c) ==
    \E i \in DOMAIN pending[c] :
        /\ pending' = [pending EXCEPT ![c] = RemoveAt(@, i)]
        /\ overlapped' = [overlapped EXCEPT ![c] = TRUE]
        /\ UNCHANGED <<checked, rows, rftableVars>>

(* toggle: the first row with the id that was clicked. *)
toggle(c, id) ==
    /\ \E k \in DOMAIN rows[c] : rows[c][k].id = id
    /\ rows' = [rows EXCEPT ![c][SelectInSeq(rows[c], LAMBDA r : r.id = id)].open = ~@]
    /\ UNCHANGED <<checked, pending, overlapped, rftableVars>>

-----------------------------------------------------------------------------
compare_objects(a, b) == a < b

(* The success callback of rftable_init: the entries, sorted by vm_id. *)
AnswerRFTable ==
    /\ rftableAsked /\ rftableAsked' = FALSE
    /\ entries' = entries \o SortSeq(Entries, compare_objects)
    /\ UNCHANGED messageVars

-----------------------------------------------------------------------------
(* messages.html and messages.js are loaded again, then messages_init: the  *)
(* answers still in flight go to tables that are not shown any more.        *)
messages_init ==
    /\ checked' = [c \in DOMAIN Channels |-> Channels[c].shown]
    /\ rows' = [c \in DOMAIN Channels |-> <<>>]
    /\ pending' = [c \in DOMAIN Channels |->
                      IF Channels[c].shown = {} THEN <<>> ELSE <<Channels[c].shown>>]
    /\ overlapped' = [c \in DOMAIN Channels |-> FALSE]
    /\ UNCHANGED rftableVars

rftable_init ==
    /\ entries' = <<>> /\ rftableAsked' = TRUE
    /\ UNCHANGED messageVars

MessagesInit ==
    /\ checked = [c \in DOMAIN Channels |-> {}] /\ rows = [c \in DOMAIN Channels |-> <<>>]
    /\ pending = [c \in DOMAIN Channels |-> <<>>]
    /\ overlapped = [c \in DOMAIN Channels |-> FALSE]
    /\ entries = <<>> /\ rftableAsked = FALSE
=============================================================================
