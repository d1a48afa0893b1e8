----------------------------- MODULE RouteModFlow -----------------------------
(***************************************************************************)
(* Flow control of RouteMods between an RFClient and the RFServer.          *)
(*                                                                          *)
(* The client's main thread (the loop of RFClient::RFClient) sends RouteMods *)
(* from rm_q while at most max_rm_outstanding are unacknowledged; its IPC   *)
(* thread counts acknowledgements (RFClient::process).  In the server, the  *)
(* client listener turns a RouteMod into messages on dp_q and then puts an  *)
(* acknowledgement on ack_q (register_route_mod); dp_worker forwards dp_q   *)
(* to the proxy; the proxy answers each message, and an answer makes the    *)
(* proxy listener send what is on ack_q (send_routemod_acks).               *)
(*                                                                          *)
(* Every queue is FIFO and no property tells RouteMods apart, so a queue is *)
(* its length.                                                              *)
(***************************************************************************)
EXTENDS Integers

CONSTANTS
    max_rm_outstanding, \* RFClient.hh
    Modulus,            \* 2^64: rm_outstanding is a uint64_t
    MinRms, MaxRms,     \* messages a RouteMod may translate to
    MaxProduced,        \* bound: RouteMods the client produces
    MaxRestarts         \* bound: client restarts

ASSUME FlowAssumption ==
    /\ max_rm_outstanding \in Nat /\ Modulus \in Nat
    /\ MinRms \in Nat /\ MaxRms \in Nat /\ MinRms <= MaxRms
    /\ MaxProduced \in Nat /\ MaxRestarts \in Nat

\* The counter is wide enough for the windows of all client processes.
ASSUME WidthAssumption == Modulus > (MaxRestarts + 1) * (max_rm_outstanding + 1) + 1

VARIABLES
    rm_q,           \* client: RouteMods waiting to be sent
    rm_outstanding, \* client: the counter both threads update
    main,           \* client: where the main loop is
    c2s,            \* RouteMods on their way to the server
    handler, left,  \* server: register_route_mod, and its messages still to queue
    dp_q, s2p, p2s, \* server to proxy and back
    drain, ack_q,   \* server: send_routemod_acks running; acknowledgements queued
    s2c,            \* acknowledgements on their way to the client
    produced, restarts

client == <<rm_q, rm_outstanding, main>>
server == <<handler, left, dp_q, drain, ack_q>>
vars == <<client, c2s, server, s2p, p2s, s2c, produced, restarts>>

\* Mutants: the counter goes below zero; it stops at zero.
dec_signed(n) == n - 1
dec_saturating(n) == IF n = 0 THEN 0 ELSE n - 1

inc(n) == IF n = Modulus - 1 THEN 0 ELSE n + 1
dec(n) == IF n = 0 THEN Modulus - 1 ELSE n - 1

Init ==
    /\ rm_q = 0 /\ rm_outstanding = 0 /\ main = "check"
    /\ c2s = 0 /\ s2p = 0 /\ p2s = 0 /\ s2c = 0
    /\ handler = "idle" /\ left = 0 /\ dp_q = 0 /\ drain = "idle" /\ ack_q = 0
    /\ produced = 0 /\ restarts = 0

------------------------------------------------------------------------------
(* The client.                                                              *)

\* FlowTable and the port-up handler push RouteMods (RFClient::sendRm).
sendRm ==
    /\ produced < MaxProduced
    /\ produced' = produced + 1
    /\ rm_q' = rm_q + 1
    /\ UNCHANGED <<rm_outstanding, main, c2s, server, s2p, p2s, s2c, restarts>>

\* Mutant: the loop forgets to test the counter.
check_nothing ==
    /\ main = "check"
    /\ main' = "pop"
    /\ UNCHANGED <<rm_q, rm_outstanding, c2s, server, s2p, p2s, s2c, produced, restarts>>

\* Under flow control the loop sleeps and tests again.
check_flow_control ==
    /\ main = "check" /\ ~(rm_outstanding > max_rm_outstanding)
    /\ main' = "pop"
    /\ UNCHANGED <<rm_q, rm_outstanding, c2s, server, s2p, p2s, s2c, produced, restarts>>

\* wait_and_pop, then ipc->send.
pop_and_send ==
    /\ main = "pop" /\ rm_q > 0
    /\ rm_q' = rm_q - 1
    /\ c2s' = c2s + 1
    /\ main' = "count"
    /\ UNCHANGED <<rm_outstanding, server, s2p, p2s, s2c, produced, restarts>>

\* The counter is incremented after the send: the answer may come first.
count_sent ==
    /\ main = "count"
    /\ rm_outstanding' = inc(rm_outstanding)
    /\ main' = "check"
    /\ UNCHANGED <<rm_q, c2s, server, s2p, p2s, s2c, produced, restarts>>


\* process, PCT_ROUTEMOD_ACK.
process_ack ==
    /\ s2c > 0
    /\ s2c' = s2c - 1
    /\ rm_outstanding' = dec(rm_outstanding)
    /\ UNCHANGED <<rm_q, main, c2s, server, s2p, p2s, produced, restarts>>

\* A new process starts with an empty queue and a zero counter; what was on
\* its way to the old one may be lost, what the server holds is not.
restart_client ==
    /\ restarts < MaxRestarts
    /\ restarts' = restarts + 1
    /\ rm_q' = 0 /\ rm_outstanding' = 0 /\ main' = "check"
    /\ s2c' \in {0, s2c}
    /\ UNCHANGED <<c2s, server, s2p, p2s, produced>>

------------------------------------------------------------------------------
(* The server and the proxy.                                                *)

\* register_route_mod, the translation: how many messages it gives depends on
\* the ports that are active.
register_route_mod ==
    /\ handler = "idle" /\ c2s > 0
    /\ c2s' = c2s - 1
    /\ handler' = "busy"
    /\ left' \in MinRms..MaxRms
    /\ UNCHANGED <<client, dp_q, drain, ack_q, s2p, p2s, s2c, produced, restarts>>

send_route_mod ==
    /\ handler = "busy" /\ left > 0
    /\ left' = left - 1
    /\ dp_q' = dp_q + 1
    /\ UNCHANGED <<client, c2s, handler, drain, ack_q, s2p, p2s, s2c, produced, restarts>>

queue_routemod_ack ==
    /\ handler = "busy" /\ left = 0
    /\ handler' = "idle"
    /\ ack_q' = ack_q + 1
    /\ UNCHANGED <<client, c2s, left, dp_q, drain, s2p, p2s, s2c, produced, restarts>>

dp_worker ==
    /\ dp_q > 0
    /\ dp_q' = dp_q - 1
    /\ s2p' = s2p + 1
    /\ UNCHANGED <<client, c2s, handler, left, drain, ack_q, p2s, s2c, produced, restarts>>

\* RFProxy installs the flow and answers.
proxy_answer ==
    /\ s2p > 0
    /\ s2p' = s2p - 1
    /\ p2s' = p2s + 1
    /\ UNCHANGED <<client, c2s, server, s2c, produced, restarts>>

\* process, ROUTE_MOD on the proxy channel: send_routemod_acks.
start_acks ==
    /\ drain = "idle" /\ p2s > 0
    /\ p2s' = p2s - 1
    /\ drain' = "busy"
    /\ UNCHANGED <<client, c2s, handler, left, dp_q, ack_q, s2p, s2c, produced, restarts>>

send_routemod_acks ==
    /\ drain = "busy"
    /\ IF ack_q = 0
       THEN drain' = "idle" /\ UNCHANGED <<ack_q, s2c>>
       ELSE ack_q' = ack_q - 1 /\ s2c' = s2c + 1 /\ UNCHANGED drain
    /\ UNCHANGED <<client, c2s, handler, left, dp_q, s2p, p2s, produced, restarts>>

Steps ==
    \/ check_flow_control \/ pop_and_send \/ count_sent \/ process_ack
    \/ register_route_mod \/ send_route_mod \/ queue_routemod_ack \/ dp_worker
    \/ proxy_answer \/ start_acks \/ send_routemod_acks

Next == sendRm \/ restart_client \/ Steps

Spec == Init /\ [][Next]_vars

\* Every thread and the proxy keep running.
Fairness ==
    /\ WF_vars(check_flow_control) /\ WF_vars(pop_and_send) /\ WF_vars(count_sent)
    /\ WF_vars(process_ack)
    /\ WF_vars(register_route_mod) /\ WF_vars(send_route_mod) /\ WF_vars(queue_routemod_ack)
    /\ WF_vars(dp_worker) /\ WF_vars(proxy_answer)
    /\ WF_vars(start_acks) /\ WF_vars(send_routemod_acks)

FairSpec == Spec /\ Fairness

------------------------------------------------------------------------------
TypeOK ==
    /\ rm_q \in Nat /\ rm_outstanding \in 0..(Modulus - 1)
    /\ main \in {"check", "pop", "count"}
    /\ c2s \in Nat /\ s2p \in Nat /\ p2s \in Nat /\ s2c \in Nat
    /\ handler \in {"idle", "busy"} /\ left \in Nat /\ dp_q \in Nat
    /\ drain \in {"idle", "busy"} /\ ack_q \in Nat
    /\ produced \in 0..MaxProduced /\ restarts \in 0..MaxRestarts

\* RouteMods sent whose acknowledgement the client has not counted.
Unacked == c2s + (IF handler = "busy" THEN 1 ELSE 0) + ack_q + s2c

\* The client never has more than max_rm_outstanding + 1 RouteMods
\* unacknowledged: the loop tests before each send and counts after it.  A
\* restarted client opens a window of its own: whatever the old one left
\* unacknowledged, each start adds at most one full window, since an
\* acknowledgement meant for the old process lets the new one send once more.
WindowBounded == Unacked <= (restarts + 1) * (max_rm_outstanding + 1)

\* Whenever the main loop of a first client process tests rm_outstanding, it
\* holds the number of unacknowledged RouteMods.  An acknowledgement handled
\* before its send is counted takes the unsigned counter below zero, and the
\* test never sees it.
CounterExact == restarts = 0 /\ main = "check" => rm_outstanding = Unacked

==============================================================================
