-------------------------- MODULE RouteModFlowProofs --------------------------
(***************************************************************************)
(* The client's window and counter, for every window size, every counter    *)
(* width, every number of messages per RouteMod and any number of           *)
(* RouteMods and client restarts.                                           *)
(***************************************************************************)
EXTENDS RouteModFlow, TLAPS

\* A window: what one client process may leave unacknowledged.
K == max_rm_outstanding + 1

\* What the unsigned counter stands for: acknowledgements of RouteMods an older
\* process sent, or of one not counted yet, take it below zero.
Signed == IF rm_outstanding <= K THEN rm_outstanding ELSE rm_outstanding - Modulus

\* The RouteMod sent and not counted yet.
Uncounted == IF main = "count" THEN 1 ELSE 0

\* The inductive invariant: this process accounts for Signed + Uncounted of the
\* unacknowledged RouteMods and the older ones for at most a window each; the
\* window has room whenever the loop is past its test.
IInv ==
    /\ TypeOK
    /\ Unacked <= restarts * K + Signed + Uncounted
    /\ restarts = 0 => Unacked = Signed + Uncounted
    /\ Signed + Uncounted <= K
    /\ main = "pop" => Signed < K

\* A window fits in the counter.
LEMMA CounterRoom == Modulus > K + 1
<1>1. K \in Nat /\ MaxRestarts * K \in Nat /\ (MaxRestarts + 1) * K = MaxRestarts * K + K
  BY FlowAssumption DEF K
<1>2. Modulus > (MaxRestarts + 1) * K + 1
  BY WidthAssumption DEF K
<1>3. QED
  BY <1>1, <1>2, FlowAssumption

\* The windows of all client processes fit in the counter.
LEMMA Width ==
    ASSUME TypeOK
    PROVE  /\ restarts * K \in Nat /\ (restarts + 1) * K = restarts * K + K
           /\ restarts * K + K + 1 < Modulus
<1>1. restarts \in Nat /\ K \in Nat /\ MaxRestarts \in Nat /\ restarts <= MaxRestarts
  BY FlowAssumption DEF TypeOK, K
<1>2. restarts * K <= MaxRestarts * K
  BY <1>1, SMT
<1>3. (MaxRestarts + 1) * K = MaxRestarts * K + K /\ (restarts + 1) * K = restarts * K + K
  BY <1>1, SMT
<1>4. Modulus > (MaxRestarts + 1) * K + 1
  BY WidthAssumption DEF K
<1>5. restarts * K \in Nat /\ MaxRestarts * K \in Nat
  BY <1>1, SMT
<1>6. QED
  BY <1>1, <1>2, <1>3, <1>4, <1>5, FlowAssumption

\* Initially nothing is queued, sent or counted.
LEMMA InitIInv == Init => IInv
<1> SUFFICES ASSUME Init PROVE IInv
  OBVIOUS
<1>1. TypeOK
  BY FlowAssumption, CounterRoom DEF Init, TypeOK, K
<1>2. K \in Nat /\ Signed = 0 /\ Uncounted = 0 /\ Unacked = 0 /\ restarts * K = 0
  BY FlowAssumption DEF Init, Signed, Uncounted, Unacked, K
<1>3. QED
  BY <1>1, <1>2, FlowAssumption DEF Init, IInv, K

\* The state of client, channels and server stays well typed.
LEMMA NextTypeOK == TypeOK /\ [Next]_vars => TypeOK'
BY FlowAssumption, CounterRoom
   DEF K, TypeOK, vars, client, server, Next, Steps, sendRm, restart_client, check_flow_control,
       pop_and_send, count_sent, process_ack, register_route_mod, send_route_mod,
       queue_routemod_ack, dp_worker, proxy_answer, start_acks, send_routemod_acks, inc, dec

\* A step that leaves the client and its restarts alone and moves RouteMods and
\* acknowledgements along, losing none, preserves the invariant.
LEMMA MovedIInv ==
    ASSUME IInv, TypeOK', Unacked' = Unacked,
           UNCHANGED <<rm_outstanding, main, restarts>>
    PROVE  IInv'
BY DEF IInv, Signed, Uncounted, K

\* Every step preserves the invariant.
LEMMA NextIInv == IInv /\ [Next]_vars => IInv'
<1> SUFFICES ASSUME IInv, [Next]_vars PROVE IInv'
  OBVIOUS
<1> DEFINE B == restarts * K
<1>h. TypeOK
  BY DEF IInv
<1>i. TypeOK'
  BY <1>h, NextTypeOK
<1>a. TypeOK /\ TypeOK'
  BY <1>h, <1>i
<1>b. B \in Nat /\ (restarts + 1) * K = B + K /\ B + K + 1 < Modulus
  BY <1>a, Width
<1>c. /\ Unacked <= B + Signed + Uncounted
      /\ restarts = 0 => Unacked = Signed + Uncounted
      /\ Signed + Uncounted <= K
      /\ main = "pop" => Signed < K
  BY DEF IInv
<1>d. restarts' = restarts => B' = B
  BY DEF K
<1>e. K \in Nat /\ K = max_rm_outstanding + 1
  BY FlowAssumption DEF K
<1> USE FlowAssumption
<1>f. K' = K
  BY DEF K
<1>g. SUFFICES /\ Unacked' <= B' + Signed' + Uncounted'
               /\ restarts' = 0 => Unacked' = Signed' + Uncounted'
               /\ Signed' + Uncounted' <= K
               /\ main' = "pop" => Signed' < K
  BY <1>a, <1>f DEF IInv
<1> HIDE DEF B
<1>1. CASE restart_client
  <2>1. B' = B + K
    BY <1>1, <1>b, <1>f DEF restart_client, B
  <2>2. Signed' = 0 /\ Uncounted' = 0 /\ main' = "check" /\ restarts' # 0
    BY <1>1, <1>a, <1>e, <1>f DEF restart_client, Signed, Uncounted, TypeOK
  <2>3. c2s \in Nat /\ ack_q \in Nat /\ s2c \in Nat
    BY <1>h DEF TypeOK
  <2>4. UNCHANGED <<c2s, handler, ack_q>> /\ (s2c' = 0 \/ s2c' = s2c)
    BY <1>1 DEF restart_client, server
  <2>5. Unacked \in Nat /\ Unacked' \in Nat /\ Unacked' <= Unacked
    <3>1. CASE s2c' = 0
      BY <2>3, <2>4, <3>1 DEF Unacked
    <3>2. CASE s2c' = s2c
      BY <2>3, <2>4, <3>2 DEF Unacked
    <3>3. QED
      BY <2>4, <3>1, <3>2
  <2>6. Signed \in Int /\ Uncounted \in Int
    BY <1>a, <1>e DEF TypeOK, Signed, Uncounted
  <2>7. QED
    BY <2>1, <2>2, <2>5, <2>6, <1>b, <1>c, <1>e
<1>2. CASE check_flow_control
  BY <1>2, <1>a, <1>b, <1>c, <1>d, <1>e, <1>f
     DEF check_flow_control, server, Unacked, Signed, Uncounted, TypeOK
<1>3. CASE pop_and_send
  BY <1>3, <1>a, <1>b, <1>c, <1>d, <1>e, <1>f
     DEF pop_and_send, server, Unacked, Signed, Uncounted, TypeOK
<1>4. CASE count_sent
  BY <1>4, <1>a, <1>b, <1>c, <1>d, <1>e, <1>f
     DEF count_sent, server, Unacked, Signed, Uncounted, TypeOK, inc
<1>5. CASE process_ack
  BY <1>5, <1>a, <1>b, <1>c, <1>d, <1>e, <1>f
     DEF process_ack, server, Unacked, Signed, Uncounted, TypeOK, dec
<1>6. ASSUME Unacked' = Unacked, UNCHANGED <<rm_outstanding, main, restarts>> PROVE IInv'
  BY <1>6, <1>a, MovedIInv
<1>7. CASE \/ sendRm \/ register_route_mod \/ send_route_mod \/ queue_routemod_ack
           \/ dp_worker \/ proxy_answer \/ start_acks \/ send_routemod_acks
           \/ UNCHANGED vars
  <2>1. UNCHANGED <<rm_outstanding, main, restarts>>
    BY <1>7 DEF sendRm, register_route_mod, send_route_mod, queue_routemod_ack, dp_worker,
                proxy_answer, start_acks, send_routemod_acks, vars, client
  <2>2. ASSUME sendRm PROVE Unacked' = Unacked
    BY <2>2, <1>a DEF sendRm, client, server, Unacked, TypeOK
  <2>3. ASSUME register_route_mod PROVE Unacked' = Unacked
    BY <2>3, <1>a DEF register_route_mod, client, server, Unacked, TypeOK
  <2>4. ASSUME send_route_mod PROVE Unacked' = Unacked
    BY <2>4, <1>a DEF send_route_mod, client, server, Unacked, TypeOK
  <2>5. ASSUME queue_routemod_ack PROVE Unacked' = Unacked
    BY <2>5, <1>a DEF queue_routemod_ack, client, server, Unacked, TypeOK
  <2>6. ASSUME dp_worker PROVE Unacked' = Unacked
    BY <2>6, <1>a DEF dp_worker, client, server, Unacked, TypeOK
  <2>7. ASSUME proxy_answer PROVE Unacked' = Unacked
    BY <2>7, <1>a DEF proxy_answer, client, server, Unacked, TypeOK
  <2>8. ASSUME start_acks PROVE Unacked' = Unacked
    BY <2>8, <1>a DEF start_acks, client, server, Unacked, TypeOK
  <2>9. ASSUME send_routemod_acks PROVE Unacked' = Unacked
    <3>1. c2s \in Nat /\ ack_q \in Nat /\ s2c \in Nat
      BY <1>h DEF TypeOK
    <3>2. CASE ack_q = 0
      BY <2>9, <3>1, <3>2 DEF send_routemod_acks, Unacked
    <3>3. CASE ack_q # 0
      BY <2>9, <3>1, <3>3 DEF send_routemod_acks, Unacked
    <3>4. QED
      BY <3>2, <3>3
  <2>10. ASSUME UNCHANGED vars PROVE Unacked' = Unacked
    BY <2>10, <1>a DEF vars, client, server, Unacked, TypeOK
  <2>11. Unacked' = Unacked
    BY <1>7, <2>2, <2>3, <2>4, <2>5, <2>6, <2>7, <2>8, <2>9, <2>10
  <2>12. IInv'
    BY <2>1, <2>11, <1>6
  <2>13. QED
    BY <2>12, <1>f DEF IInv, B
<1>8. QED
  BY <1>1, <1>2, <1>3, <1>4, <1>5, <1>7 DEF Next, Steps

\* The invariant holds in every reachable state.
LEMMA AlwaysIInv == Spec => []IInv
BY InitIInv, NextIInv, PTL DEF Spec

\* The state of client, channels and server stays well typed, restarts
\* included (RFClient.cc's loop, rfserver.py's handlers).
THEOREM FlowTypeCorrect == Spec => []TypeOK
<1>1. IInv => TypeOK
  BY DEF IInv
<1>2. QED
  BY <1>1, AlwaysIInv, PTL

\* The client never has more than a window unacknowledged for each time it was
\* started (the loop of RFClient::RFClient).
THEOREM WindowTheorem == Spec => []WindowBounded
<1>1. IInv => WindowBounded
  <2> SUFFICES ASSUME IInv PROVE WindowBounded
    OBVIOUS
  <2>1. TypeOK /\ Unacked <= restarts * K + Signed + Uncounted /\ Signed + Uncounted <= K
    BY DEF IInv
  <2>2. restarts * K \in Nat /\ (restarts + 1) * K = restarts * K + K
    BY <2>1, Width
  <2>3. Unacked \in Nat /\ Signed \in Int /\ Uncounted \in Int /\ K \in Nat
    BY <2>1, FlowAssumption DEF TypeOK, Unacked, Signed, Uncounted, K
  <2>4. Unacked <= (restarts + 1) * K
    BY <2>1, <2>2, <2>3
  <2>5. QED
    BY <2>4 DEF WindowBounded, K
<1>2. QED
  BY <1>1, AlwaysIInv, PTL

\* The test of a first client's loop reads the exact number of unacknowledged
\* RouteMods, although an acknowledgement can overtake the increment it belongs
\* to and wrap the counter.
THEOREM CounterTheorem == Spec => []CounterExact
<1>1. IInv => CounterExact
  BY FlowAssumption DEF IInv, CounterExact, TypeOK, Unacked, Signed, Uncounted, K
<1>2. QED
  BY <1>1, AlwaysIInv, PTL
==============================================================================
