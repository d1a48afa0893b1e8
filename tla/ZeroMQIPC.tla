----------------------------- MODULE ZeroMQIPC -----------------------------
(***************************************************************************)
(* The message service over ZeroMQ (ZeroMQIPC.py, ZeroMQIPC.cc). In each   *)
(* process the users' threads hand messages to a main worker through an    *)
(* inproc PAIR socket, four frames a message; the worker owns the ROUTER   *)
(* socket to the peer and publishes what comes from it to the listener.    *)
(*                                                                         *)
(* The worker of a client tries a message Attempts times, half a second    *)
(* apart, while the server is not reachable, and does nothing else in that *)
(* time. The server tries once: its ROUTER socket drops a message to a     *)
(* peer it does not know without an error.                                 *)
(*                                                                         *)
(* A frame is the message it belongs to and its place in it: 1 the address,*)
(* 2 the channel, 3 the type, 4 the payload.                               *)
(***************************************************************************)
EXTENDS IPC

CONSTANTS
    Threads,        \* threads of a process that call send
    Attempts,       \* tries of a client's worker (30 in the code)
    HWM,            \* room of a socket's queue
    MaxBreaks       \* bound: lost connections and restarts

ASSUME ZmqAssumption ==
    /\ "free" \notin Threads
    /\ Attempts \in Nat \ {0}
    /\ HWM \in Nat \ {0}
    /\ MaxBreaks \in Nat

VARIABLES
    ipc_lock,       \* ipc_lock[e]: the thread of e that is in send, or "free"
    call,           \* call[e][t]: the message thread t of e hands over, 0 if none
    put,            \* put[e][t]: its frames already given to the PAIR socket
    building,       \* building[e]: frames of the PAIR socket's unfinished message
    mailbox,        \* mailbox[e]: finished messages for e's worker
    parts,          \* parts[e]: at most one, the message e's worker tries to send
    attempt,        \* attempt[e]: tries left, 0 when the worker polls
    wire,           \* wire[e]: messages on their way to e's ROUTER socket
    pub,            \* pub[e]: messages published to e's listener
    listening,      \* listening[e]: 1 once e's listener has subscribed
    connected,      \* 1 while each ROUTER socket knows the other
    breaks

senders == <<ipc_lock, call, put, building>>
sockets == <<wire, pub, listening, connected, breaks>>
zmqOwn == <<senders, mailbox, parts, attempt, sockets>>
zmqVars == <<sent, seen, zmqOwn>>

Frame == [n : Nat, f : 1..4]
Whole(n) == [i \in 1..4 |-> [n |-> n, f |-> i]]

ZmqInit ==
    /\ InitUsers
    /\ ipc_lock = [e \in Endpoints |-> "free"]
    /\ call = [e \in Endpoints |-> [t \in Threads |-> 0]]
    /\ put = [e \in Endpoints |-> [t \in Threads |-> 0]]
    /\ building = [e \in Endpoints |-> <<>>]
    /\ mailbox = [e \in Endpoints |-> <<>>]
    /\ parts = [e \in Endpoints |-> <<>>]
    /\ attempt = [e \in Endpoints |-> 0]
    /\ wire = [e \in Endpoints |-> <<>>]
    /\ pub = [e \in Endpoints |-> <<>>]
    /\ listening = [e \in Endpoints |-> 0]
    /\ connected = 0
    /\ breaks = 0
-----------------------------------------------------------------------------
(* The users' threads. The server's take ipc_lock; a client has one thread  *)
(* that sends, for which the lock stands as well.                           *)

\* Mutant: ipc_send does not take the lock.
unlocked_ipc_send(e, t) ==
    /\ call[e][t] = 0
    /\ Sends(e)
    /\ ipc_lock' = [ipc_lock EXCEPT ![e] = t]
    /\ call' = [call EXCEPT ![e][t] = sent[e] + 1]
    /\ UNCHANGED <<put, building, mailbox, parts, attempt, sockets>>

ipc_send(e, t) ==
    /\ ipc_lock[e] = "free"
    /\ Sends(e)
    /\ ipc_lock' = [ipc_lock EXCEPT ![e] = t]
    /\ call' = [call EXCEPT ![e][t] = sent[e] + 1]
    /\ UNCHANGED <<put, building, mailbox, parts, attempt, sockets>>

\* One frame of send; the last is sent without SNDMORE and ends the message.
send(e, t) ==
    LET multipart == Append(building[e], [n |-> call[e][t], f |-> put[e][t] + 1])
    IN  /\ call[e][t] # 0
        /\ IF put[e][t] < 3
           THEN /\ building' = [building EXCEPT ![e] = multipart]
                /\ put' = [put EXCEPT ![e][t] = @ + 1]
                /\ UNCHANGED <<ipc_lock, call, mailbox>>
           ELSE /\ building' = [building EXCEPT ![e] = <<>>]
                /\ mailbox' = [mailbox EXCEPT ![e] = Append(@, multipart)]
                /\ put' = [put EXCEPT ![e][t] = 0]
                /\ call' = [call EXCEPT ![e][t] = 0]
                /\ ipc_lock' = [ipc_lock EXCEPT ![e] = "free"]
        /\ UNCHANGED <<sent, seen, parts, attempt, sockets>>
-----------------------------------------------------------------------------
(* The main worker.                                                         *)

\* A PUB socket drops what nobody subscribes to and what finds no room.
handle_external(e) ==
    /\ attempt[e] = 0
    /\ wire[e] # <<>>
    /\ wire' = [wire EXCEPT ![e] = Tail(@)]
    /\ LET m == Head(wire[e])
       IN  pub' = IF Len(m) >= 2 /\ m[2].f = 2 /\ listening[e] = 1 /\ Len(pub[e]) < HWM
                  THEN [pub EXCEPT ![e] = Append(@, m)]
                  ELSE pub
    /\ UNCHANGED <<sent, seen, senders, mailbox, parts, attempt, listening, connected, breaks>>

\* The C++ worker, which is the client's, drops a message without four frames.
handle_mailbox(e) ==
    /\ attempt[e] = 0
    /\ mailbox[e] # <<>>
    /\ mailbox' = [mailbox EXCEPT ![e] = Tail(@)]
    /\ IF e = "client" /\ Len(Head(mailbox[e])) # 4
       THEN UNCHANGED <<parts, attempt>>
       ELSE /\ parts' = [parts EXCEPT ![e] = <<Head(mailbox[e])>>]
            /\ attempt' = [attempt EXCEPT ![e] = IF e = "server" THEN 1 ELSE Attempts]
    /\ UNCHANGED <<sent, seen, senders, sockets>>

\* The ROUTER socket takes the first frame for the address. When the peer's
\* queue is full a client's socket waits and the server's drops the message.
Reachable(e) == connected = 1 /\ parts[e][1][1].f = 1

SendExternal(e) ==
    /\ attempt[e] > 0
    /\ Reachable(e)
    /\ Len(wire[Peer(e)]) < HWM
    /\ wire' = [wire EXCEPT ![Peer(e)] = Append(@, parts[e][1])]
    /\ parts' = [parts EXCEPT ![e] = <<>>]
    /\ attempt' = [attempt EXCEPT ![e] = 0]
    /\ UNCHANGED <<sent, seen, senders, mailbox, pub, listening, connected, breaks>>

\* Mutant: tries go on until the message can be sent.
endless_SendFails(e) ==
    /\ attempt[e] > 0
    /\ ~Reachable(e) \/ (e = "server" /\ Len(wire[Peer(e)]) >= HWM)
    /\ IF e = "server"
       THEN attempt' = [attempt EXCEPT ![e] = 0] /\ parts' = [parts EXCEPT ![e] = <<>>]
       ELSE UNCHANGED <<attempt, parts>>
    /\ UNCHANGED <<sent, seen, senders, mailbox, sockets>>

SendFails(e) ==
    /\ attempt[e] > 0
    /\ ~Reachable(e) \/ (e = "server" /\ Len(wire[Peer(e)]) >= HWM)
    /\ attempt' = [attempt EXCEPT ![e] = @ - 1]
    /\ parts' = IF attempt[e] = 1 THEN [parts EXCEPT ![e] = <<>>] ELSE parts
    /\ UNCHANGED <<sent, seen, senders, mailbox, sockets>>
-----------------------------------------------------------------------------
(* The listener.                                                            *)

subscribe(e) ==
    /\ listening[e] = 0
    /\ listening' = [listening EXCEPT ![e] = 1]
    /\ UNCHANGED <<sent, seen, senders, mailbox, parts, attempt, wire, pub, connected, breaks>>

\* A message made of frames of several calls counts as number 0. The Python
\* listener skips one that has not four frames, the C++ listener, which is the
\* client's, reads the first four if the third is a type.
Content(m) == IF m = Whole(m[1].n) THEN m[1].n ELSE 0
Understood(e, m) == IF e = "server" THEN Len(m) = 4 ELSE Len(m) >= 4 /\ m[3].f = 3

sub_worker(e) ==
    /\ pub[e] # <<>>
    /\ IF Understood(e, Head(pub[e]))
       THEN Processes(e, Content(Head(pub[e])))
       ELSE UNCHANGED <<sent, seen>>
    /\ pub' = [pub EXCEPT ![e] = Tail(@)]
    /\ UNCHANGED <<senders, mailbox, parts, attempt, wire, listening, connected, breaks>>
-----------------------------------------------------------------------------
(* What the library and the processes may do at any time.                   *)

\* The library connects in the background, and again after a connection broke.
Connect ==
    /\ connected = 0
    /\ connected' = 1
    /\ UNCHANGED <<sent, seen, senders, mailbox, parts, attempt, wire, pub, listening, breaks>>

\* What the receiving library already holds survives the connection.
Disconnect ==
    /\ connected = 1
    /\ breaks < MaxBreaks
    /\ \E kept \in [Endpoints -> 0..HWM] :
          /\ \A e \in Endpoints : kept[e] <= Len(wire[e])
          /\ wire' = [e \in Endpoints |-> SubSeq(wire[e], 1, kept[e])]
    /\ connected' = 0
    /\ breaks' = breaks + 1
    /\ UNCHANGED <<sent, seen, senders, mailbox, parts, attempt, pub, listening>>

\* A process starts anew: nothing that it held or that was sent to it is left,
\* and what it sent last may be lost with it.
ZmqRestart(e) ==
    /\ breaks < MaxBreaks
    /\ ipc_lock' = [ipc_lock EXCEPT ![e] = "free"]
    /\ call' = [call EXCEPT ![e] = [t \in Threads |-> 0]]
    /\ put' = [put EXCEPT ![e] = [t \in Threads |-> 0]]
    /\ building' = [building EXCEPT ![e] = <<>>]
    /\ mailbox' = [mailbox EXCEPT ![e] = <<>>]
    /\ parts' = [parts EXCEPT ![e] = <<>>]
    /\ attempt' = [attempt EXCEPT ![e] = 0]
    /\ \E kept \in 0..Len(wire[Peer(e)]) :
          wire' = [wire EXCEPT ![e] = <<>>, ![Peer(e)] = SubSeq(@, 1, kept)]
    /\ pub' = [pub EXCEPT ![e] = <<>>]
    /\ listening' = [listening EXCEPT ![e] = 0]
    /\ connected' = 0
    /\ breaks' = breaks + 1
    /\ UNCHANGED <<sent, seen>>

ZmqStep(e) ==
    \/ \E t \in Threads : ipc_send(e, t) \/ send(e, t)
    \/ handle_external(e)
    \/ handle_mailbox(e)
    \/ SendExternal(e)
    \/ SendFails(e)
    \/ subscribe(e)
    \/ sub_worker(e)
    \/ ZmqRestart(e)

ZmqNext == (\E e \in Endpoints : ZmqStep(e)) \/ Connect \/ Disconnect

ZmqSpec == ZmqInit /\ [][ZmqNext]_zmqVars
=============================================================================
