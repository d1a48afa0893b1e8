----------------------------- MODULE IPCService -----------------------------
(***************************************************************************)
(* The message service of a RouteFlow installation: IPC_TYPE (defs.py)     *)
(* chooses the library that IPCService.py builds for every process. Both   *)
(* are shown to implement the channel of IPCChannel in either direction.   *)
(***************************************************************************)
EXTENDS ZeroMQIPC, MongoIPC

VARIABLE IPC_TYPE

vars == <<IPC_TYPE, sent, seen, zmqOwn, mongoOwn>>

Init ==
    /\ IPC_TYPE \in {"zeromq", "mongo"}
    /\ ZmqInit
    /\ MongoInit

ZeroMQ == IPC_TYPE = "zeromq" /\ ZmqNext /\ UNCHANGED <<IPC_TYPE, mongoOwn>>
Mongo == IPC_TYPE = "mongo" /\ MongoNext /\ UNCHANGED <<IPC_TYPE, zmqOwn>>

Next == ZeroMQ \/ Mongo

\* The workers and the listeners are threads that never stop; the users need
\* not send, a connection need not come about and nothing need break.
Fairness ==
    \A e \in Endpoints :
        /\ WF_vars(handle_external(e) /\ ZeroMQ)
        /\ WF_vars(handle_mailbox(e) /\ ZeroMQ)
        /\ WF_vars(SendExternal(e) /\ ZeroMQ)
        /\ WF_vars(SendFails(e) /\ ZeroMQ)
        /\ WF_vars(sub_worker(e) /\ ZeroMQ)
        /\ WF_vars(query(e) /\ Mongo)
        /\ WF_vars(process(e) /\ Mongo)
        /\ WF_vars(update(e) /\ Mongo)

Spec == Init /\ [][Next]_vars /\ Fairness
-----------------------------------------------------------------------------
Up == INSTANCE IPCChannel
      WITH sent <- sent["client"], seen <- seen["server"], redo <- redo["server"]

Down == INSTANCE IPCChannel
        WITH sent <- sent["server"], seen <- seen["client"], redo <- redo["client"]

\* Messages reach the other side's process() whole, in the order of the calls
\* of send, and once, whatever is dropped on the way and whichever process
\* restarts; only over MongoDB is the message whose processing a restart cut
\* short processed a second time. Several threads of the server hand over
\* frames to one socket, under ipc_lock.
Channels == Up!Spec /\ Down!Spec

\* The client's worker reads what the server sent although it may be waiting
\* for the server to be reachable: the attempts for one message are limited.
PeerHeard == \A e \in Endpoints : wire[e] # <<>> ~> wire[e] = <<>>

\* Over MongoDB every envelope is processed unless newer ones overwrite it,
\* however many wait: the C++ query's limit only delays them.
EnvelopesRead ==
    \A e \in Endpoints : \A m \in 1..MaxSends :
        m \in Unread(e) ~> m \notin Unread(e)
=============================================================================
