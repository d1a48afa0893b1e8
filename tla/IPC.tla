-------------------------------- MODULE IPC --------------------------------
(***************************************************************************)
(* The message service as its users see it (IPC.h, IPC.py): a server and a *)
(* client, which stands for an rfclient or for rfproxy, on one channel.    *)
(* send hands a message over, listen calls a processor with what arrives.  *)
(* The two variables record those calls for each direction; a direction is *)
(* named by its sender.                                                    *)
(***************************************************************************)
EXTENDS Naturals, Sequences

CONSTANT MaxSends       \* bound: messages per direction

ASSUME MaxSendsAssumption == MaxSends \in Nat

VARIABLES
    sent,   \* sent[e]: calls of send by e
    seen    \* seen[e]: messages e's processor was called with

Endpoints == {"client", "server"}

Peer(e) == IF e = "client" THEN "server" ELSE "client"

InitUsers ==
    /\ sent = [e \in Endpoints |-> 0]
    /\ seen = [e \in Endpoints |-> <<>>]

\* The next call of send by e, and a call of e's processor.
Sends(e) ==
    /\ sent[e] < MaxSends
    /\ sent' = [sent EXCEPT ![e] = @ + 1]
    /\ UNCHANGED seen

Processes(e, m) ==
    /\ seen' = [seen EXCEPT ![e] = Append(@, m)]
    /\ UNCHANGED sent
=============================================================================
