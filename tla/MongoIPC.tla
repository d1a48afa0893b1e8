------------------------------ MODULE MongoIPC ------------------------------
(***************************************************************************)
(* The message service over MongoDB (MongoIPC.py, MongoIPC.cc). A channel  *)
(* is a capped collection that both directions share: an insertion into a  *)
(* full collection overwrites the oldest envelope, read or not. A listener *)
(* asks for the unread envelopes addressed to it, oldest first, processes  *)
(* each and then marks it read.                                            *)
(***************************************************************************)
EXTENDS IPC, FiniteSets

CONSTANTS
    CC_SIZE,        \* envelopes the capped collection holds (1 MB in the code)
    PENDINGLIMIT,   \* envelopes a query of the C++ listener returns
    MaxCrashes      \* bound: restarts of a receiver

ASSUME MongoAssumption ==
    /\ CC_SIZE \in Nat \ {0}
    /\ PENDINGLIMIT \in Nat \ {0}
    /\ MaxCrashes \in Nat

VARIABLES
    collection,     \* envelopes: addressee, message, place of insertion, read
    inserted,       \* insertions so far
    cursor,         \* cursor[e]: messages of e's query not yet processed
    envelope,       \* envelope[e]: processed and not yet marked, 0 if none
    redo,           \* redo[e]: envelope[e] when e restarted, 0 once past it
    crashes

mongoOwn == <<collection, inserted, cursor, envelope, redo, crashes>>
mongoVars == <<sent, seen, mongoOwn>>

MongoInit ==
    /\ InitUsers
    /\ collection = {}
    /\ inserted = 0
    /\ cursor = [e \in Endpoints |-> {}]
    /\ envelope = [e \in Endpoints |-> 0]
    /\ redo = [e \in Endpoints |-> 0]
    /\ crashes = 0

Unread(e) == {d.n : d \in {c \in collection : c.to = e /\ c.read = 0}}

\* Mutant: the limit also counts the envelopes that are read.
counting_find(e) ==
    IF e = "server" THEN Unread(e)
    ELSE {m \in Unread(e) :
             Cardinality({d \in collection : d.to = e /\ d.n < m}) < PENDINGLIMIT}

\* The query of the Python listener, the server's, has no limit.
find(e) ==
    IF e = "server" THEN Unread(e)
    ELSE {m \in Unread(e) : Cardinality({k \in Unread(e) : k < m}) < PENDINGLIMIT}

mongo_send(e) ==
    /\ Sends(e)
    /\ inserted' = inserted + 1
    /\ collection' = {d \in collection : d.at + CC_SIZE > inserted + 1}
                        \cup {[to |-> Peer(e), n |-> sent[e] + 1, at |-> inserted + 1, read |-> 0]}
    /\ UNCHANGED <<cursor, envelope, redo, crashes>>

query(e) ==
    /\ cursor[e] = {}
    /\ envelope[e] = 0
    /\ Unread(e) # {}
    /\ cursor' = [cursor EXCEPT ![e] = find(e)]
    /\ UNCHANGED <<sent, seen, collection, inserted, envelope, redo, crashes>>

process(e) ==
    /\ envelope[e] = 0
    /\ \E m \in cursor[e] :
          /\ \A k \in cursor[e] : m <= k
          /\ Processes(e, m)
          /\ envelope' = [envelope EXCEPT ![e] = m]
          /\ cursor' = [cursor EXCEPT ![e] = @ \ {m}]
    /\ redo' = [redo EXCEPT ![e] = 0]
    /\ UNCHANGED <<collection, inserted, crashes>>

update(e) ==
    /\ envelope[e] # 0
    /\ collection' = {IF d.to = e /\ d.n = envelope[e] THEN [d EXCEPT !.read = 1] ELSE d :
                         d \in collection}
    /\ envelope' = [envelope EXCEPT ![e] = 0]
    /\ UNCHANGED <<sent, seen, inserted, cursor, redo, crashes>>

MongoRestart(e) ==
    /\ crashes < MaxCrashes
    /\ redo' = IF envelope[e] # 0 THEN [redo EXCEPT ![e] = envelope[e]] ELSE redo
    /\ cursor' = [cursor EXCEPT ![e] = {}]
    /\ envelope' = [envelope EXCEPT ![e] = 0]
    /\ crashes' = crashes + 1
    /\ UNCHANGED <<sent, seen, collection, inserted>>

MongoStep(e) ==
    mongo_send(e) \/ query(e) \/ process(e) \/ update(e) \/ MongoRestart(e)

MongoNext == \E e \in Endpoints : MongoStep(e)

MongoSpec == MongoInit /\ [][MongoNext]_mongoVars
=============================================================================
