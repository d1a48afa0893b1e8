-------------------------- MODULE IPCServiceProofs --------------------------
(***************************************************************************)
(* The message service over MongoDB keeps the order of the messages, for   *)
(* every size of the collection, limit of the query and number of messages *)
(* and restarts; and either library implements the channel of IPCChannel   *)
(* in both directions.                                                     *)
(***************************************************************************)
EXTENDS IPCService, ZeroMQIPCProofs, FiniteSetTheorems

\* The envelopes for r that are not marked.
Waiting(r) == {d \in collection : d.to = r /\ d.read = 0}

\* What r has still to process is newer than what it processed, except the
\* message between its processing and its mark (envelope), and the one a
\* restart left there (redo). The query left out nothing older than what it
\* returned (cursor).
MongoInv(r) ==
    /\ LatestOf(seen[r]) <= sent[Peer(r)]
    /\ envelope[r] # 0 => envelope[r] = LatestOf(seen[r])
    /\ redo[r] # 0 => redo[r] = LatestOf(seen[r])
    /\ \A d \in collection : d.to = r => d.n \in Nat \ {0} /\ d.n <= sent[Peer(r)]
    /\ \A d \in Waiting(r) : d.n > LatestOf(seen[r]) \/ d.n = envelope[r] \/ d.n = redo[r]
    /\ \A m \in cursor[r] : /\ m \in Nat \ {0} /\ m <= sent[Peer(r)]
                            /\ m > LatestOf(seen[r]) \/ (envelope[r] = 0 /\ m = redo[r])
    /\ \A m \in cursor[r] : \A d \in Waiting(r) :
          d.n \in cursor[r] \/ d.n = envelope[r] \/ d.n > m

MongoTyped ==
    /\ UsersTyped
    /\ cursor \in [Endpoints -> SUBSET Nat]
    /\ envelope \in [Endpoints -> Nat]
    /\ redo \in [Endpoints -> Nat]
    /\ inserted \in Nat
    /\ collection \subseteq [to : Endpoints, n : Nat, at : Nat, read : {0, 1}]

MongoIInv == MongoTyped /\ \A r \in Endpoints : MongoInv(r)

\* The steps of IPCChannel, redo included.
MongoChannelStep(r) ==
    \/ Same(r) /\ redo'[r] = redo[r]
    \/ SendStep(r) /\ redo'[r] = redo[r]
    \/ ProcessStep(r) /\ redo'[r] = 0
    \/ /\ redo[r] # 0
       /\ seen'[r] = Append(seen[r], redo[r])
       /\ redo'[r] = 0
       /\ sent'[Peer(r)] = sent[Peer(r)]
    \/ /\ seen[r] # <<>>
       /\ redo'[r] = LatestOf(seen[r])
       /\ Same(r)

\* A limited query of ascending messages leaves out only newer ones.
LEMMA FindOldest ==
    ASSUME NEW e \in Endpoints, Unread(e) \subseteq Nat,
           NEW m \in find(e), NEW k \in Unread(e), k < m
    PROVE  k \in find(e)
<1>1. CASE e = "server"
  BY <1>1, Zenon DEF find
<1>2. CASE e # "server"
  <2> DEFINE Less(x) == {j \in Unread(e) : j < x}
  <2>1. m \in Unread(e) /\ m \in Nat /\ k \in Nat /\ Cardinality(Less(m)) < PENDINGLIMIT
    BY <1>2, Zenon DEF find
  <2>2. IsFiniteSet(Less(m))
    <3>1. Less(m) \subseteq 0..m
      BY <2>1
    <3>2. IsFiniteSet(0..m)
      BY <2>1, FS_Interval
    <3>3. QED
      BY <3>1, <3>2, FS_Subset, Zenon
  <2>3. Less(k) \subseteq Less(m)
    BY <2>1
  <2>4. Cardinality(Less(k)) <= Cardinality(Less(m)) /\ IsFiniteSet(Less(k))
    BY <2>2, <2>3, FS_Subset, Zenon
  <2>5. Cardinality(Less(k)) \in Nat /\ Cardinality(Less(m)) \in Nat
    BY <2>2, <2>4, FS_CardinalityType, Zenon
  <2>6. Cardinality(Less(k)) < PENDINGLIMIT
    BY <2>1, <2>4, <2>5, MongoAssumption
  <2>7. QED
    BY <1>2, <2>6, Zenon DEF find
<1>3. QED
  BY <1>1, <1>2, Zenon

\* The initial state.
LEMMA MongoInitInv == MongoInit => MongoIInv
<1> SUFFICES ASSUME MongoInit PROVE MongoIInv
  OBVIOUS
<1>1. MongoTyped
  BY DEF MongoInit, InitUsers, MongoTyped, UsersTyped
<1>2. ASSUME NEW r \in Endpoints PROVE MongoInv(r)
  BY <1>2, Peers DEF MongoInit, InitUsers, MongoInv, Waiting, LatestOf
<1>3. QED
  BY <1>1, <1>2, Zenon DEF MongoIInv

\* A message that is inserted is newer than all that wait.
LEMMA MongoSendStep ==
    ASSUME MongoIInv, NEW e \in Endpoints, mongo_send(e), NEW r \in Endpoints
    PROVE  MongoTyped' /\ MongoInv(r)' /\ MongoChannelStep(r)
<1> USE DEF MongoIInv
<1>1. MongoTyped' /\ seen' = seen /\ sent' = [sent EXCEPT ![e] = sent[e] + 1]
  <2>1. seen' = seen /\ sent' = [sent EXCEPT ![e] = sent[e] + 1] /\ inserted' = inserted + 1
        /\ UNCHANGED <<cursor, envelope, redo>>
    BY Zenon DEF mongo_send, Sends
  <2>2. sent[e] + 1 \in Nat /\ inserted + 1 \in Nat /\ Peer(e) \in Endpoints
    BY Peers DEF MongoTyped, UsersTyped
  <2>3. [to |-> Peer(e), n |-> sent[e] + 1, at |-> inserted + 1, read |-> 0]
           \in [to : Endpoints, n : Nat, at : Nat, read : {0, 1}]
    BY <2>2, Zenon
  <2>4. collection' \subseteq [to : Endpoints, n : Nat, at : Nat, read : {0, 1}]
    BY <2>3, Zenon DEF mongo_send, MongoTyped
  <2>5. QED
    BY <2>1, <2>2, <2>4, Zenon DEF MongoTyped, UsersTyped
<1>2. CASE r = e
  <2>1. Peer(r) # e /\ sent'[Peer(r)] = sent[Peer(r)]
    BY <1>1, <1>2, Peers, Zenon DEF MongoTyped, UsersTyped
  <2>2. \A d \in collection' : d.to = r => d \in collection
    BY <1>2, Peers DEF mongo_send
  <2>3. MongoInv(r)'
    BY <1>1, <2>1, <2>2, Zenon DEF mongo_send, MongoInv, Waiting
  <2>4. QED
    BY <1>1, <2>1, <2>3, Zenon DEF MongoChannelStep, Same, mongo_send
<1>3. CASE e = Peer(r)
  <2> DEFINE n == sent[e] + 1
  <2>1. sent'[Peer(r)] = n /\ n \in Nat /\ sent[Peer(r)] = sent[e] /\ sent[e] \in Nat
    BY <1>1, <1>3, Zenon DEF MongoTyped, UsersTyped
  <2>2. \A d \in collection' : d.to = r => d \in collection \/ (d.n = n /\ d.read = 0)
    BY DEF mongo_send
  <2>3. LatestOf(seen[r]) \in Nat
    BY LatestFacts, Zenon DEF MongoTyped, UsersTyped
  <2>4. MongoInv(r)'
    BY <1>1, <2>1, <2>2, <2>3 DEF mongo_send, MongoInv, Waiting, MongoTyped
  <2>5. QED
    BY <1>1, <1>3, <2>1, <2>4, Zenon DEF MongoChannelStep, SendStep, mongo_send
<1>4. QED
  BY <1>2, <1>3, Peers, Zenon

\* A query returns the oldest envelopes that wait.
LEMMA MongoQueryStep ==
    ASSUME MongoIInv, NEW e \in Endpoints, query(e), NEW r \in Endpoints
    PROVE  MongoTyped' /\ MongoInv(r)' /\ MongoChannelStep(r)
<1> USE DEF MongoIInv
<1>1. Unread(e) \subseteq Nat
  BY Zenon DEF MongoInv, Unread
<1>2. find(e) \subseteq Unread(e)
  BY Zenon DEF find
<1>3. MongoTyped'
  BY <1>1, <1>2, Zenon DEF query, MongoTyped, UsersTyped
<1>4. MongoChannelStep(r)
  BY Zenon DEF query, MongoChannelStep, Same
<1>5. CASE r # e
  <2>1. cursor'[r] = cursor[r]
    BY <1>5, Zenon DEF query, MongoTyped
  <2>2. MongoInv(r)'
    BY <2>1 DEF query, MongoInv, Waiting
  <2>3. QED
    BY <1>3, <1>4, <2>2, Zenon
<1>6. CASE r = e
  <2>1. envelope[r] = 0 /\ envelope' = envelope /\ collection' = collection /\ redo' = redo
        /\ seen' = seen /\ sent' = sent /\ cursor'[r] = find(r)
    BY <1>6, Zenon DEF query, MongoTyped
  <2>2. \A m \in Unread(r) : \E d \in Waiting(r) : d.n = m
    BY Zenon DEF Unread, Waiting
  <2>3. \A d \in Waiting(r) : d.n \in Unread(r)
    BY Zenon DEF Unread, Waiting
  <2>4. \A m \in find(r) : \E d \in Waiting(r) : d.n = m
    BY <1>2, <1>6, <2>2, Zenon
  <2>5. \A m \in find(r) : \A d \in Waiting(r) : d.n \in find(r) \/ d.n > m
    <3> SUFFICES ASSUME NEW m \in find(r), NEW d \in Waiting(r), ~(d.n > m)
                 PROVE  d.n \in find(r)
      OBVIOUS
    <3>1. d.n \in Unread(r) /\ d.n \in Nat /\ m \in Nat
      BY <1>1, <1>2, <1>6, <2>3, Zenon
    <3>2. d.n = m \/ d.n < m
      BY <3>1
    <3>3. QED
      BY <1>1, <1>6, <3>1, <3>2, FindOldest, Zenon
  <2>6. Waiting(r)' = Waiting(r)
    BY <2>1, Zenon DEF Waiting
  <2>7. \A m \in find(r) : /\ m \in Nat \ {0} /\ m <= sent[Peer(r)]
                           /\ m > LatestOf(seen[r]) \/ m = redo[r]
    BY <2>1, <2>4 DEF MongoInv, Waiting
  <2>8. QED
    BY <1>3, <1>4, <2>1, <2>5, <2>6, <2>7, Zenon DEF MongoInv
<1>7. QED
  BY <1>3, <1>4, <1>5, <1>6, Zenon

\* The oldest message of the query is newer than all that were processed, or
\* is the one a restart left unmarked.
LEMMA MongoProcessStep ==
    ASSUME MongoIInv, NEW e \in Endpoints, process(e), NEW r \in Endpoints
    PROVE  MongoTyped' /\ MongoInv(r)' /\ MongoChannelStep(r)
<1> USE DEF MongoIInv
<1>1. PICK m \in cursor[e] :
          /\ \A k \in cursor[e] : m <= k
          /\ seen' = [seen EXCEPT ![e] = Append(seen[e], m)]
          /\ envelope' = [envelope EXCEPT ![e] = m]
          /\ cursor' = [cursor EXCEPT ![e] = cursor[e] \ {m}]
  BY Zenon DEF process, Processes
<1>2. /\ sent' = sent /\ collection' = collection /\ envelope[e] = 0
      /\ redo' = [redo EXCEPT ![e] = 0]
  BY Zenon DEF process, Processes
<1>3. m \in Nat \ {0}
  BY Zenon DEF MongoInv
<1>4. Append(seen[e], m) \in Seq(Nat) /\ LatestOf(Append(seen[e], m)) = m
      /\ LatestOf(seen[e]) \in Nat
  BY <1>3, LatestFacts, Zenon DEF MongoTyped, UsersTyped
<1>5. MongoTyped'
  <2>1. inserted' = inserted
    BY Zenon DEF process
  <2>2. cursor[e] \ {m} \in SUBSET Nat
    BY Zenon DEF MongoTyped
  <2>3. seen' \in [Endpoints -> Seq(Nat)] /\ cursor' \in [Endpoints -> SUBSET Nat]
    BY <1>1, <1>4, <2>2, Zenon DEF MongoTyped, UsersTyped
  <2>4. envelope' \in [Endpoints -> Nat] /\ redo' \in [Endpoints -> Nat]
    BY <1>1, <1>2, <1>3, Zenon DEF MongoTyped
  <2>5. QED
    BY <1>2, <2>1, <2>3, <2>4, Zenon DEF MongoTyped, UsersTyped
<1>6. CASE r # e
  <2>1. seen'[r] = seen[r] /\ envelope'[r] = envelope[r] /\ cursor'[r] = cursor[r] /\ redo'[r] = redo[r]
    BY <1>1, <1>2, <1>6, Zenon DEF MongoTyped, UsersTyped
  <2>2. QED
    BY <1>2, <1>5, <2>1 DEF MongoInv, Waiting, MongoChannelStep, Same
<1>7. CASE r = e
  <2>1. seen'[r] = Append(seen[r], m) /\ envelope'[r] = m /\ cursor'[r] = cursor[r] \ {m} /\ redo'[r] = 0
    BY <1>1, <1>2, <1>7, Zenon DEF MongoTyped, UsersTyped
  <2>2. LatestOf(seen[r])' = m /\ Waiting(r)' = Waiting(r) /\ sent[Peer(r)] \in Nat
    BY <1>2, <1>4, <1>7, <2>1, Peers, Zenon DEF Waiting, MongoTyped, UsersTyped
  <2>3. m <= sent[Peer(r)]
    BY <1>7, Zenon DEF MongoInv
  <2>4. \A d \in Waiting(r) : d.n \in Nat /\ (d.n > m \/ d.n = m)
    <3> SUFFICES ASSUME NEW d \in Waiting(r) PROVE d.n \in Nat /\ (d.n > m \/ d.n = m)
      OBVIOUS
    <3>1. d.n \in Nat \ {0} /\ (d.n \in cursor[r] \/ d.n = envelope[r] \/ d.n > m)
      BY <1>7, Zenon DEF MongoInv, Waiting
    <3>2. d.n \in cursor[r] => m <= d.n
      BY <1>1, <1>7, Zenon
    <3>3. QED
      BY <1>2, <1>3, <1>7, <3>1, <3>2
  <2>5. \A k \in cursor[r] \ {m} : k \in Nat \ {0} /\ k <= sent[Peer(r)] /\ k > m
    BY <1>1, <1>3, <1>7 DEF MongoInv
  <2>6. \A k \in cursor[r] \ {m} : \A d \in Waiting(r) :
           d.n \in cursor[r] \ {m} \/ d.n = m \/ d.n > k
    BY <1>2, <1>7, Zenon DEF MongoInv, Waiting
  <2>7. MongoInv(r)'
    BY <1>2, <1>3, <2>1, <2>2, <2>3, <2>4, <2>5, <2>6 DEF MongoInv
  <2>8. MongoChannelStep(r)
    <3>1. CASE m > LatestOf(seen[r])
      <4>1. m \in LatestOf(seen[r]) + 1 .. sent[Peer(r)]
        BY <1>3, <1>4, <1>7, <2>2, <2>3, <3>1
      <4>2. QED
        BY <1>2, <2>1, <4>1, Zenon DEF MongoChannelStep, ProcessStep
    <3>2. CASE m = redo[r]
      BY <1>2, <1>3, <2>1, <3>2, Zenon DEF MongoChannelStep
    <3>3. QED
      BY <1>7, <3>1, <3>2, Zenon DEF MongoInv
  <2>9. QED
    BY <1>5, <2>7, <2>8, Zenon
<1>8. QED
  BY <1>6, <1>7, Zenon

\* Marking an envelope: no other one waits with its number.
LEMMA MongoUpdateStep ==
    ASSUME MongoIInv, NEW e \in Endpoints, update(e), NEW r \in Endpoints
    PROVE  MongoTyped' /\ MongoInv(r)' /\ MongoChannelStep(r)
<1> USE DEF MongoIInv
<1>1. MongoTyped' /\ MongoChannelStep(r)
  <2>1. collection' \subseteq [to : Endpoints, n : Nat, at : Nat, read : {0, 1}]
    BY Zenon DEF update, MongoTyped
  <2>2. QED
    BY <2>1, Zenon DEF update, MongoTyped, UsersTyped, MongoChannelStep, Same
<1>2. /\ sent' = sent /\ seen' = seen /\ cursor' = cursor /\ redo' = redo
      /\ envelope' = [envelope EXCEPT ![e] = 0] /\ envelope[e] # 0
  BY Zenon DEF update
<1>3. \A c \in collection' : \E d \in collection :
          c = IF d.to = e /\ d.n = envelope[e] THEN [d EXCEPT !.read = 1] ELSE d
  BY Zenon DEF update
<1>4. \A c \in collection' : c.to = r => \E d \in collection : d.to = r /\ d.n = c.n
  BY <1>3, Zenon DEF MongoTyped
<1>5. \A c \in Waiting(r)' : c \in Waiting(r) /\ (r = e => c.n # envelope[e])
  BY <1>3 DEF Waiting, MongoTyped
<1>6. envelope'[r] = (IF r = e THEN 0 ELSE envelope[r])
  BY <1>2, Zenon DEF MongoTyped
<1>7. MongoInv(r)'
  BY <1>2, <1>4, <1>5, <1>6 DEF MongoInv
<1>8. QED
  BY <1>1, <1>7, Zenon

\* A receiver starts anew: the message it had processed and not marked is the
\* one that may come again.
LEMMA MongoRestartStep ==
    ASSUME MongoIInv, NEW e \in Endpoints, MongoRestart(e), NEW r \in Endpoints
    PROVE  MongoTyped' /\ MongoInv(r)' /\ MongoChannelStep(r)
<1> USE DEF MongoIInv
<1>1. MongoTyped'
  BY Zenon DEF MongoRestart, MongoTyped, UsersTyped
<1>2. CASE r # e
  <2>1. redo'[r] = redo[r] /\ cursor'[r] = cursor[r] /\ envelope'[r] = envelope[r]
    BY <1>2, Zenon DEF MongoRestart, MongoTyped
  <2>2. QED
    BY <1>1, <2>1 DEF MongoRestart, MongoInv, Waiting, MongoChannelStep, Same
<1>3. CASE r = e
  <2>1. /\ redo'[r] = (IF envelope[r] # 0 THEN envelope[r] ELSE redo[r])
        /\ cursor'[r] = {} /\ envelope'[r] = 0
    BY <1>3, Zenon DEF MongoRestart, MongoTyped
  <2>2. seen' = seen /\ sent' = sent /\ collection' = collection
    BY Zenon DEF MongoRestart
  <2>3. MongoInv(r)'
    BY <2>1, <2>2, Zenon DEF MongoInv, Waiting
  <2>4. MongoChannelStep(r)
    BY <2>1, <2>2, LatestFacts, Zenon DEF MongoInv, MongoChannelStep, Same, MongoTyped, UsersTyped
  <2>5. QED
    BY <1>1, <2>3, <2>4, Zenon
<1>4. QED
  BY <1>2, <1>3, Zenon

\* Every step keeps the invariant and is a step of the channel.
LEMMA MongoNextInv ==
    ASSUME MongoIInv, MongoNext
    PROVE  MongoIInv' /\ \A r \in Endpoints : MongoChannelStep(r)
<1>1. PICK e \in Endpoints : MongoStep(e)
  BY Zenon DEF MongoNext
<1>2. ASSUME NEW r \in Endpoints PROVE MongoTyped' /\ MongoInv(r)' /\ MongoChannelStep(r)
  BY Zenon, <1>1, MongoSendStep, MongoQueryStep, MongoProcessStep, MongoUpdateStep, MongoRestartStep
  DEF MongoStep
<1>3. "client" \in Endpoints
  BY Zenon DEF Endpoints
<1>4. QED
  BY <1>2, <1>3, Zenon DEF MongoIInv

-----------------------------------------------------------------------------
(* Either library.                                                         *)

\* The invariant of the library in use. Only MongoDB processes a message again.
ServiceIInv ==
    /\ IPC_TYPE \in {"zeromq", "mongo"}
    /\ IPC_TYPE = "zeromq" => ZmqIInv /\ redo = [e \in Endpoints |-> 0]
    /\ IPC_TYPE = "mongo" => MongoIInv

\* The libraries start with their invariants (IPCService.py builds one of them).
LEMMA ServiceInit == Init => ServiceIInv
BY MongoInitInv, ZmqInitInv, Zenon DEF Init, ServiceIInv, MongoInit

\* Every step of the library in use keeps its invariant and moves each
\* direction as the channel allows.
LEMMA ServiceStep ==
    ASSUME ServiceIInv, [Next]_vars
    PROVE  ServiceIInv' /\ \A r \in Endpoints : MongoChannelStep(r)
<1>1. CASE ZeroMQ
  <2>1. IPC_TYPE = "zeromq" /\ IPC_TYPE' = IPC_TYPE /\ redo' = redo /\ ZmqNext
    BY <1>1, Zenon DEF ZeroMQ, mongoOwn
  <2>2. ZmqIInv /\ redo = [e \in Endpoints |-> 0]
    BY <2>1, Zenon DEF ServiceIInv
  <2>3. ZmqIInv' /\ \A r \in Endpoints : ZmqChannelStep(r)
    BY <2>1, <2>2, ZmqNextInv, Zenon
  <2>4. ASSUME NEW r \in Endpoints PROVE MongoChannelStep(r)
    <3>1. redo'[r] = redo[r] /\ redo[r] = 0
      BY <2>1, <2>2, Zenon
    <3>2. QED
      BY <2>3, <3>1, Zenon DEF ZmqChannelStep, MongoChannelStep
  <2>5. ServiceIInv'
    BY <2>1, <2>2, <2>3, Zenon DEF ServiceIInv
  <2>6. QED
    BY <2>4, <2>5, Zenon
<1>2. CASE Mongo
  <2>1. IPC_TYPE = "mongo" /\ IPC_TYPE' = IPC_TYPE /\ MongoNext
    BY <1>2, Zenon DEF Mongo
  <2>2. MongoIInv' /\ \A r \in Endpoints : MongoChannelStep(r)
    BY <2>1, MongoNextInv, Zenon DEF ServiceIInv
  <2>3. QED
    BY <2>1, <2>2, Zenon DEF ServiceIInv
<1>3. CASE UNCHANGED vars
  <2>1. IPC_TYPE' = IPC_TYPE /\ sent' = sent /\ seen' = seen /\ redo' = redo
    BY <1>3, Zenon DEF vars, mongoOwn
  <2>2. \A r \in Endpoints : MongoChannelStep(r)
    BY <2>1, Zenon DEF MongoChannelStep, Same
  <2>3. ZmqIInv' <=> ZmqIInv
    BY <1>3 DEF vars, zmqOwn, senders, sockets, ZmqIInv, ZmqTyped, UsersTyped, QueuesTyped,
                CallsTyped, LockInv, OrderInv, Whole_sent
  <2>4. MongoIInv' <=> MongoIInv
    BY <1>3 DEF vars, mongoOwn, MongoIInv, MongoTyped, UsersTyped, MongoInv, Waiting
  <2>5. QED
    BY <2>1, <2>2, <2>3, <2>4, Zenon DEF ServiceIInv
<1>4. QED
  BY <1>1, <1>2, <1>3, Zenon DEF Next

\* From the client to the server a step is a step of the channel.
LEMMA UpStep == MongoChannelStep("server") => [Up!Next]_(Up!channelVars)
<1>1. Peer("server") = "client"
  BY Zenon DEF Peer
<1>2. Up!Latest(seen["server"]) = LatestOf(seen["server"])
  BY Zenon DEF Up!Latest, LatestOf
<1>3. QED
  BY <1>1, <1>2, Zenon DEF MongoChannelStep, Same, SendStep, ProcessStep,
                    Up!Next, Up!channelVars, Up!Send, Up!Process, Up!Restart, Up!ProcessAgain

\* From the server to the client a step is a step of the channel.
LEMMA DownStep == MongoChannelStep("client") => [Down!Next]_(Down!channelVars)
<1>1. Peer("client") = "server"
  BY Zenon DEF Peer
<1>2. Down!Latest(seen["client"]) = LatestOf(seen["client"])
  BY Zenon DEF Down!Latest, LatestOf
<1>3. QED
  BY <1>1, <1>2, Zenon DEF MongoChannelStep, Same, SendStep, ProcessStep,
                    Down!Next, Down!channelVars, Down!Send, Down!Process, Down!Restart,
                    Down!ProcessAgain

\* Over ZeroMQ and over MongoDB (ZeroMQIPC.py/.cc, MongoIPC.py/.cc) messages
\* reach process() whole, in the order of the calls of send and once, except
\* the one whose processing a restart of a MongoDB listener cut short.
THEOREM ChannelTheorem == Spec => Channels
<1>1. Init => Up!Init /\ Down!Init
  BY Zenon DEF Init, MongoInit, InitUsers, Endpoints, Up!Init, Down!Init
<1>2. ServiceIInv /\ [Next]_vars => ServiceIInv'
  BY ServiceStep, Zenon
<1>3. ServiceIInv /\ [Next]_vars => [Up!Next]_(Up!channelVars) /\ [Down!Next]_(Down!channelVars)
  BY ServiceStep, UpStep, DownStep, Zenon DEF Endpoints
<1>4. QED
  BY <1>1, <1>2, <1>3, ServiceInit, PTL DEF Spec, Channels, Up!Spec, Down!Spec
=============================================================================
