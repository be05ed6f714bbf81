----------------------------- MODULE Connections -----------------------------
(***************************************************************************)
(* Who connects to whom: BVTCPConnectionManager on every peer, the         *)
(* handshake of BVTCPSession, and the app's handlers of what the discovery *)
(* reports (BVApp_ConsoleClient).                                          *)
(*                                                                         *)
(* A peer is its service name, and names are numbers so that they have the *)
(* order of InitiateSessionWithNode.  The handlers of a peer run on its    *)
(* mailbox thread (reports) and on the thread of its io_context (sockets). *)
(* A handler is one step: what the other thread could do inside it is to   *)
(* remove a session the handler does not look at again.                    *)
(*                                                                         *)
(* A connection has two ends, each a BVTCPSession with its socket.  An end *)
(* lives on while it is listed in sessions_m or a read is pending, since   *)
(* the pending read holds it.  The handshake is strictly alternating, so   *)
(* at most one of its frames is under way on a connection.  What is sent   *)
(* once both ends are established is the business of module Session.       *)
(***************************************************************************)
EXTENDS Naturals, Sequences, FiniteSets

CONSTANTS Peers,      \* the service names, as numbers
          NumIds,     \* the values of SessionID, 2^16
          Faults,     \* what may go wrong, of FaultKinds
          MaxConns,   \* bound: connections dialled
          MaxFaults,  \* bound: how often something goes wrong
          None        \* no id, no connection

\* A service lost sight of, a connect or an accept that fails, a process that
\* ends, a CONFIRM that is read ahead, a chat in the middle of a handshake.
FaultKinds == {"flap", "connect", "accept", "restart", "read ahead", "early chat"}

ASSUME ConnectionsAssumption ==
    /\ Peers \subseteq Nat
    /\ NumIds \in Nat \ {0}
    /\ Faults \subseteq FaultKinds
    /\ MaxConns \in Nat
    /\ MaxFaults \in Nat
    /\ None \notin Nat

Ids   == 0..NumIds-1
Conns == 1..MaxConns

VARIABLES seen,              \* the services the daemon of a peer has reported
          resolver,          \* the services it still has to resolve
          mail,              \* the app's mailbox: reports of the discovery
          serviceV,          \* the services the app knows
          nodesM,            \* the services it has an address of
          currentSessionID,  \* a uint16_t
          taken,             \* ghost: how many ids were handed out
          acceptId,          \* the id of the session the acceptor waits with
          sessions_m,        \* the connection listed under an id
          service_sessionid, \* service_sessionid_m: the id for a service
          conn,              \* the connections dialled so far
          faults             \* how often something went wrong

discovery == <<seen, resolver>>
app       == <<serviceV, nodesM>>
ids       == <<currentSessionID, taken>>
manager   == <<sessions_m, service_sessionid>>
vars      == <<discovery, mail, app, ids, acceptId, manager, conn, faults>>

\* A process that has called StartAcceptingConnections: the acceptor holds id 0.
Init ==
    /\ seen = [p \in Peers |-> {}]
    /\ resolver = [p \in Peers |-> {}]
    /\ mail = [p \in Peers |-> <<>>]
    /\ serviceV = [p \in Peers |-> {}]
    /\ nodesM = [p \in Peers |-> {}]
    /\ currentSessionID = [p \in Peers |-> 1 % NumIds]
    /\ taken = [p \in Peers |-> 1]
    /\ acceptId = [p \in Peers |-> 0]
    /\ sessions_m = [p \in Peers |-> [i \in Ids |-> None]]
    /\ service_sessionid = [p \in Peers |-> [q \in Peers |-> None]]
    /\ conn = <<>>
    /\ faults = 0
-----------------------------------------------------------------------------
(* Looking things up *)

\* nodeData.serviceName of p's session on connection c, once it is listed.
ServiceName(p, c) == IF conn[c].from = p THEN conn[c].to ELSE conn[c].from

IsSessionAlreadyPresent(p, q) ==
    \E i \in Ids : sessions_m[p][i] # None /\ ServiceName(p, sessions_m[p][i]) = q

\* p lists connection c.
Listed(p, c) == \E i \in Ids : sessions_m[p][i] = c

\* An id is taken under the mutex of the sessions.
TakeId(p) ==
    /\ currentSessionID' = [currentSessionID EXCEPT ![p] = (@ + 1) % NumIds]
    /\ taken' = [taken EXCEPT ![p] = @ + 1]

\* A session is entered under its id and its service.
List(p, i, c, q) ==
    /\ sessions_m' = [sessions_m EXCEPT ![p][i] = c]
    /\ service_sessionid' = [service_sessionid EXCEPT ![p][q] = i]

Fault(kind) ==
    /\ kind \in Faults
    /\ faults < MaxFaults
    /\ faults' = faults + 1
-----------------------------------------------------------------------------
(* The discovery of peer p, in the order AvahiDiscovery reports *)

Report(p, type, q) == mail' = [mail EXCEPT ![p] = Append(@, [type |-> type, peer |-> q])]

Appear(p, q) ==
    /\ p # q
    /\ q \notin seen[p]
    /\ seen' = [seen EXCEPT ![p] = @ \cup {q}]
    /\ resolver' = [resolver EXCEPT ![p] = @ \cup {q}]
    /\ Report(p, "PUBLISHED", q)
    /\ UNCHANGED <<app, ids, acceptId, manager, conn, faults>>

\* The answer may come after the service has gone.
Resolve(p, q) ==
    /\ q \in resolver[p]
    /\ resolver' = [resolver EXCEPT ![p] = @ \ {q}]
    /\ Report(p, "RESOLVED", q)
    /\ UNCHANGED <<seen, app, ids, acceptId, manager, conn, faults>>

\* The service goes, or the network loses sight of it for a while.
Disappear(p, q) ==
    /\ q \in seen[p]
    /\ Fault("flap")
    /\ seen' = [seen EXCEPT ![p] = @ \ {q}]
    /\ Report(p, "DEREGISTERED", q)
    /\ UNCHANGED <<resolver, app, ids, acceptId, manager, conn>>
-----------------------------------------------------------------------------
(* The app's handlers, on the mailbox thread *)

Receive(p, type, q) ==
    /\ mail[p] # <<>>
    /\ Head(mail[p]) = [type |-> type, peer |-> q]
    /\ mail' = [mail EXCEPT ![p] = Tail(@)]

HandlePublishedServices(p, q) ==
    /\ Receive(p, "PUBLISHED", q)
    /\ serviceV' = [serviceV EXCEPT ![p] = @ \cup {q}]
    /\ UNCHANGED <<discovery, nodesM, ids, acceptId, manager, conn, faults>>

\* Mutant: no glare avoidance, both peers dial.
DialsBoth(p, q) == ~IsSessionAlreadyPresent(p, q)

\* Mutant: a connection that is open but not listed keeps p from dialling.
DialsIfNoneOpen(p, q) ==
    p < q /\ \A c \in 1..Len(conn) : {conn[c].from, conn[c].to} = {p, q} =>
                 conn[c].fromEnd # "ESTABLISHED"

\* The two early returns of InitiateSessionWithNode.
Dials(p, q) == p < q /\ ~IsSessionAlreadyPresent(p, q)

\* A connection that p begins to dial to q.
NewConn(p, q) ==
    [from |-> p, to |-> q, fromId |-> currentSessionID[p], toId |-> None,
     fromEnd |-> "connecting", toEnd |-> "none", wire |-> "none"]

\* InitiateSessionWithNode, past its early returns.
InitiateSession(p, q) ==
    /\ Len(conn) < MaxConns
    /\ conn' = Append(conn, NewConn(p, q))
    /\ TakeId(p)

\* A service that has an address already is not dialled again.
HandleResolvedServices(p, q) ==
    /\ Receive(p, "RESOLVED", q)
    /\ \/ /\ q \in nodesM[p]
          /\ UNCHANGED <<nodesM, conn, ids>>
       \/ /\ q \notin nodesM[p]
          /\ nodesM' = [nodesM EXCEPT ![p] = @ \cup {q}]
          /\ IF Dials(p, q) THEN InitiateSession(p, q) ELSE UNCHANGED <<conn, ids>>
    /\ UNCHANGED <<discovery, serviceV, acceptId, manager, faults>>

\* Mutant: the session goes and the entry for the service stays.
RemoveSessionKeepsEntry(p, q) ==
    LET i == service_sessionid[p][q] IN
    /\ sessions_m' = IF i = None THEN sessions_m
                     ELSE [sessions_m EXCEPT ![p][i] = None]
    /\ UNCHANGED service_sessionid

\* RemoveSession: the session is taken out of both maps.  Its socket is not
\* closed; the session lives on in its pending read, if it has one.
RemoveSession(p, q) ==
    LET i == service_sessionid[p][q] IN
    /\ sessions_m' = IF i = None THEN sessions_m
                     ELSE [sessions_m EXCEPT ![p][i] = None]
    /\ service_sessionid' = [service_sessionid EXCEPT ![p][q] = None]

HandleServiceDeregistration(p, q) ==
    /\ Receive(p, "DEREGISTERED", q)
    /\ serviceV' = [serviceV EXCEPT ![p] = @ \ {q}]
    /\ IF q \in serviceV[p]
       THEN /\ nodesM' = [nodesM EXCEPT ![p] = @ \ {q}]
            /\ RemoveSession(p, q)
       ELSE UNCHANGED <<nodesM, manager>>
    /\ UNCHANGED <<discovery, ids, acceptId, conn, faults>>
-----------------------------------------------------------------------------
(* Connecting and accepting *)

\* The system's side of a connect: it is queued at a peer that listens.
Reach(c) ==
    /\ conn[c].toEnd = "none"
    /\ conn[c].fromEnd = "connecting"
    /\ conn' = [conn EXCEPT ![c].toEnd = "backlog"]
    /\ UNCHANGED <<discovery, mail, app, ids, acceptId, manager, faults>>

\* ConnectHandler with an error: nothing else is done, and nothing is retried.
ConnectError(c) ==
    /\ conn[c].fromEnd = "connecting"
    /\ conn[c].toEnd = "none"
    /\ Fault("connect")
    /\ conn' = [conn EXCEPT ![c].fromEnd = "closed"]
    /\ UNCHANGED <<discovery, mail, app, ids, acceptId, manager>>

\* ConnectHandler: a connection to a service that has a session by now is
\* dropped, and its socket with it; else it is listed and reads.
ConnectHandler(c) ==
    LET p == conn[c].from  q == conn[c].to IN
    /\ conn[c].fromEnd = "connecting"
    /\ conn[c].toEnd # "none"
    /\ \/ /\ IsSessionAlreadyPresent(p, q)
          /\ conn' = [conn EXCEPT ![c].fromEnd = "closed"]
          /\ UNCHANGED manager
       \/ /\ ~IsSessionAlreadyPresent(p, q)
          /\ conn' = [conn EXCEPT ![c].fromEnd = "UNPREPARED"]
          /\ List(p, conn[c].fromId, c, q)
    /\ UNCHANGED <<discovery, mail, app, ids, acceptId, faults>>

\* Mutant: the accepting side confirms before it knows the name.
AcceptEstablished(c) ==
    LET q == conn[c].to IN
    /\ conn[c].toEnd = "backlog"
    /\ acceptId[q] # None
    /\ conn' = [conn EXCEPT ![c].toEnd = "UNPREPARED", ![c].toId = acceptId[q],
                            ![c].wire = "CONFIRM"]
    /\ acceptId' = [acceptId EXCEPT ![q] = currentSessionID[q]]
    /\ TakeId(q)
    /\ UNCHANGED <<discovery, mail, app, manager, faults>>

\* Accept: HELLO asks the unknown peer for its name, and the acceptor waits
\* with a new id.
Accept(c) ==
    LET q == conn[c].to IN
    /\ conn[c].toEnd = "backlog"
    /\ acceptId[q] # None
    /\ conn' = [conn EXCEPT ![c].toEnd = "UNPREPARED", ![c].toId = acceptId[q],
                            ![c].wire = "HELLO"]
    /\ acceptId' = [acceptId EXCEPT ![q] = currentSessionID[q]]
    /\ TakeId(q)
    /\ UNCHANGED <<discovery, mail, app, manager, faults>>

\* async_accept fails: it is not started again.
AcceptError(q) ==
    /\ acceptId[q] # None
    /\ Fault("accept")
    /\ acceptId' = [acceptId EXCEPT ![q] = None]
    /\ UNCHANGED <<discovery, mail, app, ids, manager, conn>>
-----------------------------------------------------------------------------
(* The handshake *)

\* The read for the answer is armed before ReadMessageFrameCallback clears the
\* buffer, which matters if the answer is there by then: ConfirmReadAhead.
OnReceiveHelloFrame(c) ==
    /\ conn[c].fromEnd = "UNPREPARED"
    /\ conn[c].wire = "HELLO"
    /\ conn' = [conn EXCEPT ![c].wire = "HELLOBACK"]
    /\ UNCHANGED <<discovery, mail, app, ids, acceptId, manager, faults>>

\* The CONFIRM came while OnReceiveHelloFrame still ran: the armed read took it
\* into the buffer, ClearReadBuffer zeroed it, and a zeroed frame is a HELLO.
ConfirmReadAhead(c) ==
    /\ Fault("read ahead")
    /\ conn[c].fromEnd = "UNPREPARED"
    /\ conn[c].wire = "CONFIRM"
    /\ conn' = [conn EXCEPT ![c].wire = "HELLO"]
    /\ UNCHANGED <<discovery, mail, app, ids, acceptId, manager>>

\* Mutant: the accepting side does not confirm.
HandleSessionIdentificationSilent(c) ==
    LET q == conn[c].to  p == conn[c].from IN
    /\ conn' = [conn EXCEPT ![c].toEnd = "ESTABLISHED", ![c].wire = "none"]
    /\ List(q, conn[c].toId, c, p)
    /\ nodesM' = [nodesM EXCEPT ![q] = @ \cup {p}]

\* HELLOBACK carries the name: the first session for it is established, listed,
\* given a node and confirmed; another one is closed, which ends its socket.
HandleSessionIdentification(c) ==
    LET q == conn[c].to  p == conn[c].from IN
    \/ /\ ~IsSessionAlreadyPresent(q, p)
       /\ conn' = [conn EXCEPT ![c].toEnd = "ESTABLISHED", ![c].wire = "CONFIRM"]
       /\ List(q, conn[c].toId, c, p)
       /\ nodesM' = [nodesM EXCEPT ![q] = @ \cup {p}]
    \/ /\ IsSessionAlreadyPresent(q, p)
       /\ conn' = [conn EXCEPT ![c].toEnd = "closed", ![c].wire = "none"]
       /\ UNCHANGED <<manager, nodesM>>

OnReceiveHelloBackFrame(c) ==
    /\ conn[c].toEnd = "UNPREPARED"
    /\ conn[c].wire = "HELLOBACK"
    /\ HandleSessionIdentification(c)
    /\ UNCHANGED <<discovery, mail, serviceV, ids, acceptId, faults>>

OnReceiveConfirmEstablished(c) ==
    /\ conn[c].fromEnd = "UNPREPARED"
    /\ conn[c].wire = "CONFIRM"
    /\ conn' = [conn EXCEPT ![c].fromEnd = "ESTABLISHED", ![c].wire = "none"]
    /\ UNCHANGED <<discovery, mail, app, ids, acceptId, manager, faults>>

\* OnReceiveStandardFrame: an established session has no case for the HELLOBACK
\* that answers a zeroed CONFIRM, and the read is not started again.
OnReceiveStandardFrame(c) ==
    /\ conn[c].toEnd = "ESTABLISHED"
    /\ conn[c].wire = "HELLOBACK"
    /\ conn' = [conn EXCEPT ![c].toEnd = "stopped", ![c].wire = "none"]
    /\ UNCHANGED <<discovery, mail, app, ids, acceptId, manager, faults>>

Reading == {"UNPREPARED", "ESTABLISHED"}

\* A chat written before the dialler is established.  An acceptor that has no
\* name yet has no case for it; behind HELLOBACK or CONFIRM it is read ahead
\* and zeroed, and an established session has no case for a HELLO.
EarlyChat(c) ==
    /\ Fault("early chat")
    /\ conn[c].fromEnd = "UNPREPARED"
    /\ \/ /\ Listed(conn[c].from, c)
          /\ conn[c].toEnd \in Reading
          /\ conn' = [conn EXCEPT ![c].toEnd = "stopped"]
       \/ /\ Listed(conn[c].to, c)
          /\ conn[c].wire = "CONFIRM"
          /\ conn' = [conn EXCEPT ![c].fromEnd = "stopped", ![c].wire = "none"]
    /\ UNCHANGED <<discovery, mail, app, ids, acceptId, manager>>

\* An end is gone, its socket with it, once it is closed or nothing holds the
\* session any more: no read is pending and its peer p does not list it.
Gone(p, c, end) == end = "closed" \/ (end = "stopped" /\ ~Listed(p, c))

\* ReadMessageFrameCallback with an error, after the other end is gone: the
\* read is not started again.  A session that is listed stays listed.
ReadError(c) ==
    /\ \/ /\ conn[c].fromEnd \in Reading
          /\ Gone(conn[c].to, c, conn[c].toEnd)
          /\ conn' = [conn EXCEPT ![c].fromEnd = "stopped"]
       \/ /\ conn[c].toEnd \in Reading
          /\ Gone(conn[c].from, c, conn[c].fromEnd)
          /\ conn' = [conn EXCEPT ![c].toEnd = "stopped"]
    /\ UNCHANGED <<discovery, mail, app, ids, acceptId, manager, faults>>

\* The process of p ends, by a kill, a crash or the FATAL of a handler (an
\* address that does not resolve), and is started again under the same name.
Restart(p) ==
    /\ Fault("restart")
    /\ seen' = [seen EXCEPT ![p] = {}]
    /\ resolver' = [resolver EXCEPT ![p] = {}]
    /\ mail' = [mail EXCEPT ![p] = <<>>]
    /\ serviceV' = [serviceV EXCEPT ![p] = {}]
    /\ nodesM' = [nodesM EXCEPT ![p] = {}]
    /\ currentSessionID' = [currentSessionID EXCEPT ![p] = 1 % NumIds]
    /\ taken' = [taken EXCEPT ![p] = 1]
    /\ acceptId' = [acceptId EXCEPT ![p] = 0]
    /\ sessions_m' = [sessions_m EXCEPT ![p] = [i \in Ids |-> None]]
    /\ service_sessionid' = [service_sessionid EXCEPT ![p] = [q \in Peers |-> None]]
    /\ conn' = [c \in 1..Len(conn) |->
                   [conn[c] EXCEPT !.fromEnd = IF conn[c].from = p THEN "closed" ELSE @,
                                   !.toEnd = IF conn[c].to = p /\ @ # "none"
                                             THEN "closed" ELSE @]]
-----------------------------------------------------------------------------
Discover(p) == \E q \in Peers : Appear(p, q) \/ Resolve(p, q)

Handle(p) == \E q \in Peers : \/ HandlePublishedServices(p, q)
                              \/ HandleResolvedServices(p, q)
                              \/ HandleServiceDeregistration(p, q)

Socket(c) == \/ Reach(c)
             \/ ConnectHandler(c)
             \/ Accept(c)
             \/ OnReceiveHelloFrame(c)
             \/ OnReceiveHelloBackFrame(c)
             \/ OnReceiveConfirmEstablished(c)
             \/ OnReceiveStandardFrame(c)
             \/ ReadError(c)

Mishap(c) == ConnectError(c) \/ ConfirmReadAhead(c) \/ EarlyChat(c)

Next ==
    \/ \E p \in Peers : Discover(p) \/ Handle(p) \/ AcceptError(p) \/ Restart(p)
    \/ \E p, q \in Peers : Disappear(p, q)
    \/ \E c \in 1..Len(conn) : Socket(c) \/ Mishap(c)

Spec == Init /\ [][Next]_vars

\* mDNS reports what is on the network, both threads of a peer run, and a
\* connect reaches a peer that listens.
FairSpec ==
    /\ Spec
    /\ \A p \in Peers : WF_vars(Discover(p)) /\ WF_vars(Handle(p))
    /\ \A c \in Conns : WF_vars(c \in 1..Len(conn) /\ Socket(c))
-----------------------------------------------------------------------------
Reports == [type : {"PUBLISHED", "RESOLVED", "DEREGISTERED"}, peer : Peers]
FromEnds == {"connecting", "UNPREPARED", "ESTABLISHED", "stopped", "closed"}
ToEnds   == {"none", "backlog", "UNPREPARED", "ESTABLISHED", "stopped", "closed"}
Connection ==
    [from : Peers, to : Peers, fromId : Ids, toId : Ids \cup {None},
     fromEnd : FromEnds, toEnd : ToEnds,
     wire : {"none", "HELLO", "HELLOBACK", "CONFIRM"}]

\* The maps hold services, ids and connections, and ids keep their width.
TypeOK ==
    /\ seen \in [Peers -> SUBSET Peers]
    /\ resolver \in [Peers -> SUBSET Peers]
    /\ mail \in [Peers -> Seq(Reports)]
    /\ serviceV \in [Peers -> SUBSET Peers]
    /\ nodesM \in [Peers -> SUBSET Peers]
    /\ currentSessionID \in [Peers -> Ids]
    /\ taken \in [Peers -> Nat]
    /\ acceptId \in [Peers -> Ids \cup {None}]
    /\ sessions_m \in [Peers -> [Ids -> (1..Len(conn)) \cup {None}]]
    /\ service_sessionid \in [Peers -> [Peers -> Ids \cup {None}]]
    /\ conn \in Seq(Connection)
    /\ faults \in 0..MaxFaults

\* service_sessionid_m is exactly the index of sessions_m: the id a service
\* has leads to a session with that service (chat, file and removal go to the
\* right peer), and every session is found by its service, so a service has
\* one session at most.  It holds while the uint16_t of ids has not wrapped.
IndexExact ==
    \A p \in Peers : taken[p] <= NumIds =>
        /\ \A q \in Peers : service_sessionid[p][q] # None =>
              LET c == sessions_m[p][service_sessionid[p][q]] IN
              c # None /\ ServiceName(p, c) = q
        /\ \A i \in Ids : sessions_m[p][i] # None =>
              service_sessionid[p][ServiceName(p, sessions_m[p][i])] = i

\* The dialling side becomes ESTABLISHED, or has a CONFIRM under way to it,
\* only after the accepting side found the connection to be no duplicate.
ConfirmedByAcceptor ==
    \A c \in 1..Len(conn) :
        conn[c].fromEnd = "ESTABLISHED" \/ conn[c].wire = "CONFIRM" =>
            conn[c].toEnd \in {"ESTABLISHED", "stopped", "closed"}

\* Two peers that both list a session with each other list the two ends of one
\* connection (BVTCPConnectionManager.cpp:87-92, "one session handles EVERY
\* and ANY traffic between two peers/nodes").
SameConnection ==
    \A p, q \in Peers : \A i, j \in Ids :
        LET c == sessions_m[p][i]  d == sessions_m[q][j] IN
        c # None /\ d # None /\ ServiceName(p, c) = q /\ ServiceName(q, d) = p
            => c = d

\* While nothing goes wrong two peers create one connection only, whoever
\* discovers whom first (InitiateSessionWithNode's choice of who dials).
OneConnection ==
    faults = 0 =>
        \A c, d \in 1..Len(conn) :
            {conn[c].from, conn[c].to} = {conn[d].from, conn[d].to} => c = d

\* p and q list the same connection, and it is established at both ends.
Connected(p, q) ==
    \E c \in 1..Len(conn) :
        /\ {conn[c].from, conn[c].to} = {p, q}
        /\ conn[c].fromEnd = "ESTABLISHED" /\ conn[c].toEnd = "ESTABLISHED"
        /\ Listed(p, c) /\ Listed(q, c)

\* Unless something goes wrong every two peers get connected for good, whoever
\* discovers whom first.
AllConnect == \A p, q \in Peers : p # q => <>[](Connected(p, q) \/ faults > 0)

Mailed(p, type, q) == \E n \in 1..Len(mail[p]) : mail[p][n] = [type |-> type, peer |-> q]

\* No connection of p and q is on its way to be listed by q.
Settled(p, q) ==
    \A c \in 1..Len(conn) : {conn[c].from, conn[c].to} = {p, q} =>
        /\ conn[c].fromEnd # "connecting"
        /\ conn[c].toEnd \in {"ESTABLISHED", "stopped", "closed"}

\* After the last fault: the dialling peer is about to hear of an address it
\* does not have, and neither peer lists a session with the other, nor has a
\* report to come that would take one away.
MayReconnect(p, q) ==
    /\ faults = MaxFaults
    /\ p < q
    /\ Mailed(p, "RESOLVED", q)
    /\ q \notin nodesM[p]
    /\ ~Mailed(p, "DEREGISTERED", q) /\ ~Mailed(q, "DEREGISTERED", p)
    /\ ~IsSessionAlreadyPresent(p, q) /\ ~IsSessionAlreadyPresent(q, p)
    /\ Settled(p, q)
    /\ acceptId[q] # None

\* Peers that both forgot each other connect again: the connections that
\* RemoveSession left open are no obstacle, once their handshakes are over.
Reconnects == \A p, q \in Peers : MayReconnect(p, q) ~> Connected(p, q)
=============================================================================
