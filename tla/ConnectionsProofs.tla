-------------------------- MODULE ConnectionsProofs --------------------------
(***************************************************************************)
(* For any set of peers, any number of connections, faults and ids: the    *)
(* two maps of sessions agree until the ids wrap (IndexExact), and a       *)
(* dialler is established only after the acceptor decided.                 *)
(*                                                                         *)
(* IndexExact is not inductive: listing a session under an id keeps the    *)
(* maps in agreement only if no other session is listed under that id.     *)
(* PeerInv adds who holds an id: every end of a connection that is open,   *)
(* and the acceptor, hold different ids below taken, and a session is      *)
(* listed under the id its end holds, not before its handler ran.          *)
(*                                                                         *)
(* Until something goes wrong two peers create one connection only         *)
(* (OneConnection). DialledOnce is what keeps it so: no peer is reported   *)
(* as gone, only the peer with the smaller name dials, and once it dialled *)
(* the other stays listed, so that no later report makes it dial again.    *)
(***************************************************************************)
EXTENDS Connections, TLAPS

\* c has an end at p, in this state, with this id.
Mine(p, c)  == conn[c].from = p \/ conn[c].to = p
EndOf(p, c) == IF conn[c].from = p THEN conn[c].fromEnd ELSE conn[c].toEnd
IdOf(p, c)  == IF conn[c].from = p THEN conn[c].fromId ELSE conn[c].toId

\* The end is open and holds its id.
Holds(p, c) ==
    Mine(p, c) /\ EndOf(p, c) \in {"connecting", "UNPREPARED", "ESTABLISHED", "stopped"}

\* The handler that lists the end has not run yet.
Awaiting(p, c) ==
    Mine(p, c) /\ EndOf(p, c) = IF conn[c].from = p THEN "connecting" ELSE "UNPREPARED"

Counting(p) ==
    /\ taken[p] >= 1
    /\ taken[p] < NumIds => currentSessionID[p] = taken[p]

IdsHeld(p) ==
    /\ acceptId[p] # None => acceptId[p] < taken[p]
    /\ \A c \in 1..Len(conn) : Holds(p, c) =>
          IdOf(p, c) \in Ids /\ IdOf(p, c) < taken[p] /\ IdOf(p, c) # acceptId[p]
    /\ \A c, d \in 1..Len(conn) :
          Holds(p, c) /\ Holds(p, d) /\ IdOf(p, c) = IdOf(p, d) => c = d

ListedHolds(p) ==
    \A i \in Ids : sessions_m[p][i] # None =>
        /\ Holds(p, sessions_m[p][i])
        /\ ~Awaiting(p, sessions_m[p][i])
        /\ IdOf(p, sessions_m[p][i]) = i

IndexOf(p) ==
    /\ \A q \in Peers : service_sessionid[p][q] # None =>
          /\ sessions_m[p][service_sessionid[p][q]] # None
          /\ ServiceName(p, sessions_m[p][service_sessionid[p][q]]) = q
    /\ \A i \in Ids : sessions_m[p][i] # None =>
          service_sessionid[p][ServiceName(p, sessions_m[p][i])] = i

PeerInv(p) ==
    /\ Counting(p)
    /\ taken[p] <= NumIds => IdsHeld(p) /\ ListedHolds(p) /\ IndexOf(p)

\* Nobody dials itself.
Apart == \A c \in 1..Len(conn) : conn[c].from # conn[c].to

IInv == TypeOK /\ Apart /\ \A p \in Peers : PeerInv(p)
-----------------------------------------------------------------------------
(* Facts about the data *)

\* The uint16_t arithmetic of currentSessionID stays in range and is plain
\* counting before the wrap.
LEMMA Wrap ==
    ASSUME NEW n \in Nat
    PROVE  n % NumIds \in Ids /\ (n < NumIds => n % NumIds = n)
  BY ConnectionsAssumption, SMT DEF Ids

\* A handler changes one connection: the others, and who they belong to, stay.
LEMMA Update ==
    ASSUME conn \in Seq(Connection), NEW c \in 1..Len(conn), NEW r \in Connection,
           conn' = [conn EXCEPT ![c] = r]
    PROVE  /\ conn' \in Seq(Connection)
           /\ Len(conn') = Len(conn)
           /\ conn'[c] = r
           /\ \A d \in 1..Len(conn) : d # c => conn'[d] = conn[d]
  <1> DEFINE S == Connection
  <1>1. conn \in Seq(S) /\ r \in S
    OBVIOUS
  <1> HIDE DEF S
  <1>2. conn' \in Seq(S) /\ Len(conn') = Len(conn)
    BY <1>1
  <1>3. conn'[c] = r /\ \A d \in 1..Len(conn) : d # c => conn'[d] = conn[d]
    BY <1>1
  <1>4. QED
    BY <1>2, <1>3 DEF S

\* A dial adds one connection at the end.
LEMMA Dialled ==
    ASSUME conn \in Seq(Connection), NEW r \in Connection, conn' = Append(conn, r)
    PROVE  /\ conn' \in Seq(Connection)
           /\ Len(conn') = Len(conn) + 1
           /\ conn'[Len(conn) + 1] = r
           /\ \A d \in 1..Len(conn) : conn'[d] = conn[d]
  <1> DEFINE S == Connection
  <1>1. conn \in Seq(S) /\ r \in S
    OBVIOUS
  <1> HIDE DEF S
  <1>2. conn' \in Seq(S) /\ Len(conn') = Len(conn) + 1
    BY <1>1
  <1>3. conn'[Len(conn) + 1] = r /\ \A d \in 1..Len(conn) : conn'[d] = conn[d]
    BY <1>1
  <1>4. QED
    BY <1>2, <1>3 DEF S

\* A connection is a record of its type, and its other end is a peer.
LEMMA ConnAt ==
    ASSUME conn \in Seq(Connection), NEW c \in 1..Len(conn)
    PROVE  conn[c] \in Connection /\ \A p : ServiceName(p, c) \in Peers
  <1>1. conn[c] \in Connection
    <2> DEFINE S == Connection
    <2>1. conn \in Seq(S)
      OBVIOUS
    <2> HIDE DEF S
    <2>2. conn[c] \in S
      BY <2>1
    <2>3. QED
      BY <2>2 DEF S
  <1>2. conn[c].from \in Peers /\ conn[c].to \in Peers
    BY <1>1 DEF Connection
  <1>3. QED
    BY <1>1, <1>2 DEF ServiceName
-----------------------------------------------------------------------------
(* What a step does to the maps and ids of one peer *)

\* p's connections keep their other end.
NamesKept(p) ==
    \A c \in 1..Len(conn) :
        c \in 1..Len(conn') /\ ServiceName(p, c)' = ServiceName(p, c)

\* p's maps and ids stay, no end of p opens or goes back, and no listed end
\* closes (before the ids wrap).
Quiet(p) ==
    /\ sessions_m'[p] = sessions_m[p]
    /\ service_sessionid'[p] = service_sessionid[p]
    /\ taken'[p] = taken[p]
    /\ currentSessionID'[p] = currentSessionID[p]
    /\ acceptId'[p] \in {acceptId[p], None}
    /\ NamesKept(p)
    /\ \A c \in 1..Len(conn') : Holds(p, c)' =>
          c \in 1..Len(conn) /\ Holds(p, c) /\ IdOf(p, c)' = IdOf(p, c)
    /\ \A c \in 1..Len(conn) : Awaiting(p, c)' => Awaiting(p, c)
    /\ taken[p] <= NumIds =>
          \A c \in 1..Len(conn) : Holds(p, c) /\ Listed(p, c) => Holds(p, c)'

\* A step that is quiet for p (all but a dial, an accept, a listing, a removal
\* and a restart of p itself) preserves p's invariant.
LEMMA QuietPeer ==
    ASSUME TypeOK, NEW p \in Peers, PeerInv(p), Quiet(p)
    PROVE  PeerInv(p)'
  <1>1. Counting(p)'
    BY DEF PeerInv, Quiet, Counting
  <1>2. SUFFICES ASSUME taken[p] <= NumIds
                 PROVE  IdsHeld(p)' /\ ListedHolds(p)' /\ IndexOf(p)'
    BY <1>1 DEF PeerInv, Quiet
  <1>3. IdsHeld(p) /\ ListedHolds(p) /\ IndexOf(p)
    BY <1>2 DEF PeerInv
  <1>4. \A i \in Ids : sessions_m[p][i] # None =>
            sessions_m[p][i] \in 1..Len(conn) /\ Listed(p, sessions_m[p][i])
    BY DEF TypeOK, Listed
  <1>5. IdsHeld(p)'
    <2>1. acceptId'[p] # None => acceptId'[p] < taken'[p]
      BY <1>3 DEF Quiet, IdsHeld
    <2>2. ASSUME NEW c \in 1..Len(conn'), Holds(p, c)'
          PROVE  IdOf(p, c)' \in Ids /\ IdOf(p, c)' < taken'[p] /\ IdOf(p, c)' # acceptId'[p]
      <3>1. c \in 1..Len(conn) /\ Holds(p, c) /\ IdOf(p, c)' = IdOf(p, c)
        BY <2>2 DEF Quiet
      <3>2. IdOf(p, c) \in Ids /\ IdOf(p, c) < taken[p] /\ IdOf(p, c) # acceptId[p]
        BY <1>3, <3>1 DEF IdsHeld
      <3>3. IdOf(p, c) # None
        BY <3>2, ConnectionsAssumption DEF Ids
      <3>4. QED
        BY <3>1, <3>2, <3>3 DEF Quiet
    <2>3. ASSUME NEW c \in 1..Len(conn'), NEW d \in 1..Len(conn'),
                 Holds(p, c)', Holds(p, d)', IdOf(p, c)' = IdOf(p, d)'
          PROVE  c = d
      BY <1>3, <2>3 DEF Quiet, IdsHeld
    <2>4. QED
      BY <2>1, <2>2, <2>3 DEF IdsHeld
  <1>6. ListedHolds(p)'
    BY <1>2, <1>3, <1>4 DEF Quiet, NamesKept, ListedHolds
  <1>7. IndexOf(p)'
    <2>1. ASSUME NEW q \in Peers, service_sessionid'[p][q] # None
          PROVE  /\ sessions_m'[p][service_sessionid'[p][q]] # None
                 /\ ServiceName(p, sessions_m[p][service_sessionid[p][q]])' = q
      BY <1>3, <1>4, <2>1 DEF Quiet, NamesKept, IndexOf, TypeOK
    <2>2. QED
      BY <1>3, <1>4, <2>1 DEF Quiet, NamesKept, IndexOf
  <1>8. QED
    BY <1>5, <1>6, <1>7

\* p's end of connection c stays as it is.
Still(p, c) ==
    /\ Holds(p, c)' <=> Holds(p, c)
    /\ Awaiting(p, c)' <=> Awaiting(p, c)
    /\ IdOf(p, c)' = IdOf(p, c)

\* p's maps stay.
MapsStay(p) ==
    /\ sessions_m'[p] = sessions_m[p]
    /\ service_sessionid'[p] = service_sessionid[p]

\* p takes the next id.
Takes(p) ==
    /\ taken'[p] = taken[p] + 1
    /\ currentSessionID'[p] = (currentSessionID[p] + 1) % NumIds

\* Before the wrap the id that p takes is the count of those taken.
LEMMA TakesCount ==
    ASSUME TypeOK, NEW p \in Peers, Counting(p), Takes(p)
    PROVE  /\ Counting(p)'
           /\ taken'[p] <= NumIds => currentSessionID[p] = taken[p]
  <1>1. /\ taken[p] \in Nat
        /\ taken[p] + 1 \in Nat
        /\ NumIds \in Nat
    BY ConnectionsAssumption DEF TypeOK
  <1>2. taken[p] + 1 < NumIds => (taken[p] + 1) % NumIds = taken[p] + 1
    BY <1>1, Wrap
  <1>3. taken[p] + 1 < NumIds => currentSessionID[p] = taken[p]
    BY <1>1 DEF Counting
  <1>4. taken[p] + 1 < NumIds => (currentSessionID[p] + 1) % NumIds = taken[p] + 1
    BY <1>2, <1>3
  <1>5. taken'[p] < NumIds => currentSessionID'[p] = taken'[p]
    BY <1>4 DEF Takes
  <1>6. taken'[p] >= 1
    BY <1>1 DEF Takes, Counting
  <1>7. taken'[p] <= NumIds => currentSessionID[p] = taken[p]
    BY <1>1 DEF Takes, Counting
  <1>8. QED
    BY <1>5, <1>6, <1>7 DEF Counting

\* The parts of p's invariant about its maps survive a step that leaves them,
\* and the ends listed in them, alone.
LEMMA MapsStayed ==
    ASSUME TypeOK, NEW p \in Peers, ListedHolds(p), IndexOf(p), MapsStay(p), NamesKept(p),
           \A c \in 1..Len(conn) : Holds(p, c) /\ Listed(p, c) => Still(p, c)
    PROVE  ListedHolds(p)' /\ IndexOf(p)'
  <1>1. \A i \in Ids : sessions_m[p][i] # None =>
            sessions_m[p][i] \in 1..Len(conn) /\ Listed(p, sessions_m[p][i])
    BY DEF TypeOK, Listed
  <1>2. ListedHolds(p)'
    BY <1>1 DEF MapsStay, ListedHolds, Still
  <1>3. \A q \in Peers : service_sessionid'[p][q] # None =>
            /\ sessions_m'[p][service_sessionid'[p][q]] # None
            /\ ServiceName(p, sessions_m[p][service_sessionid[p][q]])' = q
    BY <1>1 DEF MapsStay, NamesKept, IndexOf, TypeOK
  <1>4. QED
    BY <1>1, <1>2, <1>3 DEF MapsStay, NamesKept, IndexOf

\* InitiateSessionWithNode: p dials connection n with a new id.
LEMMA DialPeer ==
    ASSUME TypeOK, NEW p \in Peers, PeerInv(p), Takes(p), MapsStay(p), NamesKept(p),
           acceptId'[p] = acceptId[p],
           NEW n, n = Len(conn) + 1, Len(conn') = n,
           \A c \in 1..Len(conn) : Still(p, c),
           IdOf(p, n)' = currentSessionID[p]
    PROVE  PeerInv(p)'
  <1>1. Counting(p)' /\ (taken'[p] <= NumIds => currentSessionID[p] = taken[p])
    BY TakesCount DEF PeerInv
  <1>2. taken[p] \in Nat /\ taken'[p] = taken[p] + 1 /\ NumIds \in Nat
    BY ConnectionsAssumption DEF TypeOK, Takes
  <1>3. SUFFICES ASSUME taken'[p] <= NumIds
                 PROVE  IdsHeld(p)' /\ ListedHolds(p)' /\ IndexOf(p)'
    BY <1>1 DEF PeerInv
  <1>4. IdsHeld(p) /\ ListedHolds(p) /\ IndexOf(p)
    BY <1>2, <1>3 DEF PeerInv
  <1>5. ListedHolds(p)' /\ IndexOf(p)'
    BY <1>4, MapsStayed
  <1>6. IdOf(p, n)' = taken[p] /\ taken[p] \in Ids
    BY <1>1, <1>2, <1>3 DEF Ids
  <1>7. Len(conn) \in Nat /\ \A c \in 1..Len(conn') : c \in 1..Len(conn) \/ c = n
    BY DEF TypeOK
  <1>8. acceptId[p] # None => acceptId[p] < taken[p] /\ acceptId[p] \in Nat
    BY <1>4 DEF IdsHeld, TypeOK, Ids
  <1>9. \A c \in 1..Len(conn) : Holds(p, c) =>
            IdOf(p, c) \in Ids /\ IdOf(p, c) < taken[p] /\ IdOf(p, c) # acceptId[p]
    BY <1>4 DEF IdsHeld
  <1>10. taken[p] # acceptId[p]
    BY <1>2, <1>8, ConnectionsAssumption
  <1>11. IdsHeld(p)'
    <2>1. acceptId'[p] # None => acceptId'[p] < taken'[p]
      BY <1>2, <1>8
    <2>2. ASSUME NEW c \in 1..Len(conn'), Holds(p, c)'
          PROVE  IdOf(p, c)' \in Ids /\ IdOf(p, c)' < taken'[p] /\ IdOf(p, c)' # acceptId'[p]
      <3>1. CASE c = n
        BY <3>1, <1>2, <1>6, <1>10
      <3>2. CASE c \in 1..Len(conn)
        <4>1. IdOf(p, c)' = IdOf(p, c) /\ Holds(p, c)
          BY <2>2, <3>2 DEF Still
        <4>2. IdOf(p, c) \in Nat
          BY <3>2, <4>1, <1>9 DEF Ids
        <4>3. QED
          BY <3>2, <4>1, <4>2, <1>2, <1>9
      <3>3. QED
        BY <3>1, <3>2, <1>7
    <2>3. ASSUME NEW c \in 1..Len(conn), Holds(p, c)'
          PROVE  IdOf(p, c)' # IdOf(p, n)'
      <3>1. IdOf(p, c)' = IdOf(p, c) /\ Holds(p, c)
        BY <2>3 DEF Still
      <3>2. IdOf(p, c) \in Nat
        BY <3>1, <1>9 DEF Ids
      <3>3. QED
        BY <3>1, <3>2, <1>2, <1>6, <1>9
    <2>4. ASSUME NEW c \in 1..Len(conn'), NEW d \in 1..Len(conn'),
                 Holds(p, c)', Holds(p, d)', IdOf(p, c)' = IdOf(p, d)'
          PROVE  c = d
      <3>1. CASE c \in 1..Len(conn) /\ d \in 1..Len(conn)
        BY <2>4, <3>1, <1>4 DEF Still, IdsHeld
      <3>2. CASE c = n \/ d = n
        BY <2>3, <2>4, <3>2, <1>7
      <3>3. QED
        BY <3>1, <3>2, <1>7
    <2>5. QED
      BY <2>1, <2>2, <2>4 DEF IdsHeld
  <1>12. QED
    BY <1>5, <1>11

\* Accept: connection k gets the id the acceptor held, which takes a new one.
LEMMA AcceptPeer ==
    ASSUME TypeOK, NEW p \in Peers, PeerInv(p), Takes(p), MapsStay(p), NamesKept(p),
           acceptId[p] # None, acceptId'[p] = currentSessionID[p],
           NEW k \in 1..Len(conn), Len(conn') = Len(conn),
           ~Holds(p, k), IdOf(p, k)' = acceptId[p],
           \A c \in 1..Len(conn) : c # k => Still(p, c)
    PROVE  PeerInv(p)'
  <1>1. Counting(p)' /\ (taken'[p] <= NumIds => currentSessionID[p] = taken[p])
    BY TakesCount DEF PeerInv
  <1>2. taken[p] \in Nat /\ taken'[p] = taken[p] + 1 /\ NumIds \in Nat
    BY ConnectionsAssumption DEF TypeOK, Takes
  <1>3. SUFFICES ASSUME taken'[p] <= NumIds
                 PROVE  IdsHeld(p)' /\ ListedHolds(p)' /\ IndexOf(p)'
    BY <1>1 DEF PeerInv
  <1>4. IdsHeld(p) /\ ListedHolds(p) /\ IndexOf(p)
    BY <1>2, <1>3 DEF PeerInv
  <1>5. ListedHolds(p)' /\ IndexOf(p)'
    BY <1>4, MapsStayed
  <1>6. acceptId'[p] = taken[p]
    BY <1>1, <1>3
  <1>7. acceptId[p] \in Ids /\ acceptId[p] \in Nat /\ acceptId[p] < taken[p]
    BY <1>4 DEF IdsHeld, TypeOK, Ids
  <1>8. ASSUME NEW c \in 1..Len(conn), c # k, Holds(p, c)'
        PROVE  /\ Holds(p, c)
               /\ IdOf(p, c)' = IdOf(p, c)
               /\ IdOf(p, c) \in Ids /\ IdOf(p, c) \in Nat
               /\ IdOf(p, c) < taken[p] /\ IdOf(p, c) # acceptId[p]
    BY <1>4, <1>8 DEF Still, IdsHeld, Ids
  <1>9. ASSUME NEW c \in 1..Len(conn'), Holds(p, c)'
        PROVE  IdOf(p, c)' \in Ids /\ IdOf(p, c)' < taken'[p] /\ IdOf(p, c)' # acceptId'[p]
    <2>1. CASE c = k
      BY <2>1, <1>2, <1>6, <1>7
    <2>2. CASE c # k
      BY <2>2, <1>2, <1>6, <1>8, <1>9
    <2>3. QED
      BY <2>1, <2>2
  <1>10. ASSUME NEW c \in 1..Len(conn'), NEW d \in 1..Len(conn'),
                Holds(p, c)', Holds(p, d)', IdOf(p, c)' = IdOf(p, d)'
         PROVE  c = d
    <2>1. CASE c # k /\ d # k
      BY <2>1, <1>4, <1>8, <1>10 DEF IdsHeld
    <2>2. CASE c = k \/ d = k
      BY <2>2, <1>8, <1>10
    <2>3. QED
      BY <2>1, <2>2
  <1>11. acceptId'[p] < taken'[p]
    BY <1>2, <1>6, SMTT(60)
  <1>12. QED
    BY <1>5, <1>9, <1>10, <1>11 DEF IdsHeld

\* ConnectHandler and HandleSessionIdentification: p lists connection k with q
\* under the id its end holds, after q was found to have no session.
LEMMA ListPeer ==
    ASSUME TypeOK, NEW p \in Peers, PeerInv(p), NEW q \in Peers, NEW k \in 1..Len(conn),
           taken'[p] = taken[p], currentSessionID'[p] = currentSessionID[p],
           acceptId'[p] = acceptId[p], NamesKept(p), Len(conn') = Len(conn),
           ServiceName(p, k) = q, Holds(p, k), Awaiting(p, k),
           ~IsSessionAlreadyPresent(p, q),
           sessions_m'[p] = [sessions_m[p] EXCEPT ![IdOf(p, k)] = k],
           service_sessionid'[p] = [service_sessionid[p] EXCEPT ![q] = IdOf(p, k)],
           Holds(p, k)', ~Awaiting(p, k)', IdOf(p, k)' = IdOf(p, k),
           \A c \in 1..Len(conn) : c # k => Still(p, c)
    PROVE  PeerInv(p)'
  <1>1. Counting(p)'
    BY Zenon DEF PeerInv, Counting
  <1>2. SUFFICES ASSUME taken[p] <= NumIds
                 PROVE  IdsHeld(p)' /\ ListedHolds(p)' /\ IndexOf(p)'
    BY <1>1, Zenon DEF PeerInv
  <1>3. IdsHeld(p) /\ ListedHolds(p) /\ IndexOf(p)
    BY <1>2, Zenon DEF PeerInv
  <1>4. \A c \in 1..Len(conn) :
            (Holds(p, c)' => Holds(p, c)) /\ IdOf(p, c)' = IdOf(p, c)
    BY Zenon DEF Still
  <1>5. IdsHeld(p)'
    BY <1>3, <1>4, Zenon DEF IdsHeld
  <1>6. IdOf(p, k) \in Ids /\ k # None
    BY <1>3, ConnectionsAssumption DEF IdsHeld
  <1>t. /\ sessions_m \in [Peers -> [Ids -> (1..Len(conn)) \cup {None}]]
        /\ service_sessionid \in [Peers -> [Peers -> Ids \cup {None}]]
    BY Zenon DEF TypeOK
  <1>7. \A i \in Ids : sessions_m[p][i] # None => sessions_m[p][i] \in 1..Len(conn)
    BY ONLY <1>t, p \in Peers
  <1>8. \A i \in Ids : sessions_m[p][i] # k
    BY <1>3, <1>6 DEF ListedHolds
  <1>9. sessions_m[p][IdOf(p, k)] = None
    BY <1>3, <1>6, <1>7, <1>8, Zenon DEF ListedHolds, IdsHeld
  <1>10. service_sessionid[p][q] = None
    <2>1. SUFFICES ASSUME service_sessionid[p][q] # None
                   PROVE  FALSE
      BY Zenon
    <2>2. service_sessionid[p][q] \in Ids
      BY ONLY <1>t, <2>1, p \in Peers, q \in Peers
    <2>3. QED
      BY <2>1, <2>2, <1>3, Zenon DEF IndexOf, IsSessionAlreadyPresent
  <1>11. /\ sessions_m'[p][IdOf(p, k)] = k
         /\ \A i \in Ids : i # IdOf(p, k) => sessions_m'[p][i] = sessions_m[p][i]
    BY ONLY <1>t, <1>6, p \in Peers,
       sessions_m'[p] = [sessions_m[p] EXCEPT ![IdOf(p, k)] = k]
  <1>12. /\ service_sessionid'[p][q] = IdOf(p, k)
         /\ \A r \in Peers : r # q => service_sessionid'[p][r] = service_sessionid[p][r]
    BY <1>t, Zenon
  <1>13. ListedHolds(p)'
    <2>1. ASSUME NEW i \in Ids, sessions_m'[p][i] # None
          PROVE  /\ Holds(p, sessions_m[p][i])'
                 /\ ~Awaiting(p, sessions_m[p][i])'
                 /\ IdOf(p, sessions_m[p][i])' = i
      <3>1. CASE i = IdOf(p, k)
        BY <3>1, <1>11, SMTT(60)
      <3>2. CASE i # IdOf(p, k)
        BY <2>1, <3>2, <1>3, <1>7, <1>8, <1>11, Zenon DEF ListedHolds, Still
      <3>3. QED
        BY <3>1, <3>2
    <2>2. QED
      BY <2>1, Zenon DEF ListedHolds
  <1>14. ASSUME NEW r \in Peers, service_sessionid'[p][r] # None
         PROVE  /\ sessions_m'[p][service_sessionid'[p][r]] # None
                /\ ServiceName(p, sessions_m[p][service_sessionid[p][r]])' = r
    <2>1. CASE r = q
      BY <2>1, <1>6, <1>11, <1>12, SMTT(60) DEF NamesKept
    <2>2. CASE r # q
      <3>1. /\ service_sessionid'[p][r] = service_sessionid[p][r]
            /\ service_sessionid[p][r] \in Ids
            /\ sessions_m[p][service_sessionid[p][r]] # None
            /\ ServiceName(p, sessions_m[p][service_sessionid[p][r]]) = r
        <4>1. service_sessionid[p][r] \in Ids \cup {None}
          BY ONLY <1>t, p \in Peers, r \in Peers, Zenon
        <4>2. service_sessionid'[p][r] = service_sessionid[p][r]
          BY <2>2, <1>12
        <4>3. service_sessionid[p][r] # None
          BY <4>2, <1>14
        <4>4. QED
          BY ONLY <4>1, <4>2, <4>3, <1>3, r \in Peers, SMTT(60) DEF IndexOf
      <3>2. service_sessionid[p][r] # IdOf(p, k)
        BY <3>1, <1>9
      <3>3. QED
        BY <3>1, <3>2, <1>7, <1>11 DEF NamesKept
    <2>3. QED
      BY <2>1, <2>2
  <1>15. ASSUME NEW i \in Ids, sessions_m'[p][i] # None
         PROVE  service_sessionid'[p][ServiceName(p, sessions_m[p][i])'] = i
    <2>1. CASE i = IdOf(p, k)
      BY <2>1, <1>11, <1>12, Zenon DEF NamesKept
    <2>2. CASE i # IdOf(p, k)
      <3>1. /\ sessions_m'[p][i] = sessions_m[p][i] /\ sessions_m[p][i] # None
            /\ sessions_m[p][i] \in 1..Len(conn)
        BY <2>2, <1>7, <1>11, <1>15, SMTT(60)
      <3>2. ServiceName(p, sessions_m[p][i])' = ServiceName(p, sessions_m[p][i])
        BY <3>1, Zenon DEF NamesKept
      <3>3. ServiceName(p, sessions_m[p][i]) # q
        BY <3>1, Zenon DEF IsSessionAlreadyPresent
      <3>4. ServiceName(p, sessions_m[p][i]) \in Peers
        <4>1. conn \in Seq(Connection)
          BY Zenon DEF TypeOK
        <4>2. QED
          BY ONLY <3>1, <4>1, p \in Peers, ConnAt, Zenon
      <3>5. service_sessionid[p][ServiceName(p, sessions_m[p][i])] = i
        BY <3>1, <1>3, Zenon DEF IndexOf
      <3>6. QED
        BY <3>2, <3>3, <3>4, <3>5, <1>12, Zenon
    <2>3. QED
      BY <2>1, <2>2, Zenon
  <1>16. QED
    BY <1>5, <1>13, <1>14, <1>15, Zenon DEF IndexOf

\* RemoveSession: p forgets q, and the session q's id leads to.
LEMMA RemovePeer ==
    ASSUME TypeOK, NEW p \in Peers, PeerInv(p), NEW q \in Peers,
           taken'[p] = taken[p], currentSessionID'[p] = currentSessionID[p],
           acceptId'[p] = acceptId[p], conn' = conn,
           sessions_m'[p] = IF service_sessionid[p][q] = None THEN sessions_m[p]
                            ELSE [sessions_m[p] EXCEPT ![service_sessionid[p][q]] = None],
           service_sessionid'[p] = [service_sessionid[p] EXCEPT ![q] = None]
    PROVE  PeerInv(p)'
  <1>1. Counting(p)'
    BY DEF PeerInv, Counting
  <1>2. SUFFICES ASSUME taken[p] <= NumIds
                 PROVE  IdsHeld(p)' /\ ListedHolds(p)' /\ IndexOf(p)'
    BY <1>1 DEF PeerInv
  <1>3. IdsHeld(p) /\ ListedHolds(p) /\ IndexOf(p)
    BY <1>2, SMTT(60) DEF PeerInv
  <1>4. /\ Len(conn') = Len(conn)
        /\ \A c \in 1..Len(conn) : /\ Still(p, c)
                                   /\ ServiceName(p, c)' = ServiceName(p, c)
    BY Zenon DEF Still, Holds, Mine, EndOf, Awaiting, IdOf, ServiceName
  <1>5. IdsHeld(p)'
    BY <1>3, <1>4 DEF IdsHeld, Still
  <1>6. \A i \in Ids : sessions_m'[p][i] # None =>
            sessions_m'[p][i] = sessions_m[p][i] /\ i # service_sessionid[p][q]
    BY ConnectionsAssumption, SMTT(60) DEF TypeOK, Ids
  <1>7. ListedHolds(p)'
    <2>1. \A i \in Ids : sessions_m[p][i] # None => sessions_m[p][i] \in 1..Len(conn)
      BY DEF TypeOK
    <2>2. QED
      BY <2>1, <1>3, <1>4, <1>6, ZenonT(60) DEF ListedHolds, Still
  <1>8. ASSUME NEW r \in Peers, service_sessionid'[p][r] # None
        PROVE  /\ sessions_m'[p][service_sessionid'[p][r]] # None
               /\ ServiceName(p, sessions_m[p][service_sessionid[p][r]])' = r
    <2>1. r # q /\ service_sessionid'[p][r] = service_sessionid[p][r]
      BY <1>8 DEF TypeOK
    <2>2. /\ service_sessionid[p][r] \in Ids
          /\ sessions_m[p][service_sessionid[p][r]] # None
          /\ ServiceName(p, sessions_m[p][service_sessionid[p][r]]) = r
      BY <2>1, <1>3, <1>8, SMTT(60) DEF IndexOf, TypeOK
    <2>3. service_sessionid[p][q] # None => service_sessionid[p][r] # service_sessionid[p][q]
      BY <2>1, <2>2, <1>3, Zenon DEF IndexOf
    <2>4. sessions_m'[p][service_sessionid[p][r]] = sessions_m[p][service_sessionid[p][r]]
      BY <2>2, <2>3 DEF TypeOK
    <2>5. sessions_m[p][service_sessionid[p][r]] \in 1..Len(conn)
      BY <2>2 DEF TypeOK
    <2>6. QED
      BY <2>1, <2>2, <2>4, <2>5, <1>4, SMTT(60)
  <1>9. ASSUME NEW i \in Ids, sessions_m'[p][i] # None
        PROVE  service_sessionid'[p][ServiceName(p, sessions_m[p][i])'] = i
    <2>1. /\ sessions_m'[p][i] = sessions_m[p][i] /\ i # service_sessionid[p][q]
          /\ sessions_m[p][i] \in 1..Len(conn)
      BY <1>6, <1>9, SMTT(60) DEF TypeOK
    <2>2. service_sessionid[p][ServiceName(p, sessions_m[p][i])] = i
      BY <2>1, <1>3, <1>9 DEF IndexOf
    <2>3. ServiceName(p, sessions_m[p][i]) \in Peers
      BY <2>1, ConnAt, SMTT(60) DEF TypeOK
    <2>4. ServiceName(p, sessions_m[p][i]) # q
      BY <2>1, <2>2
    <2>5. service_sessionid'[p][ServiceName(p, sessions_m[p][i])] = i
      BY <2>2, <2>3, <2>4, SMTT(60) DEF TypeOK
    <2>6. QED
      BY <2>1, <2>5, <1>4, Zenon
  <1>10. QED
    BY <1>5, <1>7, <1>8, <1>9, Zenon DEF IndexOf

\* A new process of p has empty maps, the first id, and no open end.
LEMMA RestartPeer ==
    ASSUME NEW p \in Peers,
           taken'[p] = 1, currentSessionID'[p] = 1 % NumIds, acceptId'[p] = 0,
           sessions_m'[p] = [i \in Ids |-> None],
           service_sessionid'[p] = [q \in Peers |-> None],
           \A c \in 1..Len(conn') : ~Holds(p, c)'
    PROVE  PeerInv(p)'
  <1>1. 1 < NumIds => 1 % NumIds = 1
    BY Wrap
  <1>2. Counting(p)'
    BY <1>1 DEF Counting
  <1>3. IdsHeld(p)'
    BY DEF IdsHeld
  <1>4. ListedHolds(p)' /\ IndexOf(p)'
    BY DEF ListedHolds, IndexOf
  <1>5. QED
    BY <1>2, <1>3, <1>4, SMTT(60) DEF PeerInv
-----------------------------------------------------------------------------
(* From one connection to the peer *)

\* p's maps and ids stay.
Idle(p) ==
    /\ MapsStay(p)
    /\ taken'[p] = taken[p]
    /\ currentSessionID'[p] = currentSessionID[p]
    /\ acceptId'[p] \in {acceptId[p], None}

\* A connection that does not change is the same to each of its peers.
LEMMA SameConn ==
    ASSUME NEW p, NEW d, conn'[d] = conn[d]
    PROVE  Still(p, d) /\ ServiceName(p, d)' = ServiceName(p, d)
  BY DEF Still, Holds, Mine, EndOf, Awaiting, IdOf, ServiceName

\* No connection changes, and p is idle: reports, and an accept error.
LEMMA IdleConns ==
    ASSUME TypeOK, NEW p \in Peers, PeerInv(p), Idle(p), conn' = conn
    PROVE  PeerInv(p)'
  <1>1. \A d \in 1..Len(conn) : Still(p, d) /\ ServiceName(p, d)' = ServiceName(p, d)
    BY SameConn, SMTT(60)
  <1>2. Quiet(p)
    BY <1>1, Zenon DEF Idle, MapsStay, Quiet, NamesKept, Still
  <1>3. QED
    BY <1>2, QuietPeer

\* One connection changes, in a way that is quiet for p.
LEMMA IdleConn ==
    ASSUME TypeOK, NEW p \in Peers, PeerInv(p), Idle(p),
           NEW c \in 1..Len(conn), Len(conn') = Len(conn),
           \A d \in 1..Len(conn) : d # c => conn'[d] = conn[d],
           ServiceName(p, c)' = ServiceName(p, c),
           Holds(p, c)' => Holds(p, c) /\ IdOf(p, c)' = IdOf(p, c),
           Awaiting(p, c)' => Awaiting(p, c),
           taken[p] <= NumIds /\ Holds(p, c) /\ Listed(p, c) => Holds(p, c)'
    PROVE  PeerInv(p)'
  <1>1. \A d \in 1..Len(conn) : d # c =>
            Still(p, d) /\ ServiceName(p, d)' = ServiceName(p, d)
    BY SameConn, SMTT(60)
  <1>2. NamesKept(p)
    BY <1>1 DEF NamesKept
  <1>3. \A d \in 1..Len(conn') : Holds(p, d)' =>
            d \in 1..Len(conn) /\ Holds(p, d) /\ IdOf(p, d)' = IdOf(p, d)
    BY <1>1 DEF Still
  <1>4. \A d \in 1..Len(conn) : Awaiting(p, d)' => Awaiting(p, d)
    BY <1>1 DEF Still
  <1>5. taken[p] <= NumIds =>
            \A d \in 1..Len(conn) : Holds(p, d) /\ Listed(p, d) => Holds(p, d)'
    BY <1>1 DEF Still
  <1>6. Quiet(p)
    BY <1>2, <1>3, <1>4, <1>5 DEF Idle, MapsStay, Quiet
  <1>7. QED
    BY <1>6, QuietPeer, Zenon
-----------------------------------------------------------------------------
(* The steps *)

\* The variables that are not about connections keep their types.
TypeRest ==
    /\ seen \in [Peers -> SUBSET Peers]
    /\ resolver \in [Peers -> SUBSET Peers]
    /\ mail \in [Peers -> Seq(Reports)]
    /\ serviceV \in [Peers -> SUBSET Peers]
    /\ nodesM \in [Peers -> SUBSET Peers]
    /\ faults \in 0..MaxFaults

\* The manager's variables do.
TypeIds ==
    /\ currentSessionID \in [Peers -> Ids]
    /\ taken \in [Peers -> Nat]
    /\ acceptId \in [Peers -> Ids \cup {None}]

TypeMaps ==
    /\ sessions_m \in [Peers -> [Ids -> (1..Len(conn)) \cup {None}]]
    /\ service_sessionid \in [Peers -> [Peers -> Ids \cup {None}]]
    /\ conn \in Seq(Connection)

\* TypeOK is its parts.
LEMMA TypeParts == TypeOK <=> TypeRest /\ TypeIds /\ TypeMaps
  BY DEF TypeOK, TypeRest, TypeIds, TypeMaps

\* The same after a step.
LEMMA TypePartsNext == TypeOK' <=> TypeRest' /\ TypeIds' /\ TypeMaps'
  BY DEF TypeOK, TypeRest, TypeIds, TypeMaps

\* Sending a report and receiving one keep the mailboxes.
LEMMA MailTyped ==
    ASSUME TypeRest, NEW p \in Peers, NEW q \in Peers,
           NEW t \in {"PUBLISHED", "RESOLVED", "DEREGISTERED"},
           Report(p, t, q) \/ Receive(p, t, q)
    PROVE  mail' \in [Peers -> Seq(Reports)]
  <1> DEFINE S == Reports
             m == [type |-> t, peer |-> q]
  <1>1. m \in S
    BY DEF Reports
  <1>2. mail \in [Peers -> Seq(S)]
    BY DEF TypeRest
  <1>3. \/ mail' = [mail EXCEPT ![p] = Append(mail[p], m)]
        \/ mail[p] # <<>> /\ mail' = [mail EXCEPT ![p] = Tail(mail[p])]
    BY DEF Report, Receive
  <1> HIDE DEF S, m
  <1>4. mail' \in [Peers -> Seq(S)]
    <2>1. Append(mail[p], m) \in Seq(S)
      BY <1>1, <1>2
    <2>2. mail[p] # <<>> => Tail(mail[p]) \in Seq(S)
      BY <1>2
    <2>3. QED
      BY <1>2, <1>3, <2>1, <2>2, Zenon
  <1>5. QED
    BY <1>4 DEF S

\* What a fault does to its counter.
LEMMA FaultTyped ==
    ASSUME TypeRest, NEW kind, Fault(kind)
    PROVE  faults' \in 0..MaxFaults
  BY ConnectionsAssumption DEF TypeRest, Fault

\* A report of the discovery changes nothing a session depends on.
LEMMA DiscoveryStep ==
    ASSUME IInv, NEW p \in Peers, NEW q \in Peers,
           Appear(p, q) \/ Resolve(p, q) \/ Disappear(p, q)
    PROVE  IInv'
  <1>1. TypeRest /\ TypeIds /\ TypeMaps
    BY TypeParts DEF IInv
  <1>2. mail' \in [Peers -> Seq(Reports)]
    BY <1>1, MailTyped DEF Appear, Resolve, Disappear
  <1>3. faults' \in 0..MaxFaults
    BY <1>1, FaultTyped DEF Appear, Resolve, Disappear, TypeRest
  <1>4. TypeRest'
    <2>1. seen' \in [Peers -> SUBSET Peers] /\ resolver' \in [Peers -> SUBSET Peers]
      <3>1. CASE Appear(p, q)
        BY <1>1, <3>1 DEF Appear, TypeRest
      <3>2. CASE Resolve(p, q)
        BY <1>1, <3>2 DEF Resolve, TypeRest
      <3>3. CASE Disappear(p, q)
        BY <1>1, <3>3 DEF Disappear, TypeRest
      <3>4. QED
        BY <3>1, <3>2, <3>3
    <2>2. UNCHANGED <<serviceV, nodesM>>
      BY DEF Appear, Resolve, Disappear, app
    <2>3. QED
      BY <1>1, <1>2, <1>3, <2>1, <2>2 DEF TypeRest
  <1>5. UNCHANGED <<currentSessionID, taken, acceptId, sessions_m, service_sessionid, conn>>
    BY DEF Appear, Resolve, Disappear, ids, manager
  <1>6. TypeIds' /\ TypeMaps' /\ Apart'
    BY <1>1, <1>5 DEF TypeIds, TypeMaps, Apart, IInv
  <1>7. \A r \in Peers : PeerInv(r)'
    BY <1>5, IdleConns DEF IInv, Idle, MapsStay
  <1>8. QED
    BY <1>4, <1>6, <1>7, TypePartsNext DEF IInv

\* HandlePublishedServices only notes the service.
LEMMA PublishedStep ==
    ASSUME IInv, NEW p \in Peers, NEW q \in Peers, HandlePublishedServices(p, q)
    PROVE  IInv'
  <1>1. TypeRest /\ TypeIds /\ TypeMaps
    BY TypeParts DEF IInv
  <1>2. mail' \in [Peers -> Seq(Reports)]
    BY <1>1, MailTyped DEF HandlePublishedServices
  <1>3. serviceV' \in [Peers -> SUBSET Peers]
    BY <1>1 DEF HandlePublishedServices, TypeRest
  <1>4. TypeRest'
    BY <1>1, <1>2, <1>3 DEF HandlePublishedServices, TypeRest, discovery
  <1>5. UNCHANGED <<currentSessionID, taken, acceptId, sessions_m, service_sessionid, conn>>
    BY DEF HandlePublishedServices, ids, manager
  <1>6. TypeIds' /\ TypeMaps' /\ Apart'
    BY <1>1, <1>5 DEF TypeIds, TypeMaps, Apart, IInv
  <1>7. \A r \in Peers : PeerInv(r)'
    BY <1>5, IdleConns DEF IInv, Idle, MapsStay
  <1>8. QED
    BY <1>4, <1>6, <1>7, TypePartsNext DEF IInv

\* A dial of p to q preserves everything about connections and ids.
LEMMA DialStep ==
    ASSUME IInv, NEW p \in Peers, NEW q \in Peers, p < q, InitiateSession(p, q),
           UNCHANGED <<acceptId, sessions_m, service_sessionid>>
    PROVE  TypeIds' /\ TypeMaps' /\ Apart' /\ \A r \in Peers : PeerInv(r)'
  <1>0. PICK n : n = Len(conn) + 1
    OBVIOUS
  <1>1. TypeRest /\ TypeIds /\ TypeMaps /\ TypeOK
    BY TypeParts DEF IInv
  <1>2. NewConn(p, q) \in Connection
    BY <1>1 DEF NewConn, Connection, TypeIds, FromEnds, ToEnds
  <1>3. conn' = Append(conn, NewConn(p, q))
    BY DEF InitiateSession
  <1>4. /\ conn' \in Seq(Connection)
        /\ Len(conn') = n
        /\ conn'[n] = NewConn(p, q)
        /\ \A d \in 1..Len(conn) : conn'[d] = conn[d]
    BY <1>0, <1>1, <1>2, <1>3, Dialled DEF TypeMaps
  <1>5. Len(conn) \in Nat
    BY <1>1 DEF TypeMaps
  <1>6. TypeIds'
    <2>1. currentSessionID[p] + 1 \in Nat /\ taken[p] + 1 \in Nat
      BY <1>1, ConnectionsAssumption DEF TypeIds, Ids
    <2>2. (currentSessionID[p] + 1) % NumIds \in Ids
      BY <2>1, Wrap
    <2>3. QED
      BY <1>1, <2>1, <2>2 DEF InitiateSession, TakeId, TypeIds
  <1>7. \A x : x \in 1..Len(conn) => x \in 1..Len(conn')
    BY <1>0, <1>4, <1>5
  <1>8. TypeMaps'
    <2>1. sessions_m' \in [Peers -> [Ids -> (1..Len(conn')) \cup {None}]]
      BY <1>1, <1>7 DEF TypeMaps
    <2>2. QED
      BY <1>1, <1>4, <2>1 DEF TypeMaps
  <1>9. /\ NewConn(p, q).from = p /\ NewConn(p, q).to = q
        /\ NewConn(p, q).fromId = currentSessionID[p]
        /\ NewConn(p, q).toEnd = "none"
    BY DEF NewConn
  <1>10. p # q
    BY ConnectionsAssumption
  <1>11. \A c \in 1..Len(conn') : c \in 1..Len(conn) \/ c = n
    BY <1>0, <1>4, <1>5
  <1>12. Apart'
    BY <1>4, <1>9, <1>10, <1>11 DEF Apart, IInv
  <1>13. \A r \in Peers : \A d \in 1..Len(conn) :
             Still(r, d) /\ ServiceName(r, d)' = ServiceName(r, d)
    BY <1>4, SameConn
  <1>14. \A r \in Peers : NamesKept(r)
    BY <1>7, <1>13 DEF NamesKept
  <1>15. PeerInv(p)'
    <2>1. Takes(p)
      BY <1>1 DEF InitiateSession, TakeId, Takes, TypeIds
    <2>2. IdOf(p, n)' = currentSessionID[p]
      BY <1>4, <1>9 DEF IdOf
    <2>3. PeerInv(p) /\ MapsStay(p) /\ acceptId'[p] = acceptId[p]
      BY DEF IInv, MapsStay
    <2>4. QED
      BY <1>0, <1>1, <1>4, <1>13, <1>14, <2>1, <2>2, <2>3, DialPeer
  <1>16. ASSUME NEW r \in Peers, r # p
         PROVE  PeerInv(r)'
    <2>1. ~Holds(r, n)'
      BY <1>4, <1>9, <1>16 DEF Holds, EndOf
    <2>2. taken'[r] = taken[r] /\ currentSessionID'[r] = currentSessionID[r]
      BY <1>1, <1>16 DEF InitiateSession, TakeId, TypeIds
    <2>3. \A c \in 1..Len(conn') : Holds(r, c)' =>
              c \in 1..Len(conn) /\ Holds(r, c) /\ IdOf(r, c)' = IdOf(r, c)
      BY <1>11, <1>13, <2>1, Zenon DEF Still
    <2>4. Quiet(r)
      BY <1>13, <1>14, <2>2, <2>3 DEF Quiet, Still
    <2>5. QED
      BY <1>1, <2>4, QuietPeer DEF IInv
  <1>17. QED
    BY <1>6, <1>8, <1>12, <1>15, <1>16

\* HandleResolvedServices: the address is kept, and the service dialled if it
\* is p that dials.
LEMMA ResolvedStep ==
    ASSUME IInv, NEW p \in Peers, NEW q \in Peers, HandleResolvedServices(p, q)
    PROVE  IInv'
  <1>1. TypeRest /\ TypeIds /\ TypeMaps /\ TypeOK
    BY TypeParts DEF IInv
  <1>2. mail' \in [Peers -> Seq(Reports)]
    BY <1>1, MailTyped DEF HandleResolvedServices
  <1>3. nodesM' \in [Peers -> SUBSET Peers]
    <2>1. nodesM' = nodesM \/ nodesM' = [nodesM EXCEPT ![p] = nodesM[p] \cup {q}]
      BY DEF HandleResolvedServices
    <2>2. [nodesM EXCEPT ![p] = nodesM[p] \cup {q}] \in [Peers -> SUBSET Peers]
      BY <1>1 DEF TypeRest
    <2>3. QED
      BY <1>1, <2>1, <2>2, Zenon DEF TypeRest
  <1>4. TypeRest'
    BY <1>1, <1>2, <1>3 DEF HandleResolvedServices, TypeRest, discovery
  <1>5. UNCHANGED <<acceptId, sessions_m, service_sessionid>>
    BY DEF HandleResolvedServices, manager
  <1>6. \/ UNCHANGED <<conn, currentSessionID, taken>>
        \/ p < q /\ InitiateSession(p, q)
    BY DEF HandleResolvedServices, Dials, ids
  <1>7. CASE UNCHANGED <<conn, currentSessionID, taken>>
    <2>1. TypeIds' /\ TypeMaps' /\ Apart'
      BY <1>1, <1>5, <1>7 DEF TypeIds, TypeMaps, Apart, IInv
    <2>2. \A r \in Peers : PeerInv(r)'
      BY <1>5, <1>7, IdleConns DEF IInv, Idle, MapsStay
    <2>3. QED
      BY <1>4, <2>1, <2>2, TypePartsNext DEF IInv
  <1>8. CASE p < q /\ InitiateSession(p, q)
    <2>1. TypeIds' /\ TypeMaps' /\ Apart' /\ \A r \in Peers : PeerInv(r)'
      BY <1>5, <1>8, DialStep
    <2>2. QED
      BY <1>4, <2>1, TypePartsNext DEF IInv
  <1>9. QED
    BY <1>6, <1>7, <1>8

\* HandleServiceDeregistration: p forgets q.
LEMMA DeregistrationStep ==
    ASSUME IInv, NEW p \in Peers, NEW q \in Peers, HandleServiceDeregistration(p, q)
    PROVE  IInv'
  <1>1. TypeRest /\ TypeIds /\ TypeMaps /\ TypeOK
    BY TypeParts DEF IInv
  <1>2. mail' \in [Peers -> Seq(Reports)]
    BY <1>1, MailTyped DEF HandleServiceDeregistration
  <1>3. serviceV' \in [Peers -> SUBSET Peers] /\ nodesM' \in [Peers -> SUBSET Peers]
    <2>1. /\ serviceV' = [serviceV EXCEPT ![p] = serviceV[p] \ {q}]
          /\ \/ nodesM' = nodesM
             \/ nodesM' = [nodesM EXCEPT ![p] = nodesM[p] \ {q}]
      BY DEF HandleServiceDeregistration
    <2>2. /\ [serviceV EXCEPT ![p] = serviceV[p] \ {q}] \in [Peers -> SUBSET Peers]
          /\ [nodesM EXCEPT ![p] = nodesM[p] \ {q}] \in [Peers -> SUBSET Peers]
      BY <1>1 DEF TypeRest
    <2>3. QED
      BY <1>1, <2>1, <2>2, Zenon DEF TypeRest
  <1>4. TypeRest'
    BY <1>1, <1>2, <1>3 DEF HandleServiceDeregistration, TypeRest, discovery
  <1>5. UNCHANGED <<acceptId, currentSessionID, taken, conn>>
    BY DEF HandleServiceDeregistration, ids
  <1>6. TypeIds' /\ Apart'
    BY <1>1, <1>5 DEF TypeIds, Apart, IInv
  <1>7. CASE UNCHANGED <<sessions_m, service_sessionid>>
    <2>1. TypeMaps'
      BY <1>1, <1>5, <1>7 DEF TypeMaps
    <2>2. \A r \in Peers : PeerInv(r)'
      BY <1>5, <1>7, IdleConns DEF IInv, Idle, MapsStay
    <2>3. QED
      BY <1>4, <1>6, <2>1, <2>2, TypePartsNext DEF IInv
  <1>8. CASE RemoveSession(p, q)
    <2>1. service_sessionid' = [service_sessionid EXCEPT ![p][q] = None]
      BY <1>8 DEF RemoveSession
    <2>2. sessions_m' = IF service_sessionid[p][q] = None THEN sessions_m
                        ELSE [sessions_m EXCEPT ![p][service_sessionid[p][q]] = None]
      BY <1>8 DEF RemoveSession
    <2>3. TypeMaps'
      BY <1>1, <1>5, <2>1, <2>2, SMTT(60) DEF TypeMaps
    <2>4. PeerInv(p)'
      <3>1. service_sessionid'[p] = [service_sessionid[p] EXCEPT ![q] = None]
        BY <1>1, <2>1 DEF TypeMaps
      <3>2. sessions_m'[p] = IF service_sessionid[p][q] = None THEN sessions_m[p]
                             ELSE [sessions_m[p] EXCEPT ![service_sessionid[p][q]] = None]
        BY <1>1, <2>2 DEF TypeMaps
      <3>3. PeerInv(p)
        BY DEF IInv
      <3>4. QED
        BY <1>1, <1>5, <3>1, <3>2, <3>3, RemovePeer
    <2>5. ASSUME NEW r \in Peers, r # p
          PROVE  PeerInv(r)'
      <3>1. MapsStay(r)
        BY ONLY <1>1, <2>1, <2>2, <2>5, p \in Peers, SMTT(60) DEF TypeMaps, MapsStay
      <3>2. QED
        BY <1>1, <1>5, <3>1, IdleConns DEF IInv, Idle
    <2>6. QED
      BY <1>4, <1>6, <2>3, <2>4, <2>5, TypePartsNext DEF IInv
  <1>9. QED
    BY <1>7, <1>8 DEF HandleServiceDeregistration, manager
-----------------------------------------------------------------------------
(* Steps of one connection *)

Open == {"connecting", "UNPREPARED", "ESTABLISHED", "stopped"}

\* The change of connection c to r opens no end, takes none back and closes
\* none that is listed (before the ids wrap).
Harmless(c, r) ==
    /\ r.from = conn[c].from /\ r.to = conn[c].to
    /\ r.fromId = conn[c].fromId /\ r.toId = conn[c].toId
    /\ r.fromEnd \in Open => conn[c].fromEnd \in Open
    /\ r.toEnd \in Open => conn[c].toEnd \in Open
    /\ r.fromEnd = "connecting" => conn[c].fromEnd = "connecting"
    /\ r.toEnd = "UNPREPARED" => conn[c].toEnd = "UNPREPARED"

NoListedCloses(c, r) ==
    /\ ( /\ taken[conn[c].from] <= NumIds
         /\ conn[c].fromEnd \in Open
         /\ Listed(conn[c].from, c) ) => r.fromEnd \in Open
    /\ ( /\ taken[conn[c].to] <= NumIds
         /\ conn[c].toEnd \in Open
         /\ Listed(conn[c].to, c) ) => r.toEnd \in Open

\* A harmless change of a connection is quiet for every idle peer.
LEMMA HarmlessPeer ==
    ASSUME IInv, NEW p \in Peers, Idle(p), NEW c \in 1..Len(conn), NEW r \in Connection,
           conn' = [conn EXCEPT ![c] = r], Harmless(c, r), NoListedCloses(c, r)
    PROVE  PeerInv(p)'
  <1>1. TypeOK /\ PeerInv(p) /\ conn[c].from # conn[c].to /\ conn \in Seq(Connection)
    BY Zenon DEF IInv, Apart, TypeOK
  <1>2. /\ Len(conn') = Len(conn)
        /\ conn'[c] = r
        /\ \A d \in 1..Len(conn) : d # c => conn'[d] = conn[d]
    BY <1>1, Update, ZenonT(60)
  <1>3. ServiceName(p, c)' = ServiceName(p, c)
    BY <1>2, Zenon DEF ServiceName, Harmless
  <1>4. Holds(p, c)' => Holds(p, c) /\ IdOf(p, c)' = IdOf(p, c)
    BY <1>1, <1>2, Zenon DEF Holds, Mine, EndOf, IdOf, Harmless, Open
  <1>5. Awaiting(p, c)' => Awaiting(p, c)
    BY <1>1, <1>2, Zenon DEF Awaiting, Mine, EndOf, Harmless
  <1>6. taken[p] <= NumIds /\ Holds(p, c) /\ Listed(p, c) => Holds(p, c)'
    BY <1>1, <1>2, SMTT(60) DEF Holds, Mine, EndOf, Harmless, NoListedCloses, Open
  <1>7. QED
    BY <1>1, <1>2, <1>3, <1>4, <1>5, <1>6, IdleConn, ZenonT(60)

\* An end that waits for its handler is not listed.
LEMMA AwaitingUnlisted ==
    ASSUME IInv, NEW p \in Peers, taken[p] <= NumIds, NEW c \in 1..Len(conn), Awaiting(p, c)
    PROVE  ~Listed(p, c)
  <1>1. ListedHolds(p)
    BY DEF IInv, PeerInv
  <1>2. c # None
    BY ConnectionsAssumption
  <1>3. QED
    BY <1>1, <1>2 DEF ListedHolds, Listed

\* A connection in the middle of its handshake, as its two peers see it.
LEMMA AwaitingEnds ==
    ASSUME IInv, NEW c \in 1..Len(conn)
    PROVE  /\ conn[c] \in Connection
           /\ conn[c].from \in Peers /\ conn[c].to \in Peers /\ conn[c].from # conn[c].to
           /\ conn[c].fromEnd = "connecting" => Awaiting(conn[c].from, c)
           /\ conn[c].toEnd = "UNPREPARED" => Awaiting(conn[c].to, c)
  <1>1. conn[c] \in Connection /\ conn[c].from # conn[c].to
    BY ConnAt DEF IInv, Apart, TypeOK
  <1>2. conn[c].from \in Peers /\ conn[c].to \in Peers
    BY <1>1 DEF Connection
  <1>3. conn[c].fromEnd = "connecting" => Awaiting(conn[c].from, c)
    BY DEF Awaiting, Mine, EndOf
  <1>4. conn[c].toEnd = "UNPREPARED" => Awaiting(conn[c].to, c)
    BY <1>1 DEF Awaiting, Mine, EndOf
  <1>5. QED
    BY <1>1, <1>2, <1>3, <1>4

\* A step that changes one connection harmlessly, and no map and no id.
LEMMA HarmlessStep ==
    ASSUME IInv, NEW c \in 1..Len(conn), NEW r \in Connection,
           conn' = [conn EXCEPT ![c] = r], Harmless(c, r), NoListedCloses(c, r),
           UNCHANGED <<currentSessionID, taken, acceptId, sessions_m, service_sessionid>>
    PROVE  TypeIds' /\ TypeMaps' /\ Apart' /\ \A p \in Peers : PeerInv(p)'
  <1>1. TypeIds /\ TypeMaps /\ TypeOK /\ Apart
    BY TypeParts DEF IInv
  <1>2. /\ conn' \in Seq(Connection)
        /\ Len(conn') = Len(conn)
        /\ conn'[c] = r
        /\ \A d \in 1..Len(conn) : d # c => conn'[d] = conn[d]
    BY <1>1, Update DEF TypeMaps
  <1>3. TypeIds' /\ TypeMaps'
    BY <1>1, <1>2 DEF TypeIds, TypeMaps
  <1>4. Apart'
    BY <1>1, <1>2 DEF Apart, Harmless
  <1>5. \A p \in Peers : PeerInv(p)'
    BY HarmlessPeer, Zenon DEF Idle, MapsStay
  <1>6. QED
    BY <1>3, <1>4, <1>5

\* The steps that only move one end on, or put a frame on the wire: a connect
\* that arrives or fails, HELLO, CONFIRM, a frame or a chat that stops a reader,
\* and a read error.
LEMMA EndStep ==
    ASSUME IInv, NEW c \in 1..Len(conn),
           \/ Reach(c)
           \/ OnReceiveHelloFrame(c)
           \/ OnReceiveConfirmEstablished(c)
           \/ OnReceiveStandardFrame(c)
           \/ ReadError(c)
           \/ Mishap(c)
    PROVE  IInv'
  <1>1. TypeRest /\ TypeIds /\ TypeMaps /\ TypeOK
    BY TypeParts DEF IInv
  <1>2. /\ conn[c] \in Connection
        /\ conn[c].from \in Peers /\ conn[c].to \in Peers /\ conn[c].from # conn[c].to
        /\ conn[c].fromEnd = "connecting" => Awaiting(conn[c].from, c)
    BY AwaitingEnds
  <1>3. UNCHANGED <<currentSessionID, taken, acceptId, sessions_m, service_sessionid>>
    BY Zenon DEF Reach, OnReceiveHelloFrame, OnReceiveConfirmEstablished,
       OnReceiveStandardFrame, ReadError, Mishap, ConnectError, ConfirmReadAhead, EarlyChat,
       ids, manager
  <1>4. faults' \in 0..MaxFaults
    <2>1. UNCHANGED faults \/ \E k \in FaultKinds : Fault(k)
      BY Zenon DEF Reach, OnReceiveHelloFrame, OnReceiveConfirmEstablished,
         OnReceiveStandardFrame, ReadError, Mishap, ConnectError, ConfirmReadAhead, EarlyChat,
         FaultKinds
    <2> QED
      BY <1>1, <2>1, FaultTyped DEF TypeRest
  <1>5. TypeRest'
    <2>1. UNCHANGED <<discovery, mail, app>>
      BY Zenon DEF Reach, OnReceiveHelloFrame, OnReceiveConfirmEstablished,
         OnReceiveStandardFrame, ReadError, Mishap, ConnectError, ConfirmReadAhead, EarlyChat
    <2> QED
      BY <1>1, <1>4, <2>1 DEF TypeRest, discovery, app
  <1>6. PICK r \in Connection :
            conn' = [conn EXCEPT ![c] = r] /\ Harmless(c, r) /\ NoListedCloses(c, r)
    <2>s. ASSUME conn[c].fromEnd \in Reading, conn' = [conn EXCEPT ![c].fromEnd = "stopped"]
          PROVE  \E r \in Connection :
                     conn' = [conn EXCEPT ![c] = r] /\ Harmless(c, r) /\ NoListedCloses(c, r)
      <3> DEFINE r == [conn[c] EXCEPT !.fromEnd = "stopped"]
      <3>1. r \in Connection /\ conn' = [conn EXCEPT ![c] = r]
        BY <1>2, <2>s DEF Connection, FromEnds
      <3>2. Harmless(c, r) /\ NoListedCloses(c, r)
        BY <1>2, <2>s DEF Reading, Harmless, NoListedCloses, Open, Connection
      <3>3. QED
        BY <3>1, <3>2, Zenon
    <2>t. ASSUME conn[c].toEnd \in Reading, conn' = [conn EXCEPT ![c].toEnd = "stopped"]
          PROVE  \E r \in Connection :
                     conn' = [conn EXCEPT ![c] = r] /\ Harmless(c, r) /\ NoListedCloses(c, r)
      <3> DEFINE r == [conn[c] EXCEPT !.toEnd = "stopped"]
      <3>1. r \in Connection /\ conn' = [conn EXCEPT ![c] = r]
        BY <1>2, <2>t DEF Connection, ToEnds
      <3>2. Harmless(c, r) /\ NoListedCloses(c, r)
        BY <1>2, <2>t DEF Reading, Harmless, NoListedCloses, Open, Connection
      <3>3. QED
        BY <3>1, <3>2, Zenon
    <2>1. CASE Reach(c)
      <3> DEFINE r == [conn[c] EXCEPT !.toEnd = "backlog"]
      <3>1. r \in Connection /\ conn' = [conn EXCEPT ![c] = r]
        BY <1>2, <2>1 DEF Reach, Connection, ToEnds
      <3>2. Harmless(c, r) /\ NoListedCloses(c, r)
        BY <1>2, <2>1 DEF Reach, Harmless, NoListedCloses, Open, Connection
      <3>3. QED
        BY <3>1, <3>2, Zenon
    <2>2. CASE ConnectError(c)
      <3> DEFINE r == [conn[c] EXCEPT !.fromEnd = "closed"]
      <3>1. r \in Connection /\ conn' = [conn EXCEPT ![c] = r]
        BY <1>2, <2>2 DEF ConnectError, Connection, FromEnds
      <3>2. Harmless(c, r)
        BY <1>2, <2>2 DEF ConnectError, Harmless, Open, Connection
      <3>3. taken[conn[c].from] <= NumIds => ~Listed(conn[c].from, c)
        BY <1>2, <2>2, AwaitingUnlisted DEF ConnectError
      <3>4. NoListedCloses(c, r)
        BY <1>2, <3>3 DEF NoListedCloses, Connection
      <3>5. QED
        BY <3>1, <3>2, <3>4, Zenon
    <2>3. CASE OnReceiveHelloFrame(c)
      <3> DEFINE r == [conn[c] EXCEPT !.wire = "HELLOBACK"]
      <3>1. r \in Connection /\ conn' = [conn EXCEPT ![c] = r]
        BY <1>2, <2>3 DEF OnReceiveHelloFrame, Connection
      <3>2. Harmless(c, r) /\ NoListedCloses(c, r)
        BY <1>2 DEF Harmless, NoListedCloses, Connection
      <3>3. QED
        BY <3>1, <3>2, Zenon
    <2>4. CASE OnReceiveConfirmEstablished(c)
      <3> DEFINE r == [conn[c] EXCEPT !.fromEnd = "ESTABLISHED", !.wire = "none"]
      <3>1. r \in Connection /\ conn' = [conn EXCEPT ![c] = r]
        BY <1>2, <2>4 DEF OnReceiveConfirmEstablished, Connection, FromEnds
      <3>2. Harmless(c, r) /\ NoListedCloses(c, r)
        BY <1>2, <2>4
        DEF OnReceiveConfirmEstablished, Harmless, NoListedCloses, Open, Connection
      <3>3. QED
        BY <3>1, <3>2, Zenon
    <2>5. CASE ReadError(c)
      BY <2>5, <2>s, <2>t DEF ReadError
    <2>6. CASE OnReceiveStandardFrame(c)
      <3> DEFINE r == [conn[c] EXCEPT !.toEnd = "stopped", !.wire = "none"]
      <3>1. r \in Connection /\ conn' = [conn EXCEPT ![c] = r]
        BY <1>2, <2>6 DEF OnReceiveStandardFrame, Connection, ToEnds
      <3>2. Harmless(c, r) /\ NoListedCloses(c, r)
        BY <1>2, <2>6 DEF OnReceiveStandardFrame, Harmless, NoListedCloses, Open, Connection
      <3>3. QED
        BY <3>1, <3>2, Zenon
    <2>7. CASE ConfirmReadAhead(c)
      <3> DEFINE r == [conn[c] EXCEPT !.wire = "HELLO"]
      <3>1. r \in Connection /\ conn' = [conn EXCEPT ![c] = r]
        BY <1>2, <2>7 DEF ConfirmReadAhead, Connection
      <3>2. Harmless(c, r) /\ NoListedCloses(c, r)
        BY <1>2 DEF Harmless, NoListedCloses, Connection
      <3>3. QED
        BY <3>1, <3>2, Zenon
    <2>8. CASE EarlyChat(c)
      <3>1. CASE conn[c].toEnd \in Reading /\ conn' = [conn EXCEPT ![c].toEnd = "stopped"]
        BY <2>t, <3>1
      <3>2. CASE /\ conn[c].fromEnd = "UNPREPARED"
                 /\ conn' = [conn EXCEPT ![c].fromEnd = "stopped", ![c].wire = "none"]
        <4> DEFINE r == [conn[c] EXCEPT !.fromEnd = "stopped", !.wire = "none"]
        <4>1. r \in Connection /\ conn' = [conn EXCEPT ![c] = r]
          BY <1>2, <3>2 DEF Connection, FromEnds
        <4>2. Harmless(c, r) /\ NoListedCloses(c, r)
          BY <1>2, <3>2 DEF Harmless, NoListedCloses, Open, Connection
        <4>3. QED
          BY <4>1, <4>2, Zenon
      <3>3. QED
        BY <2>8, <3>1, <3>2 DEF EarlyChat
    <2>9. QED
      BY <2>1, <2>2, <2>3, <2>4, <2>5, <2>6, <2>7, <2>8 DEF Mishap
  <1>7. TypeIds' /\ TypeMaps' /\ Apart' /\ \A p \in Peers : PeerInv(p)'
    BY <1>3, <1>6, HarmlessStep, Zenon
  <1>8. QED
    BY <1>5, <1>7, TypePartsNext DEF IInv

\* An accept error gives up the acceptor's id.
LEMMA AcceptErrorStep ==
    ASSUME IInv, NEW q \in Peers, AcceptError(q)
    PROVE  IInv'
  <1>1. TypeRest /\ TypeIds /\ TypeMaps /\ TypeOK
    BY TypeParts DEF IInv
  <1>2. faults' \in 0..MaxFaults
    BY <1>1, FaultTyped DEF AcceptError
  <1>3. TypeRest'
    BY <1>1, <1>2 DEF AcceptError, TypeRest, discovery, app
  <1>4. /\ UNCHANGED <<currentSessionID, taken, sessions_m, service_sessionid, conn>>
        /\ acceptId' = [acceptId EXCEPT ![q] = None]
    BY DEF AcceptError, ids, manager
  <1>5. TypeIds' /\ TypeMaps' /\ Apart'
    BY <1>1, <1>4 DEF TypeIds, TypeMaps, Apart, IInv
  <1>6. ASSUME NEW p \in Peers
        PROVE  PeerInv(p)'
    <2>1. Idle(p)
      BY <1>1, <1>4 DEF Idle, MapsStay, TypeIds
    <2>2. QED
      BY <1>1, <1>4, <2>1, IdleConns DEF IInv
  <1>7. QED
    BY <1>3, <1>5, <1>6, TypePartsNext DEF IInv

\* A handler of p lists connection c, of which it holds the end.
LEMMA ListStep ==
    ASSUME IInv, NEW c \in 1..Len(conn), NEW r \in Connection,
           conn' = [conn EXCEPT ![c] = r], Harmless(c, r), NoListedCloses(c, r),
           NEW p \in Peers, NEW q \in Peers, NEW i \in Ids \cup {None}, i = IdOf(p, c),
           Awaiting(p, c), ServiceName(p, c) = q, ~IsSessionAlreadyPresent(p, q),
           Holds(p, c)', ~Awaiting(p, c)',
           List(p, i, c, q), UNCHANGED <<currentSessionID, taken, acceptId>>
    PROVE  TypeIds' /\ TypeMaps' /\ Apart' /\ \A s \in Peers : PeerInv(s)'
  <1>1. TypeIds /\ TypeMaps /\ TypeOK /\ Apart /\ PeerInv(p)
    BY TypeParts DEF IInv
  <1>2. /\ conn' \in Seq(Connection)
        /\ Len(conn') = Len(conn)
        /\ conn'[c] = r
        /\ \A d \in 1..Len(conn) : d # c => conn'[d] = conn[d]
    BY <1>1, Update DEF TypeMaps
  <1>3. /\ sessions_m' = [sessions_m EXCEPT ![p][i] = c]
        /\ service_sessionid' = [service_sessionid EXCEPT ![p][q] = i]
    BY DEF List
  <1>4. TypeIds'
    BY <1>1 DEF TypeIds
  <1>5. TypeMaps'
    <2>1. service_sessionid' \in [Peers -> [Peers -> Ids \cup {None}]]
      BY <1>1, <1>3 DEF TypeMaps
    <2>2. [sessions_m[p] EXCEPT ![i] = c] \in [Ids -> (1..Len(conn)) \cup {None}]
      BY <1>1, Zenon DEF TypeMaps
    <2>3. sessions_m' = [sessions_m EXCEPT ![p] = [sessions_m[p] EXCEPT ![i] = c]]
      BY <1>3
    <2>4. sessions_m' \in [Peers -> [Ids -> (1..Len(conn)) \cup {None}]]
      BY <1>1, <2>2, <2>3 DEF TypeMaps
    <2>5. QED
      BY <1>2, <2>1, <2>4 DEF TypeMaps
  <1>6. Apart'
    <2>1. r.from = conn[c].from /\ r.to = conn[c].to
      BY DEF Harmless
    <2>2. \A d \in 1..Len(conn) : conn'[d].from # conn'[d].to
      BY ONLY <1>1, <1>2, <2>1 DEF Apart
    <2>3. QED
      BY ONLY <1>2, <2>2 DEF Apart
  <1>7. \A d \in 1..Len(conn) : d # c =>
            Still(p, d) /\ ServiceName(p, d)' = ServiceName(p, d)
    BY <1>2, SameConn
  <1>8. ServiceName(p, c)' = ServiceName(p, c) /\ IdOf(p, c)' = IdOf(p, c)
    BY <1>2, Zenon DEF ServiceName, IdOf, Harmless
  <1>9. NamesKept(p)
    BY <1>2, <1>7, <1>8 DEF NamesKept
  <1>10. Holds(p, c)
    BY SMTT(60) DEF Awaiting, Holds
  <1>11. /\ sessions_m'[p] = [sessions_m[p] EXCEPT ![IdOf(p, c)] = c]
         /\ service_sessionid'[p] = [service_sessionid[p] EXCEPT ![q] = IdOf(p, c)]
    BY <1>1, <1>3 DEF TypeMaps
  <1>12. PeerInv(p)'
    BY <1>1, <1>2, <1>7, <1>8, <1>9, <1>10, <1>11, ListPeer, Zenon
  <1>13. ASSUME NEW s \in Peers, s # p
         PROVE  PeerInv(s)'
    <2>1. Idle(s)
      BY <1>1, <1>3, <1>13, Zenon DEF Idle, MapsStay, TypeMaps
    <2>2. QED
      BY <2>1, HarmlessPeer, Zenon
  <1>14. QED
    BY <1>4, <1>5, <1>6, <1>12, <1>13

\* ConnectHandler without an error.
LEMMA ConnectHandlerStep ==
    ASSUME IInv, NEW c \in 1..Len(conn), ConnectHandler(c)
    PROVE  IInv'
  <1>1. TypeRest /\ TypeIds /\ TypeMaps /\ TypeOK
    BY TypeParts DEF IInv
  <1>2. /\ conn[c] \in Connection
        /\ conn[c].from \in Peers /\ conn[c].to \in Peers /\ conn[c].from # conn[c].to
        /\ conn[c].fromEnd = "connecting" /\ Awaiting(conn[c].from, c)
    BY AwaitingEnds DEF ConnectHandler
  <1>3. TypeRest'
    BY <1>1 DEF ConnectHandler, TypeRest, discovery, app
  <1>4. UNCHANGED <<currentSessionID, taken, acceptId>>
    BY DEF ConnectHandler, ids
  <1>5. CASE /\ conn' = [conn EXCEPT ![c].fromEnd = "closed"]
             /\ UNCHANGED manager
    <2> DEFINE r == [conn[c] EXCEPT !.fromEnd = "closed"]
    <2>1. r \in Connection /\ conn' = [conn EXCEPT ![c] = r]
      BY <1>2, <1>5 DEF Connection, FromEnds
    <2>2. Harmless(c, r)
      BY <1>2 DEF Harmless, Open, Connection
    <2>3. taken[conn[c].from] <= NumIds => ~Listed(conn[c].from, c)
      BY <1>2, AwaitingUnlisted
    <2>4. NoListedCloses(c, r)
      BY <1>2, <2>3 DEF NoListedCloses, Connection
    <2>5. UNCHANGED <<sessions_m, service_sessionid>>
      BY <1>5 DEF manager
    <2> HIDE DEF r
    <2>6. TypeIds' /\ TypeMaps' /\ Apart' /\ \A p \in Peers : PeerInv(p)'
      BY <1>4, <2>1, <2>2, <2>4, <2>5, HarmlessStep, Zenon
    <2>7. QED
      BY <1>3, <2>6, TypePartsNext DEF IInv
  <1>6. CASE /\ ~IsSessionAlreadyPresent(conn[c].from, conn[c].to)
             /\ conn' = [conn EXCEPT ![c].fromEnd = "UNPREPARED"]
             /\ List(conn[c].from, conn[c].fromId, c, conn[c].to)
    <2>0. PICK p, q, i : p = conn[c].from /\ q = conn[c].to /\ i = conn[c].fromId
      BY Zenon
    <2> DEFINE r == [conn[c] EXCEPT !.fromEnd = "UNPREPARED"]
    <2>1. r \in Connection /\ conn' = [conn EXCEPT ![c] = r]
      BY <1>2, <1>6 DEF Connection, FromEnds
    <2>2. Harmless(c, r) /\ NoListedCloses(c, r)
      BY <1>2, SMTT(60) DEF Harmless, NoListedCloses, Open, Connection
    <2>3. i \in Ids /\ i = IdOf(p, c) /\ ServiceName(p, c) = q
      BY <1>2, <2>0, Zenon DEF Connection, IdOf, ServiceName
    <2>4. conn'[c] = r
      BY <1>1, <2>1, Update DEF TypeMaps
    <2>5. r.from = p /\ r.fromEnd = "UNPREPARED"
      BY <1>2, <2>0 DEF Connection
    <2>6. Holds(p, c)' /\ ~Awaiting(p, c)'
      BY <2>4, <2>5 DEF Holds, Mine, EndOf, Awaiting
    <2>7. p \in Peers /\ q \in Peers /\ Awaiting(p, c) /\ List(p, i, c, q)
          /\ ~IsSessionAlreadyPresent(p, q)
      BY <1>2, <1>6, <2>0
    <2> HIDE DEF r
    <2>8. TypeIds' /\ TypeMaps' /\ Apart' /\ \A s \in Peers : PeerInv(s)'
      BY <1>4, <2>1, <2>2, <2>3, <2>6, <2>7, ListStep, Zenon
    <2>9. QED
      BY <1>3, <2>8, TypePartsNext DEF IInv
  <1>7. QED
    BY <1>5, <1>6 DEF ConnectHandler

\* HELLOBACK: the acceptor lists the connection, or closes a duplicate.
LEMMA HelloBackStep ==
    ASSUME IInv, NEW c \in 1..Len(conn), OnReceiveHelloBackFrame(c)
    PROVE  IInv'
  <1>1. TypeRest /\ TypeIds /\ TypeMaps /\ TypeOK
    BY TypeParts DEF IInv
  <1>2. /\ conn[c] \in Connection
        /\ conn[c].from \in Peers /\ conn[c].to \in Peers /\ conn[c].from # conn[c].to
        /\ conn[c].toEnd = "UNPREPARED" /\ Awaiting(conn[c].to, c)
    BY AwaitingEnds, Zenon DEF OnReceiveHelloBackFrame
  <1>3. TypeRest'
    <2>1. \/ nodesM' = nodesM
          \/ nodesM' = [nodesM EXCEPT ![conn[c].to] = nodesM[conn[c].to] \cup {conn[c].from}]
      BY DEF OnReceiveHelloBackFrame, HandleSessionIdentification
    <2>2. [nodesM EXCEPT ![conn[c].to] = nodesM[conn[c].to] \cup {conn[c].from}]
              \in [Peers -> SUBSET Peers]
      BY <1>1, <1>2, SMTT(60) DEF TypeRest
    <2>3. nodesM' \in [Peers -> SUBSET Peers]
      BY <1>1, <2>1, <2>2 DEF TypeRest
    <2>4. QED
      BY <1>1, <2>3 DEF OnReceiveHelloBackFrame, TypeRest, discovery
  <1>4. UNCHANGED <<currentSessionID, taken, acceptId>>
    BY DEF OnReceiveHelloBackFrame, ids
  <1>5. CASE /\ conn' = [conn EXCEPT ![c].toEnd = "closed", ![c].wire = "none"]
             /\ UNCHANGED manager
    <2> DEFINE r == [conn[c] EXCEPT !.toEnd = "closed", !.wire = "none"]
    <2>1. r \in Connection /\ conn' = [conn EXCEPT ![c] = r]
      BY <1>2, <1>5, Zenon DEF Connection, ToEnds
    <2>2. Harmless(c, r)
      BY <1>2 DEF Harmless, Open, Connection
    <2>3. taken[conn[c].to] <= NumIds => ~Listed(conn[c].to, c)
      BY <1>2, AwaitingUnlisted
    <2>4. NoListedCloses(c, r)
      BY <1>2, <2>3 DEF NoListedCloses, Connection
    <2>5. UNCHANGED <<sessions_m, service_sessionid>>
      BY <1>5 DEF manager
    <2> HIDE DEF r
    <2>6. TypeIds' /\ TypeMaps' /\ Apart' /\ \A p \in Peers : PeerInv(p)'
      BY <1>4, <2>1, <2>2, <2>4, <2>5, HarmlessStep, Zenon
    <2>7. QED
      BY <1>3, <2>6, TypePartsNext DEF IInv
  <1>6. CASE /\ ~IsSessionAlreadyPresent(conn[c].to, conn[c].from)
             /\ conn' = [conn EXCEPT ![c].toEnd = "ESTABLISHED", ![c].wire = "CONFIRM"]
             /\ List(conn[c].to, conn[c].toId, c, conn[c].from)
    <2>0. PICK p, q, i : p = conn[c].to /\ q = conn[c].from /\ i = conn[c].toId
      BY Zenon
    <2> DEFINE r == [conn[c] EXCEPT !.toEnd = "ESTABLISHED", !.wire = "CONFIRM"]
    <2>1. r \in Connection /\ conn' = [conn EXCEPT ![c] = r]
      BY <1>2, <1>6, Zenon DEF Connection, ToEnds
    <2>2. Harmless(c, r) /\ NoListedCloses(c, r)
      BY <1>2 DEF Harmless, NoListedCloses, Open, Connection
    <2>3. i \in Ids \cup {None} /\ i = IdOf(p, c) /\ ServiceName(p, c) = q
      BY <1>2, <2>0 DEF Connection, IdOf, ServiceName
    <2>4. conn'[c] = r
      BY <1>1, <2>1, Update, Zenon DEF TypeMaps
    <2>5. r.from # p /\ r.to = p /\ r.toEnd = "ESTABLISHED"
      BY <1>2, <2>0 DEF Connection
    <2>6. Holds(p, c)' /\ ~Awaiting(p, c)'
      BY <2>4, <2>5 DEF Holds, Mine, EndOf, Awaiting
    <2>7. p \in Peers /\ q \in Peers /\ Awaiting(p, c) /\ List(p, i, c, q)
          /\ ~IsSessionAlreadyPresent(p, q)
      BY <1>2, <1>6, <2>0
    <2> HIDE DEF r
    <2>8. TypeIds' /\ TypeMaps' /\ Apart' /\ \A s \in Peers : PeerInv(s)'
      BY <1>4, <2>1, <2>2, <2>3, <2>6, <2>7, ListStep, Zenon
    <2>9. QED
      BY <1>3, <2>8, TypePartsNext DEF IInv
  <1>7. QED
    BY <1>5, <1>6, SMTT(60) DEF OnReceiveHelloBackFrame, HandleSessionIdentification

\* Accept: the connection takes the acceptor's id.
LEMMA AcceptStep ==
    ASSUME IInv, NEW c \in 1..Len(conn), Accept(c)
    PROVE  IInv'
  <1>1. TypeRest /\ TypeIds /\ TypeMaps /\ TypeOK /\ Apart
    BY TypeParts DEF IInv
  <1>2. /\ conn[c] \in Connection
        /\ conn[c].from \in Peers /\ conn[c].to \in Peers /\ conn[c].from # conn[c].to
    BY AwaitingEnds
  <1>3. PICK p \in Peers : p = conn[c].to
    BY <1>2
  <1>4. /\ conn[c].toEnd = "backlog" /\ acceptId[p] # None
        /\ acceptId' = [acceptId EXCEPT ![p] = currentSessionID[p]]
        /\ TakeId(p)
        /\ UNCHANGED <<sessions_m, service_sessionid>>
    BY <1>3 DEF Accept, manager
  <1>5. TypeRest'
    BY <1>1 DEF Accept, TypeRest, discovery, app
  <1>6. TypeIds'
    <2>1. currentSessionID[p] + 1 \in Nat /\ taken[p] + 1 \in Nat /\ currentSessionID[p] \in Ids
      BY <1>1, ConnectionsAssumption DEF TypeIds, Ids
    <2>2. (currentSessionID[p] + 1) % NumIds \in Ids
      BY <2>1, Wrap
    <2>3. QED
      BY <1>1, <1>4, <2>1, <2>2 DEF TakeId, TypeIds
  <1>7. PICK r \in Connection :
            /\ conn' = [conn EXCEPT ![c] = r]
            /\ r.from = conn[c].from /\ r.to = conn[c].to
            /\ r.fromId = conn[c].fromId /\ r.fromEnd = conn[c].fromEnd
            /\ r.toId = acceptId[p] /\ r.toEnd = "UNPREPARED"
    <2> DEFINE r == [conn[c] EXCEPT !.toEnd = "UNPREPARED", !.toId = acceptId[p],
                                    !.wire = "HELLO"]
    <2>1. acceptId[p] \in Ids \cup {None}
      BY <1>1 DEF TypeIds
    <2>2. r \in Connection
      BY <1>2, <2>1, Zenon DEF Connection, ToEnds
    <2>3. conn' = [conn EXCEPT ![c] = r]
      BY <1>2, <1>3, Zenon DEF Accept, Connection
    <2>4. /\ r.from = conn[c].from /\ r.to = conn[c].to
          /\ r.fromId = conn[c].fromId /\ r.fromEnd = conn[c].fromEnd
          /\ r.toId = acceptId[p] /\ r.toEnd = "UNPREPARED"
      BY <1>2 DEF Connection
    <2>5. QED
      BY <2>2, <2>3, <2>4, Zenon
  <1>8. /\ conn' \in Seq(Connection)
        /\ Len(conn') = Len(conn)
        /\ conn'[c] = r
        /\ \A d \in 1..Len(conn) : d # c => conn'[d] = conn[d]
    BY <1>1, <1>7, Update, SMTT(60) DEF TypeMaps
  <1>9. TypeMaps' /\ Apart'
    BY <1>1, <1>4, <1>7, <1>8, SMTT(60) DEF TypeMaps, Apart
  <1>10. \A s \in Peers : \A d \in 1..Len(conn) : d # c =>
             Still(s, d) /\ ServiceName(s, d)' = ServiceName(s, d)
    BY <1>8, SameConn, Zenon
  <1>11. \A s \in Peers : ServiceName(s, c)' = ServiceName(s, c)
    BY <1>7, <1>8 DEF ServiceName
  <1>12. PeerInv(p)'
    <2>1. NamesKept(p)
      BY <1>8, <1>10, <1>11, SMTT(60) DEF NamesKept
    <2>2. ~Holds(p, c) /\ IdOf(p, c)' = acceptId[p]
      BY <1>2, <1>3, <1>4, <1>7, <1>8, Zenon DEF Holds, EndOf, IdOf
    <2>3. Takes(p) /\ MapsStay(p) /\ acceptId'[p] = currentSessionID[p] /\ PeerInv(p)
      BY <1>1, <1>4 DEF Takes, TakeId, MapsStay, TypeIds, IInv
    <2>4. QED
      BY <1>1, <1>4, <1>8, <1>10, <2>1, <2>2, <2>3, AcceptPeer, Zenon
  <1>13. ASSUME NEW s \in Peers, s # p
         PROVE  PeerInv(s)'
    <2>1. Idle(s) /\ PeerInv(s)
      BY <1>1, <1>4, <1>13 DEF Idle, MapsStay, TakeId, TypeIds, IInv
    <2>2. Holds(s, c)' => Holds(s, c) /\ IdOf(s, c)' = IdOf(s, c)
      BY <1>3, <1>7, <1>8, <1>13, SMTT(60) DEF Holds, Mine, EndOf, IdOf
    <2>3. Awaiting(s, c)' => Awaiting(s, c)
      BY <1>3, <1>7, <1>8, <1>13 DEF Awaiting, Mine, EndOf
    <2>4. Holds(s, c) => Holds(s, c)'
      BY <1>3, <1>7, <1>8, <1>13 DEF Holds, Mine, EndOf
    <2>5. QED
      BY <1>1, <1>8, <1>11, <2>1, <2>2, <2>3, <2>4, IdleConn, Zenon
  <1>14. QED
    BY <1>5, <1>6, <1>9, <1>12, <1>13, TypePartsNext DEF IInv

\* What a restart of p leaves of a connection.
Left(p, d) ==
    [conn[d] EXCEPT !.fromEnd = IF conn[d].from = p THEN "closed" ELSE @,
                    !.toEnd = IF conn[d].to = p /\ @ # "none" THEN "closed" ELSE @]

\* It has the same peers and ids; p's end is closed, the other as it was.
LEMMA LeftFacts ==
    ASSUME NEW p, NEW d, conn[d] \in Connection
    PROVE  /\ Left(p, d) \in Connection
           /\ Left(p, d).from = conn[d].from /\ Left(p, d).to = conn[d].to
           /\ Left(p, d).fromId = conn[d].fromId /\ Left(p, d).toId = conn[d].toId
           /\ Left(p, d).wire = conn[d].wire
           /\ Left(p, d).fromEnd = IF conn[d].from = p THEN "closed" ELSE conn[d].fromEnd
           /\ Left(p, d).toEnd = IF conn[d].to = p /\ conn[d].toEnd # "none"
                                 THEN "closed" ELSE conn[d].toEnd
  BY Zenon DEF Left, Connection, FromEnds, ToEnds

\* A restart of p empties its maps and closes its ends; the other peers' maps
\* and ends stay.
LEMMA RestartStep ==
    ASSUME IInv, NEW p \in Peers, Restart(p)
    PROVE  IInv'
  <1>1. TypeRest /\ TypeIds /\ TypeMaps /\ TypeOK /\ Apart
    BY TypeParts DEF IInv
  <1>2. TypeRest'
    <2>1. faults' \in 0..MaxFaults
      BY <1>1, FaultTyped, Zenon DEF Restart
    <2>2. mail' \in [Peers -> Seq(Reports)]
      <3> DEFINE S == Seq(Reports)
      <3>1. mail \in [Peers -> S] /\ mail' = [mail EXCEPT ![p] = <<>>]
        BY <1>1, Zenon DEF Restart, TypeRest
      <3>2. <<>> \in S
        OBVIOUS
      <3> HIDE DEF S
      <3>3. mail' \in [Peers -> S]
        BY <3>1, <3>2
      <3>4. QED
        BY <3>3 DEF S
    <2>3. QED
      BY <1>1, <2>1, <2>2, Zenon DEF Restart, TypeRest
  <1>3. TypeIds'
    <2>1. 1 % NumIds \in Ids /\ 0 \in Ids
      BY Wrap, ConnectionsAssumption DEF Ids
    <2>2. QED
      BY <1>1, <2>1, Zenon DEF Restart, TypeIds
  <1>4. \A d \in 1..Len(conn) : conn[d] \in Connection
    BY <1>1, ConnAt DEF TypeMaps
  <1>5. conn' = [d \in 1..Len(conn) |-> Left(p, d)]
    BY Zenon DEF Restart, Left
  <1>6. \A d \in 1..Len(conn) : Left(p, d) \in Connection
    BY <1>4, LeftFacts
  <1>7. conn' \in Seq(Connection) /\ Len(conn') = Len(conn)
    <2> DEFINE S == Connection
    <2>1. Len(conn) \in Nat /\ \A d \in 1..Len(conn) : Left(p, d) \in S
      BY <1>1, <1>6 DEF TypeMaps
    <2> HIDE DEF S
    <2>2. conn' \in Seq(S) /\ Len(conn') = Len(conn)
      BY <1>5, <2>1, SMTT(60)
    <2>3. QED
      BY <2>2 DEF S
  <1>8. ASSUME NEW d \in 1..Len(conn)
        PROVE  /\ conn'[d].from = conn[d].from /\ conn'[d].to = conn[d].to
               /\ conn'[d].fromId = conn[d].fromId /\ conn'[d].toId = conn[d].toId
               /\ conn'[d].fromEnd = IF conn[d].from = p THEN "closed" ELSE conn[d].fromEnd
               /\ conn'[d].toEnd = IF conn[d].to = p /\ conn[d].toEnd # "none"
                                   THEN "closed" ELSE conn[d].toEnd
    <2>1. conn'[d] = Left(p, d)
      BY <1>5
    <2>2. conn[d] \in Connection
      BY <1>4
    <2>3. QED
      BY ONLY <2>1, <2>2, p \in Peers, d \in 1..Len(conn), LeftFacts
  <1>9. TypeMaps'
    <2>1. sessions_m' \in [Peers -> [Ids -> (1..Len(conn)) \cup {None}]]
      BY <1>1, Zenon DEF Restart, TypeMaps
    <2>2. service_sessionid' \in [Peers -> [Peers -> Ids \cup {None}]]
      BY <1>1, Zenon DEF Restart, TypeMaps
    <2>3. QED
      BY <1>7, <2>1, <2>2 DEF TypeMaps
  <1>10. Apart'
    BY <1>1, <1>7, <1>8, SMTT(60) DEF Apart
  <1>11. PeerInv(p)'
    <2>1. \A c \in 1..Len(conn') : ~Holds(p, c)'
      BY <1>7, <1>8 DEF Holds, Mine, EndOf
    <2>2. /\ taken'[p] = 1 /\ currentSessionID'[p] = 1 % NumIds /\ acceptId'[p] = 0
          /\ sessions_m'[p] = [i \in Ids |-> None]
          /\ service_sessionid'[p] = [q \in Peers |-> None]
      BY <1>1, Zenon DEF Restart, TypeIds, TypeMaps
    <2>3. QED
      BY <2>1, <2>2, RestartPeer, Zenon
  <1>12. ASSUME NEW r \in Peers, r # p
         PROVE  PeerInv(r)'
    <2>1. Idle(r) /\ PeerInv(r)
      BY <1>1, <1>12, Zenon DEF Restart, Idle, MapsStay, TypeIds, TypeMaps, IInv
    <2>2. \A d \in 1..Len(conn) : ServiceName(r, d)' = ServiceName(r, d)
      BY <1>8, SMTT(60) DEF ServiceName
    <2>3. \A d \in 1..Len(conn) : Holds(r, d)' => Holds(r, d) /\ IdOf(r, d)' = IdOf(r, d)
      BY <1>8, <1>12, Zenon DEF Holds, Mine, EndOf, IdOf
    <2>4. \A d \in 1..Len(conn) : Awaiting(r, d)' => Awaiting(r, d)
      BY <1>8, <1>12, SMTT(60) DEF Awaiting, Mine, EndOf
    <2>5. \A d \in 1..Len(conn) : Holds(r, d) => Holds(r, d)'
      BY <1>8, <1>12, Zenon DEF Holds, Mine, EndOf
    <2>6. Quiet(r)
      BY <1>7, <2>1, <2>2, <2>3, <2>4, <2>5, Zenon DEF Quiet, NamesKept, Idle, MapsStay
    <2>7. QED
      BY <1>1, <2>1, <2>6, QuietPeer
  <1>13. QED
    BY <1>2, <1>3, <1>9, <1>10, <1>11, <1>12, TypePartsNext DEF IInv
-----------------------------------------------------------------------------
(* The theorems *)

\* A process that has started accepting satisfies the invariant.
LEMMA InitInv == Init => IInv
  <1> SUFFICES ASSUME Init
               PROVE  IInv
    OBVIOUS
  <1>1. 1 % NumIds \in Ids /\ (1 < NumIds => 1 % NumIds = 1) /\ 0 \in Ids
    BY Wrap, ConnectionsAssumption DEF Ids
  <1>2. Len(conn) = 0 /\ conn \in Seq(Connection)
    BY DEF Init
  <1>3. TypeRest
    <2>1. mail \in [Peers -> Seq(Reports)]
      BY DEF Init
    <2>2. QED
      BY <2>1, ConnectionsAssumption DEF Init, TypeRest
  <1>4. TypeIds
    BY <1>1 DEF Init, TypeIds
  <1>5. TypeMaps
    BY <1>2 DEF Init, TypeMaps
  <1>6. Apart
    BY <1>2 DEF Apart
  <1>7. ASSUME NEW p \in Peers
        PROVE  PeerInv(p)
    <2>1. Counting(p)
      BY <1>1 DEF Init, Counting
    <2>2. IdsHeld(p)
      BY <1>2 DEF Init, IdsHeld
    <2>3. ListedHolds(p) /\ IndexOf(p)
      BY DEF Init, ListedHolds, IndexOf
    <2>4. QED
      BY <2>1, <2>2, <2>3 DEF PeerInv
  <1>8. QED
    BY <1>3, <1>4, <1>5, <1>6, <1>7, TypeParts DEF IInv

\* Every step of every thread, and every fault, preserves the invariant.
LEMMA NextInv == IInv /\ [Next]_vars => IInv'
  <1> SUFFICES ASSUME IInv, [Next]_vars
               PROVE  IInv'
    OBVIOUS
  <1>1. CASE UNCHANGED vars
    <2>1. /\ UNCHANGED <<seen, resolver, mail, serviceV, nodesM, faults>>
          /\ UNCHANGED <<currentSessionID, taken, acceptId, sessions_m, service_sessionid, conn>>
      BY <1>1, SMTT(60) DEF vars, discovery, app, ids, manager
    <2>2. TypeOK' /\ Apart'
      BY <2>1, Zenon DEF TypeOK, Apart, IInv
    <2>3. \A p \in Peers : PeerInv(p)'
      BY <2>1, IdleConns DEF IInv, Idle, MapsStay
    <2>4. QED
      BY <2>2, <2>3 DEF IInv
  <1>2. ASSUME NEW p \in Peers, Discover(p) \/ Handle(p) \/ AcceptError(p) \/ Restart(p)
        PROVE  IInv'
    BY <1>2, DiscoveryStep, PublishedStep, ResolvedStep, DeregistrationStep,
       AcceptErrorStep, RestartStep DEF Discover, Handle
  <1>3. ASSUME NEW p \in Peers, NEW q \in Peers, Disappear(p, q)
        PROVE  IInv'
    BY <1>3, DiscoveryStep
  <1>4. ASSUME NEW c \in 1..Len(conn), Socket(c) \/ Mishap(c)
        PROVE  IInv'
    BY <1>4, EndStep, ConnectHandlerStep, AcceptStep, HelloBackStep DEF Socket
  <1>5. QED
    BY <1>1, <1>2, <1>3, <1>4 DEF Next

\* The invariant of the connections holds in every state of every run.
THEOREM ConnectionsInvariant == Spec => []IInv
  BY InitInv, NextInv, PTL DEF Spec

\* The maps, the ids and the connections keep their types: no handler leaves
\* the range of SessionID or lists a connection that was never dialled.
THEOREM TypeCorrect == Spec => []TypeOK
  <1>1. IInv => TypeOK
    BY SMTT(60) DEF IInv
  <1>2. QED
    BY <1>1, ConnectionsInvariant, PTL

\* service_sessionid_m is exactly the index of sessions_m until the ids wrap,
\* whatever connects, fails, comes, goes or restarts.
THEOREM IndexExactHolds == Spec => []IndexExact
  <1>1. IInv => IndexExact
    BY Zenon DEF IInv, PeerInv, IndexOf, IndexExact
  <1>2. QED
    BY <1>1, ConnectionsInvariant, PTL

\* A dialler is established, or has its CONFIRM under way, only after the
\* acceptor found the connection to be no duplicate.
THEOREM ConfirmedByAcceptorHolds == Spec => []ConfirmedByAcceptor
  <1> DEFINE Done == {"ESTABLISHED", "stopped", "closed"}
             Good(r) == r.fromEnd = "ESTABLISHED" \/ r.wire = "CONFIRM" => r.toEnd \in Done
  <1>1. Init => ConfirmedByAcceptor
    <2>1. Init => Len(conn) = 0
      BY DEF Init
    <2>2. QED
      BY <2>1 DEF ConfirmedByAcceptor
  <1>2. ASSUME IInv, ConfirmedByAcceptor, [Next]_vars
        PROVE  ConfirmedByAcceptor'
    <2>1. conn \in Seq(Connection) /\ Len(conn) \in Nat
      BY <1>2 DEF IInv, TypeOK
    <2>2. \A c \in 1..Len(conn) : conn[c] \in Connection /\ Good(conn[c])
      BY <1>2, <2>1, ConnAt DEF ConfirmedByAcceptor
    <2>3. SUFFICES \A c \in 1..Len(conn') : Good(conn'[c])
      BY DEF ConfirmedByAcceptor
    <2>4. CASE conn' = conn
      BY <2>2, <2>4
    <2>5. ASSUME NEW c \in 1..Len(conn), NEW r \in Connection,
                 conn' = [conn EXCEPT ![c] = r], Good(r)
          PROVE  \A d \in 1..Len(conn') : Good(conn'[d])
      <3>1. /\ Len(conn') = Len(conn)
            /\ conn'[c] = r
            /\ \A d \in 1..Len(conn) : d # c => conn'[d] = conn[d]
        BY <2>1, <2>5, Update
      <3> HIDE DEF Good
      <3>2. QED
        BY <2>2, <2>5, <3>1
    <2>6. ASSUME NEW p \in Peers, NEW q \in Peers, InitiateSession(p, q)
          PROVE  \A d \in 1..Len(conn') : Good(conn'[d])
      <3>1. NewConn(p, q) \in Connection /\ Good(NewConn(p, q))
        BY <1>2, Zenon DEF NewConn, Connection, IInv, TypeOK, FromEnds, ToEnds
      <3>2. /\ Len(conn') = Len(conn) + 1
            /\ conn'[Len(conn) + 1] = NewConn(p, q)
            /\ \A d \in 1..Len(conn) : conn'[d] = conn[d]
        BY <2>1, <2>6, <3>1, Dialled DEF InitiateSession
      <3> HIDE DEF Good
      <3>3. \A d \in 1..Len(conn') : d \in 1..Len(conn) \/ d = Len(conn) + 1
        BY <2>1, <3>2
      <3>4. QED
        BY <2>2, <3>1, <3>2, <3>3, SMTT(60)
    <2>7. ASSUME NEW p \in Peers, Discover(p) \/ Handle(p) \/ AcceptError(p)
          PROVE  \A c \in 1..Len(conn') : Good(conn'[c])
      <3>1. conn' = conn \/ \E q \in Peers : InitiateSession(p, q)
        BY <2>7, Zenon DEF Discover, Handle, AcceptError, Appear, Resolve,
           HandlePublishedServices,
                    HandleResolvedServices, HandleServiceDeregistration
      <3> HIDE DEF Good
      <3>2. QED
        BY <2>4, <2>6, <3>1, SMTT(60)
    <2>8. ASSUME NEW p \in Peers, Restart(p)
          PROVE  \A c \in 1..Len(conn') : Good(conn'[c])
      <3>0. conn' = [d \in 1..Len(conn) |-> Left(p, d)]
        BY <2>8, Zenon DEF Restart, Left
      <3>1. /\ Len(conn') = Len(conn)
            /\ \A d \in 1..Len(conn) : conn'[d] = Left(p, d)
        BY <2>1, <3>0, SMTT(60)
      <3>2. ASSUME NEW d \in 1..Len(conn)
            PROVE  Good(Left(p, d))
        BY <2>2, LeftFacts
      <3> HIDE DEF Good
      <3>3. QED
        BY <3>1, <3>2
    <2>9. ASSUME NEW c \in 1..Len(conn), Socket(c) \/ Mishap(c)
          PROVE  \A d \in 1..Len(conn') : Good(conn'[d])
      <3>1. conn[c] \in Connection /\ Good(conn[c])
        BY <2>2, SMTT(60)
      <3>2. PICK r \in Connection : conn' = [conn EXCEPT ![c] = r] /\ Good(r)
        <4>s. ASSUME \/ conn' = [conn EXCEPT ![c].fromEnd = "stopped"]
                     \/ conn' = [conn EXCEPT ![c].toEnd = "stopped"]
              PROVE  \E r \in Connection : conn' = [conn EXCEPT ![c] = r] /\ Good(r)
          <5>1. LET r == [conn[c] EXCEPT !.fromEnd = "stopped"]
                IN  r \in Connection /\ Good(r)
            BY <3>1 DEF Connection, FromEnds
          <5>2. LET r == [conn[c] EXCEPT !.toEnd = "stopped"]
                IN  r \in Connection /\ Good(r)
            BY <3>1 DEF Connection, ToEnds
          <5>3. QED
            BY <4>s, <5>1, <5>2, Zenon
        <4>1. CASE Reach(c)
          <5>1. LET r == [conn[c] EXCEPT !.toEnd = "backlog"]
                IN  r \in Connection /\ conn' = [conn EXCEPT ![c] = r] /\ Good(r)
            BY <3>1, <4>1 DEF Reach, Connection, ToEnds
          <5>2. QED
            BY <5>1, Zenon
        <4>2. CASE ConnectError(c)
          <5>1. LET r == [conn[c] EXCEPT !.fromEnd = "closed"]
                IN  r \in Connection /\ conn' = [conn EXCEPT ![c] = r] /\ Good(r)
            BY <3>1, <4>2 DEF ConnectError, Connection, FromEnds
          <5>2. QED
            BY <5>1, Zenon
        <4>3. CASE ConnectHandler(c)
          <5>1. PICK e \in {"closed", "UNPREPARED"} : conn' = [conn EXCEPT ![c].fromEnd = e]
            BY <4>3 DEF ConnectHandler
          <5>2. LET r == [conn[c] EXCEPT !.fromEnd = e]
                IN  r \in Connection /\ conn' = [conn EXCEPT ![c] = r] /\ Good(r)
            BY <3>1, <5>1 DEF Connection, FromEnds
          <5>3. QED
            BY <5>2, Zenon
        <4>4. CASE Accept(c)
          <5>1. acceptId[conn[c].to] \in Ids \cup {None}
            BY <1>2, <3>1, Zenon DEF IInv, TypeOK, Connection
          <5>2. LET r == [conn[c] EXCEPT !.toEnd = "UNPREPARED",
                                         !.toId = acceptId[conn[c].to], !.wire = "HELLO"]
                IN  r \in Connection /\ conn' = [conn EXCEPT ![c] = r] /\ Good(r)
            BY <3>1, <4>4, <5>1, Zenon DEF Accept, Connection, ToEnds
          <5>3. QED
            BY <5>2, Zenon
        <4>5. CASE OnReceiveHelloFrame(c)
          <5>1. LET r == [conn[c] EXCEPT !.wire = "HELLOBACK"]
                IN  r \in Connection /\ conn' = [conn EXCEPT ![c] = r] /\ Good(r)
            BY <3>1, <4>5 DEF OnReceiveHelloFrame, Connection
          <5>2. QED
            BY <5>1, Zenon
        <4>6. CASE OnReceiveHelloBackFrame(c)
          <5>1. PICK e \in {"ESTABLISHED", "closed"}, w \in {"CONFIRM", "none"} :
                    conn' = [conn EXCEPT ![c].toEnd = e, ![c].wire = w]
            BY <4>6 DEF OnReceiveHelloBackFrame, HandleSessionIdentification
          <5>2. LET r == [conn[c] EXCEPT !.toEnd = e, !.wire = w]
                IN  r \in Connection /\ conn' = [conn EXCEPT ![c] = r] /\ Good(r)
            BY <3>1, <5>1, Zenon DEF Connection, ToEnds
          <5>3. QED
            BY <5>2, Zenon
        <4>7. CASE OnReceiveConfirmEstablished(c)
          <5>1. LET r == [conn[c] EXCEPT !.fromEnd = "ESTABLISHED", !.wire = "none"]
                IN  r \in Connection /\ conn' = [conn EXCEPT ![c] = r] /\ Good(r)
            BY <3>1, <4>7 DEF OnReceiveConfirmEstablished, Connection, FromEnds
          <5>2. QED
            BY <5>1, Zenon
        <4>8. CASE ReadError(c)
          BY <4>8, <4>s, Zenon DEF ReadError
        <4>9. CASE OnReceiveStandardFrame(c)
          <5>1. LET r == [conn[c] EXCEPT !.toEnd = "stopped", !.wire = "none"]
                IN  r \in Connection /\ conn' = [conn EXCEPT ![c] = r] /\ Good(r)
            BY <3>1, <4>9 DEF OnReceiveStandardFrame, Connection, ToEnds
          <5>2. QED
            BY <5>1, Zenon
        <4>10. CASE ConfirmReadAhead(c)
          <5>1. LET r == [conn[c] EXCEPT !.wire = "HELLO"]
                IN  r \in Connection /\ conn' = [conn EXCEPT ![c] = r] /\ Good(r)
            BY <3>1, <4>10 DEF ConfirmReadAhead, Connection
          <5>2. QED
            BY <5>1, Zenon
        <4>11. CASE EarlyChat(c)
          <5>1. LET r == [conn[c] EXCEPT !.fromEnd = "stopped", !.wire = "none"]
                IN  r \in Connection /\ Good(r)
            BY <3>1 DEF Connection, FromEnds
          <5>2. CASE conn' = [conn EXCEPT ![c].fromEnd = "stopped", ![c].wire = "none"]
            BY <5>1, <5>2, Zenon
          <5>3. QED
            BY <4>11, <4>s, <5>2, Zenon DEF EarlyChat
        <4>12. QED
          BY <2>9, <4>1, <4>2, <4>3, <4>4, <4>5, <4>6, <4>7, <4>8, <4>9, <4>10, <4>11
          DEF Socket, Mishap
      <3> HIDE DEF Good
      <3>3. QED
        BY <2>5, <3>2, Zenon
    <2>10. ASSUME NEW p \in Peers, NEW q \in Peers, Disappear(p, q)
           PROVE  conn' = conn
      BY <2>10 DEF Disappear
    <2> HIDE DEF Good
    <2>11. UNCHANGED vars => conn' = conn
      BY DEF vars
    <2>12. QED
      BY <1>2, <2>4, <2>7, <2>8, <2>9, <2>10, <2>11, SMTT(60) DEF Next
  <1>3. QED
    BY <1>1, <1>2, ConnectionsInvariant, PTL DEF Spec
-----------------------------------------------------------------------------
(* One connection for two peers *)

\* While nothing goes wrong no service is taken back, and the smaller name has
\* dialled a service at most once: its address is known from then on.
DialledOnce ==
    /\ \A p \in Peers : \A n \in 1..Len(mail[p]) : mail[p][n].type # "DEREGISTERED"
    /\ \A c \in 1..Len(conn) : conn[c].from < conn[c].to /\ conn[c].to \in nodesM[conn[c].from]
    /\ \A c, d \in 1..Len(conn) : conn[c].from = conn[d].from /\ conn[c].to = conn[d].to => c = d

Undisturbed == faults = 0 => DialledOnce

\* The handlers of a socket leave the names of the two ends alone, and only add
\* to the nodes a peer knows.
LEMMA SocketKeeps ==
    ASSUME TypeOK, NEW c \in 1..Len(conn), Socket(c) \/ Mishap(c)
    PROVE  /\ Len(conn') = Len(conn)
           /\ \A d \in 1..Len(conn) : conn'[d].from = conn[d].from /\ conn'[d].to = conn[d].to
           /\ UNCHANGED mail
           /\ \A p \in Peers : nodesM[p] \subseteq nodesM'[p]
  <1>1. conn \in Seq(Connection) /\ conn[c] \in Connection
    BY ConnAt DEF TypeOK
  <1>2. ASSUME NEW r, conn' = [conn EXCEPT ![c] = r], r.from = conn[c].from, r.to = conn[c].to
        PROVE  /\ Len(conn') = Len(conn)
               /\ \A d \in 1..Len(conn) : conn'[d].from = conn[d].from /\ conn'[d].to = conn[d].to
    <2> PICK S : S = Connection \cup {r}
      BY Zenon
    <2>1. conn \in Seq(S)
      BY <1>1
    <2>2. Len(conn') = Len(conn) /\ conn'[c] = r /\ \A d \in 1..Len(conn) : d # c => conn'[d] = conn[d]
      BY ONLY <1>2, <2>1, c \in 1..Len(conn)
    <2> QED
      BY ONLY <1>2, <2>2
  <1>3. PICK r : conn' = [conn EXCEPT ![c] = r] /\ r.from = conn[c].from /\ r.to = conn[c].to
    <2>s. ASSUME \/ conn' = [conn EXCEPT ![c].fromEnd = "stopped"]
                 \/ conn' = [conn EXCEPT ![c].toEnd = "stopped"]
          PROVE  \E r : conn' = [conn EXCEPT ![c] = r] /\ r.from = conn[c].from /\ r.to = conn[c].to
      <3>1. CASE conn' = [conn EXCEPT ![c].fromEnd = "stopped"]
        <4> WITNESS [conn[c] EXCEPT !.fromEnd = "stopped"]
        <4> QED
          BY <1>1, <3>1 DEF Connection
      <3>2. CASE conn' = [conn EXCEPT ![c].toEnd = "stopped"]
        <4> WITNESS [conn[c] EXCEPT !.toEnd = "stopped"]
        <4> QED
          BY <1>1, <3>2 DEF Connection
      <3> QED
        BY <2>s, <3>1, <3>2
    <2>1. CASE Reach(c)
      <3> WITNESS [conn[c] EXCEPT !.toEnd = "backlog"]
      <3> QED
        BY <1>1, <2>1 DEF Reach, Connection
    <2>2. CASE ConnectError(c)
      <3> WITNESS [conn[c] EXCEPT !.fromEnd = "closed"]
      <3> QED
        BY <1>1, <2>2 DEF ConnectError, Connection
    <2>3. ASSUME ConnectHandler(c)
          PROVE  \E r : conn' = [conn EXCEPT ![c] = r] /\ r.from = conn[c].from /\ r.to = conn[c].to
      <3>1. PICK e : conn' = [conn EXCEPT ![c].fromEnd = e]
        BY <2>3 DEF ConnectHandler
      <3> WITNESS [conn[c] EXCEPT !.fromEnd = e]
      <3> QED
        BY <1>1, <3>1 DEF Connection
    <2>4. CASE Accept(c)
      <3> WITNESS [conn[c] EXCEPT !.toEnd = "UNPREPARED", !.toId = acceptId[conn[c].to],
                                  !.wire = "HELLO"]
      <3> QED
        BY <1>1, <2>4, Zenon DEF Accept, Connection
    <2>5. CASE OnReceiveHelloFrame(c)
      <3> WITNESS [conn[c] EXCEPT !.wire = "HELLOBACK"]
      <3> QED
        BY <1>1, <2>5 DEF OnReceiveHelloFrame, Connection
    <2>6. ASSUME OnReceiveHelloBackFrame(c)
          PROVE  \E r : conn' = [conn EXCEPT ![c] = r] /\ r.from = conn[c].from /\ r.to = conn[c].to
      <3>1. PICK e, w : conn' = [conn EXCEPT ![c].toEnd = e, ![c].wire = w]
        BY <2>6, Zenon DEF OnReceiveHelloBackFrame, HandleSessionIdentification
      <3> WITNESS [conn[c] EXCEPT !.toEnd = e, !.wire = w]
      <3> QED
        BY <1>1, <3>1, Zenon DEF Connection
    <2>7. CASE OnReceiveConfirmEstablished(c)
      <3> WITNESS [conn[c] EXCEPT !.fromEnd = "ESTABLISHED", !.wire = "none"]
      <3> QED
        BY <1>1, <2>7 DEF OnReceiveConfirmEstablished, Connection
    <2>8. ASSUME ReadError(c)
          PROVE  \E r : conn' = [conn EXCEPT ![c] = r] /\ r.from = conn[c].from /\ r.to = conn[c].to
      BY <2>8, <2>s, Zenon DEF ReadError
    <2>9. CASE OnReceiveStandardFrame(c)
      <3> WITNESS [conn[c] EXCEPT !.toEnd = "stopped", !.wire = "none"]
      <3> QED
        BY <1>1, <2>9 DEF OnReceiveStandardFrame, Connection
    <2>10. CASE ConfirmReadAhead(c)
      <3> WITNESS [conn[c] EXCEPT !.wire = "HELLO"]
      <3> QED
        BY <1>1, <2>10 DEF ConfirmReadAhead, Connection
    <2>11. ASSUME EarlyChat(c)
           PROVE  \E r : conn' = [conn EXCEPT ![c] = r] /\ r.from = conn[c].from /\ r.to = conn[c].to
      <3>1. CASE conn' = [conn EXCEPT ![c].fromEnd = "stopped", ![c].wire = "none"]
        <4> WITNESS [conn[c] EXCEPT !.fromEnd = "stopped", !.wire = "none"]
        <4> QED
          BY <1>1, <3>1 DEF Connection
      <3> QED
        BY <2>11, <2>s, <3>1, Zenon DEF EarlyChat
    <2> QED
      BY <2>1, <2>2, <2>3, <2>4, <2>5, <2>6, <2>7, <2>8, <2>9, <2>10, <2>11, Zenon
      DEF Socket, Mishap
  <1>4. UNCHANGED mail
    BY Zenon DEF Socket, Reach, ConnectHandler, Accept, OnReceiveHelloFrame,
       OnReceiveHelloBackFrame, OnReceiveConfirmEstablished, OnReceiveStandardFrame, ReadError,
       Mishap, ConnectError, ConfirmReadAhead, EarlyChat
  <1>5. \/ nodesM' = nodesM
        \/ nodesM' = [nodesM EXCEPT ![conn[c].to] = nodesM[conn[c].to] \cup {conn[c].from}]
    BY Zenon DEF Socket, Reach, ConnectHandler, Accept, OnReceiveHelloFrame, app,
       OnReceiveHelloBackFrame, OnReceiveConfirmEstablished, OnReceiveStandardFrame, ReadError,
       HandleSessionIdentification, Mishap, ConnectError, ConfirmReadAhead, EarlyChat
  <1>6. \A p \in Peers : nodesM[p] \subseteq nodesM'[p]
    <2>1. nodesM \in [Peers -> SUBSET Peers]
      BY DEF TypeOK
    <2> QED
      BY ONLY <1>5, <2>1
  <1> QED
    BY <1>2, <1>3, <1>4, <1>6, Zenon

\* A step that keeps the connections, adds no withdrawal and forgets no node.
LEMMA DialledKept ==
    ASSUME TypeOK, DialledOnce, Len(conn') = Len(conn),
           \A d \in 1..Len(conn) : conn'[d].from = conn[d].from /\ conn'[d].to = conn[d].to,
           \A p \in Peers : nodesM[p] \subseteq nodesM'[p],
           \A p \in Peers : \A n \in 1..Len(mail'[p]) : mail'[p][n].type # "DEREGISTERED"
    PROVE  DialledOnce'
  <1>1. \A c \in 1..Len(conn) : conn[c].from \in Peers
    BY ConnAt, Zenon DEF TypeOK, Connection
  <1> QED
    BY <1>1, Zenon DEF DialledOnce

\* A report is added behind the others, or the first one is taken.
LEMMA MailKept ==
    ASSUME TypeOK, DialledOnce, NEW p \in Peers,
           \/ \E type \in {"PUBLISHED", "RESOLVED"}, q \in Peers : Report(p, type, q)
           \/ mail[p] # <<>> /\ mail' = [mail EXCEPT ![p] = Tail(mail[p])]
    PROVE  \A r \in Peers : \A n \in 1..Len(mail'[r]) : mail'[r][n].type # "DEREGISTERED"
  <1>1. mail \in [Peers -> Seq(Reports)]
    BY DEF TypeOK
  <1>2. PICK b \in Seq(Reports) : b = mail[p]
    BY <1>1
  <1>3. \A n \in 1..Len(b) : b[n].type # "DEREGISTERED"
    BY <1>2, Zenon DEF DialledOnce
  <1>4. SUFFICES \A n \in 1..Len(mail'[p]) : mail'[p][n].type # "DEREGISTERED"
    <2>1. \A r \in Peers : r # p => mail'[r] = mail[r]
      BY <1>1, Zenon DEF Report
    <2> QED
      BY <1>4, <2>1, ZenonT(60) DEF DialledOnce
  <1>5. ASSUME NEW type \in {"PUBLISHED", "RESOLVED"}, NEW q \in Peers, Report(p, type, q)
        PROVE  \A n \in 1..Len(mail'[p]) : mail'[p][n].type # "DEREGISTERED"
    <2>1. PICK r : r = [type |-> type, peer |-> q]
      BY Zenon
    <2>2. mail'[p] = Append(b, r) /\ r \in Reports /\ r.type # "DEREGISTERED"
      BY <1>1, <1>2, <1>5, <2>1 DEF Report, Reports
    <2>3. \A n \in 1..Len(mail'[p]) : (n \in 1..Len(b) /\ mail'[p][n] = b[n]) \/ mail'[p][n] = r
      BY ONLY <2>2, b \in Seq(Reports)
    <2> QED
      BY <1>3, <2>2, <2>3
  <1>6. ASSUME mail[p] # <<>>, mail' = [mail EXCEPT ![p] = Tail(mail[p])]
        PROVE  \A n \in 1..Len(mail'[p]) : mail'[p][n].type # "DEREGISTERED"
    <2>1. mail'[p] = Tail(b) /\ b # <<>>
      BY <1>1, <1>2, <1>6
    <2>2. \A n \in 1..Len(mail'[p]) : n + 1 \in 1..Len(b) /\ mail'[p][n] = b[n + 1]
      BY ONLY <2>1, b \in Seq(Reports)
    <2> QED
      BY <1>3, <2>2, Zenon
  <1> QED
    BY <1>5, <1>6

\* The peer with the smaller name dials a service whose address it did not have.
LEMMA DialOnce ==
    ASSUME TypeOK, DialledOnce, NEW p \in Peers, NEW q \in Peers, p < q,
           q \notin nodesM[p], nodesM' = [nodesM EXCEPT ![p] = nodesM[p] \cup {q}],
           InitiateSession(p, q),
           \A r \in Peers : \A n \in 1..Len(mail'[r]) : mail'[r][n].type # "DEREGISTERED"
    PROVE  DialledOnce'
  <1>1. conn \in Seq(Connection) /\ Len(conn) \in Nat /\ nodesM \in [Peers -> SUBSET Peers]
    BY DEF TypeOK
  <1>2. NewConn(p, q) \in Connection /\ NewConn(p, q).from = p /\ NewConn(p, q).to = q
    BY Zenon DEF NewConn, Connection, TypeOK, FromEnds, ToEnds
  <1> PICK n : n = Len(conn) + 1
    OBVIOUS
  <1>3. /\ Len(conn') = n /\ conn'[n] = NewConn(p, q)
        /\ \A d \in 1..Len(conn) : conn'[d] = conn[d]
    BY <1>1, <1>2, Dialled, Zenon DEF InitiateSession
  <1>4. \A d \in 1..Len(conn') : d \in 1..Len(conn) \/ d = n
    BY ONLY <1>1, <1>3, n = Len(conn) + 1, SMTT(60)
  <1>5. \A d \in 1..Len(conn) : ~ (conn[d].from = p /\ conn[d].to = q)
    BY Zenon DEF DialledOnce
  <1>6. \A d \in 1..Len(conn) : conn[d].from \in Peers
    BY <1>1, ConnAt DEF Connection
  <1>7. \A r \in Peers : nodesM[r] \subseteq nodesM'[r]
    BY ONLY <1>1, nodesM' = [nodesM EXCEPT ![p] = nodesM[p] \cup {q}]
  <1>8. q \in nodesM'[p]
    BY <1>1
  <1>9. ASSUME NEW c \in 1..Len(conn')
        PROVE  conn'[c].from < conn'[c].to /\ conn'[c].to \in nodesM'[conn'[c].from]
    <2>1. CASE c = n
      BY <1>2, <1>3, <1>8, <2>1, SMTT(60)
    <2>2. CASE c \in 1..Len(conn)
      BY <1>3, <1>6, <1>7, <2>2, SMTT(60) DEF DialledOnce
    <2> QED
      BY <1>4, <2>1, <2>2
  <1>10. \A c, d \in 1..Len(conn') :
            conn'[c].from = conn'[d].from /\ conn'[c].to = conn'[d].to => c = d
    <2>1. \A c, d \in 1..Len(conn) : conn[c].from = conn[d].from /\ conn[c].to = conn[d].to => c = d
      BY DEF DialledOnce
    <2> QED
      BY ONLY <1>2, <1>3, <1>4, <1>5, <2>1, SMTT(60)
  <1> QED
    BY <1>9, <1>10, Zenon DEF DialledOnce

\* Until something goes wrong two peers have one connection, however many
\* peers there are and whoever discovers whom first.
THEOREM OneConnectionHolds == Spec => []OneConnection
  <1>1. Init => Undisturbed
    <2> SUFFICES ASSUME Init PROVE DialledOnce
      BY Zenon DEF Undisturbed
    <2>1. Len(conn) = 0 /\ \A p \in Peers : mail[p] = <<>>
      BY DEF Init
    <2>2. 1..Len(conn) = {} /\ \A p \in Peers : 1..Len(mail[p]) = {}
      BY ONLY <2>1
    <2> QED
      BY ONLY <2>2, Zenon DEF DialledOnce
  <1>2. ASSUME IInv, Undisturbed, [Next]_vars PROVE Undisturbed'
    <2> SUFFICES ASSUME faults' = 0 PROVE DialledOnce'
      BY DEF Undisturbed
    <2>t. TypeOK /\ faults \in 0..MaxFaults
      BY <1>2 DEF IInv, TypeOK
    <2>f. ASSUME NEW k, Fault(k) PROVE FALSE
      <3>1. faults' = faults + 1
        BY <2>f DEF Fault
      <3> QED
        BY ONLY <2>t, <3>1, faults' = 0, ConnectionsAssumption
    <2>1. CASE UNCHANGED vars
      <3>1. UNCHANGED <<mail, nodesM, conn, faults>>
        BY <2>1, SMTT(60) DEF vars, app
      <3> QED
        BY <1>2, <3>1, Zenon DEF Undisturbed, DialledOnce
    <2>2. ASSUME NEW p \in Peers, NEW q \in Peers, Appear(p, q) \/ Resolve(p, q) PROVE DialledOnce'
      <3>1. /\ Report(p, "PUBLISHED", q) \/ Report(p, "RESOLVED", q)
            /\ UNCHANGED <<nodesM, conn, faults>>
        BY <2>2 DEF Appear, Resolve, app
      <3>2. DialledOnce
        BY <1>2, <3>1 DEF Undisturbed
      <3> QED
        BY <2>t, <3>1, <3>2, MailKept, DialledKept, Zenon
    <2>3. ASSUME NEW p \in Peers, NEW q \in Peers, HandlePublishedServices(p, q) PROVE DialledOnce'
      <3>1. /\ mail[p] # <<>> /\ mail' = [mail EXCEPT ![p] = Tail(mail[p])]
            /\ UNCHANGED <<nodesM, conn, faults>>
        BY <2>3 DEF HandlePublishedServices, Receive
      <3>2. DialledOnce
        BY <1>2, <3>1, SMTT(60) DEF Undisturbed
      <3> QED
        BY <2>t, <3>1, <3>2, MailKept, DialledKept, Zenon
    <2>4. ASSUME NEW p \in Peers, NEW q \in Peers, HandleResolvedServices(p, q) PROVE DialledOnce'
      <3>1. /\ mail[p] # <<>> /\ mail' = [mail EXCEPT ![p] = Tail(mail[p])] /\ UNCHANGED faults
        BY <2>4 DEF HandleResolvedServices, Receive
      <3>2. DialledOnce
        BY <1>2, <3>1 DEF Undisturbed
      <3>3. \A r \in Peers : \A n \in 1..Len(mail'[r]) : mail'[r][n].type # "DEREGISTERED"
        BY <2>t, <3>1, <3>2, MailKept, Zenon
      <3>4. CASE q \in nodesM[p] /\ UNCHANGED <<nodesM, conn>>
        BY <2>t, <3>2, <3>3, <3>4, DialledKept, SMTT(60)
      <3>5. CASE /\ q \notin nodesM[p] /\ nodesM' = [nodesM EXCEPT ![p] = nodesM[p] \cup {q}]
                 /\ UNCHANGED conn
        <4>1. \A r \in Peers : nodesM[r] \subseteq nodesM'[r]
          BY <2>t, <3>5 DEF TypeOK
        <4> QED
          BY <2>t, <3>2, <3>3, <3>5, <4>1, DialledKept
      <3>6. CASE /\ q \notin nodesM[p] /\ nodesM' = [nodesM EXCEPT ![p] = nodesM[p] \cup {q}]
                 /\ p < q /\ InitiateSession(p, q)
        BY <2>t, <3>2, <3>3, <3>6, DialOnce, Zenon
      <3> QED
        BY <2>4, <3>4, <3>5, <3>6 DEF HandleResolvedServices, Dials
    <2>5. ASSUME NEW p \in Peers, NEW q \in Peers, HandleServiceDeregistration(p, q) PROVE FALSE
      <3>1. /\ mail[p] # <<>> /\ Head(mail[p]) = [type |-> "DEREGISTERED", peer |-> q]
            /\ UNCHANGED faults
        BY <2>5 DEF HandleServiceDeregistration, Receive
      <3>2. DialledOnce
        BY <1>2, <3>1 DEF Undisturbed
      <3>3. PICK b \in Seq(Reports) : b = mail[p]
        BY <2>t DEF TypeOK
      <3>4. 1 \in 1..Len(b) /\ b[1] = [type |-> "DEREGISTERED", peer |-> q]
        BY ONLY <3>1, <3>3
      <3> QED
        BY <3>2, <3>3, <3>4 DEF DialledOnce
    <2>6. ASSUME NEW c \in 1..Len(conn), Socket(c) PROVE DialledOnce'
      <3>1. UNCHANGED faults
        BY <2>6 DEF Socket, Reach, ConnectHandler, Accept, OnReceiveHelloFrame,
           OnReceiveHelloBackFrame, OnReceiveConfirmEstablished, OnReceiveStandardFrame, ReadError
      <3>2. DialledOnce
        BY <1>2, <3>1 DEF Undisturbed
      <3>3. \A p \in Peers : \A n \in 1..Len(mail'[p]) : mail'[p][n].type # "DEREGISTERED"
        BY <2>t, <2>6, <3>2, SocketKeeps DEF DialledOnce
      <3> QED
        BY <2>t, <2>6, <3>2, <3>3, SocketKeeps, DialledKept
    <2>7. ASSUME \/ \E p \in Peers : AcceptError(p) \/ Restart(p)
                 \/ \E p, q \in Peers : Disappear(p, q)
                 \/ \E c \in 1..Len(conn) : Mishap(c)
          PROVE  FALSE
      BY <2>f, <2>7, Zenon DEF AcceptError, Restart, Disappear, Mishap, ConnectError,
         ConfirmReadAhead, EarlyChat
    <2> QED
      BY <1>2, <2>1, <2>2, <2>3, <2>4, <2>5, <2>6, <2>7, Zenon DEF Next, Discover, Handle
  <1>3. ASSUME IInv, Undisturbed PROVE OneConnection
    <2> SUFFICES ASSUME faults = 0, NEW c \in 1..Len(conn), NEW d \in 1..Len(conn),
                        {conn[c].from, conn[c].to} = {conn[d].from, conn[d].to}
                 PROVE  c = d
      BY Zenon DEF OneConnection
    <2>1. /\ conn[c].from \in Nat /\ conn[c].to \in Nat /\ conn[d].from \in Nat /\ conn[d].to \in Nat
      BY <1>3, ConnAt, ConnectionsAssumption, Zenon DEF IInv, TypeOK, Connection
    <2>2. conn[c].from < conn[c].to /\ conn[d].from < conn[d].to
      BY <1>3 DEF Undisturbed, DialledOnce
    <2>3. conn[c].from = conn[d].from /\ conn[c].to = conn[d].to
      <3>1. /\ conn[c].from = conn[d].from \/ conn[c].from = conn[d].to
            /\ conn[c].to = conn[d].from \/ conn[c].to = conn[d].to
        BY ONLY {conn[c].from, conn[c].to} = {conn[d].from, conn[d].to}, Zenon
      <3> QED
        BY ONLY <2>1, <2>2, <3>1
    <2> QED
      BY <1>3, <2>3 DEF Undisturbed, DialledOnce
  <1> QED
    BY <1>1, <1>2, <1>3, ConnectionsInvariant, PTL DEF Spec
==============================================================================
