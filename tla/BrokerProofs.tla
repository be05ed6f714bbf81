---------------------------- MODULE BrokerProofs ----------------------------
(***************************************************************************)
(* For any number of components, ids, events and messages: the broker's    *)
(* registry is right, each component is given exactly what it asked for,   *)
(* in order, and no handler misses a payload.                              *)
(***************************************************************************)
EXTENDS Broker, TLAPS, FiniteSetTheorems, WellFoundedInduction

\* What is queued or handled is a message that was sent.
MessagesExist ==
    /\ \A i \in 1..Len(inMailBox) : inMailBox[i] \in DOMAIN sent
    /\ \A c \in Components : \A i \in 1..Len(inbox[c]) : inbox[c][i] \in DOMAIN sent

\* A component that is not attached wants nothing.
NothingWantedUnattached == \A c \in Components : id[c] = None => wants[c] = {}

RInv == TypeOK /\ MessagesExist /\ IdsAreUnique /\ NothingWantedUnattached /\ SubscriptionsAreExact
               /\ AttachFailsOnlyWhenFull

\* The set of offsets CycleCurrentSubscriberId would stop at has a smallest one.
LEMMA SmallestTry ==
    ASSUME NEW T \in SUBSET (1..NumIds), T # {}
    PROVE  (CHOOSE k \in T : \A j \in T : k <= j) \in T
  <1>1. NumIds \in Nat /\ T \subseteq Nat
    BY BrokerAssumption
  <1>2. PICK k \in T : \A j \in T : ~(<<j, k>> \in OpToRel(<, Nat))
    BY <1>1, NatLessThanWellFounded, WFMin, Zenon
  <1>3. ASSUME NEW j \in T, j < k PROVE <<j, k>> \in OpToRel(<, Nat)
    BY <1>1, <1>3 DEF OpToRel
  <1>4. ASSUME NEW j \in T PROVE k <= j
    <2>1. ~(j < k)
      BY <1>2, <1>3, Zenon
    <2> QED
      BY ONLY <1>1, <2>1
  <1> QED
    BY <1>4, Zenon

\* CycleCurrentSubscriberId ends on a free id, or back where it started when
\* there is none.
LEMMA CycledIdFree ==
    ASSUME NEW m, NEW start \in Ids
    PROVE  /\ CycledId(m, start) \in Ids
           /\ m[CycledId(m, start)] = None \/
                 /\ CycledId(m, start) = start
                 /\ \A s \in Ids : m[s] # None
  <1> DEFINE tries == {k \in 1..NumIds : m[(start + k) % NumIds] = None}
  <1>0. NumIds \in Nat \ {0} /\ start \in Nat /\ start < NumIds
    BY BrokerAssumption DEF Ids
  <1>1. CASE tries = {}
    <2>1. CycledId(m, start) = start
      BY <1>1 DEF CycledId
    <2>2. ASSUME NEW s \in Ids PROVE m[s] # None
      <3>1. s \in Nat /\ s < NumIds
        BY <1>0 DEF Ids
      <3>2. CASE s > start
        <4>1. s - start \in 1..NumIds /\ (start + (s - start)) % NumIds = s
          BY <1>0, <3>1, <3>2
        <4> QED
          BY <4>1, <1>1
      <3>3. CASE s <= start
        <4>1. s + NumIds - start \in 1..NumIds
          BY <1>0, <3>1, <3>3
        <4>2. (start + (s + NumIds - start)) % NumIds = s
          BY <1>0, <3>1, <3>3
        <4> QED
          BY <4>1, <4>2, <1>1
      <3> QED
        BY <1>0, <3>1, <3>2, <3>3
    <2> QED
      BY <2>1, <2>2
  <1>2. CASE tries # {}
    <2> DEFINE k == CHOOSE k \in tries : \A j \in tries : k <= j
    <2>1. k \in tries
      BY <1>2, SmallestTry, Zenon
    <2>2. CycledId(m, start) = (start + k) % NumIds
      BY <1>2 DEF CycledId
    <2>3. (start + k) % NumIds \in Ids
      <3>1. k \in Nat
        BY <2>1, <1>0
      <3> HIDE DEF k
      <3> QED
        BY <1>0, <3>1 DEF Ids
    <2> QED
      BY <2>1, <2>2, <2>3, Zenon
  <1> QED
    BY <1>1, <1>2

\* AttachId is a free id unless the broker is full.
LEMMA AttachIdFree ==
    ASSUME current \in Ids
    PROVE  /\ AttachId \in Ids
           /\ mailbox[AttachId] # None => \A s \in Ids : mailbox[s] # None
  BY CycledIdFree DEF AttachId

\* Route's pushes of one message to one mailbox.
LEMMA CopiesAreSeq ==
    ASSUME NEW S, NEW x \in S, NEW n \in Nat
    PROVE  [i \in 1..n |-> x] \in Seq(S)
  OBVIOUS

\* The broker as constructed, with nobody attached.
LEMMA InitRInv == Init => RInv
  <1> SUFFICES ASSUME Init PROVE RInv
    OBVIOUS
  <1> USE BrokerAssumption DEF Init
  <1>1. RegistryTypeOK
    BY DEF RegistryTypeOK, Ids
  <1>2. TrafficTypeOK /\ SleepTypeOK
    BY DEF TrafficTypeOK, SleepTypeOK
  <1>3. IdsAreUnique /\ NothingWantedUnattached /\ SubscriptionsAreExact
    BY DEF IdsAreUnique, NothingWantedUnattached, SubscriptionsAreExact
  <1>4. MessagesExist
    BY SMTT(60) DEF MessagesExist
  <1> QED
    BY <1>1, <1>2, <1>3, <1>4 DEF RInv, TypeOK, AttachFailsOnlyWhenFull

\* A wait that returns by itself, and the end of the discovery's worker, change
\* neither the registry nor the messages.
LEMMA StirChangesNothing ==
    ASSUME Stir \/ UNCHANGED vars
    PROVE  UNCHANGED <<registry, traffic, phase>>
  BY DEF Stir, BrowserReturns, WakeSpuriously, vars

\* Only the threads there are can be asleep over a push.
LEMMA StepSleepTypeOK == SleepTypeOK /\ [Next]_vars => SleepTypeOK'
  <1> SUFFICES ASSUME SleepTypeOK, [Next]_vars PROVE SleepTypeOK'
    OBVIOUS
  <1> USE DEF SleepTypeOK
  <1>1. CASE UNCHANGED sleep
    BY <1>1 DEF sleep
  <1>2. ASSUME NEW T \in SUBSET (Components \cup {None}), Notify(T), UNCHANGED browser
        PROVE  SleepTypeOK'
    BY <1>2 DEF Notify
  <1>3. ASSUME NEW c \in Components, NEW e \in Events,
               SendMessage(c, e) \/ PutMessageIntoAppMailbox(c, e)
        PROVE  SleepTypeOK'
    BY <1>2, <1>3 DEF SendMessage, PutMessageIntoAppMailbox
  <1>4. CASE Run
    <2> DEFINE T == {c \in Components : Pushes(sent[Head(inMailBox)].event, c) > 0}
    <2>1. Notify(T) /\ UNCHANGED browser
      BY <1>4 DEF Run
    <2>2. T \in SUBSET (Components \cup {None})
      OBVIOUS
    <2> QED
      BY <1>2, <2>1, <2>2, Zenon
  <1>5. CASE Launch
    BY <1>5 DEF Launch
  <1>6. CASE Stir
    BY <1>6 DEF Stir, BrowserReturns, WakeSpuriously
  <1>7. CASE \/ \E c \in Components : Attach(c) \/ ListenToMail(c)
             \/ \E s \in Ids : Detach(s)
             \/ \E s \in Ids, E \in SUBSET Events : Subscribe(s, E) \/ Unsubscribe(s, E)
             \/ Join
             \/ UNCHANGED vars
    <2>1. UNCHANGED sleep
      BY <1>7, Zenon DEF Attach, ListenToMail, Detach, Subscribe, Unsubscribe, Join, vars
    <2> QED
      BY <1>1, <2>1
  <1> QED
    BY <1>3, <1>4, <1>5, <1>6, <1>7, Zenon DEF Next

\* Attach, Detach, Subscribe and Unsubscribe keep the registry's types; the
\* threads do not touch it.
LEMMA StepRegistryTypeOK == RegistryTypeOK /\ [Next]_vars => RegistryTypeOK'
  <1> SUFFICES ASSUME RegistryTypeOK, [Next]_vars PROVE RegistryTypeOK'
    OBVIOUS
  <1> USE BrokerAssumption DEF RegistryTypeOK
  <1>1. ASSUME NEW c \in Components, Attach(c) PROVE RegistryTypeOK'
    <2>1. AttachId \in Ids /\ CycledId(mailbox', AttachId) \in Ids
      BY AttachIdFree, CycledIdFree
    <2>2. (registered + 1) % NumIds \in Ids
      BY DEF Ids
    <2>3. CASE mailbox[AttachId] # None
      BY <1>1, <2>1, <2>3 DEF Attach
    <2>4. CASE mailbox[AttachId] = None
      <3>1. mailbox' = [mailbox EXCEPT ![AttachId] = c] /\ id' = [id EXCEPT ![c] = AttachId]
        BY <1>1, <2>4 DEF Attach
      <3>2. mailbox' \in [Ids -> Components \cup {None}] /\ id' \in [Components -> Ids \cup {None}]
        BY ONLY <2>1, <3>1, RegistryTypeOK, c \in Components DEF RegistryTypeOK
      <3>3. registered' \in Ids /\ current' \in Ids /\ status' \in {"OK", "MAX_COMPONENTS", "FATAL_ERROR"}
        BY <1>1, <2>1, <2>2, <2>4 DEF Attach
      <3>4. UNCHANGED <<subs, wants, phase>>
        BY <1>1, <2>4 DEF Attach
      <3> QED
        BY ONLY <3>2, <3>3, <3>4, RegistryTypeOK DEF RegistryTypeOK
    <2> QED
      BY <2>3, <2>4
  <1>2. ASSUME NEW s \in Ids, Detach(s) PROVE RegistryTypeOK'
    <2>1. (registered + NumIds - 1) % NumIds \in Ids
      BY DEF Ids
    <2>2. CASE mailbox[s] = None
      BY <1>2, <2>2 DEF Detach
    <2>3. CASE mailbox[s] # None
      <3>1. mailbox[s] \in Components
        BY <2>3
      <3>2. mailbox' \in [Ids -> Components \cup {None}] /\ id' \in [Components -> Ids \cup {None}]
        BY <1>2, <2>3, <3>1, Zenon DEF Detach
      <3>3. subs' \in [Events -> [Ids -> Nat]]
        BY <1>2, <2>3 DEF Detach
      <3>4. wants' \in [Components -> SUBSET Events]
        BY <1>2, <2>3, <3>1 DEF Detach
      <3> QED
        BY <1>2, <2>1, <2>3, <3>2, <3>3, <3>4 DEF Detach
    <2> QED
      BY <2>2, <2>3
  <1>3. ASSUME NEW s \in Ids, NEW E \in SUBSET Events, Subscribe(s, E) PROVE RegistryTypeOK'
    <2>1. CASE mailbox[s] = None
      BY <1>3, <2>1 DEF Subscribe
    <2>2. CASE mailbox[s] # None
      <3>1. mailbox[s] \in Components
        BY <2>2
      <3>2. subs' \in [Events -> [Ids -> Nat]]
        BY <1>3, <2>2 DEF Subscribe
      <3>3. wants' \in [Components -> SUBSET Events]
        BY <1>3, <2>2, <3>1 DEF Subscribe
      <3> QED
        BY <1>3, <2>2, <3>2, <3>3 DEF Subscribe
    <2> QED
      BY <2>1, <2>2
  <1>4. ASSUME NEW s \in Ids, NEW E \in SUBSET Events, Unsubscribe(s, E) PROVE RegistryTypeOK'
    <2>1. subs' \in [Events -> [Ids -> Nat]]
      BY <1>4 DEF Unsubscribe
    <2>2. wants' \in [Components -> SUBSET Events]
      BY <1>4 DEF Unsubscribe
    <2> QED
      BY <1>4, <2>1, <2>2 DEF Unsubscribe
  <1>5. CASE Launch
    BY <1>5 DEF Launch, registry
  <1>6. ASSUME NEW c \in Components, NEW e \in Events,
               SendMessage(c, e) \/ PutMessageIntoAppMailbox(c, e)
        PROVE  RegistryTypeOK'
    BY <1>6, SMTT(60) DEF SendMessage, PutMessageIntoAppMailbox, registry
  <1>7. ASSUME Run \/ (\E c \in Components : ListenToMail(c)) \/ Join
        PROVE  RegistryTypeOK'
    BY <1>7, Zenon DEF Run, ListenToMail, Join, registry
  <1>8. CASE Stir \/ UNCHANGED vars
    BY <1>8, StirChangesNothing DEF registry
  <1> QED
    BY <1>1, <1>2, <1>3, <1>4, <1>5, <1>6, <1>7, <1>8, SMTT(60) DEF Next

\* SendMessage, Run and ListenToMail keep the types of the queues and messages.
LEMMA StepTrafficTypeOK == TypeOK /\ MessagesExist /\ [Next]_vars => TrafficTypeOK'
  <1> SUFFICES ASSUME TypeOK, MessagesExist, [Next]_vars PROVE TrafficTypeOK'
    OBVIOUS
  <1> USE BrokerAssumption DEF TypeOK, TrafficTypeOK
  <1>1. ASSUME NEW c \in Components, Attach(c) PROVE TrafficTypeOK'
    <2>1. inbox' = inbox \/ inbox' = [inbox EXCEPT ![c] = <<>>]
      BY <1>1 DEF Attach, traffic
    <2>2. <<>> \in Seq(MessageIds)
      OBVIOUS
    <2>3. inbox' \in [Components -> Seq(MessageIds)]
      BY <2>1, <2>2, Zenon
    <2> QED
      BY <1>1, <2>3 DEF Attach, traffic
  <1>2. ASSUME NEW s \in Ids, Detach(s) PROVE TrafficTypeOK'
    BY <1>2 DEF Detach, traffic
  <1>3. ASSUME NEW s \in Ids, NEW E \in SUBSET Events, Subscribe(s, E) \/ Unsubscribe(s, E)
        PROVE  TrafficTypeOK'
    BY <1>3 DEF Subscribe, Unsubscribe, traffic
  <1>4. CASE Launch
    BY <1>4 DEF Launch, Attached
  <1>5. ASSUME NEW c \in Components, NEW e \in Events, SendMessage(c, e) PROVE TrafficTypeOK'
    <2>1. NewMessage(e, "broker") \in Messages /\ Len(sent) + 1 \in MessageIds
      BY DEF NewMessage, Messages, MessageIds
    <2> QED
      BY <1>5, <2>1 DEF SendMessage
  <1>6. ASSUME NEW c \in Components, NEW e \in Events, PutMessageIntoAppMailbox(c, e)
        PROVE  TrafficTypeOK'
    <2>1. NewMessage(e, "session") \in Messages /\ Len(sent) + 1 \in MessageIds
      BY DEF NewMessage, Messages, MessageIds
    <2> QED
      BY <1>6, <2>1 DEF PutMessageIntoAppMailbox
  <1>7. CASE Run
    <2>1. Head(inMailBox) \in MessageIds /\ Tail(inMailBox) \in Seq(MessageIds)
      BY <1>7 DEF Run
    <2>2. ASSUME NEW c \in Components PROVE Pushes(sent[Head(inMailBox)].event, c) \in Nat
      <3>1. sent[Head(inMailBox)] \in Messages
        BY <1>7 DEF Run, MessagesExist
      <3>2. sent[Head(inMailBox)].event \in Events
        BY <3>1 DEF Messages
      <3> QED
        BY <3>2 DEF Pushes, RegistryTypeOK
    <2> DEFINE copies(c) == [i \in 1..Pushes(sent[Head(inMailBox)].event, c) |-> Head(inMailBox)]
    <2>3. ASSUME NEW c \in Components PROVE copies(c) \in Seq(MessageIds)
      BY <2>1, <2>2, CopiesAreSeq, Zenon
    <2> HIDE DEF copies
    <2>4. \A c \in Components : inbox[c] \o copies(c) \in Seq(MessageIds)
      BY <2>3
    <2>5. inbox' = [c \in Components |-> inbox[c] \o copies(c)]
      BY <1>7 DEF Run, Route, copies
    <2>6. Head(inMailBox) \in Nat
      BY <2>1 DEF MessageIds
    <2>7. inbox' \in [Components -> Seq(MessageIds)]
      BY <2>4, <2>5
    <2> QED
      BY <1>7, <2>1, <2>6, <2>7 DEF Run
  <1>8. ASSUME NEW c \in Components, ListenToMail(c) PROVE TrafficTypeOK'
    <2> DEFINE m == Head(inbox[c])
    <2>1. m \in MessageIds /\ Tail(inbox[c]) \in Seq(MessageIds)
      BY <1>8 DEF ListenToMail
    <2>2. sent' \in Seq(Messages)
      <3>1. m \in DOMAIN sent /\ sent[m] \in Messages
        <4>1. inbox[c] \in Seq(MessageIds) /\ inbox[c] # <<>> /\ sent \in Seq(Messages)
          BY <1>8 DEF ListenToMail
        <4>2. 1 \in 1..Len(inbox[c]) /\ m = inbox[c][1]
          BY ONLY <4>1
        <4>3. m \in DOMAIN sent
          BY <4>2 DEF MessagesExist
        <4> QED
          BY ONLY <4>1, <4>3
      <3>2. [sent[m] EXCEPT !.data = "null"] \in Messages
        BY <3>1, Zenon DEF Messages
      <3>3. sent' = [sent EXCEPT ![m] = [sent[m] EXCEPT !.data = "null"]]
        BY <1>8, <3>1 DEF ListenToMail
      <3> QED
        BY <3>1, <3>2, <3>3, SMTT(60)
    <2> QED
      BY <1>8, <2>1, <2>2, SMTT(60) DEF ListenToMail
  <1>9. CASE Join
    BY <1>9 DEF Join, traffic
  <1>10. CASE Stir \/ UNCHANGED vars
    BY <1>10, StirChangesNothing, SMTT(60) DEF traffic
  <1> QED
    BY <1>1, <1>2, <1>3, <1>4, <1>5, <1>6, <1>7, <1>8, <1>9, <1>10 DEF Next

\* Every message in a queue was sent before.
LEMMA StepMessagesExist == TypeOK /\ MessagesExist /\ [Next]_vars => MessagesExist'
  <1> SUFFICES ASSUME TypeOK, MessagesExist, [Next]_vars PROVE MessagesExist'
    OBVIOUS
  <1> USE DEF TypeOK, TrafficTypeOK, MessagesExist
  <1>1. ASSUME NEW c \in Components, Attach(c) PROVE MessagesExist'
    <2>1. inbox' = inbox \/ inbox' = [inbox EXCEPT ![c] = <<>>]
      BY <1>1 DEF Attach, traffic
    <2>2. UNCHANGED <<sent, inMailBox>>
      BY <1>1 DEF Attach, traffic
    <2>3. Len(<<>>) = 0
      OBVIOUS
    <2> QED
      BY <2>1, <2>2, <2>3, SMTT(60)
  <1>2. ASSUME NEW s \in Ids, Detach(s) PROVE MessagesExist'
    BY <1>2 DEF Detach, traffic
  <1>3. ASSUME NEW s \in Ids, NEW E \in SUBSET Events, Subscribe(s, E) \/ Unsubscribe(s, E)
        PROVE  MessagesExist'
    BY <1>3 DEF Subscribe, Unsubscribe, traffic
  <1>4. ASSUME Launch \/ Join PROVE MessagesExist'
    BY <1>4 DEF Launch, Join, traffic
  <1>5. ASSUME NEW c \in Components, NEW e \in Events, SendMessage(c, e) PROVE MessagesExist'
    BY <1>5, SMTT(60) DEF SendMessage
  <1>6. ASSUME NEW c \in Components, NEW e \in Events, PutMessageIntoAppMailbox(c, e)
        PROVE  MessagesExist'
    <2>1. /\ sent' = Append(sent, NewMessage(e, "session"))
          /\ inbox' = [inbox EXCEPT ![c] = Append(inbox[c], Len(sent) + 1)]
          /\ inMailBox' = inMailBox
          /\ sent \in Seq(Messages) /\ inbox \in [Components -> Seq(MessageIds)]
      BY <1>6 DEF PutMessageIntoAppMailbox
    <2>2. DOMAIN sent \subseteq DOMAIN sent' /\ Len(sent) + 1 \in DOMAIN sent'
      BY ONLY <2>1
    <2>3. ASSUME NEW d \in Components, NEW i \in 1..Len(inbox'[d])
          PROVE  inbox'[d][i] \in DOMAIN sent'
      <3>1. CASE d = c /\ i = Len(inbox[c]) + 1
        BY ONLY <2>1, <2>2, <3>1, c \in Components
      <3>2. CASE ~(d = c /\ i = Len(inbox[c]) + 1)
        <4>1. i \in 1..Len(inbox[d]) /\ inbox'[d][i] = inbox[d][i]
          BY ONLY <2>1, <3>2, c \in Components, d \in Components, i \in 1..Len(inbox'[d])
        <4> QED
          BY <2>2, <4>1
      <3> QED
        BY <3>1, <3>2
    <2> QED
      BY <2>1, <2>2, <2>3, Zenon
  <1>7. CASE Run
    <2> DEFINE n(c) == Pushes(sent[Head(inMailBox)].event, c)
    <2>1. Head(inMailBox) \in DOMAIN sent /\ sent[Head(inMailBox)] \in Messages
      BY <1>7 DEF Run
    <2>2. \A c \in Components : n(c) \in Nat
      BY <2>1, ZenonT(60) DEF Pushes, RegistryTypeOK, Messages
    <2>3. \A c \in Components : inbox'[c] = inbox[c] \o [i \in 1..n(c) |-> Head(inMailBox)]
      BY <1>7, Zenon DEF Run, Route
    <2> HIDE DEF n
    <2>4. ASSUME NEW c \in Components, NEW i \in 1..Len(inbox'[c])
          PROVE  inbox'[c][i] \in DOMAIN sent
      <3> DEFINE copies == [j \in 1..n(c) |-> Head(inMailBox)]
      <3>1. copies \in Seq(DOMAIN sent) /\ Len(copies) = n(c)
        BY <2>1, <2>2, CopiesAreSeq
      <3>2. \A j \in 1..Len(copies) : copies[j] \in DOMAIN sent
        BY <2>1, <3>1, Zenon
      <3> HIDE DEF copies
      <3>3. inbox'[c] = inbox[c] \o copies
        BY <2>3, Zenon DEF copies
      <3>4. CASE i <= Len(inbox[c])
        BY <3>1, <3>3, <3>4
      <3>5. CASE i > Len(inbox[c])
        <4>1. i - Len(inbox[c]) \in 1..Len(copies) /\ inbox'[c][i] = copies[i - Len(inbox[c])]
          BY <3>1, <3>3, <3>5
        <4> QED
          BY <3>2, <4>1
      <3> QED
        BY <3>1, <3>3, <3>4, <3>5
    <2> QED
      BY <1>7, <2>4 DEF Run
  <1>8. ASSUME NEW c \in Components, ListenToMail(c) PROVE MessagesExist'
    <2>1. DOMAIN sent' = DOMAIN sent /\ UNCHANGED inMailBox
      BY <1>8 DEF ListenToMail
    <2>2. inbox' = [inbox EXCEPT ![c] = Tail(inbox[c])] /\ inbox[c] # <<>>
      BY <1>8 DEF ListenToMail
    <2>3. \A d \in Components : \A i \in 1..Len(inbox'[d]) : inbox'[d][i] \in DOMAIN sent
      BY <2>2
    <2> QED
      BY <2>1, <2>3
  <1>9. CASE Stir \/ UNCHANGED vars
    BY <1>9, StirChangesNothing DEF traffic
  <1> QED
    BY <1>1, <1>2, <1>3, <1>4, <1>5, <1>6, <1>7, <1>8, <1>9 DEF Next

\* A step either leaves the registry alone or is a registry operation.
LEMMA RegistrySteps ==
    ASSUME [Next]_vars
    PROVE  \/ \E c \in Components : Attach(c)
           \/ \E s \in Ids : Detach(s)
           \/ \E s \in Ids, E \in SUBSET Events : Subscribe(s, E) \/ Unsubscribe(s, E)
           \/ UNCHANGED <<mailbox, subs, registered, current, status, id, wants>>
  BY StirChangesNothing, Zenon DEF Next, registry, Launch, SendMessage,
     PutMessageIntoAppMailbox, Run, ListenToMail, Join

\* Attach gives a free id and Detach takes back the id of one component.
LEMMA StepIds == RInv /\ [Next]_vars => IdsAreUnique' /\ NothingWantedUnattached'
  <1> SUFFICES ASSUME RInv, [Next]_vars PROVE IdsAreUnique' /\ NothingWantedUnattached'
    OBVIOUS
  <1> USE BrokerAssumption DEF RInv, TypeOK, RegistryTypeOK, IdsAreUnique, NothingWantedUnattached
  <1>0. \A s \in Ids : s # None
    BY DEF Ids
  <1>1. ASSUME NEW c \in Components, Attach(c)
        PROVE  IdsAreUnique' /\ NothingWantedUnattached'
    <2>1. AttachId \in Ids
      BY AttachIdFree
    <2>2. CASE mailbox[AttachId] # None
      BY <1>1, <2>2, SMTT(60) DEF Attach
    <2>3. CASE mailbox[AttachId] = None
      <3>1. /\ mailbox' = [mailbox EXCEPT ![AttachId] = c]
            /\ id' = [id EXCEPT ![c] = AttachId]
            /\ id[c] = None
            /\ wants' = wants
        BY <1>1, <2>3 DEF Attach
      <3> HIDE DEF AttachId
      <3>2. IdsAreUnique'
        <4>1. \A d \in Components : id'[d] # None => mailbox'[id'[d]] = d
          BY <2>1, <2>3, <3>1
        <4>2. \A s \in Ids : mailbox'[s] # None => id'[mailbox'[s]] = s
          BY <1>0, <2>1, <2>3, <3>1
        <4> QED
          BY <4>1, <4>2
      <3>3. NothingWantedUnattached'
        BY <1>0, <2>1, <3>1, SMTT(60)
      <3> QED
        BY <3>2, <3>3, Zenon
    <2> QED
      BY <2>2, <2>3
  <1>2. ASSUME NEW s \in Ids, Detach(s) PROVE IdsAreUnique' /\ NothingWantedUnattached'
    <2>1. CASE mailbox[s] = None
      BY <1>2, <2>1 DEF Detach
    <2>2. CASE mailbox[s] # None
      <3>1. /\ mailbox' = [mailbox EXCEPT ![s] = None]
            /\ id' = [id EXCEPT ![mailbox[s]] = None]
            /\ wants' = [wants EXCEPT ![mailbox[s]] = {}]
            /\ mailbox[s] \in Components
        BY <1>2, <2>2, SMTT(60) DEF Detach
      <3>2. IdsAreUnique'
        <4>1. \A d \in Components : id'[d] # None => mailbox'[id'[d]] = d
          BY <3>1
        <4>2. \A t \in Ids : mailbox'[t] # None => id'[mailbox'[t]] = t
          BY <3>1
        <4> QED
          BY <4>1, <4>2, SMTT(60)
      <3>3. NothingWantedUnattached'
        BY <3>1
      <3> QED
        BY <3>2, <3>3, SMTT(60)
    <2> QED
      BY <2>1, <2>2, SMTT(60)
  <1>3. ASSUME NEW s \in Ids, NEW E \in SUBSET Events, Subscribe(s, E) \/ Unsubscribe(s, E)
        PROVE  IdsAreUnique' /\ NothingWantedUnattached'
    BY <1>0, <1>3, SMTT(60) DEF Subscribe, Unsubscribe
  <1> QED
    BY <1>1, <1>2, <1>3, RegistrySteps

\* Subscribe adds an id once, Unsubscribe and Detach remove it altogether, and
\* Attach finds the vectors clean of the id it hands out.
LEMMA StepSubscriptions == RInv /\ [Next]_vars => SubscriptionsAreExact'
  <1> SUFFICES ASSUME RInv, [Next]_vars PROVE SubscriptionsAreExact'
    OBVIOUS
  <1> USE BrokerAssumption DEF RInv, TypeOK, RegistryTypeOK, SubscriptionsAreExact,
          IdsAreUnique, NothingWantedUnattached
  <1>0. \A s \in Ids : s # None
    BY SMTT(60) DEF Ids
  <1>1. ASSUME NEW c \in Components, Attach(c) PROVE SubscriptionsAreExact'
    <2>1. AttachId \in Ids
      BY AttachIdFree, SMTT(60)
    <2>2. CASE mailbox[AttachId] # None
      BY <1>1, <2>2, SMTT(60) DEF Attach
    <2>3. CASE mailbox[AttachId] = None
      <3> PICK a \in Ids : a = AttachId
        BY <2>1, SMTT(60)
      <3>1. /\ mailbox' = [mailbox EXCEPT ![a] = c]
            /\ UNCHANGED <<subs, wants>>
            /\ mailbox[a] = None
            /\ id[c] = None
        BY <1>1, <2>3, SMTT(60) DEF Attach
      <3>2. wants[c] = {} /\ c # None
        BY <3>1, SMTT(60)
      <3>3. ASSUME NEW e \in Events, NEW t \in Ids
            PROVE  subs'[e][t] = IF mailbox'[t] # None /\ e \in wants'[mailbox'[t]] THEN 1 ELSE 0
        <4>1. subs[e][t] = IF mailbox[t] # None /\ e \in wants[mailbox[t]] THEN 1 ELSE 0
          OBVIOUS
        <4>2. mailbox'[t] = IF t = a THEN c ELSE mailbox[t]
          BY <3>1
        <4> QED
          BY ONLY <3>1, <3>2, <4>1, <4>2
      <3> QED
        BY <3>3, SMTT(60)
    <2> QED
      BY <2>2, <2>3, SMTT(60)
  <1>2. ASSUME NEW s \in Ids, Detach(s) PROVE SubscriptionsAreExact'
    <2>1. CASE mailbox[s] = None
      BY <1>2, <2>1, SMTT(60) DEF Detach
    <2>2. CASE mailbox[s] # None
      <3>1. /\ mailbox' = [mailbox EXCEPT ![s] = None]
            /\ wants' = [wants EXCEPT ![mailbox[s]] = {}]
            /\ mailbox[s] \in Components
            /\ \A e \in Events, t \in Ids : subs'[e][t] = IF t = s THEN 0 ELSE subs[e][t]
        BY <1>2, <2>2 DEF Detach
      <3>2. ASSUME NEW e \in Events, NEW t \in Ids, t # s, mailbox[t] # None
            PROVE  wants'[mailbox'[t]] = wants[mailbox[t]]
        BY <3>1, <3>2, SMTT(60)
      <3>3. ASSUME NEW e \in Events, NEW t \in Ids
            PROVE  subs'[e][t] = IF mailbox'[t] # None /\ e \in wants'[mailbox'[t]] THEN 1 ELSE 0
        <4>1. subs[e][t] = IF mailbox[t] # None /\ e \in wants[mailbox[t]] THEN 1 ELSE 0
          BY Zenon
        <4>2. mailbox'[t] = IF t = s THEN None ELSE mailbox[t]
          BY <3>1
        <4> QED
          BY ONLY <3>1, <3>2, <4>1, <4>2
      <3> QED
        BY <3>3, Zenon
    <2> QED
      BY <2>1, <2>2
  <1>3. ASSUME NEW s \in Ids, NEW E \in SUBSET Events, Subscribe(s, E)
        PROVE  SubscriptionsAreExact'
    <2>1. CASE mailbox[s] = None
      BY <1>3, <2>1, SMTT(60) DEF Subscribe
    <2>2. CASE mailbox[s] # None
      <3>1. /\ wants' = [wants EXCEPT ![mailbox[s]] = wants[mailbox[s]] \cup E]
            /\ mailbox' = mailbox
            /\ mailbox[s] \in Components
            /\ \A e \in Events, t \in Ids :
                  subs'[e][t] = IF e \in E /\ t = s /\ subs[e][t] = 0 THEN 1 ELSE subs[e][t]
        BY <1>3, <2>2, SMTT(60) DEF Subscribe
      <3>2. ASSUME NEW t \in Ids, t # s, mailbox[t] # None
            PROVE  wants'[mailbox'[t]] = wants[mailbox[t]]
        BY <3>1, <3>2
      <3>3. ASSUME NEW e \in Events, NEW t \in Ids
            PROVE  subs'[e][t] = IF mailbox'[t] # None /\ e \in wants'[mailbox'[t]] THEN 1 ELSE 0
        <4>1. CASE t = s
          BY <2>2, <3>1, <4>1
        <4>2. CASE t # s
          BY <3>1, <3>2, <4>2, SMTT(60)
        <4> QED
          BY <4>1, <4>2
      <3> QED
        BY <3>3
    <2> QED
      BY <2>1, <2>2
  <1>4. ASSUME NEW s \in Ids, NEW E \in SUBSET Events, Unsubscribe(s, E)
        PROVE  SubscriptionsAreExact'
    <2>1. CASE mailbox[s] = None
      BY <1>4, <2>1, SMTT(60) DEF Unsubscribe
    <2>2. CASE mailbox[s] # None
      BY <1>0, <1>4, <2>2, SMTT(60) DEF Unsubscribe
    <2> QED
      BY <2>1, <2>2
  <1> QED
    BY <1>1, <1>2, <1>3, <1>4, RegistrySteps

\* Attach fails only if CycleCurrentSubscriberId went all the way round; any
\* operation that frees an id returns another status.
LEMMA StepAttachFails == RInv /\ [Next]_vars => AttachFailsOnlyWhenFull'
  <1> SUFFICES ASSUME RInv, [Next]_vars PROVE AttachFailsOnlyWhenFull'
    OBVIOUS
  <1> USE DEF RInv, TypeOK, RegistryTypeOK, AttachFailsOnlyWhenFull
  <1>1. ASSUME NEW c \in Components, Attach(c) PROVE AttachFailsOnlyWhenFull'
    BY <1>1, AttachIdFree DEF Attach
  <1>2. ASSUME NEW s \in Ids, Detach(s) PROVE AttachFailsOnlyWhenFull'
    BY <1>2 DEF Detach
  <1>3. ASSUME NEW s \in Ids, NEW E \in SUBSET Events, Subscribe(s, E) \/ Unsubscribe(s, E)
        PROVE  AttachFailsOnlyWhenFull'
    BY <1>3 DEF Subscribe, Unsubscribe
  <1> QED
    BY <1>1, <1>2, <1>3, RegistrySteps

\* The registry's invariant holds in every reachable state.
THEOREM RegistryInvariant == Spec => []RInv
  <1>1. RInv /\ [Next]_vars => RInv'
    BY StepRegistryTypeOK, StepTrafficTypeOK, StepSleepTypeOK, StepMessagesExist, StepIds,
       StepSubscriptions, StepAttachFails DEF RInv, TypeOK
  <1> QED
    BY InitRInv, <1>1, PTL DEF Spec

\* No operation of BVBroker or BVComponent takes a variable out of its type.
THEOREM TypeCorrect == Spec => []TypeOK
  BY RegistryInvariant, PTL DEF RInv

\* However Attach and Detach follow each other, a subscriber id belongs to one
\* component, although currentSubscriberId wraps around.
THEOREM IdsAreUniqueHolds == Spec => []IdsAreUnique
  BY RegistryInvariant, PTL DEF RInv

\* Attach returns MAX_COMPONENTS only to a component for which there is no id.
THEOREM AttachFailsOnlyWhenFullHolds == Spec => []AttachFailsOnlyWhenFull
  BY RegistryInvariant, PTL DEF RInv

\* The vectors of subs_m are at all times what the attached components asked
\* for: nothing stale, nothing twice, nothing inherited with a reused id.
THEOREM SubscriptionsAreExactHold == Spec => []SubscriptionsAreExact
  BY RegistryInvariant, PTL DEF RInv
-----------------------------------------------------------------------------
(* The messages *)

\* Nothing was sent before main launches the threads.
Quiet ==
    phase = "setup" =>
        /\ sent = <<>> /\ inMailBox = <<>> /\ routed = 0
        /\ worker = "off" /\ listening = {}
        /\ \A c \in Components : inbox[c] = <<>> /\ handled[c] = <<>>

\* The broker's queue holds the messages sent to it that were not routed yet,
\* in the order they were sent.
Queued ==
    /\ routed \in 0..Len(sent)
    /\ \A i \in DOMAIN inMailBox :
          inMailBox[i] \in routed + 1..Len(sent) /\ FromBroker(inMailBox[i])
    /\ \A i, j \in DOMAIN inMailBox : i < j => inMailBox[i] < inMailBox[j]
    /\ \A m \in routed + 1..Len(sent) :
          FromBroker(m) => \E i \in DOMAIN inMailBox : inMailBox[i] = m

\* What was handled is a message that was sent.
HandledExist == \A c \in Components : \A i \in DOMAIN handled[c] : handled[c][i] \in DOMAIN sent

WantedIsSubscribable == \A c \in Components : wants[c] \subseteq Subscribable[c]

\* The sequence g holds the elements of D, each once and in order, among others
\* that are not in B.
Exact(g, D, B) ==
    /\ \A i, j \in DOMAIN g : i < j /\ g[i] \in B /\ g[j] \in B => g[i] < g[j]
    /\ \A i \in DOMAIN g : g[i] \in B => g[i] \in D
    /\ \A m \in D : \E i \in DOMAIN g : g[i] = m

Brokered == {m \in DOMAIN sent : FromBroker(m)}

Delivered == phase = "running" => \A c \in Attached : Exact(Given(c), Due(c), Brokered)

\* The types, the registry and the order of the messages.
DInv == RInv /\ Quiet /\ Queued /\ HandledExist /\ WantedIsSubscribable /\ Delivered

\* A handler takes the first message of the mailbox and nothing moves.
LEMMA Moved ==
    ASSUME NEW S, NEW h \in Seq(S), NEW b \in Seq(S), b # <<>>
    PROVE  Append(h, Head(b)) \o Tail(b) = h \o b
  <1>1. Append(h, Head(b)) \in Seq(S) /\ Tail(b) \in Seq(S) /\ h \o b \in Seq(S)
    OBVIOUS
  <1>2. Len(Append(h, Head(b)) \o Tail(b)) = Len(h) + Len(b) /\ Len(h \o b) = Len(h) + Len(b)
    OBVIOUS
  <1>3. \A i \in 1..Len(h) + Len(b) : (Append(h, Head(b)) \o Tail(b))[i] = (h \o b)[i]
    OBVIOUS
  <1> QED
    BY ONLY <1>1, <1>2, <1>3

\* One more element at the end: a new one of D, or one that is not in B.
LEMMA ExactAppend ==
    ASSUME NEW g \in Seq(Nat), NEW D, NEW B, Exact(g, D, B), NEW x \in Nat
    PROVE  /\ x \notin B => Exact(Append(g, x), D, B)
           /\ (\A m \in D : m < x) => Exact(Append(g, x), D \cup {x}, B)
  <1> DEFINE a == Append(g, x)
  <1>1. /\ Len(g) \in Nat /\ DOMAIN g = 1..Len(g) /\ DOMAIN a = 1..Len(g) + 1
        /\ a[Len(g) + 1] = x /\ \A i \in DOMAIN g : a[i] = g[i] /\ i \in DOMAIN a
    OBVIOUS
  <1>2. \A i \in DOMAIN a : i \in DOMAIN g \/ i = Len(g) + 1
    BY ONLY <1>1
  <1>3. \A i \in DOMAIN g : ~ (Len(g) + 1 < i) /\ i \in Nat
    BY ONLY <1>1
  <1> HIDE DEF a
  <1>4. ASSUME x \notin B PROVE Exact(a, D, B)
    <2>1. \A i, j \in DOMAIN a : i < j /\ a[i] \in B /\ a[j] \in B => a[i] < a[j]
      BY ONLY <1>1, <1>2, <1>4, Exact(g, D, B) DEF Exact
    <2>2. \A i \in DOMAIN a : a[i] \in B => a[i] \in D
      BY ONLY <1>1, <1>2, <1>4, Exact(g, D, B) DEF Exact
    <2>3. \A m \in D : \E i \in DOMAIN a : a[i] = m
      BY ONLY <1>1, Exact(g, D, B) DEF Exact
    <2> QED
      BY ONLY <2>1, <2>2, <2>3, SMTT(60) DEF Exact
  <1>5. ASSUME \A m \in D : m < x PROVE Exact(a, D \cup {x}, B)
    <2>1. ASSUME NEW i \in DOMAIN a, NEW j \in DOMAIN a, i < j, a[i] \in B, a[j] \in B
          PROVE  a[i] < a[j]
      <3>1. i \in DOMAIN g
        BY ONLY <1>1, <1>2, <2>1
      <3>2. CASE j \in DOMAIN g
        BY ONLY <1>1, <2>1, <3>1, <3>2, Exact(g, D, B) DEF Exact
      <3>3. CASE j = Len(g) + 1
        BY ONLY <1>1, <1>5, <2>1, <3>1, <3>3, Exact(g, D, B) DEF Exact
      <3> QED
        BY <1>2, <3>2, <3>3
    <2>2. \A i \in DOMAIN a : a[i] \in B => a[i] \in D \cup {x}
      BY ONLY <1>1, <1>2, Exact(g, D, B) DEF Exact
    <2>3. ASSUME NEW m \in D \cup {x} PROVE \E i \in DOMAIN a : a[i] = m
      <3>1. CASE m \in D
        BY ONLY <1>1, <3>1, Exact(g, D, B) DEF Exact
      <3>2. CASE m = x
        <4>1. Len(g) + 1 \in DOMAIN a
          BY ONLY <1>1
        <4> QED
          BY <1>1, <3>2, <4>1
      <3> QED
        BY <3>1, <3>2
    <2> QED
      BY ONLY <2>1, <2>2, <2>3 DEF Exact
  <1> QED
    BY <1>4, <1>5 DEF a

\* What a message can be once it was sent.
LEMMA SentFacts ==
    ASSUME TypeOK, NEW e \in Events, NEW via \in {"broker", "session"},
           sent' = Append(sent, NewMessage(e, via))
    PROVE  /\ Len(sent) \in Nat /\ DOMAIN sent = 1..Len(sent) /\ DOMAIN sent' = 1..Len(sent) + 1
           /\ Len(sent') = Len(sent) + 1
           /\ \A m \in DOMAIN sent : sent'[m] = sent[m] /\ m \in Nat
           /\ sent'[Len(sent) + 1] = NewMessage(e, via)
           /\ NewMessage(e, via).event = e /\ NewMessage(e, via).via = via
           /\ Brokered' = Brokered \cup {m \in {Len(sent) + 1} : via = "broker"}
  <1>1. sent \in Seq(Messages)
    BY DEF TypeOK, TrafficTypeOK
  <1>2. PICK n : n = NewMessage(e, via)
    OBVIOUS
  <1>3. /\ Len(sent) \in Nat /\ DOMAIN sent = 1..Len(sent) /\ DOMAIN sent' = 1..Len(sent) + 1
        /\ Len(sent') = Len(sent) + 1
        /\ \A m \in DOMAIN sent : sent'[m] = sent[m] /\ m \in Nat
        /\ sent'[Len(sent) + 1] = n
    BY ONLY <1>1, <1>2, sent' = Append(sent, NewMessage(e, via))
  <1>4. n.event = e /\ n.via = via
    BY <1>2 DEF NewMessage
  <1>5. Brokered' = Brokered \cup {m \in {Len(sent) + 1} : via = "broker"}
    BY ONLY <1>3, <1>4 DEF Brokered, FromBroker
  <1> QED
    BY <1>2, <1>3, <1>4, <1>5

\* A handler only takes the payload out of the message.
LEMMA HandleFacts ==
    ASSUME TypeOK, MessagesExist, NEW c \in Components, ListenToMail(c)
    PROVE  /\ inbox[c] \in Seq(MessageIds) /\ inbox[c] # <<>> /\ 1 \in DOMAIN inbox[c]
           /\ Head(inbox[c]) = inbox[c][1]
           /\ Head(inbox[c]) \in DOMAIN sent /\ Len(sent') = Len(sent) /\ DOMAIN sent' = DOMAIN sent
           /\ \A m \in DOMAIN sent : sent'[m].event = sent[m].event /\ sent'[m].via = sent[m].via
           /\ \A m \in DOMAIN sent : m # Head(inbox[c]) => sent'[m] = sent[m]
           /\ Brokered' = Brokered
  <1>1. inbox[c] \in Seq(MessageIds) /\ inbox[c] # <<>> /\ sent \in Seq(Messages)
    BY DEF TypeOK, TrafficTypeOK, ListenToMail
  <1> PICK b \in Seq(MessageIds) : b = inbox[c]
    BY <1>1
  <1> PICK m : m = Head(b)
    OBVIOUS
  <1>2. 1 \in DOMAIN b /\ m = b[1] /\ 1 \in 1..Len(b)
    BY ONLY <1>1, b = inbox[c], m = Head(b), SMTT(60)
  <1>3. m \in DOMAIN sent
    BY <1>2 DEF MessagesExist
  <1>4. sent' = [sent EXCEPT ![m] = [sent[m] EXCEPT !.data = "null"]]
    BY DEF ListenToMail
  <1>5. sent[m] \in Messages
    BY ONLY <1>1, <1>3
  <1>6. /\ [sent[m] EXCEPT !.data = "null"].event = sent[m].event
        /\ [sent[m] EXCEPT !.data = "null"].via = sent[m].via
    BY ONLY <1>5 DEF Messages
  <1>7. Len(sent') = Len(sent) /\ DOMAIN sent' = DOMAIN sent
    BY ONLY <1>1, <1>3, <1>4
  <1>8. \A k \in DOMAIN sent : k # m => sent'[k] = sent[k]
    BY ONLY <1>1, <1>4
  <1>9. sent'[m] = [sent[m] EXCEPT !.data = "null"]
    BY ONLY <1>1, <1>3, <1>4
  <1>10. \A k \in DOMAIN sent : sent'[k].event = sent[k].event /\ sent'[k].via = sent[k].via
    BY ONLY <1>6, <1>8, <1>9, Zenon
  <1>11. Brokered' = Brokered
    BY ONLY <1>7, <1>10 DEF Brokered, FromBroker
  <1> QED
    BY <1>1, <1>2, <1>3, <1>7, <1>8, <1>10, <1>11

\* The message that Run takes.
LEMMA RunFacts ==
    ASSUME TypeOK, MessagesExist, Queued, Run
    PROVE  /\ inMailBox \in Seq(MessageIds) /\ inMailBox # <<>>
           /\ Head(inMailBox) = inMailBox[1] /\ 1 \in DOMAIN inMailBox
           /\ Head(inMailBox) \in DOMAIN sent /\ Head(inMailBox) \in Nat
           /\ FromBroker(Head(inMailBox)) /\ Head(inMailBox) \in routed + 1..Len(sent)
           /\ sent[Head(inMailBox)].event \in Events
  <1>1. inMailBox \in Seq(MessageIds) /\ inMailBox # <<>> /\ sent \in Seq(Messages)
    BY DEF TypeOK, TrafficTypeOK, Run
  <1>2. Head(inMailBox) = inMailBox[1] /\ 1 \in DOMAIN inMailBox /\ 1 \in 1..Len(inMailBox)
    BY ONLY <1>1
  <1>3. Head(inMailBox) \in DOMAIN sent
    BY <1>2 DEF MessagesExist
  <1>4. FromBroker(Head(inMailBox)) /\ Head(inMailBox) \in routed + 1..Len(sent)
    BY <1>2 DEF Queued
  <1>5. sent[Head(inMailBox)] \in Messages /\ Head(inMailBox) \in Nat
    BY ONLY <1>1, <1>3
  <1>6. sent[Head(inMailBox)].event \in Events
    BY ONLY <1>5 DEF Messages
  <1> QED
    BY <1>1, <1>2, <1>3, <1>4, <1>5, <1>6

\* The threads start with nothing to do.
LEMMA StepQuiet == TypeOK /\ Quiet /\ [Next]_vars => Quiet'
  <1> SUFFICES ASSUME TypeOK, Quiet, [Next]_vars PROVE Quiet'
    OBVIOUS
  <1> SUFFICES ASSUME phase' = "setup" PROVE Quiet'
    BY DEF Quiet
  <1>1. ASSUME NEW c \in Components, Attach(c) PROVE Quiet'
    <2>1. phase = "setup" /\ UNCHANGED <<sent, inMailBox, routed, worker, listening, handled>>
      BY <1>1, SMTT(60) DEF Attach, traffic
    <2>2. inbox' = inbox \/ inbox' = [inbox EXCEPT ![c] = <<>>]
      BY <1>1 DEF Attach, traffic
    <2>3. \A d \in Components : inbox[d] = <<>>
      BY <2>1 DEF Quiet
    <2>4. \A d \in Components : inbox'[d] = <<>>
      BY <2>2, <2>3, SMTT(60) DEF TypeOK, TrafficTypeOK
    <2> QED
      BY <2>1, <2>4 DEF Quiet
  <1>2. CASE \/ \E s \in Ids : Detach(s)
             \/ \E s \in Ids, E \in SUBSET Events : Subscribe(s, E) \/ Unsubscribe(s, E)
             \/ Stir \/ UNCHANGED vars
    BY <1>2, StirChangesNothing DEF Detach, Subscribe, Unsubscribe, traffic, Quiet
  <1>3. CASE \/ Launch \/ Join
             \/ \E c \in Components, e \in Events : SendMessage(c, e) \/ PutMessageIntoAppMailbox(c, e)
    BY <1>3, Zenon DEF Launch, Join, SendMessage, PutMessageIntoAppMailbox
  <1>4. CASE Run \/ \E c \in Components : ListenToMail(c)
    BY <1>4, Zenon DEF Run, ListenToMail, Quiet
  <1> QED
    BY <1>1, <1>2, <1>3, <1>4, Zenon DEF Next

\* Run takes the oldest message of the queue, SendMessage adds a newer one.
LEMMA StepQueued == TypeOK /\ MessagesExist /\ Queued /\ [Next]_vars => Queued'
  <1> SUFFICES ASSUME TypeOK, MessagesExist, Queued, [Next]_vars PROVE Queued'
    OBVIOUS
  <1>0. inMailBox \in Seq(MessageIds) /\ sent \in Seq(Messages) /\ routed \in Nat /\ Len(sent) \in Nat
    BY DEF TypeOK, TrafficTypeOK
  <1>q. /\ routed \in 0..Len(sent)
        /\ \A i \in DOMAIN inMailBox :
              inMailBox[i] \in routed + 1..Len(sent) /\ FromBroker(inMailBox[i])
        /\ \A i, j \in DOMAIN inMailBox : i < j => inMailBox[i] < inMailBox[j]
        /\ \A m \in routed + 1..Len(sent) :
              FromBroker(m) => \E i \in DOMAIN inMailBox : inMailBox[i] = m
    BY DEF Queued
  <1>1. CASE UNCHANGED <<inMailBox, sent, routed>>
    BY <1>1, Zenon DEF Queued, FromBroker
  <1>2. ASSUME NEW c \in Components, NEW e \in Events, SendMessage(c, e) PROVE Queued'
    <2>1. /\ sent' = Append(sent, NewMessage(e, "broker"))
          /\ inMailBox' = Append(inMailBox, Len(sent) + 1) /\ UNCHANGED routed
      BY <1>2 DEF SendMessage
    <2>2. /\ DOMAIN sent = 1..Len(sent) /\ Len(sent') = Len(sent) + 1
          /\ \A m \in DOMAIN sent : sent'[m] = sent[m]
          /\ sent'[Len(sent) + 1].via = "broker"
      BY <2>1, SentFacts
    <2>3. /\ DOMAIN inMailBox' = 1..Len(inMailBox) + 1 /\ DOMAIN inMailBox = 1..Len(inMailBox)
          /\ Len(inMailBox) \in Nat
          /\ \A i \in DOMAIN inMailBox : inMailBox'[i] = inMailBox[i]
          /\ inMailBox'[Len(inMailBox) + 1] = Len(sent) + 1
      BY ONLY <1>0, <2>1
    <2>4. ASSUME NEW i \in DOMAIN inMailBox'
          PROVE  inMailBox'[i] \in routed' + 1..Len(sent') /\ FromBroker(inMailBox[i])'
      <3>1. CASE i = Len(inMailBox) + 1
        BY <1>0, <1>q, <2>1, <2>2, <2>3, <3>1, SMTT(60) DEF FromBroker
      <3>2. CASE i \in DOMAIN inMailBox
        <4>1. inMailBox'[i] = inMailBox[i] /\ inMailBox[i] \in routed + 1..Len(sent)
              /\ FromBroker(inMailBox[i])
          BY <1>q, <2>3, <3>2
        <4>2. inMailBox[i] \in DOMAIN sent /\ inMailBox[i] \in routed + 1..Len(sent) + 1
          BY ONLY <1>0, <2>2, <4>1
        <4> QED
          BY <2>1, <2>2, <4>1, <4>2 DEF FromBroker
      <3> QED
        BY ONLY <2>3, <2>4, <3>1, <3>2
    <2>5. ASSUME NEW i \in DOMAIN inMailBox', NEW j \in DOMAIN inMailBox', i < j
          PROVE  inMailBox'[i] < inMailBox'[j]
      <3>1. i \in DOMAIN inMailBox
        BY ONLY <2>3, <2>5
      <3>2. CASE j = Len(inMailBox) + 1
        <4>1. inMailBox[i] \in routed + 1..Len(sent)
          BY <1>q, <3>1
        <4> QED
          BY ONLY <1>0, <2>3, <3>1, <3>2, <4>1
      <3>3. CASE j \in DOMAIN inMailBox
        BY <1>q, <2>3, <2>5, <3>1, <3>3, Zenon
      <3> QED
        BY ONLY <2>3, <2>5, <3>2, <3>3
    <2>6. ASSUME NEW m \in routed' + 1..Len(sent'), FromBroker(m)'
          PROVE  \E i \in DOMAIN inMailBox' : inMailBox'[i] = m
      <3>1. CASE m = Len(sent) + 1
        <4>1. Len(inMailBox) + 1 \in DOMAIN inMailBox'
          BY ONLY <2>3
        <4> QED
          BY <2>3, <3>1, <4>1
      <3>2. CASE m # Len(sent) + 1
        <4>1. m \in routed + 1..Len(sent) /\ m \in DOMAIN sent
          BY <1>0, <2>1, <2>2, <2>6, <3>2
        <4>2. FromBroker(m)
          BY <2>2, <2>6, <4>1 DEF FromBroker
        <4>3. PICK i \in DOMAIN inMailBox : inMailBox[i] = m
          BY <1>q, <4>1, <4>2
        <4>4. i \in DOMAIN inMailBox'
          BY ONLY <2>3, <4>3
        <4> QED
          BY <2>3, <4>3, <4>4
      <3> QED
        BY <3>1, <3>2
    <2>7. routed' \in 0..Len(sent')
      BY ONLY <1>0, <1>q, <2>1, <2>2
    <2> QED
      BY <2>4, <2>5, <2>6, <2>7, Zenon DEF Queued
  <1>3. ASSUME NEW c \in Components, NEW e \in Events, PutMessageIntoAppMailbox(c, e) PROVE Queued'
    <2>1. sent' = Append(sent, NewMessage(e, "session")) /\ UNCHANGED <<routed, inMailBox>>
      BY <1>3 DEF PutMessageIntoAppMailbox
    <2>2. /\ DOMAIN sent = 1..Len(sent) /\ Len(sent') = Len(sent) + 1
          /\ \A m \in DOMAIN sent : sent'[m] = sent[m]
          /\ sent'[Len(sent) + 1].via = "session"
      BY <2>1, SentFacts
    <2>3. ASSUME NEW m \in routed + 1..Len(sent)
          PROVE  m \in routed + 1..Len(sent') /\ (FromBroker(m)' <=> FromBroker(m))
      <3>1. m \in DOMAIN sent /\ m \in routed + 1..Len(sent')
        BY ONLY <1>0, <2>2, m \in routed + 1..Len(sent)
      <3> QED
        BY <2>2, <3>1 DEF FromBroker
    <2>4. ASSUME NEW m \in routed + 1..Len(sent'), FromBroker(m)' PROVE m \in routed + 1..Len(sent)
      <3>1. m # Len(sent) + 1
        BY <2>2, <2>4, SMTT(60) DEF FromBroker
      <3> QED
        BY ONLY <1>0, <2>2, <2>4, <3>1
    <2>5. routed \in 0..Len(sent')
      BY ONLY <1>0, <1>q, <2>2
    <2>6. /\ \A i \in DOMAIN inMailBox' :
               inMailBox'[i] \in routed' + 1..Len(sent') /\ FromBroker(inMailBox[i])'
          /\ \A m \in routed' + 1..Len(sent') :
               FromBroker(m)' => \E i \in DOMAIN inMailBox' : inMailBox'[i] = m
      BY <1>q, <2>1, <2>3, <2>4, Zenon
    <2> QED
      BY <1>q, <2>1, <2>5, <2>6, Zenon DEF Queued
  <1>4. CASE Run
    <2> PICK h : h = Head(inMailBox)
      OBVIOUS
    <2>1. inMailBox' = Tail(inMailBox) /\ routed' = h /\ UNCHANGED sent
      BY <1>4 DEF Run
    <2>2. inMailBox # <<>> /\ h = inMailBox[1] /\ h \in Nat /\ h \in routed + 1..Len(sent)
      BY <1>4, RunFacts
    <2>3. /\ DOMAIN inMailBox' \subseteq Nat /\ DOMAIN inMailBox \subseteq Nat /\ 1 \in DOMAIN inMailBox
          /\ \A i \in DOMAIN inMailBox' : i + 1 \in DOMAIN inMailBox /\ inMailBox'[i] = inMailBox[i + 1]
                                          /\ 1 < i + 1
          /\ \A i \in DOMAIN inMailBox : i # 1 => i - 1 \in DOMAIN inMailBox' /\ inMailBox'[i - 1] = inMailBox[i]
      BY ONLY <1>0, <2>1, <2>2, SMTT(60)
    <2>4. ASSUME NEW i \in DOMAIN inMailBox'
          PROVE  inMailBox'[i] \in h + 1..Len(sent) /\ FromBroker(inMailBox'[i])
      <3>1. /\ inMailBox'[i] \in routed + 1..Len(sent) /\ FromBroker(inMailBox'[i])
            /\ h < inMailBox'[i]
        BY <1>q, <2>2, <2>3
      <3>2. inMailBox'[i] \in h + 1..Len(sent)
        BY ONLY <1>0, <2>2, <3>1
      <3> QED
        BY <3>1, <3>2
    <2>5. ASSUME NEW i \in DOMAIN inMailBox', NEW j \in DOMAIN inMailBox', i < j
          PROVE  inMailBox'[i] < inMailBox'[j]
      <3>1. i + 1 < j + 1
        BY ONLY <2>3, <2>5
      <3> QED
        BY <1>q, <2>3, <3>1, Zenon
    <2>6. ASSUME NEW m \in h + 1..Len(sent), FromBroker(m)
          PROVE  \E i \in DOMAIN inMailBox' : inMailBox'[i] = m
      <3>1. m \in routed + 1..Len(sent) /\ m # h
        BY ONLY <1>0, <2>2, <2>6
      <3>2. PICK i \in DOMAIN inMailBox : inMailBox[i] = m
        BY <1>q, <2>6, <3>1
      <3>3. i # 1
        BY <2>2, <3>1, <3>2
      <3> QED
        BY <2>3, <3>2, <3>3
    <2>7. h \in 0..Len(sent)
      BY ONLY <1>0, <2>2
    <2> QED
      BY <2>1, <2>4, <2>5, <2>6, <2>7, Zenon DEF Queued, FromBroker
  <1>5. ASSUME NEW c \in Components, ListenToMail(c) PROVE Queued'
    <2>1. /\ Len(sent') = Len(sent) /\ DOMAIN sent = 1..Len(sent)
          /\ \A m \in DOMAIN sent : sent'[m].via = sent[m].via
      BY <1>0, <1>5, HandleFacts
    <2>2. UNCHANGED <<inMailBox, routed>>
      BY <1>5, SMTT(60) DEF ListenToMail
    <2>3. ASSUME NEW m \in routed + 1..Len(sent) PROVE FromBroker(m)' <=> FromBroker(m)
      <3>1. m \in DOMAIN sent
        BY ONLY <1>0, <2>1, <2>3, SMTT(60)
      <3> QED
        BY <2>1, <3>1 DEF FromBroker
    <2> QED
      BY <1>q, <2>1, <2>2, <2>3, Zenon DEF Queued
  <1> QED
    BY <1>1, <1>2, <1>3, <1>4, <1>5, StirChangesNothing, Zenon DEF Next, traffic, Attach, Detach,
       Subscribe, Unsubscribe, Launch, Join

\* The message a handler is called with is one of those sent.
LEMMA StepHandledExist == TypeOK /\ MessagesExist /\ HandledExist /\ [Next]_vars => HandledExist'
  <1> SUFFICES ASSUME TypeOK, MessagesExist, HandledExist, [Next]_vars PROVE HandledExist'
    OBVIOUS
  <1>1. CASE UNCHANGED <<handled, sent>>
    BY <1>1, Zenon DEF HandledExist
  <1>2. ASSUME NEW c \in Components, NEW e \in Events, NEW via \in {"broker", "session"},
               sent' = Append(sent, NewMessage(e, via)), UNCHANGED handled
        PROVE  HandledExist'
    <2>1. DOMAIN sent \subseteq DOMAIN sent'
      <3>1. Len(sent) \in Nat /\ DOMAIN sent = 1..Len(sent) /\ DOMAIN sent' = 1..Len(sent) + 1
        BY <1>2, SentFacts, SMTT(60)
      <3> QED
        BY ONLY <3>1
    <2> QED
      BY <1>2, <2>1 DEF HandledExist
  <1>3. ASSUME NEW c \in Components, ListenToMail(c) PROVE HandledExist'
    <2>1. Head(inbox[c]) \in DOMAIN sent /\ DOMAIN sent' = DOMAIN sent
      BY <1>3, HandleFacts
    <2>2. handled' = [handled EXCEPT ![c] = Append(handled[c], Head(inbox[c]))]
      BY <1>3 DEF ListenToMail
    <2>3. handled \in [Components -> Seq(MessageIds)]
      BY DEF TypeOK, TrafficTypeOK
    <2>4. ASSUME NEW d \in Components, NEW i \in DOMAIN handled'[d]
          PROVE  handled'[d][i] \in DOMAIN sent
      <3>1. CASE d # c
        BY <2>2, <2>3, <3>1, SMTT(60) DEF HandledExist
      <3>2. CASE d = c
        <4> PICK h \in Seq(MessageIds) : h = handled[c]
          BY <2>3
        <4> PICK x : x = Head(inbox[c])
          OBVIOUS
        <4>1. handled'[d] = Append(h, x)
          BY <2>2, <2>3, <3>2
        <4>2. \A j \in DOMAIN h : h[j] \in DOMAIN sent
          BY DEF HandledExist
        <4>3. (i \in DOMAIN h /\ handled'[d][i] = h[i]) \/ handled'[d][i] = x
          BY ONLY <4>1, h \in Seq(MessageIds), i \in DOMAIN handled'[d]
        <4> QED
          BY <2>1, <4>2, <4>3
      <3> QED
        BY <3>1, <3>2
    <2> QED
      BY <2>1, <2>4, SMTT(60) DEF HandledExist
  <1>4. ASSUME NEW c \in Components, NEW e \in Events,
               SendMessage(c, e) \/ PutMessageIntoAppMailbox(c, e)
        PROVE  HandledExist'
    BY <1>2, <1>4, Zenon DEF SendMessage, PutMessageIntoAppMailbox
  <1> QED
    BY <1>1, <1>3, <1>4, StirChangesNothing, Zenon DEF Next, traffic, Attach, Detach, Subscribe,
       Unsubscribe, Launch, Join, Run

\* A component subscribes only to what it may subscribe to.
LEMMA StepWanted == TypeOK /\ WantedIsSubscribable /\ [Next]_vars => WantedIsSubscribable'
  <1> SUFFICES ASSUME TypeOK, WantedIsSubscribable, [Next]_vars PROVE WantedIsSubscribable'
    OBVIOUS
  <1> USE DEF TypeOK, RegistryTypeOK, WantedIsSubscribable
  <1>1. ASSUME NEW c \in Components, Attach(c) PROVE WantedIsSubscribable'
    BY <1>1, Zenon DEF Attach
  <1>2. ASSUME NEW s \in Ids, Detach(s) PROVE WantedIsSubscribable'
    BY <1>2, SMTT(60) DEF Detach
  <1>3. ASSUME NEW s \in Ids, NEW E \in SUBSET Events, Subscribe(s, E)
        PROVE  WantedIsSubscribable'
    BY <1>3, SMTT(60) DEF Subscribe
  <1>4. ASSUME NEW s \in Ids, NEW E \in SUBSET Events, Unsubscribe(s, E)
        PROVE  WantedIsSubscribable'
    BY <1>4, SMTT(60) DEF Unsubscribe
  <1> QED
    BY <1>1, <1>2, <1>3, <1>4, RegistrySteps, Zenon

\* Route pushes an event once to an attached component that subscribed to it,
\* and not at all to any other.
LEMMA PushesOnce ==
    ASSUME RInv, NEW c \in Components, NEW e \in Events
    PROVE  Pushes(e, c) = IF c \in Attached /\ e \in wants[c] THEN 1 ELSE 0
  <1> USE BrokerAssumption DEF RInv, TypeOK, RegistryTypeOK
  <1>1. CASE c \in Attached
    <2>1. id[c] \in Ids /\ mailbox[id[c]] = c
      BY <1>1 DEF Attached, IdsAreUnique
    <2>2. PICK s : s = CHOOSE t \in Ids : mailbox[t] = c
      BY SMTT(60)
    <2>3. s \in Ids /\ mailbox[s] = c
      BY <2>1, <2>2, SMTT(60)
    <2>4. Pushes(e, c) = subs[e][s]
      BY <2>1, <2>2, SMTT(60) DEF Pushes
    <2>5. c # None
      BY SMTT(60)
    <2> QED
      BY <1>1, <2>3, <2>4, <2>5, ZenonT(60) DEF SubscriptionsAreExact
  <1>2. CASE c \notin Attached
    <2>1. ASSUME NEW s \in Ids PROVE mailbox[s] # c
      <3>1. c # None /\ s # None
        <4> USE DEF Ids
        <4> QED
          BY SMTT(60)
      <3>2. id[c] = None
        BY <1>2, Zenon DEF Attached
      <3>3. mailbox[s] # None => id[mailbox[s]] = s
        BY Zenon DEF IdsAreUnique
      <3> QED
        BY ONLY <3>1, <3>2, <3>3, Zenon
    <2> QED
      BY <1>2, <2>1, SMTT(60) DEF Pushes
  <1> QED
    BY <1>1, <1>2, SMTT(60)

\* What a component was given are messages that were sent.
LEMMA GivenExist ==
    ASSUME TypeOK, MessagesExist, HandledExist, NEW c \in Components
    PROVE  /\ Given(c) \in Seq(Nat) /\ handled[c] \in Seq(Nat) /\ inbox[c] \in Seq(Nat)
           /\ \A i \in DOMAIN Given(c) : Given(c)[i] \in DOMAIN sent
  <1>1. handled[c] \in Seq(MessageIds) /\ inbox[c] \in Seq(MessageIds)
    BY DEF TypeOK, TrafficTypeOK
  <1> PICK h \in Seq(MessageIds), b \in Seq(MessageIds) : h = handled[c] /\ b = inbox[c]
    BY <1>1
  <1>2. /\ \A i \in DOMAIN h : h[i] \in DOMAIN sent
        /\ \A i \in 1..Len(b) : b[i] \in DOMAIN sent
    BY DEF HandledExist, MessagesExist
  <1>3. ASSUME NEW i \in DOMAIN (h \o b)
        PROVE  (h \o b)[i] \in DOMAIN sent
    <2>1. i \in 1..Len(h) + Len(b) /\ Len(h) \in Nat /\ Len(b) \in Nat /\ DOMAIN h = 1..Len(h)
      BY ONLY i \in DOMAIN (h \o b), h \in Seq(MessageIds), b \in Seq(MessageIds)
    <2>2. (h \o b)[i] = IF i <= Len(h) THEN h[i] ELSE b[i - Len(h)]
      BY ONLY <2>1, h \in Seq(MessageIds), b \in Seq(MessageIds)
    <2>3. i \in DOMAIN h \/ (~ (i <= Len(h)) /\ i - Len(h) \in 1..Len(b))
      BY ONLY <2>1
    <2>4. i \in DOMAIN h => i <= Len(h)
      BY ONLY <2>1
    <2> QED
      BY ONLY <1>2, <2>2, <2>3, <2>4
  <1>4. h \in Seq(Nat) /\ b \in Seq(Nat) /\ h \o b \in Seq(Nat)
    BY DEF MessageIds
  <1> QED
    BY <1>3, <1>4, Zenon DEF Given

\* One more message at the end of a mailbox.
LEMMA GivenOneMore ==
    ASSUME NEW h \in Seq(Nat), NEW b \in Seq(Nat), NEW x \in Nat
    PROVE  h \o Append(b, x) = Append(h \o b, x)
  <1>1. h \o Append(b, x) \in Seq(Nat) /\ Append(h \o b, x) \in Seq(Nat)
    OBVIOUS
  <1>2. Len(h \o Append(b, x)) = Len(h) + Len(b) + 1 /\ Len(Append(h \o b, x)) = Len(h) + Len(b) + 1
    OBVIOUS
  <1>3. \A i \in 1..Len(h) + Len(b) + 1 : (h \o Append(b, x))[i] = Append(h \o b, x)[i]
    OBVIOUS
  <1> QED
    BY ONLY <1>1, <1>2, <1>3, SMTT(60)

\* While the threads run the registry stays, and each message that is due is
\* given once, in order.
LEMMA StepDelivered == DInv /\ [Next]_vars => Delivered'
  <1> SUFFICES ASSUME DInv, [Next]_vars PROVE Delivered'
    OBVIOUS
  <1> USE DEF DInv, RInv
  <1>d. ASSUME phase' = "running" => \A c \in Attached' : Exact(Given(c)', Due(c)', Brokered')
        PROVE  Delivered'
    BY <1>d, Zenon DEF Delivered
  <1>t. /\ sent \in Seq(Messages) /\ routed \in Nat /\ Len(sent) \in Nat /\ DOMAIN sent = 1..Len(sent)
        /\ inbox \in [Components -> Seq(MessageIds)] /\ handled \in [Components -> Seq(MessageIds)]
    BY DEF TypeOK, TrafficTypeOK
  <1>q. routed \in 0..Len(sent)
    BY SMTT(60) DEF Queued
  <1>g. ASSUME NEW c \in Components
        PROVE  /\ Given(c) \in Seq(Nat) /\ handled[c] \in Seq(Nat) /\ inbox[c] \in Seq(Nat)
               /\ \A i \in DOMAIN Given(c) : Given(c)[i] \in DOMAIN sent
    BY GivenExist
  <1>u. ASSUME UNCHANGED <<registry, phase>> PROVE Attached' = Attached /\ UNCHANGED <<wants, id, phase>>
    BY <1>u DEF registry, Attached
  <1>e. ASSUME phase = "running", NEW c \in Attached
        PROVE  c \in Components /\ Exact(Given(c), Due(c), Brokered)
    BY <1>e DEF Delivered, Attached
  \* Messages of the queue are not sent twice, nor under another event.
  <1>s. ASSUME NEW c \in Components, UNCHANGED <<wants, routed>>, 1..routed \subseteq DOMAIN sent,
               \A m \in DOMAIN sent : sent'[m].event = sent[m].event /\ sent'[m].via = sent[m].via
        PROVE  Due(c)' = Due(c)
    BY ONLY <1>s DEF Due, FromBroker
  <1>r. 1..routed \subseteq DOMAIN sent
    BY ONLY <1>t, <1>q
  <1>1. CASE Launch
    <2>1. UNCHANGED <<sent, inbox, handled, routed>> /\ phase = "setup"
      BY <1>1 DEF Launch
    <2>2. routed = 0 /\ \A c \in Components : inbox[c] = <<>> /\ handled[c] = <<>>
      BY <2>1 DEF Quiet
    <2>3. ASSUME NEW c \in Attached' PROVE Exact(Given(c)', Due(c)', Brokered')
      <3>1. Given(c)' = <<>> \o <<>>
        BY <2>1, <2>2 DEF Given, Attached
      <3>2. <<>> \o <<>> = <<>> /\ DOMAIN (<<>> \o <<>>) = {}
        OBVIOUS
      <3>3. Due(c)' = {}
        BY <2>1, <2>2 DEF Due
      <3> QED
        BY <3>1, <3>2, <3>3, SMTT(60) DEF Exact
    <2> QED
      BY <1>d, <2>3, Zenon
  <1>2. ASSUME NEW d \in Components, NEW e \in Events, SendMessage(d, e) PROVE Delivered'
    <2>1. /\ sent' = Append(sent, NewMessage(e, "broker")) /\ phase = "running"
          /\ UNCHANGED <<inbox, handled, routed, registry, phase>>
      BY <1>2 DEF SendMessage
    <2>2. /\ \A m \in DOMAIN sent : sent'[m] = sent[m]
          /\ Brokered' = Brokered \cup {Len(sent) + 1}
      BY <2>1, SentFacts, SMTT(60)
    <2>3. ASSUME NEW c \in Attached' PROVE Exact(Given(c)', Due(c)', Brokered')
      <3>1. c \in Components /\ Exact(Given(c), Due(c), Brokered)
        BY <1>e, <1>u, <2>1
      <3>2. Given(c)' = Given(c)
        BY <2>1, SMTT(60) DEF Given
      <3>3. Due(c)' = Due(c)
        <4>1. UNCHANGED <<wants, routed>>
          BY ONLY <2>1, Zenon DEF registry
        <4>2. \A m \in DOMAIN sent : sent'[m].event = sent[m].event /\ sent'[m].via = sent[m].via
          BY ONLY <2>2, ZenonT(60)
        <4> QED
          BY ONLY <1>s, <1>r, <3>1, <4>1, <4>2, Zenon
      <3>4. \A i \in DOMAIN Given(c) : Given(c)[i] # Len(sent) + 1
        <4>1. Len(sent) + 1 \notin DOMAIN sent
          BY ONLY <1>t, SMTT(60)
        <4> QED
          BY ONLY <1>g, <3>1, <4>1, ZenonT(60)
      <3> QED
        BY ONLY <2>2, <3>1, <3>2, <3>3, <3>4 DEF Exact
    <2> QED
      BY <1>d, <2>3, Zenon
  <1>3. ASSUME NEW d \in Components, NEW e \in Events, PutMessageIntoAppMailbox(d, e)
        PROVE  Delivered'
    <2>1. /\ sent' = Append(sent, NewMessage(e, "session")) /\ phase = "running"
          /\ inbox' = [inbox EXCEPT ![d] = Append(inbox[d], Len(sent) + 1)]
          /\ UNCHANGED <<handled, routed, registry, phase>>
      BY <1>3, ZenonT(60) DEF PutMessageIntoAppMailbox
    <2>2. /\ \A m \in DOMAIN sent : sent'[m] = sent[m]
          /\ Brokered' = Brokered
      BY <2>1, SentFacts, Zenon
    <2>3. ASSUME NEW c \in Attached' PROVE Exact(Given(c)', Due(c)', Brokered')
      <3>1. c \in Components /\ Exact(Given(c), Due(c), Brokered)
        BY <1>e, <1>u, <2>1, SMTT(60)
      <3>3. Due(c)' = Due(c)
        <4>1. UNCHANGED <<wants, routed>>
          BY ONLY <2>1, Zenon DEF registry
        <4>2. \A m \in DOMAIN sent : sent'[m].event = sent[m].event /\ sent'[m].via = sent[m].via
          BY ONLY <2>2, Zenon
        <4> QED
          BY ONLY <1>s, <1>r, <3>1, <4>1, <4>2, Zenon
      <3>4. CASE c # d
        <4>1. Given(c)' = Given(c)
          BY <1>t, <2>1, <3>1, <3>4, SMTT(60) DEF Given
        <4> QED
          BY <2>2, <3>1, <3>3, <4>1, SMTT(60)
      <3>5. CASE c = d
        <4>1. Given(c)' = handled[c] \o Append(inbox[c], Len(sent) + 1)
          BY <1>t, <2>1, <3>1, <3>5, Zenon DEF Given
        <4>2. Len(sent) + 1 \in Nat /\ Len(sent) + 1 \notin DOMAIN sent
          BY ONLY <1>t
        <4>3. Given(c)' = Append(Given(c), Len(sent) + 1)
          BY <1>g, <3>1, <4>1, <4>2, GivenOneMore, Zenon DEF Given
        <4>4. Len(sent) + 1 \notin Brokered
          BY <4>2 DEF Brokered
        <4>5. Exact(Append(Given(c), Len(sent) + 1), Due(c), Brokered)
          BY <1>g, <3>1, <4>2, <4>4, ExactAppend, Zenon
        <4> QED
          BY <2>2, <3>3, <4>3, <4>5
      <3> QED
        BY <3>4, <3>5, SMTT(60)
    <2> QED
      BY <1>d, <2>3, Zenon
  <1>4. CASE Run
    <2> PICK h : h = Head(inMailBox)
      OBVIOUS
    <2>0. /\ h \in Nat /\ h \in DOMAIN sent /\ FromBroker(h) /\ h \in routed + 1..Len(sent)
          /\ sent[h].event \in Events /\ h = inMailBox[1] /\ 1 \in DOMAIN inMailBox
          /\ inMailBox \in Seq(MessageIds)
      BY <1>4, RunFacts
    <2>1. /\ worker = "running" /\ inbox' = Route(h) /\ routed' = h
          /\ UNCHANGED <<sent, handled, registry, phase>>
      BY <1>4 DEF Run
    \* No message for the broker lies between the last one routed and this one.
    <2>2. ASSUME NEW m \in 1..h, FromBroker(m), m # h PROVE m \in 1..routed
      <3>1. CASE m \in routed + 1..Len(sent)
        <4>1. PICK i \in DOMAIN inMailBox : inMailBox[i] = m
          BY <2>2, <3>1 DEF Queued
        <4>2. i # 1 /\ i \in Nat /\ 1 <= i
          BY ONLY <2>0, <2>2, <4>1
        <4>3. 1 < i
          BY ONLY <4>2
        <4>4. h < m
          BY <2>0, <4>1, <4>3, SMTT(60) DEF Queued
        <4> QED
          BY ONLY <2>0, <2>2, <4>4, SMTT(60)
      <3> QED
        BY ONLY <1>t, <1>q, <2>0, <2>2, <3>1, SMTT(60)
    <2>3. ASSUME NEW c \in Attached', phase = "running" PROVE Exact(Given(c)', Due(c)', Brokered')
      <3>1. c \in Components /\ Exact(Given(c), Due(c), Brokered) /\ c \in Attached
        BY <1>e, <1>u, <2>1, <2>3, SMTT(60)
      <3>2. Brokered' = Brokered
        BY <2>1 DEF Brokered, FromBroker
      <3>3. 1..routed \subseteq 1..h /\ h \in 1..h /\ h \notin 1..routed
        BY ONLY <1>t, <1>q, <2>0, SMTT(60)
      <3>4. Pushes(sent[h].event, c) = IF sent[h].event \in wants[c] THEN 1 ELSE 0
        BY <2>0, <3>1, PushesOnce, ZenonT(60)
      <3>5. Due(c)' = {m \in 1..h : FromBroker(m) /\ sent[m].event \in wants[c]}
        BY <1>u, <2>1 DEF Due, FromBroker
      <3>6. Given(c)' = handled[c] \o (inbox[c] \o [i \in 1..Pushes(sent[h].event, c) |-> h])
        BY <1>t, <2>1, <3>1, Zenon DEF Given, Route
      <3>7. CASE sent[h].event \notin wants[c]
        <4>1. [i \in 1..Pushes(sent[h].event, c) |-> h] = <<>>
          BY <3>4, <3>7
        <4>0. inbox[c] \o <<>> = inbox[c]
          <5>1. inbox[c] \in Seq(Nat)
            BY <1>g, <3>1
          <5> QED
            BY ONLY <5>1, SMTT(60)
        <4>2. Given(c)' = Given(c)
          BY <3>6, <4>0, <4>1, Zenon DEF Given
        <4>3. Due(c)' = Due(c)
          BY <2>2, <3>3, <3>5, <3>7, Zenon DEF Due
        <4> QED
          BY <3>1, <3>2, <4>2, <4>3, SMTT(60)
      <3>8. CASE sent[h].event \in wants[c]
        <4>1. Pushes(sent[h].event, c) = 1
          BY <3>4, <3>8, SMTT(60)
        <4>2. ASSUME NEW b \in Seq(Nat) PROVE b \o [i \in 1..1 |-> h] = Append(b, h)
          BY ONLY <2>0, b \in Seq(Nat)
        <4>3. Given(c)' = handled[c] \o Append(inbox[c], h)
          BY <1>g, <3>1, <3>6, <4>1, <4>2, Zenon
        <4>4. Given(c)' = Append(Given(c), h)
          BY <1>g, <2>0, <3>1, <4>3, GivenOneMore, Zenon DEF Given
        <4>5. Due(c)' = Due(c) \cup {h}
          BY <2>0, <2>2, <3>3, <3>5, <3>8, Zenon DEF Due
        <4>6. \A m \in Due(c) : m < h
          <5>1. Due(c) \subseteq 1..routed
            BY SMTT(60) DEF Due
          <5> QED
            BY ONLY <1>t, <2>0, <5>1, SMTT(60)
        <4>7. Exact(Append(Given(c), h), Due(c) \cup {h}, Brokered)
          BY <1>g, <2>0, <3>1, <4>6, ExactAppend
        <4> QED
          BY <3>2, <4>4, <4>5, <4>7, SMTT(60)
      <3> QED
        BY <3>7, <3>8, Zenon
    <2> QED
      BY <1>d, <2>1, <2>3, Zenon
  <1>5. ASSUME NEW d \in Components, ListenToMail(d) PROVE Delivered'
    <2>1. /\ inbox[d] # <<>> /\ inbox' = [inbox EXCEPT ![d] = Tail(inbox[d])]
          /\ handled' = [handled EXCEPT ![d] = Append(handled[d], Head(inbox[d]))]
          /\ UNCHANGED <<routed, registry, phase>>
      BY <1>5, Zenon DEF ListenToMail
    <2>2. /\ \A m \in DOMAIN sent : sent'[m].event = sent[m].event /\ sent'[m].via = sent[m].via
          /\ Brokered' = Brokered
      BY <1>5, HandleFacts, ZenonT(60)
    <2>3. ASSUME NEW c \in Attached', phase = "running" PROVE Exact(Given(c)', Due(c)', Brokered')
      <3>1. c \in Components /\ Exact(Given(c), Due(c), Brokered)
        BY <1>e, <1>u, <2>1, <2>3, Zenon
      <3>2. Due(c)' = Due(c)
        BY <1>s, <1>r, <1>u, <2>1, <2>2, <3>1, Zenon
      <3>3. Given(c)' = Given(c)
        <4>1. CASE c # d
          BY <1>t, <2>1, <3>1, <4>1 DEF Given
        <4>2. CASE c = d
          <5>1. Given(c)' = Append(handled[c], Head(inbox[c])) \o Tail(inbox[c])
            BY <1>t, <2>1, <3>1, <4>2, Zenon DEF Given
          <5> QED
            BY <1>g, <2>1, <3>1, <4>2, <5>1, Moved, ZenonT(60) DEF Given
        <4> QED
          BY <4>1, <4>2, SMTT(60)
      <3> QED
        BY <2>2, <3>1, <3>2, <3>3, Zenon
    <2> QED
      BY <1>d, <2>1, <2>3, Zenon
  <1>6. CASE \/ \E c \in Components : Attach(c)
             \/ \E s \in Ids : Detach(s)
             \/ \E s \in Ids, E \in SUBSET Events : Subscribe(s, E) \/ Unsubscribe(s, E)
             \/ Join
    <2>1. phase' # "running"
      BY <1>6, Zenon DEF Attach, Detach, Subscribe, Unsubscribe, Join
    <2> QED
      BY <1>d, <2>1, Zenon
  <1>7. CASE Stir \/ UNCHANGED vars
    <2>1. /\ UNCHANGED <<sent, inbox, handled, routed, wants, phase>> /\ Attached' = Attached
      BY <1>7, StirChangesNothing DEF registry, traffic, Attached
    <2>2. Brokered' = Brokered /\ \A c \in Attached : Given(c)' = Given(c) /\ Due(c)' = Due(c)
      BY <2>1, Zenon DEF Given, Due, Brokered, FromBroker
    <2> QED
      BY <1>d, <1>e, <2>1, <2>2, SMTT(60)
  <1> QED
    BY <1>1, <1>2, <1>3, <1>4, <1>5, <1>6, <1>7, Zenon DEF Next

\* The initial state has no messages.
LEMMA InitDInv == Init => DInv
  <1> SUFFICES ASSUME Init PROVE DInv
    OBVIOUS
  <1>1. Quiet
    BY DEF Init, Quiet
  <1>2. sent = <<>> /\ inMailBox = <<>> /\ routed = 0
    BY DEF Init
  <1>3. Queued
    BY ONLY <1>2 DEF Queued
  <1>4. HandledExist
    BY SMTT(60) DEF Init, HandledExist
  <1>5. WantedIsSubscribable
    BY DEF Init, WantedIsSubscribable
  <1> QED
    BY <1>1, <1>3, <1>4, <1>5, InitRInv DEF DInv, Init, Delivered

\* The order of the messages is an invariant of the program.
THEOREM MessagesInvariant == Spec => []DInv
  <1>1. RInv /\ [Next]_vars => RInv'
    BY StepRegistryTypeOK, StepTrafficTypeOK, StepSleepTypeOK, StepMessagesExist, StepIds,
       StepSubscriptions, StepAttachFails DEF RInv, TypeOK
  <1>2. DInv /\ [Next]_vars => DInv'
    BY <1>1, StepQuiet, StepQueued, StepHandledExist, StepWanted, StepDelivered, Zenon DEF DInv, RInv
  <1> QED
    BY InitDInv, <1>2, PTL DEF Spec

\* Every component is given exactly the messages it subscribed to, each once
\* and in the order in which they were sent to the broker.
THEOREM DeliveredExactlyInOrderHolds == Spec => []DeliveredExactlyInOrder
  <1>1. ASSUME DInv PROVE DeliveredExactlyInOrder
    <2>1. ASSUME phase = "running", NEW c \in Attached
          PROVE  LET routes == {i \in DOMAIN Given(c) : FromBroker(Given(c)[i])}
                 IN  /\ \A i, j \in routes : i < j => Given(c)[i] < Given(c)[j]
                     /\ {Given(c)[i] : i \in routes} = Due(c)
      <3> DEFINE routes == {i \in DOMAIN Given(c) : FromBroker(Given(c)[i])}
      <3>1. Exact(Given(c), Due(c), Brokered) /\ c \in Components
        BY <1>1, <2>1 DEF DInv, Delivered, Attached
      <3>2. \A i \in DOMAIN Given(c) : Given(c)[i] \in DOMAIN sent
        BY <1>1, <3>1, GivenExist, SMTT(60) DEF DInv, RInv
      <3>3. \A i \in routes : i \in DOMAIN Given(c) /\ Given(c)[i] \in Brokered
        BY <3>2 DEF Brokered
      <3>4. \A i, j \in routes : i < j => Given(c)[i] < Given(c)[j]
        BY <3>1, <3>3, Zenon DEF Exact
      <3>5. \A i \in routes : Given(c)[i] \in Due(c)
        BY <3>1, <3>3, Zenon DEF Exact
      <3>6. ASSUME NEW m \in Due(c) PROVE \E i \in routes : Given(c)[i] = m
        <4>1. PICK i \in DOMAIN Given(c) : Given(c)[i] = m
          BY <3>1 DEF Exact
        <4>2. FromBroker(Given(c)[i])
          BY <4>1 DEF Due
        <4> QED
          BY <4>1, <4>2
      <3>7. {Given(c)[i] : i \in routes} = Due(c)
        BY <3>5, <3>6, Zenon
      <3> QED
        BY <3>4, <3>7, Zenon
    <2> QED
      BY <2>1, Zenon DEF DeliveredExactlyInOrder
  <1> QED
    BY <1>1, MessagesInvariant, PTL
-----------------------------------------------------------------------------
(* The payloads *)

HasPayload(m) == sent[m].event \in DataEvents => sent[m].data = "payload"

\* Every mailbox holds messages its component has a callback for.
Answerable ==
    \A c \in Components : \A i \in DOMAIN inbox[c] : sent[inbox[c][i]].event \in Callbacks[c]

\* No handler has taken the payload of a message that is still to be handled.
Unopened ==
    /\ \A i \in DOMAIN inMailBox : HasPayload(inMailBox[i])
    /\ \A c \in Components : \A i \in DOMAIN inbox[c] : HasPayload(inbox[c][i])

\* What the broker has to route did not come past it, and is in no mailbox yet.
NotDirect == \A i \in DOMAIN inMailBox : sent[inMailBox[i]].event \notin DirectEvents

NotRouted ==
    \A i \in DOMAIN inMailBox, c \in Components : \A j \in DOMAIN inbox[c] :
        inMailBox[i] # inbox[c][j]

\* A message with a payload is in one mailbox, once.
InOneMailbox ==
    \A c, d \in Components : \A i \in DOMAIN inbox[c], j \in DOMAIN inbox[d] :
        inbox[c][i] = inbox[d][j] /\ sent[inbox[c][i]].event \in DataEvents => c = d /\ i = j

\* A message with a payload lies in one place.
OnePlace == NotDirect /\ NotRouted /\ InOneMailbox

PInv == DInv /\ Answerable /\ Unopened /\ OnePlace /\ NoAbort

\* A new message is like no other: the queues keep what they promise.
LEMMA OldMessages ==
    ASSUME DInv, NEW e \in Events, NEW via \in {"broker", "session"},
           sent' = Append(sent, NewMessage(e, via))
    PROVE  /\ \A i \in DOMAIN inMailBox :
                 /\ sent'[inMailBox[i]] = sent[inMailBox[i]]
                 /\ inMailBox[i] # Len(sent) + 1
           /\ \A c \in Components : \A i \in DOMAIN inbox[c] :
                 /\ sent'[inbox[c][i]] = sent[inbox[c][i]]
                 /\ inbox[c][i] # Len(sent) + 1
           /\ sent'[Len(sent) + 1].event = e
           /\ e \in DataEvents => sent'[Len(sent) + 1].data = "payload"
  <1>1. /\ inMailBox \in Seq(MessageIds) /\ \A c \in Components : inbox[c] \in Seq(MessageIds)
    BY Zenon DEF DInv, RInv, TypeOK, TrafficTypeOK
  <1>2. /\ DOMAIN inMailBox = 1..Len(inMailBox)
        /\ \A c \in Components : DOMAIN inbox[c] = 1..Len(inbox[c])
    BY <1>1
  <1>3. /\ \A i \in DOMAIN inMailBox : inMailBox[i] \in DOMAIN sent
        /\ \A c \in Components : \A i \in DOMAIN inbox[c] : inbox[c][i] \in DOMAIN sent
    BY <1>2, ZenonT(60) DEF DInv, RInv, MessagesExist
  <1>4. /\ \A m \in DOMAIN sent : sent'[m] = sent[m]
        /\ sent'[Len(sent) + 1] = NewMessage(e, via) /\ NewMessage(e, via).event = e
        /\ Len(sent) \in Nat /\ DOMAIN sent = 1..Len(sent)
    BY SentFacts, SMTT(60) DEF DInv, RInv
  <1>5. Len(sent) + 1 \notin DOMAIN sent
    BY ONLY <1>4
  <1>6. e \in DataEvents => NewMessage(e, via).data = "payload"
    BY DEF NewMessage
  <1> QED
    BY ONLY <1>3, <1>4, <1>5, <1>6

\* SendMessage puts a new message with its payload at the end of the queue.
LEMMA SendPayload ==
    ASSUME PInv, NEW c \in Components, NEW e \in Events, SendMessage(c, e)
    PROVE  Answerable' /\ Unopened' /\ OnePlace' /\ NoAbort'
  <1> USE DEF PInv
  <1>1. /\ sent' = Append(sent, NewMessage(e, "broker")) /\ e \notin DirectEvents
        /\ inMailBox' = Append(inMailBox, Len(sent) + 1) /\ UNCHANGED <<inbox, process>>
    BY DEF SendMessage
  <1> PICK n : n = Len(sent) + 1
    OBVIOUS
  <1>2. /\ \A i \in DOMAIN inMailBox : sent'[inMailBox[i]] = sent[inMailBox[i]]
        /\ \A d \in Components : \A i \in DOMAIN inbox[d] :
              sent'[inbox[d][i]] = sent[inbox[d][i]] /\ inbox[d][i] # n
        /\ sent'[n].event = e /\ (e \in DataEvents => sent'[n].data = "payload")
    BY <1>1, OldMessages, Zenon
  <1>3. \A i \in DOMAIN inMailBox' :
            (i \in DOMAIN inMailBox /\ inMailBox'[i] = inMailBox[i]) \/ inMailBox'[i] = n
    <2>1. inMailBox \in Seq(MessageIds)
      BY Zenon DEF DInv, RInv, TypeOK, TrafficTypeOK
    <2> QED
      BY ONLY <1>1, <2>1, n = Len(sent) + 1
  <1>p. Answerable /\ Unopened /\ OnePlace /\ NoAbort
    BY Zenon DEF PInv
  <1>4. Answerable'
    BY <1>1, <1>2, Zenon DEF Answerable
  <1>5. ASSUME NEW i \in DOMAIN inMailBox'
        PROVE  HasPayload(inMailBox[i])' /\ sent'[inMailBox'[i]].event \notin DirectEvents
    <2>1. CASE inMailBox'[i] = n
      BY ONLY <1>1, <1>2, <2>1, ZenonT(60) DEF HasPayload
    <2>2. CASE i \in DOMAIN inMailBox /\ inMailBox'[i] = inMailBox[i]
      BY ONLY <1>2, <1>p, <2>2, Zenon DEF Unopened, OnePlace, NotDirect, NotRouted, InOneMailbox, HasPayload
    <2> QED
      BY <1>3, <2>1, <2>2
  <1>b. inbox' = inbox
    BY <1>1, Zenon
  <1>6. ASSUME NEW d \in Components, NEW i \in DOMAIN inbox'[d] PROVE HasPayload(inbox[d][i])'
    <2>1. HasPayload(inbox[d][i])
      BY ONLY <1>b, <1>p, <1>6, Zenon DEF Unopened
    <2>2. sent'[inbox[d][i]] = sent[inbox[d][i]]
      BY ONLY <1>b, <1>2, <1>6, Zenon
    <2> QED
      BY ONLY <1>b, <2>1, <2>2, Zenon DEF HasPayload
  <1>7. ASSUME NEW i \in DOMAIN inMailBox', NEW d \in Components, NEW j \in DOMAIN inbox'[d]
        PROVE  inMailBox'[i] # inbox'[d][j]
    <2>1. j \in DOMAIN inbox[d] /\ inbox'[d][j] = inbox[d][j] /\ inbox[d][j] # n
      BY ONLY <1>b, <1>2, <1>7, Zenon
    <2>2. CASE inMailBox'[i] = n
      BY ONLY <2>1, <2>2, Zenon
    <2>3. CASE i \in DOMAIN inMailBox /\ inMailBox'[i] = inMailBox[i]
      <3>1. inMailBox[i] # inbox[d][j]
        BY ONLY <1>p, <1>7, <2>1, <2>3, Zenon DEF OnePlace, NotRouted
      <3> QED
        BY ONLY <2>1, <2>3, <3>1, Zenon
    <2> QED
      BY ONLY <1>3, <1>7, <2>2, <2>3, Zenon
  <1>8. InOneMailbox'
    <2>1. \A b, d \in Components : \A i \in DOMAIN inbox'[b], j \in DOMAIN inbox'[d] :
            inbox'[b][i] = inbox'[d][j] /\ sent'[inbox'[b][i]].event \in DataEvents => b = d /\ i = j
      <3> TAKE b, d \in Components
      <3> TAKE i \in DOMAIN inbox'[b], j \in DOMAIN inbox'[d]
      <3>1. HAVE inbox'[b][i] = inbox'[d][j] /\ sent'[inbox'[b][i]].event \in DataEvents
      <3>2. /\ i \in DOMAIN inbox[b] /\ j \in DOMAIN inbox[d] /\ inbox[b][i] = inbox[d][j]
            /\ sent'[inbox[b][i]].event \in DataEvents
        BY <1>b, <3>1, Zenon
      <3>3. sent'[inbox[b][i]] = sent[inbox[b][i]]
        BY ONLY <1>2, <3>2, b \in Components, Zenon
      <3>4. sent[inbox[b][i]].event \in DataEvents
        BY ONLY <3>2, <3>3, Zenon
      <3> QED
        BY ONLY <1>p, <3>2, <3>4, b \in Components, d \in Components, ZenonT(60)
        DEF OnePlace, InOneMailbox
    <2> QED
      BY ONLY <2>1, Zenon DEF InOneMailbox
  <1>9. OnePlace'
    <2>1. NotDirect'
      BY ONLY <1>5, Zenon DEF NotDirect
    <2>2. NotRouted'
      BY ONLY <1>7, Zenon DEF NotRouted
    <2> QED
      BY ONLY <1>8, <2>1, <2>2, Zenon DEF OnePlace
  <1>10. Unopened'
    BY ONLY <1>5, <1>6, Zenon DEF Unopened
  <1>11. NoAbort'
    BY <1>1, <1>p, SMTT(60) DEF NoAbort
  <1> QED
    BY <1>4, <1>9, <1>10, <1>11, Zenon

\* A session puts a new message with its payload at the end of one mailbox.
LEMMA PutPayload ==
    ASSUME PInv, NEW c \in Components, NEW e \in Events, PutMessageIntoAppMailbox(c, e)
    PROVE  Answerable' /\ Unopened' /\ OnePlace' /\ NoAbort'
  <1> USE DEF PInv
  <1>1. /\ sent' = Append(sent, NewMessage(e, "session")) /\ e \in Callbacks[c]
        /\ inbox' = [inbox EXCEPT ![c] = Append(inbox[c], Len(sent) + 1)]
        /\ UNCHANGED <<inMailBox, process>>
    BY DEF PutMessageIntoAppMailbox
  <1> PICK n : n = Len(sent) + 1
    OBVIOUS
  <1>2. /\ \A i \in DOMAIN inMailBox : sent'[inMailBox[i]] = sent[inMailBox[i]] /\ inMailBox[i] # n
        /\ \A d \in Components : \A i \in DOMAIN inbox[d] :
              sent'[inbox[d][i]] = sent[inbox[d][i]] /\ inbox[d][i] # n
        /\ sent'[n].event = e /\ (e \in DataEvents => sent'[n].data = "payload")
    BY <1>1, OldMessages, Zenon
  <1>t. inbox \in [Components -> Seq(MessageIds)]
    BY Zenon DEF DInv, RInv, TypeOK, TrafficTypeOK
  <1>3. ASSUME NEW d \in Components, NEW i \in DOMAIN inbox'[d]
        PROVE  \/ i \in DOMAIN inbox[d] /\ inbox'[d][i] = inbox[d][i]
               \/ d = c /\ i = Len(inbox[c]) + 1 /\ inbox'[d][i] = n
    <2>1. CASE d # c
      BY <1>1, <1>t, <2>1, Zenon
    <2>2. CASE d = c
      <3> PICK b \in Seq(MessageIds) : b = inbox[c]
        BY ONLY <1>t, c \in Components, SMTT(60)
      <3>1. inbox'[d] = Append(b, n)
        BY <1>1, <1>t, <2>2
      <3> QED
        BY ONLY <2>2, <3>1, b = inbox[c], b \in Seq(MessageIds), i \in DOMAIN inbox'[d]
    <2> QED
      BY <2>1, <2>2
  <1>p. Answerable /\ Unopened /\ OnePlace /\ NoAbort
    BY Zenon DEF PInv
  <1>4. Answerable'
    <2>1. ASSUME NEW d \in Components, NEW i \in DOMAIN inbox'[d]
          PROVE  sent'[inbox'[d][i]].event \in Callbacks[d]
      <3>1. CASE i \in DOMAIN inbox[d] /\ inbox'[d][i] = inbox[d][i]
        BY ONLY <1>2, <1>p, <3>1, d \in Components DEF Answerable
      <3>2. CASE d = c /\ inbox'[d][i] = n
        BY <1>1, <1>2, <3>2, Zenon
      <3> QED
        BY <1>3, <3>1, <3>2, ZenonT(60)
    <2> QED
      BY ONLY <2>1, Zenon DEF Answerable
  <1>5. /\ \A i \in DOMAIN inMailBox' : HasPayload(inMailBox[i])'
        /\ \A i \in DOMAIN inMailBox' : sent'[inMailBox'[i]].event \notin DirectEvents
    BY <1>1, <1>2, ZenonT(60) DEF Unopened, OnePlace, NotDirect, HasPayload
  <1>6. \A d \in Components : \A i \in DOMAIN inbox'[d] : HasPayload(inbox[d][i])'
    BY ONLY <1>2, <1>3, <1>p DEF Unopened, HasPayload
  <1>7. \A i \in DOMAIN inMailBox', d \in Components : \A j \in DOMAIN inbox'[d] :
          inMailBox'[i] # inbox'[d][j]
    <2>1. ASSUME NEW i \in DOMAIN inMailBox', NEW d \in Components, NEW j \in DOMAIN inbox'[d]
          PROVE  inMailBox'[i] # inbox'[d][j]
      <3>1. i \in DOMAIN inMailBox /\ inMailBox'[i] = inMailBox[i] /\ inMailBox[i] # n
        BY <1>1, <1>2, <2>1, Zenon
      <3>2. CASE j \in DOMAIN inbox[d] /\ inbox'[d][j] = inbox[d][j]
        BY ONLY <1>p, <3>1, <3>2, d \in Components, Zenon DEF OnePlace, NotRouted
      <3>3. CASE inbox'[d][j] = n
        BY ONLY <3>1, <3>3, Zenon
      <3> QED
        BY <1>3, <2>1, <3>2, <3>3, Zenon
    <2> QED
      BY ONLY <2>1, Zenon
  <1>8. ASSUME NEW b \in Components, NEW d \in Components,
               NEW i \in DOMAIN inbox'[b], NEW j \in DOMAIN inbox'[d],
               inbox'[b][i] = inbox'[d][j], sent'[inbox'[b][i]].event \in DataEvents
        PROVE  b = d /\ i = j
    BY ONLY <1>2, <1>3, <1>8, <1>p DEF OnePlace, InOneMailbox
  <1>9. OnePlace'
    <2>1. InOneMailbox'
      BY ONLY <1>8 DEF InOneMailbox
    <2>2. NotRouted'
      BY ONLY <1>7, Zenon DEF NotRouted
    <2> QED
      BY ONLY <1>5, <2>1, <2>2, Zenon DEF OnePlace, NotDirect
  <1>10. Unopened'
    BY ONLY <1>5, <1>6, Zenon DEF Unopened
  <1>11. NoAbort'
    BY <1>1, <1>p DEF NoAbort
  <1> QED
    BY <1>4, <1>9, <1>10, <1>11, Zenon

\* Run moves the first message of the queue to its subscribers, of which an
\* event with a payload has one.
LEMMA RunPayload ==
    ASSUME Unshared, PInv, Run
    PROVE  Answerable' /\ Unopened' /\ OnePlace' /\ NoAbort'
  <1> USE DEF PInv
  <1> PICK h : h = Head(inMailBox)
    OBVIOUS
  <1>0. /\ inMailBox \in Seq(MessageIds) /\ inMailBox # <<>> /\ h = inMailBox[1]
        /\ 1 \in DOMAIN inMailBox /\ sent[h].event \in Events
    BY RunFacts DEF DInv, RInv
  <1>1. inMailBox' = Tail(inMailBox) /\ inbox' = Route(h) /\ UNCHANGED <<sent, process>>
    BY DEF Run
  <1>2. ASSUME NEW i \in DOMAIN inMailBox'
        PROVE  /\ i + 1 \in DOMAIN inMailBox /\ inMailBox'[i] = inMailBox[i + 1]
               /\ inMailBox'[i] # h
    <2>1. i + 1 \in DOMAIN inMailBox /\ inMailBox'[i] = inMailBox[i + 1] /\ 1 < i + 1
      BY ONLY <1>0, <1>1, i \in DOMAIN inMailBox'
    <2>2. inMailBox[1] < inMailBox[i + 1] /\ inMailBox[1] \in Nat /\ inMailBox[i + 1] \in Nat
      BY <1>0, <2>1 DEF DInv, Queued, MessageIds
    <2> QED
      BY ONLY <1>0, <2>1, <2>2
  <1>3. /\ sent[h].event \notin DirectEvents /\ HasPayload(h)
        /\ \A d \in Components : \A j \in DOMAIN inbox[d] : inbox[d][j] # h
    <2>1. NotDirect /\ NotRouted /\ Unopened
      BY Zenon DEF OnePlace
    <2>2. 1 \in DOMAIN inMailBox /\ h = inMailBox[1]
      BY ONLY <1>0, Zenon
    <2>3. sent[h].event \notin DirectEvents
      BY ONLY <2>1, <2>2, Zenon DEF NotDirect
    <2>4. HasPayload(h)
      BY ONLY <2>1, <2>2, Zenon DEF Unopened
    <2>5. \A d \in Components : \A j \in DOMAIN inbox[d] : inbox[d][j] # h
      BY ONLY <2>1, <2>2, Zenon DEF NotRouted
    <2> QED
      BY ONLY <2>3, <2>4, <2>5, Zenon
  <1>4. ASSUME NEW d \in Components, NEW i \in DOMAIN inbox'[d]
        PROVE  \/ i \in DOMAIN inbox[d] /\ inbox'[d][i] = inbox[d][i]
               \/ /\ sent[h].event \in wants[d] /\ i = Len(inbox[d]) + 1 /\ inbox'[d][i] = h
    <2> PICK b \in Seq(MessageIds) : b = inbox[d]
      BY Zenon DEF DInv, RInv, TypeOK, TrafficTypeOK
    <2>1. inbox'[d] = b \o [k \in 1..Pushes(sent[h].event, d) |-> h]
      BY <1>1, Zenon DEF Route
    <2>2. Pushes(sent[h].event, d) = IF d \in Attached /\ sent[h].event \in wants[d] THEN 1 ELSE 0
      BY <1>0, PushesOnce DEF DInv
    <2>3. CASE d \in Attached /\ sent[h].event \in wants[d]
      <3>1. inbox'[d] = b \o [k \in 1..1 |-> h]
        BY <2>1, <2>2, <2>3
      <3>2. (i \in DOMAIN b /\ inbox'[d][i] = b[i]) \/ (i = Len(b) + 1 /\ inbox'[d][i] = h)
        <4>1. h \in Nat
          BY ONLY <1>0 DEF MessageIds
        <4>2. b \o [k \in 1..1 |-> h] = Append(b, h)
          BY ONLY <4>1, b \in Seq(MessageIds)
        <4>3. inbox'[d] = Append(b, h)
          BY ONLY <3>1, <4>2
        <4> QED
          BY ONLY <4>3, b \in Seq(MessageIds), i \in DOMAIN inbox'[d]
      <3> QED
        BY <2>3, <3>2
    <2>4. CASE ~ (d \in Attached /\ sent[h].event \in wants[d])
      <3>1. inbox'[d] = b \o [k \in 1..0 |-> h]
        BY <2>1, <2>2, <2>4, Zenon
      <3>2. inbox'[d] = b
        BY ONLY <3>1, b \in Seq(MessageIds)
      <3> QED
        BY <3>2
    <2> QED
      BY <2>3, <2>4
  <1>5. \A d \in Components : sent[h].event \in wants[d] =>
            sent[h].event \in Subscribable[d] /\ sent[h].event \in Callbacks[d]
    BY Zenon DEF Unshared, DInv, WantedIsSubscribable
  <1>6. \A b, d \in Components : sent[h].event \in DataEvents /\ sent[h].event \in wants[b]
            /\ sent[h].event \in wants[d] => b = d
    BY <1>3, <1>5, Zenon DEF Unshared
  <1>7. Answerable'
    BY <1>1, <1>4, <1>5 DEF Answerable
  <1>8. Unopened'
    <2>1. \A i \in DOMAIN inMailBox' : HasPayload(inMailBox[i])'
      BY <1>1, <1>2, Zenon DEF Unopened, HasPayload
    <2>2. ASSUME NEW d \in Components, NEW i \in DOMAIN inbox'[d] PROVE HasPayload(inbox[d][i])'
      <3>0. sent' = sent /\ Unopened
        BY <1>1, Zenon
      <3>1. CASE i \in DOMAIN inbox[d] /\ inbox'[d][i] = inbox[d][i]
        <4>1. HasPayload(inbox[d][i])
          BY ONLY <3>0, <3>1, d \in Components, Zenon DEF Unopened
        <4> QED
          BY ONLY <3>0, <3>1, <4>1, Zenon DEF HasPayload
      <3>2. CASE inbox'[d][i] = h
        BY ONLY <1>3, <3>0, <3>2, Zenon DEF HasPayload
      <3> QED
        BY ONLY <1>4, <2>2, <3>1, <3>2, Zenon
    <2> QED
      BY <2>1, <2>2 DEF Unopened
  <1>9. OnePlace'
    <2>1. \A i \in DOMAIN inMailBox' : sent'[inMailBox'[i]].event \notin DirectEvents
      BY <1>1, <1>2, Zenon DEF OnePlace, NotDirect
    <2>p. NotRouted /\ InOneMailbox
      BY Zenon DEF OnePlace
    <2>2. ASSUME NEW i \in DOMAIN inMailBox', NEW d \in Components, NEW j \in DOMAIN inbox'[d]
          PROVE  inMailBox'[i] # inbox'[d][j]
      <3>1. i + 1 \in DOMAIN inMailBox /\ inMailBox'[i] = inMailBox[i + 1] /\ inMailBox'[i] # h
        BY ONLY <1>2, <2>2, Zenon
      <3>2. CASE j \in DOMAIN inbox[d] /\ inbox'[d][j] = inbox[d][j]
        BY ONLY <2>p, <3>1, <3>2, d \in Components, Zenon DEF NotRouted
      <3>3. CASE inbox'[d][j] = h
        BY ONLY <3>1, <3>3, Zenon
      <3> QED
        BY ONLY <1>4, <2>2, <3>2, <3>3, Zenon
    <2>3. ASSUME NEW b \in Components, NEW d \in Components,
                 NEW i \in DOMAIN inbox'[b], NEW j \in DOMAIN inbox'[d],
                 inbox'[b][i] = inbox'[d][j], sent'[inbox'[b][i]].event \in DataEvents
          PROVE  b = d /\ i = j
      <3>0. sent[inbox'[b][i]].event \in DataEvents
        BY ONLY <1>1, <2>3, Zenon
      <3>1. CASE i \in DOMAIN inbox[b] /\ inbox'[b][i] = inbox[b][i]
        <4>1. j \in DOMAIN inbox[d] /\ inbox'[d][j] = inbox[d][j]
          <5>1. inbox'[d][j] # h
            BY ONLY <1>3, <2>3, <3>1, b \in Components, Zenon
          <5> QED
            BY ONLY <1>4, <5>1, d \in Components, j \in DOMAIN inbox'[d], Zenon
        <4>2. inbox[b][i] = inbox[d][j] /\ sent[inbox[b][i]].event \in DataEvents
          BY ONLY <2>3, <3>0, <3>1, <4>1, Zenon
        <4> QED
          BY ONLY <2>p, <3>1, <4>1, <4>2, b \in Components, d \in Components, Zenon
          DEF InOneMailbox
      <3>2. CASE sent[h].event \in wants[b] /\ i = Len(inbox[b]) + 1 /\ inbox'[b][i] = h
        <4>1. sent[h].event \in wants[d] /\ j = Len(inbox[d]) + 1
          <5>1. ~(j \in DOMAIN inbox[d] /\ inbox'[d][j] = inbox[d][j])
            BY ONLY <1>3, <2>3, <3>2, d \in Components, Zenon
          <5> QED
            BY ONLY <1>4, <5>1, d \in Components, j \in DOMAIN inbox'[d], Zenon
        <4>2. b = d
          BY ONLY <1>6, <3>0, <3>2, <4>1, b \in Components, d \in Components, Zenon
        <4> QED
          BY ONLY <3>2, <4>1, <4>2, Zenon
      <3> QED
        BY ONLY <1>4, <2>3, <3>1, <3>2, Zenon
    <2>4. InOneMailbox'
      BY ONLY <2>3 DEF InOneMailbox
    <2>5. NotDirect' /\ NotRouted'
      BY ONLY <2>1, <2>2, Zenon DEF NotDirect, NotRouted
    <2> QED
      BY ONLY <2>4, <2>5, Zenon DEF OnePlace
  <1> QED
    BY <1>1, <1>7, <1>8, <1>9 DEF NoAbort

\* A handler finds its callback and its payload, and takes no other's.
LEMMA HandlePayload ==
    ASSUME PInv, NEW c \in Components, ListenToMail(c)
    PROVE  Answerable' /\ Unopened' /\ OnePlace' /\ NoAbort'
  <1> USE DEF PInv
  <1> PICK h : h = Head(inbox[c])
    OBVIOUS
  <1>0. /\ inbox[c] \in Seq(MessageIds) /\ inbox[c] # <<>> /\ 1 \in DOMAIN inbox[c] /\ h = inbox[c][1]
        /\ h \in DOMAIN sent
        /\ \A m \in DOMAIN sent : sent'[m].event = sent[m].event
        /\ \A m \in DOMAIN sent : m # h => sent'[m] = sent[m]
    BY HandleFacts, Zenon DEF DInv, RInv
  <1>1. /\ inbox' = [inbox EXCEPT ![c] = Tail(inbox[c])] /\ UNCHANGED inMailBox
        /\ process' = IF CanHandle(c, sent[h]) THEN "alive" ELSE "aborted"
    BY DEF ListenToMail
  <1>t. inbox \in [Components -> Seq(MessageIds)] /\ inMailBox \in Seq(MessageIds)
    BY Zenon DEF DInv, RInv, TypeOK, TrafficTypeOK
  <1>x. /\ \A i \in DOMAIN inMailBox : inMailBox[i] \in DOMAIN sent
        /\ \A d \in Components : \A i \in DOMAIN inbox[d] : inbox[d][i] \in DOMAIN sent
    <2>1. /\ DOMAIN inMailBox = 1..Len(inMailBox)
          /\ \A d \in Components : DOMAIN inbox[d] = 1..Len(inbox[d])
      BY <1>t
    <2> QED
      BY <2>1, SMTT(60) DEF DInv, RInv, MessagesExist
  <1>2. ASSUME NEW d \in Components, NEW i \in DOMAIN inbox'[d]
        PROVE  \/ d # c /\ i \in DOMAIN inbox[d] /\ inbox'[d][i] = inbox[d][i]
               \/ d = c /\ i \in Nat /\ i + 1 # 1 /\ i + 1 \in DOMAIN inbox[d] /\ inbox'[d][i] = inbox[d][i + 1]
    <2>1. CASE d # c
      BY <1>1, <1>t, <2>1
    <2>2. CASE d = c
      <3>1. inbox'[d] = Tail(inbox[c])
        BY ONLY <1>1, <1>t, <2>2, c \in Components, SMTT(60)
      <3> QED
        BY ONLY <1>0, <2>2, <3>1, i \in DOMAIN inbox'[d]
    <2> QED
      BY <2>1, <2>2
  <1>3. CanHandle(c, sent[h])
    BY <1>0 DEF Answerable, Unopened, HasPayload, CanHandle
  <1>4. Answerable'
    <2>1. ASSUME NEW d \in Components, NEW i \in DOMAIN inbox'[d]
          PROVE  sent'[inbox'[d][i]].event \in Callbacks[d]
      <3>1. PICK k \in DOMAIN inbox[d] : inbox'[d][i] = inbox[d][k]
        BY ONLY <1>2, <2>1, Zenon
      <3> QED
        BY <1>0, <1>x, <3>1, Zenon DEF PInv, Answerable
    <2> QED
      BY ONLY <2>1, Zenon DEF Answerable
  <1>6. Unopened'
    <2>1. ASSUME NEW i \in DOMAIN inMailBox' PROVE HasPayload(inMailBox[i])'
      <3>1. inMailBox[i] # h /\ HasPayload(inMailBox[i]) /\ inMailBox[i] \in DOMAIN sent
        BY <1>0, <1>1, <1>x, <2>1, ZenonT(60) DEF OnePlace, NotRouted, Unopened
      <3> QED
        <4>1. inMailBox'[i] = inMailBox[i]
          BY ONLY <1>1, Zenon
        <4>2. sent'[inMailBox[i]] = sent[inMailBox[i]]
          BY ONLY <1>0, <3>1, Zenon
        <4> QED
          BY ONLY <3>1, <4>1, <4>2, Zenon DEF HasPayload
    <2>2. ASSUME NEW d \in Components, NEW i \in DOMAIN inbox'[d] PROVE HasPayload(inbox[d][i])'
      <3>1. PICK k \in DOMAIN inbox[d] : inbox'[d][i] = inbox[d][k] /\ (d # c \/ k # 1)
        BY <1>2, Zenon
      <3>2. inbox[d][k] \in DOMAIN sent /\ HasPayload(inbox[d][k])
        BY <1>0, <1>x, Zenon DEF Unopened
      <3>3. inbox[d][k] = h => sent[h].event \notin DataEvents
        <4>1. InOneMailbox
          BY Zenon DEF OnePlace
        <4> QED
          BY ONLY <1>0, <3>1, <4>1, c \in Components, d \in Components, ZenonT(60) DEF InOneMailbox
      <3> QED
        BY <1>0, <3>1, <3>2, <3>3, Zenon DEF HasPayload
    <2> QED
      BY <2>1, <2>2, Zenon DEF Unopened
  <1>7. OnePlace'
    <2>1. \A i \in DOMAIN inMailBox' : sent'[inMailBox'[i]].event \notin DirectEvents
      BY <1>0, <1>1, <1>x, Zenon DEF OnePlace, NotDirect
    <2>2. \A i \in DOMAIN inMailBox', d \in Components : \A j \in DOMAIN inbox'[d] :
            inMailBox'[i] # inbox'[d][j]
      <3>1. ASSUME NEW i \in DOMAIN inMailBox', NEW d \in Components, NEW j \in DOMAIN inbox'[d]
            PROVE  inMailBox'[i] # inbox'[d][j]
        <4>1. PICK k \in DOMAIN inbox[d] : inbox'[d][j] = inbox[d][k]
          BY ONLY <1>2, <3>1, Zenon
        <4> QED
          BY <1>1, <3>1, <4>1, Zenon DEF PInv, OnePlace, NotRouted
      <3> QED
        BY ONLY <3>1, Zenon
    <2>3. ASSUME NEW b \in Components, NEW d \in Components,
                 NEW i \in DOMAIN inbox'[b], NEW j \in DOMAIN inbox'[d],
                 inbox'[b][i] = inbox'[d][j], sent'[inbox'[b][i]].event \in DataEvents
          PROVE  b = d /\ i = j
      <3>1. PICK k \in DOMAIN inbox[b] : inbox'[b][i] = inbox[b][k] /\ k = IF b = c THEN i + 1 ELSE i
        BY <1>2, Zenon
      <3>2. PICK l \in DOMAIN inbox[d] : inbox'[d][j] = inbox[d][l] /\ l = IF d = c THEN j + 1 ELSE j
        BY <1>2, Zenon
      <3>3. sent[inbox[b][k]].event \in DataEvents
        BY <1>0, <1>x, <2>3, <3>1, Zenon
      <3>o. InOneMailbox
        BY Zenon DEF PInv, OnePlace
      <3>4. b = d /\ k = l
        <4>1. inbox[b][k] = inbox[d][l]
          BY ONLY <2>3, <3>1, <3>2, Zenon
        <4> QED
          BY ONLY <3>3, <3>o, <4>1, b \in Components, d \in Components, k \in DOMAIN inbox[b],
             l \in DOMAIN inbox[d], Zenon DEF InOneMailbox
      <3>5. b = c => i \in Nat /\ j \in Nat
        BY <1>2, <3>4
      <3> QED
        BY ONLY <3>1, <3>2, <3>4, <3>5
    <2>4. InOneMailbox'
      BY ONLY <2>3 DEF InOneMailbox
    <2>5. NotDirect' /\ NotRouted'
      BY ONLY <2>1, <2>2, Zenon DEF NotDirect, NotRouted
    <2> QED
      BY ONLY <2>4, <2>5, Zenon DEF OnePlace
  <1> QED
    BY <1>1, <1>3, <1>4, <1>6, <1>7 DEF NoAbort

\* What main sets up and takes down leaves the queues, or clears an empty one.
LEMMA RegistryPayload ==
    ASSUME PInv, UNCHANGED <<sent, inMailBox, process>>,
           inbox' = inbox \/ \E c \in Components : inbox' = [inbox EXCEPT ![c] = <<>>]
    PROVE  Answerable' /\ Unopened' /\ OnePlace' /\ NoAbort'
  <1> USE DEF PInv
  <1>1. \A d \in Components : \A i \in DOMAIN inbox'[d] : i \in DOMAIN inbox[d] /\ inbox'[d][i] = inbox[d][i]
    <2>1. inbox \in [Components -> Seq(MessageIds)]
      BY Zenon DEF DInv, RInv, TypeOK, TrafficTypeOK
    <2>2. CASE inbox' = inbox
      BY ONLY <2>2
    <2>3. ASSUME NEW c \in Components, inbox' = [inbox EXCEPT ![c] = <<>>],
                 NEW d \in Components, NEW i \in DOMAIN inbox'[d]
          PROVE  i \in DOMAIN inbox[d] /\ inbox'[d][i] = inbox[d][i]
      <3>1. d # c
        BY ONLY <2>1, <2>3
      <3> QED
        BY ONLY <2>1, <2>3, <3>1
    <2> QED
      BY <2>2, <2>3
  <1>2. Answerable'
    BY <1>1 DEF Answerable
  <1>3. Unopened'
    BY <1>1 DEF Unopened, HasPayload
  <1>4. OnePlace'
    BY <1>1 DEF OnePlace, NotDirect, NotRouted, InOneMailbox
  <1> QED
    BY <1>2, <1>3, <1>4 DEF NoAbort

\* If no two components subscribe to an event with a payload, and each has a
\* callback for what it subscribes to, no mailbox thread ever throws: the
\* payload moved out of the shared message is not missed by another handler.
THEOREM NoAbortHolds == Unshared => (Spec => []NoAbort)
  <1> SUFFICES ASSUME Unshared PROVE Spec => []NoAbort
    OBVIOUS
  <1>1. Init => PInv
    <2> SUFFICES ASSUME Init PROVE PInv
      OBVIOUS
    <2>1. inMailBox = <<>> /\ process = "alive" /\ \A c \in Components : inbox[c] = <<>>
      BY DEF Init
    <2> QED
      BY <2>1, InitDInv DEF PInv, Answerable, Unopened, OnePlace, NotDirect, NotRouted, InOneMailbox, NoAbort
  <1>2. ASSUME PInv, DInv', [Next]_vars PROVE PInv'
    <2> SUFFICES Answerable' /\ Unopened' /\ OnePlace' /\ NoAbort'
      BY <1>2 DEF PInv
    <2>1. ASSUME NEW c \in Components, NEW e \in Events,
                 SendMessage(c, e) \/ PutMessageIntoAppMailbox(c, e)
          PROVE  Answerable' /\ Unopened' /\ OnePlace' /\ NoAbort'
      BY <1>2, <2>1, SendPayload, PutPayload
    <2>2. CASE Run
      BY <1>2, <2>2, RunPayload
    <2>3. ASSUME NEW c \in Components, ListenToMail(c)
          PROVE  Answerable' /\ Unopened' /\ OnePlace' /\ NoAbort'
      BY <1>2, <2>3, HandlePayload
    <2>4. CASE \/ \E c \in Components : Attach(c)
               \/ \E s \in Ids : Detach(s)
               \/ \E s \in Ids, E \in SUBSET Events : Subscribe(s, E) \/ Unsubscribe(s, E)
               \/ Launch \/ Join \/ Stir \/ UNCHANGED vars
      <3>1. /\ UNCHANGED <<sent, inMailBox, process>>
            /\ inbox' = inbox \/ \E c \in Components : inbox' = [inbox EXCEPT ![c] = <<>>]
        BY <2>4, StirChangesNothing, Zenon
           DEF Attach, Detach, Subscribe, Unsubscribe, Launch, Join, traffic
      <3> QED
        BY <1>2, <3>1, RegistryPayload
    <2> QED
      BY <1>2, <2>1, <2>2, <2>3, <2>4, Zenon DEF Next
  <1>3. PInv => NoAbort
    BY DEF PInv
  <1> QED
    BY <1>1, <1>2, <1>3, MessagesInvariant, PTL DEF Spec
=============================================================================
