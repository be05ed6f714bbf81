------------------------------- MODULE Broker -------------------------------
(***************************************************************************)
(* The message bus: BVBroker (include/BVBroker.hpp, src/BVBroker.cpp) and  *)
(* the mailbox side of its components (include/BVComponent.hpp).           *)
(*                                                                         *)
(* The broker keeps a mailbox for every subscriber id and, for every event *)
(* type, the ids that subscribed to it.  Its worker thread takes messages  *)
(* from one queue and pushes each, as one shared object, into the mailbox  *)
(* of every subscriber; each component's mailbox thread takes them out and *)
(* calls the handler of the event with the payload MOVED out of the shared *)
(* object.  A mailbox is the atomic FIFO that FifoQueue specifies, whose    *)
(* reader may miss the notification of a push and sleep on over a mailbox  *)
(* that is not empty, as module ThreadSafeQueue finds it.  A vector of     *)
(* subs_m is how often it holds each id: its order only decides which of   *)
(* several mailboxes is pushed to first.                                   *)
(*                                                                         *)
(* The two maps have no lock.  main sets them up before the threads start  *)
(* and takes them down after they are joined; phase is main's progress.    *)
(* One of the threads it joins is the worker of the discovery: modules     *)
(* AvahiDiscovery and BonjourDiscovery say when that one ends, here it may *)
(* at any time after the discovery's OnShutdown, or never.                 *)
(***************************************************************************)
EXTENDS Naturals, FiniteSets, Sequences

CONSTANTS Components,     \* the components main attaches
          Discovery,      \* the one of them that has a worker of its own
          Events,         \* BVEventType
          TerminateAll,   \* BVEVENTTYPE_TERMINATE_ALL
          DataEvents,     \* events whose handler needs the payload
          DirectEvents,   \* events TCP sessions push into a mailbox themselves
          Subscribable,   \* for each component, the events it may subscribe to
          Callbacks,      \* for each component, the events in its callback_m
          NumIds,         \* UINT8_MAX + 1
          None,           \* nullptr, no id
          MaxSent         \* bound: messages sent in a behaviour

ASSUME BrokerAssumption ==
    /\ NumIds \in Nat \ {0}
    /\ MaxSent \in Nat
    /\ TerminateAll \in Events \ DataEvents
    /\ DataEvents \subseteq Events
    /\ DirectEvents \subseteq Events \ {TerminateAll}
    /\ Discovery \in Components
    /\ None \notin Components
    /\ None \notin Nat
    /\ IsFiniteSet(Components)
    /\ Subscribable \in [Components -> SUBSET Events]
    /\ Callbacks \in [Components -> SUBSET Events]

Ids == 0..NumIds-1

VARIABLES mailbox,     \* mailbox_m: whose queue is at an id
          subs,        \* subs_m: how often an id is in an event's vector
          registered,  \* numOfSubscribersRegistered, a uint8_t
          current,     \* currentSubscriberId
          status,      \* the status the last call of a registry operation returned
          id,          \* every component's SubscriberID
          inMailBox,   \* the broker's queue
          inbox,       \* every component's queue
          sent,        \* the message objects: event, data_p, the way they were sent
          worker,      \* the worker thread: "off", "running" or "done"
          listening,   \* the components whose mailbox thread is in ListenToMail
          handled,     \* ghost: what each component's handlers were called with
          wants,       \* ghost: what each component is subscribed to
          routed,      \* ghost: how many messages of the queue were routed
          lost,        \* the threads asleep over a push they were not woken for:
                       \* components, and None for the broker's worker
          browser,     \* the discovery's worker: "off", "running" or "done"
          phase,       \* main: "setup", "running" or "joined"
          process      \* "alive", or "aborted" by an exception that left a thread

registry == <<mailbox, subs, registered, current, status, id, wants>>
traffic  == <<inMailBox, inbox, sent, worker, listening, handled, routed, process>>
sleep    == <<lost, browser>>
vars     == <<registry, traffic, sleep, phase>>

\* The constructor, and components that are not attached yet.
Init ==
    /\ mailbox = [s \in Ids |-> None]
    /\ subs = [e \in Events |-> [s \in Ids |-> 0]]
    /\ registered = 0
    /\ current = 0
    /\ status = "OK"
    /\ id = [c \in Components |-> None]
    /\ inMailBox = <<>>
    /\ inbox = [c \in Components |-> <<>>]
    /\ sent = <<>>
    /\ worker = "off"
    /\ listening = {}
    /\ handled = [c \in Components |-> <<>>]
    /\ wants = [c \in Components |-> {}]
    /\ routed = 0
    /\ lost = {}
    /\ browser = "off"
    /\ phase = "setup"
    /\ process = "alive"
-----------------------------------------------------------------------------
(* The registry *)

\* Mutant: the cycle is taken modulo UINT8_MAX, so the last id is never tried.
CycledIdShort(m, start) ==
    LET tries == {k \in 1..NumIds-1 : m[(start + k) % (NumIds - 1)] = None}
    IN  IF tries = {} THEN start
        ELSE (start + CHOOSE k \in tries : \A j \in tries : k <= j) % (NumIds - 1)

\* CycleCurrentSubscriberId: the first id after start whose mailbox is free,
\* all the way round; start again if there is none.
CycledId(m, start) ==
    LET tries == {k \in 1..NumIds : m[(start + k) % NumIds] = None}
    IN  IF tries = {} THEN start
        ELSE (start + CHOOSE k \in tries : \A j \in tries : k <= j) % NumIds

\* The id Attach hands out: currentSubscriberId, moved on if it is taken.
AttachId ==
    IF mailbox[current] # None THEN CycledId(mailbox, current) ELSE current

\* Mutant: Attach does not look whether the id is free.
AttachOverwrites(c) ==
    /\ phase = "setup"
    /\ id[c] = None
    /\ status' = "OK"
    /\ mailbox' = [mailbox EXCEPT ![AttachId] = c]
    /\ id' = [id EXCEPT ![c] = AttachId]
    /\ inbox' = [inbox EXCEPT ![c] = <<>>]
    /\ registered' = (registered + 1) % NumIds
    /\ current' = CycledId(mailbox', AttachId)
    /\ UNCHANGED <<subs, inMailBox, sent, worker, listening, handled, wants,
                   routed, phase, process, sleep>>

\* numOfSubscribersRegistered is a uint8_t, so the first test of Attach, whether
\* it has reached UINT8_MAX + 1, is never true: a full broker is one whose
\* currentSubscriberId cannot be moved to a free id.
Attach(c) ==
    /\ phase = "setup"
    /\ id[c] = None
    /\ IF mailbox[AttachId] # None
       THEN /\ status' = "MAX_COMPONENTS"
            /\ current' = AttachId
            /\ UNCHANGED <<mailbox, subs, registered, id, wants, traffic, sleep, phase>>
       ELSE /\ status' = "OK"
            /\ mailbox' = [mailbox EXCEPT ![AttachId] = c]
            /\ id' = [id EXCEPT ![c] = AttachId]
            /\ inbox' = [inbox EXCEPT ![c] = <<>>]
            /\ registered' = (registered + 1) % NumIds
            /\ current' = CycledId(mailbox', AttachId)
            /\ UNCHANGED <<subs, inMailBox, sent, worker, listening, handled, wants,
                           routed, phase, process, sleep>>

\* Mutant: Detach leaves the id in the subscriber lists.
DetachKeepsSubscriptions(s) ==
    /\ phase \in {"setup", "joined"}
    /\ mailbox[s] # None
    /\ status' = "OK"
    /\ mailbox' = [mailbox EXCEPT ![s] = None]
    /\ id' = [id EXCEPT ![mailbox[s]] = None]
    /\ wants' = [wants EXCEPT ![mailbox[s]] = {}]
    /\ registered' = (registered + NumIds - 1) % NumIds
    /\ UNCHANGED <<current, subs, traffic, sleep, phase>>

\* Detach of an id without a mailbox is a FATAL_ERROR that changes nothing.
Detach(s) ==
    /\ phase \in {"setup", "joined"}
    /\ IF mailbox[s] = None
       THEN /\ status' = "FATAL_ERROR"
            /\ UNCHANGED <<mailbox, subs, registered, id, wants>>
       ELSE /\ status' = "OK"
            /\ mailbox' = [mailbox EXCEPT ![s] = None]
            /\ id' = [id EXCEPT ![mailbox[s]] = None]
            /\ wants' = [wants EXCEPT ![mailbox[s]] = {}]
            /\ registered' = (registered + NumIds - 1) % NumIds
            /\ subs' = [e \in Events |-> [subs[e] EXCEPT ![s] = 0]]
    /\ UNCHANGED <<current, traffic, sleep, phase>>

\* Mutant: Subscribe pushes the id without looking for it.
SubscribeAgain(s, E) ==
    /\ phase = "setup"
    /\ mailbox[s] # None
    /\ E \subseteq Subscribable[mailbox[s]]
    /\ status' = "OK"
    /\ subs' = [e \in Events |-> IF e \in E /\ subs[e][s] < 2 THEN [subs[e] EXCEPT ![s] = @ + 1]
                                 ELSE subs[e]]
    /\ wants' = [wants EXCEPT ![mailbox[s]] = @ \cup E]
    /\ UNCHANGED <<mailbox, registered, current, id, traffic, sleep, phase>>

\* Both overloads of Subscribe: one event is a vector of one.
Subscribe(s, E) ==
    /\ phase = "setup"
    /\ IF mailbox[s] = None
       THEN /\ status' = "FATAL_ERROR"
            /\ UNCHANGED <<subs, wants>>
       ELSE /\ E \subseteq Subscribable[mailbox[s]]
            /\ status' = "OK"
            /\ subs' = [e \in Events |->
                           IF e \in E /\ subs[e][s] = 0 THEN [subs[e] EXCEPT ![s] = @ + 1]
                           ELSE subs[e]]
            /\ wants' = [wants EXCEPT ![mailbox[s]] = @ \cup E]
    /\ UNCHANGED <<mailbox, registered, current, id, traffic, sleep, phase>>

\* Both overloads of Unsubscribe; an id without a mailbox is no error here.
Unsubscribe(s, E) ==
    /\ phase = "setup"
    /\ status' = "OK"
    /\ subs' = [e \in Events |-> IF e \in E THEN [subs[e] EXCEPT ![s] = 0] ELSE subs[e]]
    /\ wants' = IF mailbox[s] = None THEN wants
                ELSE [wants EXCEPT ![mailbox[s]] = @ \ E]
    /\ UNCHANGED <<mailbox, registered, current, id, traffic, sleep, phase>>
-----------------------------------------------------------------------------
(* The threads *)

Attached == {c \in Components : id[c] # None}

\* main: LaunchWorkerThread, every StartListeningOnMailbox and the discovery's
\* LaunchWorkingThread.
Launch ==
    /\ phase = "setup"
    /\ phase' = "running"
    /\ worker' = "running"
    /\ listening' = Attached
    /\ browser' = IF Discovery \in Attached THEN "running" ELSE "off"
    /\ UNCHANGED <<registry, inMailBox, inbox, sent, handled, routed, lost, process>>

NewMessage(e, via) ==
    [event |-> e, data |-> IF e \in DataEvents THEN "payload" ELSE "null", via |-> via]

\* The thread takes from a queue that is empty: it may have tested it and not be
\* waiting yet.
Idle(t) ==
    IF t = None THEN worker = "running" /\ inMailBox = <<>>
    ELSE t \in listening /\ inbox[t] = <<>>

\* The notifications of pushes to the queues of the threads T.  Each wakes its
\* thread, unless it falls between that thread's test and its wait.
Notify(T) ==
    \E missed \in SUBSET {t \in T : Idle(t) \/ t \in lost} :
        lost' = (lost \ T) \cup missed

\* A component's SendMessage.
SendMessage(c, e) ==
    /\ process = "alive"
    /\ phase = "running"
    /\ c \in Attached
    /\ Len(sent) < MaxSent
    /\ e \notin DirectEvents
    /\ sent' = Append(sent, NewMessage(e, "broker"))
    /\ inMailBox' = Append(inMailBox, Len(sent) + 1)
    /\ Notify({None})
    /\ UNCHANGED <<registry, inbox, worker, listening, handled, routed, browser, phase,
                   process>>

\* A TCP session puts what it received into a component's mailbox, past the broker.
PutMessageIntoAppMailbox(c, e) ==
    /\ process = "alive"
    /\ phase = "running"
    /\ c \in Attached
    /\ e \in DirectEvents \cap Callbacks[c]
    /\ Len(sent) < MaxSent
    /\ sent' = Append(sent, NewMessage(e, "session"))
    /\ inbox' = [inbox EXCEPT ![c] = Append(@, Len(sent) + 1)]
    /\ Notify({c})
    /\ UNCHANGED <<registry, inMailBox, worker, listening, handled, routed, browser, phase,
                   process>>

\* How often Route pushes an event to component c.
Pushes(e, c) ==
    IF \E s \in Ids : mailbox[s] = c THEN subs[e][CHOOSE s \in Ids : mailbox[s] = c] ELSE 0

\* Mutant: Route serves one subscriber only.
RouteFirst(m) ==
    LET served == {c \in Components : Pushes(sent[m].event, c) > 0}
    IN  [c \in Components |->
            IF served # {} /\ c = (CHOOSE x \in served : TRUE) THEN Append(inbox[c], m)
            ELSE inbox[c]]

\* Route: the inboxes once the one object m was pushed to all its subscribers.
Route(m) ==
    [c \in Components |-> inbox[c] \o [i \in 1..Pushes(sent[m].event, c) |-> m]]

\* One turn of Run: TERMINATE_ALL is routed like the rest, and ends the loop.
Run ==
    /\ process = "alive"
    /\ worker = "running"
    /\ None \notin lost
    /\ inMailBox # <<>>
    /\ inMailBox' = Tail(inMailBox)
    /\ worker' = IF sent[Head(inMailBox)].event = TerminateAll THEN "done" ELSE "running"
    /\ inbox' = Route(Head(inMailBox))
    /\ routed' = Head(inMailBox)
    /\ Notify({c \in Components : Pushes(sent[Head(inMailBox)].event, c) > 0})
    /\ UNCHANGED <<registry, sent, listening, handled, browser, phase, process>>

\* The callback exists, and is not called without the payload it needs.
CanHandle(c, msg) ==
    /\ msg.event \in Callbacks[c]
    /\ msg.event \in DataEvents => msg.data = "payload"

\* Mutant: the loop goes on after TERMINATE_ALL.
ListenToMailForever(c) ==
    /\ process = "alive"
    /\ c \in listening \ lost
    /\ inbox[c] # <<>>
    /\ LET m == Head(inbox[c])
       IN  /\ inbox' = [inbox EXCEPT ![c] = Tail(@)]
           /\ handled' = [handled EXCEPT ![c] = Append(@, m)]
           /\ sent' = [sent EXCEPT ![m].data = "null"]
           /\ process' = IF CanHandle(c, sent[m]) THEN "alive" ELSE "aborted"
    /\ UNCHANGED <<registry, inMailBox, worker, listening, routed, sleep, phase>>

\* One turn of ListenToMail.  An event without a callback, and a handler that
\* is called without the payload it needs, end in an exception nobody catches.
ListenToMail(c) ==
    /\ process = "alive"
    /\ c \in listening \ lost
    /\ inbox[c] # <<>>
    /\ LET m == Head(inbox[c])
       IN  /\ inbox' = [inbox EXCEPT ![c] = Tail(@)]
           /\ handled' = [handled EXCEPT ![c] = Append(@, m)]
           /\ sent' = [sent EXCEPT ![m].data = "null"]
           /\ process' = IF CanHandle(c, sent[m]) THEN "alive" ELSE "aborted"
           /\ listening' = IF sent[m].event = TerminateAll THEN listening \ {c} ELSE listening
    /\ UNCHANGED <<registry, inMailBox, worker, routed, sleep, phase>>

\* A wait of a condition variable may return without a notification.
WakeSpuriously(t) ==
    /\ t \in lost
    /\ lost' = lost \ {t}
    /\ UNCHANGED <<registry, traffic, browser, phase>>

\* Browse sees the flag that OnShutdown cleared and returns.
BrowserReturns ==
    /\ process = "alive"
    /\ browser = "running"
    /\ Discovery \notin listening
    /\ browser' = "done"
    /\ UNCHANGED <<registry, traffic, lost, phase>>

\* main: every TryJoin has returned.
Join ==
    /\ process = "alive"
    /\ phase = "running"
    /\ listening = {}
    /\ browser # "running"
    /\ worker = "done"
    /\ phase' = "joined"
    /\ UNCHANGED <<registry, traffic, sleep>>
-----------------------------------------------------------------------------
\* What happens besides the messages.
Stir == BrowserReturns \/ \E t \in Components \cup {None} : WakeSpuriously(t)

Next ==
    \/ \E c \in Components : Attach(c)
    \/ \E s \in Ids : Detach(s)
    \/ \E s \in Ids, E \in SUBSET Events : Subscribe(s, E) \/ Unsubscribe(s, E)
    \/ Launch
    \/ \E c \in Components, e \in Events : SendMessage(c, e) \/ PutMessageIntoAppMailbox(c, e)
    \/ Run
    \/ \E c \in Components : ListenToMail(c)
    \/ Stir
    \/ Join

Spec == Init /\ [][Next]_vars

(***************************************************************************)
(* Fairness: the worker and the mailbox threads take the messages they     *)
(* find while they are awake, and main's joins return when the threads     *)
(* have.  No wait need return without a notification, and the discovery's  *)
(* worker need not end.                                                    *)
(***************************************************************************)
FairSpec ==
    /\ Spec
    /\ WF_vars(Run)
    /\ \A c \in Components : WF_vars(ListenToMail(c))
    /\ WF_vars(Join)
-----------------------------------------------------------------------------
(* Properties *)

MessageIds == Nat \ {0}
Messages   == [event : Events, data : {"payload", "null"}, via : {"broker", "session"}]

RegistryTypeOK ==
    /\ mailbox \in [Ids -> Components \cup {None}]
    /\ subs \in [Events -> [Ids -> Nat]]
    /\ registered \in Ids
    /\ current \in Ids
    /\ status \in {"OK", "MAX_COMPONENTS", "FATAL_ERROR"}
    /\ id \in [Components -> Ids \cup {None}]
    /\ wants \in [Components -> SUBSET Events]
    /\ phase \in {"setup", "running", "joined"}

TrafficTypeOK ==
    /\ inMailBox \in Seq(MessageIds)
    /\ inbox \in [Components -> Seq(MessageIds)]
    /\ sent \in Seq(Messages)
    /\ worker \in {"off", "running", "done"}
    /\ listening \subseteq Components
    /\ handled \in [Components -> Seq(MessageIds)]
    /\ routed \in Nat
    /\ process \in {"alive", "aborted"}

SleepTypeOK ==
    /\ lost \subseteq Components \cup {None}
    /\ browser \in {"off", "running", "done"}

\* Ids keep the width of SubscriberID, the maps hold components and counts, and
\* the queues hold messages.
TypeOK == RegistryTypeOK /\ TrafficTypeOK /\ SleepTypeOK

\* Ids are handed out once: the broker's map from ids to mailboxes and the ids
\* the components hold are inverse to each other, through every order of
\* Attach and Detach and although the id counter wraps around.
IdsAreUnique ==
    /\ \A c \in Components : id[c] # None => mailbox[id[c]] = c
    /\ \A s \in Ids : mailbox[s] # None => id[mailbox[s]] = s

\* Attach turns a component away only when every id is taken, also the last
\* one, which the constructor leaves out of mailbox_m, and ids freed by Detach
\* behind currentSubscriberId.
AttachFailsOnlyWhenFull ==
    status = "MAX_COMPONENTS" => \A s \in Ids : mailbox[s] # None

\* A component is in an event's subscriber vector, once, exactly if it has
\* subscribed since it was attached: a component that is given the id of a
\* detached one inherits nothing, and no id without a mailbox stays behind.
SubscriptionsAreExact ==
    \A e \in Events, s \in Ids :
        subs[e][s] = IF mailbox[s] # None /\ e \in wants[mailbox[s]] THEN 1 ELSE 0

FromBroker(m) == sent[m].via = "broker"

\* What component c was handed so far, and what waits in its mailbox.
Given(c) == handled[c] \o inbox[c]

\* The messages of the broker that c has asked for, of those that were routed.
Due(c) == {m \in 1..routed : FromBroker(m) /\ sent[m].event \in wants[c]}

\* architecture.md: the broker "Passess only messages to subscribers that are
\* interested in them": what a component was given by the broker is, each once
\* and in the order they were sent, the messages it subscribed to.
DeliveredExactlyInOrder ==
    phase = "running" =>
        \A c \in Attached :
            LET routes == {i \in DOMAIN Given(c) : FromBroker(Given(c)[i])}
            IN  /\ \A i, j \in routes : i < j => Given(c)[i] < Given(c)[j]
                /\ {Given(c)[i] : i \in routes} = Due(c)

\* main's tables: a component has a callback for all it subscribes to, and no
\* two components subscribe to an event whose handler needs the payload.
Unshared ==
    /\ \A c \in Components : Subscribable[c] \subseteq Callbacks[c]
    /\ \A e \in DataEvents \ DirectEvents, c, d \in Components :
          e \in Subscribable[c] /\ e \in Subscribable[d] => c = d

\* No thread of the program dies of an exception: every routed event has a
\* callback, and the payload a handler needs was not already moved out of the
\* shared message by the handler of another mailbox.
NoAbort == process = "alive"

\* Once TERMINATE_ALL is sent, and every component listens to it, all mailbox
\* threads and the broker's worker return and main's joins do: unless some
\* thread stays asleep over a push for good, or all have ended but the worker
\* of the discovery, for which main then waits in TryJoinWorkerThread.
TerminateEndsEveryThread ==
    []<>(lost = {}) =>
        ((/\ phase = "running"
          /\ \A c \in Attached : TerminateAll \in wants[c]
          /\ \E m \in DOMAIN sent : sent[m].event = TerminateAll)
         ~> \/ phase = "joined"
            \/ worker = "done" /\ listening = {} /\ browser = "running")
=============================================================================
