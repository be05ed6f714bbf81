# LocalChat in TLA+

Specifications of LocalChat, a chat and file-transfer program for a local
network (C++17; mDNS discovery, a message broker, Boost.Asio TCP sessions, a
console client and a macOS GUI), with what TLC checks of them on small
instances and what TLAPS proves of them for all.

Paths below are relative to the repository (`include/`, `src/`, `docs/`, ...).
`PROJECT.json` maps every definition to the lines it models and lists the runs,
the mutants, the hazards and the theorems.

Contents: [1 The system](#1-the-system) · [2 Modules](#2-modules) ·
[3 Runs](#3-runs) · [4 Disagreements](#4-where-the-code-and-its-documents-disagree) ·
[5 Fairness](#5-fairness) · [6 Proofs](#6-proofs) · [7 Limits](#7-what-is-not-modelled) ·
[8 Plan](#8-plan)

## 1 The system

### Parts, their state and their operations

| Part | State | Operations | What is hard |
|---|---|---|---|
| Mailbox queue, `threadsafe_queue` (`include/threadsafequeue.hpp`) | linked list with a dummy node, two mutexes, one condition variable | `push`, `wait_and_pop`, `try_pop`, `empty` | the two ends are locked separately; the wait uses one mutex, the notify none |
| Broker, `BVBroker` | `mailbox_m`, `subs_m`, `currentSubscriberId`, an 8-bit count, its own queue | `Attach`, `Detach`, `Subscribe`, `Unsubscribe`, `Route`, `Run` | ids wrap and are reused; no lock on the maps; one message object is shared by all its subscribers |
| Component threads, `BVComponent` | `callback_m`, a mailbox | `SendMessage`, `ListenToMail`, joins | the payload is moved out of the shared message; an error ends the process |
| Discovery on Linux, `BVDiscovery_Avahi`, `avahi_api.c` | `isPaused`, `isBrowsingActive`, the poll, resolvers | `Browse`, `Pause`, `OnPause`, `OnResume`, `OnShutdown`, the Avahi callbacks | three threads, flags changed without the waiter's mutex |
| Discovery on macOS, `BVDiscovery_Bonjour`, `bonjour_api.c` | DNS-SD references, the browse list | the same, on the io_context | outstanding waits across a pause, one flag for a batch |
| Registration, `BVService*` | the DNS-SD or Avahi client | `Setup`, `Register` | a callback given a local's characters |
| Connections, `BVTCPConnectionManager` and the app's discovery handlers | `sessions_m`, `service_sessionid_m`, a 16-bit id counter, `serviceV`, `nodesM` | dial, `ConnectHandler`, `Accept`, `HandleSessionIdentification`, `RemoveSession`, the handlers of PUBLISHED, RESOLVED and DEREGISTERED | both peers discover each other; flaps, restarts, failing connects; removed sessions that live on |
| Session, `BVTCPSession` | `state`, one `readBuf`, one `writeBuf` | the handlers of HELLO, HELLOBACK, CONFIRM_ESTABLISHED, chat and file frames; `WriteMessageFrame`, `WriteFileChunkSync` | asynchronous reads and writes that overlap the handlers using the same buffers |
| File transfer, `BVFileTransferContext`, `BVReceivedFile`, `SignalFileTransfer`, the console's prompt | `ftcid`, `pendingOutgoing_m`, `fileTransferData`, `pendingOffer`, `uiState` | offer, verdict, `TransferNextChunk`, the handlers of BEGIN, CHUNK and END | verdicts name only a key; keys of different senders coincide; a worker thread shares the socket |
| Browse list, `linked_list.c` | linked elements, `didRegister` | constructors, destructors, `AddElement`, `FindTail`, `ClearList` | one flag for a batch of names; fixed-size names |
| Console client, `BVApp_ConsoleClient` | `uiState`, `activeChatService`, `chatLogsM`, the screen | keys, drawing, the handlers above | two threads draw; a number names a row of a list that changes |
| macOS GUI, `mac-gui/` | the same client behind a Swift view, its table of offers | posted sends, notifications, the timer, the selection | three threads, each with a queue of its own |
| `main` | the threads | attach, subscribe, launch, run, join | the order of the joins |

### Threads and how the parts meet

The console program has the broker's worker, one mailbox thread for the
discovery and one for the app, the discovery's browse thread, main (which runs
the `io_context`: sockets, keys, posted functions), and a thread for every file
being sent.

    discovery --PUBLISHED, RESOLVED, DEREGISTERED--> broker --> app's mailbox
    app --PAUSE, RESUME, TERMINATE_ALL--> broker --> discovery's mailbox
    app --dial, remove--> connection manager --owns--> sessions
    sessions --chat, offers, chunks--> app's mailbox (past the broker)
    app --chat, offers, verdicts--> sessions <==TCP==> sessions of the peer

Every mailbox is a `threadsafe_queue`. What each module takes from another is
listed in section 2.

### What each part has to guarantee

- Queue: one FIFO whatever the interleaving; no race on a node; a sleeper is woken.
- Broker: an id has one owner; a component gets what it subscribed to, all of
  it, in order, with its payload; TERMINATE_ALL ends every thread.
- Discovery: a pause stops the reading, a resume resumes it, a quit ends it; the
  app hears of a service before its address.
- Connections: the maps agree; two peers have one connection and both list it;
  they find each other again after a fault.
- Session: what is sent arrives, once and in order.
- Files: nothing leaves without consent; what is saved is what was sent; the
  mailbox thread survives; the prompt gives the keyboard back.
- Clients: the logs are what was sent and received; what is drawn is where the
  keys go; a message shows without a key being pressed.

## 2 Modules

| Module | Models | Takes from elsewhere |
|---|---|---|
| `FifoQueue` | what a mailbox promises (abstract) | |
| `ThreadSafeQueue` | `threadsafe_queue`, step by step | implements `FifoQueue` |
| `Broker` | `BVBroker`, `BVComponent`, set-up and joins of `main` | mailboxes are atomic FIFOs, as `FifoQueue` says, whose reader may miss a notification, as `queue_wakeup` shows; the discovery's worker ends or does not, as the discovery modules say |
| `AvahiDiscovery` | `BVDiscovery_Avahi`, `avahi_api.c`, keys p, r and q | the broker is a FIFO between keys and mailbox thread |
| `BrowseList` | `linked_list.c`: elements, links, heap | |
| `BonjourDiscovery` | `BVDiscovery_Bonjour`, `bonjour_api.c`, keys p, r and q, the app's handlers of what it reports | builds, reads and clears a `BrowseList`; the broker is a FIFO |
| `Connections` | `BVTCPConnectionManager`, handshake, discovery handlers of the app | reports come in the order `AvahiDiscovery` sends them |
| `Session` | the two `BVTCPSession`s of one connection | a connection that `Connections` did not close as a duplicate |
| `FileTransfer` | senders, streams, one receiving client, console or GUI | a session delivers frames in order; the frames lost when they come too fast are those of `Session` |
| `Clients` | console screens and keys, chat logs, the GUI's window and its queues | the list of sessions changes as `Connections` may change it; a transfer is one entry in a log |

`MC...` modules give the constants their values; `...Proofs` modules hold the
theorems.

**ThreadSafeQueue.** A step is what a thread does between two points at which
another thread could see the difference: a push allocates, locks, writes the
data of the dummy node, its `next` and the tail, unlocks and notifies; a pop
locks, checks the predicate, goes to sleep (a step of its own), unlinks,
unlocks and reads the value. Nodes are addresses that are freed and used again.
`chain` is a ghost: the list of nodes the queue owns. The refinement mapping to
`FifoQueue` is the data along `chain`, and for a consumer the value in the node
it has unlinked.

**Broker.** The registry operations run while `main` sets up (`phase`), as in the
program: the maps have no lock. A message is an object with an index in `sent`;
its payload becomes null when a handler takes it. `NumIds` stands for 256, the
count wraps at it. A push to a queue whose thread found it empty may miss that
thread (`Notify`): the thread is in `lost` and sleeps over what is in its queue
until another push, or a spurious return of its wait, wakes it. `browser` is the
discovery's worker, which `main` joins too (`src/main.cpp:222`): it may return once
its component has handled TERMINATE_ALL, and need not, since a worker in the wait of
a pause does not. `TerminateEndsEveryThread` says what is left: if the threads
are woken in the end, all of them return, and `main` is past its joins
unless that worker hangs.

**AvahiDiscovery.** The condition variable is the step from "blocking" to
"asleep". `OnResume` is two steps, the flag and the notify, because the browse
thread runs between them. Polls may fail, browsers may fail, resolvers answer
late, twice or never. `readPaused` is a ghost that counts polls since `OnPause`.
A service has the name it was announced under, and the two reports of it carry what
the code makes of that: `Shown` is the field of 24 bytes that `browse_callback` fills
only if the name is shorter, with the blanks erased; `Addressed` is the 24 bytes that
`resolve_callback` copies whatever the length. So a name of 24 bytes and more is
published as an empty one and its address reported under a name that runs on into
the next field; the app then has an address for a service it does not list.
`ResolvedAfterPublished` is about the order of the two reports; their names are
the same only for a short name without blanks. `EventsAreRead` starts at a worker that
polls and is not about a failed browser; `QuitEndsOrWaits` has the exceptions its
comment states.

**BonjourDiscovery.** Worker, mailbox thread and io thread, one step for what a
thread does up to the next point where another could see the difference. A wait
on the descriptor is armed, then ready; `cancel` aborts the armed ones only, so a
handler that is ready runs after a pause. The pause timer is the same. The daemon
at the other end of the socket is external: a read takes its first reply, one
callback for each further reply it finds there, and returns, or fails before or
between the callbacks. The callbacks build the linked list of `linked_list.c` in
`BrowseList`, element by element on a heap. Each failure the code looks at may
happen once (`Faults`). `upsets` names what came between (listed in the module): a
resume beside a wait, a resume before `Browse`, a stale timer, a failure, a reply
with an error, names added and removed in one list.

**Connections.** A peer is its service name, a number, so that names have the
order in which `InitiateSessionWithNode` compares them. A connection is a record
of its two ends, the ids they hold and the handshake frame under way. An end
that was removed from the maps stays open as long as its read is pending, as in
the program. Faults, up to `MaxFaults`: a service disappears from one peer's
view, a connect or an accept fails, a process restarts, and two that come from
`Session`'s buffers. "read ahead": `OnReceiveHelloFrame` arms its read before
`ReadMessageFrameCallback` clears the buffer, so a CONFIRM that is there by then is
zeroed, read as a HELLO and answered by a second HELLOBACK, which stops the
acceptor's reader. "early chat": a chat written before the dialler is
established stops the reader of the end it reaches. Neither needs a failure
from outside, so `AllConnect` and `OneConnection` hold as long as none of the six
has happened, and only then. Assumed: nothing is said here of the traffic of two
established ends (`Session`), nor of an offer sent during the handshake (`Session`'s
upset "mistaken"); service names are kept as they are; a resolver answers once for
each time a service appears, where Avahi's may answer again. A handler is one step,
so the window between the duplicate check of `ConnectHandler` and its insertion is
closed; a removal in it would take out nothing the handler looks at again.

**Session.** `async_read` and `async_write` try the socket when they are started.
So a read may have filled `readBuf` before the handler that armed it has ended,
and a write that had to wait takes what `writeBuf` holds when its turn comes.
Both are modelled: a read armed by a handler finds a frame at once or waits
(`StartReadingFrames`), a write is taken at once while the connection has room
(`Window`), and callbacks come later. `upsets` is a history variable that names
what has gone wrong on the connection:

| upset | what happened |
|---|---|
| read ahead | a frame was in `readBuf` when the callback before it cleared the buffer |
| waited | a write found the socket full; `writeBuf` may change under it |
| early | a chat reached an end that was not established and was dropped, with the reader |
| mistaken | an offer reached such an end: a byte of its timestamp reads as HELLOBACK |
| twice | the second look at the buffer after a chat found an offer, which its own callback finds again |
| marked | the same look found the type of a file frame in the third character of a chat (byte 12 of the frame; the GUI sends control characters): the app is given an offer, an accept or a reject nobody sent and a second read is armed, or a read of chunks is started |
| stray | a handshake frame, or zeros, in an established session: the reader stops |
| assert | `WriteMessageFrame` asserts a `writeBuf` that `OnReceiveHelloFrame` has erased |

The properties of the passing run say what holds as long as some or all of these
have not happened. Each one happens in the run's instance, and each is a hazard.

**FileTransfer.** A file is offered under the sender's next key, waits in
`pendingOutgoing_m`, and is streamed by `TransferNextChunk` after an ACCEPT. The
receiver's sessions feed one mailbox; its thread writes the files. At the console
an offer is posted to the io thread, which shows the prompt; at the GUI it waits in
a table for the main thread, whose answer is posted to the io thread. Sizes are in
bytes, chunk sizes those of `DetermineChunkSize`, and the sums of the worker wrap at
`Modulus`, which stands for 2^32. The bytes of a chunk are the file it is from and
its number. `upsets` names what came between:

| upset | what happened |
|---|---|
| keys | two transfers under way had one key: `fileTransferData` has one entry for both |
| stream | a frame came into the stream of a file (what the session reads afterwards is not modelled) |
| prompt | an offer found the prompt open |
| offers | two senders' offers waited at the GUI under one key |
| removed | a session was removed from the maps of one end |
| empty | the worker of an empty file ended without an END |

**Clients.** A handler of the mailbox thread is one step up to the end of its
critical section and one for each thing it does after it; the io thread runs one
posted function, key or socket handler at a time; the GUI's main thread runs what
was dispatched to it. `screen` is what was drawn last, `shown` every message that
ever was, `arrived` what came from each peer. A drawing by the mailbox thread
(`PrintAll`) is part of the model, and `ScreenFollows` says what it spoils. The
progress lines of a transfer, which the mailbox thread writes over the screen
(`src/BVApp_ConsoleClient.cpp:840`, `:899`), are left out, so `ScreenFollows` is
about screens without a file being received. `Budgets` bounds how much of each kind
happens.

## 3 Runs

| Run | Instance | Shows |
|---|---|---|
| `queue` | 2 producers, 1 consumer, 2 values, 3 nodes | `ListShape`, `NoDataRace`, refinement of `FifoQueue`, sleepers are woken, no deadlock |
| `broker` | 3 components for 2 ids, 4 events, 3 messages | unique ids, full only when full, exact subscriptions, exact delivery in order, no abort, TERMINATE_ALL ends all threads that are woken |
| `avahi_discovery` | 4 services (our own, a name with a blank, a long name), 3 keys, 2 events, both failures | one poll at most after a pause, publish before resolve, results are read, a quit ends or waits |
| `bonjour` | 3 services (our own, one whose name is cut), 2 replies, 3 keys, any failure | the read does not block, the browse list and the app's view are exact, never deaf, a pause ends, listed services are resolved |
| `connections` | 2 peers, 3 connections, 2 faults of the six kinds, 3 ids | the two maps agree until ids wrap, the acceptor decides, one connection without faults, peers connect, and connect again after both forgot each other |
| `session` | 2 chats (the last with a file type in it) and an offer one way, 1 chat the other, window 2 | order without gaps, a reader as long as nothing went wrong, then convergence |
| `file_transfer` | 2 senders; files of 1 and 2 chunks, an empty one and one whose sums wrap; 1 chat or removal in between; both clients | consent, every byte sent, intact files over leftovers, no fatal error, the prompt closes, offers settle |
| `clients` | 2 peers, texts that fit and that do not, seven budgets, a screen of one message | exact logs in which nothing that arrived is missing, the screen follows the keys, the window is fresh, numbers mean what is displayed, messages surface, the view settles |
| `queue_wakeup`, `connections_flap`, `session_lost`, `file_keys` | small | counterexamples, section 4 |

Why the bounds are enough for what is asked:

- Queue: every mailbox has one consumer. Three nodes let the list be empty, hold
  one value (both ends one pointer apart) and hold two, and force addresses to be
  used again. The proofs are for any number of each.
- Broker: with two ids and three components the id counter wraps, a full broker
  refuses, and an id is handed on. Three messages are one before, one at and one
  after TERMINATE_ALL, or two to one component and one to both.
- Avahi: three keys are a pause, a resume and a second pause; two events are a
  service and its address, or its removal.
- Connections: two peers, because sessions of different pairs share nothing but
  the id counter, which the proofs cover. Three connections and two faults allow
  a flap on each side and a connection after both. Three ids wrap.
- Session: two chats in a row are what overlaps; the offer behind them meets both
  file paths; a window of two can be full.
- Bonjour: three keys are a pause, a resume and a second pause; two replies are two
  names in one list, or a name that comes and goes. Two addresses let one be freed
  and used again.
- Files: the second sender's key is that of the first sender's second file, so
  keys coincide in some behaviours and not in others; two chunks have a first and a
  last. `Modulus` is 2^20, so that TLC can count to it: the sums of one of the files
  wrap. The proofs are for any modulus and any sizes.
- Clients: the seven budgets are the smallest in which each pair of activities
  (sessions, messages, texts, prompts) overlaps, for each client; with a screen of
  one message (`Ten`) a second message pushes the first one out.

Runs that end in a state without successor (a program that has quit or aborted,
users who have typed all they may) say `CHECK_DEADLOCK FALSE`; `queue` checks
deadlock.

Each property has a mutant: a version of one action or operator with a plausible
mistake, under which TLC finds the property violated. Mutants stand before the
definition they mutate, under a comment that starts with "Mutant".

## 4 Where the code and its documents disagree

1. **`queue_wakeup`**: `push` notifies without having held `head_mutex`. A push
   between the predicate and the block of `wait_for_data` wakes nobody, and the
   message stays in the mailbox until another follows. `docs/architecture.md:83`
   says a message that came "is then routed". What does hold is
   `SleeperIsWoken`: a consumer already asleep at the notify is woken.
2. **`connections_flap`**: `RemoveSession` does not close the socket, so after a
   flap that one peer sees, the other still lists the old connection and refuses
   the new one; each lists a different connection. The comment at
   `src/BVTCPConnectionManager.cpp:91` says one session handles all traffic
   between two peers. `OneConnection` holds without faults, and `Reconnects` when
   both peers have forgotten each other.
3. **`session_lost`**: `ReadMessageFrameCallback` clears `readBuf` after the
   handler armed the next read. A second chat that is already in the socket is
   zeroed, read as HELLO and dropped, and no read is armed again.
   `docs/design.md:147-148`. `InOrder` still holds: what arrives is a prefix.
4. **`file_keys`**: `fileTransferData` is keyed by the sender's key, and all
   senders count from 0. A second sender's BEGIN redirects the chunks of the first.
   `tests/file_transfer_test_Integrity.cpp:23` promises exactly the bytes sent.
   `SavedIntact` holds while no two transfers under way share a key.

Four more, which properties of passing runs bring out and no run refutes by
itself:

5. **Reading while paused**: `docs/discovery_implementations.md:6` says "When the
   Discovery is paused, nothing should be read", because services read then would
   not be published and be missed on resuming. On Linux the poll that `Browse`
   had decided on when `OnPause` came is still made: one read, and no more, which is
   `AtMostOneReadPaused`. What it reads is published, so the loss the document fears
   does not happen. The same holds on macOS of a handler that is ready when its
   wait is cancelled.
6. **Who accepts, and when**: `mac-gui/SETUP.md:103` and `:110-111`,
   `src/BVTCPSession.cpp:234` and `include/BVApp_ConsoleClient.hpp:319` say that the
   console accepts offers by itself; it asks (`HandleFileOffer`,
   `HandleFileOfferKey`). `mac-gui/BVApp_GuiClient.hpp:36-37` ("the bytes still
   stream; Reject deletes on arrival") and the comments at
   `mac-gui/LocalChatGUI/ChatModel.swift:99` and `:105` say that the file arrives before
   the answer; `Consent` shows that nothing is sent before it, at either client, as
   `mac-gui/SETUP.md` also says, unless two offers under one key wait at the GUI.
   The comments at `include/BVFileTransferContext.hpp:14-17` and `:62-72`, of
   chunks overwritten in a fixed `readBuf`, are older than the buffer chunks are read
   into now (`fileReadBuf`).
7. **Numbers of the menu**: the comment at
   `include/BVTCPConnectionManager.hpp:464-467` says "the numbering stays consistent
   between display and selection". A session that the io thread lists in front of
   another one is not drawn, and until the next drawing the digit opens the
   neighbour; so it does between a removal and the drawing that follows it.
   `NumberMeansDisplayed` states exactly these two exceptions.
8. **Joins**: the comment in `ListenToMail` (`include/BVComponent.hpp:67`) says "main
   thread will join". It does if the thread is woken and the discovery's worker
   returns; see `TerminateEndsEveryThread` in section 2.

## 5 Fairness

- Queue: strong fairness of each thread's steps inside an operation (a thread
  waiting for a mutex gets it in the end), weak fairness of a consumer calling
  again, as the loops of `ListenToMail` and `BVBroker::Run` do. No producer has to
  push and no spurious wake-up is promised.
- Broker: weak fairness of the worker and of each mailbox thread while it is awake,
  and of the joins. A thread that missed its notification need not wake, and the
  discovery's worker need not return.
- Avahi: weak fairness of the threads and joins; no key, no daemon event and no
  spurious wake-up has to happen.
- Bonjour: weak fairness of the three threads together while the process runs; no
  key, reply or failure has to happen.
- Connections: weak fairness of discovery (mDNS reports what is on the network),
  of each peer's mailbox thread and of each connection's next socket event. No
  fault has to happen.
- Session: weak fairness of each end's io thread; no user has to type.
- Files: weak fairness of worker threads, sessions, the mailbox thread and the
  posted functions, and of the user answering an open prompt: `Settles` is about
  offers that are answered. It is assumed only while `upsets` is empty, which is
  as long as `Settles` promises anything.
- Clients: weak fairness of the mailbox thread, the io thread, the main thread's
  queue and the GUI's timer while the program runs; no user has to do anything.

Only `Broker` has the missed notification of `queue_wakeup`. The other modules
that have mailboxes (the two discoveries, Connections, Files, Clients) take it that a
mailbox thread with mail gets to it, so their liveness properties (`EventsAreRead`,
`QuitEndsOrWaits`, `PauseEnds`, `ListedIsResolved`, `AllConnect`, `Reconnects`,
`Settles`, `Surfaces`, `ViewSettles`) are about runs in which every thread is woken in the
end, by its own or a later push. Their safety properties do not depend on it.

Weak fairness is what a preemptive scheduler gives a thread that stays runnable
and an io_context a handler that stays ready.

## 6 Proofs

The theorems hold for every value of the constants that the named assumptions
allow. All but `NumberMeansDisplayedHolds` (an action property) and
`ImplementsFifoHolds` (a refinement) have the form `Spec => []P`. Each rests on an
inductive invariant, one lemma or step per action, and a final temporal step.

| Module | Theorems | Inductive invariant and why it is needed |
|---|---|---|
| `ThreadSafeQueueProofs` | `TypeCorrect`, `ListShapeHolds`, `SoleOwnerHolds`, `PoppedNodeHasValueHolds`, `NoDataRaceHolds`, `ImplementsFifoHolds` | `IInv`: the four properties with `MutexHeld` (who is at which step holds which mutex) and `InProgress` (what a half-done push has written). The shape alone is not inductive: the last step of a push publishes what the earlier ones wrote. For the refinement, each step is shown to be a step of `FifoQueue` or to leave the mapped variables alone: a push takes effect when the tail moves, a pop when the head does. |
| `BrokerProofs` | `TypeCorrect`, `IdsAreUniqueHolds`, `AttachFailsOnlyWhenFullHolds`, `SubscriptionsAreExactHold`, `DeliveredExactlyInOrderHolds`, `NoAbortHolds` | `RInv` adds that queued messages exist and that an unattached component wants nothing. `CycledIdFree`: the id cycle ends on a free id if there is one, by the well-foundedness of `<`. `DInv` for the delivery: what is handled, what lies in a mailbox and what the broker has still to route are, put end to end, all messages in order. `PInv` for the payloads: a message with a payload lies in one place until it is opened. |
| `AvahiDiscoveryProofs` | `TypeCorrect`, `AtMostOneReadPausedHolds`, `ResolvedAfterPublishedHolds` | `IInv` adds that the worker is not at a poll again once one ran after the pause, and that every service with a resolver was reported, under the name it is shown by. |
| `BonjourDiscoveryProofs` | `TypeCorrect`, `NeverBlocksHolds`, `AtMostOneReadPausedHolds`, `WatchingHolds`, `ListExactHolds`, `ViewExactHolds` | `Solo`: without a doubled resume there is one token, an armed wait, a ready handler or a busy thread, and its holder finds the socket readable. `Calmly`: flag, timer and mailbox thread agree with the pause. `Sound`: no wait has failed and the descriptor is there. `ListInv` for the browse list: some sequence of different addresses is what the pointers run through and all the heap holds, it carries the names of the replies not yet reported, and these and the replies still unread are no more than the addresses, so `malloc` finds one. There is one such sequence only (`ChainIs`, by induction on the position), the callback appends to it (`ReplyAdded`), and clearing the list frees it from its head on (`ListCleared`, by induction on the elements freed). `ViewInv` for the app's view: unless names added and names removed were mixed, the list holds one kind of reply, its flag says which, and the services known, with the report that is due, are those the replies say there are. |
| `ConnectionsProofs` | `TypeCorrect`, `IndexExactHolds`, `ConfirmedByAcceptorHolds`, `OneConnectionHolds` | `PeerInv` for each peer: open ends and the acceptor hold different ids, all below the count, and a session is listed under the id its end holds. Without it, listing a session could overwrite another. `Undisturbed` for the one connection: as long as nothing has gone wrong no peer is reported as gone, only the one with the smaller name dials, and once it has dialled, the other stays listed, so that no later report makes it dial again. |
| `SessionProofs` | `TypeCorrect`, `InOrderHolds`, `ReaderLivesHolds` | `IInv` counts the operations of an end and says which frames may be on their way in which state of the handshake (`ToAcceptor`, `ToDialler`). `Delivery`: what the app got, what is in the buffer and what is on its way make up what was sent, unless the end reads no more or is not confirmed yet. |
| `FileTransferProofs` | `TypeCorrect`, `ConsentHolds`, `WholeFileSentHolds`, `PromptClosesHolds`, `NoFatalHolds`, `SavedIntactHolds` | `Linked`: a sender's keys are its count and all different, an offer carries the key of its file wherever it is, and an ACCEPT on its way carries the key of an accepted file of the sender it goes to. `FInv` numbers the messages of a file and says that there are two counts of it, `a` and `b`: the app has handled the parts below `b`, the mailbox holds those from `b` to `a`, the stream those from `a` to the last one sent, in order. While keys do not clash and streams are not mixed, a session amid a file is amid one only, and a file the app is amid is registered under its key with the parts below `b` on disk. Neither property is inductive: what is saved depends on what is still in the stream. |
| `ClientsProofs` | `TypeCorrect`, `ScreenFollowsHolds`, `GuiFreshHolds`, `NumberMeansDisplayedHolds`, `LogsExactHolds` | The screen and the GUI: each property with what the threads still have to do, a redraw or a refresh that is queued, dispatched or the next step of a handler. The logs: texts and messages are numbered as they come, so `TextsNumbered` and `MessagesNumbered` say that what a log holds comes before the text the io thread has found a session for, that one before the sendings posted, and these and the mail that waits are in order; `MessagesKept` that what arrived from a peer is what its log and the mailbox hold of it. |

Assumptions are the `ASSUME`s of the component modules (what the constants are,
and that `None` or `Null` is none of the other values); TLC evaluates them in the
runs. That of `BonjourDiscovery` says that `malloc` does not fail: there are as many
addresses as replies. `NoAbortHolds` has one more, `Unshared`: no two components subscribe to one
event with a payload, and each has a callback for what it subscribes to. `MCBroker`
assumes it of the tables of `main`, so TLC evaluates it on them.

Every property of a run was checked with TLC on the run's instance before it was
proved; `AtMostOneReadPaused` of `BonjourDiscovery` is in no run and is proved only.
Every invariant and action property of the passing runs is proved.

Two lemmas of the browse list need induction, over the positions of a list and over
the recursive function of `LinkedList_str_ClearList`. It is done over a set of naturals
(`FromZero`: with 0 and every successor in it, there is no least number outside it). That
the recursive function satisfies its equation is shown by giving one outright that
does (`Freed`).

Only model-checked, and why:

- liveness (`SleeperIsWoken`, `TerminateEndsEveryThread`, `EventsAreRead`,
  `QuitEndsOrWaits`, `PauseEnds`, `ListedIsResolved`, `AllConnect`, `Reconnects`,
  `Converges`, `Settles`, `Surfaces`, `ViewSettles`): the prover has no reasoning
  about fairness and ENABLED;
- the properties of the runs that show a disagreement with a document, which do not
  hold.

## 7 What is not modelled

- **Registration**: one sequential exchange at the start.
- **Start and stop of the GUI's core**, and the progress of a transfer: the GUI's bar and
  the console's lines.
- **Contents of frames**: header layout; a frame is its type and a number. Sizes and
  chunk sizes are in `FileTransfer`.
- **Parts of frames**: the kernel takes a frame whole or not at all, so the mixing
  of two frames on a full socket is not reached.
- **File-system errors** on either side of a transfer.
- **Data races on `nodesM`**: a torn `std::map` has no outcomes to enumerate; each
  access is atomic.
- **A session out of step with its stream**: the model stops that session.
- **Logging and the look of a drawing**: they feed nothing back. `BVFSM` and `BVGUI`
  are unused.

Seen while modelling, outside what the modules cover, and kept here for the plan:

- Messages queued behind TERMINATE_ALL are never routed (`src/BVBroker.cpp:21`).
- A poll error leaves the browse thread as an exception (`src/BVDiscovery_Avahi.cpp:139`).
- `remote_endpoint()` throws for a peer that has reset the connection, between the
  two insertions of a session (`include/BVTCPConnectionManager.hpp:393`).
- `sessions_m.at` throws if a session is removed between the screen's look-up and
  the offer of a file (`include/BVTCPConnectionManager.hpp:515`).
- The source file is gone or unreadable at the ACCEPT (`include/BVFileTransferContext.hpp:202`, `:213`);
  the destination cannot be written (`src/BVApp_ConsoleClient.cpp:769`); the result of
  `WriteFileChunkSync` is not looked at (`include/BVTCPSession.hpp:526`).
- Contexts and threads of finished transfers are kept (`include/BVTCPConnectionManager.hpp:551`).
- The Avahi client callback keeps the characters of a local string (`src/BVService_Avahi.cpp:17`).

## 8 Plan

Done: all components but the registration, and the proofs of section 6.

1. Compositions: `FileTransfer` over `Session`'s buffers; `Connections` with the
   removal of a session between the look-up and the use in the file handlers.
2. An abstract specification of a connection as two FIFO channels, which `Session`
   implements as long as no upset has happened.
