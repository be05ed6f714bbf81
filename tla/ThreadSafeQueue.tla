-------------------------- MODULE ThreadSafeQueue --------------------------
(***************************************************************************)
(* threadsafe_queue<T> (include/threadsafequeue.hpp): a singly linked list *)
(* with a dummy node at its tail, one mutex for each end and one condition *)
(* variable.  Every mailbox of the program is one.                         *)
(*                                                                         *)
(* A step is what one thread does between two points at which another      *)
(* thread could see the difference.  A push writes the dummy node's data,  *)
(* its next pointer and the tail in three steps, because a consumer runs   *)
(* under the other mutex.  get_tail takes and releases tail_mutex within   *)
(* one step: it needs the mutex free and changes nothing.                  *)
(*                                                                         *)
(* Nodes are addresses: a popped node is freed and may be allocated again. *)
(* chain is a ghost variable, the list of nodes the queue owns; the        *)
(* program has only head, tail and the next pointers.                      *)
(***************************************************************************)
EXTENDS Naturals, Sequences

CONSTANTS Values,     \* what is queued
          Producers,  \* threads that call push
          Consumers,  \* threads that call wait_and_pop, try_pop or empty
          Nodes,      \* addresses of nodes
          Null        \* the null pointer, the empty shared_ptr, no thread

ASSUME QueueAssumption ==
    /\ Null \notin Values
    /\ Null \notin Nodes
    /\ Null \notin Producers \cup Consumers
    /\ Producers \cap Consumers = {}
    /\ Nodes # {}

VARIABLES head, tail,             \* the two ends of the list
          data, next,             \* the fields of every node
          headMutex, tailMutex,   \* the thread that holds each, or Null
          waiters,                \* threads blocked in data_cond.wait
          pc,                     \* where each thread is
          value,                  \* a producer's new_data, a consumer's result
          node,                   \* a producer's new node p, a consumer's old_head
          chain                   \* ghost: the nodes from head to tail

vars == <<head, tail, data, next, headMutex, tailMutex, waiters, pc, value,
          node, chain>>

Threads == Producers \cup Consumers

\* Nodes that hold no object: neither in the list nor owned by a thread.
FreeNodes == {n \in Nodes : /\ \A i \in 1..Len(chain) : chain[i] # n
                            /\ \A t \in Threads : node[t] # n}

\* The constructor: a dummy node that is both head and tail.
Init ==
    /\ head \in Nodes
    /\ tail = head
    /\ chain = <<head>>
    /\ data = [n \in Nodes |-> Null]
    /\ next = [n \in Nodes |-> Null]
    /\ headMutex = Null
    /\ tailMutex = Null
    /\ waiters = {}
    /\ pc = [t \in Threads |-> "idle"]
    /\ value = [t \in Threads |-> Null]
    /\ node = [t \in Threads |-> Null]
-----------------------------------------------------------------------------
(* push *)

\* make_shared and new node, both before the lock.
PushAlloc(p, v) ==
    /\ pc[p] = "idle"
    /\ \E n \in FreeNodes :
          /\ node' = [node EXCEPT ![p] = n]
          /\ data' = [data EXCEPT ![n] = Null]
          /\ next' = [next EXCEPT ![n] = Null]
    /\ value' = [value EXCEPT ![p] = v]
    /\ pc' = [pc EXCEPT ![p] = "lockTail"]
    /\ UNCHANGED <<head, tail, headMutex, tailMutex, waiters, chain>>

PushLock(p) ==
    /\ pc[p] = "lockTail"
    /\ tailMutex = Null
    /\ tailMutex' = p
    /\ pc' = [pc EXCEPT ![p] = "setData"]
    /\ UNCHANGED <<head, tail, data, next, headMutex, waiters, value, node, chain>>

PushSetData(p) ==
    /\ pc[p] = "setData"
    /\ data' = [data EXCEPT ![tail] = value[p]]
    /\ pc' = [pc EXCEPT ![p] = "setNext"]
    /\ UNCHANGED <<head, tail, next, headMutex, tailMutex, waiters, value, node, chain>>

\* Mutant: the link to the new node is forgotten.
PushSetNextForgotten(p) ==
    /\ pc[p] = "setNext"
    /\ pc' = [pc EXCEPT ![p] = "setTail"]
    /\ UNCHANGED <<head, tail, data, next, headMutex, tailMutex, waiters, value, node, chain>>

PushSetNext(p) ==
    /\ pc[p] = "setNext"
    /\ next' = [next EXCEPT ![tail] = node[p]]
    /\ pc' = [pc EXCEPT ![p] = "setTail"]
    /\ UNCHANGED <<head, tail, data, headMutex, tailMutex, waiters, value, node, chain>>

\* tail = new_tail; from here the node belongs to the list.
PushSetTail(p) ==
    /\ pc[p] = "setTail"
    /\ tail' = node[p]
    /\ chain' = Append(chain, node[p])
    /\ node' = [node EXCEPT ![p] = Null]
    /\ pc' = [pc EXCEPT ![p] = "unlockTail"]
    /\ UNCHANGED <<head, data, next, headMutex, tailMutex, waiters, value>>

PushUnlock(p) ==
    /\ pc[p] = "unlockTail"
    /\ tailMutex' = Null
    /\ pc' = [pc EXCEPT ![p] = "notify"]
    /\ UNCHANGED <<head, tail, data, next, headMutex, waiters, value, node, chain>>

\* Mutant: push does not notify.
PushNotifyForgotten(p) ==
    /\ pc[p] = "notify"
    /\ pc' = [pc EXCEPT ![p] = "idle"]
    /\ value' = [value EXCEPT ![p] = Null]
    /\ UNCHANGED <<head, tail, data, next, headMutex, tailMutex, waiters, node, chain>>

\* notify_one, with no mutex held: wakes one waiter if there is one, and is
\* forgotten otherwise.
PushNotify(p) ==
    /\ pc[p] = "notify"
    /\ \/ /\ waiters = {}
          /\ pc' = [pc EXCEPT ![p] = "idle"]
          /\ UNCHANGED waiters
       \/ \E c \in waiters :
             /\ waiters' = waiters \ {c}
             /\ pc' = [pc EXCEPT ![p] = "idle", ![c] = "relock"]
    /\ value' = [value EXCEPT ![p] = Null]
    /\ UNCHANGED <<head, tail, data, next, headMutex, tailMutex, node, chain>>
-----------------------------------------------------------------------------
(* wait_and_pop *)

PopCall(c) ==
    /\ pc[c] = "idle"
    /\ value' = [value EXCEPT ![c] = Null]
    /\ pc' = [pc EXCEPT ![c] = "lockHead"]
    /\ UNCHANGED <<head, tail, data, next, headMutex, tailMutex, waiters, node, chain>>

\* The unique_lock of wait_for_data, and the mutex a woken waiter takes again.
PopLock(c) ==
    /\ pc[c] \in {"lockHead", "relock"}
    /\ headMutex = Null
    /\ headMutex' = c
    /\ pc' = [pc EXCEPT ![c] = "check"]
    /\ UNCHANGED <<head, tail, data, next, tailMutex, waiters, value, node, chain>>

\* Mutant: the predicate looks at the head's data instead of the tail.
PopCheckData(c) ==
    /\ pc[c] = "check"
    /\ pc' = [pc EXCEPT ![c] = IF data[head] # Null THEN "pop" ELSE "block"]
    /\ UNCHANGED <<head, tail, data, next, headMutex, tailMutex, waiters, value, node, chain>>

\* The predicate of data_cond.wait, head.get() != get_tail().
PopCheck(c) ==
    /\ pc[c] = "check"
    /\ tailMutex = Null
    /\ pc' = [pc EXCEPT ![c] = IF head # tail THEN "pop" ELSE "block"]
    /\ UNCHANGED <<head, tail, data, next, headMutex, tailMutex, waiters, value, node, chain>>

\* The predicate was false: wait releases head_mutex and blocks in one step.
PopBlock(c) ==
    /\ pc[c] = "block"
    /\ waiters' = waiters \cup {c}
    /\ headMutex' = Null
    /\ pc' = [pc EXCEPT ![c] = "asleep"]
    /\ UNCHANGED <<head, tail, data, next, tailMutex, value, node, chain>>

\* A wakeup without a notify, which condition variables allow.
SpuriousWakeup(c) ==
    /\ c \in waiters
    /\ waiters' = waiters \ {c}
    /\ pc' = [pc EXCEPT ![c] = "relock"]
    /\ UNCHANGED <<head, tail, data, next, headMutex, tailMutex, value, node, chain>>

\* pop_head: old_head takes the node, head moves to its next.
PopHead(c) ==
    /\ pc[c] = "pop"
    /\ node' = [node EXCEPT ![c] = head]
    /\ head' = next[head]
    /\ chain' = Tail(chain)
    /\ pc' = [pc EXCEPT ![c] = "unlockHead"]
    /\ UNCHANGED <<tail, data, next, headMutex, tailMutex, waiters, value>>

PopUnlock(c) ==
    /\ pc[c] = "unlockHead"
    /\ headMutex' = Null
    /\ pc' = [pc EXCEPT ![c] = "return"]
    /\ UNCHANGED <<head, tail, data, next, tailMutex, waiters, value, node, chain>>

\* Mutant: the value is read from the list's head after the unlock.
PopReturnHead(c) ==
    /\ pc[c] = "return"
    /\ value' = [value EXCEPT ![c] = IF node[c] = Null THEN Null ELSE data[head]]
    /\ node' = [node EXCEPT ![c] = Null]
    /\ pc' = [pc EXCEPT ![c] = "idle"]
    /\ UNCHANGED <<head, tail, data, next, headMutex, tailMutex, waiters, chain>>

\* return old_head->data; old_head is destroyed and its address is free.
PopReturn(c) ==
    /\ pc[c] = "return"
    /\ value' = [value EXCEPT ![c] = IF node[c] = Null THEN Null ELSE data[node[c]]]
    /\ node' = [node EXCEPT ![c] = Null]
    /\ pc' = [pc EXCEPT ![c] = "idle"]
    /\ UNCHANGED <<head, tail, data, next, headMutex, tailMutex, waiters, chain>>
-----------------------------------------------------------------------------
(* try_pop *)

TryPopCall(c) ==
    /\ pc[c] = "idle"
    /\ value' = [value EXCEPT ![c] = Null]
    /\ pc' = [pc EXCEPT ![c] = "tryLockHead"]
    /\ UNCHANGED <<head, tail, data, next, headMutex, tailMutex, waiters, node, chain>>

TryPopLock(c) ==
    /\ pc[c] = "tryLockHead"
    /\ headMutex = Null
    /\ headMutex' = c
    /\ pc' = [pc EXCEPT ![c] = "tryCheck"]
    /\ UNCHANGED <<head, tail, data, next, tailMutex, waiters, value, node, chain>>

\* try_pop_head goes on to pop_head, or returns an empty unique_ptr.
TryPopCheck(c) ==
    /\ pc[c] = "tryCheck"
    /\ tailMutex = Null
    /\ pc' = [pc EXCEPT ![c] = IF head # tail THEN "pop" ELSE "unlockHead"]
    /\ UNCHANGED <<head, tail, data, next, headMutex, tailMutex, waiters, value, node, chain>>
-----------------------------------------------------------------------------
Push(p) ==
    \/ PushLock(p) \/ PushSetData(p) \/ PushSetNext(p) \/ PushSetTail(p)
    \/ PushUnlock(p) \/ PushNotify(p)

Pop(c) ==
    \/ PopLock(c) \/ PopCheck(c) \/ PopBlock(c) \/ PopHead(c)
    \/ PopUnlock(c) \/ PopReturn(c) \/ TryPopLock(c) \/ TryPopCheck(c)

Next ==
    \/ \E p \in Producers : Push(p) \/ \E v \in Values : PushAlloc(p, v)
    \/ \E c \in Consumers : Pop(c) \/ PopCall(c) \/ TryPopCall(c) \/ SpuriousWakeup(c)

Spec == Init /\ [][Next]_vars

(***************************************************************************)
(* Fairness.  A thread inside an operation keeps running; one that waits   *)
(* for a mutex gets it in the end although others take it again and again  *)
(* (strong fairness: std::mutex does not starve a thread for ever under    *)
(* the schedulers the program runs on); a consumer calls again, as the     *)
(* loops of ListenToMail and Broker::Run do.  Nothing obliges a producer   *)
(* to push, and nothing promises a spurious wakeup.                        *)
(***************************************************************************)
Fairness ==
    /\ \A p \in Producers : SF_vars(Push(p))
    /\ \A c \in Consumers : SF_vars(Pop(c)) /\ WF_vars(PopCall(c) \/ TryPopCall(c))

FairSpec == Spec /\ Fairness
-----------------------------------------------------------------------------
(* Properties *)

PushPC == {"idle", "lockTail", "setData", "setNext", "setTail", "unlockTail", "notify"}
PopPC  == {"idle", "lockHead", "relock", "check", "block", "asleep", "pop", "unlockHead",
           "return", "tryLockHead", "tryCheck"}

\* Every variable stays in its type: a thread is at a step of its own operation,
\* and a pointer is a node or null.
TypeOK ==
    /\ head \in Nodes
    /\ tail \in Nodes
    /\ data \in [Nodes -> Values \cup {Null}]
    /\ next \in [Nodes -> Nodes \cup {Null}]
    /\ headMutex \in Consumers \cup {Null}
    /\ tailMutex \in Producers \cup {Null}
    /\ waiters \subseteq Consumers
    /\ pc \in [Threads -> PushPC \cup PopPC]
    /\ \A p \in Producers : pc[p] \in PushPC
    /\ \A c \in Consumers : pc[c] \in PopPC
    /\ value \in [Threads -> Values \cup {Null}]
    /\ node \in [Threads -> Nodes \cup {Null}]
    /\ chain \in Seq(Nodes)

\* The pointers always spell out the list: head and tail are its ends, every
\* next pointer leads to the following node, every node but the dummy at the
\* tail carries a value, and no node occurs twice.  This is what the split
\* into head_mutex and tail_mutex has to preserve although no thread of a
\* push and a pop ever holds both.
ListShape ==
    /\ chain # <<>>
    /\ head = chain[1]
    /\ tail = chain[Len(chain)]
    /\ \A i \in 1..Len(chain)-1 : /\ next[chain[i]] = chain[i+1]
                                  /\ data[chain[i]] \in Values
    /\ \A i, j \in 1..Len(chain) : chain[i] = chain[j] => i = j

\* unique_ptr ownership: a node a thread holds (a producer's p, a consumer's
\* old_head) is held by it alone and is not in the list, so freeing it can
\* leave no dangling head, tail or next pointer behind.
SoleOwner ==
    \A t \in Threads : node[t] # Null =>
        /\ \A u \in Threads : node[u] = node[t] => u = t
        /\ \A i \in 1..Len(chain) : chain[i] # node[t]

\* Who holds which mutex, and who is registered with the condition variable.
HoldsHead == {"check", "block", "pop", "unlockHead", "tryCheck"}
HoldsTail == {"setData", "setNext", "setTail", "unlockTail"}

MutexHeld ==
    /\ \A c \in Consumers : headMutex = c <=> pc[c] \in HoldsHead
    /\ \A p \in Producers : tailMutex = p <=> pc[p] \in HoldsTail
    /\ \A c \in Consumers : c \in waiters <=> pc[c] = "asleep"

\* What a half-done push has already written and what a half-done pop may rely
\* on: head # tail, seen by the predicate, still holds when pop_head runs,
\* although tail_mutex was released in between.
InProgress ==
    /\ \A p \in Producers :
          /\ node[p] # Null <=> pc[p] \in {"lockTail", "setData", "setNext", "setTail"}
          /\ pc[p] # "idle" => value[p] \in Values
          /\ pc[p] \in {"setNext", "setTail"} => data[tail] = value[p]
          /\ pc[p] = "setTail" => next[tail] = node[p]
    /\ \A c \in Consumers :
          /\ node[c] # Null => pc[c] \in {"unlockHead", "return"}
          /\ pc[c] = "pop" => head # tail

\* push writes the node at the tail under tail_mutex, pop_head and the return
\* of old_head->data read nodes without it: they never meet on one node.
NoDataRace ==
    \A p \in Producers, c \in Consumers :
        pc[p] \in {"setData", "setNext"} =>
            /\ pc[c] = "pop" => head # tail
            /\ pc[c] \in {"unlockHead", "return"} => node[c] # tail

\* A wait_and_pop that returns has a value: the dummy node is never popped, so
\* Run's and ListenToMail's msg is never the empty pointer.
PoppedNodeHasValue ==
    \A c \in Consumers : node[c] # Null => data[node[c]] \in Values

\* The queue as its users see it, and the value a consumer's pop has taken.
AbstractQueue == [i \in 1..Len(chain)-1 |-> data[chain[i]]]
AbstractTaken == [c \in Consumers |-> IF node[c] # Null THEN data[node[c]] ELSE value[c]]

Fifo == INSTANCE FifoQueue WITH queue <- AbstractQueue, taken <- AbstractTaken

\* Every interleaving of pushes and pops has the effect of atomic operations
\* on one FIFO queue: nothing is lost, duplicated or reordered, and a pop
\* returns the value it took even after it has given up head_mutex.
ImplementsFifo == Fifo!Spec

\* A push that finds a consumer asleep when it comes to notify_one is not lost
\* on it: somebody pops, although the sleeper may wake up by itself, or another
\* consumer may get to the node before it.
SleeperIsWoken ==
    \A p \in Producers :
        (pc[p] = "notify" /\ waiters # {} /\ Len(chain) > 1)
            ~> \E c \in Consumers : node[c] # Null

\* architecture.md: a message that came to the broker's mailbox "is then
\* routed", whether or not another one follows it.
EveryPushIsPopped ==
    Len(chain) > 1 ~> \E c \in Consumers : node[c] # Null
=============================================================================
