----------------------------- MODULE FifoQueue -----------------------------
(***************************************************************************)
(* What a mailbox promises: a first-in first-out queue shared by threads.  *)
(* Every operation of threadsafe_queue (include/threadsafequeue.hpp) takes *)
(* effect in one step, between its call and its return.  ThreadSafeQueue   *)
(* is shown to implement this specification.                               *)
(***************************************************************************)
EXTENDS Naturals, Sequences

CONSTANTS Values,    \* what is queued: shared_ptr<T> in the code
          Consumers, \* the threads that pop
          Null       \* no value: the empty shared_ptr

VARIABLES queue,     \* the values pushed and not yet popped, oldest first
          taken      \* for each consumer, the value its last pop has taken

fvars == <<queue, taken>>

Init ==
    /\ queue = <<>>
    /\ taken = [c \in Consumers |-> Null]

Enqueue(v) ==
    /\ queue' = Append(queue, v)
    /\ UNCHANGED taken

Dequeue(c) ==
    /\ queue # <<>>
    /\ queue' = Tail(queue)
    /\ taken' = [taken EXCEPT ![c] = Head(queue)]

\* A call of try_pop or wait_and_pop forgets what the call before it returned.
Forget(c) ==
    /\ taken' = [taken EXCEPT ![c] = Null]
    /\ UNCHANGED queue

Next ==
    \/ \E v \in Values : Enqueue(v)
    \/ \E c \in Consumers : Dequeue(c) \/ Forget(c)

Spec == Init /\ [][Next]_fvars
=============================================================================
