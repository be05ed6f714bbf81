----------------------- MODULE ThreadSafeQueueProofs -----------------------
(***************************************************************************)
(* The mailbox queue keeps its shape for any number of threads, values and *)
(* nodes.  The invariants of ThreadSafeQueue are inductive only together:  *)
(* the list keeps its shape because a half-done push has written what it   *)
(* is going to publish (InProgress), which holds because one thread at a   *)
(* time works at each end (MutexHeld).                                     *)
(***************************************************************************)
EXTENDS ThreadSafeQueue, TLAPS

IInv == TypeOK /\ ListShape /\ SoleOwner /\ MutexHeld /\ InProgress /\ PoppedNodeHasValue

\* The constructor's empty list, with every thread idle, satisfies the invariant.
LEMMA InitIInv == Init => IInv
  <1> SUFFICES ASSUME Init PROVE IInv
    OBVIOUS
  <1> USE QueueAssumption DEF Init, Threads
  <1>1. TypeOK
    BY DEF TypeOK, PushPC, PopPC
  <1>2. ListShape
    BY DEF ListShape
  <1>3. SoleOwner /\ MutexHeld /\ InProgress /\ PoppedNodeHasValue
    BY DEF SoleOwner, MutexHeld, InProgress, PoppedNodeHasValue, HoldsHead, HoldsTail
  <1> QED
    BY <1>1, <1>2, <1>3 DEF IInv

\* Every step of push, wait_and_pop and try_pop keeps every variable in its type.
LEMMA StepTypeOK == IInv /\ [Next]_vars => TypeOK'
  <1> SUFFICES ASSUME IInv, [Next]_vars PROVE TypeOK'
    OBVIOUS
  <1> USE QueueAssumption DEF IInv, TypeOK, Threads, PushPC, PopPC
  <1>1. ASSUME NEW p \in Producers, NEW v \in Values, PushAlloc(p, v) PROVE TypeOK'
    BY <1>1 DEF PushAlloc, FreeNodes
  <1>2. ASSUME NEW p \in Producers, PushLock(p) PROVE TypeOK'
    BY <1>2 DEF PushLock
  <1>3. ASSUME NEW p \in Producers, PushSetData(p) PROVE TypeOK'
    BY <1>3 DEF PushSetData
  <1>4. ASSUME NEW p \in Producers, PushSetNext(p) PROVE TypeOK'
    BY <1>4 DEF PushSetNext
  <1>5. ASSUME NEW p \in Producers, PushSetTail(p) PROVE TypeOK'
    BY <1>5 DEF PushSetTail, InProgress
  <1>6. ASSUME NEW p \in Producers, PushUnlock(p) PROVE TypeOK'
    BY <1>6 DEF PushUnlock
  <1>7. ASSUME NEW p \in Producers, PushNotify(p) PROVE TypeOK'
    BY <1>7 DEF PushNotify
  <1>8. ASSUME NEW c \in Consumers, PopCall(c) \/ TryPopCall(c) PROVE TypeOK'
    <2>1. CASE PopCall(c)
      BY <2>1 DEF PopCall
    <2>2. CASE TryPopCall(c)
      BY <2>2 DEF TryPopCall
    <2> QED
      BY <1>8, <2>1, <2>2
  <1>9. ASSUME NEW c \in Consumers, PopLock(c) \/ TryPopLock(c) PROVE TypeOK'
    BY <1>9 DEF PopLock, TryPopLock
  <1>10. ASSUME NEW c \in Consumers, PopCheck(c) \/ TryPopCheck(c) PROVE TypeOK'
    BY <1>10 DEF PopCheck, TryPopCheck
  <1>11. ASSUME NEW c \in Consumers, PopBlock(c) PROVE TypeOK'
    BY <1>11 DEF PopBlock
  <1>12. ASSUME NEW c \in Consumers, SpuriousWakeup(c) PROVE TypeOK'
    BY <1>12 DEF SpuriousWakeup
  <1>13. ASSUME NEW c \in Consumers, PopHead(c) PROVE TypeOK'
    BY <1>13 DEF PopHead, InProgress, ListShape
  <1>14. ASSUME NEW c \in Consumers, PopUnlock(c) PROVE TypeOK'
    BY <1>14 DEF PopUnlock
  <1>15. ASSUME NEW c \in Consumers, PopReturn(c) PROVE TypeOK'
    BY <1>15 DEF PopReturn
  <1>16. CASE UNCHANGED vars
    BY <1>16, SMTT(60) DEF vars
  <1> QED
    BY <1>1, <1>2, <1>3, <1>4, <1>5, <1>6, <1>7, <1>8, <1>9, <1>10, <1>11, <1>12,
       Zenon, <1>13, <1>14, <1>15, <1>16 DEF Next, Push, Pop

\* Every step agrees with lock_guard and unique_lock: a thread is between its
\* lock and unlock exactly while it holds the mutex.
LEMMA StepMutexHeld == IInv /\ [Next]_vars => MutexHeld'
  <1> SUFFICES ASSUME IInv, [Next]_vars PROVE MutexHeld'
    OBVIOUS
  <1> USE QueueAssumption DEF IInv, TypeOK, Threads, MutexHeld, HoldsHead, HoldsTail, PushPC, PopPC
  <1>1. ASSUME NEW p \in Producers, NEW v \in Values, PushAlloc(p, v) PROVE MutexHeld'
    BY <1>1 DEF PushAlloc
  <1>2. ASSUME NEW p \in Producers, PushLock(p) PROVE MutexHeld'
    BY <1>2 DEF PushLock
  <1>3. ASSUME NEW p \in Producers, PushSetData(p) PROVE MutexHeld'
    BY <1>3 DEF PushSetData
  <1>4. ASSUME NEW p \in Producers, PushSetNext(p) PROVE MutexHeld'
    BY <1>4 DEF PushSetNext
  <1>5. ASSUME NEW p \in Producers, PushSetTail(p) PROVE MutexHeld'
    BY <1>5 DEF PushSetTail
  <1>6. ASSUME NEW p \in Producers, PushUnlock(p) PROVE MutexHeld'
    BY <1>6 DEF PushUnlock
  <1>7. ASSUME NEW p \in Producers, PushNotify(p) PROVE MutexHeld'
    BY <1>7 DEF PushNotify
  <1>8. ASSUME NEW c \in Consumers, PopCall(c) PROVE MutexHeld'
    BY <1>8 DEF PopCall
  <1>9. ASSUME NEW c \in Consumers, PopLock(c) PROVE MutexHeld'
    BY <1>9 DEF PopLock
  <1>10. ASSUME NEW c \in Consumers, PopCheck(c) PROVE MutexHeld'
    BY <1>10 DEF PopCheck
  <1>11. ASSUME NEW c \in Consumers, PopBlock(c) PROVE MutexHeld'
    BY <1>11 DEF PopBlock
  <1>12. ASSUME NEW c \in Consumers, SpuriousWakeup(c) PROVE MutexHeld'
    BY <1>12 DEF SpuriousWakeup
  <1>13. ASSUME NEW c \in Consumers, PopHead(c) PROVE MutexHeld'
    BY <1>13 DEF PopHead
  <1>14. ASSUME NEW c \in Consumers, PopUnlock(c) PROVE MutexHeld'
    BY <1>14 DEF PopUnlock
  <1>15. ASSUME NEW c \in Consumers, PopReturn(c) PROVE MutexHeld'
    BY <1>15 DEF PopReturn
  <1>16. ASSUME NEW c \in Consumers, TryPopCall(c) PROVE MutexHeld'
    BY <1>16 DEF TryPopCall
  <1>17. ASSUME NEW c \in Consumers, TryPopLock(c) PROVE MutexHeld'
    BY <1>17 DEF TryPopLock
  <1>18. ASSUME NEW c \in Consumers, TryPopCheck(c) PROVE MutexHeld'
    BY <1>18 DEF TryPopCheck
  <1>19. CASE UNCHANGED vars
    BY <1>19 DEF vars
  <1> QED
    BY <1>1, <1>2, <1>3, <1>4, <1>5, <1>6, <1>7, <1>8, <1>9, <1>10,
       <1>11, <1>12, <1>13, <1>14, <1>15, <1>16, <1>17, <1>18, <1>19, Zenon DEF Next, Push, Pop

\* Only push's last write and pop_head change the list, one at each end.
LEMMA StepListShape == IInv /\ [Next]_vars => ListShape'
  <1> SUFFICES ASSUME IInv, [Next]_vars PROVE ListShape'
    OBVIOUS
  <1> USE QueueAssumption DEF IInv, TypeOK, Threads, ListShape
  <1>1. ASSUME NEW p \in Producers, NEW v \in Values, PushAlloc(p, v) PROVE ListShape'
    BY <1>1 DEF PushAlloc, FreeNodes
  <1>2. ASSUME NEW p \in Producers, PushLock(p) PROVE ListShape'
    BY <1>2 DEF PushLock
  <1>3. ASSUME NEW p \in Producers, PushSetData(p) PROVE ListShape'
    BY <1>3 DEF PushSetData, InProgress
  <1>4. ASSUME NEW p \in Producers, PushSetNext(p) PROVE ListShape'
    BY <1>4 DEF PushSetNext
  <1>5. ASSUME NEW p \in Producers, PushSetTail(p) PROVE ListShape'
    BY <1>5 DEF PushSetTail, InProgress, SoleOwner
  <1>6. ASSUME NEW p \in Producers, PushUnlock(p) PROVE ListShape'
    BY <1>6 DEF PushUnlock
  <1>7. ASSUME NEW p \in Producers, PushNotify(p) PROVE ListShape'
    BY <1>7 DEF PushNotify
  <1>8. ASSUME NEW c \in Consumers, PopCall(c) PROVE ListShape'
    BY <1>8 DEF PopCall
  <1>9. ASSUME NEW c \in Consumers, PopLock(c) PROVE ListShape'
    BY <1>9 DEF PopLock
  <1>10. ASSUME NEW c \in Consumers, PopCheck(c) PROVE ListShape'
    BY <1>10 DEF PopCheck
  <1>11. ASSUME NEW c \in Consumers, PopBlock(c) PROVE ListShape'
    BY <1>11 DEF PopBlock
  <1>12. ASSUME NEW c \in Consumers, SpuriousWakeup(c) PROVE ListShape'
    BY <1>12 DEF SpuriousWakeup
  <1>13. ASSUME NEW c \in Consumers, PopHead(c) PROVE ListShape'
    <2>1. /\ Len(chain) > 1
          /\ chain' = Tail(chain)
          /\ head' = chain[2]
          /\ UNCHANGED <<tail, next, data>>
      BY <1>13 DEF PopHead, InProgress
    <2>2. /\ Len(chain') = Len(chain) - 1
          /\ \A i \in 1..Len(chain') : chain'[i] = chain[i+1]
      BY <2>1
    <2>3. /\ chain' # <<>>
          /\ head' = chain'[1]
          /\ tail' = chain'[Len(chain')]
      <3>1. Len(chain) \in Nat /\ Len(chain') \in 1..Len(chain')
        BY <2>1, <2>2
      <3>2. chain' # <<>>
        <4>1. Len(chain') > 0
          BY <2>1, <2>2
        <4>2. Len(<<>>) = 0
          OBVIOUS
        <4> QED
          BY ONLY <4>1, <4>2
      <3>3. head' = chain'[1]
        BY <2>1, <2>2, <3>1
      <3>4. chain'[Len(chain')] = chain[(Len(chain) - 1) + 1]
        BY <2>2, <3>1
      <3> QED
        BY <2>1, <3>1, <3>2, <3>3, <3>4
    <2>4. \A i \in 1..Len(chain')-1 : /\ next'[chain'[i]] = chain'[i+1]
                                     /\ data'[chain'[i]] \in Values
      <3> TAKE i \in 1..Len(chain')-1
      <3>1. /\ i \in Nat
            /\ i+1 \in 1..Len(chain)-1
            /\ chain'[i] = chain[i+1]
            /\ chain'[i+1] = chain[(i+1)+1]
        BY <2>1, <2>2
      <3> QED
        BY <2>1, <3>1
    <2>5. \A i, j \in 1..Len(chain') : chain'[i] = chain'[j] => i = j
      <3> TAKE i, j \in 1..Len(chain')
      <3>1. /\ i+1 \in 1..Len(chain)
            /\ j+1 \in 1..Len(chain)
            /\ chain'[i] = chain[i+1]
            /\ chain'[j] = chain[j+1]
        BY <2>1, <2>2
      <3>2. chain[i+1] = chain[j+1] => i+1 = j+1
        BY <3>1
      <3> QED
        BY <3>1, <3>2
    <2> QED
      BY <2>3, <2>4, <2>5
  <1>14. ASSUME NEW c \in Consumers, PopUnlock(c) PROVE ListShape'
    BY <1>14 DEF PopUnlock
  <1>15. ASSUME NEW c \in Consumers, PopReturn(c) PROVE ListShape'
    BY <1>15 DEF PopReturn
  <1>16. ASSUME NEW c \in Consumers, TryPopCall(c) PROVE ListShape'
    BY <1>16 DEF TryPopCall
  <1>17. ASSUME NEW c \in Consumers, TryPopLock(c) PROVE ListShape'
    BY <1>17 DEF TryPopLock
  <1>18. ASSUME NEW c \in Consumers, TryPopCheck(c) PROVE ListShape'
    BY <1>18 DEF TryPopCheck
  <1>19. CASE UNCHANGED vars
    BY <1>19 DEF vars
  <1> QED
    BY <1>1, <1>2, <1>3, <1>4, <1>5, <1>6, <1>7, <1>8, <1>9, <1>10,
       Zenon, <1>11, <1>12, <1>13, <1>14, <1>15, <1>16, <1>17, <1>18, <1>19 DEF Next, Push, Pop

\* A node goes from a push to the list and from the list to one old_head.
LEMMA StepSoleOwner == IInv /\ [Next]_vars => SoleOwner'
  <1> SUFFICES ASSUME IInv, [Next]_vars PROVE SoleOwner'
    OBVIOUS
  <1> USE QueueAssumption DEF IInv, TypeOK, Threads, SoleOwner, ListShape
  <1>1. ASSUME NEW p \in Producers, NEW v \in Values, PushAlloc(p, v) PROVE SoleOwner'
    BY <1>1 DEF PushAlloc, FreeNodes
  <1>2. ASSUME NEW p \in Producers, PushLock(p) PROVE SoleOwner'
    BY <1>2 DEF PushLock
  <1>3. ASSUME NEW p \in Producers, PushSetData(p) PROVE SoleOwner'
    BY <1>3 DEF PushSetData
  <1>4. ASSUME NEW p \in Producers, PushSetNext(p) PROVE SoleOwner'
    BY <1>4 DEF PushSetNext
  <1>5. ASSUME NEW p \in Producers, PushSetTail(p) PROVE SoleOwner'
    BY <1>5 DEF PushSetTail
  <1>6. ASSUME NEW p \in Producers, PushUnlock(p) PROVE SoleOwner'
    BY <1>6 DEF PushUnlock
  <1>7. ASSUME NEW p \in Producers, PushNotify(p) PROVE SoleOwner'
    BY <1>7 DEF PushNotify
  <1>8. ASSUME NEW c \in Consumers, PopCall(c) PROVE SoleOwner'
    BY <1>8 DEF PopCall
  <1>9. ASSUME NEW c \in Consumers, PopLock(c) PROVE SoleOwner'
    BY <1>9 DEF PopLock
  <1>10. ASSUME NEW c \in Consumers, PopCheck(c) PROVE SoleOwner'
    BY <1>10 DEF PopCheck
  <1>11. ASSUME NEW c \in Consumers, PopBlock(c) PROVE SoleOwner'
    BY <1>11 DEF PopBlock
  <1>12. ASSUME NEW c \in Consumers, SpuriousWakeup(c) PROVE SoleOwner'
    BY <1>12 DEF SpuriousWakeup
  <1>13. ASSUME NEW c \in Consumers, PopHead(c) PROVE SoleOwner'
    BY <1>13 DEF PopHead, InProgress
  <1>14. ASSUME NEW c \in Consumers, PopUnlock(c) PROVE SoleOwner'
    BY <1>14 DEF PopUnlock
  <1>15. ASSUME NEW c \in Consumers, PopReturn(c) PROVE SoleOwner'
    BY <1>15 DEF PopReturn
  <1>16. ASSUME NEW c \in Consumers, TryPopCall(c) PROVE SoleOwner'
    BY <1>16 DEF TryPopCall
  <1>17. ASSUME NEW c \in Consumers, TryPopLock(c) PROVE SoleOwner'
    BY <1>17 DEF TryPopLock
  <1>18. ASSUME NEW c \in Consumers, TryPopCheck(c) PROVE SoleOwner'
    BY <1>18 DEF TryPopCheck
  <1>19. CASE UNCHANGED vars
    BY <1>19 DEF vars
  <1> QED
    BY <1>1, <1>2, <1>3, <1>4, <1>5, <1>6, <1>7, <1>8, <1>9, <1>10,
       Zenon, <1>11, <1>12, <1>13, <1>14, <1>15, <1>16, <1>17, <1>18, <1>19 DEF Next, Push, Pop

\* What a push wrote under tail_mutex stays until it publishes it, and what a
\* pop saw (head # tail) stays until it acts on it.
LEMMA StepInProgress == IInv /\ [Next]_vars => InProgress'
  <1> SUFFICES ASSUME IInv, [Next]_vars PROVE InProgress'
    OBVIOUS
  <1> USE QueueAssumption DEF IInv, TypeOK, Threads, InProgress, MutexHeld, HoldsHead, HoldsTail, PushPC, PopPC
  <1>1. ASSUME NEW p \in Producers, NEW v \in Values, PushAlloc(p, v) PROVE InProgress'
    BY <1>1 DEF PushAlloc, FreeNodes, ListShape
  <1>2. ASSUME NEW p \in Producers, PushLock(p) PROVE InProgress'
    BY <1>2 DEF PushLock
  <1>3. ASSUME NEW p \in Producers, PushSetData(p) PROVE InProgress'
    BY <1>3 DEF PushSetData
  <1>4. ASSUME NEW p \in Producers, PushSetNext(p) PROVE InProgress'
    BY <1>4 DEF PushSetNext
  <1>5. ASSUME NEW p \in Producers, PushSetTail(p) PROVE InProgress'
    <2>1. /\ pc[p] = "setTail"
          /\ pc' = [pc EXCEPT ![p] = "unlockTail"]
          /\ node' = [node EXCEPT ![p] = Null]
          /\ tail' = node[p]
          /\ UNCHANGED <<head, value>>
      BY <1>5 DEF PushSetTail
    <2>2. \A q \in Producers : q # p => pc'[q] \notin HoldsTail
      BY <1>5, <2>1 DEF PushSetTail
    <2>3. head # tail'
      BY <1>5, <2>1 DEF PushSetTail, ListShape, SoleOwner
    <2> QED
      BY <2>1, <2>2, <2>3
  <1>6. ASSUME NEW p \in Producers, PushUnlock(p) PROVE InProgress'
    BY <1>6 DEF PushUnlock
  <1>7. ASSUME NEW p \in Producers, PushNotify(p) PROVE InProgress'
    BY <1>7 DEF PushNotify
  <1>8. ASSUME NEW c \in Consumers, PopCall(c) PROVE InProgress'
    BY <1>8 DEF PopCall
  <1>9. ASSUME NEW c \in Consumers, PopLock(c) PROVE InProgress'
    BY <1>9 DEF PopLock
  <1>10. ASSUME NEW c \in Consumers, PopCheck(c) PROVE InProgress'
    BY <1>10 DEF PopCheck
  <1>11. ASSUME NEW c \in Consumers, PopBlock(c) PROVE InProgress'
    BY <1>11 DEF PopBlock
  <1>12. ASSUME NEW c \in Consumers, SpuriousWakeup(c) PROVE InProgress'
    BY <1>12 DEF SpuriousWakeup
  <1>13. ASSUME NEW c \in Consumers, PopHead(c) PROVE InProgress'
    BY <1>13 DEF PopHead
  <1>14. ASSUME NEW c \in Consumers, PopUnlock(c) PROVE InProgress'
    BY <1>14 DEF PopUnlock
  <1>15. ASSUME NEW c \in Consumers, PopReturn(c) PROVE InProgress'
    BY <1>15 DEF PopReturn
  <1>16. ASSUME NEW c \in Consumers, TryPopCall(c) PROVE InProgress'
    BY <1>16 DEF TryPopCall
  <1>17. ASSUME NEW c \in Consumers, TryPopLock(c) PROVE InProgress'
    BY <1>17 DEF TryPopLock
  <1>18. ASSUME NEW c \in Consumers, TryPopCheck(c) PROVE InProgress'
    BY <1>18 DEF TryPopCheck
  <1>19. CASE UNCHANGED vars
    BY <1>19 DEF vars
  <1> QED
    BY <1>1, <1>2, <1>3, <1>4, <1>5, <1>6, <1>7, <1>8, <1>9, <1>10,
       Zenon, <1>11, <1>12, <1>13, <1>14, <1>15, <1>16, <1>17, <1>18, <1>19 DEF Next, Push, Pop

\* No push writes to the node a pop has taken out of the list.
LEMMA StepPopped == IInv /\ [Next]_vars => PoppedNodeHasValue'
  <1> SUFFICES ASSUME IInv, [Next]_vars PROVE PoppedNodeHasValue'
    OBVIOUS
  <1> USE QueueAssumption DEF IInv, TypeOK, Threads, PoppedNodeHasValue, ListShape, SoleOwner, InProgress
  <1>1. ASSUME NEW p \in Producers, NEW v \in Values, PushAlloc(p, v) PROVE PoppedNodeHasValue'
    BY <1>1 DEF PushAlloc, FreeNodes
  <1>2. ASSUME NEW p \in Producers, PushLock(p) PROVE PoppedNodeHasValue'
    BY <1>2 DEF PushLock
  <1>3. ASSUME NEW p \in Producers, PushSetData(p) PROVE PoppedNodeHasValue'
    BY <1>3 DEF PushSetData
  <1>4. ASSUME NEW p \in Producers, PushSetNext(p) PROVE PoppedNodeHasValue'
    BY <1>4 DEF PushSetNext
  <1>5. ASSUME NEW p \in Producers, PushSetTail(p) PROVE PoppedNodeHasValue'
    BY <1>5 DEF PushSetTail
  <1>6. ASSUME NEW p \in Producers, PushUnlock(p) PROVE PoppedNodeHasValue'
    BY <1>6 DEF PushUnlock
  <1>7. ASSUME NEW p \in Producers, PushNotify(p) PROVE PoppedNodeHasValue'
    BY <1>7 DEF PushNotify
  <1>8. ASSUME NEW c \in Consumers, PopCall(c) PROVE PoppedNodeHasValue'
    BY <1>8 DEF PopCall
  <1>9. ASSUME NEW c \in Consumers, PopLock(c) PROVE PoppedNodeHasValue'
    BY <1>9 DEF PopLock
  <1>10. ASSUME NEW c \in Consumers, PopCheck(c) PROVE PoppedNodeHasValue'
    BY <1>10 DEF PopCheck
  <1>11. ASSUME NEW c \in Consumers, PopBlock(c) PROVE PoppedNodeHasValue'
    BY <1>11 DEF PopBlock
  <1>12. ASSUME NEW c \in Consumers, SpuriousWakeup(c) PROVE PoppedNodeHasValue'
    BY <1>12 DEF SpuriousWakeup
  <1>13. ASSUME NEW c \in Consumers, PopHead(c) PROVE PoppedNodeHasValue'
    BY <1>13 DEF PopHead
  <1>14. ASSUME NEW c \in Consumers, PopUnlock(c) PROVE PoppedNodeHasValue'
    BY <1>14 DEF PopUnlock
  <1>15. ASSUME NEW c \in Consumers, PopReturn(c) PROVE PoppedNodeHasValue'
    BY <1>15 DEF PopReturn
  <1>16. ASSUME NEW c \in Consumers, TryPopCall(c) PROVE PoppedNodeHasValue'
    BY <1>16 DEF TryPopCall
  <1>17. ASSUME NEW c \in Consumers, TryPopLock(c) PROVE PoppedNodeHasValue'
    BY <1>17 DEF TryPopLock
  <1>18. ASSUME NEW c \in Consumers, TryPopCheck(c) PROVE PoppedNodeHasValue'
    BY <1>18 DEF TryPopCheck
  <1>19. CASE UNCHANGED vars
    BY <1>19 DEF vars
  <1> QED
    BY <1>1, <1>2, <1>3, <1>4, <1>5, <1>6, <1>7, <1>8, <1>9, <1>10,
       Zenon, <1>11, <1>12, <1>13, <1>14, <1>15, <1>16, <1>17, <1>18, <1>19 DEF Next, Push, Pop

\* The whole invariant holds in every reachable state.
THEOREM QueueInvariant == Spec => []IInv
  <1>1. IInv /\ [Next]_vars => IInv'
    BY StepTypeOK, StepMutexHeld, StepListShape, StepSoleOwner, StepInProgress,
       StepPopped DEF IInv
  <1> QED
    BY InitIInv, <1>1, PTL DEF Spec

\* No operation of threadsafe_queue takes a variable out of its type.
THEOREM TypeCorrect == Spec => []TypeOK
  BY QueueInvariant, PTL DEF IInv

\* push and pop_head, under their two different mutexes, keep the linked list
\* a list from head to tail with a value in every node but the last.
THEOREM ListShapeHolds == Spec => []ListShape
  BY QueueInvariant, PTL DEF IInv

\* A node is owned by the list or by one thread, so the unique_ptr of a push
\* or of an old_head never frees what another thread still reaches.
THEOREM SoleOwnerHolds == Spec => []SoleOwner
  BY QueueInvariant, PTL DEF IInv

\* A wait_and_pop or try_pop that took a node returns the value of a push.
THEOREM PoppedNodeHasValueHolds == Spec => []PoppedNodeHasValue
  BY QueueInvariant, PTL DEF IInv

\* The node push writes under tail_mutex is never the one pop_head or the
\* return of wait_and_pop reads without it.
THEOREM NoDataRaceHolds == Spec => []NoDataRace
  <1>1. IInv => NoDataRace
    <2> SUFFICES ASSUME IInv, NEW p \in Producers, NEW c \in Consumers,
                        pc[p] \in {"setData", "setNext"}
                 PROVE  /\ pc[c] = "pop" => head # tail
                        /\ pc[c] \in {"unlockHead", "return"} => node[c] # tail
      BY DEF NoDataRace
    <2>1. tail = chain[Len(chain)] /\ Len(chain) \in 1..Len(chain) /\ tail # Null
      BY QueueAssumption DEF IInv, TypeOK, ListShape
    <2>2. node[c] # tail
      BY <2>1 DEF IInv, SoleOwner, Threads
    <2> QED
      BY <2>2 DEF IInv, InProgress
  <1> QED
    BY QueueInvariant, <1>1, PTL
-----------------------------------------------------------------------------
(* The queue its users see *)

\* The queue of values depends on the nodes before the dummy only.
LEMMA SameQueue ==
    ASSUME IInv, UNCHANGED chain, \A i \in 1..Len(chain) - 1 : data'[chain[i]] = data[chain[i]]
    PROVE  AbstractQueue' = AbstractQueue
  BY DEF AbstractQueue

\* What a consumer has taken depends on its own old_head and result only.
LEMMA SameTaken ==
    ASSUME \A c \in Consumers : node'[c] = node[c] /\ value'[c] = value[c]
                                /\ (node[c] # Null => data'[node[c]] = data[node[c]])
    PROVE  AbstractTaken' = AbstractTaken
  BY SMTT(60) DEF AbstractTaken

\* make_shared and new node write an object nobody else can see.
LEMMA AllocStutters ==
    ASSUME IInv, NEW p \in Producers, NEW v \in Values, PushAlloc(p, v)
    PROVE  AbstractQueue' = AbstractQueue /\ AbstractTaken' = AbstractTaken
  <1> USE QueueAssumption DEF IInv, TypeOK, Threads
  <1>1. PICK n \in FreeNodes : /\ node' = [node EXCEPT ![p] = n]
                               /\ data' = [data EXCEPT ![n] = Null]
    BY Zenon DEF PushAlloc
  <1>2. value' = [value EXCEPT ![p] = v] /\ UNCHANGED chain
    BY DEF PushAlloc
  <1>3. n \in Nodes /\ (\A i \in 1..Len(chain) : chain[i] # n) /\ \A t \in Threads : node[t] # n
    BY DEF FreeNodes
  <1>4. \A i \in 1..Len(chain) - 1 : data'[chain[i]] = data[chain[i]]
    <2>1. \A i \in 1..Len(chain) - 1 : i \in 1..Len(chain) /\ chain[i] \in Nodes
      OBVIOUS
    <2> QED
      BY <1>1, <1>3, <2>1
  <1>5. \A c \in Consumers : c # p /\ c \in Threads
    OBVIOUS
  <1>6. \A c \in Consumers : node'[c] = node[c] /\ value'[c] = value[c]
                             /\ (node[c] # Null => data'[node[c]] = data[node[c]])
    BY <1>1, <1>2, <1>3, <1>5
  <1> QED
    BY <1>2, <1>4, <1>6, SameQueue, SameTaken

\* The dummy's data is written where no consumer looks.
LEMMA SetDataStutters ==
    ASSUME IInv, NEW p \in Producers, PushSetData(p)
    PROVE  AbstractQueue' = AbstractQueue /\ AbstractTaken' = AbstractTaken
  <1> USE QueueAssumption DEF IInv, TypeOK, Threads
  <1>1. data' = [data EXCEPT ![tail] = value[p]] /\ UNCHANGED <<chain, node, value>>
    BY DEF PushSetData
  <1>2. Len(chain) \in Nat /\ Len(chain) \in 1..Len(chain) /\ tail = chain[Len(chain)]
    BY DEF ListShape
  <1>3. \A i \in 1..Len(chain) - 1 : chain[i] # tail /\ chain[i] \in Nodes
    <2>1. \A i \in 1..Len(chain) - 1 : i \in 1..Len(chain) /\ i # Len(chain) /\ chain[i] \in Nodes
      BY <1>2
    <2> QED
      BY <1>2, <2>1 DEF ListShape
  <1>4. \A c \in Consumers : node[c] # Null => node[c] \in Nodes /\ node[c] # tail
    BY <1>2 DEF SoleOwner
  <1> QED
    BY <1>1, <1>3, <1>4, SameQueue, SameTaken

\* push takes effect when tail moves to the new dummy.
LEMMA SetTailEnqueues ==
    ASSUME IInv, NEW p \in Producers, PushSetTail(p)
    PROVE  \E v \in Values : Fifo!Enqueue(v)
  <1> USE QueueAssumption DEF IInv, TypeOK, Threads
  <1>1. /\ pc[p] = "setTail" /\ chain' = Append(chain, node[p])
        /\ node' = [node EXCEPT ![p] = Null] /\ UNCHANGED <<data, value>>
    BY DEF PushSetTail
  <1>2. value[p] \in Values /\ data[tail] = value[p]
    BY <1>1 DEF InProgress
  <1>3. Len(chain) \in Nat /\ Len(chain) \in 1..Len(chain) /\ tail = chain[Len(chain)]
    BY DEF ListShape
  <1>4. AbstractTaken' = AbstractTaken
    <2>1. \A c \in Consumers : c # p /\ c \in Threads
      OBVIOUS
    <2> QED
      BY <1>1, <2>1, SameTaken
  <1>5. AbstractQueue' = Append(AbstractQueue, value[p])
    <2>1. chain \in Seq(Nodes) /\ chain' \in Seq(Nodes) /\ Len(chain') - 1 = Len(chain)
          /\ \A i \in 1..Len(chain) : chain'[i] = chain[i]
      BY <1>1, <1>3 DEF InProgress
    <2>2. AbstractQueue' = [i \in 1..Len(chain) |-> data[chain[i]]]
      BY <1>1, <2>1 DEF AbstractQueue
    <2>3. \A i \in 1..Len(chain) : data[chain[i]] \in Values \cup {Null}
      BY <2>1
    <2> DEFINE q == [i \in 1..Len(chain) - 1 |-> data[chain[i]]]
    <2>4. q \in Seq(Values \cup {Null}) /\ Len(q) = Len(chain) - 1
      BY <1>3, <2>3
    <2>5. \A i \in 1..Len(chain) : Append(q, value[p])[i] = data[chain[i]]
      <3>1. \A i \in 1..Len(chain) - 1 : Append(q, value[p])[i] = q[i]
        BY ONLY <1>3, <2>4, SMTT(60)
      <3>2. Append(q, value[p])[Len(chain)] = value[p]
        BY ONLY <1>3, <2>4
      <3>3. \A i \in 1..Len(chain) : i = Len(chain) \/ i \in 1..Len(chain) - 1
        BY ONLY <1>3
      <3> QED
        BY <1>2, <1>3, <3>1, <3>2, <3>3, SMTT(60)
    <2>6. Append(q, value[p]) \in Seq(Values \cup {Null}) /\ Len(Append(q, value[p])) = Len(chain)
      BY ONLY <1>2, <1>3, <2>4
    <2> HIDE DEF q
    <2>7. Append(q, value[p]) = [i \in 1..Len(chain) |-> data[chain[i]]]
      BY ONLY <1>3, <2>5, <2>6
    <2> QED
      BY <2>2, <2>7, Zenon DEF q, AbstractQueue
  <1> QED
    BY <1>2, <1>4, <1>5 DEF Fifo!Enqueue

\* A pop takes effect when head moves on.
LEMMA PopHeadDequeues ==
    ASSUME IInv, NEW c \in Consumers, PopHead(c)
    PROVE  Fifo!Dequeue(c)
  <1> USE QueueAssumption DEF IInv, TypeOK, Threads
  <1>1. /\ pc[c] = "pop" /\ chain' = Tail(chain)
        /\ node' = [node EXCEPT ![c] = head] /\ UNCHANGED <<data, value>>
    BY DEF PopHead
  <1>2. head # tail /\ head = chain[1] /\ tail = chain[Len(chain)] /\ chain # <<>>
    BY <1>1 DEF InProgress, ListShape
  <1>3. chain \in Seq(Nodes) /\ Len(chain) \in Nat /\ Len(chain) > 1 /\ 1 \in 1..Len(chain) - 1
    BY <1>2
  <1> DEFINE q == [i \in 1..Len(chain) - 1 |-> data[chain[i]]]
  <1>4. /\ q \in Seq(Values \cup {Null}) /\ Len(q) = Len(chain) - 1 /\ q[1] = data[head]
    <2>1. \A i \in 1..Len(chain) - 1 : data[chain[i]] \in Values \cup {Null}
      BY <1>3
    <2> QED
      BY <1>2, <1>3, <2>1
  <1>5. AbstractQueue' = Tail(q)
    <2>1. Len(chain') - 1 = Len(chain) - 2 /\ \A i \in 1..Len(chain) - 2 : chain'[i] = chain[i + 1]
      BY <1>1, <1>3
    <2>2. AbstractQueue' = [i \in 1..Len(chain) - 2 |-> data[chain[i + 1]]]
      BY <1>1, <2>1 DEF AbstractQueue
    <2>3. \A i \in 1..Len(chain) - 2 : i + 1 \in 1..Len(chain) - 1
      BY ONLY <1>3
    <2>4. \A i \in 1..Len(chain) - 2 : q[i + 1] = data[chain[i + 1]]
      BY <2>3
    <2> HIDE DEF q
    <2>5. /\ Tail(q) \in Seq(Values \cup {Null}) /\ Len(Tail(q)) = Len(chain) - 2
          /\ \A i \in 1..Len(chain) - 2 : Tail(q)[i] = q[i + 1]
      BY ONLY <1>3, <1>4
    <2> QED
      <3>1. \A i \in 1..Len(chain) - 2 : Tail(q)[i] = data[chain[i + 1]]
        BY ONLY <2>4, <2>5
      <3>2. PICK r \in Seq(Values \cup {Null}) : r = Tail(q)
        BY ONLY <2>5, Zenon
      <3>3. DOMAIN r = 1..Len(chain) - 2 /\ r = [i \in DOMAIN r |-> r[i]]
        <4>1. r \in Seq(Values \cup {Null}) /\ Len(r) = Len(chain) - 2
          BY ONLY <2>5, <3>2
        <4>2. DOMAIN r = 1..Len(r)
          BY ONLY <4>1
        <4>3. r = [i \in DOMAIN r |-> r[i]]
          BY ONLY <4>1
        <4> QED
          BY <4>1, <4>2, <4>3, Zenon
      <3>4. r = [i \in 1..Len(chain) - 2 |-> data[chain[i + 1]]]
        BY ONLY <3>1, <3>2, <3>3
      <3> QED
        BY ONLY <2>2, <3>2, <3>4, Zenon
  <1>6. AbstractTaken' = [AbstractTaken EXCEPT ![c] = data[head]]
    <2>1. \A d \in Consumers : node'[d] = IF d = c THEN head ELSE node[d]
      BY <1>1
    <2>2. head # Null
      OBVIOUS
    <2> QED
      BY <1>1, <2>1, <2>2, Zenon DEF AbstractTaken
  <1>7. q # <<>> /\ Head(q) = data[head]
    <2> HIDE DEF q
    <2> QED
      BY ONLY <1>3, <1>4
  <1>8. AbstractQueue = q
    BY DEF AbstractQueue
  <1> HIDE DEF q
  <1> QED
    BY <1>5, <1>6, <1>7, <1>8, Zenon DEF Fifo!Dequeue

\* A call forgets what the last one returned, and so does a try_pop that found
\* the queue empty; one that took a value returns that value.
LEMMA CallForgets ==
    ASSUME IInv, NEW c \in Consumers, PopCall(c) \/ TryPopCall(c) \/ PopReturn(c)
    PROVE  Fifo!Forget(c) \/ UNCHANGED <<AbstractQueue, AbstractTaken>>
  <1> USE QueueAssumption DEF IInv, TypeOK, Threads
  <1>1. UNCHANGED AbstractQueue
    BY DEF PopCall, TryPopCall, PopReturn, AbstractQueue
  <1>2. CASE PopCall(c) \/ TryPopCall(c)
    <2>1. node[c] = Null /\ value' = [value EXCEPT ![c] = Null] /\ UNCHANGED <<node, data>>
      BY <1>2 DEF PopCall, TryPopCall, InProgress
    <2>2. AbstractTaken' = [AbstractTaken EXCEPT ![c] = Null]
      BY <2>1, Zenon DEF AbstractTaken
    <2> QED
      BY <1>1, <2>2 DEF Fifo!Forget
  <1>3. CASE PopReturn(c)
    <2>1. /\ value' = [value EXCEPT ![c] = IF node[c] = Null THEN Null ELSE data[node[c]]]
          /\ node' = [node EXCEPT ![c] = Null] /\ UNCHANGED data
      BY <1>3 DEF PopReturn
    <2>2. CASE node[c] = Null
      <3>1. AbstractTaken' = [AbstractTaken EXCEPT ![c] = Null]
        BY <2>1, <2>2, Zenon DEF AbstractTaken
      <3> QED
        BY <1>1, <3>1 DEF Fifo!Forget
    <2>3. CASE node[c] # Null
      <3>1. AbstractTaken' = AbstractTaken
        BY <2>1, <2>3 DEF AbstractTaken
      <3> QED
        BY <1>1, <3>1
    <2> QED
      BY <2>2, <2>3
  <1> QED
    BY <1>2, <1>3

\* The other steps move mutexes, waiters and links that the users do not see.
LEMMA OthersStutter ==
    ASSUME IInv,
           \/ \E p \in Producers : PushLock(p) \/ PushSetNext(p) \/ PushUnlock(p) \/ PushNotify(p)
           \/ \E c \in Consumers : \/ PopLock(c) \/ PopCheck(c) \/ PopBlock(c) \/ PopUnlock(c)
                                   \/ TryPopLock(c) \/ TryPopCheck(c) \/ SpuriousWakeup(c)
           \/ UNCHANGED vars
    PROVE  UNCHANGED <<AbstractQueue, AbstractTaken>>
  <1> USE QueueAssumption DEF IInv, TypeOK, Threads
  <1>1. UNCHANGED <<data, chain, node>>
    BY Zenon DEF PushLock, PushSetNext, PushUnlock, PushNotify, PopLock, PopCheck, PopBlock, PopUnlock,
       TryPopLock, TryPopCheck, SpuriousWakeup, vars
  <1>2. UNCHANGED value \/ \E p \in Producers : value' = [value EXCEPT ![p] = Null]
    BY Zenon DEF PushLock, PushSetNext, PushUnlock, PushNotify, PopLock, PopCheck, PopBlock,
       PopUnlock, TryPopLock, TryPopCheck, SpuriousWakeup, vars
  <1>3. value \in [Threads -> Values \cup {Null}]
    BY Zenon
  <1>4. \A c \in Consumers : value'[c] = value[c]
    BY ONLY <1>2, <1>3, QueueAssumption DEF Threads
  <1> QED
    BY <1>1, <1>4, SameQueue, SameTaken, Zenon

\* For any threads, values and nodes, the linked list with its two mutexes
\* implements the atomic FIFO queue that the rest of the program relies on.
THEOREM ImplementsFifoHolds == Spec => ImplementsFifo
  <1>1. Init => Fifo!Init
    <2> SUFFICES ASSUME Init PROVE Fifo!Init
      OBVIOUS
    <2>1. chain = <<head>> /\ node = [t \in Threads |-> Null] /\ value = [t \in Threads |-> Null]
      BY DEF Init
    <2>2. AbstractQueue = <<>>
      BY <2>1 DEF AbstractQueue
    <2>3. AbstractTaken = [c \in Consumers |-> Null]
      BY <2>1 DEF AbstractTaken, Threads
    <2> QED
      BY <2>2, <2>3 DEF Fifo!Init
  <1>2. ASSUME IInv, [Next]_vars PROVE [Fifo!Next]_(Fifo!fvars)
    <2> DEFINE Goal == Fifo!Next \/ UNCHANGED <<AbstractQueue, AbstractTaken>>
    <2>1. ASSUME NEW p \in Producers, NEW v \in Values, PushAlloc(p, v) PROVE Goal
      BY <1>2, <2>1, AllocStutters
    <2>2. ASSUME NEW p \in Producers, PushSetData(p) PROVE Goal
      BY <1>2, <2>2, SetDataStutters
    <2>3. ASSUME NEW p \in Producers, PushSetTail(p) PROVE Goal
      BY <1>2, <2>3, SetTailEnqueues DEF Fifo!Next
    <2>4. ASSUME NEW c \in Consumers, PopHead(c) PROVE Goal
      BY <1>2, <2>4, PopHeadDequeues DEF Fifo!Next
    <2>5. ASSUME NEW c \in Consumers, PopCall(c) \/ TryPopCall(c) \/ PopReturn(c) PROVE Goal
      BY <1>2, <2>5, CallForgets DEF Fifo!Next
    <2>6. ASSUME NEW p \in Producers, PushLock(p) \/ PushSetNext(p) \/ PushUnlock(p) \/ PushNotify(p)
          PROVE  Goal
      BY <1>2, <2>6, OthersStutter
    <2>7. ASSUME NEW c \in Consumers,
                 \/ PopLock(c) \/ PopCheck(c) \/ PopBlock(c) \/ PopUnlock(c)
                 \/ TryPopLock(c) \/ TryPopCheck(c) \/ SpuriousWakeup(c)
          PROVE  Goal
      BY <1>2, <2>7, OthersStutter
    <2>8. ASSUME UNCHANGED vars PROVE Goal
      BY <1>2, <2>8, OthersStutter
    <2> HIDE DEF Goal
    <2>9. Goal
      BY <1>2, <2>1, <2>2, <2>3, <2>4, <2>5, <2>6, <2>7, <2>8, Zenon DEF Next, Push, Pop
    <2> QED
      BY <2>9 DEF Goal, Fifo!fvars
  <1> QED
    BY <1>1, <1>2, QueueInvariant, PTL DEF Spec, ImplementsFifo, Fifo!Spec
=============================================================================
