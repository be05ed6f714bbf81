------------------------ MODULE AvahiDiscoveryProofs ------------------------
(***************************************************************************)
(* What module AvahiDiscovery's runs check on a small instance, proved for *)
(* any services and bounds: the types, what a pause lets through, and that *)
(* an address is never reported before its service.                        *)
(***************************************************************************)
EXTENDS AvahiDiscovery, TLAPS

\* A poll that ran after OnPause is the last one: the worker is not at a poll
\* again while isPaused is set.
PollSpent == (isPaused = "yes" /\ readPaused = 1) => worker # "poll"

\* s was reported as published before message n to the app.
PublishedBefore(s, n) ==
    \E j \in 1..n-1 : toApp[j] = [type |-> "PUBLISHED", service |-> Shown(s)]

\* Every service that a resolver was made for has been reported.
ResolversPublished ==
    \A s \in resolvers : PublishedBefore(s, Len(toApp) + 1)

\* The inductive invariant.
IInv ==
    /\ TypeOK
    /\ AtMostOneReadPaused
    /\ PollSpent
    /\ ResolversPublished
    /\ ResolvedAfterPublished
-----------------------------------------------------------------------------
(* The initial state *)

\* The state the constructor leaves satisfies the invariant.
LEMMA InitIInv == Init => IInv
<1> SUFFICES ASSUME Init PROVE IInv
    OBVIOUS
<1>1. TypeOK
    BY DEF Init, TypeOK, WorkerSteps
<1>2. AtMostOneReadPaused /\ PollSpent
    BY DEF Init, AtMostOneReadPaused, PollSpent
<1>3. ResolversPublished /\ ResolvedAfterPublished
    BY DEF Init, ResolversPublished, ResolvedAfterPublished
<1> QED
    BY <1>1, <1>2, <1>3 DEF IInv
-----------------------------------------------------------------------------
(* Types *)

\* A message sent to the app keeps the sequence of messages typed.
LEMMA SendTyped ==
    ASSUME TypeOK, NEW s \in Services, NEW t, NEW n,
           \/ t \in {"PUBLISHED", "DEREGISTERED"} /\ n = Shown(s)
           \/ t = "SERVICE_RESOLVED" /\ n = Addressed(s),
           Send(t, n)
    PROVE  toApp' \in Seq(Reports)
<1>1. [type |-> t, service |-> n] \in Reports
    BY DEF Reports
<1> QED
    BY <1>1 DEF TypeOK, Send

\* Every step of every thread preserves the types.
LEMMA StepTypeOK == TypeOK /\ [Next]_vars => TypeOK'
<1> SUFFICES ASSUME TypeOK, [Next]_vars PROVE TypeOK'
    OBVIOUS
<1> USE DEF WorkerSteps
<1>1. CASE UNCHANGED vars
    BY <1>1 DEF TypeOK, vars, control, browse
<1>2. ASSUME NEW request \in {"PAUSE", "RESUME"}, Key(request) PROVE TypeOK'
    BY <1>2 DEF TypeOK, Key, browse, Requests
<1>3. CASE Quit
    BY <1>3 DEF TypeOK, Quit, browse, Requests
<1>4. CASE JoinMailBoxThread \/ JoinWorkerThread
    BY <1>4 DEF TypeOK, JoinMailBoxThread, JoinWorkerThread, control, browse
<1>5. CASE OnPause
    BY <1>5 DEF TypeOK, OnPause, Receive
<1>6. CASE OnResume
    BY <1>6 DEF TypeOK, OnResume, Receive, browse
<1>7. CASE OnResumeNotify
    BY <1>7 DEF TypeOK, OnResumeNotify, browse
<1>8. CASE OnShutdown
    BY <1>8 DEF TypeOK, OnShutdown, Receive, browse
<1>9. CASE StartBrowse \/ TestActive \/ TestPaused \/ CheckPredicate \/ Block
              \/ WakeSpuriously
    BY <1>9 DEF TypeOK, StartBrowse, TestActive, TestPaused, CheckPredicate, Block,
                WakeSpuriously, Step, control, browse
<1>10. CASE PollNothing \/ PollBrowserFailure \/ PollError
    BY <1>10 DEF TypeOK, PollNothing, PollBrowserFailure, PollError, CountRead, Step,
                 control
<1>11. CASE PollBrowse
    <2>1. Head(events) \in Events /\ events' \in Seq(Events)
        BY <1>11 DEF PollBrowse, TypeOK
    <2> DEFINE s == Head(events).service
    <2>2. s \in Services
        BY <2>1 DEF Events
    <2>3. toApp' \in Seq(Reports) /\ resolvers' \in SUBSET Services
        <3> HIDE DEF s
        <3>1. CASE BrowserNew(s)
            <4>1. toApp' \in Seq(Reports)
                BY <3>1, <2>2, SendTyped DEF BrowserNew
            <4> QED
                BY <4>1, <3>1, <2>2 DEF BrowserNew, TypeOK
        <3>2. CASE BrowserRemove(s)
            <4>1. toApp' \in Seq(Reports)
                BY <3>2, <2>2, SendTyped DEF BrowserRemove
            <4> QED
                BY <4>1, <3>2 DEF BrowserRemove, TypeOK
        <3> QED
            BY <1>11, <3>1, <3>2 DEF PollBrowse, s
    <2> QED
        BY <1>11, <2>1, <2>3 DEF PollBrowse, Step, TypeOK, CountRead, control
<1>12. ASSUME NEW s \in Services, PollResolve(s) PROVE TypeOK'
    <2>1. toApp' \in Seq(Reports)
        BY <1>12, SendTyped DEF PollResolve, TypeOK
    <2> QED
        BY <1>12, <2>1 DEF PollResolve, Step, TypeOK, CountRead, control
<1>13. ASSUME NEW s \in Services, NEW type \in {"NEW", "REMOVE"}, Happen(type, s)
       PROVE TypeOK'
    <2>1. [type |-> type, service |-> s] \in Events
        BY DEF Events
    <2> QED
        BY <1>13, <2>1 DEF Happen, TypeOK, control
<1> QED
    BY <1>1, <1>2, <1>3, <1>4, <1>5, <1>6, <1>7, <1>8, <1>9, <1>10, <1>11, <1>12, <1>13
       DEF Next, Main, Listener, Worker, Polls
-----------------------------------------------------------------------------
(* What a pause lets through *)

\* Every step keeps the count of polls since OnPause at one, and a worker that
\* has spent that one away from the poll.
LEMMA StepReads ==
    ASSUME TypeOK, AtMostOneReadPaused, PollSpent, [Next]_vars
    PROVE  AtMostOneReadPaused' /\ PollSpent'
<1> USE DEF AtMostOneReadPaused, PollSpent
<1>1. CASE UNCHANGED <<isPaused, readPaused, worker>>
    BY <1>1
<1>2. CASE OnPause
    BY <1>2 DEF OnPause
<1>3. CASE OnResume
    BY <1>3 DEF OnResume, browse
<1>4. CASE OnResumeNotify
    BY <1>4 DEF OnResumeNotify, browse
<1>5. CASE TestPaused
    BY <1>5 DEF TestPaused, Step, control, browse
<1>6. CASE StartBrowse \/ TestActive \/ CheckPredicate \/ Block \/ WakeSpuriously
    BY <1>6 DEF StartBrowse, TestActive, CheckPredicate, Block, WakeSpuriously, Step,
                control, browse
<1>7. ASSUME worker = "poll", worker' # "poll", CountRead, isPaused' = isPaused
      PROVE  AtMostOneReadPaused' /\ PollSpent'
    <2>1. readPaused \in {0, 1}
        BY DEF TypeOK
    <2>2. CASE isPaused = "yes"
        BY <1>7, <2>1, <2>2 DEF CountRead
    <2>3. CASE isPaused # "yes"
        BY <1>7, <2>1, <2>3 DEF CountRead
    <2> QED
        BY <2>2, <2>3
<1>8. CASE Polls
    <2>1. worker = "poll" /\ worker' # "poll" /\ CountRead /\ isPaused' = isPaused
        BY <1>8 DEF Polls, PollNothing, PollBrowse, PollResolve, PollBrowserFailure,
                    PollError, Step, control
    <2> QED
        BY <2>1, <1>7
<1>9. CASE \/ Main \/ OnShutdown \/ UNCHANGED vars
           \/ \E request \in {"PAUSE", "RESUME"} : Key(request)
           \/ \E s \in Services, type \in {"NEW", "REMOVE"} : Happen(type, s)
    <2>1. UNCHANGED <<isPaused, readPaused, worker>>
        BY <1>9, Zenon DEF Main, Quit, JoinMailBoxThread, JoinWorkerThread, OnShutdown, Key,
                    Happen, vars, control, browse
    <2> QED
        BY <2>1, <1>1
<1> QED
    BY <1>2, <1>3, <1>4, <1>5, <1>6, <1>8, <1>9 DEF Next, Listener, Worker
-----------------------------------------------------------------------------
(* Services before addresses *)

\* Send appends one message and leaves the earlier ones where they were.
LEMMA SendAppends ==
    ASSUME TypeOK, NEW s, NEW t, Send(t, s)
    PROVE  /\ Len(toApp') = Len(toApp) + 1
           /\ toApp'[Len(toApp) + 1] = [type |-> t, service |-> s]
           /\ \A j \in 1..Len(toApp) : toApp'[j] = toApp[j]
BY DEF TypeOK, Send

\* ResolvedAfterPublished in terms of PublishedBefore.
LEMMA ResolvedByPublished ==
    ResolvedAfterPublished <=>
        \A i \in 1..Len(toApp) : toApp[i].type = "SERVICE_RESOLVED" =>
            \E r \in Services : /\ toApp[i].service = Addressed(r)
                                /\ PublishedBefore(r, i)
BY DEF ResolvedAfterPublished, PublishedBefore

\* A message that is not the report of an address, or one for a service already
\* reported, keeps the order.
LEMMA SendKeepsOrder ==
    ASSUME TypeOK, ResolversPublished, ResolvedAfterPublished,
           NEW m, NEW t, Send(t, m),
           t = "SERVICE_RESOLVED" => \E s \in resolvers : m = Addressed(s)
    PROVE  ResolvedAfterPublished'
<1> DEFINE n == Len(toApp)
<1>a. Len(toApp') = n + 1
    BY SendAppends, Zenon
<1>b. toApp'[n + 1] = [type |-> t, service |-> m]
    BY SendAppends
<1>c. \A j \in 1..n : toApp'[j] = toApp[j]
    BY SendAppends, Zenon
<1>1. n \in Nat
    BY DEF TypeOK
<1>2. ASSUME NEW i \in 1..Len(toApp'), toApp'[i].type = "SERVICE_RESOLVED"
      PROVE  \E r \in Services :
                 /\ toApp'[i].service = Addressed(r)
                 /\ \E j \in 1..i-1 :
                        toApp'[j] = [type |-> "PUBLISHED", service |-> Shown(r)]
    <2>1. CASE i \in 1..n
        <3>1. toApp'[i] = toApp[i]
            BY <2>1, <1>c
        <3>2. PICK r \in Services : /\ toApp[i].service = Addressed(r)
                                    /\ PublishedBefore(r, i)
            BY <1>2, <2>1, <3>1, ResolvedByPublished
        <3>3. i \in Nat /\ i <= n + 1
            BY <2>1, <1>1
        <3>4. PICK j \in 1..i-1 :
                  toApp[j] = [type |-> "PUBLISHED", service |-> Shown(r)]
            BY <3>2 DEF PublishedBefore
        <3>5. j \in 1..n
            BY <3>3, <2>1, <1>1
        <3>6. toApp'[j] = toApp[j]
            BY <3>5, <1>c
        <3> QED
            BY <3>1, <3>2, <3>4, <3>6, Zenon
    <2>2. CASE i \notin 1..n
        <3>1. i = n + 1
            <4> HIDE DEF n
            <4> QED
                BY <2>2, <1>1, <1>a
        <3>2. toApp'[i] = [type |-> t, service |-> m]
            BY <3>1, <1>b
        <3>3. t = "SERVICE_RESOLVED" /\ toApp'[i].service = m
            BY <3>2, <1>2
        <3>7. PICK s \in resolvers : m = Addressed(s)
            BY <3>3
        <3>8. s \in Services
            BY <3>7 DEF TypeOK
        <3>4. PublishedBefore(s, n + 1)
            BY <3>7 DEF ResolversPublished
        <3>5. PICK j \in 1..n : toApp[j] = [type |-> "PUBLISHED", service |-> Shown(s)]
            <4>1. (n + 1) - 1 = n
                BY <1>1
            <4> QED
                BY <3>4, <4>1, Zenon DEF PublishedBefore
        <3>6. toApp'[j] = toApp[j] /\ j \in 1..i-1
            <4> HIDE DEF n
            <4> QED
                BY <3>5, <3>1, <1>1, <1>c
        <3> QED
            BY <3>3, <3>7, <3>8, <3>5, <3>6, Zenon
    <2> QED
        BY <2>1, <2>2
<1> QED
    BY <1>2, Zenon DEF ResolvedAfterPublished

\* After a message is appended, the services that had resolvers and the one the
\* message published are all published.
LEMMA SendKeepsResolvers ==
    ASSUME TypeOK, ResolversPublished,
           NEW s, NEW m, NEW t, Send(t, m),
           resolvers' \subseteq (IF t = "PUBLISHED" /\ m = Shown(s)
                                 THEN resolvers \cup {s} ELSE resolvers)
    PROVE  ResolversPublished'
<1> DEFINE n == Len(toApp)
<1>a. Len(toApp') = n + 1
    BY SendAppends, Zenon
<1>b. toApp'[n + 1] = [type |-> t, service |-> m]
    BY SendAppends
<1>c. \A j \in 1..n : toApp'[j] = toApp[j]
    BY SendAppends, Zenon
<1>1. n \in Nat
    BY DEF TypeOK
<1>2. ASSUME NEW r \in resolvers'
      PROVE  \E j \in 1..(Len(toApp') + 1) - 1 :
                 toApp'[j] = [type |-> "PUBLISHED", service |-> Shown(r)]
    <2>1. CASE r \in resolvers
        <3>1. PICK j \in 1..n : toApp[j] = [type |-> "PUBLISHED", service |-> Shown(r)]
            <4>1. (n + 1) - 1 = n
                BY <1>1
            <4> QED
                BY <2>1, <4>1, Zenon DEF ResolversPublished, PublishedBefore
        <3>2. toApp'[j] = toApp[j] /\ j \in 1..(Len(toApp') + 1) - 1
            <4> HIDE DEF n
            <4> QED
                BY <3>1, <1>1, <1>a, <1>c
        <3> QED
            BY <3>1, <3>2
    <2>2. CASE r \notin resolvers
        <3>1. t = "PUBLISHED" /\ r = s /\ m = Shown(s)
            BY <2>2, <1>2
        <3>2. toApp'[n + 1] = [type |-> "PUBLISHED", service |-> Shown(r)]
            BY <3>1, <1>b
        <3>3. n + 1 \in 1..(Len(toApp') + 1) - 1
            <4> HIDE DEF n
            <4> QED
                BY <1>1, <1>a
        <3> QED
            BY <3>2, <3>3
    <2> QED
        BY <2>1, <2>2
<1> QED
    BY <1>2 DEF ResolversPublished, PublishedBefore

\* Every step keeps services ahead of their addresses.
LEMMA StepOrder ==
    ASSUME TypeOK, ResolversPublished, ResolvedAfterPublished, [Next]_vars
    PROVE  ResolversPublished' /\ ResolvedAfterPublished'
<1>1. CASE UNCHANGED <<toApp, resolvers>>
    BY <1>1 DEF ResolversPublished, ResolvedAfterPublished, PublishedBefore
<1>2. CASE PollBrowse
    <2>1. Head(events) \in Events
        BY <1>2 DEF PollBrowse, TypeOK
    <2> DEFINE s == Head(events).service
    <2>2. s \in Services
        BY <2>1 DEF Events
    <2> HIDE DEF s
    <2>3. CASE BrowserNew(s)
        <3>1. Send("PUBLISHED", Shown(s)) /\ resolvers' \subseteq resolvers \cup {s}
            BY <2>3 DEF BrowserNew
        <3>2. ResolversPublished'
            BY <3>1, <2>2, SendKeepsResolvers
        <3>3. ResolvedAfterPublished'
            BY <3>1, <2>2, SendKeepsOrder
        <3> QED
            BY <3>2, <3>3
    <2>4. CASE BrowserRemove(s)
        <3>1. Send("DEREGISTERED", Shown(s)) /\ resolvers' = resolvers
            BY <2>4 DEF BrowserRemove
        <3>2. ResolversPublished'
            BY <3>1, <2>2, SendKeepsResolvers
        <3>3. ResolvedAfterPublished'
            BY <3>1, <2>2, SendKeepsOrder
        <3> QED
            BY <3>2, <3>3
    <2> QED
        BY <1>2, <2>3, <2>4 DEF PollBrowse, s
<1>3. ASSUME NEW s \in Services, PollResolve(s)
      PROVE  ResolversPublished' /\ ResolvedAfterPublished'
    <2>1. s \in resolvers /\ resolvers' = resolvers
        BY <1>3 DEF PollResolve
    <2>2. CASE UNCHANGED toApp
        BY <2>1, <2>2, <1>1
    <2>3. CASE Send("SERVICE_RESOLVED", Addressed(s))
        <3>1. ResolversPublished'
            BY <2>1, <2>3, SendKeepsResolvers
        <3>2. ResolvedAfterPublished'
            BY <2>1, <2>3, SendKeepsOrder
        <3> QED
            BY <3>1, <3>2
    <2> QED
        BY <1>3, <2>2, <2>3 DEF PollResolve
<1>4. ASSUME ~PollBrowse, ~\E s \in Services : PollResolve(s)
      PROVE  UNCHANGED <<toApp, resolvers>>
    BY <1>4, Zenon DEF Next, Main, Listener, Worker, Polls, Quit, JoinMailBoxThread,
                JoinWorkerThread, OnPause, OnResume, OnResumeNotify, OnShutdown, Key,
                Happen, StartBrowse, TestActive, TestPaused, CheckPredicate, Block,
                WakeSpuriously, PollNothing, PollBrowserFailure, PollError, vars, browse
<1> QED
    BY <1>1, <1>2, <1>3, <1>4
-----------------------------------------------------------------------------
(* The theorems *)

\* The invariant holds in every reachable state.
THEOREM DiscoveryInvariant == Spec => []IInv
<1>1. IInv /\ [Next]_vars => IInv'
    BY StepTypeOK, StepReads, StepOrder DEF IInv
<1> QED
    BY InitIInv, <1>1, PTL DEF Spec

\* No step of any thread leaves the types.
THEOREM TypeCorrect == Spec => []TypeOK
<1>1. IInv => TypeOK
    BY DEF IInv
<1> QED
    BY DiscoveryInvariant, <1>1, PTL

\* Between OnPause and the next OnResume the worker polls at most once more.
THEOREM AtMostOneReadPausedHolds == Spec => []AtMostOneReadPaused
<1>1. IInv => AtMostOneReadPaused
    BY DEF IInv
<1> QED
    BY DiscoveryInvariant, <1>1, PTL

\* resolve_callback reports an address only after browse_callback reported the
\* service.
THEOREM ResolvedAfterPublishedHolds == Spec => []ResolvedAfterPublished
<1>1. IInv => ResolvedAfterPublished
    BY DEF IInv
<1> QED
    BY DiscoveryInvariant, <1>1, PTL
=============================================================================
