----------------------- MODULE BonjourDiscoveryProofs -----------------------
(***************************************************************************)
(* What holds of BonjourDiscovery for any services, faults and bounds: its  *)
(* types, that the read of the daemon does not block, that a pause lets at *)
(* most one read through, that the discovery is never deaf, and that the   *)
(* browse list and the services the app knows follow the replies exactly.  *)
(*                                                                         *)
(* Each property follows from an invariant of its own.  Solo: as long as no *)
(* resume was doubled there is one token, an armed wait, a ready handler or *)
(* a busy thread, and its holder finds the socket readable.  Calmly: the   *)
(* flag, the timer and the step of the mailbox thread agree with the pause. *)
(* Sound: no wait has failed and the descriptor is there.  ListInv: there  *)
(* is a sequence of addresses the pointers run through, it holds the names *)
(* of the replies not reported, and there is room for those still to come. *)
(* ViewInv: the list has replies of one kind, and its report will make the *)
(* app know what there is.                                                 *)
(***************************************************************************)
EXTENDS BonjourDiscovery, FiniteSetTheorems, TLAPS

\* One token, and its holder finds the socket readable.
OneReader ==
    /\ Waiting <= 1
    /\ Waiting = 1 => \A t \in Threads : ~Busy(t)
    /\ \A t, u \in Threads : Busy(t) /\ Busy(u) => t = u
    /\ waits.ready > 0 => replies # <<>>
    /\ pc["io"] = "reading" => replies # <<>>
    /\ pc["worker"] = "start" => Waiting = 0 /\ \A t \in Threads : ~Busy(t)

Solo == Calm({"doubled", "early"}) => OneReader

\* Flag, timer and pause agree.
Agree ==
    /\ paused = "yes" => active = "no"
    /\ paused = "yes" /\ pc["io"] = "reading" => readPaused = 0
    /\ readPaused <= 1
    /\ pc["worker"] = "start" => active = "no" /\ paused = "no"
    /\ timer.armed > 0 => paused = "yes" /\ pc["mailbox"] # "cancel"
    /\ pc["mailbox"] = "cancel" => paused = "yes" /\ timer.armed = 0 /\ timer.due = 0

Calmly == Calm({"stale", "early"}) => Agree

\* The descriptor is there and no wait on it has failed.
Descriptor ==
    /\ waits.bad = 0
    /\ dnsRef = "open"
    /\ IF pc["worker"] = "start" THEN Waiting = 0 /\ \A t \in Threads : ~Busy(t)
                                 ELSE assigned = "yes"

Sound == Calm({"failed", "early"}) => Descriptor
-----------------------------------------------------------------------------
\* The names of the upsets.
Upsets == upsets \in SUBSET {"doubled", "early", "stale", "failed", "error", "mixed"}

\* Handlers of waits that become ready or bad are still counted.
LEMMA WaitsType ==
    ASSUME TypeOK, SocketReady \/ SocketFails \/ WaitError
    PROVE  waits' \in [armed : Nat, ready : Nat, bad : Nat]
<1>1. waits \in [armed : Nat, ready : Nat, bad : Nat]
  BY DEF TypeOK
<1>2. \/ waits' = [waits EXCEPT !.ready = @ + waits.armed, !.armed = 0]
      \/ waits' = [waits EXCEPT !.bad = @ + waits.armed, !.armed = 0]
      \/ waits.bad > 0 /\ waits' = [waits EXCEPT !.bad = @ - 1]
  BY DEF SocketReady, SocketFails, WaitError
<1>3. waits.armed \in Nat /\ waits.ready \in Nat /\ waits.bad \in Nat
  BY ONLY <1>1
<1>4. /\ waits.ready + waits.armed \in Nat /\ waits.bad + waits.armed \in Nat
      /\ waits.bad > 0 => waits.bad - 1 \in Nat
  BY ONLY <1>3
<1>5. CASE waits' = [waits EXCEPT !.ready = @ + waits.armed, !.armed = 0]
  BY ONLY <1>1, <1>4, <1>5, Zenon
<1>6. CASE waits' = [waits EXCEPT !.bad = @ + waits.armed, !.armed = 0]
  BY ONLY <1>1, <1>4, <1>6, Zenon
<1>7. CASE waits.bad > 0 /\ waits' = [waits EXCEPT !.bad = @ - 1]
  BY ONLY <1>1, <1>4, <1>7
<1> QED
  BY <1>2, <1>5, <1>6, <1>7

\* A callback takes the first of the replies.
LEMMA CallbackType ==
    ASSUME TypeOK, Callback
    PROVE  /\ replies' \in Seq(Replies) /\ Head(replies) \in Replies
           /\ seen' \in SUBSET Names
<1>1. replies \in Seq(Replies) /\ replies # <<>> /\ replies' = Tail(replies)
  BY Zenon DEF TypeOK, Callback
<1>2. replies' \in Seq(Replies) /\ Head(replies) \in Replies
  BY ONLY <1>1
<1>3. seen' \in SUBSET Names
  <2>1. PICK r \in Replies : r = Head(replies)
    BY <1>2, Zenon
  <2>2. seen \in SUBSET Names /\
        seen' = CASE r.type = "ADD"    -> seen \cup {r.name}
                  [] r.type = "REMOVE" -> seen \ {r.name}
                  [] OTHER             -> seen
    BY <2>1, Zenon DEF TypeOK, Callback
  <2>3. r.type = "ADD" => r.name \in Names
    BY ONLY <2>1 DEF Replies
  <2> QED
    BY ONLY <2>2, <2>3
<1> QED
  BY <1>2, <1>3

\* A reply is added behind the ones that are there.
LEMMA ReplyType ==
    ASSUME TypeOK, NEW r \in Replies, Reply(r)
    PROVE  /\ replies' \in Seq(Replies) /\ replies' # <<>>
           /\ happened' \in [replies : Nat, keys : Nat]
<1>1. replies \in Seq(Replies)
  BY DEF TypeOK
<1>2. replies' = Append(replies, r)
  BY DEF Reply
<1>3. Append(replies, r) \in Seq(Replies) /\ Append(replies, r) # <<>>
  <2>1. Append(replies, r) \in Seq(Replies)
    BY ONLY <1>1, r \in Replies
  <2>2. Len(Append(replies, r)) = Len(replies) + 1 /\ Len(replies) \in Nat /\ Len(<<>>) = 0
    BY ONLY <1>1, r \in Replies
  <2>3. Len(Append(replies, r)) # Len(<<>>)
    BY ONLY <2>2
  <2> QED
    BY ONLY <2>1, <2>3, Zenon
<1>4. happened' \in [replies : Nat, keys : Nat]
  <2>1. happened \in [replies : Nat, keys : Nat]
    BY DEF TypeOK
  <2>2. happened' = [happened EXCEPT !.replies = @ + 1]
    BY DEF Reply
  <2> QED
    BY ONLY <2>1, <2>2
<1> QED
  BY <1>2, <1>3, <1>4

\* The initial states have the types.
LEMMA TypeInit == Init => TypeOK
<1> SUFFICES ASSUME Init PROVE TypeOK
  OBVIOUS
<1>1. replies \in Seq(Replies)
  BY DEF Init
<1> QED
  BY <1>1 DEF Init, CreateConnectionContext, TypeOK, Threads

\* Every step of a thread, of the daemon or of a fault keeps the types.
LEMMA TypeStep == TypeOK /\ [Next]_vars => TypeOK'
<1> SUFFICES ASSUME TypeOK, [Next]_vars PROVE TypeOK'
  OBVIOUS
<1> USE DEF control, data, app, ghosts, Goes, May, Upset
<1>1. CASE Browse
  BY <1>1, ZenonT(60) DEF Browse, TypeOK, Threads
<1>2. ASSUME NEW t \in Threads, AwaitCheck(t) PROVE TypeOK'
  BY <1>2 DEF AwaitCheck, Rest, TypeOK, Threads
<1>3. ASSUME NEW t \in Threads, AwaitArm(t) PROVE TypeOK'
  <2>1. waits' \in [armed : Nat, ready : Nat, bad : Nat]
    BY <1>3, SMTT(60) DEF AwaitArm, TypeOK
  <2>2. pc' = [pc EXCEPT ![t] = Rest(t)] /\ pc[t] = "arm"
    BY <1>3 DEF AwaitArm
  <2>3. UNCHANGED <<dnsRef, assigned, active, timer, process, data, ghosts>>
    BY <1>3 DEF AwaitArm
  <2> QED
    BY <2>1, <2>2, <2>3 DEF Rest, TypeOK, Threads
<1>4. CASE OnPause
  BY <1>4 DEF OnPause, Receive, TypeOK, Threads
<1>5. CASE OnResumeRequest
  BY <1>5, SMTT(60) DEF OnResumeRequest, OnResume, Receive, Cancelled, TypeOK, Threads
<1>6. CASE OnPauseCancel
  BY <1>6, Zenon DEF OnPauseCancel, Cancelled, TypeOK, Threads
<1>7. CASE OnShutdown
  BY <1>7 DEF OnShutdown, Cancelled, TypeOK, Threads
<1>8. ASSUME NEW n, OnResolveRequest(n) PROVE TypeOK'
  <2>1. process' \in {"running", "aborted"} /\ Upsets'
    BY <1>8, Zenon DEF OnResolveRequest, ResolveService, TypeOK, Upsets
  <2>2. /\ UNCHANGED <<dnsRef, assigned, active, waits, timer, pc, replies, network>>
        /\ UNCHANGED <<happened, paused, readPaused, seen>>
    BY <1>8 DEF OnResolveRequest
  <2> QED
    BY <2>1, <2>2 DEF TypeOK, Upsets
<1>9. CASE SocketReady \/ SocketFails \/ WaitError
  <2>1. CASE SocketReady
    BY <2>1, WaitsType DEF SocketReady, TypeOK
  <2>2. CASE SocketFails
    BY <2>2, WaitsType DEF SocketFails, TypeOK
  <2>3. CASE WaitError
    BY <2>3, WaitsType, SMTT(60) DEF WaitError, TypeOK
  <2> QED
    BY <1>9, <2>1, <2>2, <2>3
<1>10. CASE ProcessDNSServiceBrowseResult
  BY <1>10, SMTT(60) DEF ProcessDNSServiceBrowseResult, TypeOK, Threads
<1>11. CASE Read \/ ReadMore
  <2>1. replies' \in Seq(Replies) /\ seen' \in SUBSET Names
    BY <1>11, CallbackType, Zenon DEF Read, ReadMore
  <2>2. /\ UNCHANGED <<dnsRef, assigned, active, waits, timer, process, network, happened, paused>>
        /\ pc["io"] \in {"reading", "calling"} /\ pc' = [pc EXCEPT !["io"] = "calling"]
        /\ readPaused' \in Nat
    BY <1>11, SMTT(60) DEF Read, ReadMore, Callback, TypeOK, Threads
  <2>3. Upsets'
    BY <1>11 DEF Read, ReadMore, Callback, TypeOK, Upsets
  <2> QED
    BY <2>1, <2>2, <2>3 DEF TypeOK, Threads, Upsets
<1>12. CASE ReadReturns \/ ReadFails
  <2>1. CASE ReadReturns
    BY <2>1 DEF ReadReturns, TypeOK, Threads
  <2>2. CASE ReadFails
    BY <2>2, ZenonT(60) DEF ReadFails, TypeOK, Threads
  <2> QED
    BY <1>12, <2>1, <2>2
<1>13. CASE Report
  BY <1>13 DEF Report, TypeOK, Threads
<1>14. CASE TimerExpires
  BY <1>14 DEF TimerExpires, TypeOK
<1>15. CASE TimerResumes
  BY <1>15 DEF TimerResumes, OnResume, TypeOK, Threads
<1>16. ASSUME NEW n, Resolved(n) PROVE TypeOK'
  <2>1. active' \in {"yes", "no"} /\ Upsets'
    BY <1>16, Zenon DEF Resolved, C_ResolveReply, TypeOK, Upsets
  <2>2. /\ UNCHANGED <<dnsRef, assigned, waits, timer, pc, process, replies, network>>
        /\ UNCHANGED <<happened, paused, readPaused, seen>>
    BY <1>16 DEF Resolved
  <2> QED
    BY <2>1, <2>2 DEF TypeOK, Upsets
<1>17. CASE Quit
  BY <1>17 DEF Quit, TypeOK, Threads
<1>18. ASSUME NEW n \in Names, Announce(n) \/ Withdraw(n) PROVE TypeOK'
  <2>1. PICK r \in Replies : Reply(r)
    BY <1>18 DEF Announce, Withdraw, Replies
  <2>2. replies' \in Seq(Replies) /\ happened' \in [replies : Nat, keys : Nat]
    BY <2>1, ReplyType
  <2> QED
    BY <1>18, <2>1, <2>2 DEF Announce, Withdraw, Reply, TypeOK
<1>19. CASE ReplyError
  <2>1. PICK r \in Replies : Reply(r)
    BY <1>19 DEF ReplyError, Replies
  <2>2. replies' \in Seq(Replies) /\ happened' \in [replies : Nat, keys : Nat]
    BY <2>1, ReplyType
  <2> QED
    BY <1>19, <2>1, <2>2 DEF ReplyError, Reply, TypeOK
<1>20. CASE UNCHANGED vars
  BY <1>20 DEF vars, TypeOK
<1> QED
  BY <1>1, <1>2, <1>3, <1>4, <1>5, <1>6, <1>7, <1>8, <1>9, <1>10, <1>11, <1>12, <1>13,
     <1>14, <1>15, <1>16, <1>17, <1>18, <1>19, <1>20
     DEF Next, Worker, Keys, Mailbox, Io, Threads

\* No order of calls leaves the types.
THEOREM TypeCorrect == Spec => []TypeOK
<1> QED
  BY TypeInit, TypeStep, PTL DEF Spec
-----------------------------------------------------------------------------
\* What has come between stays in upsets, so a step that ends calm began calm.
LEMMA CalmBefore ==
    ASSUME TypeOK, [Next]_vars, NEW why, Calm(why)'
    PROVE  Calm(why)
<1>1. upsets \subseteq upsets'
  BY Zenon DEF Next, Worker, Keys, Mailbox, Io, vars, control, data, ghosts, May, Upset,
         Browse, AwaitCheck, AwaitArm, OnPause, OnResumeRequest, OnResume,
         OnPauseCancel,
         OnShutdown, OnResolveRequest, ResolveService, SocketReady, SocketFails,
         WaitError,
         ProcessDNSServiceBrowseResult, Read, ReadMore, Callback, ReadReturns, ReadFails,
         Report, TimerExpires,
         TimerResumes, Resolved, C_ResolveReply, Quit, Announce, Withdraw, ReplyError
<1> QED
  BY <1>1 DEF Calm

\* A resume that is neither doubled nor early finds no token.
LEMMA ResumeAlone ==
    ASSUME NEW t \in Threads, OnResume(t), Calm({"doubled", "early"})'
    PROVE  ~Outstanding /\ pc["worker"] # "start"
  BY DEF OnResume, Upset, Calm

\* A step that is not a doubled or early resume passes the token on.
LEMMA OneReaderStep ==
    ASSUME TypeOK, TypeOK', OneReader, [Next]_vars, Calm({"doubled", "early"})'
    PROVE  OneReader'
<1> USE DEF control, data, app, ghosts, Goes, OneReader, Busy, Waiting, Threads
<1>1. CASE Browse
  BY <1>1 DEF Browse, TypeOK
<1>2. ASSUME NEW t \in Threads, AwaitCheck(t) PROVE OneReader'
  BY <1>2 DEF AwaitCheck, Rest, TypeOK
<1>3. ASSUME NEW t \in Threads, AwaitArm(t) PROVE OneReader'
  BY <1>3, SMTT(60) DEF AwaitArm, Rest, TypeOK
<1>4. CASE OnPause
  BY <1>4, SMTT(60) DEF OnPause, Receive, TypeOK
<1>5. CASE OnResumeRequest
  <2>1. OnResume("mailbox") /\ UNCHANGED replies
    BY <1>5 DEF OnResumeRequest, Receive
  <2>2. ~Outstanding /\ pc["worker"] # "start"
    BY <2>1, ResumeAlone
  <2> QED
    BY <2>1, <2>2 DEF OnResume, Outstanding, TypeOK
<1>6. CASE OnPauseCancel
  BY <1>6 DEF OnPauseCancel, Cancelled, TypeOK
<1>7. CASE OnShutdown
  BY <1>7, SMTT(60) DEF OnShutdown, Upset, Calm, Cancelled, TypeOK
<1>8. ASSUME NEW n, OnResolveRequest(n) PROVE OneReader'
  BY <1>8 DEF OnResolveRequest
<1>9. CASE SocketReady
  BY <1>9 DEF SocketReady, TypeOK
<1>10. CASE SocketFails
  BY <1>10, SMTT(60) DEF SocketFails, TypeOK
<1>11. CASE WaitError
  BY <1>11 DEF WaitError, TypeOK
<1>12. CASE ProcessDNSServiceBrowseResult
  BY <1>12, SMTT(60) DEF ProcessDNSServiceBrowseResult, TypeOK
<1>13. CASE Read \/ ReadMore
  BY <1>13, SMTT(60) DEF Read, ReadMore, Callback, TypeOK
<1>14. CASE ReadReturns \/ ReadFails
  BY <1>14 DEF ReadReturns, ReadFails, TypeOK
<1>15. CASE Report
  BY <1>15 DEF Report, TypeOK
<1>16. CASE TimerExpires
  BY <1>16 DEF TimerExpires
<1>17. CASE TimerResumes
  <2>1. OnResume("io") /\ UNCHANGED replies
    BY <1>17 DEF TimerResumes
  <2>2. ~Outstanding /\ pc["worker"] # "start"
    BY <2>1, ResumeAlone
  <2> QED
    BY <2>1, <2>2 DEF OnResume, Outstanding, TypeOK
<1>18. ASSUME NEW n, Resolved(n) PROVE OneReader'
  BY <1>18, SMTT(60) DEF Resolved
<1>19. CASE Quit
  BY <1>19 DEF Quit, TypeOK
<1>20. ASSUME NEW r \in Replies, Reply(r) PROVE OneReader'
  BY <1>20, ReplyType, SMTT(60) DEF Reply
<1>21. CASE UNCHANGED vars
  BY <1>21 DEF vars
<1> QED
  BY <1>1, <1>2, <1>3, <1>4, <1>5, <1>6, <1>7, <1>8, <1>9, <1>10, <1>11, <1>12, <1>13,
     Zenon, <1>14, <1>15, <1>16, <1>17, <1>18, <1>19, <1>20, <1>21
     DEF Next, Worker, Keys, Mailbox, Io, Announce, Withdraw, ReplyError, Replies

\* The read of the daemon does not block without a doubled or early resume.
THEOREM NeverBlocksHolds == Spec => []NeverBlocks
<1>1. Init => Solo
  BY DEF Init, CreateConnectionContext, Solo, OneReader, Waiting, Busy, Threads
<1>2. TypeOK /\ TypeOK' /\ Solo /\ [Next]_vars => Solo'
  BY OneReaderStep, CalmBefore DEF Solo
<1>3. Solo => NeverBlocks
  BY DEF Solo, OneReader, NeverBlocks, Blocked
<1> QED
  BY <1>1, <1>2, <1>3, TypeCorrect, PTL DEF Spec
-----------------------------------------------------------------------------
\* A step that is not a stale pause or an early resume keeps flag, timer and pause
\* in agreement.
LEMMA AgreeStep ==
    ASSUME TypeOK, TypeOK', Agree, [Next]_vars, Calm({"stale", "early"})'
    PROVE  Agree'
<1> USE DEF control, data, app, ghosts, Goes, Agree
<1>1. CASE Browse
  BY <1>1 DEF Browse, TypeOK, Threads
<1>2. ASSUME NEW t \in Threads, AwaitCheck(t) PROVE Agree'
  BY <1>2 DEF AwaitCheck, Rest, TypeOK, Threads
<1>3. ASSUME NEW t \in Threads, AwaitArm(t) PROVE Agree'
  BY <1>3 DEF AwaitArm, Rest, TypeOK, Threads
<1>4. CASE OnPause
  <2>1. CASE active = "yes"
    <3>1. timer.due = 0
      BY <1>4, <2>1 DEF OnPause, Upset, Calm, TypeOK
    <3>2. timer.armed = 0 /\ pc["worker"] # "start"
      BY <2>1, SMTT(60) DEF TypeOK
    <3>3. /\ pc' = [pc EXCEPT !["mailbox"] = "cancel"]
          /\ active' = "no" /\ paused' = "yes" /\ readPaused' = 0
          /\ UNCHANGED timer
      BY <1>4, <2>1 DEF OnPause
    <3> QED
      BY <3>1, <3>2, <3>3 DEF TypeOK, Threads
  <2>2. CASE active # "yes"
    BY <1>4, <2>2 DEF OnPause
  <2> QED
    BY <2>1, <2>2
<1>5. CASE OnResumeRequest
  <2>1. /\ pc["mailbox"] = "idle" /\ pc' = [pc EXCEPT !["mailbox"] = "check"]
        /\ active' = "yes" /\ paused' = "no" /\ UNCHANGED readPaused
        /\ timer' = [timer EXCEPT !.armed = 0]
    BY <1>5 DEF OnResumeRequest, OnResume, Cancelled
  <2>2. pc["worker"] # "start"
    BY <1>5 DEF OnResumeRequest, OnResume, Upset, Calm
  <2> QED
    BY <2>1, <2>2 DEF TypeOK, Threads
<1>6. CASE OnPauseCancel
  BY <1>6 DEF OnPauseCancel, TypeOK, Threads
<1>7. CASE OnShutdown
  BY <1>7 DEF OnShutdown, Upset, Calm, Cancelled, TypeOK, Threads
<1>8. ASSUME NEW n, OnResolveRequest(n) PROVE Agree'
  BY <1>8 DEF OnResolveRequest
<1>9. CASE SocketReady \/ SocketFails
  BY <1>9 DEF SocketReady, SocketFails
<1>10. CASE WaitError
  BY <1>10 DEF WaitError
<1>11. CASE ProcessDNSServiceBrowseResult
  BY <1>11 DEF ProcessDNSServiceBrowseResult, TypeOK, Threads
<1>12. CASE Read \/ ReadMore
  BY <1>12, SMTT(60) DEF Read, ReadMore, Callback, TypeOK, Threads
<1>13. CASE ReadReturns \/ ReadFails
  BY <1>13 DEF ReadReturns, ReadFails, TypeOK, Threads
<1>14. CASE Report
  BY <1>14 DEF Report, TypeOK, Threads
<1>15. CASE TimerExpires
  BY <1>15, SMTT(60) DEF TimerExpires, TypeOK
<1>16. CASE TimerResumes
  BY <1>16, CalmBefore DEF TimerResumes, OnResume, Upset, Calm, TypeOK, Threads
<1>17. ASSUME NEW n, Resolved(n) PROVE Agree'
  BY <1>17 DEF Resolved, C_ResolveReply
<1>18. CASE Quit
  BY <1>18 DEF Quit, TypeOK, Threads
<1>19. ASSUME NEW r \in Replies, Reply(r) PROVE Agree'
  BY <1>19 DEF Reply
<1>20. CASE UNCHANGED vars
  BY <1>20 DEF vars
<1> QED
  BY <1>1, <1>2, <1>3, <1>4, <1>5, <1>6, <1>7, <1>8, <1>9, <1>10, <1>11, <1>12, <1>13,
     Zenon, <1>14, <1>15, <1>16, <1>17, <1>18, <1>19, <1>20
     DEF Next, Worker, Keys, Mailbox, Io, Announce, Withdraw, ReplyError, Replies,
         Threads

\* Without a stale pause or an early resume, Agree holds throughout.
LEMMA CalmlyHolds == Spec => []Calmly
<1>1. Init => Calmly
  BY DEF Init, Calmly, Agree, Threads
<1>2. TypeOK /\ TypeOK' /\ Calmly /\ [Next]_vars => Calmly'
  BY AgreeStep, CalmBefore DEF Calmly
<1> QED
  BY <1>1, <1>2, TypeCorrect, PTL DEF Spec

\* A pause lets at most one more read of the daemon through.
THEOREM AtMostOneReadPausedHolds == Spec => []AtMostOneReadPaused
<1>1. Calmly => AtMostOneReadPaused
  BY DEF Calmly, Agree, AtMostOneReadPaused
<1> QED
  BY <1>1, CalmlyHolds, PTL
-----------------------------------------------------------------------------
\* A step that is no failure and no early resume leaves the descriptor alone.
LEMMA DescriptorStep ==
    ASSUME TypeOK, TypeOK', Descriptor, [Next]_vars, Calm({"failed", "early"})'
    PROVE  Descriptor'
<1> USE DEF control, data, app, ghosts, Goes, Descriptor, Waiting, Busy, Threads
<1>1. CASE Browse
  BY <1>1 DEF Browse, May, Calm, TypeOK
<1>2. ASSUME NEW t \in Threads, AwaitCheck(t) PROVE Descriptor'
  BY <1>2 DEF AwaitCheck, Rest, TypeOK
<1>3. ASSUME NEW t \in Threads, AwaitArm(t) PROVE Descriptor'
  BY <1>3, SMTT(60) DEF AwaitArm, Rest, TypeOK
<1>4. CASE OnPause
  BY <1>4, SMTT(60) DEF OnPause, TypeOK
<1>5. CASE OnResumeRequest
  BY <1>5 DEF OnResumeRequest, OnResume, Upset, Calm, TypeOK
<1>6. CASE OnPauseCancel
  BY <1>6, SMTT(60) DEF OnPauseCancel, Cancelled, TypeOK
<1>7. CASE OnShutdown
  BY <1>7, SMTT(60) DEF OnShutdown, Upset, Calm, Cancelled, TypeOK
<1>8. ASSUME NEW n, OnResolveRequest(n) PROVE Descriptor'
  BY <1>8 DEF OnResolveRequest
<1>9. CASE SocketReady
  BY <1>9 DEF SocketReady, TypeOK
<1>10. CASE SocketFails
  BY <1>10 DEF SocketFails, May, Calm
<1>11. CASE WaitError
  BY <1>11 DEF WaitError
<1>12. CASE ProcessDNSServiceBrowseResult
  BY <1>12 DEF ProcessDNSServiceBrowseResult, TypeOK
<1>13. CASE Read \/ ReadMore
  BY <1>13 DEF Read, ReadMore, Callback, TypeOK
<1>14. CASE ReadReturns \/ ReadFails
  BY <1>14 DEF ReadReturns, ReadFails, TypeOK
<1>15. CASE Report
  BY <1>15 DEF Report, TypeOK
<1>16. CASE TimerExpires
  BY <1>16 DEF TimerExpires
<1>17. CASE TimerResumes
  BY <1>17 DEF TimerResumes, OnResume, Upset, Calm, TypeOK
<1>18. ASSUME NEW n, Resolved(n) PROVE Descriptor'
  BY <1>18 DEF Resolved
<1>19. CASE Quit
  BY <1>19 DEF Quit, TypeOK
<1>20. ASSUME NEW r \in Replies, Reply(r) PROVE Descriptor'
  BY <1>20 DEF Reply
<1>21. CASE UNCHANGED vars
  BY <1>21 DEF vars
<1> QED
  BY <1>1, <1>2, <1>3, <1>4, <1>5, <1>6, <1>7, <1>8, <1>9, <1>10, <1>11, <1>12, <1>13,
     Zenon, <1>14, <1>15, <1>16, <1>17, <1>18, <1>19, <1>20, <1>21
     DEF Next, Worker, Keys, Mailbox, Io, Announce, Withdraw, ReplyError, Replies

\* Without a failure or an early resume the descriptor stays good.
LEMMA SoundHolds == Spec => []Sound
<1>1. Init => Sound
  BY DEF Init, CreateConnectionContext, Sound, Descriptor, Calm, Waiting, Busy, Threads
<1>2. TypeOK /\ TypeOK' /\ Sound /\ [Next]_vars => Sound'
  BY DescriptorStep, CalmBefore DEF Sound
<1> QED
  BY <1>1, <1>2, TypeCorrect, PTL DEF Spec

\* A step from a discovery that is awake ends in one that is awake or paused.
LEMMA WatchingStep ==
    ASSUME TypeOK, TypeOK', Agree, Descriptor, Watching, [Next]_vars,
           Calm({"failed", "early", "stale"})', Calm({"failed", "early", "stale"}),
           paused' = "no", pc'["worker"] # "start", pc'["mailbox"] # "ended"
    PROVE  (active = "yes" /\ Outstanding)'
<1> USE DEF control, data, app, ghosts, Goes, Descriptor, Waiting, Busy, Threads, Outstanding,
            Watching
<1>1. CASE Browse
  BY <1>1 DEF Browse, May, Calm, TypeOK
<1>2. ASSUME NEW t \in Threads, AwaitCheck(t) PROVE (active = "yes" /\ Outstanding)'
  BY <1>2 DEF AwaitCheck, Rest, TypeOK
<1>3. ASSUME NEW t \in Threads, AwaitArm(t) PROVE (active = "yes" /\ Outstanding)'
  BY <1>3, SMTT(60) DEF AwaitArm, Rest, TypeOK
<1>4. CASE OnPause
  BY <1>4 DEF OnPause, TypeOK
<1>5. CASE OnResumeRequest
  BY <1>5 DEF OnResumeRequest, OnResume, TypeOK
<1>6. CASE OnPauseCancel
  BY <1>6, SMTT(60) DEF OnPauseCancel, Agree
<1>7. CASE OnShutdown
  BY <1>7 DEF OnShutdown, TypeOK
<1>8. ASSUME NEW n, OnResolveRequest(n) PROVE (active = "yes" /\ Outstanding)'
  BY <1>8 DEF OnResolveRequest
<1>9. CASE SocketReady
  BY <1>9 DEF SocketReady, TypeOK
<1>10. CASE SocketFails
  BY <1>10 DEF SocketFails, May, Calm
<1>11. CASE WaitError
  BY <1>11 DEF WaitError
<1>12. CASE ProcessDNSServiceBrowseResult
  BY <1>12 DEF ProcessDNSServiceBrowseResult, TypeOK
<1>13. CASE Read \/ ReadMore
  BY <1>13 DEF Read, ReadMore, Callback, TypeOK
<1>14. CASE ReadReturns \/ ReadFails
  BY <1>14 DEF ReadReturns, ReadFails, May, Calm, TypeOK
<1>15. CASE Report
  BY <1>15 DEF Report, TypeOK
<1>16. CASE TimerExpires
  BY <1>16, SMTT(60) DEF TimerExpires
<1>17. CASE TimerResumes
  BY <1>17 DEF TimerResumes, OnResume, TypeOK
<1>18. ASSUME NEW n, Resolved(n) PROVE (active = "yes" /\ Outstanding)'
  BY <1>18 DEF Resolved, C_ResolveReply, May, Calm
<1>19. CASE Quit
  BY <1>19 DEF Quit, TypeOK
<1>20. ASSUME NEW r \in Replies, Reply(r) PROVE (active = "yes" /\ Outstanding)'
  BY <1>20 DEF Reply
<1>21. CASE UNCHANGED vars
  BY <1>21 DEF vars
<1> QED
  BY <1>1, <1>2, <1>3, <1>4, <1>5, <1>6, <1>7, <1>8, <1>9, <1>10, <1>11, <1>12, <1>13,
     Zenon, <1>14, <1>15, <1>16, <1>17, <1>18, <1>19, <1>20, <1>21
     DEF Next, Worker, Keys, Mailbox, Io, Announce, Withdraw, ReplyError, Replies

\* No order of pause, resume, timer and handlers leaves the discovery deaf.
THEOREM WatchingHolds == Spec => []Watching
<1>1. Init => Watching
  BY DEF Init, Watching, Threads
<1>2. /\ TypeOK /\ TypeOK' /\ Calmly /\ Sound /\ Watching /\ [Next]_vars
      => Watching'
  <2> SUFFICES ASSUME TypeOK, TypeOK', Calmly, Sound, Watching, [Next]_vars,
                      Calm({"failed", "early", "stale"})', paused' = "no",
                      pc'["worker"] # "start", pc'["mailbox"] # "ended"
               PROVE  (active = "yes" /\ Outstanding)'
    BY DEF Watching
  <2>1. Calm({"failed", "early", "stale"})
    BY CalmBefore
  <2>2. Agree /\ Descriptor
    BY <2>1 DEF Calmly, Sound, Calm
  <2> QED
    BY <2>1, <2>2, WatchingStep
<1> QED
  BY <1>1, <1>2, TypeCorrect, CalmlyHolds, SoundHolds, PTL DEF Spec
-----------------------------------------------------------------------------
(* The browse list.  Induction is over a set of numbers that holds zero    *)
(* and every successor.                                                    *)
LEMMA FromZero ==
    ASSUME NEW S \in SUBSET Nat, 0 \in S, \A i \in S : i + 1 \in S
    PROVE  S = Nat
<1>1. SUFFICES ASSUME Nat \ S # {} PROVE FALSE
  BY Zenon
<1>2. PICK x \in Nat \ S : \A y \in Nat \ S : ~(<<y, x>> \in OpToRel(<, Nat))
  <2>1. Nat \ S \subseteq Nat
    BY Zenon
  <2> QED
    BY <1>1, <2>1, NatLessThanWellFounded, WFMin, Zenon
<1>3. \A y \in Nat \ S : ~(y < x)
  BY <1>2, Zenon DEF OpToRel
<1>4. x - 1 \in Nat /\ x - 1 < x /\ (x - 1) + 1 = x
  BY ONLY 0 \in S, x \in Nat \ S
<1> QED
  BY ONLY <1>3, <1>4, x \in Nat \ S, \A i \in S : i + 1 \in S

\* The elements of a sequence of addresses are none of them the null pointer.
LEMMA Elements ==
    ASSUME NEW c \in Seq(Addresses)
    PROVE  /\ Len(c) \in Nat /\ DOMAIN c = 1..Len(c)
           /\ \A i \in DOMAIN c : i \in Nat /\ c[i] \in Addresses /\ c[i] # Null
           /\ c = <<>> <=> Len(c) = 0
<1>1. Len(c) \in Nat /\ DOMAIN c = 1..Len(c) /\ \A i \in DOMAIN c : c[i] \in Addresses
  OBVIOUS
<1>2. c = <<>> <=> Len(c) = 0
  OBVIOUS
<1>3. \A i \in 1..Len(c) : i \in Nat
  BY ONLY <1>1
<1> QED
  BY <1>1, <1>2, <1>3, ListAssumption, Zenon

\* What lies between the ends of an interval.
LEMMA Neighbours ==
    /\ \A i, n \in Nat : i # 0 /\ i + 1 \in 1..n => i \in 1..n /\ i # n
    /\ \A i, n \in Nat : i \in 1..n /\ i # n => i + 1 \in 1..n
    /\ \A n \in Nat : n # 0 => n \in 1..n /\ 1 \in 1..n /\ n # n + 1 /\ 1 # n + 1
<1>1. ASSUME NEW i \in Nat, NEW n \in Nat, i # 0, i + 1 \in 1..n PROVE i \in 1..n /\ i # n
  BY <1>1
<1>2. ASSUME NEW i \in Nat, NEW n \in Nat, i \in 1..n, i # n PROVE i + 1 \in 1..n
  BY <1>2
<1>3. ASSUME NEW n \in Nat, n # 0 PROVE n \in 1..n /\ 1 \in 1..n /\ n # n + 1 /\ 1 # n + 1
  BY <1>3
<1> QED
  BY <1>1, <1>2, <1>3, Zenon

\* Two sequences a loop over next_p visits agree as far as both go, and the one
\* goes as far as the other.
LEMMA VisitsPrefix ==
    ASSUME NEW l, NEW c \in Seq(Addresses), NEW d \in Seq(Addresses),
           Visits(l, c), Visits(l, d)
    PROVE  \A i \in DOMAIN c : i \in DOMAIN d /\ d[i] = c[i]
<1> DEFINE S == {i \in Nat : i \in DOMAIN c => i \in DOMAIN d /\ d[i] = c[i]}
<1>1. /\ Len(c) \in Nat /\ DOMAIN c = 1..Len(c)
      /\ \A i \in DOMAIN c : i \in Nat /\ c[i] \in Addresses /\ c[i] # Null
      /\ c = <<>> <=> Len(c) = 0
  BY Elements, Zenon
<1>2. Len(d) \in Nat /\ DOMAIN d = 1..Len(d) /\ (d = <<>> <=> Len(d) = 0)
  BY Elements, Zenon
<1>3. 0 \in S
  BY ONLY <1>1
<1>4. ASSUME NEW i \in S PROVE i + 1 \in S
  <2>1. SUFFICES ASSUME i + 1 \in DOMAIN c
                 PROVE  i + 1 \in DOMAIN d /\ d[i + 1] = c[i + 1]
    BY <1>4
  <2>2. CASE i = 0
    <3>1. i + 1 = 1 /\ 1 \in DOMAIN c /\ c # <<>>
      BY ONLY <1>1, <2>1, <2>2
    <3>2. l.head_p = c[1] /\ c[1] # Null
      BY <1>1, <3>1, Zenon DEF Visits
    <3>3. d # <<>> /\ l.head_p = d[1]
      BY <3>2, Zenon DEF Visits
    <3>4. 1 \in DOMAIN d
      BY ONLY <1>2, <3>3
    <3> QED
      BY ONLY <3>1, <3>2, <3>3, <3>4, Zenon
  <2>3. CASE i # 0
    <3>a. i \in Nat /\ Len(c) \in Nat /\ i + 1 \in 1..Len(c) /\ DOMAIN c = 1..Len(c)
      BY <1>1, <1>4, <2>1, Zenon
    <3>b. i \in 1..Len(c) /\ i # Len(c)
      BY ONLY <2>3, <3>a, Neighbours, Zenon
    <3>1. i \in Nat /\ i \in DOMAIN c /\ i # Len(c)
      BY ONLY <3>a, <3>b, Zenon
    <3>2. i \in DOMAIN d /\ d[i] = c[i]
      BY <1>4, <3>1, Zenon
    <3>3. l.next_p[c[i]] = c[i + 1] /\ c[i + 1] # Null
      BY <1>1, <2>1, <3>1, Zenon DEF Visits
    <3>4. i # Len(d) /\ l.next_p[d[i]] = d[i + 1]
      BY <3>2, <3>3, Zenon DEF Visits
    <3>c. i \in 1..Len(d) /\ i # Len(d) /\ Len(d) \in Nat /\ DOMAIN d = 1..Len(d)
      BY <1>2, <3>2, <3>4, Zenon
    <3>d. i + 1 \in 1..Len(d)
      BY ONLY <3>a, <3>c, Neighbours, Zenon
    <3>5. i + 1 \in DOMAIN d
      BY ONLY <3>c, <3>d, Zenon
    <3> QED
      BY ONLY <3>2, <3>3, <3>4, <3>5, Zenon
  <2> QED
    BY <2>2, <2>3
<1>5. S = Nat
  <2>1. S \in SUBSET Nat
    BY Zenon
  <2> HIDE DEF S
  <2> QED
    BY <1>3, <1>4, <2>1, FromZero, Zenon
<1> QED
  BY <1>1, <1>5, Zenon

\* So there is one sequence at most.
LEMMA VisitsOnce ==
    ASSUME NEW l, NEW c \in Seq(Addresses), NEW d \in Seq(Addresses),
           Visits(l, c), Visits(l, d)
    PROVE  c = d
<1>1. \A i \in DOMAIN c : i \in DOMAIN d /\ d[i] = c[i]
  BY VisitsPrefix, Zenon
<1>2. \A i \in DOMAIN d : i \in DOMAIN c /\ c[i] = d[i]
  BY VisitsPrefix, Zenon
<1>3. DOMAIN c = DOMAIN d
  BY <1>1, <1>2, Zenon
<1>4. c = [i \in DOMAIN c |-> c[i]] /\ d = [i \in DOMAIN d |-> d[i]]
  OBVIOUS
<1> QED
  BY ONLY <1>1, <1>3, <1>4

\* No element comes twice.
Distinct(c) == \A i, j \in DOMAIN c : c[i] = c[j] => i = j

\* The list holds the elements c, each once, and the heap nothing else.
Linked(l, c) == Visits(l, c) /\ Distinct(c) /\ l.heap = Range(c)

\* Then the loops visit c.
LEMMA ChainIs ==
    ASSUME NEW l, NEW c \in Seq(Addresses), Visits(l, c), Distinct(c)
    PROVE  Chain(l) = c
<1>1. /\ Len(c) \in Nat /\ DOMAIN c = 1..Len(c)
      /\ \A i \in DOMAIN c : c[i] \in Addresses
  BY Elements, Zenon
<1>2. c \in [1..Len(c) -> Addresses]
  OBVIOUS
<1>3. c \in Injection(1..Len(c), Addresses)
  BY <1>1, <1>2, Zenon DEF Distinct, Injection, IsInjective
<1>4. Cardinality(1..Len(c)) <= Cardinality(Addresses)
  BY <1>3, FS_Injection, ListAssumption, Zenon
<1>5. Cardinality(1..Len(c)) = Len(c) /\ Cardinality(Addresses) \in Nat
  <2>1. Cardinality(Addresses) \in Nat
    BY FS_CardinalityType, ListAssumption, Zenon
  <2>2. Cardinality(1..Len(c)) = IF 1 > Len(c) THEN 0 ELSE Len(c) - 1 + 1
    BY <1>1, FS_Interval, SMTT(60)
  <2> QED
    BY ONLY <1>1, <2>1, <2>2
<1>6. Len(c) \in 0..Cardinality(Addresses)
  BY ONLY <1>1, <1>4, <1>5
<1>7. c \in UNION {[1..n -> Addresses] : n \in 0..Cardinality(Addresses)}
  BY <1>2, <1>6, Zenon
<1>8. PICK d : d = Chain(l)
  BY Zenon
<1>9. d \in UNION {[1..n -> Addresses] : n \in 0..Cardinality(Addresses)} /\ Visits(l, d)
  BY <1>7, <1>8, Zenon DEF Chain
<1>10. d \in Seq(Addresses)
  <2>1. PICK m \in 0..Cardinality(Addresses) : d \in [1..m -> Addresses]
    BY <1>9, Zenon
  <2>2. m \in Nat
    BY ONLY <1>5, <2>1
  <2> QED
    BY ONLY <2>1, <2>2
<1> QED
  BY <1>8, <1>9, <1>10, VisitsOnce, Zenon
-----------------------------------------------------------------------------
(* The functions of the browse list *)

\* What an element may hold, and the lists there are.
Texts == {Shown(n) : n \in Names} \cup {Null}

Lists == [head_p : Addresses \cup {Null}, didRegister : {0, 1},
          next_p : [Addresses -> Addresses \cup {Null}],
          data : [Addresses -> Texts], heap : SUBSET Addresses]

\* malloc finds an address as long as fewer elements than addresses are in use.
LEMMA FreeAddress ==
    ASSUME NEW c \in Seq(Addresses), Len(c) < Cardinality(Addresses)
    PROVE  \E a \in Addresses : a \notin Range(c)
<1>1. SUFFICES ASSUME \A a \in Addresses : a \in Range(c) PROVE FALSE
  BY Zenon
<1>2. Len(c) \in Nat /\ DOMAIN c = 1..Len(c)
  BY Elements, Zenon
<1>3. c \in [1..Len(c) -> Addresses]
  OBVIOUS
<1>4. ASSUME NEW a \in Addresses PROVE \E i \in 1..Len(c) : c[i] = a
  BY <1>1, <1>2, Zenon DEF Range
<1>5. c \in Surjection(1..Len(c), Addresses)
  BY <1>3, <1>4, Zenon DEF Surjection
<1>6. Cardinality(1..Len(c)) = Len(c) /\ IsFiniteSet(1..Len(c)) /\ Cardinality(Addresses) \in Nat
  <2>1. Cardinality(Addresses) \in Nat
    BY FS_CardinalityType, ListAssumption, Zenon
  <2>2. /\ IsFiniteSet(1..Len(c))
        /\ Cardinality(1..Len(c)) = IF 1 > Len(c) THEN 0 ELSE Len(c) - 1 + 1
    BY <1>2, FS_Interval, SMTT(60)
  <2>3. Cardinality(1..Len(c)) = Len(c)
    BY ONLY <1>2, <2>2
  <2> QED
    BY ONLY <2>1, <2>2, <2>3
<1>7. Cardinality(Addresses) <= Cardinality(1..Len(c))
  BY <1>5, <1>6, FS_Surjection, Zenon
<1> QED
  BY ONLY <1>2, <1>6, <1>7, Len(c) < Cardinality(Addresses)

\* A list of which an element was just constructed, and its fields.
Made(l, f, e, t) == LinkedListElement_str_Constructor([l EXCEPT !.didRegister = f], e, t, Null)

Holding(k, l, f, e, t) ==
    /\ k.head_p = l.head_p /\ k.didRegister = f
    /\ k.next_p = [l.next_p EXCEPT ![e] = Null]
    /\ k.data = [l.data EXCEPT ![e] = t]
    /\ k.heap = l.heap \cup {e}

\* The constructor of an element puts its data in and links nothing.
LEMMA ElementConstructed ==
    ASSUME NEW l \in Lists, NEW f \in {0, 1}, NEW e \in Addresses, NEW t \in Texts
    PROVE  Made(l, f, e, t) \in Lists /\ Holding(Made(l, f, e, t), l, f, e, t)
<1> PICK k : k = Made(l, f, e, t)
  BY Zenon
<1>1. PICK m : m = [l EXCEPT !.didRegister = f]
  BY Zenon
<1>2. /\ m \in Lists /\ m.head_p = l.head_p /\ m.didRegister = f /\ m.next_p = l.next_p
      /\ m.data = l.data /\ m.heap = l.heap
  BY ONLY <1>1, l \in Lists, f \in {0, 1} DEF Lists
<1>3. k = [m EXCEPT !.heap = @ \cup {e}, !.data[e] = t, !.next_p[e] = Null]
  BY <1>1, Zenon DEF Made, LinkedListElement_str_Constructor
<1>4. /\ k.head_p = m.head_p /\ k.didRegister = m.didRegister
      /\ k.next_p = [m.next_p EXCEPT ![e] = Null]
      /\ k.data = [m.data EXCEPT ![e] = t]
      /\ k.heap = m.heap \cup {e}
  BY ONLY <1>2, <1>3 DEF Lists
<1>5. k \in Lists
  BY ONLY <1>2, <1>3, e \in Addresses, t \in Texts, Zenon DEF Lists
<1>6. Holding(k, l, f, e, t)
  BY ONLY <1>2, <1>4, Zenon DEF Holding
<1> QED
  BY <1>5, <1>6, Zenon

\* The sequence with one more element at its end.
LEMMA Longer ==
    ASSUME NEW c \in Seq(Addresses), NEW e \in Addresses, e \notin Range(c), Distinct(c)
    PROVE  /\ Append(c, e) \in Seq(Addresses) /\ Len(Append(c, e)) = Len(c) + 1
           /\ \A i \in DOMAIN c : i \in DOMAIN Append(c, e) /\ Append(c, e)[i] = c[i]
                                  /\ c[i] # e
           /\ \A i \in DOMAIN Append(c, e) : i \in DOMAIN c \/ i = Len(c) + 1
           /\ Append(c, e)[Len(c) + 1] = e /\ Len(c) + 1 \in DOMAIN Append(c, e)
           /\ Append(c, e) # <<>>
           /\ Distinct(Append(c, e))
           /\ Range(Append(c, e)) = Range(c) \cup {e}
<1>1. PICK d : d = Append(c, e)
  BY Zenon
<1>2. d \in Seq(Addresses) /\ Len(d) = Len(c) + 1 /\ d[Len(c) + 1] = e
  BY ONLY <1>1, c \in Seq(Addresses), e \in Addresses
<1>3. \A i \in DOMAIN c : i \in DOMAIN d /\ d[i] = c[i]
  BY ONLY <1>1, c \in Seq(Addresses), e \in Addresses
<1>4. \A i \in DOMAIN d : i \in DOMAIN c \/ i = Len(c) + 1
  BY ONLY <1>1, c \in Seq(Addresses), e \in Addresses
<1>5. Len(c) + 1 \in DOMAIN d /\ d # <<>>
  BY ONLY <1>1, c \in Seq(Addresses), e \in Addresses
<1>6. \A i \in DOMAIN c : c[i] # e
  BY Zenon DEF Range
<1>7. Distinct(d)
  <2>1. SUFFICES ASSUME NEW i \in DOMAIN d, NEW j \in DOMAIN d, d[i] = d[j] PROVE i = j
    BY Zenon DEF Distinct
  <2>2. CASE i \in DOMAIN c /\ j \in DOMAIN c
    <3>1. c[i] = c[j]
      BY <1>3, <2>1, <2>2, Zenon
    <3> QED
      BY <2>2, <3>1, Zenon DEF Distinct
  <2>3. CASE i = Len(c) + 1 \/ j = Len(c) + 1
    BY <1>2, <1>3, <1>4, <1>6, <2>1, <2>3, Zenon
  <2> QED
    BY <1>4, <2>2, <2>3, Zenon
<1>8. Range(d) = Range(c) \cup {e}
  BY <1>2, <1>3, <1>4, <1>5, Zenon DEF Range
<1> QED
  BY ONLY <1>1, <1>2, <1>3, <1>4, <1>5, <1>6, <1>7, <1>8, Zenon

\* What the loops over a list visit is still there with an element that is not
\* linked yet.
LEMMA StillVisits ==
    ASSUME NEW l \in Lists, NEW k \in Lists, NEW c \in Seq(Addresses), NEW e \in Addresses,
           Visits(l, c), e \notin Range(c), k.head_p = l.head_p,
           k.next_p = [l.next_p EXCEPT ![e] = Null]
    PROVE  Visits(k, c)
<1>1. l.next_p \in [Addresses -> Addresses \cup {Null}]
  BY ONLY l \in Lists DEF Lists
<1>2. \A i \in DOMAIN c : c[i] \in Addresses
  BY Elements, Zenon
<1>3. ASSUME NEW i \in DOMAIN c PROVE k.next_p[c[i]] = l.next_p[c[i]]
  <2>1. c[i] # e /\ c[i] \in Addresses
    BY <1>2, Zenon DEF Range
  <2> QED
    BY ONLY <1>1, <2>1, k.next_p = [l.next_p EXCEPT ![e] = Null]
<1> QED
  BY <1>3, Zenon DEF Visits

\* LinkedList_str_AddElement links the element behind the others.
LEMMA ElementAdded ==
    ASSUME NEW k \in Lists, NEW c \in Seq(Addresses), NEW e \in Addresses, NEW s,
           Visits(k, c), Distinct(c), e \notin Range(c), k.next_p[e] = Null,
           s = LinkedList_str_AddElement(k, e)
    PROVE  /\ s \in Lists /\ Visits(s, Append(c, e))
           /\ s.data = k.data /\ s.heap = k.heap /\ s.didRegister = k.didRegister
<1>1. /\ Len(c) \in Nat /\ DOMAIN c = 1..Len(c)
      /\ \A i \in DOMAIN c : i \in Nat /\ c[i] \in Addresses /\ c[i] # Null
      /\ c = <<>> <=> Len(c) = 0
  BY Elements, Zenon
<1> PICK d : d = Append(c, e)
  BY Zenon
<1>2. /\ d \in Seq(Addresses) /\ Len(d) = Len(c) + 1
      /\ \A i \in DOMAIN c : i \in DOMAIN d /\ d[i] = c[i] /\ c[i] # e
      /\ \A i \in DOMAIN d : i \in DOMAIN c \/ i = Len(c) + 1
      /\ d[Len(c) + 1] = e /\ Len(c) + 1 \in DOMAIN d
      /\ d # <<>>
  BY Longer, Zenon
<1>3. k.next_p \in [Addresses -> Addresses \cup {Null}]
  BY ONLY k \in Lists DEF Lists
<1>4. CASE c = <<>>
  <2>1. k.head_p = Null
    BY <1>4, Zenon DEF Visits
  <2>2. s = [k EXCEPT !.head_p = e]
    BY <2>1, Zenon DEF LinkedList_str_AddElement
  <2>3. /\ s \in Lists /\ s.head_p = e /\ s.next_p = k.next_p
        /\ s.data = k.data /\ s.heap = k.heap /\ s.didRegister = k.didRegister
    BY ONLY <2>2, k \in Lists, e \in Addresses DEF Lists
  <2>4. Len(c) + 1 = 1 /\ Len(d) = 1 /\ \A i \in DOMAIN c : FALSE
    BY ONLY <1>1, <1>2, <1>4
  <2>5. d[1] = e /\ \A i \in DOMAIN d : i = 1
    BY <1>2, <2>4, Zenon
  <2>6. Visits(s, d)
    BY <1>2, <2>3, <2>4, <2>5, Zenon DEF Visits
  <2> QED
    BY <2>3, <2>6, Zenon
<1>5. CASE c # <<>>
  <2>a. Len(c) \in Nat /\ Len(c) # 0 /\ DOMAIN c = 1..Len(c)
    BY <1>1, <1>5, Zenon
  <2>b. Len(c) \in 1..Len(c) /\ 1 \in 1..Len(c) /\ Len(c) # Len(c) + 1 /\ 1 # Len(c) + 1
    BY ONLY <2>a, Neighbours, Zenon
  <2>1. Len(c) \in DOMAIN c /\ 1 \in DOMAIN c /\ Len(c) # Len(c) + 1 /\ 1 # Len(c) + 1
    BY ONLY <2>a, <2>b, Zenon
  <2> PICK z : z = c[Len(c)]
    BY Zenon
  <2>2. z \in Addresses /\ z # e
    BY <1>1, <1>2, <2>1, Zenon
  <2>3. k.head_p = c[1] /\ k.head_p # Null
    BY <1>1, <1>5, <2>1, Zenon DEF Visits
  <2>4. Chain(k) = c
    BY ChainIs, Zenon
  <2>5. LinkedList_str_FindTail(k) = z
    BY <2>3, <2>4, Zenon DEF LinkedList_str_FindTail
  <2>6. s = [k EXCEPT !.next_p[z] = e]
    BY <2>3, <2>5, Zenon DEF LinkedList_str_AddElement
  <2>7. /\ s \in Lists /\ s.head_p = k.head_p /\ s.next_p = [k.next_p EXCEPT ![z] = e]
        /\ s.data = k.data /\ s.heap = k.heap /\ s.didRegister = k.didRegister
    BY ONLY <2>2, <2>6, k \in Lists, e \in Addresses, Zenon DEF Lists
  <2>8. s.next_p[z] = e /\ \A a \in Addresses : a # z => s.next_p[a] = k.next_p[a]
    BY ONLY <1>3, <2>2, <2>7
  <2>9. s.head_p = IF d = <<>> THEN Null ELSE d[1]
    BY <1>2, <2>1, <2>3, <2>7, Zenon
  <2>10. ASSUME NEW i \in DOMAIN d
         PROVE  s.next_p[d[i]] = IF i = Len(d) THEN Null ELSE d[i + 1]
    <3>1. CASE i = Len(c) + 1
      <4>1. d[i] = e /\ i = Len(d) /\ s.next_p[e] = k.next_p[e]
        BY <1>2, <2>2, <2>8, <3>1, Zenon
      <4> QED
        BY <4>1, Zenon
    <3>2. CASE i \in DOMAIN c /\ i = Len(c)
      BY <1>2, <2>1, <2>8, <3>2, Zenon
    <3>3. CASE i \in DOMAIN c /\ i # Len(c)
      <4>1. i \in 1..Len(c) /\ i \in Nat /\ Len(c) \in Nat
        BY <1>1, <3>3, Zenon
      <4>2. i + 1 \in 1..Len(c) /\ i # Len(c) + 1
        BY ONLY <3>3, <4>1
      <4>3. i + 1 \in DOMAIN c
        BY <1>1, <4>2, Zenon
      <4>4. c[i] # z /\ c[i] \in Addresses
        BY <1>1, <2>1, <3>3, Zenon DEF Distinct
      <4>5. s.next_p[c[i]] = k.next_p[c[i]] /\ k.next_p[c[i]] = c[i + 1]
        BY <2>8, <3>3, <4>4, Zenon DEF Visits
      <4>6. d[i] = c[i] /\ d[i + 1] = c[i + 1] /\ i # Len(d)
        BY <1>2, <3>3, <4>2, <4>3, Zenon
      <4> QED
        BY <4>5, <4>6, Zenon
    <3> QED
      BY <1>2, <3>1, <3>2, <3>3, Zenon
  <2>11. Visits(s, d)
    BY <2>9, <2>10, Zenon DEF Visits
  <2> QED
    BY <2>7, <2>11, Zenon
<1> QED
  BY <1>4, <1>5, Zenon

\* The list s is l with the name of reply r in a new element e, and the flag set.
AddedAt(s, l, c, r, e) ==
    /\ s \in Lists /\ Linked(s, Append(c, e)) /\ e \notin Range(c)
    /\ s.didRegister = IF r.type = "ADD" THEN 1 ELSE 0
    /\ s.data = [l.data EXCEPT ![e] = Shown(r.name)]

\* C_ServiceBrowseReply appends the name of the reply and sets the flag.
LEMMA ReplyAdded ==
    ASSUME NEW l \in Lists, NEW c \in Seq(Addresses), Linked(l, c),
           Len(c) < Cardinality(Addresses),
           NEW r \in Replies, r.type # "ERROR"
    PROVE  \E e \in Addresses : AddedAt(C_ServiceBrowseReply(l, r), l, c, r, e)
<1> PICK s : s = C_ServiceBrowseReply(l, r)
  BY Zenon
<1>e. PICK e : e = CHOOSE a \in Addresses \ l.heap : TRUE
  BY Zenon
<1>f. PICK f : f = IF r.type = "ADD" THEN 1 ELSE 0
  BY Zenon
<1>t. PICK t : t = Shown(r.name)
  BY Zenon
<1>1. f \in {0, 1}
  BY ONLY <1>f, Zenon
<1>2. t \in Texts
  <2>1. r.name \in Names
    BY DEF Replies
  <2> QED
    BY <1>t, <2>1, Zenon DEF Texts
<1>3. e \in Addresses /\ e \notin Range(c)
  <2>1. \E a \in Addresses : a \notin Range(c)
    BY FreeAddress, Zenon
  <2>2. l.heap = Range(c)
    BY Zenon DEF Linked
  <2> QED
    BY ONLY <1>e, <2>1, <2>2, Zenon
<1> PICK k : k = Made(l, f, e, t)
  BY Zenon
<1>a. k \in Lists /\ Holding(k, l, f, e, t)
  <2>1. l \in Lists /\ f \in {0, 1} /\ e \in Addresses /\ t \in Texts
    BY <1>1, <1>2, <1>3, Zenon
  <2>2. Made(l, f, e, t) \in Lists /\ Holding(Made(l, f, e, t), l, f, e, t)
    BY ONLY <2>1, ElementConstructed, Zenon
  <2> QED
    BY <2>2, Zenon
<1>4. /\ k \in Lists
      /\ k.head_p = l.head_p /\ k.didRegister = f
      /\ k.next_p = [l.next_p EXCEPT ![e] = Null]
      /\ k.data = [l.data EXCEPT ![e] = t]
      /\ k.heap = l.heap \cup {e}
  BY ONLY <1>a, Zenon DEF Holding
<1>5. Visits(l, c) /\ Distinct(c) /\ l.heap = Range(c)
  BY Zenon DEF Linked
<1>6. Visits(k, c)
  BY <1>3, <1>4, <1>5, StillVisits, Zenon
<1>7. k.next_p[e] = Null
  <2>1. l.next_p \in [Addresses -> Addresses \cup {Null}]
    BY ONLY l \in Lists DEF Lists
  <2> QED
    BY ONLY <1>3, <1>4, <2>1
<1>8. s = LinkedList_str_AddElement(k, e)
  BY <1>e, <1>f, <1>t, Zenon DEF Made, C_ServiceBrowseReply
<1>9. /\ s \in Lists /\ Visits(s, Append(c, e))
      /\ s.data = k.data /\ s.heap = k.heap /\ s.didRegister = k.didRegister
  <2>1. /\ k \in Lists /\ c \in Seq(Addresses) /\ e \in Addresses
        /\ Visits(k, c) /\ Distinct(c) /\ e \notin Range(c) /\ k.next_p[e] = Null
    BY ONLY <1>3, <1>4, <1>5, <1>6, <1>7, c \in Seq(Addresses), Zenon
  <2> QED
    BY ONLY <1>8, <2>1, ElementAdded
<1>10. Distinct(Append(c, e)) /\ Range(Append(c, e)) = Range(c) \cup {e}
  BY ONLY <1>3, <1>5, c \in Seq(Addresses), Longer, Zenon
<1>11. Linked(s, Append(c, e))
  BY <1>4, <1>5, <1>9, <1>10, Zenon DEF Linked
<1>12. s.didRegister = (IF r.type = "ADD" THEN 1 ELSE 0) /\ s.data = [l.data EXCEPT ![e] = Shown(r.name)]
  BY ONLY <1>4, <1>9, <1>f, <1>t, Zenon
<1>13. AddedAt(s, l, c, r, e)
  BY ONLY <1>3, <1>9, <1>11, <1>12, Zenon DEF AddedAt
<1> QED
  BY <1>3, <1>13, Zenon

\* The list without its first i elements, which were freed.
Gone(c, i) == {c[j] : j \in 1..i}

Freed(l, c, i) ==
    [head_p |-> IF i = Len(c) THEN Null ELSE c[i + 1], didRegister |-> 0,
     next_p |-> [a \in Addresses |-> IF a \in Gone(c, i) THEN Null ELSE l.next_p[a]],
     data   |-> [a \in Addresses |-> IF a \in Gone(c, i) THEN Null ELSE l.data[a]],
     heap   |-> l.heap \ Gone(c, i)]

\* LinkedList_str_ClearList starts with the whole list.
LEMMA FreedNone ==
    ASSUME NEW l \in Lists, NEW c \in Seq(Addresses), Visits(l, c)
    PROVE  Freed(l, c, 0) = [l EXCEPT !.didRegister = 0]
<1>1. Gone(c, 0) = {}
  <2>1. 1..0 = {}
    OBVIOUS
  <2> QED
    BY <2>1, Zenon DEF Gone
<1>2. l.head_p = IF 0 = Len(c) THEN Null ELSE c[0 + 1]
  <2>1. (c = <<>> <=> Len(c) = 0) /\ 0 + 1 = 1
    BY ONLY c \in Seq(Addresses)
  <2> QED
    BY <2>1, Zenon DEF Visits
<1>3. /\ l.next_p \in [Addresses -> Addresses \cup {Null}]
      /\ l.data \in [Addresses -> Texts]
  BY ONLY l \in Lists DEF Lists
<1>4. /\ l.next_p = [a \in Addresses |-> l.next_p[a]]
      /\ l.data = [a \in Addresses |-> l.data[a]]
  BY ONLY <1>3, Zenon
<1>5. Freed(l, c, 0) = [head_p |-> l.head_p, didRegister |-> 0, next_p |-> l.next_p,
                        data |-> l.data, heap |-> l.heap]
  <2>1. /\ [a \in Addresses |-> IF a \in {} THEN Null ELSE l.next_p[a]] = l.next_p
        /\ [a \in Addresses |-> IF a \in {} THEN Null ELSE l.data[a]] = l.data
        /\ l.heap \ {} = l.heap
    BY ONLY <1>3, <1>4
  <2> QED
    BY ONLY <1>1, <1>2, <2>1, Zenon DEF Freed
<1>6. [l EXCEPT !.didRegister = 0] =
         [head_p |-> l.head_p, didRegister |-> 0, next_p |-> l.next_p,
          data |-> l.data, heap |-> l.heap]
  BY ONLY l \in Lists DEF Lists
<1> QED
  BY ONLY <1>5, <1>6

\* The fields that the destructor of an element changes.
LEMMA RecordFreed ==
    ASSUME NEW x, NEW p, NEW q, NEW h, NEW k,
           k = [head_p |-> x, didRegister |-> 0, next_p |-> p, data |-> q, heap |-> h]
    PROVE  LinkedListElement_str_Destructor(k, x) =
              [head_p |-> x, didRegister |-> 0, next_p |-> [p EXCEPT ![x] = Null],
               data |-> [q EXCEPT ![x] = Null], heap |-> h \ {x}]
<1>1. k.heap = h /\ k.data = q /\ k.next_p = p
  OBVIOUS
<1>2. k \in [head_p : {x}, didRegister : {0}, next_p : {p}, data : {q}, heap : {h}]
  OBVIOUS
<1>3. PICK P, Q, H : P = [p EXCEPT ![x] = Null] /\ Q = [q EXCEPT ![x] = Null] /\ H = h \ {x}
  BY Zenon
<1>4. PICK u : u = LinkedListElement_str_Destructor(k, x)
  BY Zenon
<1>5. u = [k EXCEPT !.heap = H, !.data = Q, !.next_p = P]
  BY ONLY <1>1, <1>3, <1>4, Zenon DEF LinkedListElement_str_Destructor
<1>6. u \in [head_p : {x}, didRegister : {0}, next_p : {P}, data : {Q}, heap : {H}]
  BY ONLY <1>2, <1>5, Zenon
<1>7. u = [head_p |-> x, didRegister |-> 0, next_p |-> P, data |-> Q, heap |-> H]
  BY ONLY <1>6
<1> QED
  BY ONLY <1>3, <1>4, <1>7, Zenon

\* It removes the head each time: the next element becomes the head.
LEMMA FreedOneMore ==
    ASSUME NEW l \in Lists, NEW c \in Seq(Addresses), Visits(l, c), Distinct(c),
           NEW i \in DOMAIN c
    PROVE  LinkedList_str_RemoveElement(Freed(l, c, i - 1), c[i]) = Freed(l, c, i)
<1>1. /\ Len(c) \in Nat /\ DOMAIN c = 1..Len(c) /\ i \in Nat
      /\ c[i] \in Addresses
  BY Elements, Zenon
<1>2. i - 1 # Len(c) /\ (i - 1) + 1 = i /\ i \in 1..i /\ i \notin 1..(i - 1)
  <2>1. i \in 1..Len(c) /\ i \in Nat /\ Len(c) \in Nat
    BY <1>1, Zenon
  <2> QED
    BY ONLY <2>1
<1>3. \A j : j \in 1..i <=> j \in 1..(i - 1) \/ j = i
  <2>1. i \in 1..Len(c) /\ i \in Nat /\ Len(c) \in Nat
    BY <1>1, Zenon
  <2> QED
    BY ONLY <2>1
<1>4. \A j \in 1..(i - 1) : j \in DOMAIN c
  <2>1. i \in 1..Len(c) /\ i \in Nat /\ Len(c) \in Nat /\ DOMAIN c = 1..Len(c)
    BY <1>1, Zenon
  <2>2. \A j \in 1..(i - 1) : j \in 1..Len(c)
    BY ONLY <2>1
  <2> QED
    BY ONLY <2>1, <2>2, Zenon
<1>5. c[i] \notin Gone(c, i - 1)
  <2>1. ASSUME NEW j \in 1..(i - 1), c[j] = c[i] PROVE FALSE
    BY <1>2, <1>4, <2>1, Zenon DEF Distinct
  <2> QED
    BY <2>1, Zenon DEF Gone
<1>6. Gone(c, i) = Gone(c, i - 1) \cup {c[i]}
  BY <1>3, Zenon DEF Gone
<1> PICK k : k = Freed(l, c, i - 1)
  BY Zenon
<1> PICK x : x = c[i]
  BY Zenon
<1> PICK G : G = Gone(c, i - 1)
  BY Zenon
<1> PICK v : v = IF i = Len(c) THEN Null ELSE c[i + 1]
  BY Zenon
<1>7. k = [head_p |-> x, didRegister |-> 0,
           next_p |-> [a \in Addresses |-> IF a \in G THEN Null ELSE l.next_p[a]],
           data   |-> [a \in Addresses |-> IF a \in G THEN Null ELSE l.data[a]],
           heap   |-> l.heap \ G]
  BY <1>2, Zenon DEF Freed
<1>8. Freed(l, c, i) =
          [head_p |-> v, didRegister |-> 0,
           next_p |-> [a \in Addresses |-> IF a \in G \cup {x} THEN Null ELSE l.next_p[a]],
           data   |-> [a \in Addresses |-> IF a \in G \cup {x} THEN Null ELSE l.data[a]],
           heap   |-> l.heap \ (G \cup {x})]
  BY <1>6, Zenon DEF Freed
<1>9. x \in Addresses /\ x \notin G /\ l.next_p[x] = v
  BY <1>1, <1>5, Zenon DEF Visits
<1>10. k.head_p = x /\ k.next_p[x] = v
  BY ONLY <1>7, <1>9
<1>11. LinkedList_str_RemoveElement(k, x) =
          [LinkedListElement_str_Destructor(k, x) EXCEPT !.head_p = v]
  BY ONLY <1>10, ZenonT(60) DEF LinkedList_str_RemoveElement
<1>12. LinkedListElement_str_Destructor(k, x) =
          [head_p |-> x, didRegister |-> 0,
           next_p |-> [a \in Addresses |-> IF a \in G \cup {x} THEN Null ELSE l.next_p[a]],
           data   |-> [a \in Addresses |-> IF a \in G \cup {x} THEN Null ELSE l.data[a]],
           heap   |-> l.heap \ (G \cup {x})]
  <2>1. LinkedListElement_str_Destructor(k, x) =
          [head_p |-> x, didRegister |-> 0,
           next_p |-> [k.next_p EXCEPT ![x] = Null], data |-> [k.data EXCEPT ![x] = Null],
           heap |-> k.heap \ {x}]
    <3>1. PICK p, q, h : k = [head_p |-> x, didRegister |-> 0, next_p |-> p, data |-> q, heap |-> h]
      BY ONLY <1>7, Zenon
    <3>2. LinkedListElement_str_Destructor(k, x) =
            [head_p |-> x, didRegister |-> 0, next_p |-> [p EXCEPT ![x] = Null],
             data |-> [q EXCEPT ![x] = Null], heap |-> h \ {x}]
      BY ONLY <3>1, RecordFreed, Zenon
    <3>3. k.next_p = p /\ k.data = q /\ k.heap = h
      BY ONLY <3>1
    <3> QED
      BY ONLY <3>2, <3>3, Zenon
  <2>2. [k.next_p EXCEPT ![x] = Null] =
           [a \in Addresses |-> IF a \in G \cup {x} THEN Null ELSE l.next_p[a]]
    BY ONLY <1>7, <1>9
  <2>3. [k.data EXCEPT ![x] = Null] =
           [a \in Addresses |-> IF a \in G \cup {x} THEN Null ELSE l.data[a]]
    BY ONLY <1>7, <1>9, SMTT(60)
  <2>4. k.heap \ {x} = l.heap \ (G \cup {x})
    BY ONLY <1>7
  <2> QED
    BY ONLY <2>1, <2>2, <2>3, <2>4, Zenon
<1>13. PICK p, q, h :
          /\ LinkedListElement_str_Destructor(k, x) =
                [head_p |-> x, didRegister |-> 0, next_p |-> p, data |-> q, heap |-> h]
          /\ Freed(l, c, i) =
                [head_p |-> v, didRegister |-> 0, next_p |-> p, data |-> q, heap |-> h]
  BY ONLY <1>8, <1>12, Zenon
<1>14. LinkedList_str_RemoveElement(k, x) =
          [head_p |-> v, didRegister |-> 0, next_p |-> p, data |-> q, heap |-> h]
  BY ONLY <1>11, <1>13
<1> QED
  BY ONLY <1>13, <1>14, k = Freed(l, c, i - 1), x = c[i], Zenon

\* One step of LinkedList_str_ClearList, of the lists after the steps before.
Step(l, c, g, i) == IF i = 0 THEN [l EXCEPT !.didRegister = 0]
                             ELSE LinkedList_str_RemoveElement(g[i - 1], c[i])

\* LinkedList_str_ClearList is the last of a sequence of lists of which each
\* follows from the one before it.
LEMMA ClearListSteps ==
    ASSUME NEW l \in Lists, NEW c \in Seq(Addresses), Visits(l, c), Distinct(c)
    PROVE  \E g : /\ g = [i \in 0..Len(c) |-> Step(l, c, g, i)]
                  /\ LinkedList_str_ClearList(l) = g[Len(c)]
<1>1. Chain(l) = c
  BY ChainIs, Zenon
<1> PICK w : w = [i \in 0..Len(c) |-> Freed(l, c, i)]
  BY Zenon
<1>2. Len(c) \in Nat /\ DOMAIN c = 1..Len(c)
  BY Elements, Zenon
<1>3. ASSUME NEW i \in 0..Len(c) PROVE Freed(l, c, i) = Step(l, c, w, i)
  <2>1. CASE i = 0
    BY <2>1, FreedNone, Zenon DEF Step
  <2>2. CASE i # 0
    <3>1. i \in 1..Len(c) /\ i - 1 \in 0..Len(c)
      BY ONLY <1>2, <2>2, i \in 0..Len(c)
    <3>2. w[i - 1] = Freed(l, c, i - 1) /\ i \in DOMAIN c
      BY <1>2, <3>1, Zenon
    <3>3. LinkedList_str_RemoveElement(Freed(l, c, i - 1), c[i]) = Freed(l, c, i)
      BY <3>2, FreedOneMore, Zenon
    <3> QED
      BY ONLY <2>2, <3>2, <3>3, Zenon DEF Step
  <2> QED
    BY <2>1, <2>2, Zenon
<1>4. w = [i \in 0..Len(c) |-> Step(l, c, w, i)]
  BY <1>3, Zenon
<1> PICK g : g = CHOOSE h : h = [i \in 0..Len(c) |-> Step(l, c, h, i)]
  BY Zenon
<1>5. g = [i \in 0..Len(c) |-> Step(l, c, g, i)]
  BY <1>4, Zenon
<1>6. LinkedList_str_ClearList(l) = g[Len(c)]
  BY <1>1, Zenon DEF LinkedList_str_ClearList, Step
<1> QED
  BY <1>5, <1>6, ZenonT(60)

\* LinkedList_str_ClearList frees every element of the list.
LEMMA ListCleared ==
    ASSUME NEW l \in Lists, NEW c \in Seq(Addresses), Linked(l, c), NEW s,
           s = LinkedList_str_ClearList(l)
    PROVE  s \in Lists /\ Linked(s, <<>>)
<1>1. Visits(l, c) /\ Distinct(c) /\ l.heap = Range(c)
  BY Zenon DEF Linked
<1>2. PICK g : /\ g = [i \in 0..Len(c) |-> Step(l, c, g, i)]
               /\ LinkedList_str_ClearList(l) = g[Len(c)]
  BY <1>1, ClearListSteps, Zenon
<1>3. Len(c) \in Nat /\ DOMAIN c = 1..Len(c)
  BY Elements, Zenon
<1> DEFINE S == {i \in Nat : i \in 0..Len(c) => g[i] = Freed(l, c, i)}
<1>4. 0 \in S
  <2>1. 0 \in Nat /\ 0 \in 0..Len(c)
    BY ONLY <1>3
  <2>2. g[0] = Step(l, c, g, 0)
    BY <1>2, <2>1, Zenon
  <2>3. Freed(l, c, 0) = [l EXCEPT !.didRegister = 0]
    BY <1>1, FreedNone, Zenon
  <2>4. g[0] = Freed(l, c, 0)
    BY ONLY <2>2, <2>3, Zenon DEF Step
  <2> QED
    BY <2>1, <2>4, Zenon
<1>5. ASSUME NEW i \in S PROVE i + 1 \in S
  <2>1. i \in Nat /\ (i \in 0..Len(c) => g[i] = Freed(l, c, i))
    BY Zenon
  <2>a. i + 1 \in Nat /\ i + 1 # 0 /\ (i + 1) - 1 = i
    BY ONLY <2>1
  <2>2. SUFFICES ASSUME i + 1 \in 0..Len(c) PROVE g[i + 1] = Freed(l, c, i + 1)
    BY <2>a, Zenon
  <2>3. i \in 0..Len(c) /\ i + 1 \in 1..Len(c)
    <3> HIDE DEF S
    <3> QED
      BY ONLY <1>3, <2>1, <2>2
  <2>4. g[i + 1] = Step(l, c, g, i + 1)
    BY <1>2, <2>2, Zenon
  <2>5. LinkedList_str_RemoveElement(Freed(l, c, (i + 1) - 1), c[i + 1]) = Freed(l, c, i + 1)
    <3>1. i + 1 \in DOMAIN c
      BY <1>3, <2>3, Zenon
    <3> QED
      BY <1>1, <3>1, FreedOneMore, Zenon
  <2> QED
    BY ONLY <2>1, <2>a, <2>3, <2>4, <2>5, Zenon DEF Step
<1>6. S = Nat
  <2>1. S \in SUBSET Nat
    BY Zenon
  <2> HIDE DEF S
  <2> QED
    BY <1>4, <1>5, <2>1, FromZero, Zenon
<1>7. s = Freed(l, c, Len(c))
  <2>1. Len(c) \in 0..Len(c)
    BY ONLY <1>3
  <2> QED
    BY <1>2, <1>3, <1>6, <2>1, Zenon
<1>8. Gone(c, Len(c)) = Range(c)
  BY <1>3, Zenon DEF Gone, Range
<1> PICK p, q : /\ p = [a \in Addresses |-> IF a \in Range(c) THEN Null ELSE l.next_p[a]]
                /\ q = [a \in Addresses |-> IF a \in Range(c) THEN Null ELSE l.data[a]]
  BY Zenon
<1>9. s = [head_p |-> Null, didRegister |-> 0, next_p |-> p, data |-> q, heap |-> {}]
  BY <1>1, <1>7, <1>8, Zenon DEF Freed
<1>10. p \in [Addresses -> Addresses \cup {Null}] /\ q \in [Addresses -> Texts]
  <2>1. /\ l.next_p \in [Addresses -> Addresses \cup {Null}]
        /\ l.data \in [Addresses -> Texts] /\ Null \in Texts
    BY ONLY l \in Lists, SMTT(60) DEF Lists, Texts
  <2> QED
    BY <2>1, Zenon
<1>11. s \in Lists /\ s.head_p = Null /\ s.heap = {}
  BY ONLY <1>9, <1>10 DEF Lists
<1>12. DOMAIN <<>> = {} /\ Range(<<>>) = {}
  <2>1. \A i \in DOMAIN <<>> : FALSE
    OBVIOUS
  <2> QED
    BY <2>1, Zenon DEF Range
<1>13. Visits(s, <<>>) /\ Distinct(<<>>)
  BY <1>11, <1>12, Zenon DEF Visits, Distinct
<1> QED
  BY ONLY <1>11, <1>12, <1>13, Zenon DEF Linked
-----------------------------------------------------------------------------
(* What the browse list holds *)

\* Replies with a name, and a list that holds their names in order.
Named == [type : {"ADD", "REMOVE"}, name : Names]

Browsed(l, b) ==
    \E c \in Seq(Addresses) :
        /\ Linked(l, c) /\ Len(c) = Len(b)
        /\ \A i \in DOMAIN c : l.data[c[i]] = Shown(b[i].name)

\* What is in the list and what is in the socket were written by the daemon.
Written ==
    Len(batch) + Len(replies) <= happened.replies /\ happened.replies <= MaxReplies

ListInv == ll \in Lists /\ batch \in Seq(Named) /\ Browsed(ll, batch) /\ Written

\* The list, the replies and what the app knows are touched by a callback, by a
\* report and by the daemon.
LEMMA ListFrame ==
    ASSUME [Next]_vars
    PROVE  \/ Callback \/ Report \/ (\E r \in Replies : Reply(r))
           \/ /\ UNCHANGED <<ll, batch, replies, seen, serviceV>>
              /\ UNCHANGED happened \/ Receive
<1> DEFINE Same == /\ UNCHANGED <<ll, batch, replies, seen, serviceV>>
                   /\ UNCHANGED happened \/ Receive
<1> USE DEF control, data, app, ghosts
<1>1. CASE Worker \/ AwaitCheck("mailbox") \/ AwaitArm("mailbox") \/ AwaitCheck("io") \/ AwaitArm("io")
  BY <1>1, Zenon DEF Worker, Browse, AwaitCheck, AwaitArm
<1>2. CASE Keys
  BY <1>2, Zenon DEF Keys, OnPause, OnResumeRequest, OnResume, Receive
<1>3. CASE OnPauseCancel \/ OnShutdown
  BY <1>3, Zenon DEF OnPauseCancel, OnShutdown
<1>4. ASSUME NEW n, OnResolveRequest(n) \/ Resolved(n) PROVE Same
  BY <1>4, Zenon DEF OnResolveRequest, Resolved, C_ResolveReply, HandleResolvedServices
<1>5. CASE SocketReady \/ SocketFails \/ WaitError \/ ProcessDNSServiceBrowseResult
  BY <1>5, Zenon DEF SocketReady, SocketFails, WaitError, ProcessDNSServiceBrowseResult
<1>6. CASE Read \/ ReadMore
  BY <1>6, Zenon DEF Read, ReadMore
<1>7. CASE ReadReturns \/ ReadFails \/ TimerExpires \/ TimerResumes \/ Quit
  BY <1>7, Zenon DEF ReadReturns, ReadFails, TimerExpires, TimerResumes, OnResume, Quit
<1>8. ASSUME NEW n \in Names, Announce(n) \/ Withdraw(n) PROVE \E r \in Replies : Reply(r)
  BY <1>8, SMTT(60) DEF Announce, Withdraw, Replies
<1>9. CASE ReplyError
  BY <1>9 DEF ReplyError, Replies
<1>10. CASE UNCHANGED vars
  BY <1>10, Zenon DEF vars
<1> QED
  BY <1>1, <1>2, <1>3, <1>4, <1>5, <1>6, <1>7, <1>8, <1>9, <1>10, Zenon DEF Next, Mailbox, Io

\* An empty list holds no names.
LEMMA EmptyBrowsed ==
    ASSUME NEW l, Linked(l, <<>>)
    PROVE  Browsed(l, <<>>)
<1>1. <<>> \in Seq(Addresses) /\ \A i \in DOMAIN <<>> : FALSE
  OBVIOUS
<1> QED
  BY <1>1, Zenon DEF Browsed

\* At first the list is empty.
LEMMA ListInit == Init => ListInv
<1> SUFFICES ASSUME Init PROVE ListInv
  OBVIOUS
<1>1. ll = LinkedList_str_Constructor /\ batch = <<>> /\ replies = <<>>
      /\ happened = [replies |-> 0, keys |-> 0]
  BY Zenon DEF Init
<1>2. /\ ll \in Lists /\ ll.head_p = Null /\ ll.heap = {}
  BY <1>1 DEF LinkedList_str_Constructor, Lists, Texts
<1>3. DOMAIN <<>> = {} /\ Range(<<>>) = {}
  <2>1. \A i \in DOMAIN <<>> : FALSE
    OBVIOUS
  <2> QED
    BY <2>1, Zenon DEF Range
<1>4. Linked(ll, <<>>)
  BY <1>2, <1>3, Zenon DEF Linked, Visits, Distinct
<1>5. Browsed(ll, batch)
  BY <1>1, <1>4, EmptyBrowsed, Zenon
<1>6. Written
  <2>1. Len(batch) = 0 /\ Len(replies) = 0 /\ happened.replies = 0
    BY ONLY <1>1
  <2>2. MaxReplies \in Nat
    BY BonjourAssumption
  <2> QED
    BY ONLY <2>1, <2>2 DEF Written
<1>7. batch \in Seq(Named)
  BY ONLY <1>1
<1> QED
  BY <1>2, <1>5, <1>6, <1>7, Zenon DEF ListInv

\* The callback appends a name to the list; for an error it does nothing.
LEMMA CallbackList ==
    ASSUME TypeOK, ListInv, Callback
    PROVE  /\ ListInv'
           /\ Head(replies).type # "ERROR" =>
                 ll'.didRegister = IF Head(replies).type = "ADD" THEN 1 ELSE 0
<1> PICK r : r = Head(replies)
  BY Zenon
<1>1. /\ replies \in Seq(Replies) /\ replies # <<>> /\ r \in Replies
      /\ replies' = Tail(replies) /\ happened' = happened
      /\ ll' = C_ServiceBrowseReply(ll, r)
      /\ batch' = IF r.type = "ERROR" THEN batch ELSE Append(batch, r)
  BY CallbackType, Zenon DEF TypeOK, Callback
<1>2. ll \in Lists /\ batch \in Seq(Named) /\ Browsed(ll, batch) /\ Written
  BY Zenon DEF ListInv
<1>3. PICK b, m \in Nat : b = Len(batch) /\ m = Len(replies) /\ m # 0 /\ Len(replies') = m - 1
  BY ONLY <1>1, <1>2
<1>4. happened.replies \in Nat /\ MaxReplies \in Nat /\ b + m <= happened.replies
      /\ happened.replies <= MaxReplies
  BY <1>2, <1>3, BonjourAssumption DEF Written, TypeOK
<1>5. CASE r.type = "ERROR"
  <2>1. ll' = ll /\ batch' = batch
    BY <1>1, <1>5, Zenon DEF C_ServiceBrowseReply
  <2>2. b + (m - 1) <= happened.replies
    BY ONLY <1>3, <1>4
  <2>3. Written'
    BY ONLY <1>1, <1>3, <1>4, <2>1, <2>2, Zenon DEF Written
  <2> QED
    BY <1>2, <1>5, <2>1, <2>3, Zenon DEF ListInv
<1>6. CASE r.type # "ERROR"
  <2>1. PICK c \in Seq(Addresses) :
              /\ Linked(ll, c) /\ Len(c) = Len(batch)
              /\ \A i \in DOMAIN c : ll.data[c[i]] = Shown(batch[i].name)
    BY <1>2, Zenon DEF Browsed
  <2>2. Len(c) < Cardinality(Addresses)
    <3>1. Cardinality(Addresses) \in Nat /\ MaxReplies <= Cardinality(Addresses) /\ Len(c) = b
      BY <1>3, <2>1, BonjourAssumption, ListAssumption, FS_CardinalityType
    <3> QED
      BY ONLY <1>3, <1>4, <3>1, SMTT(60)
  <2>3. PICK e \in Addresses :
              /\ ll' \in Lists /\ Linked(ll', Append(c, e)) /\ e \notin Range(c)
              /\ ll'.didRegister = IF r.type = "ADD" THEN 1 ELSE 0
              /\ ll'.data = [ll.data EXCEPT ![e] = Shown(r.name)]
    <3>1. \E e \in Addresses : AddedAt(C_ServiceBrowseReply(ll, r), ll, c, r, e)
      BY ONLY <1>1, <1>2, <1>6, <2>1, <2>2, ReplyAdded, Zenon
    <3>2. PICK e \in Addresses : AddedAt(ll', ll, c, r, e)
      BY <1>1, <3>1, Zenon
    <3> QED
      BY ONLY <3>2, Zenon DEF AddedAt
  <2>4. batch' = Append(batch, r) /\ r \in Named
    <3>1. r \in Named
      BY ONLY <1>1, <1>6, SMTT(60) DEF Replies, Named
    <3> QED
      BY <1>1, <1>6, <3>1, Zenon
  <2>5. /\ batch' \in Seq(Named) /\ Len(batch') = b + 1
        /\ \A i \in 1..b : batch'[i] = batch[i]
        /\ batch'[b + 1] = r
    BY ONLY <1>2, <1>3, <2>4
  <2>6. Written'
    <3>1. (b + 1) + (m - 1) <= happened.replies
      BY ONLY <1>3, <1>4
    <3> QED
      BY ONLY <1>1, <1>3, <1>4, <2>5, <3>1, Zenon DEF Written
  <2>7. Browsed(ll', batch')
    <3> PICK d : d = Append(c, e)
      BY Zenon
    <3>1. Len(c) = b /\ DOMAIN c = 1..b /\ \A i \in DOMAIN c : c[i] \in Addresses
      BY <1>3, <2>1, Elements, Zenon
    <3>2. Distinct(c)
      BY <2>1, Zenon DEF Linked
    <3>3. /\ d \in Seq(Addresses) /\ Len(d) = Len(c) + 1
          /\ \A i \in DOMAIN c : i \in DOMAIN d /\ d[i] = c[i] /\ c[i] # e
          /\ \A i \in DOMAIN d : i \in DOMAIN c \/ i = Len(c) + 1
          /\ d[Len(c) + 1] = e
      <4>1. c \in Seq(Addresses) /\ e \in Addresses /\ e \notin Range(c) /\ Distinct(c)
        BY <2>3, <3>2, Zenon
      <4> QED
        BY ONLY <4>1, d = Append(c, e), Longer, Zenon
    <3>4. ll.data \in [Addresses -> Texts]
      BY ONLY <1>2, SMTT(60) DEF Lists
    <3>5. ll'.data[e] = Shown(r.name) /\ \A a \in Addresses : a # e => ll'.data[a] = ll.data[a]
      BY ONLY <2>3, <3>4, Zenon
    <3>6. ASSUME NEW i \in DOMAIN d PROVE ll'.data[d[i]] = Shown(batch'[i].name)
      <4>1. CASE i \in DOMAIN c
        <5>1. d[i] = c[i] /\ ll'.data[c[i]] = ll.data[c[i]] /\ batch'[i] = batch[i]
          BY <2>5, <3>1, <3>3, <3>5, <4>1, Zenon
        <5> QED
          BY <2>1, <4>1, <5>1, Zenon
      <4>2. CASE i = Len(c) + 1
        BY <2>5, <3>1, <3>3, <3>5, <4>2, Zenon
      <4> QED
        BY <3>3, <4>1, <4>2, Zenon
    <3>7. Len(d) = Len(batch') /\ Linked(ll', d)
      BY <2>3, <2>5, <3>1, <3>3, Zenon
    <3> QED
      BY ONLY <3>3, <3>6, <3>7, Zenon DEF Browsed
  <2> QED
    BY ONLY <2>3, <2>5, <2>6, <2>7, r = Head(replies), Zenon DEF ListInv
<1> QED
  BY <1>5, <1>6, Zenon

\* The report empties the list.
LEMMA ReportList ==
    ASSUME TypeOK, ListInv, Report
    PROVE  ListInv'
<1>1. /\ ll' = LinkedList_str_ClearList(ll) /\ batch' = <<>> /\ replies' = replies
      /\ happened' = happened
  BY Zenon DEF Report
<1>2. PICK c \in Seq(Addresses) : Linked(ll, c)
  BY Zenon DEF ListInv, Browsed
<1>3. ll \in Lists
  BY Zenon DEF ListInv
<1>4. ll' \in Lists /\ Linked(ll', <<>>)
  BY ONLY <1>1, <1>2, <1>3, ListCleared
<1>5. Browsed(ll', batch')
  BY ONLY <1>1, <1>4, EmptyBrowsed, Zenon
<1>6. batch' \in Seq(Named) /\ Len(batch') = 0
  BY ONLY <1>1
<1>7. Written'
  <2>1. /\ Len(batch) \in Nat /\ Len(replies) \in Nat /\ happened.replies \in Nat
        /\ Len(batch) + Len(replies) <= happened.replies
    BY DEF ListInv, Written, TypeOK
  <2>2. 0 + Len(replies) <= happened.replies
    BY ONLY <2>1
  <2>3. happened.replies <= MaxReplies
    BY Zenon DEF ListInv, Written
  <2> QED
    BY ONLY <1>1, <1>6, <2>2, <2>3, Zenon DEF Written
<1> QED
  BY ONLY <1>4, <1>5, <1>6, <1>7, Zenon DEF ListInv

\* What the daemon writes and the keys leave the list as it is.
LEMMA ReplyList ==
    ASSUME TypeOK, ListInv, NEW r \in Replies, Reply(r)
    PROVE  ListInv'
<1>1. /\ ll' = ll /\ batch' = batch /\ replies' = Append(replies, r)
      /\ happened' = [happened EXCEPT !.replies = @ + 1] /\ happened.replies < MaxReplies
  BY Zenon DEF Reply
<1>2. /\ Len(batch) \in Nat /\ happened \in [replies : Nat, keys : Nat] /\ replies \in Seq(Replies)
      /\ Len(batch) + Len(replies) <= happened.replies
  BY DEF ListInv, Written, TypeOK
<1>3. happened'.replies = happened.replies + 1 /\ happened.replies \in Nat
  BY ONLY <1>1, <1>2
<1>4. Len(replies') = Len(replies) + 1 /\ Len(replies) \in Nat
  BY ONLY <1>1, <1>2
<1>5. Len(batch) + (Len(replies) + 1) <= happened.replies + 1 /\ happened.replies + 1 <= MaxReplies
  <2>1. MaxReplies \in Nat
    BY BonjourAssumption
  <2> QED
    BY ONLY <1>1, <1>2, <1>3, <1>4, <2>1, SMTT(60)
<1>6. Written'
  BY ONLY <1>1, <1>3, <1>4, <1>5, Zenon DEF Written
<1> QED
  BY <1>1, <1>6, Zenon DEF ListInv

\* Every step keeps the list.
LEMMA ListStep ==
    ASSUME TypeOK, ListInv, [Next]_vars
    PROVE  ListInv'
<1>1. CASE Callback
  BY <1>1, CallbackList, Zenon
<1>2. CASE Report
  BY <1>2, ReportList, Zenon
<1>3. ASSUME NEW r \in Replies, Reply(r) PROVE ListInv'
  BY <1>3, ReplyList, Zenon
<1>4. CASE UNCHANGED <<ll, batch, replies, seen, serviceV>> /\ (UNCHANGED happened \/ Receive)
  <2>1. happened'.replies = happened.replies
    <3>1. happened \in [replies : Nat, keys : Nat]
      BY Zenon DEF TypeOK
    <3>2. happened' = happened \/ happened' = [happened EXCEPT !.keys = @ + 1]
      BY <1>4, Zenon DEF Receive
    <3> QED
      BY ONLY <3>1, <3>2
  <2> QED
    BY <1>4, <2>1, Zenon DEF ListInv, Written
<1> QED
  BY <1>1, <1>2, <1>3, <1>4, ListFrame, Zenon

\* The list and the replies it stands for belong together in every state.
LEMMA ListInvHolds == Spec => []ListInv
<1>1. TypeOK /\ ListInv /\ [Next]_vars => ListInv'
  BY ListStep
<1> QED
  BY <1>1, ListInit, TypeCorrect, PTL DEF Spec

\* A list that holds the names of b yields them.
LEMMA BrowsedData ==
    ASSUME NEW l, NEW b \in Seq(Named), Browsed(l, b)
    PROVE  /\ Data(l) = [i \in DOMAIN b |-> Shown(b[i].name)]
           /\ l.heap = Range(Chain(l))
<1>1. PICK c \in Seq(Addresses) :
            /\ Linked(l, c) /\ Len(c) = Len(b)
            /\ \A i \in DOMAIN c : l.data[c[i]] = Shown(b[i].name)
  BY Zenon DEF Browsed
<1>2. Visits(l, c) /\ Distinct(c) /\ l.heap = Range(c)
  BY <1>1, Zenon DEF Linked
<1>3. Chain(l) = c
  BY <1>2, ChainIs, Zenon
<1>4. DOMAIN c = DOMAIN b
  BY ONLY <1>1, b \in Seq(Named)
<1>5. [i \in DOMAIN c |-> l.data[c[i]]] = [i \in DOMAIN b |-> Shown(b[i].name)]
  BY ONLY <1>1, <1>4, Zenon
<1> QED
  BY <1>2, <1>3, <1>5, Zenon DEF Data

\* The browse list holds exactly the names of the replies that were read and not
\* reported, in order, and what was reported is freed.
THEOREM ListExactHolds == Spec => []ListExact
<1>1. ListInv => ListExact
  BY BrowsedData, Zenon DEF ListInv, ListExact
<1> QED
  BY <1>1, ListInvHolds, PTL
-----------------------------------------------------------------------------
(* What the app knows *)

\* The names as they come out of the list, of the services there are by the replies
\* that were read and of the replies in the list.
Shows  == {Shown(n) : n \in seen} \ {Own}
Listed == {Shown(batch[i].name) : i \in DOMAIN batch}

\* No two names come out of the list as one.
Faithful == \A m, n \in Names : Shown(m) = Shown(n) => m = n

\* The list has one kind of reply, its flag says which, and the report will make the
\* app know what there is.
OfKind(type, flag) ==
    batch # <<>> /\ ll.didRegister = flag /\ \A i \in DOMAIN batch : batch[i].type = type

Due ==
    \/ batch = <<>> /\ serviceV = Shows
    \/ OfKind("ADD", 1) /\ serviceV \cup (Listed \ {Own}) = Shows
    \/ OfKind("REMOVE", 0) /\ serviceV \ Listed = Shows

ViewInv == Faithful /\ Calm({"mixed"}) => Due

\* What the list of no replies shows, and of one reply more.
LEMMA ListedGrows ==
    ASSUME NEW r, batch \in Seq(Named), batch' = Append(batch, r), r \in Named
    PROVE  /\ batch = <<>> => Listed = {}
           /\ Listed' = Listed \cup {Shown(r.name)}
           /\ batch' # <<>>
           /\ \A t : (\A i \in DOMAIN batch : batch[i].type = t) /\ r.type = t
                        => \A i \in DOMAIN batch' : batch'[i].type = t
<1>1. PICK m : m = Len(batch)
  BY Zenon
<1>2. /\ \A i \in DOMAIN batch : i \in DOMAIN batch' /\ batch'[i] = batch[i]
      /\ \A i \in DOMAIN batch' : i \in DOMAIN batch \/ i = m + 1
      /\ m + 1 \in DOMAIN batch' /\ batch'[m + 1] = r
  BY <1>1
<1>3. batch = <<>> => \A i \in DOMAIN batch : FALSE
  OBVIOUS
<1>4. batch' # <<>>
  OBVIOUS
<1>5. Listed' = Listed \cup {Shown(r.name)}
  <2>1. ASSUME NEW x \in Listed' PROVE x \in Listed \cup {Shown(r.name)}
    <3>1. PICK i \in DOMAIN batch' : x = Shown(batch'[i].name)
      BY Zenon DEF Listed
    <3>2. CASE i \in DOMAIN batch
      BY ONLY <1>2, <3>1, <3>2, Zenon DEF Listed
    <3>3. CASE i = m + 1
      BY ONLY <1>2, <3>1, <3>3, Zenon
    <3> QED
      BY ONLY <1>2, <3>2, <3>3, Zenon
  <2>2. ASSUME NEW x \in Listed PROVE x \in Listed'
    <3>1. PICK i \in DOMAIN batch : x = Shown(batch[i].name)
      BY Zenon DEF Listed
    <3> QED
      BY ONLY <1>2, <3>1, Zenon DEF Listed
  <2>3. Shown(r.name) \in Listed'
    BY ONLY <1>2, Zenon DEF Listed
  <2> QED
    BY ONLY <2>1, <2>2, <2>3, Zenon
<1>6. ASSUME NEW t, \A i \in DOMAIN batch : batch[i].type = t, r.type = t, NEW i \in DOMAIN batch'
      PROVE  batch'[i].type = t
  BY ONLY <1>2, <1>6, Zenon
<1> QED
  BY ONLY <1>3, <1>4, <1>5, <1>6, Zenon DEF Listed

\* What a reply changes in what there is.
LEMMA ShowsChange ==
    ASSUME NEW n \in Names, seen \in SUBSET Names
    PROVE  /\ seen' = seen \cup {n} => Shows' = Shows \cup ({Shown(n)} \ {Own})
           /\ Faithful /\ seen' = seen \ {n} => Shows' = Shows \ {Shown(n)}
<1>1. ASSUME seen' = seen \cup {n} PROVE Shows' = Shows \cup ({Shown(n)} \ {Own})
  BY <1>1, Zenon DEF Shows
<1>2. ASSUME Faithful, seen' = seen \ {n} PROVE Shows' = Shows \ {Shown(n)}
  <2>1. ASSUME NEW m \in seen PROVE Shown(m) # Shown(n) <=> m # n
    BY <1>2, Zenon DEF Faithful
  <2> QED
    BY <1>2, <2>1, Zenon DEF Shows
<1> QED
  BY <1>1, <1>2, Zenon

\* A callback that does not mix names added and names removed keeps the report right.
LEMMA CallbackView ==
    ASSUME TypeOK, ListInv, Faithful, Due, Callback, Calm({"mixed"})'
    PROVE  Due'
<1> PICK r : r = Head(replies)
  BY Zenon
<1>1. /\ r \in Replies /\ serviceV' = serviceV
      /\ ll' = C_ServiceBrowseReply(ll, r)
      /\ batch' = IF r.type = "ERROR" THEN batch ELSE Append(batch, r)
      /\ upsets' = upsets \cup (IF \E i \in DOMAIN batch : {batch[i].type, r.type} = {"ADD", "REMOVE"}
                                THEN {"mixed"} ELSE {})
  BY CallbackType, Zenon DEF Callback, Upset, app
<1>2. /\ seen' = CASE r.type = "ADD"    -> seen \cup {r.name}
                   [] r.type = "REMOVE" -> seen \ {r.name}
                   [] OTHER             -> seen
      /\ seen \in SUBSET Names
  BY Zenon DEF Callback, TypeOK
<1>3. CASE r.type = "ERROR"
  <2>1. ll' = ll /\ batch' = batch
    BY <1>1, <1>3, Zenon DEF C_ServiceBrowseReply
  <2>2. seen' = seen
    BY ONLY <1>2, <1>3
  <2>3. Shows' = Shows /\ Listed' = Listed
    BY <2>1, <2>2, Zenon DEF Shows, Listed
  <2> QED
    BY <1>1, <2>1, <2>3, Zenon DEF Due, OfKind
<1>4. CASE r.type # "ERROR"
  <2>1. r \in Named /\ r.type \in {"ADD", "REMOVE"} /\ r.name \in Names
    BY ONLY <1>1, <1>4 DEF Replies, Named
  <2>2. batch' = Append(batch, r) /\ batch \in Seq(Named)
    BY <1>1, <1>4, Zenon DEF ListInv
  <2>3. /\ batch = <<>> => Listed = {}
        /\ Listed' = Listed \cup {Shown(r.name)}
        /\ batch' # <<>>
        /\ \A t : (\A i \in DOMAIN batch : batch[i].type = t) /\ r.type = t
                        => \A i \in DOMAIN batch' : batch'[i].type = t
    BY ONLY <2>1, <2>2, ListedGrows
  <2>4. ~ \E i \in DOMAIN batch : {batch[i].type, r.type} = {"ADD", "REMOVE"}
    BY <1>1, Zenon DEF Calm
  <2>5. ll'.didRegister = IF r.type = "ADD" THEN 1 ELSE 0
    BY <1>4, CallbackList, Zenon
  <2>6. \A i \in DOMAIN batch : batch[i].type = r.type
    <3>1. ASSUME NEW i \in DOMAIN batch PROVE batch[i].type \in {"ADD", "REMOVE"}
      <4>1. batch[i] \in Named
        BY ONLY <2>2, <3>1
      <4>2. \A e \in Named : e.type \in {"ADD", "REMOVE"}
        BY DEF Named
      <4> QED
        BY ONLY <4>1, <4>2, Zenon
    <3>2. \A a, b \in {"ADD", "REMOVE"} : a # b => {a, b} = {"ADD", "REMOVE"}
      OBVIOUS
    <3> QED
      BY ONLY <2>1, <2>4, <3>1, <3>2, Zenon
  <2>7. CASE r.type = "ADD"
    <3>1. seen' = seen \cup {r.name}
      BY ONLY <1>2, <2>7
    <3>2. Shows' = Shows \cup ({Shown(r.name)} \ {Own})
      BY ONLY <1>2, <2>1, <3>1, ShowsChange, Zenon
    <3>3. OfKind("ADD", 1)'
      BY ONLY <2>3, <2>5, <2>6, <2>7, Zenon DEF OfKind
    <3>4. serviceV \cup (Listed \ {Own}) = Shows
      <4>1. ~OfKind("REMOVE", 0)
        <5>1. batch # <<>> => \E i \in DOMAIN batch : TRUE
          BY ONLY <2>2
        <5>2. "ADD" # "REMOVE"
          OBVIOUS
        <5> QED
          BY ONLY <2>6, <2>7, <5>1, <5>2, Zenon DEF OfKind
      <4> QED
        BY <2>3, <4>1, Zenon DEF Due
    <3>5. serviceV \cup (Listed' \ {Own}) = Shows'
      BY ONLY <2>3, <3>2, <3>4, Zenon
    <3> QED
      BY ONLY <1>1, <3>3, <3>5, Zenon DEF Due
  <2>8. CASE r.type = "REMOVE"
    <3>1. seen' = seen \ {r.name}
      BY ONLY <1>2, <2>8
    <3>2. Shows' = Shows \ {Shown(r.name)}
      BY ONLY <1>2, <2>1, <3>1, Faithful, ShowsChange, Zenon
    <3>3. OfKind("REMOVE", 0)'
      <4>1. "REMOVE" # "ADD"
        OBVIOUS
      <4> QED
        BY ONLY <2>3, <2>5, <2>6, <2>8, <4>1, Zenon DEF OfKind
    <3>4. serviceV \ Listed = Shows
      <4>1. ~OfKind("ADD", 1)
        <5>1. batch # <<>> => \E i \in DOMAIN batch : TRUE
          BY ONLY <2>2
        <5>2. "ADD" # "REMOVE"
          OBVIOUS
        <5> QED
          BY ONLY <2>6, <2>8, <5>1, <5>2, Zenon DEF OfKind
      <4> QED
        BY <2>3, <4>1, Zenon DEF Due
    <3>5. serviceV \ Listed' = Shows'
      BY ONLY <2>3, <3>2, <3>4, Zenon
    <3> QED
      BY ONLY <1>1, <3>3, <3>5, Zenon DEF Due
  <2> QED
    BY <2>1, <2>7, <2>8, Zenon
<1> QED
  BY <1>3, <1>4, Zenon

\* The report makes the app know what there is.
LEMMA ReportView ==
    ASSUME ListInv, Due, Report
    PROVE  Due'
<1>1. /\ batch' = <<>> /\ seen' = seen
      /\ IF ll.didRegister = 1 THEN HandlePublishedServices(Data(ll))
                               ELSE HandleServiceDeregistration(Data(ll))
  BY Zenon DEF Report
<1>2. Range(Data(ll)) = Listed
  <2>1. Data(ll) = [i \in DOMAIN batch |-> Shown(batch[i].name)]
    BY BrowsedData, Zenon DEF ListInv
  <2> QED
    BY ONLY <2>1, Zenon DEF Range, Listed
<1>3. /\ ll.didRegister = 1 => serviceV' = serviceV \cup (Listed \ {Own})
      /\ ll.didRegister # 1 => serviceV' = serviceV \ Listed
  <2>1. CASE ll.didRegister = 1
    <3>1. serviceV' = serviceV \cup {n \in Listed : n \notin serviceV /\ n # Own}
      BY <1>1, <1>2, <2>1, Zenon DEF HandlePublishedServices, NewServices
    <3> QED
      BY ONLY <2>1, <3>1, Zenon
  <2>2. CASE ll.didRegister # 1
    BY <1>1, <1>2, <2>2, Zenon DEF HandleServiceDeregistration
  <2> QED
    BY ONLY <2>1, <2>2, Zenon
<1>4. CASE batch = <<>> /\ serviceV = Shows
  <2>1. Listed = {}
    <3>1. \A i \in DOMAIN batch : FALSE
      BY ONLY <1>4
    <3> QED
      BY ONLY <3>1, Zenon DEF Listed
  <2> QED
    BY ONLY <1>1, <1>3, <1>4, <2>1, Zenon DEF Due, Shows
<1>5. CASE OfKind("ADD", 1) /\ serviceV \cup (Listed \ {Own}) = Shows
  BY ONLY <1>1, <1>3, <1>5, Zenon DEF Due, Shows, OfKind
<1>6. CASE OfKind("REMOVE", 0) /\ serviceV \ Listed = Shows
  <2>1. ll.didRegister # 1
    <3>1. 0 # 1
      OBVIOUS
    <3> QED
      BY ONLY <1>6, <3>1, Zenon DEF OfKind
  <2> QED
    BY ONLY <1>1, <1>3, <1>6, <2>1, Zenon DEF Due, Shows
<1> QED
  BY <1>4, <1>5, <1>6, Zenon DEF Due

\* Every step keeps the report right.
LEMMA ViewStep ==
    ASSUME TypeOK, ListInv, ViewInv, [Next]_vars
    PROVE  ViewInv'
<1>1. SUFFICES ASSUME Faithful, Calm({"mixed"})' PROVE Due'
  BY Zenon DEF ViewInv, Faithful
<1>2. Due
  BY <1>1, CalmBefore, Zenon DEF ViewInv
<1>3. CASE Callback
  BY <1>1, <1>2, <1>3, CallbackView, Zenon
<1>4. CASE Report
  BY <1>2, <1>4, ReportView, Zenon
<1>5. CASE UNCHANGED <<ll, batch, seen, serviceV>>
  BY ONLY <1>2, <1>5, Zenon DEF Due, OfKind, Shows, Listed
<1>6. ASSUME NEW r \in Replies, Reply(r) PROVE UNCHANGED <<ll, batch, seen, serviceV>>
  BY <1>6, Zenon DEF Reply, app
<1> QED
  BY <1>3, <1>4, <1>5, <1>6, ListFrame, Zenon

\* When everything read has been reported, the app knows exactly the services there
\* are by the replies read, unless a report had names added and names removed.
THEOREM ViewExactHolds == Spec => []ViewExact
<1>1. Init => ViewInv
  BY Zenon DEF Init, ViewInv, Due, Shows
<1>2. TypeOK /\ ListInv /\ ViewInv /\ [Next]_vars => ViewInv'
  BY ViewStep
<1>3. ViewInv => ViewExact
  BY Zenon DEF ViewInv, ViewExact, Faithful, Due, Shows, OfKind
<1> QED
  BY <1>1, <1>2, <1>3, TypeCorrect, ListInvHolds, PTL DEF Spec
=============================================================================
