-------------------------- MODULE BonjourDiscovery --------------------------
(***************************************************************************)
(* Discovery on macOS: BVDiscovery_Bonjour, the callbacks of bonjour_api.c, *)
(* the keys of the console that pause, resume and end it, and the app's    *)
(* handlers of what it reports.                                            *)
(*                                                                         *)
(* Three threads: the worker, which runs Browse once; the mailbox thread,  *)
(* which calls the handlers On...; and io, the thread of the io_context,   *)
(* which runs the completion handlers, the timer and the keys.  The daemon *)
(* is the other end of the DNS-SD socket: external, as dns_sd.h says       *)
(* DNSServiceProcessResult treats it.  The broker and the mailboxes are the *)
(* FIFO that module Broker shows them to be; nothing looks at a message on *)
(* its way, so a key is received, and a report handled by the app, in the  *)
(* step in which it is sent.                                               *)
(*                                                                         *)
(* A wait on the descriptor is armed until the socket can be read, then    *)
(* ready until io runs its handler; cancel aborts the armed ones only.  The *)
(* pause timer is the same: armed, then due.                               *)
(***************************************************************************)
EXTENDS BrowseList

CONSTANTS Names,       \* the services on the network, by name
          Own,         \* the name of this machine
          Length,      \* the length of each name
          Squeezed,    \* each name without its blanks
          Blank,       \* the empty name
          Faults,      \* what may fail: "browse", "assign", "wait", "read", "reply", "resolve"
          MaxReplies,  \* bound: replies of the daemon
          MaxKeys      \* bound: keys p and r

ASSUME BonjourAssumption ==
    /\ Own \in Names
    /\ Length \in [Names -> Nat]
    /\ Faults \subseteq {"browse", "assign", "wait", "read", "reply", "resolve"}
    /\ MaxReplies \in Nat /\ MaxKeys \in Nat
    /\ Cardinality(Addresses) >= MaxReplies  \* malloc does not fail

VARIABLES dnsRef,      \* "open" or "null"
          assigned,    \* browseFD.assign has run: "yes" or "no"
          active,      \* isBrowsingActive, "yes" or "no"
          waits,       \* handlers of browseFD.async_wait: armed, ready, bad
          timer,       \* handlers of pauseTimer.async_wait: armed, due
          pc,          \* of each thread: its next step
          process,     \* "running" or "aborted"
          replies,     \* the socket: what the daemon has written
          network,     \* the daemon: the services there are
          ll,          \* the browse list
          resolving,   \* the names a resolve context waits for
          serviceV,    \* the services the app knows
          nodesM,      \* those it has an address of
          toResolve,   \* those it has asked the discovery to resolve
          happened,    \* how many replies and keys there were
          \* ghosts
          paused,      \* OnPause has run and no resume since: "yes" or "no"
          readPaused,  \* reads of the socket since then
          seen,        \* the services there are by the replies that were read
          batch,       \* replies whose names are in the browse list
          upsets       \* what came between; see below

control == <<dnsRef, assigned, active, waits, timer, pc, process>>
app     == <<serviceV, nodesM, toResolve>>
data    == <<replies, network, ll, resolving, app, happened>>
ghosts  == <<paused, readPaused, seen, batch, upsets>>
vars    == <<control, data, ghosts>>

Threads == {"worker", "mailbox", "io"}

(***************************************************************************)
(* The upsets:                                                             *)
(*   doubled  a resume found a wait, or a thread about to wait or to read  *)
(*   early    a resume, or a quit, before Browse had set up the descriptor *)
(*   stale    a pause while the timer of an earlier one was due            *)
(*   failed   one of Faults, but "reply"                                   *)
(*   error    a reply that carries an error                                *)
(*   mixed    names added and names removed were in one browse list        *)
(***************************************************************************)
Upset(why) == upsets' = upsets \cup why

CreateConnectionContext ==
    \/ dnsRef = "open" /\ upsets = {}
    \/ "browse" \in Faults /\ dnsRef = "null" /\ upsets = {"failed"}

Init ==
    /\ CreateConnectionContext
    /\ assigned = "no"
    /\ active = "no"
    /\ waits = [armed |-> 0, ready |-> 0, bad |-> 0]
    /\ timer = [armed |-> 0, due |-> 0]
    /\ pc = [t \in Threads |-> IF t = "worker" THEN "start" ELSE "idle"]
    /\ process = "running"
    /\ replies = <<>>
    /\ network = {}
    /\ ll = LinkedList_str_Constructor
    /\ resolving = {}
    /\ serviceV = {}
    /\ nodesM = {}
    /\ toResolve = {}
    /\ happened = [replies |-> 0, keys |-> 0]
    /\ paused = "no"
    /\ readPaused = 0
    /\ seen = {}
    /\ batch = <<>>

Goes(t, from, to) == pc[t] = from /\ pc' = [pc EXCEPT ![t] = to]

May(fault, why) == fault \in Faults /\ upsets = {} /\ upsets' = {why}
-----------------------------------------------------------------------------
(* AwaitFDForProcessingBrowseResult, which each of the threads calls: the   *)
(* flags are looked at, and then the wait is started.                       *)

\* Where a thread goes when AwaitFDForProcessingBrowseResult returns.
Rest(t) == IF t = "worker" THEN "done" ELSE "idle"

AwaitCheck(t) ==
    /\ Goes(t, "check", IF active = "yes" /\ dnsRef = "open" THEN "arm" ELSE Rest(t))
    /\ UNCHANGED <<dnsRef, assigned, active, waits, timer, process, data, ghosts>>

\* A descriptor that was not assigned yet completes the wait with an error.
AwaitArm(t) ==
    /\ Goes(t, "arm", Rest(t))
    /\ waits' = IF assigned = "yes" THEN [waits EXCEPT !.armed = @ + 1]
                                    ELSE [waits EXCEPT !.bad = @ + 1]
    /\ UNCHANGED <<dnsRef, assigned, active, timer, process, data, ghosts>>

Waiting == waits.armed + waits.ready
Busy(t) == pc[t] \in {"check", "arm", "reading", "calling", "report"}

\* A resume while this holds makes a second reader of the same socket.
Outstanding == Waiting > 0 \/ \E t \in Threads : Busy(t)

\* cancel leaves the handlers that are ready alone.
Cancelled(h) == [h EXCEPT !.armed = 0]
-----------------------------------------------------------------------------
(* The worker thread *)

\* Browse, up to its last call; there is no descriptor without a reference.
Browse ==
    /\ \/ /\ dnsRef = "open"
          /\ Goes("worker", "start", "check")
          /\ assigned' = "yes"
          /\ active' = "yes"
          /\ UNCHANGED <<dnsRef, upsets>>
       \/ /\ IF dnsRef = "null" THEN UNCHANGED upsets ELSE May("assign", "failed")
          /\ Goes("worker", "start", "done")
          /\ dnsRef' = "null"
          /\ UNCHANGED <<assigned, active>>
    /\ UNCHANGED <<waits, timer, process, data, paused, readPaused, seen, batch>>
-----------------------------------------------------------------------------
(* The mailbox thread *)

\* A key p or r has been pressed and its message received.
Receive ==
    /\ happened.keys < MaxKeys
    /\ happened' = [happened EXCEPT !.keys = @ + 1]
    /\ UNCHANGED <<replies, network, ll, resolving, app>>

\* OnPause: nothing if the browsing is not active ...
OnPause ==
    /\ Receive
    /\ IF active = "yes"
       THEN /\ Goes("mailbox", "idle", "cancel")
            /\ active' = "no"
            /\ paused' = "yes"
            /\ readPaused' = 0
            /\ Upset(IF timer.due > 0 THEN {"stale"} ELSE {})
       ELSE /\ pc["mailbox"] = "idle"
            /\ UNCHANGED <<pc, active, paused, readPaused, upsets>>
    /\ UNCHANGED <<dnsRef, assigned, waits, timer, process, seen, batch>>

\* Mutant: the timer is not started.
OnPauseCancelNoTimer ==
    /\ Goes("mailbox", "cancel", "idle")
    /\ waits' = Cancelled(waits)
    /\ UNCHANGED <<dnsRef, assigned, active, timer, process, data, ghosts>>

\* ... then the wait is cancelled and the timer started, which cancels a wait on
\* the timer that is still armed.
OnPauseCancel ==
    /\ Goes("mailbox", "cancel", "idle")
    /\ waits' = Cancelled(waits)
    /\ timer' = [timer EXCEPT !.armed = 1]
    /\ UNCHANGED <<dnsRef, assigned, active, process, data, ghosts>>

\* OnResume, of the mailbox thread and of the timer, up to its last call.
OnResume(t) ==
    /\ Goes(t, "idle", "check")
    /\ active' = "yes"
    /\ Upset((IF Outstanding THEN {"doubled"} ELSE {})
                \cup (IF pc["worker"] = "start" THEN {"early"} ELSE {}))
    /\ UNCHANGED <<dnsRef, assigned, waits, process, seen, batch, readPaused>>

OnResumeRequest ==
    /\ Receive
    /\ OnResume("mailbox")
    /\ timer' = Cancelled(timer)
    /\ paused' = "no"

\* browseFD.cancel throws if the descriptor was never assigned: the exception
\* leaves the mailbox thread.
OnShutdown ==
    /\ pc["io"] = "ended"
    /\ Goes("mailbox", "idle", "ended")
    /\ active' = "no"
    /\ IF assigned = "yes"
       THEN /\ waits' = Cancelled(waits)
            /\ timer' = Cancelled(timer)
            /\ UNCHANGED <<process, upsets>>
       ELSE /\ process' = "aborted"
            /\ Upset({"early"})
            /\ UNCHANGED <<waits, timer>>
    /\ UNCHANGED <<dnsRef, assigned, data, paused, readPaused, seen, batch>>

\* A context for the name, which its handler keeps.
CreateResolveContext(n) == resolving' = resolving \cup {n}

\* There is a context and a wait of its own for the name, or an error, which
\* ends the process once it is returned to ListenToMail.
ResolveService(n) ==
    \/ /\ CreateResolveContext(n)
       /\ UNCHANGED <<process, upsets>>
    \/ /\ May("resolve", "failed")
       /\ process' = "aborted"
       /\ UNCHANGED resolving

OnResolveRequest(n) ==
    /\ pc["mailbox"] = "idle"
    /\ n \in toResolve
    /\ toResolve' = toResolve \ {n}
    /\ ResolveService(n)
    /\ UNCHANGED <<dnsRef, assigned, active, waits, timer, pc, replies, network, ll,
                   serviceV, nodesM, happened, paused, readPaused, seen, batch>>
-----------------------------------------------------------------------------
(* The app *)

\* What HandlePublishedServices adds and asks to be resolved.
NewServices(list) == {n \in Range(list) : n \notin serviceV /\ n # Own}

\* Mutant: a service that was known before is asked for, a new one is not.
HandlePublishedServicesKnown(list) ==
    /\ serviceV' = serviceV \cup NewServices(list)
    /\ toResolve' = toResolve \cup (Range(list) \cap serviceV)
    /\ UNCHANGED nodesM

HandlePublishedServices(list) ==
    /\ serviceV' = serviceV \cup NewServices(list)
    /\ toResolve' = toResolve \cup NewServices(list)
    /\ UNCHANGED nodesM

\* The node is kept; module Connections has the session it starts.
HandleResolvedServices(n) ==
    /\ nodesM' = nodesM \cup {n}
    /\ UNCHANGED <<serviceV, toResolve>>

HandleServiceDeregistration(list) ==
    /\ serviceV' = serviceV \ Range(list)
    /\ nodesM' = nodesM \ (Range(list) \cap serviceV)
    /\ UNCHANGED toResolve
-----------------------------------------------------------------------------
(* The io thread *)

\* The reactor finds the socket readable: every armed wait is ready.
SocketReady ==
    /\ pc["io"] = "idle"
    /\ replies # <<>> /\ waits.armed > 0
    /\ waits' = [waits EXCEPT !.ready = @ + waits.armed, !.armed = 0]
    /\ UNCHANGED <<dnsRef, assigned, active, timer, pc, process, data, ghosts>>

\* The wait fails.
SocketFails ==
    /\ pc["io"] = "idle"
    /\ waits.armed > 0
    /\ May("wait", "failed")
    /\ waits' = [waits EXCEPT !.bad = @ + waits.armed, !.armed = 0]
    /\ UNCHANGED <<dnsRef, assigned, active, timer, pc, process, data, paused,
                   readPaused, seen, batch>>

\* The handler of a wait that failed.
WaitError ==
    /\ pc["io"] = "idle"
    /\ waits.bad > 0
    /\ waits' = [waits EXCEPT !.bad = @ - 1]
    /\ active' = "no"
    /\ UNCHANGED <<dnsRef, assigned, timer, pc, process, data, ghosts>>

\* The handler of a wait that is ready: ProcessDNSServiceBrowseResult, up to its
\* call of the daemon.
ProcessDNSServiceBrowseResult ==
    /\ waits.ready > 0
    /\ waits' = [waits EXCEPT !.ready = @ - 1]
    /\ Goes("io", "idle",
            IF active = "yes" /\ dnsRef = "open" THEN "reading" ELSE "idle")
    /\ UNCHANGED <<dnsRef, assigned, active, timer, process, data, ghosts>>

N_BYTES_SERVNAME_MAX == 24

\* A name as it comes out of the list: the fixed-width record has no room for a
\* long one, and ReturnListFromBrowseResults takes the blanks away.
Shown(n) == IF Length[n] < N_BYTES_SERVNAME_MAX THEN Squeezed[n] ELSE Blank

\* Mutant: the flag of an added service is not set.
BrowseReplyNoFlag(l, r) ==
    IF r.type = "ERROR" THEN l
    ELSE LET e == CHOOSE a \in Addresses \ l.heap : TRUE
         IN  LinkedList_str_AddElement(
                 LinkedListElement_str_Constructor(l, e, Shown(r.name), Null), e)

\* One reply: the flag is set, and the name appended.
C_ServiceBrowseReply(l, r) ==
    IF r.type = "ERROR" THEN l
    ELSE LET e == CHOOSE a \in Addresses \ l.heap : TRUE
             flagged == [l EXCEPT !.didRegister = IF r.type = "ADD" THEN 1 ELSE 0]
         IN  LinkedList_str_AddElement(
                 LinkedListElement_str_Constructor(flagged, e, Shown(r.name), Null), e)

\* The callback for the next reply, and what the ghosts say of it.
Callback ==
    /\ replies # <<>>
    /\ LET r == Head(replies) IN
       /\ replies' = Tail(replies)
       /\ ll' = C_ServiceBrowseReply(ll, r)
       /\ batch' = IF r.type = "ERROR" THEN batch ELSE Append(batch, r)
       /\ seen' = CASE r.type = "ADD"    -> seen \cup {r.name}
                    [] r.type = "REMOVE" -> seen \ {r.name}
                    [] OTHER             -> seen
       /\ Upset(IF \E i \in DOMAIN batch : {batch[i].type, r.type} = {"ADD", "REMOVE"}
                    THEN {"mixed"} ELSE {})
    /\ UNCHANGED <<dnsRef, assigned, active, waits, timer, process, network,
                   resolving, app, happened, paused>>

\* Mutant: the socket is read again before there is anything to read.
ReadOn ==
    /\ Callback
    /\ pc["io"] = "reading"
    /\ readPaused' = IF paused = "yes" THEN readPaused + 1 ELSE readPaused
    /\ UNCHANGED pc

\* DNSServiceProcessResult blocks until there is something to read.
Read ==
    /\ Goes("io", "reading", "calling")
    /\ Callback
    /\ readPaused' = IF paused = "yes" THEN readPaused + 1 ELSE readPaused

\* It calls back for whatever else there is to read ...
ReadMore ==
    /\ pc["io"] = "calling"
    /\ Callback
    /\ UNCHANGED <<pc, readPaused>>

\* ... and returns.
ReadReturns ==
    /\ Goes("io", "calling", "report")
    /\ UNCHANGED <<dnsRef, assigned, active, waits, timer, process, data, ghosts>>

\* It fails, after some of the callbacks or before: the list is left as it is and
\* nothing waits any more.
ReadFails ==
    /\ May("read", "failed")
    /\ Goes("io", "reading", "idle") \/ Goes("io", "calling", "idle")
    /\ active' = "no"
    /\ UNCHANGED <<dnsRef, assigned, waits, timer, process, data, paused, readPaused,
                   seen, batch>>

\* Mutant: the descriptor is not awaited again after a report.
ReportOnce ==
    /\ Goes("io", "report", "idle")
    /\ IF ll.didRegister = 1 THEN HandlePublishedServices(Data(ll))
                             ELSE HandleServiceDeregistration(Data(ll))
    /\ ll' = LinkedList_str_ClearList(ll)
    /\ batch' = <<>>
    /\ UNCHANGED <<dnsRef, assigned, active, waits, timer, process, replies, network,
                   resolving, happened, paused, readPaused, seen, upsets>>

\* The report of the whole list under one flag; the list is cleared.
Report ==
    /\ Goes("io", "report", "check")
    /\ IF ll.didRegister = 1 THEN HandlePublishedServices(Data(ll))
                             ELSE HandleServiceDeregistration(Data(ll))
    /\ ll' = LinkedList_str_ClearList(ll)
    /\ batch' = <<>>
    /\ UNCHANGED <<dnsRef, assigned, active, waits, timer, process, replies,
                   network, resolving, happened, paused, readPaused, seen, upsets>>

\* An hour has passed.
TimerExpires ==
    /\ pc["io"] = "idle"
    /\ timer.armed > 0
    /\ timer' = [armed |-> 0, due |-> timer.due + 1]
    /\ UNCHANGED <<dnsRef, assigned, active, waits, pc, process, data, ghosts>>

\* The handler of the timer resumes; it ends the pause it was started for.
TimerResumes ==
    /\ timer.due > 0
    /\ OnResume("io")
    /\ timer' = [armed |-> 0, due |-> timer.due - 1]
    /\ paused' = IF "stale" \in upsets THEN paused ELSE "no"
    /\ UNCHANGED data

\* What the callback of a resolve does: the address goes to the app, unless the
\* answer is an error.
C_ResolveReply(n) ==
    \/ HandleResolvedServices(n) /\ UNCHANGED upsets
    \/ May("resolve", "failed") /\ UNCHANGED app

\* The handler of a resolve: only a name that is on the network has an answer.  If
\* the answer cannot be read, the browsing ends.
Resolved(n) ==
    /\ pc["io"] = "idle"
    /\ n \in resolving /\ n \in network
    /\ resolving' = resolving \ {n}
    /\ \/ C_ResolveReply(n) /\ UNCHANGED active
       \/ May("resolve", "failed") /\ active' = "no" /\ UNCHANGED app
    /\ UNCHANGED <<dnsRef, assigned, waits, timer, pc, process, replies, network,
                   ll, happened, paused, readPaused, seen, batch>>

\* The key q: TERMINATE_ALL is sent and the io_context stopped.
Quit ==
    /\ Goes("io", "idle", "ended")
    /\ UNCHANGED <<dnsRef, assigned, active, waits, timer, process, data, ghosts>>
-----------------------------------------------------------------------------
(* The daemon *)

Reply(r) ==
    /\ happened.replies < MaxReplies
    /\ replies' = Append(replies, r)
    /\ happened' = [happened EXCEPT !.replies = @ + 1]
    /\ UNCHANGED <<control, ll, resolving, app, paused, readPaused, seen, batch>>

Announce(n) ==
    /\ n \notin network
    /\ network' = network \cup {n}
    /\ Reply([type |-> "ADD", name |-> n])
    /\ UNCHANGED upsets

Withdraw(n) ==
    /\ n \in network
    /\ network' = network \ {n}
    /\ Reply([type |-> "REMOVE", name |-> n])
    /\ UNCHANGED upsets

ReplyError ==
    /\ May("reply", "error")
    /\ Reply([type |-> "ERROR", name |-> Blank])
    /\ UNCHANGED network

-----------------------------------------------------------------------------
Worker  == Browse \/ AwaitCheck("worker") \/ AwaitArm("worker")
Keys    == OnPause \/ OnResumeRequest
Mailbox == \/ OnPauseCancel \/ OnShutdown
           \/ \E n \in Names \cup {Blank} : OnResolveRequest(n)
           \/ AwaitCheck("mailbox") \/ AwaitArm("mailbox")
Io      == \/ SocketReady \/ WaitError \/ ProcessDNSServiceBrowseResult
           \/ Read \/ ReadMore \/ ReadReturns \/ Report
           \/ TimerExpires \/ TimerResumes \/ AwaitCheck("io") \/ AwaitArm("io")
           \/ \E n \in Names \cup {Blank} : Resolved(n)

Next ==
    /\ process = "running"
    /\ \/ Worker \/ Mailbox \/ Io
       \/ Keys \/ SocketFails \/ ReadFails
       \/ Quit
       \/ \E n \in Names : Announce(n) \/ Withdraw(n)
       \/ ReplyError

Spec == Init /\ [][Next]_vars

\* The threads do not all stop while one of them can go on.  What comes from outside
\* is bounded, so in the end every thread gets its turn; for io this includes that
\* it sees a readable socket and that the hour of a pause passes.  No key, fault or
\* announcement is forced.
FairSpec ==
    /\ Spec
    /\ WF_vars(process = "running" /\ (Worker \/ Mailbox \/ Io))
-----------------------------------------------------------------------------
(* Properties *)

Replies == [type : {"ADD", "REMOVE"}, name : Names] \cup [type : {"ERROR"}, name : {Blank}]

\* Flags, handlers, steps and replies are in range; what is in the browse list and
\* comes out of it is the matter of ListExact and ViewExact.
TypeOK ==
    /\ dnsRef \in {"open", "null"}
    /\ assigned \in {"yes", "no"}
    /\ active \in {"yes", "no"}
    /\ waits \in [armed : Nat, ready : Nat, bad : Nat]
    /\ timer \in [armed : {0, 1}, due : Nat]
    /\ pc \in [Threads -> {"start", "idle", "cancel", "check", "arm", "reading",
                            "calling", "report", "ended", "done"}]
    /\ pc["worker"] \in {"start", "check", "arm", "done"}
    /\ pc["mailbox"] \in {"idle", "cancel", "check", "arm", "ended"}
    /\ pc["io"] \in {"idle", "check", "arm", "reading", "calling", "report", "ended"}
    /\ process \in {"running", "aborted"}
    /\ replies \in Seq(Replies)
    /\ network \in SUBSET Names
    /\ happened \in [replies : Nat, keys : Nat]
    /\ paused \in {"yes", "no"}
    /\ readPaused \in Nat
    /\ seen \in SUBSET Names
    /\ upsets \in SUBSET {"doubled", "early", "stale", "failed", "error", "mixed"}

Calm(why) == upsets \cap why = {}

Blocked == pc["io"] = "reading" /\ replies = <<>>

\* "This shouldn't block", says ProcessDNSServiceBrowseResult of its read: it never
\* does, and the keys and the sessions that share its thread go on, unless a resume
\* came while an earlier wait was still there.  Then there are two handlers for one
\* readable socket.
NeverBlocks == Calm({"doubled", "early"}) => ~Blocked

\* Once OnPause has cleared isBrowsingActive, at most the one handler that had seen
\* it set still reads from the daemon before the discovery is resumed, unless the
\* timer of an earlier pause was about to end this one.
AtMostOneReadPaused == Calm({"stale", "early"}) => readPaused <= 1

\* The browse list holds exactly the names of the replies that were read and not
\* reported, in order; what was reported is freed, nothing else is.
ListExact ==
    /\ Data(ll) = [i \in DOMAIN batch |-> Shown(batch[i].name)]
    /\ ll.heap = Range(Chain(ll))

\* When everything read has been reported, the app knows exactly the services
\* there are by the replies read, under the names the list has for them and
\* without this machine's, unless a report had names added and names removed under
\* its one flag.
ViewExact ==
    (/\ \A m, n \in Names : Shown(m) = Shown(n) => m = n
     /\ Calm({"mixed"}) /\ batch = <<>>) =>
        serviceV = {Shown(n) : n \in seen} \ {Own}

\* From Browse on, as long as it is not paused, the discovery is active and a wait
\* is armed, ready, being handled or about to be armed: no order of pause, resume,
\* timer and handlers leaves it deaf.
Watching ==
    (/\ paused = "no" /\ Calm({"failed", "early", "stale"})
     /\ pc["worker"] # "start" /\ pc["mailbox"] # "ended") =>
        active = "yes" /\ Outstanding

Over == pc["io"] = "ended" \/ process = "aborted"

\* A pause ends by itself: the timer resumes the discovery, unless the io thread
\* never gets to the timer because it is blocked in a read.
PauseEnds ==
    paused = "yes" ~> (paused = "no" \/ Over \/ "stale" \in upsets \/ Blocked)

\* A service the app lists gets its address, paused or not, if its name comes out of
\* the browse list as it went in: a name with blanks or of 24 bytes and more is
\* asked for under another one, which has no answer.
ListedIsResolved ==
    \A n \in {m \in Names \ {Own} : Shown(m) = m} :
        n \in serviceV ~>
            (n \in nodesM \/ n \notin network \/ Over \/ Blocked \/ ~Calm({"failed"}))
=============================================================================
