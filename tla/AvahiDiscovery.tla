--------------------------- MODULE AvahiDiscovery ---------------------------
(***************************************************************************)
(* Discovery on Linux: BVDiscovery_Avahi, the callbacks of avahi_api.c,    *)
(* and the part of main and of the console client that pauses, resumes and *)
(* ends it.                                                                *)
(*                                                                         *)
(* Three threads: main, which runs the keys and then joins; the mailbox    *)
(* thread, which calls the handlers On...; and the worker, which runs      *)
(* Browse.  isPaused and isBrowsingActive are atomics.  Only the worker    *)
(* ever takes pauseMutex, so the mutex orders nothing and is left out; the *)
(* condition variable is the step from "blocking" to "asleep" and the wake *)
(* from it.  The broker between the keys and the mailbox is the FIFO that  *)
(* module Broker shows it to be.                                           *)
(***************************************************************************)
EXTENDS Naturals, Sequences

CONSTANTS Services,    \* the names that are announced on the network
          Length,      \* the length of each name
          Squeezed,    \* each name without its blanks
          Blank,       \* the empty name
          RunOn,       \* each name, cut after N_BYTES_SERVNAME_MAX bytes, with
                       \* the regtype that stands behind it in the result
          Own,         \* those whose name is a prefix of this host's name
          Failures,    \* what may fail: "poll", "browser"
          MaxKeys,     \* bound: keys pressed
          MaxEvents    \* bound: browse results and resolver answers of the daemon

ASSUME AvahiAssumption ==
    /\ Own \subseteq Services
    /\ Length \in [Services -> Nat]
    /\ DOMAIN Squeezed = Services
    /\ DOMAIN RunOn = Services
    /\ \A s \in Services : RunOn[s] \notin Services
    /\ Failures \subseteq {"poll", "browser"}
    /\ MaxKeys \in Nat
    /\ MaxEvents \in Nat

VARIABLES mail,        \* the messages on their way to the mailbox thread
          isPaused,    \* "yes" or "no"
          active,      \* isBrowsingActive, "yes" or "no"
          listener,    \* the mailbox thread: "listen", "notify" or "done"
          worker,      \* the next step of Browse
          main,        \* "running", then "joinMailbox", "joinWorker", "joined"
          events,      \* the browse results the daemon has ready
          resolvers,   \* the services a resolver was made for
          poll,        \* the AvahiSimplePoll: "ok", or "quit" after a failure
          toApp,       \* the messages sent to the app
          keys,        \* how many keys were pressed
          happened,    \* how many results and answers there were
          readPaused   \* ghost: poll iterations that ran since the last OnPause
                       \* while isPaused was set

control == <<mail, isPaused, active, listener>>
browse  == <<events, resolvers, poll, toApp, happened, readPaused>>
vars    == <<control, worker, main, browse, keys>>

Init ==
    /\ mail = <<>>
    /\ isPaused = "no"
    /\ active = "no"
    /\ listener = "listen"
    /\ worker = "start"
    /\ main = "running"
    /\ events = <<>>
    /\ resolvers = {}
    /\ poll = "ok"
    /\ toApp = <<>>
    /\ keys = 0
    /\ happened = 0
    /\ readPaused = 0
-----------------------------------------------------------------------------
(* main: the keys of the main menu, and the joins after them *)

\* The keys p and r.
Key(request) ==
    /\ main = "running"
    /\ keys < MaxKeys
    /\ keys' = keys + 1
    /\ mail' = Append(mail, request)
    /\ UNCHANGED <<isPaused, active, listener, worker, main, browse>>

\* The key q: TERMINATE_ALL is sent and the io_context stopped, so Run returns.
Quit ==
    /\ main = "running"
    /\ mail' = Append(mail, "TERMINATE_ALL")
    /\ main' = "joinMailbox"
    /\ UNCHANGED <<isPaused, active, listener, worker, browse, keys>>

JoinMailBoxThread ==
    /\ main = "joinMailbox"
    /\ listener = "done"
    /\ main' = "joinWorker"
    /\ UNCHANGED <<control, worker, browse, keys>>

\* TryJoinWorkerThread; the joins after it are those of module Broker.
JoinWorkerThread ==
    /\ main = "joinWorker"
    /\ worker = "done"
    /\ main' = "joined"
    /\ UNCHANGED <<control, worker, browse, keys>>
-----------------------------------------------------------------------------
(* The mailbox thread *)

Receive(request) ==
    /\ listener = "listen"
    /\ mail # <<>>
    /\ Head(mail) = request
    /\ mail' = Tail(mail)

\* It also wakes a poll that blocks, which returns after its timeout anyway.
OnPause ==
    /\ Receive("PAUSE")
    /\ isPaused' = "yes"
    /\ readPaused' = 0
    /\ UNCHANGED <<active, listener, worker, main, events, resolvers, poll, toApp,
                   keys, happened>>

\* The flag is cleared without the mutex the waiter holds ...
OnResume ==
    /\ Receive("RESUME")
    /\ isPaused' = "no"
    /\ listener' = "notify"
    /\ UNCHANGED <<active, worker, main, browse, keys>>

\* ... and then the condition variable is notified.
OnResumeNotify ==
    /\ listener = "notify"
    /\ listener' = "listen"
    /\ worker' = IF worker = "asleep" THEN "check" ELSE worker
    /\ UNCHANGED <<mail, isPaused, active, main, browse, keys>>

\* Mutant: OnShutdown leaves the flag set.
OnShutdownForgotten ==
    /\ Receive("TERMINATE_ALL")
    /\ listener' = "done"
    /\ UNCHANGED <<isPaused, active, worker, main, browse, keys>>

\* OnShutdown, after which ListenToMail ends.
OnShutdown ==
    /\ Receive("TERMINATE_ALL")
    /\ active' = "no"
    /\ listener' = "done"
    /\ UNCHANGED <<isPaused, worker, main, browse, keys>>
-----------------------------------------------------------------------------
(* The worker: Browse, Pause and the callbacks of the poll *)

Step(from, to) ==
    /\ worker = from
    /\ worker' = to

StartBrowse ==
    /\ Step("start", "loop")
    /\ active' = "yes"
    /\ UNCHANGED <<mail, isPaused, listener, main, browse, keys>>

TestActive ==
    /\ Step("loop", IF active = "yes" THEN "test" ELSE "done")
    /\ UNCHANGED <<control, main, browse, keys>>

\* Mutant: Browse does not look at isPaused.
TestPausedForgotten ==
    /\ Step("test", "poll")
    /\ UNCHANGED <<control, main, browse, keys>>

TestPaused ==
    /\ Step("test", IF isPaused = "yes" THEN "check" ELSE "poll")
    /\ UNCHANGED <<control, main, browse, keys>>

\* Pause: the predicate of the wait.
CheckPredicate ==
    /\ Step("check", IF isPaused = "yes" THEN "blocking" ELSE "loop")
    /\ UNCHANGED <<control, main, browse, keys>>

Block ==
    /\ Step("blocking", "asleep")
    /\ UNCHANGED <<control, main, browse, keys>>

WakeSpuriously ==
    /\ Step("asleep", "check")
    /\ UNCHANGED <<control, main, browse, keys>>

CountRead ==
    readPaused' = IF isPaused = "yes" THEN readPaused + 1 ELSE readPaused

\* SendMessage with the event type and the name the message carries.
Send(type, n) == toApp' = Append(toApp, [type |-> type, service |-> n])

N_BYTES_SERVNAME_MAX == 24

\* The name ReturnListFromBrowseResults gives: browse_callback copies one that
\* fits into a field of blanks, and the blanks are erased from what is there.
Shown(s) == IF Length[s] < N_BYTES_SERVNAME_MAX THEN Squeezed[s] ELSE Blank

\* The name in a DNSResolutionResult: resolve_callback copies the bytes of the
\* field whatever the length, so a name that fills it has no end of its own.
Addressed(s) == IF Length[s] < N_BYTES_SERVNAME_MAX THEN s ELSE RunOn[s]

\* Mutant: the service is resolved and not reported.
BrowserNewUnreported(s) ==
    /\ UNCHANGED toApp
    /\ resolvers' = IF s \in Own THEN resolvers ELSE resolvers \cup {s}

\* AVAHI_BROWSER_NEW: the service is reported, and a resolver is made for it
\* unless the comparison with this host's name over strlen(name) says it is us.
BrowserNew(s) ==
    /\ Send("PUBLISHED", Shown(s))
    /\ resolvers' = IF s \in Own THEN resolvers ELSE resolvers \cup {s}

\* AVAHI_BROWSER_REMOVE: reported; a resolver that is still waiting stays.
BrowserRemove(s) ==
    /\ Send("DEREGISTERED", Shown(s))
    /\ UNCHANGED resolvers

\* avahi_simple_poll_iterate with nothing to read until its timeout, or at once
\* after avahi_simple_poll_quit.
PollNothing ==
    /\ Step("poll", "loop")
    /\ events = <<>> \/ poll = "quit"
    /\ CountRead
    /\ UNCHANGED <<control, main, events, resolvers, poll, toApp, keys, happened>>

\* Mutant: Browse ends after it has read one result.
PollBrowseOnce ==
    /\ Step("poll", "done")
    /\ poll = "ok"
    /\ events # <<>>
    /\ CountRead
    /\ \/ Head(events).type = "NEW" /\ BrowserNew(Head(events).service)
       \/ Head(events).type = "REMOVE" /\ BrowserRemove(Head(events).service)
    /\ events' = Tail(events)
    /\ UNCHANGED <<control, main, poll, keys, happened>>

\* ... with a browse result, for browse_callback.
PollBrowse ==
    /\ Step("poll", "loop")
    /\ poll = "ok"
    /\ events # <<>>
    /\ CountRead
    /\ \/ Head(events).type = "NEW" /\ BrowserNew(Head(events).service)
       \/ Head(events).type = "REMOVE" /\ BrowserRemove(Head(events).service)
    /\ events' = Tail(events)
    /\ UNCHANGED <<control, main, poll, keys, happened>>

\* ... with an answer to a resolver, for resolve_callback: the result is sent,
\* or a failure only printed.  A resolver is never freed and may answer again.
PollResolve(s) ==
    /\ Step("poll", "loop")
    /\ poll = "ok"
    /\ s \in resolvers
    /\ happened < MaxEvents
    /\ happened' = happened + 1
    /\ CountRead
    /\ \/ Send("SERVICE_RESOLVED", Addressed(s))
       \/ UNCHANGED toApp
    /\ UNCHANGED <<control, main, events, resolvers, poll, keys>>

\* AVAHI_BROWSER_FAILURE: the poll is told to quit; the loop goes on around it.
PollBrowserFailure ==
    /\ "browser" \in Failures
    /\ Step("poll", "loop")
    /\ poll = "ok"
    /\ CountRead
    /\ poll' = "quit"
    /\ UNCHANGED <<control, main, events, resolvers, toApp, keys, happened>>

\* avahi_simple_poll_iterate returns -1: the exception leaves the thread.
PollError ==
    /\ "poll" \in Failures
    /\ Step("poll", "aborted")
    /\ CountRead
    /\ UNCHANGED <<control, main, events, resolvers, poll, toApp, keys, happened>>

\* The daemon: a service appears or goes.
Happen(type, s) ==
    /\ happened < MaxEvents
    /\ happened' = happened + 1
    /\ events' = Append(events, [type |-> type, service |-> s])
    /\ UNCHANGED <<control, worker, main, resolvers, poll, toApp, keys, readPaused>>
-----------------------------------------------------------------------------
Main     == Quit \/ JoinMailBoxThread \/ JoinWorkerThread
Listener == OnPause \/ OnResume \/ OnResumeNotify \/ OnShutdown
Polls    == \/ PollNothing \/ PollBrowse \/ PollBrowserFailure \/ PollError
            \/ \E s \in Services : PollResolve(s)
Worker   == StartBrowse \/ TestActive \/ TestPaused \/ CheckPredicate \/ Block \/ Polls

Next ==
    \/ worker # "aborted"
       /\ \/ \E request \in {"PAUSE", "RESUME"} : Key(request)
          \/ Main
          \/ Listener
          \/ Worker
          \/ WakeSpuriously
          \/ \E s \in Services, type \in {"NEW", "REMOVE"} : Happen(type, s)
    \/ main = "joined" /\ UNCHANGED vars

Spec == Init /\ [][Next]_vars

\* Every thread that can run does.  The user need not press a key and a waiter
\* need not wake spuriously.
FairSpec ==
    /\ Spec
    /\ WF_vars(JoinMailBoxThread) /\ WF_vars(JoinWorkerThread)
    /\ WF_vars(worker # "aborted" /\ Listener)
    /\ WF_vars(Worker)
-----------------------------------------------------------------------------
(* Properties *)

Requests == {"PAUSE", "RESUME", "TERMINATE_ALL"}
WorkerSteps == {"start", "loop", "test", "poll", "check", "blocking", "asleep",
                "done", "aborted"}
Events   == [type : {"NEW", "REMOVE"}, service : Services]
Reports  == [type : {"PUBLISHED", "DEREGISTERED"}, service : {Shown(s) : s \in Services}]
            \cup [type : {"SERVICE_RESOLVED"}, service : {Addressed(s) : s \in Services}]

\* Every variable has the type its declaration gives it.
TypeOK ==
    /\ mail \in Seq(Requests)
    /\ isPaused \in {"yes", "no"}
    /\ active \in {"yes", "no"}
    /\ listener \in {"listen", "notify", "done"}
    /\ worker \in WorkerSteps
    /\ main \in {"running", "joinMailbox", "joinWorker", "joined"}
    /\ events \in Seq(Events)
    /\ resolvers \in SUBSET Services
    /\ poll \in {"ok", "quit"}
    /\ toApp \in Seq(Reports)
    /\ keys \in Nat
    /\ happened \in Nat
    /\ readPaused \in Nat

\* Once OnPause has set isPaused, at most the one poll that Browse had already
\* decided on still reads from the daemon, until the discovery is resumed.
\* docs/discovery_implementations.md:6 asks for none: "When the Discovery is
\* paused, nothing should be read."
AtMostOneReadPaused == readPaused <= 1

\* resolve_callback reports only services that browse_callback reported as
\* published before: the app never hears of an address first.  The two reports
\* name the service alike when its name is short and has no blank; a longer
\* one was published blank and a name with blanks without them.
ResolvedAfterPublished ==
    \A i \in 1..Len(toApp) :
        toApp[i].type = "SERVICE_RESOLVED" =>
            \E s \in Services :
                /\ toApp[i].service = Addressed(s)
                /\ \E j \in 1..i-1 :
                       toApp[j] = [type |-> "PUBLISHED", service |-> Shown(s)]

\* What the daemon reports while the discovery is paused is not lost: it is
\* read once the worker polls again, unless the discovery is paused again,
\* ends, or its browser has failed.
EventsAreRead ==
    (events # <<>> /\ worker = "poll") ~>
        (events = <<>> \/ isPaused = "yes" \/ active = "no" \/ poll = "quit"
            \/ worker = "aborted")

\* When the worker thread has started before OnShutdown, a quit ends with main
\* past its joins unless the worker is in the wait of Pause: whatever it was
\* doing, it sees the flag OnShutdown cleared.
QuitEndsOrWaits ==
    (main = "joinMailbox" /\ listener # "done" /\ worker # "start") ~>
        (main = "joined" \/ worker \in {"asleep", "aborted"})
=============================================================================
