------------------------------- MODULE Clients -------------------------------
(***************************************************************************)
(* What the user sees and does: the console's screens                      *)
(* (BVApp_ConsoleClient) and the macOS window (BVApp_GuiClient, ChatModel),*)
(* over the list of sessions and the chat logs.                            *)
(*                                                                         *)
(* Three threads.  The mailbox thread handles what discovery and sessions  *)
(* report.  The io thread runs posted functions, keys and the handlers of  *)
(* sockets, one at a time.  The GUI has a main thread with a queue of its  *)
(* own; the console has no third thread, and draws from both.              *)
(*                                                                         *)
(* A handler of the mailbox thread is one step up to the end of its        *)
(* critical section, and one more for every thing it does after it.        *)
(* The file itself is FileTransfer's, and so are the GUI's alerts.         *)
(***************************************************************************)
EXTENDS Naturals, Sequences, Functions

CONSTANTS Peers,       \* the service names of the others
          Lengths,     \* how long a text may be
          Payload,     \* what fits into a frame, 128
          Ten,         \* TEN_LAST_MESSAGES, what a chat screen shows
          Budgets,     \* bounds: for which client, how much of each Kind happens
          None         \* no peer, no message, nothing typed

(* The entries of a log: BVChatMessages, by the peer or by this machine. *)
Entries == [by : {"peer", "me"}, kind : {"text", "file"}, n : Nat, len : Nat]

ASSUME ClientsAssumption ==
    /\ None \notin Peers
    /\ None \notin [peer : Peers, entry : Entries]
    /\ Lengths \subseteq Nat
    /\ Payload \in Nat
    /\ Ten \in Nat \ {0}
    /\ Budgets \subseteq [client : {"console", "gui"}, reports : Nat, sessions : Nat,
                           messages : Nat, texts : Nat, offers : Nat]

VARIABLES client,             \* "console" or "gui"
          status,             \* "running", "quit" or "aborted"
          budget, used,       \* the bounds, and how much of each is used up
          met,                \* ghost: the peers a session was ever listed for
          arrived,            \* ghost: the messages and files that came from a peer
          (* the app *)
          inMailBox,          \* what discovery and sessions report
          todo,               \* what is left of the mailbox thread's handler
          serviceV,           \* the services known
          sessions_m,         \* their names in the order of the session ids
          chatLogsM,          \* the log of every chat
          posted,             \* the functions the io thread has to run
          io,                 \* the text or file SendChatLine has found a session for
          sent,               \* ghost: what every peer's session was given to write
          (* the console *)
          uiState, priorUiState, pendingOffer, activeChatService, inputLine,
          lastNotification,
          screen,             \* what was drawn last
          shown,              \* ghost: the messages that were ever drawn
          (* the GUI *)
          mainQueue,          \* what was dispatched to the main thread
          peers, selectedPeer, messages,
          missed              \* ghost: the messages whose redraw could not show them

fixed   == <<client, budget>>
past    == <<met, arrived>>
lists   == <<serviceV, sessions_m>>
logs    == <<chatLogsM, sent>>
keys    == <<uiState, priorUiState, pendingOffer, activeChatService, inputLine>>
console == <<keys, lastNotification, screen, shown>>
view    == <<peers, selectedPeer, messages>>
gui     == <<mainQueue, view>>
vars    == <<fixed, status, used, past, inMailBox, todo, lists, logs, posted, io,
             console, gui, missed>>
-----------------------------------------------------------------------------
(* Small things *)

Kinds == {"reports", "sessions", "messages", "texts", "offers"}

Use(what) ==
    /\ used[what] < budget[what]
    /\ used' = [used EXCEPT ![what] = @ + 1]

Runs == status = "running"

Last(s)           == s[Len(s)]
InsertAt(s, i, x) == SubSeq(s, 1, i - 1) \o <<x>> \o SubSeq(s, i, Len(s))
RemoveAt(s, i)    == SubSeq(s, 1, i - 1) \o SubSeq(s, i + 1, Len(s))

Entry(by, kind, n, len) == [by |-> by, kind |-> kind, n |-> n, len |-> len]

(* PrintNLastMessages *)
LastMessages(log) == SubSeq(log, Len(log) - (IF Len(log) < Ten THEN Len(log) ELSE Ten) + 1,
                            Len(log))

(* What the other threads are told. *)
Event(event, peer) == [event |-> event, peer |-> peer]

Notice(q, m) == [peer |-> q, message |-> m]
-----------------------------------------------------------------------------
(***************************************************************************)
(* Drawing.  A drawing of the io thread that meets the mailbox thread in   *)
(* its PrintAll is mixed with it.                                          *)
(***************************************************************************)
Printing == todo # <<>> /\ Head(todo).event = "printing"

PrintAll(note) ==
    [kind |-> "MainMenu", chat |-> None, sessions |-> sessions_m, banner |-> note,
     log |-> <<>>, input |-> None, stale |-> "no",
     by |-> IF Printing THEN "mailbox" ELSE "io"]

RenderChat(q, line, note, log) ==
    [PrintAll(note) EXCEPT !.kind = "Chat", !.chat = q, !.input = line,
                           !.log = LastMessages(log)]

RenderFileOffer ==
    [PrintAll(None) EXCEPT !.kind = "FileOffer", !.sessions = <<>>]

Visible(s) ==
    ({s.banner} \ {None}) \cup
    {Notice(s.chat, m) : m \in {e \in Range(s.log) : e.by = "peer"}}

Draw(s) ==
    /\ screen' = s
    /\ shown' = shown \cup Visible(s)

(* The screen of the state the keys are in. *)
Render(state, note) ==
    CASE state = "FileOffer" ->
           IF pendingOffer' = None THEN UNCHANGED <<screen, shown>> ELSE Draw(RenderFileOffer)
      [] state = "Chat" ->
           Draw(RenderChat(activeChatService', inputLine', note,
                           chatLogsM[activeChatService']))
      [] OTHER -> Draw(PrintAll(note))
-----------------------------------------------------------------------------
Init ==
    /\ budget \in Budgets
    /\ client = budget.client
    /\ status = "running"
    /\ used = [k \in Kinds |-> 0]
    /\ met = {}
    /\ arrived = [q \in Peers |-> {}]
    /\ inMailBox = <<>>
    /\ todo = <<>>
    /\ serviceV = {}
    /\ sessions_m = <<>>
    /\ chatLogsM = [q \in Peers |-> <<>>]
    /\ posted = <<>>
    /\ io = None
    /\ sent = [q \in Peers |-> <<>>]
    /\ uiState = "MainMenu"
    /\ priorUiState = "MainMenu"
    /\ pendingOffer = None
    /\ activeChatService = None
    /\ inputLine = None
    /\ lastNotification = None
    /\ screen = PrintAll(None)
    /\ shown = {}
    /\ mainQueue = <<>>
    /\ peers = <<>>
    /\ selectedPeer = None
    /\ messages = <<>>
    /\ missed = {}
-----------------------------------------------------------------------------
(* What the rest of the process brings *)

(* The entry a message or a received file is logged as. *)
Coming(event, n) == Entry("peer", IF event = "END" THEN "file" ELSE "text", n, 0)

Mail(event, q, n) == inMailBox' = Append(inMailBox, [event |-> event, peer |-> q, n |-> n])

(* What the discovery has said of q last. *)
Published(q) ==
    LET said == SelectSeq(inMailBox, LAMBDA m :
                  m.peer = q /\ m.event \in {"PUBLISHED", "DEREGISTERED"})
    IN IF said = <<>> THEN q \in serviceV ELSE Last(said).event = "PUBLISHED"

Report(event, q) ==
    /\ Use("reports")
    /\ Published(q) = (event # "PUBLISHED")
    /\ Mail(event, q, 0)
    /\ UNCHANGED <<fixed, status, past, todo, lists, logs, posted, io, console, gui,
                   missed>>

(* ConnectHandler and HandleSessionIdentification, on the io thread: ids    *)
(* are taken when the dialling or the accepting starts, so the session may *)
(* come before others in the list.  Nothing is drawn and nobody is told.   *)
ListSession(q, i) ==
    /\ io = None
    /\ q \notin Range(sessions_m)
    /\ Use("sessions")
    /\ sessions_m' = InsertAt(sessions_m, i, q)
    /\ met' = met \cup {q}
    /\ screen' = IF i <= Len(sessions_m) THEN [screen EXCEPT !.stale = "yes"] ELSE screen
    /\ UNCHANGED <<fixed, status, arrived, inMailBox, todo, serviceV, logs, posted, io,
                   keys, lastNotification, shown, gui, missed>>

(* A session goes on reading after it was removed. *)
Arrive(event, q) ==
    /\ q \in met
    /\ \/ event = "MESSAGE" /\ Use("messages")
       \/ event = "END" /\ client = "gui" /\ Use("messages")
       \/ event = "OFFER" /\ client = "console" /\ Use("offers")
    /\ Mail(event, q, used'.messages)
    /\ arrived' = IF event = "OFFER" THEN arrived
                  ELSE [arrived EXCEPT ![q] = @ \cup {Coming(event, used'.messages)}]
    /\ UNCHANGED <<fixed, status, met, todo, lists, logs, posted, io, console, gui,
                   missed>>
-----------------------------------------------------------------------------
(* The mailbox thread *)

Handles(event) ==
    /\ todo = <<>>
    /\ inMailBox # <<>>
    /\ Head(inMailBox).event = event
    /\ inMailBox' = Tail(inMailBox)

(* The GUI's standard output is silenced, and the console has no observer. *)
Prints       == IF client = "console" THEN <<Event("print", None)>> ELSE <<>>
Tells(event) == IF client = "gui" THEN <<Event(event, None)>> ELSE <<>>

HandlePublishedServices ==
    /\ Handles("PUBLISHED")
    /\ serviceV' = serviceV \cup {Head(inMailBox).peer}
    /\ todo' = Prints \o Tells("PEERS")
    /\ UNCHANGED <<fixed, status, used, past, sessions_m, logs, posted, io, console,
                   gui, missed>>

HandleResolvedServices ==
    /\ Handles("RESOLVED")
    /\ todo' = Tells("PEERS")
    /\ UNCHANGED <<fixed, status, used, past, lists, logs, posted, io, console, gui,
                   missed>>

(* The session under the id that is kept for q. *)
RemoveSession(q) ==
    sessions_m' = IF q \in Range(sessions_m)
                  THEN RemoveAt(sessions_m, CHOOSE i \in DOMAIN sessions_m : sessions_m[i] = q)
                  ELSE sessions_m

(* Mutant: the screen is not drawn again. *)
HandleServiceDeregistrationQuiet ==
    /\ Handles("DEREGISTERED")
    /\ serviceV' = serviceV \ {Head(inMailBox).peer}
    /\ RemoveSession(Head(inMailBox).peer)
    /\ todo' = Tells("PEERS")
    /\ UNCHANGED <<fixed, status, used, past, logs, posted, io, console, gui, missed>>

HandleServiceDeregistration ==
    /\ Handles("DEREGISTERED")
    /\ LET q == Head(inMailBox).peer IN
       IF q \in serviceV
       THEN /\ serviceV' = serviceV \ {q}
            /\ RemoveSession(q)
       ELSE UNCHANGED lists
    /\ todo' = Prints \o Tells("PEERS")
    /\ UNCHANGED <<fixed, status, used, past, logs, posted, io, console, gui, missed>>

AddMessage(q, e) == chatLogsM' = [chatLogsM EXCEPT ![q] = Append(@, e)]

(* Mutant: the GUI is not told. *)
HandleMessageIncomingSilent ==
    /\ Handles("MESSAGE")
    /\ LET m == Head(inMailBox) IN
       /\ AddMessage(m.peer, Entry("peer", "text", m.n, 0))
       /\ todo' = IF client = "console" THEN <<m>> ELSE <<>>
    /\ UNCHANGED <<fixed, status, used, past, lists, sent, posted, io, console, gui,
                   missed>>

(* Mutant: no redraw is posted. *)
HandleMessageIncomingUnposted ==
    /\ Handles("MESSAGE")
    /\ LET m == Head(inMailBox) IN AddMessage(m.peer, Entry("peer", "text", m.n, 0))
    /\ todo' = Tells("MESSAGES")
    /\ UNCHANGED <<fixed, status, used, past, lists, sent, posted, io, console, gui,
                   missed>>

(* Mutant: a message of a peer without a session is dropped. *)
HandleMessageIncomingListed ==
    /\ Handles("MESSAGE")
    /\ LET m == Head(inMailBox) IN
       IF m.peer \in Range(sessions_m)
       THEN /\ AddMessage(m.peer, Entry("peer", "text", m.n, 0))
            /\ todo' = IF client = "console" THEN <<m>> ELSE <<Event("MESSAGES", None)>>
       ELSE UNCHANGED <<chatLogsM, todo>>
    /\ UNCHANGED <<fixed, status, used, past, lists, sent, posted, io, console, gui,
                   missed>>

HandleMessageIncoming ==
    /\ Handles("MESSAGE")
    /\ LET m == Head(inMailBox) IN
       /\ AddMessage(m.peer, Entry("peer", "text", m.n, 0))
       /\ todo' = IF client = "console" THEN <<m>> ELSE <<Event("MESSAGES", None)>>
    /\ UNCHANGED <<fixed, status, used, past, lists, sent, posted, io, console, gui,
                   missed>>

HandleFileOffer ==
    /\ Handles("OFFER")
    /\ posted' = Append(posted, Head(inMailBox))
    /\ UNCHANGED <<fixed, status, used, past, todo, lists, logs, io, console, gui,
                   missed>>

(* The GUI's entry about a file that was received. *)
HandleFileTransferEnd ==
    /\ client = "gui"
    /\ Handles("END")
    /\ LET m == Head(inMailBox) IN AddMessage(m.peer, Entry("peer", "file", m.n, 0))
    /\ todo' = <<Event("MESSAGES", None)>>
    /\ UNCHANGED <<fixed, status, used, past, lists, sent, posted, io, console, gui,
                   missed>>

(* The next thing the handler does. *)
Then(event) == todo # <<>> /\ Head(todo).event = event /\ todo' = Tail(todo)

(* "this is called from different thread" *)
PrintFromMailbox ==
    \/ /\ todo # <<>>
       /\ Head(todo).event = "print"
       /\ todo' = <<Event("printing", None)>> \o Tail(todo)
       /\ Draw([PrintAll(lastNotification) EXCEPT !.by = "mailbox"])
       /\ UNCHANGED <<fixed, status, used, past, inMailBox, lists, logs, posted, io,
                      keys, lastNotification, gui, missed>>
    \/ /\ Then("printing")
       /\ UNCHANGED <<fixed, status, used, past, inMailBox, lists, logs, posted, io,
                      console, gui, missed>>

(* HandleMessageIncoming's boost::asio::post *)
PostMessage ==
    /\ Then("MESSAGE")
    /\ posted' = Append(posted, Head(todo))
    /\ UNCHANGED <<fixed, status, used, past, inMailBox, lists, logs, io, console,
                   gui, missed>>

(* The observer dispatches to the main thread. *)
Notify ==
    /\ Then("PEERS") \/ Then("MESSAGES")
    /\ mainQueue' = Append(mainQueue, Head(todo))
    /\ UNCHANGED <<fixed, status, used, past, inMailBox, lists, logs, posted, io,
                   console, view, missed>>
-----------------------------------------------------------------------------
(* The io thread *)

Turn == io = None

(* The head of the queue of posted functions. *)
Posted(event) ==
    /\ Turn
    /\ posted # <<>>
    /\ Head(posted).event = event
    /\ posted' = Tail(posted)

(* How many entries of q's log came after e. *)
After(q, e) ==
    Len(chatLogsM[q]) - (CHOOSE i \in DOMAIN chatLogsM[q] : chatLogsM[q][i] = e)

(* Mutant: the sender is not compared with the chat that is open. *)
ShowMessageInAnyChat ==
    /\ Posted("MESSAGE")
    /\ lastNotification' = None
    /\ UNCHANGED keys
    /\ Render(uiState, None)
    /\ UNCHANGED <<fixed, status, used, past, inMailBox, todo, lists, logs, io, gui,
                   missed>>

(* The function HandleMessageIncoming posts. *)
ShowMessage ==
    /\ Posted("MESSAGE")
    /\ LET q == Head(posted).peer
           e == Entry("peer", "text", Head(posted).n, 0)
           here == uiState = "Chat" /\ activeChatService = q
       IN /\ lastNotification' = IF here THEN None ELSE Notice(q, e)
          /\ UNCHANGED keys
          /\ Render(uiState, lastNotification')
          /\ missed' = IF \/ uiState = "FileOffer"
                          \/ here /\ After(q, e) >= Ten
                       THEN missed \cup {Notice(q, e)} ELSE missed
    /\ UNCHANGED <<fixed, status, used, past, inMailBox, todo, lists, logs, io, gui>>

(* The function HandleFileOffer posts. *)
ShowOffer ==
    /\ Posted("OFFER")
    /\ pendingOffer' = Head(posted)
    /\ priorUiState' = uiState
    /\ uiState' = "FileOffer"
    /\ Draw(RenderFileOffer)
    /\ UNCHANGED <<fixed, status, used, past, inMailBox, todo, lists, logs, io,
                   activeChatService, inputLine, lastNotification, gui, missed>>

(* The session of a peer, by which SendChatLine, SendText and SendFile     *)
(* begin and which the manager looks up again.                             *)
GetSessionIDFromServiceName(q) == q \in Range(sessions_m)

(* ConstructChatMessageFromInput: a text is cut to what a frame holds. *)
ConstructChatMessageFromInput(e) ==
    [e EXCEPT !.len = IF e.len <= Payload THEN e.len ELSE Payload]

(* What follows a text or a file that was sent, or was not: the console    *)
(* draws the chat, the GUI is told of an entry.                            *)
AfterSending(q, events) ==
    IF client = "console"
    THEN /\ Draw(RenderChat(q, inputLine, lastNotification, chatLogsM'[q]))
         /\ UNCHANGED mainQueue
    ELSE /\ mainQueue' = mainQueue \o events
         /\ UNCHANGED <<screen, shown>>

(* The session may have been removed since it was looked up: nothing is    *)
(* written and nothing is logged.                                          *)
SendDataToNode ==
    /\ io # None
    /\ io.entry.kind = "text"
    /\ IF GetSessionIDFromServiceName(io.peer)
       THEN /\ sent' = [sent EXCEPT ![io.peer] =
                          Append(@, ConstructChatMessageFromInput(io.entry))]
            /\ AddMessage(io.peer, io.entry)
            /\ AfterSending(io.peer, <<Event("MESSAGES", None)>>)
       ELSE /\ UNCHANGED logs
            /\ AfterSending(io.peer, <<>>)
    /\ io' = None
    /\ UNCHANGED <<fixed, status, used, past, inMailBox, todo, lists, posted, keys,
                   lastNotification, view, missed>>

(* sessions_m.at throws out of the io thread if the session has gone. The  *)
(* GUI enters the file into the log, the console does not.                 *)
InitiateFileTransferWithSession ==
    /\ io # None
    /\ io.entry.kind = "file"
    /\ IF GetSessionIDFromServiceName(io.peer)
       THEN /\ IF client = "gui" THEN AddMessage(io.peer, io.entry) ELSE UNCHANGED chatLogsM
            /\ AfterSending(io.peer, <<Event("MESSAGES", None), Event("PROGRESS", None)>>)
            /\ io' = None
            /\ UNCHANGED status
       ELSE /\ status' = "aborted"
            /\ UNCHANGED <<io, chatLogsM, screen, shown, mainQueue>>
    /\ UNCHANGED <<fixed, used, past, inMailBox, todo, lists, sent, posted, keys,
                   lastNotification, view, missed>>
-----------------------------------------------------------------------------
(* OnKey: the keys of the console, by the screen they are routed to *)

Key(state) ==
    /\ client = "console"
    /\ Turn
    /\ uiState = state

(* The key d *)
Redraw ==
    /\ Key("MainMenu")
    /\ UNCHANGED keys
    /\ Render(uiState, lastNotification)
    /\ UNCHANGED <<fixed, status, used, past, inMailBox, todo, lists, logs, posted,
                   io, lastNotification, gui, missed>>

(* A digit: the n-th session in display order, as it is now. *)
EnterChat(n) ==
    /\ Key("MainMenu")
    /\ n \in DOMAIN sessions_m
    /\ activeChatService' = sessions_m[n]
    /\ uiState' = "Chat"
    /\ inputLine' = None
    /\ lastNotification' = None
    /\ UNCHANGED <<priorUiState, pendingOffer>>
    /\ Render("Chat", None)
    /\ UNCHANGED <<fixed, status, used, past, inMailBox, todo, lists, logs, posted,
                   io, gui, missed>>

(* The key q: the io_context is stopped, and what was posted is never run. *)
Quit ==
    /\ Key("MainMenu")
    /\ status' = "quit"
    /\ UNCHANGED <<fixed, used, past, inMailBox, todo, lists, logs, posted, io,
                   console, gui, missed>>

(* HandleChatKey: what is typed is echoed, and a backspace takes it back.  *)
(* A line is typed and taken back as a whole.                              *)
Type(line) ==
    /\ Key("Chat")
    /\ (inputLine = None) # (line = None)
    /\ inputLine' = line
    /\ screen' = [screen EXCEPT !.input = line]
    /\ UNCHANGED <<fixed, status, used, past, inMailBox, todo, lists, logs, posted,
                   io, uiState, priorUiState, pendingOffer, activeChatService,
                   lastNotification, shown, gui, missed>>

Line(kind) == inputLine # None /\ inputLine.kind = kind

(* Enter with |q *)
LeaveChat ==
    /\ Key("Chat")
    /\ Line("quit")
    /\ inputLine' = None
    /\ uiState' = "MainMenu"
    /\ activeChatService' = None
    /\ UNCHANGED <<priorUiState, pendingOffer, lastNotification>>
    /\ Render("MainMenu", lastNotification)
    /\ UNCHANGED <<fixed, status, used, past, inMailBox, todo, lists, logs, posted,
                   io, gui, missed>>

(* Enter with |r or with nothing *)
RedrawChat ==
    /\ Key("Chat")
    /\ inputLine = None \/ Line("redraw")
    /\ inputLine' = None
    /\ UNCHANGED <<uiState, priorUiState, pendingOffer, activeChatService, lastNotification>>
    /\ Render("Chat", lastNotification)
    /\ UNCHANGED <<fixed, status, used, past, inMailBox, todo, lists, logs, posted,
                   io, gui, missed>>

(* Enter with a text, or with |f and a file: without a session nothing is  *)
(* sent, and the line is gone.                                             *)
SendChatLine ==
    /\ Key("Chat")
    /\ Line("text") \/ Line("file")
    /\ Use("texts")
    /\ inputLine' = None
    /\ UNCHANGED <<uiState, priorUiState, pendingOffer, activeChatService, lastNotification>>
    /\ IF GetSessionIDFromServiceName(activeChatService)
       THEN /\ io' = [peer |-> activeChatService,
                      entry |-> Entry("me", inputLine.kind, used'.texts, inputLine.len)]
            /\ UNCHANGED <<screen, shown>>
       ELSE /\ Render("Chat", lastNotification)
            /\ UNCHANGED io
    /\ UNCHANGED <<fixed, status, past, inMailBox, todo, lists, logs, posted, gui,
                   missed>>

(* y or n: the verdict is FileTransfer's. *)
HandleFileOfferKey ==
    /\ Key("FileOffer")
    /\ pendingOffer' = None
    /\ uiState' = priorUiState
    /\ UNCHANGED <<priorUiState, activeChatService, inputLine, lastNotification>>
    /\ Render(uiState', lastNotification)
    /\ UNCHANGED <<fixed, status, used, past, inMailBox, todo, lists, logs, posted,
                   io, gui, missed>>

Lines == {[kind |-> k, len |-> 2] : k \in {"quit", "redraw", "file"}} \cup
         {[kind |-> "text", len |-> n] : n \in Lengths}

OnKey ==
    \/ Redraw
    \/ \E n \in 1..9 : EnterChat(n)
    \/ Quit
    \/ \E line \in Lines \cup {None} : Type(line)
    \/ LeaveChat
    \/ RedrawChat
    \/ SendChatLine
    \/ HandleFileOfferKey
-----------------------------------------------------------------------------
(* The GUI's main thread: ChatModel and the bridge *)

MessagesFor(q) == IF q = None THEN <<>> ELSE chatLogsM[q]

RefreshMessages ==
    /\ messages' = MessagesFor(selectedPeer)
    /\ UNCHANGED <<peers, selectedPeer>>

(* Mutant: the selection is left alone. *)
RefreshPeersKeeps ==
    /\ peers' = sessions_m
    /\ UNCHANGED <<selectedPeer, messages>>

(* A peer that has gone is deselected. *)
RefreshPeers ==
    /\ peers' = sessions_m
    /\ IF selectedPeer = None \/ selectedPeer \in Range(peers')
       THEN UNCHANGED <<selectedPeer, messages>>
       ELSE selectedPeer' = None /\ messages' = <<>>

Select(q) ==
    /\ selectedPeer' = q
    /\ messages' = MessagesFor(q)
    /\ UNCHANGED peers

(* What was dispatched to the main thread, one after the other. *)
Dispatched ==
    /\ mainQueue # <<>>
    /\ mainQueue' = Tail(mainQueue)
    /\ LET e == Head(mainQueue) IN
       CASE e.event = "PEERS"  -> RefreshPeers
         [] e.event = "SELECT" -> Select(e.peer)
         [] OTHER              -> RefreshMessages
    /\ UNCHANGED <<fixed, status, used, past, inMailBox, todo, lists, logs, posted,
                   io, console, missed>>

(* The timer of 0.25 s *)
ProgressTimer ==
    /\ client = "gui"
    /\ RefreshPeers
    /\ UNCHANGED <<fixed, status, used, past, inMailBox, todo, lists, logs, posted,
                   io, console, mainQueue, missed>>

(* A click on a peer: the selection itself is dispatched. *)
Click(q) ==
    /\ client = "gui"
    /\ q \in Range(peers)
    /\ \A i \in DOMAIN mainQueue : mainQueue[i].event # "SELECT"
    /\ mainQueue' = Append(mainQueue, Event("SELECT", q))
    /\ UNCHANGED <<fixed, status, used, past, inMailBox, todo, lists, logs, posted,
                   io, console, view, missed>>

(* send and sendFile: the rest is posted to the io thread. *)
Send(line) ==
    /\ client = "gui"
    /\ selectedPeer # None
    /\ line.kind \in {"text", "file"}
    /\ Use("texts")
    /\ posted' = Append(posted, [event |-> "SEND", peer |-> selectedPeer,
                   entry |-> Entry("me", line.kind, used'.texts, line.len)])
    /\ IF line.kind = "text" THEN RefreshMessages ELSE UNCHANGED view
    /\ UNCHANGED <<fixed, status, past, inMailBox, todo, lists, logs, io, console,
                   mainQueue, missed>>

(* The functions SendText and SendFile post: without a session nothing is  *)
(* sent, and the user is not told.                                         *)
SendText ==
    /\ Posted("SEND")
    /\ LET p == Head(posted) IN
       io' = IF GetSessionIDFromServiceName(p.peer)
             THEN [peer |-> p.peer, entry |-> p.entry] ELSE None
    /\ UNCHANGED <<fixed, status, used, past, inMailBox, todo, lists, logs, console,
                   gui, missed>>
-----------------------------------------------------------------------------
MailboxThread ==
    \/ HandlePublishedServices
    \/ HandleResolvedServices
    \/ HandleServiceDeregistration
    \/ HandleMessageIncoming
    \/ HandleFileOffer
    \/ HandleFileTransferEnd
    \/ PrintFromMailbox
    \/ PostMessage
    \/ Notify

IoThread ==
    \/ ShowMessage
    \/ ShowOffer
    \/ SendText
    \/ SendDataToNode
    \/ InitiateFileTransferWithSession

MainThread == Dispatched \/ ProgressTimer

Environment ==
    \E q \in Peers :
      \/ \E event \in {"PUBLISHED", "RESOLVED", "DEREGISTERED"} : Report(event, q)
      \/ \E i \in 1..Len(sessions_m) + 1 : ListSession(q, i)
      \/ \E event \in {"MESSAGE", "END", "OFFER"} : Arrive(event, q)

User == OnKey \/ \E q \in Peers : Click(q) \/ \E line \in Lines : Send(line)

Next == Runs /\ (MailboxThread \/ IoThread \/ MainThread \/ Environment \/ User)

Spec == Init /\ [][Next]_vars

(* The threads go on; neither the user nor anybody else has to. *)
FairSpec ==
    /\ Spec
    /\ WF_vars(Runs /\ MailboxThread)
    /\ WF_vars(Runs /\ IoThread)
    /\ WF_vars(Runs /\ Dispatched)
    /\ WF_vars(Runs /\ ProgressTimer)
-----------------------------------------------------------------------------
Notices == [peer : Peers, message : Entries]
States  == {"MainMenu", "Chat", "FileOffer"}
Mails   == [event : {"PUBLISHED", "RESOLVED", "DEREGISTERED", "MESSAGE", "END", "OFFER"},
            peer : Peers, n : Nat]
Events  == [event : {"print", "printing", "PEERS", "MESSAGES", "PROGRESS", "SELECT"},
            peer : Peers \cup {None}]
Jobs    == [event : {"SEND"}, peer : Peers, entry : Entries]
Inputs  == [kind : {"quit", "redraw", "file", "text"}, len : Nat] \cup {None}

Screens ==
    [kind : States, chat : Peers \cup {None}, sessions : Seq(Peers),
     banner : Notices \cup {None}, log : Seq(Entries), input : Inputs,
     stale : {"no", "yes"}, by : {"io", "mailbox"}]

ProcessOK ==
    /\ client \in {"console", "gui"}
    /\ status \in {"running", "quit", "aborted"}
    /\ budget \in Budgets
    /\ used \in [Kinds -> Nat]
    /\ met \subseteq Peers
    /\ arrived \in [Peers -> SUBSET Entries]

QueuesOK ==
    /\ inMailBox \in Seq(Mails)
    /\ todo \in Seq(Events \cup Mails)
    /\ posted \in Seq(Mails \cup Jobs)
    /\ mainQueue \in Seq(Events)

SessionsOK ==
    /\ serviceV \subseteq Peers
    /\ sessions_m \in Seq(Peers)
    /\ \A i, j \in DOMAIN sessions_m : sessions_m[i] = sessions_m[j] => i = j

LogsOK ==
    /\ chatLogsM \in [Peers -> Seq(Entries)]
    /\ sent \in [Peers -> Seq(Entries)]
    /\ io \in [peer : Peers, entry : Entries] \cup {None}

KeysOK ==
    /\ uiState \in States /\ priorUiState \in States
    /\ pendingOffer \in Mails \cup {None}
    /\ activeChatService \in Peers \cup {None}
    /\ uiState = "Chat" => activeChatService # None
    /\ inputLine \in Inputs

ScreenOK ==
    /\ lastNotification \in Notices \cup {None}
    /\ screen \in Screens
    /\ shown \subseteq Notices /\ missed \subseteq Notices

WindowOK ==
    /\ peers \in Seq(Peers)
    /\ selectedPeer \in Peers \cup {None}
    /\ messages \in Seq(Entries)

(* The types.  A chat has a peer, the prompt is only the console's, and no *)
(* service is listed twice.                                                *)
TypeOK ==
    /\ ProcessOK
    /\ QueuesOK
    /\ SessionsOK
    /\ LogsOK
    /\ KeysOK
    /\ ScreenOK
    /\ WindowOK

(* Where in q's log this machine's texts are, and where the peer's entries *)
(* are; where in the mailbox those are that wait to be logged.             *)
Mine(q)   == {i \in DOMAIN chatLogsM[q] :
                chatLogsM[q][i].by = "me" /\ chatLogsM[q][i].kind = "text"}
Theirs(q) == {i \in DOMAIN chatLogsM[q] : chatLogsM[q][i].by = "peer"}
Mailed(q) == {i \in DOMAIN inMailBox :
                inMailBox[i].peer = q /\ inMailBox[i].event \in {"MESSAGE", "END"}}

(* The text e of a log is s as the session was given it, at its length if  *)
(* it fits into a frame.                                                   *)
Written(e, s) == s.n = e.n /\ (e.len <= Payload => s.len = e.len)

(* A log shows what was said.  This machine's texts in it are the ones its *)
(* session was given to write, all of them and in their order; logging     *)
(* comes after sending, with a session that may go in between.  The peer's *)
(* entries are the messages and files that arrived from it, in their order *)
(* and none of them twice, and every one that arrived is in the log of its *)
(* peer or still in the mailbox, behind the ones that are logged: none is  *)
(* lost, whichever sessions have gone since.                               *)
LogsExact ==
    \A q \in Peers :
      LET log == chatLogsM[q] IN
      /\ \A i, j \in Mine(q) : i < j => log[i].n < log[j].n
      /\ \A i, j \in DOMAIN sent[q] : i < j => sent[q][i].n < sent[q][j].n
      /\ \A i \in Mine(q) : \E j \in DOMAIN sent[q] : Written(log[i], sent[q][j])
      /\ \A j \in DOMAIN sent[q] : \E i \in Mine(q) : Written(log[i], sent[q][j])
      /\ \A i, j \in Theirs(q) : i < j => log[i].n < log[j].n
      /\ \A i \in Theirs(q), j \in Mailed(q) : log[i].n < inMailBox[j].n
      /\ \A i, j \in Mailed(q) : i < j => inMailBox[i].n < inMailBox[j].n
      /\ arrived[q] = {log[i] : i \in Theirs(q)} \cup
                      {Coming(inMailBox[i].event, inMailBox[i].n) : i \in Mailed(q)}

(* A redraw for a message of q is under way. *)
Redrawing(q) ==
    \/ \E i \in DOMAIN todo : todo[i].event = "MESSAGE" /\ todo[i].peer = q
    \/ \E i \in DOMAIN posted : posted[i].event = "MESSAGE" /\ posted[i].peer = q

(* What the user sees is where the keys go: unless the mailbox thread drew *)
(* last (PrintAll, from HandlePublishedServices and                        *)
(* HandleServiceDeregistration), the screen is the one of uiState, with    *)
(* the line typed so far, the latest notification, and the end of the      *)
(* chat's log or a redraw on its way.                                      *)
ScreenFollows ==
    client = "console" /\ screen.by = "io" /\ io = None =>
      /\ screen.kind = uiState
      /\ uiState # "FileOffer" => screen.banner = lastNotification
      /\ uiState = "Chat" =>
           /\ screen.chat = activeChatService
           /\ screen.input = inputLine
           /\ \/ screen.log = LastMessages(chatLogsM[activeChatService])
              \/ Redrawing(activeChatService)

(* "the numbering stays consistent between display and selection": a digit *)
(* opens the chat that is drawn beside it, unless the mailbox thread has   *)
(* removed a session and not drawn yet, or since the drawing a session was *)
(* listed before another one.  One listed at the end changes no number.    *)
NumberMeansDisplayed ==
    [][ \A n \in DOMAIN screen.sessions :
          /\ EnterChat(n)
          /\ screen.stale = "no"
          /\ \A i \in DOMAIN todo : todo[i].event # "print"
          => activeChatService' = screen.sessions[n] ]_vars

(* "a message always appears without the user pressing anything": every    *)
(* message is drawn, in its chat or as the notification, if the threads go *)
(* on, unless the prompt of an offer is up or TEN_LAST_MESSAGES came after *)
(* it before it was drawn.                                                 *)
Surfaces ==
    <>[](client = "console" /\ Runs =>
           /\ inMailBox = <<>>
           /\ \A q \in Peers : \A i \in DOMAIN chatLogsM[q] :
                chatLogsM[q][i].by = "peer" =>
                  Notice(q, chatLogsM[q][i]) \in shown \cup missed)

(* Somebody is about to refresh the messages. *)
Refreshing ==
    \/ \E i \in DOMAIN todo : todo[i].event = "MESSAGES"
    \/ \E i \in DOMAIN mainQueue : mainQueue[i].event \in {"MESSAGES", "PROGRESS"}

(* The window shows the log of the peer that is selected, or is about to:  *)
(* no order of Notify, dispatch, selection and sending leaves it behind.   *)
GuiFresh ==
    client = "gui" => messages = MessagesFor(selectedPeer) \/ Refreshing

(* Sessions come without an event (the comment in ChatModel.start), and    *)
(* the timer makes up for it: when nothing changes any more the window     *)
(* lists the sessions there are, has none selected that has gone, and      *)
(* shows the selected one's log.                                           *)
ViewSettles ==
    <>[](client = "gui" /\ Runs =>
           /\ peers = sessions_m
           /\ selectedPeer \in Range(sessions_m) \cup {None}
           /\ messages = MessagesFor(selectedPeer))
=============================================================================
